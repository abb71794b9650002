---------------------------- MODULE KVQueueProofs ----------------------------
(***************************************************************************)
(* Proofs about KVQueue, for every number of messages, dispatches and      *)
(* processes.  BaseInv holds whatever goes wrong; as long as no fetch      *)
(* fails, no lease is lost and no lookup returns a deleted key, a lease    *)
(* has one holder (Leases); and as long as nothing is cut off either, a    *)
(* job has one key and its invocation knows it (Accounted), which makes    *)
(* the queue the abstract one.                                             *)
(***************************************************************************)
EXTENDS KVQueue, TLAPS, FiniteSetTheorems

Over == {"done", "dropped"}

\* What a slot's two sides are in the middle of.
SlotInv(s) ==
  /\ client[s] # "none" /\ pc[s] # "idle" => sent[s].m = cur[s].m
  /\ client[s] = "store" => TriesAgain(sent[s])
  /\ pc[s] = "failstore" => TriesAgain(cur[s])
  /\ pc[s] = "faildelete" /\ ~TriesAgain(cur[s]) => fate[cur[s].m] \in Over
  /\ pc[s] = "donedelete" => fate[cur[s].m] \in Over

BaseInv == TypeOK /\ \A s \in Slot : SlotInv(s)

\* The stretch of a wrapper invocation during which the lease is its own.
Leasing == {"sent", "running", "faildelete", "failstore", "failrelease",
            "donedelete", "donerelease", "sleepdelete", "sleeprelease"}

\* A lease under which a job is delivered is there, and nobody else's.
Leases ==
  /\ \A s \in Slot : client[s] \in {"none", "open"}
  /\ \A s \in Slot : pc[s] \in Leasing => cur[s].m \in lease
  /\ \A s, t \in Slot : pc[s] \in Leasing /\ pc[t] \in Leasing /\ s # t => cur[s].m # cur[t].m

ExclusiveInv == calm => Leases

Holding == {"running", "faildelete", "failstore", "sleepdelete", "sleeprelease", "sleepstore"}

Working == Holding \union {"donedelete"}

\* The stretch during which it still has to delete the key that it found.
HasKey == {"running", "faildelete", "sleepdelete", "donedelete"}

Keys(m) == {j \in jobs : j.m = m}

\* What a wrapper invocation knows of its job, key and all.
SlotAccount(s) ==
  LET j == cur[s] IN
  /\ pc[s] \in HasKey => j \in jobs
  /\ pc[s] \in {"failstore", "sleeprelease", "sleepstore"} => Keys(j.m) = {}
  /\ pc[s] \in Holding \ {"faildelete"} => fate[j.m] = "queued"
  /\ pc[s] \in {"running", "sleepdelete", "sleeprelease", "sleepstore"} => j.attempt = fails[j.m] + 1
  /\ pc[s] \in {"faildelete", "failstore"} => j.attempt = fails[j.m]
  /\ pc[s] = "faildelete" => fate[j.m] = IF TriesAgain(j) THEN "queued" ELSE "dropped"
  /\ pc[s] = "donedelete" => fate[j.m] = "done"

\* A job has one key, which counts its failures; a key outlives its job only
\* as long as the invocation that ended it has still to delete it.
KeyAccount(j) ==
  /\ \A k \in jobs : k.m = j.m => k = j
  /\ \/ fate[j.m] = "queued" /\ j.attempt = fails[j.m] + 1
     \/ \E s \in Slot : pc[s] \in {"faildelete", "donedelete"} /\ cur[s].m = j.m

Accounted ==
  /\ \A s \in Slot : SlotAccount(s)
  /\ \A j \in jobs : KeyAccount(j)
  /\ \A s, t \in Slot : pc[s] \in Working /\ pc[t] \in Working /\ s # t => cur[s].m # cur[t].m
  /\ \A m \in Message : fate[m] = "new" => fails[m] = 0

Serene == calm /\ cut = 0

AccountInv == Serene => Accounted

----------------------------------------------------------------------------
(* Types, and what becomes of a slot.                                      *)

\* What a step at one slot leaves alone.
OnlySlot(s) ==
  /\ \A t \in Slot : t # s => /\ pc'[t] = pc[t] /\ cur'[t] = cur[t]
                              /\ client'[t] = client[t] /\ sent'[t] = sent[t]
  /\ \A m \in Message : fate[m] \in Over => fate'[m] \in Over

LEMMA SlotsSpared ==
  ASSUME BaseInv, NEW s \in Slot, OnlySlot(s), SlotInv(s)', TypeOK'
  PROVE  BaseInv'
<1>1. ASSUME NEW t \in Slot, t # s PROVE SlotInv(t)'
  <2>1. /\ SlotInv(t) /\ pc'[t] = pc[t] /\ cur'[t] = cur[t]
        /\ client'[t] = client[t] /\ sent'[t] = sent[t]
    BY <1>1 DEF BaseInv, OnlySlot
  <2>2. pc[t] \in {"faildelete", "donedelete"} => cur[t].m \in Message
    BY <1>1 DEF BaseInv, TypeOK, Job
  <2> QED BY <2>1, <2>2 DEF SlotInv, OnlySlot, TriesAgain
<1> QED BY <1>1 DEF BaseInv

LEMMA Stores ==
  ASSUME TypeOK, NEW m \in Message, NEW a \in 1..MaxAttempts, StoreJob(m, a)
  PROVE  /\ jobs' \subseteq Job /\ jobs \subseteq jobs' /\ gone' = gone
         /\ \E k \in jobs' : k.m = m /\ k.attempt = a /\ jobs' = jobs \union {k}
<1>1. PICK n \in 1..Cardinality(jobs \union gone) + 1 :
        jobs' = jobs \union {[m |-> m, n |-> n, attempt |-> a]}
  BY DEF StoreJob
<1>2. n \in Nat
  OBVIOUS
<1> DEFINE k == [m |-> m, n |-> n, attempt |-> a]
<1>3. k \in Job /\ k.m = m /\ k.attempt = a
  BY <1>2 DEF Job
<1>4. jobs \subseteq Job /\ jobs' = jobs \union {k} /\ gone' = gone
  BY <1>1 DEF TypeOK, StoreJob
<1> HIDE DEF k
<1> QED BY <1>3, <1>4

LEMMA Deletes ==
  ASSUME TypeOK, NEW j \in Job, DeleteJob(j)
  PROVE  /\ jobs' \subseteq jobs /\ j \notin jobs'
         /\ \A k \in jobs : k.m # j.m => k \in jobs'
         /\ jobs' \subseteq Job /\ gone' \subseteq Job
BY DEF DeleteJob, SameKey, TypeOK

LEMMA Moves ==
  ASSUME TypeOK, NEW s \in Slot, NEW from, from # "idle", NEW to \in Wrapper,
         Move(s, from, to)
  PROVE  /\ pc[s] = from /\ pc'[s] = to
         /\ pc' \in [Slot -> Wrapper] /\ cur' \in [Slot -> Job \union {None}]
         /\ \A t \in Slot : cur'[t] = None => pc'[t] = "idle"
         /\ IF to = "idle" THEN cur'[s] = None ELSE cur' = cur
         /\ \A t \in Slot : t # s => pc'[t] = pc[t] /\ cur'[t] = cur[t]
         /\ UNCHANGED <<client, sent, trying>>
<1>1. /\ pc[s] = from /\ pc' = [pc EXCEPT ![s] = to]
      /\ cur' = IF to = "idle" THEN [cur EXCEPT ![s] = None] ELSE cur
      /\ UNCHANGED <<client, sent, trying>>
  BY DEF Move
<1>2. pc \in [Slot -> Wrapper] /\ cur \in [Slot -> Job \union {None}]
  BY DEF TypeOK
<1>3. /\ pc' \in [Slot -> Wrapper] /\ pc'[s] = to
      /\ \A t \in Slot : t # s => pc'[t] = pc[t]
  BY <1>1, <1>2
<1>4. /\ cur' \in [Slot -> Job \union {None}]
      /\ IF to = "idle" THEN cur'[s] = None ELSE cur' = cur
      /\ \A t \in Slot : t # s => cur'[t] = cur[t]
  BY <1>1, <1>2
<1>5. \A t \in Slot : cur'[t] = None => pc'[t] = "idle"
  <2> SUFFICES ASSUME NEW t \in Slot, cur'[t] = None PROVE pc'[t] = "idle"
    OBVIOUS
  <2>1. CASE t # s
    BY <1>3, <1>4, <2>1 DEF TypeOK
  <2>2. CASE t = s
    <3>1. to # "idle" => cur[s] = None
      BY <1>4, <2>2
    <3>2. to # "idle" => pc[s] = "idle"
      BY <3>1 DEF TypeOK
    <3> QED BY <1>1, <1>3, <2>2, <3>2
  <2> QED BY <2>1, <2>2
<1> QED BY <1>1, <1>3, <1>4, <1>5

LEMMA SlotsStill ==
  ASSUME BaseInv, UNCHANGED slots, TypeOK',
         \A m \in Message : fate[m] \in Over => fate'[m] \in Over
  PROVE  BaseInv'
<1> SUFFICES ASSUME NEW t \in Slot PROVE SlotInv(t)'
  BY DEF BaseInv
<1>1. SlotInv(t) /\ UNCHANGED <<client, sent, pc, cur>>
  BY DEF BaseInv, slots
<1>2. pc[t] \in {"faildelete", "donedelete"} => cur[t].m \in Message
  BY DEF BaseInv, TypeOK, Job
<1> QED BY <1>1, <1>2 DEF SlotInv, TriesAgain

\* A job in a slot is one.
LEMMA Jobs ==
  ASSUME TypeOK, NEW s \in Slot
  PROVE  /\ pc[s] # "idle" => cur[s] \in Job /\ cur[s].m \in Message /\ cur[s].attempt \in 1..MaxAttempts
         /\ client[s] # "none" => sent[s] \in Job /\ sent[s].m \in Message /\ sent[s].attempt \in 1..MaxAttempts
BY DEF TypeOK, Job

LEMMA Attempts ==
  ASSUME NEW j \in Job, TriesAgain(j)
  PROVE  j.attempt + 1 \in 1..MaxAttempts
BY KVQueueAssumption DEF Job, TriesAgain

LEMMA EnqueueBase ==
  ASSUME BaseInv, NEW m \in Message, Enqueue(m)
  PROVE  BaseInv'
<1>1. TypeOK /\ 1 \in 1..MaxAttempts
  BY KVQueueAssumption DEF BaseInv
<1>2. jobs' \subseteq Job /\ gone' = gone
  BY <1>1, Stores DEF Enqueue
<1>3. fate' \in [Message -> {"new", "queued", "done", "dropped"}]
  BY <1>1 DEF Enqueue, TypeOK
<1>4. \A n \in Message : fate[n] \in Over => fate'[n] \in Over
  BY <1>1 DEF Enqueue, TypeOK, Over
<1>5. UNCHANGED <<lease, trying, slots, fails, bounds>>
  BY DEF Enqueue
<1>6. TypeOK'
  BY <1>1, <1>2, <1>3, <1>5 DEF TypeOK, slots, bounds
<1> QED BY <1>4, <1>5, <1>6, SlotsStill

\* What a step that may shake the leases does to the bounds.
LEMMA Counted ==
  ASSUME TypeOK, Shaken \/ UNCHANGED <<turns, calm>> \/ (OneMore /\ UNCHANGED calm)
  PROVE  turns' \in Nat /\ calm' \in BOOLEAN /\ (calm' => calm)
<1>1. turns \in Nat /\ calm \in BOOLEAN
  BY DEF TypeOK
<1>2. turns' = turns \/ turns' = turns + 1
  BY DEF Shaken, OneMore
<1>3. calm' = calm \/ calm' = FALSE
  BY DEF Shaken
<1>4. turns' \in Nat
  BY <1>1, <1>2
<1>5. CASE calm' = FALSE
  <2>1. calm' \in BOOLEAN /\ (calm' => calm)
    BY <1>5
  <2> QED BY <1>4, <2>1
<1>6. CASE calm' = calm
  <2>1. calm' \in BOOLEAN
    BY <1>1, <1>6
  <2>2. calm' => calm
    BY <1>6, Zenon
  <2> QED BY <1>4, <2>1, <2>2
<1> QED BY <1>3, <1>5, <1>6, Zenon

LEMMA LeaseExpiresBase ==
  ASSUME BaseInv, NEW m \in Message, LeaseExpires(m)
  PROVE  BaseInv'
<1>1. TypeOK
  BY DEF BaseInv
<1>2. lease' \subseteq Message
  BY <1>1 DEF LeaseExpires, TypeOK
<1>3. turns' \in Nat /\ calm' \in BOOLEAN
  BY <1>1, Counted DEF LeaseExpires
<1>4. UNCHANGED <<jobs, gone, trying, slots, fate, fails, cut>>
  BY DEF LeaseExpires
<1>5. TypeOK'
  BY <1>1, <1>2, <1>3, <1>4 DEF TypeOK, slots
<1> QED BY <1>4, <1>5, SlotsStill

LEMMA ReadBase ==
  ASSUME BaseInv, NEW h \in Host, NEW j \in jobs \union gone, ReadJob(h, j)
  PROVE  BaseInv'
<1>1. TypeOK /\ j \in Job
  BY DEF BaseInv, TypeOK
<1>2. UNCHANGED <<kv, slots, fate, fails, bounds>>
  BY DEF ReadJob
<1>3. trying' \in [Host -> Job \union {None}]
  BY <1>1 DEF TypeOK, ReadJob
<1>4. TypeOK'
  BY <1>1, <1>2, <1>3 DEF TypeOK, kv, slots, bounds
<1> QED BY <1>2, <1>4, SlotsStill

LEMMA LeasePutSlot ==
  ASSUME BaseInv, NEW h \in Host, NEW s \in Slot, LeasePut(h, s)
  PROVE  /\ OnlySlot(s) /\ UNCHANGED <<jobs, gone, fate, fails, cut>>
         /\ trying[h] \in Job /\ lease' = lease \union {trying[h].m}
         /\ pc[s] = "idle" /\ pc'[s] = "sent" /\ cur'[s] = trying[h]
         /\ client[s] = "none" /\ client'[s] = "open" /\ sent'[s] = trying[h]
         /\ BaseInv'
<1>1. TypeOK
  BY DEF BaseInv
<1>2. trying[h] \in Job /\ trying[h].m \in Message
  BY <1>1 DEF TypeOK, LeasePut, Job
<1>3. UNCHANGED <<jobs, gone, fate, fails, cut>>
  BY DEF LeasePut
<1>4. /\ sent' = [sent EXCEPT ![s] = trying[h]] /\ cur' = [cur EXCEPT ![s] = trying[h]]
      /\ client' = [client EXCEPT ![s] = "open"] /\ pc' = [pc EXCEPT ![s] = "sent"]
      /\ client[s] = "none" /\ pc[s] = "idle"
      /\ lease' = lease \union {trying[h].m}
  BY DEF LeasePut, Leased
<1>5. /\ sent'[s] = trying[h] /\ cur'[s] = trying[h]
      /\ client'[s] = "open" /\ pc'[s] = "sent"
  BY <1>1, <1>4 DEF TypeOK
<1>6. OnlySlot(s)
  BY <1>1, <1>3, <1>4 DEF TypeOK, OnlySlot
<1>7. SlotInv(s)'
  BY <1>5 DEF SlotInv
<1>8. TypeOK'
  <2>1. turns' \in Nat /\ calm' \in BOOLEAN
    BY <1>1, Counted DEF LeasePut
  <2>2. lease' \subseteq Message
    BY <1>1, <1>2, <1>4 DEF TypeOK
  <2>3. trying' \in [Host -> Job \union {None}]
    <3>1. trying' = [trying EXCEPT ![h] = None]
      BY DEF LeasePut
    <3> QED BY <1>1, <3>1 DEF TypeOK
  <2>4. /\ sent' \in [Slot -> Job \union {None}] /\ cur' \in [Slot -> Job \union {None}]
        /\ client' \in [Slot -> ClientState] /\ pc' \in [Slot -> Wrapper]
    BY <1>1, <1>2, <1>4 DEF TypeOK, ClientState, Wrapper
  <2>5. \A t \in Slot : (sent'[t] = None => client'[t] = "none") /\ (cur'[t] = None => pc'[t] = "idle")
    BY <1>1, <1>2, <1>5, <1>6, KVQueueAssumption DEF TypeOK, OnlySlot
  <2> QED BY <1>1, <1>3, <2>1, <2>2, <2>3, <2>4, <2>5 DEF TypeOK
<1> QED BY <1>2, <1>3, <1>4, <1>5, <1>6, <1>7, <1>8, SlotsSpared

LEMMA ArriveSlot ==
  ASSUME BaseInv, NEW s \in Slot, Arrive(s)
  PROVE  /\ BaseInv' /\ OnlySlot(s) /\ pc[s] = "sent"
         /\ \/ /\ pc'[s] = "running"
               /\ cur'[s].m = cur[s].m
               /\ calm' => cur'[s] \in jobs
            \/ pc'[s] = "idle" /\ cur'[s] = None
         /\ UNCHANGED <<kv, client, sent, fate, fails, cut>>
         /\ calm' => calm
<1>1. TypeOK /\ cur[s] \in Job /\ SlotInv(s) /\ pc[s] = "sent"
  BY Jobs DEF BaseInv, Arrive
<1>2. UNCHANGED <<kv, trying, client, sent, fate, fails, cut>>
  BY DEF Arrive
<1>3. PICK to \in {"running", "idle"}, j \in Job \union {None} :
        /\ pc' = [pc EXCEPT ![s] = to] /\ cur' = [cur EXCEPT ![s] = j]
        /\ IF to = "running" THEN j \in Job /\ j.m = cur[s].m /\ (calm' => j \in jobs) ELSE j = None
        /\ Shaken \/ UNCHANGED <<turns, calm>>
  <2>1. CASE \E j \in jobs \union gone :
               /\ j.m = cur[s].m
               /\ pc' = [pc EXCEPT ![s] = "running"]
               /\ cur' = [cur EXCEPT ![s] = j]
               /\ IF j \in gone THEN Shaken ELSE UNCHANGED <<turns, calm>>
    <3>1. PICK j \in jobs \union gone :
            /\ j.m = cur[s].m
            /\ pc' = [pc EXCEPT ![s] = "running"]
            /\ cur' = [cur EXCEPT ![s] = j]
            /\ IF j \in gone THEN Shaken ELSE UNCHANGED <<turns, calm>>
      BY <2>1
    <3>2. j \in Job /\ (calm' => j \in jobs)
      BY <1>1, <3>1 DEF TypeOK, Shaken
    <3>3. Shaken \/ UNCHANGED <<turns, calm>>
      BY <3>1
    <3> QED BY <3>1, <3>2, <3>3
  <2>2. CASE pc' = [pc EXCEPT ![s] = "idle"] /\ cur' = [cur EXCEPT ![s] = None]
             /\ UNCHANGED <<turns, calm>>
    BY <2>2
  <2> QED BY <2>1, <2>2 DEF Arrive
<1>4. pc'[s] = to /\ cur'[s] = j
  BY <1>1, <1>3 DEF TypeOK
<1>5. OnlySlot(s)
  BY <1>1, <1>2, <1>3 DEF OnlySlot, TypeOK
<1>6. SlotInv(s)'
  BY <1>1, <1>2, <1>3, <1>4 DEF SlotInv
<1>7. turns' \in Nat /\ calm' \in BOOLEAN /\ (calm' => calm)
  BY <1>1, <1>3, Counted
<1>8. TypeOK'
  <2>1. pc' \in [Slot -> Wrapper] /\ cur' \in [Slot -> Job \union {None}]
    BY <1>1, <1>3 DEF TypeOK, Wrapper
  <2>2. \A t \in Slot : cur'[t] = None => pc'[t] = "idle"
    <3>1. to = "running" => j # None
      BY <1>3, KVQueueAssumption
    <3> QED BY <1>1, <1>4, <1>5, <3>1 DEF TypeOK, OnlySlot
  <2> QED BY <1>1, <1>2, <1>7, <2>1, <2>2 DEF TypeOK, kv
<1> QED BY <1>1, <1>2, <1>3, <1>4, <1>5, <1>6, <1>7, <1>8, SlotsSpared

\* The steps of a handler and the deletes, releases and puts after it.
LEMMA MoveTyped ==
  ASSUME TypeOK, NEW s \in Slot, NEW from, from # "idle", NEW to \in Wrapper,
         Move(s, from, to), jobs' \subseteq Job, gone' \subseteq Job, lease' \subseteq Message,
         fate' \in [Message -> {"new", "queued", "done", "dropped"}],
         fails' \in [Message -> 0..MaxAttempts],
         {turns, cut}' \subseteq Nat, calm' \in BOOLEAN
  PROVE  TypeOK'
<1>1. /\ pc' \in [Slot -> Wrapper] /\ cur' \in [Slot -> Job \union {None}]
      /\ \A t \in Slot : cur'[t] = None => pc'[t] = "idle"
      /\ UNCHANGED <<client, sent, trying>>
  BY Moves
<1> QED BY <1>1 DEF TypeOK

LEMMA MoveBase ==
  ASSUME BaseInv, NEW s \in Slot, NEW from, from # "idle", NEW to \in Wrapper,
         Move(s, from, to), TypeOK',
         \A m \in Message : fate[m] \in Over => fate'[m] \in Over,
         to = "failstore" => TriesAgain(cur[s]),
         to = "donedelete" \/ (to = "faildelete" /\ ~TriesAgain(cur[s])) => fate'[cur[s].m] \in Over
  PROVE  BaseInv' /\ OnlySlot(s)
<1>1. /\ TypeOK /\ SlotInv(s)
  BY DEF BaseInv
<1>2. /\ pc[s] = from /\ pc'[s] = to
      /\ IF to = "idle" THEN cur'[s] = None ELSE cur' = cur
      /\ \A t \in Slot : t # s => pc'[t] = pc[t] /\ cur'[t] = cur[t]
      /\ UNCHANGED <<client, sent, trying>>
  BY <1>1, Moves
<1>3. OnlySlot(s)
  BY <1>2 DEF OnlySlot
<1>4. SlotInv(s)'
  BY <1>1, <1>2 DEF SlotInv, TriesAgain
<1> QED BY <1>3, <1>4, SlotsSpared

LEMMA HandlerSlot ==
  ASSUME BaseInv, NEW s \in Slot, HandlerReturns(s) \/ HandlerSleeps(s) \/ HandlerThrows(s)
  PROVE  BaseInv' /\ OnlySlot(s)
<1>1. /\ TypeOK /\ SlotInv(s) /\ pc[s] = "running" /\ cur[s] \in Job /\ cur[s].m \in Message
  <2>1. TypeOK /\ SlotInv(s) /\ pc[s] = "running"
    BY DEF BaseInv, HandlerReturns, HandlerSleeps, HandlerThrows, Move
  <2> QED BY <2>1, Jobs
<1>2. UNCHANGED kv
  BY DEF HandlerReturns, HandlerSleeps, HandlerThrows
<1>3. jobs' \subseteq Job /\ gone' \subseteq Job /\ lease' \subseteq Message
  BY <1>1, <1>2 DEF TypeOK, kv
<1>4. CASE HandlerReturns(s)
  <2>1. Move(s, "running", "donedelete") /\ UNCHANGED <<fails, bounds>>
        /\ fate' = [fate EXCEPT ![cur[s].m] = "done"]
    BY <1>4 DEF HandlerReturns
  <2>2. /\ fate' \in [Message -> {"new", "queued", "done", "dropped"}]
        /\ fate'[cur[s].m] \in Over
        /\ \A m \in Message : fate[m] \in Over => fate'[m] \in Over
    BY <1>1, <2>1 DEF TypeOK, Over
  <2>3. "donedelete" \in Wrapper
    BY DEF Wrapper
  <2>4. TypeOK'
    BY <1>1, <1>3, <2>1, <2>2, <2>3, MoveTyped DEF TypeOK, bounds
  <2> QED BY <2>1, <2>2, <2>3, <2>4, MoveBase
<1>5. CASE HandlerSleeps(s)
  <2>1. Move(s, "running", "sleepdelete")
        /\ OneMore /\ UNCHANGED <<fate, fails, calm, cut>>
    BY <1>5 DEF HandlerSleeps
  <2>2. "sleepdelete" \in Wrapper
    BY DEF Wrapper
  <2>3. {turns, cut}' \subseteq Nat /\ calm' \in BOOLEAN
    BY <1>1, <2>1, Counted DEF TypeOK
  <2>4. TypeOK'
    BY <1>1, <1>3, <2>1, <2>2, <2>3, MoveTyped DEF TypeOK
  <2> QED BY <2>1, <2>2, <2>4, MoveBase
<1>6. CASE HandlerThrows(s)
  <2>1. Move(s, "running", "faildelete") /\ UNCHANGED bounds
        /\ fails' = [fails EXCEPT ![cur[s].m] = IF @ < MaxAttempts THEN @ + 1 ELSE @]
        /\ fate' = IF TriesAgain(cur[s]) THEN fate ELSE [fate EXCEPT ![cur[s].m] = "dropped"]
    BY <1>6 DEF HandlerThrows
  <2>2. /\ fate' \in [Message -> {"new", "queued", "done", "dropped"}]
        /\ ~TriesAgain(cur[s]) => fate'[cur[s].m] \in Over
        /\ \A m \in Message : fate[m] \in Over => fate'[m] \in Over
    BY <1>1, <2>1 DEF TypeOK, Over
  <2>3. fails' \in [Message -> 0..MaxAttempts]
    BY <1>1, <2>1, KVQueueAssumption DEF TypeOK
  <2>4. "faildelete" \in Wrapper
    BY DEF Wrapper
  <2>5. TypeOK'
    BY <1>1, <1>3, <2>1, <2>2, <2>3, <2>4, MoveTyped DEF TypeOK, bounds
  <2> QED BY <2>1, <2>2, <2>4, <2>5, MoveBase
<1> QED BY <1>4, <1>5, <1>6

\* Where a wrapper goes on from a delete, a release and a put.
Deletion(s, from, to) ==
  \/ from = "faildelete" /\ to = IF TriesAgain(cur[s]) THEN "failstore" ELSE "failrelease"
  \/ from = "donedelete" /\ to = "donerelease"
  \/ from = "sleepdelete" /\ to = "sleeprelease"

Releasing(from, to) ==
  \/ from \in {"failrelease", "donerelease"} /\ to = "idle"
  \/ from = "sleeprelease" /\ to = "sleepstore"

Storing(from, to) ==
  \/ from = "failstore" /\ to = "failrelease"
  \/ from = "sleepstore" /\ to = "idle"

LEMMA DeletesSlot ==
  ASSUME BaseInv, NEW s \in Slot, WrapperDeletes(s)
  PROVE  /\ BaseInv' /\ OnlySlot(s) /\ cur[s] \in Job
         /\ Deletion(s, pc[s], pc'[s]) /\ DeleteJob(cur[s]) /\ cur' = cur
         /\ UNCHANGED <<client, sent, lease, fate, fails, bounds>>
<1>1. PICK from, to : Deletion(s, from, to) /\ Move(s, from, to)
  BY DEF WrapperDeletes, Deletion
<1>2. TypeOK /\ SlotInv(s) /\ from # "idle" /\ to # "idle" /\ to \in Wrapper /\ pc[s] = from
  BY <1>1 DEF BaseInv, Deletion, Wrapper, Move
<1>3. cur[s] \in Job /\ DeleteJob(cur[s])
  BY <1>2, Jobs DEF WrapperDeletes
<1>4. UNCHANGED <<lease, fate, fails, bounds>>
  BY DEF WrapperDeletes
<1>5. jobs' \subseteq Job /\ gone' \subseteq Job
  BY <1>2, <1>3, Deletes
<1>6. TypeOK'
  BY <1>1, <1>2, <1>4, <1>5, MoveTyped DEF TypeOK, bounds
<1>7. pc'[s] = to /\ cur' = cur /\ UNCHANGED <<client, sent>>
  BY <1>1, <1>2, Moves
<1>8. BaseInv' /\ OnlySlot(s)
  BY <1>1, <1>2, <1>4, <1>6, MoveBase DEF Deletion
<1> QED BY <1>1, <1>2, <1>3, <1>4, <1>7, <1>8

LEMMA ReleasesSlot ==
  ASSUME BaseInv, NEW s \in Slot, WrapperReleases(s)
  PROVE  /\ BaseInv' /\ OnlySlot(s) /\ cur[s] \in Job
         /\ Releasing(pc[s], pc'[s]) /\ lease' = lease \ {cur[s].m}
         /\ pc'[s] = "sleepstore" => cur' = cur
         /\ UNCHANGED <<client, sent, jobs, gone, fate, fails, bounds>>
<1>1. PICK from, to : Releasing(from, to) /\ Move(s, from, to)
  <2>1. ASSUME NEW a, NEW b, Releasing(a, b), Move(s, a, b)
        PROVE  \E from, to : Releasing(from, to) /\ Move(s, from, to)
    BY <2>1
  <2>2. /\ Releasing("failrelease", "idle") /\ Releasing("donerelease", "idle")
        /\ Releasing("sleeprelease", "sleepstore")
    BY DEF Releasing
  <2> QED BY <2>1, <2>2, Zenon DEF WrapperReleases
<1>2. TypeOK /\ SlotInv(s) /\ from # "idle" /\ to \in Wrapper /\ pc[s] = from
  BY <1>1 DEF BaseInv, Releasing, Wrapper, Move
<1>3. cur[s] \in Job
  BY <1>2, Jobs
<1>4. UNCHANGED <<jobs, gone, fate, fails, bounds>> /\ lease' = lease \ {cur[s].m}
  BY DEF WrapperReleases, Release
<1>5. lease' \subseteq Message
  BY <1>2, <1>4 DEF TypeOK
<1>6. TypeOK'
  BY <1>1, <1>2, <1>4, <1>5, MoveTyped DEF TypeOK, bounds
<1>7. pc'[s] = to /\ (to # "idle" => cur' = cur) /\ UNCHANGED <<client, sent>>
  BY <1>1, <1>2, Moves
<1>8. BaseInv' /\ OnlySlot(s)
  BY <1>1, <1>2, <1>4, <1>6, MoveBase DEF Releasing
<1> QED BY <1>1, <1>2, <1>3, <1>4, <1>7, <1>8

LEMMA StoresSlot ==
  ASSUME BaseInv, NEW s \in Slot, WrapperStores(s)
  PROVE  /\ BaseInv' /\ OnlySlot(s) /\ cur[s] \in Job
         /\ Storing(pc[s], pc'[s]) /\ (pc'[s] = "failrelease" => cur' = cur)
         /\ \E k \in jobs' : /\ k.m = cur[s].m /\ jobs' = jobs \union {k}
                             /\ k.attempt = NextAttempt(s)
         /\ UNCHANGED <<client, sent, lease, fate, fails, bounds>>
<1>1. PICK from, to : Storing(from, to) /\ Move(s, from, to)
  <2>1. ASSUME NEW a, NEW b, Storing(a, b), Move(s, a, b)
        PROVE  \E from, to : Storing(from, to) /\ Move(s, from, to)
    BY <2>1
  <2>2. Storing("failstore", "failrelease") /\ Storing("sleepstore", "idle")
    BY DEF Storing
  <2> QED BY <2>1, <2>2, Zenon DEF WrapperStores
<1>2. TypeOK /\ SlotInv(s) /\ from # "idle" /\ to \in Wrapper /\ pc[s] = from
  BY <1>1 DEF BaseInv, Storing, Wrapper, Move
<1>3. cur[s] \in Job /\ cur[s].m \in Message /\ cur[s].attempt \in 1..MaxAttempts
  BY <1>2, Jobs
<1>4. NextAttempt(s) \in 1..MaxAttempts
  BY <1>1, <1>2, <1>3, Attempts DEF NextAttempt, SlotInv
<1>5. StoreJob(cur[s].m, NextAttempt(s)) /\ UNCHANGED <<lease, fate, fails, bounds>>
  BY DEF WrapperStores
<1>6. jobs' \subseteq Job /\ gone' = gone /\ \E k \in jobs' : /\ k.m = cur[s].m /\ jobs' = jobs \union {k}
                                              /\ k.attempt = NextAttempt(s)
  BY <1>2, <1>3, <1>4, <1>5, Stores
<1>7. TypeOK'
  BY <1>1, <1>2, <1>5, <1>6, MoveTyped DEF TypeOK, bounds
<1>8. pc'[s] = to /\ (to # "idle" => cur' = cur) /\ UNCHANGED <<client, sent>>
  BY <1>1, <1>2, Moves
<1>9. BaseInv' /\ OnlySlot(s)
  BY <1>1, <1>2, <1>5, <1>7, MoveBase DEF Storing
<1> QED BY <1>1, <1>2, <1>3, <1>5, <1>6, <1>8, <1>9

\* The dispatcher's side of a fetch.
LEMMA Steps ==
  ASSUME TypeOK, NEW s \in Slot, NEW from, from # "none", NEW to \in ClientState,
         Step(s, from, to)
  PROVE  /\ client[s] = from /\ client'[s] = to
         /\ client' \in [Slot -> ClientState] /\ sent' \in [Slot -> Job \union {None}]
         /\ \A t \in Slot : sent'[t] = None => client'[t] = "none"
         /\ IF to = "none" THEN sent'[s] = None ELSE sent' = sent
         /\ \A t \in Slot : t # s => client'[t] = client[t] /\ sent'[t] = sent[t]
         /\ UNCHANGED <<pc, cur, trying>>
<1>1. /\ client[s] = from /\ client' = [client EXCEPT ![s] = to]
      /\ sent' = IF to = "none" THEN [sent EXCEPT ![s] = None] ELSE sent
      /\ UNCHANGED <<pc, cur, trying>>
  BY DEF Step
<1>2. client \in [Slot -> ClientState] /\ sent \in [Slot -> Job \union {None}]
  BY DEF TypeOK
<1>3. /\ client' \in [Slot -> ClientState] /\ client'[s] = to
      /\ \A t \in Slot : t # s => client'[t] = client[t]
  BY <1>1, <1>2
<1>4. /\ sent' \in [Slot -> Job \union {None}]
      /\ IF to = "none" THEN sent'[s] = None ELSE sent' = sent
      /\ \A t \in Slot : t # s => sent'[t] = sent[t]
  BY <1>1, <1>2
<1>5. sent[s] # None
  BY <1>1 DEF TypeOK
<1>6. \A t \in Slot : sent'[t] = None => client'[t] = "none"
  BY <1>1, <1>3, <1>4, <1>5 DEF TypeOK
<1> QED BY <1>1, <1>3, <1>4, <1>6

LEMMA StepBase ==
  ASSUME BaseInv, NEW s \in Slot, NEW from, from # "none", NEW to \in ClientState,
         Step(s, from, to), jobs' \subseteq Job, gone' \subseteq Job, lease' \subseteq Message,
         UNCHANGED <<fails, bounds>>,
         fate' \in [Message -> {"new", "queued", "done", "dropped"}],
         \A m \in Message : fate[m] \in Over => fate'[m] \in Over,
         to = "store" => TriesAgain(sent[s])
  PROVE  BaseInv' /\ OnlySlot(s)
<1>1. TypeOK /\ SlotInv(s)
  BY DEF BaseInv
<1>2. /\ client[s] = from /\ client'[s] = to
      /\ client' \in [Slot -> ClientState] /\ sent' \in [Slot -> Job \union {None}]
      /\ \A t \in Slot : sent'[t] = None => client'[t] = "none"
      /\ IF to = "none" THEN sent'[s] = None ELSE sent' = sent
      /\ \A t \in Slot : t # s => client'[t] = client[t] /\ sent'[t] = sent[t]
      /\ UNCHANGED <<pc, cur, trying>>
  BY <1>1, Steps
<1>3. OnlySlot(s)
  BY <1>2 DEF OnlySlot
<1>4. TypeOK'
  BY <1>1, <1>2 DEF TypeOK, bounds
<1>5. pc[s] # "idle" => cur[s].m \in Message
  BY <1>1, Jobs
<1>6. SlotInv(s)'
  BY <1>1, <1>2, <1>5 DEF SlotInv, TriesAgain
<1> QED BY <1>3, <1>4, <1>6, SlotsSpared

LEMMA ClientSlot ==
  ASSUME BaseInv, NEW s \in Slot, ClientStep(s)
  PROVE  /\ BaseInv' /\ OnlySlot(s) /\ client[s] # "none" /\ UNCHANGED <<pc, cur, fails, bounds>>
         /\ client[s] = "open" => UNCHANGED <<kv, fate>> /\ client'[s] = "none"
<1>1. TypeOK
  BY DEF BaseInv
<1>2. CASE Response(s)
  <2>1. Step(s, "open", "none") /\ UNCHANGED <<kv, fate, fails, bounds>>
    BY <1>2 DEF Response
  <2>2. "none" \in ClientState
    BY DEF ClientState
  <2>3. BaseInv' /\ OnlySlot(s)
    BY <1>1, <2>1, <2>2, StepBase DEF kv, TypeOK
  <2>4. client[s] = "open" /\ client'[s] = "none" /\ UNCHANGED <<pc, cur>>
    BY <1>1, <2>1, <2>2, Steps
  <2> QED BY <2>1, <2>3, <2>4
<1>3. CASE ClientDeletes(s)
  <2> DEFINE to == IF TriesAgain(sent[s]) THEN "store" ELSE "release"
  <2>1. /\ Step(s, "delete", to) /\ DeleteJob(sent[s]) /\ UNCHANGED <<lease, fails, bounds>>
        /\ fate' = fate \/ fate' = [fate EXCEPT ![sent[s].m] = "dropped"]
    BY <1>3 DEF ClientDeletes
  <2>2. to \in ClientState /\ to # "none"
    BY DEF ClientState
  <2>3. client[s] = "delete"
    BY <2>1 DEF Step
  <2>4. jobs' \subseteq Job /\ gone' \subseteq Job
    BY <1>1, <2>1, <2>3, Jobs, Deletes
  <2>5. /\ fate' \in [Message -> {"new", "queued", "done", "dropped"}]
        /\ \A m \in Message : fate[m] \in Over => fate'[m] \in Over
    BY <1>1, <2>1 DEF TypeOK, Over
  <2>6. BaseInv' /\ OnlySlot(s)
    BY <1>1, <2>1, <2>2, <2>4, <2>5, StepBase DEF TypeOK
  <2>7. UNCHANGED <<pc, cur>>
    BY <2>1 DEF Step
  <2> QED BY <2>1, <2>3, <2>6, <2>7
<1>4. CASE ClientStores(s)
  <2>1. /\ Step(s, "store", "release") /\ StoreJob(sent[s].m, sent[s].attempt + 1)
        /\ UNCHANGED <<lease, fate, fails, bounds>>
    BY <1>4 DEF ClientStores
  <2>2. "release" \in ClientState
    BY DEF ClientState
  <2>3. client[s] = "store" /\ sent[s] \in Job /\ sent[s].m \in Message /\ TriesAgain(sent[s])
    BY <1>1, <2>1, Jobs DEF Step, BaseInv, SlotInv
  <2>4. jobs' \subseteq Job /\ gone' = gone
    BY <1>1, <2>1, <2>3, Attempts, Stores
  <2>5. BaseInv' /\ OnlySlot(s)
    BY <1>1, <2>1, <2>2, <2>4, StepBase DEF TypeOK
  <2>6. UNCHANGED <<pc, cur>>
    BY <2>1 DEF Step
  <2> QED BY <2>1, <2>3, <2>5, <2>6
<1>5. CASE ClientReleases(s)
  <2>1. /\ Step(s, "release", "none") /\ Release(sent[s].m)
        /\ UNCHANGED <<jobs, gone, fate, fails, bounds>>
    BY <1>5 DEF ClientReleases
  <2>2. "none" \in ClientState
    BY DEF ClientState
  <2>3. lease' \subseteq Message
    BY <1>1, <2>1 DEF TypeOK, Release
  <2>4. BaseInv' /\ OnlySlot(s)
    BY <1>1, <2>1, <2>2, <2>3, StepBase DEF TypeOK
  <2>5. client[s] = "release" /\ UNCHANGED <<pc, cur>>
    BY <2>1 DEF Step
  <2> QED BY <2>1, <2>4, <2>5
<1> QED BY <1>2, <1>3, <1>4, <1>5 DEF ClientStep

\* A fetch that fails.
LEMMA NetErrorSlot ==
  ASSUME BaseInv, NEW s \in Slot, NetError(s)
  PROVE  /\ BaseInv' /\ OnlySlot(s) /\ UNCHANGED <<kv, sent, fate, fails, cut>>
         /\ client[s] = "open" /\ client'[s] = "delete" /\ calm' = FALSE
         /\ UNCHANGED <<pc, cur>> \/ pc[s] = "sent"
<1>1. TypeOK /\ SlotInv(s)
  BY DEF BaseInv
<1>2. /\ UNCHANGED <<kv, trying, sent, fate, fails, cut>>
      /\ client[s] = "open" /\ client' = [client EXCEPT ![s] = "delete"]
      /\ Shaken /\ calm' = FALSE
  BY DEF NetError, Shaken
<1>3. \/ UNCHANGED <<pc, cur>>
      \/ /\ pc[s] = "sent"
         /\ pc' = [pc EXCEPT ![s] = "idle"] /\ cur' = [cur EXCEPT ![s] = None]
  BY DEF NetError
<1>4. /\ pc' \in [Slot -> Wrapper] /\ cur' \in [Slot -> Job \union {None}]
      /\ \A t \in Slot : cur'[t] = None => pc'[t] = "idle"
      /\ pc'[s] = "idle" \/ UNCHANGED <<pc, cur>>
      /\ \A t \in Slot : t # s => pc'[t] = pc[t] /\ cur'[t] = cur[t]
  BY <1>1, <1>3 DEF TypeOK, Wrapper
<1>5. /\ client' \in [Slot -> ClientState] /\ client'[s] = "delete"
      /\ \A t \in Slot : t # s => client'[t] = client[t]
  BY <1>1, <1>2 DEF TypeOK, ClientState
<1>6. \A t \in Slot : sent'[t] = None => client'[t] = "none"
  BY <1>1, <1>2, <1>5 DEF TypeOK
<1>7. turns' \in Nat /\ calm' \in BOOLEAN
  BY <1>1, <1>2, Counted
<1>8. TypeOK'
  BY <1>1, <1>2, <1>4, <1>5, <1>6, <1>7 DEF TypeOK, kv
<1>9. OnlySlot(s)
  BY <1>2, <1>4, <1>5 DEF OnlySlot
<1>10. SlotInv(s)'
  BY <1>1, <1>2, <1>4, <1>5 DEF SlotInv, TriesAgain
<1> QED BY <1>2, <1>3, <1>5, <1>8, <1>9, <1>10, SlotsSpared

\* A process that dies, or a call to the store that fails.
LEMMA CutSlots ==
  ASSUME BaseInv, NEW H \in SUBSET Host, NEW D \in SUBSET Slot, NEW W \in SUBSET Slot,
         CutOff(H, D, W)
  PROVE  /\ UNCHANGED <<kv, fate, fails, calm>>
         /\ \A s \in Slot :
              /\ IF s \in W THEN pc'[s] = "idle" /\ cur'[s] = None
                            ELSE pc'[s] = pc[s] /\ cur'[s] = cur[s]
              /\ IF s \in D THEN client'[s] = "none" /\ sent'[s] = None
                            ELSE client'[s] = client[s] /\ sent'[s] = sent[s]
BY DEF CutOff

LEMMA CutCounted ==
  ASSUME BaseInv, NEW H \in SUBSET Host, NEW D \in SUBSET Slot, NEW W \in SUBSET Slot,
         CutOff(H, D, W)
  PROVE  /\ IsFiniteSet(D \union W) /\ Cardinality(D \union W) \in Nat
         /\ cut \in Nat /\ cut' = cut + Cardinality(D \union W) /\ cut' \in Nat
<1>1. D \union W \in SUBSET Slot
  OBVIOUS
<1>2. IsFiniteSet(D \union W)
  BY <1>1, FS_Subset, KVQueueAssumption
<1>3. Cardinality(D \union W) \in Nat
  BY <1>2, FS_CardinalityType
<1>4. cut \in Nat /\ cut' = cut + Cardinality(D \union W)
  BY DEF BaseInv, TypeOK, CutOff
<1> QED BY <1>2, <1>3, <1>4

LEMMA CutBase ==
  ASSUME BaseInv, NEW H \in SUBSET Host, NEW D \in SUBSET Slot, NEW W \in SUBSET Slot,
         CutOff(H, D, W)
  PROVE  BaseInv'
<1>1. TypeOK /\ \A s \in Slot : SlotInv(s)
  BY DEF BaseInv
<1>2. TypeOK'
  <2>1. trying' \in [Host -> Job \union {None}]
    BY <1>1 DEF CutOff, TypeOK
  <2>2. client' \in [Slot -> ClientState] /\ pc' \in [Slot -> Wrapper]
    BY <1>1 DEF CutOff, TypeOK, ClientState, Wrapper
  <2>3. sent' \in [Slot -> Job \union {None}] /\ cur' \in [Slot -> Job \union {None}]
    BY <1>1 DEF CutOff, TypeOK
  <2>4. \A s \in Slot : (sent'[s] = None => client'[s] = "none") /\ (cur'[s] = None => pc'[s] = "idle")
    BY <1>1, CutSlots DEF TypeOK
  <2>5. turns' \in Nat
    BY <1>1, Counted DEF CutOff
  <2>6. UNCHANGED <<jobs, gone, lease, fate, fails, calm>>
    BY DEF CutOff, kv
  <2>7. cut' \in Nat
    BY CutCounted
  <2> QED BY <1>1, <2>1, <2>2, <2>3, <2>4, <2>5, <2>6, <2>7 DEF TypeOK
<1>3. ASSUME NEW s \in Slot PROVE SlotInv(s)'
  <2>1. SlotInv(s) /\ fate' = fate
    BY <1>1, CutSlots
  <2>2. /\ pc'[s] = "idle" \/ (pc'[s] = pc[s] /\ cur'[s] = cur[s])
        /\ client'[s] = "none" \/ (client'[s] = client[s] /\ sent'[s] = sent[s])
    BY CutSlots
  <2> QED BY <2>1, <2>2 DEF SlotInv, TriesAgain
<1> QED BY <1>2, <1>3 DEF BaseInv

LEMMA BaseStep == BaseInv /\ [Next]_vars => BaseInv'
<1> SUFFICES ASSUME BaseInv, [Next]_vars PROVE BaseInv'
  OBVIOUS
<1>1. CASE UNCHANGED vars
  BY <1>1, SlotsStill DEF BaseInv, TypeOK, vars, kv, slots, bounds
<1>2. CASE \E H \in SUBSET Host, D, W \in SUBSET Slot : CutOff(H, D, W)
  BY <1>2, CutBase
<1> QED BY <1>1, <1>2, EnqueueBase, LeaseExpiresBase, ReadBase, LeasePutSlot, ArriveSlot,
        HandlerSlot, DeletesSlot, ReleasesSlot, StoresSlot, ClientSlot, NetErrorSlot
        DEF Next, WrapperStep

LEMMA BaseInitially == Init => BaseInv
<1> SUFFICES ASSUME Init PROVE BaseInv
  OBVIOUS
<1>1. TypeOK
  <2>1. fails \in [Message -> 0..MaxAttempts]
    BY KVQueueAssumption DEF Init
  <2> QED BY <2>1 DEF Init, TypeOK, ClientState, Wrapper
<1>2. \A s \in Slot : SlotInv(s)
  BY DEF Init, SlotInv
<1> QED BY <1>1, <1>2 DEF BaseInv

\* Every variable has its type, whatever fails, expires or is cut off.
THEOREM TypeCorrect == Spec => []TypeOK
<1>1. BaseInv => TypeOK
  BY DEF BaseInv
<1> QED BY <1>1, BaseInitially, BaseStep, PTL DEF Spec

----------------------------------------------------------------------------
(* One invocation per lease.                                               *)

\* What is calm now, and uncut, has always been.
LEMMA FaultsCount ==
  BaseInv /\ [Next]_vars => (calm' => calm) /\ (cut' = 0 => cut = 0)
<1> SUFFICES ASSUME BaseInv, [Next]_vars
             PROVE  (calm' => calm) /\ (cut' = 0 => cut = 0)
  OBVIOUS
<1>1. TypeOK
  BY DEF BaseInv
<1> DEFINE Count == (calm' => calm) /\ (cut' = 0 => cut = 0)
<1>2. CASE UNCHANGED vars
  BY <1>2 DEF vars, bounds
<1>3. ASSUME NEW s \in Slot, WrapperStep(s) PROVE Count
  <2>1. CASE Arrive(s)
    BY <2>1, ArriveSlot
  <2>2. CASE HandlerReturns(s) \/ HandlerSleeps(s) \/ HandlerThrows(s)
    BY <2>2 DEF HandlerReturns, HandlerSleeps, HandlerThrows, bounds
  <2>3. CASE WrapperDeletes(s) \/ WrapperReleases(s) \/ WrapperStores(s)
    BY <2>3 DEF WrapperDeletes, WrapperReleases, WrapperStores, bounds
  <2> QED BY <1>3, <2>1, <2>2, <2>3 DEF WrapperStep
<1>4. ASSUME NEW s \in Slot, ClientStep(s) PROVE Count
  BY <1>4, ClientSlot DEF bounds
<1>5. ASSUME NEW s \in Slot, NetError(s) PROVE Count
  BY <1>5, NetErrorSlot
<1>6. ASSUME NEW H \in SUBSET Host, NEW D \in SUBSET Slot, NEW W \in SUBSET Slot,
             CutOff(H, D, W)
      PROVE  Count
  <2>1. calm' = calm
    BY <1>6 DEF CutOff
  <2>2. cut \in Nat /\ Cardinality(D \union W) \in Nat /\ cut' = cut + Cardinality(D \union W)
    BY <1>6, CutCounted
  <2>3. cut' = 0 => cut = 0
    BY <2>2
  <2> QED BY <2>1, <2>3
<1>7. ASSUME NEW h \in Host, NEW s \in Slot, LeasePut(h, s) PROVE Count
  BY <1>1, <1>7, Counted DEF LeasePut
<1>8. ASSUME NEW h \in Host, NEW j \in jobs \union gone, ReadJob(h, j) PROVE Count
  BY <1>8 DEF ReadJob, bounds
<1>9. ASSUME NEW m \in Message, LeaseExpires(m) PROVE Count
  BY <1>1, <1>9, Counted DEF LeaseExpires
<1>10. ASSUME NEW m \in Message, Enqueue(m) PROVE Count
  BY <1>10 DEF Enqueue, bounds
<1> QED BY <1>2, <1>3, <1>4, <1>5, <1>6, <1>7, <1>8, <1>9, <1>10 DEF Next

\* A step at a slot that takes no lease, and releases none but its own.
LEMMA LeasesStay ==
  ASSUME Leases, NEW s \in Slot, OnlySlot(s), client'[s] \in {"none", "open"},
         pc'[s] \in Leasing => pc[s] \in Leasing /\ cur'[s].m = cur[s].m /\ lease' = lease,
         pc[s] \in Leasing \/ lease' = lease,
         lease' = lease \/ lease' = lease \ {cur[s].m}
  PROVE  Leases'
<1>1. \A t \in Slot : client'[t] \in {"none", "open"}
  BY DEF Leases, OnlySlot
<1>2. \A t \in Slot : pc'[t] \in Leasing => pc[t] \in Leasing /\ cur'[t].m = cur[t].m
  BY DEF OnlySlot
<1>3. \A t \in Slot : pc'[t] \in Leasing => cur'[t].m \in lease'
  <2> SUFFICES ASSUME NEW t \in Slot, pc'[t] \in Leasing PROVE cur[t].m \in lease'
    BY <1>2
  <2>1. pc[t] \in Leasing /\ cur[t].m \in lease
    BY <1>2 DEF Leases
  <2>2. CASE t = s
    BY <2>1, <2>2
  <2>3. CASE t # s
    BY <2>1, <2>3 DEF Leases
  <2> QED BY <2>2, <2>3
<1>4. \A t, u \in Slot : pc'[t] \in Leasing /\ pc'[u] \in Leasing /\ t # u => cur'[t].m # cur'[u].m
  BY <1>2 DEF Leases
<1> QED BY <1>1, <1>3, <1>4 DEF Leases

LEMMA WrapperLeases ==
  ASSUME BaseInv, Leases, NEW s \in Slot, WrapperStep(s)
  PROVE  Leases'
<1>1. client[s] \in {"none", "open"} /\ TypeOK
  BY DEF Leases, BaseInv
<1>2. CASE Arrive(s)
  <2>1. /\ OnlySlot(s) /\ pc[s] = "sent" /\ UNCHANGED <<kv, client>>
        /\ pc'[s] = "idle" \/ cur'[s].m = cur[s].m
    BY <1>2, ArriveSlot
  <2> QED BY <1>1, <2>1, LeasesStay DEF Leasing, kv
<1>3. CASE HandlerReturns(s) \/ HandlerSleeps(s) \/ HandlerThrows(s)
  <2>1. OnlySlot(s)
    BY <1>3, HandlerSlot
  <2>2. PICK to \in {"donedelete", "sleepdelete", "faildelete"} : Move(s, "running", to)
    BY <1>3 DEF HandlerReturns, HandlerSleeps, HandlerThrows
  <2>3. pc[s] = "running" /\ cur' = cur /\ UNCHANGED client
    BY <2>2 DEF Move
  <2>4. UNCHANGED lease
    BY <1>3 DEF HandlerReturns, HandlerSleeps, HandlerThrows, kv
  <2> QED BY <1>1, <2>1, <2>3, <2>4, LeasesStay DEF Leasing
<1>4. CASE WrapperDeletes(s)
  <2>1. /\ OnlySlot(s) /\ Deletion(s, pc[s], pc'[s]) /\ cur' = cur /\ UNCHANGED <<client, lease>>
    BY <1>4, DeletesSlot
  <2> QED BY <1>1, <2>1, LeasesStay DEF Leasing, Deletion
<1>5. CASE WrapperReleases(s)
  <2>1. /\ OnlySlot(s) /\ Releasing(pc[s], pc'[s]) /\ lease' = lease \ {cur[s].m}
        /\ UNCHANGED client
    BY <1>5, ReleasesSlot
  <2>2. pc[s] \in Leasing /\ pc'[s] \notin Leasing
    BY <2>1 DEF Releasing, Leasing
  <2> QED BY <1>1, <2>1, <2>2, LeasesStay
<1>6. CASE WrapperStores(s)
  <2>1. /\ OnlySlot(s) /\ Storing(pc[s], pc'[s]) /\ (pc'[s] = "failrelease" => cur' = cur)
        /\ UNCHANGED <<client, lease>>
    BY <1>6, StoresSlot
  <2> QED BY <1>1, <2>1, LeasesStay DEF Leasing, Storing
<1> QED BY <1>2, <1>3, <1>4, <1>5, <1>6 DEF WrapperStep

LEMMA ExclusiveStep ==
  BaseInv /\ BaseInv' /\ ExclusiveInv /\ [Next]_vars => ExclusiveInv'
<1> SUFFICES ASSUME BaseInv, BaseInv', ExclusiveInv, [Next]_vars, calm' PROVE Leases'
  BY DEF ExclusiveInv
<1>1. Leases /\ calm /\ TypeOK
  BY FaultsCount DEF ExclusiveInv, BaseInv
<1>2. ASSUME UNCHANGED <<lease, slots>> PROVE Leases'
  BY <1>1, <1>2 DEF Leases, slots
<1>3. CASE UNCHANGED vars
  BY <1>2, <1>3 DEF vars, kv
<1>4. ASSUME NEW s \in Slot, WrapperStep(s) PROVE Leases'
  BY <1>1, <1>4, WrapperLeases
<1>5. ASSUME NEW s \in Slot, ClientStep(s) PROVE Leases'
  <2>1. OnlySlot(s) /\ UNCHANGED <<pc, cur>> /\ client[s] # "none"
    BY <1>5, ClientSlot
  <2>2. client[s] = "open"
    BY <1>1, <2>1 DEF Leases
  <2>3. UNCHANGED kv /\ client'[s] = "none"
    BY <1>5, <2>2, ClientSlot
  <2> QED BY <1>1, <2>1, <2>3, LeasesStay DEF kv
<1>6. ASSUME NEW s \in Slot, NetError(s) PROVE FALSE
  BY <1>6, NetErrorSlot
<1>11. ASSUME NEW H \in SUBSET Host, NEW D \in SUBSET Slot, NEW W \in SUBSET Slot,
              CutOff(H, D, W)
       PROVE  Leases'
  <2>1. \A t \in Slot : client'[t] \in {"none", "open"}
    BY <1>1, <1>11, CutSlots DEF Leases
  <2>2. \A t \in Slot : pc'[t] \in Leasing => pc[t] \in Leasing /\ cur'[t] = cur[t]
    <3>1. "idle" \notin Leasing
      BY DEF Leasing
    <3> QED BY <1>11, <3>1, CutSlots
  <2>3. lease' = lease
    BY <1>11, CutSlots DEF kv
  <2> QED BY <1>1, <2>1, <2>2, <2>3 DEF Leases
<1>7. ASSUME NEW h \in Host, NEW s \in Slot, LeasePut(h, s) PROVE Leases'
  <2>1. /\ OnlySlot(s) /\ trying[h] \in Job /\ lease' = lease \union {trying[h].m}
        /\ pc'[s] = "sent" /\ cur'[s] = trying[h] /\ client'[s] = "open"
    BY <1>7, LeasePutSlot
  <2>2. trying[h].m \notin lease
    BY <1>7 DEF LeasePut, Shaken
  <2>3. \A t \in Slot : t # s /\ pc'[t] \in Leasing => pc[t] \in Leasing /\ cur'[t].m = cur[t].m /\ cur[t].m \in lease
    BY <1>1, <2>1 DEF OnlySlot, Leases
  <2>4. \A t \in Slot : client'[t] \in {"none", "open"}
    BY <1>1, <2>1 DEF OnlySlot, Leases
  <2>5. \A t \in Slot : pc'[t] \in Leasing => cur'[t].m \in lease'
    BY <2>1, <2>3
  <2>6. \A t, u \in Slot : pc'[t] \in Leasing /\ pc'[u] \in Leasing /\ t # u => cur'[t].m # cur'[u].m
    <3> SUFFICES ASSUME NEW t \in Slot, NEW u \in Slot, pc'[t] \in Leasing, pc'[u] \in Leasing, t # u
                 PROVE  cur'[t].m # cur'[u].m
      OBVIOUS
    <3>1. CASE t = s
      BY <2>1, <2>2, <2>3, <3>1
    <3>2. CASE u = s
      BY <2>1, <2>2, <2>3, <3>2
    <3>3. CASE t # s /\ u # s
      BY <1>1, <2>3, <3>3 DEF Leases
    <3> QED BY <3>1, <3>2, <3>3
  <2> QED BY <2>4, <2>5, <2>6 DEF Leases
<1>8. ASSUME NEW h \in Host, NEW j \in jobs \union gone, ReadJob(h, j) PROVE Leases'
  BY <1>2, <1>8 DEF ReadJob, kv
<1>9. ASSUME NEW m \in Message, LeaseExpires(m) PROVE Leases'
  <2>1. ~AtWork(m)
    BY <1>9 DEF LeaseExpires, Shaken
  <2>2. UNCHANGED slots /\ lease' = lease \ {m}
    BY <1>9 DEF LeaseExpires
  <2>3. \A t \in Slot : pc[t] \in Leasing => cur[t].m # m
    BY <2>1 DEF AtWork, Leasing
  <2> QED BY <1>1, <2>2, <2>3 DEF Leases, slots
<1>10. ASSUME NEW m \in Message, Enqueue(m) PROVE Leases'
  BY <1>2, <1>10 DEF Enqueue
<1> QED BY <1>3, <1>4, <1>5, <1>6, <1>7, <1>8, <1>9, <1>10, <1>11 DEF Next

LEMMA ExclusiveInitially == Init => ExclusiveInv
BY DEF Init, ExclusiveInv, Leases, Leasing

LEMMA ExclusiveAlways == Spec => [](BaseInv /\ ExclusiveInv)
BY BaseInitially, BaseStep, ExclusiveInitially, ExclusiveStep, PTL DEF Spec

\* Until a fetch fails, a lease expires in use, two hosts take one lease or the
\* wrapper finds a deleted key, no job has two handlers running: a lease got by
\* looking first and putting then is enough, although dispatchers act on keys
\* that others have deleted since, or before, and whatever is cut off.
THEOREM OneRunner == Spec => []OneRunnerPerJob
<1>1. ExclusiveInv => OneRunnerPerJob
  BY DEF ExclusiveInv, Leases, Leasing, OneRunnerPerJob
<1> QED BY <1>1, ExclusiveAlways, PTL

----------------------------------------------------------------------------
(* One loss per fetch that is cut off.                                     *)

LossInv == IsFiniteSet(Lost) /\ Cardinality(Lost) <= cut

\* What slot s is bound to put back.
Carries(s, m) ==
  \/ pc[s] \in {"failstore", "sleeprelease", "sleepstore"} /\ cur[s].m = m
  \/ client[s] = "store" /\ sent[s].m = m

LEMMA NothingLost ==
  ASSUME LossInv, Lost' \subseteq Lost, cut' = cut, cut \in Nat
  PROVE  LossInv'
<1>1. /\ IsFiniteSet(Lost') /\ Cardinality(Lost') <= Cardinality(Lost)
      /\ Cardinality(Lost) \in Nat /\ Cardinality(Lost') \in Nat
  BY FS_Subset, FS_CardinalityType DEF LossInv
<1>2. Cardinality(Lost') <= cut'
  <2>1. Cardinality(Lost) <= cut
    BY DEF LossInv
  <2> QED BY <1>1, <2>1
<1> QED BY <1>1, <1>2, Zenon DEF LossInv

\* What a step at s loses is what s had to put back, or a key it deletes.
LEMMA LossAt ==
  ASSUME BaseInv, NEW s \in Slot, OnlySlot(s),
         \A m \in Message : fate'[m] = "queued" => fate[m] = "queued",
         NEW m \in Lost', m \notin Lost
  PROVE  /\ m \in Message /\ fate'[m] = "queued" /\ ~Carries(s, m)' /\ \A j \in jobs' : j.m # m
         /\ Carries(s, m) \/ \E j \in jobs : j.m = m
<1>1. /\ m \in Message /\ fate'[m] = "queued" /\ ~Moving(m)' /\ \A j \in jobs' : j.m # m
  BY DEF Lost
<1>2. Moving(m) \/ \E j \in jobs : j.m = m
  BY <1>1 DEF Lost
<1>3. \A t \in Slot : ~Carries(t, m)'
  BY <1>1 DEF Moving, Carries
<1>4. \A t \in Slot : t # s => ~Carries(t, m)
  BY <1>3 DEF OnlySlot, Carries
<1>5. Moving(m) => Carries(s, m)
  BY <1>4 DEF Moving, Carries
<1> QED BY <1>1, <1>2, <1>3, <1>5

\* A wrapper gives a job up only for good, and puts back what it took.
LEMMA WrapperLoss ==
  ASSUME BaseInv, LossInv, NEW s \in Slot, WrapperStep(s)
  PROVE  LossInv'
<1>1. TypeOK /\ SlotInv(s) /\ cut \in Nat
  BY DEF BaseInv, TypeOK
<1>2. ASSUME OnlySlot(s), \A m \in Message : fate'[m] = "queued" => fate[m] = "queued",
             UNCHANGED cut,
             \A m \in Message : fate'[m] = "queued" /\ (Carries(s, m) \/ \E j \in jobs : j.m = m)
               => Carries(s, m)' \/ \E j \in jobs' : j.m = m
      PROVE  LossInv'
  <2>1. Lost' \subseteq Lost
    BY <1>2, LossAt
  <2> QED BY <1>1, <1>2, <2>1, NothingLost
<1>3. CASE Arrive(s)
  <2>1. /\ OnlySlot(s) /\ pc[s] = "sent" /\ UNCHANGED <<kv, client, sent, fate, cut>>
    BY <1>3, ArriveSlot
  <2> QED BY <1>2, <2>1 DEF Carries, kv
<1>4. CASE HandlerReturns(s) \/ HandlerSleeps(s) \/ HandlerThrows(s)
  <2>1. OnlySlot(s)
    BY <1>4, HandlerSlot
  <2>2. pc[s] = "running" /\ UNCHANGED <<client, sent, jobs, cut>>
    BY <1>4 DEF HandlerReturns, HandlerSleeps, HandlerThrows, Move, kv, bounds
  <2>3. fate' = fate \/ \E v \in Over : fate' = [fate EXCEPT ![cur[s].m] = v]
    BY <1>4 DEF HandlerReturns, HandlerSleeps, HandlerThrows, Over
  <2>4. \A m \in Message : fate'[m] = "queued" => fate[m] = "queued"
    BY <1>1, <2>3 DEF Over, TypeOK
  <2> QED BY <1>2, <2>1, <2>2, <2>4 DEF Carries
<1>5. CASE WrapperDeletes(s)
  <2>1. /\ OnlySlot(s) /\ cur[s] \in Job /\ Deletion(s, pc[s], pc'[s]) /\ DeleteJob(cur[s]) /\ cur' = cur
        /\ UNCHANGED <<client, sent, fate, cut>>
    BY <1>5, DeletesSlot DEF bounds
  <2>2. ASSUME NEW m \in Message, fate'[m] = "queued", Carries(s, m) \/ \E j \in jobs : j.m = m
        PROVE  Carries(s, m)' \/ \E j \in jobs' : j.m = m
    <3>1. CASE client[s] = "store" /\ sent[s].m = m
      BY <2>1, <3>1 DEF Carries
    <3>2. CASE ~(client[s] = "store" /\ sent[s].m = m)
      <4>1. \E j \in jobs : j.m = m
        BY <2>1, <2>2, <3>2 DEF Carries, Deletion
      <4>2. CASE m # cur[s].m
        BY <1>1, <2>1, <4>1, <4>2, Deletes
      <4>3. CASE m = cur[s].m
        <5>1. pc'[s] \in {"failstore", "sleeprelease"}
          BY <1>1, <2>1, <2>2, <4>3 DEF Deletion, SlotInv, Over
        <5> QED BY <2>1, <4>3, <5>1 DEF Carries
      <4> QED BY <4>2, <4>3
    <3> QED BY <3>1, <3>2
  <2> QED BY <1>2, <2>1, <2>2
<1>6. CASE WrapperReleases(s)
  <2>1. /\ OnlySlot(s) /\ Releasing(pc[s], pc'[s]) /\ (pc'[s] = "sleepstore" => cur' = cur)
        /\ UNCHANGED <<client, sent, jobs, fate, cut>>
    BY <1>6, ReleasesSlot DEF bounds
  <2> QED BY <1>2, <2>1 DEF Carries, Releasing
<1>7. CASE WrapperStores(s)
  <2>1. /\ OnlySlot(s) /\ Storing(pc[s], pc'[s])
        /\ \E k \in jobs' : k.m = cur[s].m /\ jobs' = jobs \union {k}
        /\ UNCHANGED <<client, sent, fate, cut>>
    BY <1>7, StoresSlot DEF bounds
  <2> QED BY <1>2, <2>1 DEF Carries, Storing
<1> QED BY <1>3, <1>4, <1>5, <1>6, <1>7 DEF WrapperStep

LEMMA ClientLoss ==
  ASSUME BaseInv, LossInv, NEW s \in Slot, ClientStep(s)
  PROVE  LossInv'
<1>1. /\ TypeOK /\ SlotInv(s) /\ cut \in Nat
      /\ OnlySlot(s) /\ client[s] # "none" /\ UNCHANGED <<pc, cur, cut>>
      /\ sent[s] \in Job /\ sent[s].m \in Message
  BY ClientSlot, Jobs DEF BaseInv, TypeOK, bounds
<1>2. ASSUME \A m \in Message : fate'[m] = "queued" => fate[m] = "queued",
             \A m \in Message : fate'[m] = "queued" /\ (Carries(s, m) \/ \E j \in jobs : j.m = m)
               => Carries(s, m)' \/ \E j \in jobs' : j.m = m
      PROVE  LossInv'
  <2>1. Lost' \subseteq Lost
    BY <1>1, <1>2, LossAt
  <2> QED BY <1>1, <2>1, NothingLost
<1>3. CASE Response(s) \/ ClientReleases(s)
  <2>1. client[s] \in {"open", "release"} /\ UNCHANGED <<jobs, fate>>
    BY <1>3 DEF Response, ClientReleases, Step, kv
  <2> QED BY <1>1, <1>2, <2>1 DEF Carries
<1>4. CASE ClientDeletes(s)
  <2> DEFINE to == IF TriesAgain(sent[s]) THEN "store" ELSE "release"
  <2>1. /\ Step(s, "delete", to) /\ DeleteJob(sent[s])
        /\ fate' = IF TriesAgain(sent[s]) \/ fate[sent[s].m] = "done" THEN fate
                   ELSE [fate EXCEPT ![sent[s].m] = "dropped"]
    BY <1>4 DEF ClientDeletes
  <2>2. to \in ClientState /\ to # "none"
    BY DEF ClientState
  <2>3. client[s] = "delete" /\ client'[s] = to /\ sent' = sent
    <3> HIDE DEF to
    <3> QED BY <1>1, <2>1, <2>2, Steps
  <2>4. \A m \in Message : fate'[m] = "queued" => fate[m] = "queued"
    BY <1>1, <2>1 DEF TypeOK
  <2>5. fate'[sent[s].m] = "queued" => TriesAgain(sent[s])
    BY <1>1, <2>1 DEF TypeOK
  <2>6. ASSUME NEW m \in Message, fate'[m] = "queued", Carries(s, m) \/ \E j \in jobs : j.m = m
        PROVE  Carries(s, m)' \/ \E j \in jobs' : j.m = m
    <3>1. CASE m = sent[s].m
      <4>1. client'[s] = "store"
        BY <2>3, <2>5, <2>6, <3>1
      <4> QED BY <2>3, <3>1, <4>1 DEF Carries
    <3>2. CASE m # sent[s].m
      BY <1>1, <2>1, <2>3, <2>6, <3>2, Deletes DEF Carries
    <3> QED BY <3>1, <3>2
  <2> QED BY <1>2, <2>4, <2>6
<1>5. CASE ClientStores(s)
  <2>1. /\ client[s] = "store" /\ StoreJob(sent[s].m, sent[s].attempt + 1) /\ UNCHANGED fate
    BY <1>5 DEF ClientStores, Step
  <2>2. TriesAgain(sent[s])
    BY <1>1, <2>1 DEF SlotInv
  <2>3. \E k \in jobs' : k.m = sent[s].m /\ jobs' = jobs \union {k}
    BY <1>1, <2>1, <2>2, Attempts, Stores
  <2> QED BY <1>1, <1>2, <2>1, <2>3 DEF Carries
<1> QED BY <1>3, <1>4, <1>5 DEF ClientStep

LEMMA ImageBound ==
  ASSUME NEW S, IsFiniteSet(S), NEW f
  PROVE  /\ IsFiniteSet({f[x] : x \in S}) /\ Cardinality({f[x] : x \in S}) \in Nat
         /\ Cardinality({f[x] : x \in S}) <= Cardinality(S)
<1> DEFINE T == {f[x] : x \in S}
           g == [x \in S |-> f[x]]
<1>1. g \in Surjection(S, T)
  BY DEF Surjection
<1> QED BY <1>1, FS_Surjection, FS_CardinalityType

LEMMA UnionBound ==
  ASSUME NEW S, NEW T, IsFiniteSet(S), IsFiniteSet(T), NEW U, U \subseteq S \union T
  PROVE  /\ IsFiniteSet(U) /\ Cardinality(U) \in Nat
         /\ Cardinality(U) <= Cardinality(S) + Cardinality(T)
<1>1. /\ IsFiniteSet(S \union T) /\ IsFiniteSet(S \intersect T)
      /\ Cardinality(S \union T) = Cardinality(S) + Cardinality(T) - Cardinality(S \intersect T)
  BY FS_Union, FS_Intersection
<1>2. /\ Cardinality(S) \in Nat /\ Cardinality(T) \in Nat
      /\ Cardinality(S \union T) \in Nat /\ Cardinality(S \intersect T) \in Nat
  BY <1>1, FS_CardinalityType
<1>3. U \in SUBSET (S \union T)
  OBVIOUS
<1>4. IsFiniteSet(U) /\ Cardinality(U) <= Cardinality(S \union T)
  BY <1>1, <1>3, FS_Subset
<1>5. Cardinality(U) \in Nat
  BY <1>4, FS_CardinalityType
<1> QED BY <1>1, <1>2, <1>4, <1>5

\* The two sides of a fetch are about one job, so that cutting off one or both
\* of them loses no other.
LEMMA CutLoss ==
  ASSUME BaseInv, LossInv, NEW H \in SUBSET Host, NEW D \in SUBSET Slot, NEW W \in SUBSET Slot,
         CutOff(H, D, W)
  PROVE  LossInv'
<1> DEFINE X == D \union W
           job == [s \in Slot |-> IF client[s] = "store" THEN sent[s].m ELSE cur[s].m]
           Of == {job[s] : s \in X}
<1>1. /\ UNCHANGED <<jobs, fate>>
      /\ \A s \in Slot : SlotInv(s)
      /\ \A s \in Slot \ X : /\ pc'[s] = pc[s] /\ cur'[s] = cur[s]
                             /\ client'[s] = client[s] /\ sent'[s] = sent[s]
  BY CutSlots DEF BaseInv, kv
<1>2. /\ IsFiniteSet(X) /\ Cardinality(X) \in Nat
      /\ cut \in Nat /\ cut' = cut + Cardinality(X) /\ cut' \in Nat
  BY CutCounted
<1>3. ASSUME NEW m \in Lost', m \notin Lost PROVE \E s \in X : m = job[s]
  <2>1. m \in Message /\ fate[m] = "queued" /\ ~Moving(m)' /\ \A j \in jobs : j.m # m
    BY <1>1, <1>3 DEF Lost
  <2>2. Moving(m)
    BY <1>3, <2>1 DEF Lost
  <2>3. PICK s \in Slot : Carries(s, m)
    BY <2>2 DEF Moving, Carries
  <2>4. s \in X
    BY <1>1, <2>1, <2>3 DEF Moving, Carries
  <2>5. m = job[s]
    BY <1>1, <2>3 DEF Carries, SlotInv
  <2> QED BY <2>4, <2>5
<1>4. Lost' \subseteq Lost \union Of
  BY <1>3
<1>5. IsFiniteSet(Of) /\ Cardinality(Of) \in Nat /\ Cardinality(Of) <= Cardinality(X)
  <2> HIDE DEF X, job
  <2> QED BY <1>2, ImageBound
<1> HIDE DEF X, Of
<1>6. IsFiniteSet(Lost) /\ Cardinality(Lost) <= cut /\ Cardinality(Lost) \in Nat
  BY FS_CardinalityType DEF LossInv
<1>7. /\ IsFiniteSet(Lost') /\ Cardinality(Lost') \in Nat
      /\ Cardinality(Lost') <= Cardinality(Lost) + Cardinality(Of)
  BY <1>4, <1>5, <1>6, UnionBound
<1>8. Cardinality(Lost') <= cut'
  BY <1>2, <1>5, <1>6, <1>7
<1> QED BY <1>7, <1>8 DEF LossInv

LEMMA LossStep == BaseInv /\ LossInv /\ [Next]_vars => LossInv'
<1> SUFFICES ASSUME BaseInv, LossInv, [Next]_vars PROVE LossInv'
  OBVIOUS
<1>1. TypeOK /\ cut \in Nat
  BY DEF BaseInv, TypeOK
<1>2. ASSUME UNCHANGED slots, UNCHANGED cut, jobs \subseteq jobs',
             \A m \in Message : fate'[m] = "queued" => fate[m] = "queued" \/ \E j \in jobs' : j.m = m
      PROVE  LossInv'
  <2>1. \A m : Moving(m)' <=> Moving(m)
    BY <1>2 DEF Moving, slots
  <2>2. Lost' \subseteq Lost
    BY <1>2, <2>1 DEF Lost
  <2> QED BY <1>1, <1>2, <2>2, NothingLost
<1>3. CASE UNCHANGED vars
  BY <1>2, <1>3 DEF vars, kv, bounds
<1>4. ASSUME NEW s \in Slot, NetError(s) PROVE LossInv'
  <2>1. OnlySlot(s) /\ UNCHANGED <<jobs, fate, sent, cut>> /\ client[s] = "open"
    BY <1>4, NetErrorSlot DEF kv
  <2>2. UNCHANGED <<pc, cur>> \/ pc[s] = "sent"
    BY <1>4, NetErrorSlot
  <2>3. \A m \in Message : Carries(s, m) => Carries(s, m)'
    BY <2>1, <2>2 DEF Carries
  <2>4. Lost' \subseteq Lost
    BY <2>1, <2>3, LossAt
  <2> QED BY <1>1, <2>1, <2>4, NothingLost
<1>5. ASSUME NEW H \in SUBSET Host, NEW D \in SUBSET Slot, NEW W \in SUBSET Slot,
             CutOff(H, D, W)
      PROVE  LossInv'
  BY <1>5, CutLoss
<1>6. ASSUME NEW h \in Host, NEW s \in Slot, LeasePut(h, s) PROVE LossInv'
  <2>1. OnlySlot(s) /\ UNCHANGED <<jobs, fate, cut>> /\ pc[s] = "idle" /\ client[s] = "none"
    BY <1>6, LeasePutSlot
  <2>2. \A m \in Message : ~Carries(s, m)
    BY <2>1 DEF Carries
  <2>3. Lost' \subseteq Lost
    BY <2>1, <2>2, LossAt
  <2> QED BY <1>1, <2>1, <2>3, NothingLost
<1>7. ASSUME NEW h \in Host, NEW j \in jobs \union gone, ReadJob(h, j) PROVE LossInv'
  BY <1>2, <1>7 DEF ReadJob, kv, bounds
<1>8. ASSUME NEW m \in Message, LeaseExpires(m) PROVE LossInv'
  BY <1>2, <1>8 DEF LeaseExpires
<1>9. ASSUME NEW m \in Message, Enqueue(m) PROVE LossInv'
  <2>1. UNCHANGED <<slots, cut>> /\ fate' = [fate EXCEPT ![m] = "queued"] /\ StoreJob(m, 1)
    BY <1>9 DEF Enqueue, bounds
  <2>2. jobs \subseteq jobs' /\ \E k \in jobs' : k.m = m
    <3>1. 1 \in 1..MaxAttempts
      BY KVQueueAssumption
    <3> QED BY <1>1, <2>1, <3>1, Stores
  <2>3. \A n \in Message : n # m => fate'[n] = fate[n]
    BY <1>1, <2>1 DEF TypeOK
  <2> QED BY <1>2, <2>1, <2>2, <2>3
<1> QED BY <1>3, <1>4, <1>5, <1>6, <1>7, <1>8, <1>9, WrapperLoss, ClientLoss DEF Next

LEMMA LossInitially == Init => LossInv
<1> SUFFICES ASSUME Init PROVE LossInv
  OBVIOUS
<1>1. Lost = {}
  BY DEF Init, Lost
<1>2. IsFiniteSet({}) /\ Cardinality({}) = 0
  BY FS_EmptySet
<1> QED BY <1>1, <1>2 DEF Init, LossInv

\* Whatever fetches fail, leases expire, hosts race and deleted keys are read,
\* nobody deletes the key of a job without being bound to store another; only a
\* process that dies or a call to the store that fails keeps it from doing so,
\* and loses no more jobs than the fetches it cuts off, of however many slots.
THEOREM OneLoss == Spec => []OneLossPerFetch
<1>1. LossInv => OneLossPerFetch
  BY DEF LossInv, OneLossPerFetch
<1> QED BY <1>1, BaseInitially, BaseStep, LossInitially, LossStep, PTL DEF Spec

----------------------------------------------------------------------------
(* The keys of a job while nothing fails.                                  *)

\* A step that leaves what is stored and counted alone.
LEMMA AccountStays ==
  ASSUME BaseInv, Accounted, NEW s \in Slot, OnlySlot(s), UNCHANGED <<jobs, fate, fails>>,
         pc[s] \notin {"faildelete", "donedelete"}, SlotAccount(s)',
         pc'[s] \in Working => \A t \in Slot : t # s /\ pc[t] \in Working => cur[t].m # cur'[s].m
  PROVE  Accounted'
<1>1. \A t \in Slot : SlotAccount(t)'
  <2> SUFFICES ASSUME NEW t \in Slot, t # s PROVE SlotAccount(t)'
    OBVIOUS
  <2>1. SlotAccount(t) /\ pc'[t] = pc[t] /\ cur'[t] = cur[t]
    BY DEF Accounted, OnlySlot
  <2> QED BY <2>1 DEF SlotAccount, Keys, TriesAgain
<1>2. \A j \in jobs : KeyAccount(j)'
  <2> SUFFICES ASSUME NEW j \in jobs PROVE KeyAccount(j)'
    OBVIOUS
  <2>1. KeyAccount(j)
    BY DEF Accounted
  <2>2. ASSUME NEW t \in Slot, pc[t] \in {"faildelete", "donedelete"}, cur[t].m = j.m
        PROVE  pc'[t] \in {"faildelete", "donedelete"} /\ cur'[t].m = j.m
    BY <2>2 DEF OnlySlot
  <2> QED BY <2>1, <2>2 DEF KeyAccount
<1>3. \A t, u \in Slot : pc'[t] \in Working /\ pc'[u] \in Working /\ t # u => cur'[t].m # cur'[u].m
  <2> SUFFICES ASSUME NEW t \in Slot, NEW u \in Slot, pc'[t] \in Working, pc'[u] \in Working, t # u
               PROVE  cur'[t].m # cur'[u].m
    OBVIOUS
  <2>1. \A v \in Slot : v # s => pc'[v] = pc[v] /\ cur'[v] = cur[v]
    BY DEF OnlySlot
  <2> QED BY <2>1 DEF Accounted
<1> QED BY <1>1, <1>2, <1>3 DEF Accounted

\* A step of the one invocation at work on a job.
LEMMA AccountMoves ==
  ASSUME BaseInv, Accounted, NEW s \in Slot, OnlySlot(s), pc[s] \in Working,
         pc'[s] \in Working => cur'[s].m = cur[s].m, SlotAccount(s)',
         \A j \in Job : j.m # cur[s].m => (j \in jobs' <=> j \in jobs),
         jobs \subseteq Job, jobs' \subseteq Job,
         \A m \in Message : m # cur[s].m => fate'[m] = fate[m] /\ fails'[m] = fails[m],
         fate'[cur[s].m] # "new",
         \A j \in jobs' : j.m = cur[s].m => KeyAccount(j)'
  PROVE  Accounted'
<1>1. ASSUME NEW t \in Slot, t # s, pc[t] \in Working PROVE cur[t].m # cur[s].m
  BY <1>1 DEF Accounted
<1>2. \A t \in Slot : SlotAccount(t)'
  <2> SUFFICES ASSUME NEW t \in Slot, t # s, pc[t] \in Working PROVE SlotAccount(t)'
    BY DEF SlotAccount, Working, Holding, HasKey, OnlySlot
  <2>1. /\ SlotAccount(t) /\ pc'[t] = pc[t] /\ cur'[t] = cur[t] /\ cur[t].m # cur[s].m
        /\ cur[t] \in Job /\ cur[t].m \in Message
    <3>1. TypeOK /\ pc[t] # "idle"
      BY DEF BaseInv, Working, Holding
    <3> QED BY <1>1, <3>1, Jobs DEF Accounted, OnlySlot
  <2>2. fate'[cur[t].m] = fate[cur[t].m] /\ fails'[cur[t].m] = fails[cur[t].m]
    BY <2>1
  <2>3. cur[t] \in jobs' <=> cur[t] \in jobs
    BY <2>1
  <2>4. {j \in jobs' : j.m = cur[t].m} = {j \in jobs : j.m = cur[t].m}
    BY <2>1
  <2> QED BY <2>1, <2>2, <2>3, <2>4 DEF SlotAccount, Keys, TriesAgain
<1>3. \A j \in jobs' : KeyAccount(j)'
  <2> SUFFICES ASSUME NEW j \in jobs', j.m # cur[s].m PROVE KeyAccount(j)'
    OBVIOUS
  <2>1. /\ KeyAccount(j) /\ j \in Job /\ j.m \in Message
    BY DEF Accounted, Job
  <2>2. fate'[j.m] = fate[j.m] /\ fails'[j.m] = fails[j.m]
    BY <2>1
  <2>3. \A k \in jobs' : k.m = j.m => k = j
    BY <2>1 DEF KeyAccount
  <2>4. ASSUME NEW t \in Slot, pc[t] \in {"faildelete", "donedelete"}, cur[t].m = j.m
        PROVE  pc'[t] \in {"faildelete", "donedelete"} /\ cur'[t].m = j.m
    BY <2>4 DEF OnlySlot
  <2> QED BY <2>1, <2>2, <2>3, <2>4 DEF KeyAccount
<1>4. \A t, u \in Slot : pc'[t] \in Working /\ pc'[u] \in Working /\ t # u => cur'[t].m # cur'[u].m
  <2> SUFFICES ASSUME NEW t \in Slot, NEW u \in Slot, pc'[t] \in Working, pc'[u] \in Working, t # u
               PROVE  cur'[t].m # cur'[u].m
    OBVIOUS
  <2>1. \A v \in Slot : v # s => pc'[v] = pc[v] /\ cur'[v] = cur[v]
    BY DEF OnlySlot
  <2> QED BY <2>1 DEF Accounted
<1>5. \A m \in Message : fate'[m] = "new" => fails'[m] = 0
  BY DEF Accounted
<1> QED BY <1>2, <1>3, <1>4, <1>5 DEF Accounted

\* What a wrapper at work on a job knows when it comes to its steps.
LEMMA AtWorkOn ==
  ASSUME BaseInv, Accounted, NEW s \in Slot, pc[s] \in Working
  PROVE  /\ cur[s] \in Job /\ cur[s].m \in Message /\ SlotAccount(s)
         /\ \A j \in jobs : j.m = cur[s].m => KeyAccount(j)
         /\ pc[s] \in HasKey => \A j \in jobs : j.m = cur[s].m => j = cur[s]
         /\ jobs \subseteq Job
<1>1. TypeOK /\ pc[s] # "idle"
  BY DEF BaseInv, Working, Holding
<1>2. cur[s] \in Job /\ cur[s].m \in Message /\ SlotAccount(s) /\ jobs \subseteq Job
  BY <1>1, Jobs DEF Accounted, TypeOK
<1>3. ASSUME pc[s] \in HasKey, NEW j \in jobs, j.m = cur[s].m PROVE j = cur[s]
  <2>1. cur[s] \in jobs /\ KeyAccount(cur[s])
    BY <1>2, <1>3 DEF SlotAccount, Accounted
  <2> QED BY <1>3, <2>1 DEF KeyAccount
<1> QED BY <1>2, <1>3 DEF Accounted

LEMMA ArriveAccount ==
  ASSUME BaseInv, Leases, Accounted, NEW s \in Slot, Arrive(s), calm'
  PROVE  /\ Accounted'
         /\ pc'[s] = "running" =>
              /\ cur'[s].m = cur[s].m /\ cur[s].m \in Message /\ fate[cur[s].m] = "queued"
              /\ \A t \in Slot : pc[t] \in Working => cur[t].m # cur[s].m
<1>1. /\ OnlySlot(s) /\ pc[s] = "sent" /\ UNCHANGED <<jobs, fate, fails>> /\ TypeOK
      /\ cur[s].m \in Message
      /\ \/ pc'[s] = "running" /\ cur'[s].m = cur[s].m /\ cur'[s] \in jobs
         \/ pc'[s] = "idle" /\ cur'[s] = None
  BY ArriveSlot, Jobs DEF kv, BaseInv
<1>2. CASE pc'[s] = "idle"
  <2>1. SlotAccount(s)'
    BY <1>2 DEF SlotAccount, HasKey, Holding
  <2> QED BY <1>1, <1>2, <2>1, AccountStays DEF Working, Holding
<1>3. CASE pc'[s] = "running"
  <2>1. PICK j \in jobs : cur'[s] = j /\ j.m = cur[s].m
    BY <1>1, <1>3
  <2>2. ASSUME NEW t \in Slot, pc[t] \in Working, cur[t].m = j.m PROVE FALSE
    <3>1. t # s
      BY <1>1, <2>2 DEF Working, Holding
    <3>2. pc[t] \notin Leasing
      BY <1>1, <2>1, <2>2, <3>1 DEF Leases, Leasing
    <3>3. pc[t] = "sleepstore"
      BY <2>2, <3>2 DEF Working, Holding, Leasing
    <3> QED BY <2>1, <2>2, <3>3 DEF Accounted, SlotAccount, Keys
  <2>3. fate[j.m] = "queued" /\ j.attempt = fails[j.m] + 1
    BY <2>1, <2>2 DEF Accounted, KeyAccount, Working, Holding
  <2>4. SlotAccount(s)'
    BY <1>1, <1>3, <2>1, <2>3 DEF SlotAccount, HasKey, Holding
  <2>5. Accounted'
    BY <1>1, <2>1, <2>2, <2>4, AccountStays
  <2> QED BY <1>1, <2>1, <2>2, <2>3, <2>5
<1> QED BY <1>1, <1>2, <1>3

LEMMA HandlerAccount ==
  ASSUME BaseInv, Accounted, NEW s \in Slot,
         HandlerReturns(s) \/ HandlerSleeps(s) \/ HandlerThrows(s)
  PROVE  Accounted'
<1>1. /\ OnlySlot(s) /\ TypeOK /\ pc[s] = "running"
  BY HandlerSlot DEF BaseInv, HandlerReturns, HandlerSleeps, HandlerThrows, Move
<1>2. UNCHANGED <<jobs, cur>>
  BY DEF HandlerReturns, HandlerSleeps, HandlerThrows, kv, Move
<1>3. /\ cur[s] \in Job /\ cur[s].m \in Message /\ SlotAccount(s) /\ jobs \subseteq Job
      /\ \A j \in jobs : j.m = cur[s].m => KeyAccount(j) /\ j = cur[s]
  BY <1>1, AtWorkOn DEF Working, Holding, HasKey
<1>4. /\ fate[cur[s].m] = "queued" /\ cur[s].attempt = fails[cur[s].m] + 1 /\ cur[s] \in jobs
  BY <1>1, <1>3 DEF SlotAccount, Holding, HasKey
<1>5. CASE HandlerSleeps(s)
  <2>1. UNCHANGED <<fate, fails>> /\ pc'[s] = "sleepdelete"
    <3>1. Move(s, "running", "sleepdelete") /\ UNCHANGED <<fate, fails>>
      BY <1>5 DEF HandlerSleeps
    <3> QED BY <1>1, <3>1, Moves DEF Wrapper
  <2>2. SlotAccount(s)'
    BY <1>2, <1>4, <2>1 DEF SlotAccount, Holding, HasKey
  <2>3. \A t \in Slot : t # s /\ pc[t] \in Working => cur[t].m # cur'[s].m
    BY <1>1, <1>2 DEF Accounted, Working, Holding
  <2> QED BY <1>1, <1>2, <2>1, <2>2, <2>3, AccountStays
<1>6. CASE HandlerReturns(s)
  <2>1. /\ fate' = [fate EXCEPT ![cur[s].m] = "done"] /\ UNCHANGED fails /\ pc'[s] = "donedelete"
    <3>1. Move(s, "running", "donedelete") /\ fate' = [fate EXCEPT ![cur[s].m] = "done"]
          /\ UNCHANGED fails
      BY <1>6 DEF HandlerReturns
    <3> QED BY <1>1, <3>1, Moves DEF Wrapper
  <2>2. /\ fate'[cur[s].m] = "done"
        /\ \A m \in Message : m # cur[s].m => fate'[m] = fate[m] /\ fails'[m] = fails[m]
    BY <1>1, <1>3, <2>1 DEF TypeOK
  <2>3. SlotAccount(s)'
    BY <1>2, <1>4, <2>1, <2>2 DEF SlotAccount, Holding, HasKey
  <2>4. \A j \in jobs' : j.m = cur[s].m => KeyAccount(j)'
    BY <1>2, <1>3, <2>1 DEF KeyAccount
  <2> QED BY <1>1, <1>2, <1>3, <2>1, <2>2, <2>3, <2>4, AccountMoves DEF Working, Holding
<1>7. CASE HandlerThrows(s)
  <2>1. /\ fails' = [fails EXCEPT ![cur[s].m] = IF @ < MaxAttempts THEN @ + 1 ELSE @]
        /\ fate' = IF TriesAgain(cur[s]) THEN fate ELSE [fate EXCEPT ![cur[s].m] = "dropped"]
        /\ pc'[s] = "faildelete"
    <3>1. Move(s, "running", "faildelete")
      BY <1>7 DEF HandlerThrows
    <3>2. pc'[s] = "faildelete"
      BY <1>1, <3>1, Moves DEF Wrapper
    <3> QED BY <1>7, <3>2 DEF HandlerThrows
  <2>2. /\ fate'[cur[s].m] = IF TriesAgain(cur[s]) THEN "queued" ELSE "dropped"
        /\ \A m \in Message : m # cur[s].m => fate'[m] = fate[m]
    BY <1>1, <1>3, <1>4, <2>1 DEF TypeOK
  <2>3. /\ fails'[cur[s].m] = cur[s].attempt
        /\ \A m \in Message : m # cur[s].m => fails'[m] = fails[m]
    <3>1. fails[cur[s].m] \in Nat /\ cur[s].attempt \in 1..MaxAttempts /\ MaxAttempts \in Nat
      BY <1>1, <1>3, KVQueueAssumption DEF TypeOK, Job
    <3>2. fails[cur[s].m] < MaxAttempts
      BY <1>4, <3>1
    <3> QED BY <1>1, <1>3, <1>4, <2>1, <3>2 DEF TypeOK
  <2>4. SlotAccount(s)'
    BY <1>2, <1>4, <2>1, <2>2, <2>3 DEF SlotAccount, Holding, HasKey, TriesAgain
  <2>5. \A j \in jobs' : j.m = cur[s].m => KeyAccount(j)'
    BY <1>2, <1>3, <2>1 DEF KeyAccount
  <2>6. fate'[cur[s].m] # "new"
    BY <2>2
  <2> QED BY <1>1, <1>2, <1>3, <2>1, <2>2, <2>3, <2>4, <2>5, <2>6, AccountMoves DEF Working, Holding
<1> QED BY <1>5, <1>6, <1>7

LEMMA DeletesAccount ==
  ASSUME BaseInv, BaseInv', Accounted, NEW s \in Slot, WrapperDeletes(s)
  PROVE  Accounted'
<1>1. /\ OnlySlot(s) /\ TypeOK /\ Deletion(s, pc[s], pc'[s]) /\ DeleteJob(cur[s]) /\ cur' = cur
      /\ UNCHANGED <<fate, fails>> /\ cur[s] \in Job
  BY DeletesSlot DEF BaseInv
<1>2. pc[s] \in Working /\ pc[s] \in HasKey
  BY <1>1 DEF Deletion, Working, Holding, HasKey
<1>3. /\ cur[s].m \in Message /\ SlotAccount(s) /\ jobs \subseteq Job
      /\ \A j \in jobs : j.m = cur[s].m => j = cur[s]
  BY <1>2, AtWorkOn
<1>4. /\ jobs' \subseteq jobs /\ cur[s] \notin jobs'
      /\ \A k \in jobs : k.m # cur[s].m => k \in jobs'
  BY <1>1, Deletes
<1>5. \A j \in jobs' : j.m # cur[s].m
  BY <1>3, <1>4
<1>6. SlotAccount(s)'
  <2>1. Keys(cur[s].m)' = {}
    BY <1>1, <1>5 DEF Keys
  <2>2. /\ pc[s] = "faildelete" => fate[cur[s].m] = IF TriesAgain(cur[s]) THEN "queued" ELSE "dropped"
        /\ pc[s] = "faildelete" => cur[s].attempt = fails[cur[s].m]
        /\ pc[s] = "sleepdelete" => fate[cur[s].m] = "queued" /\ cur[s].attempt = fails[cur[s].m] + 1
    BY <1>3 DEF SlotAccount, Holding
  <2>3. CASE pc[s] = "faildelete" /\ TriesAgain(cur[s])
    <3>1. pc'[s] = "failstore"
      BY <1>1, <2>3 DEF Deletion
    <3> QED BY <1>1, <2>1, <2>2, <2>3, <3>1 DEF SlotAccount, Holding, HasKey
  <2>4. CASE pc[s] = "faildelete" /\ ~TriesAgain(cur[s])
    <3>1. pc'[s] = "failrelease"
      BY <1>1, <2>4 DEF Deletion
    <3> QED BY <3>1 DEF SlotAccount, Holding, HasKey
  <2>5. CASE pc[s] = "donedelete"
    <3>1. pc'[s] = "donerelease"
      BY <1>1, <2>5 DEF Deletion
    <3> QED BY <3>1 DEF SlotAccount, Holding, HasKey
  <2>6. CASE pc[s] = "sleepdelete"
    <3>1. pc'[s] = "sleeprelease"
      BY <1>1, <2>6 DEF Deletion
    <3> QED BY <1>1, <2>1, <2>2, <2>6, <3>1 DEF SlotAccount, Holding, HasKey
  <2> QED BY <1>1, <2>3, <2>4, <2>5, <2>6 DEF Deletion
<1>7. fate[cur[s].m] # "new"
  BY <1>1, <1>3 DEF Deletion, SlotAccount, Holding
<1>8. jobs' \subseteq Job
  BY DEF BaseInv, TypeOK
<1> QED BY <1>1, <1>2, <1>3, <1>4, <1>5, <1>6, <1>7, <1>8, AccountMoves

LEMMA StoresAccount ==
  ASSUME BaseInv, BaseInv', Accounted, NEW s \in Slot, WrapperStores(s)
  PROVE  Accounted'
<1>1. /\ OnlySlot(s) /\ TypeOK /\ Storing(pc[s], pc'[s]) /\ (pc'[s] = "failrelease" => cur' = cur)
      /\ UNCHANGED <<fate, fails>> /\ cur[s] \in Job
  BY StoresSlot DEF BaseInv
<1>2. PICK k \in jobs' : k.m = cur[s].m /\ jobs' = jobs \union {k} /\ k.attempt = NextAttempt(s)
  BY StoresSlot
<1>3. pc[s] \in Working
  BY <1>1 DEF Storing, Working, Holding
<1>4. cur[s].m \in Message /\ SlotAccount(s) /\ jobs \subseteq Job
  BY <1>3, AtWorkOn
<1>5. /\ Keys(cur[s].m) = {} /\ fate[cur[s].m] = "queued"
      /\ NextAttempt(s) = fails[cur[s].m] + 1
  BY <1>1, <1>4 DEF Storing, SlotAccount, Holding, NextAttempt
<1>6. \A j \in jobs' : j.m = cur[s].m => j = k
  BY <1>2, <1>5 DEF Keys
<1>7. \A j \in jobs' : j.m = cur[s].m => KeyAccount(j)'
  BY <1>1, <1>2, <1>5, <1>6 DEF KeyAccount
<1>8. SlotAccount(s)' /\ pc'[s] \notin Working
  BY <1>1 DEF Storing, SlotAccount, Holding, HasKey, Working
<1>9. jobs' \subseteq Job
  BY DEF BaseInv, TypeOK
<1>10. \A j \in Job : j.m # cur[s].m => (j \in jobs' <=> j \in jobs)
  BY <1>2
<1> QED BY <1>1, <1>3, <1>4, <1>5, <1>7, <1>8, <1>9, <1>10, AccountMoves

LEMMA ReleasesAccount ==
  ASSUME BaseInv, Accounted, NEW s \in Slot, WrapperReleases(s)
  PROVE  Accounted'
<1>1. /\ OnlySlot(s) /\ Releasing(pc[s], pc'[s]) /\ UNCHANGED <<jobs, fate, fails>>
      /\ pc'[s] = "sleepstore" => cur' = cur
  BY ReleasesSlot
<1>2. SlotAccount(s)
  BY DEF Accounted
<1>3. SlotAccount(s)'
  <2>1. CASE pc'[s] = "idle"
    BY <2>1 DEF SlotAccount, Holding, HasKey
  <2>2. CASE pc'[s] = "sleepstore"
    <3>1. pc[s] = "sleeprelease" /\ cur' = cur
      BY <1>1, <2>2 DEF Releasing
    <3> QED BY <1>1, <1>2, <2>2, <3>1 DEF SlotAccount, Holding, HasKey, Keys
  <2> QED BY <1>1, <2>1, <2>2 DEF Releasing
<1>4. pc'[s] \in Working => \A t \in Slot : t # s /\ pc[t] \in Working => cur[t].m # cur'[s].m
  BY <1>1 DEF Releasing, Working, Holding, Accounted
<1> QED BY <1>1, <1>3, <1>4, AccountStays DEF Releasing

LEMMA EnqueueAccount ==
  ASSUME BaseInv, BaseInv', Accounted, NEW m \in Message, Enqueue(m)
  PROVE  Accounted'
<1>1. /\ TypeOK /\ fate[m] = "new" /\ fate' = [fate EXCEPT ![m] = "queued"]
      /\ UNCHANGED <<slots, fails>> /\ StoreJob(m, 1) /\ 1 \in 1..MaxAttempts
  BY KVQueueAssumption DEF BaseInv, Enqueue
<1>2. PICK k \in jobs' : k.m = m /\ k.attempt = 1 /\ jobs' = jobs \union {k}
  BY <1>1, Stores
<1>3. /\ fate'[m] = "queued" /\ fails[m] = 0
      /\ \A n \in Message : n # m => fate'[n] = fate[n]
  BY <1>1 DEF TypeOK, Accounted
<1>4. ASSUME NEW t \in Slot, pc[t] \in Working PROVE cur[t].m # m /\ cur[t] \in Job
  <2>1. fate[cur[t].m] # "new"
    BY <1>4 DEF Accounted, SlotAccount, Working, Holding
  <2> QED BY <1>1, <1>4, <2>1, AtWorkOn
<1>5. \A j \in jobs : j.m # m
  BY <1>1, <1>4 DEF Accounted, KeyAccount, Working, Holding
<1>6. ASSUME NEW t \in Slot PROVE SlotAccount(t)'
  <2>1. SlotAccount(t) /\ UNCHANGED <<pc, cur>>
    BY <1>1 DEF Accounted, slots
  <2>2. CASE pc[t] \notin Working
    BY <2>1, <2>2 DEF SlotAccount, Working, Holding, HasKey
  <2>3. CASE pc[t] \in Working
    <3>1. cur[t].m # m /\ cur[t].m \in Message
      BY <1>4, <2>3 DEF Job
    <3>2. fate'[cur[t].m] = fate[cur[t].m] /\ jobs \subseteq jobs'
      BY <1>2, <1>3, <3>1
    <3>3. {j \in jobs' : j.m = cur[t].m} = {j \in jobs : j.m = cur[t].m}
      BY <1>2, <3>1
    <3> QED BY <1>1, <2>1, <3>2, <3>3 DEF SlotAccount, Keys, TriesAgain
  <2> QED BY <2>2, <2>3
<1>7. ASSUME NEW j \in jobs' PROVE KeyAccount(j)'
  <2>1. CASE j = k
    BY <1>1, <1>2, <1>3, <1>5, <2>1 DEF KeyAccount
  <2>2. CASE j # k
    <3>1. j \in jobs /\ KeyAccount(j) /\ j.m # m /\ j.m \in Message
      BY <1>1, <1>2, <1>5, <2>2 DEF Accounted, TypeOK, Job
    <3>2. fate'[j.m] = fate[j.m] /\ UNCHANGED <<pc, cur>>
      BY <1>1, <1>3, <3>1 DEF slots
    <3> QED BY <1>1, <1>2, <3>1, <3>2 DEF KeyAccount
  <2> QED BY <2>1, <2>2
<1>8. \A n \in Message : fate'[n] = "new" => fails'[n] = 0
  BY <1>1, <1>3 DEF Accounted
<1> QED BY <1>1, <1>6, <1>7, <1>8 DEF Accounted, slots

\* What is cut off while nothing is counted is at most a drain.
LEMMA NothingCut ==
  ASSUME BaseInv, NEW H \in SUBSET Host, NEW D \in SUBSET Slot, NEW W \in SUBSET Slot,
         CutOff(H, D, W), cut' = 0
  PROVE  UNCHANGED <<slots, jobs, fate, fails>>
<1>1. D \union W = {}
  <2>1. /\ IsFiniteSet(D \union W) /\ Cardinality(D \union W) \in Nat
        /\ cut \in Nat /\ cut' = cut + Cardinality(D \union W)
    BY CutCounted
  <2>2. Cardinality(D \union W) = 0
    BY <2>1
  <2> QED BY <2>1, <2>2, FS_EmptySet
<1>2. UNCHANGED <<jobs, fate, fails>>
  BY DEF CutOff, kv
<1>3. /\ client = [s \in Slot |-> client[s]] /\ sent = [s \in Slot |-> sent[s]]
      /\ pc = [s \in Slot |-> pc[s]] /\ cur = [s \in Slot |-> cur[s]]
  BY DEF BaseInv, TypeOK
<1>4. UNCHANGED slots
  BY <1>1, <1>3 DEF CutOff, slots
<1> QED BY <1>2, <1>4

LEMMA AccountStep ==
  BaseInv /\ BaseInv' /\ ExclusiveInv /\ AccountInv /\ [Next]_vars => AccountInv'
<1> SUFFICES ASSUME BaseInv, BaseInv', ExclusiveInv, AccountInv, [Next]_vars, Serene'
             PROVE  Accounted'
  BY DEF AccountInv
<1>1. /\ Serene /\ Leases /\ Accounted /\ calm' /\ cut' = 0
  BY FaultsCount DEF Serene, ExclusiveInv, AccountInv
<1>2. ASSUME UNCHANGED <<slots, jobs, fate, fails>> PROVE Accounted'
  BY <1>1, <1>2 DEF Accounted, SlotAccount, KeyAccount, Keys, slots
<1>3. CASE UNCHANGED vars
  BY <1>2, <1>3 DEF vars, kv
<1>4. ASSUME NEW s \in Slot, WrapperStep(s) PROVE Accounted'
  BY <1>1, <1>4, ArriveAccount, HandlerAccount, DeletesAccount, ReleasesAccount, StoresAccount
     DEF WrapperStep
<1>5. ASSUME NEW s \in Slot, ClientStep(s) PROVE Accounted'
  <2>1. OnlySlot(s) /\ client[s] # "none" /\ UNCHANGED <<pc, cur>>
    BY <1>5, ClientSlot
  <2>2. client[s] = "open"
    BY <1>1, <2>1 DEF Leases
  <2>3. UNCHANGED <<jobs, fate, fails>>
    BY <1>5, <2>2, ClientSlot DEF kv
  <2>4. pc[s] = "idle"
    BY <1>5, <2>2 DEF ClientStep, Response, ClientDeletes, ClientStores, ClientReleases, Step
  <2>5. SlotAccount(s)'
    BY <2>1, <2>4 DEF SlotAccount, Holding, HasKey
  <2> QED BY <1>1, <2>1, <2>3, <2>4, <2>5, AccountStays DEF Working, Holding
<1>6. ASSUME NEW s \in Slot, NetError(s) PROVE FALSE
  BY <1>1, <1>6, NetErrorSlot DEF Serene
<1>11. ASSUME NEW H \in SUBSET Host, NEW D \in SUBSET Slot, NEW W \in SUBSET Slot,
              CutOff(H, D, W)
       PROVE  Accounted'
  BY <1>1, <1>2, <1>11, NothingCut
<1>7. ASSUME NEW h \in Host, NEW s \in Slot, LeasePut(h, s) PROVE Accounted'
  <2>1. /\ OnlySlot(s) /\ UNCHANGED <<jobs, fate, fails>> /\ pc[s] = "idle" /\ pc'[s] = "sent"
    BY <1>7, LeasePutSlot
  <2>2. SlotAccount(s)'
    BY <2>1 DEF SlotAccount, Holding, HasKey
  <2> QED BY <1>1, <2>1, <2>2, AccountStays DEF Working, Holding
<1>8. ASSUME NEW h \in Host, NEW j \in jobs \union gone, ReadJob(h, j) PROVE Accounted'
  BY <1>2, <1>8 DEF ReadJob, kv
<1>9. ASSUME NEW m \in Message, LeaseExpires(m) PROVE Accounted'
  BY <1>2, <1>9 DEF LeaseExpires
<1>10. ASSUME NEW m \in Message, Enqueue(m) PROVE Accounted'
  BY <1>1, <1>10, EnqueueAccount
<1> QED BY <1>3, <1>4, <1>5, <1>6, <1>7, <1>8, <1>9, <1>10, <1>11 DEF Next

LEMMA AccountInitially == Init => AccountInv
BY DEF Init, AccountInv, Accounted, SlotAccount, KeyAccount, Working, Holding, HasKey

----------------------------------------------------------------------------
(* The abstract queue.                                                     *)

Holds(s, m) == pc[s] \in Holding /\ cur[s].m = m

\* What AbsState comes to while nobody shares a job and none is lost.
Place(m) ==
  IF fate[m] # "queued" THEN fate[m]
  ELSE IF \E s \in Slot : Holds(s, m) THEN "held" ELSE "ready"

Sound == BaseInv /\ Leases /\ Accounted /\ Lost = {}

LEMMA Placed == Sound => \A m \in Message : AbsState(m) = Place(m)
<1> SUFFICES ASSUME Sound, NEW m \in Message PROVE AbsState(m) = Place(m)
  OBVIOUS
<1>1. \A s \in Slot : s \in Holders(m) <=> Holds(s, m)
  <2>1. \A s \in Slot : pc[s] \in Holding => cur[s] # None
    BY DEF Sound, BaseInv, TypeOK, Holding
  <2> QED BY <2>1 DEF Holders, Holds, Holding
<1>2. CASE \E s \in Slot : Holds(s, m)
  <2>1. PICK s \in Slot : Holds(s, m)
    BY <1>2
  <2>2. \A t \in Slot : Holds(t, m) => t = s
    BY <2>1 DEF Sound, Accounted, Holds, Working
  <2>3. Holders(m) = {s}
    BY <1>1, <2>1, <2>2 DEF Holders
  <2>4. Cardinality(Holders(m)) = 1 /\ Holders(m) # {}
    BY <2>3, FS_Singleton
  <2> QED BY <1>2, <2>4 DEF AbsState, Place
<1>3. CASE ~\E s \in Slot : Holds(s, m)
  <2>1. Holders(m) = {}
    BY <1>1, <1>3 DEF Holders
  <2> QED BY <1>3, <2>1 DEF AbsState, Place, Sound
<1> QED BY <1>2, <1>3

LEMMA PlacedNext == Sound' => \A m \in Message : AbsState(m)' = Place(m)'
<1>1. Sound' => (\A m \in Message : AbsState(m) = Place(m))'
  BY Placed, PTL
<1> QED BY <1>1

\* A step the abstract queue does not see, of one job and of all of them.
Stays(m) ==
  /\ fate'[m] = fate[m] /\ fails'[m] = fails[m]
  /\ fate[m] = "queued" => \A s \in Slot : Holds(s, m)' <=> Holds(s, m)

LEMMA Unseen ==
  ASSUME Sound, Sound', \A m \in Message : Stays(m)
  PROVE  UNCHANGED Abstract!absVars
<1>1. \A m \in Message : AbsState(m)' = AbsState(m)
  <2> SUFFICES ASSUME NEW m \in Message PROVE AbsState(m)' = AbsState(m)
    OBVIOUS
  <2>1. Place(m)' = Place(m)
    BY DEF Stays, Place
  <2> QED BY <2>1, Placed, PlacedNext
<1>2. fails' = fails
  <2>1. fails \in [Message -> 0..MaxAttempts] /\ fails' \in [Message -> 0..MaxAttempts]
    BY DEF Sound, BaseInv, TypeOK
  <2>2. \A m \in Message : fails'[m] = fails[m]
    BY DEF Stays
  <2> QED BY <2>1, <2>2
<1> QED BY <1>1, <1>2 DEF Abstract!absVars

\* A step of one job, as the abstract queue makes it.
LEMMA Seen ==
  ASSUME Sound, Sound', NEW m \in Message, NEW from, NEW to,
         Place(m) = from, Place(m)' = to,
         \A n \in Message : n # m => Stays(n)
  PROVE  /\ Abstract!Move(m, from, to)
         /\ fails' = [fails EXCEPT ![m] = fails'[m]]
<1>1. ASSUME NEW n \in Message, n # m PROVE AbsState(n)' = AbsState(n)
  <2>1. Place(n)' = Place(n)
    BY <1>1 DEF Stays, Place
  <2> QED BY <2>1, Placed, PlacedNext
<1>2. AbsState(m) = Place(m) /\ AbsState(m)' = Place(m)'
  BY Placed, PlacedNext
<1>3. fails' = [fails EXCEPT ![m] = fails'[m]]
  <2>1. fails \in [Message -> 0..MaxAttempts] /\ fails' \in [Message -> 0..MaxAttempts]
    BY DEF Sound, BaseInv, TypeOK
  <2>2. \A n \in Message : n # m => fails'[n] = fails[n]
    BY DEF Stays
  <2> QED BY <2>1, <2>2
<1> QED BY <1>1, <1>2, <1>3 DEF Abstract!Move

\* The holders of other jobs than the one that s is at work on.
LEMMA OthersStay ==
  ASSUME NEW s \in Slot, OnlySlot(s), NEW m \in Message,
         \A n \in Message : n # m => fate'[n] = fate[n] /\ fails'[n] = fails[n],
         pc[s] \in Holding => cur[s].m = m,
         pc'[s] \in Holding => cur'[s].m = m
  PROVE  \A n \in Message : n # m => Stays(n)
BY DEF Stays, Holds, OnlySlot

LEMMA Still ==
  ASSUME NEW s \in Slot, OnlySlot(s), UNCHANGED <<fate, fails>>,
         \A m \in Message : fate[m] = "queued" => (Holds(s, m)' <=> Holds(s, m))
  PROVE  \A n \in Message : Stays(n)
BY DEF Stays, Holds, OnlySlot

LEMMA ArriveRefines ==
  ASSUME Sound, Sound', NEW s \in Slot, Arrive(s), calm'
  PROVE  [Abstract!AbsNext]_(Abstract!absVars)
<1>1. /\ OnlySlot(s) /\ pc[s] = "sent" /\ UNCHANGED <<fate, fails>>
      /\ pc'[s] \in {"running", "idle"}
  BY ArriveSlot DEF Sound
<1>2. CASE pc'[s] = "idle"
  <2>1. \A m \in Message : Stays(m)
    BY <1>1, <1>2, Still DEF Holds, Holding
  <2> QED BY <2>1, Unseen
<1>3. CASE pc'[s] = "running"
  <2>1. /\ cur'[s].m = cur[s].m /\ cur[s].m \in Message /\ fate[cur[s].m] = "queued"
        /\ \A t \in Slot : pc[t] \in Working => cur[t].m # cur[s].m
    BY <1>3, ArriveAccount DEF Sound
  <2>2. PICK m \in Message : m = cur[s].m
    BY <2>1
  <2>3. \A n \in Message : n # m => Stays(n)
    BY <1>1, <2>1, <2>2, OthersStay DEF Holding
  <2>4. Place(m) = "ready"
    BY <2>1, <2>2 DEF Place, Holds, Working
  <2>5. Place(m)' = "held"
    BY <1>1, <1>3, <2>1, <2>2 DEF Place, Holds, Holding
  <2>6. Abstract!Take(m)
    BY <1>1, <2>3, <2>4, <2>5, Seen DEF Abstract!Take
  <2> QED BY <2>6 DEF Abstract!AbsNext
<1> QED BY <1>1, <1>2, <1>3

\* The failure of a handler, which its job survives or not.
LEMMA ThrowRefines ==
  ASSUME Sound, Sound', NEW s \in Slot, HandlerThrows(s)
  PROVE  [Abstract!AbsNext]_(Abstract!absVars)
<1>1. /\ OnlySlot(s) /\ TypeOK /\ Move(s, "running", "faildelete") /\ pc[s] = "running"
  BY HandlerSlot DEF Sound, BaseInv, HandlerThrows, Move
<1>2. pc'[s] = "faildelete" /\ cur' = cur
  BY <1>1, Moves DEF Wrapper
<1>3. /\ cur[s] \in Job /\ cur[s].m \in Message /\ fate[cur[s].m] = "queued"
      /\ cur[s].attempt = fails[cur[s].m] + 1
  BY <1>1, AtWorkOn DEF Sound, Working, Holding, SlotAccount
<1>4. PICK m \in Message : m = cur[s].m
  BY <1>3
<1>5. /\ fails[m] \in Nat /\ MaxAttempts \in Nat /\ fails[m] < MaxAttempts
      /\ TriesAgain(cur[s]) <=> fails[m] + 1 < MaxAttempts
      /\ ~TriesAgain(cur[s]) => fails[m] + 1 = MaxAttempts
  <2>1. /\ fails[m] \in Nat /\ cur[s].attempt \in 1..MaxAttempts /\ MaxAttempts \in Nat
        /\ cur[s].attempt = fails[m] + 1
    BY <1>1, <1>3, <1>4, KVQueueAssumption DEF TypeOK, Job
  <2> QED BY <2>1 DEF TriesAgain
<1>6. /\ fails'[m] = fails[m] + 1
      /\ \A n \in Message : n # m => fails'[n] = fails[n]
  <2>1. fails' = [fails EXCEPT ![m] = IF @ < MaxAttempts THEN @ + 1 ELSE @]
    BY <1>4 DEF HandlerThrows
  <2> QED BY <1>1, <1>5, <2>1 DEF TypeOK
<1>7. /\ fate'[m] = IF TriesAgain(cur[s]) THEN "queued" ELSE "dropped"
      /\ \A n \in Message : n # m => fate'[n] = fate[n]
  <2>1. fate' = IF TriesAgain(cur[s]) THEN fate ELSE [fate EXCEPT ![m] = "dropped"]
    BY <1>4 DEF HandlerThrows
  <2> QED BY <1>1, <1>3, <1>4, <2>1 DEF TypeOK
<1>8. \A n \in Message : n # m => Stays(n)
  BY <1>1, <1>2, <1>4, <1>6, <1>7, OthersStay
<1>9. Place(m) = "held"
  BY <1>1, <1>3, <1>4 DEF Place, Holds, Holding
<1>10. CASE TriesAgain(cur[s])
  <2>1. Place(m)' = "held"
    BY <1>2, <1>4, <1>7, <1>10 DEF Place, Holds, Holding
  <2>2. Abstract!Move(m, "held", "held") /\ fails' = [fails EXCEPT ![m] = fails[m] + 1]
    BY <1>6, <1>8, <1>9, <2>1, Seen
  <2>3. [n \in Message |-> AbsState(n)][m] = "held"
        /\ [n \in Message |-> AbsState(n)]' = [[n \in Message |-> AbsState(n)] EXCEPT ![m] = "held"]
    BY <2>2 DEF Abstract!Move
  <2>4. [n \in Message |-> AbsState(n)]' = [n \in Message |-> AbsState(n)]
    BY <2>3
  <2>5. Abstract!Fail(m)
    BY <1>5, <1>10, <2>2, <2>3, <2>4 DEF Abstract!Fail
  <2> QED BY <2>5 DEF Abstract!AbsNext
<1>11. CASE ~TriesAgain(cur[s])
  <2>1. Place(m)' = "dropped"
    BY <1>7, <1>11 DEF Place
  <2>2. Abstract!Move(m, "held", "dropped") /\ fails' = [fails EXCEPT ![m] = fails'[m]]
    BY <1>8, <1>9, <2>1, Seen
  <2>3. fails'[m] = MaxAttempts /\ fails[m] + 1 = MaxAttempts
    BY <1>5, <1>6, <1>11
  <2>4. Abstract!Drop(m)
    BY <2>2, <2>3 DEF Abstract!Drop
  <2> QED BY <2>4 DEF Abstract!AbsNext
<1> QED BY <1>10, <1>11

LEMMA HandlerRefines ==
  ASSUME Sound, Sound', NEW s \in Slot, HandlerReturns(s) \/ HandlerSleeps(s)
  PROVE  [Abstract!AbsNext]_(Abstract!absVars)
<1>1. OnlySlot(s) /\ TypeOK /\ UNCHANGED fails
  BY HandlerSlot DEF Sound, BaseInv, HandlerReturns, HandlerSleeps
<1>2. CASE HandlerReturns(s)
  <2>1. /\ Move(s, "running", "donedelete") /\ pc[s] = "running"
    BY <1>2 DEF HandlerReturns, Move
  <2>2. pc'[s] = "donedelete"
    BY <1>1, <2>1, Moves DEF Wrapper
  <2>3. cur[s].m \in Message /\ fate[cur[s].m] = "queued"
    BY <2>1, AtWorkOn DEF Sound, Working, Holding, SlotAccount
  <2>4. PICK m \in Message : m = cur[s].m
    BY <2>3
  <2>5. \A n \in Message : fate'[n] = IF n = m THEN "done" ELSE fate[n]
    BY <1>1, <1>2, <2>4 DEF HandlerReturns, TypeOK
  <2>6. \A n \in Message : n # m => Stays(n)
    BY <1>1, <2>2, <2>4, <2>5, OthersStay DEF Holding
  <2>7. Place(m) = "held" /\ Place(m)' = "done"
    BY <2>1, <2>3, <2>4, <2>5 DEF Place, Holds, Holding
  <2>8. Abstract!Complete(m)
    BY <1>1, <2>6, <2>7, Seen DEF Abstract!Complete
  <2> QED BY <2>8 DEF Abstract!AbsNext
<1>3. CASE HandlerSleeps(s)
  <2>1. Move(s, "running", "sleepdelete") /\ UNCHANGED fate /\ pc[s] = "running"
    BY <1>3 DEF HandlerSleeps, Move
  <2>2. pc'[s] = "sleepdelete" /\ cur' = cur
    BY <1>1, <2>1, Moves DEF Wrapper
  <2>3. \A m \in Message : Stays(m)
    BY <1>1, <2>1, <2>2, Still DEF Holds, Holding
  <2> QED BY <2>3, Unseen
<1> QED BY <1>2, <1>3

LEMMA DeletesRefines ==
  ASSUME Sound, Sound', NEW s \in Slot, WrapperDeletes(s)
  PROVE  [Abstract!AbsNext]_(Abstract!absVars)
<1>1. /\ OnlySlot(s) /\ Deletion(s, pc[s], pc'[s]) /\ cur' = cur /\ UNCHANGED <<fate, fails>>
      /\ SlotInv(s)
  BY DeletesSlot DEF Sound, BaseInv
<1>2. ASSUME NEW m \in Message, fate[m] = "queued" PROVE Holds(s, m)' <=> Holds(s, m)
  BY <1>1, <1>2 DEF Deletion, Holds, Holding, SlotInv, Over
<1>3. \A m \in Message : Stays(m)
  BY <1>1, <1>2, Still
<1> QED BY <1>3, Unseen

LEMMA ReleasesRefines ==
  ASSUME Sound, Sound', NEW s \in Slot, WrapperReleases(s)
  PROVE  [Abstract!AbsNext]_(Abstract!absVars)
<1>1. /\ OnlySlot(s) /\ Releasing(pc[s], pc'[s]) /\ UNCHANGED <<fate, fails>>
      /\ pc'[s] = "sleepstore" => cur' = cur
  BY ReleasesSlot DEF Sound
<1>2. \A m \in Message : Holds(s, m)' <=> Holds(s, m)
  BY <1>1 DEF Releasing, Holds, Holding
<1>3. \A m \in Message : Stays(m)
  BY <1>1, <1>2, Still
<1> QED BY <1>3, Unseen

LEMMA StoresRefines ==
  ASSUME Sound, Sound', NEW s \in Slot, WrapperStores(s)
  PROVE  [Abstract!AbsNext]_(Abstract!absVars)
<1>1. /\ OnlySlot(s) /\ Storing(pc[s], pc'[s]) /\ UNCHANGED <<fate, fails>>
  BY StoresSlot DEF Sound
<1>2. pc[s] \in Holding \ {"faildelete"} /\ pc'[s] \notin Holding
  BY <1>1 DEF Storing, Holding
<1>3. cur[s].m \in Message /\ fate[cur[s].m] = "queued"
      /\ \A t \in Slot : t # s /\ pc[t] \in Working => cur[t].m # cur[s].m
  BY <1>2, AtWorkOn DEF Sound, Accounted, Working, SlotAccount
<1>4. PICK m \in Message : m = cur[s].m
  BY <1>3
<1>5. \A n \in Message : n # m => Stays(n)
  BY <1>1, <1>2, <1>4, OthersStay
<1>6. Place(m) = "held"
  BY <1>2, <1>3, <1>4 DEF Place, Holds
<1>7. \A t \in Slot : ~Holds(t, m)'
  BY <1>1, <1>2, <1>3, <1>4 DEF Holds, OnlySlot, Working
<1>8. Place(m)' = "ready"
  BY <1>1, <1>3, <1>4, <1>7 DEF Place
<1>9. Abstract!Return(m)
  BY <1>1, <1>5, <1>6, <1>8, Seen DEF Abstract!Return
<1> QED BY <1>9 DEF Abstract!AbsNext

LEMMA EnqueueRefines ==
  ASSUME Sound, Sound', NEW m \in Message, Enqueue(m)
  PROVE  [Abstract!AbsNext]_(Abstract!absVars)
<1>1. /\ TypeOK /\ fate[m] = "new" /\ fate' = [fate EXCEPT ![m] = "queued"]
      /\ UNCHANGED <<slots, fails>>
  BY DEF Sound, BaseInv, Enqueue
<1>2. /\ fate'[m] = "queued" /\ \A n \in Message : n # m => fate'[n] = fate[n]
      /\ UNCHANGED <<pc, cur, fails>>
  BY <1>1 DEF TypeOK, slots
<1>3. \A n \in Message : n # m => Stays(n)
  BY <1>2 DEF Stays, Holds
<1>4. ASSUME NEW s \in Slot, Holds(s, m) PROVE FALSE
  BY <1>1, <1>4 DEF Sound, Accounted, SlotAccount, Holds, Holding
<1>5. Place(m) = "new" /\ Place(m)' = "ready"
  BY <1>1, <1>2, <1>4 DEF Place, Holds
<1>6. Abstract!Put(m)
  BY <1>2, <1>3, <1>5, Seen DEF Abstract!Put
<1> QED BY <1>6 DEF Abstract!AbsNext

LEMMA QueueRefines ==
  ASSUME Serene, Serene', Sound, Sound', [Next]_vars
  PROVE  [Abstract!AbsNext]_(Abstract!absVars)
<1>1. BaseInv /\ Leases /\ calm' /\ cut' = 0
  BY DEF Sound, Serene
<1>2. ASSUME UNCHANGED <<slots, fate, fails>> PROVE [Abstract!AbsNext]_(Abstract!absVars)
  <2>1. \A m \in Message : Stays(m)
    BY <1>2 DEF Stays, Holds, slots
  <2> QED BY <2>1, Unseen
<1>3. CASE UNCHANGED vars
  BY <1>2, <1>3 DEF vars
<1>4. ASSUME NEW s \in Slot, WrapperStep(s) PROVE [Abstract!AbsNext]_(Abstract!absVars)
  BY <1>1, <1>4, ArriveRefines, HandlerRefines, ThrowRefines, DeletesRefines, ReleasesRefines, StoresRefines
     DEF WrapperStep
<1>5. ASSUME NEW s \in Slot, ClientStep(s) PROVE [Abstract!AbsNext]_(Abstract!absVars)
  <2>1. OnlySlot(s) /\ client[s] # "none" /\ UNCHANGED <<pc, cur, fails>>
    BY <1>1, <1>5, ClientSlot
  <2>2. UNCHANGED fate
    BY <1>1, <1>5, <2>1, ClientSlot DEF Leases
  <2>3. \A m \in Message : Stays(m)
    BY <2>1, <2>2 DEF Stays, Holds
  <2> QED BY <2>3, Unseen
<1>6. ASSUME NEW s \in Slot, NetError(s) PROVE FALSE
  BY <1>1, <1>6, NetErrorSlot DEF Serene
<1>11. ASSUME NEW H \in SUBSET Host, NEW D \in SUBSET Slot, NEW W \in SUBSET Slot,
              CutOff(H, D, W)
       PROVE  [Abstract!AbsNext]_(Abstract!absVars)
  BY <1>1, <1>2, <1>11, NothingCut
<1>7. ASSUME NEW h \in Host, NEW s \in Slot, LeasePut(h, s)
      PROVE  [Abstract!AbsNext]_(Abstract!absVars)
  <2>1. /\ OnlySlot(s) /\ UNCHANGED <<fate, fails>> /\ pc[s] = "idle" /\ pc'[s] = "sent"
    BY <1>1, <1>7, LeasePutSlot
  <2>2. \A m \in Message : Stays(m)
    BY <2>1, Still DEF Holds, Holding
  <2> QED BY <2>2, Unseen
<1>8. ASSUME NEW h \in Host, NEW j \in jobs \union gone, ReadJob(h, j)
      PROVE  [Abstract!AbsNext]_(Abstract!absVars)
  BY <1>2, <1>8 DEF ReadJob
<1>9. ASSUME NEW m \in Message, LeaseExpires(m) PROVE [Abstract!AbsNext]_(Abstract!absVars)
  BY <1>2, <1>9 DEF LeaseExpires
<1>10. ASSUME NEW m \in Message, Enqueue(m)
       PROVE  [Abstract!AbsNext]_(Abstract!absVars)
  BY <1>10, EnqueueRefines
<1> QED BY <1>3, <1>4, <1>5, <1>6, <1>7, <1>8, <1>9, <1>10, <1>11 DEF Next

\* As long as nothing fails and the wrapper's lookup returns no deleted key, the
\* queue is the abstract one, by leases alone and with hosts that are given of
\* deleted keys and act on them: a job that was put is, until it is completed
\* or has failed MaxAttempts times, ready or with exactly one handler.
THEOREM Refinement == Spec => ImplementsDurableQueue
<1>1. Init => Abstract!AbsInit
  <2> SUFFICES ASSUME Init PROVE Abstract!AbsInit
    OBVIOUS
  <2>1. \A m \in Message : AbsState(m) = "new"
    BY DEF Init, AbsState
  <2> QED BY <2>1 DEF Init, Abstract!AbsInit
<1> DEFINE Inv == BaseInv /\ ExclusiveInv /\ LossInv /\ AccountInv
<1>2. Inv /\ Serene => Sound
  <2> SUFFICES ASSUME Inv, Serene PROVE Sound
    OBVIOUS
  <2>1. Lost = {}
    <3>1. IsFiniteSet(Lost) /\ Cardinality(Lost) <= 0
      BY DEF LossInv, Serene
    <3>2. Cardinality(Lost) = 0
      BY <3>1, FS_CardinalityType
    <3> QED BY <3>1, <3>2, FS_EmptySet
  <2> QED BY <2>1 DEF ExclusiveInv, AccountInv, Serene, Sound
<1>3. Inv /\ Inv' /\ [Next]_vars => (Serene' => [Abstract!AbsNext]_(Abstract!absVars))
  <2> SUFFICES ASSUME Inv, Inv', [Next]_vars, Serene' PROVE [Abstract!AbsNext]_(Abstract!absVars)
    OBVIOUS
  <2>1. Serene
    BY FaultsCount DEF Serene
  <2>2. (Inv /\ Serene)' => Sound'
    BY <1>2, PTL
  <2> QED BY <1>2, <2>1, <2>2, QueueRefines
<1>4. Spec => []Inv
  <2>1. Init => Inv
    BY BaseInitially, ExclusiveInitially, LossInitially, AccountInitially
  <2>2. Inv /\ [Next]_vars => Inv'
    BY BaseStep, ExclusiveStep, LossStep, AccountStep
  <2> QED BY <2>1, <2>2, PTL DEF Spec
<1>5. (Serene' => [Abstract!AbsNext]_(Abstract!absVars))
        => ((calm /\ cut = 0)' => [Abstract!AbsNext]_(Abstract!absVars))
  BY DEF Serene
<1> QED BY <1>1, <1>3, <1>4, <1>5, PTL DEF Spec, ImplementsDurableQueue
=============================================================================
