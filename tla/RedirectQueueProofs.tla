------------------------ MODULE RedirectQueueProofs ------------------------
(***************************************************************************)
(* Proofs about RedirectQueue, for every number of messages, dispatches    *)
(* and processes.  What holds whatever goes wrong (BaseInv) is what a slot *)
(* can be in the middle of, and what has become of the job it has to do    *)
(* with; the theorems add to it who may hold a job, and what has been lost.*)
(***************************************************************************)
EXTENDS RedirectQueue, TLAPS, FiniteSetTheorems

Over == {"done", "dropped"}
Catching == {"bump", "requeue", "drop", "dropzrem"}

\* What a slot's wrapper and its client are in the middle of.
SlotInv(s) ==
    /\ pc[s] = "idle" => cur[s] = None /\ next[s] = None /\ rest[s] = {}
    /\ pc[s] \in {"claimed", "sent"} => next[s] = None /\ rest[s] = {}
    /\ pc[s] \in {"claimed", "sent", "resched", "del", "zrem", "drop", "dropzrem"}
         => cur[s] # None
    /\ pc[s] = "redirect" => next[s] # None /\ rest[s] = {} /\ HopsLeft(s)
    /\ pc[s] \in {"del", "zrem", "drop", "dropzrem"} => fate[cur[s]] \in Over
    /\ pc[s] = "claimed" => client[s] = "open"
    /\ client[s] = "none" => orig[s] = None
    /\ client[s] \in Catching => orig[s] # None
    /\ client[s] = "bump" => sentAs[s] + 1 <= MaxAttempts
    /\ client[s] \in {"drop", "dropzrem"} => fate[orig[s]] \in Over

\* Whether anybody has to do with a message.
Known(m) ==
    \/ sched[m] # "out"
    \/ \E s \in Slot : cur[s] = m \/ orig[s] = m \/ next[s] = m \/ m \in rest[s]
    \/ \E h \in Host : m \in batch[h]

\* A message nobody has to do with before queue() has scheduled it, and a hash
\* until its fate is settled; a continuation is scheduled by a running handler.
MessageInv(m) ==
    /\ Known(m) => fate[m] \notin {"new", "writing"}
    /\ pending[m] # "no" => fate[m] = "writing"
    /\ fate[m] \in {"writing", "queued"} => hash[m] = "full"
    /\ \A s \in Slot : pending[m] = s => pc[s] = "running"

BaseInv ==
    /\ TypeOK
    /\ \A s \in Slot : SlotInv(s)
    /\ \A m \in Message : MessageInv(m)

----------------------------------------------------------------------------
\* The slot at rest.
LEMMA RestTyped ==
    ASSUME TypeOK, NEW s \in Slot, Rest(s)
    PROVE  /\ pc' \in [Slot -> WrapperState]
           /\ cur' \in [Slot -> Message \union {None}]
           /\ hop' \in [Slot -> 0 .. MaxHops - 1]
           /\ seen' \in [Slot -> 0 .. MaxAttempts]
           /\ next' \in [Slot -> Message \union {None}]
           /\ rest' \in [Slot -> SUBSET Message]
BY QueueAssumption DEF TypeOK, Rest, WrapperState

LEMMA RespondTyped ==
    ASSUME TypeOK, NEW s \in Slot, Respond(s)
    PROVE  /\ Rest(s)
           /\ client' \in [Slot -> ClientState]
           /\ orig' \in [Slot -> Message \union {None}]
           /\ sentAs' \in [Slot -> 0 .. MaxAttempts]
<1>1. Rest(s)
  BY DEF Respond
<1>2. client' \in [Slot -> ClientState] /\ orig' \in [Slot -> Message \union {None}]
  BY DEF TypeOK, Respond, ClientState
<1>3. sentAs' \in [Slot -> 0 .. MaxAttempts]
  BY QueueAssumption DEF TypeOK, Respond
<1> QED BY <1>1, <1>2, <1>3

LEMMA MessageTyped ==
    ASSUME TypeOK, NEW m \in Message,
           \/ TimePasses(m) \/ ScheduleJob(m)
           \/ \E by \in {"now", "delayed"} \union Slot : WriteJob(m, by)
    PROVE  TypeOK'
<1>1. CASE TimePasses(m)
  <2>1. late' \in SUBSET Message /\ IsFiniteSet(late') /\ Cardinality(late') <= MaxLate
    <3>1. CASE late' = late
      BY <3>1 DEF TypeOK
    <3>2. CASE late' # late
      <4>1. late' = late \union {m} /\ Cardinality(late) < MaxLate
        BY <1>1, <3>2 DEF TimePasses
      <4>2. /\ IsFiniteSet(late') /\ Cardinality(late) \in Nat
            /\ Cardinality(late') \in {Cardinality(late), Cardinality(late) + 1}
        BY <4>1, FS_AddElement, FS_CardinalityType DEF TypeOK
      <4> QED BY <4>1, <4>2, QueueAssumption DEF TypeOK
    <3> QED BY <3>1, <3>2
  <2>2. sched' \in [Message -> SchedState]
    BY <1>1 DEF TypeOK, TimePasses, SchedState
  <2> QED BY <1>1, <2>1, <2>2 DEF TypeOK, TimePasses, dispatcher, wrapper, ghost
<1>2. CASE ScheduleJob(m)
  <2> DEFINE by == pending[m]
  <2>1. sched' \in [Message -> SchedState]
    BY <1>2 DEF TypeOK, ScheduleJob, RunAt, SchedState
  <2>2. next' \in [Slot -> Message \union {None}] /\ rest' \in [Slot -> SUBSET Message]
    <3>1. CASE by \notin Slot
      BY <1>2, <3>1 DEF TypeOK, ScheduleJob
    <3>2. CASE by \in Slot /\ next[by] = None
      BY <1>2, <3>2 DEF TypeOK, ScheduleJob
    <3>3. CASE by \in Slot /\ next[by] # None
      BY <1>2, <3>3 DEF TypeOK, ScheduleJob
    <3> QED BY <3>1, <3>2, <3>3
  <2>3. fate' \in [Message -> Fate] /\ pending' \in [Message -> {"no", "now", "delayed"} \union Slot]
    BY <1>2 DEF TypeOK, ScheduleJob, Fate
  <2> QED BY <1>2, <2>1, <2>2, <2>3 DEF TypeOK, ScheduleJob, dispatcher, bounds
<1>3. ASSUME NEW by \in {"now", "delayed"} \union Slot, WriteJob(m, by) PROVE TypeOK'
  <2>1. attempt' \in [Message -> 0 .. MaxAttempts]
    BY <1>3, QueueAssumption DEF TypeOK, WriteJob
  <2>2. /\ hash' \in [Message -> {"absent", "full", "partial"}]
        /\ pending' \in [Message -> {"no", "now", "delayed"} \union Slot]
        /\ fate' \in [Message -> Fate]
    BY <1>3 DEF TypeOK, WriteJob, Fate
  <2> QED BY <1>3, <2>1, <2>2 DEF TypeOK, WriteJob, dispatcher, wrapper, bounds
<1> QED BY <1>1, <1>2, <1>3

LEMMA HostTyped ==
    ASSUME TypeOK, NEW h \in Host, ReadDue(h) \/ \E m \in Message : Claim(h, m)
    PROVE  TypeOK'
<1>1. CASE ReadDue(h)
  <2>1. batch' \in [Host -> SUBSET Message]
    BY <1>1 DEF TypeOK, ReadDue, Due
  <2> QED BY <1>1, <2>1 DEF TypeOK, ReadDue, redis, wrapper, ghost, bounds
<1>2. ASSUME NEW m \in Message, Claim(h, m) PROVE TypeOK'
  <2>1. batch' \in [Host -> SUBSET Message]
    BY <1>2 DEF TypeOK, Claim
  <2>2. sched' \in [Message -> SchedState]
    BY <1>2 DEF TypeOK, Claim, SchedState
  <2>3. /\ client' \in [Slot -> ClientState] /\ orig' \in [Slot -> Message \union {None}]
        /\ pc' \in [Slot -> WrapperState] /\ cur' \in [Slot -> Message \union {None}]
    <3>1. CASE UNCHANGED <<client, orig, pc, cur>>
      BY <3>1 DEF TypeOK
    <3>2. CASE \E s \in Slot : /\ client' = [client EXCEPT ![s] = "open"]
                              /\ orig' = [orig EXCEPT ![s] = m]
                              /\ pc' = [pc EXCEPT ![s] = "claimed"]
                              /\ cur' = [cur EXCEPT ![s] = m]
      <4>1. PICK s \in Slot : /\ client' = [client EXCEPT ![s] = "open"]
                             /\ orig' = [orig EXCEPT ![s] = m]
                             /\ pc' = [pc EXCEPT ![s] = "claimed"]
                             /\ cur' = [cur EXCEPT ![s] = m]
        BY <3>2
      <4>2. client' \in [Slot -> ClientState] /\ pc' \in [Slot -> WrapperState]
        BY <4>1 DEF TypeOK, ClientState, WrapperState
      <4>3. orig' \in [Slot -> Message \union {None}] /\ cur' \in [Slot -> Message \union {None}]
        BY <4>1 DEF TypeOK
      <4> QED BY <4>2, <4>3
    <3> QED BY <1>2, <3>1, <3>2 DEF Claim
  <2> QED BY <1>2, <2>1, <2>2, <2>3 DEF TypeOK, Claim, ghost, bounds
<1> QED BY <1>1, <1>2

\* The other wrapper steps.
LEMMA WrapperTyped ==
    ASSUME BaseInv, NEW s \in Slot, WrapperStep(s)
    PROVE  TypeOK'
<1> USE DEF BaseInv
<1>1. CASE Send(s)
  <2>1. /\ sentAs' \in [Slot -> 0 .. MaxAttempts] /\ pc' \in [Slot -> WrapperState]
        /\ client' \in [Slot -> ClientState] /\ orig' \in [Slot -> Message \union {None}]
        /\ cur' \in [Slot -> Message \union {None}] /\ hop' \in [Slot -> 0 .. MaxHops - 1]
        /\ seen' \in [Slot -> 0 .. MaxAttempts] /\ next' \in [Slot -> Message \union {None}]
        /\ rest' \in [Slot -> SUBSET Message]
    <3>1. CASE Respond(s)
      BY <3>1, RespondTyped, RestTyped
    <3>2. CASE ~Respond(s)
      <4>1. cur[s] \in Message
        BY <1>1 DEF Send, TypeOK, SlotInv
      <4> QED BY <1>1, <3>2, <4>1 DEF Send, TypeOK, WrapperState
    <3> QED BY <3>1, <3>2
  <2> QED BY <1>1, <2>1 DEF TypeOK, Send, redis, ghost, bounds
<1>2. CASE Arrive(s)
  <2>1. cur[s] \in Message
    BY <1>2 DEF Arrive, TypeOK, SlotInv
  <2>2. /\ sentAs' \in [Slot -> 0 .. MaxAttempts] /\ pc' \in [Slot -> WrapperState]
        /\ client' \in [Slot -> ClientState] /\ orig' \in [Slot -> Message \union {None}]
        /\ cur' \in [Slot -> Message \union {None}] /\ hop' \in [Slot -> 0 .. MaxHops - 1]
        /\ seen' \in [Slot -> 0 .. MaxAttempts] /\ next' \in [Slot -> Message \union {None}]
        /\ rest' \in [Slot -> SUBSET Message]
    <3>1. CASE Respond(s)
      BY <3>1, RespondTyped, RestTyped
    <3>2. CASE ~Respond(s)
      BY <1>2, <2>1, <3>2 DEF Arrive, TypeOK, WrapperState
    <3> QED BY <3>1, <3>2
  <2>3. fate' \in [Message -> Fate]
    BY <1>2, <2>1 DEF Arrive, TypeOK, Fate
  <2> QED BY <1>2, <2>2, <2>3 DEF TypeOK, Arrive, redis, bounds
<1>3. CASE HandlerReturns(s)
  <2>1. pc' \in [Slot -> WrapperState] /\ fate' \in [Message -> Fate]
    BY <1>3 DEF HandlerReturns, TypeOK, WrapperState, Fate
  <2> QED BY <1>3, <2>1 DEF HandlerReturns, TypeOK, redis, dispatcher, bounds
<1>4. CASE HandlerSleeps(s)
  <2>1. sched' \in [Message -> SchedState]
    BY <1>4 DEF HandlerSleeps, Defer, TypeOK, SchedState
  <2>2. sleeps' \in [Message -> 0 .. MaxSleeps]
    BY <1>4, QueueAssumption DEF HandlerSleeps, TypeOK
  <2>3. Respond(s)
    BY <1>4 DEF HandlerSleeps
  <2> QED BY <1>4, <2>1, <2>2, <2>3, RespondTyped, RestTyped DEF HandlerSleeps, TypeOK, ghost
<1>5. CASE HandlerThrows(s)
  <2>1. CASE cur[s] = None
    <3>1. Respond(s) /\ UNCHANGED <<hash, attempt, ghost>>
      BY <1>5, <2>1 DEF HandlerThrows
    <3> QED BY <1>5, <3>1, RespondTyped, RestTyped DEF HandlerThrows, TypeOK, ghost, bounds
  <2>2. CASE cur[s] # None
    <3>1. fails' \in [Message -> 0 .. MaxAttempts]
      BY <1>5, <2>2, QueueAssumption DEF HandlerThrows, TypeOK
    <3>2. attempt' \in [Message -> 0 .. MaxAttempts]
      BY <1>5, <2>2, QueueAssumption DEF HandlerThrows, SetAttempt, TypeOK
    <3>3. hash' \in [Message -> {"absent", "full", "partial"}]
      BY <1>5, <2>2 DEF HandlerThrows, SetAttempt, TypeOK
    <3>4. pc' \in [Slot -> WrapperState]
      BY <1>5, <2>2 DEF HandlerThrows, TypeOK, WrapperState
    <3>5. fate' \in [Message -> Fate]
      BY <1>5, <2>2 DEF HandlerThrows, TypeOK, Fate
    <3> QED BY <1>5, <2>2, <3>1, <3>2, <3>3, <3>4, <3>5 DEF HandlerThrows, TypeOK, bounds
  <2> QED BY <2>1, <2>2
<1>6. CASE Reschedule(s)
  <2>1. sched' \in [Message -> SchedState]
    BY <1>6 DEF Reschedule, Defer, TypeOK, SchedState
  <2>2. Respond(s)
    BY <1>6 DEF Reschedule
  <2> QED BY <1>6, <2>1, <2>2, RespondTyped, RestTyped DEF Reschedule, TypeOK, ghost, bounds
<1>7. CASE DeleteHash(s)
  <2>1. /\ hash' \in [Message -> {"absent", "full", "partial"}]
        /\ pc' \in [Slot -> WrapperState]
    BY <1>7 DEF DeleteHash, DelHash, TypeOK, WrapperState
  <2>2. attempt' \in [Message -> 0 .. MaxAttempts]
    <3>1. 0 \in 0 .. MaxAttempts
      BY QueueAssumption
    <3>2. \E m : attempt' = [attempt EXCEPT ![m] = 0]
      BY <1>7 DEF DeleteHash, DelHash
    <3> QED BY <3>1, <3>2 DEF TypeOK
  <2> QED BY <1>7, <2>1, <2>2 DEF DeleteHash, TypeOK, dispatcher, ghost, bounds
<1>8. CASE DeleteEntry(s)
  <2>1. sched' \in [Message -> SchedState]
    BY <1>8 DEF DeleteEntry, TypeOK, SchedState
  <2>2. CASE Respond(s)
    BY <1>8, <2>1, <2>2, RespondTyped, RestTyped DEF DeleteEntry, TypeOK, ghost, bounds
  <2>3. CASE ~Respond(s)
    <3>1. pc' \in [Slot -> WrapperState]
      BY <1>8, <2>3 DEF DeleteEntry, TypeOK, WrapperState
    <3> QED BY <1>8, <2>1, <2>3, <3>1 DEF DeleteEntry, TypeOK, ghost, bounds
  <2> QED BY <2>2, <2>3
<1>9. CASE PromoteRest(s)
  <2>1. sched' \in [Message -> SchedState] /\ rest' \in [Slot -> SUBSET Message]
    BY <1>9 DEF PromoteRest, TypeOK, SchedState
  <2> QED BY <1>9, <2>1 DEF PromoteRest, TypeOK, dispatcher, ghost, bounds
<1>10. CASE ClaimNext(s)
  <2>1. sched' \in [Message -> SchedState] /\ pc' \in [Slot -> WrapperState]
    BY <1>10 DEF ClaimNext, TypeOK, SchedState, WrapperState
  <2> QED BY <1>10, <2>1 DEF ClaimNext, TypeOK, dispatcher, ghost, bounds
<1>11. CASE FinishChain(s)
  <2>1. sched' \in [Message -> SchedState]
    BY <1>11 DEF FinishChain, TypeOK, SchedState
  <2>2. Respond(s)
    BY <1>11 DEF FinishChain
  <2> QED BY <1>11, <2>1, <2>2, RespondTyped, RestTyped DEF FinishChain, TypeOK, ghost, bounds
<1>12. CASE Redirect(s)
  <2>1. CASE Respond(s)
    BY <1>12, <2>1, RespondTyped, RestTyped DEF Redirect, TypeOK, redis, ghost, bounds
  <2>2. CASE ~Respond(s)
    <3>1. hop[s] + 1 \in 0 .. MaxHops - 1
      BY <1>12, QueueAssumption DEF Redirect, TypeOK, SlotInv, HopsLeft
    <3>2. hop' \in [Slot -> 0 .. MaxHops - 1]
      BY <1>12, <2>2, <3>1 DEF Redirect, TypeOK
    <3>3. /\ pc' \in [Slot -> WrapperState] /\ cur' \in [Slot -> Message \union {None}]
          /\ next' \in [Slot -> Message \union {None}]
      BY <1>12, <2>2 DEF Redirect, TypeOK, WrapperState
    <3>4. seen' \in [Slot -> 0 .. MaxAttempts]
      BY <1>12, <2>2, QueueAssumption DEF Redirect, TypeOK
    <3> QED BY <1>12, <2>2, <3>2, <3>3, <3>4 DEF Redirect, TypeOK, redis, ghost, bounds
  <2> QED BY <2>1, <2>2
<1> QED BY <1>1, <1>2, <1>3, <1>4, <1>5, <1>6, <1>7, <1>8, <1>9, <1>10, <1>11, <1>12
        DEF WrapperStep, HandlerEnds

\* Failing fetches, and what dispatchers make of them.
LEMMA CatchTyped ==
    ASSUME TypeOK, NEW S \in SUBSET Slot, CatchesDrop(S)
    PROVE  /\ fate' \in [Message -> Fate]
           /\ \A s \in Slot : Caught(s) \in ClientState
BY DEF TypeOK, CatchesDrop, Caught, ClientState, Fate

LEMMA FaultTyped ==
    ASSUME BaseInv, NEW s \in Slot, ClientStep(s) \/ ArriveDirect(s) \/ NetError(s)
    PROVE  TypeOK'
<1> USE DEF BaseInv
<1>2. ASSUME ClientDone(s)
      PROVE  /\ client' \in [Slot -> ClientState] /\ orig' \in [Slot -> Message \union {None}]
             /\ sentAs' \in [Slot -> 0 .. MaxAttempts]
  BY <1>2, QueueAssumption DEF ClientDone, TypeOK, ClientState
<1>3. CASE ClientBump(s)
  <2>1. sentAs[s] + 1 \in 0 .. MaxAttempts
    BY <1>3, QueueAssumption DEF ClientBump, TypeOK, SlotInv
  <2>2. /\ attempt' \in [Message -> 0 .. MaxAttempts]
        /\ hash' \in [Message -> {"absent", "full", "partial"}]
        /\ client' \in [Slot -> ClientState]
    BY <1>3, <2>1 DEF ClientBump, SetAttempt, TypeOK, ClientState
  <2> QED BY <1>3, <2>2 DEF ClientBump, TypeOK, wrapper, ghost, bounds
<1>4. CASE ClientRequeue(s)
  <2>1. sched' \in [Message -> SchedState]
    BY <1>4 DEF ClientRequeue, Defer, TypeOK, SchedState
  <2> QED BY <1>2, <1>4, <2>1 DEF ClientRequeue, TypeOK, wrapper, ghost, bounds
<1>5. CASE ClientDrop(s)
  <2>1. /\ hash' \in [Message -> {"absent", "full", "partial"}]
        /\ client' \in [Slot -> ClientState]
    BY <1>5 DEF ClientDrop, DelHash, TypeOK, ClientState
  <2>2. attempt' \in [Message -> 0 .. MaxAttempts]
    <3>1. 0 \in 0 .. MaxAttempts
      BY QueueAssumption
    <3>2. \E m : attempt' = [attempt EXCEPT ![m] = 0]
      BY <1>5 DEF ClientDrop, DelHash
    <3> QED BY <3>1, <3>2 DEF TypeOK
  <2> QED BY <1>5, <2>1, <2>2 DEF ClientDrop, TypeOK, wrapper, ghost, bounds
<1>6. CASE ClientDropEntry(s)
  <2>1. sched' \in [Message -> SchedState]
    BY <1>6 DEF ClientDropEntry, TypeOK, SchedState
  <2> QED BY <1>2, <1>6, <2>1 DEF ClientDropEntry, TypeOK, wrapper, ghost, bounds
<1>7. CASE ArriveDirect(s)
  <2>1. direct' \in 0 .. MaxDirect
    BY <1>7, QueueAssumption DEF ArriveDirect, TypeOK
  <2>2. client' \in [Slot -> ClientState] /\ pc' \in [Slot -> WrapperState]
    BY <1>7 DEF ArriveDirect, TypeOK, ClientState, WrapperState
  <2> QED BY <1>7, <2>1, <2>2 DEF ArriveDirect, TypeOK, redis, ghost
<1>8. CASE NetError(s)
  <2>1. faults' \in 0 .. MaxFaults /\ failed' \in SUBSET Message
    BY <1>8, QueueAssumption DEF NetError, TypeOK
  <2>2. fate' \in [Message -> Fate] /\ client' \in [Slot -> ClientState]
    <3>1. {s} \in SUBSET Slot
      OBVIOUS
    <3>2. fate' \in [Message -> Fate] /\ Caught(s) \in ClientState
      BY <1>8, <3>1, CatchTyped DEF NetError
    <3> QED BY <1>8, <3>2 DEF NetError, TypeOK
  <2>3. CASE Rest(s)
    BY <1>8, <2>1, <2>2, <2>3, RestTyped DEF NetError, TypeOK, redis
  <2>4. CASE UNCHANGED wrapper
    BY <1>8, <2>1, <2>2, <2>4 DEF NetError, TypeOK, redis, wrapper
  <2> QED BY <1>8, <2>3, <2>4 DEF NetError
<1> QED BY <1>3, <1>4, <1>5, <1>6, <1>7, <1>8 DEF ClientStep

\* What a process that dies can have been at.
Cutting(H, D, W, E, P) ==
    /\ H \in SUBSET Draining /\ P \in SUBSET Enqueuing
    /\ D \in SUBSET Dispatching /\ W \in SUBSET Serving
    /\ E \in SUBSET {s \in W \ D : client[s] = "open"}
    /\ CutOff(H, D, W, E, P)

\* The dispatches cut off are counted.
LEMMA CutCounted ==
    ASSUME TypeOK, NEW H, NEW D, NEW W, NEW E, NEW P, Cutting(H, D, W, E, P)
    PROVE  /\ IsFiniteSet(D \union W) /\ Cardinality(D \union W) \in Nat
           /\ faults' = faults + Cardinality(D \union W)
           /\ faults' \in 0 .. MaxFaults
<1>1. D \union W \in SUBSET Slot
  BY DEF Cutting, Dispatching, Serving
<1>2. IsFiniteSet(D \union W) /\ Cardinality(D \union W) \in Nat
  BY <1>1, FS_Subset, FS_CardinalityType, QueueAssumption
<1>3. faults' = faults + Cardinality(D \union W) /\ faults' <= MaxFaults
  BY DEF Cutting, CutOff
<1> QED BY <1>2, <1>3, QueueAssumption DEF TypeOK

LEMMA CutTyped ==
    ASSUME TypeOK, NEW H, NEW D, NEW W, NEW E, NEW P, Cutting(H, D, W, E, P)
    PROVE  TypeOK'
<1>1. faults' \in 0 .. MaxFaults
  BY CutCounted
<1>2. E \in SUBSET Slot /\ CatchesDrop(E)
  BY DEF Cutting, Serving, CutOff
<1>3. fate' \in [Message -> Fate] /\ \A s \in Slot : Caught(s) \in ClientState
  BY <1>2, CatchTyped
<1>4. client' \in [Slot -> ClientState]
  BY <1>3 DEF Cutting, CutOff, TypeOK, ClientState
<1>5. /\ orig' \in [Slot -> Message \union {None}] /\ cur' \in [Slot -> Message \union {None}]
      /\ next' \in [Slot -> Message \union {None}] /\ rest' \in [Slot -> SUBSET Message]
      /\ batch' \in [Host -> SUBSET Message]
  BY DEF Cutting, CutOff, TypeOK
<1>6. /\ sentAs' \in [Slot -> 0 .. MaxAttempts] /\ hop' \in [Slot -> 0 .. MaxHops - 1]
      /\ seen' \in [Slot -> 0 .. MaxAttempts]
  BY QueueAssumption DEF Cutting, CutOff, TypeOK
<1>7. /\ pc' \in [Slot -> WrapperState]
      /\ pending' \in [Message -> {"no", "now", "delayed"} \union Slot]
  BY DEF Cutting, CutOff, TypeOK, WrapperState
<1>8. UNCHANGED <<redis, fails, sleeps, direct, late, failed>>
  BY DEF Cutting, CutOff
<1> QED BY <1>1, <1>3, <1>4, <1>5, <1>6, <1>7, <1>8 DEF TypeOK, redis

LEMMA QueueTyped == BaseInv /\ [Next]_vars => TypeOK'
<1> SUFFICES ASSUME BaseInv, [Next]_vars PROVE TypeOK'
  OBVIOUS
<1>1. CASE UNCHANGED vars
  BY <1>1 DEF BaseInv, TypeOK, vars
<1> QED BY <1>1, MessageTyped, HostTyped, WrapperTyped, FaultTyped, CutTyped
        DEF BaseInv, Next, Cutting

----------------------------------------------------------------------------
\* What a step at one slot does to the rest of the state.
SlotSpared(t) ==
    /\ pc'[t] = pc[t] /\ cur'[t] = cur[t] /\ hop'[t] = hop[t]
    /\ next'[t] = next[t] /\ rest'[t] = rest[t]
    /\ client'[t] = client[t] /\ orig'[t] = orig[t] /\ sentAs'[t] = sentAs[t]

Handles(s, m) == cur[s] = m \/ orig[s] = m \/ next[s] = m \/ m \in rest[s]

\* A step at s keeps to messages somebody has to do with already, and settles
\* the fate of no other.
OnlySlot(s) ==
    /\ \A t \in Slot : t # s => SlotSpared(t)
    /\ \A h \in Host : batch'[h] \subseteq batch[h]
    /\ \A m \in Message :
         /\ sched'[m] # "out" \/ Handles(s, m)' => Known(m)
         /\ fate'[m] = fate[m] \/ (Known(m) /\ fate'[m] \in Over)
         /\ fate'[m] = "queued" /\ hash[m] = "full" => hash'[m] = "full"
         /\ fate[m] = "writing" => hash'[m] = hash[m]
         /\ pending'[m] = "no" \/ pending'[m] = pending[m]
         /\ pending'[m] = s => pc'[s] = "running"

LEMMA KnownMessages ==
    ASSUME NEW s \in Slot, NEW m
    PROVE  /\ sched[m] # "out" => Known(m)
           /\ Handles(s, m) => Known(m)
BY DEF Known, Handles

LEMMA SparedSlot ==
    ASSUME NEW t \in Slot, TypeOK, SlotInv(t), SlotSpared(t),
           \A m \in Message : fate[m] \in Over => fate'[m] \in Over
    PROVE  SlotInv(t)'
<1>1. cur[t] \in Message \union {None} /\ orig[t] \in Message \union {None}
  BY DEF TypeOK
<1>2. /\ pc[t] \in {"del", "zrem", "drop", "dropzrem"} => fate'[cur[t]] \in Over
      /\ client[t] \in {"drop", "dropzrem"} => fate'[orig[t]] \in Over
  BY <1>1 DEF SlotInv, Catching
<1> QED BY <1>2 DEF SlotInv, SlotSpared, HopsLeft

LEMMA SlotStep ==
    ASSUME BaseInv, TypeOK', NEW s \in Slot, OnlySlot(s), SlotInv(s)'
    PROVE  BaseInv'
<1>1. \A m \in Message : fate[m] \in Over => fate'[m] \in Over
  BY DEF OnlySlot
<1>2. ASSUME NEW t \in Slot PROVE SlotInv(t)'
  BY <1>1, SparedSlot DEF BaseInv, OnlySlot
<1>3. ASSUME NEW m \in Message PROVE MessageInv(m)'
  <2>1. MessageInv(m)
    BY DEF BaseInv
  <2>2. Known(m)' => Known(m)
    <3>1. ASSUME NEW t \in Slot, Handles(t, m)' PROVE Known(m)
      <4>1. CASE t = s
        BY <3>1, <4>1 DEF OnlySlot
      <4>2. CASE t # s
        <5>1. Handles(t, m)
          BY <3>1, <4>2 DEF OnlySlot, SlotSpared, Handles
        <5> QED BY <5>1, KnownMessages
      <4> QED BY <4>1, <4>2
    <3>2. ASSUME NEW h \in Host, m \in batch'[h] PROVE Known(m)
      BY <3>2 DEF OnlySlot, Known
    <3>3. sched'[m] # "out" => Known(m)
      BY DEF OnlySlot
    <3> QED BY <3>1, <3>2, <3>3 DEF Known, Handles
  <2>3. Known(m) => fate'[m] \notin {"new", "writing"}
    BY <2>1 DEF MessageInv, OnlySlot, Over
  <2>4. pending'[m] # "no" => fate'[m] = "writing"
    <3>1. ASSUME pending'[m] # "no" PROVE fate[m] = "writing"
      BY <2>1, <3>1 DEF OnlySlot, MessageInv
    <3>2. fate[m] = "writing" => fate'[m] = fate[m]
      BY <2>1 DEF OnlySlot, MessageInv
    <3> QED BY <3>1, <3>2
  <2>5. fate'[m] \in {"writing", "queued"} => hash'[m] = "full"
    BY <2>1 DEF OnlySlot, MessageInv, Over
  <2>6. ASSUME NEW t \in Slot, pending'[m] = t PROVE pc'[t] = "running"
    <3>1. CASE t = s
      BY <2>6, <3>1 DEF OnlySlot
    <3>2. CASE t # s
      <4>1. pending[m] = t
        BY <2>6, QueueAssumption DEF OnlySlot
      <4> QED BY <2>1, <3>2, <4>1 DEF OnlySlot, SlotSpared, MessageInv
    <3> QED BY <3>1, <3>2
  <2> QED BY <2>2, <2>3, <2>4, <2>5, <2>6 DEF MessageInv
<1> QED BY <1>2, <1>3 DEF BaseInv

\* A slot at rest, its client gone or served or about to be.
LEMMA RestSlot ==
    ASSUME TypeOK, NEW s \in Slot, Rest(s)
    PROVE  /\ pc'[s] = "idle" /\ cur'[s] = None /\ next'[s] = None /\ rest'[s] = {}
           /\ \A t \in Slot : t # s =>
                /\ pc'[t] = pc[t] /\ cur'[t] = cur[t] /\ hop'[t] = hop[t]
                /\ next'[t] = next[t] /\ rest'[t] = rest[t]
BY DEF Rest, TypeOK

LEMMA RespondSlot ==
    ASSUME BaseInv, NEW s \in Slot, Respond(s),
           \A m \in Message : fate[m] \in Over => fate'[m] \in Over
    PROVE  /\ SlotInv(s)'
           /\ \A t \in Slot : t # s => SlotSpared(t)
           /\ \A m \in Message : Handles(s, m)' => Handles(s, m)
           /\ client[s] = "open" => client'[s] = "none" /\ orig'[s] = None
           /\ client[s] # "open" => client'[s] = client[s] /\ orig'[s] = orig[s]
<1>1. TypeOK /\ Rest(s)
  BY DEF BaseInv, Respond
<1>2. CASE client[s] = "open"
  <2>1. /\ client' = [client EXCEPT ![s] = "none"]
        /\ orig' = [orig EXCEPT ![s] = None]
        /\ sentAs' = [sentAs EXCEPT ![s] = 0]
    BY <1>2 DEF Respond
  <2>2. client'[s] = "none" /\ orig'[s] = None
    BY <1>1, <2>1 DEF TypeOK
  <2>3. SlotInv(s)'
    BY <1>1, <2>2, RestSlot DEF SlotInv, Catching
  <2>4. \A t \in Slot : t # s => SlotSpared(t)
    BY <1>1, <2>1, RestSlot DEF SlotSpared, TypeOK
  <2>5. \A m \in Message : ~Handles(s, m)'
    BY <1>1, <2>2, RestSlot, QueueAssumption DEF Handles
  <2> QED BY <1>2, <2>2, <2>3, <2>4, <2>5
<1>3. CASE client[s] # "open"
  <2>1. UNCHANGED <<client, orig, sentAs>>
    BY <1>3 DEF Respond
  <2>2. SlotInv(s)'
    <3>1. SlotInv(s) /\ orig[s] \in Message \union {None}
      BY DEF BaseInv, TypeOK
    <3>2. client[s] \in {"drop", "dropzrem"} => fate'[orig[s]] \in Over
      BY <3>1 DEF SlotInv, Catching
    <3> QED BY <1>1, <2>1, <3>1, <3>2, RestSlot DEF SlotInv
  <2>3. \A t \in Slot : t # s => SlotSpared(t)
    BY <1>1, <2>1, RestSlot DEF SlotSpared
  <2>4. \A m \in Message : Handles(s, m)' => Handles(s, m)
    BY <1>1, <2>1, RestSlot, QueueAssumption DEF Handles
  <2> QED BY <1>3, <2>1, <2>2, <2>3, <2>4
<1> QED BY <1>2, <1>3

\* A handler whose enqueues have returned, and one that does not run, has none
\* under way.
LEMMA NoneUnderWay ==
    ASSUME BaseInv, NEW s \in Slot, pc[s] # "running" \/ Awaited(s)
    PROVE  \A m \in Message : pending[m] # s
BY DEF BaseInv, MessageInv, Awaited

\* What the messages see of a step that enqueues nothing and settles nothing.
LEMMA PlainStep ==
    ASSUME BaseInv, NEW s \in Slot,
           UNCHANGED <<hash, pending, batch, fate>>,
           \A t \in Slot : t # s => SlotSpared(t),
           \A m \in Message : sched'[m] # "out" \/ Handles(s, m)' => Known(m),
           pc[s] # "running" \/ Awaited(s)
    PROVE  OnlySlot(s)
<1>1. \A m \in Message : pending'[m] # s
  BY NoneUnderWay
<1> QED BY <1>1 DEF OnlySlot

LEMMA SendSlot ==
    ASSUME BaseInv, NEW s \in Slot, Send(s)
    PROVE  OnlySlot(s) /\ SlotInv(s)'
<1>1. /\ pc[s] = "claimed" /\ UNCHANGED <<hash, pending, batch, fate, sched>>
      /\ cur[s] \in Message /\ SlotInv(s) /\ TypeOK
  BY DEF Send, redis, ghost, BaseInv, SlotInv, TypeOK
<1>2. CASE Respond(s)
  <2>1. \A m \in Message : sched'[m] # "out" \/ Handles(s, m)' => Known(m)
    BY <1>1, <1>2, RespondSlot, KnownMessages
  <2> QED BY <1>1, <1>2, <2>1, RespondSlot, PlainStep
<1>3. CASE ~Respond(s)
  <2>1. /\ sentAs' = [sentAs EXCEPT ![s] = attempt[cur[s]]]
        /\ pc' = [pc EXCEPT ![s] = "sent"]
        /\ UNCHANGED <<client, orig, cur, hop, seen, next, rest>>
    BY <1>3 DEF Send
  <2>2. pc'[s] = "sent" /\ \A t \in Slot : t # s => SlotSpared(t)
    BY <1>1, <2>1 DEF TypeOK, SlotSpared
  <2>3. \A m \in Message : sched'[m] # "out" \/ Handles(s, m)' => Known(m)
    BY <1>1, <2>1, KnownMessages DEF Handles
  <2>4. SlotInv(s)'
    BY <1>1, <2>1, <2>2 DEF SlotInv, Catching
  <2> QED BY <1>1, <2>2, <2>3, <2>4, PlainStep
<1> QED BY <1>2, <1>3

LEMMA ArriveSlot ==
    ASSUME BaseInv, NEW s \in Slot, Arrive(s)
    PROVE  OnlySlot(s) /\ SlotInv(s)'
<1>1. /\ pc[s] = "sent" /\ UNCHANGED <<hash, pending, batch, sched>>
      /\ cur[s] \in Message /\ SlotInv(s) /\ TypeOK
  BY DEF Arrive, redis, BaseInv, SlotInv, TypeOK
<1>2. CASE Respond(s)
  <2>1. pc'[s] = "idle" /\ UNCHANGED fate
    BY <1>1, <1>2, RestSlot DEF Respond, Arrive
  <2>2. \A m \in Message : sched'[m] # "out" \/ Handles(s, m)' => Known(m)
    BY <1>1, <1>2, <2>1, RespondSlot, KnownMessages
  <2> QED BY <1>1, <1>2, <2>1, <2>2, RespondSlot, PlainStep
<1>3. CASE ~Respond(s)
  <2>1. /\ pc' = [pc EXCEPT ![s] = IF cur[s] \in HealthCheck THEN "drop" ELSE "running"]
        /\ UNCHANGED <<cur, hop, next, rest, client, orig, sentAs>>
    BY <1>3 DEF Arrive
  <2>2. \A t \in Slot : t # s => SlotSpared(t)
    BY <1>1, <2>1 DEF TypeOK, SlotSpared
  <2>3. /\ pc'[s] \in {"drop", "running"}
        /\ fate' = IF pc'[s] = "drop" THEN [fate EXCEPT ![cur[s]] = "done"] ELSE fate
    BY <1>1, <2>1 DEF TypeOK, Arrive
  <2>4. /\ \A m \in Message : fate'[m] = fate[m] \/ (m = cur[s] /\ fate'[m] = "done")
        /\ pc'[s] = "drop" => fate'[cur[s]] = "done"
    BY <1>1, <2>3 DEF TypeOK
  <2>5. \A m \in Message : pending[m] # s
    BY <1>1, NoneUnderWay
  <2>6. Known(cur[s]) /\ \A m \in Message : sched'[m] # "out" \/ Handles(s, m)' => Known(m)
    BY <1>1, <2>1, KnownMessages DEF Handles
  <2>7. OnlySlot(s)
    BY <1>1, <2>2, <2>4, <2>5, <2>6 DEF OnlySlot, Over
  <2>8. client[s] \in {"drop", "dropzrem"} => fate'[orig[s]] \in Over
    BY <1>1, <2>4 DEF SlotInv, Catching, TypeOK, Over
  <2>9. SlotInv(s)'
    BY <1>1, <2>1, <2>3, <2>4, <2>8 DEF SlotInv, Over
  <2> QED BY <2>7, <2>9
<1> QED BY <1>2, <1>3

LEMMA ArriveDirectSlot ==
    ASSUME BaseInv, NEW s \in Slot, ArriveDirect(s)
    PROVE  OnlySlot(s) /\ SlotInv(s)'
<1>1. /\ pc[s] = "idle" /\ UNCHANGED <<hash, pending, batch, fate, sched>>
      /\ SlotInv(s) /\ TypeOK
  BY DEF ArriveDirect, FreeSlot, redis, ghost, BaseInv
<1>2. /\ client' = [client EXCEPT ![s] = "open"] /\ pc' = [pc EXCEPT ![s] = "running"]
      /\ UNCHANGED <<cur, hop, next, rest, orig, sentAs>>
  BY DEF ArriveDirect
<1>3. /\ pc'[s] = "running" /\ client'[s] = "open"
      /\ \A t \in Slot : t # s => SlotSpared(t)
  BY <1>1, <1>2 DEF TypeOK, SlotSpared
<1>4. \A m \in Message : sched'[m] # "out" \/ Handles(s, m)' => Known(m)
  BY <1>1, <1>2, KnownMessages DEF Handles
<1>5. SlotInv(s)'
  BY <1>1, <1>2, <1>3 DEF SlotInv, Catching
<1> QED BY <1>1, <1>3, <1>4, <1>5, PlainStep

LEMMA HandlerReturnsSlot ==
    ASSUME BaseInv, NEW s \in Slot, HandlerReturns(s)
    PROVE  OnlySlot(s) /\ SlotInv(s)'
<1>1. /\ pc[s] = "running" /\ UNCHANGED <<hash, pending, batch, sched>>
      /\ UNCHANGED <<client, orig, sentAs, cur, hop, next, rest>>
      /\ cur[s] \in Message \union {None} /\ SlotInv(s) /\ TypeOK
  BY DEF HandlerReturns, redis, dispatcher, BaseInv, TypeOK
<1>2. /\ pc'[s] = IF cur[s] = None THEN "promote" ELSE "del"
      /\ \A t \in Slot : t # s => SlotSpared(t)
  BY <1>1 DEF HandlerReturns, TypeOK, SlotSpared
<1>3. /\ \A m \in Message : fate'[m] = fate[m] \/ (m = cur[s] /\ fate'[m] = "done")
      /\ cur[s] # None => fate'[cur[s]] = "done"
  BY <1>1 DEF HandlerReturns, TypeOK
<1>4. \A m \in Message : pending[m] # s
  BY NoneUnderWay DEF HandlerReturns
<1>5. \A m \in Message : sched'[m] # "out" \/ Handles(s, m)' \/ m = cur[s] => Known(m)
  BY <1>1, KnownMessages DEF Handles
<1>6. OnlySlot(s)
  BY <1>1, <1>2, <1>3, <1>4, <1>5 DEF OnlySlot, Over
<1>7. client[s] \in {"drop", "dropzrem"} => fate'[orig[s]] \in Over
  BY <1>1, <1>3 DEF SlotInv, Catching, TypeOK, Over
<1>8. SlotInv(s)'
  BY <1>1, <1>2, <1>3, <1>7 DEF SlotInv, Over
<1> QED BY <1>6, <1>8

\* The wrapper answers, having put its job back on the schedule, or nothing.
LEMMA DeferSlot ==
    ASSUME BaseInv, NEW s \in Slot, Respond(s),
           UNCHANGED <<hash, pending, batch, fate>>,
           pc[s] # "running" \/ Awaited(s),
           \A m \in Message : sched'[m] = "out" \/ sched'[m] = sched[m] \/ Handles(s, m)
    PROVE  OnlySlot(s) /\ SlotInv(s)'
<1>1. \A m \in Message : sched'[m] # "out" \/ Handles(s, m)' => Known(m)
  BY RespondSlot, KnownMessages
<1> QED BY <1>1, RespondSlot, PlainStep

LEMMA HandlerSleepsSlot ==
    ASSUME BaseInv, NEW s \in Slot, HandlerSleeps(s)
    PROVE  OnlySlot(s) /\ SlotInv(s)'
<1>1. /\ Respond(s) /\ Awaited(s) /\ UNCHANGED <<hash, pending, batch, fate>>
      /\ IF cur[s] = None THEN UNCHANGED sched
                          ELSE sched' = [sched EXCEPT ![cur[s]] = "later"]
  BY DEF HandlerSleeps, Defer, ghost
<1>2. \A m \in Message : sched'[m] = sched[m] \/ Handles(s, m)
  BY <1>1 DEF BaseInv, TypeOK, Handles
<1> QED BY <1>1, <1>2, DeferSlot

LEMMA RescheduleSlot ==
    ASSUME BaseInv, NEW s \in Slot, Reschedule(s)
    PROVE  OnlySlot(s) /\ SlotInv(s)'
<1>1. /\ Respond(s) /\ pc[s] # "running" /\ UNCHANGED <<hash, pending, batch, fate>>
      /\ sched' = [sched EXCEPT ![cur[s]] = "later"]
  BY DEF Reschedule, Defer, ghost
<1>2. \A m \in Message : sched'[m] = sched[m] \/ Handles(s, m)
  BY <1>1 DEF BaseInv, TypeOK, Handles
<1> QED BY <1>1, <1>2, DeferSlot

LEMMA FinishChainSlot ==
    ASSUME BaseInv, NEW s \in Slot, FinishChain(s)
    PROVE  OnlySlot(s) /\ SlotInv(s)'
<1>1. /\ Respond(s) /\ pc[s] # "running" /\ UNCHANGED <<hash, pending, batch, fate>>
      /\ sched' = IF next[s] = None THEN sched ELSE [sched EXCEPT ![next[s]] = "due"]
  BY DEF FinishChain, ghost
<1>2. \A m \in Message : sched'[m] = sched[m] \/ Handles(s, m)
  BY <1>1 DEF BaseInv, TypeOK, Handles
<1> QED BY <1>1, <1>2, DeferSlot

LEMMA HandlerThrowsSlot ==
    ASSUME BaseInv, NEW s \in Slot, HandlerThrows(s)
    PROVE  OnlySlot(s) /\ SlotInv(s)'
<1>1. /\ pc[s] = "running" /\ Awaited(s) /\ UNCHANGED <<sched, pending, batch>>
      /\ cur[s] \in Message \union {None} /\ SlotInv(s) /\ TypeOK
  BY DEF HandlerThrows, BaseInv, TypeOK
<1>2. CASE cur[s] = None
  <2>1. Respond(s) /\ UNCHANGED <<hash, fate>>
    BY <1>2 DEF HandlerThrows, ghost
  <2> QED BY <1>1, <2>1, DeferSlot
<1>3. CASE cur[s] # None
  <2> DEFINE m == cur[s]
  <2>1. /\ UNCHANGED <<cur, hop, next, rest, client, orig, sentAs>>
        /\ \/ /\ hash' = [hash EXCEPT ![m] = IF @ = "full" THEN "full" ELSE "partial"]
              /\ pc' = [pc EXCEPT ![s] = "resched"] /\ UNCHANGED fate
           \/ /\ pc' = [pc EXCEPT ![s] = "drop"]
              /\ fate' = [fate EXCEPT ![m] = "dropped"] /\ UNCHANGED hash
    BY <1>3 DEF HandlerThrows, SetAttempt
  <2>2. \A t \in Slot : t # s => SlotSpared(t)
    BY <1>1, <2>1 DEF TypeOK, SlotSpared
  <2>3. /\ pc'[s] \in {"resched", "drop"}
        /\ pc'[s] = "drop" => fate'[m] = "dropped"
        /\ \A n \in Message : /\ fate'[n] = fate[n] \/ (n = m /\ fate'[n] = "dropped")
                              /\ hash'[n] = hash[n] \/ (n = m /\ hash[n] # "full")
    BY <1>1, <1>3, <2>1 DEF TypeOK
  <2>4. \A n \in Message : pending[n] # s
    BY <1>1, NoneUnderWay
  <2>5. \A n \in Message : sched'[n] # "out" \/ Handles(s, n)' \/ n = m => Known(n)
    BY <1>1, <2>1, KnownMessages DEF Handles
  <2>6. fate[m] # "writing"
    BY <1>1, <1>3, <2>5 DEF BaseInv, MessageInv
  <2>7. OnlySlot(s)
    BY <1>1, <2>2, <2>3, <2>4, <2>5, <2>6 DEF OnlySlot, Over
  <2>8. client[s] \in {"drop", "dropzrem"} => fate'[orig[s]] \in Over
    BY <1>1, <2>3 DEF SlotInv, Catching, TypeOK, Over
  <2>9. SlotInv(s)'
    BY <1>1, <1>3, <2>1, <2>3, <2>8 DEF SlotInv, Over
  <2> QED BY <2>7, <2>9
<1> QED BY <1>2, <1>3

LEMMA DeleteHashSlot ==
    ASSUME BaseInv, NEW s \in Slot, DeleteHash(s)
    PROVE  OnlySlot(s) /\ SlotInv(s)'
<1>1. /\ pc[s] \in {"del", "drop"} /\ UNCHANGED <<sched, pending, batch, fate>>
      /\ UNCHANGED <<client, orig, sentAs, cur, hop, next, rest>>
      /\ cur[s] \in Message /\ fate[cur[s]] \in Over /\ SlotInv(s) /\ TypeOK
  BY DEF DeleteHash, dispatcher, ghost, BaseInv, TypeOK, SlotInv
<1>2. /\ pc'[s] \in {"zrem", "dropzrem"}
      /\ \A t \in Slot : t # s => SlotSpared(t)
      /\ \A m \in Message : m # cur[s] => hash'[m] = hash[m]
  BY <1>1 DEF DeleteHash, DelHash, TypeOK, SlotSpared
<1>3. \A m \in Message : pending[m] # s
  BY <1>1, NoneUnderWay
<1>4. \A m \in Message : sched'[m] # "out" \/ Handles(s, m)' => Known(m)
  BY <1>1, KnownMessages DEF Handles
<1>5. OnlySlot(s)
  BY <1>1, <1>2, <1>3, <1>4 DEF OnlySlot, Over
<1>6. SlotInv(s)'
  BY <1>1, <1>2 DEF SlotInv
<1> QED BY <1>5, <1>6

LEMMA DeleteEntrySlot ==
    ASSUME BaseInv, NEW s \in Slot, DeleteEntry(s)
    PROVE  OnlySlot(s) /\ SlotInv(s)'
<1>1. /\ pc[s] \in {"zrem", "dropzrem"} /\ UNCHANGED <<hash, pending, batch, fate>>
      /\ sched' = [sched EXCEPT ![cur[s]] = "out"] /\ SlotInv(s) /\ TypeOK
  BY DEF DeleteEntry, ghost, BaseInv
<1>2. \A m \in Message : sched'[m] = "out" \/ sched'[m] = sched[m]
  BY <1>1 DEF TypeOK
<1>3. CASE Respond(s)
  BY <1>1, <1>2, <1>3, DeferSlot
<1>4. CASE ~Respond(s)
  <2>1. /\ pc' = [pc EXCEPT ![s] = "promote"]
        /\ UNCHANGED <<client, orig, sentAs, cur, hop, next, rest>>
    BY <1>4 DEF DeleteEntry
  <2>2. pc'[s] = "promote" /\ \A t \in Slot : t # s => SlotSpared(t)
    BY <1>1, <2>1 DEF TypeOK, SlotSpared
  <2>3. \A m \in Message : sched'[m] # "out" \/ Handles(s, m)' => Known(m)
    BY <1>2, <2>1, KnownMessages DEF Handles
  <2>4. SlotInv(s)'
    BY <1>1, <2>1, <2>2 DEF SlotInv
  <2> QED BY <1>1, <2>2, <2>3, <2>4, PlainStep
<1> QED BY <1>3, <1>4

LEMMA PromoteRestSlot ==
    ASSUME BaseInv, NEW s \in Slot, PromoteRest(s)
    PROVE  OnlySlot(s) /\ SlotInv(s)'
<1>1. /\ pc[s] = "promote" /\ UNCHANGED <<hash, pending, batch, fate>>
      /\ UNCHANGED <<client, orig, sentAs, pc, cur, hop, next>> /\ SlotInv(s) /\ TypeOK
  BY DEF PromoteRest, dispatcher, ghost, BaseInv
<1>2. PICK m \in rest[s] : /\ sched' = [sched EXCEPT ![m] = "due"]
                           /\ rest' = [rest EXCEPT ![s] = @ \ {m}]
  BY DEF PromoteRest
<1>3. \A t \in Slot : t # s => SlotSpared(t)
  BY <1>1, <1>2 DEF TypeOK, SlotSpared
<1>4. \A n \in Message : sched'[n] # "out" \/ Handles(s, n)' => Known(n)
  <2>1. \A n \in Message : /\ sched'[n] # "out" => sched[n] # "out" \/ Handles(s, n)
                           /\ Handles(s, n)' => Handles(s, n)
    BY <1>1, <1>2 DEF TypeOK, Handles
  <2> QED BY <2>1, KnownMessages
<1>5. SlotInv(s)'
  BY <1>1 DEF SlotInv
<1> QED BY <1>1, <1>3, <1>4, <1>5, PlainStep

LEMMA ClaimNextSlot ==
    ASSUME BaseInv, NEW s \in Slot, ClaimNext(s)
    PROVE  OnlySlot(s) /\ SlotInv(s)'
<1>1. /\ pc[s] = "promote" /\ UNCHANGED <<hash, pending, batch, fate>>
      /\ UNCHANGED <<client, orig, sentAs, cur, hop, next, rest>> /\ SlotInv(s) /\ TypeOK
  BY DEF ClaimNext, dispatcher, ghost, BaseInv
<1>2. /\ pc' = [pc EXCEPT ![s] = "redirect"] /\ sched' = [sched EXCEPT ![next[s]] = "out"]
      /\ next[s] # None /\ rest[s] = {} /\ HopsLeft(s)
  BY DEF ClaimNext
<1>3. pc'[s] = "redirect" /\ \A t \in Slot : t # s => SlotSpared(t)
  BY <1>1, <1>2 DEF TypeOK, SlotSpared
<1>4. \A m \in Message : sched'[m] # "out" \/ Handles(s, m)' => Known(m)
  <2>1. \A m \in Message : sched'[m] # "out" => sched[m] # "out"
    BY <1>1, <1>2 DEF TypeOK
  <2> QED BY <1>1, <2>1, KnownMessages DEF Handles
<1>5. SlotInv(s)'
  BY <1>1, <1>2, <1>3 DEF SlotInv, HopsLeft
<1> QED BY <1>1, <1>3, <1>4, <1>5, PlainStep

LEMMA RedirectSlot ==
    ASSUME BaseInv, NEW s \in Slot, Redirect(s)
    PROVE  OnlySlot(s) /\ SlotInv(s)'
<1>1. /\ pc[s] = "redirect" /\ UNCHANGED <<hash, pending, batch, fate, sched>>
      /\ SlotInv(s) /\ TypeOK
  BY DEF Redirect, redis, ghost, BaseInv
<1>2. CASE Respond(s)
  BY <1>1, <1>2, DeferSlot
<1>3. CASE ~Respond(s)
  <2>1. /\ client[s] = "open"
        /\ pc' = [pc EXCEPT ![s] = "sent"] /\ cur' = [cur EXCEPT ![s] = next[s]]
        /\ hop' = [hop EXCEPT ![s] = @ + 1] /\ next' = [next EXCEPT ![s] = None]
        /\ UNCHANGED <<client, orig, sentAs, rest>>
    BY <1>3 DEF Redirect
  <2>2. /\ pc'[s] = "sent" /\ cur'[s] = next[s] /\ next'[s] = None
        /\ \A t \in Slot : t # s => SlotSpared(t)
    BY <1>1, <2>1 DEF TypeOK, SlotSpared
  <2>3. \A m \in Message : sched'[m] # "out" \/ Handles(s, m)' => Known(m)
    BY <1>1, <2>1, <2>2, KnownMessages, QueueAssumption DEF Handles
  <2>4. SlotInv(s)'
    BY <1>1, <2>1, <2>2 DEF SlotInv, Catching
  <2> QED BY <1>1, <2>2, <2>3, <2>4, PlainStep
<1> QED BY <1>2, <1>3

LEMMA WrapperSlot ==
    ASSUME BaseInv, NEW s \in Slot, WrapperStep(s)
    PROVE  OnlySlot(s) /\ SlotInv(s)' /\ BaseInv'
<1>1. OnlySlot(s) /\ SlotInv(s)'
  BY SendSlot, ArriveSlot, HandlerReturnsSlot, HandlerSleepsSlot, HandlerThrowsSlot,
     RescheduleSlot, DeleteHashSlot, DeleteEntrySlot, PromoteRestSlot, ClaimNextSlot,
     FinishChainSlot, RedirectSlot DEF WrapperStep, HandlerEnds
<1> QED BY <1>1, WrapperTyped, SlotStep

\* A fetch that fails, whatever becomes of the wrapper's side.
LEMMA NetErrorSlot ==
    ASSUME BaseInv, NEW s \in Slot, NetError(s)
    PROVE  OnlySlot(s) /\ SlotInv(s)'
<1>1. /\ SlotInv(s) /\ TypeOK /\ orig[s] \in Message \union {None}
      /\ client[s] = "open" /\ pc[s] # "claimed" /\ (Rest(s) \/ UNCHANGED wrapper)
      /\ UNCHANGED <<hash, sched, batch, pending>>
  BY DEF BaseInv, TypeOK, NetError, redis
<1>2. /\ client' = [client EXCEPT ![s] = Caught(s)]
      /\ UNCHANGED <<orig, sentAs>>
      /\ \A m \in Message : fate'[m] = IF orig[s] = m /\ sentAs[s] + 1 > MaxAttempts
                                          /\ fate[m] = "queued"
                                       THEN "dropped" ELSE fate[m]
  BY DEF NetError, CatchesDrop
<1>3. /\ client'[s] = IF orig[s] = None THEN "none"
                      ELSE IF sentAs[s] + 1 <= MaxAttempts THEN "bump" ELSE "drop"
      /\ \A t \in Slot : t # s => client'[t] = client[t]
  BY <1>1, <1>2 DEF TypeOK, Caught
<1>4. \A t \in Slot : t # s => SlotSpared(t)
  BY <1>1, <1>2, <1>3, RestSlot DEF SlotSpared, wrapper
<1>5. \A m \in Message : /\ sched'[m] # "out" \/ Handles(s, m)' => Known(m)
                         /\ orig[s] = m => Known(m)
  BY <1>1, <1>2, RestSlot, QueueAssumption, KnownMessages DEF Handles, wrapper
<1>6. \A m \in Message : fate'[m] = fate[m] \/ (Known(m) /\ fate'[m] = "dropped")
  BY <1>2, <1>5
<1>7. OnlySlot(s)
  <2>1. \A m \in Message : pending'[m] = s => pc'[s] = "running"
    <3>1. \A m \in Message : pending[m] = s => pc[s] = "running"
      BY DEF BaseInv, MessageInv
    <3>2. pc[s] = "running" => UNCHANGED wrapper
      BY DEF NetError
    <3> QED BY <1>1, <3>1, <3>2 DEF wrapper
  <2> QED BY <1>1, <1>4, <1>5, <1>6, <2>1 DEF OnlySlot, Over
<1>8. client'[s] = "drop" => fate'[orig[s]] \in Over
  <2>1. ASSUME client'[s] = "drop" PROVE fate'[orig[s]] \in Over
    <3>1. orig[s] # None /\ ~(sentAs[s] + 1 <= MaxAttempts)
      BY <1>3, <2>1
    <3>2. orig[s] \in Message /\ sentAs[s] + 1 > MaxAttempts
      BY <1>1, <3>1, QueueAssumption DEF TypeOK
    <3>3. fate[orig[s]] \in Over \union {"queued"}
      BY <1>5, <3>2 DEF BaseInv, MessageInv, TypeOK, Fate, Over
    <3> QED BY <1>2, <3>2, <3>3 DEF Over
  <2> QED BY <2>1
<1>9. client'[s] = "bump" => orig[s] # None /\ sentAs[s] + 1 <= MaxAttempts
  BY <1>3
<1>10. client'[s] \in {"none", "bump", "drop"} /\ (client'[s] = "none" => orig[s] = None)
       /\ (client'[s] = "drop" => orig[s] # None)
  BY <1>3
<1>11. CASE Rest(s)
  <2>1. SlotInv(s)'
    BY <1>1, <1>2, <1>8, <1>9, <1>10, <1>11, RestSlot DEF SlotInv, Catching
  <2> QED BY <1>7, <2>1
<1>12. CASE UNCHANGED wrapper
  <2>1. pc[s] \in {"del", "zrem", "drop", "dropzrem"} => fate'[cur[s]] \in Over
    BY <1>1, <1>6 DEF SlotInv, TypeOK, Over
  <2>2. SlotInv(s) /\ pc[s] # "claimed" /\ UNCHANGED <<orig, sentAs>>
    BY <1>1, <1>2
  <2>3. SlotInv(s)'
    BY <1>8, <1>9, <1>10, <1>12, <2>1, <2>2 DEF SlotInv, Catching, wrapper, HopsLeft
  <2> QED BY <1>7, <2>3
<1> QED BY <1>1, <1>11, <1>12

\* The client's side is over.
LEMMA DoneSlot ==
    ASSUME TypeOK, NEW s \in Slot,
           client' = [client EXCEPT ![s] = "none"], orig' = [orig EXCEPT ![s] = None],
           sentAs' = [sentAs EXCEPT ![s] = 0]
    PROVE  /\ client'[s] = "none" /\ orig'[s] = None
           /\ \A t \in Slot : t # s =>
                client'[t] = client[t] /\ orig'[t] = orig[t] /\ sentAs'[t] = sentAs[t]
BY DEF TypeOK

\* What a command of the catch block spares.
LEMMA ClientSlot ==
    ASSUME BaseInv, NEW s \in Slot, ClientStep(s)
    PROVE  OnlySlot(s) /\ SlotInv(s)'
<1>1. /\ UNCHANGED <<batch, pending, fate, pc, cur, hop, next, rest>> /\ TypeOK /\ SlotInv(s)
      /\ orig[s] \in Message
  BY DEF ClientStep, ClientBump, ClientRequeue, ClientDrop, ClientDropEntry, wrapper, ghost,
         BaseInv, SlotInv, Catching, TypeOK
<1>2. fate[orig[s]] \notin {"new", "writing"}
  <2>1. Known(orig[s])
    BY <1>1, KnownMessages DEF Handles
  <2> QED BY <1>1, <2>1 DEF BaseInv, MessageInv
<1>3. ASSUME \A t \in Slot : t # s =>
               client'[t] = client[t] /\ orig'[t] = orig[t] /\ sentAs'[t] = sentAs[t],
             orig'[s] \in {orig[s], None},
             \A m \in Message :
               /\ sched'[m] \in {"out", sched[m]} \/ m = orig[s]
               /\ hash'[m] = hash[m] \/ (m = orig[s] /\ (hash[m] = "full" => fate[m] \in Over))
      PROVE  OnlySlot(s)
  <2>1. \A t \in Slot : t # s => SlotSpared(t)
    BY <1>1, <1>3 DEF SlotSpared
  <2>2. \A m \in Message : sched'[m] # "out" \/ Handles(s, m)' => Known(m)
    <3>1. \A m \in Message : Handles(s, m)' => Handles(s, m)
      BY <1>1, <1>3, QueueAssumption DEF Handles
    <3>2. \A m \in Message : sched'[m] # "out" => sched[m] # "out" \/ Handles(s, m)
      BY <1>3 DEF Handles
    <3> QED BY <3>1, <3>2, KnownMessages
  <2>3. \A m \in Message : pending'[m] = s => pc'[s] = "running"
    BY <1>1 DEF BaseInv, MessageInv
  <2> QED BY <1>1, <1>2, <1>3, <2>1, <2>2, <2>3 DEF OnlySlot, Over
<1>4. CASE ClientBump(s)
  <2>1. /\ hash' = [hash EXCEPT ![orig[s]] = IF @ = "full" THEN "full" ELSE "partial"]
        /\ client' = [client EXCEPT ![s] = "requeue"] /\ UNCHANGED <<sched, orig, sentAs>>
    BY <1>4 DEF ClientBump, SetAttempt
  <2>2. /\ client'[s] = "requeue" /\ \A t \in Slot : t # s => client'[t] = client[t]
        /\ \A m \in Message : hash'[m] = hash[m] \/ (m = orig[s] /\ hash[m] # "full")
    BY <1>1, <2>1 DEF TypeOK
  <2>3. SlotInv(s)'
    BY <1>1, <1>4, <2>1, <2>2, QueueAssumption DEF SlotInv, Catching, ClientBump, HopsLeft
  <2> QED BY <1>3, <2>1, <2>2, <2>3
<1>5. CASE ClientRequeue(s)
  <2>1. /\ sched' = [sched EXCEPT ![orig[s]] = "later"] /\ UNCHANGED hash /\ ClientDone(s)
    BY <1>5 DEF ClientRequeue, Defer
  <2>2. /\ client'[s] = "none" /\ orig'[s] = None
        /\ \A t \in Slot : t # s =>
             client'[t] = client[t] /\ orig'[t] = orig[t] /\ sentAs'[t] = sentAs[t]
    BY <1>1, <2>1, DoneSlot DEF ClientDone
  <2>3. \A m \in Message : sched'[m] = sched[m] \/ m = orig[s]
    BY <1>1, <2>1 DEF TypeOK
  <2>4. pc[s] # "claimed"
    BY <1>1, <1>5 DEF SlotInv, ClientRequeue
  <2>5. SlotInv(s)'
    BY <1>1, <2>2, <2>4 DEF SlotInv, Catching, HopsLeft
  <2> QED BY <1>3, <2>1, <2>2, <2>3, <2>5
<1>6. CASE ClientDrop(s)
  <2>1. /\ hash' = [hash EXCEPT ![orig[s]] = "absent"] /\ client[s] = "drop"
        /\ client' = [client EXCEPT ![s] = "dropzrem"] /\ UNCHANGED <<sched, orig, sentAs>>
    BY <1>6 DEF ClientDrop, DelHash
  <2>2. /\ client'[s] = "dropzrem" /\ \A t \in Slot : t # s => client'[t] = client[t]
        /\ \A m \in Message : hash'[m] = hash[m] \/ (m = orig[s] /\ fate[m] \in Over)
    BY <1>1, <2>1 DEF TypeOK, SlotInv
  <2>3. SlotInv(s)'
    BY <1>1, <2>1, <2>2, QueueAssumption DEF SlotInv, Catching, HopsLeft
  <2> QED BY <1>3, <2>1, <2>2, <2>3
<1>7. CASE ClientDropEntry(s)
  <2>1. /\ sched' = [sched EXCEPT ![orig[s]] = "out"] /\ UNCHANGED hash /\ ClientDone(s)
    BY <1>7 DEF ClientDropEntry
  <2>2. /\ client'[s] = "none" /\ orig'[s] = None
        /\ \A t \in Slot : t # s =>
             client'[t] = client[t] /\ orig'[t] = orig[t] /\ sentAs'[t] = sentAs[t]
    BY <1>1, <2>1, DoneSlot DEF ClientDone
  <2>3. \A m \in Message : sched'[m] = sched[m] \/ m = orig[s]
    BY <1>1, <2>1 DEF TypeOK
  <2>4. pc[s] # "claimed"
    BY <1>1, <1>7 DEF SlotInv, ClientDropEntry
  <2>5. SlotInv(s)'
    BY <1>1, <2>2, <2>4 DEF SlotInv, Catching, HopsLeft
  <2> QED BY <1>3, <2>1, <2>2, <2>3, <2>5
<1> QED BY <1>4, <1>5, <1>6, <1>7 DEF ClientStep

LEMMA FaultSlot ==
    ASSUME BaseInv, NEW s \in Slot, ClientStep(s) \/ ArriveDirect(s) \/ NetError(s)
    PROVE  OnlySlot(s) /\ SlotInv(s)' /\ BaseInv'
<1>1. OnlySlot(s) /\ SlotInv(s)'
  BY ClientSlot, ArriveDirectSlot, NetErrorSlot
<1> QED BY <1>1, FaultTyped, SlotStep

\* A step of nobody's slot.
LEMMA SlotsSpared ==
    ASSUME BaseInv, UNCHANGED <<client, orig, sentAs, wrapper>>,
           \A m \in Message : fate[m] \in Over => fate'[m] \in Over
    PROVE  \A s \in Slot : SlotInv(s)'
<1> SUFFICES ASSUME NEW s \in Slot PROVE SlotInv(s)'
  OBVIOUS
<1>1. SlotSpared(s)
  BY DEF SlotSpared, wrapper
<1> QED BY <1>1, SparedSlot DEF BaseInv

LEMMA TimePassesBase ==
    ASSUME BaseInv, NEW m \in Message, TimePasses(m)
    PROVE  BaseInv'
<1>1. TypeOK' /\ UNCHANGED <<hash, pending, fate, dispatcher, wrapper>>
  BY MessageTyped DEF BaseInv, TimePasses, ghost
<1>2. \A s \in Slot : SlotInv(s)'
  BY <1>1, SlotsSpared DEF dispatcher
<1>3. \A n \in Message : sched'[n] # "out" => sched[n] # "out"
  BY DEF BaseInv, TypeOK, TimePasses
<1>4. \A n \in Message : Known(n)' => Known(n)
  BY <1>1, <1>3 DEF Known, dispatcher, wrapper
<1>5. \A n \in Message : MessageInv(n)'
  BY <1>1, <1>4 DEF BaseInv, MessageInv, wrapper
<1> QED BY <1>1, <1>2, <1>5 DEF BaseInv

LEMMA WriteJobBase ==
    ASSUME BaseInv, NEW m \in Message, NEW by \in {"now", "delayed"} \union Slot,
           WriteJob(m, by)
    PROVE  BaseInv'
<1>1. /\ TypeOK' /\ fate[m] = "new" /\ UNCHANGED <<sched, dispatcher, wrapper>>
      /\ by \in Slot => pc[by] = "running"
  BY MessageTyped DEF BaseInv, WriteJob
<1>2. /\ hash'[m] = "full" /\ pending'[m] = by /\ fate'[m] = "writing"
      /\ \A n \in Message : n # m =>
           hash'[n] = hash[n] /\ pending'[n] = pending[n] /\ fate'[n] = fate[n]
  BY DEF BaseInv, TypeOK, WriteJob
<1>3. \A s \in Slot : SlotInv(s)'
  <2>1. \A n \in Message : fate[n] \in Over => fate'[n] \in Over
    BY <1>1, <1>2 DEF Over
  <2> QED BY <1>1, <2>1, SlotsSpared DEF dispatcher
<1>4. \A n \in Message : Known(n)' <=> Known(n)
  BY <1>1 DEF Known, dispatcher, wrapper
<1>5. MessageInv(m)'
  <2>1. ~Known(m)
    BY <1>1 DEF BaseInv, MessageInv
  <2> QED BY <1>1, <1>2, <1>4, <2>1 DEF MessageInv, wrapper
<1>6. ASSUME NEW n \in Message, n # m PROVE MessageInv(n)'
  BY <1>1, <1>2, <1>4, <1>6 DEF BaseInv, MessageInv, wrapper
<1> QED BY <1>1, <1>3, <1>5, <1>6 DEF BaseInv

LEMMA ScheduleJobBase ==
    ASSUME BaseInv, NEW m \in Message, ScheduleJob(m)
    PROVE  BaseInv'
<1> DEFINE by == pending[m]
<1>1. /\ TypeOK' /\ by # "no" /\ fate[m] = "writing" /\ hash[m] = "full" /\ TypeOK
      /\ UNCHANGED <<hash, dispatcher, pc, cur, hop>>
      /\ by \in Slot => pc[by] = "running"
  BY MessageTyped DEF BaseInv, ScheduleJob, MessageInv
<1>2. /\ pending'[m] = "no" /\ fate'[m] = "queued"
      /\ \A n \in Message : n # m =>
           pending'[n] = pending[n] /\ fate'[n] = fate[n] /\ sched'[n] = sched[n]
  BY <1>1 DEF TypeOK, ScheduleJob
<1>3. \A s \in Slot : /\ pc[s] # "running" => next'[s] = next[s] /\ rest'[s] = rest[s]
                      /\ next'[s] \in {next[s], m} /\ rest'[s] \subseteq rest[s] \union {m}
  <2>1. \/ UNCHANGED <<next, rest>>
        \/ by \in Slot /\ next' = [next EXCEPT ![by] = m] /\ UNCHANGED rest
        \/ by \in Slot /\ rest' = [rest EXCEPT ![by] = @ \union {m}] /\ UNCHANGED next
    BY DEF ScheduleJob
  <2>2. next \in [Slot -> Message \union {None}] /\ rest \in [Slot -> SUBSET Message]
    BY <1>1 DEF TypeOK
  <2> HIDE DEF by
  <2>3. CASE UNCHANGED <<next, rest>>
    BY <2>3
  <2>4. CASE by \in Slot /\ next' = [next EXCEPT ![by] = m] /\ UNCHANGED rest
    BY <1>1, <2>2, <2>4
  <2>5. CASE by \in Slot /\ rest' = [rest EXCEPT ![by] = @ \union {m}] /\ UNCHANGED next
    BY <1>1, <2>2, <2>5
  <2> QED BY <2>1, <2>3, <2>4, <2>5
<1>4. ASSUME NEW s \in Slot PROVE SlotInv(s)'
  <2>1. SlotInv(s) /\ cur[s] \in Message \union {None} /\ orig[s] \in Message \union {None}
    BY DEF BaseInv, TypeOK
  <2>2. /\ pc[s] \in {"del", "zrem", "drop", "dropzrem"} => fate'[cur[s]] \in Over
        /\ client[s] \in {"drop", "dropzrem"} => fate'[orig[s]] \in Over
    BY <1>1, <1>2, <2>1 DEF SlotInv, Catching, Over
  <2> QED BY <1>1, <1>3, <2>1, <2>2 DEF SlotInv, dispatcher, HopsLeft
<1>5. ASSUME NEW n \in Message, n # m PROVE MessageInv(n)'
  <2>1. Known(n)' => Known(n)
    BY <1>1, <1>2, <1>3, <1>5, QueueAssumption DEF Known, dispatcher
  <2> QED BY <1>1, <1>2, <1>5, <2>1 DEF BaseInv, MessageInv
<1>6. MessageInv(m)'
  BY <1>1, <1>2, QueueAssumption DEF MessageInv
<1> QED BY <1>1, <1>4, <1>5, <1>6 DEF BaseInv

\* What a process that dies leaves of a slot: all of it; a wrapper whose
\* dispatcher is gone; nothing; or a dispatcher that has to do without its wrapper.
RunsOn(s) ==
    /\ pc'[s] = pc[s] /\ cur'[s] = cur[s] /\ hop'[s] = hop[s] /\ seen'[s] = seen[s]
    /\ next'[s] = next[s] /\ rest'[s] = rest[s]
Stopped(s) ==
    /\ pc'[s] = "idle" /\ cur'[s] = None /\ hop'[s] = 0 /\ seen'[s] = 0
    /\ next'[s] = None /\ rest'[s] = {}
Waits(s) == client'[s] = client[s] /\ orig'[s] = orig[s] /\ sentAs'[s] = sentAs[s]
Gone(s) == client'[s] = "none" /\ orig'[s] = None /\ sentAs'[s] = 0
Catches(s) ==
    /\ client[s] = "open" /\ pc[s] # "claimed"
    /\ client'[s] = Caught(s) /\ orig'[s] = orig[s] /\ sentAs'[s] = sentAs[s]

CutSide(s, D, W, E) ==
    \/ s \notin D \union W /\ RunsOn(s) /\ Waits(s)
    \/ s \in D \ W /\ pc[s] # "claimed" /\ RunsOn(s) /\ Gone(s)
    \/ /\ s \in W \/ (s \in D /\ pc[s] = "claimed")
       /\ Stopped(s)
       /\ \/ Gone(s) /\ (s \in D \/ client[s] = "open")
          \/ client[s] # "open" /\ s \notin D /\ Waits(s)
          \/ s \in E /\ s \notin D /\ Catches(s)

LEMMA CutSides ==
    ASSUME TypeOK, NEW H, NEW D, NEW W, NEW E, NEW P, Cutting(H, D, W, E, P)
    PROVE  /\ \A s \in Slot : CutSide(s, D, W, E)
           /\ \A s \in D : s \in Slot /\ client[s] # "none"
           /\ \A s \in W : s \in Slot /\ pc[s] \notin {"idle", "claimed"}
<1>1. /\ \A s \in D : s \in Slot /\ client[s] # "none"
      /\ \A s \in W : s \in Slot /\ pc[s] \notin {"idle", "claimed"}
      /\ \A s \in E : s \in W /\ s \notin D /\ client[s] = "open"
  BY DEF Cutting, Dispatching, Serving
<1>2. ASSUME NEW s \in Slot PROVE CutSide(s, D, W, E)
  <2> DEFINE ended == D \union {t \in W \ E : client[t] = "open"}
             stopped == W \union {t \in D : pc[t] = "claimed"}
  <2>1. /\ client'[s] = IF s \in ended THEN "none"
                         ELSE IF s \in E THEN Caught(s) ELSE client[s]
        /\ orig'[s] = IF s \in ended THEN None ELSE orig[s]
        /\ sentAs'[s] = IF s \in ended THEN 0 ELSE sentAs[s]
    BY DEF Cutting, CutOff
  <2>2. IF s \in stopped THEN Stopped(s) ELSE RunsOn(s)
    BY DEF Cutting, CutOff, Stopped, RunsOn
  <2>3. s \in ended => Gone(s)
    BY <2>1 DEF Gone
  <2>4. s \notin ended /\ s \notin E => Waits(s)
    BY <2>1 DEF Waits
  <2>5. s \in E => Catches(s) /\ s \notin D /\ s \in W
    BY <1>1, <2>1 DEF Catches
  <2>6. CASE s \notin D \union W
    BY <1>1, <2>2, <2>4, <2>6 DEF CutSide
  <2>7. CASE s \in D \ W /\ pc[s] # "claimed"
    BY <2>2, <2>3, <2>7 DEF CutSide
  <2>8. CASE s \in W \/ (s \in D /\ pc[s] = "claimed")
    <3>1. Stopped(s)
      BY <2>2, <2>8
    <3>2. CASE s \in ended
      BY <2>3, <2>8, <3>1, <3>2 DEF CutSide
    <3>3. CASE s \in E
      BY <2>5, <2>8, <3>1, <3>3 DEF CutSide
    <3>4. CASE s \notin ended /\ s \notin E
      BY <2>4, <2>8, <3>1, <3>4 DEF CutSide
    <3> QED BY <3>2, <3>3, <3>4
  <2> QED BY <2>6, <2>7, <2>8
<1> QED BY <1>1, <1>2

\* What the messages see of it.
LEMMA CutMessages ==
    ASSUME TypeOK, NEW H, NEW D, NEW W, NEW E, NEW P, Cutting(H, D, W, E, P)
    PROVE  /\ UNCHANGED <<redis, fails, sleeps, direct, late, failed>>
           /\ \A h \in Host : batch'[h] \subseteq batch[h]
           /\ \A m \in Message :
                /\ pending'[m] \in {"no", pending[m]}
                /\ pending'[m] \in W => pending'[m] = "no"
                /\ \/ fate'[m] = fate[m]
                   \/ /\ fate[m] = "queued" /\ fate'[m] = "dropped"
                      /\ \E s \in E : orig[s] = m
           /\ \A s \in E : Caught(s) = "drop" /\ orig[s] \in Message /\ fate[orig[s]] = "queued"
                           => fate'[orig[s]] = "dropped"
<1>1. /\ UNCHANGED <<redis, fails, sleeps, direct, late, failed>>
      /\ \A h \in Host : batch'[h] \subseteq batch[h]
  BY DEF Cutting, CutOff
<1>2. \A m \in Message : /\ pending'[m] = IF m \in P THEN "no" ELSE pending[m]
                         /\ pending[m] \in W => m \in P
  BY DEF Cutting, CutOff
<1>3. \A m \in Message :
        fate'[m] = IF fate[m] = "queued" /\ \E s \in E : orig[s] = m /\ sentAs[s] + 1 > MaxAttempts
                   THEN "dropped" ELSE fate[m]
  BY DEF Cutting, CutOff, CatchesDrop
<1>4. \A s \in E : Caught(s) = "drop" => sentAs[s] + 1 > MaxAttempts
  <2>1. \A s \in E : sentAs[s] \in Nat
    BY DEF Cutting, Serving, TypeOK
  <2> QED BY <2>1, QueueAssumption DEF Caught
<1> QED BY <1>1, <1>2, <1>3, <1>4

LEMMA CutBase ==
    ASSUME BaseInv, NEW H, NEW D, NEW W, NEW E, NEW P, Cutting(H, D, W, E, P)
    PROVE  BaseInv'
<1>1. TypeOK /\ TypeOK' /\ UNCHANGED redis
  BY CutTyped, CutMessages DEF BaseInv
<1>2. \A m \in Message : fate[m] \in Over => fate'[m] \in Over
  BY <1>1, CutMessages DEF Over
<1>3. ASSUME NEW m \in Message PROVE Known(m)' => Known(m)
  <2>1. \A s \in Slot : Handles(s, m)' => Handles(s, m)
    BY <1>1, CutSides, QueueAssumption
       DEF Handles, CutSide, RunsOn, Stopped, Waits, Gone, Catches
  <2>2. \A h \in Host : batch'[h] \subseteq batch[h]
    BY <1>1, CutMessages
  <2> QED BY <1>1, <2>1, <2>2 DEF Known, Handles, redis
<1>4. ASSUME NEW s \in Slot PROVE SlotInv(s)'
  <2>1. /\ SlotInv(s) /\ CutSide(s, D, W, E)
        /\ cur[s] \in Message \union {None} /\ orig[s] \in Message \union {None}
    BY <1>1, CutSides DEF BaseInv, TypeOK
  <2>2. CASE RunsOn(s) /\ Waits(s)
    <3>1. SlotSpared(s)
      BY <2>2 DEF RunsOn, Waits, SlotSpared
    <3> QED BY <1>1, <1>2, <2>1, <3>1, SparedSlot
  <2>3. CASE RunsOn(s) /\ Gone(s) /\ pc[s] # "claimed"
    <3>1. pc[s] \in {"del", "zrem", "drop", "dropzrem"} => fate'[cur[s]] \in Over
      BY <1>2, <2>1 DEF SlotInv
    <3> QED BY <2>1, <2>3, <3>1 DEF RunsOn, Gone, SlotInv, Catching, HopsLeft
  <2>4. CASE Stopped(s) /\ Gone(s)
    BY <2>4 DEF Stopped, Gone, SlotInv, Catching
  <2>5. CASE Stopped(s) /\ client[s] # "open" /\ Waits(s)
    <3>1. client[s] \in {"drop", "dropzrem"} => fate'[orig[s]] \in Over
      BY <1>2, <2>1 DEF SlotInv, Catching
    <3> QED BY <2>1, <2>5, <3>1 DEF Stopped, Waits, SlotInv, Catching
  <2>6. CASE Stopped(s) /\ s \in E /\ Catches(s)
    <3>1. Caught(s) = "drop" => orig[s] \in Message /\ fate'[orig[s]] \in Over
      <4>1. ASSUME Caught(s) = "drop" PROVE orig[s] \in Message /\ fate'[orig[s]] \in Over
        <5>1. orig[s] \in Message
          BY <2>1, <4>1 DEF Caught
        <5>2. Known(orig[s])
          BY <5>1, KnownMessages DEF Handles
        <5>3. fate[orig[s]] \in Over \union {"queued"}
          BY <1>1, <5>1, <5>2 DEF BaseInv, MessageInv, TypeOK, Fate, Over
        <5>4. fate[orig[s]] = "queued" => fate'[orig[s]] = "dropped"
          BY <1>1, <2>6, <4>1, <5>1, CutMessages
        <5> QED BY <1>2, <5>1, <5>3, <5>4 DEF Over
      <4> QED BY <4>1
    <3>2. /\ Caught(s) = "none" => orig[s] = None
          /\ Caught(s) = "bump" => orig[s] # None /\ sentAs[s] + 1 <= MaxAttempts
          /\ Caught(s) \in {"none", "bump", "drop"}
          /\ Caught(s) = "drop" => orig[s] # None
      BY DEF Caught
    <3> QED BY <2>6, <3>1, <3>2 DEF Stopped, Catches, SlotInv, Catching
  <2> QED BY <2>1, <2>2, <2>3, <2>4, <2>5, <2>6 DEF CutSide
<1>5. ASSUME NEW m \in Message PROVE MessageInv(m)'
  <2>1. /\ MessageInv(m) /\ pending'[m] \in {"no", pending[m]}
        /\ fate'[m] = fate[m] \/ (fate[m] = "queued" /\ fate'[m] = "dropped")
    BY <1>1, CutMessages DEF BaseInv
  <2>2. ASSUME NEW s \in Slot, pending'[m] = s PROVE pc'[s] = "running"
    <3>1. pending[m] = s /\ pc[s] = "running"
      BY <2>1, <2>2, QueueAssumption DEF MessageInv
    <3>2. s \notin W
      BY <1>1, <2>2, CutMessages, QueueAssumption
    <3>3. RunsOn(s)
      BY <1>1, <3>1, <3>2, CutSides DEF CutSide, BaseInv, SlotInv, Stopped
    <3> QED BY <3>1, <3>3 DEF RunsOn
  <2> QED BY <1>1, <1>3, <2>1, <2>2 DEF MessageInv, redis
<1> QED BY <1>1, <1>4, <1>5 DEF BaseInv

LEMMA ReadDueBase ==
    ASSUME BaseInv, NEW h \in Host, ReadDue(h)
    PROVE  BaseInv'
<1>1. TypeOK' /\ UNCHANGED <<redis, pending, fate, client, orig, sentAs, wrapper>>
  BY HostTyped DEF BaseInv, ReadDue, ghost
<1>2. \A s \in Slot : SlotInv(s)'
  BY <1>1, SlotsSpared
<1>3. \A n \in Message : Known(n)' => Known(n)
  <2>1. \A k \in Host : batch'[k] \subseteq batch[k] \union {m \in Message : sched[m] # "out"}
    BY DEF BaseInv, TypeOK, ReadDue, Due
  <2> QED BY <1>1, <2>1 DEF Known, redis, wrapper
<1>4. \A n \in Message : MessageInv(n)'
  BY <1>1, <1>3 DEF BaseInv, MessageInv, redis, wrapper
<1> QED BY <1>1, <1>2, <1>4 DEF BaseInv

\* A job claimed lands in a free slot.
LEMMA ClaimBase ==
    ASSUME BaseInv, NEW h \in Host, NEW m \in Message, Claim(h, m)
    PROVE  BaseInv'
<1>1. /\ TypeOK' /\ TypeOK /\ UNCHANGED <<hash, pending, sentAs, hop, next, rest, fate>>
      /\ \A k \in Host : batch'[k] \subseteq batch[k]
      /\ Known(m)
  <2>1. TypeOK' /\ TypeOK
    BY HostTyped DEF BaseInv
  <2>2. UNCHANGED <<hash, pending, sentAs, hop, next, rest, fate>> /\ Known(m)
    BY DEF Claim, ghost, Known
  <2>3. \A k \in Host : batch'[k] \subseteq batch[k]
    BY <2>1 DEF TypeOK, Claim
  <2> QED BY <2>1, <2>2, <2>3
<1>2. CASE ZremWins(m)
  <2>1. PICK s \in Slot :
          /\ FreeSlot(s) /\ sched' = [sched EXCEPT ![m] = "out"]
          /\ client' = [client EXCEPT ![s] = "open"] /\ orig' = [orig EXCEPT ![s] = m]
          /\ pc' = [pc EXCEPT ![s] = "claimed"] /\ cur' = [cur EXCEPT ![s] = m]
    BY <1>2 DEF Claim
  <2>2. /\ pc'[s] = "claimed" /\ cur'[s] = m /\ orig'[s] = m /\ client'[s] = "open"
        /\ \A t \in Slot : t # s => SlotSpared(t)
    BY <1>1, <2>1 DEF TypeOK, SlotSpared
  <2>3. pc[s] = "idle" /\ next[s] = None /\ rest[s] = {}
    BY <2>1 DEF FreeSlot, BaseInv, SlotInv
  <2>4. SlotInv(s)'
    BY <1>1, <2>2, <2>3, QueueAssumption DEF SlotInv, Catching
  <2>5. \A n \in Message : sched'[n] # "out" \/ Handles(s, n)' => Known(n)
    <3>1. \A n \in Message : sched'[n] # "out" => sched[n] # "out"
      BY <1>1, <2>1 DEF TypeOK
    <3> QED BY <1>1, <2>2, <2>3, <3>1, KnownMessages, QueueAssumption DEF Handles
  <2>6. \A n \in Message : pending'[n] # s
    BY <1>1, <2>3, NoneUnderWay
  <2>7. OnlySlot(s)
    BY <1>1, <2>2, <2>5, <2>6 DEF OnlySlot
  <2> QED BY <1>1, <2>4, <2>7, SlotStep
<1>3. CASE ~ZremWins(m)
  <2>1. UNCHANGED <<sched, client, orig, pc, cur>>
    BY <1>3 DEF Claim
  <2>2. \A n \in Message : Known(n)' => Known(n)
    BY <1>1, <2>1 DEF Known
  <2>3. \A n \in Message : MessageInv(n)'
    BY <1>1, <2>1, <2>2 DEF BaseInv, MessageInv
  <2>4. \A s \in Slot : SlotInv(s)'
    BY <1>1, <2>1 DEF BaseInv, SlotInv, HopsLeft
  <2> QED BY <1>1, <2>3, <2>4 DEF BaseInv
<1> QED BY <1>2, <1>3

LEMMA BaseInitially == Init => BaseInv
<1> SUFFICES ASSUME Init PROVE BaseInv
  OBVIOUS
<1>1. TypeOK
  <2>1. /\ 0 \in 0 .. MaxAttempts /\ 0 \in 0 .. MaxHops - 1 /\ 0 \in 0 .. MaxSleeps
        /\ 0 \in 0 .. MaxDirect /\ 0 \in 0 .. MaxFaults /\ 0 <= MaxLate
    BY QueueAssumption
  <2>2. /\ attempt \in [Message -> 0 .. MaxAttempts] /\ sentAs \in [Slot -> 0 .. MaxAttempts]
        /\ hop \in [Slot -> 0 .. MaxHops - 1] /\ seen \in [Slot -> 0 .. MaxAttempts]
        /\ fails \in [Message -> 0 .. MaxAttempts] /\ sleeps \in [Message -> 0 .. MaxSleeps]
    BY <2>1 DEF Init
  <2>3. /\ hash \in [Message -> {"absent", "full", "partial"}]
        /\ sched \in [Message -> SchedState]
        /\ pending \in [Message -> {"no", "now", "delayed"} \union Slot]
        /\ batch \in [Host -> SUBSET Message]
        /\ client \in [Slot -> ClientState] /\ orig \in [Slot -> Message \union {None}]
        /\ pc \in [Slot -> WrapperState] /\ cur \in [Slot -> Message \union {None}]
        /\ next \in [Slot -> Message \union {None}] /\ rest \in [Slot -> SUBSET Message]
        /\ fate \in [Message -> Fate]
    BY DEF Init, SchedState, ClientState, WrapperState, Fate
  <2>4. /\ direct \in 0 .. MaxDirect /\ faults \in 0 .. MaxFaults
        /\ late \in SUBSET Message /\ failed \in SUBSET Message
        /\ IsFiniteSet(late) /\ Cardinality(late) <= MaxLate
    BY <2>1, FS_EmptySet DEF Init
  <2> QED BY <2>2, <2>3, <2>4 DEF TypeOK
<1>2. \A s \in Slot : SlotInv(s)
  BY DEF Init, SlotInv, Catching
<1>3. \A m \in Message : ~Known(m)
  BY QueueAssumption DEF Init, Known
<1>4. \A m \in Message : MessageInv(m)
  BY <1>3, QueueAssumption DEF Init, MessageInv
<1> QED BY <1>1, <1>2, <1>4 DEF BaseInv

\* Whatever is enqueued, claimed, retried or dies, this holds on.
LEMMA BaseStep == BaseInv /\ [Next]_vars => BaseInv'
<1> SUFFICES ASSUME BaseInv, [Next]_vars PROVE BaseInv'
  OBVIOUS
<1>1. CASE UNCHANGED vars
  <2>1. TypeOK'
    BY QueueTyped
  <2>2. \A s \in Slot : SlotInv(s)'
    BY <1>1, SlotsSpared DEF vars, wrapper
  <2>3. \A m \in Message : MessageInv(m)'
    BY <1>1 DEF BaseInv, MessageInv, Known, vars
  <2> QED BY <2>1, <2>2, <2>3 DEF BaseInv
<1>2. CASE Next
  BY <1>2, TimePassesBase, WriteJobBase, ScheduleJobBase, ReadDueBase,
     ClaimBase, WrapperSlot, FaultSlot, CutBase DEF Next, Cutting
<1> QED BY <1>1, <1>2

LEMMA BaseAlways == Spec => []BaseInv
BY BaseInitially, BaseStep, PTL DEF Spec

\* The state of the queue, its dispatchers and wrappers stays what TypeOK says.
THEOREM TypeCorrect == Spec => []TypeOK
<1>1. BaseInv => TypeOK
  BY DEF BaseInv
<1> QED BY <1>1, BaseAlways, PTL

----------------------------------------------------------------------------
(* One runner per job.                                                     *)

\* The jobs a slot has taken off the schedule, and the continuations it has
\* put there and will hand over itself.
Owns(s, m) == cur[s] = m \/ orig[s] = m \/ (next[s] = m /\ pc[s] = "redirect")
Records(s, m) == m \in rest[s] \/ (next[s] = m /\ pc[s] # "redirect")

\* A job of T is in one pair of hands: that of the slot that took it, or of the
\* one that recorded it and that no dispatcher gets ahead of.
Exclusive(T) ==
    /\ \A s \in Slot : client[s] \in Catching /\ orig[s] \in T => pc[s] = "idle"
    /\ \A s \in Slot : \A m \in T :
         /\ Owns(s, m) => sched[m] = "out" /\ \A t \in Slot : Owns(t, m) => t = s
         /\ Records(s, m) => /\ sched[m] = "grace"
                             /\ \A h \in Host : m \notin batch[h]
                             /\ \A t \in Slot : Records(t, m) => t = s
         /\ next[s] = m => m \notin rest[s]

\* The jobs that have lost no fetch of their own and no race with the clock are
\* in one pair of hands, whatever happens to the others.
Timely == Message \ (late \union failed)

ExclusiveInv == Exclusive(Timely)

\* A step at s moves, of the jobs of T, only what is its own.
OwnMoves(s, T) ==
    /\ \A t \in Slot : t # s => SlotSpared(t)
    /\ \A h \in Host : batch'[h] \subseteq batch[h]
    /\ client'[s] \in Catching /\ orig'[s] \in T => pc'[s] = "idle"
    /\ \A m \in T :
         /\ Owns(s, m)' => (Owns(s, m) \/ Records(s, m)) /\ sched'[m] = "out"
         /\ Records(s, m)' => Records(s, m) /\ sched'[m] = sched[m]
         /\ sched'[m] = sched[m] \/ Owns(s, m) \/ Records(s, m)
         /\ next'[s] = m => m \notin rest'[s]

LEMMA ExclusiveKept ==
    ASSUME NEW T \in SUBSET Message, Exclusive(T), NEW s \in Slot, OwnMoves(s, T)
    PROVE  Exclusive(T)'
<1>1. ASSUME NEW t \in Slot, t # s, NEW m \in T
      PROVE  /\ Owns(t, m)' <=> Owns(t, m)
             /\ Records(t, m)' <=> Records(t, m)
             /\ next'[t] = next[t] /\ rest'[t] = rest[t]
             /\ client'[t] = client[t] /\ pc'[t] = pc[t]
  BY <1>1 DEF OwnMoves, SlotSpared, Owns, Records
<1>2. \A t \in Slot : client'[t] \in Catching /\ orig'[t] \in T => pc'[t] = "idle"
  BY DEF Exclusive, OwnMoves, SlotSpared
<1>3. ASSUME NEW t \in Slot, t # s, NEW m \in T, Owns(t, m) \/ Records(t, m)
      PROVE  ~Owns(s, m) /\ ~Records(s, m) /\ ~Owns(s, m)' /\ ~Records(s, m)'
             /\ sched'[m] = sched[m]
  <2>1. ~Owns(s, m) /\ ~Records(s, m)
    BY <1>3 DEF Exclusive
  <2> QED BY <2>1 DEF OwnMoves
<1>4. ASSUME NEW t \in Slot, NEW m \in T, Owns(t, m)'
      PROVE  sched'[m] = "out" /\ \A u \in Slot : Owns(u, m)' => u = t
  <2>1. CASE t = s
    BY <1>1, <1>3, <1>4, <2>1 DEF OwnMoves
  <2>2. CASE t # s
    <3>1. Owns(t, m)
      BY <1>1, <1>4, <2>2
    <3>2. sched[m] = "out" /\ \A u \in Slot : Owns(u, m) => u = t
      BY <3>1 DEF Exclusive
    <3> QED BY <1>1, <1>3, <2>2, <3>1, <3>2
  <2> QED BY <2>1, <2>2
<1>5. ASSUME NEW t \in Slot, NEW m \in T, Records(t, m)'
      PROVE  /\ sched'[m] = "grace" /\ \A h \in Host : m \notin batch'[h]
             /\ \A u \in Slot : Records(u, m)' => u = t
  <2>1. Records(t, m) /\ sched'[m] = sched[m]
    BY <1>1, <1>3, <1>5 DEF OwnMoves
  <2>2. /\ sched[m] = "grace" /\ \A h \in Host : m \notin batch[h]
        /\ \A u \in Slot : Records(u, m) => u = t
    BY <2>1 DEF Exclusive
  <2>3. \A u \in Slot : Records(u, m)' => Records(u, m)
    BY <1>1 DEF OwnMoves
  <2> QED BY <2>1, <2>2, <2>3 DEF OwnMoves
<1>6. ASSUME NEW t \in Slot, NEW m \in T, next'[t] = m PROVE m \notin rest'[t]
  BY <1>1, <1>6 DEF Exclusive, OwnMoves
<1> QED BY <1>2, <1>4, <1>5, <1>6 DEF Exclusive

\* A wrapper that answers has nothing more to do with any job.
LEMMA RespondFrees ==
    ASSUME BaseInv, NEW T \in SUBSET Message, Exclusive(T),
           NEW s \in Slot, Respond(s), pc[s] # "idle",
           \A t \in Slot : t # s => SlotSpared(t),
           \A h \in Host : batch'[h] \subseteq batch[h],
           \A m \in Message : sched'[m] = sched[m] \/ Owns(s, m) \/ Records(s, m)
    PROVE  OwnMoves(s, T)
<1>1. TypeOK /\ Rest(s) /\ SlotInv(s)
  BY DEF BaseInv, Respond
<1>2. pc'[s] = "idle" /\ cur'[s] = None /\ next'[s] = None /\ rest'[s] = {}
  BY <1>1, RestSlot
<1>3. orig'[s] \notin T
  <2>1. CASE client[s] = "open"
    <3>1. orig'[s] = None
      BY <1>1, <2>1 DEF Respond, TypeOK
    <3> QED BY <3>1, QueueAssumption
  <2>2. CASE client[s] # "open"
    <3>1. orig'[s] = orig[s]
      BY <2>2 DEF Respond
    <3>2. client[s] = "none" => orig[s] = None
      BY <1>1 DEF SlotInv
    <3>3. client[s] \in Catching => orig[s] \notin T
      BY DEF Exclusive
    <3> QED BY <1>1, <2>2, <3>1, <3>2, <3>3, QueueAssumption DEF TypeOK, ClientState, Catching
  <2> QED BY <2>1, <2>2
<1>4. \A m \in T : ~Owns(s, m)' /\ ~Records(s, m)'
  BY <1>2, <1>3, QueueAssumption DEF Owns, Records
<1> QED BY <1>2, <1>3, <1>4 DEF OwnMoves

\* A wrapper that goes on from a step to the next one keeps its jobs.
LEMMA GoingOn ==
    ASSUME BaseInv, NEW T \in SUBSET Message, Exclusive(T), NEW s \in Slot,
           pc[s] \notin {"idle", "redirect"}, pc'[s] # "redirect",
           UNCHANGED <<cur, orig, next, rest, client>>,
           \A t \in Slot : t # s => SlotSpared(t),
           \A h \in Host : batch'[h] \subseteq batch[h],
           \A m \in Message : sched'[m] = sched[m] \/ (Owns(s, m) /\ sched'[m] = "out")
    PROVE  OwnMoves(s, T)
<1>1. \A m \in Message : /\ Owns(s, m)' <=> Owns(s, m)
                         /\ Records(s, m)' <=> Records(s, m)
  BY DEF Owns, Records
<1>2. \A m \in T : Owns(s, m) => sched'[m] = "out"
  BY DEF Exclusive
<1>3. \A m \in T : Records(s, m) => sched'[m] = sched[m]
  BY DEF Exclusive
<1> QED BY <1>1, <1>2, <1>3 DEF OwnMoves, Exclusive

LEMMA WrapperExclusive ==
    ASSUME BaseInv, NEW T \in SUBSET Message, Exclusive(T), NEW s \in Slot, WrapperStep(s)
    PROVE  OwnMoves(s, T)
<1>1. TypeOK /\ SlotInv(s) /\ OnlySlot(s)
  BY WrapperSlot DEF BaseInv
<1>2. /\ \A t \in Slot : t # s => SlotSpared(t)
      /\ \A h \in Host : batch'[h] \subseteq batch[h]
  BY <1>1 DEF OnlySlot
<1>3. CASE Send(s)
  <2>1. pc[s] = "claimed" /\ UNCHANGED sched
    BY <1>3 DEF Send, redis
  <2>2. CASE Respond(s)
    BY <1>2, <2>1, <2>2, RespondFrees
  <2>3. CASE ~Respond(s)
    <3>1. pc'[s] = "sent" /\ UNCHANGED <<cur, orig, next, rest, client>>
      BY <1>1, <1>3, <2>3 DEF Send, TypeOK
    <3> QED BY <1>2, <2>1, <3>1, GoingOn
  <2> QED BY <2>2, <2>3
<1>4. CASE Arrive(s)
  <2>1. pc[s] = "sent" /\ UNCHANGED sched
    BY <1>4 DEF Arrive, redis
  <2>2. CASE Respond(s)
    BY <1>2, <2>1, <2>2, RespondFrees
  <2>3. CASE ~Respond(s)
    <3>1. pc'[s] \in {"drop", "running"} /\ UNCHANGED <<cur, orig, next, rest, client>>
      BY <1>1, <1>4, <2>3 DEF Arrive, TypeOK
    <3> QED BY <1>2, <2>1, <3>1, GoingOn
  <2> QED BY <2>2, <2>3
<1>5. CASE HandlerReturns(s)
  <2>1. pc[s] = "running" /\ pc'[s] \in {"promote", "del"}
        /\ UNCHANGED <<sched, cur, orig, next, rest, client>>
    BY <1>1, <1>5 DEF HandlerReturns, redis, dispatcher, TypeOK
  <2> QED BY <1>2, <2>1, GoingOn
<1>6. CASE HandlerSleeps(s)
  <2>1. /\ pc[s] = "running" /\ Respond(s)
        /\ \A m \in Message : sched'[m] = sched[m] \/ Owns(s, m)
    BY <1>1, <1>6 DEF HandlerSleeps, Defer, TypeOK, Owns
  <2> QED BY <1>2, <2>1, RespondFrees
<1>7. CASE HandlerThrows(s)
  <2>1. pc[s] = "running" /\ UNCHANGED sched
    BY <1>7 DEF HandlerThrows
  <2>2. CASE Respond(s)
    BY <1>2, <2>1, <2>2, RespondFrees
  <2>3. CASE ~Respond(s)
    <3>1. pc'[s] \in {"resched", "drop"} /\ UNCHANGED <<cur, orig, next, rest, client>>
      BY <1>1, <1>7, <2>3 DEF HandlerThrows, TypeOK
    <3> QED BY <1>2, <2>1, <3>1, GoingOn
  <2> QED BY <2>2, <2>3
<1>8. CASE Reschedule(s)
  <2>1. /\ pc[s] = "resched" /\ Respond(s)
        /\ \A m \in Message : sched'[m] = sched[m] \/ Owns(s, m)
    BY <1>1, <1>8 DEF Reschedule, Defer, TypeOK, Owns
  <2> QED BY <1>2, <2>1, RespondFrees
<1>9. CASE DeleteHash(s)
  <2>1. pc[s] \in {"del", "drop"} /\ pc'[s] \in {"zrem", "dropzrem"}
        /\ UNCHANGED <<sched, cur, orig, next, rest, client>>
    BY <1>1, <1>9 DEF DeleteHash, dispatcher, TypeOK
  <2> QED BY <1>2, <2>1, GoingOn
<1>10. CASE DeleteEntry(s)
  <2>1. /\ pc[s] \in {"zrem", "dropzrem"}
        /\ \A m \in Message : sched'[m] = sched[m] \/ (Owns(s, m) /\ sched'[m] = "out")
    BY <1>1, <1>10 DEF DeleteEntry, TypeOK, Owns
  <2>2. CASE Respond(s)
    BY <1>2, <2>1, <2>2, RespondFrees
  <2>3. CASE ~Respond(s)
    <3>1. pc'[s] = "promote" /\ UNCHANGED <<cur, orig, next, rest, client>>
      BY <1>1, <1>10, <2>3 DEF DeleteEntry, TypeOK
    <3> QED BY <1>2, <2>1, <3>1, GoingOn
  <2> QED BY <2>2, <2>3
<1>11. CASE PromoteRest(s)
  <2>1. /\ pc[s] = "promote" /\ UNCHANGED <<pc, cur, orig, next, client>>
    BY <1>11 DEF PromoteRest, dispatcher
  <2>2. PICK m \in rest[s] : /\ sched' = [sched EXCEPT ![m] = "due"]
                             /\ rest' = [rest EXCEPT ![s] = @ \ {m}]
    BY <1>11 DEF PromoteRest
  <2>3. /\ m \in Message /\ Records(s, m)
        /\ m \in T => next[s] # m /\ ~Owns(s, m)
    <3>1. m \in Message /\ Records(s, m)
      BY <1>1, <2>2 DEF TypeOK, Records
    <3> QED BY <2>2, <3>1 DEF Exclusive
  <2>4. rest'[s] = rest[s] \ {m} /\ \A n \in Message : n # m => sched'[n] = sched[n]
    BY <1>1, <2>2 DEF TypeOK
  <2>5. \A n \in T : /\ Owns(s, n)' <=> Owns(s, n)
                     /\ Records(s, n)' => Records(s, n) /\ n # m
    BY <2>1, <2>3, <2>4 DEF Owns, Records
  <2>6. client'[s] \in Catching /\ orig'[s] \in T => pc'[s] = "idle"
    BY <2>1 DEF Exclusive
  <2>7. \A n \in T : next'[s] = n => n \notin rest'[s]
    BY <2>1, <2>4 DEF Exclusive
  <2>8. \A n \in T : Owns(s, n) => sched[n] = "out"
    BY DEF Exclusive
  <2> QED BY <1>2, <2>3, <2>4, <2>5, <2>6, <2>7, <2>8 DEF OwnMoves
<1>12. CASE ClaimNext(s)
  <2>1. /\ pc[s] = "promote" /\ pc'[s] = "redirect" /\ rest[s] = {}
        /\ next[s] \in Message /\ UNCHANGED <<cur, orig, next, rest, client>>
        /\ \A m \in Message : sched'[m] = IF m = next[s] THEN "out" ELSE sched[m]
    BY <1>1, <1>12 DEF ClaimNext, dispatcher, TypeOK
  <2>2. ~(client'[s] \in Catching /\ orig'[s] \in T)
    BY <2>1 DEF Exclusive
  <2>3. \A m \in Message : /\ Owns(s, m)' <=> Owns(s, m) \/ m = next[s]
                           /\ Records(s, m) <=> m = next[s]
                           /\ ~Records(s, m)'
    BY <2>1 DEF Owns, Records
  <2>4. \A m \in T : Owns(s, m) => sched[m] = "out"
    BY DEF Exclusive
  <2> QED BY <1>2, <2>1, <2>2, <2>3, <2>4 DEF OwnMoves
<1>13. CASE FinishChain(s)
  <2>1. /\ pc[s] = "promote" /\ Respond(s)
        /\ \A m \in Message : sched'[m] = sched[m] \/ Records(s, m)
    BY <1>1, <1>13 DEF FinishChain, TypeOK, Records
  <2> QED BY <1>2, <2>1, RespondFrees
<1>14. CASE Redirect(s)
  <2>1. pc[s] = "redirect" /\ UNCHANGED sched
    BY <1>14 DEF Redirect, redis
  <2>2. CASE Respond(s)
    BY <1>2, <2>1, <2>2, RespondFrees
  <2>3. CASE ~Respond(s)
    <3>1. /\ pc'[s] = "sent" /\ cur'[s] = next[s] /\ next'[s] = None
          /\ UNCHANGED <<rest, client, orig>> /\ rest[s] = {} /\ client[s] = "open"
      BY <1>1, <1>14, <2>1, <2>3 DEF Redirect, TypeOK, SlotInv
    <3>2. \A m \in Message : /\ Owns(s, m)' => Owns(s, m)
                             /\ ~Records(s, m)'
      BY <2>1, <3>1, QueueAssumption DEF Owns, Records
    <3>3. \A m \in T : Owns(s, m) => sched[m] = "out"
      BY DEF Exclusive
    <3> QED BY <1>2, <2>1, <3>1, <3>2, <3>3 DEF OwnMoves, Catching
  <2> QED BY <2>2, <2>3
<1> QED BY <1>3, <1>4, <1>5, <1>6, <1>7, <1>8, <1>9, <1>10, <1>11, <1>12, <1>13, <1>14
        DEF WrapperStep, HandlerEnds

\* What the dispatchers still have to do about fetches that failed.
LEMMA FaultExclusive ==
    ASSUME BaseInv, NEW T \in SUBSET Message, Exclusive(T), NEW s \in Slot,
           ClientStep(s) \/ ArriveDirect(s) \/ (NetError(s) /\ orig[s] \notin T)
    PROVE  OwnMoves(s, T)
<1>1. TypeOK /\ SlotInv(s) /\ OnlySlot(s)
  BY FaultSlot DEF BaseInv
<1>2. /\ \A t \in Slot : t # s => SlotSpared(t)
      /\ \A h \in Host : batch'[h] \subseteq batch[h]
  BY <1>1 DEF OnlySlot
<1>3. ASSUME client'[s] \in Catching /\ orig'[s] \in T => pc'[s] = "idle",
             \A m \in T : Owns(s, m)' => Owns(s, m) /\ sched'[m] = sched[m],
             \A m \in T : Records(s, m)' => Records(s, m) /\ sched'[m] = sched[m],
             \A m \in T : sched'[m] = sched[m] \/ Owns(s, m),
             next'[s] \in {next[s], None}, rest'[s] \subseteq rest[s]
      PROVE  OwnMoves(s, T)
  BY <1>2, <1>3, QueueAssumption DEF OwnMoves, Exclusive
<1>4. CASE ClientStep(s)
  <2>1. /\ UNCHANGED <<pc, cur, next, rest>> /\ orig[s] \in Message /\ client[s] \in Catching
    BY <1>1, <1>4 DEF ClientStep, ClientBump, ClientRequeue, ClientDrop, ClientDropEntry,
         wrapper, SlotInv, Catching, TypeOK
  <2>2. /\ \/ UNCHANGED <<sched, orig>>
           \/ orig'[s] = None
        /\ \A m \in Message : m # orig[s] => sched'[m] = sched[m]
    BY <1>1, <1>4 DEF ClientStep, ClientBump, ClientRequeue, ClientDrop, ClientDropEntry,
         ClientDone, Defer, TypeOK
  <2>3. orig[s] \in T => pc[s] = "idle" /\ cur[s] = None /\ next[s] = None /\ rest[s] = {}
    BY <1>1, <2>1 DEF SlotInv, Exclusive
  <2>4. \A m \in T : Owns(s, m)' => Owns(s, m) /\ sched'[m] = sched[m]
    <3>1. CASE orig[s] \in T
      BY <2>1, <2>2, <2>3, <3>1, QueueAssumption DEF Owns
    <3>2. CASE orig[s] \notin T
      BY <2>1, <2>2, <3>2, QueueAssumption DEF Owns
    <3> QED BY <3>1, <3>2
  <2>5. \A m \in T : Records(s, m)' => Records(s, m) /\ sched'[m] = sched[m]
    <3>1. \A m \in T : Records(s, m)' <=> Records(s, m)
      BY <2>1 DEF Records
    <3>2. orig[s] \in T => \A m \in T : ~Records(s, m)
      BY <2>3, QueueAssumption DEF Records
    <3> QED BY <2>2, <3>1, <3>2
  <2>6. client'[s] \in Catching /\ orig'[s] \in T => pc'[s] = "idle"
    BY <2>1, <2>2, <2>3, QueueAssumption
  <2>7. \A m \in T : sched'[m] = sched[m] \/ Owns(s, m)
    BY <2>2 DEF Owns
  <2> QED BY <1>3, <2>1, <2>4, <2>5, <2>6, <2>7
<1>5. CASE ArriveDirect(s)
  <2>1. /\ pc[s] = "idle" /\ UNCHANGED <<sched, cur, orig, next, rest>>
        /\ pc'[s] = "running" /\ client'[s] = "open"
    BY <1>1, <1>5 DEF ArriveDirect, FreeSlot, redis, TypeOK
  <2>2. cur[s] = None /\ next[s] = None /\ rest[s] = {}
    BY <1>1, <2>1 DEF SlotInv
  <2>3. \A m \in Message : ~Records(s, m)' /\ (Owns(s, m)' => Owns(s, m))
    BY <2>1, <2>2, QueueAssumption DEF Owns, Records
  <2> QED BY <1>3, <2>1, <2>3 DEF Catching
<1>6. CASE NetError(s) /\ orig[s] \notin T
  <2>1. UNCHANGED <<sched, orig>> /\ (Rest(s) \/ UNCHANGED wrapper)
    BY <1>6 DEF NetError, redis
  <2>2. CASE Rest(s)
    <3>1. pc'[s] = "idle" /\ cur'[s] = None /\ next'[s] = None /\ rest'[s] = {}
      BY <1>1, <2>2, RestSlot
    <3>2. \A m \in T : ~Records(s, m)' /\ ~Owns(s, m)'
      BY <1>6, <2>1, <3>1, QueueAssumption DEF Owns, Records
    <3> QED BY <1>3, <2>1, <3>1, <3>2
  <2>3. CASE UNCHANGED wrapper
    <3>1. \A m \in T : (Owns(s, m)' => Owns(s, m)) /\ (Records(s, m)' => Records(s, m))
      BY <2>1, <2>3 DEF Owns, Records, wrapper
    <3> QED BY <1>3, <1>6, <2>1, <2>3, <3>1 DEF wrapper
  <2> QED BY <2>1, <2>2, <2>3
<1> QED BY <1>4, <1>5, <1>6

\* A step that takes no job into other hands.
LEMMA HandsKept ==
    ASSUME NEW T \in SUBSET Message, Exclusive(T),
           \A s \in Slot : client'[s] \in Catching /\ orig'[s] \in T => pc'[s] = "idle",
           \A s \in Slot : \A m \in T :
             /\ Owns(s, m)' => Owns(s, m)
             /\ Records(s, m)' => Records(s, m)
             /\ Records(s, m) => \A h \in Host : m \notin batch'[h]
             /\ next'[s] = m => m \notin rest'[s],
           \A m \in T :
             sched'[m] = sched[m] \/ \A s \in Slot : ~Owns(s, m) /\ ~Records(s, m)
    PROVE  Exclusive(T)'
<1>1. ASSUME NEW s \in Slot, NEW m \in T, Owns(s, m)'
      PROVE  sched'[m] = "out" /\ \A t \in Slot : Owns(t, m)' => t = s
  BY <1>1 DEF Exclusive
<1>2. ASSUME NEW s \in Slot, NEW m \in T, Records(s, m)'
      PROVE  /\ sched'[m] = "grace" /\ \A h \in Host : m \notin batch'[h]
             /\ \A t \in Slot : Records(t, m)' => t = s
  BY <1>2 DEF Exclusive
<1> QED BY <1>1, <1>2 DEF Exclusive

\* A step of nobody's slot, seen from the slots.
LEMMA OwnersSpared ==
    ASSUME NEW T \in SUBSET Message, Exclusive(T), UNCHANGED <<client, orig, wrapper>>,
           \A m \in T :
             /\ sched'[m] = sched[m] \/ \A s \in Slot : ~Owns(s, m) /\ ~Records(s, m)
             /\ \A s \in Slot : Records(s, m) => \A h \in Host : m \notin batch'[h]
    PROVE  Exclusive(T)'
<1>1. \A s \in Slot : \A m \in T :
        (Owns(s, m)' <=> Owns(s, m)) /\ (Records(s, m)' <=> Records(s, m))
  BY DEF wrapper, Owns, Records
<1>2. \A s \in Slot : client'[s] \in Catching /\ orig'[s] \in T => pc'[s] = "idle"
  BY DEF Exclusive, wrapper
<1>3. \A s \in Slot : \A m \in T : next'[s] = m => m \notin rest'[s]
  BY DEF Exclusive, wrapper
<1> QED BY <1>1, <1>2, <1>3, HandsKept

\* A process that dies leaves its jobs to nobody.
LEMMA CutExclusive ==
    ASSUME BaseInv, NEW T \in SUBSET Message, Exclusive(T),
           NEW H, NEW D, NEW W, NEW E, NEW P, Cutting(H, D, W, E, P)
    PROVE  Exclusive(T)'
<1>1. /\ TypeOK /\ UNCHANGED sched /\ \A h \in Host : batch'[h] \subseteq batch[h]
      /\ \A s \in Slot : CutSide(s, D, W, E)
  BY CutMessages, CutSides DEF BaseInv, redis
<1>2. ASSUME NEW s \in Slot, client'[s] \in Catching, orig'[s] \in T PROVE pc'[s] = "idle"
  <2>1. CASE RunsOn(s) /\ Waits(s)
    BY <1>2, <2>1 DEF RunsOn, Waits, Exclusive
  <2>2. CASE Gone(s)
    BY <1>2, <2>2 DEF Gone, Catching
  <2>3. CASE Stopped(s)
    BY <2>3 DEF Stopped
  <2> QED BY <1>1, <2>1, <2>2, <2>3 DEF CutSide
<1>3. ASSUME NEW s \in Slot, NEW m \in T
      PROVE  /\ Owns(s, m)' => Owns(s, m)
             /\ Records(s, m)' => Records(s, m)
             /\ Records(s, m) => \A h \in Host : m \notin batch'[h]
             /\ next'[s] = m => m \notin rest'[s]
  <2>1. orig'[s] \in {orig[s], None} /\ (RunsOn(s) \/ Stopped(s))
    BY <1>1 DEF CutSide, Waits, Gone, Catches
  <2>2. CASE RunsOn(s)
    BY <1>1, <2>1, <2>2, QueueAssumption DEF RunsOn, Owns, Records, Exclusive
  <2>3. CASE Stopped(s)
    BY <1>1, <2>1, <2>3, QueueAssumption DEF Stopped, Owns, Records, Exclusive
  <2> QED BY <2>1, <2>2, <2>3
<1> QED BY <1>1, <1>2, <1>3, HandsKept

\* A message that is not queued yet is in nobody's hands.
LEMMA UnknownFree ==
    ASSUME BaseInv, NEW m \in Message, fate[m] \in {"new", "writing"}
    PROVE  /\ sched[m] = "out" /\ \A h \in Host : m \notin batch[h]
           /\ \A s \in Slot : ~Handles(s, m) /\ ~Owns(s, m) /\ ~Records(s, m)
<1>1. ~Known(m)
  BY DEF BaseInv, MessageInv
<1> QED BY <1>1 DEF Known, Handles, Owns, Records

LEMMA ScheduleJobExclusive ==
    ASSUME BaseInv, NEW T \in SUBSET Message, Exclusive(T), NEW m \in Message, ScheduleJob(m)
    PROVE  Exclusive(T)'
<1> DEFINE by == pending[m]
<1>1. /\ TypeOK /\ by # "no" /\ fate[m] = "writing"
      /\ UNCHANGED <<client, orig, pc, cur, batch>>
      /\ by \in Slot => pc[by] = "running"
  BY DEF BaseInv, ScheduleJob, MessageInv, dispatcher
<1>2. /\ \A h \in Host : m \notin batch[h]
      /\ \A s \in Slot : ~Handles(s, m) /\ ~Owns(s, m) /\ ~Records(s, m)
  BY <1>1, UnknownFree
<1>3. /\ by \in Slot => sched'[m] = "grace"
      /\ \A n \in Message : n # m => sched'[n] = sched[n]
  BY <1>1 DEF TypeOK, ScheduleJob, RunAt
<1>4. \A s \in Slot : s # by => next'[s] = next[s] /\ rest'[s] = rest[s]
  BY <1>1 DEF TypeOK, ScheduleJob
<1>5. by \in Slot => \/ next'[by] = m /\ rest'[by] = rest[by]
                     \/ next'[by] = next[by] /\ rest'[by] = rest[by] \union {m}
  BY <1>1 DEF TypeOK, ScheduleJob
<1>6. ASSUME NEW s \in Slot, NEW n \in Message, n # m
      PROVE  /\ Owns(s, n)' <=> Owns(s, n)
             /\ Records(s, n)' => Records(s, n)
  <2>1. CASE s = by
    <3>1. pc[s] = "running"
      BY <1>1, <2>1
    <3> QED BY <1>1, <1>5, <1>6, <2>1, <3>1 DEF Owns, Records
  <2>2. CASE s # by
    BY <1>1, <1>4, <2>2 DEF Owns, Records
  <2> QED BY <2>1, <2>2
<1>7. ASSUME NEW s \in Slot PROVE ~Owns(s, m)' /\ (Records(s, m)' => s = by)
  <2>1. CASE s = by
    <3>1. pc[s] = "running"
      BY <1>1, <2>1
    <3> QED BY <1>1, <1>2, <2>1, <3>1 DEF Owns, Handles
  <2>2. CASE s # by
    BY <1>1, <1>2, <1>4, <2>2 DEF Owns, Records
  <2> QED BY <2>1, <2>2
<1>8. \A s \in Slot : client'[s] \in Catching /\ orig'[s] \in T => pc'[s] = "idle"
  BY <1>1 DEF Exclusive
<1>9. ASSUME NEW s \in Slot, NEW n \in T, Owns(s, n)'
      PROVE  sched'[n] = "out" /\ \A t \in Slot : Owns(t, n)' => t = s
  BY <1>3, <1>6, <1>7, <1>9 DEF Exclusive
<1>10. ASSUME NEW s \in Slot, NEW n \in T, Records(s, n)'
       PROVE  /\ sched'[n] = "grace" /\ \A h \in Host : n \notin batch'[h]
              /\ \A t \in Slot : Records(t, n)' => t = s
  <2>1. CASE n = m
    BY <1>1, <1>2, <1>3, <1>7, <1>10, <2>1
  <2>2. CASE n # m
    BY <1>1, <1>3, <1>6, <1>10, <2>2 DEF Exclusive
  <2> QED BY <2>1, <2>2
<1>11. ASSUME NEW s \in Slot, NEW n \in T, next'[s] = n PROVE n \notin rest'[s]
  <2>1. next[s] = n => n \notin rest[s]
    BY DEF Exclusive
  <2>2. next[s] # m /\ m \notin rest[s]
    BY <1>2 DEF Handles
  <2>3. CASE s = by
    BY <1>5, <1>11, <2>1, <2>2, <2>3
  <2>4. CASE s # by
    BY <1>4, <1>11, <2>1, <2>4
  <2> QED BY <2>3, <2>4
<1> QED BY <1>8, <1>9, <1>10, <1>11 DEF Exclusive

LEMMA ClaimExclusive ==
    ASSUME BaseInv, NEW T \in SUBSET Message, Exclusive(T),
           NEW h \in Host, NEW m \in Message, Claim(h, m)
    PROVE  Exclusive(T)'
<1>1. /\ TypeOK /\ m \in batch[h] /\ UNCHANGED <<hop, seen, next, rest>>
      /\ \A k \in Host : batch'[k] \subseteq batch[k]
  BY DEF BaseInv, TypeOK, Claim
<1>2. CASE ZremWins(m)
  <2>1. PICK s \in Slot :
          /\ FreeSlot(s) /\ sched' = [sched EXCEPT ![m] = "out"]
          /\ client' = [client EXCEPT ![s] = "open"] /\ orig' = [orig EXCEPT ![s] = m]
          /\ pc' = [pc EXCEPT ![s] = "claimed"] /\ cur' = [cur EXCEPT ![s] = m]
    BY <1>2 DEF Claim
  <2>2. /\ pc'[s] = "claimed" /\ cur'[s] = m /\ orig'[s] = m /\ client'[s] = "open"
        /\ sched'[m] = "out" /\ \A n \in Message : n # m => sched'[n] = sched[n]
        /\ \A t \in Slot : t # s => /\ client'[t] = client[t] /\ orig'[t] = orig[t]
                                    /\ pc'[t] = pc[t] /\ cur'[t] = cur[t]
    BY <1>1, <2>1 DEF TypeOK
  <2>3. pc[s] = "idle" /\ next[s] = None /\ rest[s] = {}
    BY <2>1 DEF FreeSlot, BaseInv, SlotInv
  <2>4. m \in T => \A t \in Slot : ~Owns(t, m) /\ ~Records(t, m)
    BY <1>1, <1>2 DEF Exclusive, ZremWins, Scheduled
  <2>5. \A n \in Message : ~Records(s, n)' /\ (Owns(s, n)' <=> n = m)
    BY <1>1, <2>2, <2>3, QueueAssumption DEF Owns, Records
  <2>6. ASSUME NEW t \in Slot, t # s, NEW n \in Message
        PROVE  (Owns(t, n)' <=> Owns(t, n)) /\ (Records(t, n)' <=> Records(t, n))
    BY <1>1, <2>2, <2>6 DEF Owns, Records
  <2>7. \A t \in Slot : client'[t] \in Catching /\ orig'[t] \in T => pc'[t] = "idle"
    BY <2>2 DEF Exclusive, Catching
  <2>8. ASSUME NEW t \in Slot, NEW n \in T, Owns(t, n)'
        PROVE  sched'[n] = "out" /\ \A u \in Slot : Owns(u, n)' => u = t
    BY <2>2, <2>4, <2>5, <2>6, <2>8 DEF Exclusive
  <2>9. ASSUME NEW t \in Slot, NEW n \in T, Records(t, n)'
        PROVE  /\ sched'[n] = "grace" /\ \A k \in Host : n \notin batch'[k]
               /\ \A u \in Slot : Records(u, n)' => u = t
    BY <1>1, <2>2, <2>4, <2>5, <2>6, <2>9 DEF Exclusive
  <2>10. ASSUME NEW t \in Slot, NEW n \in T, next'[t] = n PROVE n \notin rest'[t]
    BY <1>1, <2>10 DEF Exclusive
  <2> QED BY <2>7, <2>8, <2>9, <2>10 DEF Exclusive
<1>3. CASE ~ZremWins(m)
  <2>1. UNCHANGED <<sched, client, orig, wrapper>>
    BY <1>1, <1>3 DEF Claim, wrapper
  <2>2. \A n \in T : \A s \in Slot :
          Records(s, n) => \A k \in Host : n \notin batch'[k]
    BY <1>1 DEF Exclusive
  <2> QED BY <2>1, <2>2, OwnersSpared
<1> QED BY <1>2, <1>3

\* What a step excuses stays excused.
LEMMA TimelyShrinks ==
    ASSUME TypeOK, [Next]_vars
    PROVE  /\ late \subseteq late' /\ failed \subseteq failed'
           /\ UNCHANGED <<late, failed, faults>>
              \/ (\E s \in Slot : NetError(s)) \/ (\E m \in Message : TimePasses(m))
              \/ (\E H, D, W, E, P : Cutting(H, D, W, E, P))
<1>1. CASE UNCHANGED vars
  BY <1>1 DEF vars
<1>2. ASSUME NEW s \in Slot, WrapperStep(s) \/ ClientStep(s) \/ ArriveDirect(s)
      PROVE  UNCHANGED <<late, failed, faults>>
  BY <1>2 DEF WrapperStep, HandlerEnds, Send, Arrive, HandlerReturns, HandlerSleeps,
       HandlerThrows, Reschedule, DeleteHash, DeleteEntry, PromoteRest, ClaimNext,
       FinishChain, Redirect, ClientStep, ClientBump, ClientRequeue, ClientDrop,
       ClientDropEntry, ArriveDirect, bounds
<1>3. ASSUME NEW s \in Slot, NetError(s) PROVE late' = late /\ failed \subseteq failed'
  BY <1>3 DEF NetError
<1>4. ASSUME NEW m \in Message, TimePasses(m) PROVE late \subseteq late' /\ failed' = failed
  BY <1>4 DEF TimePasses
<1>5. ASSUME NEW m \in Message,
             ScheduleJob(m) \/ \E by \in {"now", "delayed"} \union Slot : WriteJob(m, by)
      PROVE  UNCHANGED <<late, failed, faults>>
  BY <1>5 DEF ScheduleJob, WriteJob, bounds
<1>6. ASSUME NEW h \in Host, ReadDue(h) \/ \E m \in Message : Claim(h, m)
      PROVE  UNCHANGED <<late, failed, faults>>
  BY <1>6 DEF ReadDue, Claim, bounds
<1>7. ASSUME NEW H \in SUBSET Draining, NEW P \in SUBSET Enqueuing,
             NEW D \in SUBSET Dispatching, NEW W \in SUBSET Serving,
             NEW E \in SUBSET {s \in W \ D : client[s] = "open"}, CutOff(H, D, W, E, P)
      PROVE  Cutting(H, D, W, E, P) /\ UNCHANGED <<late, failed>>
  BY <1>7 DEF Cutting, CutOff
<1>8. ASSUME Next
      PROVE  /\ late \subseteq late' /\ failed \subseteq failed'
             /\ UNCHANGED <<late, failed, faults>>
                \/ (\E s \in Slot : NetError(s)) \/ (\E m \in Message : TimePasses(m))
                \/ (\E H, D, W, E, P : Cutting(H, D, W, E, P))
  <2>1. CASE \E m \in Message : \/ TimePasses(m) \/ ScheduleJob(m)
                               \/ \E by \in {"now", "delayed"} \union Slot : WriteJob(m, by)
    BY <1>4, <1>5, <2>1
  <2>2. CASE \E h \in Host : ReadDue(h) \/ \E m \in Message : Claim(h, m)
    BY <1>6, <2>2
  <2>3. CASE \E s \in Slot : WrapperStep(s) \/ ClientStep(s) \/ ArriveDirect(s) \/ NetError(s)
    BY <1>2, <1>3, <2>3
  <2>4. CASE \E H \in SUBSET Draining, P \in SUBSET Enqueuing :
               \E D \in SUBSET Dispatching, W \in SUBSET Serving :
                 \E E \in SUBSET {s \in W \ D : client[s] = "open"} : CutOff(H, D, W, E, P)
    <3>1. PICK H \in SUBSET Draining, P \in SUBSET Enqueuing :
            \E D \in SUBSET Dispatching, W \in SUBSET Serving :
              \E E \in SUBSET {s \in W \ D : client[s] = "open"} : CutOff(H, D, W, E, P)
      BY <2>4
    <3>2. PICK D \in SUBSET Dispatching, W \in SUBSET Serving :
            \E E \in SUBSET {s \in W \ D : client[s] = "open"} : CutOff(H, D, W, E, P)
      BY <3>1
    <3>3. PICK E \in SUBSET {s \in W \ D : client[s] = "open"} : CutOff(H, D, W, E, P)
      BY <3>2
    <3>4. Cutting(H, D, W, E, P) /\ UNCHANGED <<late, failed>>
      BY <1>7, <3>3
    <3> QED BY <3>4
  <2> QED BY <1>8, <2>1, <2>2, <2>3, <2>4 DEF Next
<1> QED BY <1>1, <1>8

LEMMA ExclusiveStep == BaseInv /\ ExclusiveInv /\ [Next]_vars => ExclusiveInv'
<1> SUFFICES ASSUME BaseInv, ExclusiveInv, [Next]_vars, NEW T, T = Timely'
             PROVE  Exclusive(T)'
  BY DEF ExclusiveInv, Exclusive
<1>1. TypeOK /\ T \in SUBSET Message /\ T \subseteq Timely
  BY TimelyShrinks DEF BaseInv, Timely
<1>2. Exclusive(T)
  BY <1>1 DEF ExclusiveInv, Exclusive
<1>3. CASE UNCHANGED vars
  <2>1. UNCHANGED <<client, orig, wrapper, sched, batch>>
    BY <1>3 DEF vars, wrapper
  <2>2. \A m \in T : \A s \in Slot : Records(s, m) => \A h \in Host : m \notin batch'[h]
    BY <1>2, <2>1 DEF Exclusive
  <2> QED BY <1>1, <1>2, <2>1, <2>2, OwnersSpared
<1>4. ASSUME NEW s \in Slot, WrapperStep(s) \/ ClientStep(s) \/ ArriveDirect(s) \/ NetError(s)
      PROVE  Exclusive(T)'
  <2>1. NetError(s) => orig[s] \notin T
    BY <1>1, QueueAssumption DEF NetError, Timely
  <2>2. OwnMoves(s, T)
    BY <1>1, <1>2, <1>4, <2>1, WrapperExclusive, FaultExclusive
  <2> QED BY <1>1, <1>2, <2>2, ExclusiveKept
<1>5. ASSUME NEW h \in Host, ReadDue(h) PROVE Exclusive(T)'
  <2>1. UNCHANGED <<client, orig, wrapper, sched>>
    BY <1>5 DEF ReadDue, redis
  <2>2. \A k \in Host : batch'[k] \subseteq batch[k] \union {m \in Message : sched[m] = "due"}
    BY <1>1, <1>5 DEF TypeOK, ReadDue, Due
  <2>3. \A m \in T : \A s \in Slot : Records(s, m) => \A k \in Host : m \notin batch'[k]
    BY <1>2, <2>2 DEF Exclusive
  <2> QED BY <1>1, <1>2, <2>1, <2>3, OwnersSpared
<1>6. ASSUME NEW h \in Host, NEW m \in Message, Claim(h, m) PROVE Exclusive(T)'
  BY <1>1, <1>2, <1>6, ClaimExclusive
<1>7. ASSUME NEW m \in Message, ScheduleJob(m) PROVE Exclusive(T)'
  BY <1>1, <1>2, <1>7, ScheduleJobExclusive
<1>8. ASSUME NEW m \in Message, TimePasses(m) PROVE Exclusive(T)'
  <2>1. /\ UNCHANGED <<client, orig, batch, wrapper>>
        /\ sched[m] \in {"later", "grace"}
        /\ m \in T => (sched[m] = "grace" => ~Recorded(m))
    BY <1>1, <1>8 DEF TimePasses, Timely, dispatcher
  <2>2. \A n \in T : n # m => sched'[n] = sched[n]
    BY <1>1, <1>8 DEF TypeOK, TimePasses
  <2>3. m \in T => \A s \in Slot : ~Owns(s, m) /\ ~Records(s, m)
    <3>1. m \in T => \A s \in Slot : ~Owns(s, m)
      BY <1>2, <2>1 DEF Exclusive
    <3>2. m \in T => \A s \in Slot : Records(s, m) => sched[m] = "grace" /\ Recorded(m)
      BY <1>2 DEF Exclusive, Records, Recorded
    <3> QED BY <2>1, <3>1, <3>2
  <2>4. \A n \in T : \A s \in Slot : Records(s, n) => \A k \in Host : n \notin batch'[k]
    BY <1>2, <2>1 DEF Exclusive
  <2> QED BY <1>1, <1>2, <2>1, <2>2, <2>3, <2>4, OwnersSpared
<1>9. ASSUME NEW m \in Message, NEW by \in {"now", "delayed"} \union Slot, WriteJob(m, by)
      PROVE  Exclusive(T)'
  <2>1. UNCHANGED <<client, orig, wrapper, sched, batch>>
    BY <1>9 DEF WriteJob, dispatcher
  <2>2. \A n \in T : \A s \in Slot : Records(s, n) => \A k \in Host : n \notin batch'[k]
    BY <1>2, <2>1 DEF Exclusive
  <2> QED BY <1>1, <1>2, <2>1, <2>2, OwnersSpared
<1>10. ASSUME NEW H, NEW D, NEW W, NEW E, NEW P, Cutting(H, D, W, E, P) PROVE Exclusive(T)'
  BY <1>1, <1>2, <1>10, CutExclusive
<1> QED BY <1>3, <1>4, <1>5, <1>6, <1>7, <1>8, <1>9, <1>10 DEF Next, Cutting

LEMMA ExclusiveAlways == Spec => [](BaseInv /\ ExclusiveInv)
<1>1. Init => ExclusiveInv
  BY QueueAssumption DEF Init, ExclusiveInv, Exclusive, Timely, Owns, Records, Catching
<1> QED BY <1>1, BaseInitially, BaseStep, ExclusiveStep, PTL DEF Spec

\* A job is never with two handlers at a time, for all that dispatchers and
\* redirect chains claim on their own, and whatever fails or dies: unless a
\* fetch of this very job has failed, or it outwaited its own grace window.
THEOREM OneRunner == Spec => []OneRunnerPerJob
<1>1. BaseInv /\ ExclusiveInv => OneRunnerPerJob
  <2> SUFFICES ASSUME BaseInv, ExclusiveInv, NEW s \in Slot, NEW t \in Slot,
                      s # t, cur[s] # None, cur[s] = cur[t], cur[s] \notin late \union failed
               PROVE  FALSE
    BY DEF OneRunnerPerJob
  <2>1. cur[s] \in Timely
    BY DEF BaseInv, TypeOK, Timely
  <2> QED BY <2>1 DEF ExclusiveInv, Exclusive, Owns
<1> QED BY <1>1, ExclusiveAlways, PTL

----------------------------------------------------------------------------
(* Without faults: every job accounted for.                                *)

Working == {"claimed", "sent", "running", "resched"}

\* A slot bound to deliver a job or to put it back, and one about to delete it.
Works(s, m) == (cur[s] = m /\ pc[s] \in Working) \/ (next[s] = m /\ pc[s] = "redirect")
Ends(s, m) == cur[s] = m /\ pc[s] \in {"del", "drop"}

\* A slot's dispatcher waits for its wrapper, which works on a job still owed a
\* delivery and knows the job's attempt.
SlotAccount(s) ==
    /\ client[s] = IF pc[s] = "idle" THEN "none" ELSE "open"
    /\ \A m \in Message : Works(s, m) => fate[m] = "queued"
    /\ pc[s] = "running" /\ cur[s] # None => seen[s] = fails[cur[s]] + 1

\* What is scheduled is owed a delivery, what is owed one is scheduled or worked
\* on, and its hash counts the failures; what is over has no hash for long.
JobAccount(m) ==
    /\ sched[m] # "out" => fate[m] = "queued"
    /\ fate[m] = "queued" /\ sched[m] = "out" /\ m \notin Misrouted
         => \E s \in Slot : Works(s, m)
    /\ fate[m] = "new" => fails[m] = 0
    /\ fate[m] \in {"writing", "queued"} => attempt[m] = fails[m] + 1
    /\ hash[m] # "partial"
    /\ fate[m] \in Over /\ hash[m] = "full" => \E s \in Slot : Ends(s, m)

Accounted ==
    /\ \A s \in Slot : SlotAccount(s)
    /\ \A m \in Message : JobAccount(m)

\* No fetch fails, nothing dies, no continuation outwaits its grace window.
Quiet == MaxFaults = 0 /\ MaxLate = 0

\* A step at s leaves a job as it is, and what it does for it.
JobKept(s, m) ==
    /\ fate'[m] = fate[m] /\ fails'[m] = fails[m] /\ attempt'[m] = attempt[m]
    /\ hash'[m] = hash[m]
    /\ sched'[m] = "out" <=> sched[m] = "out"
    /\ Works(s, m) => Works(s, m)'
    /\ Ends(s, m) => Ends(s, m)'

AccountMoves(s) ==
    /\ SlotAccount(s)'
    /\ \A t \in Slot : t # s => seen'[t] = seen[t]
    /\ \A m \in Message : JobKept(s, m) \/ JobAccount(m)'
    /\ \A m \in Message : ~Owns(s, m) => fate'[m] = fate[m] /\ fails'[m] = fails[m]

LEMMA AccountKept ==
    ASSUME BaseInv, Exclusive(Message), Accounted, NEW s \in Slot, OnlySlot(s), AccountMoves(s)
    PROVE  Accounted'
<1>1. ASSUME NEW t \in Slot, t # s
      PROVE  /\ pc'[t] = pc[t] /\ cur'[t] = cur[t] /\ client'[t] = client[t]
             /\ next'[t] = next[t] /\ seen'[t] = seen[t]
             /\ \A m \in Message : /\ Works(t, m)' <=> Works(t, m)
                                   /\ Ends(t, m)' <=> Ends(t, m)
  BY <1>1 DEF OnlySlot, SlotSpared, AccountMoves, Works, Ends
<1>2. ASSUME NEW t \in Slot, t # s PROVE SlotAccount(t)'
  <2>1. \A m \in Message : Owns(t, m) => fate'[m] = fate[m] /\ fails'[m] = fails[m]
    BY <1>2 DEF Exclusive, AccountMoves
  <2>2. SlotAccount(t) /\ cur[t] \in Message \union {None}
    BY DEF Accounted, BaseInv, TypeOK
  <2>3. \A m \in Message : Works(t, m)' => fate'[m] = "queued"
    BY <1>1, <1>2, <2>1, <2>2 DEF SlotAccount, Works, Owns
  <2>4. pc'[t] = "running" /\ cur'[t] # None => seen'[t] = fails'[cur'[t]] + 1
    BY <1>1, <1>2, <2>1, <2>2 DEF SlotAccount, Owns
  <2> QED BY <1>1, <1>2, <2>2, <2>3, <2>4 DEF SlotAccount
<1>3. ASSUME NEW m \in Message, JobKept(s, m) PROVE JobAccount(m)'
  <2>1. JobAccount(m)
    BY DEF Accounted
  <2>2. \A t \in Slot : Works(t, m) => Works(t, m)'
    BY <1>1, <1>3 DEF JobKept
  <2>3. \A t \in Slot : Ends(t, m) => Ends(t, m)'
    BY <1>1, <1>3 DEF JobKept
  <2> QED BY <1>3, <2>1, <2>2, <2>3 DEF JobAccount, JobKept
<1> QED BY <1>2, <1>3 DEF Accounted, AccountMoves

\* A wrapper that answers is done with every job but the one it had at hand.
LEMMA RespondAccount ==
    ASSUME BaseInv, Accounted, NEW s \in Slot, Respond(s), pc[s] # "idle",
           \A m \in Message : m # cur[s] =>
              /\ fate'[m] = fate[m] /\ fails'[m] = fails[m] /\ attempt'[m] = attempt[m]
              /\ hash'[m] = hash[m] /\ (sched'[m] = "out" <=> sched[m] = "out"),
           UNCHANGED <<fate, fails>>,
           pc[s] # "redirect",
           \A m \in Message : m = cur[s] => JobAccount(m)'
    PROVE  AccountMoves(s)
<1>1. TypeOK /\ Rest(s) /\ client[s] = "open"
  BY DEF BaseInv, Respond, Accounted, SlotAccount
<1>2. pc'[s] = "idle" /\ cur'[s] = None /\ next'[s] = None
  BY <1>1, RestSlot
<1>3. client'[s] = "none"
  BY <1>1 DEF Respond, TypeOK
<1>4. SlotAccount(s)'
  BY <1>2, <1>3 DEF SlotAccount, Works, Working
<1>5. \A t \in Slot : t # s => seen'[t] = seen[t]
  BY <1>1 DEF Rest, TypeOK
<1>6. \A m \in Message : m # cur[s] => JobKept(s, m)
  BY DEF JobKept, Works, Ends
<1> QED BY <1>4, <1>5, <1>6 DEF AccountMoves

\* A wrapper that goes on, its job as it was.
LEMMA GoingOnAccount ==
    ASSUME BaseInv, Accounted, NEW s \in Slot,
           UNCHANGED <<cur, next, client, fate, fails, attempt, hash>>,
           \A t \in Slot : t # s => seen'[t] = seen[t],
           \A m \in Message : sched'[m] = "out" <=> sched[m] = "out",
           pc[s] # "idle", pc'[s] # "idle",
           \A m \in Message : Works(s, m)' <=> Works(s, m),
           \A m \in Message : Ends(s, m) => Ends(s, m)',
           pc'[s] = "running" => cur[s] = None \/ seen'[s] = fails[cur[s]] + 1
    PROVE  AccountMoves(s)
<1>1. \A m \in Message : JobKept(s, m)
  BY DEF JobKept
<1>2. SlotAccount(s)'
  BY DEF Accounted, SlotAccount
<1> QED BY <1>1, <1>2 DEF AccountMoves

LEMMA WrapperAccount ==
    ASSUME BaseInv, Exclusive(Message), Accounted, NEW s \in Slot, WrapperStep(s)
    PROVE  AccountMoves(s)
<1>1. /\ TypeOK /\ SlotInv(s) /\ OnlySlot(s) /\ SlotAccount(s)
      /\ \A m \in Message : JobAccount(m) /\ MessageInv(m)
      /\ cur[s] \in Message \union {None} /\ next[s] \in Message \union {None}
  BY WrapperSlot DEF BaseInv, Accounted, TypeOK
<1>2. /\ \A t \in Slot : t # s => SlotSpared(t)
      /\ pc[s] # "idle" => client[s] = "open"
  BY <1>1 DEF OnlySlot, SlotAccount
<1>3. \A m \in Message : Owns(s, m) => sched[m] = "out"
  BY DEF Exclusive
<1>4. ASSUME cur[s] \in Message, pc[s] \in Working
      PROVE  /\ fate[cur[s]] = "queued" /\ hash[cur[s]] = "full" /\ sched[cur[s]] = "out"
             /\ attempt[cur[s]] = fails[cur[s]] + 1
             /\ Owns(s, cur[s])
  BY <1>1, <1>3, <1>4 DEF SlotAccount, Works, JobAccount, MessageInv, Owns
<1>5. CASE Send(s)
  <2>1. /\ pc[s] = "claimed" /\ cur[s] \in Message /\ UNCHANGED <<sched, attempt, hash, fate, fails>>
    BY <1>1, <1>5 DEF Send, redis, ghost, SlotInv
  <2>2. hash[cur[s]] = "full"
    BY <1>4, <2>1 DEF Working
  <2>3. pc'[s] = "sent" /\ UNCHANGED <<cur, next, client, seen>>
    BY <1>1, <1>5, <2>2 DEF Send, TypeOK
  <2>4. \A m \in Message : /\ Works(s, m)' <=> Works(s, m)
                           /\ Ends(s, m) => Ends(s, m)'
    BY <2>1, <2>3 DEF Works, Ends, Working
  <2> QED BY <2>1, <2>3, <2>4, GoingOnAccount
<1>6. CASE Arrive(s)
  <2> DEFINE m == cur[s]
  <2>1. /\ pc[s] = "sent" /\ m \in Message /\ UNCHANGED <<sched, attempt, hash, fails>>
    BY <1>1, <1>6 DEF Arrive, redis, SlotInv
  <2>2. /\ fate[m] = "queued" /\ hash[m] = "full" /\ sched[m] = "out"
        /\ attempt[m] = fails[m] + 1 /\ Owns(s, m)
    BY <1>4, <2>1 DEF Working
  <2>3. CASE m \in Misrouted \ HealthCheck
    <3>1. Respond(s) /\ UNCHANGED fate
      <4>1. Respond(s)
        BY <1>6, <2>3 DEF Arrive
      <4> QED BY <1>1, <1>6, <4>1, RestSlot DEF Arrive, Respond
    <3>2. \A n \in Message : n = m => JobAccount(n)'
      BY <1>1, <2>1, <2>2, <2>3, <3>1 DEF JobAccount, Over
    <3> QED BY <2>1, <3>1, <3>2, RespondAccount
  <2>4. CASE m \notin Misrouted \ HealthCheck
    <3>1. /\ pc' = [pc EXCEPT ![s] = IF m \in HealthCheck THEN "drop" ELSE "running"]
          /\ seen' = [seen EXCEPT ![s] = attempt[m]]
          /\ UNCHANGED <<cur, next, client>>
      BY <1>6, <2>2, <2>4 DEF Arrive
    <3>2. seen'[s] = fails[m] + 1 /\ \A t \in Slot : t # s => seen'[t] = seen[t]
      BY <1>1, <2>2, <3>1 DEF TypeOK
    <3>3. CASE m \in HealthCheck
      <4>1. pc'[s] = "drop" /\ fate' = [fate EXCEPT ![m] = "done"]
        BY <1>1, <1>6, <3>1, <3>3 DEF TypeOK, Arrive
      <4>2. \A n \in Message : fate'[n] = IF n = m THEN "done" ELSE fate[n]
        BY <1>1, <4>1 DEF TypeOK
      <4>3. \A n \in Message : n = m => JobAccount(n)'
        <5>1. Ends(s, m)'
          BY <3>1, <4>1 DEF Ends
        <5> QED BY <2>1, <2>2, <3>1, <4>2, <5>1 DEF JobAccount, Over
      <4>4. \A n \in Message : n # m => JobKept(s, n)
        BY <2>1, <4>2 DEF JobKept, Works, Ends
      <4>5. SlotAccount(s)'
        BY <1>1, <1>2, <2>1, <3>1, <4>1 DEF SlotAccount, Works, Working
      <4> QED BY <2>1, <2>2, <3>2, <4>2, <4>3, <4>4, <4>5 DEF AccountMoves
    <3>4. CASE m \notin HealthCheck
      <4>1. pc'[s] = "running" /\ UNCHANGED fate
        BY <1>1, <1>6, <3>1, <3>4 DEF TypeOK, Arrive
      <4>2. \A n \in Message : /\ Works(s, n)' <=> Works(s, n)
                               /\ Ends(s, n) => Ends(s, n)'
        BY <2>1, <3>1, <4>1 DEF Works, Ends, Working
      <4> QED BY <2>1, <3>1, <3>2, <4>1, <4>2, GoingOnAccount
    <3> QED BY <3>3, <3>4
  <2> QED BY <2>3, <2>4
<1>7. CASE HandlerReturns(s)
  <2>1. /\ pc[s] = "running" /\ UNCHANGED <<sched, attempt, hash, fails, cur, next, client, seen>>
        /\ pc'[s] = IF cur[s] = None THEN "promote" ELSE "del"
        /\ fate' = IF cur[s] = None THEN fate ELSE [fate EXCEPT ![cur[s]] = "done"]
    BY <1>1, <1>7 DEF HandlerReturns, redis, dispatcher, TypeOK
  <2>2. CASE cur[s] = None
    <3>1. \A n \in Message : /\ Works(s, n)' <=> Works(s, n)
                             /\ Ends(s, n) => Ends(s, n)'
      BY <2>1, <2>2, QueueAssumption DEF Works, Ends, Working
    <3> QED BY <2>1, <2>2, <3>1, GoingOnAccount
  <2>3. CASE cur[s] # None
    <3> DEFINE m == cur[s]
    <3>1. /\ fate[m] = "queued" /\ hash[m] = "full" /\ sched[m] = "out" /\ m \in Message
          /\ Owns(s, m)
      BY <1>1, <1>4, <2>1, <2>3 DEF Working
    <3>2. \A n \in Message : fate'[n] = IF n = m THEN "done" ELSE fate[n]
      BY <1>1, <2>1, <2>3 DEF TypeOK
    <3>3. \A n \in Message : n = m => JobAccount(n)'
      <4>1. Ends(s, m)'
        BY <2>1, <2>3 DEF Ends
      <4> QED BY <2>1, <3>1, <3>2, <4>1 DEF JobAccount, Over
    <3>4. \A n \in Message : n # m => JobKept(s, n)
      BY <2>1, <3>2 DEF JobKept, Works, Ends
    <3>5. SlotAccount(s)'
      BY <1>2, <2>1, <2>3 DEF SlotAccount, Works, Working
    <3> QED BY <2>1, <3>1, <3>2, <3>3, <3>4, <3>5 DEF AccountMoves
  <2> QED BY <2>2, <2>3
<1>8. ASSUME Respond(s), pc[s] \in {"running", "resched"}, UNCHANGED <<hash, attempt, ghost>>,
             IF cur[s] = None THEN UNCHANGED sched
                              ELSE sched' = [sched EXCEPT ![cur[s]] = "later"]
      PROVE  AccountMoves(s)
  <2>1. \A m \in Message : m # cur[s] => (sched'[m] = "out" <=> sched[m] = "out")
    BY <1>1, <1>8 DEF TypeOK
  <2>2. \A m \in Message : m = cur[s] => JobAccount(m)'
    <3> SUFFICES ASSUME NEW m \in Message, m = cur[s] PROVE JobAccount(m)'
      OBVIOUS
    <3>1. /\ fate[m] = "queued" /\ attempt[m] = fails[m] + 1 /\ hash[m] = "full"
      BY <1>4, <1>8 DEF Working
    <3>2. sched'[m] = "later"
      BY <1>1, <1>8, QueueAssumption DEF TypeOK
    <3> QED BY <1>8, <3>1, <3>2 DEF JobAccount, ghost, Over
  <2> QED BY <1>8, <2>1, <2>2, RespondAccount DEF ghost
<1>9. CASE HandlerSleeps(s)
  BY <1>8, <1>9 DEF HandlerSleeps, Defer
<1>10. CASE Reschedule(s)
  BY <1>1, <1>8, <1>10 DEF Reschedule, Defer, SlotInv
<1>11. CASE HandlerThrows(s)
  <2>1. pc[s] = "running" /\ UNCHANGED sched
    BY <1>11 DEF HandlerThrows
  <2>2. CASE cur[s] = None
    BY <1>8, <1>11, <2>1, <2>2 DEF HandlerThrows
  <2>3. CASE cur[s] # None
    <3> DEFINE m == cur[s]
    <3>1. /\ fate[m] = "queued" /\ hash[m] = "full" /\ sched[m] = "out" /\ m \in Message
          /\ attempt[m] = fails[m] + 1 /\ Owns(s, m) /\ seen[s] = fails[m] + 1
          /\ attempt[m] \in 0 .. MaxAttempts /\ fails[m] \in 0 .. MaxAttempts
      BY <1>1, <1>4, <2>1, <2>3 DEF Working, SlotAccount, TypeOK
    <3>2. /\ UNCHANGED <<cur, next, client, seen>>
          /\ fails' = [fails EXCEPT ![m] = IF @ < MaxAttempts THEN @ + 1 ELSE @]
      BY <1>11, <2>3 DEF HandlerThrows
    <3>3. fails[m] < MaxAttempts
      BY <3>1, QueueAssumption
    <3>4. \A n \in Message : fails'[n] = IF n = m THEN fails[m] + 1 ELSE fails[n]
      BY <1>1, <3>2, <3>3 DEF TypeOK
    <3>5. CASE seen[s] + 1 <= MaxAttempts
      <4>1. /\ attempt' = [attempt EXCEPT ![m] = seen[s] + 1]
            /\ hash' = [hash EXCEPT ![m] = IF @ = "full" THEN "full" ELSE "partial"]
            /\ pc' = [pc EXCEPT ![s] = "resched"] /\ UNCHANGED fate
        <5>1. ~(seen[s] + 1 > MaxAttempts)
          BY <3>1, <3>5, QueueAssumption
        <5> QED BY <1>11, <2>3, <5>1 DEF HandlerThrows, SetAttempt
      <4>2. \A n \in Message : /\ attempt'[n] = IF n = m THEN fails[m] + 2 ELSE attempt[n]
                               /\ hash'[n] = hash[n]
        <5>1. \A n \in Message : /\ attempt'[n] = IF n = m THEN seen[s] + 1 ELSE attempt[n]
                                 /\ hash'[n] = hash[n]
          BY <1>1, <3>1, <4>1 DEF TypeOK
        <5> QED BY <3>1, <5>1
      <4>3. pc'[s] = "resched"
        BY <1>1, <4>1 DEF TypeOK
      <4>4. \A n \in Message : n = m => JobAccount(n)'
        <5>1. Works(s, m)'
          BY <3>2, <4>3 DEF Works, Working
        <5>2. attempt'[m] = fails'[m] + 1
          BY <3>1, <3>4, <4>2
        <5> QED BY <2>1, <3>1, <3>2, <4>1, <4>2, <5>1, <5>2 DEF JobAccount, Over
      <4>5. \A n \in Message : n # m => JobKept(s, n)
        BY <2>1, <3>4, <4>1, <4>2 DEF JobKept, Works, Ends
      <4>6. SlotAccount(s)'
        BY <1>2, <2>1, <2>3, <3>1, <3>2, <4>1, <4>3 DEF SlotAccount, Works, Working
      <4> QED BY <3>1, <3>2, <3>4, <4>1, <4>4, <4>5, <4>6 DEF AccountMoves
    <3>6. CASE ~(seen[s] + 1 <= MaxAttempts)
      <4>1. /\ pc' = [pc EXCEPT ![s] = "drop"]
            /\ fate' = [fate EXCEPT ![m] = "dropped"] /\ UNCHANGED <<hash, attempt>>
        BY <1>11, <2>3, <3>6 DEF HandlerThrows
      <4>2. pc'[s] = "drop" /\ \A n \in Message : fate'[n] = IF n = m THEN "dropped" ELSE fate[n]
        BY <1>1, <4>1 DEF TypeOK
      <4>3. \A n \in Message : n = m => JobAccount(n)'
        <5>1. Ends(s, m)'
          BY <3>2, <4>2 DEF Ends
        <5> QED BY <2>1, <3>1, <3>2, <4>1, <4>2, <5>1 DEF JobAccount, Over
      <4>4. \A n \in Message : n # m => JobKept(s, n)
        BY <2>1, <3>4, <4>1, <4>2 DEF JobKept, Works, Ends
      <4>5. SlotAccount(s)'
        BY <1>2, <2>1, <3>2, <4>2 DEF SlotAccount, Works, Working
      <4> QED BY <3>1, <3>2, <3>4, <4>2, <4>3, <4>4, <4>5 DEF AccountMoves
    <3> QED BY <3>5, <3>6
  <2> QED BY <2>2, <2>3
<1>12. CASE DeleteHash(s)
  <2> DEFINE m == cur[s]
  <2>1. /\ pc[s] \in {"del", "drop"} /\ m \in Message /\ fate[m] \in Over /\ Owns(s, m)
        /\ UNCHANGED <<sched, fate, fails, cur, next, client, seen>>
        /\ pc'[s] \in {"zrem", "dropzrem"}
        /\ \A n \in Message : n # m => hash'[n] = hash[n] /\ attempt'[n] = attempt[n]
        /\ hash'[m] = "absent"
    BY <1>1, <1>12 DEF DeleteHash, DelHash, dispatcher, ghost, TypeOK, SlotInv, Owns
  <2>2. \A n \in Message : n = m => JobAccount(n)'
    BY <1>3, <2>1 DEF JobAccount, Over
  <2>3. \A n \in Message : n # m => JobKept(s, n)
    BY <2>1 DEF JobKept, Works, Ends, Working
  <2>4. SlotAccount(s)'
    BY <1>2, <2>1 DEF SlotAccount, Works, Working
  <2> QED BY <2>1, <2>2, <2>3, <2>4 DEF AccountMoves
<1>13. CASE DeleteEntry(s)
  <2>1. /\ pc[s] \in {"zrem", "dropzrem"} /\ cur[s] \in Message
        /\ UNCHANGED <<hash, attempt, fate, fails>>
    BY <1>1, <1>13 DEF DeleteEntry, ghost, SlotInv
  <2>2. \A n \in Message : sched'[n] = sched[n]
    BY <1>1, <1>3, <1>13 DEF DeleteEntry, TypeOK, Owns
  <2>3. CASE Respond(s)
    <3>1. fate[cur[s]] \in Over /\ JobAccount(cur[s])
      BY <1>1, <2>1 DEF SlotInv
    <3>2. hash[cur[s]] # "full"
      <4>1. ASSUME NEW t \in Slot, Ends(t, cur[s]) PROVE FALSE
        <5>1. t = s
          BY <2>1, <4>1 DEF Exclusive, Ends, Owns
        <5> QED BY <2>1, <4>1, <5>1 DEF Ends
      <4> QED BY <3>1, <4>1 DEF JobAccount
    <3>3. \A m \in Message : m = cur[s] => JobAccount(m)'
      BY <2>1, <2>2, <3>1, <3>2 DEF JobAccount, Over
    <3> QED BY <2>1, <2>2, <2>3, <3>3, RespondAccount
  <2>4. CASE ~Respond(s)
    <3>1. pc'[s] = "promote" /\ UNCHANGED <<cur, next, client, seen>>
      BY <1>1, <1>13, <2>4 DEF DeleteEntry, TypeOK
    <3>2. \A m \in Message : /\ Works(s, m)' <=> Works(s, m)
                             /\ Ends(s, m) => Ends(s, m)'
      BY <2>1, <3>1 DEF Works, Ends, Working
    <3> QED BY <2>1, <2>2, <3>1, <3>2, GoingOnAccount
  <2> QED BY <2>3, <2>4
<1>14. CASE PromoteRest(s)
  <2>1. /\ pc[s] = "promote" /\ UNCHANGED <<hash, attempt, fate, fails, pc, cur, next, client, seen>>
    BY <1>14 DEF PromoteRest, dispatcher, ghost
  <2>2. PICK m \in rest[s] : sched' = [sched EXCEPT ![m] = "due"]
    BY <1>14 DEF PromoteRest
  <2>3. m \in Message /\ sched[m] = "grace"
    <3>1. m \in Message /\ Records(s, m)
      BY <1>1, <2>2 DEF TypeOK, Records
    <3> QED BY <3>1 DEF Exclusive
  <2>4. \A n \in Message : sched'[n] = "out" <=> sched[n] = "out"
    BY <1>1, <2>2, <2>3 DEF TypeOK
  <2>5. \A n \in Message : /\ Works(s, n)' <=> Works(s, n)
                           /\ Ends(s, n) => Ends(s, n)'
    BY <2>1 DEF Works, Ends
  <2> QED BY <2>1, <2>4, <2>5, GoingOnAccount
<1>15. CASE ClaimNext(s)
  <2> DEFINE m == next[s]
  <2>1. /\ pc[s] = "promote" /\ pc'[s] = "redirect" /\ m \in Message
        /\ UNCHANGED <<hash, attempt, fate, fails, cur, next, client, seen>>
        /\ \A n \in Message : sched'[n] = IF n = m THEN "out" ELSE sched[n]
    BY <1>1, <1>15 DEF ClaimNext, dispatcher, ghost, TypeOK
  <2>2. sched[m] = "grace" /\ fate[m] = "queued"
    <3>1. Records(s, m)
      BY <2>1 DEF Records
    <3>2. sched[m] = "grace"
      BY <2>1, <3>1 DEF Exclusive
    <3> QED BY <1>1, <2>1, <3>2 DEF JobAccount
  <2>3. \A n \in Message : Works(s, n)' <=> n = m
    BY <2>1 DEF Works, Working
  <2>4. \A n \in Message : n = m => JobAccount(n)'
    BY <1>1, <2>1, <2>2, <2>3 DEF JobAccount, Over
  <2>5. \A n \in Message : n # m => JobKept(s, n)
    BY <2>1 DEF JobKept, Works, Ends, Working
  <2>6. SlotAccount(s)'
    BY <1>2, <2>1, <2>2, <2>3 DEF SlotAccount
  <2> QED BY <2>1, <2>4, <2>5, <2>6 DEF AccountMoves
<1>16. CASE FinishChain(s)
  <2>1. /\ pc[s] = "promote" /\ Respond(s) /\ UNCHANGED <<hash, attempt, fate, fails>>
        /\ sched' = IF next[s] = None THEN sched ELSE [sched EXCEPT ![next[s]] = "due"]
    BY <1>16 DEF FinishChain, ghost
  <2>2. next[s] # None => sched[next[s]] = "grace"
    BY <1>1, <2>1 DEF Exclusive, Records
  <2>3. \A n \in Message : sched'[n] = "out" <=> sched[n] = "out"
    BY <1>1, <2>1, <2>2 DEF TypeOK
  <2>4. \A m \in Message : m = cur[s] => JobAccount(m)'
    <3> SUFFICES ASSUME NEW m \in Message, m = cur[s] PROVE JobAccount(m)'
      OBVIOUS
    <3>1. sched[m] = "out" /\ sched'[m] = "out" /\ JobAccount(m)
      BY <1>1, <1>3, <2>3 DEF Owns
    <3>2. ASSUME NEW t \in Slot PROVE ~Works(t, m) /\ ~Ends(t, m)
      <4>1. Owns(t, m) => t = s
        BY DEF Exclusive, Owns
      <4> QED BY <2>1, <4>1 DEF Works, Ends, Owns, Working
    <3> QED BY <2>1, <3>1, <3>2 DEF JobAccount
  <2> QED BY <2>1, <2>3, <2>4, RespondAccount
<1>17. CASE Redirect(s)
  <2>1. /\ pc[s] = "redirect" /\ UNCHANGED <<sched, hash, attempt, fate, fails>> /\ client[s] = "open"
        /\ next[s] \in Message
    BY <1>1, <1>2, <1>17 DEF Redirect, redis, ghost, SlotInv
  <2>2. /\ pc'[s] = "sent" /\ cur'[s] = next[s] /\ next'[s] = None /\ UNCHANGED client
        /\ \A t \in Slot : t # s => seen'[t] = seen[t]
    BY <1>1, <1>17, <2>1 DEF Redirect, TypeOK
  <2>3. \A m \in Message : Works(s, m) <=> Works(s, m)'
    BY <2>1, <2>2, QueueAssumption DEF Works, Working
  <2>4. \A m \in Message : JobKept(s, m)
    BY <2>1, <2>2, <2>3 DEF JobKept, Ends
  <2>5. SlotAccount(s)'
    BY <1>1, <1>2, <2>1, <2>2, <2>3 DEF SlotAccount
  <2> QED BY <2>1, <2>2, <2>4, <2>5 DEF AccountMoves
<1> QED BY <1>5, <1>6, <1>7, <1>9, <1>10, <1>11, <1>12, <1>13, <1>14, <1>15, <1>16, <1>17
        DEF WrapperStep, HandlerEnds

\* A step of nobody's slot that leaves a job and its schedule entry alone, or
\* moves an entry that stays.
LEMMA MessageAccount ==
    ASSUME Accounted, UNCHANGED <<client, pc, cur, seen, fails>>,
           \A s \in Slot : pc[s] = "running" \/ next'[s] = next[s],
           \A m \in Message :
             /\ fate[m] = "queued" => fate'[m] = "queued"
             /\ \/ /\ fate'[m] = fate[m] /\ attempt'[m] = attempt[m] /\ hash'[m] = hash[m]
                   /\ sched'[m] = "out" <=> sched[m] = "out"
                \/ JobAccount(m)'
    PROVE  Accounted'
<1>1. ASSUME NEW s \in Slot, NEW m \in Message
      PROVE  (Works(s, m)' <=> Works(s, m)) /\ (Ends(s, m)' <=> Ends(s, m))
  BY DEF Works, Ends
<1>2. \A s \in Slot : SlotAccount(s)'
  BY <1>1 DEF Accounted, SlotAccount
<1>3. \A m \in Message : JobAccount(m)'
  BY <1>1 DEF Accounted, JobAccount
<1> QED BY <1>2, <1>3 DEF Accounted

LEMMA ScheduleJobAccount ==
    ASSUME BaseInv, Accounted, NEW m \in Message, ScheduleJob(m)
    PROVE  Accounted'
<1>1. /\ TypeOK /\ fate[m] = "writing" /\ hash[m] = "full" /\ JobAccount(m)
      /\ pending[m] \in Slot => pc[pending[m]] = "running"
  BY DEF BaseInv, MessageInv, ScheduleJob, Accounted
<1>2. /\ UNCHANGED <<client, pc, cur, seen, fails, hash, attempt>>
      /\ fate'[m] = "queued" /\ sched'[m] # "out"
      /\ \A n \in Message : n # m => fate'[n] = fate[n] /\ sched'[n] = sched[n]
  BY <1>1 DEF ScheduleJob, dispatcher, TypeOK, RunAt
<1>3. \A s \in Slot : pc[s] = "running" \/ next'[s] = next[s]
  BY <1>1 DEF ScheduleJob, TypeOK
<1>4. \A n \in Message : n = m => JobAccount(n)'
  BY <1>1, <1>2 DEF JobAccount, Over
<1> QED BY <1>2, <1>3, <1>4, MessageAccount

LEMMA WriteJobAccount ==
    ASSUME BaseInv, Accounted, NEW m \in Message, NEW by \in {"now", "delayed"} \union Slot,
           WriteJob(m, by)
    PROVE  Accounted'
<1>1. /\ TypeOK /\ fate[m] = "new" /\ JobAccount(m)
      /\ UNCHANGED <<client, pc, cur, seen, fails, sched, next>>
  BY DEF BaseInv, WriteJob, Accounted, dispatcher, wrapper
<1>2. /\ fate'[m] = "writing" /\ hash'[m] = "full" /\ attempt'[m] = 1
      /\ \A n \in Message : n # m =>
           fate'[n] = fate[n] /\ hash'[n] = hash[n] /\ attempt'[n] = attempt[n]
  BY <1>1 DEF WriteJob, TypeOK
<1>3. sched[m] = "out" /\ fails[m] = 0
  BY <1>1, UnknownFree DEF JobAccount
<1>4. \A n \in Message : n = m => JobAccount(n)'
  BY <1>1, <1>2, <1>3 DEF JobAccount, Over
<1> QED BY <1>1, <1>2, <1>4, MessageAccount

LEMMA ClaimAccount ==
    ASSUME BaseInv, Exclusive(Message), Accounted, NEW h \in Host, NEW m \in Message, Claim(h, m)
    PROVE  Accounted'
<1>1. /\ TypeOK /\ UNCHANGED <<hop, seen, next, rest, hash, attempt, fate, fails>>
  BY DEF BaseInv, Claim, ghost
<1>2. CASE ZremWins(m)
  <2>1. PICK s \in Slot :
          /\ FreeSlot(s) /\ sched' = [sched EXCEPT ![m] = "out"]
          /\ client' = [client EXCEPT ![s] = "open"] /\ orig' = [orig EXCEPT ![s] = m]
          /\ pc' = [pc EXCEPT ![s] = "claimed"] /\ cur' = [cur EXCEPT ![s] = m]
    BY <1>2 DEF Claim
  <2>2. /\ pc'[s] = "claimed" /\ cur'[s] = m /\ client'[s] = "open"
        /\ sched'[m] = "out" /\ \A n \in Message : n # m => sched'[n] = sched[n]
        /\ \A t \in Slot : t # s => /\ client'[t] = client[t]
                                    /\ pc'[t] = pc[t] /\ cur'[t] = cur[t]
    BY <1>1, <2>1 DEF TypeOK
  <2>3. pc[s] = "idle"
    BY <2>1 DEF FreeSlot
  <2>4. \A n \in Message : /\ Works(s, n)' <=> n = m
                           /\ ~Works(s, n) /\ ~Ends(s, n) /\ ~Ends(s, n)'
    BY <1>1, <2>2, <2>3 DEF Works, Ends, Working
  <2>5. ASSUME NEW t \in Slot, t # s, NEW n \in Message
        PROVE  (Works(t, n)' <=> Works(t, n)) /\ (Ends(t, n)' <=> Ends(t, n))
    BY <1>1, <2>2, <2>5 DEF Works, Ends
  <2>6. fate[m] = "queued"
    BY <1>2 DEF ZremWins, Scheduled, Accounted, JobAccount
  <2>7. ASSUME NEW t \in Slot PROVE SlotAccount(t)'
    <3>1. CASE t = s
      BY <1>1, <2>2, <2>4, <2>6, <3>1 DEF SlotAccount
    <3>2. CASE t # s
      BY <1>1, <2>2, <2>5, <3>2 DEF Accounted, SlotAccount
    <3> QED BY <3>1, <3>2
  <2>8. ASSUME NEW n \in Message PROVE JobAccount(n)'
    <3>1. JobAccount(n)
      BY DEF Accounted
    <3>2. CASE n = m
      BY <1>1, <2>2, <2>4, <2>6, <3>1, <3>2 DEF JobAccount, Over
    <3>3. CASE n # m
      <4>1. /\ \A t \in Slot : Works(t, n) => Works(t, n)'
            /\ \A t \in Slot : Ends(t, n) => Ends(t, n)'
        BY <2>4, <2>5
      <4> QED BY <1>1, <2>2, <3>1, <3>3, <4>1 DEF JobAccount
    <3> QED BY <3>2, <3>3
  <2> QED BY <2>7, <2>8 DEF Accounted
<1>3. CASE ~ZremWins(m)
  BY <1>1, <1>3, MessageAccount DEF Claim
<1> QED BY <1>2, <1>3

LEMMA ArriveDirectAccount ==
    ASSUME BaseInv, Accounted, NEW s \in Slot, ArriveDirect(s)
    PROVE  AccountMoves(s)
<1>1. /\ TypeOK /\ pc[s] = "idle" /\ cur[s] = None
      /\ UNCHANGED <<sched, hash, attempt, fate, fails, cur, next, seen>>
      /\ pc'[s] = "running" /\ client'[s] = "open"
  BY DEF BaseInv, TypeOK, SlotInv, ArriveDirect, FreeSlot, redis, ghost
<1>2. \A m \in Message : ~Works(s, m) /\ ~Works(s, m)' /\ ~Ends(s, m)
  BY <1>1, QueueAssumption DEF Works, Ends, Working
<1>3. \A m \in Message : JobKept(s, m)
  BY <1>1, <1>2 DEF JobKept
<1>4. SlotAccount(s)'
  BY <1>1, <1>2 DEF SlotAccount
<1> QED BY <1>1, <1>3, <1>4 DEF AccountMoves

AccountInv == Quiet => failed = {} /\ Accounted

LEMMA QuietExclusive ==
    ASSUME BaseInv, ExclusiveInv, AccountInv, Quiet PROVE Exclusive(Message) /\ Accounted
<1>1. /\ late \subseteq Message /\ IsFiniteSet(late) /\ Cardinality(late) <= 0
      /\ failed = {} /\ Accounted
  BY DEF BaseInv, TypeOK, AccountInv, Quiet
<1>2. late = {}
  <2>1. Cardinality(late) = 0
    BY <1>1, FS_CardinalityType
  <2> QED BY <1>1, <2>1, FS_EmptySet
<1>3. Timely = Message
  BY <1>1, <1>2 DEF Timely
<1> QED BY <1>1, <1>3 DEF ExclusiveInv

\* No fault happens.
LEMMA QuietStep ==
    ASSUME BaseInv, Quiet
    PROVE  /\ \A s \in Slot : ~NetError(s)
           /\ \A H, D, W, E, P : ~CutOff(H, D, W, E, P)
<1>1. faults = 0 /\ MaxFaults = 0
  BY DEF BaseInv, TypeOK, Quiet
<1> QED BY <1>1 DEF NetError, CutOff

LEMMA AccountStep == BaseInv /\ ExclusiveInv /\ AccountInv /\ [Next]_vars => AccountInv'
<1> SUFFICES ASSUME BaseInv, ExclusiveInv, AccountInv, [Next]_vars, Quiet
             PROVE  failed' = {} /\ Accounted'
  BY DEF AccountInv, Quiet
<1>1. TypeOK /\ Exclusive(Message) /\ Accounted /\ failed = {}
  BY QuietExclusive DEF BaseInv, AccountInv
<1>2. failed' = {}
  <2>1. ASSUME NEW m \in Message, TimePasses(m) PROVE failed' = failed
    BY <2>1 DEF TimePasses
  <2> QED BY <1>1, <2>1, TimelyShrinks, QuietStep DEF Cutting
<1>3. CASE UNCHANGED vars
  BY <1>1, <1>3, MessageAccount DEF vars
<1>4. ASSUME NEW s \in Slot, WrapperStep(s) \/ ArriveDirect(s) PROVE Accounted'
  <2>1. OnlySlot(s) /\ AccountMoves(s)
    BY <1>1, <1>4, WrapperSlot, FaultSlot, WrapperAccount, ArriveDirectAccount
  <2> QED BY <1>1, <2>1, AccountKept
<1>5. ASSUME NEW s \in Slot, ClientStep(s) PROVE FALSE
  BY <1>1, <1>5 DEF Accounted, SlotAccount, ClientStep, ClientBump, ClientRequeue,
     ClientDrop, ClientDropEntry
<1>6. ASSUME NEW h \in Host, ReadDue(h) PROVE Accounted'
  BY <1>1, <1>6, MessageAccount DEF ReadDue, redis, ghost, wrapper
<1>7. ASSUME NEW h \in Host, NEW m \in Message, Claim(h, m) PROVE Accounted'
  BY <1>1, <1>7, ClaimAccount
<1>8. ASSUME NEW m \in Message, TimePasses(m) PROVE Accounted'
  <2>1. UNCHANGED <<hash, attempt, client, pc, cur, seen, next, fate, fails>>
    BY <1>8 DEF TimePasses, dispatcher, wrapper, ghost
  <2>2. \A n \in Message : sched'[n] = "out" <=> sched[n] = "out"
    BY <1>1, <1>8 DEF TimePasses, TypeOK
  <2> QED BY <1>1, <2>1, <2>2, MessageAccount
<1>9. ASSUME NEW m \in Message, ScheduleJob(m) PROVE Accounted'
  BY <1>1, <1>9, ScheduleJobAccount
<1>10. ASSUME NEW m \in Message, NEW by \in {"now", "delayed"} \union Slot, WriteJob(m, by)
       PROVE  Accounted'
  BY <1>1, <1>10, WriteJobAccount
<1> QED BY <1>2, <1>3, <1>4, <1>5, <1>6, <1>7, <1>8, <1>9, <1>10, QuietStep DEF Next

LEMMA AccountAlways == Spec => [](BaseInv /\ ExclusiveInv /\ AccountInv)
<1>1. Init => ExclusiveInv
  BY QueueAssumption DEF Init, ExclusiveInv, Exclusive, Timely, Owns, Records, Catching
<1>2. Init => AccountInv
  BY QueueAssumption DEF Init, AccountInv, Accounted, SlotAccount, JobAccount, Works, Ends,
     Working, Over
<1> QED BY <1>1, <1>2, BaseInitially, BaseStep, ExclusiveStep, AccountStep, PTL DEF Spec

\* While no fetch fails, nothing dies and no continuation outwaits its grace
\* window, a handler only ever runs for a job that is still owed a
\* delivery, and is told exactly how many deliveries have failed.
THEOREM Attempts ==
    ASSUME MaxFaults = 0, MaxLate = 0
    PROVE  Spec => []AttemptsAccounted
<1>1. BaseInv /\ AccountInv => AttemptsAccounted
  <2> SUFFICES ASSUME BaseInv, AccountInv, NEW s \in Slot, pc[s] = "running", cur[s] # None
               PROVE  fate[cur[s]] = "queued" /\ seen[s] = fails[cur[s]] + 1
    BY DEF AttemptsAccounted
  <2>1. cur[s] \in Message /\ Quiet
    BY DEF BaseInv, TypeOK, Quiet
  <2> QED BY <2>1 DEF AccountInv, Accounted, SlotAccount, Works, Working
<1> QED BY <1>1, AccountAlways, PTL

\* Under the same conditions no hash outlives its job, and none is left half written.
THEOREM Cleaned ==
    ASSUME MaxFaults = 0, MaxLate = 0
    PROVE  Spec => []NoResidue
<1>1. BaseInv /\ AccountInv => NoResidue
  <2> SUFFICES ASSUME BaseInv, AccountInv PROVE NoResidue
    OBVIOUS
  <2>1. Quiet
    BY DEF BaseInv, TypeOK, Quiet
  <2> QED BY <2>1 DEF AccountInv, Accounted, JobAccount, NoResidue, Ends, Over
<1> QED BY <1>1, AccountAlways, PTL

----------------------------------------------------------------------------
(* The abstract queue.                                                     *)

\* What AbsState comes to while nobody shares a job and none is lost.
Place(m) ==
    IF fate[m] \in {"new", "writing"} THEN "new"
    ELSE IF fate[m] \in Over THEN fate[m]
    ELSE IF sched[m] # "out" THEN "ready" ELSE "held"

Sound == BaseInv /\ Exclusive(Message) /\ Accounted

LEMMA Placed == Misrouted = {} /\ Sound => \A m \in Message : AbsState(m) = Place(m)
<1> SUFFICES ASSUME Misrouted = {}, Sound, NEW m \in Message PROVE AbsState(m) = Place(m)
  OBVIOUS
<1>1. \A s \in Slot : s \in Holders(m) <=> Works(s, m)
  BY DEF Holders, Works, Working
<1>2. \A s \in Slot : Works(s, m) => sched[m] = "out" /\ \A t \in Slot : Works(t, m) => t = s
  <2>1. \A s \in Slot : Works(s, m) => Owns(s, m)
    BY DEF Works, Owns
  <2> QED BY <2>1 DEF Sound, Exclusive
<1>3. CASE fate[m] # "queued"
  BY <1>3 DEF AbsState, Place, Over, Sound, BaseInv, TypeOK, Fate
<1>4. CASE fate[m] = "queued" /\ sched[m] # "out"
  <2>1. Holders(m) = {}
    BY <1>1, <1>2, <1>4 DEF Holders
  <2> QED BY <1>4, <2>1 DEF AbsState, Place, Over, Scheduled
<1>5. CASE fate[m] = "queued" /\ sched[m] = "out"
  <2>1. PICK s \in Slot : Works(s, m)
    BY <1>5 DEF Sound, Accounted, JobAccount
  <2>2. Holders(m) = {s}
    BY <1>1, <1>2, <2>1 DEF Holders
  <2>3. Cardinality(Holders(m)) = 1
    BY <2>2, FS_Singleton
  <2> QED BY <1>5, <2>3 DEF AbsState, Place, Over, Scheduled
<1> QED BY <1>3, <1>4, <1>5 DEF Sound, BaseInv, TypeOK, Fate

LEMMA PlacedNext == Misrouted = {} /\ Sound' => \A m \in Message : AbsState(m)' = Place(m)'
<1>1. (Misrouted = {} /\ Sound)' => (\A m \in Message : AbsState(m) = Place(m))'
  BY Placed, PTL
<1> QED BY <1>1

\* A step the abstract queue does not see, of a job and of all of them.
Stays(m) ==
    /\ fate'[m] = fate[m] \/ {fate[m], fate'[m]} \subseteq {"new", "writing"}
    /\ fails'[m] = fails[m]
    /\ sched'[m] = "out" <=> sched[m] = "out"

LEMMA Unseen ==
    ASSUME Misrouted = {}, Sound, Sound', \A m \in Message : Stays(m)
    PROVE  UNCHANGED Abstract!absVars
<1>1. \A m \in Message : AbsState(m)' = AbsState(m)
  BY Placed, PlacedNext DEF Stays, Place, Over
<1>2. fails' = fails
  <2>1. fails \in [Message -> 0 .. MaxAttempts] /\ fails' \in [Message -> 0 .. MaxAttempts]
    BY DEF Sound, BaseInv, TypeOK
  <2>2. \A m \in Message : fails'[m] = fails[m]
    BY DEF Stays
  <2> QED BY <2>1, <2>2
<1> QED BY <1>1, <1>2 DEF Abstract!absVars

\* A step of one job, as the abstract queue makes it.
LEMMA Seen ==
    ASSUME Misrouted = {}, Sound, Sound', NEW m \in Message, NEW from, NEW to,
           Place(m) = from, Place(m)' = to,
           \A n \in Message : n # m => Stays(n)
    PROVE  /\ Abstract!Move(m, from, to)
           /\ fails' = [fails EXCEPT ![m] = fails'[m]]
<1>1. \A n \in Message : n # m => AbsState(n)' = AbsState(n)
  BY Placed, PlacedNext DEF Stays, Place, Over
<1>2. AbsState(m) = Place(m) /\ AbsState(m)' = Place(m)'
  BY Placed, PlacedNext
<1>3. fails' = [fails EXCEPT ![m] = fails'[m]]
  <2>1. fails \in [Message -> 0 .. MaxAttempts] /\ fails' \in [Message -> 0 .. MaxAttempts]
    BY DEF Sound, BaseInv, TypeOK
  <2>2. \A n \in Message : n # m => fails'[n] = fails[n]
    BY DEF Stays
  <2> QED BY <2>1, <2>2
<1> QED BY <1>1, <1>2, <1>3 DEF Abstract!Move

LEMMA WrapperRefines ==
    ASSUME Misrouted = {}, Sound, Sound', NEW s \in Slot, WrapperStep(s)
    PROVE  [Abstract!AbsNext]_(Abstract!absVars)
<1>1. /\ TypeOK /\ TypeOK' /\ SlotInv(s) /\ SlotAccount(s)
      /\ \A m \in Message : JobAccount(m)
      /\ cur[s] \in Message \union {None} /\ next[s] \in Message \union {None}
  BY DEF Sound, BaseInv, Accounted, TypeOK
<1>2. \A m \in Message : Owns(s, m) => sched[m] = "out"
  BY DEF Sound, Exclusive
<1>3. ASSUME cur[s] \in Message, pc[s] \in Working
      PROVE  fate[cur[s]] = "queued" /\ sched[cur[s]] = "out" /\ Place(cur[s]) = "held"
  BY <1>1, <1>2, <1>3 DEF SlotAccount, Works, Owns, Place, Over
<1>4. ASSUME \A m \in Message : Stays(m) PROVE [Abstract!AbsNext]_(Abstract!absVars)
  BY <1>4, Unseen DEF Sound
<1>5. CASE Send(s) \/ DeleteHash(s) \/ Redirect(s)
  <2>1. UNCHANGED <<fate, fails, sched>>
    BY <1>5 DEF Send, DeleteHash, Redirect, redis, ghost
  <2> QED BY <1>4, <2>1 DEF Stays
<1>6. CASE Arrive(s)
  <2> DEFINE m == cur[s]
  <2>1. /\ pc[s] = "sent" /\ m \in Message /\ UNCHANGED <<sched, fails>>
        /\ fate' = IF pc'[s] = "drop" THEN [fate EXCEPT ![m] = "done"] ELSE fate
    BY <1>1, <1>6 DEF Arrive, redis, SlotInv
  <2>2. CASE pc'[s] = "drop"
    <3>1. \A n \in Message : fate'[n] = IF n = m THEN "done" ELSE fate[n]
      BY <1>1, <2>1, <2>2 DEF TypeOK
    <3>2. \A n \in Message : n # m => Stays(n)
      BY <2>1, <3>1 DEF Stays
    <3>3. \A n \in Message : n = m => Place(n)' = "done" /\ Place(n) = "held"
      BY <1>3, <2>1, <3>1 DEF Place, Over, Working
    <3>4. Abstract!Complete(m)
      <4>1. \A n \in Message : n = m => Abstract!Move(n, "held", "done")
        BY <3>2, <3>3, Seen
      <4> QED BY <2>1, <4>1 DEF Abstract!Complete
    <3> QED BY <2>1, <3>4 DEF Abstract!AbsNext
  <2>3. CASE pc'[s] # "drop"
    BY <1>4, <2>1, <2>3 DEF Stays
  <2> QED BY <2>2, <2>3
<1>7. CASE HandlerReturns(s)
  <2> DEFINE m == cur[s]
  <2>1. /\ pc[s] = "running" /\ UNCHANGED <<sched, fails>>
        /\ fate' = IF m = None THEN fate ELSE [fate EXCEPT ![m] = "done"]
    BY <1>7 DEF HandlerReturns, redis
  <2>2. CASE m # None
    <3>1. \A n \in Message : fate'[n] = IF n = m THEN "done" ELSE fate[n]
      BY <1>1, <2>1, <2>2 DEF TypeOK
    <3>2. \A n \in Message : n # m => Stays(n)
      BY <2>1, <3>1 DEF Stays
    <3>3. \A n \in Message : n = m => Place(n)' = "done" /\ Place(n) = "held"
      BY <1>3, <2>1, <3>1 DEF Place, Over, Working
    <3>4. Abstract!Complete(m)
      <4>1. \A n \in Message : n = m => Abstract!Move(n, "held", "done")
        BY <3>2, <3>3, Seen
      <4> QED BY <1>1, <2>1, <2>2, <4>1 DEF Abstract!Complete
    <3> QED BY <1>1, <2>2, <3>4 DEF Abstract!AbsNext
  <2>3. CASE m = None
    BY <1>4, <2>1, <2>3 DEF Stays
  <2> QED BY <2>2, <2>3
<1>8. ASSUME pc[s] \in Working, UNCHANGED <<fate, fails>>,
             IF cur[s] = None THEN UNCHANGED sched
                              ELSE sched' = [sched EXCEPT ![cur[s]] = "later"]
      PROVE  [Abstract!AbsNext]_(Abstract!absVars)
  <2> DEFINE m == cur[s]
  <2>1. CASE m = None
    BY <1>4, <1>8, <2>1 DEF Stays
  <2>2. CASE m # None
    <3>1. \A n \in Message : sched'[n] = IF n = m THEN "later" ELSE sched[n]
      BY <1>1, <1>8, <2>2 DEF TypeOK
    <3>2. \A n \in Message : n # m => Stays(n)
      BY <1>8, <3>1 DEF Stays
    <3>3. \A n \in Message : n = m => Place(n)' = "ready" /\ Place(n) = "held"
      BY <1>3, <1>8, <3>1 DEF Place, Over
    <3>4. Abstract!Return(m)
      <4>1. \A n \in Message : n = m => Abstract!Move(n, "held", "ready")
        BY <3>2, <3>3, Seen
      <4> QED BY <1>1, <1>8, <2>2, <4>1 DEF Abstract!Return
    <3> QED BY <1>1, <2>2, <3>4 DEF Abstract!AbsNext
  <2> QED BY <2>1, <2>2
<1>9. CASE HandlerSleeps(s)
  BY <1>8, <1>9 DEF HandlerSleeps, Defer, ghost, Working
<1>10. CASE Reschedule(s)
  BY <1>1, <1>8, <1>10 DEF Reschedule, Defer, ghost, Working, SlotInv
<1>11. CASE HandlerThrows(s)
  <2> DEFINE m == cur[s]
  <2>1. pc[s] = "running" /\ UNCHANGED sched
    BY <1>11 DEF HandlerThrows
  <2>2. CASE m = None
    <3>1. UNCHANGED <<fate, fails>>
      BY <1>11, <2>2 DEF HandlerThrows, ghost
    <3> QED BY <1>4, <2>1, <3>1 DEF Stays
  <2>3. CASE m # None
    <3>1. /\ m \in Message /\ fate[m] = "queued" /\ sched[m] = "out" /\ Place(m) = "held"
          /\ seen[s] = fails[m] + 1 /\ seen[s] \in 0 .. MaxAttempts /\ fails[m] \in Nat
      BY <1>1, <1>3, <2>1, <2>3, QueueAssumption DEF SlotAccount, TypeOK, Working
    <3>2. fails[m] < MaxAttempts
      BY <3>1, QueueAssumption
    <3>3. \A n \in Message : fails'[n] = IF n = m THEN fails[m] + 1 ELSE fails[n]
      <4>1. fails' = [fails EXCEPT ![m] = IF @ < MaxAttempts THEN @ + 1 ELSE @]
        BY <1>11, <2>3 DEF HandlerThrows
      <4> QED BY <1>1, <3>2, <4>1 DEF TypeOK
    <3>4. CASE UNCHANGED fate
      <4>1. fails[m] + 1 < MaxAttempts
        <5>1. fate[m] # "dropped"
          BY <3>1
        <5>2. ~(seen[s] + 1 > MaxAttempts)
          <6> SUFFICES ASSUME seen[s] + 1 > MaxAttempts PROVE FALSE
            OBVIOUS
          <6>1. ~(seen[s] + 1 <= MaxAttempts)
            BY <3>1, QueueAssumption
          <6>2. fate' = [fate EXCEPT ![m] = "dropped"]
            BY <1>11, <2>3, <6>1 DEF HandlerThrows
          <6> QED BY <1>1, <3>1, <3>4, <5>1, <6>2 DEF TypeOK
        <5> QED BY <3>1, <5>2, QueueAssumption
      <4>2. \A n \in Message : n # m => Stays(n)
        BY <2>1, <3>3, <3>4 DEF Stays
      <4>3. \A n \in Message : n = m => Place(n)' = "held" /\ Place(n) = "held"
        BY <2>1, <3>1, <3>4 DEF Place, Over
      <4>4. \A n \in Message : n = m => /\ Abstract!Move(n, "held", "held")
                                        /\ fails' = [fails EXCEPT ![n] = fails'[n]]
        BY <4>2, <4>3, Seen
      <4>5. \A n \in Message : n = m =>
              /\ Abstract!Move(n, "held", "held")
              /\ fails' = [fails EXCEPT ![n] = fails[n] + 1]
        BY <3>1, <3>3, <4>4
      <4>6. Abstract!Fail(m)
        <5>1. Abstract!Move(m, "held", "held") /\ fails' = [fails EXCEPT ![m] = fails[m] + 1]
          BY <3>1, <4>5
        <5>2. [n \in Message |-> AbsState(n)][m] = "held"
              /\ [n \in Message |-> AbsState(n)]'
                   = [[n \in Message |-> AbsState(n)] EXCEPT ![m] = "held"]
          BY <5>1 DEF Abstract!Move
        <5>3. [n \in Message |-> AbsState(n)]' = [n \in Message |-> AbsState(n)]
          BY <5>2
        <5> QED BY <4>1, <5>1, <5>2, <5>3 DEF Abstract!Fail
      <4> QED BY <3>1, <4>6 DEF Abstract!AbsNext
    <3>5. CASE fate' # fate
      <4>1. seen[s] + 1 > MaxAttempts /\ fate' = [fate EXCEPT ![m] = "dropped"]
        BY <1>11, <2>3, <3>5 DEF HandlerThrows
      <4>2. fails[m] + 1 = MaxAttempts
        BY <3>1, <3>2, <4>1, QueueAssumption
      <4>3. \A n \in Message : fate'[n] = IF n = m THEN "dropped" ELSE fate[n]
        BY <1>1, <4>1 DEF TypeOK
      <4>4. \A n \in Message : n # m => Stays(n)
        BY <2>1, <3>3, <4>3 DEF Stays
      <4>5. \A n \in Message : n = m => Place(n)' = "dropped" /\ Place(n) = "held"
        BY <2>1, <3>1, <4>3 DEF Place, Over
      <4>6. \A n \in Message : n = m => /\ Abstract!Move(n, "held", "dropped")
                                        /\ fails' = [fails EXCEPT ![n] = fails'[n]]
        BY <4>4, <4>5, Seen
      <4>7. \A n \in Message : n = m => fails'[n] = MaxAttempts
        BY <3>3, <4>2
      <4>8. Abstract!Drop(m)
        BY <3>1, <4>2, <4>6, <4>7 DEF Abstract!Drop
      <4> QED BY <3>1, <4>8 DEF Abstract!AbsNext
    <3> QED BY <3>4, <3>5
  <2> QED BY <2>2, <2>3
<1>12. CASE DeleteEntry(s)
  <2>1. UNCHANGED <<fate, fails>> /\ \A n \in Message : sched'[n] = sched[n]
    BY <1>1, <1>2, <1>12 DEF DeleteEntry, ghost, TypeOK, Owns
  <2> QED BY <1>4, <2>1 DEF Stays
<1>13. CASE PromoteRest(s)
  <2>1. PICK m \in rest[s] : sched' = [sched EXCEPT ![m] = "due"]
    BY <1>13 DEF PromoteRest
  <2>2. m \in Message /\ sched[m] = "grace"
    <3>1. m \in Message /\ Records(s, m)
      BY <1>1, <2>1 DEF TypeOK, Records
    <3> QED BY <3>1 DEF Sound, Exclusive
  <2>3. UNCHANGED <<fate, fails>> /\ \A n \in Message : sched'[n] = "out" <=> sched[n] = "out"
    BY <1>1, <1>13, <2>1, <2>2 DEF PromoteRest, ghost, TypeOK
  <2> QED BY <1>4, <2>3 DEF Stays
<1>14. CASE ClaimNext(s)
  <2> DEFINE m == next[s]
  <2>1. /\ pc[s] = "promote" /\ m \in Message /\ UNCHANGED <<fate, fails, next>>
        /\ \A n \in Message : sched'[n] = IF n = m THEN "out" ELSE sched[n]
    BY <1>1, <1>14 DEF ClaimNext, ghost, TypeOK
  <2>2. sched[m] = "grace" /\ fate[m] = "queued"
    <3>1. Records(s, m)
      BY <2>1 DEF Records
    <3>2. sched[m] = "grace"
      BY <2>1, <3>1 DEF Sound, Exclusive
    <3> QED BY <1>1, <2>1, <3>2 DEF JobAccount
  <2>3. \A n \in Message : n # m => Stays(n)
    BY <2>1 DEF Stays
  <2>4. \A n \in Message : n = m => Place(n)' = "held" /\ Place(n) = "ready"
    BY <2>1, <2>2 DEF Place, Over
  <2>5. Abstract!Take(m)
    <3>1. \A n \in Message : n = m => Abstract!Move(n, "ready", "held")
      BY <2>3, <2>4, Seen
    <3> QED BY <2>1, <3>1 DEF Abstract!Take
  <2> QED BY <2>1, <2>5 DEF Abstract!AbsNext
<1>15. CASE FinishChain(s)
  <2>1. /\ pc[s] = "promote" /\ UNCHANGED <<fate, fails>>
        /\ sched' = IF next[s] = None THEN sched ELSE [sched EXCEPT ![next[s]] = "due"]
    BY <1>15 DEF FinishChain, ghost
  <2>2. next[s] # None => sched[next[s]] = "grace"
    BY <1>1, <2>1 DEF Sound, Exclusive, Records
  <2>3. \A n \in Message : sched'[n] = "out" <=> sched[n] = "out"
    BY <1>1, <2>1, <2>2 DEF TypeOK
  <2> QED BY <1>4, <2>1, <2>3 DEF Stays
<1> QED BY <1>5, <1>6, <1>7, <1>9, <1>10, <1>11, <1>12, <1>13, <1>14, <1>15
        DEF WrapperStep, HandlerEnds

LEMMA QueueRefines ==
    ASSUME Misrouted = {}, Quiet, Sound, Sound', [Next]_vars
    PROVE  [Abstract!AbsNext]_(Abstract!absVars)
<1>1. /\ TypeOK /\ \A m \in Message : JobAccount(m) /\ MessageInv(m)
      /\ \A s \in Slot : SlotAccount(s)
  BY DEF Sound, BaseInv, Accounted
<1>2. ASSUME \A m \in Message : Stays(m) PROVE [Abstract!AbsNext]_(Abstract!absVars)
  BY <1>2, Unseen
<1>3. CASE UNCHANGED vars
  BY <1>2, <1>3 DEF vars, Stays
<1>4. ASSUME NEW s \in Slot, ArriveDirect(s) PROVE [Abstract!AbsNext]_(Abstract!absVars)
  BY <1>2, <1>4 DEF ArriveDirect, redis, ghost, Stays
<1>5. ASSUME NEW s \in Slot, ClientStep(s) PROVE FALSE
  BY <1>1, <1>5 DEF SlotAccount, ClientStep, ClientBump, ClientRequeue, ClientDrop, ClientDropEntry
<1>6. ASSUME NEW h \in Host, ReadDue(h) PROVE [Abstract!AbsNext]_(Abstract!absVars)
  BY <1>2, <1>6 DEF ReadDue, redis, ghost, Stays
<1>7. ASSUME NEW h \in Host, NEW m \in Message, Claim(h, m)
      PROVE  [Abstract!AbsNext]_(Abstract!absVars)
  <2>1. UNCHANGED <<fate, fails>>
    BY <1>7 DEF Claim, ghost
  <2>2. CASE UNCHANGED sched
    BY <1>2, <2>1, <2>2 DEF Stays
  <2>3. CASE sched' # sched
    <3>1. sched' = [sched EXCEPT ![m] = "out"] /\ sched[m] # "out"
      BY <1>7, <2>3 DEF Claim, ZremWins, Scheduled
    <3>2. \A n \in Message : sched'[n] = IF n = m THEN "out" ELSE sched[n]
      BY <1>1, <3>1 DEF TypeOK
    <3>3. \A n \in Message : n # m => Stays(n)
      BY <2>1, <3>2 DEF Stays
    <3>4. Place(m)' = "held" /\ Place(m) = "ready"
      BY <1>1, <2>1, <3>1, <3>2 DEF JobAccount, Place, Over
    <3>5. Abstract!Take(m)
      BY <2>1, <3>3, <3>4, Seen DEF Abstract!Take
    <3> QED BY <3>5 DEF Abstract!AbsNext
  <2> QED BY <2>2, <2>3
<1>8. ASSUME NEW m \in Message, TimePasses(m) PROVE [Abstract!AbsNext]_(Abstract!absVars)
  <2>1. /\ UNCHANGED <<fate, fails>>
        /\ \A n \in Message : sched'[n] = "out" <=> sched[n] = "out"
    BY <1>1, <1>8 DEF TimePasses, ghost, TypeOK
  <2> QED BY <1>2, <2>1 DEF Stays
<1>9. ASSUME NEW m \in Message, ScheduleJob(m) PROVE [Abstract!AbsNext]_(Abstract!absVars)
  <2>1. fate[m] = "writing"
    BY <1>1, <1>9 DEF ScheduleJob, MessageInv
  <2>2. /\ fate'[m] = "queued" /\ sched'[m] # "out" /\ UNCHANGED fails
        /\ \A n \in Message : n # m => fate'[n] = fate[n] /\ sched'[n] = sched[n]
    BY <1>1, <1>9 DEF ScheduleJob, TypeOK, RunAt
  <2>3. \A n \in Message : n # m => Stays(n)
    BY <2>2 DEF Stays
  <2>4. Place(m)' = "ready" /\ Place(m) = "new"
    BY <2>1, <2>2 DEF Place, Over
  <2>5. Abstract!Put(m)
    BY <2>2, <2>3, <2>4, Seen DEF Abstract!Put
  <2> QED BY <2>5 DEF Abstract!AbsNext
<1>10. ASSUME NEW m \in Message, NEW by \in {"now", "delayed"} \union Slot, WriteJob(m, by)
       PROVE  [Abstract!AbsNext]_(Abstract!absVars)
  <2>1. /\ UNCHANGED <<sched, fails>> /\ fate[m] = "new" /\ fate'[m] = "writing"
        /\ \A n \in Message : n # m => fate'[n] = fate[n]
    BY <1>1, <1>10 DEF WriteJob, TypeOK
  <2>2. \A n \in Message : Stays(n)
    BY <2>1 DEF Stays
  <2> QED BY <1>2, <2>2
<1> QED BY <1>3, <1>4, <1>5, <1>6, <1>7, <1>8, <1>9, <1>10, WrapperRefines, QuietStep DEF Next, Sound

\* Under the same conditions the queue is the abstract one: a job put is, until it is
\* completed or has failed MaxAttempts times, ready or with exactly one worker.
THEOREM Refinement ==
    ASSUME MaxFaults = 0, MaxLate = 0, Misrouted = {}
    PROVE  Spec => ImplementsDurableQueue
<1>1. Init => Abstract!AbsInit
  BY DEF Init, Abstract!AbsInit, AbsState
<1>2. BaseInv /\ ExclusiveInv /\ AccountInv => Sound
  BY QuietExclusive DEF Quiet, Sound
<1>3. Sound /\ Sound' /\ [Next]_vars => [Abstract!AbsNext]_(Abstract!absVars)
  BY QueueRefines DEF Quiet
<1> QED BY <1>1, <1>2, <1>3, AccountAlways, PTL DEF Spec, ImplementsDurableQueue, Abstract!AbsSpec

----------------------------------------------------------------------------
(* One loss per fetch that fails or is cut off.                            *)

Missing == Lost \ Misrouted

\* A wrapper whose dispatcher has stopped waiting: its continuation has nobody
\* to follow the redirect, and will be lost.
Orphans == {s \in Slot : pc[s] # "idle" /\ client[s] # "open"}

\* Every fetch that failed or was cut off has lost a job, or left a wrapper alone
\* that may yet lose one.
LossInv ==
    /\ IsFiniteSet(Missing) /\ IsFiniteSet(Orphans)
    /\ Cardinality(Missing) + Cardinality(Orphans) <= faults

HeldBy(s, m) == Works(s, m) \/ (orig[s] = m /\ client[s] \in {"bump", "requeue"})

LEMMA HeldBySlots == \A m : Held(m) <=> \E s \in Slot : HeldBy(s, m)
BY DEF Held, HeldBy, Works, Working

\* What a step at s can lose is what s had.
LEMMA LossAt ==
    ASSUME BaseInv, NEW s \in Slot, OnlySlot(s), NEW m \in Missing', m \notin Missing
    PROVE  /\ m \in Message \ Misrouted
           /\ fate[m] = "queued" /\ fate'[m] = "queued" /\ sched'[m] = "out"
           /\ ~HeldBy(s, m)'
           /\ sched[m] # "out" \/ HeldBy(s, m)
<1>1. /\ m \in Message \ Misrouted /\ fate'[m] = "queued" /\ sched'[m] = "out" /\ ~Held(m)'
  BY DEF Missing, Lost, Scheduled
<1>2. fate[m] = "queued"
  BY <1>1 DEF OnlySlot, Over
<1>3. \A t \in Slot : ~HeldBy(t, m)'
  <2>1. Held(m)' <=> \E t \in Slot : HeldBy(t, m)'
    BY DEF Held, HeldBy, Works, Working
  <2> QED BY <1>1, <2>1
<1>4. sched[m] # "out" \/ \E t \in Slot : HeldBy(t, m)
  BY <1>1, <1>2, HeldBySlots DEF Missing, Lost, Scheduled
<1>5. ASSUME NEW t \in Slot, HeldBy(t, m) PROVE t = s
  BY <1>3, <1>5 DEF OnlySlot, SlotSpared, HeldBy, Works
<1> QED BY <1>1, <1>2, <1>3, <1>4, <1>5

LEMMA OrphanAt ==
    ASSUME NEW s \in Slot, OnlySlot(s), NEW t \in Orphans', t \notin Orphans
    PROVE  t = s /\ pc'[s] # "idle" /\ client'[s] # "open" /\ (pc[s] = "idle" \/ client[s] = "open")
BY DEF OnlySlot, SlotSpared, Orphans

\* What becomes of a count.
LEMMA NoMore ==
    ASSUME NEW S, IsFiniteSet(S), NEW T, T \subseteq S
    PROVE  /\ IsFiniteSet(T) /\ Cardinality(S) \in Nat /\ Cardinality(T) \in Nat
           /\ Cardinality(T) <= Cardinality(S)
BY FS_Subset, FS_CardinalityType

LEMMA OneMore ==
    ASSUME NEW S, IsFiniteSet(S), NEW T, NEW x, T \subseteq S \union {x}
    PROVE  /\ IsFiniteSet(T) /\ Cardinality(S) \in Nat /\ Cardinality(T) \in Nat
           /\ Cardinality(T) <= Cardinality(S) + 1
<1>1. /\ IsFiniteSet(S \union {x}) /\ Cardinality(S) \in Nat
      /\ Cardinality(S \union {x}) = IF x \in S THEN Cardinality(S) ELSE Cardinality(S) + 1
  BY FS_AddElement, FS_CardinalityType
<1>2. /\ IsFiniteSet(T) /\ Cardinality(T) \in Nat
      /\ Cardinality(T) <= Cardinality(S \union {x})
  BY <1>1, NoMore
<1>3. Cardinality(S \union {x}) <= Cardinality(S) + 1
  BY <1>1
<1> QED BY <1>1, <1>2, <1>3

LEMMA OneLess ==
    ASSUME NEW S, IsFiniteSet(S), NEW T, NEW x \in S, T \subseteq S \ {x}
    PROVE  /\ IsFiniteSet(T) /\ Cardinality(S) \in Nat /\ Cardinality(T) \in Nat
           /\ Cardinality(T) + 1 <= Cardinality(S)
<1>1. /\ IsFiniteSet(S \ {x}) /\ Cardinality(S) \in Nat
      /\ Cardinality(S \ {x}) = Cardinality(S) - 1
  BY FS_RemoveElement, FS_CardinalityType
<1>2. /\ IsFiniteSet(T) /\ Cardinality(T) \in Nat
      /\ Cardinality(T) <= Cardinality(S \ {x})
  BY <1>1, NoMore
<1> QED BY <1>1, <1>2

\* The four ways a step may go.
LEMMA NothingLost ==
    ASSUME LossInv, Missing' \subseteq Missing, Orphans' \subseteq Orphans,
           faults <= faults', faults \in Nat, faults' \in Nat
    PROVE  LossInv'
<1>1. /\ IsFiniteSet(Missing') /\ Cardinality(Missing') <= Cardinality(Missing)
      /\ Cardinality(Missing) \in Nat /\ Cardinality(Missing') \in Nat
  BY NoMore DEF LossInv
<1>2. /\ IsFiniteSet(Orphans') /\ Cardinality(Orphans') <= Cardinality(Orphans)
      /\ Cardinality(Orphans) \in Nat /\ Cardinality(Orphans') \in Nat
  BY NoMore DEF LossInv
<1>3. Cardinality(Missing') + Cardinality(Orphans') <= faults'
  <2>1. Cardinality(Missing) + Cardinality(Orphans) <= faults
    BY DEF LossInv
  <2> QED BY <1>1, <1>2, <2>1
<1> QED BY <1>1, <1>2, <1>3, Zenon DEF LossInv

LEMMA OneLost ==
    ASSUME LossInv, NEW m, Missing' \subseteq Missing \union {m}, Orphans' \subseteq Orphans,
           faults + 1 <= faults', faults \in Nat, faults' \in Nat
    PROVE  LossInv'
<1>1. /\ IsFiniteSet(Missing') /\ Cardinality(Missing') <= Cardinality(Missing) + 1
      /\ Cardinality(Missing) \in Nat /\ Cardinality(Missing') \in Nat
  BY OneMore DEF LossInv
<1>2. /\ IsFiniteSet(Orphans') /\ Cardinality(Orphans') <= Cardinality(Orphans)
      /\ Cardinality(Orphans) \in Nat /\ Cardinality(Orphans') \in Nat
  BY NoMore DEF LossInv
<1>3. Cardinality(Missing') + Cardinality(Orphans') <= faults'
  <2>1. Cardinality(Missing) + Cardinality(Orphans) <= faults
    BY DEF LossInv
  <2> QED BY <1>1, <1>2, <2>1
<1> QED BY <1>1, <1>2, <1>3, Zenon DEF LossInv

LEMMA OneOrphaned ==
    ASSUME LossInv, NEW s, Missing' \subseteq Missing, Orphans' \subseteq Orphans \union {s},
           faults + 1 <= faults', faults \in Nat, faults' \in Nat
    PROVE  LossInv'
<1>1. /\ IsFiniteSet(Missing') /\ Cardinality(Missing') <= Cardinality(Missing)
      /\ Cardinality(Missing) \in Nat /\ Cardinality(Missing') \in Nat
  BY NoMore DEF LossInv
<1>2. /\ IsFiniteSet(Orphans') /\ Cardinality(Orphans') <= Cardinality(Orphans) + 1
      /\ Cardinality(Orphans) \in Nat /\ Cardinality(Orphans') \in Nat
  BY OneMore DEF LossInv
<1>3. Cardinality(Missing') + Cardinality(Orphans') <= faults'
  <2>1. Cardinality(Missing) + Cardinality(Orphans) <= faults
    BY DEF LossInv
  <2> QED BY <1>1, <1>2, <2>1
<1> QED BY <1>1, <1>2, <1>3, Zenon DEF LossInv

LEMMA OrphanLoses ==
    ASSUME LossInv, NEW m, NEW s \in Orphans, Missing' \subseteq Missing \union {m},
           Orphans' \subseteq Orphans \ {s},
           faults <= faults', faults \in Nat, faults' \in Nat
    PROVE  LossInv'
<1>1. /\ IsFiniteSet(Missing') /\ Cardinality(Missing') <= Cardinality(Missing) + 1
      /\ Cardinality(Missing) \in Nat /\ Cardinality(Missing') \in Nat
  BY OneMore DEF LossInv
<1>2. /\ IsFiniteSet(Orphans') /\ Cardinality(Orphans') + 1 <= Cardinality(Orphans)
      /\ Cardinality(Orphans) \in Nat /\ Cardinality(Orphans') \in Nat
  BY OneLess DEF LossInv
<1>3. Cardinality(Missing') + Cardinality(Orphans') <= faults'
  <2>1. Cardinality(Missing) + Cardinality(Orphans) <= faults
    BY DEF LossInv
  <2> QED BY <1>1, <1>2, <2>1
<1> QED BY <1>1, <1>2, <1>3, Zenon DEF LossInv

LEMMA WrapperLoss ==
    ASSUME BaseInv, LossInv, NEW s \in Slot, WrapperStep(s)
    PROVE  LossInv'
<1>1. /\ TypeOK /\ SlotInv(s) /\ OnlySlot(s)
      /\ \A m \in Message : MessageInv(m)
      /\ cur[s] \in Message \union {None} /\ next[s] \in Message \union {None}
  BY WrapperSlot DEF BaseInv, TypeOK
<1>2. faults' = faults /\ faults \in Nat
  <2>1. UNCHANGED faults
    BY DEF WrapperStep, HandlerEnds, Send, Arrive, HandlerReturns, HandlerSleeps,
         HandlerThrows, Reschedule, DeleteHash, DeleteEntry, PromoteRest, ClaimNext,
         FinishChain, Redirect, bounds
  <2> QED BY <1>1, <2>1, QueueAssumption DEF TypeOK
<1>3. pc[s] # "idle" /\ (Respond(s) \/ UNCHANGED <<client, orig>>)
  BY DEF WrapperStep, HandlerEnds, Send, Arrive, HandlerReturns, HandlerSleeps,
       HandlerThrows, Reschedule, DeleteHash, DeleteEntry, PromoteRest, ClaimNext,
       FinishChain, Redirect, dispatcher
<1>4. Respond(s) => pc'[s] = "idle" /\ (client[s] # "open" => UNCHANGED <<client, orig>>)
  BY <1>1, RestSlot DEF Respond
<1>5. Orphans' \subseteq Orphans
  <2> SUFFICES ASSUME NEW t \in Orphans', t \notin Orphans PROVE FALSE
    OBVIOUS
  <2> QED BY <1>1, <1>3, <1>4, OrphanAt
<1>6. ASSUME NEW m \in Missing', m \notin Missing
      PROVE  /\ m \in Message \ Misrouted
             /\ fate[m] = "queued" /\ fate'[m] = "queued" /\ sched'[m] = "out" /\ hash[m] = "full"
             /\ ~Works(s, m)' /\ (sched[m] # "out" \/ Works(s, m))
  <2>1. /\ m \in Message \ Misrouted
        /\ fate[m] = "queued" /\ fate'[m] = "queued" /\ sched'[m] = "out"
        /\ ~HeldBy(s, m)' /\ (sched[m] # "out" \/ HeldBy(s, m))
    BY <1>1, <1>6, LossAt
  <2>2. orig[s] = m /\ client[s] \in {"bump", "requeue"} => HeldBy(s, m)'
    BY <1>3, <1>4 DEF HeldBy
  <2> QED BY <1>1, <2>1, <2>2 DEF HeldBy, MessageInv
<1>7. ASSUME Missing' \subseteq Missing PROVE LossInv'
  BY <1>2, <1>5, <1>7, NothingLost
<1>8. CASE ~Redirect(s)
  <2> SUFFICES ASSUME NEW m \in Missing', m \notin Missing PROVE FALSE
    BY <1>7
  <2>1. /\ m \in Message \ Misrouted
        /\ fate[m] = "queued" /\ fate'[m] = "queued" /\ sched'[m] = "out" /\ hash[m] = "full"
        /\ ~Works(s, m)' /\ (sched[m] # "out" \/ Works(s, m))
    BY <1>6
  <2>2. CASE Send(s)
    <3>1. Works(s, m) /\ pc[s] = "claimed"
      BY <2>1, <2>2 DEF Send, redis
    <3>2. cur[s] = m
      BY <3>1 DEF Works
    <3>3. pc'[s] = "sent" /\ cur' = cur
      BY <1>1, <2>1, <2>2, <3>2 DEF Send, TypeOK
    <3> QED BY <2>1, <3>2, <3>3 DEF Works, Working
  <2>3. CASE Arrive(s)
    <3>1. Works(s, m) /\ pc[s] = "sent"
      BY <2>1, <2>3 DEF Arrive, redis
    <3>2. cur[s] = m
      BY <3>1 DEF Works
    <3>3. cur' = cur /\ pc' = [pc EXCEPT ![s] = IF m \in HealthCheck THEN "drop" ELSE "running"]
      BY <2>1, <2>3, <3>2 DEF Arrive
    <3>4. m \in HealthCheck
      BY <1>1, <2>1, <3>2, <3>3 DEF Works, Working, TypeOK
    <3>5. fate' = [fate EXCEPT ![m] = "done"]
      BY <1>1, <2>3, <3>2, <3>3, <3>4 DEF Arrive, TypeOK
    <3> QED BY <1>1, <2>1, <3>5 DEF TypeOK
  <2>4. CASE HandlerReturns(s)
    <3>1. Works(s, m) /\ pc[s] = "running"
      BY <2>1, <2>4 DEF HandlerReturns, redis
    <3>2. cur[s] = m
      BY <3>1 DEF Works
    <3>3. fate' = [fate EXCEPT ![m] = "done"]
      BY <2>1, <2>4, <3>2, QueueAssumption DEF HandlerReturns
    <3> QED BY <1>1, <2>1, <3>3 DEF TypeOK
  <2>5. ASSUME pc[s] \in {"running", "resched"},
               IF cur[s] = None THEN UNCHANGED sched
                                ELSE sched' = [sched EXCEPT ![cur[s]] = "later"]
        PROVE  FALSE
    <3>1. Works(s, m)
      BY <1>1, <2>1, <2>5 DEF TypeOK
    <3>2. cur[s] = m
      BY <2>5, <3>1 DEF Works
    <3> QED BY <1>1, <2>1, <2>5, <3>2, QueueAssumption DEF TypeOK
  <2>6. CASE HandlerSleeps(s)
    BY <2>5, <2>6 DEF HandlerSleeps, Defer
  <2>7. CASE Reschedule(s)
    BY <1>1, <2>5, <2>7 DEF Reschedule, Defer, SlotInv
  <2>8. CASE HandlerThrows(s)
    <3>1. Works(s, m) /\ pc[s] = "running"
      BY <2>1, <2>8 DEF HandlerThrows
    <3>2. cur[s] = m /\ m # None
      BY <2>1, <3>1, QueueAssumption DEF Works
    <3>3. \/ pc' = [pc EXCEPT ![s] = "resched"] /\ cur' = cur
          \/ fate' = [fate EXCEPT ![m] = "dropped"]
      BY <2>8, <3>2 DEF HandlerThrows
    <3> QED BY <1>1, <2>1, <3>2, <3>3 DEF Works, Working, TypeOK
  <2>9. CASE DeleteHash(s)
    <3>1. Works(s, m) /\ pc[s] \in {"del", "drop"}
      BY <2>1, <2>9 DEF DeleteHash
    <3> QED BY <3>1 DEF Works, Working
  <2>10. CASE DeleteEntry(s)
    <3>1. pc[s] \in {"zrem", "dropzrem"} /\ cur[s] # m
      BY <1>1, <2>1, <2>10 DEF DeleteEntry, SlotInv, Over
    <3>2. sched'[m] = sched[m]
      BY <1>1, <2>1, <2>10, <3>1 DEF DeleteEntry, TypeOK
    <3> QED BY <2>1, <3>1, <3>2 DEF Works, Working
  <2>11. CASE PromoteRest(s)
    <3>1. PICK n \in rest[s] : sched' = [sched EXCEPT ![n] = "due"]
      BY <2>11 DEF PromoteRest
    <3>2. sched'[m] = "due" \/ sched'[m] = sched[m]
      BY <1>1, <2>1, <3>1 DEF TypeOK
    <3>3. pc[s] = "promote"
      BY <2>11 DEF PromoteRest
    <3> QED BY <2>1, <3>2, <3>3 DEF Works, Working
  <2>12. CASE ClaimNext(s)
    <3>1. pc[s] = "promote" /\ pc'[s] = "redirect" /\ next' = next
          /\ sched' = [sched EXCEPT ![next[s]] = "out"]
      BY <1>1, <2>12 DEF ClaimNext, TypeOK
    <3>2. next[s] = m
      BY <1>1, <2>1, <3>1 DEF Works, Working, TypeOK
    <3> QED BY <2>1, <3>1, <3>2 DEF Works
  <2>13. CASE FinishChain(s)
    <3>1. pc[s] = "promote"
          /\ sched' = IF next[s] = None THEN sched ELSE [sched EXCEPT ![next[s]] = "due"]
      BY <2>13 DEF FinishChain
    <3>2. sched'[m] = "due" \/ sched'[m] = sched[m]
      BY <1>1, <2>1, <3>1 DEF TypeOK
    <3> QED BY <2>1, <3>1, <3>2 DEF Works, Working
  <2> QED BY <1>8, <2>2, <2>3, <2>4, <2>6, <2>7, <2>8, <2>9, <2>10, <2>11, <2>12, <2>13
          DEF WrapperStep, HandlerEnds
<1>9. CASE Redirect(s)
  <2>1. pc[s] = "redirect" /\ UNCHANGED sched
    BY <1>9 DEF Redirect, redis
  <2>2. \A m \in Missing' : m \in Missing \/ m = next[s]
    BY <1>6, <2>1 DEF Works, Working
  <2>3. CASE client[s] = "open"
    <3>1. pc'[s] = "sent" /\ cur'[s] = next[s]
      BY <1>1, <1>9, <2>3 DEF Redirect, TypeOK
    <3>2. Missing' \subseteq Missing
      <4> SUFFICES ASSUME NEW m \in Missing', m \notin Missing PROVE FALSE
        OBVIOUS
      <4> QED BY <1>6, <2>2, <3>1 DEF Works, Working
    <3> QED BY <1>7, <3>2
  <2>4. CASE client[s] # "open"
    <3>1. Respond(s)
      BY <1>9, <2>4 DEF Redirect
    <3>2. s \in Orphans
      BY <2>1, <2>4 DEF Orphans
    <3>3. s \notin Orphans'
      BY <1>4, <3>1 DEF Orphans
    <3>4. Missing' \subseteq Missing \union {next[s]} /\ Orphans' \subseteq Orphans \ {s}
      BY <1>5, <2>2, <3>3
    <3>5. faults <= faults' /\ faults' \in Nat
      BY <1>2
    <3> QED BY <1>2, <3>2, <3>4, <3>5, OrphanLoses
  <2> QED BY <2>3, <2>4
<1> QED BY <1>8, <1>9

LEMMA ClientLoss ==
    ASSUME BaseInv, LossInv, NEW s \in Slot, ClientStep(s) \/ ArriveDirect(s)
    PROVE  LossInv'
<1>1. /\ TypeOK /\ SlotInv(s) /\ OnlySlot(s)
      /\ cur[s] \in Message \union {None} /\ orig[s] \in Message \union {None}
  BY FaultSlot DEF BaseInv, TypeOK
<1>2. faults' = faults /\ faults \in Nat
  <2>1. UNCHANGED faults
    BY DEF ClientStep, ClientBump, ClientRequeue, ClientDrop, ClientDropEntry, ArriveDirect,
         bounds
  <2> QED BY <1>1, <2>1, QueueAssumption DEF TypeOK
<1>3. ASSUME Missing' \subseteq Missing, Orphans' \subseteq Orphans PROVE LossInv'
  BY <1>2, <1>3, NothingLost
<1>4. CASE ArriveDirect(s)
  <2>1. /\ pc[s] = "idle" /\ client[s] = "none" /\ client'[s] = "open" /\ UNCHANGED sched
    BY <1>1, <1>4 DEF ArriveDirect, FreeSlot, redis, TypeOK
  <2>2. \A m \in Message : ~HeldBy(s, m)
    BY <2>1 DEF HeldBy, Works, Working
  <2>3. Missing' \subseteq Missing
    BY <1>1, <2>1, <2>2, LossAt
  <2>4. Orphans' \subseteq Orphans
    BY <1>1, <2>1, OrphanAt
  <2> QED BY <1>3, <2>3, <2>4
<1>5. CASE ClientStep(s)
  <2>1. /\ UNCHANGED <<pc, cur, next>> /\ client[s] \in Catching
    BY <1>5 DEF ClientStep, ClientBump, ClientRequeue, ClientDrop, ClientDropEntry, wrapper,
         Catching
  <2>2. Orphans' \subseteq Orphans
    BY <1>1, <2>1, OrphanAt DEF Catching
  <2>3. ASSUME NEW m \in Missing', m \notin Missing PROVE FALSE
    <3>1. /\ m \in Message \ Misrouted
          /\ fate[m] = "queued" /\ fate'[m] = "queued" /\ sched'[m] = "out"
          /\ ~HeldBy(s, m)' /\ (sched[m] # "out" \/ HeldBy(s, m))
      BY <1>1, <2>3, LossAt
    <3>2. Works(s, m)' <=> Works(s, m)
      BY <2>1 DEF Works
    <3>3. CASE ClientBump(s)
      <4>1. UNCHANGED <<sched, orig>> /\ client'[s] = "requeue"
        BY <1>1, <3>3 DEF ClientBump, TypeOK
      <4> QED BY <3>1, <3>2, <4>1 DEF HeldBy
    <3>4. CASE ClientRequeue(s)
      <4>1. sched' = [sched EXCEPT ![orig[s]] = "later"]
        BY <3>4 DEF ClientRequeue, Defer
      <4> QED BY <1>1, <3>1, <3>2, <4>1 DEF HeldBy, TypeOK
    <3>5. CASE ClientDrop(s)
      <4>1. UNCHANGED sched /\ client[s] = "drop"
        BY <3>5 DEF ClientDrop
      <4> QED BY <3>1, <3>2, <4>1 DEF HeldBy
    <3>6. CASE ClientDropEntry(s)
      <4>1. sched' = [sched EXCEPT ![orig[s]] = "out"] /\ client[s] = "dropzrem"
        BY <3>6 DEF ClientDropEntry
      <4>2. m # orig[s]
        BY <1>1, <3>1, <4>1 DEF SlotInv, Over
      <4> QED BY <1>1, <3>1, <3>2, <4>1, <4>2 DEF HeldBy, TypeOK
    <3> QED BY <1>5, <3>3, <3>4, <3>5, <3>6 DEF ClientStep
  <2> QED BY <1>3, <2>2, <2>3
<1> QED BY <1>4, <1>5

\* A failed fetch loses the job the request was for, or leaves its wrapper alone.
LEMMA NetErrorLoss ==
    ASSUME BaseInv, LossInv, NEW s \in Slot, NetError(s)
    PROVE  LossInv'
<1>1. /\ TypeOK /\ SlotInv(s) /\ OnlySlot(s)
  BY FaultSlot DEF BaseInv
<1>2. faults' = faults + 1 /\ faults \in Nat /\ faults' \in Nat
  <2>1. faults' = faults + 1
    BY DEF NetError
  <2> QED BY <1>1, <2>1, QueueAssumption DEF TypeOK
<1>3. ASSUME NEW m \in Missing', m \notin Missing
      PROVE  ~Works(s, m)' /\ Works(s, m)
  <2>1. ~HeldBy(s, m)' /\ (sched[m] # "out" \/ HeldBy(s, m)) /\ sched'[m] = "out"
    BY <1>1, <1>3, LossAt
  <2>2. UNCHANGED sched /\ client[s] = "open"
    BY DEF NetError, redis
  <2> QED BY <2>1, <2>2 DEF HeldBy
<1>4. CASE pc[s] = "sent" /\ Rest(s)
  <2>1. pc'[s] = "idle"
    BY <1>1, <1>4, RestSlot
  <2>2. Orphans' \subseteq Orphans
    BY <1>1, <2>1, OrphanAt
  <2>3. Missing' \subseteq Missing \union {cur[s]}
    BY <1>3, <1>4 DEF Works
  <2> QED BY <1>2, <2>2, <2>3, OneLost
<1>5. CASE UNCHANGED wrapper
  <2>1. Missing' \subseteq Missing
    BY <1>3, <1>5 DEF Works, wrapper
  <2>2. Orphans' \subseteq Orphans \union {s}
    BY <1>1, OrphanAt
  <2> QED BY <1>2, <2>1, <2>2, OneOrphaned
<1> QED BY <1>4, <1>5 DEF NetError

\* A process that dies takes one job with it for each fetch it had a part in, and
\* two only where a fetch that failed before had left the wrapper alone.
LEMMA ImageBound ==
    ASSUME NEW S, IsFiniteSet(S), NEW f
    PROVE  /\ IsFiniteSet({f[x] : x \in S}) /\ Cardinality({f[x] : x \in S}) \in Nat
           /\ Cardinality({f[x] : x \in S}) <= Cardinality(S)
<1> DEFINE T == {f[x] : x \in S}
           g == [x \in S |-> f[x]]
<1>1. g \in Surjection(S, T)
  BY DEF Surjection
<1> QED BY <1>1, FS_Surjection, FS_CardinalityType

LEMMA UnionBound ==
    ASSUME NEW S, NEW T, IsFiniteSet(S), IsFiniteSet(T)
    PROVE  /\ IsFiniteSet(S \union T) /\ Cardinality(S \union T) \in Nat
           /\ Cardinality(S \union T) <= Cardinality(S) + Cardinality(T)
<1>1. /\ IsFiniteSet(S \union T) /\ IsFiniteSet(S \intersect T)
      /\ Cardinality(S \union T) = Cardinality(S) + Cardinality(T) - Cardinality(S \intersect T)
  BY FS_Union, FS_Intersection
<1> QED BY <1>1, FS_CardinalityType

LEMMA CutMissing ==
    ASSUME NEW M, IsFiniteSet(M), NEW F, IsFiniteSet(F), NEW G, IsFiniteSet(G),
           NEW N, N \subseteq M \union F \union G
    PROVE  /\ IsFiniteSet(N) /\ Cardinality(N) \in Nat
           /\ Cardinality(N) <= Cardinality(M) + Cardinality(F) + Cardinality(G)
<1>1. /\ IsFiniteSet(M \union F) /\ Cardinality(M \union F) \in Nat
      /\ Cardinality(M \union F) <= Cardinality(M) + Cardinality(F)
  BY UnionBound
<1>2. /\ IsFiniteSet((M \union F) \union G) /\ Cardinality((M \union F) \union G) \in Nat
      /\ Cardinality((M \union F) \union G) <= Cardinality(M \union F) + Cardinality(G)
  BY <1>1, UnionBound
<1>3. N \in SUBSET ((M \union F) \union G)
  OBVIOUS
<1>4. /\ IsFiniteSet(N) /\ Cardinality(N) \in Nat
      /\ Cardinality(N) <= Cardinality((M \union F) \union G)
  BY <1>2, <1>3, FS_Subset, FS_CardinalityType
<1>5. Cardinality(M) \in Nat /\ Cardinality(F) \in Nat /\ Cardinality(G) \in Nat
  BY FS_CardinalityType
<1> QED BY <1>1, <1>2, <1>4, <1>5

LEMMA CutOrphans ==
    ASSUME NEW O, IsFiniteSet(O), NEW R, R \subseteq O, NEW C, IsFiniteSet(C),
           NEW Q, Q \subseteq (O \ R) \union C
    PROVE  /\ IsFiniteSet(Q) /\ Cardinality(Q) \in Nat
           /\ Cardinality(Q) <= Cardinality(O) - Cardinality(R) + Cardinality(C)
<1>1. O \intersect R = R
  OBVIOUS
<1>2. IsFiniteSet(O \ R) /\ Cardinality(O \ R) = Cardinality(O) - Cardinality(O \intersect R)
  BY FS_Difference
<1>3. /\ Cardinality(O \ R) \in Nat /\ Cardinality(C) \in Nat
      /\ Cardinality(O \ R) = Cardinality(O) - Cardinality(R)
  BY <1>1, <1>2, FS_CardinalityType
<1>4. /\ IsFiniteSet((O \ R) \union C) /\ Cardinality((O \ R) \union C) \in Nat
      /\ Cardinality((O \ R) \union C) <= Cardinality(O \ R) + Cardinality(C)
  BY <1>2, UnionBound
<1>5. /\ IsFiniteSet(Q) /\ Cardinality(Q) \in Nat
      /\ Cardinality(Q) <= Cardinality((O \ R) \union C)
  BY <1>4, FS_Subset, FS_CardinalityType
<1> QED BY <1>3, <1>4, <1>5

LEMMA CutFetches ==
    ASSUME NEW X, IsFiniteSet(X), NEW A, A \subseteq X, NEW B, B \subseteq X,
           NEW C, C \subseteq X, \A x \in C : x \notin A /\ x \notin B
    PROVE  /\ IsFiniteSet(A) /\ IsFiniteSet(B) /\ IsFiniteSet(C)
           /\ Cardinality(A) \in Nat /\ Cardinality(B) \in Nat /\ Cardinality(C) \in Nat
           /\ Cardinality(X) \in Nat /\ Cardinality(A \intersect B) \in Nat
           /\ Cardinality(A) + Cardinality(B) - Cardinality(A \intersect B) + Cardinality(C)
                <= Cardinality(X)
<1>1. /\ IsFiniteSet(A) /\ IsFiniteSet(B) /\ IsFiniteSet(C) /\ IsFiniteSet(A \intersect B)
      /\ IsFiniteSet(A \union B)
  <2>1. /\ A \in SUBSET X /\ B \in SUBSET X /\ C \in SUBSET X
        /\ A \intersect B \in SUBSET X /\ A \union B \in SUBSET X
    OBVIOUS
  <2> QED BY <2>1, FS_Subset
<1>2. /\ Cardinality(A) \in Nat /\ Cardinality(B) \in Nat /\ Cardinality(C) \in Nat
      /\ Cardinality(X) \in Nat /\ Cardinality(A \intersect B) \in Nat
      /\ Cardinality(A \union B) \in Nat
  BY <1>1, FS_CardinalityType
<1>3. Cardinality(A \union B) = Cardinality(A) + Cardinality(B) - Cardinality(A \intersect B)
  BY <1>1, FS_Union
<1>4. (A \union B) \intersect C = {} /\ (A \union B) \union C \in SUBSET X
  OBVIOUS
<1>5. Cardinality((A \union B) \union C) = Cardinality(A \union B) + Cardinality(C) - Cardinality({})
  BY <1>1, <1>4, FS_Union
<1>6. Cardinality((A \union B) \union C) <= Cardinality(X)
  BY <1>4, FS_Subset
<1> QED BY <1>1, <1>2, <1>3, <1>5, <1>6, FS_EmptySet

LEMMA CutLoss ==
    ASSUME BaseInv, LossInv, NEW H, NEW D, NEW W, NEW E, NEW P, Cutting(H, D, W, E, P)
    PROVE  LossInv'
<1> DEFINE A == {s \in D \union W : pc'[s] = "idle" /\ pc[s] # "idle"}
           B == {s \in D : client[s] \in {"bump", "requeue"}}
           C == {s \in D : pc'[s] # "idle" /\ client[s] = "open"}
           work == [s \in Slot |-> IF pc[s] = "redirect" THEN next[s] ELSE cur[s]]
           F == {work[s] : s \in A}
           G == {orig[s] : s \in B}
<1>1. /\ TypeOK /\ UNCHANGED sched
      /\ \A s \in Slot : CutSide(s, D, W, E)
      /\ \A s \in D \union W : s \in Slot
      /\ \A m \in Message : fate'[m] = "queued" => fate[m] = "queued"
  BY CutMessages, CutSides DEF BaseInv, redis
<1>2. ASSUME NEW m \in Missing', m \notin Missing
      PROVE  (\E s \in A : m = work[s]) \/ (\E s \in B : m = orig[s])
  <2>1. /\ m \in Message \ Misrouted /\ fate[m] = "queued" /\ sched[m] = "out" /\ ~Held(m)'
    BY <1>1, <1>2 DEF Missing, Lost, Scheduled
  <2>2. PICK s \in Slot : HeldBy(s, m)
    BY <1>2, <2>1, HeldBySlots DEF Missing, Lost, Scheduled
  <2>3. ~HeldBy(s, m)'
    BY <2>1 DEF Held, HeldBy, Works, Working
  <2>4. CASE RunsOn(s) /\ Waits(s)
    BY <2>2, <2>3, <2>4 DEF RunsOn, Waits, HeldBy, Works
  <2>5. CASE s \in D /\ RunsOn(s)
    <3>1. orig[s] = m /\ client[s] \in {"bump", "requeue"}
      BY <2>2, <2>3, <2>5 DEF RunsOn, HeldBy, Works
    <3> QED BY <2>5, <3>1
  <2>6. CASE Stopped(s) /\ Works(s, m)
    <3>1. s \in D \union W \/ RunsOn(s)
      BY <1>1 DEF CutSide
    <3>2. pc'[s] = "idle" /\ pc[s] # "idle"
      BY <2>6 DEF Stopped, Works, Working
    <3>3. s \in D \union W
      BY <3>1, <3>2 DEF RunsOn
    <3>4. m = work[s]
      BY <2>6 DEF Works, Working
    <3> QED BY <3>2, <3>3, <3>4
  <2>7. CASE Stopped(s) /\ ~Works(s, m)
    <3>1. orig[s] = m /\ client[s] \in {"bump", "requeue"}
      BY <2>2, <2>7 DEF HeldBy
    <3>2. ~Waits(s)
      BY <2>3, <3>1 DEF Waits, HeldBy
    <3>3. s \in D
      BY <1>1, <3>1, <3>2 DEF CutSide, Catches
    <3> QED BY <3>1, <3>3
  <2> QED BY <1>1, <2>4, <2>5, <2>6, <2>7 DEF CutSide
<1>3. ASSUME NEW t \in Orphans' PROVE t \in (Orphans \ (A \intersect B)) \union C
  <2>1. t \in Slot /\ pc'[t] # "idle" /\ client'[t] # "open" /\ t \notin A
    BY <1>3 DEF Orphans
  <2>2. RunsOn(t) /\ (Waits(t) \/ t \in D)
    BY <1>1, <2>1 DEF CutSide, Stopped
  <2> QED BY <2>1, <2>2 DEF RunsOn, Waits, Orphans
<1>4. A \intersect B \subseteq Orphans
  BY <1>1 DEF Orphans
<1>5. /\ IsFiniteSet(D \union W) /\ Cardinality(D \union W) \in Nat
      /\ faults' = faults + Cardinality(D \union W) /\ faults \in Nat /\ faults' \in Nat
  <2>1. faults \in 0 .. MaxFaults /\ MaxFaults \in Nat
    BY <1>1, QueueAssumption DEF TypeOK
  <2>2. /\ IsFiniteSet(D \union W) /\ Cardinality(D \union W) \in Nat
        /\ faults' = faults + Cardinality(D \union W)
    BY <1>1, CutCounted
  <2> QED BY <2>1, <2>2
<1>6. Missing' \subseteq Missing \union F \union G
  BY <1>2
<1>7. Orphans' \subseteq (Orphans \ (A \intersect B)) \union C
  BY <1>3
<1>8. /\ IsFiniteSet(A) /\ IsFiniteSet(B) /\ IsFiniteSet(C)
      /\ Cardinality(A) \in Nat /\ Cardinality(B) \in Nat /\ Cardinality(C) \in Nat
      /\ Cardinality(A \intersect B) \in Nat
      /\ Cardinality(A) + Cardinality(B) - Cardinality(A \intersect B) + Cardinality(C)
           <= Cardinality(D \union W)
  <2> DEFINE X == D \union W
  <2>1. /\ IsFiniteSet(X) /\ A \subseteq X /\ B \subseteq X /\ C \subseteq X
        /\ \A x \in C : x \notin A /\ x \notin B
    BY <1>5
  <2> HIDE DEF A, B, C, X
  <2>2. /\ IsFiniteSet(A) /\ IsFiniteSet(B) /\ IsFiniteSet(C)
        /\ Cardinality(A) \in Nat /\ Cardinality(B) \in Nat /\ Cardinality(C) \in Nat
        /\ Cardinality(A \intersect B) \in Nat
        /\ Cardinality(A) + Cardinality(B) - Cardinality(A \intersect B) + Cardinality(C)
             <= Cardinality(X)
    BY <2>1, CutFetches
  <2> QED BY <2>2 DEF X
<1>9. /\ IsFiniteSet(F) /\ Cardinality(F) \in Nat /\ Cardinality(F) <= Cardinality(A)
      /\ IsFiniteSet(G) /\ Cardinality(G) \in Nat /\ Cardinality(G) <= Cardinality(B)
  <2> HIDE DEF A, B, work
  <2> QED BY <1>8, ImageBound
<1>10. /\ IsFiniteSet(Missing) /\ Cardinality(Missing) \in Nat
       /\ IsFiniteSet(Orphans) /\ Cardinality(Orphans) \in Nat
       /\ Cardinality(Missing) + Cardinality(Orphans) <= faults
  BY FS_CardinalityType DEF LossInv
<1> HIDE DEF A, B, C, F, G
<1>11. /\ IsFiniteSet(Missing') /\ Cardinality(Missing') \in Nat
       /\ Cardinality(Missing') <= Cardinality(Missing) + Cardinality(F) + Cardinality(G)
  BY <1>6, <1>9, <1>10, CutMissing
<1>12. /\ IsFiniteSet(Orphans') /\ Cardinality(Orphans') \in Nat
       /\ Cardinality(Orphans')
            <= Cardinality(Orphans) - Cardinality(A \intersect B) + Cardinality(C)
  BY <1>4, <1>7, <1>8, <1>10, CutOrphans
<1>13. Cardinality(Missing') + Cardinality(Orphans') <= faults'
  BY <1>5, <1>8, <1>9, <1>10, <1>11, <1>12
<1> QED BY <1>11, <1>12, <1>13 DEF LossInv

\* A step of nobody's slot loses nothing.
LEMMA MessageLoss ==
    ASSUME LossInv, faults' = faults, faults \in Nat,
           UNCHANGED <<client, pc, cur, orig>>,
           \A s \in Slot : pc[s] = "running" \/ next'[s] = next[s],
           \A m \in Message :
             fate'[m] = "queued" /\ sched'[m] = "out" => fate[m] = "queued" /\ sched[m] = "out"
    PROVE  LossInv'
<1>1. \A m : Held(m)' <=> Held(m)
  BY DEF Held
<1>2. Missing' \subseteq Missing
  BY <1>1 DEF Missing, Lost, Scheduled
<1>3. Orphans' \subseteq Orphans
  BY DEF Orphans
<1>4. faults <= faults' /\ faults' \in Nat
  OBVIOUS
<1> QED BY <1>2, <1>3, <1>4, NothingLost

LEMMA ClaimLoss ==
    ASSUME BaseInv, LossInv, NEW h \in Host, NEW m \in Message, Claim(h, m)
    PROVE  LossInv'
<1>1. /\ TypeOK /\ UNCHANGED <<next, fate, fails>>
  BY DEF BaseInv, Claim, ghost
<1>2. faults' = faults /\ faults \in Nat
  <2>1. UNCHANGED faults
    BY DEF Claim, bounds
  <2> QED BY <1>1, <2>1, QueueAssumption DEF TypeOK
<1>3. CASE ZremWins(m)
  <2>1. PICK s \in Slot :
          /\ FreeSlot(s) /\ sched' = [sched EXCEPT ![m] = "out"]
          /\ client' = [client EXCEPT ![s] = "open"] /\ orig' = [orig EXCEPT ![s] = m]
          /\ pc' = [pc EXCEPT ![s] = "claimed"] /\ cur' = [cur EXCEPT ![s] = m]
    BY <1>3 DEF Claim
  <2>2. /\ pc'[s] = "claimed" /\ cur'[s] = m /\ client'[s] = "open"
        /\ \A n \in Message : n # m => sched'[n] = sched[n]
        /\ \A t \in Slot : t # s => /\ client'[t] = client[t] /\ orig'[t] = orig[t]
                                    /\ pc'[t] = pc[t] /\ cur'[t] = cur[t]
    BY <1>1, <2>1 DEF TypeOK
  <2>3. pc[s] = "idle" /\ client[s] = "none"
    BY <2>1 DEF FreeSlot
  <2>4. \A n : HeldBy(s, n)' <=> n = m
    BY <1>1, <2>2 DEF HeldBy, Works, Working
  <2>5. \A n : ~HeldBy(s, n)
    BY <2>3 DEF HeldBy, Works, Working
  <2>6. ASSUME NEW t \in Slot, t # s, NEW n PROVE HeldBy(t, n)' <=> HeldBy(t, n)
    BY <1>1, <2>2, <2>6 DEF HeldBy, Works
  <2>7. \A n : Held(n)' <=> \E t \in Slot : HeldBy(t, n)'
    BY DEF Held, HeldBy, Works, Working
  <2>8. Missing' \subseteq Missing
    BY <1>1, <2>2, <2>4, <2>5, <2>6, <2>7, HeldBySlots DEF Missing, Lost, Scheduled
  <2>9. Orphans' \subseteq Orphans
    BY <2>2 DEF Orphans
  <2> QED BY <1>2, <2>8, <2>9, NothingLost
<1>4. CASE ~ZremWins(m)
  BY <1>1, <1>2, <1>4, MessageLoss DEF Claim
<1> QED BY <1>3, <1>4

LEMMA LossStep == BaseInv /\ LossInv /\ [Next]_vars => LossInv'
<1> SUFFICES ASSUME BaseInv, LossInv, [Next]_vars PROVE LossInv'
  OBVIOUS
<1>1. TypeOK /\ faults \in Nat
  BY QueueAssumption DEF BaseInv, TypeOK
<1>2. CASE UNCHANGED vars
  BY <1>1, <1>2, MessageLoss DEF vars
<1>3. ASSUME NEW h \in Host, ReadDue(h) PROVE LossInv'
  BY <1>1, <1>3, MessageLoss DEF ReadDue, redis, wrapper, ghost, bounds
<1>4. ASSUME NEW m \in Message, TimePasses(m) PROVE LossInv'
  <2>1. \A n \in Message : sched'[n] = "out" => sched[n] = "out"
    BY <1>1, <1>4 DEF TimePasses, TypeOK
  <2>2. UNCHANGED <<client, pc, cur, orig, next, fate, faults>>
    BY <1>4 DEF TimePasses, dispatcher, wrapper, ghost
  <2> QED BY <1>1, <2>1, <2>2, MessageLoss
<1>5. ASSUME NEW m \in Message, ScheduleJob(m) PROVE LossInv'
  <2>1. /\ UNCHANGED <<client, pc, cur, orig, faults>>
        /\ pending[m] \in Slot => pc[pending[m]] = "running"
    BY <1>5 DEF ScheduleJob, dispatcher, bounds, BaseInv, MessageInv
  <2>2. \A s \in Slot : pc[s] = "running" \/ next'[s] = next[s]
    BY <1>1, <1>5, <2>1 DEF ScheduleJob, TypeOK
  <2>3. /\ sched'[m] # "out"
        /\ \A n \in Message : n # m => fate'[n] = fate[n] /\ sched'[n] = sched[n]
    BY <1>1, <1>5 DEF ScheduleJob, TypeOK, RunAt
  <2> QED BY <1>1, <2>1, <2>2, <2>3, MessageLoss
<1>6. ASSUME NEW m \in Message, NEW by \in {"now", "delayed"} \union Slot, WriteJob(m, by)
      PROVE  LossInv'
  <2>1. /\ UNCHANGED <<client, pc, cur, orig, next, sched, faults>>
        /\ \A n \in Message : fate'[n] = "queued" => fate[n] = "queued"
    BY <1>1, <1>6 DEF WriteJob, dispatcher, wrapper, bounds, TypeOK
  <2> QED BY <1>1, <2>1, MessageLoss
<1>7. ASSUME NEW H, NEW D, NEW W, NEW E, NEW P, Cutting(H, D, W, E, P) PROVE LossInv'
  BY <1>7, CutLoss
<1> QED BY <1>2, <1>3, <1>4, <1>5, <1>6, <1>7, ClaimLoss, WrapperLoss, ClientLoss, NetErrorLoss
        DEF Next, Cutting

\* A process that dies costs, for every fetch it had a part in, one job at most,
\* and so does a fetch that fails: never a job that is scheduled, waits in a batch
\* or was recorded by another chain, however many of them there are at the time.
THEOREM OneLoss == Spec => []OneLossPerFetch
<1>1. Init => LossInv
  <2> SUFFICES ASSUME Init PROVE LossInv
    OBVIOUS
  <2>1. Missing = {} /\ Orphans = {}
    BY DEF Init, Missing, Lost, Orphans
  <2>2. IsFiniteSet({}) /\ Cardinality({}) = 0
    BY FS_EmptySet
  <2> QED BY <2>1, <2>2 DEF Init, LossInv
<1>2. BaseInv /\ LossInv => OneLossPerFetch
  <2> SUFFICES ASSUME BaseInv, LossInv PROVE OneLossPerFetch
    OBVIOUS
  <2>1. Cardinality(Missing) \in Nat /\ Cardinality(Orphans) \in Nat
    BY FS_CardinalityType DEF LossInv
  <2>2. faults \in Nat
    BY QueueAssumption DEF BaseInv, TypeOK
  <2>3. Cardinality(Missing) <= faults
    <3>1. Cardinality(Missing) + Cardinality(Orphans) <= faults
      BY DEF LossInv
    <3> QED BY <2>1, <2>2, <3>1
  <2> QED BY <2>3 DEF OneLossPerFetch, Missing
<1> QED BY <1>1, <1>2, BaseInitially, BaseStep, LossStep, PTL DEF Spec
=============================================================================
