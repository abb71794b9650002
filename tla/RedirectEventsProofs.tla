------------------------ MODULE RedirectEventsProofs ------------------------
(***************************************************************************)
(* Proofs about RedirectEvents.  Claims, hooks and waits are shown         *)
(* consistent by one inductive invariant: type correctness, the agreement  *)
(* of claims with hooks, and the emptiness of ended runs.  The three need  *)
(* each other: the cleanup frees the right tokens only because claims      *)
(* match hooks, and a rival's claim survives it for the same reason.       *)
(*                                                                         *)
(* That the entities are what replaying the log yields, that a wait id is  *)
(* used once and that a step is settled once rest on what an append does   *)
(* to the positions of a log (At) and to the last event about something    *)
(* (Last), which lemmas state once for all entities.                       *)
(***************************************************************************)
EXTENDS RedirectEvents, TLAPS, FiniteSetTheorems

IInv == TypeOK /\ ClaimsMatchHooks /\ EndedRunsAreClean

----------------------------------------------------------------------------
\* An event appended to the log of a run keeps the log well typed.
LEMMA AppendTyped ==
    ASSUME TypeOK, NEW r \in Run, NEW type, NEW on,
           [type |-> type, on |-> on] \in Event,
           Append1(r, type, on)
    PROVE  log' \in [Run -> Seq(Event)]
BY DEF TypeOK, Append1

\* The cleanup of a run is well typed.
LEMMA CleanupTyped ==
    ASSUME TypeOK, NEW r \in Run, Cleanup(r)
    PROVE  /\ hook' \subseteq Hook
           /\ claim' \in [Token -> Hook \union {None}]
           /\ wait' \in [Wait -> WaitStatus]
BY DEF TypeOK, Cleanup, NoWaits, WaitStatus

\* Run events keep the types.
LEMMA RunActionTyped ==
    ASSUME TypeOK, NEW r \in Run, RunAction(r)
    PROVE  TypeOK'
<1>e. ASSUME NEW type \in RunEvent PROVE [type |-> type, on |-> r] \in Event
  BY <1>e DEF Event
<1>t. ASSUME NEW status \in RunTerminal PROVE EndEvent(status) \in RunEvent
  BY <1>t DEF EndEvent, RunEvent, RunTerminal
<1>1. CASE RunCreated(r)
  <2>1. log' \in [Run -> Seq(Event)]
    BY <1>1, <1>e, AppendTyped DEF RunCreated, RunEvent
  <2> QED BY <1>1, <2>1 DEF RunCreated, TypeOK, RunStatus
<1>2. CASE RunStarted(r)
  <2>1. log' \in [Run -> Seq(Event)]
    BY <1>2, <1>e, AppendTyped DEF RunStarted, RunEvent
  <2> QED BY <1>2, <2>1 DEF RunStarted, TypeOK, RunStatus
<1>3. CASE ResilientStart(r)
  <2>1. log' \in [Run -> Seq(Event)]
    BY <1>3, <1>e DEF ResilientStart, TypeOK, RunEvent
  <2> QED BY <1>3, <2>1 DEF ResilientStart, TypeOK, RunStatus
<1>4. ASSUME NEW status \in RunTerminal, RunEnds(r, status) PROVE TypeOK'
  <2>1. log' \in [Run -> Seq(Event)]
    BY <1>4, <1>e, <1>t, AppendTyped DEF RunEnds
  <2>2. run' \in [Run -> RunStatus]
    BY <1>4 DEF RunEnds, TypeOK, RunStatus
  <2>3. hook' \subseteq Hook /\ claim' \in [Token -> Hook \union {None}]
          /\ wait' \in [Wait -> WaitStatus]
    BY <1>4, CleanupTyped DEF RunEnds
  <2> QED BY <1>4, <2>1, <2>2, <2>3 DEF RunEnds, TypeOK
<1>5. ASSUME NEW status \in RunTerminal, RunEndRecorded(r, status) PROVE TypeOK'
  <2>1. log' \in [Run -> Seq(Event)]
    BY <1>5, <1>e, <1>t, AppendTyped DEF RunEndRecorded
  <2> QED BY <1>5, <2>1 DEF RunEndRecorded, TypeOK
<1> QED BY <1>1, <1>2, <1>3, <1>4, <1>5 DEF RunAction

\* Step events keep the types.
LEMMA StepActionTyped ==
    ASSUME TypeOK, NEW s \in Step, StepAction(s)
    PROVE  TypeOK'
<1>r. StepRun[s] \in Run
  BY EventsAssumption
<1>e. ASSUME NEW type \in StepEvent PROVE [type |-> type, on |-> s] \in Event
  BY <1>e DEF Event
<1>s. step[s] \in StepEntity
  BY DEF TypeOK
<1>1. CASE StepCreated(s)
  <2>1. log' \in [Run -> Seq(Event)]
    BY <1>1, <1>e, <1>r, AppendTyped DEF StepCreated, StepEvent
  <2> QED BY <1>1, <2>1 DEF StepCreated, TypeOK, StepEntity, StepStatus, NoStep
<1>2. CASE StepStarted(s)
  <2>1. log' \in [Run -> Seq(Event)]
    BY <1>2, <1>e, <1>r, AppendTyped DEF StepStarted, StepEvent
  <2> QED BY <1>2, <1>s, <2>1 DEF StepStarted, TypeOK, StepEntity, StepStatus
<1>3. CASE StepCompleted(s)
  <2>1. log' \in [Run -> Seq(Event)]
    BY <1>3, <1>e, <1>r, AppendTyped DEF StepCompleted, StepEvent
  <2> QED BY <1>3, <1>s, <2>1
          DEF StepCompleted, TypeOK, StepEntity, StepStatus, StepTerminal
<1>4. CASE StepFailed(s)
  <2>1. log' \in [Run -> Seq(Event)]
    BY <1>4, <1>e, <1>r, AppendTyped DEF StepFailed, StepEvent
  <2> QED BY <1>4, <1>s, <2>1
          DEF StepFailed, TypeOK, StepEntity, StepStatus, StepTerminal
<1>5. ASSUME NEW early \in BOOLEAN, StepRetrying(s, early) PROVE TypeOK'
  <2>1. log' \in [Run -> Seq(Event)]
    BY <1>5, <1>e, <1>r, AppendTyped DEF StepRetrying, StepEvent
  <2> QED BY <1>5, <1>s, <2>1 DEF StepRetrying, TypeOK, StepEntity, StepStatus
<1>6. CASE RetryDue(s)
  BY <1>6, <1>s DEF RetryDue, TypeOK, StepEntity
<1> QED BY <1>1, <1>2, <1>3, <1>4, <1>5, <1>6 DEF StepAction

\* Hook events keep the types.
LEMMA HookActionTyped ==
    ASSUME TypeOK, NEW h \in Hook, HookAction(h)
    PROVE  TypeOK'
<1>r. HookRun[h] \in Run /\ HookToken[h] \in Token
  BY EventsAssumption
<1>e. ASSUME NEW type \in HookEvent PROVE [type |-> type, on |-> h] \in Event
  BY <1>e DEF Event
<1>1. CASE HookCreated(h)
  <2>1. log' \in [Run -> Seq(Event)]
    BY <1>1, <1>e, <1>r, AppendTyped DEF HookCreated, HookEvent
  <2> QED BY <1>1, <1>r, <2>1 DEF HookCreated, ClaimValue, TypeOK
<1>2. CASE HookConflict(h)
  <2>1. log' \in [Run -> Seq(Event)]
    BY <1>2, <1>e, <1>r, AppendTyped DEF HookConflict, HookEvent
  <2> QED BY <1>2, <2>1 DEF HookConflict, TypeOK
<1>3. CASE HookReceived(h)
  <2>1. log' \in [Run -> Seq(Event)]
    BY <1>3, <1>e, <1>r, AppendTyped DEF HookReceived, HookEvent
  <2> QED BY <1>3, <2>1 DEF HookReceived, TypeOK
<1>4. CASE HookDisposed(h)
  <2>1. log' \in [Run -> Seq(Event)]
    BY <1>4, <1>e, <1>r, AppendTyped DEF HookDisposed, HookEvent
  <2> QED BY <1>4, <1>r, <2>1 DEF HookDisposed, FreeClaim, TypeOK
<1> QED BY <1>1, <1>2, <1>3, <1>4 DEF HookAction

\* Wait events keep the types.
LEMMA WaitActionTyped ==
    ASSUME TypeOK, NEW w \in Wait, WaitAction(w)
    PROVE  TypeOK'
<1>r. WaitRun[w] \in Run
  BY EventsAssumption
<1>e. ASSUME NEW type \in WaitEvent PROVE [type |-> type, on |-> w] \in Event
  BY <1>e DEF Event
<1>1. CASE WaitCreated(w)
  <2>1. log' \in [Run -> Seq(Event)]
    BY <1>1, <1>e, <1>r, AppendTyped DEF WaitCreated, WaitEvent
  <2> QED BY <1>1, <2>1 DEF WaitCreated, TypeOK, WaitStatus
<1>2. CASE WaitCompleted(w)
  <2>1. log' \in [Run -> Seq(Event)]
    BY <1>2, <1>e, <1>r, AppendTyped DEF WaitCompleted, WaitEvent
  <2> QED BY <1>2, <2>1 DEF WaitCompleted, TypeOK, WaitStatus
<1> QED BY <1>1, <1>2 DEF WaitAction

\* Every step keeps the types.
LEMMA TypePreserved == TypeOK /\ [Next]_vars => TypeOK'
<1> SUFFICES ASSUME TypeOK, [Next]_vars PROVE TypeOK'
  OBVIOUS
<1>1. CASE UNCHANGED vars
  BY <1>1 DEF vars, TypeOK
<1> QED
  BY <1>1, RunActionTyped, StepActionTyped, HookActionTyped, WaitActionTyped DEF Next

----------------------------------------------------------------------------
\* Claims keep matching hooks.
LEMMA ClaimsPreserved ==
    ASSUME TypeOK, ClaimsMatchHooks, [Next]_vars
    PROVE  ClaimsMatchHooks'
<1> USE EventsAssumption DEF TypeOK, ClaimsMatchHooks
<1>1. CASE UNCHANGED <<hook, claim>>
  BY <1>1
<1>2. ASSUME NEW r \in Run, Cleanup(r) PROVE ClaimsMatchHooks'
  BY <1>2 DEF Cleanup
<1>3. ASSUME NEW h \in Hook, HookCreated(h) PROVE ClaimsMatchHooks'
  BY <1>3 DEF HookCreated, ClaimValue
<1>4. ASSUME NEW h \in Hook, HookDisposed(h) PROVE ClaimsMatchHooks'
  BY <1>4 DEF HookDisposed, FreeClaim
<1>5. ASSUME NEW r \in Run, RunAction(r) PROVE ClaimsMatchHooks'
  BY <1>1, <1>2, <1>5 DEF RunAction, RunCreated, RunStarted, ResilientStart, RunEnds,
     RunEndRecorded
<1>6. ASSUME NEW s \in Step, StepAction(s) PROVE ClaimsMatchHooks'
  BY <1>1, <1>6 DEF StepAction, StepCreated, StepStarted, StepCompleted, StepFailed,
     StepRetrying, RetryDue
<1>7. ASSUME NEW h \in Hook, HookAction(h) PROVE ClaimsMatchHooks'
  BY <1>1, <1>3, <1>4, <1>7 DEF HookAction, HookConflict, HookReceived
<1>8. ASSUME NEW w \in Wait, WaitAction(w) PROVE ClaimsMatchHooks'
  BY <1>1, <1>8 DEF WaitAction, WaitCreated, WaitCompleted
<1> QED BY <1>1, <1>5, <1>6, <1>7, <1>8 DEF Next, vars

\* A run that has ended stays empty, and the one that ends is emptied.
LEMMA CleanPreserved ==
    ASSUME IInv, [Next]_vars
    PROVE  EndedRunsAreClean'
<1> USE EventsAssumption DEF IInv, TypeOK
<1> SUFFICES ASSUME NEW r \in Run, Ended(r)'
             PROVE  /\ \A h \in hook' : HookRun[h] # r
                    /\ \A t \in Token : claim'[t] # None => HookRun[claim'[t]] # r
                    /\ \A w \in Wait : WaitRun[w] = r => wait'[w] = "none"
  BY DEF EndedRunsAreClean
<1> DEFINE Clean == /\ \A h \in hook' : HookRun[h] # r
                    /\ \A t \in Token : claim'[t] # None => HookRun[claim'[t]] # r
                    /\ \A w \in Wait : WaitRun[w] = r => wait'[w] = "none"
<1>0. CASE UNCHANGED <<run, hook, claim, wait>>
  BY <1>0 DEF EndedRunsAreClean, Ended
<1>1. ASSUME NEW q \in Run, RunAction(q) PROVE Clean
  <2>1. ASSUME NEW status \in RunTerminal, RunEnds(q, status) PROVE Clean
    <3>1. CASE q = r
      BY <2>1, <3>1 DEF RunEnds, Cleanup, NoWaits, ClaimsMatchHooks
    <3>2. CASE q # r
      <4>1. Ended(r)
        BY <2>1, <3>2 DEF RunEnds, Ended
      <4> QED
        BY <2>1, <3>2, <4>1 DEF RunEnds, Cleanup, NoWaits, EndedRunsAreClean, Ended
    <3> QED BY <3>1, <3>2
  <2>2. ASSUME \/ RunCreated(q) \/ RunStarted(q) \/ ResilientStart(q) PROVE Clean
    <3>1. Ended(r)
      BY <2>2 DEF RunCreated, RunStarted, ResilientStart, Ended, RunTerminal
    <3> QED
      BY <2>2, <3>1 DEF RunCreated, RunStarted, ResilientStart, EndedRunsAreClean, Ended
  <2> QED BY <1>0, <1>1, <2>1, <2>2 DEF RunAction, RunEndRecorded
<1>2. ASSUME NEW s \in Step, StepAction(s) PROVE Clean
  BY <1>0, <1>2 DEF StepAction, StepCreated, StepStarted, StepCompleted, StepFailed,
     StepRetrying, RetryDue
<1>3. ASSUME NEW h \in Hook, HookAction(h) PROVE Clean
  <2>1. CASE HookCreated(h)
    BY <2>1 DEF HookCreated, ClaimValue, MayCreate, EndedRunsAreClean, Ended
  <2>2. CASE HookDisposed(h)
    BY <2>2 DEF HookDisposed, FreeClaim, EndedRunsAreClean, Ended
  <2> QED BY <1>0, <1>3, <2>1, <2>2 DEF HookAction, HookConflict, HookReceived
<1>4. ASSUME NEW w \in Wait, WaitAction(w) PROVE Clean
  <2>1. CASE WaitCreated(w)
    BY <2>1 DEF WaitCreated, MayCreate, EndedRunsAreClean, Ended
  <2>2. CASE WaitCompleted(w)
    BY <2>2 DEF WaitCompleted, EndedRunsAreClean, Ended
  <2> QED BY <1>4, <2>1, <2>2 DEF WaitAction
<1> QED BY <1>0, <1>1, <1>2, <1>3, <1>4 DEF Next, vars

\* The inductive invariant.
THEOREM Invariant == Spec => []IInv
<1>1. Init => IInv
  BY EventsAssumption DEF Init, IInv, TypeOK, RunStatus, StepEntity, NoStep, StepStatus,
     WaitStatus, Event, ClaimsMatchHooks, EndedRunsAreClean, Ended, RunTerminal
<1>2. IInv /\ [Next]_vars => IInv'
  BY TypePreserved, ClaimsPreserved, CleanPreserved DEF IInv
<1> QED BY <1>1, <1>2, PTL DEF Spec

\* A token claim leads to a live hook and every live hook owns its token.
THEOREM ClaimsConsistent == Spec => []ClaimsMatchHooks
BY Invariant, PTL DEF IInv

\* No hook, claim or wait survives the end of its run.
THEOREM EndedClean == Spec => []EndedRunsAreClean
BY Invariant, PTL DEF IInv

\* Every reachable state is well typed.
THEOREM TypeCorrect == Spec => []TypeOK
BY Invariant, PTL DEF IInv

\* The end of a run is final.
THEOREM EndFinal == Spec => EndIsFinal
<1> DEFINE Final == \A r \in Run : Ended(r) =>
         /\ run'[r] = run[r]
         /\ \A s \in Step : StepRun[s] = r /\ step[s].status = "none"
                             => step'[s].status = "none"
         /\ \A h \in Hook : HookRun[h] = r => h \notin hook'
         /\ \A w \in Wait : WaitRun[w] = r => wait'[w] = "none"
<1>1. IInv /\ IInv' /\ [Next]_vars => [Final]_vars
  <2> SUFFICES ASSUME IInv, IInv', [Next]_vars, ~ UNCHANGED vars, NEW r \in Run, Ended(r)
               PROVE  /\ run'[r] = run[r]
                      /\ \A s \in Step : StepRun[s] = r /\ step[s].status = "none"
                                          => step'[s].status = "none"
                      /\ \A h \in Hook : HookRun[h] = r => h \notin hook'
                      /\ \A w \in Wait : WaitRun[w] = r => wait'[w] = "none"
    OBVIOUS
  <2> USE EventsAssumption DEF TypeOK
  <2>1. run'[r] = run[r]
    <3>1. ASSUME NEW q \in Run, RunAction(q) PROVE run'[r] = run[r]
      BY <3>1 DEF IInv, RunAction, RunCreated, RunStarted, ResilientStart, RunEnds,
         RunActive, RunEndRecorded, Ended, RunTerminal
    <3>2. ASSUME NEW s \in Step, StepAction(s) PROVE run'[r] = run[r]
      BY <3>2 DEF StepAction, StepCreated, StepStarted, StepCompleted, StepFailed,
         StepRetrying, RetryDue
    <3>3. ASSUME NEW h \in Hook, HookAction(h) PROVE run'[r] = run[r]
      BY <3>3 DEF HookAction, HookCreated, HookConflict, HookReceived, HookDisposed
    <3>4. ASSUME NEW w \in Wait, WaitAction(w) PROVE run'[r] = run[r]
      BY <3>4 DEF WaitAction, WaitCreated, WaitCompleted
    <3> QED BY <3>1, <3>2, <3>3, <3>4 DEF Next, vars
  <2>2. ASSUME NEW s \in Step, StepRun[s] = r, step[s].status = "none"
        PROVE  step'[s].status = "none"
    <3>1. ASSUME NEW q \in Run, RunAction(q) PROVE step' = step
      BY <3>1 DEF RunAction, RunCreated, RunStarted, ResilientStart, RunEnds,
         RunEndRecorded
    <3>2. ASSUME NEW z \in Step, StepAction(z) PROVE step'[s].status = "none"
      <4>1. CASE z = s
        <5>1. ~StepOpen(s) /\ ~MayCreate(StepRun[s])
          BY <2>2 DEF StepOpen, MayCreate
        <5>2. RetryDue(s)
          BY <3>2, <4>1, <5>1 DEF StepAction, StepCreated, StepStarted, StepCompleted,
             StepFailed, StepRetrying
        <5> QED BY <2>2, <5>2 DEF IInv, RetryDue, StepEntity
      <4>2. CASE z # s
        <5>1. step'[s] = step[s]
          BY <3>2, <4>2 DEF IInv, StepAction, StepCreated, StepStarted, StepCompleted,
             StepFailed, StepRetrying, RetryDue
        <5> QED BY <2>2, <5>1
      <4> QED BY <4>1, <4>2
    <3>3. ASSUME NEW h \in Hook, HookAction(h) PROVE step' = step
      BY <3>3 DEF HookAction, HookCreated, HookConflict, HookReceived, HookDisposed
    <3>4. ASSUME NEW w \in Wait, WaitAction(w) PROVE step' = step
      BY <3>4 DEF WaitAction, WaitCreated, WaitCompleted
    <3> QED BY <2>2, <3>1, <3>2, <3>3, <3>4 DEF Next, vars
  <2>3. Ended(r)'
    BY <2>1 DEF Ended
  <2> QED BY <2>1, <2>2, <2>3 DEF IInv, EndedRunsAreClean
<1> QED BY <1>1, Invariant, PTL DEF Spec, EndIsFinal
----------------------------------------------------------------------------
(* Replaying the log.                                                      *)

\* A set of positions that is not empty has a last one: of the sets without
\* one take a smallest; without one of its elements it has a last position, and
\* either that or the element is the last of the whole.
LEMMA LastExists ==
    ASSUME NEW n \in Nat, NEW P \in SUBSET (1 .. n), P # {}
    PROVE  \E i \in P : \A j \in P : j <= i
<1> DEFINE S == 1 .. n
           HasLast(T) == \E i \in T : \A j \in T : j <= i
           Bad == {T \in SUBSET S : T # {} /\ ~HasLast(T)}
<1>1. IsFiniteSet(S)
  BY FS_Interval
<1>2. IsWellFoundedOn(StrictSubsetOrdering(S), FiniteSubsetsOf(S))
  BY FS_StrictSubsetOrderingWellFounded
<1>3. ASSUME NEW T \in SUBSET S PROVE T \in FiniteSubsetsOf(S)
  BY <1>1, FS_Subset DEF FiniteSubsetsOf
<1>4. SUFFICES ASSUME Bad # {} PROVE FALSE
  OBVIOUS
<1>5. PICK T \in Bad : \A U \in Bad : ~(<<U, T>> \in StrictSubsetOrdering(S))
  <2>1. Bad \subseteq FiniteSubsetsOf(S)
    BY <1>3
  <2> HIDE DEF Bad
  <2> QED BY <1>2, <1>4, <2>1, WFMin
<1>6. PICK x \in T : TRUE
  OBVIOUS
<1>7. T \ {x} \notin Bad
  BY <1>5 DEF StrictSubsetOrdering
<1>8. CASE T \ {x} = {}
  <2>1. T = {x} /\ x \in Nat
    BY <1>8
  <2> QED BY <2>1
<1>9. CASE HasLast(T \ {x})
  <2>1. PICK m \in T \ {x} : \A j \in T \ {x} : j <= m
    BY <1>9
  <2>2. m \in Nat /\ x \in Nat
    OBVIOUS
  <2>3. HasLast(T)
    BY <2>1, <2>2
  <2> QED BY <2>3
<1> QED BY <1>7, <1>8, <1>9

----------------------------------------------------------------------------
\* The event of this type about on, appended to the log of r, is one of those
\* that At(q, types, x) looks for.
Counts(q, types, x, r, type, on) == q = r /\ type \in types /\ on = x

\* An append adds its own position, or none.
LEMMA AppendAt ==
    ASSUME TypeOK, NEW r \in Run, NEW type, NEW on, Append1(r, type, on),
           NEW q \in Run, NEW types, NEW x
    PROVE  /\ At(q, types, x)' = IF Counts(q, types, x, r, type, on)
                                 THEN At(q, types, x) \union {Len(log[q]) + 1}
                                 ELSE At(q, types, x)
           /\ \A i \in At(q, types, x) : log'[q][i] = log[q][i]
           /\ q = r => log'[q][Len(log[q]) + 1].type = type
<1>1. CASE q # r
  BY <1>1 DEF TypeOK, Append1, At, Counts
<1>2. CASE q = r
  <2> DEFINE e == [type |-> type, on |-> on]
             n == Len(log[q])
  <2>1. log[q] \in Seq(Event) /\ log'[q] = Append(log[q], e)
    BY <1>2 DEF TypeOK, Append1
  <2>2. Len(log'[q]) = n + 1 /\ n \in Nat
    BY <2>1
  <2>3. \A i \in 1 .. n : log'[q][i] = log[q][i]
    BY <2>1
  <2>4. log'[q][n + 1].type = type /\ log'[q][n + 1].on = on
    BY <2>1
  <2>5. 1 .. n + 1 = (1 .. n) \union {n + 1}
    BY <2>2
  <2> QED BY <1>2, <2>2, <2>3, <2>4, <2>5, SMTT(20) DEF At, Counts
<1> QED BY <1>1, <1>2

\* Nothing changes while the log does not.
LEMMA LogKept ==
    ASSUME UNCHANGED log, NEW q, NEW types, NEW x
    PROVE  At(q, types, x)' = At(q, types, x) /\ Last(q, types, x)' = Last(q, types, x)
BY DEF At, Last

\* The last event is the same one if the positions are and the log at them.
LEMMA LastKept ==
    ASSUME TypeOK, NEW q \in Run, NEW types, NEW x,
           At(q, types, x)' = At(q, types, x),
           \A i \in At(q, types, x) : log'[q][i] = log[q][i]
    PROVE  Last(q, types, x)' = Last(q, types, x)
<1> DEFINE P == At(q, types, x)
           last == CHOOSE i \in P : \A j \in P : j <= i
<1>1. CASE P = {}
  BY <1>1 DEF Last
<1>2. CASE P # {}
  <2>1. Len(log[q]) \in Nat /\ P \in SUBSET (1 .. Len(log[q]))
    BY DEF At, TypeOK
  <2>2. last \in P
    <3>1. \E i \in P : \A j \in P : j <= i
      <4> HIDE DEF P
      <4> QED BY <1>2, <2>1, LastExists
    <3> HIDE DEF P
    <3> QED BY <3>1
  <2>3. Last(q, types, x) = log[q][last].type
    BY <1>2 DEF Last
  <2>4. Last(q, types, x)' = log'[q][last].type
    BY <1>2 DEF Last
  <2> QED BY <2>2, <2>3, <2>4
<1> QED BY <1>1, <1>2

\* An append is the last of its kind.
LEMMA AppendLast ==
    ASSUME TypeOK, NEW r \in Run, NEW type, NEW on, Append1(r, type, on),
           NEW q \in Run, NEW types, NEW x
    PROVE  Last(q, types, x)' = IF Counts(q, types, x, r, type, on) THEN type
                                ELSE Last(q, types, x)
<1>1. CASE ~Counts(q, types, x, r, type, on)
  BY <1>1, AppendAt, LastKept
<1>2. CASE Counts(q, types, x, r, type, on)
  <2> DEFINE n == Len(log[q])
             P == At(q, types, x)
             Q == P \union {n + 1}
  <2>1. At(q, types, x)' = Q /\ log'[q][n + 1].type = type
    BY <1>2, AppendAt DEF Counts
  <2>2. n \in Nat /\ P \in SUBSET (1 .. n)
    BY DEF At, TypeOK
  <2>3. (CHOOSE i \in Q : \A j \in Q : j <= i) = n + 1
    <3> HIDE DEF P
    <3>1. \A j \in Q : j <= n + 1
      BY <2>2
    <3>2. \A i \in Q : (\A j \in Q : j <= i) => i = n + 1
      BY <2>2
    <3> QED BY <3>1, <3>2
  <2>4. Last(q, types, x)' = log'[q][n + 1].type
    <3>1. (CHOOSE i \in At(q, types, x)' : \A j \in At(q, types, x)' : j <= i) = n + 1
      BY <2>1, <2>3
    <3> QED BY <2>1, <3>1 DEF Last
  <2> QED BY <1>2, <2>1, <2>4
<1> QED BY <1>1, <1>2

\* An append counts once, or not at all.
LEMMA AppendCounts ==
    ASSUME TypeOK, NEW r \in Run, NEW type, NEW on, Append1(r, type, on),
           NEW q \in Run, NEW types, NEW x
    PROVE  /\ Cardinality(At(q, types, x)) \in Nat
           /\ Cardinality(At(q, types, x))' = Cardinality(At(q, types, x)) +
                (IF Counts(q, types, x, r, type, on) THEN 1 ELSE 0)
<1> DEFINE P == At(q, types, x)
           n == Len(log[q])
<1>1. n \in Nat /\ P \in SUBSET (1 .. n)
  BY DEF At, TypeOK
<1>2. IsFiniteSet(P) /\ Cardinality(P) \in Nat
  <2>1. IsFiniteSet(1 .. n)
    BY <1>1, FS_Interval
  <2> HIDE DEF P
  <2> QED BY <1>1, <2>1, FS_Subset, FS_CardinalityType
<1>3. Cardinality(P \union {n + 1}) = Cardinality(P) + 1
  <2>1. n + 1 \notin P
    BY <1>1
  <2> HIDE DEF P
  <2> QED BY <1>2, <2>1, FS_AddElement
<1>4. CASE Counts(q, types, x, r, type, on)
  <2>1. At(q, types, x)' = P \union {n + 1}
    BY <1>4, AppendAt
  <2> QED BY <1>2, <1>3, <1>4, <2>1
<1>5. CASE ~Counts(q, types, x, r, type, on)
  <2>1. At(q, types, x)' = P
    BY <1>5, AppendAt
  <2> QED BY <1>2, <1>5, <2>1
<1> QED BY <1>4, <1>5

\* The two events of a resilient start are about one run, in its log.
LEMMA StartAt ==
    ASSUME TypeOK, NEW r \in Run, ResilientStart(r), NEW q \in Run, NEW types, NEW x,
           q # r \/ types \intersect RunEvent = {}
    PROVE  /\ At(q, types, x)' = At(q, types, x)
           /\ Last(q, types, x)' = Last(q, types, x)
<1> DEFINE n == Len(log[q])
<1>1. /\ At(q, types, x)' = At(q, types, x)
      /\ \A i \in At(q, types, x) : log'[q][i] = log[q][i]
  <2>1. CASE q # r
    BY <2>1 DEF TypeOK, ResilientStart, At
  <2>2. CASE q = r
    <3> DEFINE two == <<[type |-> "run_created", on |-> r],
                        [type |-> "run_started", on |-> r]>>
    <3>1. log[q] \in Seq(Event) /\ log'[q] = log[q] \o two
      BY <2>2 DEF TypeOK, ResilientStart
    <3>2. Len(log'[q]) = n + 2 /\ n \in Nat
      BY <3>1
    <3>3. \A i \in 1 .. n : log'[q][i] = log[q][i]
      BY <3>1
    <3>4. log'[q][n + 1] = two[1] /\ log'[q][n + 2] = two[2]
      BY <3>1
    <3>5. log'[q][n + 1].type = "run_created" /\ log'[q][n + 2].type = "run_started"
      BY <3>4
    <3>6. 1 .. n + 2 = (1 .. n) \union {n + 1, n + 2}
      BY <3>2
    <3>7. "run_created" \notin types /\ "run_started" \notin types
      BY <2>2 DEF RunEvent
    <3> HIDE DEF two
    <3>8. \A i \in At(q, types, x) : i \in 1 .. n /\ log'[q][i] = log[q][i]
      BY <3>3 DEF At
    <3>9. At(q, types, x)' \subseteq At(q, types, x)
      <4> SUFFICES ASSUME NEW i \in At(q, types, x)' PROVE i \in At(q, types, x)
        OBVIOUS
      <4>1. i \in 1 .. n + 2 /\ log'[q][i].type \in types /\ log'[q][i].on = x
        BY <3>2 DEF At
      <4>2. i \in 1 .. n
        BY <3>5, <3>6, <3>7, <4>1
      <4> QED BY <3>3, <4>1, <4>2 DEF At
    <3>10. At(q, types, x) \subseteq At(q, types, x)'
      <4> SUFFICES ASSUME NEW i \in At(q, types, x) PROVE i \in At(q, types, x)'
        OBVIOUS
      <4>1. i \in 1 .. n + 2 /\ log[q][i].type \in types /\ log[q][i].on = x
        BY <3>6, <3>8 DEF At
      <4> QED BY <3>2, <3>8, <4>1 DEF At
    <3> QED BY <3>8, <3>9, <3>10
  <2> QED BY <2>1, <2>2
<1> QED BY <1>1, LastKept

\* They leave it started.
LEMMA StartLast ==
    ASSUME TypeOK, NEW r \in Run, ResilientStart(r)
    PROVE  Last(r, RunEvent, r)' = "run_started"
<1> DEFINE n == Len(log[r])
           two == <<[type |-> "run_created", on |-> r], [type |-> "run_started", on |-> r]>>
           Q == At(r, RunEvent, r)'
<1>1. log[r] \in Seq(Event) /\ log'[r] = log[r] \o two
  BY DEF TypeOK, ResilientStart
<1>2. Len(log'[r]) = n + 2 /\ n \in Nat
  BY <1>1
<1>3. log'[r][n + 2] = two[2]
  BY <1>1
<1>4. n + 2 \in Q /\ Q \subseteq 1 .. n + 2
  BY <1>2, <1>3 DEF At, RunEvent
<1>5. (CHOOSE i \in Q : \A j \in Q : j <= i) = n + 2
  <2> HIDE DEF Q
  <2>1. \A j \in Q : j <= n + 2
    BY <1>2, <1>4
  <2>2. \A i \in Q : (\A j \in Q : j <= i) => i = n + 2
    BY <1>2, <1>4
  <2> QED BY <1>4, <2>1, <2>2
<1> QED BY <1>3, <1>4, <1>5 DEF Last

----------------------------------------------------------------------------
\* Every operation on an entity appends events of its kind about it.
LEMMA RunAppends ==
    ASSUME NEW r \in Run, RunAction(r)
    PROVE  ResilientStart(r) \/ \E type \in RunEvent : Append1(r, type, r)
BY DEF RunAction, RunCreated, RunStarted, RunEnds, RunEndRecorded, EndEvent, RunEvent

LEMMA StepAppends ==
    ASSUME NEW s \in Step, StepAction(s)
    PROVE  UNCHANGED log \/ \E type \in StepEvent : Append1(StepRun[s], type, s)
BY DEF StepAction, StepCreated, StepStarted, StepCompleted, StepFailed, StepRetrying,
   RetryDue, StepEvent

LEMMA HookAppends ==
    ASSUME NEW h \in Hook, HookAction(h)
    PROVE  \E type \in HookEvent : Append1(HookRun[h], type, h)
BY DEF HookAction, HookCreated, HookConflict, HookReceived, HookDisposed, HookEvent

LEMMA WaitAppends ==
    ASSUME NEW w \in Wait, WaitAction(w)
    PROVE  \E type \in WaitEvent : Append1(WaitRun[w], type, w)
BY DEF WaitAction, WaitCreated, WaitCompleted, WaitEvent

\* A step about other entities, or with events of other kinds, leaves the
\* positions and the last of the events alone.
LEMMA OthersKept ==
    ASSUME TypeOK, [Next]_vars, NEW q \in Run, NEW types, NEW x,
           \A r \in Run : RunAction(r) => q # r \/ types \intersect RunEvent = {},
           \A s \in Step : StepAction(s) => x # s \/ types \intersect StepEvent = {},
           \A h \in Hook : HookAction(h) => x # h \/ types \intersect HookEvent = {},
           \A w \in Wait : WaitAction(w) => x # w \/ types \intersect WaitEvent = {}
    PROVE  /\ At(q, types, x)' = At(q, types, x)
           /\ Last(q, types, x)' = Last(q, types, x)
<1> DEFINE Kept == /\ At(q, types, x)' = At(q, types, x)
                   /\ Last(q, types, x)' = Last(q, types, x)
<1>1. CASE UNCHANGED log
  BY <1>1, LogKept
<1>2. ASSUME NEW r \in Run, NEW type, NEW on, Append1(r, type, on),
             ~Counts(q, types, x, r, type, on)
      PROVE  Kept
  BY <1>2, AppendAt, AppendLast
<1>3. ASSUME NEW r \in Run, RunAction(r) PROVE Kept
  <2>1. q # r \/ types \intersect RunEvent = {}
    BY <1>3
  <2>2. CASE ResilientStart(r)
    BY <2>1, <2>2, StartAt
  <2>3. CASE \E type \in RunEvent : Append1(r, type, r)
    BY <1>2, <2>1, <2>3 DEF Counts
  <2> QED BY <1>3, <2>2, <2>3, RunAppends
<1>4. ASSUME NEW s \in Step, StepAction(s) PROVE Kept
  <2>1. x # s \/ types \intersect StepEvent = {}
    BY <1>4
  <2>2. StepRun[s] \in Run
    BY EventsAssumption
  <2>3. CASE \E type \in StepEvent : Append1(StepRun[s], type, s)
    BY <1>2, <2>1, <2>2, <2>3 DEF Counts
  <2> QED BY <1>1, <1>4, <2>3, StepAppends
<1>5. ASSUME NEW h \in Hook, HookAction(h) PROVE Kept
  <2>1. x # h \/ types \intersect HookEvent = {}
    BY <1>5
  <2>2. HookRun[h] \in Run
    BY EventsAssumption
  <2>3. PICK type \in HookEvent : Append1(HookRun[h], type, h)
    BY <1>5, HookAppends
  <2> QED BY <1>2, <2>1, <2>2, <2>3 DEF Counts
<1>6. ASSUME NEW w \in Wait, WaitAction(w) PROVE Kept
  <2>1. x # w \/ types \intersect WaitEvent = {}
    BY <1>6
  <2>2. WaitRun[w] \in Run
    BY EventsAssumption
  <2>3. PICK type \in WaitEvent : Append1(WaitRun[w], type, w)
    BY <1>6, WaitAppends
  <2> QED BY <1>2, <2>1, <2>2, <2>3 DEF Counts
<1> QED BY <1>1, <1>3, <1>4, <1>5, <1>6 DEF Next, vars

\* No two kinds of entity share an event type.
LEMMA KindsDiffer ==
    /\ RunEvent \intersect (StepEvent \union HookEvent \union WaitEvent) = {}
    /\ StepEvent \intersect (HookEvent \union WaitEvent) = {}
    /\ HookEvent \intersect WaitEvent = {}
BY DEF RunEvent, StepEvent, HookEvent, WaitEvent

----------------------------------------------------------------------------
\* ViewIsReplay, one entity at a time.
RunView(r) == run[r] # "none" => run[r] = RunReplayed(r)

StepView(s) ==
    /\ step[s].status = StepAfter[Last(StepRun[s], StepEvent, s)]
    /\ step[s].attempt = Cardinality(At(StepRun[s], {"step_started"}, s))
    /\ step[s].status = "none" => step[s].attempt = 0  \* implied, and handy

HookLife == {"hook_created", "hook_disposed"}
HookView(h) ==
    h \in hook <=> ~Ended(HookRun[h]) /\ Last(HookRun[h], HookLife, h) = "hook_created"

WaitView(w) ==
    wait[w] = IF Ended(WaitRun[w]) THEN "none"
              ELSE WaitAfter[Last(WaitRun[w], WaitEvent, w)]

\* A run ends by RunEnds and stays ended.
LEMMA EndedKept ==
    ASSUME TypeOK, [Next]_vars, NEW r \in Run,
           ~\E status \in RunTerminal : RunEnds(r, status)
    PROVE  Ended(r)' = Ended(r)
<1> USE DEF TypeOK, Ended
<1>1. ASSUME NEW q \in Run, RunAction(q) PROVE Ended(r)' = Ended(r)
  BY <1>1 DEF RunAction, RunCreated, RunStarted, ResilientStart, RunEnds, RunEndRecorded,
     RunTerminal
<1>2. ASSUME run' = run PROVE Ended(r)' = Ended(r)
  BY <1>2
<1> QED
  BY <1>1, <1>2 DEF Next, vars, StepAction, StepCreated, StepStarted, StepCompleted,
     StepFailed, StepRetrying, RetryDue, HookAction, HookCreated, HookConflict,
     HookReceived, HookDisposed, WaitAction, WaitCreated, WaitCompleted

\* A step changes by its own events.
LEMMA OtherStepsKept ==
    ASSUME TypeOK, [Next]_vars, NEW s \in Step, ~StepAction(s)
    PROVE  step'[s] = step[s]
<1>1. ASSUME NEW z \in Step, StepAction(z) PROVE step'[s] = step[s]
  BY <1>1 DEF TypeOK, StepAction, StepCreated, StepStarted, StepCompleted, StepFailed,
     StepRetrying, RetryDue
<1>2. ASSUME NEW r \in Run, RunAction(r) PROVE step' = step
  BY <1>2 DEF RunAction, RunCreated, RunStarted, ResilientStart, RunEnds, RunEndRecorded
<1> QED
  BY <1>1, <1>2 DEF Next, vars, HookAction, HookCreated, HookConflict, HookReceived,
     HookDisposed, WaitAction, WaitCreated, WaitCompleted

\* A wait changes by its own events and by the end of its run.
LEMMA OtherWaitsKept ==
    ASSUME TypeOK, [Next]_vars, NEW w \in Wait, ~WaitAction(w),
           ~\E status \in RunTerminal : RunEnds(WaitRun[w], status)
    PROVE  wait'[w] = wait[w]
<1>1. ASSUME NEW q \in Run, RunAction(q) PROVE wait'[w] = wait[w]
  <2>1. ASSUME NEW status \in RunTerminal, RunEnds(q, status) PROVE wait'[w] = wait[w]
    <3>1. WaitRun[w] # q
      BY <2>1
    <3> QED BY <2>1, <3>1 DEF RunEnds, Cleanup, NoWaits
  <2> QED
    BY <1>1, <2>1 DEF RunAction, RunCreated, RunStarted, ResilientStart, RunEndRecorded
<1>2. ASSUME NEW v \in Wait, WaitAction(v) PROVE wait'[w] = wait[w]
  BY <1>2 DEF TypeOK, WaitAction, WaitCreated, WaitCompleted
<1> QED
  BY <1>1, <1>2 DEF Next, vars, StepAction, StepCreated, StepStarted, StepCompleted,
     StepFailed, StepRetrying, RetryDue, HookAction, HookCreated, HookConflict,
     HookReceived, HookDisposed

\* A run's status is the one its last run event stands for.
LEMMA RunViewPreserved ==
    ASSUME TypeOK, [Next]_vars, NEW r \in Run, RunView(r)
    PROVE  RunView(r)'
<1> USE DEF TypeOK
<1>1. ASSUME NEW type \in RunEvent, Append1(r, type, r)
      PROVE  RunReplayed(r)' = RunAfter[type]
  BY <1>1, AppendLast DEF Counts, RunReplayed
<1>2. CASE RunAction(r)
  <2>1. CASE RunCreated(r)
    BY <1>1, <2>1 DEF RunCreated, RunView, RunAfter, RunEvent
  <2>2. CASE RunStarted(r)
    BY <1>1, <2>2 DEF RunStarted, RunView, RunAfter, RunEvent
  <2>3. CASE ResilientStart(r)
    <3>1. run'[r] = "running" /\ Last(r, RunEvent, r)' = "run_started"
      BY <2>3, StartLast DEF ResilientStart
    <3> QED BY <3>1 DEF RunView, RunReplayed, RunAfter
  <2>4. ASSUME NEW status \in RunTerminal, RunEnds(r, status) PROVE RunView(r)'
    BY <1>1, <2>4 DEF RunEnds, RunView, RunAfter, RunEvent, EndEvent, RunTerminal
  <2>5. ASSUME NEW status \in RunTerminal, RunEndRecorded(r, status) PROVE RunView(r)'
    BY <1>1, <2>5 DEF RunEndRecorded, RunView, RunAfter, RunEvent, EndEvent, RunTerminal
  <2> QED BY <1>2, <2>1, <2>2, <2>3, <2>4, <2>5 DEF RunAction
<1>3. CASE ~RunAction(r)
  <2>1. Last(r, RunEvent, r)' = Last(r, RunEvent, r)
    BY <1>3, OthersKept, KindsDiffer
  <2>2. run'[r] = run[r]
    BY <1>3 DEF Next, vars, RunAction, RunCreated, RunStarted, ResilientStart, RunEnds,
       RunEndRecorded, StepAction, StepCreated, StepStarted, StepCompleted, StepFailed,
       StepRetrying, RetryDue, HookAction, HookCreated, HookConflict, HookReceived,
       HookDisposed, WaitAction, WaitCreated, WaitCompleted
  <2> QED BY <2>1, <2>2 DEF RunView, RunReplayed
<1> QED BY <1>2, <1>3

\* A step's status is the one its last event stands for, and its attempts are
\* the starts its log has.
LEMMA StepViewPreserved ==
    ASSUME TypeOK, [Next]_vars, NEW s \in Step, StepView(s)
    PROVE  StepView(s)'
<1> DEFINE r == StepRun[s]
           Starts == {"step_started"}
<1>r. r \in Run /\ step[s] \in StepEntity /\ step \in [Step -> StepEntity]
  BY EventsAssumption DEF TypeOK
<1>1. ASSUME NEW type \in StepEvent, Append1(r, type, s)
      PROVE  /\ Last(r, StepEvent, s)' = type
             /\ Cardinality(At(r, Starts, s))' = IF type = "step_started"
                  THEN Cardinality(At(r, Starts, s)) + 1 ELSE Cardinality(At(r, Starts, s))
  <2>1. Last(r, StepEvent, s)' = type
    BY <1>1, <1>r, AppendLast DEF Counts
  <2>2. /\ Cardinality(At(r, Starts, s)) \in Nat
        /\ Cardinality(At(r, Starts, s))' = Cardinality(At(r, Starts, s)) +
                (IF Counts(r, Starts, s, r, type, s) THEN 1 ELSE 0)
    BY <1>1, <1>r, AppendCounts
  <2> QED BY <2>1, <2>2 DEF Counts
<1>2. CASE StepAction(s)
  <2> USE <1>r DEF StepView, StepAfter, StepEvent
  <2>1. CASE StepCreated(s)
    <3>1. /\ Last(r, StepEvent, s)' = "step_created"
          /\ Cardinality(At(r, Starts, s))' = Cardinality(At(r, Starts, s))
      BY <1>1, <2>1 DEF StepCreated
    <3>2. step'[s].status = "pending" /\ step'[s].attempt = 0
      BY <2>1 DEF StepCreated, NoStep
    <3>3. step[s].attempt = 0
      BY <2>1 DEF StepCreated
    <3> QED BY <3>1, <3>2, <3>3
  <2>2. CASE StepStarted(s)
    <3>1. /\ Last(r, StepEvent, s)' = "step_started"
          /\ Cardinality(At(r, Starts, s))' = Cardinality(At(r, Starts, s)) + 1
      BY <1>1, <2>2 DEF StepStarted
    <3>2. step'[s].status = "running" /\ step'[s].attempt = step[s].attempt + 1
      BY <2>2 DEF StepStarted
    <3> QED BY <3>1, <3>2
  <2>3. ASSUME NEW type \in {"step_completed", "step_failed", "step_retrying"},
               Append1(r, type, s), step'[s].status = StepAfter[type],
               step'[s].attempt = step[s].attempt
        PROVE  StepView(s)'
    <3>1. /\ Last(r, StepEvent, s)' = type
          /\ Cardinality(At(r, Starts, s))' = Cardinality(At(r, Starts, s))
      BY <1>1, <2>3
    <3> QED BY <2>3, <3>1
  <2>4. CASE StepCompleted(s)
    <3>1. step'[s].status = "completed" /\ step'[s].attempt = step[s].attempt
      BY <2>4 DEF StepCompleted, StepEntity
    <3> QED BY <2>3, <2>4, <3>1 DEF StepCompleted
  <2>5. CASE StepFailed(s)
    <3>1. step'[s].status = "failed" /\ step'[s].attempt = step[s].attempt
      BY <2>5 DEF StepFailed, StepEntity
    <3> QED BY <2>3, <2>5, <3>1 DEF StepFailed
  <2>6. ASSUME NEW early \in BOOLEAN, StepRetrying(s, early) PROVE StepView(s)'
    <3>1. step'[s].status = "pending" /\ step'[s].attempt = step[s].attempt
      BY <2>6 DEF StepRetrying, StepEntity
    <3> QED BY <2>3, <2>6, <3>1 DEF StepRetrying
  <2>7. CASE RetryDue(s)
    <3>1. step'[s].status = step[s].status /\ step'[s].attempt = step[s].attempt
      BY <2>7 DEF RetryDue, StepEntity
    <3>2. /\ Last(r, StepEvent, s)' = Last(r, StepEvent, s)
          /\ Cardinality(At(r, Starts, s))' = Cardinality(At(r, Starts, s))
      <4>1. log' = log
        BY <2>7 DEF RetryDue
      <4>2. ASSUME NEW types
            PROVE  At(r, types, s)' = At(r, types, s) /\ Last(r, types, s)' = Last(r, types, s)
        BY <4>1, LogKept
      <4> QED BY <4>2
    <3> QED BY <3>1, <3>2
  <2> QED BY <1>2, <2>1, <2>2, <2>4, <2>5, <2>6, <2>7 DEF StepAction
<1>3. CASE ~StepAction(s)
  <2>1. step'[s] = step[s]
    BY <1>3, OtherStepsKept
  <2>2. Last(r, StepEvent, s)' = Last(r, StepEvent, s)
    BY <1>r, <1>3, OthersKept, KindsDiffer
  <2>3. At(r, Starts, s)' = At(r, Starts, s)
    BY <1>r, <1>3, OthersKept, KindsDiffer DEF StepEvent
  <2> QED BY <2>1, <2>2, <2>3 DEF StepView
<1> QED BY <1>2, <1>3

\* A hook is there if its run has not ended and the last of its creations and
\* disposals is a creation.
LEMMA HookViewPreserved ==
    ASSUME TypeOK, EndedRunsAreClean, [Next]_vars, NEW h \in Hook, HookView(h)
    PROVE  HookView(h)'
<1> DEFINE r == HookRun[h]
<1>r. r \in Run /\ HookLife \subseteq HookEvent
  BY EventsAssumption DEF HookLife, HookEvent
<1>1. ASSUME NEW type \in HookEvent, Append1(r, type, h)
      PROVE  Last(r, HookLife, h)' = IF type \in HookLife THEN type
                                     ELSE Last(r, HookLife, h)
  BY <1>1, <1>r, AppendLast DEF Counts
<1>2. CASE HookAction(h)
  <2>0. run' = run /\ (h \in hook => ~Ended(r))
    BY <1>2 DEF HookAction, HookCreated, HookConflict, HookReceived, HookDisposed, HookView
  <2>1. CASE HookCreated(h)
    BY <1>1, <2>0, <2>1 DEF HookCreated, MayCreate, Ended, HookView, HookLife, HookEvent
  <2>2. CASE HookConflict(h) \/ HookReceived(h)
    <3>1. Last(r, HookLife, h)' = Last(r, HookLife, h)
      BY <1>1, <2>2 DEF HookConflict, HookReceived, HookLife, HookEvent
    <3> QED BY <2>0, <2>2, <3>1 DEF HookConflict, HookReceived, HookView, Ended
  <2>3. CASE HookDisposed(h)
    BY <1>1, <2>0, <2>3 DEF HookDisposed, HookView, HookLife, HookEvent
  <2> QED BY <1>2, <2>1, <2>2, <2>3 DEF HookAction
<1>3. CASE ~HookAction(h)
  <2>1. Last(r, HookLife, h)' = Last(r, HookLife, h)
    BY <1>r, <1>3, OthersKept, KindsDiffer
  <2>2. CASE \E status \in RunTerminal : RunEnds(r, status)
    <3>1. Ended(r)' /\ h \notin hook'
      BY <1>r, <2>2 DEF RunEnds, Cleanup, Ended, TypeOK
    <3> QED BY <3>1 DEF HookView
  <2>3. CASE ~\E status \in RunTerminal : RunEnds(r, status)
    <3>1. h \in hook' <=> h \in hook
      <4>1. ASSUME NEW q \in Run, RunAction(q) PROVE h \in hook' <=> h \in hook
        BY <2>3, <4>1 DEF RunAction, RunCreated, RunStarted, ResilientStart, RunEnds,
           Cleanup, RunEndRecorded
      <4>2. ASSUME NEW g \in Hook, HookAction(g) PROVE h \in hook' <=> h \in hook
        BY <1>3, <4>2 DEF HookAction, HookCreated, HookConflict, HookReceived, HookDisposed
      <4> QED
        BY <4>1, <4>2 DEF Next, vars, StepAction, StepCreated, StepStarted, StepCompleted,
           StepFailed, StepRetrying, RetryDue, WaitAction, WaitCreated, WaitCompleted
    <3>2. Ended(r)' = Ended(r)
      BY <1>r, <2>3, EndedKept
    <3> QED BY <2>1, <3>1, <3>2 DEF HookView
  <2> QED BY <2>2, <2>3
<1> QED BY <1>2, <1>3

\* A wait is what its last event makes of it until its run ends.
LEMMA WaitViewPreserved ==
    ASSUME TypeOK, EndedRunsAreClean, [Next]_vars, NEW w \in Wait, WaitView(w)
    PROVE  WaitView(w)'
<1> DEFINE r == WaitRun[w]
<1>r. r \in Run
  BY EventsAssumption
<1> USE DEF TypeOK
<1>1. CASE WaitAction(w)
  <2>1. run' = run
    BY <1>1 DEF WaitAction, WaitCreated, WaitCompleted
  <2>2. ~Ended(r)
    BY <1>1, <1>r DEF WaitAction, WaitCreated, WaitCompleted, MayCreate, EndedRunsAreClean
  <2>3. ~Ended(r)'
    BY <2>1, <2>2 DEF Ended
  <2>4. ASSUME NEW type \in WaitEvent, Append1(r, type, w), wait'[w] = WaitAfter[type]
        PROVE  WaitView(w)'
    <3>1. Last(r, WaitEvent, w)' = type
      BY <1>r, <2>4, AppendLast DEF Counts
    <3> QED BY <2>3, <2>4, <3>1 DEF WaitView
  <2> QED
    BY <1>1, <2>4 DEF WaitAction, WaitCreated, WaitCompleted, WaitEvent, WaitAfter
<1>2. CASE ~WaitAction(w)
  <2>1. Last(r, WaitEvent, w)' = Last(r, WaitEvent, w)
    BY <1>r, <1>2, OthersKept, KindsDiffer
  <2>2. CASE \E status \in RunTerminal : RunEnds(r, status)
    <3>1. Ended(r)' /\ wait'[w] = "none"
      BY <1>r, <2>2 DEF RunEnds, Cleanup, NoWaits, Ended
    <3> QED BY <3>1 DEF WaitView
  <2>3. CASE ~\E status \in RunTerminal : RunEnds(r, status)
    <3>1. wait'[w] = wait[w]
      BY <1>2, <2>3, OtherWaitsKept
    <3>2. Ended(r)' = Ended(r)
      BY <1>r, <2>3, EndedKept
    <3> QED BY <2>1, <3>1, <3>2 DEF WaitView
  <2> QED BY <2>2, <2>3
<1> QED BY <1>1, <1>2

\* The run, step, hook and wait entities are the replay of the log, whatever
\* events arrived in whatever order.
THEOREM ViewReplays == Spec => []ViewIsReplay
<1> DEFINE View == /\ \A r \in Run : RunView(r)
                   /\ \A s \in Step : StepView(s)
                   /\ \A h \in Hook : HookView(h)
                   /\ \A w \in Wait : WaitView(w)
<1>1. Init => View
  <2> SUFFICES ASSUME Init PROVE View
    OBVIOUS
  <2>1. ASSUME NEW q \in Run, NEW types, NEW x
        PROVE  At(q, types, x) = {} /\ Last(q, types, x) = "none"
    BY DEF Init, At, Last
  <2>2. StepRun \in [Step -> Run] /\ HookRun \in [Hook -> Run] /\ WaitRun \in [Wait -> Run]
    BY EventsAssumption
  <2>3. \A r \in Run : RunView(r)
    BY DEF Init, RunView
  <2>4. \A s \in Step : StepView(s)
    <3>1. Cardinality({}) = 0
      BY FS_EmptySet
    <3>2. ASSUME NEW s \in Step PROVE step[s].status = "none" /\ step[s].attempt = 0
      BY DEF Init, NoStep
    <3>3. ASSUME NEW s \in Step
          PROVE  /\ Last(StepRun[s], StepEvent, s) = "none"
                 /\ At(StepRun[s], {"step_started"}, s) = {}
      BY <2>1, <2>2
    <3> QED BY <3>1, <3>2, <3>3 DEF StepView, StepAfter
  <2>5. \A h \in Hook : HookView(h)
    BY <2>1, <2>2 DEF Init, HookView
  <2>6. \A w \in Wait : WaitView(w)
    BY <2>1, <2>2 DEF Init, WaitView, WaitAfter
  <2> QED BY <2>3, <2>4, <2>5, <2>6
<1>2. IInv /\ View /\ [Next]_vars => View'
  BY RunViewPreserved, StepViewPreserved, HookViewPreserved, WaitViewPreserved DEF IInv
<1>3. View => ViewIsReplay
  BY DEF RunView, StepView, HookView, WaitView, HookLife, ViewIsReplay
<1> QED BY <1>1, <1>2, <1>3, Invariant, PTL DEF Spec

----------------------------------------------------------------------------
(* A wait's entity is deleted when its run ends, and its id is not used    *)
(* again because nothing is created in a run that has ended.  Until then   *)
(* the entity tells how many of the wait's events the log has.             *)

Created(w) == Cardinality(At(WaitRun[w], {"wait_created"}, w))
Completed(w) == Cardinality(At(WaitRun[w], {"wait_completed"}, w))

WaitCounts(w) ==
    /\ Created(w) \in {0, 1}
    /\ Completed(w) \in 0 .. Created(w)
    /\ ~Ended(WaitRun[w]) /\ wait[w] = "none" => Created(w) = 0
    /\ wait[w] = "waiting" => Created(w) = 1 /\ Completed(w) = 0

\* Each event of a wait is counted by what the entity was before it.
LEMMA WaitCountsPreserved ==
    ASSUME TypeOK, [Next]_vars, NEW w \in Wait, WaitCounts(w)
    PROVE  WaitCounts(w)'
<1> DEFINE r == WaitRun[w]
<1>r. r \in Run
  BY EventsAssumption
<1>1. ASSUME NEW type \in WaitEvent, Append1(r, type, w)
      PROVE  /\ Created(w)' = Created(w) + (IF type = "wait_created" THEN 1 ELSE 0)
             /\ Completed(w)' = Completed(w) + (IF type = "wait_completed" THEN 1 ELSE 0)
  BY <1>1, <1>r, AppendCounts DEF Counts, Created, Completed
<1>2. CASE WaitCreated(w)
  <2>1. Created(w)' = Created(w) + 1 /\ Completed(w)' = Completed(w)
    BY <1>1, <1>2 DEF WaitCreated, WaitEvent, WaitCounts
  <2>2. Created(w) = 0 /\ wait'[w] = "waiting"
    BY <1>2 DEF WaitCreated, WaitCounts, MayCreate, TypeOK
  <2> QED BY <2>1, <2>2 DEF WaitCounts
<1>3. CASE WaitCompleted(w)
  <2>1. Created(w)' = Created(w) /\ Completed(w)' = Completed(w) + 1
    BY <1>1, <1>3 DEF WaitCompleted, WaitEvent, WaitCounts
  <2>2. Created(w) = 1 /\ Completed(w) = 0 /\ wait'[w] = "completed"
    BY <1>3 DEF WaitCompleted, WaitCounts, TypeOK
  <2> QED BY <2>1, <2>2 DEF WaitCounts
<1>4. CASE ~WaitAction(w)
  <2>1. Created(w)' = Created(w) /\ Completed(w)' = Completed(w)
    <3>1. At(r, {"wait_created"}, w)' = At(r, {"wait_created"}, w)
      BY <1>r, <1>4, OthersKept, KindsDiffer DEF WaitEvent
    <3>2. At(r, {"wait_completed"}, w)' = At(r, {"wait_completed"}, w)
      BY <1>r, <1>4, OthersKept, KindsDiffer DEF WaitEvent
    <3> QED BY <3>1, <3>2 DEF Created, Completed
  <2>2. CASE \E status \in RunTerminal : RunEnds(r, status)
    <3>1. Ended(r)' /\ wait'[w] = "none"
      BY <1>r, <2>2 DEF RunEnds, Cleanup, NoWaits, Ended, TypeOK
    <3> QED BY <2>1, <3>1 DEF WaitCounts
  <2>3. CASE ~\E status \in RunTerminal : RunEnds(r, status)
    <3>1. wait'[w] = wait[w]
      BY <1>4, <2>3, OtherWaitsKept
    <3>2. Ended(r)' = Ended(r)
      BY <1>r, <2>3, EndedKept
    <3> QED BY <2>1, <3>1, <3>2 DEF WaitCounts
  <2> QED BY <2>2, <2>3
<1> QED BY <1>2, <1>3, <1>4 DEF WaitAction

\* No wait id is created or completed a second time, though the entity that
\* remembers it is gone once the run has ended.
THEOREM WaitsUsedOnce == Spec => []WaitIdsNotReused
<1> DEFINE Inv == \A w \in Wait : WaitCounts(w)
<1>1. Init => Inv
  <2> SUFFICES ASSUME Init, NEW w \in Wait PROVE WaitCounts(w)
    OBVIOUS
  <2>1. WaitRun[w] \in Run
    BY EventsAssumption
  <2>2. \A types : At(WaitRun[w], types, w) = {}
    BY <2>1 DEF Init, At
  <2>3. Created(w) = 0 /\ Completed(w) = 0
    BY <2>2, FS_EmptySet DEF Created, Completed
  <2>4. wait[w] = "none"
    BY DEF Init
  <2> QED BY <2>3, <2>4 DEF WaitCounts
<1>2. TypeOK /\ Inv /\ [Next]_vars => Inv'
  BY WaitCountsPreserved
<1>3. Inv => WaitIdsNotReused
  BY DEF WaitCounts, Created, Completed, WaitIdsNotReused
<1> QED BY <1>1, <1>2, <1>3, TypeCorrect, PTL DEF Spec

----------------------------------------------------------------------------
(* That a step is settled once follows from what ties its entity to the    *)
(* log: once an event has completed or failed it, its status is terminal,  *)
(* and no event of a step is accepted then.                                *)

Settling == {"step_completed", "step_failed"}

SettledInv ==
    \A s \in Step :
      \A i \in At(StepRun[s], Settling, s) :
        /\ step[s].status \in StepTerminal
        /\ \A j \in At(StepRun[s], StepEvent, s) : j <= i

\* An event of an open step comes last, and settles it if it says so.
LEMMA StepSettles ==
    ASSUME TypeOK, SettledInv, NEW s \in Step, StepAction(s)
    PROVE  \A i \in At(StepRun[s], Settling, s)' :
             /\ step'[s].status \in StepTerminal
             /\ \A j \in At(StepRun[s], StepEvent, s)' : j <= i
<1> DEFINE r == StepRun[s]
<1>r. r \in Run /\ step[s] \in StepEntity
  BY EventsAssumption DEF TypeOK
<1>1. CASE RetryDue(s)
  <2>1. step'[s].status = step[s].status /\ log' = log
    BY <1>1, <1>r DEF RetryDue, TypeOK, StepEntity
  <2> QED BY <2>1 DEF SettledInv, At
<1>2. CASE ~RetryDue(s)
  <2>1. PICK type \in StepEvent : Append1(r, type, s)
    BY <1>2 DEF StepAction, StepCreated, StepStarted, StepCompleted, StepFailed,
       StepRetrying, StepEvent
  <2>2. step[s].status \notin StepTerminal
    BY <1>2 DEF StepAction, StepCreated, StepStarted, StepCompleted, StepFailed,
       StepRetrying, StepOpen, StepTerminal
  <2>3. At(r, Settling, s) = {}
    BY <2>2 DEF SettledInv
  <2>4. log[r] \in Seq(Event) /\ log'[r] = Append(log[r], [type |-> type, on |-> s])
    BY <1>r, <2>1 DEF TypeOK, Append1
  <2>5. Len(log'[r]) = Len(log[r]) + 1 /\ Len(log[r]) \in Nat
    BY <2>4
  <2>6. \A i \in 1 .. Len(log[r]) : log'[r][i] = log[r][i]
    BY <2>4
  <2>7. \A i \in At(r, Settling, s)' : i = Len(log'[r])
    BY <2>3, <2>5, <2>6, SMTT(20) DEF At
  <2>8. \A j \in At(r, StepEvent, s)' : j \in Nat /\ j <= Len(log'[r])
    BY <2>5 DEF At
  <2>9. ASSUME NEW i \in At(r, Settling, s)' PROVE step'[s].status \in StepTerminal
    <3>1. log'[r][Len(log'[r])].type = type
      BY <2>4, <2>5
    <3>2. type \in Settling
      BY <2>7, <2>9, <3>1 DEF At
    <3>3. StepCompleted(s) \/ StepFailed(s)
      <4>1. log'[r][Len(log'[r])].type \in Settling
        BY <3>1, <3>2
      <4>2. ASSUME NEW other, Append1(r, other, s) PROVE other = type
        BY <2>1, <4>2, <1>r, <2>4 DEF Append1, TypeOK
      <4> QED BY <1>2, <3>2, <4>2 DEF StepAction, StepCreated, StepStarted, StepRetrying, Settling
    <3> QED BY <1>r, <3>3 DEF StepCompleted, StepFailed, StepTerminal, TypeOK, StepEntity
  <2> QED BY <2>7, <2>8, <2>9
<1> QED BY <1>1, <1>2

\* No step is settled twice, and nothing of a step follows its settling.
THEOREM StepsSettleOnce == Spec => []SettledOnce
<1>1. Init => SettledInv
  BY EventsAssumption DEF Init, SettledInv, At
<1>2. TypeOK /\ SettledInv /\ [Next]_vars => SettledInv'
  <2> SUFFICES ASSUME TypeOK, SettledInv, [Next]_vars, NEW s \in Step
               PROVE  \A i \in At(StepRun[s], Settling, s)' :
                        /\ step'[s].status \in StepTerminal
                        /\ \A j \in At(StepRun[s], StepEvent, s)' : j <= i
    BY DEF SettledInv
  <2>1. CASE StepAction(s)
    BY <2>1, StepSettles
  <2>2. CASE ~StepAction(s)
    <3>1. Settling \in SUBSET StepEvent /\ StepEvent \in SUBSET StepEvent
      BY DEF Settling, StepEvent
    <3>2. /\ At(StepRun[s], Settling, s)' = At(StepRun[s], Settling, s)
          /\ At(StepRun[s], StepEvent, s)' = At(StepRun[s], StepEvent, s)
      BY <2>2, <3>1, OthersKept, KindsDiffer, EventsAssumption
    <3>3. step'[s] = step[s]
      BY <2>2, OtherStepsKept
    <3> QED BY <3>2, <3>3 DEF SettledInv
  <2> QED BY <2>1, <2>2
<1>3. SettledInv => SettledOnce
  BY DEF SettledInv, SettledOnce, Settling
<1> QED BY <1>1, <1>2, <1>3, TypeCorrect, PTL DEF Spec
=============================================================================
