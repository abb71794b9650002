------------------------ MODULE RedirectCreateProofs ------------------------
(***************************************************************************)
(* Proofs about RunLocks and RedirectCreate.                               *)
(*                                                                         *)
(* That the promise chain of a process admits one call at a time per run   *)
(* needs more than its local pointers: the calls under way for a run in a  *)
(* process form one chain that ends in the call the map holds.  A rank     *)
(* that grows along the chain says so.                                     *)
(*                                                                         *)
(* The calls of events.create are callers of that lock and nothing else    *)
(* touches it, so what is shown of the lock holds of the event store's     *)
(* calls.                                                                  *)
(*                                                                         *)
(* That the indexes agree in the end is a matter of what each call has     *)
(* still to write: see "The indexes" below.                                *)
(***************************************************************************)
EXTENDS RedirectCreate, TLAPS, FiniteSetTheorems, SequenceTheorems

-----------------------------------------------------------------------------
(* The run lock *)


\* c is under way.
Active(c) == phase[c] # "idle"

\* c and d are under way for the same run in the same process.
Same(c, d) == Active(c) /\ Active(d) /\ HostOf[c] = HostOf[d] /\ on[c] = on[d]

\* Along rank, every call but the first waits for the one right before it, and
\* the map holds the last.
ChainRank(rank) ==
    /\ \A c, d \in Caller : Same(c, d) /\ c # d => rank[c] # rank[d]
    /\ \A c, d \in Caller : Same(c, d) /\ rank[d] < rank[c] =>
         prev[c] # None /\ rank[d] <= rank[prev[c]]
    /\ \A c \in Caller : prev[c] # None =>
         Same(c, prev[c]) /\ rank[prev[c]] < rank[c]
    /\ \A c, d \in Caller :
         Same(c, d) /\ inProcess[HostOf[c]][on[c]] = c => rank[d] <= rank[c]

Chained == \E rank \in [Caller -> Nat] : ChainRank(rank)

\* The map holds a call that is under way for that run in that process, or none
\* if there is none.
MapInv ==
    \A h \in Host : \A r \in Run :
      LET t == inProcess[h][r] IN
      /\ t # None => Active(t) /\ HostOf[t] = h /\ on[t] = r
      /\ t = None => \A c \in Caller : ~(Active(c) /\ HostOf[c] = h /\ on[c] = r)

\* A call is under way for a run, an idle one for none; who is inside waits for
\* nobody.
PhaseInv ==
    \A c \in Caller :
      /\ Active(c) => on[c] \in Run
      /\ ~Active(c) => prev[c] = None
      /\ phase[c] = "inside" => prev[c] = None

ChainInv == LockTypeOK /\ PhaseInv /\ MapInv /\ Chained

----------------------------------------------------------------------------
\* A chain admits one call at a time.
LEMMA ChainExcludes == ChainInv => HostExclusion
<1> SUFFICES ASSUME ChainInv, NEW c \in Caller, NEW d \in Caller, c # d,
                    phase[c] = "inside", phase[d] = "inside",
                    HostOf[c] = HostOf[d], on[c] = on[d]
             PROVE  FALSE
  BY DEF HostExclusion
<1>1. prev[c] = None /\ prev[d] = None
  BY DEF ChainInv, PhaseInv
<1>2. Same(c, d) /\ Same(d, c)
  BY DEF Same, Active
<1>3. PICK rank \in [Caller -> Nat] : ChainRank(rank)
  BY DEF ChainInv, Chained
<1>4. rank[c] < rank[d] \/ rank[d] < rank[c]
  BY <1>2, <1>3 DEF ChainRank
<1> QED BY <1>1, <1>2, <1>3, <1>4 DEF ChainRank

\* The initial state.
LEMMA ChainInit == LockInit => ChainInv
<1> SUFFICES ASSUME LockInit PROVE ChainInv
  OBVIOUS
<1>1. LockTypeOK /\ PhaseInv /\ MapInv
  BY LocksAssumption DEF LockInit, LockTypeOK, PhaseInv, MapInv, Active
<1>2. ChainRank([c \in Caller |-> 0])
  BY DEF LockInit, ChainRank, Same, Active
<1> QED BY <1>1, <1>2 DEF ChainInv, Chained

\* Steps keep the types.
LEMMA LockTyped == LockTypeOK /\ PhaseInv /\ [LockNext]_lockVars => LockTypeOK'
<1> SUFFICES ASSUME LockTypeOK, PhaseInv, [LockNext]_lockVars PROVE LockTypeOK'
  OBVIOUS
<1> USE LocksAssumption DEF LockTypeOK
<1>1. ASSUME NEW c \in Caller, NEW r \in Run, Call(c, r) PROVE LockTypeOK'
  BY <1>1 DEF Call
<1>2. ASSUME NEW c \in Caller, Acquire(c) PROVE LockTypeOK'
  BY <1>2 DEF Acquire, Enter
<1>3. ASSUME NEW c \in Caller, GiveUp(c) PROVE LockTypeOK'
  <2>1. giveUps' \in 0 .. MaxGiveUps
    BY <1>3 DEF GiveUp
  <2> QED BY <1>3, <2>1 DEF GiveUp, Enter
<1>4. ASSUME NEW c \in Caller, Leave(c) PROVE LockTypeOK'
  <2>1. lock' \in [Run -> Caller \union {None, Orphan}]
    BY <1>4 DEF Leave
  <2>2. inProcess' \in [Host -> [Run -> Caller \union {None}]]
    <3>1. HostOf[c] \in Host /\ on[c] \in Run
      BY <1>4 DEF Leave, PhaseInv, Active
    <3> QED BY <1>4, <3>1 DEF Leave
  <2>3. /\ phase' \in [Caller -> {"idle", "waiting", "inside"}]
        /\ on' \in [Caller -> Run \union {None}]
        /\ prev' \in [Caller -> Caller \union {None}]
        /\ token' \in [Caller -> BOOLEAN]
    BY <1>4 DEF Leave
  <2> QED BY <1>4, <2>1, <2>2, <2>3 DEF Leave
<1>5. ASSUME NEW r \in Run, Expire(r) PROVE LockTypeOK'
  BY <1>5 DEF Expire
<1>6. ASSUME NEW h \in Host, CrashHost(h) PROVE LockTypeOK'
  <2>1. crashes' \in 0 .. MaxCrashes
    BY <1>6 DEF CrashHost
  <2>2. lock' \in [Run -> Caller \union {None, Orphan}]
    BY <1>6 DEF CrashHost
  <2>3. inProcess' \in [Host -> [Run -> Caller \union {None}]]
    BY <1>6 DEF CrashHost
  <2>4. /\ phase' \in [Caller -> {"idle", "waiting", "inside"}]
        /\ on' \in [Caller -> Run \union {None}]
        /\ prev' \in [Caller -> Caller \union {None}]
        /\ token' \in [Caller -> BOOLEAN]
    BY <1>6 DEF CrashHost
  <2> QED BY <1>6, <2>1, <2>2, <2>3, <2>4 DEF CrashHost
<1>7. CASE UNCHANGED lockVars
  BY <1>7 DEF lockVars
<1> QED BY <1>1, <1>2, <1>3, <1>4, <1>5, <1>6, <1>7 DEF LockNext

\* A new call goes to the end of its chain.
LEMMA ChainCall ==
    ASSUME ChainInv, LockTypeOK', NEW c \in Caller, NEW r \in Run, Call(c, r)
    PROVE  ChainInv'
<1> USE LocksAssumption DEF ChainInv
<1> DEFINE h == HostOf[c]
           t == inProcess[h][r]
<1>a. /\ h \in Host
      /\ ~Active(c) /\ Active(c)'
      /\ on' = [on EXCEPT ![c] = r]
      /\ prev' = [prev EXCEPT ![c] = t]
      /\ inProcess' = [inProcess EXCEPT ![h][r] = c]
      /\ \A d \in Caller : d # c => (Active(d)' <=> Active(d))
  BY DEF Call, LockTypeOK, Active
<1>1. PhaseInv'
  BY <1>a DEF Call, PhaseInv, LockTypeOK, Active
<1>2. MapInv'
  BY <1>a DEF MapInv, LockTypeOK
<1>3. PICK rank \in [Caller -> Nat] : ChainRank(rank)
  BY DEF Chained
<1> DEFINE new == IF t = None THEN 0 ELSE rank[t] + 1
<1>4. t # None => t \in Caller /\ t # c /\ Active(t) /\ HostOf[t] = h /\ on[t] = r
  BY <1>a DEF MapInv, LockTypeOK
<1>5. \A d \in Caller : d # c /\ Active(d) /\ HostOf[d] = h /\ on[d] = r =>
        t # None /\ rank[d] <= rank[t]
  BY <1>3, <1>4 DEF MapInv, ChainRank, Same, LockTypeOK
<1>6. PICK rank2 \in [Caller -> Nat] :
        /\ new \in Nat /\ rank2[c] = new
        /\ \A d \in Caller : d # c => rank2[d] = rank[d]
  <2>1. new \in Nat
    BY <1>3, <1>4
  <2> DEFINE f == [rank EXCEPT ![c] = new]
  <2>2. f \in [Caller -> Nat] /\ f[c] = new /\ \A d \in Caller : d # c => f[d] = rank[d]
    BY <2>1
  <2> HIDE DEF f
  <2> QED BY <2>1, <2>2
<1>7. \A d \in Caller : prev[d] # c
  BY <1>3, <1>a DEF ChainRank, Same, PhaseInv
<1>8. \A d, e \in Caller : d # c /\ e # c => (Same(d, e)' <=> Same(d, e))
  BY <1>a DEF Same, LockTypeOK
<1>9. \A d \in Caller : d # c /\ (Same(d, c)' \/ Same(c, d)') =>
        Active(d) /\ HostOf[d] = h /\ on[d] = r
  BY <1>a DEF Same, LockTypeOK
<1>10. ChainRank(rank2)'
  <2>1. ASSUME NEW d \in Caller, NEW e \in Caller, Same(d, e)', d # e
        PROVE  rank2[d] # rank2[e]
    BY <2>1, <1>3, <1>4, <1>5, <1>6, <1>8, <1>9 DEF ChainRank, Same
  <2>2. ASSUME NEW d \in Caller, NEW e \in Caller, Same(d, e)', rank2[e] < rank2[d]
        PROVE  prev'[d] # None /\ rank2[e] <= rank2[prev'[d]]
    <3>1. CASE d = c
      <4>1. e # c
        BY <2>2, <3>1, <1>6
      <4>2. t # None /\ rank[e] <= rank[t]
        BY <2>2, <3>1, <4>1, <1>9, <1>5
      <4> QED BY <3>1, <4>1, <4>2, <1>a, <1>4, <1>6 DEF LockTypeOK
    <3>2. CASE d # c
      <4>1. e # c
        BY <2>2, <3>2, <1>3, <1>4, <1>5, <1>6, <1>9
      <4>2. Same(d, e) /\ rank[e] < rank[d]
        BY <2>2, <3>2, <4>1, <1>6, <1>8
      <4>3. prev[d] # None /\ rank[e] <= rank[prev[d]] /\ prev[d] \in Caller
        BY <4>2, <1>3 DEF ChainRank, LockTypeOK
      <4>4. prev'[d] = prev[d] /\ prev[d] # c
        BY <3>2, <1>a, <1>7 DEF LockTypeOK
      <4> QED BY <4>1, <4>3, <4>4, <1>6
    <3> QED BY <3>1, <3>2
  <2>3. ASSUME NEW d \in Caller, prev'[d] # None
        PROVE  Same(d, prev[d])' /\ rank2[prev'[d]] < rank2[d]
    <3>1. CASE d = c
      BY <2>3, <3>1, <1>a, <1>4, <1>6, <1>3 DEF Same, LockTypeOK
    <3>2. CASE d # c
      <4>1. prev'[d] = prev[d] /\ prev[d] # c /\ prev[d] \in Caller
        BY <2>3, <3>2, <1>a, <1>7 DEF LockTypeOK
      <4>2. Same(d, prev[d]) /\ rank[prev[d]] < rank[d]
        BY <2>3, <4>1, <1>3 DEF ChainRank
      <4> QED BY <3>2, <4>1, <4>2, <1>6, <1>8 DEF Same
    <3> QED BY <3>1, <3>2
  <2>4. ASSUME NEW d \in Caller, NEW e \in Caller, Same(d, e)',
               inProcess'[HostOf[d]][on'[d]] = d
        PROVE  rank2[e] <= rank2[d]
    <3>1. CASE d = c
      <4>1. CASE e = c
        BY <3>1, <4>1, <1>6
      <4>2. CASE e # c
        BY <2>4, <3>1, <4>2, <1>3, <1>4, <1>5, <1>6, <1>9
      <4> QED BY <4>1, <4>2
    <3>2. CASE d # c
      <4>1. ~(HostOf[d] = h /\ on[d] = r)
        BY <2>4, <3>2, <1>a DEF LockTypeOK
      <4>2. e # c
        BY <2>4, <3>2, <4>1, <1>9
      <4>3. Same(d, e) /\ inProcess[HostOf[d]][on[d]] = d
        BY <2>4, <3>2, <4>1, <4>2, <1>8, <1>a DEF LockTypeOK, Same
      <4> QED BY <3>2, <4>2, <4>3, <1>3, <1>6 DEF ChainRank
    <3> QED BY <3>1, <3>2
  <2> QED BY <2>1, <2>2, <2>3, <2>4 DEF ChainRank
<1> QED BY <1>1, <1>2, <1>6, <1>10 DEF Chained

\* A step that starts, ends and redirects no call leaves the chains as they are.
LEMMA ChainStays ==
    ASSUME ChainInv, UNCHANGED <<on, prev, inProcess>>,
           \A c \in Caller : Active(c)' <=> Active(c)
    PROVE  MapInv' /\ Chained'
<1>1. \A c, d \in Caller : Same(c, d)' <=> Same(c, d)
  BY DEF Same
<1>2. PICK rank \in [Caller -> Nat] : ChainRank(rank)
  BY DEF ChainInv, Chained
<1>3. ChainRank(rank)'
  BY <1>1, <1>2 DEF ChainRank, ChainInv, LockTypeOK
<1>4. MapInv'
  BY DEF ChainInv, MapInv, LockTypeOK
<1> QED BY <1>3, <1>4 DEF Chained

\* A caller goes in, with the key or without.
LEMMA ChainEnter ==
    ASSUME ChainInv, LockTypeOK', NEW c \in Caller, Acquire(c) \/ GiveUp(c)
    PROVE  ChainInv'
<1>1. /\ UNCHANGED <<on, prev, inProcess>> /\ Turn(c)
      /\ phase' = [phase EXCEPT ![c] = "inside"]
  BY DEF Acquire, GiveUp, Enter
<1>2. \A d \in Caller : Active(d)' <=> Active(d)
  BY <1>1 DEF Turn, Active, ChainInv, LockTypeOK
<1>3. PhaseInv'
  BY <1>1, <1>2 DEF Turn, ChainInv, LockTypeOK, PhaseInv
<1> QED BY <1>1, <1>2, <1>3, ChainStays DEF ChainInv

\* A call that is over was the first of its chain; the one behind it is next.
LEMMA ChainLeave ==
    ASSUME ChainInv, LockTypeOK', NEW c \in Caller, Leave(c)
    PROVE  ChainInv'
<1> USE LocksAssumption DEF ChainInv
<1> DEFINE h == HostOf[c]
           r == on[c]
<1>a. /\ h \in Host /\ r \in Run
      /\ Active(c) /\ ~Active(c)' /\ prev[c] = None
      /\ on' = [on EXCEPT ![c] = None]
      /\ prev' = [d \in Caller |-> IF prev[d] = c THEN None ELSE prev[d]]
      /\ inProcess' = [inProcess EXCEPT ![h][r] = IF @ = c THEN None ELSE @]
      /\ \A d \in Caller : d # c => (Active(d)' <=> Active(d)) /\ on'[d] = on[d]
  BY DEF Leave, LockTypeOK, Active, PhaseInv
<1>b. /\ \A d \in Caller : d # c => phase'[d] = phase[d]
      /\ phase'[c] = "idle"
  BY DEF Leave, LockTypeOK
<1>1. PhaseInv'
  BY <1>a, <1>b DEF PhaseInv, LockTypeOK, Active
<1>2. PICK rank \in [Caller -> Nat] : ChainRank(rank)
  BY DEF Chained
<1>3. \A d \in Caller : Same(c, d) /\ d # c => rank[c] < rank[d]
  <2> SUFFICES ASSUME NEW d \in Caller, Same(c, d), d # c PROVE rank[c] < rank[d]
    OBVIOUS
  <2>1. rank[c] # rank[d] /\ ~(rank[d] < rank[c])
    BY <1>2, <1>a DEF ChainRank
  <2> QED BY <2>1
<1>4. \A d, e \in Caller : Same(d, e)' => Same(d, e) /\ d # c /\ e # c
  BY <1>a DEF Same
<1>5. MapInv'
  <2> SUFFICES ASSUME NEW g \in Host, NEW s \in Run
               PROVE  LET t == inProcess'[g][s] IN
                      /\ t # None => phase'[t] # "idle" /\ HostOf[t] = g /\ on'[t] = s
                      /\ t = None => \A d \in Caller :
                                       ~(phase'[d] # "idle" /\ HostOf[d] = g /\ on'[d] = s)
    BY DEF MapInv, Active
  <2>1. CASE g = h /\ s = r /\ inProcess[g][s] = c
    <3>1. inProcess'[g][s] = None
      BY <2>1, <1>a DEF LockTypeOK
    <3>2. ASSUME NEW d \in Caller, phase'[d] # "idle", HostOf[d] = g, on'[d] = s
          PROVE  FALSE
      <4>1. d # c /\ Same(c, d)
        BY <3>2, <2>1, <1>a DEF Same, Active
      <4>2. rank[d] <= rank[c]
        BY <4>1, <2>1, <1>2 DEF ChainRank
      <4> QED BY <4>1, <4>2, <1>3
    <3> QED BY <3>1, <3>2
  <2>2. CASE ~(g = h /\ s = r /\ inProcess[g][s] = c)
    <3>1. inProcess'[g][s] = inProcess[g][s]
      BY <2>2, <1>a DEF LockTypeOK
    <3>2. inProcess[g][s] # c
      BY <2>2, <1>a DEF MapInv, LockTypeOK
    <3>3. inProcess[g][s] \in Caller \union {None}
      BY DEF LockTypeOK
    <3> QED BY <3>1, <3>2, <3>3, <1>a DEF MapInv, Active
  <2> QED BY <2>1, <2>2
<1>6. ChainRank(rank)'
  <2>1. ASSUME NEW d \in Caller, NEW e \in Caller, Same(d, e)', rank[e] < rank[d]
        PROVE  prev'[d] # None /\ rank[e] <= rank[prev'[d]]
    <3>1. Same(d, e) /\ d # c /\ e # c
      BY <2>1, <1>4
    <3>2. prev[d] # None /\ rank[e] <= rank[prev[d]]
      BY <2>1, <3>1, <1>2 DEF ChainRank
    <3>3. prev[d] # c
      <4>1. ASSUME prev[d] = c PROVE FALSE
        <5>1. Same(d, c) /\ rank[e] <= rank[c]
          BY <4>1, <3>2, <1>2 DEF ChainRank, LockTypeOK
        <5>2. Same(c, e)
          BY <5>1, <3>1 DEF Same
        <5> QED BY <5>1, <5>2, <3>1, <1>3
      <4> QED BY <4>1
    <3> QED BY <3>2, <3>3, <1>a
  <2>2. ASSUME NEW d \in Caller, prev'[d] # None
        PROVE  Same(d, prev[d])' /\ rank[prev'[d]] < rank[d]
    <3>1. prev'[d] = prev[d] /\ prev[d] # c /\ d # c /\ prev[d] \in Caller
      BY <2>2, <1>a DEF LockTypeOK
    <3>2. Same(d, prev[d]) /\ rank[prev[d]] < rank[d]
      BY <2>2, <3>1, <1>2 DEF ChainRank
    <3> QED BY <3>1, <3>2, <1>a DEF Same
  <2>3. ASSUME NEW d \in Caller, NEW e \in Caller, Same(d, e)',
               inProcess'[HostOf[d]][on'[d]] = d
        PROVE  rank[e] <= rank[d]
    <3>1. Same(d, e) /\ d # c
      BY <2>3, <1>4
    <3>2. on'[d] = on[d] /\ on[d] \in Run /\ HostOf[d] \in Host /\ d # None
      BY <3>1, <1>a DEF Same, PhaseInv
    <3>3. inProcess[HostOf[d]][on[d]] = d
      BY <2>3, <3>1, <3>2, <1>a DEF LockTypeOK
    <3> QED BY <3>1, <3>3, <1>2 DEF ChainRank
  <2>4. ASSUME NEW d \in Caller, NEW e \in Caller, Same(d, e)', d # e
        PROVE  rank[d] # rank[e]
    BY <2>4, <1>4, <1>2 DEF ChainRank
  <2> QED BY <2>1, <2>2, <2>3, <2>4 DEF ChainRank
<1> QED BY <1>1, <1>5, <1>6 DEF Chained

\* A crash takes all the chains of its process.
LEMMA ChainCrash ==
    ASSUME ChainInv, LockTypeOK', NEW h \in Host, CrashHost(h)
    PROVE  ChainInv'
<1> USE LocksAssumption DEF ChainInv
<1>a. \A d \in Caller :
        IF HostOf[d] = h
        THEN phase'[d] = "idle" /\ prev'[d] = None
        ELSE phase'[d] = phase[d] /\ on'[d] = on[d] /\ prev'[d] = prev[d]
  BY DEF CrashHost
<1>b. \A g \in Host : \A r \in Run :
        inProcess'[g][r] = IF g = h THEN None ELSE inProcess[g][r]
  BY DEF CrashHost, LockTypeOK
<1>1. PhaseInv'
  BY <1>a DEF PhaseInv, Active, LockTypeOK
<1>2. MapInv'
  <2> SUFFICES ASSUME NEW g \in Host, NEW s \in Run
               PROVE  LET t == inProcess'[g][s] IN
                      /\ t # None => phase'[t] # "idle" /\ HostOf[t] = g /\ on'[t] = s
                      /\ t = None => \A d \in Caller :
                                       ~(phase'[d] # "idle" /\ HostOf[d] = g /\ on'[d] = s)
    BY DEF MapInv, Active
  <2>1. CASE g = h
    BY <2>1, <1>a, <1>b DEF Active
  <2>2. CASE g # h
    <3>1. inProcess'[g][s] = inProcess[g][s] /\ inProcess[g][s] \in Caller \union {None}
      BY <2>2, <1>b DEF LockTypeOK
    <3> QED BY <2>2, <3>1, <1>a DEF MapInv, Active
  <2> QED BY <2>1, <2>2
<1>3. PICK rank \in [Caller -> Nat] : ChainRank(rank)
  BY DEF Chained
<1>4. \A d, e \in Caller : Same(d, e)' <=> Same(d, e) /\ HostOf[d] # h
  BY <1>a DEF Same, Active
<1>5. ChainRank(rank)'
  <2>1. ASSUME NEW d \in Caller, NEW e \in Caller, Same(d, e)', rank[e] < rank[d]
        PROVE  prev'[d] # None /\ rank[e] <= rank[prev'[d]]
    BY <2>1, <1>4, <1>3, <1>a DEF ChainRank
  <2>2. ASSUME NEW d \in Caller, prev'[d] # None
        PROVE  Same(d, prev[d])' /\ rank[prev'[d]] < rank[d]
    <3>1. HostOf[d] # h /\ prev'[d] = prev[d] /\ prev[d] \in Caller
      BY <2>2, <1>a DEF LockTypeOK
    <3>2. Same(d, prev[d]) /\ rank[prev[d]] < rank[d]
      BY <2>2, <3>1, <1>3 DEF ChainRank
    <3> QED BY <3>1, <3>2, <1>a DEF Same, Active
  <2>3. ASSUME NEW d \in Caller, NEW e \in Caller, Same(d, e)',
               inProcess'[HostOf[d]][on'[d]] = d
        PROVE  rank[e] <= rank[d]
    <3>1. Same(d, e) /\ HostOf[d] # h /\ on'[d] = on[d]
      BY <2>3, <1>4, <1>a
    <3>2. inProcess[HostOf[d]][on[d]] = d
      BY <2>3, <3>1, <1>b DEF Same, PhaseInv
    <3> QED BY <3>1, <3>2, <1>3 DEF ChainRank
  <2>4. ASSUME NEW d \in Caller, NEW e \in Caller, Same(d, e)', d # e
        PROVE  rank[d] # rank[e]
    BY <2>4, <1>4, <1>3 DEF ChainRank
  <2> QED BY <2>1, <2>2, <2>3, <2>4 DEF ChainRank
<1> QED BY <1>1, <1>2, <1>5 DEF Chained

\* Every step keeps the chains.
LEMMA ChainPreserved == ChainInv /\ [LockNext]_lockVars => ChainInv'
<1> SUFFICES ASSUME ChainInv, [LockNext]_lockVars PROVE ChainInv'
  OBVIOUS
<1>1. LockTypeOK'
  BY LockTyped DEF ChainInv
<1>2. ASSUME NEW c \in Caller, NEW r \in Run, Call(c, r) PROVE ChainInv'
  BY <1>1, <1>2, ChainCall
<1>3. ASSUME NEW c \in Caller, Acquire(c) \/ GiveUp(c) PROVE ChainInv'
  BY <1>1, <1>3, ChainEnter
<1>4. ASSUME NEW c \in Caller, Leave(c) PROVE ChainInv'
  BY <1>1, <1>4, ChainLeave
<1>5. ASSUME NEW h \in Host, CrashHost(h) PROVE ChainInv'
  BY <1>1, <1>5, ChainCrash
<1>6. ASSUME UNCHANGED <<phase, on, prev, inProcess>> PROVE ChainInv'
  <2>1. \A c \in Caller : Active(c)' <=> Active(c)
    BY <1>6 DEF Active
  <2>2. PhaseInv'
    BY <1>6, <2>1 DEF ChainInv, PhaseInv
  <2> QED BY <1>1, <1>6, <2>1, <2>2, ChainStays DEF ChainInv
<1>7. ASSUME NEW r \in Run, Expire(r) PROVE ChainInv'
  BY <1>6, <1>7 DEF Expire
<1>8. CASE UNCHANGED lockVars
  BY <1>6, <1>8 DEF lockVars
<1> QED BY <1>2, <1>3, <1>4, <1>5, <1>7, <1>8 DEF LockNext

----------------------------------------------------------------------------
\* The types of RunLocks and the chains of its processes, in every reachable
\* state.
THEOREM ChainInvariant == LockSpec => []ChainInv
<1>1. LockInit => ChainInv
  BY ChainInit
<1>2. ChainInv /\ [LockNext]_lockVars => ChainInv'
  BY ChainPreserved
<1> QED BY <1>1, <1>2, PTL DEF LockSpec

\* lock.ts:71: two calls of one process are never at work on the same run,
\* whatever expires, gives up waiting or crashes.
THEOREM HostsExclude == LockSpec => []HostExclusion
<1>1. ChainInv => HostExclusion
  BY ChainExcludes
<1> QED BY <1>1, ChainInvariant, PTL

----------------------------------------------------------------------------
\* Until a key expires under its holder or a caller gives up, whoever is inside
\* holds the key.
KeyInv ==
    expiries = 0 /\ giveUps = 0 =>
      \A c \in Caller : phase[c] = "inside" => lock[on[c]] = c

\* A key has one holder, so holding it excludes the others.
LEMMA KeyExcludes == KeyInv => Exclusion
BY DEF KeyInv, Exclusion

\* Every step keeps the keys with those inside.
LEMMA KeyPreserved == ChainInv /\ KeyInv /\ [LockNext]_lockVars => KeyInv'
<1> SUFFICES ASSUME ChainInv, KeyInv, [LockNext]_lockVars,
                    expiries' = 0, giveUps' = 0,
                    NEW d \in Caller, phase'[d] = "inside"
             PROVE  lock'[on'[d]] = d
  BY DEF KeyInv
<1> USE LocksAssumption DEF ChainInv, LockTypeOK
<1>1. ASSUME NEW c \in Caller, NEW r \in Run, Call(c, r) PROVE lock'[on'[d]] = d
  BY <1>1 DEF Call, KeyInv
<1>2. ASSUME NEW c \in Caller, Acquire(c) PROVE lock'[on'[d]] = d
  <2>1. on[c] \in Run /\ expiries = 0 /\ giveUps = 0
    BY <1>2 DEF Acquire, Turn, Enter, PhaseInv, Active
  <2>2. CASE d = c
    BY <1>2, <2>1, <2>2 DEF Acquire, Enter
  <2>3. CASE d # c
    <3>1. phase[d] = "inside" /\ lock[on[d]] = d
      BY <1>2, <2>1, <2>3 DEF Acquire, Enter, KeyInv
    <3> QED BY <1>2, <2>1, <3>1 DEF Acquire, Enter, KeyFree
  <2> QED BY <2>2, <2>3
<1>3. ASSUME NEW c \in Caller, GiveUp(c) PROVE lock'[on'[d]] = d
  BY <1>3 DEF GiveUp
<1>4. ASSUME NEW c \in Caller, Leave(c) PROVE lock'[on'[d]] = d
  <2>1. /\ expiries = 0 /\ giveUps = 0 /\ d # c
        /\ phase[d] = "inside" /\ on'[d] = on[d]
    BY <1>4 DEF Leave
  <2>2. /\ lock[on[d]] = d /\ lock[on[c]] = c /\ on[c] # on[d]
        /\ on[c] \in Run /\ on[d] \in Run
    BY <1>4, <2>1 DEF Leave, KeyInv, PhaseInv, Active
  <2>3. lock'[on[d]] = lock[on[d]]
    BY <1>4, <2>2 DEF Leave
  <2> QED BY <2>1, <2>2, <2>3
<1>5. ASSUME NEW r \in Run, Expire(r) PROVE lock'[on'[d]] = d
  <2>1. expiries = 0 /\ lock[r] = Orphan
    BY <1>5 DEF Expire
  <2>2. lock[on[d]] = d
    BY <1>5, <2>1 DEF Expire, KeyInv
  <2> QED BY <1>5, <2>1, <2>2 DEF Expire
<1>6. ASSUME NEW h \in Host, CrashHost(h) PROVE lock'[on'[d]] = d
  <2>1. /\ HostOf[d] # h /\ on'[d] = on[d] /\ phase[d] = "inside"
        /\ expiries = 0 /\ giveUps = 0
    BY <1>6 DEF CrashHost
  <2>2. lock[on[d]] = d /\ on[d] \in Run
    BY <2>1 DEF KeyInv, PhaseInv, Active
  <2> QED BY <1>6, <2>1, <2>2 DEF CrashHost
<1>7. CASE UNCHANGED lockVars
  BY <1>7 DEF lockVars, KeyInv
<1> QED BY <1>1, <1>2, <1>3, <1>4, <1>5, <1>6, <1>7 DEF LockNext

\* The Redis key does across processes what the chain does inside one, as long
\* as its two deliberate exits are not taken.
THEOREM LocksExclude == LockSpec => []Exclusion
<1>1. LockInit => KeyInv
  BY DEF LockInit, KeyInv
<1>2. ChainInv /\ KeyInv /\ [LockNext]_lockVars => KeyInv'
  BY KeyPreserved
<1>3. KeyInv => Exclusion
  BY KeyExcludes
<1> QED BY <1>1, <1>2, <1>3, ChainInvariant, PTL DEF LockSpec

\* Whatever key a caller got, it keeps it until it leaves, dies or outlives it:
\* no release, not even a late one, frees somebody else's key.
THEOREM ReleasesSpareOthers == LockSpec => ReleaseSparesOthers
<1> DEFINE Spared == \A r \in Run : \A c \in Caller :
             lock[r] = c /\ lock'[r] # c => phase'[c] = "idle" \/ expiries' # expiries
<1>1. ChainInv /\ [LockNext]_lockVars => [Spared]_lockVars
  <2> SUFFICES ASSUME ChainInv, LockNext, NEW r \in Run, NEW c \in Caller,
                      lock[r] = c, lock'[r] # c
               PROVE  phase'[c] = "idle" \/ expiries' # expiries
    OBVIOUS
  <2> USE LocksAssumption DEF ChainInv, LockTypeOK
  <2>1. ASSUME NEW d \in Caller, NEW s \in Run, Call(d, s) PROVE FALSE
    BY <2>1 DEF Call
  <2>2. ASSUME NEW d \in Caller, Acquire(d) PROVE FALSE
    BY <2>2 DEF Acquire, KeyFree
  <2>3. ASSUME NEW d \in Caller, GiveUp(d) PROVE FALSE
    BY <2>3 DEF GiveUp
  <2>4. ASSUME NEW d \in Caller, Leave(d) PROVE phase'[c] = "idle"
    BY <2>4 DEF Leave, UnlockMatches
  <2>5. ASSUME NEW s \in Run, Expire(s) PROVE expiries' # expiries
    BY <2>5 DEF Expire
  <2>6. ASSUME NEW h \in Host, CrashHost(h) PROVE phase'[c] = "idle"
    BY <2>6 DEF CrashHost
  <2> QED BY <2>1, <2>2, <2>3, <2>4, <2>5, <2>6 DEF LockNext
<1>2. ReleaseSparesOthers <=> [][Spared]_lockVars
  BY DEF ReleaseSparesOthers
<1> HIDE DEF Spared
<1> QED BY <1>1, <1>2, ChainInvariant, PTL DEF LockSpec

-----------------------------------------------------------------------------
(* The calls of the event store *)

\* Every event belongs to a run.
LEMMA CallsHaveRuns == ASSUME NEW e \in Calls PROVE RunOf(e) \in Run
<1>1. e.x \in Run \union Step \union Hook \union Wait
  BY DEF Calls
<1> QED BY <1>1, CreateAssumption DEF RunOf, HomeOf

\* Every step of a call is a step of the lock or leaves it alone.
LEMMA StepsUseLock == [Next]_vars => [LockNext]_lockVars
<1> SUFFICES ASSUME [Next]_vars PROVE [LockNext]_lockVars
  OBVIOUS
<1>1. ASSUME NEW c \in Caller, Create(c) PROVE LockNext
  BY <1>1, CallsHaveRuns DEF Create, LockNext
<1>2. ASSUME NEW c \in Caller, TakeLock(c) PROVE LockNext
  BY <1>2 DEF TakeLock, LockNext
<1>3. ASSUME NEW c \in Caller, LoadRun(c) \/ Validate(c) \/ Write(c)
      PROVE  UNCHANGED lockVars
  BY <1>3 DEF LoadRun, Validate, Write
<1>4. ASSUME NEW c \in Caller, Return(c) \/ Fail(c) PROVE LockNext
  BY <1>4 DEF Return, Fail, LockNext
<1>5. ASSUME NEW h \in Host, Die(h) PROVE LockNext
  BY <1>5 DEF Die, LockNext
<1>6. ASSUME NEW r \in Run, KeyExpires(r) PROVE LockNext
  BY <1>6 DEF KeyExpires, LockNext
<1>7. ASSUME NEW s \in Step, RetryDue(s) PROVE UNCHANGED lockVars
  BY <1>7 DEF RetryDue
<1>8. CASE UNCHANGED vars
  BY <1>8 DEF vars
<1> QED BY <1>1, <1>2, <1>3, <1>4, <1>5, <1>6, <1>7, <1>8 DEF Next

\* The event store uses the lock as RunLocks has it.
THEOREM UsesLock == Spec => LockSpec
<1>1. Init => LockInit
  BY DEF Init
<1>2. [Next]_vars => [LockNext]_lockVars
  BY StepsUseLock
<1> QED BY <1>1, <1>2, PTL DEF Spec, LockSpec

\* lock.ts:71: no two calls of one process are ever at work on the same run.
THEOREM CallsExcludeInHost == Spec => []HostExclusion
BY UsesLock, HostsExclude, PTL

\* Nor are two calls anywhere, until a key expires under its holder or a caller
\* gives up waiting for it; crashes and failing commands change nothing of it.
THEOREM CallsExclude == Spec => []Exclusion
BY UsesLock, LocksExclude, PTL

\* No call, however late it comes back, releases a key that is not its own.
THEOREM CallsSpareKeys == Spec => ReleaseSparesOthers
BY UsesLock, ReleasesSpareOthers, PTL

----------------------------------------------------------------------------
\* The Redis commands with their arguments.
Command ==
    [op : {"run", "index", "unindex"}, x : Run, v : RunStatus]
      \union [op : {"step"}, x : Step, v : StepEntity]
      \union [op : {"wait"}, x : Wait, v : WaitStatus]
      \union [op : {"hook", "unhook", "list", "unlist", "take", "claim", "dispose"},
              x : Hook, v : {""}]
      \union [op : {"free"}, x : Token, v : {""}]
      \union [op : {"append"}, x : Run, v : Event]
      \union [op : {"byId"}, x : Step \union Hook \union Wait, v : {""}]
      \union [op : {"cleanup"}, x : Run, v : {""}]

\* A command that says something of a step.
Loud(cmd) == cmd.op = "step" \/ (cmd.op = "append" /\ cmd.v.type \in Settling)
Quiet(cmds) == \A i \in 1 .. Len(cmds) : ~Loud(cmds[i])

\* A command writes data of the right types.
LEMMA ApplyTyped ==
    ASSUME NEW d \in Data, NEW cmd \in Command, cmd.op \notin Reading
    PROVE  Apply(d, cmd) \in Data
<1>1. CASE cmd \in [op : {"run", "index", "unindex"}, x : Run, v : RunStatus]
  <2>1. /\ [d.run EXCEPT ![cmd.x] = cmd.v] \in [Run -> RunStatus]
        /\ [d.byStatus EXCEPT ![cmd.v] = @ \union {cmd.x}] \in [RunStatus -> SUBSET Run]
        /\ [d.byStatus EXCEPT ![cmd.v] = @ \ {cmd.x}] \in [RunStatus -> SUBSET Run]
    BY <1>1 DEF Data
  <2> QED BY <1>1, <2>1 DEF Apply, Data
<1>2. CASE cmd \in [op : {"step"}, x : Step, v : StepEntity]
  <2>1. [d.step EXCEPT ![cmd.x] = cmd.v] \in [Step -> StepEntity]
    BY <1>2 DEF Data
  <2> QED BY <1>2, <2>1 DEF Apply, Data
<1>3. CASE cmd \in [op : {"wait"}, x : Wait, v : WaitStatus]
  <2>1. [d.wait EXCEPT ![cmd.x] = cmd.v] \in [Wait -> WaitStatus]
    BY <1>3 DEF Data
  <2> QED BY <1>3, <2>1 DEF Apply, Data
<1>4. CASE cmd \in [op : {"hook", "unhook", "list", "unlist", "take", "claim", "dispose"},
                    x : Hook, v : {""}]
  <2>1. /\ [d.claim EXCEPT ![HookToken[cmd.x]] = cmd.x] \in [Token -> Hook \union {None}]
        /\ d.hook \union {cmd.x} \in SUBSET Hook /\ d.hook \ {cmd.x} \in SUBSET Hook
        /\ d.byRun \union {cmd.x} \in SUBSET Hook /\ d.byRun \ {cmd.x} \in SUBSET Hook
    BY <1>4 DEF Data
  <2> QED BY <1>4, <2>1 DEF Reading, Apply, Data
<1>5. CASE cmd \in [op : {"free"}, x : Token, v : {""}]
  <2>1. [d.claim EXCEPT ![cmd.x] = None] \in [Token -> Hook \union {None}]
    BY DEF Data
  <2> QED BY <1>5, <2>1 DEF Apply, Data
<1>6. CASE cmd \in [op : {"append"}, x : Run, v : Event]
  <2>1. d.log \in [Run -> Seq(Event)] /\ cmd.x \in Run /\ cmd.v \in Event
    BY <1>6 DEF Data
  <2>2. [d.log EXCEPT ![cmd.x] = Append(@, cmd.v)] \in [Run -> Seq(Event)]
    BY <2>1
  <2> QED BY <1>6, <2>2 DEF Apply, Data
<1>7. CASE cmd \in [op : {"byId"}, x : Step \union Hook \union Wait, v : {""}]
  <2> DEFINE X == Step \union Hook \union Wait
  <2>1. d.byId \in [X -> Nat] /\ cmd.x \in X
    BY <1>7 DEF Data
  <2>2. [d.byId EXCEPT ![cmd.x] = @ + 1] \in [X -> Nat]
    <3> HIDE DEF X
    <3>1. d.byId[cmd.x] + 1 \in Nat
      BY <2>1
    <3> QED BY <2>1, <3>1
  <2> QED BY <1>7, <2>2 DEF Apply, Data
<1>8. CASE cmd \in [op : {"cleanup"}, x : Run, v : {""}]
  BY <1>8 DEF Reading
<1> QED BY <1>1, <1>2, <1>3, <1>4, <1>5, <1>6, <1>7, <1>8 DEF Command

LEMMA IntervalGrows == ASSUME NEW n \in Nat PROVE 1 .. n + 1 = (1 .. n) \union {n + 1}
OBVIOUS

\* An append settles the step it is about, if it settles any.
LEMMA AppendSettles ==
    ASSUME NEW d \in Data, NEW D, NEW r \in Run, NEW e \in Event, NEW s \in Step,
           D.log = [d.log EXCEPT ![r] = Append(@, e)]
    PROVE  SettledAt(D, s) = IF StepRun[s] = r /\ e.on = s /\ e.type \in Settling
                             THEN SettledAt(d, s) \union {Len(d.log[r]) + 1}
                             ELSE SettledAt(d, s)
<1> DEFINE q == StepRun[s]
           n == Len(d.log[q])
<1>1. q \in Run
  BY CreateAssumption
<1>2. d.log \in [Run -> Seq(Event)] /\ d.log[q] \in Seq(Event) /\ n \in Nat
  BY <1>1 DEF Data
<1>3. CASE q # r
  <2>1. D.log[q] = d.log[q]
    BY <1>1, <1>2, <1>3
  <2> QED BY <1>3, <2>1 DEF SettledAt
<1>4. CASE q = r
  <2>1. D.log[q] = Append(d.log[q], e)
    BY <1>1, <1>2, <1>4
  <2>2. Len(D.log[q]) = n + 1 /\ D.log[q][n + 1] = e
    BY <1>2, <2>1
  <2>3. \A i \in 1 .. n : D.log[q][i] = d.log[q][i]
    BY <1>2, <2>1
  <2>4. 1 .. n + 1 = (1 .. n) \union {n + 1}
    BY <1>2, IntervalGrows
  <2>5. CASE e.on = s /\ e.type \in Settling
    BY <1>4, <2>2, <2>3, <2>4, <2>5 DEF SettledAt
  <2>6. CASE ~(e.on = s /\ e.type \in Settling)
    BY <1>4, <2>2, <2>3, <2>4, <2>6 DEF SettledAt
  <2> QED BY <2>5, <2>6
<1> QED BY <1>3, <1>4

\* A quiet command leaves the steps and their settling alone.
LEMMA ApplyQuiet ==
    ASSUME NEW d \in Data, NEW cmd \in Command, cmd.op \notin Reading, ~Loud(cmd)
    PROVE  /\ Apply(d, cmd).step = d.step
           /\ \A s \in Step : SettledAt(Apply(d, cmd), s) = SettledAt(d, s)
<1>1. CASE cmd.op # "append"
  <2>1. Apply(d, cmd).step = d.step /\ Apply(d, cmd).log = d.log
    BY <1>1 DEF Command, Apply, Data, Loud, Reading
  <2> QED BY <2>1 DEF SettledAt
<1>2. CASE cmd.op = "append"
  <2>1. cmd.x \in Run /\ cmd.v \in Event /\ cmd.v.type \notin Settling
    BY <1>2 DEF Command, Loud
  <2>2. /\ Apply(d, cmd).step = d.step
        /\ Apply(d, cmd).log = [d.log EXCEPT ![cmd.x] = Append(@, cmd.v)]
    BY <1>2 DEF Apply, Data
  <2>3. ASSUME NEW D, D.log = [d.log EXCEPT ![cmd.x] = Append(@, cmd.v)], NEW s \in Step
        PROVE  SettledAt(D, s) = SettledAt(d, s)
    BY <2>1, <2>3, AppendSettles, SMTT(20)
  <2> QED BY <2>2, <2>3
<1> QED BY <1>1, <1>2

\* D is d with one more event, which settles s.
SettledBy(d, D, s) ==
    /\ D.step = d.step
    /\ \A z \in Step :
         SettledAt(D, z) = IF z = s
                           THEN SettledAt(d, z) \union {Len(d.log[StepRun[s]]) + 1}
                           ELSE SettledAt(d, z)

LEMMA ApplySettles ==
    ASSUME NEW d \in Data, NEW s \in Step, NEW type \in Settling
    PROVE  SettledBy(d, Apply(d, Cmd("append", StepRun[s], [type |-> type, on |-> s])), s)
<1> DEFINE r == StepRun[s]
           e == [type |-> type, on |-> s]
           D == Apply(d, Cmd("append", r, e))
<1>1. r \in Run /\ e \in Event
  BY CreateAssumption DEF Event, EventType, StepTypes, Settling
<1>2. D.step = d.step /\ D.log = [d.log EXCEPT ![r] = Append(@, e)]
  BY DEF Apply, Cmd, Data
<1>3. e.on = s /\ e.type \in Settling
  OBVIOUS
<1>4. ASSUME NEW E, NEW ev \in Event, ev.on = s, ev.type \in Settling,
             E.log = [d.log EXCEPT ![r] = Append(@, ev)], NEW z \in Step
      PROVE  SettledAt(E, z) = IF z = s THEN SettledAt(d, z) \union {Len(d.log[r]) + 1}
                               ELSE SettledAt(d, z)
  <2>1. SettledAt(E, z) = IF StepRun[z] = r /\ ev.on = z /\ ev.type \in Settling
                          THEN SettledAt(d, z) \union {Len(d.log[r]) + 1}
                          ELSE SettledAt(d, z)
    BY <1>1, <1>4, AppendSettles, SMTT(20)
  <2> QED BY <1>4, <2>1
<1>5. SettledAt(D, s) = SettledAt(d, s) \union {Len(d.log[r]) + 1}
  BY <1>1, <1>2, <1>3, <1>4
<1>6. ASSUME NEW z \in Step, z # s PROVE SettledAt(D, z) = SettledAt(d, z)
  BY <1>1, <1>2, <1>3, <1>4, <1>6
<1> QED BY <1>2, <1>5, <1>6 DEF SettledBy

----------------------------------------------------------------------------
\* Todo lists that say nothing of a step.
QuietList == {cmds \in Seq(Command) : Quiet(cmds)}

LEMMA QuietOne ==
    ASSUME NEW cmd \in Command, ~Loud(cmd)
    PROVE  <<cmd>> \in QuietList
BY DEF QuietList, Quiet

LEMMA QuietThree ==
    ASSUME NEW a \in Command, NEW b \in Command, NEW c \in Command,
           ~Loud(a), ~Loud(b), ~Loud(c)
    PROVE  <<a, b, c>> \in QuietList /\ Len(<<a, b, c>>) = 3
<1>1. \A i \in 1 .. 3 : i = 1 \/ i = 2 \/ i = 3
  OBVIOUS
<1> QED BY <1>1 DEF QuietList, Quiet

LEMMA QuietNone == <<>> \in QuietList
BY DEF QuietList, Quiet

LEMMA QuietConcat ==
    ASSUME NEW s \in QuietList, NEW t \in QuietList
    PROVE  s \o t \in QuietList
<1>1. s \in Seq(Command) /\ t \in Seq(Command)
  BY DEF QuietList
<1>2. /\ s \o t \in Seq(Command)
      /\ Len(s \o t) = Len(s) + Len(t)
      /\ \A i \in 1 .. Len(s) + Len(t) :
           (s \o t)[i] = IF i <= Len(s) THEN s[i] ELSE t[i - Len(s)]
  BY <1>1, ConcatProperties
<1>3. ASSUME NEW i \in 1 .. Len(s \o t) PROVE ~Loud((s \o t)[i])
  <2>1. CASE i <= Len(s)
    BY <1>1, <1>2, <1>3, <2>1 DEF QuietList, Quiet
  <2>2. CASE i > Len(s)
    <3>1. i - Len(s) \in 1 .. Len(t) /\ (s \o t)[i] = t[i - Len(s)]
      BY <1>1, <1>2, <1>3, <2>2
    <3> QED BY <3>1 DEF QuietList, Quiet
  <2> QED BY <1>1, <1>2, <2>1, <2>2
<1> QED BY <1>2, <1>3 DEF QuietList, Quiet

\* Recording an event that settles no step says nothing of one.
LEMMA RecordQuiet ==
    ASSUME NEW r \in Run, NEW type \in EventType \ Settling,
           NEW x \in Run \union Step \union Hook \union Wait
    PROVE  Record(r, type, x) \in QuietList
<1> DEFINE e == [type |-> type, on |-> x]
<1>1. e \in Event /\ e.type \notin Settling
  BY DEF Event
<1>2. <<Cmd("append", r, e)>> \in QuietList
  <2>1. Cmd("append", r, e) \in Command /\ ~Loud(Cmd("append", r, e))
    BY <1>1 DEF Command, Cmd, Loud
  <2> QED BY <2>1, QuietOne
<1>3. ASSUME x \notin Run PROVE <<Cmd("byId", x, "")>> \in QuietList
  <2>1. Cmd("byId", x, "") \in Command /\ ~Loud(Cmd("byId", x, ""))
    BY <1>3 DEF Command, Cmd, Loud
  <2> QED BY <2>1, QuietOne
<1> QED BY <1>2, <1>3, QuietNone, QuietConcat DEF Record

\* Nor does the writing of a run entity.
LEMMA WriteRunQuiet ==
    ASSUME NEW r \in Run, NEW from \in RunStatus, NEW to \in RunStatus
    PROVE  WriteRun(r, from, to) \in QuietList
<1>1. ASSUME NEW op \in {"run", "index", "unindex"}, NEW st \in RunStatus
      PROVE  <<Cmd(op, r, st)>> \in QuietList
  <2>1. Cmd(op, r, st) \in Command /\ ~Loud(Cmd(op, r, st))
    BY <1>1 DEF Command, Cmd, Loud
  <2> QED BY <2>1, QuietOne
<1>2. (IF from = "none" THEN <<>> ELSE <<Cmd("unindex", r, from)>>) \in QuietList
  BY <1>1, QuietNone
<1> QED BY <1>1, <1>2, QuietConcat DEF WriteRun

\* A finite set is listed by SetToSeq.
LEMMA Listed ==
    ASSUME NEW S, IsFiniteSet(S)
    PROVE  SetToSeq(S) \in Seq(S)
<1>1. Cardinality(S) \in Nat /\ ExistsBijection(1 .. Cardinality(S), S)
  BY FS_CardinalityType
<1>2. \E f \in [1 .. Cardinality(S) -> S] : IsInjective(f)
  BY <1>1 DEF ExistsBijection, Bijection, Injection
<1>3. SetToSeq(S) \in [1 .. Cardinality(S) -> S]
  BY <1>2 DEF SetToSeq
<1> QED BY <1>1, <1>3

\* Deleting a hook says nothing of a step.
LEMMA DeleteHookQuiet ==
    ASSUME NEW h \in Hook
    PROVE  DeleteHook(h) \in QuietList /\ Len(DeleteHook(h)) = 3
<1> DEFINE t == HookToken[h]
<1>1. t \in Token
  BY CreateAssumption
<1>2. /\ Cmd("unhook", h, "") \in Command /\ ~Loud(Cmd("unhook", h, ""))
      /\ Cmd("unlist", h, "") \in Command /\ ~Loud(Cmd("unlist", h, ""))
  BY DEF Command, Cmd, Loud
<1>3. Cmd("free", t, "") \in Command /\ ~Loud(Cmd("free", t, ""))
  BY <1>1 DEF Command, Cmd, Loud
<1> HIDE DEF t
<1> QED BY <1>2, <1>3, QuietThree DEF DeleteHook, t

\* The cleanup of a run says nothing of its steps.
LEMMA CleanupQuiet ==
    ASSUME NEW d \in Data, NEW r \in Run
    PROVE  HooksGone(d, r) \in QuietList /\ WaitsGone(r) \in QuietList
<1>1. HooksGone(d, r) \in QuietList
  <2> DEFINE H == {h \in d.byRun \intersect d.hook : HookRun[h] = r}
             mine == SetToSeq(H)
             n == Len(mine)
             At(i) == DeleteHook(mine[(i + 2) \div 3])[((i + 2) % 3) + 1]
  <2>1. mine \in Seq(Hook) /\ n \in Nat
    <3>1. H \in SUBSET Hook
      BY DEF Data
    <3>2. IsFiniteSet(H)
      BY <3>1, CreateAssumption, FS_Subset
    <3>3. mine \in Seq(H)
      BY <3>2, Listed
    <3> HIDE DEF mine, H
    <3> QED BY <3>1, <3>3, SeqMonotonic
  <2>2. ASSUME NEW h \in Hook, NEW k \in 1 .. 3
        PROVE  DeleteHook(h)[k] \in Command /\ ~Loud(DeleteHook(h)[k])
    BY DeleteHookQuiet DEF QuietList, Quiet
  <2>3. ASSUME NEW i \in 1 .. 3 * n PROVE At(i) \in Command /\ ~Loud(At(i))
    <3>1. (i + 2) \div 3 \in 1 .. n /\ ((i + 2) % 3) + 1 \in 1 .. 3
      BY <2>1, <2>3
    <3>2. mine[(i + 2) \div 3] \in Hook
      BY <2>1, <3>1
    <3> QED BY <2>2, <3>1, <3>2
  <2>4. HooksGone(d, r) = [i \in 1 .. 3 * n |-> At(i)]
    BY DEF HooksGone
  <2>5. 3 * n \in Nat
    BY <2>1
  <2> HIDE DEF At, n, mine
  <2> QED BY <2>3, <2>4, <2>5 DEF QuietList, Quiet
<1>2. WaitsGone(r) \in QuietList
  <2> DEFINE W == {w \in Wait : WaitRun[w] = r}
             mine == SetToSeq(W)
             n == Len(mine)
  <2>1. mine \in Seq(Wait) /\ n \in Nat
    <3>1. IsFiniteSet(W)
      BY CreateAssumption, FS_Subset
    <3>2. mine \in Seq(W)
      BY <3>1, Listed
    <3>3. W \in SUBSET Wait
      OBVIOUS
    <3> HIDE DEF mine, W
    <3> QED BY <3>2, <3>3, SeqMonotonic
  <2>2. ASSUME NEW i \in 1 .. n
        PROVE  Cmd("wait", mine[i], "none") \in Command /\ ~Loud(Cmd("wait", mine[i], "none"))
    <3>1. mine[i] \in Wait
      BY <2>1, <2>2
    <3> HIDE DEF mine
    <3> QED BY <3>1 DEF Command, Cmd, Loud, WaitStatus
  <2>3. WaitsGone(r) = [i \in 1 .. n |-> Cmd("wait", mine[i], "none")]
    BY DEF WaitsGone
  <2> HIDE DEF mine, n
  <2> QED BY <2>1, <2>2, <2>3 DEF QuietList, Quiet
<1> QED BY <1>1, <1>2

\* What a reading command comes to says nothing of a step.
LEMMA ExpandQuiet ==
    ASSUME NEW d \in Data, NEW cmd \in Command, cmd.op \in Reading
    PROVE  Expand(d, cmd) \in QuietList
<1>1. CASE cmd.op = "claim"
  <2> DEFINE h == cmd.x
             r == HookRun[h]
  <2>1. h \in Hook
    BY <1>1 DEF Command
  <2>2. r \in Run
    BY <2>1, CreateAssumption
  <2>3. /\ Record(r, "hook_created", h) \in QuietList
        /\ Record(r, "hook_conflict", h) \in QuietList
    BY <2>1, <2>2, RecordQuiet DEF EventType, HookTypes, Settling
  <2>5. <<Cmd("take", h, ""), Cmd("hook", h, ""), Cmd("list", h, "")>> \in QuietList
    <3>1. /\ Cmd("take", h, "") \in Command /\ ~Loud(Cmd("take", h, ""))
          /\ Cmd("hook", h, "") \in Command /\ ~Loud(Cmd("hook", h, ""))
          /\ Cmd("list", h, "") \in Command /\ ~Loud(Cmd("list", h, ""))
      BY <2>1 DEF Command, Cmd, Loud
    <3> QED BY <3>1, QuietThree
  <2>6. Expand(d, cmd) \in {<<Cmd("take", h, ""), Cmd("hook", h, ""), Cmd("list", h, "")>>
                              \o Record(r, "hook_created", h),
                            Record(r, "hook_conflict", h)}
    BY <1>1 DEF Expand
  <2> HIDE DEF h, r
  <2> QED BY <2>3, <2>5, <2>6, QuietConcat
<1>2. CASE cmd.op = "dispose"
  <2>1. cmd.x \in Hook
    BY <1>2 DEF Command
  <2>2. Expand(d, cmd) \in {DeleteHook(cmd.x), <<>>}
    BY <1>2 DEF Expand
  <2> QED BY <2>1, <2>2, DeleteHookQuiet, QuietNone
<1>3. CASE cmd.op = "cleanup"
  <2>1. cmd.x \in Run
    BY <1>3 DEF Command
  <2>2. Expand(d, cmd) = HooksGone(d, cmd.x) \o WaitsGone(cmd.x)
    BY <1>3 DEF Expand
  <2> QED BY <2>1, <2>2, CleanupQuiet, QuietConcat
<1> QED BY <1>1, <1>2, <1>3 DEF Reading

----------------------------------------------------------------------------
\* What validation makes of a call.
Terminal == {"completed", "failed"}

\* Of a run event, nothing about steps.
LEMMA RunPlansQuiet ==
    ASSUME NEW r \in Run, NEW type \in RunTypes, NEW seen \in RunStatus, NEW withData,
           NEW cmds \in RunPlans(r, type, seen, withData)
    PROVE  cmds \in QuietList
<1> DEFINE to == EndStatus(type)
<1>1. /\ WriteRun(r, "none", "pending") \in QuietList
      /\ WriteRun(r, "pending", "running") \in QuietList
      /\ WriteRun(r, seen, to) \in QuietList
  BY WriteRunQuiet DEF RunStatus, RunTerminal, EndStatus
<1>2. Record(r, type, r) \in QuietList /\ Record(r, "run_created", r) \in QuietList
  BY RecordQuiet DEF RunTypes, EventType, Settling
<1>3. <<Cmd("cleanup", r, "")>> \in QuietList
  <2>1. Cmd("cleanup", r, "") \in Command /\ ~Loud(Cmd("cleanup", r, ""))
    BY DEF Command, Cmd, Loud
  <2> QED BY <2>1, QuietOne
<1>4. cmds \in {WriteRun(r, "none", "pending") \o Record(r, type, r),
                <<>>,
                WriteRun(r, "pending", "running") \o Record(r, type, r),
                Record(r, type, r),
                WriteRun(r, "none", "pending") \o Record(r, "run_created", r)
                  \o WriteRun(r, "pending", "running") \o Record(r, type, r),
                WriteRun(r, seen, to) \o <<Cmd("cleanup", r, "")>> \o Record(r, type, r)}
  <2>1. CASE type = "run_created"
    BY <2>1 DEF RunPlans, Accept
  <2>2. CASE type = "run_started"
    BY <2>2 DEF RunPlans, Accept
  <2>3. CASE type \notin {"run_created", "run_started"}
    BY <2>3 DEF RunPlans, Accept
  <2> QED BY <2>1, <2>2, <2>3
<1> HIDE DEF to
<1>5. /\ WriteRun(r, "none", "pending") \o Record(r, type, r) \in QuietList
      /\ WriteRun(r, "pending", "running") \o Record(r, type, r) \in QuietList
  BY <1>1, <1>2, QuietConcat
<1>6. WriteRun(r, "none", "pending") \o Record(r, "run_created", r)
        \o WriteRun(r, "pending", "running") \o Record(r, type, r) \in QuietList
  <2>1. WriteRun(r, "none", "pending") \o Record(r, "run_created", r) \in QuietList
    BY <1>1, <1>2, QuietConcat
  <2>2. WriteRun(r, "none", "pending") \o Record(r, "run_created", r)
          \o WriteRun(r, "pending", "running") \in QuietList
    BY <1>1, <2>1, QuietConcat
  <2> QED BY <1>2, <2>2, QuietConcat
<1>7. WriteRun(r, seen, to) \o <<Cmd("cleanup", r, "")>> \o Record(r, type, r) \in QuietList
  <2>1. WriteRun(r, seen, to) \o <<Cmd("cleanup", r, "")>> \in QuietList
    BY <1>1, <1>3, QuietConcat
  <2> QED BY <1>2, <2>1, QuietConcat
<1> QED BY <1>2, <1>4, <1>5, <1>6, <1>7, QuietNone

\* Nor of an event of a hook or a wait.
LEMMA HookPlansQuiet ==
    ASSUME NEW h \in Hook, NEW type \in HookTypes, NEW seen, NEW live,
           NEW cmds \in HookPlans(h, type, seen, live)
    PROVE  cmds \in QuietList
<1> DEFINE r == HookRun[h]
<1>1. r \in Run
  BY CreateAssumption
<1>2. Record(r, type, h) \in QuietList
  BY <1>1, RecordQuiet DEF HookTypes, EventType, Settling
<1>3. ASSUME NEW op \in {"claim", "dispose"} PROVE <<Cmd(op, h, "")>> \in QuietList
  <2>1. Cmd(op, h, "") \in Command /\ ~Loud(Cmd(op, h, ""))
    BY <1>3 DEF Command, Cmd, Loud
  <2> QED BY <2>1, QuietOne
<1>4. cmds \in {<<Cmd("claim", h, "")>>, Record(r, type, h),
                <<Cmd("dispose", h, "")>> \o Record(r, type, h)}
  BY DEF HookPlans, Accept, HookTypes
<1> HIDE DEF r
<1> QED BY <1>2, <1>3, <1>4, QuietConcat

LEMMA WaitPlansQuiet ==
    ASSUME NEW w \in Wait, NEW type \in WaitTypes, NEW seen, NEW status,
           NEW cmds \in WaitPlans(w, type, seen, status)
    PROVE  cmds \in QuietList
<1> DEFINE r == WaitRun[w]
<1>1. r \in Run
  BY CreateAssumption
<1>2. Record(r, type, w) \in QuietList
  BY <1>1, RecordQuiet DEF WaitTypes, EventType, Settling
<1>3. ASSUME NEW st \in WaitStatus PROVE <<Cmd("wait", w, st)>> \in QuietList
  <2>1. Cmd("wait", w, st) \in Command /\ ~Loud(Cmd("wait", w, st))
    BY <1>3 DEF Command, Cmd, Loud
  <2> QED BY <2>1, QuietOne
<1>4. \E st \in WaitStatus : cmds = <<Cmd("wait", w, st)>> \o Record(r, type, w)
  BY DEF WaitPlans, Accept, WaitStatus
<1> HIDE DEF r
<1> QED BY <1>2, <1>3, <1>4, QuietConcat

\* Of a step event, the new entity and then the event, on an open step only; an
\* event that settles comes with an entity that is settled.
LEMMA StepPlansWrite ==
    ASSUME NEW s \in Step, NEW type \in StepTypes, NEW seen, NEW e \in StepEntity,
           NEW later \in BOOLEAN, NEW cmds \in StepPlans(s, type, seen, e, later)
    PROVE  /\ e.status \notin Terminal
           /\ \E new \in StepEntity :
                /\ type \in Settling => new.status \in Terminal
                /\ cmds = StepThenEvent(s, type, new)
<1>1. CASE type = "step_created"
  <2>1. /\ e.status = "none"
        /\ cmds = StepThenEvent(s, type, [NoStep EXCEPT !.status = "pending"])
    BY <1>1 DEF StepPlans, Accept
  <2>2. [NoStep EXCEPT !.status = "pending"] \in StepEntity
    BY DEF NoStep, StepEntity, StepStatus
  <2> QED BY <1>1, <2>1, <2>2 DEF Settling, Terminal
<1>2. CASE type = "step_started"
  <2> DEFINE new == [status |-> "running", attempt |-> e.attempt + 1, early |-> FALSE]
  <2>1. e.status \in {"pending", "running"} /\ cmds = StepThenEvent(s, type, new)
    BY <1>2 DEF StepPlans, Accept
  <2>2. new \in StepEntity
    BY DEF StepEntity, StepStatus
  <2> QED BY <1>2, <2>1, <2>2 DEF Settling, Terminal
<1>3. CASE type = "step_completed"
  <2>1. /\ e.status \in {"pending", "running"}
        /\ cmds = StepThenEvent(s, type, [e EXCEPT !.status = "completed"])
    BY <1>3 DEF StepPlans, Accept
  <2>2. [e EXCEPT !.status = "completed"] \in [status : {"completed"}, attempt : Nat, early : BOOLEAN]
    BY DEF StepEntity
  <2> QED BY <2>1, <2>2 DEF Terminal, StepEntity, StepStatus
<1>4. CASE type = "step_failed"
  <2>1. /\ e.status \in {"pending", "running"}
        /\ cmds = StepThenEvent(s, type, [e EXCEPT !.status = "failed"])
    BY <1>4 DEF StepPlans, Accept
  <2>2. [e EXCEPT !.status = "failed"] \in [status : {"failed"}, attempt : Nat, early : BOOLEAN]
    BY DEF StepEntity
  <2> QED BY <2>1, <2>2 DEF Terminal, StepEntity, StepStatus
<1>5. CASE type = "step_retrying"
  <2> DEFINE new == [e EXCEPT !.status = "pending", !.early = later]
  <2>1. e.status \in {"pending", "running"} /\ cmds = StepThenEvent(s, type, new)
    BY <1>5 DEF StepPlans, Accept
  <2>2. new \in StepEntity
    BY DEF StepEntity, StepStatus
  <2> QED BY <1>5, <2>1, <2>2 DEF Settling, Terminal
<1> QED BY <1>1, <1>2, <1>3, <1>4, <1>5 DEF StepTypes

\* What a call settled on says nothing of a step, or writes its own.
LEMMA PlansShape ==
    ASSUME NEW e \in Calls, NEW seen \in RunStatus, NEW d \in Data,
           NEW cmds \in Plans(e, seen, d)
    PROVE  \/ cmds \in QuietList
           \/ /\ e.x \in Step /\ e.type \in StepTypes
              /\ d.step[e.x].status \notin Terminal
              /\ \E new \in StepEntity :
                   /\ e.type \in Settling => new.status \in Terminal
                   /\ cmds = StepThenEvent(e.x, e.type, new)
<1>6. /\ e.type \in RunTypes => e.type \notin StepTypes \union HookTypes \union WaitTypes
      /\ e.type \in StepTypes => e.type \notin HookTypes \union WaitTypes
      /\ e.type \in HookTypes => e.type \notin WaitTypes
  BY DEF RunTypes, StepTypes, HookTypes, WaitTypes
<1>1. CASE e.type \in RunTypes
  <2>1. e.x \in Run
    BY <1>1 DEF Calls, RunTypes, StepTypes, HookTypes, WaitTypes
  <2>2. cmds \in RunPlans(e.x, e.type, seen, e.extra)
    BY <1>1, <1>6 DEF Plans
  <2> QED BY <1>1, <2>1, <2>2, RunPlansQuiet
<1>2. CASE e.type \in StepTypes
  <2>1. e.x \in Step /\ e.extra \in BOOLEAN
    BY <1>2 DEF Calls, RunTypes, StepTypes, HookTypes, WaitTypes
  <2>2. cmds \in StepPlans(e.x, e.type, seen, d.step[e.x], e.extra)
    BY <1>2, <1>6 DEF Plans
  <2>3. d.step[e.x] \in StepEntity
    BY <2>1 DEF Data
  <2> QED BY <1>2, <2>1, <2>2, <2>3, StepPlansWrite
<1>3. CASE e.type \in HookTypes
  <2>1. e.x \in Hook
    BY <1>3 DEF Calls, RunTypes, StepTypes, HookTypes, WaitTypes
  <2>2. cmds \in HookPlans(e.x, e.type, seen, e.x \in d.hook)
    BY <1>3, <1>6 DEF Plans
  <2> QED BY <1>3, <2>1, <2>2, HookPlansQuiet
<1>4. CASE e.type \in WaitTypes
  <2>1. e.x \in Wait
    BY <1>4 DEF Calls, RunTypes, StepTypes, HookTypes, WaitTypes
  <2>2. cmds \in WaitPlans(e.x, e.type, seen, d.wait[e.x])
    BY <1>4, <1>6 DEF Plans
  <2> QED BY <1>4, <2>1, <2>2, WaitPlansQuiet
<1>5. e.type \in RunTypes \union StepTypes \union HookTypes \union WaitTypes
  BY DEF Calls
<1> QED BY <1>1, <1>2, <1>3, <1>4, <1>5

----------------------------------------------------------------------------
\* The loud todo lists: a step entity and its event are to be written, or the
\* entity is written and the event that settles it is not.
Changes(e, cmds) ==
    /\ e.x \in Step /\ e.type \in StepTypes
    /\ \E new \in StepEntity :
         /\ e.type \in Settling => new.status \in Terminal
         /\ cmds = StepThenEvent(e.x, e.type, new)
Settles(e, cmds) ==
    /\ e.x \in Step /\ e.type \in Settling
    /\ cmds = Record(StepRun[e.x], e.type, e.x)
Shape(e, cmds) == cmds \in QuietList \/ Changes(e, cmds) \/ Settles(e, cmds)

\* What the writes about a step are.
LEMMA StepWrites ==
    ASSUME NEW s \in Step, NEW type, NEW new
    PROVE  LET r == StepRun[s] IN
           /\ Record(r, type, s)
                = <<Cmd("append", r, [type |-> type, on |-> s]), Cmd("byId", s, "")>>
           /\ StepThenEvent(s, type, new)
                = <<Cmd("step", s, new), Cmd("append", r, [type |-> type, on |-> s]),
                    Cmd("byId", s, "")>>
<1> DEFINE r == StepRun[s]
           a == Cmd("append", r, [type |-> type, on |-> s])
           b == Cmd("byId", s, "")
           st == Cmd("step", s, new)
<1>1. s \notin Run
  BY CreateAssumption
<1>2. Record(r, type, s) = <<a>> \o <<b>>
  BY <1>1 DEF Record
<1>3. StepThenEvent(s, type, new) = <<st>> \o (<<a>> \o <<b>>)
  BY <1>2 DEF StepThenEvent
<1>4. ASSUME NEW x, NEW y, NEW z
      PROVE  <<x>> \o <<y>> = <<x, y>> /\ <<z>> \o <<x, y>> = <<z, x, y>>
  <2> DEFINE S == {x, y, z}
  <2>1. /\ <<x>> \in Seq(S) /\ <<y>> \in Seq(S) /\ <<z>> \in Seq(S)
        /\ <<x, y>> \in Seq(S) /\ <<z, x, y>> \in Seq(S)
    OBVIOUS
  <2>2. <<x>> \o <<y>> = <<x, y>>
    <3>1. /\ <<x>> \o <<y>> \in Seq(S) /\ Len(<<x>> \o <<y>>) = 2
          /\ (<<x>> \o <<y>>)[1] = x /\ (<<x>> \o <<y>>)[2] = y
      BY <2>1, ConcatProperties
    <3>2. \A i \in 1 .. 2 : (<<x>> \o <<y>>)[i] = <<x, y>>[i]
      BY <3>1
    <3> QED BY <2>1, <3>1, <3>2, SeqEqual
  <2>3. <<z>> \o <<x, y>> = <<z, x, y>>
    <3>1. /\ <<z>> \o <<x, y>> \in Seq(S) /\ Len(<<z>> \o <<x, y>>) = 3
          /\ (<<z>> \o <<x, y>>)[1] = z /\ (<<z>> \o <<x, y>>)[2] = x
          /\ (<<z>> \o <<x, y>>)[3] = y
      BY <2>1, ConcatProperties
    <3>2. \A i \in 1 .. 3 : (<<z>> \o <<x, y>>)[i] = <<z, x, y>>[i]
      BY <3>1
    <3> QED BY <2>1, <3>1, <3>2, SeqEqual
  <2> QED BY <2>2, <2>3
<1> HIDE DEF a, b, st
<1>5. <<a>> \o <<b>> = <<a, b>> /\ <<st>> \o <<a, b>> = <<st, a, b>>
  BY <1>4
<1> QED BY <1>2, <1>3, <1>5 DEF a, b, st

\* The three kinds exclude each other.
LEMMA ShapesDiffer ==
    ASSUME NEW e, NEW cmds
    PROVE  /\ cmds \in QuietList => ~Changes(e, cmds) /\ ~Settles(e, cmds)
           /\ Changes(e, cmds) => ~Settles(e, cmds)
<1>1. ASSUME Changes(e, cmds) PROVE Len(cmds) = 3 /\ Loud(cmds[1])
  <2>1. PICK new \in StepEntity : cmds = StepThenEvent(e.x, e.type, new)
    BY <1>1 DEF Changes
  <2>2. cmds = <<Cmd("step", e.x, new),
                 Cmd("append", StepRun[e.x], [type |-> e.type, on |-> e.x]), Cmd("byId", e.x, "")>>
    BY <1>1, <2>1, StepWrites DEF Changes
  <2>3. Len(cmds) = 3 /\ cmds[1] = Cmd("step", e.x, new)
    BY <2>2
  <2> QED BY <2>3 DEF Loud, Cmd
<1>2. ASSUME Settles(e, cmds) PROVE Len(cmds) = 2 /\ Loud(cmds[1])
  <2>1. cmds = <<Cmd("append", StepRun[e.x], [type |-> e.type, on |-> e.x]), Cmd("byId", e.x, "")>>
    BY <1>2, StepWrites DEF Settles
  <2>2. Len(cmds) = 2 /\ cmds[1] = Cmd("append", StepRun[e.x], [type |-> e.type, on |-> e.x])
    BY <2>1
  <2> QED BY <1>2, <2>2 DEF Loud, Cmd, Settles
<1>3. ASSUME cmds \in QuietList, Len(cmds) \in {2, 3} PROVE ~Loud(cmds[1])
  BY <1>3 DEF QuietList, Quiet
<1> QED BY <1>1, <1>2, <1>3

\* A todo list is one of commands.
LEMMA ShapeTyped ==
    ASSUME NEW e, NEW cmds, Shape(e, cmds)
    PROVE  cmds \in Seq(Command)
<1>1. ASSUME NEW s \in Step, NEW type \in StepTypes, NEW new \in StepEntity
      PROVE  /\ Cmd("step", s, new) \in Command
             /\ Cmd("append", StepRun[s], [type |-> type, on |-> s]) \in Command
             /\ Cmd("byId", s, "") \in Command
  <2>1. StepRun[s] \in Run /\ [type |-> type, on |-> s] \in Event
    BY <1>1, CreateAssumption DEF Event, EventType
  <2> QED BY <1>1, <2>1 DEF Command, Cmd
<1>2. ASSUME NEW a \in Command, NEW b \in Command, NEW c \in Command
      PROVE  <<a, b>> \in Seq(Command) /\ <<a, b, c>> \in Seq(Command)
  OBVIOUS
<1>3. CASE cmds \in QuietList
  BY <1>3 DEF QuietList
<1>4. CASE Changes(e, cmds)
  <2>1. PICK new \in StepEntity : cmds = StepThenEvent(e.x, e.type, new)
    BY <1>4 DEF Changes
  <2> QED BY <1>1, <1>2, <1>4, <2>1, StepWrites DEF Changes
<1>5. CASE Settles(e, cmds)
  <2>1. e.type \in StepTypes /\ e.x \in Step
    BY <1>5 DEF Settles, Settling, StepTypes
  <2>2. cmds = <<Cmd("append", StepRun[e.x], [type |-> e.type, on |-> e.x]), Cmd("byId", e.x, "")>>
    BY <1>5, <2>1, StepWrites DEF Settles
  <2>3. NoStep \in StepEntity
    BY DEF NoStep, StepEntity, StepStatus
  <2> QED BY <1>1, <1>2, <2>1, <2>2, <2>3
<1> QED BY <1>3, <1>4, <1>5 DEF Shape

\* A quiet list read from its head.
LEMMA QuietHead ==
    ASSUME NEW cmds \in QuietList, cmds # <<>>
    PROVE  Head(cmds) \in Command /\ ~Loud(Head(cmds)) /\ Tail(cmds) \in QuietList
<1>1. cmds \in Seq(Command) /\ Len(cmds) \in Nat /\ Len(cmds) >= 1
  BY DEF QuietList
<1>2. Head(cmds) = cmds[1]
  BY <1>1
<1>3. /\ Tail(cmds) \in Seq(Command)
      /\ Len(Tail(cmds)) = Len(cmds) - 1
      /\ \A i \in 1 .. Len(Tail(cmds)) : Tail(cmds)[i] = cmds[i + 1] /\ i + 1 \in 1 .. Len(cmds)
  BY <1>1
<1>4. cmds[1] \in Command /\ ~Loud(cmds[1])
  BY <1>1 DEF QuietList, Quiet
<1>5. Tail(cmds) \in QuietList
  BY <1>3 DEF QuietList, Quiet
<1> QED BY <1>2, <1>4, <1>5

----------------------------------------------------------------------------
\* A call under way is one of the scene's, for its run.
CallOf(c) == Active(c) => call[c] \in Calls /\ on[c] = RunOf(call[c])

\* What a call decided is decided once it is validated.
TodoOf(c) ==
    /\ stage[c] # "write" => todo[c] = <<>>
    /\ Shape(call[c], todo[c])

CallInv ==
    /\ TypeOK
    /\ scene \in Scenes
    /\ seenRun \in [Caller -> RunStatus]
    /\ todo \in [Caller -> Seq(Command)]
    /\ \A c \in Caller : CallOf(c) /\ TodoOf(c)

\* A write of a quiet list leaves the steps alone; of a step's list, it writes
\* the entity or the event.
LEMMA WriteDoes ==
    ASSUME NEW c \in Caller, Write(c), db \in Data, todo \in [Caller -> Seq(Command)],
           Shape(call[c], todo[c])
    PROVE  /\ db' \in Data
           /\ todo' = [todo EXCEPT ![c] = todo'[c]]
           /\ \/ /\ todo'[c] \in QuietList
                 /\ db'.step = db.step
                 /\ \A s \in Step : SettledAt(db', s) = SettledAt(db, s)
              \/ /\ Changes(call[c], todo[c])
                 /\ todo'[c] \in QuietList \/ Settles(call[c], todo'[c])
                 /\ \E new \in StepEntity :
                      /\ call[c].type \in Settling => new.status \in Terminal
                      /\ db'.step = [db.step EXCEPT ![call[c].x] = new]
                 /\ \A s \in Step : SettledAt(db', s) = SettledAt(db, s)
              \/ /\ Settles(call[c], todo[c])
                 /\ todo'[c] \in QuietList
                 /\ SettledBy(db, db', call[c].x)
<1> DEFINE cmd == Head(todo[c])
           more == Tail(todo[c])
           e == call[c]
<1>1. todo[c] # <<>> /\ todo[c] \in Seq(Command)
  BY DEF Write
<1>2. todo' = [todo EXCEPT ![c] = todo'[c]]
  BY DEF Write
<1>3. ASSUME cmd.op \notin Reading PROVE db' = Apply(db, cmd) /\ todo'[c] = more
  BY <1>3 DEF Write
<1>4. CASE todo[c] \in QuietList
  <2>1. cmd \in Command /\ ~Loud(cmd) /\ more \in QuietList
    BY <1>1, <1>4, QuietHead
  <2>2. CASE cmd.op \notin Reading
    <3>1. db' = Apply(db, cmd) /\ todo'[c] \in QuietList
      BY <1>3, <2>1, <2>2
    <3> HIDE DEF cmd, more
    <3>2. /\ Apply(db, cmd) \in Data
          /\ Apply(db, cmd).step = db.step
          /\ \A s \in Step : SettledAt(Apply(db, cmd), s) = SettledAt(db, s)
      BY <2>1, <2>2, ApplyTyped, ApplyQuiet
    <3> QED BY <1>2, <3>1, <3>2
  <2>3. CASE cmd.op \in Reading
    <3> DEFINE cmds == Expand(db, cmd)
    <3>1. cmds \in QuietList
      BY <2>1, <2>3, ExpandQuiet
    <3>2. CASE cmds # <<>> /\ Head(cmds).op = "take"
      <4>1. db' = Apply(db, Head(cmds)) /\ todo'[c] = Tail(cmds) \o more
        BY <2>3, <3>2 DEF Write
      <4>2. /\ Head(cmds) \in Command /\ ~Loud(Head(cmds)) /\ Tail(cmds) \in QuietList
            /\ Head(cmds).op \notin Reading
        BY <3>1, <3>2, QuietHead DEF Reading
      <4>3. todo'[c] \in QuietList
        BY <2>1, <4>1, <4>2, QuietConcat
      <4> HIDE DEF cmd, more, cmds
      <4>4. /\ Apply(db, Head(cmds)) \in Data
            /\ Apply(db, Head(cmds)).step = db.step
            /\ \A s \in Step : SettledAt(Apply(db, Head(cmds)), s) = SettledAt(db, s)
        BY <4>2, ApplyTyped, ApplyQuiet
      <4> QED BY <1>2, <4>1, <4>3, <4>4
    <3>3. CASE ~(cmds # <<>> /\ Head(cmds).op = "take")
      <4>1. db' = db /\ todo'[c] = cmds \o more
        BY <2>3, <3>3 DEF Write
      <4>2. todo'[c] \in QuietList
        BY <2>1, <3>1, <4>1, QuietConcat
      <4> QED BY <1>2, <4>1, <4>2
    <3> QED BY <3>2, <3>3
  <2> QED BY <2>2, <2>3
<1>5. CASE Changes(e, todo[c])
  <2>1. PICK new \in StepEntity :
          /\ e.type \in Settling => new.status \in Terminal
          /\ todo[c] = StepThenEvent(e.x, e.type, new)
    BY <1>5 DEF Changes
  <2> DEFINE s == e.x
             a == Cmd("append", StepRun[s], [type |-> e.type, on |-> s])
             b == Cmd("byId", s, "")
             st == Cmd("step", s, new)
  <2>2. s \in Step /\ e.type \in StepTypes /\ StepRun[s] \in Run
    BY <1>5, CreateAssumption DEF Changes
  <2>3. todo[c] = <<st, a, b>> /\ Record(StepRun[s], e.type, s) = <<a, b>>
    BY <2>1, <2>2, StepWrites
  <2>4. cmd = st /\ more = <<a, b>>
    <3> HIDE DEF st, a, b
    <3> QED BY <2>3
  <2>5. st \in Command /\ st.op \notin Reading
    BY <2>2 DEF Command, Cmd, Reading
  <2>6. db' = Apply(db, st) /\ todo'[c] = Record(StepRun[s], e.type, s)
    BY <1>3, <2>3, <2>4, <2>5
  <2>7. db' \in Data
    BY <2>5, <2>6, ApplyTyped
  <2>8. db'.step = [db.step EXCEPT ![s] = new] /\ db'.log = db.log
    BY <2>6 DEF Apply, Cmd, Data
  <2>9. todo'[c] \in QuietList \/ Settles(e, todo'[c])
    <3>1. CASE e.type \in Settling
      BY <2>2, <2>6, <3>1 DEF Settles
    <3>2. CASE e.type \notin Settling
      BY <2>2, <2>6, <3>2, RecordQuiet DEF EventType
    <3> QED BY <3>1, <3>2
  <2>10. \A z \in Step : SettledAt(db', z) = SettledAt(db, z)
    BY <2>8 DEF SettledAt
  <2> QED BY <1>2, <1>5, <2>1, <2>7, <2>8, <2>9, <2>10
<1>6. CASE Settles(e, todo[c])
  <2> DEFINE s == e.x
             a == Cmd("append", StepRun[s], [type |-> e.type, on |-> s])
             b == Cmd("byId", s, "")
  <2>1. s \in Step /\ e.type \in Settling /\ StepRun[s] \in Run
    BY <1>6, CreateAssumption DEF Settles
  <2>2. todo[c] = <<a, b>>
    BY <1>6, <2>1, StepWrites DEF Settles
  <2>3. cmd = a /\ more = <<b>>
    <3> HIDE DEF a, b
    <3> QED BY <2>2
  <2>4. a \in Command /\ a.op \notin Reading
    <3>1. [type |-> e.type, on |-> s] \in Event
      BY <2>1 DEF Event, EventType, StepTypes, Settling
    <3> QED BY <2>1, <3>1 DEF Command, Cmd, Reading
  <2>5. db' = Apply(db, a) /\ todo'[c] = <<b>>
    BY <1>3, <2>3, <2>4
  <2>6. db' \in Data
    BY <2>4, <2>5, ApplyTyped
  <2>7. b \in Command /\ ~Loud(b)
    BY <2>1 DEF Command, Cmd, Loud
  <2>8. todo'[c] \in QuietList
    BY <2>5, <2>7, QuietOne
  <2>9. SettledBy(db, db', s)
    <3>1. SettledBy(db, Apply(db, a), s)
      BY <2>1, ApplySettles
    <3> QED BY <2>5, <3>1
  <2> QED BY <1>2, <1>6, <2>6, <2>8, <2>9
<1> QED BY <1>4, <1>5, <1>6 DEF Shape

----------------------------------------------------------------------------
\* currentRun is the status of a run, or none.
LEMMA LoadTyped ==
    ASSUME NEW e \in Calls, NEW d \in Data
    PROVE  Load(e, d) \in RunStatus
<1>1. d.run[RunOf(e)] \in RunStatus
  BY CallsHaveRuns DEF Data
<1> QED BY <1>1 DEF Load, RunStatus

\* A caller without a todo list has nothing in mind.
LEMMA NothingToDo == ASSUME NEW e PROVE Shape(e, <<>>) /\ <<>> \in Seq(Command)
BY QuietNone DEF Shape, QuietList

\* The initial state: After is known by what the scenes make of it.
LEMMA CallInit == Init => CallInv
<1> SUFFICES ASSUME Init PROVE CallInv
  OBVIOUS
<1>1. LockTypeOK
  BY ChainInit DEF Init, ChainInv
<1>2. db \in Data
  BY ScenesAssumption DEF Init
<1>3. calls \in 0 .. scene.calls /\ failures \in 0 .. MaxFailures
  BY CreateAssumption DEF Init
<1>4. TypeOK
  BY <1>1, <1>2, <1>3 DEF Init, TypeOK
<1>5. seenRun \in [Caller -> RunStatus] /\ todo \in [Caller -> Seq(Command)]
  BY NothingToDo DEF Init, RunStatus
<1>6. \A c \in Caller : CallOf(c) /\ TodoOf(c)
  BY NothingToDo DEF Init, LockInit, CallOf, TodoOf, Active
<1> QED BY <1>4, <1>5, <1>6 DEF Init, CallInv

\* The calls there can be stay the same.
LEMMA CallsStay == [Next]_vars => scene' = scene /\ Calls' = Calls
<1> SUFFICES ASSUME [Next]_vars PROVE scene' = scene /\ Calls' = Calls
  OBVIOUS
<1>1. scene' = scene
  BY DEF Next, vars, createVars, Create, TakeLock, LoadRun, Validate, Write, Return, Fail,
         Die, KeyExpires, RetryDue
<1> QED BY <1>1 DEF Calls

\* A step that leaves what the caller is doing alone.
Spared(c) ==
    /\ phase'[c] = phase[c] /\ on'[c] = on[c] /\ call'[c] = call[c]
    /\ stage'[c] = stage[c] /\ todo'[c] = todo[c]

LEMMA SparedKept ==
    ASSUME CallInv, [Next]_vars, NEW c \in Caller, Spared(c)
    PROVE  /\ CallOf(c)' /\ TodoOf(c)'
           /\ phase'[c] # "inside" => stage'[c] = "load" /\ todo'[c] = <<>>
<1>1. CallOf(c) /\ TodoOf(c) /\ (phase[c] # "inside" => stage[c] = "load" /\ todo[c] = <<>>)
  BY DEF CallInv, TypeOK
<1>2. Calls' = Calls
  BY CallsStay
<1>3. CallOf(c)'
  BY <1>1, <1>2 DEF CallOf, Active, Spared
<1>4. TodoOf(c)'
  BY <1>1 DEF TodoOf, Spared
<1> QED BY <1>1, <1>3, <1>4 DEF Spared

\* A caller that has stopped.
LEMMA StoppedKept ==
    ASSUME NEW c \in Caller, phase'[c] = "idle", stage'[c] = "load", todo'[c] = <<>>
    PROVE  /\ CallOf(c)' /\ TodoOf(c)'
           /\ phase'[c] # "inside" => stage'[c] = "load" /\ todo'[c] = <<>>
BY NothingToDo DEF CallOf, TodoOf, Active

\* What every step of CallInv's preservation comes to.
LEMMA CallInvAgain ==
    ASSUME CallInv, ChainInv, [Next]_vars,
           db' \in Data,
           call' \in [Caller -> Calls \union {NoCall}],
           stage' \in [Caller -> {"load", "check", "write"}],
           seenRun' \in [Caller -> RunStatus],
           todo' \in [Caller -> Seq(Command)],
           calls' \in 0 .. scene.calls, failures' \in 0 .. MaxFailures,
           \A c \in Caller :
             /\ CallOf(c)' /\ TodoOf(c)'
             /\ phase'[c] # "inside" => stage'[c] = "load" /\ todo'[c] = <<>>
    PROVE  CallInv'
<1>1. LockTypeOK'
  BY StepsUseLock, LockTyped DEF ChainInv
<1>2. scene' = scene /\ Calls' = Calls
  BY CallsStay
<1>3. TypeOK'
  BY <1>1, <1>2 DEF TypeOK
<1> QED BY <1>2, <1>3 DEF CallInv

LEMMA CallCreate ==
    ASSUME CallInv, ChainInv, NEW c \in Caller, Create(c)
    PROVE  CallInv'
<1>1. [Next]_vars
  BY DEF Next
<1>2. PICK e \in Calls : Call(c, RunOf(e)) /\ call' = [call EXCEPT ![c] = e]
  BY DEF Create
<1>3. call' \in [Caller -> Calls \union {NoCall}] /\ call'[c] = e
  BY <1>2 DEF CallInv, TypeOK
<1>4. calls' \in 0 .. scene.calls
  BY CreateAssumption DEF Create, CallInv, TypeOK
<1>5. /\ phase' = [phase EXCEPT ![c] = "waiting"] /\ on' = [on EXCEPT ![c] = RunOf(e)]
      /\ phase[c] = "idle"
  BY <1>2 DEF Call
<1>6. phase'[c] = "waiting" /\ on'[c] = RunOf(e)
  BY <1>5 DEF CallInv, TypeOK, LockTypeOK
<1>7. UNCHANGED <<db, stage, seenRun, todo, failures>>
  BY DEF Create
<1>8. stage[c] = "load" /\ todo[c] = <<>>
  BY <1>5 DEF CallInv, TypeOK
<1>9. ASSUME NEW d \in Caller
      PROVE  /\ CallOf(d)' /\ TodoOf(d)'
             /\ phase'[d] # "inside" => stage'[d] = "load" /\ todo'[d] = <<>>
  <2>1. CASE d = c
    <3>1. CallOf(c)'
      BY <1>1, <1>3, <1>6, CallsStay DEF CallOf
    <3>2. TodoOf(c)'
      BY <1>7, <1>8, NothingToDo DEF TodoOf
    <3> QED BY <1>7, <1>8, <2>1, <3>1, <3>2
  <2>2. CASE d # c
    <3>1. Spared(d)
      BY <1>2, <1>5, <1>7, <2>2 DEF Spared, CallInv, TypeOK, LockTypeOK
    <3> QED BY <1>1, <3>1, SparedKept
  <2> QED BY <2>1, <2>2
<1>10. /\ db' \in Data /\ stage' \in [Caller -> {"load", "check", "write"}]
       /\ seenRun' \in [Caller -> RunStatus] /\ todo' \in [Caller -> Seq(Command)]
       /\ failures' \in 0 .. MaxFailures
  BY <1>7 DEF CallInv, TypeOK
<1> QED BY <1>1, <1>3, <1>4, <1>9, <1>10, CallInvAgain

LEMMA CallTakeLock ==
    ASSUME CallInv, ChainInv, NEW c \in Caller, TakeLock(c)
    PROVE  CallInv'
<1>1. [Next]_vars
  BY DEF Next
<1>2. UNCHANGED createVars /\ on' = on
  BY DEF TakeLock, Acquire, GiveUp, Enter
<1>3. phase[c] = "waiting" /\ phase' = [phase EXCEPT ![c] = "inside"]
  BY DEF TakeLock, Acquire, GiveUp, Turn, Enter
<1>4. phase'[c] = "inside"
  BY <1>3 DEF CallInv, TypeOK, LockTypeOK
<1>5. ASSUME NEW d \in Caller
      PROVE  /\ CallOf(d)' /\ TodoOf(d)'
             /\ phase'[d] # "inside" => stage'[d] = "load" /\ todo'[d] = <<>>
  <2>1. CASE d = c
    <3>1. CallOf(c) /\ TodoOf(c) /\ Active(c)
      BY <1>3 DEF CallInv, Active
    <3>2. CallOf(c)'
      BY <1>1, <1>2, <3>1, CallsStay DEF CallOf, createVars
    <3>3. TodoOf(c)'
      BY <1>2, <3>1 DEF TodoOf, createVars
    <3> QED BY <1>4, <2>1, <3>2, <3>3
  <2>2. CASE d # c
    <3>1. Spared(d)
      BY <1>2, <1>3, <2>2 DEF Spared, createVars, CallInv, TypeOK, LockTypeOK
    <3> QED BY <1>1, <3>1, SparedKept
  <2> QED BY <2>1, <2>2
<1>6. /\ db' \in Data /\ call' \in [Caller -> Calls \union {NoCall}]
      /\ stage' \in [Caller -> {"load", "check", "write"}]
      /\ seenRun' \in [Caller -> RunStatus] /\ todo' \in [Caller -> Seq(Command)]
      /\ calls' \in 0 .. scene.calls /\ failures' \in 0 .. MaxFailures
  BY <1>2 DEF createVars, CallInv, TypeOK
<1> QED BY <1>1, <1>5, <1>6, CallInvAgain

\* A step of one caller inside its lock.
LEMMA InsideKept ==
    ASSUME CallInv, [Next]_vars, NEW c \in Caller, phase[c] = "inside",
           UNCHANGED lockVars, call' = call, TodoOf(c)',
           stage' = [stage EXCEPT ![c] = stage'[c]], todo' = [todo EXCEPT ![c] = todo'[c]],
           NEW d \in Caller
    PROVE  /\ CallOf(d)' /\ TodoOf(d)'
           /\ phase'[d] # "inside" => stage'[d] = "load" /\ todo'[d] = <<>>
<1>1. phase' = phase /\ on' = on
  BY DEF lockVars
<1>2. CASE d = c
  <2>1. CallOf(c)'
    BY <1>1, CallsStay DEF CallOf, Active, CallInv
  <2> QED BY <1>1, <1>2, <2>1
<1>3. CASE d # c
  <2>1. stage'[d] = stage[d] /\ todo'[d] = todo[d]
    BY <1>3 DEF CallInv, TypeOK
  <2>2. Spared(d)
    BY <1>1, <2>1 DEF Spared
  <2> QED BY <2>2, SparedKept
<1> QED BY <1>2, <1>3

LEMMA CallLoadRun ==
    ASSUME CallInv, ChainInv, NEW c \in Caller, LoadRun(c)
    PROVE  CallInv'
<1>1. [Next]_vars
  BY DEF Next
<1>2. /\ phase[c] = "inside" /\ stage[c] = "load"
      /\ UNCHANGED <<lockVars, scene, db, call, todo, decided, calls, failures>>
      /\ seenRun' = [seenRun EXCEPT ![c] = Load(call[c], db)]
      /\ stage' = [stage EXCEPT ![c] = "check"]
  BY DEF LoadRun
<1>3. CallOf(c) /\ TodoOf(c) /\ Active(c)
  BY <1>2 DEF CallInv, Active
<1>4. stage' \in [Caller -> {"load", "check", "write"}] /\ stage'[c] = "check"
  BY <1>2 DEF CallInv, TypeOK
<1>5. seenRun' \in [Caller -> RunStatus]
  <2>1. Load(call[c], db) \in RunStatus
    BY <1>3, LoadTyped DEF CallOf, CallInv, TypeOK
  <2> QED BY <1>2, <2>1 DEF CallInv
<1>6. todo[c] = <<>>
  BY <1>2, <1>3 DEF TodoOf
<1>7. TodoOf(c)'
  BY <1>2, <1>6, NothingToDo DEF TodoOf
<1>8. stage' = [stage EXCEPT ![c] = stage'[c]] /\ todo' = [todo EXCEPT ![c] = todo'[c]]
  BY <1>2, <1>4 DEF CallInv
<1>9. /\ db' \in Data /\ call' \in [Caller -> Calls \union {NoCall}]
      /\ todo' \in [Caller -> Seq(Command)]
      /\ calls' \in 0 .. scene.calls /\ failures' \in 0 .. MaxFailures
  BY <1>2 DEF CallInv, TypeOK
<1>10. \A d \in Caller :
         /\ CallOf(d)' /\ TodoOf(d)'
         /\ phase'[d] # "inside" => stage'[d] = "load" /\ todo'[d] = <<>>
  BY <1>1, <1>2, <1>7, <1>8, InsideKept
<1> QED BY <1>1, <1>4, <1>5, <1>9, <1>10, CallInvAgain

LEMMA CallValidate ==
    ASSUME CallInv, ChainInv, NEW c \in Caller, Validate(c)
    PROVE  CallInv'
<1>1. [Next]_vars
  BY DEF Next
<1>2. /\ phase[c] = "inside"
      /\ UNCHANGED <<lockVars, scene, db, call, seenRun, calls, failures>>
      /\ stage' = [stage EXCEPT ![c] = "write"]
  BY DEF Validate
<1>3. PICK cmds \in Plans(call[c], seenRun[c], db) : todo' = [todo EXCEPT ![c] = cmds]
  BY DEF Validate
<1>4. call[c] \in Calls
  BY <1>2 DEF CallInv, CallOf, Active
<1>5. seenRun[c] \in RunStatus /\ db \in Data
  BY DEF CallInv, TypeOK
<1>6. Shape(call[c], cmds)
  BY <1>3, <1>4, <1>5, PlansShape DEF Shape, Changes
<1>7. cmds \in Seq(Command)
  BY <1>6, ShapeTyped
<1>8. /\ todo' \in [Caller -> Seq(Command)] /\ todo'[c] = cmds
      /\ todo' = [todo EXCEPT ![c] = todo'[c]]
  BY <1>3, <1>7 DEF CallInv
<1>9. /\ stage' \in [Caller -> {"load", "check", "write"}] /\ stage'[c] = "write"
      /\ stage' = [stage EXCEPT ![c] = stage'[c]]
  BY <1>2 DEF CallInv, TypeOK
<1>10. TodoOf(c)'
  BY <1>2, <1>6, <1>8, <1>9 DEF TodoOf
<1>11. /\ db' \in Data /\ call' \in [Caller -> Calls \union {NoCall}]
       /\ seenRun' \in [Caller -> RunStatus]
       /\ calls' \in 0 .. scene.calls /\ failures' \in 0 .. MaxFailures
  BY <1>2 DEF CallInv, TypeOK
<1>12. \A d \in Caller :
         /\ CallOf(d)' /\ TodoOf(d)'
         /\ phase'[d] # "inside" => stage'[d] = "load" /\ todo'[d] = <<>>
  BY <1>1, <1>2, <1>8, <1>9, <1>10, InsideKept
<1> QED BY <1>1, <1>8, <1>9, <1>11, <1>12, CallInvAgain

LEMMA CallWrite ==
    ASSUME CallInv, ChainInv, NEW c \in Caller, Write(c)
    PROVE  CallInv'
<1>1. [Next]_vars
  BY DEF Next
<1>2. /\ phase[c] = "inside" /\ stage[c] = "write"
      /\ UNCHANGED <<lockVars, scene, call, stage, seenRun, decided, calls, failures>>
  BY DEF Write
<1>3. db \in Data /\ todo \in [Caller -> Seq(Command)] /\ Shape(call[c], todo[c])
  BY DEF CallInv, TypeOK, TodoOf
<1>4. db' \in Data /\ todo' = [todo EXCEPT ![c] = todo'[c]]
  BY <1>3, WriteDoes
<1>5. Shape(call[c], todo'[c])
  BY <1>3, WriteDoes DEF Shape
<1>6. todo' \in [Caller -> Seq(Command)]
  BY <1>3, <1>4, <1>5, ShapeTyped
<1>7. TodoOf(c)'
  BY <1>2, <1>5 DEF TodoOf
<1>8. stage' = [stage EXCEPT ![c] = stage'[c]]
  BY <1>2 DEF CallInv, TypeOK
<1>9. /\ call' \in [Caller -> Calls \union {NoCall}] /\ seenRun' \in [Caller -> RunStatus]
      /\ stage' \in [Caller -> {"load", "check", "write"}]
      /\ calls' \in 0 .. scene.calls /\ failures' \in 0 .. MaxFailures
  BY <1>2 DEF CallInv, TypeOK
<1>10. \A d \in Caller :
         /\ CallOf(d)' /\ TodoOf(d)'
         /\ phase'[d] # "inside" => stage'[d] = "load" /\ todo'[d] = <<>>
  BY <1>1, <1>2, <1>4, <1>7, <1>8, InsideKept
<1> QED BY <1>1, <1>4, <1>6, <1>9, <1>10, CallInvAgain

LEMMA CallLeave ==
    ASSUME CallInv, ChainInv, NEW c \in Caller, Return(c) \/ Fail(c)
    PROVE  CallInv'
<1>1. [Next]_vars
  BY DEF Next
<1>2. Leave(c) /\ Reset(c) /\ UNCHANGED <<scene, db, calls>>
  BY DEF Return, Fail
<1>3. failures' \in 0 .. MaxFailures
  BY CreateAssumption DEF Return, Fail, CallInv, TypeOK
<1>4. /\ phase' = [phase EXCEPT ![c] = "idle"] /\ on' = [on EXCEPT ![c] = None]
      /\ call' = [call EXCEPT ![c] = NoCall] /\ stage' = [stage EXCEPT ![c] = "load"]
      /\ seenRun' = [seenRun EXCEPT ![c] = "none"] /\ todo' = [todo EXCEPT ![c] = <<>>]
  BY <1>2 DEF Leave, Reset
<1>5. ASSUME NEW d \in Caller
      PROVE  /\ CallOf(d)' /\ TodoOf(d)'
             /\ phase'[d] # "inside" => stage'[d] = "load" /\ todo'[d] = <<>>
  <2>1. CASE d = c
    <3>1. phase'[c] = "idle" /\ stage'[c] = "load" /\ todo'[c] = <<>>
      BY <1>4 DEF CallInv, TypeOK, LockTypeOK
    <3> QED BY <2>1, <3>1, StoppedKept
  <2>2. CASE d # c
    <3>1. Spared(d)
      BY <1>4, <2>2 DEF Spared, CallInv, TypeOK, LockTypeOK
    <3> QED BY <1>1, <3>1, SparedKept
  <2> QED BY <2>1, <2>2
<1>6. /\ db' \in Data /\ call' \in [Caller -> Calls \union {NoCall}]
      /\ stage' \in [Caller -> {"load", "check", "write"}]
      /\ calls' \in 0 .. scene.calls
  BY <1>2, <1>4 DEF CallInv, TypeOK
<1>7. seenRun' \in [Caller -> RunStatus] /\ todo' \in [Caller -> Seq(Command)]
  BY <1>4, NothingToDo DEF CallInv, RunStatus
<1> QED BY <1>1, <1>3, <1>5, <1>6, <1>7, CallInvAgain

LEMMA CallDie ==
    ASSUME CallInv, ChainInv, NEW h \in Host, Die(h)
    PROVE  CallInv'
<1> DEFINE dead == {c \in Caller : HostOf[c] = h}
<1>1. [Next]_vars
  BY DEF Next
<1>2. /\ phase' = [c \in Caller |-> IF c \in dead THEN "idle" ELSE phase[c]]
      /\ on' = [c \in Caller |-> IF c \in dead THEN None ELSE on[c]]
  BY DEF Die, CrashHost
<1>3. /\ call' = [c \in Caller |-> IF c \in dead THEN NoCall ELSE call[c]]
      /\ stage' = [c \in Caller |-> IF c \in dead THEN "load" ELSE stage[c]]
      /\ seenRun' = [c \in Caller |-> IF c \in dead THEN "none" ELSE seenRun[c]]
      /\ todo' = [c \in Caller |-> IF c \in dead THEN <<>> ELSE todo[c]]
      /\ UNCHANGED <<scene, db, decided, calls, failures>>
  BY DEF Die
<1> HIDE DEF dead
<1>4. ASSUME NEW d \in Caller
      PROVE  /\ CallOf(d)' /\ TodoOf(d)'
             /\ phase'[d] # "inside" => stage'[d] = "load" /\ todo'[d] = <<>>
  <2>1. CASE d \in dead
    <3>1. phase'[d] = "idle" /\ stage'[d] = "load" /\ todo'[d] = <<>>
      BY <1>2, <1>3, <2>1
    <3> QED BY <3>1, StoppedKept
  <2>2. CASE d \notin dead
    <3>1. Spared(d)
      BY <1>2, <1>3, <2>2 DEF Spared
    <3> QED BY <1>1, <3>1, SparedKept
  <2> QED BY <2>1, <2>2
<1>5. /\ db' \in Data /\ call' \in [Caller -> Calls \union {NoCall}]
      /\ stage' \in [Caller -> {"load", "check", "write"}]
      /\ calls' \in 0 .. scene.calls /\ failures' \in 0 .. MaxFailures
  BY <1>3 DEF CallInv, TypeOK
<1>6. seenRun' \in [Caller -> RunStatus] /\ todo' \in [Caller -> Seq(Command)]
  BY <1>3, NothingToDo DEF CallInv, RunStatus
<1> QED BY <1>1, <1>4, <1>5, <1>6, CallInvAgain

LEMMA CallAside ==
    ASSUME CallInv, ChainInv,
           \/ \E r \in Run : KeyExpires(r)
           \/ \E s \in Step : RetryDue(s)
           \/ UNCHANGED vars
    PROVE  CallInv'
<1>1. [Next]_vars
  BY DEF Next
<1>2. /\ phase' = phase /\ on' = on
      /\ UNCHANGED <<scene, call, stage, seenRun, todo, calls, failures>>
  BY DEF KeyExpires, Expire, RetryDue, vars, createVars, lockVars
<1>3. ASSUME NEW d \in Caller
      PROVE  /\ CallOf(d)' /\ TodoOf(d)'
             /\ phase'[d] # "inside" => stage'[d] = "load" /\ todo'[d] = <<>>
  <2>1. Spared(d)
    BY <1>2 DEF Spared
  <2> QED BY <1>1, <2>1, SparedKept
<1>4. db' \in Data
  <2>1. CASE db' = db
    BY <2>1 DEF CallInv, TypeOK
  <2>2. CASE \E s \in Step : RetryDue(s)
    <3>1. PICK s \in Step : RetryDue(s)
      BY <2>2
    <3>2. db \in Data /\ db' = [db EXCEPT !.step[s].early = FALSE]
      BY <3>1 DEF RetryDue, CallInv, TypeOK
    <3>3. [db.step EXCEPT ![s].early = FALSE] \in [Step -> StepEntity]
      BY <3>2 DEF Data, StepEntity
    <3> QED BY <3>2, <3>3 DEF Data
  <2> QED BY <2>1, <2>2 DEF KeyExpires, vars, createVars
<1>5. /\ call' \in [Caller -> Calls \union {NoCall}]
      /\ stage' \in [Caller -> {"load", "check", "write"}]
      /\ seenRun' \in [Caller -> RunStatus] /\ todo' \in [Caller -> Seq(Command)]
      /\ calls' \in 0 .. scene.calls /\ failures' \in 0 .. MaxFailures
  BY <1>2 DEF CallInv, TypeOK
<1> QED BY <1>1, <1>3, <1>4, <1>5, CallInvAgain

LEMMA CallInvKept == CallInv /\ ChainInv /\ [Next]_vars => CallInv'
BY CallCreate, CallTakeLock, CallLoadRun, CallValidate, CallWrite, CallLeave, CallDie,
   CallAside DEF Next

\* Every state of a call has the right types, whatever went wrong: what a call
\* holds is a todo list of its own event, and only inside the lock.
THEOREM TypeCorrect == Spec => []TypeOK
<1>1. Init => CallInv
  BY CallInit
<1>2. CallInv /\ ChainInv /\ [Next]_vars => CallInv'
  BY CallInvKept
<1>3. CallInv => TypeOK
  BY DEF CallInv
<1> QED BY <1>1, <1>2, <1>3, UsesLock, ChainInvariant, PTL DEF Spec

----------------------------------------------------------------------------
\* A step is settled by one event at most and only when it reads as settled;
\* whoever is about to write it has found it open, or is about to say that it
\* has just been settled.
StepInv(s) ==
    /\ \A i, j \in SettledAt(db, s) : i = j
    /\ SettledAt(db, s) # {} => db.step[s].status \in Terminal
    /\ \A c \in Caller : call[c].x = s =>
         /\ Changes(call[c], todo[c]) \/ Settles(call[c], todo[c]) => SettledAt(db, s) = {}
         /\ Settles(call[c], todo[c]) => db.step[s].status \in Terminal

Sound == expiries = 0 /\ giveUps = 0
SettleInv == Sound => \A s \in Step : StepInv(s)

\* What went wrong stays wrong.
LEMMA SoundBefore ==
    ASSUME CallInv, ChainInv, [Next]_vars, Sound'
    PROVE  Sound
<1>1. expiries \in Nat /\ giveUps \in Nat
  BY LocksAssumption DEF ChainInv, LockTypeOK
<1>2. [LockNext]_lockVars
  BY StepsUseLock
<1>3. expiries' \in {expiries, expiries + 1} /\ giveUps' \in {giveUps, giveUps + 1}
  BY <1>2 DEF LockNext, lockVars, Call, Acquire, GiveUp, Leave, Expire, CrashHost, Enter
<1> QED BY <1>1, <1>3 DEF Sound

\* Nobody else is at work on the step of a call inside.
LEMMA StepAlone ==
    ASSUME CallInv, Exclusion, Sound, NEW c \in Caller, NEW d \in Caller, c # d,
           phase[c] = "inside", call[c].x = call[d].x
    PROVE  todo[d] = <<>>
<1>1. SUFFICES ASSUME todo[d] # <<>> PROVE FALSE
  OBVIOUS
<1>2. phase[d] = "inside"
  BY <1>1 DEF CallInv, TypeOK
<1>3. on[c] = RunOf(call[c]) /\ on[d] = RunOf(call[d])
  BY <1>2 DEF CallInv, CallOf, Active
<1>4. RunOf(call[c]) = RunOf(call[d])
  BY DEF RunOf
<1> QED BY <1>2, <1>3, <1>4 DEF Exclusion, Sound

\* A step that nothing is said of.
LEMMA StepKept ==
    ASSUME NEW s \in Step, StepInv(s),
           SettledAt(db', s) = SettledAt(db, s),
           db'.step[s].status = db.step[s].status,
           \A c \in Caller : call'[c].x = s =>
             \/ todo'[c] \in QuietList
             \/ call'[c] = call[c] /\ todo'[c] = todo[c]
    PROVE  StepInv(s)'
<1>1. ASSUME NEW c \in Caller, call'[c].x = s
      PROVE  /\ Changes(call'[c], todo'[c]) \/ Settles(call'[c], todo'[c])
                  => SettledAt(db', s) = {}
             /\ Settles(call'[c], todo'[c]) => db'.step[s].status \in Terminal
  <2>1. CASE todo'[c] \in QuietList
    BY <2>1, ShapesDiffer
  <2>2. CASE call'[c] = call[c] /\ todo'[c] = todo[c]
    BY <1>1, <2>2 DEF StepInv
  <2> QED BY <1>1, <2>1, <2>2
<1> QED BY <1>1 DEF StepInv

\* Initially, by what the scenes leave.
LEMMA SettleInit == Init => SettleInv
<1> SUFFICES ASSUME Init, NEW s \in Step PROVE StepInv(s)
  BY DEF SettleInv
<1>1. /\ \A i, j \in SettledAt(db, s) : i = j
      /\ SettledAt(db, s) # {} => db.step[s].status \in Terminal
  BY ScenesAssumption DEF Init, Terminal
<1>2. ASSUME NEW c \in Caller
      PROVE  ~Changes(call[c], todo[c]) /\ ~Settles(call[c], todo[c])
  <2>1. todo[c] \in QuietList
    BY QuietNone DEF Init
  <2> QED BY <2>1, ShapesDiffer
<1> QED BY <1>1, <1>2 DEF StepInv

LEMMA SettleValidate ==
    ASSUME CallInv, NEW c \in Caller, Validate(c), NEW s \in Step, StepInv(s)
    PROVE  StepInv(s)'
<1>1. phase[c] = "inside" /\ db' = db /\ call' = call
  BY DEF Validate
<1>2. PICK cmds \in Plans(call[c], seenRun[c], db) : todo' = [todo EXCEPT ![c] = cmds]
  BY DEF Validate
<1>3. todo'[c] = cmds /\ \A d \in Caller : d # c => todo'[d] = todo[d]
  BY <1>2 DEF CallInv
<1>4. call[c] \in Calls /\ seenRun[c] \in RunStatus /\ db \in Data
  BY <1>1 DEF CallInv, CallOf, Active, TypeOK
<1>5. CASE cmds \in QuietList \/ call[c].x # s
  <2>1. \A d \in Caller : call'[d].x = s =>
          \/ todo'[d] \in QuietList
          \/ call'[d] = call[d] /\ todo'[d] = todo[d]
    BY <1>1, <1>3, <1>5
  <2> QED BY <1>1, <2>1, StepKept
<1>6. CASE cmds \notin QuietList /\ call[c].x = s
  <2>1. db.step[s].status \notin Terminal /\ Changes(call[c], cmds)
    BY <1>2, <1>4, <1>6, PlansShape DEF Changes
  <2>2. SettledAt(db, s) = {}
    BY <2>1 DEF StepInv
  <2>3. ~Settles(call[c], cmds)
    BY <2>1, ShapesDiffer
  <2>4. ASSUME NEW d \in Caller, call'[d].x = s
        PROVE  Settles(call'[d], todo'[d]) => db'.step[s].status \in Terminal
    <3>1. CASE d = c
      BY <1>1, <1>3, <2>3, <3>1
    <3>2. CASE d # c
      BY <1>1, <1>3, <2>4, <3>2 DEF StepInv
    <3> QED BY <3>1, <3>2
  <2> QED BY <1>1, <2>2, <2>4 DEF StepInv
<1> QED BY <1>5, <1>6

LEMMA SettleWrite ==
    ASSUME CallInv, Exclusion, Sound, NEW c \in Caller, Write(c), NEW s \in Step, StepInv(s)
    PROVE  StepInv(s)'
<1>1. phase[c] = "inside" /\ call' = call
  BY DEF Write
<1>2. /\ db \in Data /\ todo \in [Caller -> Seq(Command)] /\ Shape(call[c], todo[c])
  BY DEF CallInv, TypeOK, TodoOf
<1>3. todo' = [todo EXCEPT ![c] = todo'[c]]
  BY <1>2, WriteDoes
<1>4. \A d \in Caller : d # c => todo'[d] = todo[d]
  BY <1>2, <1>3
<1>5. db.step \in [Step -> StepEntity]
  BY <1>2 DEF Data
<1>6. CASE /\ todo'[c] \in QuietList
           /\ db'.step = db.step
           /\ \A z \in Step : SettledAt(db', z) = SettledAt(db, z)
  <2>1. \A d \in Caller : call'[d].x = s =>
          \/ todo'[d] \in QuietList
          \/ call'[d] = call[d] /\ todo'[d] = todo[d]
    BY <1>1, <1>4, <1>6
  <2> QED BY <1>6, <2>1, StepKept
<1>7. CASE /\ Changes(call[c], todo[c])
           /\ todo'[c] \in QuietList \/ Settles(call[c], todo'[c])
           /\ \E new \in StepEntity :
                /\ call[c].type \in Settling => new.status \in Terminal
                /\ db'.step = [db.step EXCEPT ![call[c].x] = new]
           /\ \A z \in Step : SettledAt(db', z) = SettledAt(db, z)
  <2>1. PICK new \in StepEntity :
          /\ call[c].type \in Settling => new.status \in Terminal
          /\ db'.step = [db.step EXCEPT ![call[c].x] = new]
    BY <1>7
  <2>2. CASE call[c].x # s
    <3>1. db'.step[s].status = db.step[s].status
      BY <1>5, <2>1, <2>2
    <3>2. \A d \in Caller : call'[d].x = s => call'[d] = call[d] /\ todo'[d] = todo[d]
      BY <1>1, <1>4, <2>2
    <3> QED BY <1>7, <3>1, <3>2, StepKept
  <2>3. CASE call[c].x = s
    <3>1. SettledAt(db', s) = {}
      BY <1>7, <2>3 DEF StepInv
    <3>2. ASSUME NEW d \in Caller, call'[d].x = s, Settles(call'[d], todo'[d])
          PROVE  db'.step[s].status \in Terminal
      <4>1. CASE d = c
        <5>1. call[c].type \in Settling
          BY <1>1, <3>2, <4>1 DEF Settles
        <5> QED BY <1>5, <2>1, <2>3, <5>1
      <4>2. CASE d # c
        <5>1. todo'[d] = <<>>
          BY <1>1, <1>4, <2>3, <3>2, <4>2, StepAlone
        <5> QED BY <3>2, <5>1, QuietNone, ShapesDiffer
      <4> QED BY <4>1, <4>2
    <3> QED BY <3>1, <3>2 DEF StepInv
  <2> QED BY <2>2, <2>3
<1>8. CASE /\ Settles(call[c], todo[c])
           /\ todo'[c] \in QuietList
           /\ SettledBy(db, db', call[c].x)
  <2>1. CASE call[c].x # s
    <3>1. SettledAt(db', s) = SettledAt(db, s) /\ db'.step = db.step
      BY <1>8, <2>1 DEF SettledBy
    <3>2. \A d \in Caller : call'[d].x = s => call'[d] = call[d] /\ todo'[d] = todo[d]
      BY <1>1, <1>4, <2>1
    <3> QED BY <3>1, <3>2, StepKept
  <2>2. CASE call[c].x = s
    <3>1. SettledAt(db, s) = {} /\ db.step[s].status \in Terminal
      BY <1>8, <2>2 DEF StepInv
    <3>2. /\ db'.step = db.step
          /\ SettledAt(db', s) = SettledAt(db, s) \union {Len(db.log[StepRun[s]]) + 1}
      BY <1>8, <2>2 DEF SettledBy
    <3>3. \A i, j \in SettledAt(db', s) : i = j
      BY <3>1, <3>2
    <3>4. ASSUME NEW d \in Caller, call'[d].x = s
          PROVE  ~Changes(call'[d], todo'[d]) /\ ~Settles(call'[d], todo'[d])
      <4>1. todo'[d] \in QuietList
        <5>1. CASE d = c
          BY <1>8, <5>1
        <5>2. CASE d # c
          BY <1>1, <1>4, <2>2, <3>4, <5>2, StepAlone, QuietNone
        <5> QED BY <5>1, <5>2
      <4> QED BY <4>1, ShapesDiffer
    <3> QED BY <3>1, <3>2, <3>3, <3>4 DEF StepInv
  <2> QED BY <2>1, <2>2
<1> QED BY <1>2, <1>6, <1>7, <1>8, WriteDoes

\* Every other step says nothing of a step, or makes callers forget what they
\* were about to write.
LEMMA SettleAside ==
    ASSUME CallInv, CallInv', [Next]_vars,
           ~(\E c \in Caller : Validate(c) \/ Write(c)), NEW s \in Step, StepInv(s)
    PROVE  StepInv(s)'
<1>1. SettledAt(db', s) = SettledAt(db, s) /\ db'.step[s].status = db.step[s].status
  <2>1. CASE db' = db
    BY <2>1
  <2>2. CASE \E z \in Step : RetryDue(z)
    <3>1. PICK z \in Step : RetryDue(z)
      BY <2>2
    <3>2. db \in Data /\ db' = [db EXCEPT !.step[z].early = FALSE]
      BY <3>1 DEF RetryDue, CallInv, TypeOK
    <3>3. /\ db'.log = db.log
          /\ db'.step = [db.step EXCEPT ![z].early = FALSE]
          /\ db.step \in [Step -> StepEntity]
      BY <3>2 DEF Data
    <3>4. db'.step[s].status = db.step[s].status
      BY <3>3 DEF StepEntity
    <3> QED BY <3>3, <3>4 DEF SettledAt
  <2> QED BY <2>1, <2>2 DEF Next, vars, createVars, Create, TakeLock, LoadRun, Return, Fail,
             Die, KeyExpires
<1>2. ASSUME NEW c \in Caller
      PROVE  \/ todo'[c] \in QuietList
             \/ call'[c] = call[c] /\ todo'[c] = todo[c]
  <2>1. CASE call' = call /\ todo' = todo
    BY <2>1
  <2>2. ASSUME NEW d \in Caller, Create(d)
        PROVE  todo'[c] \in QuietList \/ (call'[c] = call[c] /\ todo'[c] = todo[c])
    <3>1. todo' = todo /\ phase[d] = "idle"
      BY <2>2 DEF Create, Call
    <3>2. todo[d] = <<>>
      BY <3>1 DEF CallInv, TypeOK
    <3>3. d # c => call'[c] = call[c]
      BY <2>2 DEF Create, CallInv, TypeOK
    <3> QED BY <3>1, <3>2, <3>3, QuietNone
  <2>3. ASSUME NEW d \in Caller, Return(d) \/ Fail(d)
        PROVE  todo'[c] \in QuietList \/ (call'[c] = call[c] /\ todo'[c] = todo[c])
    <3>1. call' = [call EXCEPT ![d] = NoCall] /\ todo' = [todo EXCEPT ![d] = <<>>]
      BY <2>3 DEF Return, Fail, Reset
    <3> QED BY <3>1, QuietNone DEF CallInv, TypeOK
  <2>4. ASSUME NEW h \in Host, Die(h)
        PROVE  todo'[c] \in QuietList \/ (call'[c] = call[c] /\ todo'[c] = todo[c])
    BY <2>4, QuietNone DEF Die
  <2> QED BY <2>1, <2>2, <2>3, <2>4 DEF Next, vars, createVars, TakeLock, LoadRun,
             KeyExpires, RetryDue
<1> QED BY <1>1, <1>2, StepKept

LEMMA SettleKept ==
    ASSUME CallInv, CallInv', ChainInv, Exclusion, SettleInv, [Next]_vars
    PROVE  SettleInv'
<1> SUFFICES ASSUME Sound', NEW s \in Step PROVE StepInv(s)'
  BY DEF SettleInv
<1>1. Sound /\ StepInv(s)
  BY SoundBefore DEF SettleInv
<1>2. CASE \E c \in Caller : Validate(c)
  BY <1>1, <1>2, SettleValidate
<1>3. CASE \E c \in Caller : Write(c)
  BY <1>1, <1>3, SettleWrite
<1>4. CASE ~(\E c \in Caller : Validate(c) \/ Write(c))
  BY <1>1, <1>4, SettleAside
<1> QED BY <1>2, <1>3, <1>4

LEMMA StepsSettle == Spec => []SettleInv
<1>1. Init => CallInv /\ SettleInv
  BY CallInit, SettleInit
<1>2. CallInv /\ ChainInv /\ [Next]_vars => CallInv'
  BY CallInvKept
<1>3. CallInv /\ CallInv' /\ ChainInv /\ Exclusion /\ SettleInv /\ [Next]_vars => SettleInv'
  BY SettleKept
<1> QED BY <1>1, <1>2, <1>3, UsesLock, ChainInvariant, LocksExclude, PTL DEF Spec

\* README.md:72, short of the lock's TTL: crashes of processes, Redis commands
\* that fail and the retries that follow never settle a step twice, for any
\* number of processes, runs and calls.
THEOREM SettledOnce == Spec => []SettledByOneEvent
<1>1. SettleInv => SettledByOneEvent
  <2> SUFFICES ASSUME SettleInv, Sound, NEW s \in Step
               PROVE  Cardinality(SettledAt(db, s)) <= 1
    BY DEF SettledByOneEvent, Sound
  <2>1. \A i, j \in SettledAt(db, s) : i = j
    BY DEF SettleInv, StepInv
  <2>2. CASE SettledAt(db, s) = {}
    BY <2>2, FS_EmptySet
  <2>3. CASE \E i : i \in SettledAt(db, s)
    <3>1. PICK i : i \in SettledAt(db, s)
      BY <2>3
    <3>2. SettledAt(db, s) = {i}
      BY <2>1, <3>1
    <3>3. Cardinality({i}) = 1
      BY FS_Singleton
    <3> QED BY <3>2, <3>3
  <2> QED BY <2>2, <2>3
<1> QED BY <1>1, StepsSettle, PTL

\* The order of the writes, entity before event: what the log says is settled
\* reads as settled, wherever a call was cut short.
THEOREM LogApplied == Spec => []LogIsApplied
<1>1. SettleInv => LogIsApplied
  BY DEF SettleInv, Sound, StepInv, LogIsApplied, Terminal
<1> QED BY <1>1, StepsSettle, PTL
----------------------------------------------------------------------------
(* The indexes.  Between the two writes that belong together an index is    *)
(* off; what is off follows from the commands still to come.  So a todo     *)
(* list is read as a path through what a run shows: its status, the status  *)
(* indexes it is in, and what is still to be listed, unlisted or indexed.   *)

View == [run : RunStatus, in : SUBSET RunStatus, list : SUBSET Hook, unlist : SUBSET Hook,
         byId : SUBSET (Step \union Hook \union Wait)]

\* Nothing is off.
Settled(st) == [run |-> st, in |-> {st} \ {"none"}, list |-> {}, unlist |-> {}, byId |-> {}]

\* The command is about the run.
About(r, cmd) ==
    /\ cmd.op # "free" => HomeOf(cmd.x) = r
    /\ cmd.op = "append" => HomeOf(cmd.v.on) = r

\* From p the command may be issued: it does what the one before has left to it,
\* if that has left anything.
May(p, cmd) ==
    /\ p.list = IF cmd.op = "list" THEN {cmd.x} ELSE {}
    /\ p.unlist = IF cmd.op = "unlist" THEN {cmd.x} ELSE {}
    /\ p.byId = IF cmd.op = "byId" THEN {cmd.x} ELSE {}

\* It leads to q.
LeadsTo(p, cmd, q) ==
    /\ q.run = IF cmd.op = "run" THEN cmd.v ELSE p.run
    /\ q.in = IF cmd.op = "index" THEN p.in \union {cmd.v}
              ELSE IF cmd.op = "unindex" THEN p.in \ {cmd.v} ELSE p.in
    /\ q.list = IF cmd.op = "hook" THEN {cmd.x} ELSE {}
    /\ q.unlist = IF cmd.op = "unhook" THEN {cmd.x} ELSE {}
    /\ q.byId = IF cmd.op = "append" THEN {cmd.v.on} \ Run ELSE {}

Leads(r, p, cmd, q) == About(r, cmd) /\ May(p, cmd) /\ LeadsTo(p, cmd, q)

Path(r, t, p, q) ==
    \E f \in [1 .. Len(t) + 1 -> View] :
      /\ f[1] = p /\ f[Len(t) + 1] = q
      /\ \A i \in 1 .. Len(t) : Leads(r, f[i], t[i], f[i + 1])

LEMMA PathNone ==
    ASSUME NEW r, NEW p \in View
    PROVE  Path(r, <<>>, p, p)
<1> DEFINE f == [i \in 1 .. 1 |-> p]
<1>1. /\ Len(<<>>) = 0 /\ f \in [1 .. 0 + 1 -> View] /\ f[1] = p
  OBVIOUS
<1> HIDE DEF f
<1> QED BY <1>1 DEF Path

LEMMA PathNoneOnly ==
    ASSUME NEW r, NEW p, NEW q, Path(r, <<>>, p, q)
    PROVE  p = q
BY DEF Path

LEMMA PathOne ==
    ASSUME NEW r, NEW p \in View, NEW q \in View, NEW cmd, Leads(r, p, cmd, q)
    PROVE  Path(r, <<cmd>>, p, q)
<1> DEFINE f == [i \in 1 .. 2 |-> IF i = 1 THEN p ELSE q]
<1>1. f \in [1 .. 2 -> View] /\ f[1] = p /\ f[2] = q
  OBVIOUS
<1>2. Len(<<cmd>>) = 1 /\ <<cmd>>[1] = cmd
  OBVIOUS
<1> HIDE DEF f
<1>3. f \in [1 .. 1 + 1 -> View] /\ f[1 + 1] = q
  BY <1>1
<1>4. \A i \in 1 .. 1 : Leads(r, f[i], <<cmd>>[i], f[i + 1])
  BY <1>1, <1>2, <1>3
<1> QED BY <1>1, <1>2, <1>3, <1>4 DEF Path

LEMMA PathJoin ==
    ASSUME NEW r, NEW s \in Seq(Command), NEW t \in Seq(Command),
           NEW p, NEW m, NEW q, Path(r, s, p, m), Path(r, t, m, q)
    PROVE  Path(r, s \o t, p, q)
<1> DEFINE a == Len(s)
           b == Len(t)
<1>1. PICK f \in [1 .. a + 1 -> View] :
        /\ f[1] = p /\ f[a + 1] = m
        /\ \A i \in 1 .. a : Leads(r, f[i], s[i], f[i + 1])
  BY DEF Path
<1>2. PICK g \in [1 .. b + 1 -> View] :
        /\ g[1] = m /\ g[b + 1] = q
        /\ \A i \in 1 .. b : Leads(r, g[i], t[i], g[i + 1])
  BY DEF Path
<1> DEFINE e == [i \in 1 .. (a + b) + 1 |-> IF i <= a THEN f[i] ELSE g[i - a]]
<1>3. a \in Nat /\ b \in Nat
  OBVIOUS
<1>4. /\ Len(s \o t) = a + b
      /\ \A i \in 1 .. a + b : (s \o t)[i] = IF i <= a THEN s[i] ELSE t[i - a]
  BY ConcatProperties
<1> HIDE DEF a, b
<1>5. ASSUME NEW i \in 1 .. (a + b) + 1
      PROVE  e[i] \in View
  <2>1. CASE i <= a
    BY <1>3, <2>1
  <2>2. CASE i > a
    <3>1. i - a \in 1 .. b + 1
      BY <1>3, <2>2
    <3> QED BY <1>3, <2>2, <3>1
  <2> QED BY <1>3, <2>1, <2>2
<1>6. e \in [1 .. (a + b) + 1 -> View]
  BY <1>5
<1>7. e[1] = p
  <2>1. CASE a = 0
    BY <1>1, <1>2, <1>3, <2>1
  <2>2. CASE a > 0
    BY <1>1, <1>3, <2>2
  <2> QED BY <1>3, <2>1, <2>2
<1>8. e[(a + b) + 1] = q
  <2>1. e[(a + b) + 1] = g[((a + b) + 1) - a]
    BY <1>3
  <2>2. ((a + b) + 1) - a = b + 1
    BY <1>3
  <2> QED BY <1>2, <2>1, <2>2
<1>9. ASSUME NEW i \in 1 .. a + b
      PROVE  Leads(r, e[i], (s \o t)[i], e[i + 1])
  <2>1. CASE i < a
    <3>1. e[i] = f[i] /\ e[i + 1] = f[i + 1] /\ (s \o t)[i] = s[i] /\ i \in 1 .. a
      BY <1>3, <1>4, <2>1
    <3> HIDE DEF e
    <3> QED BY <1>1, <3>1
  <2>2. CASE i = a
    <3>1. e[i] = f[i] /\ (s \o t)[i] = s[i] /\ i \in 1 .. a
      BY <1>3, <1>4, <2>2
    <3>2. e[i + 1] = g[(i + 1) - a] /\ (i + 1) - a = 1
      BY <1>3, <2>2
    <3>3. e[i + 1] = f[i + 1]
      BY <1>1, <1>2, <2>2, <3>2
    <3> HIDE DEF e
    <3> QED BY <1>1, <3>1, <3>3
  <2>3. CASE i > a
    <3>1. e[i] = g[i - a] /\ (s \o t)[i] = t[i - a] /\ i - a \in 1 .. b
      BY <1>3, <1>4, <2>3
    <3>2. e[i + 1] = g[(i + 1) - a] /\ (i + 1) - a = (i - a) + 1
      BY <1>3, <2>3
    <3> HIDE DEF e
    <3> QED BY <1>2, <3>1, <3>2
  <2>4. i < a \/ i = a \/ i > a
    BY <1>3
  <2> HIDE DEF e
  <2> QED BY <2>1, <2>2, <2>3, <2>4
<1> HIDE DEF e
<1> QED BY <1>4, <1>6, <1>7, <1>8, <1>9 DEF Path

LEMMA PathHead ==
    ASSUME NEW r, NEW t \in Seq(Command), t # <<>>, NEW p, NEW q, Path(r, t, p, q)
    PROVE  \E m \in View : Leads(r, p, Head(t), m) /\ Path(r, Tail(t), m, q)
<1> DEFINE a == Len(t)
<1>1. PICK f \in [1 .. a + 1 -> View] :
        /\ f[1] = p /\ f[a + 1] = q
        /\ \A i \in 1 .. a : Leads(r, f[i], t[i], f[i + 1])
  BY DEF Path
<1>2. a \in Nat /\ a > 0 /\ Head(t) = t[1] /\ Len(Tail(t)) = a - 1
  OBVIOUS
<1>3. \A i \in 1 .. a - 1 : Tail(t)[i] = t[i + 1]
  OBVIOUS
<1> DEFINE g == [i \in 1 .. (a - 1) + 1 |-> f[i + 1]]
<1> HIDE DEF a
<1>4. f[2] \in View /\ Leads(r, p, Head(t), f[2])
  <2>1. 1 \in 1 .. a /\ 1 + 1 = 2 /\ 2 \in 1 .. a + 1
    BY <1>2
  <2> QED BY <1>1, <1>2, <2>1
<1>5. g \in [1 .. (a - 1) + 1 -> View]
  <2>1. \A i \in 1 .. (a - 1) + 1 : i + 1 \in 1 .. a + 1
    BY <1>2
  <2> QED BY <2>1
<1>6. g[1] = f[2] /\ g[(a - 1) + 1] = q
  BY <1>1, <1>2
<1>7. ASSUME NEW i \in 1 .. a - 1
      PROVE  Leads(r, g[i], Tail(t)[i], g[i + 1])
  <2>1. i + 1 \in 1 .. a /\ i \in 1 .. (a - 1) + 1 /\ i + 1 \in 1 .. (a - 1) + 1
    BY <1>2
  <2>2. g[i] = f[i + 1] /\ g[i + 1] = f[(i + 1) + 1]
    BY <2>1
  <2> HIDE DEF g
  <2> QED BY <1>1, <1>3, <2>1, <2>2
<1> HIDE DEF g
<1> QED BY <1>2, <1>4, <1>5, <1>6, <1>7 DEF Path

----------------------------------------------------------------------------
\* What a command does to the data that has indexes.
LEMMA ApplyDoes ==
    ASSUME NEW d \in Data, NEW cmd \in Command, cmd.op \notin Reading
    PROVE  LET D == Apply(d, cmd) IN
           /\ D.run = IF cmd.op = "run" THEN [d.run EXCEPT ![cmd.x] = cmd.v] ELSE d.run
           /\ D.byStatus = IF cmd.op = "index"
                           THEN [d.byStatus EXCEPT ![cmd.v] = @ \union {cmd.x}]
                           ELSE IF cmd.op = "unindex"
                           THEN [d.byStatus EXCEPT ![cmd.v] = @ \ {cmd.x}] ELSE d.byStatus
           /\ D.hook = IF cmd.op = "hook" THEN d.hook \union {cmd.x}
                       ELSE IF cmd.op = "unhook" THEN d.hook \ {cmd.x} ELSE d.hook
           /\ D.byRun = IF cmd.op = "list" THEN d.byRun \union {cmd.x}
                        ELSE IF cmd.op = "unlist" THEN d.byRun \ {cmd.x} ELSE d.byRun
           /\ D.log = IF cmd.op = "append" THEN [d.log EXCEPT ![cmd.x] = Append(@, cmd.v)]
                      ELSE d.log
           /\ D.byId = IF cmd.op = "byId" THEN [d.byId EXCEPT ![cmd.x] = @ + 1] ELSE d.byId
<1>1. CASE cmd.op \in {"run", "index", "unindex"}
  BY <1>1 DEF Apply, Data
<1>2. CASE cmd.op \in {"hook", "unhook", "list", "unlist"}
  BY <1>2 DEF Apply, Data
<1>3. CASE cmd.op \in {"step", "wait", "take", "free"}
  BY <1>3 DEF Apply, Data
<1>4. CASE cmd.op \in {"append", "byId"}
  BY <1>4 DEF Apply, Data
<1>5. cmd.op \in {"run", "index", "unindex", "hook", "unhook", "list", "unlist", "step",
                  "wait", "take", "free", "append", "byId"}
  BY DEF Command, Reading
<1> QED BY <1>1, <1>2, <1>3, <1>4, <1>5

\* What the commands are about.
LEMMA CommandTyped ==
    ASSUME NEW cmd \in Command
    PROVE  /\ cmd.op \in {"run", "index", "unindex"} => cmd.x \in Run /\ cmd.v \in RunStatus
           /\ cmd.op \in {"hook", "unhook", "list", "unlist", "take", "claim", "dispose"}
                => cmd.x \in Hook
           /\ cmd.op = "append" => cmd.x \in Run /\ cmd.v \in Event
           /\ cmd.op = "byId" => cmd.x \in Step \union Hook \union Wait
           /\ cmd.op = "cleanup" => cmd.x \in Run
BY DEF Command

\* Every entity belongs to a run.
LEMMA Homes ==
    /\ \A r \in Run : HomeOf(r) = r
    /\ \A h \in Hook : HomeOf(h) = HookRun[h]
    /\ \A x \in Run \union Step \union Hook \union Wait : HomeOf(x) \in Run
    /\ \A x \in Step \union Hook \union Wait : x \notin Run
BY CreateAssumption DEF HomeOf

\* The data shows the run as p says.
StatusShown(d, r, p) ==
    /\ d.run[r] = p.run
    /\ \A st \in RunStatus : r \in d.byStatus[st] <=> st \in p.in
HooksShown(d, r, p) ==
    \A h \in Hook : HookRun[h] = r =>
      /\ h \in p.list => h \in d.hook
      /\ h \in p.unlist => h \notin d.hook
      /\ \/ h \in p.list
         \/ h \in p.unlist
         \/ h \in d.byRun <=> h \in d.hook
LogShown(d, r, p) ==
    /\ LogIsOwn(d, r)
    /\ \A x \in Step \union Hook \union Wait : HomeOf(x) = r =>
         Cardinality(Mentions(d, x))
           = IF x \in p.byId THEN d.byId[x] + 1 ELSE d.byId[x]
Shows(d, r, p) == StatusShown(d, r, p) /\ HooksShown(d, r, p) /\ LogShown(d, r, p)

LEMMA StatusMoves ==
    ASSUME NEW d \in Data, NEW cmd \in Command, cmd.op \notin Reading, NEW r \in Run,
           NEW p \in View, NEW q \in View, StatusShown(d, r, p), Leads(r, p, cmd, q)
    PROVE  StatusShown(Apply(d, cmd), r, q)
<1> DEFINE D == Apply(d, cmd)
<1>1. d.run \in [Run -> RunStatus] /\ d.byStatus \in [RunStatus -> SUBSET Run]
  BY DEF Data
<1>2. cmd.op \in {"run", "index", "unindex"}
        => cmd.x = r /\ cmd.v \in RunStatus
  BY CommandTyped, Homes DEF Leads, LeadsTo, About
<1>3. /\ D.run = IF cmd.op = "run" THEN [d.run EXCEPT ![cmd.x] = cmd.v] ELSE d.run
      /\ D.byStatus = IF cmd.op = "index"
                      THEN [d.byStatus EXCEPT ![cmd.v] = @ \union {cmd.x}]
                      ELSE IF cmd.op = "unindex"
                      THEN [d.byStatus EXCEPT ![cmd.v] = @ \ {cmd.x}] ELSE d.byStatus
  BY ApplyDoes
<1> HIDE DEF D
<1>4. D.run[r] = q.run
  BY <1>1, <1>2, <1>3 DEF StatusShown, Leads, LeadsTo
<1>5. ASSUME NEW st \in RunStatus PROVE r \in D.byStatus[st] <=> st \in q.in
  <2>1. r \in d.byStatus[st] <=> st \in p.in
    BY DEF StatusShown
  <2>2. CASE cmd.op = "index"
    BY <1>1, <1>2, <1>3, <2>1, <2>2 DEF Leads, LeadsTo
  <2>3. CASE cmd.op = "unindex"
    BY <1>1, <1>2, <1>3, <2>1, <2>3 DEF Leads, LeadsTo
  <2>4. CASE cmd.op \notin {"index", "unindex"}
    BY <1>3, <2>1, <2>4 DEF Leads, LeadsTo
  <2> QED BY <2>2, <2>3, <2>4
<1> QED BY <1>4, <1>5 DEF StatusShown, D

LEMMA HooksMove ==
    ASSUME NEW d \in Data, NEW cmd \in Command, cmd.op \notin Reading, NEW r \in Run,
           NEW p \in View, NEW q \in View, HooksShown(d, r, p), Leads(r, p, cmd, q)
    PROVE  HooksShown(Apply(d, cmd), r, q)
<1> DEFINE D == Apply(d, cmd)
<1>1. /\ D.hook = IF cmd.op = "hook" THEN d.hook \union {cmd.x}
                  ELSE IF cmd.op = "unhook" THEN d.hook \ {cmd.x} ELSE d.hook
      /\ D.byRun = IF cmd.op = "list" THEN d.byRun \union {cmd.x}
                   ELSE IF cmd.op = "unlist" THEN d.byRun \ {cmd.x} ELSE d.byRun
  BY ApplyDoes
<1>2. /\ p.list = IF cmd.op = "list" THEN {cmd.x} ELSE {}
      /\ p.unlist = IF cmd.op = "unlist" THEN {cmd.x} ELSE {}
      /\ q.list = IF cmd.op = "hook" THEN {cmd.x} ELSE {}
      /\ q.unlist = IF cmd.op = "unhook" THEN {cmd.x} ELSE {}
  BY DEF Leads, May, LeadsTo
<1> HIDE DEF D
<1>3. ASSUME NEW h \in Hook, HookRun[h] = r
      PROVE  /\ h \in q.list => h \in D.hook
             /\ h \in q.unlist => h \notin D.hook
             /\ \/ h \in q.list
                \/ h \in q.unlist
                \/ h \in D.byRun <=> h \in D.hook
  <2>1. /\ h \in p.list => h \in d.hook
        /\ h \in p.unlist => h \notin d.hook
        /\ \/ h \in p.list
           \/ h \in p.unlist
           \/ h \in d.byRun <=> h \in d.hook
    BY <1>3 DEF HooksShown
  <2>2. CASE cmd.op \in {"hook", "unhook"}
    BY <1>1, <1>2, <2>1, <2>2
  <2>3. CASE cmd.op \in {"list", "unlist"}
    BY <1>1, <1>2, <2>1, <2>3
  <2>4. CASE cmd.op \notin {"hook", "unhook", "list", "unlist"}
    BY <1>1, <1>2, <2>1, <2>4
  <2> QED BY <2>2, <2>3, <2>4
<1> QED BY <1>3 DEF HooksShown, D

\* An append mentions what it is about once more.
LEMMA AppendMentions ==
    ASSUME NEW d \in Data, NEW D, NEW r \in Run, NEW e \in Event, HomeOf(e.on) = r,
           D.log = [d.log EXCEPT ![r] = Append(@, e)],
           NEW x \in Step \union Hook \union Wait
    PROVE  /\ IsFiniteSet(Mentions(d, x))
           /\ Cardinality(Mentions(d, x)) \in Nat
           /\ Cardinality(Mentions(D, x)) = IF e.on = x THEN Cardinality(Mentions(d, x)) + 1
                                            ELSE Cardinality(Mentions(d, x))
<1> DEFINE q == HomeOf(x)
           n == Len(d.log[q])
<1>1. q \in Run
  BY Homes
<1>2. d.log \in [Run -> Seq(Event)] /\ d.log[q] \in Seq(Event) /\ n \in Nat
  BY <1>1 DEF Data
<1>3. DOMAIN d.log[q] = 1 .. n
  BY <1>2
<1>4. IsFiniteSet(Mentions(d, x)) /\ Cardinality(Mentions(d, x)) \in Nat
  <2>1. IsFiniteSet(1 .. n)
    BY <1>2, FS_Interval, 1 \in Int, n \in Int
  <2>2. Mentions(d, x) \in SUBSET (1 .. n)
    BY <1>3 DEF Mentions
  <2>3. IsFiniteSet(Mentions(d, x))
    BY <2>1, <2>2, FS_Subset
  <2> QED BY <2>3, FS_CardinalityType
<1>5. CASE q # r
  <2>1. D.log[q] = d.log[q]
    BY <1>1, <1>2, <1>5
  <2>2. Mentions(D, x) = Mentions(d, x)
    BY <2>1 DEF Mentions
  <2>3. e.on # x
    BY <1>5
  <2> QED BY <1>4, <2>2, <2>3
<1>6. CASE q = r
  <2>1. D.log[q] = Append(d.log[q], e)
    BY <1>1, <1>2, <1>6
  <2>2. DOMAIN D.log[q] = 1 .. n + 1 /\ D.log[q][n + 1] = e
    BY <1>2, <2>1
  <2>3. \A i \in 1 .. n : D.log[q][i] = d.log[q][i]
    BY <1>2, <2>1
  <2>4. 1 .. n + 1 = (1 .. n) \union {n + 1}
    BY <1>2, IntervalGrows
  <2>5. CASE e.on = x
    <3>1. Mentions(D, x) = Mentions(d, x) \union {n + 1}
      BY <1>3, <2>2, <2>3, <2>4, <2>5 DEF Mentions
    <3>2. n + 1 \notin Mentions(d, x)
      BY <1>2, <1>3 DEF Mentions
    <3> HIDE DEF n
    <3>3. Cardinality(Mentions(d, x) \union {n + 1}) = Cardinality(Mentions(d, x)) + 1
      BY <1>4, <3>2, FS_AddElement
    <3> QED BY <1>4, <2>5, <3>1, <3>3
  <2>6. CASE e.on # x
    <3>1. Mentions(D, x) = Mentions(d, x)
      BY <1>3, <2>2, <2>3, <2>4, <2>6 DEF Mentions
    <3> QED BY <1>4, <2>6, <3>1
  <2> QED BY <2>5, <2>6
<1> QED BY <1>5, <1>6

LEMMA LogMoves ==
    ASSUME NEW d \in Data, NEW cmd \in Command, cmd.op \notin Reading, NEW r \in Run,
           NEW p \in View, NEW q \in View, LogShown(d, r, p), Leads(r, p, cmd, q)
    PROVE  LogShown(Apply(d, cmd), r, q)
<1> DEFINE D == Apply(d, cmd)
<1>1. /\ D.log = IF cmd.op = "append" THEN [d.log EXCEPT ![cmd.x] = Append(@, cmd.v)]
                 ELSE d.log
      /\ D.byId = IF cmd.op = "byId" THEN [d.byId EXCEPT ![cmd.x] = @ + 1] ELSE d.byId
  BY ApplyDoes
<1>2. /\ p.byId = IF cmd.op = "byId" THEN {cmd.x} ELSE {}
      /\ q.byId = IF cmd.op = "append" THEN {cmd.v.on} \ Run ELSE {}
      /\ About(r, cmd)
  BY DEF Leads, May, LeadsTo
<1>3. d.log \in [Run -> Seq(Event)] /\ d.byId \in [Step \union Hook \union Wait -> Nat]
  BY DEF Data
<1>4. /\ LogIsOwn(d, r)
      /\ \A x \in Step \union Hook \union Wait : HomeOf(x) = r =>
           Cardinality(Mentions(d, x))
             = IF x \in p.byId THEN d.byId[x] + 1 ELSE d.byId[x]
  BY DEF LogShown
<1> HIDE DEF D
<1>5. CASE cmd.op = "append"
  <2>1. cmd.x = r /\ cmd.v \in Event /\ HomeOf(cmd.v.on) = r
    BY <1>2, <1>5, CommandTyped, Homes DEF About
  <2>2. D.log = [d.log EXCEPT ![r] = Append(@, cmd.v)] /\ D.byId = d.byId
    BY <1>1, <1>5, <2>1
  <2>3. p.byId = {}
    BY <1>2, <1>5
  <2>4. LogIsOwn(D, r)
    <3>1. d.log[r] \in Seq(Event) /\ D.log[r] = Append(d.log[r], cmd.v)
      BY <1>3, <2>1, <2>2
    <3>2. \A i \in DOMAIN D.log[r] : D.log[r][i] = cmd.v \/ (/\ i \in DOMAIN d.log[r]
                                                             /\ D.log[r][i] = d.log[r][i])
      BY <2>1, <3>1
    <3> QED BY <1>4, <2>1, <3>2 DEF LogIsOwn
  <2>5. ASSUME NEW x \in Step \union Hook \union Wait, HomeOf(x) = r
        PROVE  Cardinality(Mentions(D, x))
                 = IF x \in q.byId THEN D.byId[x] + 1 ELSE D.byId[x]
    <3>1. Cardinality(Mentions(d, x)) = d.byId[x] /\ d.byId[x] \in Nat
      BY <1>3, <1>4, <2>3, <2>5
    <3>2. Cardinality(Mentions(D, x)) = IF cmd.v.on = x THEN Cardinality(Mentions(d, x)) + 1
                                        ELSE Cardinality(Mentions(d, x))
      BY <2>1, <2>2, AppendMentions, SMTT(30)
    <3>3. x \in q.byId <=> cmd.v.on = x
      BY <1>2, <1>5, <2>5, Homes
    <3> QED BY <2>2, <3>1, <3>2, <3>3
  <2> QED BY <2>4, <2>5 DEF LogShown, D
<1>6. CASE cmd.op # "append"
  <2>1. /\ LogIsOwn(D, r)
        /\ \A x : Mentions(D, x) = Mentions(d, x)
    BY <1>1, <1>4, <1>6 DEF LogIsOwn, Mentions
  <2>3. q.byId = {}
    BY <1>2, <1>6
  <2>4. ASSUME NEW x \in Step \union Hook \union Wait, HomeOf(x) = r
        PROVE  Cardinality(Mentions(D, x)) = D.byId[x]
    <3>1. Cardinality(Mentions(d, x))
            = IF x \in p.byId THEN d.byId[x] + 1 ELSE d.byId[x]
      BY <1>4, <2>4
    <3>2. CASE cmd.op = "byId"
      <4>2. x \in p.byId <=> x = cmd.x
        BY <1>2, <3>2
      <4>3. D.byId[x] = IF x = cmd.x THEN d.byId[x] + 1 ELSE d.byId[x]
        BY <1>1, <1>3, <3>2
      <4> QED BY <2>1, <3>1, <4>2, <4>3
    <3>3. CASE cmd.op # "byId"
      <4>1. x \notin p.byId
        BY <1>2, <3>3
      <4> QED BY <1>1, <2>1, <3>1, <3>3, <4>1
    <3> QED BY <3>2, <3>3
  <2> QED BY <2>1, <2>3, <2>4 DEF LogShown, D
<1> QED BY <1>5, <1>6

\* A command takes the data where it leads.
LEMMA ShowsNext ==
    ASSUME NEW d \in Data, NEW cmd \in Command, cmd.op \notin Reading, NEW r \in Run,
           NEW p \in View, NEW q \in View, Shows(d, r, p), Leads(r, p, cmd, q)
    PROVE  Shows(Apply(d, cmd), r, q)
BY StatusMoves, HooksMove, LogMoves DEF Shows

\* The other runs show what they did.
LEMMA OthersShow ==
    ASSUME NEW d \in Data, NEW cmd \in Command, cmd.op \notin Reading,
           NEW r \in Run, About(r, cmd), NEW z \in Run, z # r
    PROVE  /\ \A p : Shows(d, z, p) => Shows(Apply(d, cmd), z, p)
           /\ Apply(d, cmd).run[z] = d.run[z]
<1> DEFINE D == Apply(d, cmd)
<1>1. /\ d.run \in [Run -> RunStatus] /\ d.byStatus \in [RunStatus -> SUBSET Run]
      /\ d.log \in [Run -> Seq(Event)] /\ d.byId \in [Step \union Hook \union Wait -> Nat]
  BY DEF Data
<1>2. /\ cmd.op \in {"run", "index", "unindex"} => cmd.x = r /\ cmd.v \in RunStatus
      /\ cmd.op \in {"hook", "unhook", "list", "unlist"} => HookRun[cmd.x] = r
      /\ cmd.op = "append" => cmd.x = r
      /\ cmd.op = "byId" => HomeOf(cmd.x) = r
  BY CommandTyped, Homes DEF About
<1>3. /\ D.run = IF cmd.op = "run" THEN [d.run EXCEPT ![cmd.x] = cmd.v] ELSE d.run
      /\ D.byStatus = IF cmd.op = "index"
                      THEN [d.byStatus EXCEPT ![cmd.v] = @ \union {cmd.x}]
                      ELSE IF cmd.op = "unindex"
                      THEN [d.byStatus EXCEPT ![cmd.v] = @ \ {cmd.x}] ELSE d.byStatus
      /\ D.hook = IF cmd.op = "hook" THEN d.hook \union {cmd.x}
                  ELSE IF cmd.op = "unhook" THEN d.hook \ {cmd.x} ELSE d.hook
      /\ D.byRun = IF cmd.op = "list" THEN d.byRun \union {cmd.x}
                   ELSE IF cmd.op = "unlist" THEN d.byRun \ {cmd.x} ELSE d.byRun
      /\ D.log = IF cmd.op = "append" THEN [d.log EXCEPT ![cmd.x] = Append(@, cmd.v)]
                 ELSE d.log
      /\ D.byId = IF cmd.op = "byId" THEN [d.byId EXCEPT ![cmd.x] = @ + 1] ELSE d.byId
  BY ApplyDoes
<1> HIDE DEF D
<1>4. D.run[z] = d.run[z] /\ D.log[z] = d.log[z]
  BY <1>1, <1>2, <1>3
<1>5. \A st \in RunStatus : z \in D.byStatus[st] <=> z \in d.byStatus[st]
  BY <1>1, <1>2, <1>3
<1>6. \A h \in Hook : HookRun[h] = z =>
        (h \in D.hook <=> h \in d.hook) /\ (h \in D.byRun <=> h \in d.byRun)
  BY <1>2, <1>3
<1>7. \A x \in Step \union Hook \union Wait : HomeOf(x) = z =>
        D.byId[x] = d.byId[x] /\ Mentions(D, x) = Mentions(d, x)
  <2>1. \A x \in Step \union Hook \union Wait : HomeOf(x) = z => D.byId[x] = d.byId[x]
    BY <1>1, <1>2, <1>3
  <2> QED BY <1>4, <2>1 DEF Mentions
<1>8. ASSUME NEW p, Shows(d, z, p) PROVE Shows(D, z, p)
  <2>1. StatusShown(D, z, p)
    BY <1>4, <1>5, <1>8 DEF Shows, StatusShown
  <2>2. HooksShown(D, z, p)
    BY <1>6, <1>8 DEF Shows, HooksShown
  <2>3. LogShown(D, z, p)
    BY <1>4, <1>7, <1>8 DEF Shows, LogShown, LogIsOwn
  <2> QED BY <2>1, <2>2, <2>3 DEF Shows
<1> QED BY <1>4, <1>8 DEF D

----------------------------------------------------------------------------
(* The paths of the todo lists. *)

\* Nothing is left to the next command.
Even(p) == p \in View /\ p.list = {} /\ p.unlist = {} /\ p.byId = {}

LEMMA SettledEven == ASSUME NEW st \in RunStatus PROVE Even(Settled(st))
BY DEF Even, Settled, View

\* Commands that no index has to do with.
Calm == {"step", "wait", "take", "free", "claim", "dispose", "cleanup"}

LEMMA CalmPath ==
    ASSUME NEW r, NEW p, Even(p), NEW t \in Seq(Command),
           \A i \in 1 .. Len(t) : t[i].op \in Calm /\ About(r, t[i])
    PROVE  Path(r, t, p, p)
<1> DEFINE f == [i \in 1 .. Len(t) + 1 |-> p]
<1>1. Len(t) \in Nat
  OBVIOUS
<1>2. f \in [1 .. Len(t) + 1 -> View] /\ f[1] = p /\ f[Len(t) + 1] = p
  BY <1>1 DEF Even
<1>3. ASSUME NEW i \in 1 .. Len(t) PROVE Leads(r, f[i], t[i], f[i + 1])
  <2>1. f[i] = p /\ f[i + 1] = p
    BY <1>1
  <2>2. Leads(r, p, t[i], p)
    BY <1>3 DEF Calm, Leads, May, LeadsTo, Even
  <2> HIDE DEF f
  <2> QED BY <2>1, <2>2
<1> HIDE DEF f
<1> QED BY <1>2, <1>3 DEF Path

LEMMA CalmOne ==
    ASSUME NEW r, NEW p, Even(p), NEW cmd \in Command, cmd.op \in Calm, About(r, cmd)
    PROVE  <<cmd>> \in Seq(Command) /\ Path(r, <<cmd>>, p, p)
<1> DEFINE t == <<cmd>>
<1>1. t \in Seq(Command) /\ \A i \in 1 .. Len(t) : t[i] = cmd
  OBVIOUS
<1> HIDE DEF t
<1>2. Path(r, t, p, p)
  BY <1>1, CalmPath
<1> QED BY <1>1, <1>2 DEF t

\* The append of an event about an entity owes the index by correlation id.
LEMMA RecordPath ==
    ASSUME NEW r \in Run, NEW type \in EventType, NEW x \in Run \union Step \union Hook \union Wait,
           HomeOf(x) = r, NEW p, Even(p)
    PROVE  Record(r, type, x) \in Seq(Command) /\ Path(r, Record(r, type, x), p, p)
<1> DEFINE ev == [type |-> type, on |-> x]
           a == Cmd("append", r, ev)
           b == Cmd("byId", x, "")
           m == [p EXCEPT !.byId = {x}]
<1>1. ev \in Event /\ ev.on = x
  BY DEF Event
<1>2. a \in Command /\ a.op = "append" /\ a.x = r /\ a.v = ev
  BY <1>1 DEF Cmd, Command
<1>3. HomeOf(r) = r
  BY Homes
<1>4. CASE x \in Run
  <2>1. Leads(r, p, a, p)
    <3> HIDE DEF a, ev
    <3> QED BY <1>1, <1>2, <1>3, <1>4 DEF Leads, About, May, LeadsTo, Even
  <2>2. Path(r, <<a>>, p, p) /\ <<a>> \in Seq(Command)
    <3> HIDE DEF a
    <3> QED BY <1>2, <2>1, PathOne DEF Even
  <2>3. Record(r, type, x) = <<a>> \o <<>>
    BY <1>4 DEF Record
  <2>4. <<a>> \o <<>> = <<a>>
    <3> HIDE DEF a
    <3> QED BY <1>2
  <2> QED BY <2>2, <2>3, <2>4
<1>5. CASE x \notin Run
  <2>1. b \in Command /\ b.op = "byId" /\ b.x = x
    BY <1>5 DEF Cmd, Command
  <2>2. /\ m \in View /\ m.run = p.run /\ m.in = p.in /\ m.list = {} /\ m.unlist = {}
        /\ m.byId = {x}
    BY <1>5 DEF Even, View
  <2>3. Leads(r, p, a, m)
    <3>1. {ev.on} \ Run = {x}
      BY <1>1, <1>5
    <3> HIDE DEF a, ev, m
    <3> QED BY <1>1, <1>2, <1>3, <2>2, <3>1 DEF Leads, About, May, LeadsTo, Even
  <2>4. Leads(r, m, b, p)
    <3> HIDE DEF b, m
    <3> QED BY <2>1, <2>2 DEF Leads, About, May, LeadsTo, Even
  <2>5. Record(r, type, x) = <<a>> \o <<b>>
    BY <1>5 DEF Record
  <2> HIDE DEF a, b, m
  <2>6. <<a>> \in Seq(Command) /\ Path(r, <<a>>, p, m)
    BY <1>2, <2>2, <2>3, PathOne DEF Even
  <2>7. <<b>> \in Seq(Command) /\ Path(r, <<b>>, m, p)
    BY <2>1, <2>2, <2>4, PathOne DEF Even
  <2> DEFINE s == <<a>>
             t == <<b>>
  <2>8. s \in Seq(Command) /\ t \in Seq(Command) /\ Path(r, s, p, m) /\ Path(r, t, m, p)
    BY <2>6, <2>7
  <2>9. Record(r, type, x) = s \o t
    BY <2>5
  <2> HIDE DEF s, t
  <2> QED BY <2>8, <2>9, PathJoin
<1> QED BY <1>4, <1>5

\* writeRun takes the run from one status and its index to the next.
LEMMA WriteRunPath ==
    ASSUME NEW r \in Run, NEW from \in RunStatus, NEW to \in RunStatus, to # "none"
    PROVE  /\ WriteRun(r, from, to) \in Seq(Command)
           /\ Path(r, WriteRun(r, from, to), Settled(from), Settled(to))
<1> DEFINE a == Cmd("run", r, to)
           b == Cmd("unindex", r, from)
           c == Cmd("index", r, to)
           At(in) == [run |-> to, in |-> in, list |-> {}, unlist |-> {}, byId |-> {}]
           m == At({from} \ {"none"})
           n == At({})
           u == IF from = "none" THEN <<>> ELSE <<b>>
<1>1. /\ a \in Command /\ a.op = "run" /\ a.x = r /\ a.v = to
      /\ b \in Command /\ b.op = "unindex" /\ b.x = r /\ b.v = from
      /\ c \in Command /\ c.op = "index" /\ c.x = r /\ c.v = to
  BY DEF Cmd, Command
<1>2. /\ Even(m) /\ m.run = to /\ m.in = {from} \ {"none"}
      /\ Even(n) /\ n.run = to /\ n.in = {}
  BY DEF Even, View, Settled
<1>3. /\ Even(Settled(from)) /\ Settled(from).run = from /\ Settled(from).in = {from} \ {"none"}
      /\ Even(Settled(to)) /\ Settled(to).run = to /\ Settled(to).in = {to}
  BY DEF Even, View, Settled
<1>4. HomeOf(r) = r
  BY Homes
<1>5. WriteRun(r, from, to) = (<<a>> \o u) \o <<c>>
  BY DEF WriteRun
<1>6. from = "none" => m = n
  <2>1. from = "none" => {from} \ {"none"} = {}
    OBVIOUS
  <2> QED BY <2>1
<1> HIDE DEF a, b, c, m, n
<1>7. Leads(r, Settled(from), a, m)
  BY <1>1, <1>2, <1>3, <1>4 DEF Leads, About, May, LeadsTo, Even
<1>8. Leads(r, m, b, n)
  <2>1. n.in = m.in \ {from}
    BY <1>2
  <2> QED BY <1>1, <1>2, <1>4, <2>1 DEF Leads, About, May, LeadsTo, Even
<1>9. Leads(r, n, c, Settled(to))
  <2>1. Settled(to).in = n.in \union {to}
    BY <1>2, <1>3
  <2> QED BY <1>1, <1>2, <1>3, <1>4, <2>1 DEF Leads, About, May, LeadsTo, Even
<1>10. <<a>> \in Seq(Command) /\ Path(r, <<a>>, Settled(from), m)
  BY <1>1, <1>2, <1>3, <1>7, PathOne DEF Even
<1>11. u \in Seq(Command) /\ Path(r, u, m, n)
  <2>1. CASE from = "none"
    BY <1>2, <1>6, <2>1, PathNone DEF Even
  <2>2. CASE from # "none"
    BY <1>1, <1>2, <1>8, <2>2, PathOne DEF Even
  <2> QED BY <2>1, <2>2
<1>12. <<c>> \in Seq(Command) /\ Path(r, <<c>>, n, Settled(to))
  BY <1>1, <1>2, <1>3, <1>9, PathOne DEF Even
<1> HIDE DEF u
<1> DEFINE s == <<a>>
           v == <<c>>
<1>13. /\ s \in Seq(Command) /\ Path(r, s, Settled(from), m)
       /\ v \in Seq(Command) /\ Path(r, v, n, Settled(to))
  BY <1>10, <1>12
<1> HIDE DEF s, v
<1> DEFINE w == s \o u
<1>14. w \in Seq(Command) /\ Path(r, w, Settled(from), n)
  BY <1>11, <1>13, PathJoin
<1> HIDE DEF w
<1>15. w \o v \in Seq(Command) /\ Path(r, w \o v, Settled(from), Settled(to))
  BY <1>13, <1>14, PathJoin
<1> QED BY <1>5, <1>15 DEF s, v, w

\* A path through three commands.
LEMMA PathThree ==
    ASSUME NEW r, NEW p \in View, NEW m \in View, NEW n \in View, NEW q \in View,
           NEW a \in Command, NEW b \in Command, NEW c \in Command,
           Leads(r, p, a, m), Leads(r, m, b, n), Leads(r, n, c, q)
    PROVE  <<a, b, c>> \in Seq(Command) /\ Path(r, <<a, b, c>>, p, q)
<1> DEFINE f == [i \in 1 .. 4 |-> IF i = 1 THEN p ELSE IF i = 2 THEN m
                                  ELSE IF i = 3 THEN n ELSE q]
           t == <<a, b, c>>
<1>1. f \in [1 .. 4 -> View] /\ f[1] = p /\ f[2] = m /\ f[3] = n /\ f[4] = q
  OBVIOUS
<1>2. t \in Seq(Command) /\ Len(t) = 3 /\ t[1] = a /\ t[2] = b /\ t[3] = c
  OBVIOUS
<1> HIDE DEF f, t
<1>3. ASSUME NEW i \in 1 .. 3 PROVE Leads(r, f[i], t[i], f[i + 1])
  <2>1. (i = 1 /\ i + 1 = 2) \/ (i = 2 /\ i + 1 = 3) \/ (i = 3 /\ i + 1 = 4)
    OBVIOUS
  <2> QED BY <1>1, <1>2, <2>1
<1>4. 3 + 1 = 4
  OBVIOUS
<1>5. Path(r, t, p, q)
  BY <1>1, <1>2, <1>3, <1>4 DEF Path
<1> QED BY <1>2, <1>5 DEF t

\* A hook is deleted together with its place in the list of its run.
LEMMA DeleteHookPath ==
    ASSUME NEW r, NEW h \in Hook, HookRun[h] = r, NEW p, Even(p)
    PROVE  LET m == [p EXCEPT !.unlist = {h}] IN
           /\ m \in View
           /\ DeleteHook(h) \in Seq(Command) /\ Len(DeleteHook(h)) = 3
           /\ Leads(r, p, DeleteHook(h)[1], m)
           /\ Leads(r, m, DeleteHook(h)[2], p)
           /\ Leads(r, p, DeleteHook(h)[3], p)
           /\ Path(r, DeleteHook(h), p, p)
<1> DEFINE m == [p EXCEPT !.unlist = {h}]
           a == Cmd("unhook", h, "")
           b == Cmd("unlist", h, "")
           c == Cmd("free", HookToken[h], "")
<1>1. /\ a \in Command /\ a.op = "unhook" /\ a.x = h
      /\ b \in Command /\ b.op = "unlist" /\ b.x = h
  BY DEF Cmd, Command
<1>2. c \in Command /\ c.op = "free"
  BY CreateAssumption DEF Cmd, Command
<1>3. /\ m \in View /\ m.run = p.run /\ m.in = p.in /\ m.list = {} /\ m.unlist = {h}
      /\ m.byId = {}
  BY DEF Even, View
<1>4. HomeOf(h) = r
  BY Homes
<1>5. DeleteHook(h) = <<a, b, c>>
  BY DEF DeleteHook
<1> HIDE DEF a, b, c, m
<1>6. Len(DeleteHook(h)) = 3 /\ DeleteHook(h)[1] = a /\ DeleteHook(h)[2] = b /\ DeleteHook(h)[3] = c
  BY <1>5
<1>7. Leads(r, p, a, m)
  BY <1>1, <1>3, <1>4 DEF Leads, About, May, LeadsTo, Even
<1>8. Leads(r, m, b, p)
  BY <1>1, <1>3, <1>4 DEF Leads, About, May, LeadsTo, Even
<1>9. Leads(r, p, c, p)
  BY <1>2 DEF Leads, About, May, LeadsTo, Even
<1>10. <<a, b, c>> \in Seq(Command) /\ Path(r, <<a, b, c>>, p, p)
  BY <1>1, <1>2, <1>3, <1>7, <1>8, <1>9, PathThree DEF Even
<1>11. /\ m \in View
       /\ DeleteHook(h) \in Seq(Command) /\ Len(DeleteHook(h)) = 3
       /\ Leads(r, p, DeleteHook(h)[1], m)
       /\ Leads(r, m, DeleteHook(h)[2], p)
       /\ Leads(r, p, DeleteHook(h)[3], p)
       /\ Path(r, DeleteHook(h), p, p)
  BY <1>3, <1>5, <1>6, <1>7, <1>8, <1>9, <1>10
<1> QED BY <1>11 DEF m

\* Deleting the hooks of a run: one after the other.
LEMMA HooksGonePath ==
    ASSUME NEW d \in Data, NEW r \in Run, NEW p, Even(p)
    PROVE  HooksGone(d, r) \in Seq(Command) /\ Path(r, HooksGone(d, r), p, p)
<1> DEFINE H == {h \in d.byRun \intersect d.hook : HookRun[h] = r}
           mine == SetToSeq(H)
           n == Len(mine)
           t == HooksGone(d, r)
           f == [i \in 1 .. 3 * n + 1 |->
                   IF i % 3 = 2 THEN [p EXCEPT !.unlist = {mine[(i + 1) \div 3]}] ELSE p]
<1>1. /\ n \in Nat
      /\ \A k \in 1 .. n : mine[k] \in Hook /\ HookRun[mine[k]] = r
  <2>1. H \in SUBSET Hook
    BY DEF Data
  <2>2. IsFiniteSet(H)
    BY <2>1, CreateAssumption, FS_Subset
  <2>3. mine \in Seq(H)
    BY <2>2, Listed
  <2>4. n \in Nat /\ \A k \in 1 .. n : mine[k] \in H
    <3> HIDE DEF mine, H
    <3> QED BY <2>3
  <2> HIDE DEF mine
  <2> QED BY <2>1, <2>4
<1>2. t \in Seq(Command)
  BY CleanupQuiet DEF QuietList
<1>3. t = [i \in 1 .. 3 * n |-> DeleteHook(mine[(i + 2) \div 3])[((i + 2) % 3) + 1]]
  BY DEF HooksGone
<1> HIDE DEF mine, n, H, t
<1>4. Len(t) = 3 * n /\ 3 * n \in Nat
  BY <1>1, <1>2, <1>3
<1>5. ASSUME NEW h \in Hook, HookRun[h] = r
      PROVE  /\ [p EXCEPT !.unlist = {h}] \in View
             /\ Leads(r, p, DeleteHook(h)[1], [p EXCEPT !.unlist = {h}])
             /\ Leads(r, [p EXCEPT !.unlist = {h}], DeleteHook(h)[2], p)
             /\ Leads(r, p, DeleteHook(h)[3], p)
  BY <1>5, DeleteHookPath
<1>6. ASSUME NEW i \in 1 .. 3 * n + 1 PROVE f[i] \in View
  <2>1. CASE i % 3 = 2
    <3>1. (i + 1) \div 3 \in 1 .. n
      BY <1>1, <2>1
    <3>2. f[i] = [p EXCEPT !.unlist = {mine[(i + 1) \div 3]}]
      BY <2>1
    <3> HIDE DEF f
    <3> QED BY <1>1, <1>5, <3>1, <3>2
  <2>2. CASE i % 3 # 2
    BY <2>2 DEF Even
  <2> QED BY <2>1, <2>2
<1>7. f[1] = p /\ f[3 * n + 1] = p /\ f \in [1 .. 3 * n + 1 -> View]
  <2>1. 1 \in 1 .. 3 * n + 1 /\ 3 * n + 1 \in 1 .. 3 * n + 1 /\ 1 % 3 # 2 /\ (3 * n + 1) % 3 # 2
    BY <1>1
  <2> QED BY <1>6, <2>1
<1>8. ASSUME NEW i \in 1 .. 3 * n PROVE Leads(r, f[i], t[i], f[i + 1])
  <2> DEFINE k == (i + 2) \div 3
             h == mine[k]
  <2>1. /\ k \in 1 .. n /\ i \in 1 .. 3 * n + 1 /\ i + 1 \in 1 .. 3 * n + 1
    BY <1>1
  <2>2. h \in Hook /\ HookRun[h] = r
    <3> HIDE DEF k
    <3> QED BY <1>1, <2>1
  <2>3. t[i] = DeleteHook(h)[((i + 2) % 3) + 1]
    BY <1>3
  <2>4. /\ f[i] = IF i % 3 = 2 THEN [p EXCEPT !.unlist = {mine[(i + 1) \div 3]}] ELSE p
        /\ f[i + 1] = IF (i + 1) % 3 = 2
                      THEN [p EXCEPT !.unlist = {mine[((i + 1) + 1) \div 3]}] ELSE p
    BY <2>1
  <2>5. CASE i % 3 = 1
    <3>1. /\ ((i + 2) % 3) + 1 = 1 /\ (i + 1) % 3 = 2 /\ i % 3 # 2
          /\ ((i + 1) + 1) \div 3 = k
      BY <2>5
    <3> HIDE DEF f, k
    <3>2. f[i] = p /\ f[i + 1] = [p EXCEPT !.unlist = {h}] /\ t[i] = DeleteHook(h)[1]
      BY <2>3, <2>4, <3>1
    <3> HIDE DEF h
    <3> QED BY <1>5, <2>2, <3>2
  <2>6. CASE i % 3 = 2
    <3>1. /\ ((i + 2) % 3) + 1 = 2 /\ (i + 1) % 3 # 2 /\ (i + 1) \div 3 = k
      BY <2>6
    <3> HIDE DEF f, k
    <3>2. f[i] = [p EXCEPT !.unlist = {h}] /\ f[i + 1] = p /\ t[i] = DeleteHook(h)[2]
      BY <2>3, <2>4, <2>6, <3>1
    <3> HIDE DEF h
    <3> QED BY <1>5, <2>2, <3>2
  <2>7. CASE i % 3 = 0
    <3>1. ((i + 2) % 3) + 1 = 3 /\ (i + 1) % 3 # 2 /\ i % 3 # 2
      BY <2>7
    <3> HIDE DEF f, k
    <3>2. f[i] = p /\ f[i + 1] = p /\ t[i] = DeleteHook(h)[3]
      BY <2>3, <2>4, <3>1
    <3> HIDE DEF h
    <3> QED BY <1>5, <2>2, <3>2
  <2>8. i % 3 = 0 \/ i % 3 = 1 \/ i % 3 = 2
    OBVIOUS
  <2> QED BY <2>5, <2>6, <2>7, <2>8
<1> HIDE DEF f
<1>9. Path(r, t, p, p)
  BY <1>4, <1>7, <1>8 DEF Path
<1> QED BY <1>2, <1>9 DEF t

\* Deleting the waits of a run is no matter of an index.
LEMMA WaitsGonePath ==
    ASSUME NEW r \in Run, NEW p, Even(p)
    PROVE  WaitsGone(r) \in Seq(Command) /\ Path(r, WaitsGone(r), p, p)
<1> DEFINE W == {w \in Wait : WaitRun[w] = r}
           mine == SetToSeq(W)
           n == Len(mine)
           t == WaitsGone(r)
<1>1. n \in Nat /\ \A k \in 1 .. n : mine[k] \in Wait /\ WaitRun[mine[k]] = r
  <2>1. IsFiniteSet(W)
    BY CreateAssumption, FS_Subset
  <2>2. mine \in Seq(W)
    BY <2>1, Listed
  <2>3. n \in Nat /\ \A k \in 1 .. n : mine[k] \in W
    <3> HIDE DEF mine, W
    <3> QED BY <2>2
  <2> HIDE DEF mine
  <2> QED BY <2>3
<1>2. t = [i \in 1 .. n |-> Cmd("wait", mine[i], "none")]
  BY DEF WaitsGone
<1> HIDE DEF mine, n, W, t
<1>3. \A w \in Wait : WaitRun[w] = r => HomeOf(w) = r
  BY CreateAssumption DEF HomeOf
<1>4. ASSUME NEW w \in Wait, WaitRun[w] = r
      PROVE  /\ Cmd("wait", w, "none") \in Command
             /\ Cmd("wait", w, "none").op \in Calm /\ About(r, Cmd("wait", w, "none"))
  BY <1>3, <1>4 DEF Cmd, Command, WaitStatus, Calm, About
<1>5. t \in Seq(Command) /\ Len(t) = n
  BY <1>1, <1>2, <1>4
<1>6. \A i \in 1 .. Len(t) : t[i].op \in Calm /\ About(r, t[i])
  BY <1>1, <1>2, <1>4, <1>5
<1> QED BY <1>5, <1>6, CalmPath DEF t

\* What a reading command comes to takes the run round a loop.
LEMMA ExpandPath ==
    ASSUME NEW d \in Data, NEW cmd \in Command, cmd.op \in Reading, NEW r \in Run,
           About(r, cmd), NEW p, Even(p)
    PROVE  Expand(d, cmd) \in Seq(Command) /\ Path(r, Expand(d, cmd), p, p)
<1>1. CASE cmd.op = "claim"
  <2> DEFINE h == cmd.x
             a == Cmd("take", h, "")
             b == Cmd("hook", h, "")
             c == Cmd("list", h, "")
             m == [p EXCEPT !.list = {h}]
             s == <<a, b, c>>
             t == Record(HookRun[h], "hook_created", h)
             u == Record(HookRun[h], "hook_conflict", h)
  <2>1. h \in Hook /\ HookRun[h] = r /\ HomeOf(h) = r
    BY <1>1, CommandTyped, Homes DEF About
  <2>2. /\ t \in Seq(Command) /\ Path(r, t, p, p)
        /\ u \in Seq(Command) /\ Path(r, u, p, p)
    <3>1. "hook_created" \in EventType /\ "hook_conflict" \in EventType
      BY DEF EventType, HookTypes
    <3> HIDE DEF h
    <3> QED BY <2>1, <3>1, RecordPath
  <2>3. Expand(d, cmd) \in {s \o t, u}
    BY <1>1 DEF Expand
  <2>4. /\ a \in Command /\ a.op = "take" /\ a.x = h
        /\ b \in Command /\ b.op = "hook" /\ b.x = h
        /\ c \in Command /\ c.op = "list" /\ c.x = h
    BY <2>1 DEF Cmd, Command
  <2>5. /\ m \in View /\ m.run = p.run /\ m.in = p.in /\ m.list = {h} /\ m.unlist = {}
        /\ m.byId = {}
    BY <2>1 DEF Even, View
  <2> HIDE DEF a, b, c, m, h
  <2>6. Leads(r, p, a, p)
    BY <2>1, <2>4 DEF Leads, About, May, LeadsTo, Even
  <2>7. Leads(r, p, b, m)
    BY <2>1, <2>4, <2>5 DEF Leads, About, May, LeadsTo, Even
  <2>8. Leads(r, m, c, p)
    BY <2>1, <2>4, <2>5 DEF Leads, About, May, LeadsTo, Even
  <2>9. s \in Seq(Command) /\ Path(r, s, p, p)
    BY <2>4, <2>5, <2>6, <2>7, <2>8, PathThree DEF Even
  <2> HIDE DEF s, t, u
  <2>10. s \o t \in Seq(Command) /\ Path(r, s \o t, p, p)
    BY <2>2, <2>9, PathJoin
  <2> QED BY <2>2, <2>3, <2>10
<1>2. CASE cmd.op = "dispose"
  <2>1. cmd.x \in Hook /\ HookRun[cmd.x] = r
    BY <1>2, CommandTyped, Homes DEF About
  <2>2. Expand(d, cmd) \in {DeleteHook(cmd.x), <<>>}
    BY <1>2 DEF Expand
  <2>3. DeleteHook(cmd.x) \in Seq(Command) /\ Path(r, DeleteHook(cmd.x), p, p)
    BY <2>1, DeleteHookPath
  <2>4. <<>> \in Seq(Command) /\ Path(r, <<>>, p, p)
    BY PathNone DEF Even
  <2> QED BY <2>2, <2>3, <2>4
<1>3. CASE cmd.op = "cleanup"
  <2>1. cmd.x = r
    BY <1>3, CommandTyped, Homes DEF About
  <2>2. Expand(d, cmd) = HooksGone(d, r) \o WaitsGone(r)
    BY <1>3, <2>1 DEF Expand
  <2> DEFINE s == HooksGone(d, r)
             t == WaitsGone(r)
  <2>3. s \in Seq(Command) /\ Path(r, s, p, p) /\ t \in Seq(Command) /\ Path(r, t, p, p)
    BY HooksGonePath, WaitsGonePath
  <2>4. Expand(d, cmd) = s \o t
    BY <2>2
  <2> HIDE DEF s, t
  <2> QED BY <2>3, <2>4, PathJoin
<1> QED BY <1>1, <1>2, <1>3 DEF Reading

\* What a run event is to write moves the run from the status that was read.
LEMMA RunPlansPath ==
    ASSUME NEW r \in Run, NEW type \in RunTypes, NEW seen \in RunStatus, NEW withData,
           NEW cmds \in RunPlans(r, type, seen, withData)
    PROVE  \E to \in RunStatus : Path(r, cmds, Settled(seen), Settled(to))
<1> DEFINE end == EndStatus(type)
           new == WriteRun(r, "none", "pending")
           start == WriteRun(r, "pending", "running")
           stop == WriteRun(r, seen, end)
           clean == <<Cmd("cleanup", r, "")>>
           note == Record(r, type, r)
           first == Record(r, "run_created", r)
<1>1. {"none", "pending", "running", end} \subseteq RunStatus /\ end # "none"
  BY DEF RunStatus, RunTerminal, EndStatus
<1>2. /\ new \in Seq(Command) /\ Path(r, new, Settled("none"), Settled("pending"))
      /\ start \in Seq(Command) /\ Path(r, start, Settled("pending"), Settled("running"))
      /\ stop \in Seq(Command) /\ Path(r, stop, Settled(seen), Settled(end))
  BY <1>1, WriteRunPath
<1>3. ASSUME NEW st \in RunStatus
      PROVE  /\ note \in Seq(Command) /\ Path(r, note, Settled(st), Settled(st))
             /\ first \in Seq(Command) /\ Path(r, first, Settled(st), Settled(st))
             /\ clean \in Seq(Command) /\ Path(r, clean, Settled(st), Settled(st))
             /\ Path(r, <<>>, Settled(st), Settled(st))
  <2>1. Even(Settled(st)) /\ HomeOf(r) = r
    BY SettledEven, Homes
  <2>2. type \in EventType /\ "run_created" \in EventType
    BY DEF RunTypes, EventType
  <2>3. /\ Cmd("cleanup", r, "") \in Command /\ Cmd("cleanup", r, "").op \in Calm
        /\ About(r, Cmd("cleanup", r, ""))
    BY <2>1 DEF Cmd, Command, Calm, About
  <2> QED BY <2>1, <2>2, <2>3, RecordPath, CalmOne, PathNone DEF Even
<1>4. \/ seen = "none" /\ cmds = new \o note
      \/ cmds = <<>>
      \/ seen = "pending" /\ cmds = start \o note
      \/ cmds = note
      \/ seen = "none" /\ cmds = ((new \o first) \o start) \o note
      \/ cmds = (stop \o clean) \o note
  <2>1. CASE type = "run_created"
    BY <2>1 DEF RunPlans, Accept
  <2>2. CASE type = "run_started"
    BY <2>2 DEF RunPlans, Accept
  <2>3. CASE type \notin {"run_created", "run_started"}
    BY <2>3 DEF RunPlans, Accept
  <2> QED BY <2>1, <2>2, <2>3
<1> HIDE DEF end, new, start, stop, clean, note, first
<1>5. /\ Path(r, new \o note, Settled("none"), Settled("pending"))
      /\ Path(r, start \o note, Settled("pending"), Settled("running"))
  BY <1>1, <1>2, <1>3, PathJoin
<1>6. Path(r, ((new \o first) \o start) \o note, Settled("none"), Settled("running"))
  <2> DEFINE a == new \o first
             b == a \o start
  <2>1. a \in Seq(Command) /\ Path(r, a, Settled("none"), Settled("pending"))
    BY <1>1, <1>2, <1>3, PathJoin
  <2>2. b \in Seq(Command) /\ Path(r, b, Settled("none"), Settled("running"))
    <3> HIDE DEF a
    <3> QED BY <1>2, <2>1, PathJoin
  <2>3. Path(r, b \o note, Settled("none"), Settled("running"))
    <3> HIDE DEF b
    <3> QED BY <1>1, <1>3, <2>2, PathJoin
  <2> QED BY <2>3
<1>7. Path(r, (stop \o clean) \o note, Settled(seen), Settled(end))
  <2> DEFINE a == stop \o clean
  <2>1. a \in Seq(Command) /\ Path(r, a, Settled(seen), Settled(end))
    BY <1>1, <1>2, <1>3, PathJoin
  <2>2. Path(r, a \o note, Settled(seen), Settled(end))
    <3> HIDE DEF a
    <3> QED BY <1>1, <1>3, <2>1, PathJoin
  <2> QED BY <2>2
<1> QED BY <1>1, <1>3, <1>4, <1>5, <1>6, <1>7

\* What the other events are to write leaves the status of the run alone.
LEMMA HookPlansPath ==
    ASSUME NEW h \in Hook, NEW type \in HookTypes, NEW seen, NEW live,
           NEW cmds \in HookPlans(h, type, seen, live), NEW p, Even(p)
    PROVE  Path(HookRun[h], cmds, p, p)
<1> DEFINE r == HookRun[h]
           note == Record(r, type, h)
<1>1. r \in Run /\ HomeOf(h) = r
  BY CreateAssumption, Homes
<1>2. note \in Seq(Command) /\ Path(r, note, p, p)
  <2>1. type \in EventType
    BY DEF EventType
  <2> QED BY <1>1, <2>1, RecordPath
<1>3. ASSUME NEW op \in {"claim", "dispose"}
      PROVE  <<Cmd(op, h, "")>> \in Seq(Command) /\ Path(r, <<Cmd(op, h, "")>>, p, p)
  <2>1. Cmd(op, h, "") \in Command /\ Cmd(op, h, "").op \in Calm /\ About(r, Cmd(op, h, ""))
    BY <1>1, <1>3 DEF Cmd, Command, Calm, About
  <2> QED BY <2>1, CalmOne
<1> DEFINE claim == <<Cmd("claim", h, "")>>
           dispose == <<Cmd("dispose", h, "")>>
<1>4. cmds \in {claim, note, dispose \o note}
  BY DEF HookPlans, Accept, HookTypes
<1>5. /\ claim \in Seq(Command) /\ Path(r, claim, p, p)
      /\ dispose \in Seq(Command) /\ Path(r, dispose, p, p)
  BY <1>3
<1> HIDE DEF r, note, claim, dispose
<1>6. Path(r, dispose \o note, p, p)
  BY <1>2, <1>5, PathJoin
<1> QED BY <1>2, <1>4, <1>5, <1>6 DEF r

LEMMA WaitPlansPath ==
    ASSUME NEW w \in Wait, NEW type \in WaitTypes, NEW seen, NEW status,
           NEW cmds \in WaitPlans(w, type, seen, status), NEW p, Even(p)
    PROVE  Path(WaitRun[w], cmds, p, p)
<1> DEFINE r == WaitRun[w]
           note == Record(r, type, w)
<1>1. r \in Run /\ HomeOf(w) = r
  BY CreateAssumption DEF HomeOf
<1>2. note \in Seq(Command) /\ Path(r, note, p, p)
  <2>1. type \in EventType
    BY DEF EventType
  <2> QED BY <1>1, <2>1, RecordPath
<1>3. PICK st \in WaitStatus : cmds = <<Cmd("wait", w, st)>> \o note
  BY DEF WaitPlans, Accept, WaitStatus
<1> DEFINE a == <<Cmd("wait", w, st)>>
<1>4. a \in Seq(Command) /\ Path(r, a, p, p)
  <2>1. /\ Cmd("wait", w, st) \in Command /\ Cmd("wait", w, st).op \in Calm
        /\ About(r, Cmd("wait", w, st))
    BY <1>1 DEF Cmd, Command, Calm, About
  <2> QED BY <2>1, CalmOne
<1>5. cmds = a \o note
  BY <1>3
<1> HIDE DEF r, note, a
<1>6. Path(r, a \o note, p, p)
  BY <1>2, <1>4, PathJoin
<1> QED BY <1>5, <1>6 DEF r

LEMMA StepThenEventPath ==
    ASSUME NEW s \in Step, NEW type \in StepTypes, NEW new \in StepEntity, NEW p, Even(p)
    PROVE  Path(StepRun[s], StepThenEvent(s, type, new), p, p)
<1> DEFINE r == StepRun[s]
           note == Record(r, type, s)
           a == <<Cmd("step", s, new)>>
<1>1. r \in Run /\ HomeOf(s) = r
  BY CreateAssumption DEF HomeOf
<1>2. note \in Seq(Command) /\ Path(r, note, p, p)
  <2>1. type \in EventType
    BY DEF EventType
  <2> QED BY <1>1, <2>1, RecordPath
<1>3. a \in Seq(Command) /\ Path(r, a, p, p)
  <2>1. /\ Cmd("step", s, new) \in Command /\ Cmd("step", s, new).op \in Calm
        /\ About(r, Cmd("step", s, new))
    BY <1>1 DEF Cmd, Command, Calm, About
  <2> QED BY <2>1, CalmOne
<1>4. StepThenEvent(s, type, new) = a \o note
  BY DEF StepThenEvent
<1> HIDE DEF r, note, a
<1>5. Path(r, a \o note, p, p)
  BY <1>2, <1>3, PathJoin
<1> QED BY <1>4, <1>5 DEF r

\* A call goes on with a path from the status of the run to a status.
LEMMA PlansPath ==
    ASSUME NEW e \in Calls, NEW seen \in RunStatus, NEW d \in Data, NEW st \in RunStatus,
           e.type \in RunTypes => seen = st, NEW cmds \in Plans(e, seen, d)
    PROVE  \E to \in RunStatus : Path(RunOf(e), cmds, Settled(st), Settled(to))
<1>6. /\ e.type \in RunTypes => e.type \notin StepTypes \union HookTypes \union WaitTypes
      /\ e.type \in StepTypes => e.type \notin HookTypes \union WaitTypes
      /\ e.type \in HookTypes => e.type \notin WaitTypes
  BY DEF RunTypes, StepTypes, HookTypes, WaitTypes
<1>7. Even(Settled(st))
  BY SettledEven
<1>1. CASE e.type \in RunTypes
  <2>1. e.x \in Run
    BY <1>1 DEF Calls, RunTypes, StepTypes, HookTypes, WaitTypes
  <2>2. cmds \in RunPlans(e.x, e.type, seen, e.extra)
    BY <1>1, <1>6 DEF Plans
  <2>3. RunOf(e) = e.x
    BY <2>1, Homes DEF RunOf
  <2> QED BY <1>1, <2>1, <2>2, <2>3, RunPlansPath
<1>2. CASE e.type \in StepTypes
  <2>1. e.x \in Step /\ e.extra \in BOOLEAN
    BY <1>2 DEF Calls, RunTypes, StepTypes, HookTypes, WaitTypes
  <2>2. cmds \in StepPlans(e.x, e.type, seen, d.step[e.x], e.extra)
    BY <1>2, <1>6 DEF Plans
  <2>3. d.step[e.x] \in StepEntity
    BY <2>1 DEF Data
  <2>4. \E new \in StepEntity : cmds = StepThenEvent(e.x, e.type, new)
    BY <1>2, <2>1, <2>2, <2>3, StepPlansWrite
  <2>5. RunOf(e) = StepRun[e.x]
    BY <2>1, CreateAssumption DEF RunOf, HomeOf
  <2> QED BY <1>2, <1>7, <2>1, <2>4, <2>5, StepThenEventPath
<1>3. CASE e.type \in HookTypes
  <2>1. e.x \in Hook
    BY <1>3 DEF Calls, RunTypes, StepTypes, HookTypes, WaitTypes
  <2>2. cmds \in HookPlans(e.x, e.type, seen, e.x \in d.hook)
    BY <1>3, <1>6 DEF Plans
  <2>3. RunOf(e) = HookRun[e.x]
    BY <2>1, Homes DEF RunOf
  <2>4. Path(HookRun[e.x], cmds, Settled(st), Settled(st))
    BY <1>3, <1>7, <2>1, <2>2, HookPlansPath
  <2> QED BY <2>3, <2>4
<1>4. CASE e.type \in WaitTypes
  <2>1. e.x \in Wait
    BY <1>4 DEF Calls, RunTypes, StepTypes, HookTypes, WaitTypes
  <2>2. cmds \in WaitPlans(e.x, e.type, seen, d.wait[e.x])
    BY <1>4, <1>6 DEF Plans
  <2>3. RunOf(e) = WaitRun[e.x]
    BY <2>1, CreateAssumption DEF RunOf, HomeOf
  <2>4. Path(WaitRun[e.x], cmds, Settled(st), Settled(st))
    BY <1>4, <1>7, <2>1, <2>2, WaitPlansPath
  <2> QED BY <2>3, <2>4
<1>5. e.type \in RunTypes \union StepTypes \union HookTypes \union WaitTypes
  BY DEF Calls
<1> QED BY <1>1, <1>2, <1>3, <1>4, <1>5

----------------------------------------------------------------------------
(* The indexes of every run agree once what is pending for it is written. *)

Good(d, r, t) ==
    \E p \in View : \E st \in RunStatus : Shows(d, r, p) /\ Path(r, t, p, Settled(st))

\* What is pending for a run: the todo list of the call at work on it, if any.
Pending(r, t) ==
    \/ t # <<>> /\ \E c \in Caller : on[c] = r /\ todo[c] = t
    \/ t = <<>> /\ \A c \in Caller : on[c] = r => todo[c] = <<>>

\* The status a call of a run event has read is still the run's.
Fresh(c) ==
    stage[c] = "check" /\ call[c].type \in RunTypes => seenRun[c] = db.run[on[c]]

IndexInv ==
    Faultless => /\ \A r \in Run : \A t : Pending(r, t) => Good(db, r, t)
                 /\ \A c \in Caller : Fresh(c)

\* With nothing pending, a run is good when it is indexed.
LEMMA GoodIndexed ==
    ASSUME NEW d \in Data
    PROVE  Indexed(d) <=> \A r \in Run : Good(d, r, <<>>)
<1> DEFINE X == Step \union Hook \union Wait
<1>1. /\ d.run \in [Run -> RunStatus] /\ d.hook \subseteq Hook /\ d.byRun \subseteq Hook
      /\ DOMAIN d.byId = X
  BY DEF Data
<1>2. ASSUME NEW st \in RunStatus
      PROVE  /\ Settled(st) \in View /\ Settled(st).run = st
             /\ \A z \in RunStatus : z \in Settled(st).in <=> z = st /\ st # "none"
             /\ Settled(st).list = {} /\ Settled(st).unlist = {} /\ Settled(st).byId = {}
  BY DEF Settled, View
<1>3. ASSUME Indexed(d), NEW r \in Run PROVE Good(d, r, <<>>)
  <2> DEFINE st == d.run[r]
             p == Settled(st)
  <2>1. st \in RunStatus
    BY <1>1
  <2> HIDE DEF p
  <2>2. /\ p \in View /\ p.run = st /\ p.list = {} /\ p.unlist = {} /\ p.byId = {}
        /\ \A z \in RunStatus : z \in p.in <=> z = st /\ st # "none"
    BY <1>2, <2>1 DEF p
  <2>3. RunIndexed(d, r) /\ LogIsOwn(d, r)
    BY <1>3 DEF Indexed
  <2>4. StatusShown(d, r, p)
    BY <2>2, <2>3 DEF RunIndexed, StatusShown
  <2>5. HooksShown(d, r, p)
    BY <1>3, <2>2 DEF Indexed, HooksShown
  <2>6. LogShown(d, r, p)
    BY <1>1, <1>3, <2>2, <2>3 DEF Indexed, LogShown
  <2>7. Path(r, <<>>, p, Settled(st))
    BY <2>2, PathNone DEF p
  <2> HIDE DEF st
  <2> QED BY <2>1, <2>2, <2>4, <2>5, <2>6, <2>7 DEF Good, Shows
<1>4. ASSUME \A r \in Run : Good(d, r, <<>>) PROVE Indexed(d)
  <2>1. ASSUME NEW r \in Run
        PROVE  /\ RunIndexed(d, r) /\ LogIsOwn(d, r)
               /\ \A h \in Hook : HookRun[h] = r => (h \in d.byRun <=> h \in d.hook)
               /\ \A x \in X : HomeOf(x) = r => d.byId[x] = Cardinality(Mentions(d, x))
    <3>1. PICK p \in View, st \in RunStatus : Shows(d, r, p) /\ Path(r, <<>>, p, Settled(st))
      BY <1>4 DEF Good
    <3>2. p = Settled(st)
      BY <3>1, PathNoneOnly
    <3>3. /\ p.run = st /\ p.list = {} /\ p.unlist = {} /\ p.byId = {}
          /\ \A z \in RunStatus : z \in p.in <=> z = st /\ st # "none"
      BY <1>2, <3>2
    <3>4. RunIndexed(d, r)
      BY <3>1, <3>3 DEF Shows, StatusShown, RunIndexed
    <3>5. \A h \in Hook : HookRun[h] = r => (h \in d.byRun <=> h \in d.hook)
      BY <3>1, <3>3 DEF Shows, HooksShown
    <3>6. LogIsOwn(d, r) /\ \A x \in X : HomeOf(x) = r => d.byId[x] = Cardinality(Mentions(d, x))
      BY <3>1, <3>3 DEF Shows, LogShown
    <3> QED BY <3>4, <3>5, <3>6
  <2>2. d.byRun = d.hook
    <3>1. \A h \in Hook : HookRun[h] \in Run
      BY CreateAssumption
    <3> QED BY <1>1, <2>1, <3>1
  <2>3. \A x \in DOMAIN d.byId : d.byId[x] = Cardinality(Mentions(d, x))
    BY <1>1, <2>1, Homes
  <2> QED BY <2>1, <2>2, <2>3 DEF Indexed
<1> QED BY <1>3, <1>4

LEMMA HeadTailJoin ==
    ASSUME NEW s \in Seq(Command), s # <<>>, NEW t \in Seq(Command)
    PROVE  /\ s \o t \in Seq(Command) /\ s \o t # <<>>
           /\ Head(s \o t) = Head(s) /\ Tail(s \o t) = Tail(s) \o t
<1> DEFINE u == s \o t
           v == Tail(s) \o t
           a == Len(s)
           b == Len(t)
<1>1. a \in Nat /\ b \in Nat /\ a > 0 /\ Head(s) = s[1]
  OBVIOUS
<1>2. Tail(s) \in Seq(Command) /\ Len(Tail(s)) = a - 1 /\ \A i \in 1 .. a - 1 : Tail(s)[i] = s[i + 1]
  OBVIOUS
<1>3. /\ u \in Seq(Command) /\ Len(u) = a + b
      /\ \A i \in 1 .. a + b : u[i] = IF i <= a THEN s[i] ELSE t[i - a]
  BY ConcatProperties
<1>4. /\ v \in Seq(Command) /\ Len(v) = (a - 1) + b
      /\ \A i \in 1 .. (a - 1) + b : v[i] = IF i <= a - 1 THEN Tail(s)[i] ELSE t[i - (a - 1)]
  BY <1>2, ConcatProperties
<1> HIDE DEF u, v, a, b
<1>5. u # <<>> /\ Head(u) = u[1] /\ u[1] = s[1]
  BY <1>1, <1>3
<1>6. /\ Tail(u) \in Seq(Command) /\ Len(Tail(u)) = (a - 1) + b
      /\ \A i \in 1 .. (a - 1) + b : Tail(u)[i] = u[i + 1]
  BY <1>1, <1>3, <1>5
<1>7. ASSUME NEW i \in 1 .. (a - 1) + b PROVE Tail(u)[i] = v[i]
  <2>1. CASE i <= a - 1
    BY <1>1, <1>2, <1>3, <1>4, <1>6, <2>1
  <2>2. CASE i > a - 1
    <3>1. Tail(u)[i] = t[(i + 1) - a] /\ v[i] = t[i - (a - 1)]
      BY <1>1, <1>3, <1>4, <1>6, <2>2
    <3>2. (i + 1) - a = i - (a - 1)
      BY <1>1
    <3> QED BY <3>1, <3>2
  <2>3. i <= a - 1 \/ i > a - 1
    BY <1>1
  <2> QED BY <2>1, <2>2, <2>3
<1>8. Tail(u) = v
  BY <1>4, <1>6, <1>7, SeqEqual
<1> QED BY <1>1, <1>3, <1>5, <1>8 DEF u, v

\* A command of the list is about its run, and a step along the path.
LEMMA GoodHead ==
    ASSUME NEW d \in Data, NEW r \in Run, NEW t \in Seq(Command), t # <<>>, Good(d, r, t)
    PROVE  /\ Head(t) \in Command /\ About(r, Head(t)) /\ Tail(t) \in Seq(Command)
           /\ Head(t).op \notin Reading => Good(Apply(d, Head(t)), r, Tail(t))
           /\ Head(t).op \in Reading => /\ Expand(d, Head(t)) \in Seq(Command)
                                        /\ Good(d, r, Expand(d, Head(t)) \o Tail(t))
<1> DEFINE cmd == Head(t)
           more == Tail(t)
<1>1. cmd \in Command /\ more \in Seq(Command)
  OBVIOUS
<1>2. PICK p \in View, st \in RunStatus : Shows(d, r, p) /\ Path(r, t, p, Settled(st))
  BY DEF Good
<1>3. PICK m \in View : Leads(r, p, cmd, m) /\ Path(r, more, m, Settled(st))
  BY <1>2, PathHead
<1> HIDE DEF cmd, more
<1>4. About(r, cmd)
  BY <1>3 DEF Leads
<1>5. ASSUME cmd.op \notin Reading PROVE Good(Apply(d, cmd), r, more)
  <2>1. Shows(Apply(d, cmd), r, m)
    BY <1>1, <1>2, <1>3, <1>5, ShowsNext
  <2> QED BY <1>3, <2>1 DEF Good
<1>6. ASSUME cmd.op \in Reading
      PROVE  Expand(d, cmd) \in Seq(Command) /\ Good(d, r, Expand(d, cmd) \o more)
  <2>1. /\ p.list = {} /\ p.unlist = {} /\ p.byId = {}
        /\ m.run = p.run /\ m.in = p.in /\ m.list = {} /\ m.unlist = {} /\ m.byId = {}
    BY <1>3, <1>6 DEF Reading, Leads, May, LeadsTo
  <2>2. m = p
    <3>1. \A v \in View : v = [run |-> v.run, in |-> v.in, list |-> v.list,
                              unlist |-> v.unlist, byId |-> v.byId]
      BY DEF View
    <3> QED BY <2>1, <3>1
  <2> DEFINE s == Expand(d, cmd)
  <2>3. s \in Seq(Command) /\ Path(r, s, p, p)
    BY <1>1, <1>4, <1>6, <2>1, ExpandPath DEF Even
  <2> HIDE DEF s
  <2>4. Path(r, s \o more, p, Settled(st))
    BY <1>1, <1>3, <2>2, <2>3, PathJoin
  <2> QED BY <1>2, <2>3, <2>4 DEF Good, s
<1> QED BY <1>1, <1>4, <1>5, <1>6 DEF cmd, more

\* What went wrong stays wrong.
LEMMA FaultlessBefore ==
    ASSUME CallInv, ChainInv, [Next]_vars, Faultless'
    PROVE  Faultless /\ Sound /\ ~(\E c \in Caller : Fail(c)) /\ ~(\E h \in Host : Die(h))
<1>1. /\ expiries \in Nat /\ giveUps \in Nat /\ crashes \in Nat /\ failures \in Nat
  BY LocksAssumption, CreateAssumption DEF ChainInv, LockTypeOK, CallInv, TypeOK
<1>2. [LockNext]_lockVars
  BY StepsUseLock
<1>3. /\ expiries' \in {expiries, expiries + 1} /\ giveUps' \in {giveUps, giveUps + 1}
      /\ crashes' \in {crashes, crashes + 1}
  BY <1>2 DEF LockNext, lockVars, Call, Acquire, GiveUp, Leave, Expire, CrashHost, Enter
<1>4. failures' \in {failures, failures + 1}
  BY DEF Next, vars, createVars, Create, TakeLock, LoadRun, Validate, Write, Return, Fail,
         Die, KeyExpires, RetryDue
<1>5. ASSUME NEW c \in Caller, Fail(c) PROVE FALSE
  BY <1>1, <1>5 DEF Fail, Faultless
<1>6. ASSUME NEW h \in Host, Die(h) PROVE FALSE
  BY <1>1, <1>6 DEF Die, CrashHost, Faultless
<1> QED BY <1>1, <1>3, <1>4, <1>5, <1>6 DEF Faultless, Sound

\* Where a call is inside, all that is pending is its own.
LEMMA PendingHere ==
    ASSUME CallInv, Exclusion, Sound, NEW c \in Caller, phase[c] = "inside",
           NEW d \in Caller, d # c, on[d] = on[c]
    PROVE  phase[d] # "inside" /\ todo[d] = <<>>
<1>1. phase[d] # "inside"
  BY DEF Exclusion, Sound
<1> QED BY <1>1 DEF CallInv, TypeOK

\* It changes what is pending for its own run only.
LEMMA PendingAfter ==
    ASSUME CallInv, Exclusion, Sound, NEW c \in Caller, phase[c] = "inside", on' = on,
           todo' = [todo EXCEPT ![c] = todo'[c]], NEW r \in Run, NEW t, Pending(r, t)'
    PROVE  IF r = on[c] THEN t = todo'[c] ELSE Pending(r, t)
<1>1. \A d \in Caller : d # c => todo'[d] = todo[d]
  BY DEF CallInv
<1>2. CASE r = on[c]
  <2>1. \A d \in Caller : d # c /\ on[d] = r => todo'[d] = <<>>
    BY <1>1, <1>2, PendingHere
  <2> QED BY <1>2, <2>1 DEF Pending
<1>3. CASE r # on[c]
  BY <1>1, <1>3 DEF Pending
<1> QED BY <1>2, <1>3

LEMMA PendingNow ==
    ASSUME CallInv, Exclusion, Sound, NEW c \in Caller, phase[c] = "inside"
    PROVE  Pending(on[c], todo[c]) /\ on[c] \in Run /\ on[c] = RunOf(call[c]) /\ call[c] \in Calls
<1>1. on[c] = RunOf(call[c]) /\ call[c] \in Calls
  BY DEF CallInv, CallOf, Active
<1>2. on[c] \in Run
  BY <1>1, CallsHaveRuns
<1>3. CASE todo[c] # <<>>
  <2>1. Pending(on[c], todo[c])
    BY <1>3 DEF Pending
  <2> QED BY <1>1, <1>2, <2>1
<1>4. CASE todo[c] = <<>>
  <2>1. \A d \in Caller : on[d] = on[c] => todo[d] = <<>>
    BY <1>4, PendingHere
  <2>2. Pending(on[c], todo[c])
    BY <1>4, <2>1 DEF Pending
  <2> QED BY <1>1, <1>2, <2>2
<1> QED BY <1>1, <1>2, <1>3, <1>4

LEMMA IndexInit == Init => IndexInv
<1> SUFFICES ASSUME Init PROVE IndexInv
  OBVIOUS
<1>1. db \in Data /\ Indexed(db)
  BY ScenesAssumption DEF Init
<1>2. \A r \in Run : Good(db, r, <<>>)
  BY <1>1, GoodIndexed
<1>3. ASSUME NEW r, NEW t, Pending(r, t) PROVE t = <<>>
  BY <1>3 DEF Pending, Init
<1>4. \A c \in Caller : Fresh(c)
  BY DEF Init, Fresh
<1> QED BY <1>2, <1>3, <1>4 DEF IndexInv

LEMMA IndexValidate ==
    ASSUME CallInv, Exclusion, Sound, Faultless, IndexInv, NEW c \in Caller, Validate(c)
    PROVE  IndexInv'
<1> DEFINE r == on[c]
<1>1. /\ phase[c] = "inside" /\ stage[c] = "check" /\ db' = db /\ call' = call /\ on' = on
      /\ seenRun' = seenRun /\ stage' = [stage EXCEPT ![c] = "write"]
  BY DEF Validate, lockVars
<1>2. PICK cmds \in Plans(call[c], seenRun[c], db) : todo' = [todo EXCEPT ![c] = cmds]
  BY DEF Validate
<1>3. todo'[c] = cmds /\ todo' = [todo EXCEPT ![c] = todo'[c]] /\ todo[c] = <<>>
  BY <1>1, <1>2 DEF CallInv, TodoOf
<1>4. seenRun[c] \in RunStatus /\ db \in Data
  BY DEF CallInv, TypeOK
<1>5. Pending(r, <<>>) /\ r \in Run /\ r = RunOf(call[c]) /\ call[c] \in Calls
  BY <1>1, <1>3, PendingNow
<1> HIDE DEF r
<1>6. PICK p \in View, st \in RunStatus : Shows(db, r, p) /\ Path(r, <<>>, p, Settled(st))
  BY <1>5 DEF IndexInv, Good
<1>7. p = Settled(st)
  BY <1>6, PathNoneOnly
<1>8. db.run[r] = st
  BY <1>6, <1>7 DEF Shows, StatusShown, Settled
<1>9. call[c].type \in RunTypes => seenRun[c] = st
  BY <1>1, <1>8 DEF IndexInv, Fresh, r
<1>10. PICK to \in RunStatus : Path(r, cmds, p, Settled(to))
  BY <1>2, <1>4, <1>5, <1>7, <1>9, PlansPath
<1>11. Good(db, r, cmds)
  BY <1>6, <1>10 DEF Good
<1>12. ASSUME NEW z \in Run, NEW t, Pending(z, t)' PROVE Good(db', z, t)
  <2>1. IF z = r THEN t = cmds ELSE Pending(z, t)
    BY <1>1, <1>3, <1>12, PendingAfter DEF r
  <2> QED BY <1>1, <1>11, <2>1 DEF IndexInv
<1>13. ASSUME NEW d \in Caller PROVE Fresh(d)'
  <2>1. CASE d = c
    BY <1>1, <2>1 DEF Fresh, CallInv, TypeOK
  <2>2. CASE d # c
    <3>1. stage'[d] = stage[d] /\ Fresh(d)
      BY <1>1, <2>2 DEF CallInv, TypeOK, IndexInv
    <3> QED BY <1>1, <3>1 DEF Fresh
  <2> QED BY <2>1, <2>2
<1> QED BY <1>12, <1>13 DEF IndexInv

\* The data goes on showing a run as it did.
Unmoved(z) ==
    /\ \A p : Shows(db, z, p) => Shows(db', z, p)
    /\ db'.run[z] = db.run[z]

LEMMA IndexWrite ==
    ASSUME CallInv, Exclusion, Sound, Faultless, IndexInv, NEW c \in Caller, Write(c)
    PROVE  IndexInv'
<1> DEFINE r == on[c]
           t == todo[c]
           cmd == Head(t)
           more == Tail(t)
           cmds == Expand(db, cmd)
<1>1. /\ phase[c] = "inside" /\ stage[c] = "write" /\ call' = call /\ on' = on
      /\ seenRun' = seenRun /\ stage' = stage /\ t # <<>>
  BY DEF Write, lockVars
<1>2. \/ /\ cmd.op \notin Reading
         /\ db' = Apply(db, cmd)
         /\ todo' = [todo EXCEPT ![c] = more]
      \/ /\ cmd.op \in Reading
         /\ cmds # <<>> /\ Head(cmds).op = "take"
         /\ db' = Apply(db, Head(cmds))
         /\ todo' = [todo EXCEPT ![c] = Tail(cmds) \o more]
      \/ /\ cmd.op \in Reading
         /\ db' = db
         /\ todo' = [todo EXCEPT ![c] = cmds \o more]
  BY DEF Write
<1>3. db \in Data /\ t \in Seq(Command) /\ todo \in [Caller -> Seq(Command)]
  BY DEF CallInv, TypeOK
<1>4. Pending(r, t) /\ r \in Run
  BY <1>1, PendingNow
<1> HIDE DEF r, t
<1>5. Good(db, r, t)
  BY <1>4 DEF IndexInv
<1>6. /\ cmd \in Command /\ About(r, cmd) /\ more \in Seq(Command)
      /\ cmd.op \notin Reading => Good(Apply(db, cmd), r, more)
      /\ cmd.op \in Reading => cmds \in Seq(Command) /\ Good(db, r, cmds \o more)
  BY <1>1, <1>3, <1>4, <1>5, GoodHead
<1> HIDE DEF cmd, more, cmds
<1>7. /\ Good(db', r, todo'[c]) /\ todo' = [todo EXCEPT ![c] = todo'[c]]
      /\ \A z \in Run : z # r => Unmoved(z)
  <2>1. CASE /\ cmd.op \notin Reading
             /\ db' = Apply(db, cmd)
             /\ todo' = [todo EXCEPT ![c] = more]
    <3>1. todo'[c] = more
      BY <1>3, <2>1
    <3>2. ASSUME NEW z \in Run, z # r PROVE Unmoved(z)
      BY <1>3, <1>4, <1>6, <2>1, <3>2, OthersShow DEF Unmoved
    <3> QED BY <1>6, <2>1, <3>1, <3>2
  <2>2. CASE /\ cmd.op \in Reading
             /\ cmds # <<>> /\ Head(cmds).op = "take"
             /\ db' = Apply(db, Head(cmds))
             /\ todo' = [todo EXCEPT ![c] = Tail(cmds) \o more]
    <3> DEFINE u == cmds \o more
    <3>1. /\ u \in Seq(Command) /\ u # <<>>
          /\ Head(u) = Head(cmds) /\ Tail(u) = Tail(cmds) \o more
      BY <1>6, <2>2, HeadTailJoin
    <3>2. Good(db, r, u) /\ Head(u).op \notin Reading
      BY <1>6, <2>2, <3>1 DEF Reading
    <3> HIDE DEF u
    <3>3. Head(u) \in Command /\ About(r, Head(u)) /\ Good(Apply(db, Head(u)), r, Tail(u))
      BY <1>3, <1>4, <3>1, <3>2, GoodHead
    <3>4. todo'[c] = Tail(u) /\ db' = Apply(db, Head(u))
      BY <1>3, <2>2, <3>1
    <3>5. ASSUME NEW z \in Run, z # r PROVE Unmoved(z)
      BY <1>3, <1>4, <3>2, <3>3, <3>4, <3>5, OthersShow DEF Unmoved
    <3> QED BY <2>2, <3>3, <3>4, <3>5
  <2>3. CASE /\ cmd.op \in Reading
             /\ db' = db
             /\ todo' = [todo EXCEPT ![c] = cmds \o more]
    <3>1. todo'[c] = cmds \o more
      BY <1>3, <2>3
    <3> QED BY <1>6, <2>3, <3>1 DEF Unmoved
  <2> QED BY <1>2, <2>1, <2>2, <2>3
<1>8. ASSUME NEW z \in Run, NEW u, Pending(z, u)' PROVE Good(db', z, u)
  <2>1. IF z = r THEN u = todo'[c] ELSE Pending(z, u)
    BY <1>1, <1>7, <1>8, PendingAfter DEF r
  <2>2. CASE z = r
    BY <1>7, <2>1, <2>2
  <2>3. CASE z # r
    <3>1. Good(db, z, u)
      BY <2>1, <2>3 DEF IndexInv
    <3> QED BY <1>7, <2>3, <3>1 DEF Good, Unmoved
  <2> QED BY <2>2, <2>3
<1>9. ASSUME NEW d \in Caller PROVE Fresh(d)'
  <2>1. SUFFICES ASSUME stage[d] = "check", call[d].type \in RunTypes
                 PROVE  seenRun[d] = db'.run[on[d]]
    BY <1>1 DEF Fresh
  <2>2. d # c /\ phase[d] = "inside"
    BY <1>1, <2>1 DEF CallInv, TypeOK
  <2>3. on[d] # r /\ on[d] \in Run
    BY <1>1, <2>2, PendingHere, PendingNow DEF r
  <2>4. db'.run[on[d]] = db.run[on[d]]
    BY <1>7, <2>3 DEF Unmoved
  <2> QED BY <2>1, <2>4 DEF IndexInv, Fresh
<1> QED BY <1>8, <1>9 DEF IndexInv

\* A caller whose todo list and run stay, or who has nothing to do.
Rests(c) == todo'[c] = todo[c] /\ (on'[c] = on[c] \/ todo[c] = <<>>)

\* Every other step leaves what is pending and what has been read.
LEMMA IndexAside ==
    ASSUME CallInv, ChainInv, Exclusion, Faultless, Faultless', IndexInv, [Next]_vars,
           ~(\E c \in Caller : Validate(c) \/ Write(c))
    PROVE  IndexInv'
<1>2. db'.run = db.run /\ \A z \in Run : \A p : Shows(db, z, p) => Shows(db', z, p)
  <2>1. CASE db' = db
    BY <2>1
  <2>2. CASE \E s \in Step : RetryDue(s)
    <3>1. PICK s \in Step : RetryDue(s)
      BY <2>2
    <3>2. db \in Data /\ db' = [db EXCEPT !.step[s].early = FALSE]
      BY <3>1 DEF RetryDue, CallInv, TypeOK
    <3>3. /\ db'.run = db.run /\ db'.byStatus = db.byStatus /\ db'.hook = db.hook
          /\ db'.byRun = db.byRun /\ db'.log = db.log /\ db'.byId = db.byId
      BY <3>2 DEF Data
    <3> QED BY <3>3 DEF Shows, StatusShown, HooksShown, LogShown, LogIsOwn, Mentions
  <2> QED BY <2>1, <2>2 DEF Next, vars, createVars, Create, TakeLock, LoadRun, Return, Fail,
             Die, KeyExpires
<1>3. ASSUME NEW c \in Caller PROVE Rests(c) /\ Fresh(c)'
  <2>1. Fresh(c)
    BY DEF IndexInv
  <2>2. ASSUME NEW d \in Caller, Create(d) PROVE Rests(c) /\ Fresh(c)'
    <3>1. PICK e \in Calls : Call(d, RunOf(e)) /\ call' = [call EXCEPT ![d] = e]
      BY <2>2 DEF Create
    <3>2. /\ UNCHANGED <<db, stage, seenRun, todo>>
          /\ phase[d] = "idle" /\ on' = [on EXCEPT ![d] = RunOf(e)]
      BY <2>2, <3>1 DEF Create, Call
    <3>3. stage[d] = "load" /\ todo[d] = <<>>
      BY <3>2 DEF CallInv, TypeOK
    <3>4. d # c => on'[c] = on[c] /\ call'[c] = call[c]
      BY <3>1, <3>2 DEF CallInv, TypeOK, LockTypeOK
    <3> QED BY <2>1, <3>2, <3>3, <3>4 DEF Rests, Fresh
  <2>3. ASSUME NEW d \in Caller, TakeLock(d) PROVE Rests(c) /\ Fresh(c)'
    <3>1. on' = on /\ UNCHANGED createVars
      BY <2>3 DEF TakeLock, Acquire, GiveUp, Enter
    <3> QED BY <2>1, <3>1 DEF Rests, Fresh, createVars
  <2>4. ASSUME NEW d \in Caller, LoadRun(d) PROVE Rests(c) /\ Fresh(c)'
    <3>1. /\ phase[d] = "inside" /\ UNCHANGED <<on, db, call, todo>>
          /\ seenRun' = [seenRun EXCEPT ![d] = Load(call[d], db)]
          /\ stage' = [stage EXCEPT ![d] = "check"]
      BY <2>4 DEF LoadRun, lockVars
    <3>2. CASE d = c
      <4>1. seenRun'[c] = Load(call[c], db) /\ on[c] = RunOf(call[c])
        BY <3>1, <3>2 DEF CallInv, CallOf, Active
      <4>2. call[c].type \in RunTypes => Load(call[c], db) = db.run[RunOf(call[c])]
        BY DEF Load, RunTypes
      <4> QED BY <3>1, <4>1, <4>2 DEF Rests, Fresh
    <3>3. CASE d # c
      <4>1. seenRun'[c] = seenRun[c] /\ stage'[c] = stage[c]
        BY <3>1, <3>3 DEF CallInv, TypeOK
      <4> QED BY <2>1, <3>1, <4>1 DEF Rests, Fresh
    <3> QED BY <3>2, <3>3
  <2>5. ASSUME NEW d \in Caller, Return(d) PROVE Rests(c) /\ Fresh(c)'
    <3>1. /\ stage[d] = "check" \/ todo[d] = <<>>
          /\ Leave(d) /\ Reset(d) /\ db' = db
      BY <2>5 DEF Return
    <3>2. todo[d] = <<>>
      BY <3>1 DEF CallInv, TodoOf
    <3>3. /\ on' = [on EXCEPT ![d] = None] /\ call' = [call EXCEPT ![d] = NoCall]
          /\ stage' = [stage EXCEPT ![d] = "load"] /\ seenRun' = [seenRun EXCEPT ![d] = "none"]
          /\ todo' = [todo EXCEPT ![d] = <<>>]
      BY <3>1 DEF Leave, Reset
    <3>4. CASE d = c
      <4>1. todo'[c] = <<>> /\ stage'[c] = "load"
        BY <3>3, <3>4 DEF CallInv, TypeOK
      <4> QED BY <3>2, <3>4, <4>1 DEF Rests, Fresh
    <3>5. CASE d # c
      <4>1. /\ on'[c] = on[c] /\ call'[c] = call[c] /\ stage'[c] = stage[c]
            /\ seenRun'[c] = seenRun[c] /\ todo'[c] = todo[c]
        BY <3>3, <3>5 DEF CallInv, TypeOK, LockTypeOK
      <4> QED BY <2>1, <3>1, <4>1 DEF Rests, Fresh
    <3> QED BY <3>4, <3>5
  <2>6. ASSUME NEW z \in Run, KeyExpires(z) PROVE Rests(c) /\ Fresh(c)'
    <3>1. on' = on /\ UNCHANGED createVars
      BY <2>6 DEF KeyExpires, Expire
    <3> QED BY <2>1, <3>1 DEF Rests, Fresh, createVars
  <2>7. ASSUME NEW s \in Step, RetryDue(s) PROVE Rests(c) /\ Fresh(c)'
    <3>1. UNCHANGED <<on, call, stage, seenRun, todo>>
      BY <2>7 DEF RetryDue, lockVars
    <3> QED BY <1>2, <2>1, <3>1 DEF Rests, Fresh
  <2>8. CASE UNCHANGED vars
    BY <2>1, <2>8 DEF vars, lockVars, createVars, Rests, Fresh
  <2>9. ~(\E d \in Caller : Fail(d)) /\ ~(\E h \in Host : Die(h))
    BY FaultlessBefore
  <2> QED BY <2>2, <2>3, <2>4, <2>5, <2>6, <2>7, <2>8, <2>9 DEF Next
<1>4. ASSUME NEW z \in Run, NEW t, Pending(z, t)' PROVE Good(db', z, t)
  <2>1. Pending(z, t)
    <3>1. CASE t # <<>>
      <4>1. PICK c \in Caller : on'[c] = z /\ todo'[c] = t
        BY <1>4, <3>1 DEF Pending
      <4>2. Rests(c)
        BY <1>3
      <4>3. on[c] = z /\ todo[c] = t
        BY <3>1, <4>1, <4>2 DEF Rests
      <4> QED BY <3>1, <4>3 DEF Pending
    <3>2. CASE t = <<>>
      <4>1. \A c \in Caller : on'[c] = z => todo'[c] = <<>>
        BY <1>4, <3>2 DEF Pending
      <4>2. ASSUME NEW c \in Caller, on[c] = z PROVE todo[c] = <<>>
        <5>1. Rests(c)
          BY <1>3
        <5> QED BY <4>1, <4>2, <5>1 DEF Rests
      <4> QED BY <3>2, <4>2 DEF Pending
    <3> QED BY <3>1, <3>2
  <2>2. Good(db, z, t)
    BY <2>1 DEF IndexInv
  <2> QED BY <1>2, <2>2 DEF Good
<1> QED BY <1>3, <1>4 DEF IndexInv

LEMMA IndexKept == CallInv /\ ChainInv /\ Exclusion /\ IndexInv /\ [Next]_vars => IndexInv'
<1> SUFFICES ASSUME CallInv, ChainInv, Exclusion, IndexInv, [Next]_vars, Faultless'
             PROVE  IndexInv'
  BY DEF IndexInv
<1>1. Faultless /\ Sound
  BY FaultlessBefore
<1>2. CASE \E c \in Caller : Validate(c)
  BY <1>1, <1>2, IndexValidate
<1>3. CASE \E c \in Caller : Write(c)
  BY <1>1, <1>3, IndexWrite
<1>4. CASE ~(\E c \in Caller : Validate(c) \/ Write(c))
  BY <1>1, <1>4, IndexAside
<1> QED BY <1>2, <1>3, <1>4

\* Short of faults, what is listed by status, by run and by correlation id
\* agrees with the entities and the logs whenever nobody is writing, for any
\* number of processes, runs and calls.
THEOREM IndexesAgree == Spec => []IndexesMatch
<1>1. CallInv /\ IndexInv => IndexesMatch
  <2> SUFFICES ASSUME CallInv, IndexInv, Faultless, Writers = {} PROVE Indexed(db)
    BY DEF IndexesMatch
  <2>1. db \in Data
    BY DEF CallInv, TypeOK
  <2>2. \A r \in Run : Pending(r, <<>>)
    BY DEF Pending, Writers
  <2>3. \A r \in Run : Good(db, r, <<>>)
    BY <2>2 DEF IndexInv
  <2> QED BY <2>1, <2>3, GoodIndexed
<1>2. Init => CallInv /\ IndexInv
  BY CallInit, IndexInit
<1>3. CallInv /\ ChainInv /\ [Next]_vars => CallInv'
  BY CallInvKept
<1>4. CallInv /\ ChainInv /\ Exclusion /\ IndexInv /\ [Next]_vars => IndexInv'
  BY IndexKept
<1> QED BY <1>1, <1>2, <1>3, <1>4, UsesLock, ChainInvariant, LocksExclude, PTL DEF Spec
=============================================================================
