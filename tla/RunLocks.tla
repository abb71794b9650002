------------------------------ MODULE RunLocks ------------------------------
(***************************************************************************)
(* The per-run lock of packages/world-redirect (src/lock.ts) that          *)
(* events.create runs under: inside a process each call waits for the one  *)
(* that asked before it, then for a Redis key with a TTL that excludes the *)
(* other processes.  Two exits are deliberate: the key may expire under    *)
(* its holder, and a caller that waited too long goes in without it.       *)
(***************************************************************************)
EXTENDS Naturals

CONSTANTS
    Caller,       \* calls of withLock that may be under way at a time
    Host, HostOf, \* processes, and the one each call is made in
    Run,
    MaxExpiries,  \* bound: keys that expire while their holder is at work
    MaxGiveUps,   \* bound: acquire timeouts
    MaxCrashes,   \* bound: process crashes
    Orphan,       \* a key whose holder is gone: it will only expire
    None          \* no caller, no run

ASSUME LocksAssumption ==
    /\ HostOf \in [Caller -> Host]
    /\ MaxExpiries \in Nat /\ MaxGiveUps \in Nat /\ MaxCrashes \in Nat
    /\ Orphan \notin Caller /\ None \notin Caller /\ Orphan # None
    /\ None \notin Run

VARIABLES
    phase,     \* per caller: "idle", "waiting" or "inside"
    on,        \* the run it asked for
    prev,      \* the call it found in the in-process map, until that is over
    inProcess, \* the map: the last call, per host and run
    lock,      \* the Redis key of a run, named after its holder's token
    token,     \* per caller: whether it got a token (not '')
    expiries, giveUps, crashes  \* bound counters

lockVars == <<phase, on, prev, inProcess, lock, token, expiries, giveUps, crashes>>

LockTypeOK ==
    /\ phase \in [Caller -> {"idle", "waiting", "inside"}]
    /\ on \in [Caller -> Run \union {None}]
    /\ prev \in [Caller -> Caller \union {None}]
    /\ inProcess \in [Host -> [Run -> Caller \union {None}]]
    /\ lock \in [Run -> Caller \union {None, Orphan}]
    /\ token \in [Caller -> BOOLEAN]
    /\ expiries \in 0 .. MaxExpiries
    /\ giveUps \in 0 .. MaxGiveUps
    /\ crashes \in 0 .. MaxCrashes

LockInit ==
    /\ phase = [c \in Caller |-> "idle"]
    /\ on = [c \in Caller |-> None]
    /\ prev = [c \in Caller |-> None]
    /\ inProcess = [h \in Host |-> [r \in Run |-> None]]
    /\ lock = [r \in Run |-> None]
    /\ token = [c \in Caller |-> FALSE]
    /\ expiries = 0 /\ giveUps = 0 /\ crashes = 0

----------------------------------------------------------------------------
\* withLock up to its first await.
Call(c, r) ==
    /\ phase[c] = "idle"
    /\ phase' = [phase EXCEPT ![c] = "waiting"]
    /\ on' = [on EXCEPT ![c] = r]
    /\ prev' = [prev EXCEPT ![c] = inProcess[HostOf[c]][r]]
    /\ inProcess' = [inProcess EXCEPT ![HostOf[c]][r] = c]
    /\ UNCHANGED <<lock, token, expiries, giveUps, crashes>>

\* await prev.  (Mutant: not awaited.)
TurnAtOnce(c) == phase[c] = "waiting"
Turn(c) == phase[c] = "waiting" /\ prev[c] = None

Enter(c, withToken) ==
    /\ phase' = [phase EXCEPT ![c] = "inside"]
    /\ token' = [token EXCEPT ![c] = withToken]
    /\ UNCHANGED <<on, prev, inProcess, expiries, crashes>>

\* SET NX succeeds.  (Mutant: SET.)
KeyIgnored(c) == TRUE
KeyFree(c) == lock[on[c]] = None

Acquire(c) ==
    /\ Turn(c)
    /\ KeyFree(c)
    /\ lock' = [lock EXCEPT ![on[c]] = c]
    /\ Enter(c, TRUE)
    /\ UNCHANGED giveUps

\* acquireTimeoutMs is over: proceed without the key.
GiveUp(c) ==
    /\ Turn(c)
    /\ giveUps < MaxGiveUps
    /\ giveUps' = giveUps + 1
    /\ Enter(c, FALSE)
    /\ UNCHANGED lock

\* ttlMs is over.
Expire(r) ==
    /\ lock[r] # None
    /\ \/ lock[r] = Orphan /\ UNCHANGED expiries
       \/ /\ lock[r] # Orphan
          /\ expiries < MaxExpiries
          /\ expiries' = expiries + 1
    /\ lock' = [lock EXCEPT ![r] = None]
    /\ UNCHANGED <<phase, on, prev, inProcess, token, giveUps, crashes>>

\* UNLOCK_SCRIPT.  (Mutant: DEL without the comparison.)
UnlockBlindly(c) == token[c]
UnlockMatches(c) == token[c] /\ lock[on[c]] = c

\* The finally block; whether fn returned or threw makes no difference.  When
\* the eval fails, the key is left to expire.
Leave(c) ==
    /\ phase[c] = "inside"
    /\ \/ lock' = [lock EXCEPT ![on[c]] = IF UnlockMatches(c) THEN None ELSE @]
       \/ /\ UnlockMatches(c)
          /\ lock' = [lock EXCEPT ![on[c]] = Orphan]
    /\ phase' = [phase EXCEPT ![c] = "idle"]
    /\ on' = [on EXCEPT ![c] = None]
    /\ token' = [token EXCEPT ![c] = FALSE]
    /\ prev' = [d \in Caller |-> IF prev[d] = c THEN None ELSE prev[d]]
    /\ inProcess' = [inProcess EXCEPT ![HostOf[c]][on[c]] = IF @ = c THEN None ELSE @]
    /\ UNCHANGED <<expiries, giveUps, crashes>>

\* A process dies with its map; its keys stay in Redis.
CrashHost(h) ==
    LET mine == {c \in Caller : HostOf[c] = h} IN
    /\ crashes < MaxCrashes
    /\ crashes' = crashes + 1
    /\ phase' = [c \in Caller |-> IF c \in mine THEN "idle" ELSE phase[c]]
    /\ on' = [c \in Caller |-> IF c \in mine THEN None ELSE on[c]]
    /\ prev' = [c \in Caller |-> IF c \in mine THEN None ELSE prev[c]]
    /\ token' = [c \in Caller |-> IF c \in mine THEN FALSE ELSE token[c]]
    /\ inProcess' = [inProcess EXCEPT ![h] = [r \in Run |-> None]]
    /\ lock' = [r \in Run |-> IF lock[r] \in mine THEN Orphan ELSE lock[r]]
    /\ UNCHANGED <<expiries, giveUps>>

LockNext ==
    \/ \E c \in Caller :
         (\E r \in Run : Call(c, r)) \/ Acquire(c) \/ GiveUp(c) \/ Leave(c)
    \/ \E r \in Run : Expire(r)
    \/ \E h \in Host : CrashHost(h)

LockSpec == LockInit /\ [][LockNext]_lockVars

----------------------------------------------------------------------------
\* lock.ts:71: whatever happens to the Redis key, two calls of one process never
\* work on the same run at a time.
HostExclusion ==
    \A c, d \in Caller :
      c # d /\ phase[c] = "inside" /\ phase[d] = "inside" /\ HostOf[c] = HostOf[d]
        => on[c] # on[d]

\* Until a key expires under its holder, or a caller gives up waiting, no two
\* calls anywhere work on the same run, crashed processes included.
Exclusion ==
    expiries = 0 /\ giveUps = 0 =>
      \A c, d \in Caller :
        c # d /\ phase[c] = "inside" /\ phase[d] = "inside" => on[c] # on[d]

\* A release frees only its own key: a holder loses its key by leaving, by
\* dying, or by expiry, never by somebody else's release.
ReleaseSparesOthers ==
    [][\A r \in Run : \A c \in Caller :
         lock[r] = c /\ lock'[r] # c => phase'[c] = "idle" \/ expiries' # expiries]_lockVars
=============================================================================
