----------------------------- MODULE SheetsQueue -----------------------------
(***************************************************************************)
(* The work queue of packages/world-sheets (src/queue.ts): a job is a row  *)
(* of the schedule sheet.  The dispatcher reads the sheet, stamps the rows *)
(* that are due with claimedAt and POSTs each to the handler route; the    *)
(* handler wrapper reads the sheet again, runs the handler and overwrites  *)
(* or deletes the row.  Rows are written by the number they had when they  *)
(* were read, and a deletion moves up the rows below it.                   *)
(*                                                                         *)
(* A Slot is one fetch of dispatchOne: the dispatcher's side of it         *)
(* (client) and the wrapper invocation it reaches (pc).  Every call of the *)
(* Sheets API is a step.  Time is abstract: of the rows not claimed, any   *)
(* may be due when a dispatcher reads them.                                *)
(***************************************************************************)
EXTENDS SheetRows

CONSTANTS
  Message,      \* message ids, each used at most once
  Host,         \* dispatcher loops
  Slot,         \* concurrent dispatches
  MaxAttempts,  \* config.maxAttempts
  MaxSleeps,    \* bound: timeoutSeconds results
  MaxFaults,    \* bound: what fails, is refused, or is written to a row that
                \* is no longer the one read; a dying process may pass it
  None          \* no message

ASSUME SheetsQueueAssumption ==
  /\ IsFiniteSet(Slot)
  /\ MaxAttempts \in Nat \ {0}
  /\ {MaxSleeps, MaxFaults} \subseteq Nat
  /\ None \notin Message

VARIABLES
  sheet,     \* the rows below the header
  batch,     \* per host: the rows that drainOnce has still to claim
  client,    \* per slot: the dispatcher's side
  sent,      \* per slot: the row dispatchOne was called with
  pc,        \* per slot: the wrapper's side
  job,       \* per slot: the row its request asks for, then the one it found
  fate,      \* ghost: what became of the message
  fails,     \* ghost: handler failures per message
  sleeps, netErrors, faults  \* counters for the bounds

slots == <<client, sent, pc, job>>
ghost == <<fate, fails>>
bounds == <<sleeps, netErrors, faults>>
vars == <<sheet, batch, slots, ghost, bounds>>

-----------------------------------------------------------------------------
(* A row as it was read: its number, and what it says.                     *)
Row == [m : Message \union {None}, attempt : Nat, claimed : BOOLEAN]
Blank == [m |-> None, attempt |-> 0, claimed |-> FALSE]
Read == [at : Nat \ {0}, row : Row]
Nothing == [at |-> 1, row |-> Blank]

Init ==
  /\ sheet = <<>>
  /\ batch = [h \in Host |-> {}]
  /\ client = [s \in Slot |-> "none"]
  /\ sent = [s \in Slot |-> Nothing]
  /\ pc = [s \in Slot |-> "idle"]
  /\ job = [s \in Slot |-> Nothing]
  /\ fate = [m \in Message |-> "new"]
  /\ fails = [m \in Message |-> 0]
  /\ sleeps = 0 /\ netErrors = 0 /\ faults = 0

readSchedule == getAllRows(sheet)

Unclaimed(row) == [row EXCEPT !.claimed = FALSE]
Claimed(row) == [row EXCEPT !.claimed = TRUE]

(* Mutant: a failed delivery leaves claimedAt as it is.                    *)
NextTryClaimed(row) == [row EXCEPT !.attempt = @ + 1]
NextTry(row) == [Unclaimed(row) EXCEPT !.attempt = @ + 1]

Update(n, row) == sheet' = updateRow(sheet, n, row, Blank)
Delete(n) == sheet' = deleteRow(sheet, n, Blank)

OneFault == netErrors + faults < MaxFaults /\ faults' = faults + 1
FaultIf(bad) == IF bad THEN OneFault ELSE UNCHANGED faults

-----------------------------------------------------------------------------
(* queue(): one row is appended.                                           *)
Enqueue(m) ==
  /\ fate[m] = "new"
  /\ sheet' = Append(sheet, [m |-> m, attempt |-> 1, claimed |-> FALSE])
  /\ fate' = [fate EXCEPT ![m] = "queued"]
  /\ UNCHANGED <<batch, slots, fails, bounds>>

-----------------------------------------------------------------------------
(* drainOnce: one read; of the rows without claimedAt, those that are due. *)

Claimable(row) == ~row.claimed

DrainReads(h, due) ==
  /\ batch[h] = {}
  /\ due \subseteq {j \in Range(readSchedule) : Claimable(j.row)}
  /\ batch' = [batch EXCEPT ![h] = due]
  /\ UNCHANGED <<sheet, slots, ghost, bounds>>

(* Row after row, in the order of their numbers.                           *)
Takes(h, j) ==
  /\ j \in batch[h] /\ \A k \in batch[h] : j.at <= k.at
  /\ batch' = [batch EXCEPT ![h] = @ \ {j}]

(* The row is stamped, as it was read, and dispatched without waiting.     *)
DrainClaims(h, j, s) ==
  /\ Takes(h, j) /\ client[s] = "none" /\ pc[s] = "idle"
  /\ FaultIf(~Still(sheet, j.at, j.row))
  /\ Update(j.at, Claimed(j.row))
  /\ sent' = [sent EXCEPT ![s] = [j EXCEPT !.row = Claimed(@)]]
  /\ job' = [job EXCEPT ![s] = [j EXCEPT !.row = Claimed(@)]]
  /\ client' = [client EXCEPT ![s] = "open"]
  /\ pc' = [pc EXCEPT ![s] = "sent"]
  /\ UNCHANGED <<ghost, sleeps, netErrors>>

(* The write fails, whether it got through or not: on to the next row.     *)
ClaimFails(h, j) ==
  /\ Takes(h, j) /\ OneFault
  /\ UNCHANGED sheet \/ (Still(sheet, j.at, j.row) /\ Update(j.at, Claimed(j.row)))
  /\ UNCHANGED <<slots, ghost, sleeps, netErrors>>

-----------------------------------------------------------------------------
(* The handler wrapper.                                                    *)

Go(s, from, to) ==
  /\ pc[s] = from
  /\ pc' = [pc EXCEPT ![s] = to]
  /\ UNCHANGED <<batch, client, sent>>

Finds(s, j) ==
  /\ j.row.m = job[s].row.m /\ j.row.m # None
  /\ \A n \in 1..j.at - 1 : sheet[n].m # j.row.m

(* The first row with the message id; none: ok, true.                      *)
Arrive(s) ==
  /\ \/ /\ Go(s, "sent", "running")
        /\ \E j \in Range(readSchedule) : Finds(s, j) /\ job' = [job EXCEPT ![s] = j]
     \/ /\ Go(s, "sent", "idle")
        /\ ~\E j \in Range(readSchedule) : Finds(s, j)
        /\ job' = [job EXCEPT ![s] = Nothing]
  /\ UNCHANGED <<sheet, ghost, bounds>>

(* A foreign queue name, an empty body (400) or a read that fails.         *)
Refuse(s) ==
  /\ Go(s, "sent", "idle") /\ OneFault
  /\ job' = [job EXCEPT ![s] = Nothing]
  /\ UNCHANGED <<sheet, ghost, sleeps, netErrors>>

HandlerReturns(s) ==
  /\ Go(s, "running", "done")
  /\ fate' = [fate EXCEPT ![job[s].row.m] = "done"]
  /\ UNCHANGED <<sheet, job, fails, bounds>>

HandlerSleeps(s) ==
  /\ Go(s, "running", "sleep")
  /\ sleeps < MaxSleeps /\ sleeps' = sleeps + 1
  /\ UNCHANGED <<sheet, job, ghost, netErrors, faults>>

(* Mutant: the attempt made is compared, not the next one.                 *)
TriesAgainOnceMore(row) == row.attempt <= MaxAttempts
TriesAgain(row) == row.attempt + 1 <= MaxAttempts

HandlerThrows(s) ==
  LET j == job[s].row IN
  /\ Go(s, "running", IF TriesAgain(j) THEN "retry" ELSE "drop")
  /\ fails' = [fails EXCEPT ![j.m] = IF @ < MaxAttempts THEN @ + 1 ELSE @]
  /\ fate' = IF TriesAgain(j) \/ fate[j.m] = "done" THEN fate
             ELSE [fate EXCEPT ![j.m] = "dropped"]
  /\ UNCHANGED <<sheet, job, bounds>>

Settle(s) ==
  CASE pc[s] \in {"done", "drop"} -> Delete(job[s].at)
    [] pc[s] = "sleep" -> Update(job[s].at, Unclaimed(job[s].row))
    [] pc[s] = "retry" -> Update(job[s].at, NextTry(job[s].row))

Finish(s) ==
  /\ pc[s] \in {"done", "drop", "sleep", "retry"}
  /\ Go(s, pc[s], "idle")
  /\ job' = [job EXCEPT ![s] = Nothing]
  /\ UNCHANGED <<ghost, sleeps, netErrors>>

(* The write that ends a delivery goes to the number read at its start.    *)
WrapperWrites(s) ==
  /\ Finish(s) /\ Settle(s)
  /\ FaultIf(~Still(sheet, job[s].at, job[s].row))

WrapperWriteFails(s) ==
  /\ Finish(s) /\ OneFault
  /\ UNCHANGED sheet \/ (Still(sheet, job[s].at, job[s].row) /\ Settle(s))

WrapperStep(s) ==
  Arrive(s) \/ HandlerReturns(s) \/ HandlerSleeps(s) \/ HandlerThrows(s) \/ WrapperWrites(s)

-----------------------------------------------------------------------------
(* The dispatcher's side of a fetch.                                       *)

Close(s) ==
  /\ client' = [client EXCEPT ![s] = "none"]
  /\ sent' = [sent EXCEPT ![s] = Nothing]

(* Whatever the status: no more than a line in the log.                    *)
Response(s) ==
  /\ client[s] = "open" /\ pc[s] = "idle" /\ Close(s)
  /\ UNCHANGED <<sheet, batch, pc, job, ghost, bounds>>

(* fetch rejects, whether the request got through or not.                  *)
NetError(s) ==
  /\ client[s] = "open" /\ netErrors + faults < MaxFaults
  /\ netErrors' = netErrors + 1
  /\ client' = [client EXCEPT ![s] = "reopen"]
  /\ \/ UNCHANGED <<pc, job>>
     \/ /\ pc[s] = "sent"
        /\ pc' = [pc EXCEPT ![s] = "idle"]
        /\ job' = [job EXCEPT ![s] = Nothing]
  /\ UNCHANGED <<sheet, batch, sent, ghost, sleeps, faults>>

(* The catch block counts an attempt and takes the claim back.             *)
Reopen(s) ==
  /\ client[s] = "reopen" /\ Close(s)
  /\ FaultIf(~Still(sheet, sent[s].at, sent[s].row))
  /\ Update(sent[s].at, NextTry(sent[s].row))
  /\ UNCHANGED <<batch, pc, job, ghost, sleeps, netErrors>>

(* That write fails too.  It is the same fault (the network is down, the    *)
(* process of the wrapper is gone), and counted as one.                    *)
ReopenFails(s) ==
  /\ client[s] = "reopen" /\ Close(s)
  /\ IF netErrors > 0 THEN netErrors' = netErrors - 1 /\ faults' = faults + 1
     ELSE UNCHANGED <<netErrors, faults>>
  /\ UNCHANGED <<sheet, batch, pc, job, ghost, sleeps>>

ClientStep(s) == Response(s) \/ Reopen(s)

(* A process dies, and with it the ticks H, the dispatchers' sides D and   *)
(* the wrappers' sides W of the fetches it had in flight: up to eight for  *)
(* each tick so far, and it may be host of both sides.  Of the fetches     *)
(* open to its wrappers, E fail; the others are answered by an error.      *)
CutOff(H, D, W, E) ==
  /\ netErrors + faults < MaxFaults
  /\ \A h \in H : batch[h] # {}
  /\ \A s \in D : client[s] # "none"
  /\ \A s \in W : pc[s] # "idle"
  /\ \A s \in E : client[s] = "open"
  /\ faults' = faults + Cardinality(D \union W)
  /\ batch' = [h \in Host |-> IF h \in H THEN {} ELSE batch[h]]
  /\ client' = [s \in Slot |-> IF s \in D THEN "none"
                              ELSE IF s \in E THEN "reopen" ELSE client[s]]
  /\ sent' = [s \in Slot |-> IF s \in D THEN Nothing ELSE sent[s]]
  /\ pc' = [s \in Slot |-> IF s \in W THEN "idle" ELSE pc[s]]
  /\ job' = [s \in Slot |-> IF s \in W THEN Nothing ELSE job[s]]
  /\ UNCHANGED <<sheet, ghost, sleeps, netErrors>>

-----------------------------------------------------------------------------
Next ==
  \/ \E m \in Message : Enqueue(m)
  \/ \E h \in Host :
       \/ \E due \in SUBSET Range(readSchedule) : DrainReads(h, due)
       \/ \E j \in batch[h] : ClaimFails(h, j) \/ \E s \in Slot : DrainClaims(h, j, s)
  \/ \E s \in Slot :
       \/ WrapperStep(s) \/ WrapperWriteFails(s) \/ Refuse(s)
       \/ ClientStep(s) \/ NetError(s) \/ ReopenFails(s)
  \/ \E H \in SUBSET Host, D, W \in SUBSET Slot :
       \E E \in SUBSET (W \ D) : CutOff(H, D, W, E)

Spec == Init /\ [][Next]_vars

-----------------------------------------------------------------------------
(* Properties *)

TypeOK ==
  /\ sheet \in Seq(Row)
  /\ batch \in [Host -> SUBSET Read]
  /\ client \in [Slot -> {"none", "open", "reopen"}]
  /\ pc \in [Slot -> {"idle", "sent", "running", "done", "drop", "sleep", "retry"}]
  /\ sent \in [Slot -> Read] /\ job \in [Slot -> Read]
  /\ fate \in [Message -> {"new", "queued", "done", "dropped"}]
  /\ fails \in [Message -> 0..MaxAttempts]
  /\ {sleeps, netErrors, faults} \subseteq Nat

(* Somebody is delivering m, or about to take the claim on it back.        *)
AtWork(m) ==
  \E s \in Slot : \/ client[s] # "none" /\ sent[s].row.m = m
                  \/ pc[s] # "idle" /\ job[s].row.m = m

Open(m) == \E n \in DOMAIN sheet : sheet[n].m = m /\ ~sheet[n].claimed

(* A claim has no end of its own: a job that nobody is at work on and that *)
(* no row offers any more is lost.  Whatever happens (a row written by a   *)
(* number that is another's by now, a process that dies with several       *)
(* fetches in flight, a failing call, a 400), each fetch that is cut off   *)
(* or gone wrong loses one job at most: the stray claims, copies and blank *)
(* rows left in the sheet take no further job with them.                   *)
Lost == {m \in Message : fate[m] = "queued" /\ ~AtWork(m) /\ ~Open(m)}

OneLossPerFault == Cardinality(Lost) <= faults

Calm == netErrors = 0 /\ faults = 0

Holders(m) ==
  {s \in Slot : pc[s] \in {"running", "sleep", "retry"} /\ job[s].row.m = m}

AbsState(m) ==
  IF fate[m] # "queued" THEN fate[m]
  ELSE IF Holders(m) = {} THEN (IF m \in Lost THEN "lost" ELSE "ready")
  ELSE IF Cardinality(Holders(m)) = 1 THEN "held" ELSE "shared"

Abstract == INSTANCE DurableQueue
              WITH state <- [m \in Message |-> AbsState(m)], tries <- fails

(* As long as every write finds the row it was meant for and nothing fails *)
(* the queue is the abstract one: reads that are stale by the time of the  *)
(* write do no other harm than through the row number.                     *)
ImplementsDurableQueue ==
  /\ Abstract!AbsInit
  /\ [][Calm' => [Abstract!AbsNext]_(Abstract!absVars)]_vars
=============================================================================
