-------------------------- MODULE SheetsQueueProofs --------------------------
(***************************************************************************)
(* Proofs about SheetsQueue, for every number of messages, dispatchers and *)
(* fetches.  BaseInv holds whatever goes wrong, and so does LossInv: what  *)
(* is out of reach of everybody grows by one job per fault.  As long as    *)
(* nothing fails and every write finds its row (Calm), a job has one row,  *)
(* and who is at work on it knows what it says (Accounted), which makes    *)
(* the queue the abstract one.                                             *)
(***************************************************************************)
EXTENDS SheetsQueue, SheetRowsProofs

----------------------------------------------------------------------------
(* Types, and what becomes of a slot.                                      *)

Over == {"done", "dropped"}

Wrapper == {"idle", "sent", "running", "done", "drop", "sleep", "retry"}

\* What the two sides of a slot are in the middle of.
SlotInv(s) ==
  /\ client[s] # "none" /\ pc[s] # "idle" => sent[s].row.m = job[s].row.m
  /\ pc[s] \notin {"idle", "sent"} => job[s].row.m \in Message
  /\ pc[s] \in {"done", "drop"} => fate[job[s].row.m] \in Over

BaseInv ==
  /\ TypeOK
  /\ \A s \in Slot : SlotInv(s)
  /\ \A h \in Host : \A j \in batch[h] : ~j.row.claimed

\* What a step at one slot leaves alone.
OnlySlot(s) ==
  /\ \A t \in Slot : t # s => /\ pc'[t] = pc[t] /\ job'[t] = job[t]
                              /\ client'[t] = client[t] /\ sent'[t] = sent[t]
  /\ \A m \in Message : fate[m] \in Over => fate'[m] \in Over

LEMMA SlotsSpared ==
  ASSUME BaseInv, NEW s \in Slot, OnlySlot(s), SlotInv(s)', TypeOK',
         \A h \in Host : batch'[h] \subseteq batch[h]
  PROVE  BaseInv'
<1>1. ASSUME NEW t \in Slot, t # s PROVE SlotInv(t)'
  <2>1. /\ SlotInv(t) /\ pc'[t] = pc[t] /\ job'[t] = job[t]
        /\ client'[t] = client[t] /\ sent'[t] = sent[t]
    BY <1>1 DEF BaseInv, OnlySlot
  <2> QED BY <2>1 DEF SlotInv, OnlySlot
<1> QED BY <1>1 DEF BaseInv

LEMMA SlotsStill ==
  ASSUME BaseInv, UNCHANGED slots, TypeOK',
         \A m \in Message : fate[m] \in Over => fate'[m] \in Over,
         \A h \in Host : \A j \in batch'[h] : ~j.row.claimed
  PROVE  BaseInv'
<1> SUFFICES ASSUME NEW t \in Slot PROVE SlotInv(t)'
  BY DEF BaseInv
<1>1. SlotInv(t) /\ UNCHANGED <<client, sent, pc, job>>
  BY DEF BaseInv, slots
<1> QED BY <1>1 DEF SlotInv

LEMMA Rows ==
  /\ Blank \in Row /\ Nothing \in Read /\ Nothing.row.m = None /\ None \notin Message
  /\ \A row \in Row : /\ Claimed(row) \in Row /\ Claimed(row).m = row.m /\ Claimed(row).claimed
                      /\ Claimed(row).attempt = row.attempt
                      /\ Unclaimed(row) \in Row /\ Unclaimed(row).m = row.m /\ ~Unclaimed(row).claimed
                      /\ Unclaimed(row).attempt = row.attempt
                      /\ NextTry(row) \in Row /\ NextTry(row).m = row.m /\ ~NextTry(row).claimed
                      /\ NextTry(row).attempt = row.attempt + 1
<1>1. Blank \in Row /\ Nothing \in Read /\ Nothing.row.m = None /\ None \notin Message
  BY SheetsQueueAssumption DEF Blank, Row, Read, Nothing
<1> SUFFICES ASSUME NEW row \in Row
             PROVE  /\ Claimed(row) \in Row /\ Claimed(row).m = row.m /\ Claimed(row).claimed
                    /\ Claimed(row).attempt = row.attempt
                    /\ Unclaimed(row) \in Row /\ Unclaimed(row).m = row.m /\ ~Unclaimed(row).claimed
                    /\ Unclaimed(row).attempt = row.attempt
                    /\ NextTry(row) \in Row /\ NextTry(row).m = row.m /\ ~NextTry(row).claimed
                    /\ NextTry(row).attempt = row.attempt + 1
  BY <1>1
<1>2. Claimed(row) \in Row /\ Claimed(row).m = row.m /\ Claimed(row).claimed
      /\ Claimed(row).attempt = row.attempt
  BY DEF Claimed, Row
<1>3. Unclaimed(row) \in Row /\ Unclaimed(row).m = row.m /\ ~Unclaimed(row).claimed
      /\ Unclaimed(row).attempt = row.attempt
  BY DEF Unclaimed, Row
<1>4. NextTry(row) \in Row /\ NextTry(row).m = row.m /\ ~NextTry(row).claimed
      /\ NextTry(row).attempt = row.attempt + 1
  <2>1. row.attempt \in Nat /\ row.attempt + 1 \in Nat
    BY DEF Row
  <2>2. Unclaimed(row) \in Row /\ Unclaimed(row).m = row.m /\ ~Unclaimed(row).claimed
        /\ Unclaimed(row).attempt = row.attempt
    BY <1>3
  <2> DEFINE u == Unclaimed(row)
  <2>3. u \in [m : Message \union {None}, attempt : Nat, claimed : BOOLEAN]
    BY <2>2 DEF Row
  <2>4. NextTry(row) = [u EXCEPT !.attempt = u.attempt + 1]
    BY DEF NextTry
  <2> HIDE DEF u
  <2>5. u.attempt + 1 \in Nat
    BY <2>3
  <2>6. /\ [u EXCEPT !.attempt = u.attempt + 1] \in [m : Message \union {None}, attempt : Nat, claimed : BOOLEAN]
        /\ [u EXCEPT !.attempt = u.attempt + 1].m = u.m
        /\ [u EXCEPT !.attempt = u.attempt + 1].claimed = u.claimed
        /\ [u EXCEPT !.attempt = u.attempt + 1].attempt = u.attempt + 1
    BY <2>3, <2>5
  <2> QED BY <2>2, <2>4, <2>6 DEF Row, u
<1> QED BY <1>2, <1>3, <1>4

\* The rows of messages other than number n stay, wherever they move.
Spares(n) ==
  \A k \in DOMAIN sheet : k # n /\ sheet[k].m \in Message =>
    \E i \in DOMAIN sheet' : sheet'[i] = sheet[k]

LEMMA Updates ==
  ASSUME TypeOK, NEW n \in Nat \ {0}, NEW row \in Row, Update(n, row)
  PROVE  /\ sheet' \in Seq(Row) /\ n \in DOMAIN sheet' /\ sheet'[n] = row
         /\ \A k \in DOMAIN sheet : k # n => k \in DOMAIN sheet' /\ sheet'[k] = sheet[k]
         /\ n \in DOMAIN sheet => DOMAIN sheet' = DOMAIN sheet
         /\ Spares(n)
<1>1. sheet \in Seq(Row) /\ Blank \in Row /\ sheet' = updateRow(sheet, n, row, Blank)
  BY Rows DEF TypeOK, Update
<1>2. /\ sheet' \in Seq(Row) /\ n \in DOMAIN sheet' /\ sheet'[n] = row
      /\ DOMAIN sheet \subseteq DOMAIN sheet'
      /\ \A k \in DOMAIN sheet : k # n => sheet'[k] = sheet[k]
      /\ n \in DOMAIN sheet => DOMAIN sheet' = DOMAIN sheet
  <2> DEFINE S == Row
             rows == sheet
             r == sheet'
  <2>1. rows \in Seq(S) /\ row \in S /\ Blank \in S /\ r = updateRow(rows, n, row, Blank)
    BY <1>1
  <2> HIDE DEF S, rows, r
  <2>2. /\ r \in Seq(S) /\ n \in DOMAIN r /\ r[n] = row
        /\ DOMAIN rows \subseteq DOMAIN r
        /\ \A k \in DOMAIN rows : k # n => r[k] = rows[k]
        /\ n \in DOMAIN rows => DOMAIN r = DOMAIN rows
    <3> DEFINE x == updateRow(rows, n, row, Blank)
    <3>1. x \in Seq(S)
      BY <2>1, Updated
    <3>3. n \in DOMAIN x /\ x[n] = row
      BY <2>1, Updated
    <3>4. DOMAIN rows \subseteq DOMAIN x
      BY <2>1, Updated
    <3>5. \A k \in DOMAIN rows : k # n => x[k] = rows[k]
      BY <2>1, Updated
    <3>2. n \in DOMAIN rows => DOMAIN x = DOMAIN rows
      BY <2>1, Updated
    <3> QED BY <2>1, <3>1, <3>2, <3>3, <3>4, <3>5
  <2> QED BY <2>2 DEF S, rows, r
<1> QED BY <1>2 DEF Spares

LEMMA Deletes ==
  ASSUME TypeOK, NEW n \in Nat \ {0}, Delete(n)
  PROVE  /\ sheet' \in Seq(Row) /\ Spares(n)
         /\ n \in DOMAIN sheet =>
              \A i \in DOMAIN sheet' : /\ From(n, i) \in DOMAIN sheet \ {n}
                                       /\ sheet'[i] = sheet[From(n, i)]
<1>1. sheet \in Seq(Row) /\ Blank \in Row /\ sheet' = deleteRow(sheet, n, Blank)
  BY Rows DEF TypeOK, Delete
<1>2. CASE n \in DOMAIN sheet
  <2>1. /\ sheet' \in Seq(Row)
        /\ \A i \in DOMAIN sheet' : From(n, i) \in DOMAIN sheet \ {n} /\ sheet'[i] = sheet[From(n, i)]
        /\ \A k \in DOMAIN sheet : k # n /\ sheet[k] # Blank =>
             To(n, k) \in DOMAIN sheet' /\ sheet'[To(n, k)] = sheet[k]
    BY <1>1, <1>2, Deleted
  <2>2. \A k \in DOMAIN sheet : sheet[k].m \in Message => sheet[k] # Blank
    BY SheetsQueueAssumption DEF Blank
  <2> QED BY <2>1, <2>2 DEF Spares
<1>3. CASE n \notin DOMAIN sheet
  <2>1. n > Len(sheet)
    BY <1>1, <1>3
  <2>2. sheet' = sheet
    BY <1>1, <2>1 DEF deleteRow
  <2> QED BY <1>1, <1>3, <2>2 DEF Spares
<1> QED BY <1>2, <1>3

\* What a dispatcher reads is there.
LEMMA Schedule ==
  ASSUME TypeOK, NEW j \in Range(readSchedule)
  PROVE  j \in Read /\ j.at \in DOMAIN sheet /\ sheet[j.at] = j.row
<1>1. PICK n \in DOMAIN sheet : j = [at |-> n, row |-> sheet[n]]
  BY DEF Range, readSchedule, getAllRows
<1>2. sheet \in Seq(Row) /\ n \in Nat \ {0} /\ sheet[n] \in Row
  <2>1. sheet \in Seq(Row)
    BY DEF TypeOK
  <2> QED BY <1>1, <2>1, ElementOfSeq
<1> QED BY <1>1, <1>2 DEF Read

LEMMA EnqueueBase ==
  ASSUME BaseInv, NEW m \in Message, Enqueue(m)
  PROVE  BaseInv'
<1> DEFINE row == [m |-> m, attempt |-> 1, claimed |-> FALSE]
<1>1. TypeOK
  BY DEF BaseInv
<1>2. sheet' \in Seq(Row)
  <2>1. row \in Row
    BY DEF Row
  <2> HIDE DEF row
  <2>2. sheet \in Seq(Row) /\ sheet' = Append(sheet, row)
    BY <1>1 DEF TypeOK, Enqueue, row
  <2> QED BY <2>1, <2>2
<1>3. /\ fate' \in [Message -> {"new", "queued", "done", "dropped"}]
      /\ \A n \in Message : fate[n] \in Over => fate'[n] \in Over
  BY <1>1 DEF Enqueue, TypeOK, Over
<1>4. UNCHANGED <<batch, slots, fails, sleeps, netErrors, faults>>
  BY DEF Enqueue, bounds
<1>5. TypeOK'
  BY <1>1, <1>2, <1>3, <1>4 DEF TypeOK, slots
<1> QED BY <1>3, <1>4, <1>5, SlotsStill DEF BaseInv

LEMMA ReadsBase ==
  ASSUME BaseInv, NEW h \in Host, NEW due \in SUBSET Range(readSchedule), DrainReads(h, due)
  PROVE  BaseInv'
<1>1. TypeOK
  BY DEF BaseInv
<1>2. due \subseteq Read
  BY <1>1, Schedule
<1>3. batch' = [batch EXCEPT ![h] = due] /\ \A j \in due : ~j.row.claimed
  BY DEF DrainReads, Claimable
<1>4. UNCHANGED <<sheet, slots, fate, fails, sleeps, netErrors, faults>>
  BY DEF DrainReads, ghost, bounds
<1>5. batch' \in [Host -> SUBSET Read]
  BY <1>1, <1>2, <1>3 DEF TypeOK
<1>6. \A g \in Host : \A j \in batch'[g] : ~j.row.claimed
  BY <1>1, <1>3 DEF TypeOK, BaseInv
<1>7. TypeOK'
  BY <1>1, <1>4, <1>5 DEF TypeOK, slots
<1> QED BY <1>4, <1>6, <1>7, SlotsStill

LEMMA TakesRow ==
  ASSUME BaseInv, NEW h \in Host, NEW j \in batch[h], Takes(h, j)
  PROVE  /\ j \in Read /\ j.at \in Nat \ {0} /\ j.row \in Row /\ ~j.row.claimed
         /\ batch' \in [Host -> SUBSET Read]
         /\ \A g \in Host : batch'[g] \subseteq batch[g]
         /\ \A g \in Host : \A k \in batch'[g] : ~k.row.claimed
<1>1. batch \in [Host -> SUBSET Read] /\ batch' = [batch EXCEPT ![h] = batch[h] \ {j}]
  BY DEF BaseInv, TypeOK, Takes
<1>2. j \in Read /\ ~j.row.claimed
  BY <1>1 DEF BaseInv
<1>3. batch' \in [Host -> SUBSET Read] /\ \A g \in Host : batch'[g] \subseteq batch[g]
  BY <1>1
<1> QED BY <1>2, <1>3 DEF BaseInv, Read

LEMMA ClaimFailsBase ==
  ASSUME BaseInv, NEW h \in Host, NEW j \in batch[h], ClaimFails(h, j)
  PROVE  /\ BaseInv' /\ UNCHANGED <<slots, fate, fails, netErrors>> /\ faults' = faults + 1
         /\ j.row \in Row /\ j.at \in Nat \ {0}
         /\ UNCHANGED sheet \/ (Still(sheet, j.at, j.row) /\ Update(j.at, Claimed(j.row)))
<1>1. TypeOK /\ Takes(h, j)
  BY DEF BaseInv, ClaimFails
<1>2. /\ j.at \in Nat \ {0} /\ j.row \in Row
      /\ batch' \in [Host -> SUBSET Read]
      /\ \A g \in Host : \A k \in batch'[g] : ~k.row.claimed
  BY <1>1, TakesRow
<1>3. /\ UNCHANGED <<slots, fate, fails, sleeps, netErrors>> /\ faults' = faults + 1
      /\ UNCHANGED sheet \/ (Still(sheet, j.at, j.row) /\ Update(j.at, Claimed(j.row)))
  BY DEF ClaimFails, OneFault, ghost
<1>4. sheet' \in Seq(Row)
  <2>1. Claimed(j.row) \in Row
    BY <1>2, Rows
  <2>2. Update(j.at, Claimed(j.row)) => sheet' \in Seq(Row)
    BY <1>1, <1>2, <2>1, Updates
  <2> QED BY <1>1, <1>3, <2>2 DEF TypeOK
<1>5. faults' \in Nat
  BY <1>1, <1>3 DEF TypeOK
<1>6. TypeOK'
  BY <1>1, <1>2, <1>3, <1>4, <1>5 DEF TypeOK, slots
<1> QED BY <1>2, <1>3, <1>6, SlotsStill

LEMMA ClaimSlot ==
  ASSUME BaseInv, NEW h \in Host, NEW j \in batch[h], NEW s \in Slot, DrainClaims(h, j, s)
  PROVE  /\ BaseInv' /\ OnlySlot(s) /\ UNCHANGED <<fate, fails, netErrors>>
         /\ j.row \in Row /\ j.at \in Nat \ {0} /\ ~j.row.claimed
         /\ Update(j.at, Claimed(j.row))
         /\ IF Still(sheet, j.at, j.row) THEN UNCHANGED faults ELSE faults' = faults + 1
         /\ pc[s] = "idle" /\ client[s] = "none" /\ pc'[s] = "sent" /\ client'[s] = "open"
         /\ job'[s].row = Claimed(j.row)
<1>1. TypeOK /\ Takes(h, j)
  BY DEF BaseInv, DrainClaims
<1>2. /\ j \in Read /\ j.at \in Nat \ {0} /\ j.row \in Row /\ ~j.row.claimed
      /\ batch' \in [Host -> SUBSET Read]
      /\ \A g \in Host : batch'[g] \subseteq batch[g]
  BY <1>1, TakesRow
<1> DEFINE r == [j EXCEPT !.row = Claimed(j.row)]
<1>3. r \in Read /\ r.row = Claimed(j.row) /\ Claimed(j.row) \in Row
  <2>1. Claimed(j.row) \in Row
    BY <1>2, Rows
  <2> QED BY <1>2, <2>1 DEF Read
<1>4. /\ sent' = [sent EXCEPT ![s] = r] /\ job' = [job EXCEPT ![s] = r]
      /\ client' = [client EXCEPT ![s] = "open"] /\ pc' = [pc EXCEPT ![s] = "sent"]
      /\ client[s] = "none" /\ pc[s] = "idle"
      /\ UNCHANGED <<fate, fails, sleeps, netErrors>>
      /\ Update(j.at, Claimed(j.row))
      /\ IF Still(sheet, j.at, j.row) THEN UNCHANGED faults ELSE faults' = faults + 1
  BY DEF DrainClaims, FaultIf, OneFault, ghost
<1> HIDE DEF r
<1>5. /\ sent'[s] = r /\ job'[s] = r /\ client'[s] = "open" /\ pc'[s] = "sent"
  BY <1>1, <1>4 DEF TypeOK
<1>6. OnlySlot(s)
  BY <1>1, <1>4 DEF TypeOK, OnlySlot
<1>7. SlotInv(s)'
  BY <1>5 DEF SlotInv
<1>8. TypeOK'
  <2>1. faults' \in Nat
    BY <1>1, <1>4 DEF TypeOK
  <2>2. sheet' \in Seq(Row)
    BY <1>1, <1>2, <1>3, <1>4, Updates
  <2>3. /\ sent' \in [Slot -> Read] /\ job' \in [Slot -> Read]
        /\ client' \in [Slot -> {"none", "open", "reopen"}] /\ pc' \in [Slot -> Wrapper]
    BY <1>1, <1>3, <1>4 DEF TypeOK, Wrapper
  <2> QED BY <1>1, <1>2, <1>4, <2>1, <2>2, <2>3 DEF TypeOK, Wrapper
<1> QED BY <1>2, <1>3, <1>4, <1>5, <1>6, <1>7, <1>8, SlotsSpared

\* The wrapper's steps.
LEMMA Goes ==
  ASSUME TypeOK, NEW s \in Slot, NEW from, NEW to \in Wrapper, Go(s, from, to)
  PROVE  /\ pc[s] = from /\ pc'[s] = to /\ pc' \in [Slot -> Wrapper]
         /\ \A t \in Slot : t # s => pc'[t] = pc[t]
         /\ UNCHANGED <<batch, client, sent>>
BY DEF Go, TypeOK, Wrapper

LEMMA GoBase ==
  ASSUME BaseInv, NEW s \in Slot, NEW from, NEW to \in Wrapper, Go(s, from, to),
         job' \in [Slot -> Read], \A t \in Slot : t # s => job'[t] = job[t],
         sheet' \in Seq(Row),
         fate' \in [Message -> {"new", "queued", "done", "dropped"}],
         fails' \in [Message -> 0..MaxAttempts],
         {sleeps, netErrors, faults}' \subseteq Nat,
         \A m \in Message : fate[m] \in Over => fate'[m] \in Over,
         to # "idle" => job'[s].row.m = job[s].row.m /\ from # "idle",
         to \notin {"idle", "sent"} => job'[s].row.m \in Message,
         to \in {"done", "drop"} => fate'[job'[s].row.m] \in Over
  PROVE  BaseInv' /\ OnlySlot(s)
<1>1. TypeOK /\ SlotInv(s)
  BY DEF BaseInv
<1>2. /\ pc[s] = from /\ pc'[s] = to /\ pc' \in [Slot -> Wrapper]
      /\ \A t \in Slot : t # s => pc'[t] = pc[t]
      /\ UNCHANGED <<batch, client, sent>>
  BY <1>1, Goes
<1>3. OnlySlot(s)
  BY <1>2 DEF OnlySlot
<1>4. SlotInv(s)'
  BY <1>1, <1>2 DEF SlotInv
<1>5. TypeOK'
  BY <1>1, <1>2 DEF TypeOK, Wrapper
<1>6. \A h \in Host : batch'[h] \subseteq batch[h]
  BY <1>2
<1> QED BY <1>3, <1>4, <1>5, <1>6, SlotsSpared

LEMMA ArriveSlot ==
  ASSUME BaseInv, NEW s \in Slot, Arrive(s)
  PROVE  /\ BaseInv' /\ OnlySlot(s) /\ pc[s] = "sent"
         /\ UNCHANGED <<sheet, client, sent, fate, fails, netErrors, faults>>
         /\ \/ /\ pc'[s] = "running" /\ job'[s].row.m = job[s].row.m /\ job'[s].row.m \in Message
               /\ job'[s].at \in DOMAIN sheet /\ sheet[job'[s].at] = job'[s].row
            \/ pc'[s] = "idle" /\ ~\E j \in Range(readSchedule) : Finds(s, j)
<1>1. TypeOK /\ UNCHANGED <<sheet, fate, fails, sleeps, netErrors, faults>>
  BY DEF BaseInv, Arrive, ghost, bounds
<1>2. sheet' \in Seq(Row) /\ fate' \in [Message -> {"new", "queued", "done", "dropped"}]
      /\ fails' \in [Message -> 0..MaxAttempts] /\ {sleeps, netErrors, faults}' \subseteq Nat
  BY <1>1 DEF TypeOK
<1>3. CASE Go(s, "sent", "running") /\ \E j \in Range(readSchedule) : Finds(s, j) /\ job' = [job EXCEPT ![s] = j]
  <2>1. PICK j \in Range(readSchedule) : Finds(s, j) /\ job' = [job EXCEPT ![s] = j]
    BY <1>3
  <2>2. /\ j \in Read /\ j.at \in DOMAIN sheet /\ sheet[j.at] = j.row
        /\ j.row.m = job[s].row.m /\ j.row.m \in Message
    <3>1. j \in Read /\ j.at \in DOMAIN sheet /\ sheet[j.at] = j.row
      BY <1>1, Schedule
    <3>2. j.row.m = job[s].row.m /\ j.row.m # None
      BY <2>1 DEF Finds
    <3> QED BY <3>1, <3>2 DEF Read, Row
  <2>3. "running" \in Wrapper
    BY DEF Wrapper
  <2>4. job' \in [Slot -> Read] /\ job'[s] = j /\ \A t \in Slot : t # s => job'[t] = job[t]
    BY <1>1, <2>1, <2>2 DEF TypeOK
  <2>6. BaseInv' /\ OnlySlot(s)
    BY <1>1, <1>2, <1>3, <2>2, <2>3, <2>4, GoBase
  <2>5. pc[s] = "sent" /\ pc'[s] = "running" /\ UNCHANGED <<client, sent>>
    BY <1>1, <1>3, <2>3, Goes
  <2> QED BY <1>1, <2>2, <2>4, <2>5, <2>6
<1>4. CASE /\ Go(s, "sent", "idle") /\ ~\E j \in Range(readSchedule) : Finds(s, j)
           /\ job' = [job EXCEPT ![s] = Nothing]
  <2>1. "idle" \in Wrapper /\ Nothing \in Read
    BY Rows DEF Wrapper
  <2>4. job' \in [Slot -> Read] /\ \A t \in Slot : t # s => job'[t] = job[t]
    BY <1>1, <1>4, <2>1 DEF TypeOK
  <2>2. BaseInv' /\ OnlySlot(s)
    BY <1>1, <1>2, <1>4, <2>1, <2>4, GoBase
  <2>3. pc[s] = "sent" /\ pc'[s] = "idle" /\ UNCHANGED <<client, sent>>
    BY <1>1, <1>4, <2>1, Goes
  <2> QED BY <1>1, <1>4, <2>2, <2>3
<1> QED BY <1>3, <1>4 DEF Arrive
LEMMA RefuseSlot ==
  ASSUME BaseInv, NEW s \in Slot, Refuse(s)
  PROVE  /\ BaseInv' /\ OnlySlot(s) /\ pc[s] = "sent" /\ pc'[s] = "idle"
         /\ UNCHANGED <<sheet, client, sent, fate, fails, netErrors>> /\ faults' = faults + 1
<1>1. /\ TypeOK /\ Go(s, "sent", "idle") /\ faults' = faults + 1
      /\ job' = [job EXCEPT ![s] = Nothing]
      /\ UNCHANGED <<sheet, fate, fails, sleeps, netErrors>>
  BY DEF BaseInv, Refuse, OneFault, ghost
<1>2. "idle" \in Wrapper /\ Nothing \in Read
  BY Rows DEF Wrapper
<1>3. job' \in [Slot -> Read] /\ \A t \in Slot : t # s => job'[t] = job[t]
  BY <1>1, <1>2 DEF TypeOK
<1>4. {sleeps, netErrors, faults}' \subseteq Nat
  BY <1>1 DEF TypeOK
<1>5. BaseInv' /\ OnlySlot(s)
  BY <1>1, <1>2, <1>3, <1>4, GoBase DEF TypeOK
<1>6. pc[s] = "sent" /\ pc'[s] = "idle" /\ UNCHANGED <<client, sent>>
  BY <1>1, <1>2, Goes
<1> QED BY <1>1, <1>5, <1>6

LEMMA HandlerSlot ==
  ASSUME BaseInv, NEW s \in Slot, HandlerReturns(s) \/ HandlerSleeps(s) \/ HandlerThrows(s)
  PROVE  /\ BaseInv' /\ OnlySlot(s) /\ pc[s] = "running" /\ job[s].row.m \in Message
         /\ job[s].row \in Row
         /\ UNCHANGED <<sheet, job, client, sent, netErrors, faults>>
         /\ \A m \in Message : m # job[s].row.m => fate'[m] = fate[m] /\ fails'[m] = fails[m]
         /\ \/ HandlerReturns(s) /\ pc'[s] = "done" /\ fate'[job[s].row.m] = "done" /\ fails' = fails
            \/ HandlerSleeps(s) /\ pc'[s] = "sleep" /\ UNCHANGED <<fate, fails>>
            \/ /\ HandlerThrows(s)
               /\ pc'[s] = IF TriesAgain(job[s].row) THEN "retry" ELSE "drop"
               /\ fails'[job[s].row.m] = IF fails[job[s].row.m] < MaxAttempts
                                         THEN fails[job[s].row.m] + 1 ELSE fails[job[s].row.m]
               /\ fate'[job[s].row.m] = IF TriesAgain(job[s].row) \/ fate[job[s].row.m] = "done"
                                        THEN fate[job[s].row.m] ELSE "dropped"
<1>1. /\ TypeOK /\ SlotInv(s) /\ pc[s] = "running" /\ job[s].row.m \in Message
      /\ job[s].row \in Row
  <2>1. TypeOK /\ SlotInv(s) /\ pc[s] = "running"
    BY DEF BaseInv, HandlerReturns, HandlerSleeps, HandlerThrows, Go
  <2> QED BY <2>1 DEF SlotInv, TypeOK, Read
<1>2. /\ UNCHANGED <<sheet, job, netErrors, faults>>
      /\ \/ HandlerReturns(s) /\ UNCHANGED sleeps
         \/ HandlerSleeps(s) /\ sleeps' = sleeps + 1
         \/ HandlerThrows(s) /\ UNCHANGED sleeps
  BY DEF HandlerReturns, HandlerSleeps, HandlerThrows, bounds
<1>3. /\ job' \in [Slot -> Read] /\ \A t \in Slot : t # s => job'[t] = job[t]
      /\ sheet' \in Seq(Row) /\ job'[s].row.m = job[s].row.m /\ job'[s].row.m \in Message
  BY <1>1, <1>2 DEF TypeOK
<1>4. {sleeps, netErrors, faults}' \subseteq Nat
  BY <1>1, <1>2 DEF TypeOK
<1>5. PICK m \in Message : m = job[s].row.m
  BY <1>1
<1>6. CASE HandlerReturns(s)
  <2>1. Go(s, "running", "done") /\ fate' = [fate EXCEPT ![m] = "done"] /\ UNCHANGED fails
    BY <1>5, <1>6 DEF HandlerReturns
  <2>2. "done" \in Wrapper
    BY DEF Wrapper
  <2>3. /\ fate' \in [Message -> {"new", "queued", "done", "dropped"}] /\ fate'[m] = "done"
        /\ \A n \in Message : n # m => fate'[n] = fate[n]
        /\ \A n \in Message : fate[n] \in Over => fate'[n] \in Over
    BY <1>1, <2>1 DEF TypeOK, Over
  <2>4. fails' \in [Message -> 0..MaxAttempts] /\ fate'[job'[s].row.m] \in Over
    BY <1>1, <1>2, <1>5, <2>1, <2>3 DEF TypeOK, Over
  <2>5. BaseInv' /\ OnlySlot(s)
    BY <1>3, <1>4, <2>1, <2>2, <2>3, <2>4, GoBase
  <2>6. pc'[s] = "done" /\ UNCHANGED <<client, sent>>
    BY <1>1, <2>1, <2>2, Goes
  <2> QED BY <1>1, <1>2, <1>5, <1>6, <2>1, <2>3, <2>5, <2>6
<1>7. CASE HandlerSleeps(s)
  <2>1. Go(s, "running", "sleep") /\ UNCHANGED <<fate, fails>>
    BY <1>7 DEF HandlerSleeps, ghost
  <2>2. "sleep" \in Wrapper
    BY DEF Wrapper
  <2>3. /\ fate' \in [Message -> {"new", "queued", "done", "dropped"}]
        /\ fails' \in [Message -> 0..MaxAttempts]
    BY <1>1, <2>1 DEF TypeOK
  <2>4. BaseInv' /\ OnlySlot(s)
    BY <1>3, <1>4, <2>1, <2>2, <2>3, GoBase
  <2>5. pc'[s] = "sleep" /\ UNCHANGED <<client, sent>>
    BY <1>1, <2>1, <2>2, Goes
  <2> QED BY <1>1, <1>2, <1>7, <2>1, <2>4, <2>5
<1>8. CASE HandlerThrows(s)
  <2> DEFINE again == TriesAgain(job[s].row)
             to == IF again THEN "retry" ELSE "drop"
  <2>1. /\ Go(s, "running", to)
        /\ fails' = [fails EXCEPT ![m] = IF @ < MaxAttempts THEN @ + 1 ELSE @]
        /\ fate' = IF again \/ fate[m] = "done" THEN fate ELSE [fate EXCEPT ![m] = "dropped"]
    BY <1>5, <1>8 DEF HandlerThrows
  <2>2. to \in Wrapper /\ to \notin {"idle", "sent"} /\ (to \in {"done", "drop"} => ~again)
    BY DEF Wrapper
  <2> HIDE DEF again
  <2>3. /\ fate' \in [Message -> {"new", "queued", "done", "dropped"}]
        /\ fate'[m] = IF again \/ fate[m] = "done" THEN fate[m] ELSE "dropped"
        /\ \A n \in Message : n # m => fate'[n] = fate[n]
        /\ \A n \in Message : fate[n] \in Over => fate'[n] \in Over
        /\ ~again => fate'[m] \in Over
    BY <1>1, <2>1 DEF TypeOK, Over
  <2>4. /\ fails' \in [Message -> 0..MaxAttempts]
        /\ fails'[m] = IF fails[m] < MaxAttempts THEN fails[m] + 1 ELSE fails[m]
        /\ \A n \in Message : n # m => fails'[n] = fails[n]
    BY <1>1, <2>1, SheetsQueueAssumption DEF TypeOK
  <2>5. pc'[s] = to /\ UNCHANGED <<client, sent>>
    BY <1>1, <2>1, <2>2, Goes
  <2>6. to \in {"done", "drop"} => fate'[job'[s].row.m] \in Over
    BY <1>2, <1>5, <2>2, <2>3
  <2> HIDE DEF to
  <2>7. BaseInv' /\ OnlySlot(s)
    BY <1>3, <1>4, <2>1, <2>2, <2>3, <2>4, <2>6, GoBase
  <2> QED BY <1>1, <1>2, <1>5, <1>8, <2>3, <2>4, <2>5, <2>7 DEF to, again
<1> QED BY <1>6, <1>7, <1>8

Ending == {"done", "drop", "sleep", "retry"}

LEMMA Settles ==
  ASSUME BaseInv, NEW s \in Slot, pc[s] \in Ending
  PROVE  /\ job[s].at \in Nat \ {0} /\ job[s].row \in Row /\ job[s].row.m \in Message
         /\ Settle(s) =>
              /\ sheet' \in Seq(Row) /\ Spares(job[s].at)
              /\ IF pc[s] \in {"done", "drop"} THEN Delete(job[s].at)
                 ELSE \E row \in Row : /\ Update(job[s].at, row)
                                       /\ row.m = job[s].row.m /\ ~row.claimed
                                       /\ row.attempt = IF pc[s] = "sleep" THEN job[s].row.attempt
                                                        ELSE job[s].row.attempt + 1
<1>1. /\ TypeOK /\ job[s].at \in Nat \ {0} /\ job[s].row \in Row /\ job[s].row.m \in Message
  BY DEF BaseInv, TypeOK, Read, SlotInv, Ending
<1> DEFINE at == job[s].at
           row == job[s].row
<1>2. ASSUME Settle(s), pc[s] \in {"done", "drop"}
      PROVE  sheet' \in Seq(Row) /\ Spares(at) /\ Delete(at)
  <2>1. Delete(at)
    BY <1>2 DEF Settle
  <2> HIDE DEF at
  <2> QED BY <1>1, <2>1, Deletes DEF at
<1>3. ASSUME Settle(s), pc[s] = "sleep"
      PROVE  sheet' \in Seq(Row) /\ Spares(at) /\ Update(at, Unclaimed(row))
  <2>1. Update(at, Unclaimed(row)) /\ Unclaimed(row) \in Row
    BY <1>1, <1>3, Rows DEF Settle
  <2> HIDE DEF at, row
  <2> QED BY <1>1, <2>1, Updates DEF at
<1>4. ASSUME Settle(s), pc[s] = "retry"
      PROVE  sheet' \in Seq(Row) /\ Spares(at) /\ Update(at, NextTry(row))
  <2>1. Update(at, NextTry(row)) /\ NextTry(row) \in Row
    BY <1>1, <1>4, Rows DEF Settle
  <2> HIDE DEF at, row
  <2> QED BY <1>1, <2>1, Updates DEF at
<1>5. /\ Unclaimed(row) \in Row /\ Unclaimed(row).m = row.m /\ ~Unclaimed(row).claimed
      /\ Unclaimed(row).attempt = row.attempt
      /\ NextTry(row) \in Row /\ NextTry(row).m = row.m /\ ~NextTry(row).claimed
      /\ NextTry(row).attempt = row.attempt + 1
  BY <1>1, Rows
<1> QED BY <1>1, <1>2, <1>3, <1>4, <1>5 DEF Ending

LEMMA FinishSlot ==
  ASSUME BaseInv, NEW s \in Slot, Finish(s), sheet' \in Seq(Row), faults' \in Nat
  PROVE  /\ BaseInv' /\ OnlySlot(s) /\ pc[s] \in Ending /\ pc'[s] = "idle"
         /\ UNCHANGED <<client, sent, fate, fails, netErrors>>
<1>1. /\ TypeOK /\ pc[s] \in Ending /\ Go(s, pc[s], "idle") /\ job' = [job EXCEPT ![s] = Nothing]
      /\ UNCHANGED <<fate, fails, sleeps, netErrors>>
  BY DEF BaseInv, Finish, Ending, ghost
<1>2. "idle" \in Wrapper /\ Nothing \in Read
  BY Rows DEF Wrapper
<1>3. job' \in [Slot -> Read] /\ \A t \in Slot : t # s => job'[t] = job[t]
  BY <1>1, <1>2 DEF TypeOK
<1>4. /\ fate' \in [Message -> {"new", "queued", "done", "dropped"}]
      /\ fails' \in [Message -> 0..MaxAttempts]
      /\ {sleeps, netErrors, faults}' \subseteq Nat
  BY <1>1 DEF TypeOK
<1>5. PICK from : from = pc[s]
  OBVIOUS
<1>6. BaseInv' /\ OnlySlot(s)
  BY <1>1, <1>2, <1>3, <1>4, <1>5, GoBase
<1>7. pc'[s] = "idle" /\ UNCHANGED <<client, sent>>
  BY <1>1, <1>2, <1>5, Goes
<1> QED BY <1>1, <1>6, <1>7

LEMMA WriteSlot ==
  ASSUME BaseInv, NEW s \in Slot, WrapperWrites(s) \/ WrapperWriteFails(s)
  PROVE  /\ BaseInv' /\ OnlySlot(s) /\ pc[s] \in Ending /\ pc'[s] = "idle"
         /\ UNCHANGED <<client, sent, fate, fails, netErrors>>
         /\ \/ /\ WrapperWrites(s) /\ Settle(s)
               /\ IF Still(sheet, job[s].at, job[s].row) THEN UNCHANGED faults ELSE faults' = faults + 1
            \/ /\ WrapperWriteFails(s) /\ faults' = faults + 1
               /\ UNCHANGED sheet \/ (Still(sheet, job[s].at, job[s].row) /\ Settle(s))
<1>1. /\ TypeOK /\ Finish(s)
      /\ \/ /\ WrapperWrites(s) /\ Settle(s)
            /\ IF Still(sheet, job[s].at, job[s].row) THEN UNCHANGED faults ELSE faults' = faults + 1
         \/ /\ WrapperWriteFails(s) /\ faults' = faults + 1
            /\ UNCHANGED sheet \/ (Still(sheet, job[s].at, job[s].row) /\ Settle(s))
  BY DEF BaseInv, WrapperWrites, WrapperWriteFails, FaultIf, OneFault
<1>2. pc[s] \in Ending
  BY <1>1 DEF Finish, Ending
<1>3. sheet' \in Seq(Row)
  BY <1>1, <1>2, Settles DEF TypeOK
<1>4. faults' \in Nat
  BY <1>1 DEF TypeOK
<1> QED BY <1>1, <1>3, <1>4, FinishSlot

\* The dispatcher's side of a fetch.
LEMMA CloseSlot ==
  ASSUME BaseInv, NEW s \in Slot, Close(s), sheet' \in Seq(Row),
         {sleeps, netErrors, faults}' \subseteq Nat, UNCHANGED <<batch, fate, fails>>,
         \/ UNCHANGED <<pc, job>>
         \/ pc' = [pc EXCEPT ![s] = "idle"] /\ job' = [job EXCEPT ![s] = Nothing]
  PROVE  BaseInv' /\ OnlySlot(s) /\ client'[s] = "none"
<1>1. /\ TypeOK /\ SlotInv(s) /\ client' = [client EXCEPT ![s] = "none"]
      /\ sent' = [sent EXCEPT ![s] = Nothing] /\ Nothing \in Read
  BY Rows DEF BaseInv, Close
<1>2. /\ client' \in [Slot -> {"none", "open", "reopen"}] /\ sent' \in [Slot -> Read]
      /\ client'[s] = "none" /\ \A t \in Slot : t # s => client'[t] = client[t] /\ sent'[t] = sent[t]
  BY <1>1 DEF TypeOK
<1>3. /\ pc' \in [Slot -> Wrapper] /\ job' \in [Slot -> Read]
      /\ \A t \in Slot : t # s => pc'[t] = pc[t] /\ job'[t] = job[t]
      /\ UNCHANGED <<pc, job>> \/ pc'[s] = "idle"
  BY <1>1 DEF TypeOK, Wrapper
<1>4. OnlySlot(s)
  BY <1>2, <1>3 DEF OnlySlot
<1>5. SlotInv(s)'
  BY <1>1, <1>2, <1>3 DEF SlotInv
<1>6. TypeOK'
  BY <1>1, <1>2, <1>3 DEF TypeOK, Wrapper
<1> QED BY <1>2, <1>4, <1>5, <1>6, SlotsSpared

LEMMA ClientSlot ==
  ASSUME BaseInv, NEW s \in Slot, ClientStep(s) \/ ReopenFails(s)
  PROVE  /\ BaseInv' /\ OnlySlot(s) /\ UNCHANGED <<pc, job, fate, fails>> /\ client'[s] = "none"
         /\ \/ Response(s) /\ client[s] = "open" /\ UNCHANGED <<sheet, netErrors, faults>>
            \/ /\ Reopen(s) /\ client[s] = "reopen" /\ UNCHANGED netErrors
               /\ sent[s].at \in Nat \ {0} /\ sent[s].row \in Row
               /\ Update(sent[s].at, NextTry(sent[s].row))
               /\ IF Still(sheet, sent[s].at, sent[s].row) THEN UNCHANGED faults ELSE faults' = faults + 1
            \/ /\ ReopenFails(s) /\ client[s] = "reopen" /\ UNCHANGED sheet
               /\ IF netErrors > 0 THEN netErrors' = netErrors - 1 /\ faults' = faults + 1
                  ELSE UNCHANGED <<netErrors, faults>>
<1>1. TypeOK /\ sent[s].at \in Nat \ {0} /\ sent[s].row \in Row
  BY DEF BaseInv, TypeOK, Read
<1>2. Close(s) /\ UNCHANGED <<batch, pc, job, fate, fails, sleeps>>
  BY DEF ClientStep, Response, Reopen, ReopenFails, ghost, bounds
<1>3. CASE Response(s)
  <2>1. client[s] = "open" /\ UNCHANGED <<sheet, netErrors, faults>>
    BY <1>3 DEF Response, bounds
  <2>2. BaseInv' /\ OnlySlot(s) /\ client'[s] = "none"
    BY <1>1, <1>2, <2>1, CloseSlot DEF TypeOK
  <2> QED BY <1>2, <1>3, <2>1, <2>2
<1>4. CASE Reopen(s)
  <2>1. /\ client[s] = "reopen" /\ UNCHANGED netErrors
        /\ Update(sent[s].at, NextTry(sent[s].row))
        /\ IF Still(sheet, sent[s].at, sent[s].row) THEN UNCHANGED faults ELSE faults' = faults + 1
    BY <1>4 DEF Reopen, FaultIf, OneFault
  <2>2. NextTry(sent[s].row) \in Row
    BY <1>1, Rows
  <2>3. sheet' \in Seq(Row) /\ {sleeps, netErrors, faults}' \subseteq Nat
    <3>1. sheet' \in Seq(Row)
      BY <1>1, <2>1, <2>2, Updates
    <3> QED BY <1>1, <1>2, <2>1, <3>1 DEF TypeOK
  <2>4. BaseInv' /\ OnlySlot(s) /\ client'[s] = "none"
    BY <1>2, <2>3, CloseSlot
  <2> QED BY <1>1, <1>2, <1>4, <2>1, <2>4
<1>5. CASE ReopenFails(s)
  <2>1. /\ client[s] = "reopen" /\ UNCHANGED sheet
        /\ IF netErrors > 0 THEN netErrors' = netErrors - 1 /\ faults' = faults + 1
           ELSE UNCHANGED <<netErrors, faults>>
    BY <1>5 DEF ReopenFails
  <2>2. sheet' \in Seq(Row) /\ {sleeps, netErrors, faults}' \subseteq Nat
    BY <1>1, <1>2, <2>1 DEF TypeOK
  <2>3. BaseInv' /\ OnlySlot(s) /\ client'[s] = "none"
    BY <1>2, <2>2, CloseSlot
  <2> QED BY <1>2, <1>5, <2>1, <2>3
<1> QED BY <1>3, <1>4, <1>5 DEF ClientStep
LEMMA NetErrorSlot ==
  ASSUME BaseInv, NEW s \in Slot, NetError(s)
  PROVE  /\ BaseInv' /\ OnlySlot(s) /\ client[s] = "open" /\ client'[s] = "reopen"
         /\ UNCHANGED <<sheet, sent, fate, fails, faults>> /\ netErrors' = netErrors + 1
         /\ UNCHANGED <<pc, job>> \/ (pc[s] = "sent" /\ pc'[s] = "idle")
<1>1. /\ TypeOK /\ SlotInv(s) /\ client[s] = "open" /\ client' = [client EXCEPT ![s] = "reopen"]
      /\ netErrors' = netErrors + 1 /\ UNCHANGED <<sheet, batch, sent, fate, fails, sleeps, faults>>
      /\ \/ UNCHANGED <<pc, job>>
         \/ /\ pc[s] = "sent" /\ pc' = [pc EXCEPT ![s] = "idle"]
            /\ job' = [job EXCEPT ![s] = Nothing]
  BY DEF BaseInv, NetError, ghost
<1>2. /\ client' \in [Slot -> {"none", "open", "reopen"}] /\ client'[s] = "reopen"
      /\ \A t \in Slot : t # s => client'[t] = client[t]
  BY <1>1 DEF TypeOK
<1>3. /\ pc' \in [Slot -> Wrapper] /\ job' \in [Slot -> Read]
      /\ \A t \in Slot : t # s => pc'[t] = pc[t] /\ job'[t] = job[t]
      /\ UNCHANGED <<pc, job>> \/ (pc[s] = "sent" /\ pc'[s] = "idle")
  <2>1. CASE UNCHANGED <<pc, job>>
    BY <1>1, <2>1 DEF TypeOK, Wrapper
  <2>2. CASE /\ pc[s] = "sent" /\ pc' = [pc EXCEPT ![s] = "idle"]
             /\ job' = [job EXCEPT ![s] = Nothing]
    <3>1. pc' \in [Slot -> Wrapper] /\ pc'[s] = "idle" /\ \A t \in Slot : t # s => pc'[t] = pc[t]
      BY <1>1, <2>2 DEF TypeOK, Wrapper
    <3>2. job' \in [Slot -> Read] /\ \A t \in Slot : t # s => job'[t] = job[t]
      BY <1>1, <2>2, Rows DEF TypeOK
    <3> QED BY <2>2, <3>1, <3>2
  <2> QED BY <1>1, <2>1, <2>2
<1>4. OnlySlot(s)
  BY <1>1, <1>2, <1>3 DEF OnlySlot
<1>5. SlotInv(s)'
  BY <1>1, <1>3 DEF SlotInv
<1>6. netErrors' \in Nat
  BY <1>1 DEF TypeOK
<1>7. TypeOK'
  BY <1>1, <1>2, <1>3, <1>6 DEF TypeOK, Wrapper
<1> QED BY <1>1, <1>2, <1>3, <1>4, <1>5, <1>7, SlotsSpared

LEMMA CutSlots ==
  ASSUME BaseInv, NEW H \in SUBSET Host, NEW D \in SUBSET Slot, NEW W \in SUBSET Slot,
         NEW E \in SUBSET (W \ D), CutOff(H, D, W, E)
  PROVE  /\ UNCHANGED <<sheet, fate, fails, sleeps, netErrors>>
         /\ \A s \in Slot :
              /\ IF s \in W THEN pc[s] # "idle" /\ pc'[s] = "idle" /\ job'[s] = Nothing
                            ELSE pc'[s] = pc[s] /\ job'[s] = job[s]
              /\ IF s \in D THEN client'[s] = "none" /\ sent'[s] = Nothing
                            ELSE /\ sent'[s] = sent[s]
                                 /\ IF s \in E THEN client[s] = "open" /\ client'[s] = "reopen"
                                               ELSE client'[s] = client[s]
BY DEF CutOff, ghost

LEMMA CutCounted ==
  ASSUME BaseInv, NEW H \in SUBSET Host, NEW D \in SUBSET Slot, NEW W \in SUBSET Slot,
         NEW E \in SUBSET (W \ D), CutOff(H, D, W, E)
  PROVE  /\ IsFiniteSet(D \union W) /\ Cardinality(D \union W) \in Nat
         /\ faults \in Nat /\ faults' = faults + Cardinality(D \union W) /\ faults' \in Nat
<1>1. D \union W \in SUBSET Slot
  OBVIOUS
<1>2. IsFiniteSet(D \union W)
  BY <1>1, FS_Subset, SheetsQueueAssumption
<1>3. Cardinality(D \union W) \in Nat
  BY <1>2, FS_CardinalityType
<1>4. faults \in Nat /\ faults' = faults + Cardinality(D \union W)
  BY DEF BaseInv, TypeOK, CutOff
<1> QED BY <1>2, <1>3, <1>4

LEMMA CutBase ==
  ASSUME BaseInv, NEW H \in SUBSET Host, NEW D \in SUBSET Slot, NEW W \in SUBSET Slot,
         NEW E \in SUBSET (W \ D), CutOff(H, D, W, E)
  PROVE  BaseInv'
<1>1. TypeOK /\ \A s \in Slot : SlotInv(s)
  BY DEF BaseInv
<1>2. \A h \in Host : batch'[h] \subseteq batch[h]
  BY DEF CutOff
<1>3. TypeOK'
  <2>1. batch' \in [Host -> SUBSET Read]
    BY <1>1 DEF CutOff, TypeOK
  <2>2. client' \in [Slot -> {"none", "open", "reopen"}]
    BY <1>1 DEF CutOff, TypeOK
  <2>3. pc' \in [Slot -> {"idle", "sent", "running", "done", "drop", "sleep", "retry"}]
    BY <1>1 DEF CutOff, TypeOK
  <2>4. sent' \in [Slot -> Read] /\ job' \in [Slot -> Read]
    BY <1>1, Rows DEF CutOff, TypeOK
  <2>5. faults' \in Nat
    BY CutCounted
  <2>6. UNCHANGED <<sheet, fate, fails, sleeps, netErrors>>
    BY CutSlots
  <2> QED BY <1>1, <2>1, <2>2, <2>3, <2>4, <2>5, <2>6 DEF TypeOK
<1>4. ASSUME NEW s \in Slot PROVE SlotInv(s)'
  <2>1. SlotInv(s) /\ fate' = fate
    BY <1>1, CutSlots
  <2>2. /\ pc'[s] = "idle" \/ (pc'[s] = pc[s] /\ job'[s] = job[s])
        /\ \/ client'[s] = "none"
           \/ sent'[s] = sent[s] /\ (client'[s] = client[s] \/ client[s] = "open")
    BY CutSlots
  <2> QED BY <2>1, <2>2 DEF SlotInv
<1>5. \A h \in Host : \A j \in batch'[h] : ~j.row.claimed
  BY <1>2 DEF BaseInv
<1> QED BY <1>3, <1>4, <1>5 DEF BaseInv

LEMMA BaseStep == BaseInv /\ [Next]_vars => BaseInv'
<1> SUFFICES ASSUME BaseInv, [Next]_vars PROVE BaseInv'
  OBVIOUS
<1>1. CASE UNCHANGED vars
  BY <1>1, SlotsStill DEF BaseInv, TypeOK, vars, slots, ghost, bounds
<1>2. ASSUME NEW s \in Slot, WrapperStep(s) PROVE BaseInv'
  BY <1>2, ArriveSlot, HandlerSlot, WriteSlot DEF WrapperStep
<1>3. ASSUME NEW H \in SUBSET Host, NEW D \in SUBSET Slot, NEW W \in SUBSET Slot,
             NEW E \in SUBSET (W \ D), CutOff(H, D, W, E)
      PROVE  BaseInv'
  BY <1>3, CutBase
<1> QED BY <1>1, <1>2, <1>3, EnqueueBase, ReadsBase, ClaimFailsBase, ClaimSlot, RefuseSlot, WriteSlot,
        ClientSlot, NetErrorSlot DEF Next

LEMMA BaseInitially == Init => BaseInv
<1> SUFFICES ASSUME Init PROVE BaseInv
  OBVIOUS
<1>1. fails \in [Message -> 0..MaxAttempts]
  BY SheetsQueueAssumption DEF Init
<1>2. sheet \in Seq(Row)
  BY DEF Init
<1>3. TypeOK
  BY <1>1, <1>2, Rows DEF Init, TypeOK
<1>4. \A s \in Slot : SlotInv(s)
  BY DEF Init, SlotInv
<1>5. \A h \in Host : batch[h] = {}
  BY DEF Init
<1> QED BY <1>3, <1>4, <1>5 DEF BaseInv

\* Every variable has its type, whatever fails, and whatever rows are written
\* over, blanked or deleted by a number that is out of date.
THEOREM TypeCorrect == Spec => []TypeOK
<1>1. BaseInv => TypeOK
  BY DEF BaseInv
<1> QED BY <1>1, BaseInitially, BaseStep, PTL DEF Spec

----------------------------------------------------------------------------
(* One job per fault.                                                      *)

\* An invocation that has yet to bring its job to an end, or to give it back.
Carrying == {"running", "sleep", "retry"}

\* What brings m back into the sheet, or keeps it there: a row that is free, a
\* row that a request on its way is going to find, an invocation, or a catch
\* block that is going to write one.
Safe(m) ==
  \/ \E n \in DOMAIN sheet :
       sheet[n].m = m /\ (~sheet[n].claimed \/ \E s \in Slot : pc[s] = "sent" /\ job[s].row.m = m)
  \/ \E s \in Slot : pc[s] \in Carrying /\ job[s].row.m = m
  \/ \E s \in Slot : client[s] = "reopen" /\ sent[s].row.m = m

Unsafe == {m \in Message : fate[m] = "queued" /\ ~Safe(m)}

Reopening == {s \in Slot : client[s] = "reopen"}

\* A catch block stands for a fault that may yet cost a job.
LossInv ==
  /\ IsFiniteSet(Unsafe) /\ IsFiniteSet(Reopening)
  /\ Cardinality(Unsafe) <= faults
  /\ Cardinality(Unsafe) + Cardinality(Reopening) <= faults + netErrors

LEMMA Smallest ==
  ASSUME NEW T, T \subseteq Nat, T # {}
  PROVE  \E k \in T : \A i \in T : ~(i < k)
<1>1. PICK k \in T : \A i \in T : ~(<<i, k>> \in OpToRel(<, Nat))
  BY NatLessThanWellFounded, WFMin
<1>2. ASSUME NEW i \in T, i < k PROVE <<i, k>> \in OpToRel(<, Nat)
  BY <1>2 DEF OpToRel
<1> QED BY <1>1, <1>2

\* A request finds its job if the job has a row.
LEMMA FirstFound ==
  ASSUME TypeOK, NEW s \in Slot, NEW n \in DOMAIN sheet, sheet[n].m = job[s].row.m,
         job[s].row.m \in Message
  PROVE  \E j \in Range(readSchedule) : Finds(s, j)
<1> DEFINE T == {k \in DOMAIN sheet : sheet[k].m = job[s].row.m}
<1>1. sheet \in Seq(Row) /\ DOMAIN sheet = 1..Len(sheet) /\ Len(sheet) \in Nat
  BY DEF TypeOK
<1>2. T \subseteq Nat /\ T # {}
  BY <1>1
<1>3. PICK k \in T : \A i \in T : ~(i < k)
  <2> HIDE DEF T
  <2> QED BY <1>2, Smallest
<1> DEFINE j == [at |-> k, row |-> sheet[k]]
<1>4. j \in Range(readSchedule)
  BY DEF Range, readSchedule, getAllRows
<1>5. Finds(s, j)
  <2>1. k \in 1..Len(sheet) /\ sheet[k].m = job[s].row.m
    BY <1>1
  <2>2. ASSUME NEW i \in 1..k - 1 PROVE sheet[i].m # job[s].row.m
    <3>1. i \in DOMAIN sheet /\ i < k
      BY <1>1, <2>1
    <3> QED BY <1>3, <3>1
  <2>3. job[s].row.m # None
    BY SheetsQueueAssumption
  <2> QED BY <2>1, <2>2, <2>3 DEF Finds
<1> QED BY <1>4, <1>5

\* What keeps a message safe: its rows, and what each slot does for it.
KeepsRows(m) ==
  \A k \in DOMAIN sheet : sheet[k].m = m => \E i \in DOMAIN sheet' : sheet'[i] = sheet[k]

KeepsSlot(s, m) ==
  /\ pc[s] = "sent" /\ job[s].row.m = m => pc'[s] = "sent" /\ job'[s].row.m = m
  /\ pc[s] \in Carrying /\ job[s].row.m = m => pc'[s] \in Carrying /\ job'[s].row.m = m
  /\ client[s] = "reopen" /\ sent[s].row.m = m => client'[s] = "reopen" /\ sent'[s].row.m = m

LEMMA StaysSafe ==
  ASSUME NEW m, KeepsRows(m), \A s \in Slot : KeepsSlot(s, m), Safe(m)
  PROVE  Safe(m)'
<1>1. CASE \E n \in DOMAIN sheet :
             sheet[n].m = m /\ (~sheet[n].claimed \/ \E s \in Slot : pc[s] = "sent" /\ job[s].row.m = m)
  <2>1. PICK n \in DOMAIN sheet :
          sheet[n].m = m /\ (~sheet[n].claimed \/ \E s \in Slot : pc[s] = "sent" /\ job[s].row.m = m)
    BY <1>1
  <2>2. PICK i \in DOMAIN sheet' : sheet'[i] = sheet[n]
    BY <2>1 DEF KeepsRows
  <2>3. (\E s \in Slot : pc[s] = "sent" /\ job[s].row.m = m)
          => \E s \in Slot : pc'[s] = "sent" /\ job'[s].row.m = m
    BY DEF KeepsSlot
  <2> QED BY <2>1, <2>2, <2>3 DEF Safe
<1>2. CASE \E s \in Slot : pc[s] \in Carrying /\ job[s].row.m = m
  BY <1>2 DEF Safe, KeepsSlot
<1>3. CASE \E s \in Slot : client[s] = "reopen" /\ sent[s].row.m = m
  BY <1>3 DEF Safe, KeepsSlot
<1> QED BY <1>1, <1>2, <1>3 DEF Safe

LEMMA StaysSafeAt ==
  ASSUME NEW s \in Slot, OnlySlot(s), NEW m, KeepsRows(m), KeepsSlot(s, m), Safe(m)
  PROVE  Safe(m)'
<1>1. \A t \in Slot : KeepsSlot(t, m)
  BY DEF OnlySlot, KeepsSlot
<1> QED BY <1>1, StaysSafe

\* What a step can make unsafe.
LEMMA UnsafeGrows ==
  ASSUME NEW X,
         \A m \in Message : m \notin X /\ fate'[m] = "queued" /\ ~Safe(m)' => fate[m] = "queued" /\ ~Safe(m)
  PROVE  Unsafe' \subseteq Unsafe \union X
BY DEF Unsafe

LEMMA OneMore ==
  ASSUME NEW A, IsFiniteSet(A), NEW x, NEW B, B \subseteq A \union {x}
  PROVE  /\ IsFiniteSet(B) /\ Cardinality(B) \in Nat /\ Cardinality(A) \in Nat
         /\ Cardinality(B) <= Cardinality(A) + 1
<1>1. /\ IsFiniteSet(A \union {x}) /\ Cardinality(A) \in Nat
      /\ Cardinality(A \union {x}) = IF x \in A THEN Cardinality(A) ELSE Cardinality(A) + 1
  BY FS_AddElement, FS_CardinalityType
<1>2. /\ IsFiniteSet(B) /\ Cardinality(B) <= Cardinality(A \union {x}) /\ Cardinality(B) \in Nat
  BY <1>1, FS_Subset, FS_CardinalityType
<1> QED BY <1>1, <1>2

LEMMA NoMore ==
  ASSUME NEW A, IsFiniteSet(A), NEW B, B \subseteq A
  PROVE  /\ IsFiniteSet(B) /\ Cardinality(B) \in Nat /\ Cardinality(A) \in Nat
         /\ Cardinality(B) <= Cardinality(A)
BY FS_Subset, FS_CardinalityType

LEMMA OneLess ==
  ASSUME NEW A, IsFiniteSet(A), NEW x \in A, NEW B, B \subseteq A \ {x}
  PROVE  /\ IsFiniteSet(B) /\ Cardinality(B) \in Nat /\ Cardinality(A) \in Nat
         /\ Cardinality(B) <= Cardinality(A) - 1
<1>1. /\ IsFiniteSet(A \ {x}) /\ Cardinality(A) \in Nat
      /\ Cardinality(A \ {x}) = Cardinality(A) - 1
  BY FS_RemoveElement, FS_CardinalityType
<1>2. /\ IsFiniteSet(B) /\ Cardinality(B) <= Cardinality(A \ {x}) /\ Cardinality(B) \in Nat
  BY <1>1, FS_Subset, FS_CardinalityType
<1> QED BY <1>1, <1>2

\* The four ways in which the books are kept.
LEMMA NothingLost ==
  ASSUME TypeOK, LossInv, Unsafe' \subseteq Unsafe, Reopening' \subseteq Reopening,
         faults' = faults \/ faults' = faults + 1, netErrors' = netErrors
  PROVE  LossInv'
<1>1. /\ IsFiniteSet(Unsafe') /\ Cardinality(Unsafe') \in Nat /\ Cardinality(Unsafe) \in Nat
      /\ Cardinality(Unsafe') <= Cardinality(Unsafe)
  BY NoMore DEF LossInv
<1>2. /\ IsFiniteSet(Reopening') /\ Cardinality(Reopening') \in Nat /\ Cardinality(Reopening) \in Nat
      /\ Cardinality(Reopening') <= Cardinality(Reopening)
  BY NoMore DEF LossInv
<1>3. faults \in Nat /\ netErrors \in Nat /\ Cardinality(Unsafe) <= faults
      /\ Cardinality(Unsafe) + Cardinality(Reopening) <= faults + netErrors
  BY DEF LossInv, TypeOK
<1>4. /\ Cardinality(Unsafe') <= faults'
      /\ Cardinality(Unsafe') + Cardinality(Reopening') <= faults' + netErrors'
  BY <1>1, <1>2, <1>3
<1> QED BY <1>1, <1>2, <1>4, Zenon DEF LossInv

LEMMA OneLost ==
  ASSUME TypeOK, LossInv, NEW x, Unsafe' \subseteq Unsafe \union {x}, Reopening' \subseteq Reopening,
         faults' = faults + 1, netErrors' = netErrors
  PROVE  LossInv'
<1>1. /\ IsFiniteSet(Unsafe') /\ Cardinality(Unsafe') \in Nat /\ Cardinality(Unsafe) \in Nat
      /\ Cardinality(Unsafe') <= Cardinality(Unsafe) + 1
  BY OneMore DEF LossInv
<1>2. /\ IsFiniteSet(Reopening') /\ Cardinality(Reopening') \in Nat /\ Cardinality(Reopening) \in Nat
      /\ Cardinality(Reopening') <= Cardinality(Reopening)
  BY NoMore DEF LossInv
<1>3. faults \in Nat /\ netErrors \in Nat /\ Cardinality(Unsafe) <= faults
      /\ Cardinality(Unsafe) + Cardinality(Reopening) <= faults + netErrors
  BY DEF LossInv, TypeOK
<1>4. /\ Cardinality(Unsafe') <= faults'
      /\ Cardinality(Unsafe') + Cardinality(Reopening') <= faults' + netErrors'
  BY <1>1, <1>2, <1>3
<1> QED BY <1>1, <1>2, <1>4, Zenon DEF LossInv

LEMMA OneReopening ==
  ASSUME TypeOK, LossInv, NEW s, Unsafe' \subseteq Unsafe, Reopening' \subseteq Reopening \union {s},
         \/ faults' = faults + 1 /\ netErrors' = netErrors
         \/ faults' = faults /\ netErrors' = netErrors + 1
  PROVE  LossInv'
<1>1. /\ IsFiniteSet(Unsafe') /\ Cardinality(Unsafe') \in Nat /\ Cardinality(Unsafe) \in Nat
      /\ Cardinality(Unsafe') <= Cardinality(Unsafe)
  BY NoMore DEF LossInv
<1>2. /\ IsFiniteSet(Reopening') /\ Cardinality(Reopening') \in Nat /\ Cardinality(Reopening) \in Nat
      /\ Cardinality(Reopening') <= Cardinality(Reopening) + 1
  BY OneMore DEF LossInv
<1>3. faults \in Nat /\ netErrors \in Nat /\ Cardinality(Unsafe) <= faults
      /\ Cardinality(Unsafe) + Cardinality(Reopening) <= faults + netErrors
  BY DEF LossInv, TypeOK
<1>4. /\ Cardinality(Unsafe') <= faults'
      /\ Cardinality(Unsafe') + Cardinality(Reopening') <= faults' + netErrors'
  BY <1>1, <1>2, <1>3
<1> QED BY <1>1, <1>2, <1>4, Zenon DEF LossInv

LEMMA OneGivenUp ==
  ASSUME TypeOK, LossInv, NEW x, NEW s \in Reopening,
         Unsafe' \subseteq Unsafe \union {x}, Reopening' \subseteq Reopening \ {s},
         IF netErrors > 0 THEN netErrors' = netErrors - 1 /\ faults' = faults + 1
         ELSE UNCHANGED <<netErrors, faults>>
  PROVE  LossInv'
<1>1. /\ IsFiniteSet(Unsafe') /\ Cardinality(Unsafe') \in Nat /\ Cardinality(Unsafe) \in Nat
      /\ Cardinality(Unsafe') <= Cardinality(Unsafe) + 1
  BY OneMore DEF LossInv
<1>2. /\ IsFiniteSet(Reopening') /\ Cardinality(Reopening') \in Nat /\ Cardinality(Reopening) \in Nat
      /\ Cardinality(Reopening') <= Cardinality(Reopening) - 1
  BY OneLess DEF LossInv
<1>3. faults \in Nat /\ netErrors \in Nat /\ Cardinality(Unsafe) <= faults
      /\ Cardinality(Unsafe) + Cardinality(Reopening) <= faults + netErrors
  BY DEF LossInv, TypeOK
<1>4. /\ Cardinality(Unsafe') <= faults'
      /\ Cardinality(Unsafe') + Cardinality(Reopening') <= faults' + netErrors'
  BY <1>1, <1>2, <1>3
<1> QED BY <1>1, <1>2, <1>4, Zenon DEF LossInv

LEMMA ReopeningAt ==
  ASSUME NEW s \in Slot, OnlySlot(s)
  PROVE  /\ Reopening' \subseteq Reopening \union {s}
         /\ (client'[s] = "reopen" => client[s] = "reopen") => Reopening' \subseteq Reopening
         /\ client'[s] # "reopen" => Reopening' \subseteq Reopening \ {s}
BY DEF OnlySlot, Reopening

\* Whose row a write to number n hits.
Victim(n) == IF n \in DOMAIN sheet THEN sheet[n].m ELSE None

LEMMA VictimOf ==
  ASSUME TypeOK, NEW n \in Nat \ {0}
  PROVE  /\ \A row : Still(sheet, n, row) => Victim(n) = row.m
         /\ Spares(n) => \A m \in Message : m # Victim(n) => KeepsRows(m)
<1>1. sheet \in Seq(Row)
  BY DEF TypeOK
<1>2. ASSUME NEW row, Still(sheet, n, row) PROVE Victim(n) = row.m
  <2>1. n \in DOMAIN sheet /\ sheet[n] = row
    BY <1>1, <1>2 DEF Still
  <2> QED BY <2>1 DEF Victim
<1>3. ASSUME Spares(n), NEW m \in Message, m # Victim(n) PROVE KeepsRows(m)
  BY <1>3 DEF Spares, Victim, KeepsRows
<1> QED BY <1>2, <1>3

\* A row written for m that is free, or that its request is going to find.
LEMMA WrittenSafe ==
  ASSUME NEW m, NEW n \in DOMAIN sheet', sheet'[n].m = m,
         ~sheet'[n].claimed \/ \E s \in Slot : pc'[s] = "sent" /\ job'[s].row.m = m
  PROVE  Safe(m)'
BY DEF Safe

LEMMA ClaimLoss ==
  ASSUME BaseInv, LossInv, NEW h \in Host, NEW j \in batch[h], NEW s \in Slot, DrainClaims(h, j, s)
  PROVE  LossInv'
<1>1. /\ OnlySlot(s) /\ UNCHANGED <<fate, netErrors>> /\ j.row \in Row /\ j.at \in Nat \ {0}
      /\ Update(j.at, Claimed(j.row))
      /\ IF Still(sheet, j.at, j.row) THEN UNCHANGED faults ELSE faults' = faults + 1
      /\ pc[s] = "idle" /\ client[s] = "none" /\ pc'[s] = "sent" /\ client'[s] = "open"
      /\ job'[s].row = Claimed(j.row) /\ TypeOK
  BY ClaimSlot DEF BaseInv
<1>2. Claimed(j.row) \in Row /\ Claimed(j.row).m = j.row.m
  BY <1>1, Rows
<1>3. Spares(j.at) /\ j.at \in DOMAIN sheet' /\ sheet'[j.at] = Claimed(j.row)
  BY <1>1, <1>2, Updates
<1>4. PICK x : x = Victim(j.at)
  OBVIOUS
<1>5. Still(sheet, j.at, j.row) => x = j.row.m
  BY <1>1, <1>4, VictimOf
<1>6. Safe(j.row.m)'
  <2>1. sheet'[j.at].m = j.row.m /\ pc'[s] = "sent" /\ job'[s].row.m = j.row.m
    BY <1>1, <1>2, <1>3
  <2> QED BY <1>3, <2>1, WrittenSafe
<1>7. ASSUME NEW m \in Message, m # x, ~Safe(m)' PROVE ~Safe(m)
  <2>1. KeepsRows(m)
    BY <1>1, <1>3, <1>4, <1>7, VictimOf
  <2>2. KeepsSlot(s, m)
    BY <1>1 DEF KeepsSlot, Carrying
  <2> QED BY <1>1, <1>7, <2>1, <2>2, StaysSafeAt
<1>8. Reopening' \subseteq Reopening
  BY <1>1, ReopeningAt
<1>9. CASE Still(sheet, j.at, j.row)
  <2>1. Unsafe' \subseteq Unsafe \union {}
    BY <1>1, <1>5, <1>6, <1>7, <1>9, UnsafeGrows
  <2> QED BY <1>1, <1>8, <1>9, <2>1, NothingLost
<1>10. CASE ~Still(sheet, j.at, j.row)
  <2>1. Unsafe' \subseteq Unsafe \union {x}
    BY <1>1, <1>7, UnsafeGrows
  <2> QED BY <1>1, <1>8, <1>10, <2>1, OneLost
<1> QED BY <1>9, <1>10

LEMMA ArriveLoss ==
  ASSUME BaseInv, LossInv, NEW s \in Slot, Arrive(s)
  PROVE  LossInv'
<1>1. /\ OnlySlot(s) /\ pc[s] = "sent" /\ TypeOK
      /\ UNCHANGED <<sheet, client, sent, fate, netErrors, faults>>
      /\ \/ pc'[s] = "running" /\ job'[s].row.m = job[s].row.m
         \/ pc'[s] = "idle" /\ ~\E j \in Range(readSchedule) : Finds(s, j)
  BY ArriveSlot DEF BaseInv
<1>2. ASSUME NEW m \in Message, ~Safe(m)' PROVE ~Safe(m)
  <2>1. KeepsRows(m)
    BY <1>1 DEF KeepsRows
  <2>2. CASE m # job[s].row.m
    <3>1. KeepsSlot(s, m)
      BY <1>1, <2>2 DEF KeepsSlot, Carrying
    <3> QED BY <1>1, <1>2, <2>1, <3>1, StaysSafeAt
  <2>3. CASE m = job[s].row.m /\ pc'[s] = "running" /\ job'[s].row.m = job[s].row.m
    BY <1>2, <2>3 DEF Safe, Carrying
  <2>4. CASE m = job[s].row.m /\ pc'[s] = "idle" /\ ~\E j \in Range(readSchedule) : Finds(s, j)
    <3>1. \A n \in DOMAIN sheet : sheet[n].m # m
      BY <1>1, <2>4, FirstFound
    <3>2. \A t \in Slot : /\ pc[t] \in Carrying => t # s
                          /\ client'[t] = client[t] /\ sent'[t] = sent[t]
      BY <1>1 DEF Carrying
    <3>3. \A t \in Slot : pc[t] \in Carrying => pc'[t] = pc[t] /\ job'[t] = job[t]
      BY <1>1, <3>2 DEF OnlySlot
    <3> QED BY <1>2, <3>1, <3>2, <3>3 DEF Safe
  <2> QED BY <1>1, <2>2, <2>3, <2>4
<1>3. Unsafe' \subseteq Unsafe \union {}
  BY <1>1, <1>2, UnsafeGrows
<1>4. Reopening' \subseteq Reopening
  BY <1>1, ReopeningAt
<1> QED BY <1>1, <1>3, <1>4, NothingLost

LEMMA RefuseLoss ==
  ASSUME BaseInv, LossInv, NEW s \in Slot, Refuse(s)
  PROVE  LossInv'
<1>1. /\ OnlySlot(s) /\ pc[s] = "sent" /\ TypeOK
      /\ UNCHANGED <<sheet, client, sent, fate, netErrors>> /\ faults' = faults + 1
  BY RefuseSlot DEF BaseInv
<1>2. ASSUME NEW m \in Message, m # job[s].row.m, ~Safe(m)' PROVE ~Safe(m)
  <2>1. KeepsRows(m) /\ KeepsSlot(s, m)
    BY <1>1, <1>2 DEF KeepsRows, KeepsSlot, Carrying
  <2> QED BY <1>1, <1>2, <2>1, StaysSafeAt
<1>3. PICK x : x = job[s].row.m
  OBVIOUS
<1>4. Unsafe' \subseteq Unsafe \union {x}
  BY <1>1, <1>2, <1>3, UnsafeGrows
<1>5. Reopening' \subseteq Reopening
  BY <1>1, ReopeningAt
<1> QED BY <1>1, <1>4, <1>5, OneLost

LEMMA HandlerLoss ==
  ASSUME BaseInv, LossInv, NEW s \in Slot, HandlerReturns(s) \/ HandlerSleeps(s) \/ HandlerThrows(s)
  PROVE  LossInv'
<1>1. /\ OnlySlot(s) /\ TypeOK /\ job[s].row.m \in Message /\ pc[s] = "running"
      /\ UNCHANGED <<sheet, job, client, sent, netErrors, faults>>
      /\ \A m \in Message : m # job[s].row.m => fate'[m] = fate[m]
  BY HandlerSlot DEF BaseInv
<1>2. \/ pc'[s] \in Carrying /\ fate'[job[s].row.m] = fate[job[s].row.m]
      \/ fate'[job[s].row.m] \in Over
  <2>1. \/ pc'[s] = "done" /\ fate'[job[s].row.m] = "done"
        \/ pc'[s] = "sleep" /\ UNCHANGED fate
        \/ /\ pc'[s] = IF TriesAgain(job[s].row) THEN "retry" ELSE "drop"
           /\ fate'[job[s].row.m] = IF TriesAgain(job[s].row) \/ fate[job[s].row.m] = "done"
                                    THEN fate[job[s].row.m] ELSE "dropped"
    BY HandlerSlot
  <2> QED BY <2>1 DEF Carrying, Over
<1>3. ASSUME NEW m \in Message, fate'[m] = "queued", ~Safe(m)' PROVE fate[m] = "queued" /\ ~Safe(m)
  <2>1. KeepsRows(m)
    BY <1>1 DEF KeepsRows
  <2>2. CASE m # job[s].row.m
    <3>1. KeepsSlot(s, m)
      BY <1>1, <2>2 DEF KeepsSlot, Carrying
    <3> QED BY <1>1, <1>3, <2>1, <2>2, <3>1, StaysSafeAt
  <2>3. CASE m = job[s].row.m
    <3>1. pc'[s] \in Carrying /\ job'[s].row.m = m
      BY <1>1, <1>2, <1>3, <2>3 DEF Over
    <3> QED BY <1>3, <3>1 DEF Safe
  <2> QED BY <2>2, <2>3
<1>4. Unsafe' \subseteq Unsafe \union {}
  BY <1>3, UnsafeGrows
<1>5. Reopening' \subseteq Reopening
  BY <1>1, ReopeningAt
<1> QED BY <1>1, <1>4, <1>5, NothingLost

\* The write at the end of a delivery, to its row or to another's.
LEMMA WriteLoss ==
  ASSUME BaseInv, LossInv, NEW s \in Slot, WrapperWrites(s) \/ WrapperWriteFails(s)
  PROVE  LossInv'
<1>1. /\ OnlySlot(s) /\ TypeOK /\ pc[s] \in Ending
      /\ UNCHANGED <<client, sent, fate, netErrors>>
      /\ \/ /\ Settle(s)
            /\ IF Still(sheet, job[s].at, job[s].row) THEN UNCHANGED faults ELSE faults' = faults + 1
         \/ /\ faults' = faults + 1
            /\ UNCHANGED sheet \/ (Still(sheet, job[s].at, job[s].row) /\ Settle(s))
  BY WriteSlot DEF BaseInv
<1>2. /\ job[s].at \in Nat \ {0} /\ job[s].row.m \in Message
      /\ Settle(s) => Spares(job[s].at)
  BY <1>1, Settles
<1>3. PICK own, x : own = job[s].row.m /\ x = Victim(job[s].at)
  <2>1. ASSUME NEW a, NEW b, a = job[s].row.m, b = Victim(job[s].at)
        PROVE  \E own, x : own = job[s].row.m /\ x = Victim(job[s].at)
    BY <2>1
  <2> QED BY <2>1, Zenon
<1>4. Still(sheet, job[s].at, job[s].row) => x = own
  BY <1>1, <1>2, <1>3, VictimOf
<1>5. ASSUME NEW m \in Message, m # own, UNCHANGED sheet \/ (Settle(s) /\ m # x), ~Safe(m)'
      PROVE  ~Safe(m)
  <2>1. KeepsRows(m)
    <3>1. CASE UNCHANGED sheet
      BY <3>1 DEF KeepsRows
    <3>2. CASE Settle(s) /\ m # x
      BY <1>1, <1>2, <1>3, <3>2, VictimOf
    <3> QED BY <1>5, <3>1, <3>2
  <2>2. KeepsSlot(s, m)
    BY <1>1, <1>3, <1>5 DEF KeepsSlot, Carrying, Ending
  <2> QED BY <1>1, <1>5, <2>1, <2>2, StaysSafeAt
<1>6. ASSUME Settle(s), fate[own] = "queued" PROVE Safe(own)'
  <2>1. pc[s] \notin {"done", "drop"}
    BY <1>3, <1>6 DEF BaseInv, SlotInv, Over
  <2>2. PICK row \in Row : Update(job[s].at, row) /\ row.m = own /\ ~row.claimed
    BY <1>1, <1>3, <1>6, <2>1, Settles
  <2>3. job[s].at \in DOMAIN sheet' /\ sheet'[job[s].at] = row
    <3>1. PICK n \in Nat \ {0} : n = job[s].at
      BY <1>2
    <3> QED BY <1>1, <2>2, <3>1, Updates
  <2> QED BY <2>2, <2>3, WrittenSafe
<1>7. Reopening' \subseteq Reopening
  BY <1>1, ReopeningAt
<1>8. CASE UNCHANGED sheet /\ faults' = faults + 1
  <2>1. Unsafe' \subseteq Unsafe \union {own}
    BY <1>1, <1>5, <1>8, UnsafeGrows
  <2> QED BY <1>1, <1>7, <1>8, <2>1, OneLost
<1>9. CASE Settle(s) /\ Still(sheet, job[s].at, job[s].row)
  <2>1. Unsafe' \subseteq Unsafe \union {}
    BY <1>1, <1>4, <1>5, <1>6, <1>9, UnsafeGrows
  <2> QED BY <1>1, <1>7, <1>9, <2>1, NothingLost
<1>10. CASE Settle(s) /\ ~Still(sheet, job[s].at, job[s].row) /\ faults' = faults + 1
  <2>1. \A m \in Message : m \notin {x} /\ fate'[m] = "queued" /\ ~Safe(m)' => fate[m] = "queued" /\ ~Safe(m)
    BY <1>1, <1>5, <1>6, <1>10
  <2>2. Unsafe' \subseteq Unsafe \union {x}
    BY <2>1, UnsafeGrows
  <2> QED BY <1>1, <1>7, <1>10, <2>2, OneLost
<1> QED BY <1>1, <1>8, <1>9, <1>10

LEMMA ResponseLoss ==
  ASSUME BaseInv, LossInv, NEW s \in Slot, Response(s)
  PROVE  LossInv'
<1>1. /\ OnlySlot(s) /\ TypeOK /\ client[s] = "open" /\ client'[s] = "none"
      /\ UNCHANGED <<sheet, pc, job, fate, netErrors, faults>>
  <2>1. /\ OnlySlot(s) /\ client'[s] = "none" /\ UNCHANGED <<pc, job, fate>>
    BY ClientSlot DEF ClientStep
  <2> QED BY <2>1 DEF BaseInv, Response, bounds
<1>2. ASSUME NEW m \in Message, ~Safe(m)' PROVE ~Safe(m)
  <2>1. KeepsRows(m) /\ KeepsSlot(s, m)
    BY <1>1 DEF KeepsRows, KeepsSlot
  <2> QED BY <1>1, <1>2, <2>1, StaysSafeAt
<1>3. Unsafe' \subseteq Unsafe \union {}
  BY <1>1, <1>2, UnsafeGrows
<1>4. Reopening' \subseteq Reopening
  BY <1>1, ReopeningAt
<1> QED BY <1>1, <1>3, <1>4, NothingLost

\* A catch block gives its job back, by a write to its row or to another's.
LEMMA ReopenLoss ==
  ASSUME BaseInv, LossInv, NEW s \in Slot, Reopen(s)
  PROVE  LossInv'
<1>1. /\ OnlySlot(s) /\ TypeOK /\ client[s] = "reopen" /\ client'[s] = "none"
      /\ UNCHANGED <<pc, job, fate, netErrors>>
      /\ sent[s].at \in Nat \ {0} /\ sent[s].row \in Row
      /\ Update(sent[s].at, NextTry(sent[s].row))
      /\ IF Still(sheet, sent[s].at, sent[s].row) THEN UNCHANGED faults ELSE faults' = faults + 1
  <2>1. client[s] = "reopen"
    BY DEF Reopen
  <2>2. /\ OnlySlot(s) /\ client'[s] = "none" /\ UNCHANGED <<pc, job, fate>>
    BY ClientSlot DEF ClientStep
  <2>3. sent[s].at \in Nat \ {0} /\ sent[s].row \in Row /\ TypeOK
    BY DEF BaseInv, TypeOK, Read
  <2> QED BY <2>1, <2>2, <2>3 DEF Reopen, FaultIf, OneFault
<1>2. PICK at \in Nat \ {0} : at = sent[s].at
  BY <1>1
<1>3. NextTry(sent[s].row) \in Row /\ NextTry(sent[s].row).m = sent[s].row.m
      /\ ~NextTry(sent[s].row).claimed
  BY <1>1, Rows
<1>4. Spares(at) /\ at \in DOMAIN sheet' /\ sheet'[at] = NextTry(sent[s].row)
  BY <1>1, <1>2, <1>3, Updates
<1>5. PICK own, x : own = sent[s].row.m /\ x = Victim(at)
  <2>1. ASSUME NEW a, NEW b, a = sent[s].row.m, b = Victim(at)
        PROVE  \E own, x : own = sent[s].row.m /\ x = Victim(at)
    BY <2>1
  <2> QED BY <2>1, Zenon
<1>6. Still(sheet, at, sent[s].row) => x = own
  BY <1>1, <1>5, VictimOf
<1>7. Safe(own)'
  BY <1>3, <1>4, <1>5, WrittenSafe
<1>8. ASSUME NEW m \in Message, m # x, ~Safe(m)' PROVE ~Safe(m)
  <2>1. KeepsRows(m)
    BY <1>1, <1>4, <1>5, <1>8, VictimOf
  <2>2. m # own
    BY <1>7, <1>8
  <2>3. KeepsSlot(s, m)
    BY <1>1, <1>5, <2>2 DEF KeepsSlot
  <2> QED BY <1>1, <1>8, <2>1, <2>3, StaysSafeAt
<1>9. Reopening' \subseteq Reopening
  BY <1>1, ReopeningAt
<1>10. CASE Still(sheet, at, sent[s].row)
  <2>1. Unsafe' \subseteq Unsafe \union {}
    BY <1>1, <1>6, <1>7, <1>8, <1>10, UnsafeGrows
  <2> QED BY <1>1, <1>2, <1>9, <1>10, <2>1, NothingLost
<1>11. CASE ~Still(sheet, at, sent[s].row)
  <2>1. Unsafe' \subseteq Unsafe \union {x}
    BY <1>1, <1>8, UnsafeGrows
  <2> QED BY <1>1, <1>2, <1>9, <1>11, <2>1, OneLost
<1> QED BY <1>10, <1>11

LEMMA ReopenFailsLoss ==
  ASSUME BaseInv, LossInv, NEW s \in Slot, ReopenFails(s)
  PROVE  LossInv'
<1>1. /\ OnlySlot(s) /\ TypeOK /\ client[s] = "reopen" /\ client'[s] = "none"
      /\ UNCHANGED <<sheet, pc, job, fate>>
      /\ IF netErrors > 0 THEN netErrors' = netErrors - 1 /\ faults' = faults + 1
         ELSE UNCHANGED <<netErrors, faults>>
  <2>1. /\ OnlySlot(s) /\ client'[s] = "none" /\ UNCHANGED <<pc, job, fate>>
    BY ClientSlot
  <2> QED BY <2>1 DEF BaseInv, ReopenFails
<1>2. PICK x : x = sent[s].row.m
  OBVIOUS
<1>3. ASSUME NEW m \in Message, m # x, ~Safe(m)' PROVE ~Safe(m)
  <2>1. KeepsRows(m) /\ KeepsSlot(s, m)
    BY <1>1, <1>2, <1>3 DEF KeepsRows, KeepsSlot
  <2> QED BY <1>1, <1>3, <2>1, StaysSafeAt
<1>4. Unsafe' \subseteq Unsafe \union {x}
  BY <1>1, <1>3, UnsafeGrows
<1>5. s \in Reopening /\ Reopening' \subseteq Reopening \ {s}
  BY <1>1, ReopeningAt DEF Reopening
<1> QED BY <1>1, <1>4, <1>5, OneGivenUp

LEMMA NetErrorLoss ==
  ASSUME BaseInv, LossInv, NEW s \in Slot, NetError(s)
  PROVE  LossInv'
<1>1. /\ OnlySlot(s) /\ TypeOK /\ SlotInv(s) /\ client[s] = "open" /\ client'[s] = "reopen"
      /\ UNCHANGED <<sheet, sent, fate, faults>> /\ netErrors' = netErrors + 1
      /\ UNCHANGED <<pc, job>> \/ pc[s] = "sent"
  BY NetErrorSlot DEF BaseInv
<1>2. ASSUME NEW m \in Message, ~Safe(m)' PROVE ~Safe(m)
  <2>1. m # sent[s].row.m
    BY <1>1, <1>2 DEF Safe
  <2>2. KeepsRows(m) /\ KeepsSlot(s, m)
    BY <1>1, <2>1 DEF KeepsRows, KeepsSlot, SlotInv
  <2> QED BY <1>1, <1>2, <2>2, StaysSafeAt
<1>3. Unsafe' \subseteq Unsafe \union {}
  BY <1>1, <1>2, UnsafeGrows
<1>4. Reopening' \subseteq Reopening \union {s}
  BY <1>1, ReopeningAt
<1> QED BY <1>1, <1>3, <1>4, OneReopening

LEMMA ImageBound ==
  ASSUME NEW S, IsFiniteSet(S), NEW f
  PROVE  /\ IsFiniteSet({f[x] : x \in S}) /\ Cardinality({f[x] : x \in S}) \in Nat
         /\ Cardinality({f[x] : x \in S}) <= Cardinality(S)
<1> DEFINE T == {f[x] : x \in S}
           g == [x \in S |-> f[x]]
<1>1. g \in Surjection(S, T)
  BY DEF Surjection
<1> QED BY <1>1, FS_Surjection, FS_CardinalityType

LEMMA UnionBound ==
  ASSUME NEW S, NEW T, IsFiniteSet(S), IsFiniteSet(T), NEW U, U \subseteq S \union T
  PROVE  /\ IsFiniteSet(U) /\ Cardinality(U) \in Nat
         /\ Cardinality(S) \in Nat /\ Cardinality(T) \in Nat
         /\ Cardinality(U) <= Cardinality(S) + Cardinality(T)
<1>1. /\ IsFiniteSet(S \union T) /\ IsFiniteSet(S \intersect T)
      /\ Cardinality(S \union T) = Cardinality(S) + Cardinality(T) - Cardinality(S \intersect T)
  BY FS_Union, FS_Intersection
<1>2. /\ Cardinality(S) \in Nat /\ Cardinality(T) \in Nat
      /\ Cardinality(S \union T) \in Nat /\ Cardinality(S \intersect T) \in Nat
  BY <1>1, FS_CardinalityType
<1>3. U \in SUBSET (S \union T)
  OBVIOUS
<1>4. IsFiniteSet(U) /\ Cardinality(U) <= Cardinality(S \union T)
  BY <1>1, <1>3, FS_Subset
<1>5. Cardinality(U) \in Nat
  BY <1>4, FS_CardinalityType
<1> QED BY <1>1, <1>2, <1>4, <1>5

LEMMA PartBound ==
  ASSUME NEW X, IsFiniteSet(X), NEW E, E \subseteq X
  PROVE  /\ IsFiniteSet(E) /\ IsFiniteSet(X \ E)
         /\ Cardinality(E) \in Nat /\ Cardinality(X \ E) \in Nat
         /\ Cardinality(X \ E) + Cardinality(E) = Cardinality(X)
<1>1. /\ IsFiniteSet(X \ E)
      /\ Cardinality(X \ E) = Cardinality(X) - Cardinality(X \intersect E)
  BY FS_Difference
<1>2. X \intersect E = E /\ E \in SUBSET X
  OBVIOUS
<1>3. IsFiniteSet(E)
  BY <1>2, FS_Subset
<1>4. Cardinality(E) \in Nat /\ Cardinality(X \ E) \in Nat /\ Cardinality(X) \in Nat
  BY <1>1, <1>3, FS_CardinalityType
<1> QED BY <1>1, <1>2, <1>3, <1>4

\* The two sides of a slot are about one job: cutting off one or both of them
\* loses no other, and a fetch that fails for it is going to write it back.
LEMMA CutLoss ==
  ASSUME BaseInv, LossInv, NEW H \in SUBSET Host, NEW D \in SUBSET Slot, NEW W \in SUBSET Slot,
         NEW E \in SUBSET (W \ D), CutOff(H, D, W, E)
  PROVE  LossInv'
<1> DEFINE X == D \union W
           of == [s \in Slot |-> IF pc[s] # "idle" THEN job[s].row.m ELSE sent[s].row.m]
           Of == {of[s] : s \in X \ E}
<1>1. /\ UNCHANGED <<sheet, fate, netErrors>> /\ \A s \in Slot : SlotInv(s)
      /\ \A s \in Slot \ X : /\ pc'[s] = pc[s] /\ job'[s] = job[s]
                             /\ client'[s] = client[s] /\ sent'[s] = sent[s]
      /\ \A s \in E : /\ pc[s] # "idle" /\ client[s] = "open" /\ client'[s] = "reopen"
                      /\ sent'[s] = sent[s]
      /\ \A s \in Slot \ E : client'[s] = "reopen" => client[s] = "reopen"
  <2>1. UNCHANGED <<sheet, fate, netErrors>> /\ \A s \in Slot : SlotInv(s)
    BY CutSlots DEF BaseInv
  <2>2. ASSUME NEW s \in Slot, s \notin X
        PROVE  /\ pc'[s] = pc[s] /\ job'[s] = job[s] /\ client'[s] = client[s] /\ sent'[s] = sent[s]
    BY <2>2, CutSlots
  <2>3. ASSUME NEW s \in E
        PROVE  /\ pc[s] # "idle" /\ client[s] = "open" /\ client'[s] = "reopen" /\ sent'[s] = sent[s]
    BY CutSlots
  <2>4. ASSUME NEW s \in Slot, s \notin E, client'[s] = "reopen" PROVE client[s] = "reopen"
    <3>1. IF s \in D THEN client'[s] = "none" ELSE client'[s] = client[s]
      BY <2>4 DEF CutOff
    <3> QED BY <2>4, <3>1
  <2> QED BY <2>1, <2>2, <2>3, <2>4
<1>2. IsFiniteSet(X) /\ Cardinality(X) \in Nat /\ faults \in Nat /\ faults' = faults + Cardinality(X)
  BY CutCounted
<1>3. E \subseteq X /\ X \subseteq Slot
  OBVIOUS
<1>4. ASSUME NEW m \in Message, m \notin Of, ~Safe(m)' PROVE ~Safe(m)
  <2>1. KeepsRows(m)
    BY <1>1 DEF KeepsRows
  <2>2. ASSUME NEW s \in Slot PROVE KeepsSlot(s, m)
    <3>1. CASE s \notin X
      BY <1>1, <3>1 DEF KeepsSlot
    <3>2. CASE s \in X
      <4>1. of[s] # m
        <5>1. CASE s \in E
          BY <1>1, <1>3, <1>4, <5>1 DEF Safe, SlotInv
        <5>2. CASE s \notin E
          BY <1>4, <3>2, <5>2
        <5> QED BY <5>1, <5>2
      <4>2. (pc[s] # "idle" => job[s].row.m # m) /\ (client[s] # "none" => sent[s].row.m # m)
        BY <1>1, <4>1 DEF SlotInv
      <4> QED BY <4>2 DEF KeepsSlot, Carrying
    <3> QED BY <3>1, <3>2
  <2> QED BY <1>4, <2>1, <2>2, StaysSafe
<1>5. Unsafe' \subseteq Unsafe \union Of
  BY <1>1, <1>4, UnsafeGrows
<1>6. Reopening' \subseteq Reopening \union E
  BY <1>1 DEF Reopening
<1> HIDE DEF X, of
<1>7. /\ IsFiniteSet(E) /\ IsFiniteSet(X \ E) /\ Cardinality(E) \in Nat /\ Cardinality(X \ E) \in Nat
      /\ Cardinality(X \ E) + Cardinality(E) = Cardinality(X)
  BY <1>2, <1>3, PartBound
<1>8. IsFiniteSet(Of) /\ Cardinality(Of) \in Nat /\ Cardinality(Of) <= Cardinality(X \ E)
  BY <1>7, ImageBound
<1> HIDE DEF Of
<1>9. /\ IsFiniteSet(Unsafe) /\ IsFiniteSet(Reopening) /\ Cardinality(Unsafe) <= faults
      /\ Cardinality(Unsafe) + Cardinality(Reopening) <= faults + netErrors /\ netErrors \in Nat
  BY DEF LossInv, BaseInv, TypeOK
<1>10. /\ IsFiniteSet(Unsafe') /\ Cardinality(Unsafe') \in Nat /\ Cardinality(Unsafe) \in Nat
       /\ Cardinality(Unsafe') <= Cardinality(Unsafe) + Cardinality(Of)
  BY <1>5, <1>8, <1>9, UnionBound
<1>11. /\ IsFiniteSet(Reopening') /\ Cardinality(Reopening') \in Nat /\ Cardinality(Reopening) \in Nat
       /\ Cardinality(Reopening') <= Cardinality(Reopening) + Cardinality(E)
  BY <1>6, <1>7, <1>9, UnionBound
<1>12. /\ Cardinality(Unsafe') <= faults'
       /\ Cardinality(Unsafe') + Cardinality(Reopening') <= faults' + netErrors'
  BY <1>1, <1>2, <1>7, <1>8, <1>9, <1>10, <1>11
<1> QED BY <1>10, <1>11, <1>12, Zenon DEF LossInv

LEMMA ClaimFailsLoss ==
  ASSUME BaseInv, LossInv, NEW h \in Host, NEW j \in batch[h], ClaimFails(h, j)
  PROVE  LossInv'
<1>1. /\ TypeOK /\ UNCHANGED <<slots, fate, netErrors>> /\ faults' = faults + 1
      /\ j.row \in Row /\ j.at \in Nat \ {0}
      /\ UNCHANGED sheet \/ (Still(sheet, j.at, j.row) /\ Update(j.at, Claimed(j.row)))
  BY ClaimFailsBase DEF BaseInv
<1>2. UNCHANGED <<client, sent, pc, job>>
  BY <1>1 DEF slots
<1>3. PICK x : x = j.row.m
  OBVIOUS
<1>4. ASSUME NEW m \in Message, m # x, ~Safe(m)' PROVE ~Safe(m)
  <2>1. KeepsRows(m)
    <3>1. CASE UNCHANGED sheet
      BY <3>1 DEF KeepsRows
    <3>2. CASE Still(sheet, j.at, j.row) /\ Update(j.at, Claimed(j.row))
      <4>1. Claimed(j.row) \in Row
        BY <1>1, Rows
      <4>2. Spares(j.at)
        BY <1>1, <3>2, <4>1, Updates
      <4>3. Victim(j.at) = x
        BY <1>1, <1>3, <3>2, VictimOf
      <4> QED BY <1>1, <1>4, <4>2, <4>3, VictimOf
    <3> QED BY <1>1, <3>1, <3>2
  <2>2. \A s \in Slot : KeepsSlot(s, m)
    BY <1>2 DEF KeepsSlot
  <2> QED BY <1>4, <2>1, <2>2, StaysSafe
<1>5. Unsafe' \subseteq Unsafe \union {x}
  BY <1>1, <1>4, UnsafeGrows
<1>6. Reopening' \subseteq Reopening
  BY <1>2 DEF Reopening
<1> QED BY <1>1, <1>5, <1>6, OneLost

LEMMA EnqueueLoss ==
  ASSUME BaseInv, LossInv, NEW m \in Message, Enqueue(m)
  PROVE  LossInv'
<1> DEFINE row == [m |-> m, attempt |-> 1, claimed |-> FALSE]
<1>1. /\ TypeOK /\ fate' = [fate EXCEPT ![m] = "queued"] /\ sheet' = Append(sheet, row)
      /\ UNCHANGED <<client, sent, pc, job, netErrors, faults>>
  BY DEF BaseInv, Enqueue, slots, bounds
<1>2. /\ Len(sheet) + 1 \in DOMAIN sheet' /\ sheet'[Len(sheet) + 1] = row
      /\ \A k \in DOMAIN sheet : k \in DOMAIN sheet' /\ sheet'[k] = sheet[k]
  <2>1. sheet \in Seq(Row) /\ row \in Row
    BY <1>1 DEF TypeOK, Row
  <2> HIDE DEF row
  <2> QED BY <1>1, <2>1
<1>3. Safe(m)'
  BY <1>2 DEF Safe
<1>4. ASSUME NEW n \in Message, fate'[n] = "queued", ~Safe(n)' PROVE fate[n] = "queued" /\ ~Safe(n)
  <2>1. n # m /\ fate'[n] = fate[n]
    BY <1>1, <1>3, <1>4 DEF TypeOK
  <2>2. KeepsRows(n) /\ \A s \in Slot : KeepsSlot(s, n)
    BY <1>1, <1>2 DEF KeepsRows, KeepsSlot
  <2> QED BY <1>4, <2>1, <2>2, StaysSafe
<1>5. Unsafe' \subseteq Unsafe \union {}
  BY <1>4, UnsafeGrows
<1>6. Reopening' \subseteq Reopening
  BY <1>1 DEF Reopening
<1> QED BY <1>1, <1>5, <1>6, NothingLost

LEMMA LossStep == BaseInv /\ LossInv /\ [Next]_vars => LossInv'
<1> SUFFICES ASSUME BaseInv, LossInv, [Next]_vars PROVE LossInv'
  OBVIOUS
<1>1. ASSUME UNCHANGED <<sheet, slots, fate, netErrors, faults>> PROVE LossInv'
  <2>1. UNCHANGED <<client, sent, pc, job>>
    BY <1>1 DEF slots
  <2>2. \A m \in Message : Safe(m)' <=> Safe(m)
    BY <1>1, <2>1 DEF Safe
  <2>3. Unsafe' \subseteq Unsafe /\ Reopening' \subseteq Reopening
    BY <1>1, <2>1, <2>2 DEF Unsafe, Reopening
  <2> QED BY <1>1, <2>3, NothingLost DEF BaseInv
<1>2. CASE UNCHANGED vars
  BY <1>1, <1>2 DEF vars, ghost, bounds
<1>3. ASSUME NEW h \in Host, NEW due \in SUBSET Range(readSchedule), DrainReads(h, due) PROVE LossInv'
  BY <1>1, <1>3 DEF DrainReads, ghost, bounds
<1>4. ASSUME NEW s \in Slot, WrapperStep(s) \/ ClientStep(s) PROVE LossInv'
  BY <1>4, ArriveLoss, HandlerLoss, WriteLoss, ResponseLoss, ReopenLoss DEF WrapperStep, ClientStep
<1>5. ASSUME NEW H \in SUBSET Host, NEW D \in SUBSET Slot, NEW W \in SUBSET Slot,
             NEW E \in SUBSET (W \ D), CutOff(H, D, W, E)
      PROVE  LossInv'
  BY <1>5, CutLoss
<1> QED BY <1>2, <1>3, <1>4, <1>5, EnqueueLoss, ClaimLoss, ClaimFailsLoss, WriteLoss, RefuseLoss,
        NetErrorLoss, ReopenFailsLoss DEF Next

LEMMA LossInitially == Init => LossInv
<1> SUFFICES ASSUME Init PROVE LossInv
  OBVIOUS
<1>1. Unsafe = {} /\ Reopening = {}
  BY DEF Init, Unsafe, Reopening
<1>2. IsFiniteSet({}) /\ Cardinality({}) = 0
  BY FS_EmptySet
<1> QED BY <1>1, <1>2 DEF Init, LossInv

LEMMA LostIsUnsafe == Lost \subseteq Unsafe
BY DEF Lost, Unsafe, Safe, AtWork, Open, Carrying

\* A fault is the end of one job at most: a write that fails or hits the row of
\* another job, a request refused, a fetch cut off by a process that dies (one
\* fault for each).  What such a fault leaves behind, rows and requests that are
\* stray, takes no job with it.
THEOREM OneLoss == Spec => []OneLossPerFault
<1>1. BaseInv /\ LossInv => OneLossPerFault
  <2> SUFFICES ASSUME BaseInv, LossInv PROVE OneLossPerFault
    OBVIOUS
  <2>1. /\ Cardinality(Lost) <= Cardinality(Unsafe)
        /\ Cardinality(Lost) \in Nat /\ Cardinality(Unsafe) \in Nat
    BY LostIsUnsafe, NoMore DEF LossInv
  <2>2. Cardinality(Unsafe) <= faults /\ faults \in Nat
    BY DEF LossInv, BaseInv, TypeOK
  <2>3. Cardinality(Lost) <= faults
    BY <2>1, <2>2
  <2> QED BY <2>3 DEF OneLossPerFault
<1> QED BY <1>1, BaseInitially, BaseStep, LossInitially, LossStep, PTL DEF Spec

----------------------------------------------------------------------------
(* The rows of a job while nothing fails.                                  *)

InSheet(row) == \E n \in DOMAIN sheet : sheet[n] = row

\* What a wrapper invocation knows of its job.
SlotAccount(s) ==
  LET j == job[s].row IN
  /\ client[s] # "reopen"
  /\ pc[s] # "idle" => InSheet(j) /\ j.claimed /\ j.m \in Message
  /\ pc[s] \in {"sent", "running", "sleep"} => fate[j.m] = "queued" /\ j.attempt = fails[j.m] + 1
  /\ pc[s] = "retry" => fate[j.m] = "queued" /\ j.attempt = fails[j.m] /\ TriesAgain(j)
  /\ pc[s] = "done" => fate[j.m] = "done"
  /\ pc[s] = "drop" => fate[j.m] = "dropped"

\* A row that nobody has claimed is a job to be done.
RowAccount(row) ==
  /\ row.m \in Message /\ fate[row.m] # "new"
  /\ ~row.claimed => /\ fate[row.m] = "queued" /\ row.attempt = fails[row.m] + 1
                     /\ \A s \in Slot : pc[s] # "idle" => job[s].row.m # row.m

Accounted ==
  /\ \A s \in Slot : SlotAccount(s)
  /\ \A row \in Row : InSheet(row) => RowAccount(row)
  /\ \A n, k \in DOMAIN sheet : sheet[n].m = sheet[k].m => n = k
  /\ \A s, t \in Slot : pc[s] # "idle" /\ pc[t] # "idle" /\ s # t => job[s].row.m # job[t].row.m
  /\ \A m \in Message : /\ fate[m] = "new" => fails[m] = 0
                        /\ fate[m] = "queued" => fails[m] < MaxAttempts

AccountInv == Calm => Accounted

LEMMA RowAccounts ==
  ASSUME TypeOK, Accounted, NEW k \in DOMAIN sheet
  PROVE  sheet[k] \in Row /\ InSheet(sheet[k]) /\ RowAccount(sheet[k]) /\ sheet[k].m \in Message
<1>1. sheet[k] \in Row
  BY ElementOfSeq DEF TypeOK
<1>2. InSheet(sheet[k])
  BY DEF InSheet
<1> QED BY <1>1, <1>2 DEF Accounted, RowAccount

\* The sum of the counters only grows, so that what is calm now has always been.
LEMMA CalmEver == BaseInv /\ [Next]_vars => (Calm' => Calm)
<1> SUFFICES ASSUME BaseInv, [Next]_vars, Calm' PROVE Calm
  OBVIOUS
<1>1. netErrors \in Nat /\ faults \in Nat /\ netErrors' = 0 /\ faults' = 0
  BY DEF BaseInv, TypeOK, Calm
<1> DEFINE Grow == \/ /\ faults' = faults \/ faults' = faults + 1
                      /\ netErrors' = netErrors \/ netErrors' = netErrors + 1 \/ faults' = faults + 1
                   \/ faults' >= faults /\ netErrors' = netErrors
<1>2. Grow
  <2>1. CASE UNCHANGED vars
    BY <2>1 DEF vars, bounds
  <2>2. ASSUME NEW s \in Slot, WrapperStep(s) \/ WrapperWriteFails(s) PROVE Grow
    <3>1. CASE Arrive(s)
      BY <3>1, ArriveSlot
    <3>2. CASE HandlerReturns(s) \/ HandlerSleeps(s) \/ HandlerThrows(s)
      BY <3>2, HandlerSlot
    <3>3. CASE WrapperWrites(s) \/ WrapperWriteFails(s)
      BY <3>3, WriteSlot
    <3> QED BY <2>2, <3>1, <3>2, <3>3 DEF WrapperStep
  <2>3. ASSUME NEW s \in Slot, ClientStep(s) \/ ReopenFails(s) PROVE Grow
    BY <2>3, ClientSlot
  <2>4. ASSUME NEW s \in Slot, Refuse(s) PROVE Grow
    BY <2>4, RefuseSlot
  <2>5. ASSUME NEW s \in Slot, NetError(s) PROVE Grow
    BY <2>5, NetErrorSlot
  <2>6. ASSUME NEW H \in SUBSET Host, NEW D \in SUBSET Slot, NEW W \in SUBSET Slot,
               NEW E \in SUBSET (W \ D), CutOff(H, D, W, E)
        PROVE  Grow
    <3>1. /\ Cardinality(D \union W) \in Nat /\ faults' = faults + Cardinality(D \union W)
      BY <2>6, CutCounted
    <3>2. netErrors' = netErrors
      BY <2>6, CutSlots
    <3> QED BY <1>1, <3>1, <3>2
  <2>7. ASSUME NEW h \in Host, NEW j \in batch[h], NEW s \in Slot, DrainClaims(h, j, s) PROVE Grow
    BY <2>7, ClaimSlot
  <2>8. ASSUME NEW h \in Host, NEW j \in batch[h], ClaimFails(h, j) PROVE Grow
    BY <2>8, ClaimFailsBase
  <2>9. ASSUME NEW h \in Host, NEW due \in SUBSET Range(readSchedule), DrainReads(h, due) PROVE Grow
    BY <2>9 DEF DrainReads, bounds
  <2>10. ASSUME NEW m \in Message, Enqueue(m) PROVE Grow
    BY <2>10 DEF Enqueue, bounds
  <2> QED BY <2>1, <2>2, <2>3, <2>4, <2>5, <2>6, <2>7, <2>8, <2>9, <2>10 DEF Next
<1>3. faults = 0 /\ faults' # faults + 1
  BY <1>1, <1>2
<1>4. netErrors = 0
  BY <1>1, <1>2, <1>3
<1> QED BY <1>3, <1>4 DEF Calm

\* A step that touches no rows but those of m, and leaves no row twice.
OnlyRows(m) ==
  /\ \A k \in DOMAIN sheet : sheet[k].m # m => \E i \in DOMAIN sheet' : sheet'[i] = sheet[k]
  /\ \A i \in DOMAIN sheet' : sheet'[i].m # m => \E k \in DOMAIN sheet : sheet[k] = sheet'[i]
  /\ \A i, k \in DOMAIN sheet' : sheet'[i].m = sheet'[k].m => i = k

LEMMA UpdatesRow ==
  ASSUME TypeOK, Accounted, NEW n \in Nat \ {0}, NEW old, Still(sheet, n, old),
         NEW row \in Row, row.m = old.m, Update(n, row)
  PROVE  /\ OnlyRows(old.m)
         /\ \A i \in DOMAIN sheet' : sheet'[i].m = old.m => sheet'[i] = row
         /\ \E i \in DOMAIN sheet' : sheet'[i] = row
<1>1. n \in DOMAIN sheet /\ sheet[n] = old
  <2>1. sheet \in Seq(Row)
    BY DEF TypeOK
  <2> QED BY <2>1 DEF Still
<1>2. /\ DOMAIN sheet' = DOMAIN sheet /\ sheet'[n] = row
      /\ \A k \in DOMAIN sheet : k # n => sheet'[k] = sheet[k]
  BY <1>1, Updates
<1>3. \A i, k \in DOMAIN sheet : sheet[i].m = sheet[k].m => i = k
  BY DEF Accounted
<1>4. \A k \in DOMAIN sheet : sheet'[k].m = sheet[k].m
  BY <1>1, <1>2
<1> QED BY <1>1, <1>2, <1>3, <1>4 DEF OnlyRows

LEMMA DeletesRow ==
  ASSUME TypeOK, Accounted, NEW n \in Nat \ {0}, NEW old, Still(sheet, n, old), Delete(n)
  PROVE  /\ OnlyRows(old.m)
         /\ \A i \in DOMAIN sheet' : sheet'[i].m # old.m
<1>1. n \in DOMAIN sheet /\ sheet[n] = old
  <2>1. sheet \in Seq(Row)
    BY DEF TypeOK
  <2> QED BY <2>1 DEF Still
<1>2. /\ Spares(n) /\ sheet' \in Seq(Row)
      /\ \A i \in DOMAIN sheet' : From(n, i) \in DOMAIN sheet \ {n} /\ sheet'[i] = sheet[From(n, i)]
  BY <1>1, Deletes
<1>3. \A i, k \in DOMAIN sheet : sheet[i].m = sheet[k].m => i = k
  BY DEF Accounted
<1>4. \A i, k \in DOMAIN sheet' : From(n, i) = From(n, k) => i = k
  <2>1. \A i \in DOMAIN sheet' : i \in Nat
    BY <1>2
  <2> QED BY <2>1 DEF From
<1>5. \A i \in DOMAIN sheet' : sheet'[i].m # old.m
  BY <1>1, <1>2, <1>3
<1>6. \A i, k \in DOMAIN sheet' : sheet'[i].m = sheet'[k].m => i = k
  BY <1>2, <1>3, <1>4
<1>7. \A k \in DOMAIN sheet : sheet[k].m # old.m => \E i \in DOMAIN sheet' : sheet'[i] = sheet[k]
  BY <1>1, <1>2, RowAccounts DEF Spares
<1>8. \A i \in DOMAIN sheet' : \E k \in DOMAIN sheet : sheet[k] = sheet'[i]
  BY <1>2
<1> QED BY <1>5, <1>6, <1>7, <1>8 DEF OnlyRows

\* A step of the one slot that is at work on m.
LEMMA AccountMoves ==
  ASSUME BaseInv, BaseInv', Accounted, NEW s \in Slot, OnlySlot(s), NEW m \in Message,
         pc[s] # "idle" => job[s].row.m = m, pc'[s] # "idle" => job'[s].row.m = m,
         \A t \in Slot : t # s /\ pc[t] # "idle" => job[t].row.m # m,
         \A n \in Message : n # m => fate'[n] = fate[n] /\ fails'[n] = fails[n],
         OnlyRows(m), \A row \in Row : row.m = m /\ InSheet(row)' => RowAccount(row)',
         SlotAccount(s)', fate'[m] # "new", fate'[m] = "queued" => fails'[m] < MaxAttempts
  PROVE  Accounted'
<1>1. \A t \in Slot : t # s => pc'[t] = pc[t] /\ job'[t] = job[t] /\ client'[t] = client[t]
  BY DEF OnlySlot
<1>2. ASSUME NEW t \in Slot, t # s PROVE SlotAccount(t)'
  <2>1. /\ SlotAccount(t) /\ pc'[t] = pc[t] /\ job'[t] = job[t] /\ client'[t] = client[t]
    BY <1>1, <1>2 DEF Accounted
  <2>2. CASE pc[t] = "idle"
    BY <2>1, <2>2 DEF SlotAccount
  <2>3. CASE pc[t] # "idle"
    <3>1. InSheet(job[t].row) /\ job[t].row.m \in Message /\ job[t].row.m # m
      BY <1>2, <2>1, <2>3 DEF SlotAccount
    <3>2. \E i \in DOMAIN sheet' : sheet'[i] = job'[t].row
      BY <2>1, <3>1 DEF InSheet, OnlyRows
    <3>3. fate'[job[t].row.m] = fate[job[t].row.m] /\ fails'[job[t].row.m] = fails[job[t].row.m]
      BY <3>1
    <3> QED BY <2>1, <3>1, <3>2, <3>3 DEF SlotAccount, InSheet, TriesAgain
  <2> QED BY <2>2, <2>3
<1>3. ASSUME NEW row \in Row, row.m # m, InSheet(row)' PROVE RowAccount(row)'
  <2>1. InSheet(row)
    BY <1>3 DEF OnlyRows, InSheet
  <2>2. RowAccount(row) /\ row.m \in Message
    BY <2>1 DEF Accounted, RowAccount
  <2>3. fate'[row.m] = fate[row.m] /\ fails'[row.m] = fails[row.m]
    BY <1>3, <2>2
  <2>4. \A t \in Slot : pc'[t] # "idle" /\ job'[t].row.m = row.m
          => pc[t] # "idle" /\ job[t].row.m = row.m
    BY <1>1, <1>3
  <2> QED BY <2>2, <2>3, <2>4 DEF RowAccount
<1>4. \A t, u \in Slot : pc'[t] # "idle" /\ pc'[u] # "idle" /\ t # u => job'[t].row.m # job'[u].row.m
  <2> SUFFICES ASSUME NEW t \in Slot, NEW u \in Slot, pc'[t] # "idle", pc'[u] # "idle", t # u
               PROVE  job'[t].row.m # job'[u].row.m
    OBVIOUS
  <2>1. CASE t # s /\ u # s
    BY <1>1, <2>1 DEF Accounted
  <2>2. CASE t = s \/ u = s
    BY <1>1, <2>2
  <2> QED BY <2>1, <2>2
<1>5. \A n \in Message : /\ fate'[n] = "new" => fails'[n] = 0
                         /\ fate'[n] = "queued" => fails'[n] < MaxAttempts
  BY DEF Accounted
<1>6. \A i, k \in DOMAIN sheet' : sheet'[i].m = sheet'[k].m => i = k
  BY DEF OnlyRows
<1> QED BY <1>2, <1>3, <1>4, <1>5, <1>6 DEF Accounted

\* A slot at work on a job, and its row.
LEMMA AtWorkOn ==
  ASSUME BaseInv, Accounted, NEW s \in Slot, pc[s] # "idle"
  PROVE  /\ job[s].row \in Row /\ job[s].row.m \in Message /\ SlotAccount(s)
         /\ \A row \in Row : InSheet(row) /\ row.m = job[s].row.m => row = job[s].row
         /\ \A t \in Slot : t # s /\ pc[t] # "idle" => job[t].row.m # job[s].row.m
<1>1. job[s].row \in Row /\ SlotAccount(s) /\ InSheet(job[s].row) /\ job[s].row.m \in Message
  BY DEF BaseInv, TypeOK, Read, Accounted, SlotAccount
<1>2. \A row \in Row : InSheet(row) /\ row.m = job[s].row.m => row = job[s].row
  BY <1>1 DEF InSheet, Accounted
<1> QED BY <1>1, <1>2 DEF Accounted

\* The rows of a job that is being worked on stay claimed.
LEMMA AccountStays ==
  ASSUME BaseInv, BaseInv', Accounted, NEW s \in Slot, OnlySlot(s), pc[s] # "idle",
         UNCHANGED sheet, pc'[s] # "idle" => job'[s].row.m = job[s].row.m,
         \A n \in Message : n # job[s].row.m => fate'[n] = fate[n] /\ fails'[n] = fails[n],
         SlotAccount(s)', fate'[job[s].row.m] # "new",
         fate'[job[s].row.m] = "queued" => fails'[job[s].row.m] < MaxAttempts
  PROVE  Accounted'
<1>1. /\ job[s].row \in Row /\ job[s].row.m \in Message /\ job[s].row.claimed
      /\ \A row \in Row : InSheet(row) /\ row.m = job[s].row.m => row = job[s].row
      /\ \A t \in Slot : t # s /\ pc[t] # "idle" => job[t].row.m # job[s].row.m
  BY AtWorkOn DEF SlotAccount
<1>2. PICK m \in Message : m = job[s].row.m
  BY <1>1
<1>3. OnlyRows(m)
  BY DEF OnlyRows, Accounted
<1>4. ASSUME NEW row \in Row, row.m = m, InSheet(row)' PROVE RowAccount(row)'
  <2>1. InSheet(row)
    BY <1>4 DEF InSheet
  <2>2. row.claimed
    BY <1>1, <1>2, <1>4, <2>1
  <2> QED BY <1>2, <1>4, <2>2 DEF RowAccount
<1> QED BY <1>1, <1>2, <1>3, <1>4, AccountMoves

LEMMA ClaimAccount ==
  ASSUME BaseInv, BaseInv', Accounted, NEW h \in Host, NEW j \in batch[h], NEW s \in Slot,
         DrainClaims(h, j, s), UNCHANGED faults
  PROVE  Accounted'
<1>1. /\ OnlySlot(s) /\ UNCHANGED <<fate, fails>> /\ TypeOK /\ faults \in Nat
      /\ j.row \in Row /\ j.at \in Nat \ {0} /\ ~j.row.claimed
      /\ Update(j.at, Claimed(j.row))
      /\ IF Still(sheet, j.at, j.row) THEN UNCHANGED faults ELSE faults' = faults + 1
      /\ pc[s] = "idle" /\ pc'[s] = "sent" /\ client'[s] = "open"
      /\ job'[s].row = Claimed(j.row)
  <2>1. TypeOK /\ faults \in Nat
    BY DEF BaseInv, TypeOK
  <2> QED BY <2>1, ClaimSlot
<1>2. Still(sheet, j.at, j.row)
  BY <1>1
<1>3. /\ Claimed(j.row) \in Row /\ Claimed(j.row).m = j.row.m /\ Claimed(j.row).claimed
      /\ Claimed(j.row).attempt = j.row.attempt
  BY <1>1, Rows
<1>4. RowAccount(j.row) /\ j.row.m \in Message
  <2>1. j.at \in DOMAIN sheet /\ sheet[j.at] = j.row
    <3>1. sheet \in Seq(Row)
      BY <1>1 DEF TypeOK
    <3> QED BY <1>1, <1>2, <3>1 DEF Still
  <2> QED BY <1>1, <2>1, RowAccounts
<1>5. PICK m \in Message, row \in Row : m = j.row.m /\ row = Claimed(j.row)
  BY <1>3, <1>4
<1>6. /\ OnlyRows(m)
      /\ \A i \in DOMAIN sheet' : sheet'[i].m = m => sheet'[i] = row
      /\ \E i \in DOMAIN sheet' : sheet'[i] = row
  BY <1>1, <1>2, <1>3, <1>5, UpdatesRow
<1>7. /\ fate[m] = "queued" /\ row.attempt = fails[m] + 1 /\ fails[m] < MaxAttempts
      /\ \A t \in Slot : pc[t] # "idle" => job[t].row.m # m
  BY <1>1, <1>3, <1>4, <1>5 DEF RowAccount, Accounted
<1>8. SlotAccount(s)'
  <2>1. InSheet(row)'
    BY <1>6 DEF InSheet
  <2>2. job'[s].row = row /\ row.m = m /\ row.claimed
    BY <1>1, <1>3, <1>5
  <2> QED BY <1>1, <1>7, <2>1, <2>2 DEF SlotAccount
<1>9. ASSUME NEW r \in Row, r.m = m, InSheet(r)' PROVE RowAccount(r)'
  <2>1. r = row
    BY <1>6, <1>9 DEF InSheet
  <2> QED BY <1>1, <1>3, <1>5, <1>7, <1>9, <2>1 DEF RowAccount
<1>10. job'[s].row.m = m
  BY <1>1, <1>3, <1>5
<1> QED BY <1>1, <1>6, <1>7, <1>8, <1>9, <1>10, AccountMoves

LEMMA ArriveAccount ==
  ASSUME BaseInv, BaseInv', Accounted, NEW s \in Slot, Arrive(s)
  PROVE  /\ Accounted'
         /\ pc'[s] = "running" => job'[s].row.m = job[s].row.m
<1>1. /\ OnlySlot(s) /\ pc[s] = "sent" /\ UNCHANGED <<sheet, client, fate, fails>>
      /\ \/ /\ pc'[s] = "running" /\ job'[s].row.m = job[s].row.m
            /\ job'[s].at \in DOMAIN sheet /\ sheet[job'[s].at] = job'[s].row
         \/ pc'[s] = "idle"
  BY ArriveSlot
<1>2. /\ job[s].row \in Row /\ job[s].row.m \in Message /\ SlotAccount(s)
      /\ \A row \in Row : InSheet(row) /\ row.m = job[s].row.m => row = job[s].row
      /\ fate[job[s].row.m] = "queued" /\ fails[job[s].row.m] < MaxAttempts
  BY <1>1, AtWorkOn DEF SlotAccount, Accounted
<1>3. SlotAccount(s)'
  <2>1. CASE pc'[s] = "idle"
    BY <1>1, <1>2, <2>1 DEF SlotAccount
  <2>2. CASE pc'[s] = "running"
    <3>1. InSheet(job'[s].row) /\ job'[s].row \in Row
      BY <1>1, <2>2 DEF InSheet, BaseInv, TypeOK, Read
    <3>2. job'[s].row = job[s].row
      BY <1>1, <1>2, <2>2, <3>1
    <3>3. InSheet(job[s].row)'
      BY <1>1, <3>1, <3>2 DEF InSheet
    <3> QED BY <1>1, <1>2, <2>2, <3>2, <3>3 DEF SlotAccount, InSheet
  <2> QED BY <1>1, <2>1, <2>2
<1> QED BY <1>1, <1>2, <1>3, AccountStays

LEMMA HandlerAccount ==
  ASSUME BaseInv, BaseInv', Accounted, NEW s \in Slot,
         HandlerReturns(s) \/ HandlerSleeps(s) \/ HandlerThrows(s)
  PROVE  Accounted'
<1>1. /\ OnlySlot(s) /\ pc[s] = "running" /\ UNCHANGED <<sheet, job, client>>
      /\ \A m \in Message : m # job[s].row.m => fate'[m] = fate[m] /\ fails'[m] = fails[m]
      /\ \/ pc'[s] = "done" /\ fate'[job[s].row.m] = "done" /\ fails' = fails
         \/ pc'[s] = "sleep" /\ UNCHANGED <<fate, fails>>
         \/ /\ pc'[s] = IF TriesAgain(job[s].row) THEN "retry" ELSE "drop"
            /\ fails'[job[s].row.m] = IF fails[job[s].row.m] < MaxAttempts
                                      THEN fails[job[s].row.m] + 1 ELSE fails[job[s].row.m]
            /\ fate'[job[s].row.m] = IF TriesAgain(job[s].row) \/ fate[job[s].row.m] = "done"
                                     THEN fate[job[s].row.m] ELSE "dropped"
  BY HandlerSlot
<1>2. /\ job[s].row \in Row /\ job[s].row.m \in Message /\ SlotAccount(s)
  BY <1>1, AtWorkOn
<1>3. PICK m \in Message, row \in Row : row = job[s].row /\ m = row.m
  BY <1>2
<1>4. /\ fate[m] = "queued" /\ row.attempt = fails[m] + 1 /\ client[s] # "reopen"
      /\ InSheet(row) /\ row.claimed
  BY <1>1, <1>2, <1>3 DEF SlotAccount
<1>5. fails[m] < MaxAttempts
  BY <1>4 DEF Accounted
<1>6. job'[s].row = row /\ client'[s] # "reopen" /\ InSheet(row)'
  BY <1>1, <1>3, <1>4 DEF InSheet
<1>7. fate'[m] # "new" /\ SlotAccount(s)' /\ (fate'[m] = "queued" => fails'[m] < MaxAttempts)
  <2>1. CASE pc'[s] = "done" /\ fate'[m] = "done"
    BY <1>3, <1>4, <1>6, <2>1 DEF SlotAccount
  <2>2. CASE pc'[s] = "sleep" /\ UNCHANGED <<fate, fails>>
    BY <1>3, <1>4, <1>5, <1>6, <2>2 DEF SlotAccount
  <2>3. CASE /\ pc'[s] = IF TriesAgain(row) THEN "retry" ELSE "drop"
             /\ fails'[m] = fails[m] + 1
             /\ fate'[m] = IF TriesAgain(row) THEN "queued" ELSE "dropped"
    <3>1. CASE TriesAgain(row)
      <4>1. row.attempt + 1 <= MaxAttempts /\ row.attempt = fails'[m]
        BY <1>4, <2>3, <3>1 DEF TriesAgain
      <4>2. fails'[m] < MaxAttempts
        <5>1. row.attempt \in Nat /\ MaxAttempts \in Nat
          BY SheetsQueueAssumption DEF Row
        <5> QED BY <4>1, <5>1
      <4>3. SlotAccount(s)'
        BY <1>3, <1>4, <1>6, <2>3, <3>1, <4>1 DEF SlotAccount, TriesAgain
      <4> QED BY <2>3, <3>1, <4>2, <4>3
    <3>2. CASE ~TriesAgain(row)
      BY <1>3, <1>4, <1>6, <2>3, <3>2 DEF SlotAccount
    <3> QED BY <3>1, <3>2
  <2> QED BY <1>1, <1>3, <1>4, <1>5, <2>1, <2>2, <2>3
<1> QED BY <1>1, <1>2, <1>3, <1>7, AccountStays

\* The write that ends a delivery: the row goes, or is a job to be done again.
LEMMA WriteAccount ==
  ASSUME BaseInv, BaseInv', Accounted, NEW s \in Slot, WrapperWrites(s), UNCHANGED faults
  PROVE  Accounted'
<1>1. /\ OnlySlot(s) /\ pc[s] \in Ending /\ pc'[s] = "idle" /\ TypeOK
      /\ UNCHANGED <<client, fate, fails>> /\ Settle(s)
      /\ Still(sheet, job[s].at, job[s].row)
  <2>1. TypeOK /\ faults \in Nat
    BY DEF BaseInv, TypeOK
  <2>2. /\ OnlySlot(s) /\ pc[s] \in Ending /\ pc'[s] = "idle"
        /\ UNCHANGED <<client, fate, fails>>
    BY WriteSlot
  <2>3. Settle(s) /\ FaultIf(~Still(sheet, job[s].at, job[s].row))
    BY DEF WrapperWrites
  <2>4. Still(sheet, job[s].at, job[s].row)
    BY <2>1, <2>3 DEF FaultIf, OneFault
  <2> QED BY <2>1, <2>2, <2>3, <2>4
<1>2. /\ job[s].row \in Row /\ job[s].row.m \in Message /\ SlotAccount(s)
      /\ \A t \in Slot : t # s /\ pc[t] # "idle" => job[t].row.m # job[s].row.m
  BY <1>1, AtWorkOn DEF Ending
<1>3. /\ job[s].at \in Nat \ {0}
      /\ IF pc[s] \in {"done", "drop"} THEN Delete(job[s].at)
         ELSE \E row \in Row : /\ Update(job[s].at, row)
                               /\ row.m = job[s].row.m /\ ~row.claimed
                               /\ row.attempt = IF pc[s] = "sleep" THEN job[s].row.attempt
                                                ELSE job[s].row.attempt + 1
  BY <1>1, Settles
<1>4. PICK m \in Message, old \in Row, n \in Nat \ {0} :
        old = job[s].row /\ m = old.m /\ n = job[s].at
  BY <1>2, <1>3
<1>5. /\ SlotAccount(s)' /\ fate'[m] = fate[m] /\ fails'[m] = fails[m]
      /\ fate[m] # "new" /\ (fate[m] = "queued" => fails[m] < MaxAttempts)
  BY <1>1, <1>2, <1>4 DEF SlotAccount, Accounted, Ending
<1>6. OnlyRows(m) /\ \A row \in Row : row.m = m /\ InSheet(row)' => RowAccount(row)'
  <2>1. CASE pc[s] \in {"done", "drop"}
    <3>1. OnlyRows(m) /\ \A i \in DOMAIN sheet' : sheet'[i].m # m
      BY <1>1, <1>3, <1>4, <2>1, DeletesRow
    <3> QED BY <3>1 DEF InSheet
  <2>2. CASE pc[s] \notin {"done", "drop"}
    <3>1. PICK new \in Row : /\ Update(n, new) /\ new.m = m /\ ~new.claimed
                             /\ new.attempt = IF pc[s] = "sleep" THEN old.attempt ELSE old.attempt + 1
      BY <1>3, <1>4, <2>2
    <3>2. OnlyRows(m) /\ \A i \in DOMAIN sheet' : sheet'[i].m = m => sheet'[i] = new
      BY <1>1, <1>4, <3>1, UpdatesRow
    <3>3. fate[m] = "queued" /\ new.attempt = fails[m] + 1
      BY <1>1, <1>2, <1>4, <2>2, <3>1 DEF SlotAccount, Ending
    <3>4. \A t \in Slot : pc'[t] # "idle" => job'[t].row.m # m
      BY <1>1, <1>2, <1>4 DEF OnlySlot
    <3>5. ASSUME NEW row \in Row, row.m = m, InSheet(row)' PROVE RowAccount(row)'
      <4>1. row = new
        BY <3>2, <3>5 DEF InSheet
      <4> QED BY <1>1, <3>1, <3>3, <3>4, <3>5, <4>1 DEF RowAccount
    <3> QED BY <3>2, <3>5
  <2> QED BY <2>1, <2>2
<1> QED BY <1>1, <1>2, <1>4, <1>5, <1>6, AccountMoves

LEMMA EnqueueAccount ==
  ASSUME BaseInv, BaseInv', Accounted, NEW m \in Message, Enqueue(m)
  PROVE  Accounted'
<1>1. /\ TypeOK /\ fate[m] = "new" /\ fate' = [fate EXCEPT ![m] = "queued"]
      /\ UNCHANGED <<client, pc, job, fails>>
      /\ sheet' = Append(sheet, [m |-> m, attempt |-> 1, claimed |-> FALSE])
  BY DEF BaseInv, Enqueue, slots
<1>2. PICK row \in Row : row = [m |-> m, attempt |-> 1, claimed |-> FALSE]
  BY DEF Row
<1>3. /\ sheet \in Seq(Row) /\ sheet' = Append(sheet, row) /\ Len(sheet) \in Nat
      /\ DOMAIN sheet = 1..Len(sheet) /\ DOMAIN sheet' = 1..Len(sheet) + 1
      /\ sheet'[Len(sheet) + 1] = row /\ \A k \in DOMAIN sheet : sheet'[k] = sheet[k]
  BY <1>1, <1>2 DEF TypeOK
<1>4. /\ \A k \in DOMAIN sheet : k \in DOMAIN sheet'
      /\ \A i \in DOMAIN sheet' : i \in DOMAIN sheet \/ sheet'[i] = row
  BY <1>3
<1>5. /\ row.m = m /\ row.attempt = 1 /\ ~row.claimed /\ fails[m] = 0
      /\ fate'[m] = "queued" /\ \A n \in Message : n # m => fate'[n] = fate[n]
  BY <1>1, <1>2 DEF Accounted, TypeOK
<1>6. /\ \A s \in Slot : pc[s] # "idle" => job[s].row.m # m
      /\ \A k \in DOMAIN sheet : sheet[k].m # m
  <2>1. ASSUME NEW s \in Slot, pc[s] # "idle", job[s].row.m = m PROVE FALSE
    <3>1. SlotAccount(s) /\ pc[s] \in Wrapper
      BY <1>1 DEF Accounted, TypeOK, Wrapper
    <3> QED BY <1>1, <2>1, <3>1 DEF SlotAccount, Wrapper
  <2>2. ASSUME NEW k \in DOMAIN sheet, sheet[k].m = m PROVE FALSE
    <3>1. RowAccount(sheet[k])
      BY <1>1, RowAccounts
    <3> QED BY <1>1, <2>2, <3>1 DEF RowAccount
  <2> QED BY <2>1, <2>2
<1>7. \A r \in Row : InSheet(r) => InSheet(r)'
  BY <1>3, <1>4 DEF InSheet
<1>8. ASSUME NEW s \in Slot PROVE SlotAccount(s)'
  <2>1. SlotAccount(s) /\ job[s].row \in Row
    BY <1>1 DEF Accounted, TypeOK, Read
  <2>2. CASE pc[s] = "idle"
    BY <1>1, <2>1, <2>2 DEF SlotAccount
  <2>3. CASE pc[s] # "idle"
    <3>1. InSheet(job[s].row) /\ job[s].row.m \in Message
      BY <2>1, <2>3 DEF SlotAccount
    <3>2. InSheet(job[s].row)'
      <4>1. \E i \in DOMAIN sheet' : sheet'[i] = job[s].row
        BY <1>3, <1>4, <3>1 DEF InSheet
      <4> QED BY <1>1, <4>1 DEF InSheet
    <3>3. fate'[job[s].row.m] = fate[job[s].row.m]
      BY <1>5, <1>6, <2>3, <3>1
    <3> QED BY <1>1, <2>1, <2>3, <3>2, <3>3 DEF SlotAccount, TriesAgain
  <2> QED BY <2>2, <2>3
<1>9. ASSUME NEW r \in Row, InSheet(r)' PROVE RowAccount(r)'
  <2>1. CASE r = row
    BY <1>1, <1>5, <1>6, <2>1 DEF RowAccount
  <2>2. CASE r # row
    <3>1. InSheet(r)
      BY <1>3, <1>4, <1>9, <2>2 DEF InSheet
    <3>2. RowAccount(r) /\ r.m \in Message /\ r.m # m
      BY <1>6, <3>1 DEF Accounted, RowAccount, InSheet
    <3> QED BY <1>1, <1>5, <3>2 DEF RowAccount
  <2> QED BY <2>1, <2>2
<1>10. \A i, k \in DOMAIN sheet' : sheet'[i].m = sheet'[k].m => i = k
  <2>1. \A i \in DOMAIN sheet' : i \in DOMAIN sheet \/ i = Len(sheet) + 1
    BY <1>3
  <2>2. \A i, k \in DOMAIN sheet : sheet[i].m = sheet[k].m => i = k
    BY DEF Accounted
  <2> QED BY <1>3, <1>5, <1>6, <2>1, <2>2
<1>11. \A s, t \in Slot : pc'[s] # "idle" /\ pc'[t] # "idle" /\ s # t => job'[s].row.m # job'[t].row.m
  BY <1>1 DEF Accounted
<1>12. \A n \in Message : /\ fate'[n] = "new" => fails'[n] = 0
                          /\ fate'[n] = "queued" => fails'[n] < MaxAttempts
  BY <1>1, <1>5, SheetsQueueAssumption DEF Accounted
<1> QED BY <1>8, <1>9, <1>10, <1>11, <1>12 DEF Accounted

\* Nothing but clients that stop waiting.
LEMMA AccountSame ==
  ASSUME Accounted, UNCHANGED <<sheet, pc, job, fate, fails>>,
         \A s \in Slot : client'[s] = client[s] \/ client'[s] = "none"
  PROVE  Accounted'
<1>1. \A s \in Slot : SlotAccount(s) => SlotAccount(s)'
  BY DEF SlotAccount, InSheet, TriesAgain
<1>2. \A row \in Row : InSheet(row)' => InSheet(row)
  BY DEF InSheet
<1>3. \A row \in Row : RowAccount(row) => RowAccount(row)'
  BY DEF RowAccount
<1> QED BY <1>1, <1>2, <1>3 DEF Accounted

\* What cannot happen as long as nothing fails.
LEMMA NothingFails ==
  ASSUME BaseInv, Accounted, Calm, Calm'
  PROVE  /\ netErrors = 0 /\ UNCHANGED <<netErrors, faults>>
         /\ \A h \in Host : \A j \in batch[h] : ~ClaimFails(h, j)
         /\ \A s \in Slot : /\ ~WrapperWriteFails(s) /\ ~Refuse(s) /\ ~NetError(s)
                            /\ ~Reopen(s) /\ ~ReopenFails(s)
<1>1. netErrors = 0 /\ faults = 0 /\ netErrors' = 0 /\ faults' = 0
  BY DEF Calm
<1>2. ~OneFault
  BY <1>1 DEF OneFault
<1>3. \A s \in Slot : client[s] # "reopen"
  BY DEF Accounted, SlotAccount
<1>4. netErrors' # netErrors + 1
  BY <1>1
<1> QED BY <1>1, <1>2, <1>3, <1>4
        DEF ClaimFails, WrapperWriteFails, Refuse, NetError, Reopen, ReopenFails

\* What is cut off while nothing is counted is at most a tick.
LEMMA NothingCut ==
  ASSUME BaseInv, NEW H \in SUBSET Host, NEW D \in SUBSET Slot, NEW W \in SUBSET Slot,
         NEW E \in SUBSET (W \ D), CutOff(H, D, W, E), Calm'
  PROVE  UNCHANGED <<sheet, client, sent, pc, job, fate, fails>>
<1>1. D \union W = {}
  <2>1. /\ IsFiniteSet(D \union W) /\ Cardinality(D \union W) \in Nat
        /\ faults \in Nat /\ faults' = faults + Cardinality(D \union W)
    BY CutCounted
  <2>2. Cardinality(D \union W) = 0
    BY <2>1 DEF Calm
  <2> QED BY <2>1, <2>2, FS_EmptySet
<1>2. UNCHANGED <<sheet, fate, fails>>
  BY CutSlots
<1>3. /\ client = [s \in Slot |-> client[s]] /\ sent = [s \in Slot |-> sent[s]]
      /\ pc = [s \in Slot |-> pc[s]] /\ job = [s \in Slot |-> job[s]]
  BY DEF BaseInv, TypeOK
<1>4. D = {} /\ W = {} /\ E = {}
  BY <1>1
<1>5. UNCHANGED <<client, sent, pc, job>>
  BY <1>3, <1>4 DEF CutOff
<1> QED BY <1>2, <1>5

LEMMA AccountStep == BaseInv /\ BaseInv' /\ AccountInv /\ [Next]_vars => AccountInv'
<1> SUFFICES ASSUME BaseInv, BaseInv', AccountInv, [Next]_vars, Calm' PROVE Accounted'
  BY DEF AccountInv
<1>1. Calm /\ Accounted
  BY CalmEver DEF AccountInv
<1>2. CASE UNCHANGED vars
  BY <1>1, <1>2, AccountSame DEF vars, slots, ghost
<1>3. ASSUME NEW s \in Slot, WrapperStep(s) PROVE Accounted'
  BY <1>1, <1>3, NothingFails, ArriveAccount, HandlerAccount, WriteAccount DEF WrapperStep
<1>4. ASSUME NEW s \in Slot, Response(s) PROVE Accounted'
  <2>1. OnlySlot(s) /\ client'[s] = "none" /\ UNCHANGED <<sheet, pc, job, fate, fails>>
    BY <1>4, ClientSlot DEF ClientStep, Response, ghost
  <2>2. \A t \in Slot : client'[t] = client[t] \/ client'[t] = "none"
    BY <2>1 DEF OnlySlot
  <2> QED BY <1>1, <2>1, <2>2, AccountSame
<1>5. ASSUME NEW h \in Host, NEW due \in SUBSET Range(readSchedule), DrainReads(h, due) PROVE Accounted'
  BY <1>1, <1>5, AccountSame DEF DrainReads, slots, ghost
<1>6. ASSUME NEW H \in SUBSET Host, NEW D \in SUBSET Slot, NEW W \in SUBSET Slot,
             NEW E \in SUBSET (W \ D), CutOff(H, D, W, E)
      PROVE  Accounted'
  <2>1. UNCHANGED <<sheet, client, sent, pc, job, fate, fails>>
    BY <1>6, NothingCut
  <2> QED BY <1>1, <2>1, AccountSame
<1> QED BY <1>1, <1>2, <1>3, <1>4, <1>5, <1>6, NothingFails, ClaimAccount, EnqueueAccount
        DEF Next, ClientStep

LEMMA AccountInitially == Init => AccountInv
<1> SUFFICES ASSUME Init PROVE Accounted
  BY DEF AccountInv
<1>1. DOMAIN sheet = {}
  BY DEF Init
<1> QED BY <1>1, SheetsQueueAssumption DEF Init, Accounted, SlotAccount, InSheet

----------------------------------------------------------------------------
(* The abstract queue.                                                     *)

Holds(s, m) == pc[s] \in Carrying /\ job[s].row.m = m

\* What AbsState comes to while nobody shares a job and none is lost.
Place(m) ==
  IF fate[m] # "queued" THEN fate[m]
  ELSE IF \E s \in Slot : Holds(s, m) THEN "held" ELSE "ready"

Sound == BaseInv /\ Accounted /\ Lost = {}

LEMMA Placed == Sound => \A m \in Message : AbsState(m) = Place(m)
<1> SUFFICES ASSUME Sound, NEW m \in Message PROVE AbsState(m) = Place(m)
  OBVIOUS
<1>1. \A s \in Slot : s \in Holders(m) <=> Holds(s, m)
  BY DEF Holders, Holds, Carrying
<1>2. CASE \E s \in Slot : Holds(s, m)
  <2>1. PICK s \in Slot : Holds(s, m)
    BY <1>2
  <2>2. \A t \in Slot : Holds(t, m) => t = s
    BY <2>1 DEF Sound, Accounted, Holds, Carrying
  <2>3. Holders(m) = {s}
    BY <1>1, <2>1, <2>2 DEF Holders
  <2>4. Cardinality(Holders(m)) = 1 /\ Holders(m) # {}
    BY <2>3, FS_Singleton
  <2> QED BY <1>2, <2>4 DEF AbsState, Place
<1>3. CASE ~\E s \in Slot : Holds(s, m)
  <2>1. Holders(m) = {}
    BY <1>1, <1>3 DEF Holders
  <2> QED BY <1>3, <2>1 DEF AbsState, Place, Sound
<1> QED BY <1>2, <1>3

LEMMA PlacedNext == Sound' => \A m \in Message : AbsState(m)' = Place(m)'
<1>1. Sound' => (\A m \in Message : AbsState(m) = Place(m))'
  BY Placed, PTL
<1> QED BY <1>1

\* A step the abstract queue does not see, of one job and of all of them.
Stays(m) ==
  /\ fate'[m] = fate[m] /\ fails'[m] = fails[m]
  /\ fate[m] = "queued" => \A s \in Slot : Holds(s, m)' <=> Holds(s, m)

LEMMA Unseen ==
  ASSUME Sound, Sound', \A m \in Message : Stays(m)
  PROVE  UNCHANGED Abstract!absVars
<1>1. \A m \in Message : AbsState(m)' = AbsState(m)
  <2> SUFFICES ASSUME NEW m \in Message PROVE AbsState(m)' = AbsState(m)
    OBVIOUS
  <2>1. Place(m)' = Place(m)
    BY DEF Stays, Place
  <2> QED BY <2>1, Placed, PlacedNext
<1>2. fails' = fails
  <2>1. fails \in [Message -> 0..MaxAttempts] /\ fails' \in [Message -> 0..MaxAttempts]
    BY DEF Sound, BaseInv, TypeOK
  <2>2. \A m \in Message : fails'[m] = fails[m]
    BY DEF Stays
  <2> QED BY <2>1, <2>2
<1> QED BY <1>1, <1>2 DEF Abstract!absVars

\* A step of one job, as the abstract queue makes it.
LEMMA Seen ==
  ASSUME Sound, Sound', NEW m \in Message, NEW from, NEW to,
         Place(m) = from, Place(m)' = to,
         \A n \in Message : n # m => Stays(n)
  PROVE  /\ Abstract!Move(m, from, to)
         /\ fails' = [fails EXCEPT ![m] = fails'[m]]
<1>1. ASSUME NEW n \in Message, n # m PROVE AbsState(n)' = AbsState(n)
  <2>1. Place(n)' = Place(n)
    BY <1>1 DEF Stays, Place
  <2> QED BY <2>1, Placed, PlacedNext
<1>2. AbsState(m) = Place(m) /\ AbsState(m)' = Place(m)'
  BY Placed, PlacedNext
<1>3. fails' = [fails EXCEPT ![m] = fails'[m]]
  <2>1. fails \in [Message -> 0..MaxAttempts] /\ fails' \in [Message -> 0..MaxAttempts]
    BY DEF Sound, BaseInv, TypeOK
  <2>2. \A n \in Message : n # m => fails'[n] = fails[n]
    BY DEF Stays
  <2> QED BY <2>1, <2>2
<1> QED BY <1>1, <1>2, <1>3 DEF Abstract!Move

\* The holders of other jobs than the one that s is at work on.
LEMMA OthersStay ==
  ASSUME NEW s \in Slot, OnlySlot(s), NEW m \in Message,
         \A n \in Message : n # m => fate'[n] = fate[n] /\ fails'[n] = fails[n],
         pc[s] \in Carrying => job[s].row.m = m,
         pc'[s] \in Carrying => job'[s].row.m = m
  PROVE  \A n \in Message : n # m => Stays(n)
BY DEF Stays, Holds, OnlySlot

LEMMA AllStay ==
  ASSUME NEW s \in Slot, OnlySlot(s), UNCHANGED <<fate, fails>>,
         \A m \in Message : fate[m] = "queued" => (Holds(s, m)' <=> Holds(s, m))
  PROVE  \A n \in Message : Stays(n)
BY DEF Stays, Holds, OnlySlot

LEMMA ArriveRefines ==
  ASSUME Sound, Sound', NEW s \in Slot, Arrive(s)
  PROVE  [Abstract!AbsNext]_(Abstract!absVars)
<1>1. /\ OnlySlot(s) /\ pc[s] = "sent" /\ UNCHANGED <<fate, fails>>
      /\ \/ pc'[s] = "running" /\ job'[s].row.m = job[s].row.m
         \/ pc'[s] = "idle"
  BY ArriveSlot DEF Sound
<1>2. CASE pc'[s] = "idle"
  <2>1. \A m \in Message : Stays(m)
    BY <1>1, <1>2, AllStay DEF Holds, Carrying
  <2> QED BY <2>1, Unseen
<1>3. CASE pc'[s] = "running"
  <2>1. /\ job'[s].row.m = job[s].row.m /\ job[s].row.m \in Message /\ fate[job[s].row.m] = "queued"
        /\ \A t \in Slot : t # s /\ pc[t] # "idle" => job[t].row.m # job[s].row.m
    BY <1>1, <1>3, AtWorkOn DEF Sound, SlotAccount
  <2>2. PICK m \in Message : m = job[s].row.m
    BY <2>1
  <2>3. \A n \in Message : n # m => Stays(n)
    BY <1>1, <2>1, <2>2, OthersStay DEF Carrying
  <2>4. Place(m) = "ready"
    BY <1>1, <2>1, <2>2 DEF Place, Holds, Carrying
  <2>5. Place(m)' = "held"
    BY <1>1, <1>3, <2>1, <2>2 DEF Place, Holds, Carrying
  <2>6. Abstract!Take(m)
    BY <1>1, <2>3, <2>4, <2>5, Seen DEF Abstract!Take
  <2> QED BY <2>6 DEF Abstract!AbsNext
<1> QED BY <1>1, <1>2, <1>3

LEMMA HandlerRefines ==
  ASSUME Sound, Sound', NEW s \in Slot,
         HandlerReturns(s) \/ HandlerSleeps(s) \/ HandlerThrows(s)
  PROVE  [Abstract!AbsNext]_(Abstract!absVars)
<1>1. /\ OnlySlot(s) /\ pc[s] = "running" /\ UNCHANGED job
      /\ \A m \in Message : m # job[s].row.m => fate'[m] = fate[m] /\ fails'[m] = fails[m]
      /\ \/ pc'[s] = "done" /\ fate'[job[s].row.m] = "done" /\ fails' = fails
         \/ pc'[s] = "sleep" /\ UNCHANGED <<fate, fails>>
         \/ /\ pc'[s] = IF TriesAgain(job[s].row) THEN "retry" ELSE "drop"
            /\ fails'[job[s].row.m] = IF fails[job[s].row.m] < MaxAttempts
                                      THEN fails[job[s].row.m] + 1 ELSE fails[job[s].row.m]
            /\ fate'[job[s].row.m] = IF TriesAgain(job[s].row) \/ fate[job[s].row.m] = "done"
                                     THEN fate[job[s].row.m] ELSE "dropped"
  BY HandlerSlot DEF Sound
<1>2. /\ job[s].row \in Row /\ job[s].row.m \in Message /\ fate[job[s].row.m] = "queued"
      /\ job[s].row.attempt = fails[job[s].row.m] + 1
  BY <1>1, AtWorkOn DEF Sound, SlotAccount
<1>3. PICK m \in Message, row \in Row : row = job[s].row /\ m = row.m
  BY <1>2
<1>4. /\ job'[s].row.m = m /\ Place(m) = "held"
      /\ \A n \in Message : n # m => Stays(n)
  <2>1. job'[s].row.m = m
    BY <1>1, <1>3
  <2>2. Place(m) = "held"
    BY <1>1, <1>2, <1>3 DEF Place, Holds, Carrying
  <2> QED BY <1>1, <1>3, <2>1, <2>2, OthersStay
<1>5. CASE pc'[s] = "done" /\ fate'[m] = "done" /\ fails' = fails
  <2>1. Place(m)' = "done"
    BY <1>5 DEF Place
  <2>2. Abstract!Complete(m)
    BY <1>4, <1>5, <2>1, Seen DEF Abstract!Complete
  <2> QED BY <2>2 DEF Abstract!AbsNext
<1>6. CASE pc'[s] = "sleep" /\ UNCHANGED <<fate, fails>>
  <2>1. \A n \in Message : Stays(n)
    BY <1>1, <1>6, AllStay DEF Holds, Carrying
  <2> QED BY <2>1, Unseen
<1>7. /\ fails[m] \in Nat /\ MaxAttempts \in Nat /\ fails[m] < MaxAttempts
      /\ TriesAgain(row) <=> fails[m] + 1 < MaxAttempts
      /\ ~TriesAgain(row) => fails[m] + 1 = MaxAttempts
  <2>1. /\ fails[m] \in Nat /\ MaxAttempts \in Nat
    BY SheetsQueueAssumption DEF Sound, BaseInv, TypeOK
  <2>2. fails[m] < MaxAttempts /\ row.attempt = fails[m] + 1
    BY <1>2, <1>3 DEF Sound, Accounted
  <2>3. TriesAgain(row) <=> (fails[m] + 1) + 1 <= MaxAttempts
    BY <2>2 DEF TriesAgain
  <2> QED BY <2>1, <2>2, <2>3
<1>8. CASE /\ pc'[s] = "retry" /\ TriesAgain(row)
           /\ fails'[m] = fails[m] + 1 /\ fate'[m] = "queued"
  <2>1. Place(m)' = "held"
    BY <1>4, <1>8 DEF Place, Holds, Carrying
  <2>2. Abstract!Move(m, "held", "held") /\ fails' = [fails EXCEPT ![m] = fails[m] + 1]
    BY <1>4, <1>8, <2>1, Seen
  <2>3. [n \in Message |-> AbsState(n)][m] = "held"
        /\ [n \in Message |-> AbsState(n)]' = [[n \in Message |-> AbsState(n)] EXCEPT ![m] = "held"]
    BY <2>2 DEF Abstract!Move
  <2>4. [n \in Message |-> AbsState(n)]' = [n \in Message |-> AbsState(n)]
    BY <2>3
  <2>5. Abstract!Fail(m)
    BY <1>7, <1>8, <2>2, <2>3, <2>4 DEF Abstract!Fail
  <2> QED BY <2>5 DEF Abstract!AbsNext
<1>9. CASE /\ ~TriesAgain(row) /\ fails'[m] = fails[m] + 1 /\ fate'[m] = "dropped"
  <2>1. Place(m)' = "dropped"
    BY <1>9 DEF Place
  <2>2. Abstract!Move(m, "held", "dropped") /\ fails' = [fails EXCEPT ![m] = fails'[m]]
    BY <1>4, <2>1, Seen
  <2>3. fails'[m] = MaxAttempts /\ fails[m] + 1 = MaxAttempts
    BY <1>7, <1>9
  <2>4. Abstract!Drop(m)
    BY <2>2, <2>3 DEF Abstract!Drop
  <2> QED BY <2>4 DEF Abstract!AbsNext
<1>10. CASE /\ pc'[s] = IF TriesAgain(row) THEN "retry" ELSE "drop"
            /\ fails'[m] = fails[m] + 1
            /\ fate'[m] = IF TriesAgain(row) THEN "queued" ELSE "dropped"
  BY <1>8, <1>9, <1>10
<1> QED BY <1>1, <1>2, <1>3, <1>5, <1>6, <1>7, <1>10

LEMMA WriteRefines ==
  ASSUME Sound, Sound', NEW s \in Slot, WrapperWrites(s)
  PROVE  [Abstract!AbsNext]_(Abstract!absVars)
<1>1. /\ OnlySlot(s) /\ pc[s] \in Ending /\ pc'[s] = "idle" /\ UNCHANGED <<fate, fails>>
  BY WriteSlot DEF Sound
<1>2. /\ SlotAccount(s) /\ job[s].row.m \in Message
      /\ \A t \in Slot : t # s /\ pc[t] # "idle" => job[t].row.m # job[s].row.m
  BY <1>1, AtWorkOn DEF Sound, Ending
<1>3. PICK m \in Message : m = job[s].row.m
  BY <1>2
<1>4. CASE pc[s] \in {"done", "drop"}
  <2>1. \A n \in Message : Stays(n)
    BY <1>1, <1>4, AllStay DEF Holds, Carrying
  <2> QED BY <2>1, Unseen
<1>5. CASE pc[s] \in {"sleep", "retry"}
  <2>1. fate[m] = "queued" /\ fate'[m] = "queued"
    BY <1>1, <1>2, <1>3, <1>5 DEF SlotAccount
  <2>2. \A n \in Message : n # m => Stays(n)
    BY <1>1, <1>3, OthersStay DEF Carrying
  <2>3. Place(m) = "held"
    BY <1>3, <1>5, <2>1 DEF Place, Holds, Carrying
  <2>4. \A t \in Slot : ~Holds(t, m)'
    BY <1>1, <1>2, <1>3 DEF Holds, OnlySlot, Carrying
  <2>5. Place(m)' = "ready"
    BY <2>1, <2>4 DEF Place
  <2>6. Abstract!Return(m)
    BY <1>1, <2>2, <2>3, <2>5, Seen DEF Abstract!Return
  <2> QED BY <2>6 DEF Abstract!AbsNext
<1> QED BY <1>1, <1>4, <1>5 DEF Ending

LEMMA EnqueueRefines ==
  ASSUME Sound, Sound', NEW m \in Message, Enqueue(m)
  PROVE  [Abstract!AbsNext]_(Abstract!absVars)
<1>1. /\ TypeOK /\ fate[m] = "new" /\ fate' = [fate EXCEPT ![m] = "queued"]
      /\ UNCHANGED <<pc, job, fails>>
  BY DEF Sound, BaseInv, Enqueue, slots
<1>2. /\ fate'[m] = "queued" /\ \A n \in Message : n # m => fate'[n] = fate[n]
  BY <1>1 DEF TypeOK
<1>3. \A n \in Message : n # m => Stays(n)
  BY <1>1, <1>2 DEF Stays, Holds
<1>4. ASSUME NEW s \in Slot, Holds(s, m) PROVE FALSE
  BY <1>1, <1>4 DEF Sound, Accounted, SlotAccount, Holds, Carrying
<1>5. Place(m) = "new" /\ Place(m)' = "ready"
  BY <1>1, <1>2, <1>4 DEF Place, Holds
<1>6. Abstract!Put(m)
  BY <1>1, <1>3, <1>5, Seen DEF Abstract!Put
<1> QED BY <1>6 DEF Abstract!AbsNext

LEMMA QueueRefines ==
  ASSUME Calm, Calm', Sound, Sound', [Next]_vars
  PROVE  [Abstract!AbsNext]_(Abstract!absVars)
<1>1. BaseInv /\ Accounted
  BY DEF Sound
<1>2. ASSUME UNCHANGED <<pc, job, fate, fails>> PROVE [Abstract!AbsNext]_(Abstract!absVars)
  <2>1. \A m \in Message : Stays(m)
    BY <1>2 DEF Stays, Holds
  <2> QED BY <2>1, Unseen
<1>3. CASE UNCHANGED vars
  BY <1>2, <1>3 DEF vars, slots, ghost
<1>4. ASSUME NEW s \in Slot, WrapperStep(s) PROVE [Abstract!AbsNext]_(Abstract!absVars)
  BY <1>4, ArriveRefines, HandlerRefines, WriteRefines DEF WrapperStep
<1>5. ASSUME NEW s \in Slot, Response(s) PROVE [Abstract!AbsNext]_(Abstract!absVars)
  BY <1>2, <1>5 DEF Response, ghost
<1>6. ASSUME NEW h \in Host, NEW j \in batch[h], NEW s \in Slot, DrainClaims(h, j, s)
      PROVE  [Abstract!AbsNext]_(Abstract!absVars)
  <2>1. /\ OnlySlot(s) /\ UNCHANGED <<fate, fails>> /\ pc[s] = "idle" /\ pc'[s] = "sent"
    BY <1>1, <1>6, ClaimSlot
  <2>2. \A m \in Message : Stays(m)
    BY <2>1, AllStay DEF Holds, Carrying
  <2> QED BY <2>2, Unseen
<1>7. ASSUME NEW h \in Host, NEW due \in SUBSET Range(readSchedule), DrainReads(h, due)
      PROVE  [Abstract!AbsNext]_(Abstract!absVars)
  BY <1>2, <1>7 DEF DrainReads, slots, ghost
<1>8. ASSUME NEW H \in SUBSET Host, NEW D \in SUBSET Slot, NEW W \in SUBSET Slot,
             NEW E \in SUBSET (W \ D), CutOff(H, D, W, E)
      PROVE  [Abstract!AbsNext]_(Abstract!absVars)
  <2>1. UNCHANGED <<sheet, client, sent, pc, job, fate, fails>>
    BY <1>1, <1>8, NothingCut
  <2> QED BY <1>2, <2>1
<1> QED BY <1>1, <1>3, <1>4, <1>5, <1>6, <1>7, <1>8, NothingFails, EnqueueRefines DEF Next, ClientStep

\* As long as nothing fails and every write finds the row it was meant for, the
\* queue is the abstract one, whatever else the dispatchers' reads have missed: a
\* job that was put is, until it is completed or has failed MaxAttempts times,
\* ready or with exactly one handler.
THEOREM Refinement == Spec => ImplementsDurableQueue
<1>1. Init => Abstract!AbsInit
  <2> SUFFICES ASSUME Init PROVE Abstract!AbsInit
    OBVIOUS
  <2>1. \A m \in Message : AbsState(m) = "new"
    BY DEF Init, AbsState
  <2> QED BY <2>1 DEF Init, Abstract!AbsInit
<1> DEFINE Inv == BaseInv /\ LossInv /\ AccountInv
<1>2. Inv /\ Calm => Sound
  <2> SUFFICES ASSUME Inv, Calm PROVE Sound
    OBVIOUS
  <2>1. IsFiniteSet(Unsafe) /\ Cardinality(Unsafe) <= 0
    BY DEF LossInv, Calm
  <2>2. Unsafe = {}
    <3>1. Cardinality(Unsafe) = 0
      BY <2>1, FS_CardinalityType
    <3> QED BY <2>1, <3>1, FS_EmptySet
  <2> QED BY <2>2, LostIsUnsafe DEF AccountInv, Sound
<1>3. Inv /\ Inv' /\ [Next]_vars => (Calm' => [Abstract!AbsNext]_(Abstract!absVars))
  <2> SUFFICES ASSUME Inv, Inv', [Next]_vars, Calm' PROVE [Abstract!AbsNext]_(Abstract!absVars)
    OBVIOUS
  <2>1. Calm
    BY CalmEver
  <2>2. (Inv /\ Calm)' => Sound'
    BY <1>2, PTL
  <2> QED BY <1>2, <2>1, <2>2, QueueRefines
<1>4. Spec => []Inv
  <2>1. Init => Inv
    BY BaseInitially, LossInitially, AccountInitially
  <2>2. Inv /\ [Next]_vars => Inv'
    BY BaseStep, LossStep, AccountStep
  <2> QED BY <2>1, <2>2, PTL DEF Spec
<1> QED BY <1>1, <1>3, <1>4, PTL DEF Spec, ImplementsDurableQueue
=============================================================================
