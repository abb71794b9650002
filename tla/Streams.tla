------------------------------ MODULE Streams ------------------------------
(***************************************************************************)
(* One stream of one run, in each of the three worlds that keep streams:   *)
(*   "redirect"  a Redis list of chunks and a done flag                    *)
(*               (world-redirect/src/streamer.ts)                          *)
(*   "kv"        one key per chunk, and a row that says done               *)
(*               (world-edgeone/src/kv/streamer.ts)                        *)
(*   "sheets"    one spreadsheet row per chunk, and a row that says done   *)
(*               (world-sheets/src/streamer.ts)                            *)
(* Writers write, writeMulti and close; live readers (get) pump; a client  *)
(* pages through getChunks.  Every await on the store is a step boundary.  *)
(* A chunk is known by the moment it was stored; chunks are not empty.     *)
(* The world is chosen once, by Init.                                      *)
(*                                                                         *)
(* A read returns what has been written by then.  For the key-value store  *)
(* that is an assumption: its writes may take a while to reach the nodes   *)
(* that are read (world-edgeone/README.md:271), of which nothing is said.  *)
(***************************************************************************)
EXTENDS Integers, Sequences, SequencesExt, FiniteSets

CONSTANTS
  World,      \* which of the three worlds to consider
  Writer,     \* processes that write to the stream
  Reader,     \* live readers
  Pump,       \* invocations of pump() that one reader may have under way
  Start,      \* the startIndex values readers ask for
  MaxBatch,   \* longest writeMulti
  PageLimit,  \* the limit of getChunks
  MaxRows,    \* bound: rows that writers set out to store
  MaxErrors   \* bound: store reads that fail, and writers that stop half way

ASSUME StreamsAssumption ==
  /\ World \subseteq {"redirect", "kv", "sheets"}
  /\ Start \subseteq Int
  /\ {MaxBatch, PageLimit} \subseteq Nat \ {0}
  /\ {MaxRows, MaxErrors} \subseteq Nat

VARIABLES
  world,    \* the world of this behaviour
  rows,     \* the stored rows
  done,     \* redirect: the 'done' field of the stream's metadata
  stamp,    \* ghost: number of stores so far
  closedAt, \* ghost: the stamp of the first close, 0 before it
  overlap,  \* ghost: two polled-world writes were once under way together
  issued,   \* rows that writers have set out to store
  errors,   \* failures so far
  writer,   \* the write each writer has under way
  reader,   \* the live readers
  pump,     \* their pumps
  pager     \* one client walking through getChunks

store == <<rows, done, stamp, closedAt>>
vars == <<world, store, overlap, issued, errors, writer, reader, pump, pager>>

-----------------------------------------------------------------------------
Row == [idx : Nat, at : Nat, done : BOOLEAN]

Idle == [stage |-> "idle"]
Asleep == [stage |-> "idle", keys |-> {}, batch |-> {}]

Chunk(c) == ~c.done
Chunks(S) == {c \in S : Chunk(c)}

(* The order in which a store lists its rows: by index, and rows of one    *)
(* index (Sheets sorts its rows stably) as they were stored.               *)
Before(c, d) == c.idx < d.idx \/ (c.idx = d.idx /\ c.at < d.at)

Place(S, c) == Cardinality({d \in S : d = c \/ Before(d, c)})
InOrder(S) == [k \in 1..Cardinality(S) |-> CHOOSE c \in S : Place(S, c) = k]
Stamps(S) == [k \in 1..Cardinality(S) |-> InOrder(S)[k].at]

(* One past the last of the rows S, or where one was if there are none.    *)
Past(S, cursor) == IF S = {} THEN cursor ELSE Last(InOrder(S)).idx + 1

(* nextChunkIdx; RPUSH appends to the same place.                          *)
NextIdx == Past(rows, 0)

(* Redis and Sheets add rows to those there are, whatever their index; in  *)
(* KV the index is the key, and a row with the same key is overwritten.    *)
Stored(new) ==
  {c \in rows : world = "kv" => \A d \in new : d.idx # c.idx} \union new

NewRows(idx, n, last) ==
  {[idx |-> idx + i - 1, at |-> stamp + i, done |-> last] : i \in 1..n}

Store(idx, n, last) ==
  /\ rows' = Stored(NewRows(idx, n, last))
  /\ stamp' = stamp + n
  /\ closedAt' = IF last /\ closedAt = 0 THEN stamp + 1 ELSE closedAt

-----------------------------------------------------------------------------
Init ==
  /\ world \in World
  /\ rows = {} /\ done = FALSE /\ stamp = 0 /\ closedAt = 0
  /\ overlap = FALSE /\ issued = 0 /\ errors = 0
  /\ writer = [w \in Writer |-> Idle]
  /\ reader = [r \in Reader |-> [status |-> "new", first |-> 0, cursor |-> 0,
                                 got |-> <<>>, again |-> FALSE]]
  /\ pump = [r \in Reader |-> [p \in Pump |-> Asleep]]
  /\ pager = [stage |-> "idle", total |-> 0, got |-> <<>>, more |-> TRUE, done |-> FALSE]

-----------------------------------------------------------------------------
(* Writers *)

Polled == world # "redirect"

Budget(n) == issued + n <= MaxRows /\ issued' = issued + n

(* redirect: write and writeMulti push all their chunks in one command.    *)
Push(w, n) ==
  /\ ~Polled /\ Budget(n)
  /\ Store(NextIdx, n, FALSE)
  /\ UNCHANGED <<world, done, overlap, errors, writer, reader, pump, pager>>

(* redirect: close sets the flag; the list is left alone.                  *)
SetDone(w) ==
  /\ ~Polled /\ Budget(1)
  /\ done' = TRUE
  /\ stamp' = stamp + 1
  /\ closedAt' = IF closedAt = 0 THEN stamp + 1 ELSE closedAt
  /\ UNCHANGED <<world, rows, overlap, errors, writer, reader, pump, pager>>

(* kv, sheets: write (n = 1), writeMulti and close (last) first read the   *)
(* rows to find the next index.                                            *)
Begin(w, n, last) ==
  /\ Polled /\ Budget(n)
  /\ writer[w] = Idle
  /\ writer' = [writer EXCEPT ![w] =
                  [stage |-> "put", idx |-> NextIdx, left |-> n, last |-> last]]
  /\ overlap' = (overlap \/ \E v \in Writer : writer[v] # Idle)
  /\ UNCHANGED <<world, store, errors, reader, pump, pager>>

(* ... and then store under it: KV one key at a time, Sheets all at once.  *)
Put(w) ==
  /\ writer[w].stage = "put"
  /\ LET n == IF world = "kv" THEN 1 ELSE writer[w].left
         rest == [writer[w] EXCEPT !.idx = @ + n, !.left = @ - n]
     IN  /\ Store(writer[w].idx, n, writer[w].last)
         /\ writer' = [writer EXCEPT ![w] = IF rest.left = 0 THEN Idle ELSE rest]
  /\ UNCHANGED <<world, done, overlap, issued, errors, reader, pump, pager>>

(* A put is refused, or the process dies: what is stored stays.            *)
WriterStops(w) ==
  /\ errors < MaxErrors /\ writer[w] # Idle
  /\ errors' = errors + 1
  /\ writer' = [writer EXCEPT ![w] = Idle]
  /\ UNCHANGED <<world, store, overlap, issued, reader, pump, pager>>

-----------------------------------------------------------------------------
(* Live readers *)

FirstCursor(s) == IF s < 0 THEN Max({0, Cardinality(Chunks(rows)) + s}) ELSE s

Open(r, s) ==
  /\ reader[r].status = "new"
  /\ reader' = [reader EXCEPT ![r].status = "open",
                              ![r].first = FirstCursor(s), ![r].cursor = FirstCursor(s)]
  /\ UNCHANGED <<world, store, overlap, issued, errors, writer, pump, pager>>

At(r, p, stage) == reader[r].status = "open" /\ pump[r][p].stage = stage

OnlyReader == UNCHANGED <<world, store, overlap, issued, errors, writer, pager>>

Goto(r, p, stage) ==
  /\ pump' = [pump EXCEPT ![r][p] = [Asleep EXCEPT !.stage = stage]]
  /\ OnlyReader

Take(r, p, stage, batch) ==
  /\ pump' = [pump EXCEPT ![r][p] = [stage |-> stage, keys |-> {}, batch |-> batch]]
  /\ OnlyReader /\ UNCHANGED reader

(* The guard of pump(): a redirect reader pumps once at a time; the polled *)
(* readers start a pump on every tick, whatever is still under way.        *)
MayPumpAnyTime(r, p) == At(r, p, "idle") \* mutant: no pumping flag

MayPump(r, p) ==
  /\ At(r, p, "idle")
  /\ ~Polled => \A q \in Pump : pump[r][q] = Asleep

(* The timer, the notification of a write, or start() calls pump().        *)
Tick(r, p) ==
  /\ MayPump(r, p)
  /\ reader' = [reader EXCEPT ![r].again = FALSE]
  /\ Goto(r, p, IF Polled THEN "load" ELSE "range")

TickAgain(r) ==
  /\ ~Polled /\ reader[r].status = "open"
  /\ \E q \in Pump : pump[r][q] # Asleep
  /\ reader' = [reader EXCEPT ![r].again = TRUE]
  /\ OnlyReader /\ UNCHANGED pump

FromCursor(r) == {c \in rows : c.idx >= reader[r].cursor}

Delivered(rd, batch) ==
  [rd EXCEPT !.cursor = @ + Cardinality(batch), !.got = @ \o Stamps(batch)]

(* redirect: LRANGE from the cursor, enqueue, read the flag; once it says  *)
(* done, one more LRANGE, enqueue and close; else again if a tick came.    *)
ReadRange(r, p) == At(r, p, "range") /\ Take(r, p, "enqueue", FromCursor(r))

Enqueue(r, p) ==
  /\ At(r, p, "enqueue")
  /\ reader' = [reader EXCEPT ![r] = Delivered(@, pump[r][p].batch)]
  /\ Goto(r, p, "flag")

ReadFlag(r, p) ==
  /\ At(r, p, "flag")
  /\ reader' = [reader EXCEPT ![r].again = FALSE]
  /\ Goto(r, p, IF done THEN "tail" ELSE IF reader[r].again THEN "range" ELSE "idle")

\* Mutant: the list is not read again once the flag is set.
ReadTailSkipped(r, p) == At(r, p, "tail") /\ Take(r, p, "drain", {})

ReadTail(r, p) == At(r, p, "tail") /\ Take(r, p, "drain", FromCursor(r))

Drain(r, p) ==
  /\ At(r, p, "drain")
  /\ reader' = [reader EXCEPT ![r] = [Delivered(@, pump[r][p].batch) EXCEPT !.status = "ended"]]
  /\ Goto(r, p, "idle")

(* kv: list the keys, then get them; sheets: read all rows at once.        *)
ListKeys(r, p) ==
  /\ world = "kv" /\ At(r, p, "load")
  /\ pump' = [pump EXCEPT ![r][p] =
                [stage |-> "fetch", keys |-> {c.idx : c \in rows}, batch |-> {}]]
  /\ OnlyReader /\ UNCHANGED reader

Fetch(r, p) ==
  /\ At(r, p, "fetch")
  /\ Take(r, p, "deliver", {c \in rows : c.idx \in pump[r][p].keys})

LoadRows(r, p) == world = "sheets" /\ At(r, p, "load") /\ Take(r, p, "deliver", rows)

(* The loop over the rows loaded: below the cursor skip, at done close.    *)
(* Of rows with one index only the first is ahead: once it is handed over  *)
(* the cursor is past the others.                                          *)
\* Mutant: c.chunkIdx <= cursor is skipped.
AheadOffByOne(S, cursor) ==
  {c \in S : c.idx > cursor /\ \A d \in S : d.idx = c.idx => c.at <= d.at}

Ahead(S, cursor) ==
  {c \in S : c.idx >= cursor /\ \A d \in S : d.idx = c.idx => c.at <= d.at}

Fresh(S, cursor) ==
  {c \in Ahead(S, cursor) : \A d \in Ahead(S, cursor) : d.done => c.idx < d.idx}

Visit(rd, S) ==
  [rd EXCEPT !.status = IF \E d \in Ahead(S, rd.cursor) : d.done THEN "ended" ELSE @,
             !.cursor = Past(Fresh(S, @), @),
             !.got = @ \o Stamps(Fresh(S, rd.cursor))]

Deliver(r, p) ==
  /\ At(r, p, "deliver")
  /\ reader' = [reader EXCEPT ![r] = Visit(@, pump[r][p].batch)]
  /\ Goto(r, p, "idle")

(* A read fails: controller.error.  The consumer goes away: cancel.        *)
PumpFails(r, p) ==
  /\ errors < MaxErrors
  /\ \E stage \in {"range", "flag", "tail", "load", "fetch"} : At(r, p, stage)
  /\ errors' = errors + 1
  /\ reader' = [reader EXCEPT ![r].status = "errored"]
  /\ pump' = [pump EXCEPT ![r][p] = Asleep]
  /\ UNCHANGED <<world, store, overlap, issued, writer, pager>>

Cancel(r) ==
  /\ reader[r].status = "open"
  /\ reader' = [reader EXCEPT ![r].status = "cancelled"]
  /\ OnlyReader /\ UNCHANGED pump

(* A pump that finds its stream closed or refusing chunks stops.           *)
PumpStops(r, p) ==
  /\ reader[r].status # "open" /\ pump[r][p] # Asleep
  /\ Goto(r, p, "idle")
  /\ UNCHANGED reader

-----------------------------------------------------------------------------
(* getChunks, page after page, following the cursor of each answer *)

OnlyPager == UNCHANGED <<world, store, overlap, issued, errors, writer, reader, pump>>

(* The page after the chunks already had, and whether the answer says      *)
(* hasMore: there is more than what was consumed, by the count total.      *)
\* Mutant: the cursor is taken for the index of the last chunk had.
SliceOffByOne(S) ==
  LET pos == Len(pager.got) + 1
  IN  SubSeq(Stamps(Chunks(S)), pos + 1, Min({pos + PageLimit, Cardinality(Chunks(S))}))

Slice(S) ==
  LET pos == Len(pager.got)
  IN  SubSeq(Stamps(Chunks(S)), pos + 1, Min({pos + PageLimit, Cardinality(Chunks(S))}))

\* Mutant: total is taken for the last index.
HasMoreOffByOne(consumed, total) == consumed < total - 1

HasMore(consumed, total) == consumed < total

(* redirect: LLEN, LRANGE and HGET are three commands.                     *)
PageLength ==
  /\ ~Polled /\ pager.stage = "idle" /\ pager.more
  /\ pager' = [pager EXCEPT !.stage = "range", !.total = Cardinality(rows)]
  /\ OnlyPager

PageRange ==
  /\ pager.stage = "range"
  /\ LET got == pager.got \o Slice(rows) IN
       pager' = [pager EXCEPT !.stage = "flag", !.got = got,
                              !.more = HasMore(Len(got), pager.total)]
  /\ OnlyPager

PageFlag ==
  /\ pager.stage = "flag"
  /\ pager' = [pager EXCEPT !.stage = "idle", !.done = done]
  /\ OnlyPager

(* kv, sheets: one load answers everything.                                *)
PageLoad ==
  /\ Polled /\ pager.stage = "idle" /\ pager.more
  /\ LET got == pager.got \o Slice(rows) IN
       pager' = [pager EXCEPT !.got = got,
                              !.more = HasMore(Len(got), Cardinality(Chunks(rows))),
                              !.done = \E c \in rows : c.done]
  /\ OnlyPager

-----------------------------------------------------------------------------
WriterStep(w) ==
  \/ \E n \in 1..MaxBatch : Push(w, n) \/ Begin(w, n, FALSE)
  \/ SetDone(w) \/ Begin(w, 1, TRUE)
  \/ Put(w) \/ WriterStops(w)

PumpStep(r, p) ==
  \/ ReadRange(r, p) \/ Enqueue(r, p) \/ ReadFlag(r, p) \/ ReadTail(r, p) \/ Drain(r, p)
  \/ ListKeys(r, p) \/ Fetch(r, p) \/ LoadRows(r, p) \/ Deliver(r, p)
  \/ PumpStops(r, p)

ReaderStep(r) ==
  \/ \E s \in Start : Open(r, s)
  \/ TickAgain(r) \/ Cancel(r)
  \/ \E p \in Pump : Tick(r, p) \/ PumpStep(r, p) \/ PumpFails(r, p)

PagerStep == PageLength \/ PageRange \/ PageFlag \/ PageLoad

Next ==
  \/ \E w \in Writer : WriterStep(w)
  \/ \E r \in Reader : ReaderStep(r)
  \/ PagerStep

Spec == Init /\ [][Next]_vars

(* The interval timer of an open reader keeps firing and a read that was   *)
(* issued is answered.  Nothing is promised of writers or of clients.      *)
Fairness ==
  \A r \in Reader :
    /\ WF_vars(\E p \in Pump : Tick(r, p))
    /\ \A p \in Pump : WF_vars(PumpStep(r, p))

FairSpec == Spec /\ Fairness

-----------------------------------------------------------------------------
(* Properties *)

(* Every variable has its type; a resolved negative startIndex is never    *)
(* below zero.                                                             *)
TypeOK ==
  /\ world \in World
  /\ rows \subseteq Row /\ {done, overlap} \subseteq BOOLEAN
  /\ {stamp, closedAt, issued, errors} \subseteq Nat
  /\ \A w \in Writer : writer[w] = Idle \/ writer[w] \in
       [stage : {"put"}, idx : Nat, left : 1..MaxBatch, last : BOOLEAN]
  /\ \A r \in Reader :
       /\ reader[r].status \in {"new", "open", "ended", "errored", "cancelled"}
       /\ {reader[r].first, reader[r].cursor} \subseteq Nat
       /\ reader[r].got \in Seq(Nat)
       /\ \A p \in Pump : pump[r][p].batch \subseteq Row
  /\ pager.stage \in {"idle", "range", "flag"} /\ pager.got \in Seq(Nat)

(* Writes that overlap in the polled worlds read one index and store twice *)
(* under it; what follows is claimed of streams without such an overlap.   *)
Orderly == ~overlap

After(S, first) == {c \in S : c.idx >= first}

(* A live reader is handed the chunks from its start index in the order of *)
(* the stream, without a gap; and, overlap or not, none of them twice:     *)
(* although ticks start pumps while others wait for the store.             *)
Delivery ==
  \A r \in Reader :
    /\ IsInjective(reader[r].got)
    /\ Orderly => IsPrefix(reader[r].got, Stamps(After(Chunks(rows), reader[r].first)))

(* A reader that was told the stream has ended had every chunk stored      *)
(* before the close, even one stored between its last two reads.           *)
EndedComplete ==
  \A r \in Reader : Orderly /\ reader[r].status = "ended" =>
    /\ closedAt # 0
    /\ \A c \in After(Chunks(rows), reader[r].first) : c.at < closedAt
         => \E k \in DOMAIN reader[r].got : reader[r].got[k] = c.at

(* The pages of getChunks, laid end to end, are the beginning of the       *)
(* stream, however much it grows between them.                             *)
PagesContiguous == Orderly => IsPrefix(pager.got, Stamps(Chunks(rows)))

(* In the polled worlds a last page (no hasMore) that says done completes  *)
(* the stream as it was at the close.  Redirect's getChunks reads the flag *)
(* after the chunks and promises less.                                     *)
LastPageComplete ==
  Polled /\ Orderly /\ pager.done /\ ~pager.more =>
    \A c \in Chunks(rows) : c.at < closedAt
      => \E k \in DOMAIN pager.got : pager.got[k] = c.at

(* A close that a reader can see: the flag, or a done row not below its    *)
(* cursor (a polled reader that starts past the done row never sees it).   *)
CloseAhead(r) ==
  \/ done
  \/ \E c \in rows : c.done /\ c.idx >= reader[r].cursor

(* An open reader with a close ahead of it does end, unless it fails or is *)
(* cancelled, or an overlapping KV write covers the done row.              *)
ReadersEnd ==
  \A r \in Reader :
    reader[r].status = "open" /\ CloseAhead(r) ~> reader[r].status # "open" \/ overlap
=============================================================================
