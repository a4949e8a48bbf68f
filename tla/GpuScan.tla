------------------------------- MODULE GpuScan -------------------------------
(***************************************************************************)
(* How a query reads columns on the GPU (src/src/query_exec/query_exec.c).  *)
(* A column that fits one buffer is kept whole in a named buffer, in two    *)
(* ways: the scan's own (scan_col:...) and the aggregates' (agg_resident). *)
(* A larger one is streamed in chunks through a few slots by four           *)
(* operators: the filter scan, the dense aggregation, the join probe and    *)
(* the global aggregation.  Chunks may stay resident between queries.       *)
(* The device runs the copies and the kernel of a submitted slot on its     *)
(* own; the host is one thread.                                            *)
(***************************************************************************)
EXTENDS GpuMemory

CONSTANTS
  ScanColumns,   (* the columns of the tables                                *)
  Narrow,        (* those whose chunks are encoded into host memory first    *)
  SameName,      (* those whose table and database names do not tell apart   *)
  Slots,         (* QE_SCAN_STREAM_SLOTS, after the clamp                    *)
  Kinds,         (* the kinds of query asked                                 *)
  Faults,        (* what may fail: "alloc", "begin", "submit"                *)
  Histories,     (* "forgotten": columns whose buffer is gone are bound      *)
  MaxChunks, MaxAsked, MaxWrites, MaxFaults   (* bounds; a stream asks for 2 *)

ASSUME ScanAssumption ==
  /\ IsFiniteSet(ScanColumns) /\ Narrow \subseteq ScanColumns /\ SameName \subseteq ScanColumns
  /\ Slots \in 2 .. 8 /\ MaxChunks \in Nat
  /\ Faults \subseteq {"alloc", "begin", "submit"}
  /\ Kinds \subseteq {"whole", "resident", "scan", "dense", "probe", "global"}
  /\ MaxFaults \in Nat /\ \A x \in {None, Nothing} : x \notin ScanColumns \X Nat \X Nat

VARIABLES
  memory,        (* see GpuMemory                                            *)
  column,        (* write_generation, rows, and what the column believes is   *)
                 (* on the GPU: gpu_upload_generation and size, agg_f64_*     *)
  query,         (* kind, columns in the order they are bound, chunk_count    *)
  at, next,      (* where the host is; the chunk or the binding it works on   *)
  ok, deferred,  (* ok and deferred_slot                                     *)
  slot,          (* QE_StreamSlot: chunk, columns, transient, held, encoded   *)
  work,          (* of each slot: what the device has to do for it            *)
  got,           (* of each slot: what its last kernel read                   *)
  results,       (* the chunks read so far, with the rows each column gave    *)
  bound,         (* of a whole scan: the buffer of each column                *)
  answer,        (* of the last query                                        *)
  asked, written, faulted    (* counters for the bounds                      *)

host == <<query, at, next, ok, deferred>>
stream == <<slot, work, got>>
bounds == <<asked, written, faulted>>
scan_vars == <<memory, column, host, stream, results, bound, answer, bounds>>

SlotIds == 0 .. Slots - 1
SlotCount == LET n == Len(query.chunks) IN IF n = 0 THEN 1 ELSE IF n < Slots THEN n ELSE Slots

(* The rows of a column, or of one of its chunks (0: all of it).            *)
Rows(c, chunk) == <<c, column[c].write_generation, chunk>>

IdleSlot == [chunk |-> None, columns |-> <<>>, transient |-> [c \in ScanColumns |-> None],
             held |-> {}, copies |-> {}, grown |-> FALSE,
             encoded |-> [c \in ScanColumns |-> Nothing]]
NoQuery == [kind |-> "none", columns |-> <<>>, chunks |-> <<>>]

ScanInit ==
  /\ memory = EmptyMemory
  /\ column = [c \in ScanColumns |->
                 [write_generation |-> 1, rows |-> 2, upload_generation |-> 0,
                  upload_rows |-> 0, agg_generation |-> 0, agg_buffer |-> None]]
  /\ query = NoQuery /\ at = "idle" /\ next = 0 /\ ok = TRUE /\ deferred = None
  /\ slot = [s \in SlotIds |-> IdleSlot]
  /\ work = [s \in SlotIds |-> "none"]
  /\ got = [s \in SlotIds |-> <<>>]
  /\ results = <<>> /\ bound = <<>> /\ answer = "none"
  /\ asked = 0 /\ written = 0 /\ faulted = 0

(* A fault that may happen here: TRUE when it does.                         *)
Fault(f) == IF f \in Faults /\ faulted < MaxFaults THEN BOOLEAN ELSE {FALSE}
Note(fault) == faulted' = IF fault THEN faulted + 1 ELSE faulted

(* An append or a removal; between queries, for they take turns.            *)
Write(c) ==
  /\ at = "idle" /\ written < MaxWrites
  /\ \E rows \in 1 .. 2 :
       column' = [column EXCEPT ![c] = [column[c] EXCEPT !.write_generation = @ + 1, !.rows = rows]]
  /\ written' = written + 1
  /\ results' = <<>> /\ answer' = "none"
  /\ UNCHANGED <<memory, host, stream, bound, asked, faulted>>

-------------------------------------------------------------------------------
(* A query begins with a new epoch of the pool (app_execute_query_capture). *)

Ask(kind, columns, chunks, fails) ==
  /\ at = "idle" /\ kind \in Kinds
  /\ asked' = asked + (IF kind \in {"whole", "resident"} THEN 1 ELSE 2) /\ asked' <= MaxAsked
  /\ Note(fails)
  /\ query' = [kind |-> kind, columns |-> columns, chunks |-> chunks]
  /\ memory' = [memory EXCEPT !.epoch = @ + 1, !.failed = fails]
  /\ next' = 0 /\ deferred' = None /\ ok' = ~fails
  /\ results' = <<>> /\ bound' = <<>> /\ answer' = "none"
  /\ UNCHANGED <<column, written, stream>>

(* The columns a query binds, in some order.                               *)
Orders == {SetToSeq(S) : S \in (SUBSET ScanColumns) \ {{}}}

(* The slots' own output buffers are asked for before the first chunk.      *)
Streamed(kind, chunks) ==
  \E order \in Orders, fails \in Fault("begin") :
    /\ Ask(kind, order, chunks, fails)
    /\ at' = IF fails THEN "drain" ELSE "next"

AllChunks == [i \in 1 .. MaxChunks |-> i]

(* The chunks of a scan are those the zone maps left.                       *)
Ascents == {f \in UNION {[1 .. n -> 1 .. MaxChunks] : n \in 0 .. MaxChunks} :
              \A i, j \in DOMAIN f : i < j => f[i] < f[j]}

BeginScan == \E kept \in Ascents : Streamed("scan", kept)
BeginAll == \E kind \in {"dense", "probe", "global"} : Streamed(kind, AllChunks)

-------------------------------------------------------------------------------
(* One chunk: the slot's last one is collected, the columns are found or    *)
(* given a buffer, the copies and the kernel are recorded, and the chunk    *)
(* before is submitted.                                                    *)

QueryChunks == Len(query.chunks)
Current == IF at = "drain" THEN (QueryChunks + next) % SlotCount ELSE next % SlotCount
Waited(s) == work[s] \notin {"submitted", "copied"}

Resume ==
  IF at = "next" THEN at' = "prepare" /\ UNCHANGED next
                 ELSE next' = next + 1 /\ UNCHANGED at
GiveUp ==
  /\ ok' = FALSE
  /\ IF at = "drain" THEN next' = next + 1 /\ UNCHANGED at
                     ELSE at' = "drain" /\ next' = 0

Collecting(s) == /\ ok /\ s = Current
                 /\ \/ at = "next" /\ next < QueryChunks
                    \/ at = "drain" /\ next < SlotCount

RetireNothing ==
  LET s == Current
  IN  /\ Collecting(s) /\ slot[s].chunk = None
      /\ Resume
      /\ UNCHANGED <<memory, column, query, ok, deferred, stream, results, bound, answer, bounds>>

(* The probe's kernel has added to the totals of the query already.         *)
Retire ==
  LET s == Current
  IN  /\ Collecting(s) /\ slot[s].chunk # None /\ Waited(s)
      /\ results' = IF query.kind = "probe" THEN results ELSE Append(results, got[s])
      /\ memory' = Unpin(memory, slot[s].held, TRUE)
      /\ slot' = [slot EXCEPT ![s] = [@ EXCEPT !.held = {}, !.chunk = None, !.columns = <<>>,
                                              !.copies = {}]]
      /\ Resume
      /\ UNCHANGED <<column, query, ok, deferred, work, got, bound, answer, bounds>>

(* More rows than the output has room for: a larger output and a second     *)
(* dispatch over the buffers the slot still holds.                         *)
RetireOverflow ==
  LET s == Current
  IN  /\ Collecting(s) /\ query.kind = "scan" /\ slot[s].chunk # None /\ Waited(s)
      /\ ~slot[s].grown
      /\ \E fails \in Fault("begin") :
           /\ Note(fails)
           /\ memory' = [memory EXCEPT !.failed = @ \/ fails]
           /\ IF fails THEN GiveUp /\ UNCHANGED <<slot, work>>
              ELSE /\ slot' = [slot EXCEPT ![s] = [@ EXCEPT !.grown = TRUE, !.copies = {}]]
                   /\ work' = [work EXCEPT ![s] = "submitted"]
                   /\ UNCHANGED <<at, next, ok>>
      /\ UNCHANGED <<column, query, deferred, got, results, bound, answer, asked, written>>

(* The slot reads column c from buffer b, which is a chunk's or its own.    *)
BoundTo(l, c, b, is_held, copied, rows) ==
  [l EXCEPT !.columns = Append(@, b),
            !.held = IF is_held THEN @ \cup {b} ELSE @,
            !.transient = IF is_held THEN @ ELSE [@ EXCEPT ![c] = b],
            !.copies = IF copied THEN @ \cup {[to |-> b, column |-> c]} ELSE @,
            !.encoded = IF copied /\ c \in Narrow THEN [@ EXCEPT ![c] = rows] ELSE @]

(* qe_stream_prepare_column: the chunk's buffer, or the slot's own.         *)
Prepare ==
  LET s     == Current
      c     == query.columns[Len(slot[s].columns) + 1]
      chunk == query.chunks[next + 1]
  IN  /\ at = "prepare" /\ Len(slot[s].columns) < Len(query.columns)
      /\ \E refused \in Fault("alloc") :
           \E a \in {Acquire(memory, c, column[c].write_generation, chunk, refused)} :
           \E own \in {IF a.buffer # None THEN a
                       ELSE IF slot[s].transient[c] # None
                       THEN [m |-> a.m, buffer |-> slot[s].transient[c]]
                       ELSE Alloc(a.m, FALSE)} :
             LET b      == own.buffer
                 copied == a.buffer = None \/ a.needs_copy
             IN  /\ Note(refused)
                 /\ memory' = own.m
                 /\ IF b = None THEN GiveUp /\ UNCHANGED slot
                    ELSE /\ slot' = [slot EXCEPT ![s] =
                               BoundTo(slot[s], c, b, a.buffer # None, copied, Rows(c, chunk))]
                         /\ UNCHANGED <<at, next, ok>>
      /\ UNCHANGED <<column, query, deferred, work, got, results, bound, answer, asked, written>>

(* gpu_stream_slot_begin, the copies, the dispatch; then the slot before.   *)
SubmitDeferred(fails, w) ==
  IF deferred = None THEN w ELSE [w EXCEPT ![deferred] = IF fails THEN "none" ELSE "submitted"]

Launch ==
  LET s == Current
  IN  /\ at = "prepare" /\ Len(slot[s].columns) = Len(query.columns)
      /\ \E begins \in Fault("begin"), fails \in Fault("submit") :
           /\ ~(begins /\ fails) /\ (fails => deferred # None)
           /\ Note(begins \/ fails)
           /\ IF begins THEN GiveUp /\ UNCHANGED <<slot, work, deferred>>
              ELSE /\ slot' = [slot EXCEPT ![s] = [@ EXCEPT !.chunk = query.chunks[next + 1],
                                                             !.grown = FALSE]]
                   /\ work' = SubmitDeferred(fails, [work EXCEPT ![s] = "recorded"])
                   /\ deferred' = s
                   /\ IF fails THEN GiveUp ELSE at' = "next" /\ next' = next + 1 /\ UNCHANGED ok
      /\ UNCHANGED <<memory, column, query, got, results, bound, answer, asked, written>>

SubmitLast ==
  /\ at = "next" /\ ok /\ next = QueryChunks
  /\ \E fails \in Fault("submit") :
       /\ (fails => deferred # None) /\ Note(fails)
       /\ work' = SubmitDeferred(fails, work)
       /\ ok' = ~fails
  /\ at' = "drain" /\ next' = 0
  /\ UNCHANGED <<memory, column, query, deferred, slot, got, results, bound, answer,
                 asked, written>>

(* After a failure the slots are only waited for.                          *)
WaitOnly ==
  /\ at = "drain" /\ ~ok /\ next < SlotCount /\ Waited(Current)
  /\ next' = next + 1
  /\ UNCHANGED <<memory, column, query, at, ok, deferred, stream, results, bound, answer, bounds>>

(* What is still held belongs to a chunk that did not complete.             *)
EndStream ==
  LET held == UNION {slot[s].held : s \in SlotIds}
      own  == (UNION {{slot[s].transient[c] : c \in ScanColumns} : s \in SlotIds}) \ {None}
  IN  /\ at = "drain" /\ next = SlotCount
      /\ \A s \in SlotIds : Waited(s)
      /\ memory' = ReleaseAll(Unpin(memory, held, FALSE), own)
      /\ slot' = [s \in SlotIds |-> IdleSlot]
      /\ work' = [s \in SlotIds |-> "none"] /\ got' = [s \in SlotIds |-> <<>>]
      /\ answer' = IF memory.failed THEN "failed" ELSE IF ok THEN "rows" ELSE "cpu"
      /\ at' = "idle"
      /\ UNCHANGED <<column, query, next, ok, deferred, results, bound, bounds>>

-------------------------------------------------------------------------------
(* The device.                                                             *)

SourceOf(s, c) == IF c \in Narrow THEN slot[s].encoded[c] ELSE Rows(c, slot[s].chunk)

Into(s, b) == {copy \in slot[s].copies : copy.to = b}
Written(s, b) == IF Into(s, b) = {} THEN memory.content[b]
                 ELSE SourceOf(s, (CHOOSE copy \in Into(s, b) : TRUE).column)

DeviceCopy(s) ==
  /\ work[s] = "submitted"
  /\ memory' = [memory EXCEPT !.content = [b \in Buffers |-> Written(s, b)]]
  /\ work' = [work EXCEPT ![s] = "copied"]
  /\ UNCHANGED <<column, host, slot, got, results, bound, answer, bounds>>

(* The kernel gives what it found in the buffers it was bound to, with the  *)
(* number of the chunk the host asked for.                                 *)
Found(s) == [chunk |-> slot[s].chunk,
             rows |-> [i \in DOMAIN query.columns |-> memory.content[slot[s].columns[i]]]]

DeviceKernel(s) ==
  /\ work[s] = "copied"
  /\ got' = [got EXCEPT ![s] = Found(s)]
  /\ results' = IF query.kind = "probe" THEN Append(results, Found(s)) ELSE results
  /\ work' = [work EXCEPT ![s] = "done"]
  /\ UNCHANGED <<memory, column, host, slot, bound, answer, bounds>>

-------------------------------------------------------------------------------
(* A scan of columns that fit one buffer each.                             *)

PoolName(c) == <<"scan_col", IF c \in SameName THEN None ELSE c>>
TakenAsUploaded(c) == column[c].upload_generation = column[c].write_generation
PoolHolds(c) == \E i \in DOMAIN memory.pool : /\ memory.pool[i].name = PoolName(c)
                                              /\ memory.pool[i].buffer # None
                                              /\ memory.content[memory.pool[i].buffer] = Rows(c, 0)

BeginWhole == \E order \in Orders : Ask("whole", order, <<>>, FALSE) /\ at' = "bind"

(* The column is taken to be on the device when it was uploaded in this     *)
(* generation; its buffer is then only looked up.                          *)
BindWhole ==
  LET c == query.columns[Len(bound) + 1]
      cached == TakenAsUploaded(c)
      size == IF cached THEN column[c].upload_rows ELSE column[c].rows
  IN  /\ at = "bind" /\ query.kind = "whole" /\ Len(bound) < Len(query.columns)
      /\ cached => PoolHolds(c) \/ "forgotten" \in Histories
      /\ \E refused \in Fault("alloc") :
           \E a \in {AllocPooled(memory, PoolName(c), size,
                                IF cached THEN None ELSE Rows(c, 0), refused)} :
               /\ Note(refused)
               /\ memory' = a.m /\ bound' = Append(bound, a.buffer)
               /\ column' = IF cached THEN column
                            ELSE [column EXCEPT ![c] = [column[c] EXCEPT
                                   !.upload_generation = column[c].write_generation,
                                   !.upload_rows = size]]
      /\ UNCHANGED <<host, stream, results, answer, asked, written>>

-------------------------------------------------------------------------------
(* A column the aggregates keep.                                           *)

BeginResident == \E order \in Orders : Ask("resident", order, <<>>, FALSE) /\ at' = "bind"

AggKnown(c) == /\ column[c].agg_buffer # None
               /\ column[c].agg_generation = column[c].write_generation
LookedUp(c, refused) == AllocPooled(memory, <<"agg", c>>, column[c].rows, None, refused)
Checked(a, c) == IF MadeOf(a.m, <<"agg", c>>) = column[c].agg_buffer
                 THEN a ELSE [m |-> a.m, buffer |-> None]

LookupTrusting(c, refused) ==
  IF AggKnown(c) THEN LookedUp(c, refused) ELSE [m |-> memory, buffer |-> None]

(* The buffer is looked up, and known to hold the column only if it is the  *)
(* one the column was uploaded into (qe_aggregate_resident_lookup).        *)
Lookup(c, refused) ==
  IF AggKnown(c) THEN Checked(LookedUp(c, refused), c) ELSE [m |-> memory, buffer |-> None]

BindResident ==
  LET c == query.columns[Len(bound) + 1]
  IN  /\ at = "bind" /\ query.kind = "resident" /\ Len(bound) < Len(query.columns)
      /\ \E refused \in Fault("alloc") :
           \E l \in {Lookup(c, refused)} :
           \E a \in {IF l.buffer # None THEN l
                     ELSE AllocPooled(l.m, <<"agg", c>>, column[c].rows, Rows(c, 0), refused)} :
               /\ Note(refused)
               /\ memory' = a.m /\ bound' = Append(bound, a.buffer)
               /\ column' = IF a.buffer = None \/ l.buffer # None THEN column
                            ELSE [column EXCEPT ![c] = [column[c] EXCEPT
                                   !.agg_generation = column[c].write_generation,
                                   !.agg_buffer = MadeOf(a.m, <<"agg", c>>)]]
      /\ UNCHANGED <<host, stream, results, answer, asked, written>>

(* Both then run one batch and wait for it.  A kernel with a binding that   *)
(* has no buffer is not run, and that is a failure of the query.           *)
RunWhole ==
  /\ at = "bind" /\ Len(bound) = Len(query.columns)
  /\ LET missing == None \in {bound[i] : i \in DOMAIN bound}
     IN  /\ results' = IF missing THEN <<>>
                       ELSE <<[chunk |-> 0,
                              rows |-> [i \in DOMAIN bound |-> memory.content[bound[i]]]]>>
         /\ memory' = [memory EXCEPT !.failed = @ \/ missing]
         /\ answer' = IF memory.failed \/ missing THEN "failed" ELSE "rows"
  /\ at' = "idle"
  /\ UNCHANGED <<column, query, next, ok, deferred, stream, bound, bounds>>

-------------------------------------------------------------------------------
Host ==
  \/ RetireNothing \/ Retire
  \/ RetireOverflow \/ Prepare \/ Launch \/ SubmitLast \/ WaitOnly \/ EndStream
  \/ BindWhole \/ BindResident \/ RunWhole
Device == \E s \in SlotIds : DeviceCopy(s) \/ DeviceKernel(s)

ScanNext ==
  \/ BeginScan \/ BeginAll \/ BeginWhole \/ BeginResident
  \/ \E c \in ScanColumns : Write(c)
  \/ Host \/ Device

ScanSpec == ScanInit /\ [][ScanNext]_scan_vars

-------------------------------------------------------------------------------

(* A query that answers with rows read every chunk it asked for, once, in   *)
(* order, from buffers that held the rows the columns have now (the probe,  *)
(* whose kernels add to one total, in any order).                          *)
RightRows(r) == \A i \in DOMAIN r.rows : r.rows[i] = Rows(query.columns[i], r.chunk)
Asked == IF query.kind \in {"whole", "resident"} THEN <<0>> ELSE query.chunks
ChunksOf(r) == [i \in DOMAIN r |-> r[i].chunk]

AnswerRight ==
  (answer = "rows") =>
    /\ \A i \in DOMAIN results : RightRows(results[i])
    /\ Len(results) = Len(Asked)
    /\ query.kind # "probe" => ChunksOf(results) = Asked
    /\ {results[i].chunk : i \in DOMAIN results} = {Asked[i] : i \in DOMAIN Asked}

(* What the device has still to do for a slot has a buffer for each column, *)
(* and the buffer is pinned in the cache or is the slot's own: nothing      *)
(* evicts it.  No buffer has two owners.                                   *)
Own(s) == {slot[s].transient[c] : c \in ScanColumns} \ {None}
InUse(s) == {slot[s].columns[i] : i \in DOMAIN slot[s].columns}

InUseIsHeld ==
  /\ \A s \in SlotIds : work[s] \in {"recorded", "submitted", "copied"} =>
       /\ Len(slot[s].columns) = Len(query.columns)
       /\ InUse(s) \subseteq Own(s) \cup Pinned(memory)
  /\ Pooled(memory) \cap Cached(memory) = {}
  /\ \A s \in SlotIds : Own(s) \cap (Pooled(memory) \cup Cached(memory)) = {}
  /\ \A s, t \in SlotIds : s # t => Own(s) \cap Own(t) = {}

=============================================================================
