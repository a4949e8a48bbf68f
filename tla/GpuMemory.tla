------------------------------ MODULE GpuMemory ------------------------------
(***************************************************************************)
(* The device memory a query asks for: the pool of named buffers of         *)
(* gpu_vulkan.c, the cache of resident column chunks of query_exec.c, and   *)
(* the allocation that takes from both when the device is full.  A memory m *)
(* is a record                                                             *)
(*   content : what each buffer holds, Nothing for one that is not allocated *)
(*   pool    : the named buffers in the order they were first asked for      *)
(*   epoch   : pool_epoch, one per query                                    *)
(*   cache   : the chunks in the order of last_use, the oldest first         *)
(*   failed  : whether an allocation failed since the query began            *)
(* Every buffer counts as one unit of device memory.                        *)
(***************************************************************************)
EXTENDS Integers, Sequences, FiniteSets, SequencesExt

CONSTANTS
  Buffers,       (* the buffers that fit on the device                       *)
  Budget,        (* qe_resident_budget, in chunks                            *)
  MaxEntries,    (* QE_RESIDENT_MAX_ENTRIES                                  *)
  None, Nothing, Garbage

ASSUME MemoryAssumption ==
  /\ IsFiniteSet(Buffers) /\ Buffers \subseteq Nat
  /\ Budget \in Nat /\ MaxEntries \in Nat
  /\ None \notin Nat /\ Garbage # Nothing

EmptyMemory ==
  [content |-> [b \in Buffers |-> Nothing], pool |-> <<>>, epoch |-> 0,
   cache |-> <<>>, failed |-> FALSE]

Release(m, b) == IF b = None THEN m ELSE [m EXCEPT !.content[b] = Nothing]
ReleaseAll(m, B) ==
  [m EXCEPT !.content = [b \in Buffers |-> IF b \in B THEN Nothing ELSE m.content[b]]]
Fill(m, b, rows) == [m EXCEPT !.content[b] = rows]

-------------------------------------------------------------------------------
(* Making room: the pool first, then the chunks.                           *)

(* The pooled buffers no running query has looked up, oldest epoch first.   *)
Idle(m) == {i \in DOMAIN m.pool : m.pool[i].buffer # None /\ m.pool[i].epoch < m.epoch}

Vacate(m, i, epoch) ==
  [Release(m, m.pool[i].buffer) EXCEPT
     !.pool[i] = [m.pool[i] EXCEPT !.buffer = None, !.capacity = 0, !.epoch = epoch]]

PoolEvict(m) ==
  LET i == CHOOSE i \in Idle(m) :
             \A k \in Idle(m) : \/ m.pool[i].epoch < m.pool[k].epoch
                                \/ m.pool[i].epoch = m.pool[k].epoch /\ i <= k
  IN  Vacate(m, i, m.pool[i].epoch)

Full(m) == Len(m.cache) >= Budget

(* A chunk read once goes before one read again; of those read once the     *)
(* last one used goes, of the others the one unused the longest.            *)
UnpinnedOrNot(m) == DOMAIN m.cache
Unpinned(m) == {i \in DOMAIN m.cache : m.cache[i].pins = 0}

Victim(m) ==
  LET probation == {i \in Unpinned(m) : m.cache[i].uses <= 1}
  IN  IF probation # {} THEN CHOOSE i \in probation : \A k \in probation : k <= i
                        ELSE CHOOSE i \in Unpinned(m) : \A k \in Unpinned(m) : i <= k

(* The chunks whose buffers are not in B, in their order.                   *)
Others(cache, B) ==
  LET Left[n \in 0 .. Len(cache)] ==
        IF n = 0 THEN <<>>
        ELSE IF cache[n].buffer \in B THEN Left[n - 1] ELSE Append(Left[n - 1], cache[n])
  IN  Left[Len(cache)]

FreeEntries(m, B) == [ReleaseAll(m, B) EXCEPT !.cache = Others(m.cache, B)]
CacheEvict(m) == FreeEntries(m, {m.cache[Victim(m)].buffer})

(* gpu_buffer_alloc: the driver's refusal is answered by one eviction and   *)
(* one more try; a failure is counted against the query.                   *)
Room(m) ==
  CASE \E b \in Buffers : m.content[b] = Nothing -> m
    [] OTHER -> IF Idle(m) # {} THEN PoolEvict(m)
                ELSE IF Unpinned(m) # {} THEN CacheEvict(m) ELSE m

FreeBuffer(m) ==
  LET free == {b \in Buffers : m.content[b] = Nothing}
  IN  IF free = {} THEN None ELSE Min(free)

Taken(m, b) == IF b = None THEN [m |-> [m EXCEPT !.failed = TRUE], buffer |-> None]
                           ELSE [m |-> Fill(m, b, Garbage), buffer |-> b]
TakenFrom(m) == Taken(m, FreeBuffer(m))
Alloc(m, refused) == IF refused THEN Taken(m, None) ELSE TakenFrom(Room(m))

-------------------------------------------------------------------------------
(* The pool of named buffers.  Rows are None when the caller only wants the *)
(* buffer and writes nothing.  Of a name, made counts its allocations: it    *)
(* stands for the address of the buffer's record, which is never reused.   *)

Slot(m, name) == SelectInSeq(m.pool, LAMBDA p : p.name = name)
MadeOf(m, name) == IF Slot(m, name) = 0 THEN 0 ELSE m.pool[Slot(m, name)].made

Put(a, rows) == IF rows = None \/ a.buffer = None THEN a
                ELSE [m |-> Fill(a.m, a.buffer, rows), buffer |-> a.buffer]

(* A new slot of the pool, or the old one without its buffer.               *)
Emptied(m, i, name) ==
  IF i = 0
  THEN [m EXCEPT !.pool = Append(@, [name |-> name, buffer |-> None, capacity |-> 0,
                                     epoch |-> m.epoch, made |-> 0])]
  ELSE Vacate(m, i, m.epoch)

Placed(a, i, size) ==
  IF a.buffer = None THEN a
  ELSE [m |-> [a.m EXCEPT !.pool[i] = [a.m.pool[i] EXCEPT !.buffer = a.buffer,
                                                          !.capacity = size, !.made = @ + 1]],
        buffer |-> a.buffer]

PooledAnew(m, i, size, refused) == Placed(Alloc(m, refused), i, size)

AllocPooled(m, name, size, rows, refused) ==
  LET i == Slot(m, name)
  IN  IF i # 0 /\ m.pool[i].buffer # None /\ size <= m.pool[i].capacity
      THEN Put([m |-> [m EXCEPT !.pool[i] = [m.pool[i] EXCEPT !.epoch = m.epoch]],
                buffer |-> m.pool[i].buffer], rows)
      ELSE Put(PooledAnew(Emptied(m, i, name), IF i = 0 THEN Len(m.pool) + 1 ELSE i,
                          size, refused), rows)

-------------------------------------------------------------------------------
(* The cache of resident chunks.                                           *)

(* A column that was written since takes all its chunks with it, unless a   *)
(* dispatch still uses them.                                               *)
Stale(m, c, generation) ==
  {i \in DOMAIN m.cache : /\ m.cache[i].column = c /\ m.cache[i].generation # generation
                          /\ m.cache[i].pins = 0}

Hits(m, c, generation, chunk) ==
  {i \in DOMAIN m.cache : /\ m.cache[i].column = c /\ m.cache[i].generation = generation
                          /\ m.cache[i].ready /\ m.cache[i].chunk = chunk}

DropStale(m, c, generation) ==
  FreeEntries(m, {m.cache[i].buffer : i \in Stale(m, c, generation)})

(* Pins the chunk if it is held.  Otherwise makes room within the budget    *)
(* and takes a new buffer, which is not found by anyone until its rows are  *)
(* known to be in it.                                                      *)
NewEntry(c, generation, chunk, b) ==
  [column |-> c, generation |-> generation, chunk |-> chunk, buffer |-> b,
   ready |-> FALSE, uses |-> 1, pins |-> 1]

Pin(m, i) ==
  [m EXCEPT !.cache = Append(Others(m.cache, {m.cache[i].buffer}),
                             [m.cache[i] EXCEPT !.uses = 2, !.pins = @ + 1])]

Kept(a, c, generation, chunk) ==
  IF a.buffer = None THEN [m |-> a.m, buffer |-> None, needs_copy |-> FALSE]
  ELSE [m |-> [a.m EXCEPT !.cache = Append(@, NewEntry(c, generation, chunk, a.buffer))],
        buffer |-> a.buffer, needs_copy |-> TRUE]

AcquireAfter(m, c, generation, chunk, refused) ==
  LET hits == Hits(m, c, generation, chunk)
      hit  == CHOOSE i \in hits : TRUE
  IN  CASE hits # {} ->
             [m |-> Pin(m, hit), buffer |-> m.cache[hit].buffer, needs_copy |-> FALSE]
        [] /\ hits = {}
           /\ \/ Len(m.cache) >= MaxEntries \/ Budget = 0
              \/ Full(m) /\ Unpinned(m) = {} ->
             [m |-> m, buffer |-> None, needs_copy |-> FALSE]
        [] OTHER ->
             Kept(Alloc(IF Full(m) THEN CacheEvict(m) ELSE m, refused), c, generation, chunk)

Acquire(m, c, generation, chunk, refused) ==
  AcquireAfter(DropStale(m, c, generation), c, generation, chunk, refused)

(* completed says that the rows are in the buffers; a chunk that was never  *)
(* filled is freed by the last one to let go of it.                        *)
LetGo(e, completed) ==
  [e EXCEPT !.pins = IF @ > 0 THEN @ - 1 ELSE 0, !.ready = @ \/ completed]

AllLetGo(m, held, completed) ==
  [m EXCEPT !.cache = [i \in DOMAIN m.cache |-> IF m.cache[i].buffer \in held
                                                THEN LetGo(m.cache[i], completed)
                                                ELSE m.cache[i]]]
NeverFilled(m, held) ==
  {m.cache[i].buffer : i \in {k \in DOMAIN m.cache : /\ m.cache[k].buffer \in held
                                                     /\ ~m.cache[k].ready
                                                     /\ m.cache[k].pins = 0}}

(* A chunk's columns, given back together.                                 *)
Unpin(m, held, completed) ==
  LET n == AllLetGo(m, held, completed) IN FreeEntries(n, NeverFilled(n, held))

-------------------------------------------------------------------------------
(* Who owns the buffers that are allocated.                                *)

Pooled(m) == {m.pool[i].buffer : i \in DOMAIN m.pool} \ {None}
Cached(m) == {m.cache[i].buffer : i \in DOMAIN m.cache}
Pinned(m) == {m.cache[i].buffer : i \in {k \in DOMAIN m.cache : m.cache[k].pins > 0}}
=============================================================================
