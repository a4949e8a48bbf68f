--------------------------- MODULE ThreadPoolProofs ---------------------------
(***************************************************************************)
(* Proofs about the thread pool and about parallel loops, for every number  *)
(* of workers, tasks, calls and items.  The argument: while ids are handed  *)
(* out, the ids above the counter task_left are exactly those counted as    *)
(* done and those held by one thread each, so task_done, which counts the   *)
(* former, reaches n only when nobody holds an id any more.  A loop's steps *)
(* are steps of the pool; what is new there is that an item has been        *)
(* handled exactly when the task whose range it is in has left its task     *)
(* function.                                                               *)
(***************************************************************************)
EXTENDS ParallelLoop, FiniteSetTheorems, TLAPS

-------------------------------------------------------------------------------
(* The ranges of rows tp_divide_work hands to the tasks, for any number of  *)
(* items and of workers.  The provers do not multiply variables well, so    *)
(* the facts about products are lemmas of their own.                       *)

LEMMA DivBounds ==
  ASSUME NEW a \in Nat, NEW b \in Nat \ {0}
  PROVE  a \div b \in Nat /\ b * (a \div b) <= a /\ a < b * (a \div b) + b
OBVIOUS

LEMMA CeilBounds ==
  ASSUME NEW a \in Nat, NEW b \in Nat \ {0}
  PROVE  CeilIntegerDiv(a, b) \in Nat /\ a <= b * CeilIntegerDiv(a, b)
<1>1. a + b - 1 \in Nat
  OBVIOUS
<1>2. /\ (a + b - 1) \div b \in Nat
      /\ a + b - 1 < b * ((a + b - 1) \div b) + b
  BY <1>1, DivBounds
<1> QED BY <1>2 DEF CeilIntegerDiv

LEMMA Product ==
  ASSUME NEW a \in Nat, NEW b \in Nat, NEW c \in Nat, a < b
  PROVE  a * c \in Nat /\ b * c \in Nat /\ a * c + c <= b * c
<1>1. b = a + 1 + (b - a - 1) /\ b - a - 1 \in Nat
  OBVIOUS
<1>2. \A d \in Nat : (a + 1 + d) * c = a * c + c + d * c /\ d * c \in Nat
  OBVIOUS
<1> QED BY <1>1, <1>2

(* R splits m items over w workers, p to each as long as there are any.     *)
IsSplit(R, m, w, p) ==
  /\ m <= w * p
  /\ R[w] = [min |-> m, max |-> m]
  /\ \A i \in 0 .. w - 1 : R[i].min = MinOf(m, i * p) /\ R[i].max = MinOf(m, i * p + p)

LEMMA DividedRanges ==
  ASSUME NEW m \in Nat, NEW w \in Nat \ {0}
  PROVE  \E p \in Nat : IsSplit(DivideWork(m, w), m, w, p)
<1>1. CeilIntegerDiv(m, w) \in Nat /\ m <= w * CeilIntegerDiv(m, w)
  BY CeilBounds
<1>2. DivideWork(m, w)[w] = [min |-> m, max |-> m]
  BY DEF DivideWork
<1>3. \A i \in 0 .. w - 1 : DivideWork(m, w)[i] = WorkRange(m, CeilIntegerDiv(m, w), i)
  BY DEF DivideWork
<1>4. ASSUME NEW c \in Nat, m <= w * c, c = CeilIntegerDiv(m, w)
      PROVE  IsSplit(DivideWork(m, w), m, w, c)
  <2>1. \A i \in 0 .. w - 1 : DivideWork(m, w)[i] = WorkRange(m, c, i)
    BY <1>3, <1>4
  <2>2. \A i \in 0 .. w - 1 : /\ DivideWork(m, w)[i].min = MinOf(m, i * c)
                              /\ DivideWork(m, w)[i].max = MinOf(m, i * c + c)
    <3> TAKE i \in 0 .. w - 1
    <3> DEFINE lo == MinOf(m, i * c)
               hi == MinOf(m, i * c + c)
    <3>1. DivideWork(m, w)[i] = [min |-> lo, max |-> hi]
      BY <2>1 DEF WorkRange
    <3> HIDE DEF lo, hi
    <3>2. DivideWork(m, w)[i].min = lo /\ DivideWork(m, w)[i].max = hi
      BY <3>1
    <3> QED BY <3>2 DEF lo, hi
  <2> QED BY <1>2, <1>4, <2>2 DEF IsSplit
<1> QED BY <1>1, <1>4

(* An item in the range of a worker lies between two products.             *)
LEMMA InSplit ==
  ASSUME NEW R, NEW m \in Nat, NEW w \in Nat \ {0}, NEW p \in Nat, IsSplit(R, m, w, p),
         NEW x \in 0 .. m - 1, NEW i \in 0 .. w, InRange(x, R[i])
  PROVE  i < w /\ i \in Nat /\ i * p \in Nat /\ i * p <= x /\ x < i * p + p
<1>1. i # w
  BY DEF InRange, IsSplit
<1>2. i \in Nat /\ i < w /\ i * p \in Nat
  BY <1>1
<1>3. R[i].min = MinOf(m, i * p) /\ R[i].max = MinOf(m, i * p + p)
  BY <1>2 DEF IsSplit
<1> QED BY <1>2, <1>3 DEF InRange, MinOf

LEMMA SplitCovers ==
  ASSUME NEW R, NEW m \in Nat, NEW w \in Nat \ {0}, NEW p \in Nat, IsSplit(R, m, w, p),
         NEW x \in 0 .. m - 1
  PROVE  \E i \in 0 .. w - 1 : InRange(x, R[i])
<1> DEFINE k == x \div p
<1>1. x \in Nat /\ x < m /\ m <= w * p
  BY DEF IsSplit
<1>2. p # 0
  BY <1>1
<1>3. k \in Nat /\ p * k <= x /\ x < p * k + p
  BY <1>1, <1>2, DivBounds
<1> HIDE DEF k
<1>4. k * p = p * k /\ k * p \in Nat
  BY <1>3
<1>5. k < w
  <2>1. ASSUME w < k PROVE FALSE
    BY <2>1, <1>1, <1>3, <1>4, Product
  <2>2. k # w
    BY <1>1, <1>3, <1>4
  <2> QED BY <2>1, <2>2, <1>3
<1>6. k \in 0 .. w - 1
  BY <1>3, <1>5
<1>7. R[k].min = MinOf(m, k * p) /\ R[k].max = MinOf(m, k * p + p)
  BY <1>6 DEF IsSplit
<1>8. InRange(x, R[k])
  BY <1>7, <1>1, <1>3, <1>4 DEF InRange, MinOf
<1> QED BY <1>6, <1>8

LEMMA SplitDisjoint ==
  ASSUME NEW R, NEW m \in Nat, NEW w \in Nat \ {0}, NEW p \in Nat, IsSplit(R, m, w, p),
         NEW x \in 0 .. m - 1, NEW i \in 0 .. w, NEW j \in 0 .. w,
         InRange(x, R[i]), InRange(x, R[j])
  PROVE  i = j
<1>1. i \in Nat /\ i * p \in Nat /\ i * p <= x /\ x < i * p + p
  BY InSplit
<1>2. j \in Nat /\ j * p \in Nat /\ j * p <= x /\ x < j * p + p
  BY InSplit
<1>3. ~(i < j)
  BY <1>1, <1>2, Product
<1>4. ~(j < i)
  BY <1>1, <1>2, Product
<1> QED BY <1>1, <1>2, <1>3, <1>4

LEMMA SplitBounded ==
  ASSUME NEW R, NEW m \in Nat, NEW w \in Nat \ {0}, NEW p \in Nat, IsSplit(R, m, w, p),
         NEW i \in 0 .. w
  PROVE  R[i].max <= m
<1>1. CASE i = w
  BY <1>1 DEF IsSplit
<1>2. CASE i # w
  <2>1. i \in 0 .. w - 1
    BY <1>2
  <2>2. i * p + p \in Nat /\ R[i].max = MinOf(m, i * p + p)
    BY <2>1 DEF IsSplit
  <2> QED BY <2>2 DEF MinOf
<1> QED BY <1>1, <1>2

(* Every item is in the range of exactly one worker, and no range reaches   *)
(* past the items, whatever the number of items and of workers             *)
(* (tp_divide_work).                                                       *)
THEOREM RangesPartition ==
  ASSUME NEW m \in Nat, NEW w \in Nat \ {0}
  PROVE  /\ \A x \in 0 .. m - 1 :
              \E i \in 0 .. w - 1 : InRange(x, DivideWork(m, w)[i])
         /\ \A x \in 0 .. m - 1 : \A i, j \in 0 .. w :
              InRange(x, DivideWork(m, w)[i]) /\ InRange(x, DivideWork(m, w)[j]) => i = j
         /\ \A i \in 0 .. w : DivideWork(m, w)[i].max <= m
<1>1. PICK p \in Nat : IsSplit(DivideWork(m, w), m, w, p)
  BY DividedRanges
<1>2. \A x \in 0 .. m - 1 : \E i \in 0 .. w - 1 : InRange(x, DivideWork(m, w)[i])
  BY <1>1, SplitCovers
<1>3. \A x \in 0 .. m - 1 : \A i, j \in 0 .. w :
        InRange(x, DivideWork(m, w)[i]) /\ InRange(x, DivideWork(m, w)[j]) => i = j
  BY <1>1, SplitDisjoint
<1>4. \A i \in 0 .. w : DivideWork(m, w)[i].max <= m
  BY <1>1, SplitBounded
<1> QED BY <1>2, <1>3, <1>4

(* The ranges follow each other from the first item to the last one        *)
(* (tp_divide_work).                                                       *)
THEOREM RangesAreContiguous ==
  ASSUME NEW m \in Nat, NEW w \in Nat \ {0}
  PROVE  /\ DivideWork(m, w)[0].min = 0
         /\ \A i \in 0 .. w - 1 :
              /\ DivideWork(m, w)[i].min <= DivideWork(m, w)[i].max
              /\ DivideWork(m, w)[i].max = DivideWork(m, w)[i + 1].min
<1>1. PICK p \in Nat : IsSplit(DivideWork(m, w), m, w, p)
  BY DividedRanges
<1>2. DivideWork(m, w)[0].min = 0
  <2>1. 0 \in 0 .. w - 1 /\ 0 * p = 0
    OBVIOUS
  <2>2. DivideWork(m, w)[0].min = MinOf(m, 0 * p)
    BY <1>1, <2>1 DEF IsSplit
  <2> QED BY <2>1, <2>2 DEF MinOf
<1>3. ASSUME NEW i \in 0 .. w - 1
      PROVE  /\ DivideWork(m, w)[i].min <= DivideWork(m, w)[i].max
             /\ DivideWork(m, w)[i].max = DivideWork(m, w)[i + 1].min
  <2>1. i \in Nat /\ i * p \in Nat /\ (i + 1) * p = i * p + p
    OBVIOUS
  <2>2. /\ DivideWork(m, w)[i].min = MinOf(m, i * p)
        /\ DivideWork(m, w)[i].max = MinOf(m, i * p + p)
    BY <1>1 DEF IsSplit
  <2>3. CASE i + 1 < w
    <3>1. DivideWork(m, w)[i + 1].min = MinOf(m, i * p + p)
      BY <1>1, <2>1, <2>3 DEF IsSplit
    <3> QED BY <2>1, <2>2, <3>1 DEF MinOf
  <2>4. CASE i + 1 = w
    <3>1. DivideWork(m, w)[i + 1].min = m /\ m <= i * p + p
      BY <1>1, <2>1, <2>4 DEF IsSplit
    <3> QED BY <2>1, <2>2, <3>1 DEF MinOf
  <2> QED BY <2>3, <2>4
<1> QED BY <1>2, <1>3

-------------------------------------------------------------------------------

(* The ids of the call are being handed out.                               *)
Open == pc[0] \in TaskPCs \cup {"drop_exec", "drop_task", "join"}

(* The id a thread took from the counter.                                  *)
Taken(t) == n - 1 - left[t]

(* Outside a call nothing is handed out: a late decrement finds no id.     *)
ClosedInv ==
  ~Open => /\ task_left <= 0
           /\ main_semaphore = 0
           /\ \A t \in Threads : ~InFlight(t)

(* What thread 0 has written so far.                                       *)
SetupInv ==
  /\ Busy => n \in 1 .. MaxTasks
  /\ ~Busy => ran = 0 .. n - 1
  /\ Busy /\ ~Open => ran = {}
  /\ pc[0] \in {"set_count", "set_done", "set_left"} => task_func = call
  /\ pc[0] \in {"set_done", "set_left"} => task_count = n
  /\ pc[0] = "set_left" => task_done = 0

(* The ids above task_left are the ones done and the ones held.            *)
IdsInv ==
  Open =>
    /\ task_func = call
    /\ task_count = n
    /\ task_left <= n
    /\ ran \subseteq 0 .. n - 1
    /\ task_done = Cardinality(ran)
    /\ \A t \in Threads : InFlight(t) =>
         /\ left[t] \in 0 .. n - 1
         /\ left[t] >= task_left
         /\ Taken(t) \notin ran
         /\ \A u \in Threads : InFlight(u) /\ left[u] = left[t] => u = t
    /\ \A i \in 0 .. n - 1 : n - 1 - i >= task_left =>
         i \in ran \/ \E t \in Threads : InFlight(t) /\ Taken(t) = i
    /\ \A i \in ran : n - 1 - i >= task_left

(* What a thread inside the loop has read.                                 *)
LocalsInv ==
  Open =>
    /\ \A t \in Threads : Running(t) => held[t] = [func |-> call, id |-> Taken(t)]
    /\ \A t \in Threads : pc[t] = "count_done" => seen[t] = n
    /\ pc[0] = "join" => task_left < 0

(* The wake-up of thread 0 is there exactly when every id is done.         *)
WakeInv ==
  Open => main_semaphore = IF HasSemaphores /\ ran = 0 .. n - 1 THEN 1 ELSE 0

IInv == TypeOK /\ ClosedInv /\ SetupInv /\ IdsInv /\ LocalsInv /\ WakeInv

LEMMA InitInv == Init => IInv
<1> SUFFICES ASSUME Init PROVE IInv
  OBVIOUS
<1> USE PoolAssumption
<1>1. TypeOK
  BY DEF Init, TypeOK, PoolType, SemType, PcType, LocalsType, CallType, Threads,
         Workers, Ids, TaskSet, NoTask, TaskMax, MainPCs, TaskPCs, WorkerPCs
<1>2. ~Busy /\ ~Open /\ pc[0] = "ready"
  BY DEF Init, Busy, Open, Threads, TaskPCs
<1>3. \A t \in Threads : ~InFlight(t)
  BY DEF Init, InFlight
<1>4. ran = 0 .. n - 1
  BY DEF Init
<1> QED
  BY <1>1, <1>2, <1>3, <1>4
     DEF Init, IInv, ClosedInv, SetupInv, IdsInv, LocalsInv, WakeInv

(* A step that writes no field the ids depend on and moves no thread into, *)
(* out of or inside a task keeps the invariant.                            *)
Quiet ==
  /\ UNCHANGED <<task_func, task_count, task_done, task_left, main_semaphore,
                 left, held, seen, call, n, ran>>
  /\ pc'[0] \in MainPCs \cup TaskPCs
  /\ Open' = Open
  /\ Busy' = Busy
  /\ pc'[0] \in {"set_count", "set_done", "set_left", "join"} => pc'[0] = pc[0]
  /\ \A t \in Threads : InFlight(t)' = InFlight(t)
  /\ \A t \in Threads : InFlight(t) => pc'[t] = pc[t]

LEMMA QuietInv ==
  ASSUME IInv, TypeOK', Quiet
  PROVE  IInv'
<1>1. ClosedInv'
  BY DEF IInv, ClosedInv, Quiet
<1>2. SetupInv'
  BY DEF IInv, SetupInv, Quiet
<1>3. IdsInv'
  BY DEF IInv, IdsInv, Quiet, Taken
<1>4. LocalsInv'
  <2>1. \A t \in Threads : Running(t)' => Running(t) /\ InFlight(t)
    BY DEF Quiet, Running, InFlight
  <2>2. \A t \in Threads : pc'[t] = "count_done" => pc[t] = "count_done"
    BY DEF Quiet, InFlight
  <2> QED BY <2>1, <2>2 DEF IInv, LocalsInv, Quiet, Taken
<1>5. WakeInv'
  BY DEF IInv, WakeInv, Quiet
<1> QED BY <1>1, <1>2, <1>3, <1>4, <1>5 DEF IInv

-------------------------------------------------------------------------------
(* The quiet steps: semaphore drops of thread 0, the loop of the workers,  *)
(* the other processes and tp_release.                                     *)

LEMMA DropExecInv == IInv /\ DropExec => IInv'
<1> SUFFICES ASSUME IInv, DropExec PROVE IInv'
  OBVIOUS
<1> USE PoolAssumption
<1>1. TypeOK'
  <2>1. PoolType' /\ LocalsType'
    BY DEF IInv, TypeOK, PoolType, LocalsType, DropExec, poolVars, threadVars
  <2>2. SemType'
    BY DEF IInv, TypeOK, SemType, DropExec, Dropped, TaskMax
  <2>3. PcType'
    BY DEF IInv, TypeOK, PcType, DropExec, Goto, Threads, Workers, MainPCs
  <2>4. CallType'
    BY DEF IInv, TypeOK, CallType, DropExec, DropCount
  <2> QED BY <2>1, <2>2, <2>3, <2>4 DEF TypeOK
<1>2. Quiet
  BY DEF IInv, TypeOK, PcType, DropExec, Goto, Quiet, Threads, Workers, MainPCs, TaskPCs,
         Open, Busy, InFlight, poolVars, threadVars
<1> QED BY <1>1, <1>2, QuietInv

LEMMA DropTaskInv == IInv /\ DropTask => IInv'
<1> SUFFICES ASSUME IInv, DropTask PROVE IInv'
  OBVIOUS
<1> USE PoolAssumption
<1>1. TypeOK'
  <2>1. PoolType' /\ LocalsType'
    BY DEF IInv, TypeOK, PoolType, LocalsType, DropTask, poolVars, threadVars
  <2>2. SemType'
    BY DEF IInv, TypeOK, SemType, DropTask, Dropped, TaskMax
  <2>3. PcType'
    BY DEF IInv, TypeOK, PcType, DropTask, Goto, Threads, Workers, TaskPCs
  <2>4. CallType'
    BY DEF IInv, TypeOK, CallType, DropTask
  <2> QED BY <2>1, <2>2, <2>3, <2>4 DEF TypeOK
<1>2. Quiet
  BY DEF IInv, TypeOK, PcType, DropTask, Goto, Quiet, Threads, Workers, MainPCs, TaskPCs,
         Open, Busy, InFlight, poolVars, threadVars
<1> QED BY <1>1, <1>2, QuietInv

LEMMA WorkerLoopInv ==
  ASSUME NEW t \in Workers, IInv, WorkerLoop(t)
  PROVE  IInv'
<1> USE PoolAssumption
<1>1. TypeOK'
  <2>1. PoolType' /\ LocalsType' /\ CallType'
    BY DEF IInv, TypeOK, PoolType, LocalsType, CallType, WorkerLoop, CheckLive, WaitExec,
           WaitTask, TakeExec, TakeTask, poolVars, threadVars, callVars
  <2>2. SemType'
    BY DEF IInv, TypeOK, SemType, WorkerLoop, CheckLive, WaitExec, WaitTask, TakeExec, TakeTask, semVars, TaskMax
  <2>3. PcType'
    BY DEF IInv, TypeOK, PcType, WorkerLoop, CheckLive, WaitExec, WaitTask, TakeExec, TakeTask, Goto, Threads,
           Workers, WorkerPCs, TaskPCs
  <2> QED BY <2>1, <2>2, <2>3 DEF TypeOK
<1>2. Quiet
  <2>1. UNCHANGED <<poolVars, main_semaphore, threadVars, callVars, ran>>
    BY DEF WorkerLoop, CheckLive, WaitExec, WaitTask, TakeExec, TakeTask, semVars
  <2>2. pc'[0] = pc[0] /\ t # 0 /\ 0 \in Threads
    BY DEF IInv, TypeOK, PcType, WorkerLoop, CheckLive, WaitExec, WaitTask, TakeExec, TakeTask, Goto, Threads, Workers
  <2>3. \A u \in Threads : u # t => pc'[u] = pc[u]
    BY DEF IInv, TypeOK, PcType, WorkerLoop, CheckLive, WaitExec, WaitTask, TakeExec, TakeTask, Goto, Threads, Workers
  <2>4. pc[t] \notin {"fetch", "running", "count_done"} /\ pc'[t] \notin {"fetch", "running", "count_done"}
    BY DEF IInv, TypeOK, PcType, WorkerLoop, CheckLive, WaitExec, WaitTask, TakeExec, TakeTask, Goto, Threads, Workers
  <2> QED
    BY <2>1, <2>2, <2>3, <2>4
       DEF Quiet, IInv, TypeOK, PcType, Open, Busy, InFlight, poolVars, threadVars, callVars
<1> QED BY <1>1, <1>2, QuietInv

LEMMA OtherProcessInv == IInv /\ OtherProcess => IInv'
<1> SUFFICES ASSUME IInv, OtherProcess PROVE IInv'
  OBVIOUS
<1> USE PoolAssumption
<1>1. TypeOK'
  BY DEF IInv, TypeOK, PoolType, SemType, PcType, LocalsType, CallType, OtherProcess,
         poolVars, threadVars, callVars, TaskMax
<1>2. Quiet
  BY DEF IInv, TypeOK, PcType, OtherProcess, Quiet, Open, Busy, InFlight, poolVars,
         threadVars, callVars
<1> QED BY <1>1, <1>2, QuietInv

LEMMA ReleaseInv == IInv /\ (Release \/ ReleaseDropExec \/ ReleaseDropTask \/ CloseHandles) => IInv'
<1> SUFFICES ASSUME IInv, Release \/ ReleaseDropExec \/ ReleaseDropTask \/ CloseHandles
             PROVE  IInv'
  OBVIOUS
<1> USE PoolAssumption
<1>1. TypeOK'
  <2>1. PoolType' /\ LocalsType' /\ CallType'
    <3>1. /\ UNCHANGED <<task_func, task_count, task_done, task_left, threadVars, call, n, ran>>
          /\ is_live' = is_live \/ is_live' = FALSE
      BY DEF Release, ReleaseDropExec, ReleaseDropTask, CloseHandles, poolVars, callVars
    <3>2. drops' \in 0 .. WorkerCount
      BY DEF IInv, TypeOK, CallType, Release, ReleaseDropExec, ReleaseDropTask, CloseHandles,
             callVars
    <3> QED
      BY <3>1, <3>2 DEF IInv, TypeOK, PoolType, LocalsType, CallType, threadVars
  <2>2. SemType'
    <3>1. CASE Release \/ CloseHandles
      BY <3>1 DEF IInv, TypeOK, SemType, Release, CloseHandles, semVars
    <3>2. CASE ReleaseDropExec
      BY <3>2 DEF IInv, TypeOK, SemType, ReleaseDropExec, Dropped
    <3>3. CASE ReleaseDropTask
      BY <3>3 DEF IInv, TypeOK, SemType, ReleaseDropTask, Dropped, TaskMax
    <3> QED BY <3>1, <3>2, <3>3
  <2>3. PcType'
    <3>1. \/ pc' = pc
          \/ \E to \in {"release_exec", "release_task", "close", "zero"} : pc' = [pc EXCEPT ![0] = to]
      BY DEF Release, ReleaseDropExec, ReleaseDropTask, CloseHandles, Goto
    <3> QED BY <3>1 DEF IInv, TypeOK, PcType, Threads, Workers, MainPCs
  <2> QED BY <2>1, <2>2, <2>3 DEF TypeOK
<1>2. Quiet
  BY DEF IInv, TypeOK, PcType, Release, ReleaseDropExec, ReleaseDropTask, CloseHandles, Goto,
         Quiet, Threads, Workers, MainPCs, TaskPCs, Open, Busy, InFlight, poolVars, semVars,
         threadVars, callVars
<1> QED BY <1>1, <1>2, QuietInv

-------------------------------------------------------------------------------
(* The steps of tp_for_parallel before the ids are handed out.             *)

LEMMA CallInv ==
  ASSUME NEW k \in 1 .. MaxTasks, IInv, CallForParallel(k)
  PROVE  IInv'
<1> USE PoolAssumption
<1>0. pc[0] = "ready" /\ ~Busy /\ ~Open
  BY DEF CallForParallel, Busy, Open, TaskPCs
<1>1. pc' = [pc EXCEPT ![0] = "set_func"] /\ pc'[0] = "set_func"
  BY DEF CallForParallel, Goto, IInv, TypeOK, PcType, Threads
<1>2. Busy' /\ ~Open'
  BY <1>1 DEF Busy, Open, TaskPCs
<1>3. TypeOK'
  <2>1. PcType'
    BY <1>1 DEF IInv, TypeOK, PcType, Threads, Workers, MainPCs
  <2>2. CallType'
    BY DEF IInv, TypeOK, CallType, CallForParallel
  <2> QED
    BY <2>1, <2>2 DEF IInv, TypeOK, PoolType, SemType, LocalsType, CallForParallel, poolVars,
                      semVars, threadVars
<1>4. ClosedInv'
  BY <1>0, <1>1 DEF IInv, ClosedInv, CallForParallel, poolVars, semVars, InFlight, TypeOK,
                    PcType
<1>5. SetupInv'
  BY <1>1, <1>2 DEF CallForParallel, SetupInv
<1> QED
  BY <1>2, <1>3, <1>4, <1>5 DEF IInv, IdsInv, LocalsInv, WakeInv

LEMMA SetFieldsInv == IInv /\ (SetFunc \/ SetCount \/ SetDone) => IInv'
<1> SUFFICES ASSUME IInv, SetFunc \/ SetCount \/ SetDone PROVE IInv'
  OBVIOUS
<1> USE PoolAssumption
<1>0. Busy /\ ~Open /\ pc[0] \in {"set_func", "set_count", "set_done"}
  BY DEF SetFunc, SetCount, SetDone, Busy, Open, TaskPCs
<1>1. \E to \in {"set_count", "set_done", "set_left"} :
         pc' = [pc EXCEPT ![0] = to] /\ pc'[0] = to
  BY DEF SetFunc, SetCount, SetDone, Goto, IInv, TypeOK, PcType, Threads
<1>2. Busy' /\ ~Open'
  BY <1>1 DEF Busy, Open, TaskPCs
<1>3. UNCHANGED <<is_live, task_left, semVars, threadVars, callVars, ran>>
  BY DEF SetFunc, SetCount, SetDone
<1>4. TypeOK'
  <2>1. PcType'
    BY <1>1 DEF IInv, TypeOK, PcType, Threads, Workers, MainPCs
  <2>2. PoolType'
    BY <1>3 DEF IInv, TypeOK, PoolType, CallType, SetFunc, SetCount, SetDone
  <2> QED
    BY <1>3, <2>1, <2>2 DEF IInv, TypeOK, SemType, LocalsType, CallType, semVars, threadVars,
                            callVars
<1>5. ClosedInv'
  BY <1>0, <1>1, <1>3 DEF IInv, ClosedInv, semVars, InFlight, TypeOK, PcType
<1>6. SetupInv'
  <2>1. (n \in 1 .. MaxTasks /\ ran = {})'
    BY <1>0, <1>3 DEF IInv, SetupInv, callVars
  <2>2. pc'[0] \in {"set_count", "set_done", "set_left"} => task_func' = call'
    BY <1>0, <1>3 DEF IInv, SetupInv, SetFunc, SetCount, SetDone, callVars
  <2>3. pc'[0] \in {"set_done", "set_left"} => task_count' = n'
    BY <1>0, <1>3 DEF IInv, SetupInv, SetFunc, SetCount, SetDone, callVars, Goto, TypeOK,
                      PcType, Threads
  <2>4. pc'[0] = "set_left" => task_done' = 0
    BY <1>0, <1>3 DEF SetFunc, SetCount, SetDone, Goto, IInv, TypeOK, PcType, Threads
  <2> QED BY <1>2, <2>1, <2>2, <2>3, <2>4 DEF SetupInv
<1> QED
  BY <1>2, <1>4, <1>5, <1>6 DEF IInv, IdsInv, LocalsInv, WakeInv

LEMMA SetLeftInv == IInv /\ SetLeft => IInv'
<1> SUFFICES ASSUME IInv, SetLeft PROVE IInv'
  OBVIOUS
<1> USE PoolAssumption
<1>0. pc[0] = "set_left" /\ Busy /\ ~Open
  BY DEF SetLeft, Busy, Open, TaskPCs
<1>1. \E to \in {"drop_exec", "drop_task"} : pc' = [pc EXCEPT ![0] = to] /\ pc'[0] = to
  <2>1. 0 \in DOMAIN pc
    BY DEF IInv, TypeOK, PcType, Threads
  <2>2. CASE Shared
    BY <2>1, <2>2 DEF SetLeft, Goto
  <2>3. CASE ~Shared
    BY <2>1, <2>3 DEF SetLeft, Goto
  <2> QED BY <2>2, <2>3
<1>2. Busy' /\ Open'
  BY <1>1 DEF Busy, Open, TaskPCs
<1>3. /\ n \in 1 .. MaxTasks /\ ran = {} /\ task_func = call /\ task_count = n
      /\ task_done = 0 /\ main_semaphore = 0
  BY <1>0 DEF IInv, SetupInv, ClosedInv
<1>4. /\ UNCHANGED <<is_live, task_func, task_count, task_done, semVars, threadVars, call, n, ran>>
      /\ task_left' = n
  BY DEF SetLeft
<1>5. \A t \in Threads : ~InFlight(t)'
  BY <1>0, <1>1 DEF IInv, ClosedInv, InFlight, TypeOK, PcType
<1>6. TypeOK'
  <2>1. PcType'
    BY <1>1 DEF IInv, TypeOK, PcType, Threads, Workers, MainPCs
  <2>2. CallType' /\ PoolType'
    BY <1>3, <1>4 DEF IInv, TypeOK, CallType, PoolType, SetLeft, DropCount
  <2> QED
    BY <1>4, <2>1, <2>2 DEF IInv, TypeOK, SemType, LocalsType, semVars, threadVars
<1>7. IdsInv'
  <2>1. Cardinality(ran') = 0
    BY <1>3, <1>4, FS_EmptySet
  <2> QED BY <1>3, <1>4, <1>5, <2>1 DEF IdsInv
<1>8. LocalsInv' /\ WakeInv'
  <2>1. ran' # 0 .. n' - 1
    BY <1>3, <1>4
  <2>2. pc'[0] # "join"
    BY <1>1
  <2> QED
    BY <1>3, <1>4, <1>5, <2>1, <2>2 DEF LocalsInv, WakeInv, InFlight, Running, semVars
<1> QED
  BY <1>1, <1>2, <1>3, <1>4, <1>6, <1>7, <1>8 DEF IInv, ClosedInv, SetupInv

-------------------------------------------------------------------------------
(* The steps of tp_run_tasks.                                              *)

(* What is known of the pool while ids are handed out.                     *)
LEMMA OpenFacts ==
  ASSUME IInv, Open
  PROVE  /\ Busy /\ n \in 1 .. MaxTasks /\ n \in Nat
         /\ task_func = call /\ task_count = n /\ task_left \in Int
         /\ IsFiniteSet(ran) /\ IsFiniteSet(0 .. n - 1)
         /\ Cardinality(0 .. n - 1) = n
<1> USE PoolAssumption
<1>1. Busy /\ n \in 1 .. MaxTasks /\ n \in Nat
  BY DEF IInv, SetupInv, Open, Busy
<1>2. IsFiniteSet(0 .. n - 1) /\ Cardinality(0 .. n - 1) = n
  BY <1>1, FS_Interval
<1>3. IsFiniteSet(ran)
  BY <1>2, FS_Subset DEF IInv, IdsInv
<1> QED
  BY <1>1, <1>2, <1>3 DEF IInv, IdsInv, TypeOK, PoolType

(* Once every id is counted as done no thread holds one and none is left.  *)
LEMMA AllDone ==
  ASSUME IInv, Open, ran = 0 .. n - 1
  PROVE  task_left <= 0 /\ \A t \in Threads : ~InFlight(t)
<1>1. task_left <= 0
  <2>1. n - 1 \in ran /\ n - 1 - (n - 1) = 0
    BY OpenFacts
  <2> QED BY <2>1 DEF IInv, IdsInv
<1>2. ASSUME NEW t \in Threads, InFlight(t) PROVE FALSE
  <2>1. left[t] \in 0 .. n - 1 /\ Taken(t) \notin ran
    BY <1>2 DEF IInv, IdsInv
  <2>2. Taken(t) \in 0 .. n - 1
    BY <2>1, OpenFacts DEF Taken
  <2> QED BY <2>1, <2>2
<1> QED BY <1>1, <1>2

LEMMA JoinInv == IInv /\ Join => IInv'
<1> SUFFICES ASSUME IInv, Join PROVE IInv'
  OBVIOUS
<1> USE PoolAssumption
<1>0. pc[0] = "join" /\ Busy /\ Open
  BY DEF Join, Busy, Open
<1>1. pc' = [pc EXCEPT ![0] = "ready"] /\ pc'[0] = "ready"
  BY DEF Join, Goto, IInv, TypeOK, PcType, Threads
<1>2. ~Busy' /\ ~Open'
  BY <1>1 DEF Busy, Open, TaskPCs
<1>3. ran = 0 .. n - 1
  <2>1. CASE HasSemaphores
    BY <1>0, <2>1 DEF IInv, WakeInv, Join
  <2>2. CASE ~HasSemaphores
    <3>1. \A t \in Threads : ~InFlight(t)
      BY <1>0, <2>2 DEF HasSemaphores, Threads, InFlight
    <3>2. task_left < 0
      BY <1>0 DEF IInv, LocalsInv
    <3>3. \A i \in 0 .. n - 1 : n - 1 - i >= task_left
      BY <3>2, <1>0, OpenFacts
    <3>4. 0 .. n - 1 \subseteq ran
      BY <3>1, <3>3, <1>0 DEF IInv, IdsInv
    <3> QED BY <3>4, <1>0 DEF IInv, IdsInv
  <2> QED BY <2>1, <2>2
<1>4. task_left <= 0 /\ \A t \in Threads : ~InFlight(t)
  BY <1>0, <1>3, AllDone
<1>5. main_semaphore' = 0
  <2>1. main_semaphore = IF HasSemaphores THEN 1 ELSE 0
    BY <1>0, <1>3 DEF IInv, WakeInv
  <2> QED BY <2>1 DEF Join
<1>6. UNCHANGED <<poolVars, exec_semaphore, task_semaphore, handles_open, threadVars, callVars, ran>>
  BY DEF Join
<1>7. TypeOK'
  <2>1. PcType'
    BY <1>1 DEF IInv, TypeOK, PcType, Threads, Workers, MainPCs
  <2> QED
    BY <1>5, <1>6, <2>1 DEF IInv, TypeOK, PoolType, SemType, LocalsType, CallType, poolVars,
                            threadVars, callVars
<1>8. ClosedInv'
  BY <1>1, <1>4, <1>5, <1>6 DEF ClosedInv, InFlight, poolVars, IInv, TypeOK, PcType
<1>9. SetupInv'
  BY <1>1, <1>2, <1>3, <1>6 DEF SetupInv, callVars
<1> QED
  BY <1>2, <1>7, <1>8, <1>9 DEF IInv, IdsInv, LocalsInv, WakeInv

(* A decrement outside a call finds no id.                                 *)
LEMMA TakeIdClosedInv ==
  ASSUME NEW t \in Threads, IInv, ~Open, TakeId(t)
  PROVE  IInv'
<1> USE PoolAssumption
<1>0. t # 0 /\ t \in Workers /\ 0 \in Threads
  BY DEF TakeId, Open, TaskPCs, Threads, Workers
<1>1. task_left <= 0 /\ task_left \in Int
  BY DEF IInv, ClosedInv, TypeOK, PoolType
<1>2. pc' = [pc EXCEPT ![t] = "check_live"] /\ pc'[0] = pc[0]
  <2>1. ~(task_left - 1 >= 0)
    BY <1>1
  <2>2. pc' = [pc EXCEPT ![t] = "check_live"]
    BY <1>0, <2>1, Zenon DEF TakeId, Goto
  <2> QED BY <1>0, <2>2 DEF IInv, TypeOK, PcType
<1>3. /\ UNCHANGED <<is_live, task_func, task_count, task_done, semVars, held, seen, callVars, ran>>
      /\ task_left' = task_left - 1
      /\ left' = [left EXCEPT ![t] = 0]
  <2>1. ~(task_left > 0)
    BY <1>1
  <2> QED BY <2>1, Zenon DEF TakeId
<1>4. TypeOK'
  <2>1. PcType'
    BY <1>0, <1>2 DEF IInv, TypeOK, PcType, Threads, Workers, WorkerPCs
  <2>2. PoolType' /\ LocalsType'
    BY <1>1, <1>3 DEF IInv, TypeOK, PoolType, LocalsType, Ids
  <2> QED
    BY <1>3, <2>1, <2>2 DEF IInv, TypeOK, SemType, CallType, semVars, callVars
<1>5. ~Open' /\ Busy' = Busy
  BY <1>2 DEF Open, Busy
<1>6. ClosedInv'
  BY <1>1, <1>2, <1>3 DEF IInv, ClosedInv, InFlight, semVars, TypeOK, PcType
<1>7. SetupInv'
  BY <1>2, <1>3, <1>5 DEF IInv, SetupInv, callVars
<1> QED
  BY <1>4, <1>5, <1>6, <1>7 DEF IInv, IdsInv, LocalsInv, WakeInv

(* A thread moves to a point inside tp_run_tasks.                          *)
LEMMA GotoTask ==
  ASSUME NEW t \in Threads, NEW to \in TaskPCs, PcType, Open, Goto(t, to)
  PROVE  /\ PcType' /\ pc'[t] = to
         /\ \A u \in Threads : u # t => pc'[u] = pc[u]
         /\ Open' /\ Busy' /\ Busy
         /\ pc'[0] \notin {"set_func", "set_count", "set_done", "set_left"}
         /\ pc'[0] = "join" => pc[0] = "join"
<1> USE PoolAssumption
<1>1. pc'[t] = to /\ \A u \in Threads : u # t => pc'[u] = pc[u]
  BY DEF Goto, PcType
<1>2. PcType'
  BY DEF Goto, PcType, Threads, Workers
<1>3. 0 \in Threads
  BY DEF Threads
<1>4. pc'[0] = pc[0] \/ pc'[0] = to
  BY <1>1, <1>3
<1> QED BY <1>1, <1>2, <1>4 DEF Open, Busy, TaskPCs

(* A decrement that returns an id: the thread takes the topmost one left.  *)
LEMMA TakeIdSomeInv ==
  ASSUME NEW t \in Threads, IInv, Open, task_left > 0, TakeId(t)
  PROVE  IInv'
<1> USE PoolAssumption
<1>0. /\ n \in 1 .. MaxTasks /\ n \in Nat /\ MaxTasks \in Nat /\ task_left \in Int
      /\ task_left <= n /\ ran \subseteq 0 .. n - 1
  BY OpenFacts DEF IInv, IdsInv
<1>1. pc[t] = "take_id" /\ Goto(t, "fetch")
  <2>1. task_left - 1 >= 0
    BY <1>0
  <2> QED BY <2>1, Zenon DEF TakeId
<1>2. /\ PcType' /\ pc'[t] = "fetch" /\ Open' /\ Busy' /\ Busy
      /\ \A u \in Threads : u # t => pc'[u] = pc[u]
      /\ pc'[0] \notin {"set_func", "set_count", "set_done", "set_left"}
      /\ pc'[0] = "join" => pc[0] = "join"
  <2>1. "fetch" \in TaskPCs
    BY DEF TaskPCs
  <2> QED BY <1>1, <2>1, GotoTask DEF IInv, TypeOK
<1>3. /\ UNCHANGED <<is_live, task_func, task_count, task_done, semVars, held, seen, callVars, ran>>
      /\ task_left' = task_left - 1
      /\ left' = [left EXCEPT ![t] = task_left - 1]
  BY Zenon DEF TakeId
<1>4. left \in [Threads -> Ids] /\ left' \in [Threads -> Ids] /\ left'[t] = task_left - 1
      /\ \A u \in Threads : u # t => left'[u] = left[u]
  BY <1>0, <1>3 DEF IInv, TypeOK, LocalsType, Ids
<1>5. TypeOK'
  BY <1>0, <1>2, <1>3, <1>4 DEF IInv, TypeOK, PoolType, SemType, LocalsType, CallType, semVars,
                                callVars
<1>6. SetupInv'
  BY <1>0, <1>2, <1>3 DEF SetupInv, callVars
<1>7. InFlight(t)' /\ ~InFlight(t) /\ ~Running(t)' /\ pc'[t] # "count_done"
  BY <1>1, <1>2 DEF InFlight, Running
<1>8. \A u \in Threads : u # t => (InFlight(u)' = InFlight(u)) /\ (Running(u)' = Running(u))
  BY <1>2 DEF InFlight, Running
<1>9. Taken(t)' = n - task_left /\ \A u \in Threads : u # t => Taken(u)' = Taken(u)
  BY <1>0, <1>3, <1>4 DEF Taken, callVars, Ids
<1>10. IdsInv'
  <2>1. n - task_left \notin ran
    BY <1>0 DEF IInv, IdsInv
  <2>2. \A u \in Threads : InFlight(u) => left[u] \in 0 .. n - 1 /\ left[u] >= task_left
    BY DEF IInv, IdsInv
  <2>3. ASSUME NEW u \in Threads, InFlight(u)'
        PROVE  /\ left'[u] \in 0 .. n - 1
               /\ left'[u] >= task_left - 1
               /\ Taken(u)' \notin ran
               /\ \A v \in Threads : InFlight(v)' /\ left'[v] = left'[u] => v = u
    <3>1. CASE u = t
      BY <3>1, <1>0, <1>4, <1>8, <1>9, <2>1, <2>2
    <3>2. CASE u # t
      <4>1. /\ left[u] \in 0 .. n - 1 /\ left[u] >= task_left /\ Taken(u) \notin ran
            /\ \A v \in Threads : InFlight(v) /\ left[v] = left[u] => v = u
        BY <3>2, <2>3, <1>8 DEF IInv, IdsInv
      <4> QED BY <3>2, <4>1, <1>0, <1>4, <1>8, <1>9
    <3> QED BY <3>1, <3>2
  <2>4. ASSUME NEW i \in 0 .. n - 1, n - 1 - i >= task_left - 1
        PROVE  i \in ran \/ \E u \in Threads : InFlight(u)' /\ Taken(u)' = i
    <3>1. CASE n - 1 - i >= task_left
      <4>1. i \in ran \/ \E u \in Threads : InFlight(u) /\ Taken(u) = i
        BY <3>1 DEF IInv, IdsInv
      <4> QED BY <4>1, <1>7, <1>8, <1>9
    <3>2. CASE ~(n - 1 - i >= task_left)
      <4>1. i = n - task_left
        BY <3>2, <2>4, <1>0
      <4> QED BY <4>1, <1>7, <1>9
    <3> QED BY <3>1, <3>2
  <2>5. \A i \in ran : n - 1 - i >= task_left - 1
    BY <1>0 DEF IInv, IdsInv
  <2>6. task_func = call /\ task_count = n /\ task_done = Cardinality(ran)
    BY DEF IInv, IdsInv
  <2>7. UNCHANGED <<task_func, task_count, task_done, call, n, ran>>
    BY <1>3 DEF callVars
  <2>8. task_left' <= n
    BY <1>0, <1>3
  <2> QED BY <1>0, <1>3, <2>3, <2>4, <2>5, <2>6, <2>7, <2>8 DEF IdsInv
<1>11. LocalsInv'
  <2>1. UNCHANGED <<held, seen, call, n>>
    BY <1>3 DEF callVars
  <2>2. \A u \in Threads : Running(u)' => held'[u] = [func |-> call', id |-> Taken(u)']
    BY <1>7, <1>8, <1>9, <2>1 DEF IInv, LocalsInv
  <2>3. \A u \in Threads : pc'[u] = "count_done" => seen'[u] = n'
    BY <1>2, <2>1 DEF IInv, LocalsInv
  <2>4. pc'[0] = "join" => task_left' < 0
    BY <1>0, <1>2, <1>3 DEF IInv, LocalsInv
  <2> QED BY <2>2, <2>3, <2>4 DEF LocalsInv
<1>12. WakeInv'
  BY <1>2, <1>3 DEF IInv, WakeInv, semVars, callVars
<1> QED BY <1>2, <1>5, <1>6, <1>10, <1>11, <1>12 DEF IInv, ClosedInv

(* A decrement that finds no id: the thread leaves the loop.               *)
LEMMA TakeIdNoneInv ==
  ASSUME NEW t \in Threads, IInv, Open, ~(task_left > 0), TakeId(t)
  PROVE  IInv'
<1> USE PoolAssumption
<1> DEFINE to == IF t = 0 THEN "join" ELSE "check_live"
<1>0. /\ n \in 1 .. MaxTasks /\ n \in Nat /\ task_left \in Int /\ task_left <= 0
      /\ ran \subseteq 0 .. n - 1
  BY OpenFacts DEF IInv, IdsInv
<1>1. pc[t] = "take_id" /\ pc' = [pc EXCEPT ![t] = to]
  <2>1. ~(task_left - 1 >= 0)
    BY <1>0
  <2> QED BY <2>1, Zenon DEF TakeId, Goto
<1>2. /\ PcType' /\ Open' /\ Busy' /\ Busy
      /\ pc'[t] \in {"join", "check_live"}
      /\ \A u \in Threads : u # t => pc'[u] = pc[u]
      /\ pc'[0] \notin {"set_func", "set_count", "set_done", "set_left"}
  <2>1. CASE t = 0
    BY <1>1, <2>1 DEF IInv, TypeOK, PcType, Threads, Workers, MainPCs, Open, Busy, TaskPCs
  <2>2. CASE t # 0
    <3>1. t \in Workers /\ 0 \in Threads
      BY <2>2 DEF Threads, Workers
    <3>2. pc' = [pc EXCEPT ![t] = "check_live"]
      BY <1>1, <2>2
    <3> QED
      BY <3>1, <3>2 DEF IInv, TypeOK, PcType, Workers, WorkerPCs, Open, Busy, TaskPCs
  <2> QED BY <2>1, <2>2
<1>3. /\ UNCHANGED <<is_live, task_func, task_count, task_done, semVars, held, seen, callVars, ran>>
      /\ task_left' = task_left - 1
      /\ left' = [left EXCEPT ![t] = 0]
  BY Zenon DEF TakeId
<1>4. left' \in [Threads -> Ids] /\ \A u \in Threads : u # t => left'[u] = left[u]
  BY <1>3 DEF IInv, TypeOK, LocalsType, Ids
<1>5. TypeOK'
  BY <1>0, <1>2, <1>3, <1>4 DEF IInv, TypeOK, PoolType, SemType, LocalsType, CallType, semVars,
                                callVars
<1>6. SetupInv'
  BY <1>0, <1>2, <1>3 DEF SetupInv, callVars
<1>7. ~InFlight(t)' /\ ~InFlight(t) /\ ~Running(t)' /\ pc'[t] # "count_done"
  BY <1>1, <1>2 DEF InFlight, Running
<1>8. \A u \in Threads : u # t => (InFlight(u)' = InFlight(u)) /\ (Running(u)' = Running(u))
  BY <1>2 DEF InFlight, Running
<1>9. UNCHANGED <<task_func, task_count, task_done, held, seen, call, n, ran>>
  BY <1>3 DEF callVars
<1>10. \A u \in Threads : u # t => Taken(u)' = Taken(u)
  BY <1>4, <1>9 DEF Taken
<1>11. IdsInv'
  <2>1. ASSUME NEW u \in Threads, InFlight(u)'
        PROVE  /\ left'[u] \in 0 .. n - 1
               /\ left'[u] >= task_left - 1
               /\ Taken(u)' \notin ran
               /\ \A v \in Threads : InFlight(v)' /\ left'[v] = left'[u] => v = u
    <3>1. u # t /\ InFlight(u)
      BY <2>1, <1>7, <1>8
    <3>2. /\ left[u] \in 0 .. n - 1 /\ left[u] >= task_left /\ Taken(u) \notin ran
          /\ \A v \in Threads : InFlight(v) /\ left[v] = left[u] => v = u
      BY <3>1 DEF IInv, IdsInv
    <3> QED BY <3>1, <3>2, <1>0, <1>4, <1>7, <1>8, <1>10
  <2>2. ASSUME NEW i \in 0 .. n - 1
        PROVE  i \in ran \/ \E u \in Threads : InFlight(u)' /\ Taken(u)' = i
    <3>1. n - 1 - i >= task_left
      BY <1>0
    <3>2. i \in ran \/ \E u \in Threads : InFlight(u) /\ Taken(u) = i
      BY <3>1 DEF IInv, IdsInv
    <3> QED BY <3>2, <1>7, <1>8, <1>10
  <2>3. \A i \in ran : n - 1 - i >= task_left - 1
    BY <1>0
  <2>4. task_func = call /\ task_count = n /\ task_done = Cardinality(ran)
    BY DEF IInv, IdsInv
  <2>5. task_left' <= n
    BY <1>0, <1>3
  <2> QED BY <1>0, <1>3, <1>9, <2>1, <2>2, <2>3, <2>4, <2>5 DEF IdsInv
<1>12. LocalsInv'
  <2>1. \A u \in Threads : Running(u)' => held'[u] = [func |-> call', id |-> Taken(u)']
    BY <1>7, <1>8, <1>9, <1>10 DEF IInv, LocalsInv
  <2>2. \A u \in Threads : pc'[u] = "count_done" => seen'[u] = n'
    BY <1>2, <1>9 DEF IInv, LocalsInv
  <2>3. task_left' < 0
    BY <1>0, <1>3
  <2> QED BY <2>1, <2>2, <2>3 DEF LocalsInv
<1>13. WakeInv'
  BY <1>2, <1>3 DEF IInv, WakeInv, semVars, callVars
<1> QED BY <1>2, <1>5, <1>6, <1>11, <1>12, <1>13 DEF IInv, ClosedInv

(* Only a call hands ids out, so a thread that holds one is inside a call. *)
LEMMA InFlightOpen ==
  ASSUME NEW t \in Threads, IInv, InFlight(t)
  PROVE  Open /\ left[t] \in 0 .. n - 1 /\ Taken(t) \in 0 .. n - 1 /\ Taken(t) \notin ran
<1>1. Open
  BY DEF IInv, ClosedInv
<1>2. left[t] \in 0 .. n - 1 /\ Taken(t) \notin ran
  BY <1>1 DEF IInv, IdsInv
<1> QED BY <1>1, <1>2, OpenFacts DEF Taken

LEMMA HeldFacts ==
  ASSUME NEW t \in Threads, IInv, Running(t)
  PROVE  InFlight(t) /\ Open /\ held[t].func = call /\ held[t].id = Taken(t)
<1>1. InFlight(t) /\ Open
  BY InFlightOpen DEF Running, InFlight
<1>2. held[t] = [func |-> call, id |-> Taken(t)]
  BY <1>1 DEF IInv, LocalsInv
<1> QED BY <1>1, <1>2

LEMMA FetchInv ==
  ASSUME NEW t \in Threads, IInv, Fetch(t)
  PROVE  IInv'
<1> USE PoolAssumption
<1>0. InFlight(t) /\ pc[t] = "fetch"
  BY DEF Fetch, InFlight
<1>1. /\ Open /\ left[t] \in 0 .. n - 1 /\ Taken(t) \in 0 .. n - 1
      /\ n \in 1 .. MaxTasks /\ MaxTasks \in Nat /\ task_func = call /\ task_count = n
  BY <1>0, InFlightOpen, OpenFacts
<1>2. /\ PcType' /\ pc'[t] = "running" /\ Open' /\ Busy' /\ Busy
      /\ \A u \in Threads : u # t => pc'[u] = pc[u]
      /\ pc'[0] \notin {"set_func", "set_count", "set_done", "set_left"}
      /\ pc'[0] = "join" => pc[0] = "join"
  <2>1. "running" \in TaskPCs /\ Goto(t, "running")
    BY DEF TaskPCs, Fetch
  <2> QED BY <1>1, <2>1, GotoTask DEF IInv, TypeOK
<1>3. /\ UNCHANGED <<poolVars, semVars, left, seen, callVars, ran>>
      /\ held' = [held EXCEPT ![t] = [func |-> call, id |-> Taken(t)]]
  <2>1. TaskId(t) = Taken(t)
    BY <1>1, OpenFacts DEF TaskId, Taken
  <2> QED BY <1>1, <2>1 DEF Fetch
<1>4. TypeOK'
  <2>1. [func |-> call, id |-> Taken(t)] \in TaskSet
    BY <1>1 DEF TaskSet, Ids, IInv, TypeOK, CallType
  <2> QED
    BY <1>2, <1>3, <2>1 DEF IInv, TypeOK, PoolType, SemType, LocalsType, CallType, poolVars,
                            semVars, callVars
<1>5. /\ held'[t] = [func |-> call, id |-> Taken(t)]
      /\ \A u \in Threads : u # t => held'[u] = held[u]
  BY <1>3 DEF IInv, TypeOK, LocalsType
<1>6. \A u \in Threads : InFlight(u)' = InFlight(u) /\ Taken(u)' = Taken(u)
  BY <1>0, <1>2, <1>3 DEF InFlight, Taken, callVars
<1>7. UNCHANGED <<task_func, task_count, task_done, task_left, main_semaphore, left, seen, call, n, ran>>
  BY <1>3 DEF poolVars, semVars, callVars
<1>8. SetupInv'
  BY <1>1, <1>2, <1>7 DEF SetupInv
<1>9. IdsInv'
  BY <1>1, <1>6, <1>7 DEF IInv, IdsInv
<1>10. LocalsInv'
  <2>1. ASSUME NEW u \in Threads, Running(u)'
        PROVE  held'[u] = [func |-> call', id |-> Taken(u)']
    <3>1. CASE u = t
      BY <3>1, <1>5, <1>6, <1>7
    <3>2. CASE u # t
      BY <3>2, <2>1, <1>1, <1>2, <1>5, <1>6, <1>7 DEF Running, IInv, LocalsInv
    <3> QED BY <3>1, <3>2
  <2>2. \A u \in Threads : pc'[u] = "count_done" => seen'[u] = n'
    BY <1>1, <1>2, <1>7 DEF IInv, LocalsInv
  <2>3. pc'[0] = "join" => task_left' < 0
    BY <1>1, <1>2, <1>7 DEF IInv, LocalsInv
  <2> QED BY <2>1, <2>2, <2>3 DEF LocalsInv
<1>11. WakeInv'
  BY <1>1, <1>2, <1>7 DEF IInv, WakeInv
<1> QED BY <1>2, <1>4, <1>8, <1>9, <1>10, <1>11 DEF IInv, ClosedInv

LEMMA FinishTaskInv ==
  ASSUME NEW t \in Threads, IInv, FinishTask(t)
  PROVE  IInv'
<1> USE PoolAssumption
<1>0. InFlight(t) /\ Running(t) /\ pc[t] = "running"
  BY DEF FinishTask, InFlight, Running
<1>1. Open /\ n \in 1 .. MaxTasks /\ MaxTasks \in Nat /\ task_count = n
  BY <1>0, InFlightOpen, OpenFacts
<1>2. /\ PcType' /\ pc'[t] = "count_done" /\ Open' /\ Busy' /\ Busy
      /\ \A u \in Threads : u # t => pc'[u] = pc[u]
      /\ pc'[0] \notin {"set_func", "set_count", "set_done", "set_left"}
      /\ pc'[0] = "join" => pc[0] = "join"
  <2>1. "count_done" \in TaskPCs /\ Goto(t, "count_done")
    BY DEF TaskPCs, FinishTask
  <2> QED BY <1>1, <2>1, GotoTask DEF IInv, TypeOK
<1>3. UNCHANGED <<poolVars, semVars, left, held, callVars, ran>> /\ seen' = [seen EXCEPT ![t] = n]
  BY <1>1 DEF FinishTask
<1>4. TypeOK'
  BY <1>1, <1>2, <1>3 DEF IInv, TypeOK, PoolType, SemType, LocalsType, CallType, poolVars,
                          semVars, callVars
<1>5. seen'[t] = n /\ \A u \in Threads : u # t => seen'[u] = seen[u]
  BY <1>3 DEF IInv, TypeOK, LocalsType
<1>6. \A u \in Threads : /\ InFlight(u)' = InFlight(u) /\ Taken(u)' = Taken(u)
                         /\ Running(u)' = Running(u)
  BY <1>0, <1>2, <1>3 DEF InFlight, Running, Taken, callVars
<1>7. UNCHANGED <<task_func, task_count, task_done, task_left, main_semaphore, left, held, call, n, ran>>
  BY <1>3 DEF poolVars, semVars, callVars
<1>8. SetupInv'
  BY <1>1, <1>2, <1>7 DEF SetupInv
<1>9. IdsInv'
  BY <1>1, <1>6, <1>7 DEF IInv, IdsInv
<1>10. LocalsInv'
  <2>1. \A u \in Threads : Running(u)' => held'[u] = [func |-> call', id |-> Taken(u)']
    BY <1>1, <1>6, <1>7 DEF IInv, LocalsInv
  <2>2. \A u \in Threads : pc'[u] = "count_done" => seen'[u] = n'
    BY <1>1, <1>2, <1>5, <1>7 DEF IInv, LocalsInv
  <2>3. pc'[0] = "join" => task_left' < 0
    BY <1>1, <1>2, <1>7 DEF IInv, LocalsInv
  <2> QED BY <2>1, <2>2, <2>3 DEF LocalsInv
<1>11. WakeInv'
  BY <1>1, <1>2, <1>7 DEF IInv, WakeInv
<1> QED BY <1>2, <1>4, <1>8, <1>9, <1>10, <1>11 DEF IInv, ClosedInv

LEMMA CountDoneInv ==
  ASSUME NEW t \in Threads, IInv, CountDone(t)
  PROVE  IInv'
<1> USE PoolAssumption
<1> DEFINE id == Taken(t)
<1>0. InFlight(t) /\ Running(t) /\ pc[t] = "count_done"
  BY DEF CountDone, InFlight, Running
<1>1. /\ Open /\ n \in 1 .. MaxTasks /\ n \in Nat /\ MaxTasks \in Nat
      /\ id \in 0 .. n - 1 /\ id \notin ran /\ ran \subseteq 0 .. n - 1
      /\ IsFiniteSet(ran) /\ IsFiniteSet(0 .. n - 1) /\ Cardinality(0 .. n - 1) = n
      /\ held[t].id = id /\ seen[t] = n /\ task_done = Cardinality(ran)
  <2>1. Open /\ id \in 0 .. n - 1 /\ id \notin ran
    BY <1>0, InFlightOpen
  <2>2. held[t].id = id /\ seen[t] = n
    BY <1>0, <2>1, HeldFacts DEF IInv, LocalsInv
  <2>3. ran \subseteq 0 .. n - 1 /\ task_done = Cardinality(ran)
    BY <2>1 DEF IInv, IdsInv
  <2> QED BY <2>1, <2>2, <2>3, OpenFacts
<1>2. /\ PcType' /\ pc'[t] = "take_id" /\ Open' /\ Busy' /\ Busy
      /\ \A u \in Threads : u # t => pc'[u] = pc[u]
      /\ pc'[0] \notin {"set_func", "set_count", "set_done", "set_left"}
      /\ pc'[0] = "join" => pc[0] = "join"
  <2>1. "take_id" \in TaskPCs /\ Goto(t, "take_id")
    BY DEF TaskPCs, CountDone
  <2> QED BY <1>1, <2>1, GotoTask DEF IInv, TypeOK
<1>3. /\ UNCHANGED <<is_live, task_func, task_count, task_left, exec_semaphore, task_semaphore,
                     handles_open, callVars>>
      /\ task_done' = task_done + 1
      /\ ran' = ran \cup {id}
      /\ main_semaphore' = IF task_done + 1 = n THEN Dropped(main_semaphore, 1)
                           ELSE main_semaphore
      /\ left' = [left EXCEPT ![t] = 0]
      /\ held' = [held EXCEPT ![t] = NoTask]
      /\ seen' = [seen EXCEPT ![t] = 0]
  BY <1>1 DEF CountDone
<1>4. /\ Cardinality(ran') = Cardinality(ran) + 1
      /\ ran' \subseteq 0 .. n - 1
      /\ Cardinality(ran) \in Nat
      /\ Cardinality(ran') <= n
      /\ Cardinality(ran') = n <=> ran' = 0 .. n - 1
  <2>1. ran' = ran \cup {id}
    BY <1>3
  <2>2. IsFiniteSet(ran') /\ Cardinality(ran') = Cardinality(ran) + 1
    BY <1>1, <2>1, FS_AddElement
  <2>3. ran' \subseteq 0 .. n - 1
    BY <1>1, <2>1
  <2>4. Cardinality(ran) \in Nat
    BY <1>1, FS_CardinalityType
  <2>5. Cardinality(ran') <= n /\ (Cardinality(ran') = n => ran' = 0 .. n - 1)
    BY <1>1, <2>3, FS_Subset
  <2> QED BY <1>1, <2>2, <2>3, <2>4, <2>5
<1>5. main_semaphore' \in 0 .. 1
  BY <1>3 DEF IInv, TypeOK, SemType, Dropped
<1>6. TypeOK'
  <2>1. PoolType'
    BY <1>1, <1>3, <1>4 DEF IInv, TypeOK, PoolType
  <2>2. SemType'
    BY <1>3, <1>5 DEF IInv, TypeOK, SemType
  <2>3. LocalsType'
    BY <1>1, <1>3 DEF IInv, TypeOK, LocalsType, Ids, TaskSet, NoTask
  <2>4. CallType'
    BY <1>1, <1>3, <1>4 DEF IInv, TypeOK, CallType, callVars, Ids
  <2> QED BY <1>2, <2>1, <2>2, <2>3, <2>4 DEF TypeOK
<1>7. SetupInv'
  BY <1>1, <1>2, <1>3 DEF SetupInv, callVars
<1>8. /\ ~InFlight(t)' /\ ~Running(t)' /\ pc'[t] # "count_done"
      /\ \A u \in Threads : u # t => /\ InFlight(u)' = InFlight(u) /\ Running(u)' = Running(u)
                                     /\ left'[u] = left[u] /\ held'[u] = held[u]
                                     /\ seen'[u] = seen[u] /\ Taken(u)' = Taken(u)
  BY <1>2, <1>3 DEF InFlight, Running, Taken, IInv, TypeOK, LocalsType, callVars
<1>9. UNCHANGED <<task_func, task_count, task_left, call, n>>
  BY <1>3 DEF callVars
<1>10. IdsInv'
  <2>1. ASSUME NEW u \in Threads, InFlight(u)'
        PROVE  /\ left'[u] \in 0 .. n - 1
               /\ left'[u] >= task_left
               /\ Taken(u)' \notin ran'
               /\ \A v \in Threads : InFlight(v)' /\ left'[v] = left'[u] => v = u
    <3>1. u # t /\ InFlight(u)
      BY <2>1, <1>8
    <3>2. /\ left[u] \in 0 .. n - 1 /\ left[u] >= task_left /\ Taken(u) \notin ran
          /\ \A v \in Threads : InFlight(v) /\ left[v] = left[u] => v = u
      BY <3>1, <1>1 DEF IInv, IdsInv
    <3>3. Taken(u) # id
      BY <3>1, <3>2, <1>0, <1>1, InFlightOpen DEF Taken
    <3> QED BY <3>1, <3>2, <3>3, <1>3, <1>8
  <2>2. ASSUME NEW i \in 0 .. n - 1, n - 1 - i >= task_left
        PROVE  i \in ran' \/ \E u \in Threads : InFlight(u)' /\ Taken(u)' = i
    <3>1. i \in ran \/ \E u \in Threads : InFlight(u) /\ Taken(u) = i
      BY <2>2, <1>1 DEF IInv, IdsInv
    <3> QED BY <3>1, <1>3, <1>8
  <2>3. \A i \in ran' : n - 1 - i >= task_left
    <3>1. n - 1 - id >= task_left
      BY <1>0, <1>1, InFlightOpen DEF Taken, IInv, IdsInv
    <3> QED BY <3>1, <1>1, <1>3 DEF IInv, IdsInv
  <2>4. task_func = call /\ task_count = n /\ task_left <= n
    BY <1>1 DEF IInv, IdsInv
  <2>5. task_done' = Cardinality(ran')
    BY <1>1, <1>3, <1>4
  <2> QED BY <1>4, <1>9, <2>1, <2>2, <2>3, <2>4, <2>5 DEF IdsInv
<1>11. LocalsInv'
  <2>1. \A u \in Threads : Running(u)' => held'[u] = [func |-> call', id |-> Taken(u)']
    BY <1>1, <1>8, <1>9 DEF IInv, LocalsInv
  <2>2. \A u \in Threads : pc'[u] = "count_done" => seen'[u] = n'
    BY <1>1, <1>2, <1>8, <1>9 DEF IInv, LocalsInv
  <2>3. pc'[0] = "join" => task_left' < 0
    BY <1>1, <1>2, <1>9 DEF IInv, LocalsInv
  <2> QED BY <2>1, <2>2, <2>3 DEF LocalsInv
<1>12. WakeInv'
  <2>1. main_semaphore = 0
    BY <1>1 DEF IInv, WakeInv
  <2>2. task_done + 1 = n <=> ran' = 0 .. n' - 1
    BY <1>1, <1>4, <1>9
  <2>3. CASE ran' = 0 .. n' - 1
    BY <2>1, <2>2, <2>3, <1>3 DEF WakeInv, Dropped
  <2>4. CASE ran' # 0 .. n' - 1
    BY <2>1, <2>2, <2>4, <1>3 DEF WakeInv
  <2> QED BY <2>3, <2>4
<1> QED BY <1>2, <1>6, <1>7, <1>10, <1>11, <1>12 DEF IInv, ClosedInv

LEMMA ZeroPoolInv == IInv /\ ZeroPool => IInv'
<1> SUFFICES ASSUME IInv, ZeroPool PROVE IInv'
  OBVIOUS
<1> USE PoolAssumption
<1>0. pc[0] = "zero" /\ ~Busy /\ ~Open
  BY DEF ZeroPool, Busy, Open, TaskPCs
<1>1. pc' = [pc EXCEPT ![0] = "released"] /\ pc'[0] = "released"
  BY DEF ZeroPool, Goto, IInv, TypeOK, PcType, Threads
<1>2. ~Busy' /\ ~Open'
  BY <1>1 DEF Busy, Open, TaskPCs
<1>3. /\ UNCHANGED <<semVars, threadVars, callVars, ran>>
      /\ is_live' = FALSE /\ task_func' = 0 /\ task_count' = 0 /\ task_done' = 0 /\ task_left' = 0
  BY DEF ZeroPool
<1>4. TypeOK'
  <2>1. PcType'
    BY <1>1 DEF IInv, TypeOK, PcType, Threads, Workers, MainPCs
  <2>2. PoolType'
    <3>1. is_live' \in BOOLEAN
      BY <1>3
    <3>2. /\ task_func' \in 0 .. MaxCalls /\ task_count' \in 0 .. MaxTasks
          /\ task_done' \in 0 .. MaxTasks /\ task_left' \in Int
      BY <1>3
    <3> QED BY <3>1, <3>2 DEF PoolType
  <2>3. SemType' /\ LocalsType' /\ CallType'
    BY <1>3 DEF IInv, TypeOK, SemType, LocalsType, CallType, semVars, threadVars, callVars
  <2> QED BY <2>1, <2>2, <2>3 DEF TypeOK
<1>5. ClosedInv'
  BY <1>0, <1>1, <1>3 DEF IInv, ClosedInv, semVars, InFlight, TypeOK, PcType
<1>6. SetupInv'
  BY <1>0, <1>1, <1>2, <1>3 DEF IInv, SetupInv, callVars
<1> QED
  BY <1>2, <1>4, <1>5, <1>6 DEF IInv, IdsInv, LocalsInv, WakeInv

LEMMA StutterInv == IInv /\ UNCHANGED vars => IInv'
<1> SUFFICES ASSUME IInv, UNCHANGED vars PROVE IInv'
  OBVIOUS
<1>1. TypeOK'
  BY DEF IInv, TypeOK, PoolType, SemType, PcType, LocalsType, CallType, vars, poolVars, semVars,
         threadVars, callVars
<1>2. Quiet
  BY DEF IInv, TypeOK, PcType, Quiet, Open, Busy, InFlight, vars, poolVars, semVars, threadVars,
         callVars
<1> QED BY <1>1, <1>2, QuietInv

LEMMA NextInv == IInv /\ [Next]_vars => IInv'
<1> SUFFICES ASSUME IInv, [Next]_vars PROVE IInv'
  OBVIOUS
<1>1. ASSUME NEW k \in 1 .. MaxTasks, CallForParallel(k) PROVE IInv'
  BY <1>1, CallInv
<1>2. CASE ForParallelStep
  BY <1>2, SetFieldsInv, SetLeftInv, DropExecInv, DropTaskInv, JoinInv DEF ForParallelStep
<1>3. ASSUME NEW t \in Threads, RunTasks(t) PROVE IInv'
  <2>1. CASE TakeId(t)
    BY <2>1, TakeIdClosedInv, TakeIdSomeInv, TakeIdNoneInv
  <2>2. CASE ~TakeId(t)
    BY <1>3, <2>2, FetchInv, FinishTaskInv, CountDoneInv DEF RunTasks
  <2> QED BY <2>1, <2>2
<1>4. ASSUME NEW t \in Workers, WorkerLoop(t) PROVE IInv'
  BY <1>4, WorkerLoopInv
<1>5. CASE OtherProcess
  BY <1>5, OtherProcessInv
<1>6. CASE Release \/ ReleaseStep
  BY <1>6, ReleaseInv, ZeroPoolInv DEF ReleaseStep
<1>7. CASE Stopped \/ UNCHANGED vars
  BY <1>7, StutterInv DEF Stopped
<1> QED BY <1>1, <1>2, <1>3, <1>4, <1>5, <1>6, <1>7 DEF Next

-------------------------------------------------------------------------------
(* The inductive invariant holds in every reachable state of the pool.     *)
THEOREM Invariance == Spec => []IInv
<1>1. Init => IInv
  BY InitInv
<1>2. IInv /\ [Next]_vars => IInv'
  BY NextInv
<1> QED BY <1>1, <1>2, PTL DEF Spec

(* The fields, semaphores and locals of the pool keep their types: no       *)
(* counter of thread_pool.c leaves the range its readers rely on.          *)
THEOREM TypeCorrect == Spec => []TypeOK
<1>1. IInv => TypeOK
  BY DEF IInv
<1> QED BY <1>1, Invariance, PTL

(* tp_for_parallel returns only when every id of the call has been run and *)
(* no thread is inside a task, for every number of workers and tasks.      *)
THEOREM ReturnIsComplete == Spec => []ReturnedComplete
<1>1. IInv => ReturnedComplete
  <2> SUFFICES ASSUME IInv, ~Busy PROVE ran = 0 .. n - 1 /\ \A t \in Threads : ~InFlight(t)
    BY DEF ReturnedComplete
  <2>1. ~Open
    BY DEF Open, Busy
  <2> QED BY <2>1 DEF IInv, SetupInv, ClosedInv
<1> QED BY <1>1, Invariance, PTL

(* A worker that wakes late never runs a task of an earlier call, nor an id *)
(* outside the range of the call in progress.                              *)
THEOREM TasksAreOfThisCall == Spec => []RightTask
<1>1. IInv => RightTask
  <2> SUFFICES ASSUME IInv, NEW t \in Threads, Running(t)
               PROVE  held[t].func = call /\ held[t].id \in 0 .. n - 1
    BY DEF RightTask
  <2>1. Taken(t) \in 0 .. n - 1
    BY HeldFacts, InFlightOpen
  <2> QED BY <2>1, HeldFacts
<1> QED BY <1>1, Invariance, PTL

(* No id of a call is run by two threads or run again after it is done.     *)
THEOREM NoTaskRunsTwice == Spec => []NoTaskTwice
<1>1. IInv => NoTaskTwice
  <2> SUFFICES ASSUME IInv, NEW t \in Threads, Running(t)
               PROVE  /\ held[t].id \notin ran
                      /\ \A u \in Threads : Running(u) /\ held[u].id = held[t].id => u = t
    BY DEF NoTaskTwice
  <2>1. Open /\ Taken(t) \notin ran /\ left[t] \in 0 .. n - 1
    BY HeldFacts, InFlightOpen
  <2>2. InFlight(t) /\ held[t].id = Taken(t)
    BY HeldFacts
  <2>3. ASSUME NEW u \in Threads, Running(u), held[u].id = held[t].id PROVE u = t
    <3>1. InFlight(u) /\ held[u].id = Taken(u)
      BY <2>3, HeldFacts
    <3>2. left[u] = left[t]
      <4>1. left[u] \in 0 .. n - 1
        BY <3>1, InFlightOpen
      <4> QED BY <2>1, <2>2, <2>3, <3>1, <4>1, OpenFacts DEF Taken
    <3> QED BY <2>1, <2>2, <3>1, <3>2 DEF IInv, IdsInv
  <2> QED BY <2>1, <2>2, <2>3
<1> QED BY <1>1, Invariance, PTL

(* Every id of a call is run once, and before the call returns.            *)
THEOREM TasksRunOnce == Spec => []TasksOnce
<1>1. NoTaskTwice /\ ReturnedComplete => TasksOnce
  BY DEF TasksOnce
<1> QED BY <1>1, NoTaskRunsTwice, ReturnIsComplete, PTL

(* The token that wakes thread 0 is consumed by the call that produced it. *)
THEOREM WakeupsAreConsumed == Spec => []NoStaleWakeup
<1>1. IInv => NoStaleWakeup
  <2> SUFFICES ASSUME IInv, pc[0] \notin TaskPCs \cup {"drop_exec", "drop_task", "join"}
               PROVE  main_semaphore = 0
    BY DEF NoStaleWakeup
  <2>1. ~Open
    BY DEF Open
  <2> QED BY <2>1 DEF IInv, ClosedInv
<1> QED BY <1>1, Invariance, PTL

-------------------------------------------------------------------------------
(* The release of a pool that shares no semaphore: its tokens suffice for   *)
(* the workers that wait.                                                  *)

Waiting == {t \in Workers : pc[t] \in {"wait_task", "blocked_task"}}

(* The drops tp_release still has to do on the task semaphore.              *)
DropsLeft == IF pc[0] = "close" THEN 0 ELSE drops

ReleasedInv ==
  pc[0] \in {"release_task", "close"} /\ ~Shared =>
    ~is_live /\ Cardinality(Waiting) <= task_semaphore + DropsLeft

(* The exec semaphore is only used by a pool that shares the other.         *)
OnlyShared ==
  ~Shared => /\ pc[0] # "release_exec"
             /\ \A t \in Workers : pc[t] \notin {"wait_exec", "blocked_exec"}

LEMMA OnlySharedNext == IInv /\ OnlyShared /\ [Next]_vars => OnlyShared'
<1> SUFFICES ASSUME IInv, OnlyShared, [Next]_vars, ~Shared PROVE OnlyShared'
  BY DEF OnlyShared
<1>1. 0 \in Threads /\ 0 \notin Workers /\ pc \in [Threads -> MainPCs \cup TaskPCs \cup WorkerPCs]
  BY PoolAssumption DEF Workers, Threads, IInv, TypeOK, PcType
<1>2. \/ pc' = pc
      \/ \E t \in Threads :
           \E to \in (MainPCs \cup TaskPCs \cup WorkerPCs)
                      \ {"release_exec", "wait_exec", "blocked_exec"} : Goto(t, to)
  <2>1. CASE \E k \in 1 .. MaxTasks : CallForParallel(k)
    BY <1>1, <2>1 DEF CallForParallel, MainPCs
  <2>2. CASE ForParallelStep
    BY <1>1, <2>2 DEF ForParallelStep, SetFunc, SetCount, SetDone, SetLeft, DropExec, DropTask,
                     Join, MainPCs, TaskPCs
  <2>3. CASE \E t \in Threads : RunTasks(t)
    BY <2>3 DEF RunTasks, TakeId, Fetch, FinishTask, CountDone, MainPCs, TaskPCs, WorkerPCs
  <2>4. CASE \E t \in Workers : WorkerLoop(t)
    BY <2>4 DEF WorkerLoop, CheckLive, WaitExec, WaitTask, TakeExec, TakeTask, Workers,
                WorkerPCs, TaskPCs, OnlyShared
  <2>5. CASE OtherProcess \/ Stopped \/ UNCHANGED vars
    BY <2>5 DEF OtherProcess, Stopped, vars
  <2>6. CASE Release \/ ReleaseStep
    BY <1>1, <2>6 DEF Release, ReleaseStep, ReleaseDropExec, ReleaseDropTask, CloseHandles,
                     ZeroPool, MainPCs
  <2> QED BY <2>1, <2>2, <2>3, <2>4, <2>5, <2>6 DEF Next
<1> QED BY <1>1, <1>2 DEF OnlyShared, Goto, Workers

LEMMA WaitingCount ==
  /\ IsFiniteSet(Waiting) /\ Cardinality(Waiting) \in Nat
  /\ Cardinality(Waiting) < WorkerCount
<1> USE PoolAssumption
<1>1. Workers = 1 .. WorkerCount - 1
  BY DEF Workers, Threads
<1>2. IsFiniteSet(Workers) /\ Cardinality(Workers) = WorkerCount - 1
  BY <1>1, FS_Interval
<1>3. IsFiniteSet(Waiting) /\ Cardinality(Waiting) <= Cardinality(Workers)
  BY <1>2, FS_Subset DEF Waiting
<1>4. Cardinality(Waiting) \in Nat
  BY <1>3, FS_CardinalityType
<1> QED BY <1>2, <1>3, <1>4

LEMMA SemaphoreRange ==
  ASSUME IInv
  PROVE  /\ task_semaphore \in 0 .. TaskMax /\ TaskMax \in Nat
         /\ drops \in 0 .. WorkerCount /\ WorkerCount \in Nat \ {0}
         /\ DropsLeft \in 0 .. WorkerCount
BY PoolAssumption DEF IInv, TypeOK, SemType, CallType, DropsLeft, TaskMax

(* A step that brings no thread to the semaphore and leaves it alone.       *)
LEMMA NobodyComes ==
  ASSUME IInv, ReleasedInv, UNCHANGED <<is_live, task_semaphore, drops>>, pc'[0] = pc[0],
         Waiting' \subseteq Waiting
  PROVE  ReleasedInv'
<1>2. Cardinality(Waiting') \in Nat /\ Cardinality(Waiting') <= Cardinality(Waiting)
  BY WaitingCount, FS_Subset, FS_CardinalityType
<1>3. DropsLeft' = DropsLeft
  BY DEF DropsLeft
<1> QED BY <1>2, <1>3, WaitingCount, SemaphoreRange DEF ReleasedInv

LEMMA TakeTaskReleased ==
  ASSUME IInv, ReleasedInv, NEW t \in Workers, TakeTask(t)
  PROVE  ReleasedInv'
<1>1. t # 0 /\ 0 \in Threads /\ t \in Threads /\ pc \in [Threads -> MainPCs \cup TaskPCs \cup WorkerPCs]
  BY PoolAssumption DEF Workers, Threads, IInv, TypeOK, PcType
<1>2. /\ UNCHANGED <<is_live, drops>> /\ pc'[0] = pc[0] /\ pc[t] = "blocked_task"
      /\ task_semaphore' = task_semaphore - 1
  BY <1>1 DEF TakeTask, Goto, poolVars, callVars
<1>3. Waiting' = Waiting \ {t} /\ t \in Waiting
  BY <1>1, <1>2 DEF TakeTask, Waiting, Goto, Workers
<1>4. Cardinality(Waiting') = Cardinality(Waiting) - 1
  BY <1>3, WaitingCount, FS_RemoveElement
<1>5. DropsLeft' = DropsLeft
  BY <1>2 DEF DropsLeft
<1> QED BY <1>2, <1>4, <1>5, WaitingCount, SemaphoreRange DEF ReleasedInv

LEMMA ReleaseDropReleased ==
  ASSUME IInv, ReleasedInv, ReleaseDropTask
  PROVE  ReleasedInv'
<1>1. 0 \in Threads /\ 0 \notin Workers /\ pc \in [Threads -> MainPCs \cup TaskPCs \cup WorkerPCs]
  BY PoolAssumption DEF Workers, Threads, IInv, TypeOK, PcType
<1>2. UNCHANGED is_live /\ pc[0] = "release_task"
  BY DEF ReleaseDropTask, poolVars
<1>3. Waiting' = Waiting
  BY <1>1 DEF Waiting, ReleaseDropTask, Goto, Workers
<1>4. CASE drops > 0
  <2>1. /\ task_semaphore' = Dropped(task_semaphore, TaskMax)
        /\ drops' = drops - 1 /\ pc'[0] = "release_task"
    BY <1>2, <1>4 DEF ReleaseDropTask
  <2>2. DropsLeft = drops /\ DropsLeft' = drops - 1
    BY <1>2, <2>1 DEF DropsLeft
  <2>3. CASE HasSemaphores /\ task_semaphore < TaskMax
    <3>1. task_semaphore' = task_semaphore + 1
      BY <2>1, <2>3 DEF Dropped
    <3> QED BY <1>2, <1>3, <2>2, <3>1, WaitingCount, SemaphoreRange DEF ReleasedInv
  <2>4. CASE ~(HasSemaphores /\ task_semaphore < TaskMax)
    <3>1. task_semaphore' = task_semaphore
      BY <2>1, <2>4 DEF Dropped
    <3>2. ~Shared => Cardinality(Waiting) <= task_semaphore
      BY <2>4, WaitingCount, SemaphoreRange DEF HasSemaphores, TaskMax
    <3> QED BY <1>2, <1>3, <1>4, <2>2, <3>1, <3>2, WaitingCount, SemaphoreRange DEF ReleasedInv
  <2> QED BY <2>3, <2>4
<1>5. CASE ~(drops > 0)
  <2>1. task_semaphore' = task_semaphore /\ pc'[0] = "close" /\ drops = 0
    BY <1>1, <1>5, SemaphoreRange DEF ReleaseDropTask, Goto
  <2>2. DropsLeft = 0 /\ DropsLeft' = 0
    BY <1>2, <2>1 DEF DropsLeft
  <2> QED BY <1>2, <1>3, <2>1, <2>2 DEF ReleasedInv
<1> QED BY <1>4, <1>5

LEMMA ReleaseReleased ==
  ASSUME IInv, ReleasedInv, Release
  PROVE  ReleasedInv'
<1>1. 0 \in Threads /\ 0 \notin Workers /\ pc \in [Threads -> MainPCs \cup TaskPCs \cup WorkerPCs]
  BY PoolAssumption DEF Workers, Threads, IInv, TypeOK, PcType
<1>2. Waiting' = Waiting /\ UNCHANGED task_semaphore
  BY <1>1 DEF Waiting, Release, Goto, Workers, semVars
<1>3. ~Shared => ~is_live' /\ DropsLeft' = WorkerCount
  BY <1>1 DEF Release, Goto, DropsLeft
<1> QED BY <1>2, <1>3, WaitingCount, SemaphoreRange DEF ReleasedInv

(* Where thread 0 goes with its other steps no token is counted.           *)
LEMMA ElsewhereReleased ==
  ASSUME pc'[0] \notin {"release_task", "close"}
  PROVE  ReleasedInv'
BY DEF ReleasedInv

LEMMA RunTasksReleased ==
  ASSUME IInv, ReleasedInv, NEW t \in Threads, RunTasks(t)
  PROVE  ReleasedInv'
<1>1. 0 \in Threads /\ 0 \notin Workers /\ pc \in [Threads -> MainPCs \cup TaskPCs \cup WorkerPCs]
  BY PoolAssumption DEF Workers, Threads, IInv, TypeOK, PcType
<1>2. \E to \in {"fetch", "join", "check_live", "running", "count_done", "take_id"} : Goto(t, to)
  BY DEF RunTasks, TakeId, Fetch, FinishTask, CountDone
<1>3. UNCHANGED <<is_live, task_semaphore, drops>>
  BY DEF RunTasks, TakeId, Fetch, FinishTask, CountDone, poolVars, semVars, callVars
<1>4. CASE t = 0
  BY <1>1, <1>2, <1>4, ElsewhereReleased DEF Goto
<1>5. CASE t # 0
  <2>1. pc'[0] = pc[0] /\ Waiting' \subseteq Waiting
    BY <1>1, <1>2, <1>5 DEF Goto, Workers, Waiting
  <2> QED BY <1>3, <2>1, NobodyComes
<1> QED BY <1>4, <1>5

LEMMA WorkerLoopReleased ==
  ASSUME IInv, OnlyShared, ReleasedInv, NEW t \in Workers, WorkerLoop(t)
  PROVE  ReleasedInv'
<1>1. t # 0 /\ 0 \in Threads /\ t \in Threads /\ pc \in [Threads -> MainPCs \cup TaskPCs \cup WorkerPCs]
  BY PoolAssumption DEF Workers, Threads, IInv, TypeOK, PcType
<1>2. CASE CheckLive(t)
  <2>1. /\ UNCHANGED <<is_live, task_semaphore, drops>> /\ pc'[0] = pc[0]
        /\ ~is_live => Waiting' \subseteq Waiting
    BY <1>1, <1>2 DEF CheckLive, Goto, poolVars, semVars, callVars, Workers, Waiting
  <2>2. CASE ~is_live
    BY <2>1, <2>2, NobodyComes
  <2>3. CASE is_live
    BY <2>1, <2>3 DEF ReleasedInv
  <2> QED BY <2>2, <2>3
<1>3. CASE WaitExec(t) \/ TakeExec(t)
  BY <1>3 DEF WaitExec, TakeExec, OnlyShared, ReleasedInv
<1>4. CASE WaitTask(t)
  <2>1. UNCHANGED <<is_live, task_semaphore, drops>> /\ pc'[0] = pc[0]
    BY <1>1, <1>4 DEF WaitTask, Goto, poolVars, semVars, callVars
  <2>2. Waiting' \subseteq Waiting
    BY <1>1, <1>4 DEF WaitTask, Goto, Workers, Waiting
  <2> QED BY <2>1, <2>2, NobodyComes
<1>5. CASE TakeTask(t)
  BY <1>5, TakeTaskReleased
<1> QED BY <1>2, <1>3, <1>4, <1>5 DEF WorkerLoop

LEMMA NextReleased == IInv /\ OnlyShared /\ ReleasedInv /\ [Next]_vars => ReleasedInv'
<1> SUFFICES ASSUME IInv, OnlyShared, ReleasedInv, [Next]_vars PROVE ReleasedInv'
  OBVIOUS
<1>1. 0 \in Threads /\ pc \in [Threads -> MainPCs \cup TaskPCs \cup WorkerPCs]
  BY PoolAssumption DEF Threads, IInv, TypeOK, PcType
<1>2. CASE \E k \in 1 .. MaxTasks : CallForParallel(k)
  BY <1>1, <1>2, ElsewhereReleased DEF CallForParallel, Goto
<1>3. CASE ForParallelStep
  BY <1>1, <1>3, ElsewhereReleased
     DEF ForParallelStep, SetFunc, SetCount, SetDone, SetLeft, DropExec, DropTask, Join, Goto
<1>4. CASE \E t \in Threads : RunTasks(t)
  BY <1>4, RunTasksReleased
<1>5. CASE \E t \in Workers : WorkerLoop(t)
  BY <1>5, WorkerLoopReleased
<1>6. CASE OtherProcess
  BY <1>6 DEF OtherProcess, ReleasedInv
<1>7. CASE Release
  BY <1>7, ReleaseReleased
<1>8. CASE ReleaseStep
  <2>1. CASE ReleaseDropExec
    BY <2>1 DEF ReleaseDropExec, OnlyShared, ReleasedInv
  <2>2. CASE ReleaseDropTask
    BY <2>2, ReleaseDropReleased
  <2>3. CASE CloseHandles \/ ZeroPool
    BY <1>1, <2>3, ElsewhereReleased DEF CloseHandles, ZeroPool, Goto
  <2> QED BY <1>8, <2>1, <2>2, <2>3 DEF ReleaseStep
<1>9. CASE UNCHANGED vars
  BY <1>9, NobodyComes DEF vars, poolVars, semVars, callVars, Waiting
<1>10. CASE Stopped
  BY <1>9, <1>10 DEF Stopped
<1> QED BY <1>2, <1>3, <1>4, <1>5, <1>6, <1>7, <1>8, <1>9, <1>10 DEF Next


(* Closing the task semaphore of a pool of its own leaves no worker blocked *)
(* on it: when tp_release gets there, the semaphore holds a token for every *)
(* worker that waits, tokens of earlier calls or not.                      *)
THEOREM ReleaseWakesAll == Spec => []NoWaitOnClosed
<1>1. Init => OnlyShared /\ ReleasedInv
  BY PoolAssumption DEF Init, OnlyShared, ReleasedInv, Threads, Workers
<1>2. IInv /\ OnlyShared /\ ReleasedInv /\ [Next]_vars => OnlyShared' /\ ReleasedInv'
  BY OnlySharedNext, NextReleased
<1>3. ReleasedInv /\ IInv => NoWaitOnClosed
  <2> SUFFICES ASSUME ReleasedInv, IInv, pc[0] = "close", ~Shared
               PROVE  Cardinality(Waiting) <= task_semaphore
    BY DEF NoWaitOnClosed, Waiting
  <2>1. DropsLeft = 0
    BY DEF DropsLeft
  <2> QED BY <2>1, WaitingCount, SemaphoreRange DEF ReleasedInv
<1> QED BY <1>1, <1>2, <1>3, Invariance, PTL DEF Spec

-------------------------------------------------------------------------------
(* The pool implements the abstract parallel for of ParallelFor.            *)

(* An id held by a thread is one of the call, not done, and held once.      *)
LEMMA HeldOnce ==
  ASSUME NEW t \in Threads, IInv, Running(t)
  PROVE  /\ Busy /\ n \in 1 .. MaxTasks
         /\ held[t].id \in 0 .. n - 1
         /\ held[t].id \notin ran
         /\ \A u \in Threads : Running(u) /\ held[u].id = held[t].id => u = t
<1>1. /\ InFlight(t) /\ Open /\ held[t].id = Taken(t)
      /\ Taken(t) \in 0 .. n - 1 /\ Taken(t) \notin ran /\ left[t] \in 0 .. n - 1
  BY HeldFacts, InFlightOpen
<1>2. Busy /\ n \in 1 .. MaxTasks
  BY <1>1, OpenFacts
<1>3. ASSUME NEW u \in Threads, Running(u), held[u].id = held[t].id PROVE u = t
  <2>1. InFlight(u) /\ held[u].id = Taken(u) /\ left[u] \in 0 .. n - 1
    BY <1>3, HeldFacts, InFlightOpen
  <2>2. left[u] = left[t]
    BY <1>1, <1>3, <2>1, OpenFacts DEF Taken
  <2> QED BY <1>1, <2>1, <2>2 DEF IInv, IdsInv
<1> QED BY <1>1, <1>2, <1>3

(* No thread holds an id outside a call.                                   *)
LEMMA NothingHeld ==
  ASSUME IInv, ~Open
  PROVE  HeldIds = {}
<1>1. \A t \in Threads : ~Running(t)
  BY DEF IInv, ClosedInv, InFlight, Running
<1> QED BY <1>1 DEF HeldIds

(* A step that leaves the call, the ids done and the tasks held alone is a *)
(* stutter of the abstract call.                                           *)
LEMMA AbstractStutter ==
  ASSUME UNCHANGED <<n, ran>>, Busy' = Busy,
         \A t \in Threads : Running(t)' = Running(t),
         \A t \in Threads : Running(t) => held'[t] = held[t]
  PROVE  UNCHANGED Abstract!vars
<1>1. HeldIds' = HeldIds
  BY DEF HeldIds
<1> QED BY <1>1 DEF Abstract!vars

LEMMA CallImplements ==
  ASSUME NEW k \in 1 .. MaxTasks, IInv, IInv', CallForParallel(k)
  PROVE  Abstract!Call(k)
<1>1. ~Busy /\ ~Open
  BY DEF CallForParallel, Busy, Open, TaskPCs
<1>2. pc'[0] = "set_func"
  BY PoolAssumption DEF CallForParallel, Goto, IInv, TypeOK, PcType, Threads
<1>3. Busy' /\ ~Open'
  BY <1>2 DEF Busy, Open, TaskPCs
<1>4. HeldIds = {} /\ HeldIds' = {}
  <2>1. HeldIds = {}
    BY <1>1, NothingHeld
  <2>2. \A t \in Threads : ~Running(t)'
    BY <1>3 DEF IInv, ClosedInv, InFlight, Running
  <2> QED BY <2>1, <2>2 DEF HeldIds
<1>5. n' = k /\ ran' = {}
  BY DEF CallForParallel
<1> QED BY <1>1, <1>3, <1>4, <1>5 DEF Abstract!Call

LEMMA FetchImplements ==
  ASSUME NEW t \in Threads, IInv, IInv', Fetch(t)
  PROVE  \E i \in Ids : Abstract!Start(i)
<1> DEFINE id == Taken(t)
<1>0. InFlight(t) /\ ~Running(t) /\ pc[t] = "fetch"
  BY DEF Fetch, InFlight, Running
<1>1. Open /\ left[t] \in 0 .. n - 1 /\ id \in 0 .. n - 1 /\ id \notin ran
  BY <1>0, InFlightOpen
<1>2. Busy /\ n \in 1 .. MaxTasks /\ task_func = call /\ task_count = n
  BY <1>1, OpenFacts
<1>3. /\ pc'[t] = "running" /\ Busy'
      /\ \A u \in Threads : u # t => pc'[u] = pc[u]
  <2>1. "running" \in TaskPCs /\ Goto(t, "running")
    BY DEF TaskPCs, Fetch
  <2> QED BY <1>1, <2>1, GotoTask DEF IInv, TypeOK
<1>4. n' = n /\ ran' = ran /\ held'[t].id = id
      /\ \A u \in Threads : u # t => held'[u] = held[u]
  <2>1. held' = [held EXCEPT ![t] = [func |-> task_func, id |-> TaskId(t)]]
    BY DEF Fetch
  <2>2. TaskId(t) = id
    BY <1>1, <1>2 DEF TaskId, Taken
  <2> QED BY <2>1, <2>2 DEF Fetch, callVars, IInv, TypeOK, LocalsType
<1>5. HeldIds' = HeldIds \cup {id}
  <2>1. \A u \in Threads : Running(u)' <=> Running(u) \/ u = t
    BY <1>0, <1>3 DEF Running
  <2> QED BY <1>0, <1>4, <2>1 DEF HeldIds
<1>6. id \notin HeldIds
  <2> SUFFICES ASSUME NEW u \in Threads, Running(u), held[u].id = id PROVE FALSE
    BY DEF HeldIds
  <2>1. InFlight(u) /\ Taken(u) = id /\ left[u] \in 0 .. n - 1
    BY HeldFacts, InFlightOpen
  <2>2. left[u] = left[t]
    BY <1>1, <1>2, <2>1 DEF Taken
  <2>3. u = t
    BY <1>0, <1>1, <2>1, <2>2 DEF IInv, IdsInv
  <2> QED BY <1>0, <2>3
<1>7. id \in Ids
  BY <1>1, <1>2, PoolAssumption DEF Ids
<1>8. Abstract!Start(id)
  BY <1>1, <1>2, <1>3, <1>4, <1>5, <1>6 DEF Abstract!Start
<1> QED BY <1>7, <1>8

LEMMA CountDoneImplements ==
  ASSUME NEW t \in Threads, IInv, IInv', CountDone(t)
  PROVE  \E i \in Ids : Abstract!End(i)
<1> DEFINE id == held[t].id
<1>0. Running(t) /\ pc[t] = "count_done"
  BY DEF CountDone, Running
<1>1. /\ Busy /\ n \in 1 .. MaxTasks /\ id \in 0 .. n - 1 /\ id \notin ran
      /\ \A u \in Threads : Running(u) /\ held[u].id = id => u = t
  BY <1>0, HeldOnce
<1>2. Open
  BY <1>0, HeldFacts
<1>3. /\ pc'[t] = "take_id" /\ Busy'
      /\ \A u \in Threads : u # t => pc'[u] = pc[u]
  <2>1. "take_id" \in TaskPCs /\ Goto(t, "take_id")
    BY DEF TaskPCs, CountDone
  <2> QED BY <1>2, <2>1, GotoTask DEF IInv, TypeOK
<1>4. /\ n' = n /\ ran' = ran \cup {id}
      /\ \A u \in Threads : u # t => held'[u] = held[u]
  BY DEF CountDone, callVars, IInv, TypeOK, LocalsType
<1>5. \A u \in Threads : Running(u)' <=> Running(u) /\ u # t
  BY <1>0, <1>3 DEF Running
<1>6. id \in HeldIds /\ HeldIds' = HeldIds \ {id}
  BY <1>0, <1>1, <1>4, <1>5 DEF HeldIds
<1>7. id \in Ids
  BY <1>1, PoolAssumption DEF Ids
<1>8. Abstract!End(id)
  BY <1>1, <1>3, <1>4, <1>6 DEF Abstract!End
<1> QED BY <1>7, <1>8

LEMMA JoinImplements ==
  ASSUME IInv, IInv', Join
  PROVE  Abstract!Return
<1>1. pc'[0] = "ready" /\ pc[0] = "join" /\ Busy /\ Open
  BY PoolAssumption DEF Join, Goto, IInv, TypeOK, PcType, Threads, Busy, Open
<1>2. ~Busy' /\ ~Open'
  BY <1>1 DEF Busy, Open, TaskPCs
<1>3. UNCHANGED <<n, ran, threadVars>>
  BY DEF Join, callVars
<1>4. ran = 0 .. n - 1
  BY <1>2, <1>3 DEF IInv, SetupInv
<1>5. HeldIds = {}
  <2>1. \A t \in Threads : ~Running(t)
    BY <1>1, <1>4, AllDone DEF InFlight, Running
  <2> QED BY <2>1 DEF HeldIds
<1>6. HeldIds' = {}
  <2>1. \A t \in Threads : ~Running(t)'
    BY <1>2 DEF IInv, ClosedInv, InFlight, Running
  <2> QED BY <2>1 DEF HeldIds
<1> QED BY <1>1, <1>2, <1>4, <1>5, <1>6 DEF Abstract!Return

(* The steps of thread 0 that hand nothing out and end no call.             *)
LEMMA CallerStutters ==
  ASSUME IInv, IInv',
         \/ SetFunc \/ SetCount \/ SetDone \/ SetLeft \/ DropExec \/ DropTask
         \/ Release \/ ReleaseStep
  PROVE  UNCHANGED Abstract!vars
<1>1. UNCHANGED <<threadVars, n, ran>>
  BY DEF SetFunc, SetCount, SetDone, SetLeft, DropExec, DropTask, Release, ReleaseStep,
         ReleaseDropExec, ReleaseDropTask, CloseHandles, ZeroPool, callVars
<1>2. pc' = pc \/ \E to \in MainPCs \cup TaskPCs : pc' = [pc EXCEPT ![0] = to] /\ pc'[0] = to
  BY PoolAssumption
     DEF SetFunc, SetCount, SetDone, SetLeft, DropExec, DropTask, Release, ReleaseStep,
         ReleaseDropExec, ReleaseDropTask, CloseHandles, ZeroPool, Goto, MainPCs, TaskPCs,
         IInv, TypeOK, PcType, Threads
<1>3. Busy' = Busy
  BY PoolAssumption
     DEF SetFunc, SetCount, SetDone, SetLeft, DropExec, DropTask, Release, ReleaseStep,
         ReleaseDropExec, ReleaseDropTask, CloseHandles, ZeroPool, Goto, Busy, TaskPCs,
         IInv, TypeOK, PcType, Threads
<1>4. ~Running(0) /\ ~Running(0)'
  BY PoolAssumption
     DEF SetFunc, SetCount, SetDone, SetLeft, DropExec, DropTask, Release, ReleaseStep,
         ReleaseDropExec, ReleaseDropTask, CloseHandles, ZeroPool, Goto, Running,
         IInv, TypeOK, PcType, Threads
<1>5. \A t \in Threads : Running(t)' = Running(t)
  BY <1>2, <1>4 DEF Running, IInv, TypeOK, PcType
<1> QED BY <1>1, <1>3, <1>5, AbstractStutter DEF threadVars

LEMMA ThreadStutters ==
  ASSUME NEW t \in Threads, IInv, TakeId(t) \/ FinishTask(t) \/ (t # 0 /\ WorkerLoop(t))
  PROVE  UNCHANGED Abstract!vars
<1>1. UNCHANGED <<held, n, ran>>
  BY DEF TakeId, FinishTask, WorkerLoop, CheckLive, WaitExec, WaitTask, TakeExec, TakeTask, threadVars, callVars
<1>2. \A u \in Threads : u # t => pc'[u] = pc[u]
  BY DEF TakeId, FinishTask, WorkerLoop, CheckLive, WaitExec, WaitTask, TakeExec, TakeTask, Goto, IInv, TypeOK,
         PcType
<1>3. Running(t)' = Running(t)
  BY DEF TakeId, FinishTask, WorkerLoop, CheckLive, WaitExec, WaitTask, TakeExec, TakeTask, Goto, IInv, TypeOK,
         PcType, Running
<1>4. Busy' = Busy
  <2>1. CASE t = 0
    BY <2>1 DEF TakeId, FinishTask, Goto, Busy, TaskPCs, IInv, TypeOK, PcType, WorkerLoop
  <2>2. CASE t # 0
    BY <1>2, <2>2, PoolAssumption DEF Busy, Threads
  <2> QED BY <2>1, <2>2
<1>5. \A u \in Threads : Running(u)' = Running(u)
  BY <1>2, <1>3 DEF Running
<1> QED BY <1>1, <1>4, <1>5, AbstractStutter

LEMMA OutsideStutters ==
  ASSUME IInv, OtherProcess \/ Stopped \/ UNCHANGED vars
  PROVE  UNCHANGED Abstract!vars
<1>1. UNCHANGED <<pc, threadVars, n, ran>>
  BY DEF OtherProcess, Stopped, vars, callVars
<1> QED BY <1>1, AbstractStutter DEF threadVars, Running, Busy

(* Every step of the pool is a step of the abstract call or a stutter.      *)
LEMMA StepImplements == IInv /\ IInv' /\ [Next]_vars => [Abstract!Next]_(Abstract!vars)
<1> SUFFICES ASSUME IInv, IInv', [Next]_vars
             PROVE  Abstract!Next \/ UNCHANGED Abstract!vars
  OBVIOUS
<1>1. ASSUME NEW k \in 1 .. MaxTasks, CallForParallel(k) PROVE Abstract!Next
  BY <1>1, CallImplements DEF Abstract!Next
<1>2. CASE ForParallelStep \/ Release \/ ReleaseStep
  BY <1>2, JoinImplements, CallerStutters DEF ForParallelStep, Abstract!Next
<1>3. ASSUME NEW t \in Threads, RunTasks(t)
      PROVE  Abstract!Next \/ UNCHANGED Abstract!vars
  <2>1. CASE Fetch(t) \/ CountDone(t)
    BY <2>1, FetchImplements, CountDoneImplements DEF Abstract!Next, Abstract!Ids, Ids
  <2>2. CASE TakeId(t) \/ FinishTask(t)
    BY <2>2, ThreadStutters
  <2> QED BY <1>3, <2>1, <2>2 DEF RunTasks
<1>4. ASSUME NEW t \in Workers, WorkerLoop(t) PROVE UNCHANGED Abstract!vars
  BY <1>4, ThreadStutters DEF Workers
<1>5. CASE OtherProcess \/ Stopped \/ UNCHANGED vars
  BY <1>5, OutsideStutters
<1> QED BY <1>1, <1>2, <1>3, <1>4, <1>5 DEF Next

(* tp_for_parallel is the abstract parallel for, for every number of        *)
(* workers, tasks and calls: each id is started once, ended once, and the  *)
(* call returns after the last one ended, whichever threads run them.      *)
THEOREM PoolImplements == Spec => ImplementsParallelFor
<1>1. Init => Abstract!Init
  <2> SUFFICES ASSUME Init PROVE Abstract!Init
    OBVIOUS
  <2>1. ~Busy
    BY PoolAssumption DEF Init, Busy, TaskPCs, Threads
  <2>2. \A t \in Threads : ~Running(t)
    BY DEF Init, Running
  <2> QED BY <2>1, <2>2 DEF Abstract!Init, HeldIds
<1>2. IInv /\ IInv' /\ [Next]_vars => [Abstract!Next]_(Abstract!vars)
  BY StepImplements
<1> QED
  BY <1>1, <1>2, Invariance, PTL DEF Spec, ImplementsParallelFor, Abstract!Spec

-------------------------------------------------------------------------------
(* Parallel loops.                                                         *)

allVars == <<vars, loopVars>>

(* The task with id k has handled its items.                               *)
HasHandled(k) ==
  k \in ran \/ \E t \in Threads : pc[t] = "count_done" /\ held[t].id = k

(* Before the first loop there is no task; later the ranges are the split   *)
(* of the items over the tasks.                                            *)
RangesInv ==
  /\ items \in Nat
  /\ \/ n = 0 /\ items = 0 /\ ~Busy
     \/ n \in 1 .. MaxTasks /\ ranges = DivideWork(items, n)

HandledInv ==
  /\ DOMAIN handled = 0 .. items - 1
  /\ \A x \in 0 .. items - 1, k \in 0 .. n - 1 :
       InRange(x, ranges[k]) => handled[x] = IF HasHandled(k) THEN 1 ELSE 0

LoopInv == RangesInv /\ HandledInv

(* A loop runs on the pool: its steps do to the pool what the pool's do.   *)
THEOREM LoopRunsOnPool == LoopSpec => Spec
<1>1. LoopInit => Init
  BY DEF LoopInit
<1>2. [LoopNext]_allVars => [Next]_vars
  BY DEF LoopNext, CallLoop, Handle, PoolStep, Next, RunTasks, allVars, vars
<1> QED BY <1>1, <1>2, PTL DEF LoopSpec, Spec, allVars

(* The partition in terms of the state.                                    *)
LEMMA StatePartition ==
  ASSUME RangesInv, n # 0
  PROVE  /\ \A x \in 0 .. items - 1 : \E k \in 0 .. n - 1 : InRange(x, ranges[k])
         /\ \A x \in 0 .. items - 1 : \A j, k \in 0 .. n - 1 :
              InRange(x, ranges[j]) /\ InRange(x, ranges[k]) => j = k
         /\ \A k \in 0 .. n - 1 : ranges[k].max <= items
<1>1. items \in Nat /\ n \in Nat \ {0} /\ ranges = DivideWork(items, n)
  BY PoolAssumption DEF RangesInv
<1>2. 0 .. n - 1 \subseteq 0 .. n
  BY <1>1
<1> QED BY <1>1, <1>2, RangesPartition

LEMMA LoopInitInv == LoopInit => LoopInv
BY PoolAssumption
   DEF LoopInit, Init, LoopInv, RangesInv, HandledInv, Busy, Threads, TaskPCs

LEMMA CallLoopInv ==
  ASSUME IInv, LoopInv, NEW k \in 0 .. MaxItems, NEW tasks \in 1 .. MaxTasks, CallLoop(k, tasks)
  PROVE  LoopInv'
<1> USE PoolAssumption, LoopAssumption
<1>1. /\ pc[0] = "ready" /\ pc' = [pc EXCEPT ![0] = "set_func"] /\ ran' = {} /\ n' = tasks
      /\ items' = k /\ ranges' = DivideWork(k, tasks)
      /\ handled' = [x \in 0 .. k - 1 |-> 0]
  BY DEF CallLoop, CallForParallel, Goto
<1>2. RangesInv'
  BY <1>1 DEF RangesInv
<1>3. \A t \in Threads : ~InFlight(t)
  BY <1>1 DEF IInv, ClosedInv, Open, TaskPCs
<1>4. \A t \in Threads : pc'[t] # "count_done"
  BY <1>1, <1>3 DEF InFlight, IInv, TypeOK, PcType
<1>5. \A j : ~HasHandled(j)'
  BY <1>1, <1>4 DEF HasHandled
<1>6. HandledInv'
  BY <1>1, <1>5 DEF HandledInv
<1> QED BY <1>2, <1>6 DEF LoopInv

LEMMA HandleInv ==
  ASSUME IInv, RightTask, NoTaskTwice, LoopInv, NEW t \in Threads, Handle(t)
  PROVE  LoopInv'
<1>1. /\ pc[t] = "running" /\ pc' = [pc EXCEPT ![t] = "count_done"] /\ held' = held
      /\ ran' = ran /\ n' = n /\ items' = items /\ ranges' = ranges
      /\ handled' = [x \in DOMAIN handled |->
                       IF InRange(x, ranges[held[t].id]) THEN handled[x] + 1 ELSE handled[x]]
  BY DEF Handle, FinishTask, Goto, callVars
<1>2. pc \in [Threads -> MainPCs \cup TaskPCs \cup WorkerPCs]
  BY DEF IInv, TypeOK, PcType
<1>3. Running(t) /\ held[t].id \in 0 .. n - 1
  BY <1>1 DEF Running, RightTask
<1>4. n # 0
  BY <1>3
<1>5. RangesInv'
  <2>1. Busy' = Busy
    BY <1>1, <1>2 DEF Busy, TaskPCs, IInv, TypeOK, PcType
  <2> QED BY <2>1, <1>1 DEF LoopInv, RangesInv
<1>6. ~HasHandled(held[t].id)
  BY <1>1, <1>3 DEF NoTaskTwice, HasHandled, Running
<1>7. HasHandled(held[t].id)'
  BY <1>1, <1>2 DEF HasHandled
<1>8. ASSUME NEW j, j # held[t].id
      PROVE  HasHandled(j)' <=> HasHandled(j)
  BY <1>1, <1>2, <1>8 DEF HasHandled
<1>9. ASSUME NEW x \in 0 .. items - 1, NEW j \in 0 .. n - 1, InRange(x, ranges[j])
      PROVE  handled'[x] = IF HasHandled(j)' THEN 1 ELSE 0
  <2>1. x \in DOMAIN handled /\ handled[x] = IF HasHandled(j) THEN 1 ELSE 0
    BY <1>9 DEF LoopInv, HandledInv
  <2>2. CASE j = held[t].id
    BY <2>1, <2>2, <1>1, <1>6, <1>7, <1>9
  <2>3. CASE j # held[t].id
    <3>1. ~InRange(x, ranges[held[t].id])
      BY <2>3, <1>3, <1>4, <1>9, StatePartition DEF LoopInv
    <3> QED BY <3>1, <2>1, <2>3, <1>1, <1>8
  <2> QED BY <2>2, <2>3
<1>10. HandledInv'
  BY <1>1, <1>9 DEF LoopInv, HandledInv
<1> QED BY <1>5, <1>10 DEF LoopInv

(* A step that moves no thread to or from the point behind its task, and    *)
(* starts no loop, keeps the invariant.                                    *)
LEMMA OtherStepInv ==
  ASSUME LoopInv, UNCHANGED <<loopVars, n, ran>>, Busy' => Busy,
         \A t \in Threads : pc'[t] = "count_done" <=> pc[t] = "count_done",
         \A t \in Threads : pc[t] = "count_done" => held'[t] = held[t]
  PROVE  LoopInv'
<1>1. \A j : HasHandled(j)' <=> HasHandled(j)
  BY DEF HasHandled
<1> QED BY <1>1 DEF LoopInv, RangesInv, HandledInv, loopVars

LEMMA CountDoneLoopInv ==
  ASSUME IInv, LoopInv, UNCHANGED loopVars, NEW t \in Threads, CountDone(t)
  PROVE  LoopInv'
<1>1. /\ pc[t] = "count_done" /\ pc' = [pc EXCEPT ![t] = "take_id"]
      /\ held' = [held EXCEPT ![t] = NoTask]
      /\ ran' = ran \cup {held[t].id} /\ n' = n
  BY DEF CountDone, Goto, callVars
<1>2. /\ pc \in [Threads -> MainPCs \cup TaskPCs \cup WorkerPCs]
      /\ held \in [Threads -> TaskSet]
  BY DEF IInv, TypeOK, PcType, LocalsType
<1>3. ASSUME NEW j PROVE HasHandled(j)' <=> HasHandled(j)
  BY <1>1, <1>2 DEF HasHandled
<1>4. Busy' => Busy
  BY <1>1, <1>2 DEF Busy, TaskPCs
<1> QED BY <1>1, <1>3, <1>4 DEF LoopInv, RangesInv, HandledInv, loopVars

LEMMA PoolStepInv ==
  ASSUME IInv, LoopInv, PoolStep
  PROVE  LoopInv'
<1> USE PoolAssumption
<1>1. UNCHANGED loopVars
  BY DEF PoolStep
<1>2. /\ pc \in [Threads -> MainPCs \cup TaskPCs \cup WorkerPCs]
      /\ held \in [Threads -> TaskSet]
      /\ 0 \in Threads
  BY DEF IInv, TypeOK, PcType, LocalsType, Threads
<1>3. CASE ForParallelStep
  BY <1>1, <1>2, <1>3, OtherStepInv
     DEF ForParallelStep, SetFunc, SetCount, SetDone, SetLeft, DropExec, DropTask, Join,
         Goto, callVars, threadVars, poolVars, semVars, Busy, TaskPCs
<1>4. CASE Release \/ ReleaseStep
  BY <1>1, <1>2, <1>4, OtherStepInv
     DEF Release, ReleaseStep, ReleaseDropExec, ReleaseDropTask, CloseHandles, ZeroPool,
         Goto, callVars, threadVars, poolVars, semVars, Busy, TaskPCs
<1>5. ASSUME NEW t \in Threads, TakeId(t) \/ Fetch(t) PROVE LoopInv'
  BY <1>1, <1>2, <1>5, OtherStepInv
     DEF TakeId, Fetch, Goto, callVars, threadVars, poolVars, semVars, Busy, TaskPCs
<1>6. ASSUME NEW t \in Threads, CountDone(t) PROVE LoopInv'
  BY <1>1, <1>6, CountDoneLoopInv
<1>7. ASSUME NEW t \in Workers, WorkerLoop(t) PROVE LoopInv'
  BY <1>1, <1>2, <1>7, OtherStepInv
     DEF WorkerLoop, CheckLive, WaitExec, WaitTask, TakeExec, TakeTask, Workers, Goto, callVars, threadVars,
         poolVars, semVars, Busy, TaskPCs
<1>8. CASE OtherProcess \/ Stopped
  BY <1>1, <1>2, <1>8, OtherStepInv
     DEF OtherProcess, Stopped, vars, callVars, threadVars, poolVars, semVars, Busy, TaskPCs
<1> QED BY <1>3, <1>4, <1>5, <1>6, <1>7, <1>8 DEF PoolStep

LEMMA LoopInvariance == LoopSpec => []LoopInv
<1>1. IInv /\ RightTask /\ NoTaskTwice /\ LoopInv /\ [LoopNext]_allVars => LoopInv'
  <2> SUFFICES ASSUME IInv, RightTask, NoTaskTwice, LoopInv, [LoopNext]_allVars PROVE LoopInv'
    OBVIOUS
  <2>1. CASE UNCHANGED allVars
    BY <2>1, OtherStepInv
       DEF allVars, vars, callVars, threadVars, poolVars, semVars, Busy
  <2>2. CASE LoopNext
    BY <2>2, CallLoopInv, HandleInv, PoolStepInv DEF LoopNext
  <2> QED BY <2>1, <2>2
<1> QED BY <1>1, LoopInitInv, LoopRunsOnPool, Invariance, TasksAreOfThisCall, NoTaskRunsTwice, PTL
        DEF LoopSpec, allVars

(* Every item of a loop is handled exactly once by the time the loop        *)
(* returns.                                                                *)
THEOREM LoopsHandleItemsOnce == LoopSpec => []ItemsOnce
<1>1. IInv /\ LoopInv => ItemsOnce
  <2> SUFFICES ASSUME IInv, LoopInv, ~Busy, NEW x \in 0 .. items - 1 PROVE handled[x] = 1
    BY DEF ItemsOnce
  <2>1. n # 0
    BY DEF LoopInv, RangesInv
  <2>2. PICK k \in 0 .. n - 1 : InRange(x, ranges[k])
    BY <2>1, StatePartition DEF LoopInv
  <2>3. k \in ran
    BY DEF IInv, SetupInv
  <2> QED BY <2>2, <2>3 DEF LoopInv, HandledInv, HasHandled
<1> QED BY <1>1, LoopInvariance, LoopRunsOnPool, Invariance, PTL

(* No two tasks that run at the same time touch the same item, and none     *)
(* touches what is not an item.                                            *)
THEOREM LoopsShareNoItem == LoopSpec => []NoItemShared
<1>1. RightTask /\ NoTaskTwice /\ LoopInv => NoItemShared
  <2> SUFFICES ASSUME RightTask, NoTaskTwice, LoopInv, NEW t \in Threads, Running(t)
               PROVE  /\ ranges[held[t].id].max <= items
                      /\ \A u \in Threads, x \in 0 .. items - 1 :
                           Running(u) /\ InRange(x, ranges[held[t].id])
                             /\ InRange(x, ranges[held[u].id]) => u = t
    BY DEF NoItemShared
  <2>1. held[t].id \in 0 .. n - 1 /\ n # 0
    BY DEF RightTask
  <2>2. ranges[held[t].id].max <= items
    BY <2>1, StatePartition DEF LoopInv
  <2>3. ASSUME NEW u \in Threads, NEW x \in 0 .. items - 1, Running(u),
               InRange(x, ranges[held[t].id]), InRange(x, ranges[held[u].id])
        PROVE  u = t
    <3>1. held[u].id \in 0 .. n - 1
      BY <2>3 DEF RightTask
    <3>2. held[u].id = held[t].id
      BY <2>1, <2>3, <3>1, StatePartition DEF LoopInv
    <3> QED BY <3>2, <2>3 DEF NoTaskTwice
  <2> QED BY <2>2, <2>3
<1> QED BY <1>1, LoopInvariance, LoopRunsOnPool, TasksAreOfThisCall, NoTaskRunsTwice, PTL
===============================================================================
