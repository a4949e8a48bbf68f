----------------------------- MODULE ParallelLoop -----------------------------
(***************************************************************************)
(* A parallel loop over items, the way all of the engine runs one (such as *)
(* cql_column_ensure_zone_map and cql_csv_parse_task of src/src/cql/cql.c): *)
(* tp_divide_work makes one range of the items for each task, and           *)
(* tp_for_parallel runs a task function that handles the items of           *)
(* ranges[task_id].  Composes ThreadPool and WorkRanges.                   *)
(***************************************************************************)
EXTENDS ThreadPool, WorkRanges

CONSTANT MaxItems   (* bound: the items of a loop *)

ASSUME LoopAssumption == MaxItems \in Nat

VARIABLES
  items,       (* the number of items of the current loop                  *)
  ranges,      (* task.ranges                                              *)
  handled      (* history: how often each item was handled                 *)

loopVars == <<items, ranges, handled>>

LoopInit ==
  /\ Init
  /\ items = 0
  /\ ranges = DivideWork(0, 1)
  /\ handled = [x \in {} |-> 0]

(* The caller divides k items over task_count tasks and calls.             *)
CallLoop(k, tasks) ==
  /\ CallForParallel(tasks)
  /\ items' = k
  /\ ranges' = DivideWork(k, tasks)
  /\ handled' = [x \in 0 .. k - 1 |-> 0]

(* A task has handled the items of its range.                              *)
Handle(t) ==
  /\ FinishTask(t)
  /\ handled' = [x \in DOMAIN handled |->
                   IF InRange(x, ranges[held[t].id]) THEN handled[x] + 1 ELSE handled[x]]
  /\ UNCHANGED <<items, ranges>>

PoolStep ==
  /\ \/ ForParallelStep
     \/ \E t \in Threads : TakeId(t) \/ Fetch(t) \/ CountDone(t)
     \/ \E t \in Workers : WorkerLoop(t)
     \/ OtherProcess
     \/ Release
     \/ ReleaseStep
     \/ Stopped
  /\ UNCHANGED loopVars

LoopNext ==
  \/ \E k \in 0 .. MaxItems, tasks \in 1 .. MaxTasks : CallLoop(k, tasks)
  \/ \E t \in Threads : Handle(t)
  \/ PoolStep

LoopSpec == LoopInit /\ [][LoopNext]_<<vars, loopVars>> /\ Fairness

-------------------------------------------------------------------------------
(* Properties                                                              *)

(* When a loop has returned, each of its items has been handled, and once:  *)
(* more tasks than items, counts that do not divide, and workers that wake  *)
(* late or not at all leave out no row and count none twice                *)
(* (tp_divide_work, tp_for_parallel).                                      *)
ItemsOnce == ~Busy => \A x \in 0 .. items - 1 : handled[x] = 1

(* Tasks that run at the same time work on different items, and on none     *)
(* past the last: they write rows of one output array without a lock.      *)
NoItemShared ==
  \A t \in Threads : Running(t) =>
    /\ ranges[held[t].id].max <= items
    /\ \A u \in Threads, x \in 0 .. items - 1 :
         Running(u) /\ InRange(x, ranges[held[t].id]) /\ InRange(x, ranges[held[u].id])
           => u = t
===============================================================================
