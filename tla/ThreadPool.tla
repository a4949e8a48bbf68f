------------------------------ MODULE ThreadPool ------------------------------
(***************************************************************************)
(* The thread pool of src/src/thread_pool/thread_pool.c.                     *)
(*                                                                         *)
(* Thread 0 is the thread that calls tp_for_parallel; it also runs tasks,   *)
(* as worker 0.  Threads 1 .. WorkerCount - 1 are the launched workers.     *)
(* Every read and write of the shared TP_Context is a step of its own.      *)
(* What a task does is left out: a task is its function (the number of the  *)
(* call it was handed to) and its task_id.                                  *)
(***************************************************************************)
EXTENDS Integers, FiniteSets

CONSTANTS
  WorkerCount,   (* worker_count of tp_alloc                               *)
  MaxTasks,      (* bound: the largest task_count of a call                *)
  MaxCalls,      (* bound: how often tp_for_parallel is called             *)
  Shared,        (* tp_alloc was given a name: the task semaphore is       *)
                 (* shared with other processes                           *)
  SharedMax      (* max_worker_count of tp_alloc, used only when Shared    *)

ASSUME PoolAssumption ==
  /\ WorkerCount \in Nat \ {0}
  /\ MaxTasks \in Nat \ {0}
  /\ MaxCalls \in Nat
  /\ Shared \in BOOLEAN
  /\ SharedMax \in Nat
  /\ Shared => WorkerCount <= SharedMax

Threads == 0 .. WorkerCount - 1
Workers == Threads \ {0}
Ids     == 0 .. MaxTasks - 1

VARIABLES
  is_live, task_func, task_count, task_done, task_left,   (* TP_Context    *)
  exec_semaphore, task_semaphore, main_semaphore,         (* their counts  *)
  handles_open,    (* the semaphore handles have not been closed           *)
  pc,              (* where each thread is                                 *)
  left,            (* tp_run_tasks: the local task_left of each thread     *)
  held,            (* tp_run_tasks: the task each thread is running        *)
  seen,            (* tp_run_tasks: the local task_count of each thread    *)
  call,            (* the calls of tp_for_parallel so far                  *)
  n,               (* the argument task_count of the current call          *)
  drops,           (* the semaphore drops the current loop still has to do *)
  ran              (* history: the task ids of this call counted as done   *)

poolVars   == <<is_live, task_func, task_count, task_done, task_left>>
semVars    == <<exec_semaphore, task_semaphore, main_semaphore, handles_open>>
threadVars == <<left, held, seen>>
callVars   == <<call, n, drops>>
vars       == <<poolVars, semVars, pc, threadVars, callVars, ran>>

MainPCs   == {"ready", "set_func", "set_count", "set_done", "set_left",
              "drop_exec", "drop_task", "join",
              "release_exec", "release_task", "close", "zero", "released"}
TaskPCs   == {"take_id", "fetch", "running", "count_done"}
WorkerPCs == {"check_live", "wait_exec", "blocked_exec", "wait_task", "blocked_task",
              "exit"}

NoTask == [func |-> 0, id |-> 0]

(* With one worker tp_alloc creates no semaphore: every handle is zero, a  *)
(* drop does nothing and a take fails at once.                             *)
HasSemaphores == WorkerCount > 1
TaskMax       == IF Shared THEN SharedMax ELSE WorkerCount

(* os_semaphore_drop: ReleaseSemaphore leaves a full semaphore as it is.   *)
Dropped(s, max) == IF HasSemaphores /\ s < max THEN s + 1 ELSE s

Goto(t, to) == pc' = [pc EXCEPT ![t] = to]

(* tp_alloc: the pool is live, its fields are zero, the workers start.     *)
Init ==
  /\ is_live = TRUE
  /\ task_func = 0 /\ task_count = 0 /\ task_done = 0 /\ task_left = 0
  /\ exec_semaphore = 0 /\ task_semaphore = 0 /\ main_semaphore = 0
  /\ handles_open = TRUE
  /\ pc = [t \in Threads |-> IF t = 0 THEN "ready" ELSE "check_live"]
  /\ left = [t \in Threads |-> 0]
  /\ held = [t \in Threads |-> NoTask]
  /\ seen = [t \in Threads |-> 0]
  /\ call = 0 /\ n = 0 /\ drops = 0
  /\ ran = {}

-------------------------------------------------------------------------------
(* tp_for_parallel, on thread 0.  A call with task_count = 0 does nothing. *)

CallForParallel(k) ==
  /\ pc[0] = "ready"
  /\ call < MaxCalls
  /\ k > 0
  /\ call' = call + 1
  /\ n' = k
  /\ ran' = {}
  /\ Goto(0, "set_func")
  /\ UNCHANGED <<poolVars, semVars, threadVars, drops>>

(* Mutant of SetFunc: the ids are handed out before the other fields are    *)
(* written.                                                                *)
SetFuncPublishing ==
  /\ pc[0] = "set_func"
  /\ task_func' = call
  /\ task_left' = n
  /\ Goto(0, "set_count")
  /\ UNCHANGED <<is_live, task_count, task_done, semVars, threadVars,
                 callVars, ran>>

(* task_arena, task_func and task_data: the fields that say what to run.   *)
SetFunc ==
  /\ pc[0] = "set_func"
  /\ task_func' = call
  /\ Goto(0, "set_count")
  /\ UNCHANGED <<is_live, task_count, task_done, task_left, semVars, threadVars,
                 callVars, ran>>

SetCount ==
  /\ pc[0] = "set_count"
  /\ task_count' = n
  /\ Goto(0, "set_done")
  /\ UNCHANGED <<is_live, task_func, task_done, task_left, semVars, threadVars,
                 callVars, ran>>

SetDone ==
  /\ pc[0] = "set_done"
  /\ task_done' = 0
  /\ Goto(0, "set_left")
  /\ UNCHANGED <<is_live, task_func, task_count, task_left, semVars, threadVars,
                 callVars, ran>>

DropCount == IF n < WorkerCount THEN n ELSE WorkerCount

(* The atomic store that hands the ids out; drop_count is computed after.  *)
SetLeft ==
  /\ pc[0] = "set_left"
  /\ task_left' = n
  /\ drops' = DropCount
  /\ Goto(0, IF Shared THEN "drop_exec" ELSE "drop_task")
  /\ UNCHANGED <<is_live, task_func, task_count, task_done, semVars, threadVars,
                 call, n, ran>>

DropExec ==
  /\ pc[0] = "drop_exec"
  /\ IF drops > 0
     THEN /\ exec_semaphore' = Dropped(exec_semaphore, WorkerCount)
          /\ drops' = drops - 1
          /\ UNCHANGED pc
     ELSE /\ drops' = DropCount
          /\ Goto(0, "drop_task")
          /\ UNCHANGED exec_semaphore
  /\ UNCHANGED <<poolVars, task_semaphore, main_semaphore, handles_open,
                 threadVars, call, n, ran>>

DropTask ==
  /\ pc[0] = "drop_task"
  /\ IF drops > 0
     THEN /\ task_semaphore' = Dropped(task_semaphore, TaskMax)
          /\ drops' = drops - 1
          /\ UNCHANGED pc
     ELSE /\ Goto(0, "take_id")
          /\ UNCHANGED <<task_semaphore, drops>>
  /\ UNCHANGED <<poolVars, exec_semaphore, main_semaphore, handles_open,
                 threadVars, call, n, ran>>

(* Mutant of Join: the caller returns when no id is left to take.          *)
JoinWithoutWait ==
  /\ pc[0] = "join"
  /\ Goto(0, "ready")
  /\ UNCHANGED <<poolVars, semVars, threadVars, callVars, ran>>

(* os_semaphore_take(main_semaphore): waits for the last task to be done.  *)
Join ==
  /\ pc[0] = "join"
  /\ HasSemaphores => main_semaphore > 0
  /\ main_semaphore' = IF HasSemaphores THEN main_semaphore - 1 ELSE main_semaphore
  /\ Goto(0, "ready")
  /\ UNCHANGED <<poolVars, exec_semaphore, task_semaphore, handles_open,
                 threadVars, callVars, ran>>

-------------------------------------------------------------------------------
(* tp_run_tasks, on any thread.                                            *)

(* ins_atomic_u64_dec_eval(&pool->task_left), and the break below zero.    *)
TakeId(t) ==
  /\ pc[t] = "take_id"
  /\ task_left' = task_left - 1
  /\ left' = [left EXCEPT ![t] = IF task_left > 0 THEN task_left - 1 ELSE 0]
  /\ Goto(t, IF task_left - 1 >= 0 THEN "fetch"
             ELSE IF t = 0 THEN "join" ELSE "check_live")
  /\ UNCHANGED <<is_live, task_func, task_count, task_done, semVars, held, seen,
                 callVars, ran>>

(* Mutant of TaskId: the id is computed from the shared counter, not from  *)
(* the value this thread's decrement returned.                             *)
TaskIdReread(t) == task_count - (task_left + 1)

TaskId(t) == task_count - (left[t] + 1)

(* Reads task_arena, task_count, task_func and task_data; the task starts. *)
Fetch(t) ==
  /\ pc[t] = "fetch"
  /\ held' = [held EXCEPT ![t] = [func |-> task_func, id |-> TaskId(t)]]
  /\ Goto(t, "running")
  /\ UNCHANGED <<poolVars, semVars, left, seen, callVars, ran>>

(* The task function returns and task_count is read again.                 *)
FinishTask(t) ==
  /\ pc[t] = "running"
  /\ seen' = [seen EXCEPT ![t] = task_count]
  /\ Goto(t, "count_done")
  /\ UNCHANGED <<poolVars, semVars, left, held, callVars, ran>>

(* Mutant of CountDone: the count before the increment is compared.        *)
CountDoneBefore(t) ==
  /\ pc[t] = "count_done"
  /\ task_done' = task_done + 1
  /\ main_semaphore' = IF task_done = seen[t]
                       THEN Dropped(main_semaphore, 1) ELSE main_semaphore
  /\ ran' = ran \cup {held[t].id}
  /\ left' = [left EXCEPT ![t] = 0]
  /\ held' = [held EXCEPT ![t] = NoTask]
  /\ seen' = [seen EXCEPT ![t] = 0]
  /\ Goto(t, "take_id")
  /\ UNCHANGED <<is_live, task_func, task_count, task_left, exec_semaphore,
                 task_semaphore, handles_open, callVars>>

(* ins_atomic_u64_inc_eval(&pool->task_done); the last one wakes thread 0. *)
(* The locals of the loop body end with it.                                *)
CountDone(t) ==
  /\ pc[t] = "count_done"
  /\ task_done' = task_done + 1
  /\ main_semaphore' = IF task_done + 1 = seen[t]
                       THEN Dropped(main_semaphore, 1) ELSE main_semaphore
  /\ ran' = ran \cup {held[t].id}
  /\ left' = [left EXCEPT ![t] = 0]
  /\ held' = [held EXCEPT ![t] = NoTask]
  /\ seen' = [seen EXCEPT ![t] = 0]
  /\ Goto(t, "take_id")
  /\ UNCHANGED <<is_live, task_func, task_count, task_left, exec_semaphore,
                 task_semaphore, handles_open, callVars>>

-------------------------------------------------------------------------------
(* tp_worker_main and tp_worker_main_shared, on the launched threads.       *)

CheckLive(t) ==
  /\ pc[t] = "check_live"
  /\ Goto(t, IF ~is_live THEN "exit" ELSE IF Shared THEN "wait_exec" ELSE "wait_task")
  /\ UNCHANGED <<poolVars, semVars, threadVars, callVars, ran>>

(* os_semaphore_take.  The call on a closed handle fails and the loop runs *)
(* again; on an open one the thread is in WaitForSingleObject until it gets *)
(* a token, and closing the handle does not end its wait.                  *)
WaitExec(t) ==
  /\ pc[t] = "wait_exec"
  /\ Goto(t, IF handles_open THEN "blocked_exec" ELSE "check_live")
  /\ UNCHANGED <<poolVars, semVars, threadVars, callVars, ran>>

(* Mutant of WaitTask: a call that fails is made again.                    *)
WaitTaskRetry(t) ==
  /\ pc[t] = "wait_task"
  /\ Goto(t, IF handles_open THEN "blocked_task" ELSE "wait_task")
  /\ UNCHANGED <<poolVars, semVars, threadVars, callVars, ran>>

WaitTask(t) ==
  /\ pc[t] = "wait_task"
  /\ Goto(t, IF handles_open THEN "blocked_task" ELSE "check_live")
  /\ UNCHANGED <<poolVars, semVars, threadVars, callVars, ran>>

TakeExec(t) ==
  /\ pc[t] = "blocked_exec"
  /\ exec_semaphore > 0
  /\ exec_semaphore' = exec_semaphore - 1
  /\ Goto(t, "wait_task")
  /\ UNCHANGED <<poolVars, task_semaphore, main_semaphore, handles_open,
                 threadVars, callVars, ran>>

TakeTask(t) ==
  /\ pc[t] = "blocked_task"
  /\ task_semaphore > 0
  /\ task_semaphore' = task_semaphore - 1
  /\ Goto(t, "take_id")
  /\ UNCHANGED <<poolVars, exec_semaphore, main_semaphore, handles_open,
                 threadVars, callVars, ran>>

(* Another process that opened the named semaphore takes or drops it, also  *)
(* after this one has closed its own handle.                               *)
OtherProcess ==
  /\ Shared
  /\ task_semaphore' \in {task_semaphore - 1, task_semaphore + 1} \cap (0 .. TaskMax)
  /\ UNCHANGED <<poolVars, exec_semaphore, main_semaphore, handles_open, pc,
                 threadVars, callVars, ran>>

-------------------------------------------------------------------------------
(* tp_release, on thread 0, between calls.                                  *)

(* Mutant of Release: one token per worker that is not the last one.       *)
ReleaseShort ==
  /\ pc[0] = "ready"
  /\ is_live' = FALSE
  /\ drops' = IF WorkerCount > 2 THEN WorkerCount - 2 ELSE 0
  /\ Goto(0, IF Shared THEN "release_exec" ELSE "release_task")
  /\ UNCHANGED <<task_func, task_count, task_done, task_left, semVars, threadVars,
                 call, n, ran>>

Release ==
  /\ pc[0] = "ready"
  /\ is_live' = FALSE
  /\ drops' = WorkerCount
  /\ Goto(0, IF Shared THEN "release_exec" ELSE "release_task")
  /\ UNCHANGED <<task_func, task_count, task_done, task_left, semVars, threadVars,
                 call, n, ran>>

ReleaseDropExec ==
  /\ pc[0] = "release_exec"
  /\ IF drops > 0
     THEN /\ exec_semaphore' = Dropped(exec_semaphore, WorkerCount)
          /\ drops' = drops - 1
          /\ UNCHANGED pc
     ELSE /\ drops' = WorkerCount
          /\ Goto(0, "release_task")
          /\ UNCHANGED exec_semaphore
  /\ UNCHANGED <<poolVars, task_semaphore, main_semaphore, handles_open,
                 threadVars, call, n, ran>>

ReleaseDropTask ==
  /\ pc[0] = "release_task"
  /\ IF drops > 0
     THEN /\ task_semaphore' = Dropped(task_semaphore, TaskMax)
          /\ drops' = drops - 1
          /\ UNCHANGED pc
     ELSE /\ Goto(0, "close")
          /\ UNCHANGED <<task_semaphore, drops>>
  /\ UNCHANGED <<poolVars, exec_semaphore, main_semaphore, handles_open,
                 threadVars, call, n, ran>>

CloseHandles ==
  /\ pc[0] = "close"
  /\ handles_open' = FALSE
  /\ Goto(0, "zero")
  /\ UNCHANGED <<poolVars, exec_semaphore, task_semaphore, main_semaphore,
                 threadVars, callVars, ran>>

(* MemoryZeroStruct(pool)                                                   *)
ZeroPool ==
  /\ pc[0] = "zero"
  /\ is_live' = FALSE
  /\ task_func' = 0 /\ task_count' = 0 /\ task_done' = 0 /\ task_left' = 0
  /\ Goto(0, "released")
  /\ UNCHANGED <<semVars, threadVars, callVars, ran>>

(* A launched worker has nothing left to do: it has returned from its entry *)
(* point, or it waits for a token other processes have all taken.          *)
AtRest(t) == pc[t] = "exit" \/ (Shared /\ pc[t] = "blocked_task" /\ task_semaphore = 0)

(* Everything has stopped: thread 0 has released the pool.                 *)
Stopped ==
  /\ pc[0] = "released"
  /\ \A t \in Workers : AtRest(t)
  /\ UNCHANGED vars

-------------------------------------------------------------------------------
ForParallelStep == SetFunc \/ SetCount \/ SetDone \/ SetLeft \/ DropExec \/ DropTask \/ Join
ReleaseStep     == ReleaseDropExec \/ ReleaseDropTask \/ CloseHandles \/ ZeroPool
RunTasks(t)     == TakeId(t) \/ Fetch(t) \/ FinishTask(t) \/ CountDone(t)
WorkerLoop(t)   == CheckLive(t) \/ WaitExec(t) \/ TakeExec(t) \/ WaitTask(t) \/ TakeTask(t)

Next ==
  \/ \E k \in 1 .. MaxTasks : CallForParallel(k)
  \/ ForParallelStep
  \/ \E t \in Threads : RunTasks(t)
  \/ \E t \in Workers : WorkerLoop(t)
  \/ OtherProcess
  \/ Release
  \/ ReleaseStep
  \/ Stopped

Spec == Init /\ [][Next]_vars

(* The operating system runs every thread that is not blocked.  The caller *)
(* need not call again and need not release the pool.                      *)
Fairness ==
  /\ WF_vars(ForParallelStep \/ ReleaseStep)
  /\ \A t \in Threads : WF_vars(RunTasks(t))
  /\ \A t \in Workers : WF_vars(WorkerLoop(t))

FairSpec == Spec /\ Fairness

-------------------------------------------------------------------------------
(* Properties                                                              *)

TaskSet == [func : 0 .. MaxCalls, id : Ids]

PoolType ==
  /\ is_live \in BOOLEAN
  /\ task_func \in 0 .. MaxCalls
  /\ task_count \in 0 .. MaxTasks
  /\ task_done \in 0 .. MaxTasks
  /\ task_left \in Int

SemType ==
  /\ exec_semaphore \in 0 .. WorkerCount
  /\ task_semaphore \in 0 .. TaskMax
  /\ main_semaphore \in 0 .. 1
  /\ handles_open \in BOOLEAN

PcType ==
  /\ pc \in [Threads -> MainPCs \cup TaskPCs \cup WorkerPCs]
  /\ pc[0] \in MainPCs \cup TaskPCs
  /\ \A t \in Workers : pc[t] \in WorkerPCs \cup TaskPCs

LocalsType ==
  /\ left \in [Threads -> Ids]
  /\ held \in [Threads -> TaskSet]
  /\ seen \in [Threads -> 0 .. MaxTasks]

CallType ==
  /\ call \in 0 .. MaxCalls
  /\ n \in 0 .. MaxTasks
  /\ drops \in 0 .. WorkerCount
  /\ ran \in SUBSET Ids

(* Every field of the pool and every local of a thread has its type: the   *)
(* semaphores stay within the counts tp_alloc created them with, and no    *)
(* thread is at a point only the other kind of thread reaches.             *)
TypeOK == PoolType /\ SemType /\ PcType /\ LocalsType /\ CallType

(* A thread that has taken an id and not yet counted it as done; one that   *)
(* has also read what to run.                                              *)
InFlight(t) == pc[t] \in {"fetch", "running", "count_done"}
Running(t)  == pc[t] \in {"running", "count_done"}

(* The caller is inside tp_for_parallel.                                   *)
Busy == pc[0] \in TaskPCs \cup {"set_func", "set_count", "set_done", "set_left",
                                "drop_exec", "drop_task", "join"}

(* tp_for_parallel returns only when every task of the call has been run   *)
(* and no worker is still inside one: the caller frees the scratch memory  *)
(* the tasks work on (tp_temp_end) as soon as it has returned.             *)
ReturnedComplete ==
  ~Busy => /\ ran = 0 .. n - 1
           /\ \A t \in Threads : ~InFlight(t)

(* A worker that wakes late, on a token an earlier call left behind, never *)
(* runs a task of a call that is over, nor an id out of the call's range:  *)
(* what it runs is a task of the call in progress.                         *)
RightTask ==
  \A t \in Threads :
    Running(t) => held[t].func = call /\ held[t].id \in 0 .. n - 1

(* No id is run twice: two threads never hold the same id, and an id that  *)
(* was counted as done is held by nobody.                                  *)
NoTaskTwice ==
  \A t \in Threads : Running(t) =>
    /\ held[t].id \notin ran
    /\ \A u \in Threads : Running(u) /\ held[u].id = held[t].id => u = t

(* Every task of a call is run once, and before the call returns.          *)
TasksOnce == NoTaskTwice /\ ReturnedComplete

(* The wake-up of a call is consumed by that call: a token left on         *)
(* main_semaphore would let the next call return before its tasks are done.*)
NoStaleWakeup == pc[0] \notin TaskPCs \cup {"drop_exec", "drop_task", "join"}
                   => main_semaphore = 0

(* tp_release closes the task semaphore: each worker that is in a wait for  *)
(* it by then, or about to be, has a token to end that wait, since nothing *)
(* wakes it later (a shared pool's tokens may go to other processes).      *)
NoWaitOnClosed ==
  pc[0] = "close" /\ ~Shared =>
    Cardinality({t \in Workers : pc[t] \in {"wait_task", "blocked_task"}}) <= task_semaphore

(* The pool implements the abstract parallel for: a call starts every id   *)
(* once, ends it once and returns after the last one ended.                *)
HeldIds == {held[t].id : t \in {u \in Threads : Running(u)}}

Abstract == INSTANCE ParallelFor WITH
              busy   <- Busy,
              todo   <- IF Busy THEN (0 .. n - 1) \ (ran \cup HeldIds) ELSE {},
              active <- HeldIds

ImplementsParallelFor == Abstract!Spec

(* A call always returns, whichever workers wake up for it.                *)
CallReturns == Busy ~> ~Busy

(* After tp_release every launched worker leaves its loop, whatever it was  *)
(* doing when the pool ended.  Only a worker of a shared pool may not: it   *)
(* stays in its wait while other processes hold all of the task tokens.    *)
WorkersExit == (pc[0] = "released") ~> (\A t \in Workers : AtRest(t))
===============================================================================
