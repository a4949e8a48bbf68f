----------------------------- MODULE ParallelFor -----------------------------
(***************************************************************************)
(* What tp_for_parallel (src/src/thread_pool/thread_pool.c) promises its    *)
(* caller: a call hands out the task ids 0 .. task_count - 1, each id is    *)
(* started once and ended once, and the call returns only when every id    *)
(* has ended.  Nothing is said about which thread runs a task.              *)
(***************************************************************************)
EXTENDS Integers

CONSTANT MaxTasks   (* the largest task_count of a call *)

VARIABLES busy,     (* a call is in progress                 *)
          todo,     (* the ids no thread has started         *)
          active    (* the ids some thread is running        *)

vars == <<busy, todo, active>>

Ids == 0 .. MaxTasks - 1

Init == /\ busy = FALSE
        /\ todo = {}
        /\ active = {}

Call(n) == /\ ~busy
           /\ busy' = TRUE
           /\ todo' = 0 .. n - 1
           /\ UNCHANGED active

Start(t) == /\ busy
            /\ t \in todo
            /\ todo' = todo \ {t}
            /\ active' = active \cup {t}
            /\ UNCHANGED busy

End(t) == /\ t \in active
          /\ active' = active \ {t}
          /\ UNCHANGED <<busy, todo>>

Return == /\ busy
          /\ todo = {}
          /\ active = {}
          /\ busy' = FALSE
          /\ UNCHANGED <<todo, active>>

Next == \/ \E n \in 1 .. MaxTasks : Call(n)
        \/ \E t \in Ids : Start(t) \/ End(t)
        \/ Return

Spec == Init /\ [][Next]_vars
===============================================================================
