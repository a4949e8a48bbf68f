------------------------------ MODULE ImportPool ------------------------------
(***************************************************************************)
(* The streams of src/src/gpu/vulkan/gpu_vulkan.c on a device that imports  *)
(* host memory.  A copy of a chunk imports the column's memory: a worker    *)
(* makes the import, the caller records the copy when the slot is           *)
(* submitted, the device reads the import, and when the slot is begun again *)
(* or the stream is released a worker releases it.  The caller uses a       *)
(* stream the way every streamed operator of query_exec.c does: the slots   *)
(* in turn, each chunk submitted one chunk late.                           *)
(***************************************************************************)
EXTENDS Integers, Sequences, FiniteSets

CONSTANTS
  Workers,      (* the import threads                                       *)
  SlotCount,    (* the slots of a stream                                    *)
  MaxImports,   (* GPU_VULKAN_STREAM_MAX_IMPORTS                            *)
  JobCap,       (* GPU_VULKAN_STREAM_JOB_CAP                                *)
  Faults,       (* what may fail: "import", "copy", "compute", "lost"       *)
  MaxCopies,    (* bound: the copies asked for in a behaviour               *)
  MaxOpens,     (* bound: the streams opened in a behaviour                 *)
  MaxChunks,    (* bound: the chunks of a stream                            *)
  None

ASSUME ImportAssumption ==
  /\ IsFiniteSet(Workers)
  /\ SlotCount \in Nat \ {0} /\ MaxImports \in Nat \ {0}
  /\ JobCap \in Nat /\ 2 * SlotCount * MaxImports <= JobCap
  /\ MaxCopies \in Nat /\ MaxOpens \in Nat
  /\ MaxChunks \in Nat
  /\ Faults \subseteq {"import", "copy", "compute", "lost"}
  /\ None \notin Nat /\ None \notin Workers

VARIABLES
  started, stop, (* of the pool                                             *)
  queue,         (* the jobs handed over: queue, queue_head and queue_count *)
  jobs,          (* the ring of jobs                                        *)
  next_job,
  work_semaphore, release_semaphore,
  releases_outstanding,
  worker,        (* where each worker is, and the job it holds              *)
  at,            (* where the caller is                                     *)
  cur,           (* the slot it works on                                    *)
  deferred,      (* deferred_slot                                           *)
  left,          (* the chunks still to begin                               *)
  last,          (* whether the last chunk is being submitted               *)
  imports,       (* of each slot: buffer, None where there is none          *)
  import_count,
  copies,        (* pending_copies: the job of each, None once joined       *)
  ok,            (* imports_ok                                              *)
  pending,       (* the slots that are submitted and not waited for         *)
  reading,       (* of each slot: the imports that the device reads         *)
  computing,     (* the slots whose fence is not signalled yet              *)
  device_lost,
  live,          (* the import objects that exist                           *)
  asked, opened  (* counters for the bounds                                 *)

pool == <<started, stop, queue, jobs, next_job, work_semaphore,
          release_semaphore, releases_outstanding>>
slots == <<imports, import_count, copies, pending>>
device == <<reading, computing, device_lost>>
place == <<at, cur, deferred, left, last>>
import_vars == <<pool, worker, place, slots, ok, device, live, asked, opened>>

Slots == 0 .. SlotCount - 1
Jobs == 0 .. JobCap - 1
Ports == 1 .. MaxImports

NoJob == [release |-> FALSE, object |-> None, slot |-> 0, index |-> 1,
          ok |-> FALSE, done |-> 0]

ImportInit ==
  /\ started = FALSE /\ stop = FALSE
  /\ queue = <<>> /\ jobs = [j \in Jobs |-> NoJob] /\ next_job = 0
  /\ work_semaphore = 0 /\ release_semaphore = 0 /\ releases_outstanding = 0
  /\ worker = [w \in Workers |-> [at |-> "none", job |-> None]]
  /\ at = "idle" /\ cur = 0 /\ deferred = None /\ left = 0 /\ last = FALSE
  /\ imports = [s \in Slots |-> [k \in Ports |-> None]]
  /\ import_count = [s \in Slots |-> 0]
  /\ copies = [s \in Slots |-> <<>>]
  /\ ok = TRUE /\ pending = {}
  /\ reading = [s \in Slots |-> {}] /\ computing = {} /\ device_lost = FALSE
  /\ live = {} /\ asked = 0 /\ opened = 0

-------------------------------------------------------------------------------
(* The workers (gpu_vulkan_import_worker_main).                            *)

WorkerGoto(w, to, job) == worker' = [worker EXCEPT ![w] = [at |-> to, job |-> job]]

TakeWork(w) ==
  /\ worker[w].at = "take" /\ work_semaphore > 0
  /\ work_semaphore' = work_semaphore - 1
  /\ WorkerGoto(w, IF stop THEN "exited" ELSE "dequeue", None)
  /\ UNCHANGED <<started, stop, queue, jobs, next_job, release_semaphore,
                 releases_outstanding, place, slots, ok, device, live, asked, opened>>

Dequeue(w) ==
  /\ worker[w].at = "dequeue"
  /\ queue' = Tail(queue)
  /\ WorkerGoto(w, "run", Head(queue))
  /\ UNCHANGED <<started, stop, jobs, next_job, work_semaphore, release_semaphore,
                 releases_outstanding, place, slots, ok, device, live, asked, opened>>

(* gpu_vulkan_release_import_objects                                       *)
RunRelease(w) ==
  LET job == jobs[worker[w].job]
  IN  /\ worker[w].at = "run" /\ job.release
      /\ live' = live \ {job.object}
      /\ WorkerGoto(w, "released", worker[w].job)
      /\ UNCHANGED <<pool, place, slots, ok, device, asked, opened>>

(* gpu_vulkan_import_host_into writes the slot's entry only when it works.  *)
RunImport(w) ==
  LET j == worker[w].job
  IN  /\ worker[w].at = "run" /\ ~jobs[j].release
      /\ \E works \in (IF "import" \in Faults THEN BOOLEAN ELSE {TRUE}) :
           /\ jobs' = [jobs EXCEPT ![j].ok = works]
           /\ live' = IF works THEN live \cup {jobs[j].object} ELSE live
           /\ imports' = IF works
                         THEN [imports EXCEPT ![jobs[j].slot][jobs[j].index] = jobs[j].object]
                         ELSE imports
      /\ WorkerGoto(w, "imported", j)
      /\ UNCHANGED <<started, stop, queue, next_job, work_semaphore, release_semaphore,
                     releases_outstanding, place, import_count, copies, pending,
                     ok, device, asked, opened>>

(* A drop that would take a semaphore past its maximum leaves it unchanged  *)
(* (os_semaphore_drop).                                                    *)
DropReleased(w) ==
  /\ worker[w].at = "released"
  /\ release_semaphore' = IF release_semaphore < JobCap THEN release_semaphore + 1
                                                        ELSE release_semaphore
  /\ WorkerGoto(w, "take", None)
  /\ UNCHANGED <<started, stop, queue, jobs, next_job, work_semaphore,
                 releases_outstanding, place, slots, ok, device, live, asked, opened>>

DropDone(w) ==
  /\ worker[w].at = "imported"
  /\ jobs' = [jobs EXCEPT ![worker[w].job].done = 1]
  /\ WorkerGoto(w, "take", None)
  /\ UNCHANGED <<started, stop, queue, next_job, work_semaphore, release_semaphore,
                 releases_outstanding, place, slots, ok, device, live, asked, opened>>

WorkerStep(w) ==
  \/ TakeWork(w) \/ Dequeue(w) \/ RunRelease(w) \/ RunImport(w)
  \/ DropReleased(w) \/ DropDone(w)

-------------------------------------------------------------------------------
(* Handing a job to the workers.                                           *)

(* gpu_vulkan_import_job_reserve finds the pool usable.                     *)
CanReserve == started /\ Workers # {} /\ 2 * Len(queue) < JobCap

(* A worker is done with a release before JobCap more jobs are reserved: the*)
(* code reuses the ring's entries without a check.                         *)
WorkersKeepUp ==
  \A w \in Workers : worker[w].job = next_job => ~jobs[next_job].release

(* Mutant of HandOver: a worker is woken only when the queue was empty.     *)
HandOverQuiet(release, object, slot, index) ==
  /\ WorkersKeepUp
  /\ jobs' = [jobs EXCEPT ![next_job] =
                [release |-> release, object |-> object, slot |-> slot, index |-> index,
                 ok |-> FALSE, done |-> @.done]]
  /\ next_job' = (next_job + 1) % JobCap
  /\ queue' = Append(queue, next_job)
  /\ work_semaphore' = IF queue = <<>> THEN work_semaphore + 1 ELSE work_semaphore

(* gpu_vulkan_import_job_reserve, the caller's fields, and                  *)
(* gpu_vulkan_import_job_submit                                            *)
HandOver(release, object, slot, index) ==
  /\ WorkersKeepUp
  /\ jobs' = [jobs EXCEPT ![next_job] =
                [release |-> release, object |-> object, slot |-> slot, index |-> index,
                 ok |-> FALSE, done |-> @.done]]
  /\ next_job' = (next_job + 1) % JobCap
  /\ queue' = Append(queue, next_job)
  /\ work_semaphore' = IF work_semaphore < JobCap THEN work_semaphore + 1
                                                  ELSE work_semaphore

(* One import of the slot is joined (gpu_vulkan_stream_join_imports).       *)
Unjoined(s) == {i \in 1 .. Len(copies[s]) : copies[s][i] # None}

JoinImport(s) ==
  \E i \in Unjoined(s) :
    LET j == copies[s][i]
    IN  /\ \A k \in Unjoined(s) : i <= k
        /\ jobs[j].done = 1
        /\ jobs' = [jobs EXCEPT ![j].done = 0]
        /\ ok' = (ok /\ jobs[j].ok)
        /\ copies' = [copies EXCEPT ![s][i] = None]

(* One import of the slot is given up (gpu_vulkan_stream_release_imports).  *)
Unreleased(s) == {k \in 1 .. import_count[s] : imports[s][k] # None}

ReleaseImport(s) ==
  \E k \in Unreleased(s) :
    /\ \A i \in Unreleased(s) : k <= i
    /\ imports' = [imports EXCEPT ![s][k] = None]
    /\ \/ /\ CanReserve
          /\ HandOver(TRUE, imports[s][k], s, k)
          /\ releases_outstanding' = releases_outstanding + 1
          /\ UNCHANGED live
       \/ /\ ~CanReserve
          /\ live' = live \ {imports[s][k]}
          /\ UNCHANGED <<queue, jobs, next_job, work_semaphore, releases_outstanding>>

-------------------------------------------------------------------------------
(* The caller.                                                             *)

Goto(from, to) == at = from /\ at' = to

(* gpu_vulkan_stream_alloc starts the pool at the first stream.             *)
OpenStream ==
  /\ Goto("idle", "finishToOpen")
  /\ ~device_lost /\ opened < MaxOpens
  /\ opened' = opened + 1
  /\ left' \in 1 .. MaxChunks
  /\ started' = TRUE
  /\ worker' = IF started THEN worker
               ELSE [w \in Workers |-> [at |-> "take", job |-> None]]
  /\ UNCHANGED <<stop, queue, jobs, next_job, work_semaphore, release_semaphore,
                 releases_outstanding, cur, deferred, last, slots, ok, device, live, asked>>

(* A query begins (gpu_vulkan_pool_begin_epoch), or the backend is released *)
(* (gpu_vulkan_import_pool_stop).                                          *)
BeginEpoch ==
  /\ Goto("idle", "finishEpoch") /\ releases_outstanding > 0
  /\ UNCHANGED <<pool, worker, cur, deferred, left, last, slots, ok, device, live, asked, opened>>

StopPool ==
  /\ Goto("idle", "finishToStop") /\ started /\ opened = MaxOpens
  /\ UNCHANGED <<pool, worker, cur, deferred, left, last, slots, ok, device, live, asked, opened>>

(* gpu_vulkan_stream_finish_releases                                       *)
FinishRelease ==
  /\ at \in {"finishToOpen", "finishEpoch", "finishToStop"}
  /\ releases_outstanding > 0 /\ release_semaphore > 0
  /\ release_semaphore' = release_semaphore - 1
  /\ releases_outstanding' = releases_outstanding - 1
  /\ UNCHANGED <<started, stop, queue, jobs, next_job, work_semaphore, worker,
                 place, slots, ok, device, live, asked, opened>>

Finished ==
  /\ releases_outstanding = 0
  /\ \/ Goto("finishToOpen", "chunk") /\ UNCHANGED <<stop, work_semaphore>>
     \/ Goto("finishEpoch", "idle") /\ UNCHANGED <<stop, work_semaphore>>
     \/ /\ Goto("finishToStop", "exit") /\ stop' = TRUE
        /\ work_semaphore' = work_semaphore + Cardinality(Workers)
  /\ cur' = 0 /\ deferred' = None /\ last' = FALSE /\ UNCHANGED left
  /\ UNCHANGED <<started, queue, jobs, next_job, release_semaphore,
                 releases_outstanding, worker, slots, ok, device, live, asked, opened>>

JoinWorkers ==
  /\ Goto("exit", "done")
  /\ \A w \in Workers : worker[w].at = "exited"
  /\ started' = FALSE
  /\ UNCHANGED <<stop, queue, jobs, next_job, work_semaphore, release_semaphore,
                 releases_outstanding, worker, cur, deferred, left, last, slots, ok, device,
                 live, asked, opened>>

(* Mutant of SlotWaited: the slot is begun while the device works on it.    *)
SlotNotWaited == TRUE

SlotWaited == cur \notin pending \cap computing

(* A chunk: gpu_vulkan_stream_wait and gpu_vulkan_stream_slot_begin.  After *)
(* the last chunk the slot that was deferred is submitted.                 *)
BeginChunk ==
  /\ Goto("chunk", "begin")
  /\ left > 0 /\ left' = left - 1
  /\ SlotWaited
  /\ pending' = pending \ {cur}
  /\ UNCHANGED <<pool, worker, cur, deferred, last, imports, import_count, copies,
                 ok, device, live, asked, opened>>

EndChunks ==
  /\ Goto("chunk", IF deferred = None THEN "drain" ELSE "submit")
  /\ left = 0 /\ last' = TRUE /\ ok' = TRUE
  /\ UNCHANGED <<pool, worker, cur, deferred, left, slots, device, live, asked, opened>>

(* gpu_vulkan_stream_slot_begin: the imports of the slot are released.  The  *)
(* join before it finds none: a chunk whose copies were asked for is        *)
(* submitted before its slot is begun again.                               *)
BeginRelease ==
  /\ at = "begin" /\ Unjoined(cur) = {} /\ ReleaseImport(cur)
  /\ UNCHANGED <<started, stop, release_semaphore, worker, place, import_count, copies,
                 pending, ok, device, asked, opened>>

Begun ==
  /\ Unjoined(cur) = {} /\ Unreleased(cur) = {}
  /\ Goto("begin", "copy")
  /\ import_count' = [import_count EXCEPT ![cur] = 0]
  /\ copies' = [copies EXCEPT ![cur] = <<>>]
  /\ UNCHANGED <<pool, worker, cur, deferred, left, last, imports, pending, ok, device, live,
                 asked, opened>>

(* gpu_vulkan_stream_copy: a worker imports, or the caller when none can.   *)
StreamCopy ==
  LET k == import_count[cur] + 1
  IN  /\ at = "copy" /\ asked < MaxCopies /\ k <= MaxImports
      /\ asked' = asked + 1
      /\ import_count' = [import_count EXCEPT ![cur] = k]
      /\ \/ /\ CanReserve
            /\ HandOver(FALSE, asked + 1, cur, k)
            /\ imports' = [imports EXCEPT ![cur][k] = None]
            /\ copies' = [copies EXCEPT ![cur] = Append(@, next_job)]
            /\ UNCHANGED live
         \/ /\ ~CanReserve
            /\ imports' = [imports EXCEPT ![cur][k] = asked + 1]
            /\ copies' = [copies EXCEPT ![cur] = Append(@, None)]
            /\ live' = live \cup {asked + 1}
            /\ UNCHANGED <<queue, jobs, next_job, work_semaphore>>
      /\ UNCHANGED <<started, stop, release_semaphore, releases_outstanding, worker,
                     place, pending, ok, device, opened>>

(* The caller's own import fails, and with it the chunk.                    *)
CopyFails ==
  /\ Goto("copy", "drain")
  /\ "import" \in Faults /\ ~CanReserve
  /\ asked < MaxCopies /\ import_count[cur] < MaxImports
  /\ imports' = [imports EXCEPT ![cur][import_count[cur] + 1] = None]
  /\ UNCHANGED <<pool, worker, cur, deferred, left, last, import_count, copies, pending, ok,
                 device, live, asked, opened>>

(* The chunk is recorded, and the one before it submitted.                  *)
Recorded ==
  /\ Goto("copy", IF deferred = None THEN "chunk" ELSE "submit")
  /\ deferred' = IF deferred = None THEN cur ELSE deferred
  /\ cur' = IF deferred = None THEN (cur + 1) % SlotCount ELSE cur
  /\ ok' = TRUE
  /\ UNCHANGED <<pool, worker, left, last, slots, device, live, asked, opened>>

(* gpu_vulkan_stream_submit: the imports are due now.                       *)
SubmitJoin ==
  /\ at = "submit" /\ ~device_lost /\ JoinImport(deferred)
  /\ UNCHANGED <<started, stop, queue, next_job, work_semaphore, release_semaphore,
                 releases_outstanding, worker, place, imports, import_count, pending,
                 device, live, asked, opened>>

Sources(s) == {imports[s][k] : k \in 1 .. Len(copies[s])} \ {None}

(* The device runs the copies, and then the kernel.                         *)
Submitted ==
  /\ at = "submit" /\ ~device_lost /\ Unjoined(deferred) = {} /\ ok
  /\ copies' = [copies EXCEPT ![deferred] = <<>>]
  /\ reading' = [reading EXCEPT ![deferred] = Sources(deferred)]
  /\ computing' = computing \cup {deferred}
  /\ pending' = pending \cup {deferred}
  /\ IF last THEN at' = "drain" /\ UNCHANGED <<cur, deferred>>
             ELSE at' = "chunk" /\ deferred' = cur /\ cur' = (cur + 1) % SlotCount
  /\ UNCHANGED <<pool, worker, left, last, imports, import_count, ok, device_lost, live,
                 asked, opened>>

(* An import failed, or one of the two queue submits did.  What a lost      *)
(* device was running it runs no more.                                     *)
SubmitFails ==
  /\ Goto("submit", "drain")
  /\ device_lost \/ Unjoined(deferred) = {}
  /\ copies' = IF device_lost THEN copies ELSE [copies EXCEPT ![deferred] = <<>>]
  /\ \/ device_lost /\ UNCHANGED device
     \/ ~device_lost /\ ~ok /\ UNCHANGED device
     \/ ~device_lost /\ ok /\ "copy" \in Faults /\ UNCHANGED device
     \/ /\ ~device_lost /\ ok /\ "compute" \in Faults
        /\ reading' = [reading EXCEPT ![deferred] = Sources(deferred)]
        /\ UNCHANGED <<computing, device_lost>>
     \/ /\ ~device_lost /\ ok /\ "lost" \in Faults
        /\ device_lost' = TRUE /\ reading' = [s \in Slots |-> {}]
        /\ UNCHANGED computing
  /\ UNCHANGED <<pool, worker, cur, deferred, left, last, imports, import_count, pending, ok,
                 live, asked, opened>>

(* The slots are waited for; a wait that fails ends the process.            *)
Drain(s) ==
  /\ at = "drain" /\ s \in pending
  /\ \/ s \notin computing /\ pending' = pending \ {s} /\ UNCHANGED at
     \/ s \in computing /\ device_lost /\ at' = "aborted" /\ UNCHANGED pending
  /\ UNCHANGED <<pool, worker, cur, deferred, left, last, imports, import_count, copies,
                 ok, device, live, asked, opened>>

Drained ==
  /\ Goto("drain", "close") /\ pending = {}
  /\ UNCHANGED <<pool, worker, cur, deferred, left, last, slots, ok, device, live, asked, opened>>

(* gpu_vulkan_stream_release: every import is joined, and then released.    *)
CloseJoin(s) ==
  /\ at = "close" /\ JoinImport(s)
  /\ UNCHANGED <<started, stop, queue, next_job, work_semaphore, release_semaphore,
                 releases_outstanding, worker, place, imports, import_count, pending,
                 device, live, asked, opened>>

(* Mutant of AllJoined: a stream is released while its imports are made.    *)
NoneJoined == TRUE

AllJoined == \A s \in Slots : Unjoined(s) = {}

CloseRelease(s) ==
  /\ at = "close" /\ AllJoined
  /\ \A r \in Slots : r < s => Unreleased(r) = {}
  /\ ReleaseImport(s)
  /\ UNCHANGED <<started, stop, release_semaphore, worker, place, import_count, copies,
                 pending, ok, device, asked, opened>>

Closed ==
  /\ Goto("close", "idle") /\ AllJoined /\ \A s \in Slots : Unreleased(s) = {}
  /\ import_count' = [s \in Slots |-> 0]
  /\ copies' = [s \in Slots |-> <<>>]
  /\ UNCHANGED <<pool, worker, cur, deferred, left, last, imports, pending, ok, device, live,
                 asked, opened>>

CallerStep ==
  \/ FinishRelease \/ Finished \/ JoinWorkers
  \/ BeginChunk \/ EndChunks \/ BeginRelease \/ Begun
  \/ Recorded \/ SubmitJoin \/ Submitted \/ SubmitFails
  \/ \E s \in Slots : Drain(s) \/ CloseJoin(s) \/ CloseRelease(s)
  \/ Drained \/ Closed

-------------------------------------------------------------------------------
(* The device: the copies of a slot end, then its kernel, then its fence is *)
(* signalled.                                                              *)
DeviceStep(s) ==
  /\ ~device_lost
  /\ \/ /\ reading[s] # {} /\ reading' = [reading EXCEPT ![s] = {}]
        /\ UNCHANGED computing
     \/ /\ reading[s] = {} /\ s \in computing /\ computing' = computing \ {s}
        /\ UNCHANGED reading
  /\ UNCHANGED <<pool, worker, place, slots, ok, device_lost, live, asked, opened>>

ImportNext ==
  \/ OpenStream \/ BeginEpoch \/ StopPool
  \/ StreamCopy \/ CopyFails
  \/ CallerStep
  \/ \E w \in Workers : WorkerStep(w)
  \/ \E s \in Slots : DeviceStep(s)

(* Every thread runs on, and the device finishes what was submitted.       *)
Fairness ==
  /\ WF_import_vars(CallerStep)
  /\ \A w \in Workers : WF_import_vars(WorkerStep(w))
  /\ \A s \in Slots : WF_import_vars(DeviceStep(s))

ImportSpec == ImportInit /\ [][ImportNext]_import_vars /\ Fairness

-------------------------------------------------------------------------------
(* Properties                                                              *)

(* The releases handed to the workers and not run yet.                      *)
Releasing ==
  {j \in Jobs : /\ jobs[j].release
                /\ \/ \E i \in 1 .. Len(queue) : queue[i] = j
                   \/ \E w \in Workers : worker[w].at = "run" /\ worker[w].job = j}

(* The device reads imports that exist, and an import that waits to be      *)
(* released exists, is not read, and waits once: with the releases on other *)
(* threads, none comes before the copy it belongs to has ended, and none    *)
(* comes twice (gpu_vulkan_stream_slot_begin, gpu_vulkan_stream_release).  *)
NoUseAfterRelease ==
  /\ \A s \in Slots : reading[s] \subseteq live
  /\ \A j \in Releasing :
       /\ jobs[j].object \in live
       /\ \A s \in Slots : jobs[j].object \notin reading[s]
       /\ \A k \in Releasing \ {j} : jobs[k].object # jobs[j].object

(* Between streams no import is left but those that wait to be released:    *)
(* also after imports, copies or submits that failed half way, and whether  *)
(* the caller or a worker made the import.                                 *)
NothingLeaked ==
  at \in {"idle", "done"} => live = {jobs[j].object : j \in Releasing}

(* Opening, using and closing a stream, starting a query and stopping the   *)
(* pool come to an end: no wait for an import, a release, the device or a   *)
(* worker is for something that will not come.                             *)
CallReturns == at # "idle" ~> at \in {"idle", "done", "aborted"}
===============================================================================
