# ComputeQL in TLA+

ComputeQL is a column store with SQL on top that runs its scans, joins and
aggregates on a GPU. This directory holds a TLA+ model of the parts of it whose
correctness depends on an order of events (threads, connections, restarts,
caches, files, the device) and of what it computes from a query: joins,
conditions, groups, orders and windows. TLC checks the models on small instances;
TLAPS proves the most important facts for instances of every size.

    tlc -config ThreadPool.cfg ThreadPool         model-check one run
    tlapm ThreadPoolProofs.tla                    check the proofs of one module

Paths below are relative to the repository's inner `src/`.

## 1. The system

| Part | State it keeps | Operations | What is hard about it |
|---|---|---|---|
| Thread pool (`thread_pool/`) | one shared `TP_Context`: what to run, two counters, two or three semaphores | `tp_alloc`, `tp_for_parallel`, `tp_release`, `tp_divide_work` | workers wake late, across calls; no lock |
| Column storage (`cql/cql.c`) | data in memory, or a `.dat` file with pending appends, a handle and a mapped view | append, flush, read a range, remove, convert, materialize, save, load | where a row is at any moment; restarts |
| String columns (`cql/cql.c`) | variable data, offsets, a header with the reserve | as above, and growth of the file in place | several writes that belong together |
| Zone maps (`cql/cql.c`, `query_exec/`) | minimum and maximum per chunk of rows, two generation numbers | note an append, build, save, load; prune, range of a column | two caches of one fact: rows and map drift apart |
| Scan ranges (`query_exec/`) | none; one long function | chunks -> dispatches | boundaries, caps, three passes in a row |
| Dictionary encoding (`cql/cql.c`) | owner row per hash slot, codes per row | claim in parallel, number, fill | compare and swap, bounded probing |
| Secondary index (`cql/cql.c`) | row numbers in sorted order | insert, remove, build, save, load | stays consistent with the rows |
| Catalogue and persistence (`cql/cql.c`) | databases, tables, columns, enums, views; `.meta`, `.dat`, `.null`, index files | create, alter, drop, save, load | no atomic save of several files |
| Statements (`application.c`) | the session's current database | one case per statement, constraints, save at the end | a statement that fails half way |
| Native server (`server/server.c`, `base/base_log.c`) | a thread and a database per connection; one query mutex; error count and last message of the process | accept, receive, execute, answer | errors are recognised by a shared counter |
| Postgres server (`server/pg_server.c`) | slots of statements and portals, the failed-pipeline flag | Parse, Bind, Describe, Execute, Close, Sync, Query | any order of messages, pieces of results |
| SQL front end (`ir_gen/`, `planner/`, `optimizer/`) | none | text -> tree -> plan | rewriting must keep the meaning |
| Query execution (`query_exec/`) | resident chunks on the GPU, a prefetch thread, per-column caches | scan, join, aggregate, sort, window | caches keyed by column and generation, pins, two threads |
| GPU layer (`gpu/`) | buffers, command batches, stream slots, a pool of import threads | allocate, import, dispatch, wait | ring of jobs, semaphores of maximum one |
| OS, base, settings | handles, arenas, the log | files, semaphores, threads | what the callers assume of Windows |

How they interact. A connection thread takes the query mutex and calls
`app_execute_query_capture`, which parses, plans and executes every statement of
the text on that thread and at the end saves the current database. While it runs
it owns the catalogue, the columns and the GPU. It fans work out with
`tp_for_parallel` and waits for it. So two kinds of concurrency exist and never
mix: the connections, which meet only at the query mutex and the log, and the
pool's workers, the prefetch thread and the import threads, which live inside
one query. Between them the storage code is sequential, but its state outlives a
query, and a history of calls decides which of several copies of a row is valid.

What makes each part correct:

- the pool runs every task of a call once, for this call, and returns after the
  last; workers exit on release; the ranges of a loop partition its items;
- a column is a sequence of rows, wherever the rows are kept, and a save makes
  that sequence what the next start finds;
- a zone map never excludes a row that matches, and its range contains every
  value;
- the dispatches of a scan cover each row that may match once, within limits;
- a query that failed is answered as failed and nothing else is, with its own
  message;
- a portal's query runs once and its rows arrive once, in order; after an error
  the rest of a pipeline has no effect;
- rows satisfy the constraints their columns declare, an index lists them in
  order, and what a query that ended left is what a restart finds;
- a buffer of the device that is in use is not freed, released or given to
  another owner, and a query is answered from the rows the columns have now;
- a rewritten plan, and every kernel, way of scanning and way of sorting that
  may be chosen for it, gives the rows the query means.

## 2. The modules

| Module | Models | Checked as |
|---|---|---|
| `ThreadPool` | `thread_pool.c`, each shared read and write a step | run `ThreadPool`; proofs in `ThreadPoolProofs` |
| `ParallelFor` | what the pool promises (abstract) | `ThreadPool!ImplementsParallelFor` |
| `WorkRanges` | `tp_divide_work`, `CeilIntegerDiv` | through `ParallelLoop`, `Queries`; proofs in `ThreadPoolProofs` |
| `ParallelLoop` | composes `ThreadPool` and `WorkRanges`: a loop over items | run `ParallelLoop`; proofs in `ThreadPoolProofs` |
| `ColumnStorage`, `MCColumnStorage` | a fixed width column and its file | run `ColumnStorage`; proofs in `ColumnStorageProofs` |
| `RowStore` | what a column promises (abstract) | `ColumnStorage!ImplementsRowStore` |
| `ZoneMap` | zone maps of a table: append, delete, build, use, restart | runs `ZoneMap`, `ZoneMapDeleteInsert`; proofs in `ScanProofs` |
| `IndexOrder` | the order a secondary index keeps, its search | through `TableFiles`, `Statements`, `Queries`; proofs in `IndexOrderProofs` |
| `TableFiles`, `MCTableFiles` | the files of one table, saves that fail or stop half way, loads | run `TableFiles`; proofs in `TableFilesProofs` |
| `Statements`, `MCStatements` | the statements that change a database, constraints, indexes, the save at the end of a query | run `Statements`; proofs in `StatementsProofs` |
| `Server` | `server.c` and the log's error state | run `Server`; proofs in `SessionProofs` |
| `PgSession`, `MCPgSession` | one connection of `pg_server.c` | run `PgSession`; proofs in `SessionProofs` |
| `PgNames` | statements and portals as a table by name (abstract) | `PgSession!ImplementsNames` |
| `GpuMemory` | named buffers, resident chunks, eviction, allocation | through `GpuScan`; proofs in `ScanProofs` |
| `GpuScan` | composes `GpuMemory` with the four streamed operators and the columns kept whole | run `GpuScan`; proofs in `ScanProofs` |
| `ImportPool` | the streams of the Vulkan backend and their import threads | run `ImportPool`; proofs in `DeviceProofs` |
| `ScanRanges` | `qe_scan_build_dispatch_ranges` | run `Queries`; proofs in `DeviceProofs` |
| `Conditions` | condition trees and their evaluation row by row | used by the next four |
| `FromWhere` | FROM and WHERE: the plan as written and what the optimizer may make of it | run `Queries` |
| `Joins` | execution of a plan of joins; `Answer`, what the query means | run `Queries` |
| `SemiJoins` | subqueries in the WHERE: run once, or taken out as semi and anti joins | run `Queries` |
| `ScanFilter` | the scan of one table: bytecode, intervals, dictionary codes, chunks on the CPU | run `Queries` |
| `HashJoin` | the join by keys: count, prefix sum, scatter, probe; packed keys; semi joins | run `Queries` |
| `Aggregation` | totals in pieces; aggregates pushed below a join | run `Queries` |
| `GroupBy` | the group table of the GPU: claims, retry, compaction, reductions | run `Queries`; proofs in `DeviceProofs` |
| `Ordering` | ORDER BY, LIMIT, OFFSET: every sort, top k, the walk of an index | run `Queries` |
| `Windows` | window functions, on the CPU and with the rank shaders | run `Queries` |
| `MCSelects`, `MCQueries` | the inputs of the run, one part of a query at a time: FROM, WHERE and scans in the first, the rest in the second | run `Queries` |

Definitions with the comment "Mutant of X" are wrong variants of the
definition that follows them: a plausible slip in the code. No specification uses
them. Putting one in the place of X makes the property it is listed with in
`PROJECT.json` fail, which shows that the property looks at that code.

### ThreadPool

Thread 0 calls and works too; threads 1.. are the launched workers. `is_live`,
`task_func`, `task_count`, `task_done`, `task_left` are the fields of
`TP_Context` (`task_arena` and `task_data` are written and read with `task_func`,
and stand in it); the semaphores are their counts, with the maxima `tp_alloc`
gives them. `pc` is the place in the code; the locals of `tp_run_tasks` are `left`,
`held`, `seen`. A call writes its fields one per step (`SetFunc`, `SetCount`,
`SetDone`, `SetLeft`), drops the tokens one by one and then runs tasks like a
worker: `TakeId` is the atomic decrement, `Fetch` reads what to run, `FinishTask`
reads `task_count` again, `CountDone` is the atomic increment and the wake-up.
With `Shared` the task semaphore has a name and `OtherProcess` takes and drops its
tokens. `task_left` is an unsigned word that goes below zero; it is an integer
here because the code compares it as signed and it moves by less than the number
of threads.

A wait has two steps. `WaitExec` and `WaitTask` are the call: on a handle that is closed by
then it fails, and the worker goes on with its loop; otherwise the worker is blocked.
`TakeExec` and `TakeTask` end the wait with a token and with nothing else: `tp_release`
closes the handles, but a close wakes nobody. With `Shared` the tokens `tp_release` left may
go to another process, and then a worker stays in its wait for ever; `AtRest` names that
end. The program's own pool is private (`application.c:14`); of a private pool `AtRest` is
the end of the thread, and run `ParallelLoop` checks `WorkersExit`.

### ZoneMap

The code keeps for each column `write_generation` and
`zonemap_checked_generation` and only ever compares them; the model keeps
`current[c]`, whether they are equal. `InsertRow` appends to every column and
widens the last chunk of each (`NoteAppend`); a NULL only raises the generation.
`DeleteRow` moves the later rows and leaves the maps. `Scan` and `ColumnRange` make
the maps current before they use them (`EnsureZoneMaps`). `Restart` trusts a saved
map only if its number of chunks fits. A scan with a map shorter than the last
leaf's reads other memory: `junk` stands for either outcome.

### ColumnStorage

`data` is the memory of a small column, of length `capacity`, with `Junk` where
nothing was written. `dat` is the file, `meta` what the `.meta` file says, `file` the
cached handle (none, for reading and writing, or read only), `pending` the
collected appends, `file_map` and `view` the mapping, `leaked` whether there are views of the
file that nothing points to any more. `AppendRow` grows the memory,
or converts the column when it passes the threshold, or adds to `pending` and
flushes when that is full. `ReadRows` flushes, opens what is missing and returns
what lies behind the mapped pointer; a view that does not cover the rows is replaced, and
the code assigns `mapped_ptr` without unmapping the old one (`Replaces`). A view from inside of
the file may also survive its unmap, since the pointer kept is not the one Windows gave
(`LeakedByDrop`). `RemoveRow` first brings a disk backed column back to memory.

`Save` is `cql_table_save` in its steps: `SaveMeta` writes `.meta`; then a disk backed column
flushes (`SaveOnDisk`), and the file of one in memory is truncated (`SaveTruncates`) and written
(`SaveWrites`), unless a view is still mapped: then the open fails and the save leaves the loop
over the columns with `.meta` written (`SaveRefused`). `SavedIsOnDisk` says when that cannot be:
as long as no removal is unsaved, because only a removal brings a column with a leaked view
to memory. `Load` is `cql_table_load`; `Load` without a `Save` is a crash.

Three histories are left out of the run by `Allowed` and named there: an append to a column
whose handle a read has opened read only after a restart, a crash after an unsaved
removal, and a crash between two files of one save (section 5), which `TableFiles` has.

### Server

`pc[c]` is the place of a connection's thread. The error count is read before the
mutex is taken (`Count`), the query runs under it (`Take`, `Finish`), the count is
compared after (`Compare`), and the message is read last (`AnswerBad`), which is the
order of `server_connection_thread_proc`; `pg_handle_simple_query` does the same.
`LogText` and `LogCount` are the two halves of writing an error under the log's
own lock, which the readers do not take. What a query does is one choice: it logs
errors or does not, and parses or does not.

### PgSession

One action per message. `Heard` is the test of the failed-pipeline flag before each
handler, `Error` an ErrorResponse that sets it, `Refuse` all the early returns that
do only that. A query is a record of what the server makes of it: does its text
start with SELECT, does it yield rows, does it write, does it switch the database.
That a query fails is a free choice, since the failure may be another
connection's (module `Server`). `Executed` is `pg_portal_ensure_executed`, `ToSend` the
piece of rows an Execute sends.

### TableFiles, IndexOrder

`table` is the table in memory, `files` its directory. `BeginSave` lists the writes of
`cql_table_save` in their order (`.meta`, then per column `.dat` and `.null`, then the
`.idx` files). Each has two steps: `Truncate` is `os_file_open`, which makes the file anew, so
that it is empty while `emptied` holds, and `Write` is `os_file_write`. `WriteFails` is a
file that cannot be opened: an error is logged, and a column file that fails ends the loop
over the columns while the indexes are still written (`AfterFailure`). A column has a
capacity that grows as in `cql_column_add_data`; `.dat` has that many places, `.meta` their number.

`Restart` may come between any two of these steps. What it finds is one of three things. The
files are `Lost` if `.meta` is empty (no table), a `.dat` is missing (the loop over the columns
ends) or empty where there are places (the data pointer stays null): the table cannot be used.
They are `Short` if a `.dat` has fewer places than `.meta` says: the load copies past the end
of the file's view, which is a fault or gives values nobody wrote, and both happen here.
Otherwise they are `Whole`. `LoadedTables` puts the table together: the rows a
`.dat` has, any values in those it has not, and an index without a usable file built again in
any order of equal keys. `saved` and `since` are history: the table of the last save without
an error, and what was done since, "grow" for an append that made a column grow and "torn" for
a stop with a truncated file.
`IndexOrder` has the insertion after a search by halves, the removal with its
renumbering, and the slice of positions a comparison selects; a key is a number.

### Statements

A query is a sequence of statements on `current`, between `Begin` and `End`, which
saves the current database. A failed statement logs an error and goes to the end as
`Rejected` does, so that what it did before is saved. `Validations` is
`cql_table_validate_row_constraints`; DELETE checks all its rows for references before
it removes the first. IMPORT replaces a table by one without constraints and adds the rows
of a file to it, with no check; DROP COLUMN drops the column's indexes first, from the last.
`Histories` names what the run leaves out, because the
properties do not hold there: a CHECK used after the query that made it ("freed"),
a referenced table replaced, renamed or dropped ("orphan"), a name whose old
directory is still on disk ("ghost", "shadow"), and a USE that leaves a database with
unsaved changes ("switch").

### GpuMemory, GpuScan

A memory is the content of every buffer, the pool of named buffers with the epoch
of their last use, the cache of chunks in the order of last use with pins, and
whether an allocation failed. `GpuScan` has the host as one thread: it prepares a
slot (`Prepare`: retire what the slot held, take or copy each column's chunk), submits
it one chunk late (`Launch`, `deferred`), and drains the slots at the end. `DeviceCopy`
and `DeviceKernel` happen on their own. A chunk that does not fit is copied into a
transient buffer of the slot. Columns kept whole believe that they are on the
device while their generations match; to bind one whose buffer the pool has evicted since
is excluded (`Histories`, "forgotten") because the scan then reads a new buffer. The eviction may
be an older query's or that of another column of the same query, bound before.

### ImportPool

The caller of a stream, the import workers and the device are processes. `jobs` is the
ring, `queue` the jobs handed over, the semaphores are counts; an import is made by a
worker (`ok`), read by the device from the submit on, and released by a worker after
the slot was waited for. Imports and the submits of copies and of kernels may fail, and the
device may be lost; `Faults` says which of these happen.

### ScanRanges

`ScanRanges` starts where the chunks are known to be prunable or not and follows
the three passes of the function: fill short gaps, weigh what is pruned, merge
chunks into dispatches; then the case of a single dispatch with skip bits. The
initial states are all tables and all sets of prunable chunks up to the bound.

### FromWhere, Joins, Conditions

`Written(query)` is the plan as the query lists it, `RewriteFromWhere(query)` the set of plans
`optimizer_rewrite_from_where` may choose: whichever order its estimates could
prefer is in it, so that the cost model need not be modelled. `Execute` runs a plan as
`plan_execute_join` does (one equality joins, the other conditions filter what comes
out, and a plan without an equality ends with an error), `Answer` is the meaning of the
query: rows combined relation by relation as it lists them.

### SemiJoins

A subquery of the WHERE is a node of the condition tree. `ExtractSemiJoins` takes out each
EXISTS and IN under the ANDs that a semi or an anti join can answer,
`RewritePredicates` runs the ones that are left once and writes their values, or a
constant, into the condition, and the semi joins filter the rows of the plan. Whether an
extraction is cheaper is the cost model's choice, so either way is tried, except that a list
of at most `ListItems` values stays in the condition. What a subquery means (`Means`) is said
row by row.

### ScanFilter, HashJoin, Aggregation, GroupBy

`ScanFilter` compiles a condition to the program of `scan_filter.comp` or to the intervals
of `scan_simple.comp`, with 32 bit and narrow encodings, and evaluates both; numbers
count halves, so that bounds between whole numbers exist, and the word has 16
values. `HashJoin` and `Aggregation` are pure. `GroupBy` takes a step for every atomic
operation: `Claim` is the compare and swap of one row's thread on a slot of its
bucket, `Retry` the larger table, `AddLow` and `AddHigh` the two atomic additions of a sum
with its carry. The actions that read the table (`CountOnly`, `TileReduce`, `MemberReduce`,
`HashBegin`) are the reductions the code chooses among, `HashLost` and `AssignLost` failed
dispatches.

### Ordering, Windows

A sort lists, for every position, the numbers it is sorted by. `SortStrategies` is the node
the optimizer chooses, `ExecuteOrdered` what the planner does with it: the merge sort,
the heap of the top k on one thread or on several, the bitonic network over padded
rows, the network over composite keys with its tile, and the walk of an index in
growing chunks. `qsort` is external: ties in any order. A window
is a sort whose first keys are those of PARTITION BY; the ranking shaders are
`PeerFlag`, the prefix sums and the scatter.

## 3. The runs

`pass` runs finish without an error; a `violation` run shows a disagreement
between the code and something the repository says of it.

| Run | Bounds | Shows |
|---|---|---|
| `ThreadPool` | 3 threads, named task semaphore of 3, 3 calls, 3 tasks | tasks once, for their call; the abstract parallel for; calls return. No deadlock |
| `ParallelLoop` | 3 threads, private pool, 2 calls, 3 tasks, 5 items | every item once and by one thread at a time; the release leaves no worker blocked on a closed semaphore, and all exit. No deadlock |
| `ZoneMap` | 2 columns (one nullable), 2 values, chunks of 2, 5 rows | pruning and ranges are sound in all histories without the three of `Allowed` |
| `ColumnStorage` | 4 rows, threshold 1, pending 1 | the column is a row store; a flush loses nothing; a save is enough, and fails only with a removal unsaved |
| `TableFiles` | 2 columns, 1 index, 2 rows, capacities 0, 1 and 2, 4 statements in 2 queries, files that do not open, stops | a save without an error is what a restart finds; indexes in order; appends never lose saved rows while no file is truncated |
| `Statements` | 2 databases, 3 tables of up to 2 rows, 1 index, 5 statements, 1 restart | constraints and references hold, DELETE finds the same rows by index and by scan, what ended is saved |
| `Server` | 2 connections, 3 errors | failures reported, each failure has a cause, queries get on. No deadlock |
| `PgSession` | 1 statement slot, 2 portals, 2 names, a SELECT of 2 rows, a USE | quiet after errors, portals run once, rows once and in order, slots are a table by name |
| `GpuScan` | 4 buffers, budget 2, 2 columns of up to 3 chunks, 2 slots, queries up to a weight of 4, 1 write, 1 fault | answers from the current rows, buffers in use are held |
| `ImportPool` | 2 workers, 2 slots, ring of 4, 2 streams of 3 chunks, 4 copies, faults | no import released while in use, none left, every wait ends |
| `Queries` | see below | rewrites, subqueries, scans, ranges, hash joins, groups, orders and windows against their meaning |
| `ZoneMapDeleteInsert` | 1 column, 6 rows | violation: an insert after a delete makes a stale map current |

Why the bounds are enough. Three threads are the least with two workers late at
once, so that one can still be in the loop when the other has woken the caller;
three calls let a token of the first be used in the third; with three tasks a
thread takes several ids while another has not woken yet. The private and the
shared pool differ in the workers' loop and in the other process, so each has a
run. Five items over two or three tasks divide unevenly, and up to five includes
fewer items than tasks. Two rows to a chunk are the least with a row that stays and
a row that moves to another chunk on a delete, and five rows give three chunks with
a short last one. One row of memory and one pending row make the column convert,
flush and outgrow both with four rows. Two columns let one file of a save be old
and the other new; two queries let a good save be followed by one that fails or stops, and
with capacities of 1 and 2 a row may be appended with growth or, after a removal, without.
Three tables are one that is referenced, one that references and one with a CHECK on
a unique column, and five statements make a row, its parent, an index, a delete and
a failure; a file of an import has one row. Two connections suffice since all sharing is pairwise. Four buffers do
not hold two columns' chunks and the named buffers at once, so everything is
evicted at some time; three chunks use a slot of two again. A ring of four jobs is
used again within one stream. `MaxErrors`, `MaxCalls`, `MaxReplies`, `MaxFetch`,
`MaxAsked`, `MaxWrites`, `MaxFaults`, `MaxCopies`, `MaxOpens`, `MaxStatements`,
`MaxQueries`, `MaxFile` and `MaxRestarts` stop counters that the code lets grow.

The run `Queries` enumerates inputs. Ranges: up to 18 rows in chunks of 2 with every set
of pruned chunks: leading, inner and trailing gaps below and above the least gap,
dispatches of less than a chunk, of three chunks and of eight. FROM and WHERE: three
relations, every pair of inner, left and cross joins, five conditions for each, pairs of
15 conditions in the WHERE, and two databases with duplicates, a NULL and an empty
match. Subqueries: EXISTS, IN, their negations and comparisons with one value, with
`ListItems` = 1 so that both a short and a long list occur. Scans: u32, i32, f64 and
text columns of three rows with values at both ends of the word, and two conditions.
Joins: all sides of up to three rows over five pairs of keys. Groups: five inputs, a
hash that collides always and one that never does, tables too small by half. Orders: all
keys of three rows over three numbers, two keys, descending, limits and offsets, rows
filtered out, five rows so that padding is not empty and ranges of tasks differ.
Windows: all keys of three rows over six pairs with NULLs. Three rows are the least with
a row between two others, and ties of two beside a third.

`CHECK_DEADLOCK FALSE` stands where a full table, a bound or an answer stops the model
(`ZoneMap*`, `ColumnStorage`, `TableFiles`, `Statements`, `GpuScan`, `ImportPool`, `Queries`);
`ImportPool` has `CallReturns` against waits that never end. The pool, the loop and the two
servers have an explicit last step or go on for ever, so that a deadlock elsewhere is
found.

### Fairness

`ThreadPool` and `ParallelLoop` assume weak fairness of each thread's steps: the
operating system runs a thread that is not blocked. Blocking is a guard, so
nothing is assumed about who gets a token. Calling again and releasing the pool
are not fair, and neither is the other process. `Server` assumes weak fairness of
each connection's own steps from the time a request has arrived, not of clients;
the query mutex is not assumed to be fair, so `QueriesRun` promises that some waiting
query runs, not each one. `ImportPool` assumes it of the caller's steps within a call,
of each worker and of each slot's work on the device, which finishes or reports
that the device is lost. All other properties are safety properties.

## 4. What is proved

| Theorem | For every |
|---|---|
| `ThreadPoolProofs!TypeCorrect`, `ReturnIsComplete`, `TasksAreOfThisCall`, `TasksRunOnce`, `WakeupsAreConsumed`, `ReleaseWakesAll`, `PoolImplements` | number of workers, tasks and calls, private or shared semaphore |
| `ThreadPoolProofs!LoopRunsOnPool`, `LoopsHandleItemsOnce`, `LoopsShareNoItem` | number of workers, tasks, calls and items |
| `ThreadPoolProofs!RangesPartition`, `RangesAreContiguous` | number of items and tasks |
| `IndexOrderProofs!BisectFinds`, `InsertKeepsOrder`, `InsertRowKeepsOrder`, `RemoveKeepsOrder`, `SliceFinds` | number of rows, keys, comparison |
| `StatementsProofs!TablesWellFormed`, `DeletesFindMatches` | databases, schemas, values, number of rows and of statements, every history |
| `StatementsProofs!EndedQueriesAreSaved`, `RowsAreConstrained`, `ReferencesAreFound` | the same, each over the histories it names |
| `TableFilesProofs!TypesHold`, `MatchLoads`, `ReportedIsSaved`, `IndexesAreSound`, `AppendsAreKept` | columns, indexes, constraints, values, number of rows, statements and queries, every fault |
| `ColumnStorageProofs!StorageInvariance`, `FlushesLoseNothing`, `SavesAreDurable`, `ColumnIsRowStore` | values, number of rows, threshold and pending appends, over the run's histories |
| `ScanProofs!MapInvariance`, `PruningLosesNothing`, `RangesHoldValues` | columns, values, number of rows, size of chunks, conditions, over the run's histories |
| `ScanProofs!StreamsWellFormed`, `InUseStaysHeld` | columns, buffers, budget, slots, chunks, queries, writes and faults, every history |
| `ScanProofs!AnswersAreRight` | the same, without the history "forgotten" and with pool names that tell columns apart (`SameName = {}`) |
| `SessionProofs!FailuresAreReported`, `ErrorsHaveCauses`, `OneQueryAtATime` | number of connections and errors |
| `SessionProofs!TypeCorrect`, `ErrorsSilencePipeline`, `PortalsRunOnce`, `RowsArriveOnce`, `ConnectionImplements` | number of slots, names, queries, rows and replies |
| `DeviceProofs!ImportInvariance`, `ImportsOutliveReads`, `NothingIsLeaked` | number of import threads, slots, imports of a slot, chunks and streams, size of the ring, every fault but a failing submit of a kernel |
| `DeviceProofs!RangesInvariance`, `DispatchesFit`, `DispatchesScanOnce` | number of rows, size of chunks and dispatches, thresholds, set of pruned chunks |
| `DeviceProofs!TableInvariance`, `SlotsAreGroups`, `SlotsCountRows` | input, hash function, size of the table, order of the claims |

The only assumption about the pool is `PoolAssumption`: at least one worker, and with
a shared semaphore a maximum of at least the number of workers, which `tp_alloc`
asserts.

The inductive invariant of the pool, `IInv`, says where every task id is. None of
the properties is inductive by itself: nothing in `ReturnedComplete` says why the
last increment comes last. While ids are handed out (`Open`), the ids above the
counter `task_left` are exactly those counted as done (`ran`) and those held by one
thread each (`IdsInv`); so `task_done`, the number of done ids, is `n` only if no
thread holds one. `WakeInv` ties the token of the main semaphore to that moment,
`LocalsInv` says that what a thread read belongs to the call, and `ClosedInv` that
between calls a late worker's decrement finds no id: the counter is not positive
until the last field of a new call is written. That is the reason for the order of
the writes in `tp_for_parallel`, and the mutant `SetFuncPublishing` breaks it. Each
action of `Next` has a lemma; those that touch none of this go through `QuietInv`.

`PoolImplements` is the refinement that `ImplementsParallelFor` states, without the run's
bounds. Four steps are not stutters of the abstract call: the start of a call, the
`Fetch` that reads a task (`HeldOnce` and `IdsInv` give that its id was in nobody's hands),
the count of a finished one, and the return, where `AllDone` leaves nothing to do. Taking
an id from the counter is a stutter: until the thread has read what to run, the id is
not started.

`ReleaseWakesAll` is about `tp_release`, which closes the task semaphore of a private pool
while workers may still wait on it. `ReleasedInv` counts: from the moment the pool is no
longer live, the workers that wait are at most the tokens in the semaphore and those still to
be dropped. A worker that comes later finds the pool not live and does not wait, one that
takes a token waits no more, and a drop that the maximum swallows finds a token for every
worker already. A shared semaphore stays open in the other process, which may keep all tokens;
nothing is claimed of it.

The loop is a behaviour of the pool (`LoopRunsOnPool`), so the pool's invariant holds
of it; `RangesPartition` gives each item to one task, and the loop's own invariant
counts an item as handled once its task has run.

The invariant of the server, `ServerInv`, accounts for the shared error count:
between reading and comparing it, it has grown by the errors of the query itself and
by those of the other connections (`GrowthInv`). The two counts are history; the code
has the sum only, which is why a failed query is always answered as failed while
a query that did not fail may be, too. The invariant of a Postgres connection has a
part for every slot, `PortalInv`: a portal that has run has run once, and what it
delivered is the first `rows_sent` rows. It needs the least number of a set to be in the
set (`MinOfNats`), since slots are found by taking the first that fits, and that the
pieces of rows of two Executes join without a gap (`RowsAppended`). Assumed is that a
query has rows or none (`PgSessionAssumption`).

The properties of the scan ranges speak of the end; the invariant of the walk
(`IInv` of `DeviceProofs`) says what holds before each chunk. `CoverInv` is the heart of it:
the ranges end at or before the chunk that is next, and every row before it is in
one unless its chunk is pruned. `FitInv` and `ApartInv` are `RangesFit` for the ranges so
far. That a run of chunks may start (`RunFacts`) needs that one chunk fits a dispatch,
which is why the code gives up pruning when it does not (`StageInv`); that a run ends
needs the least number of a set of naturals, `LeastNat`. Uniform ranges
without pruning are `PiecesEnd` and `PieceOf`, the facts that also carry
`RangesPartition`.

In the group table, that two keys never share a slot is not inductive: a claim only
sees the slots it tries. `PlacedInv` ties a row's slot to the last place it tried and to an
owner with its key, and `PassedInv` says that every place before it belongs to another
key. Two rows of one key have the same bucket and try the same places in the same
order, so if they had two slots, the later one would have passed the earlier one's,
whose owner has its key: `SlotsAreGroups`. Nothing about the hash is assumed but that
it gives a number. `CountInv` then counts the rows of each slot. The sizes of the table are
powers of two; that they are positive is proved with the number of subsets of a set
(`PowerBounds`), because nothing in the library is about `^`.

The order of an index is kept if the row goes to any place with no larger key before
and no smaller one behind (`InsertKeepsOrder`), and `BisectFinds` says that the search by
halves finds such a place. The search is a recursive function over the two ends of what is
left to look at. Its recursion is taken apart by naming the function (`SearchExists`) and by
a least counterexample: of two ends for which the search went wrong, with the shortest
distance, one step leads to a shorter one. `SliceFinds` then reads off, for each operator,
that the positions it selects hold the rows whose key compares so, whatever the order of
equal keys.

What the statements keep is proved with four invariants. `StructInv` is the shape of every
table, in memory and on disk (`WellFormed`): columns told apart by their names, rows over
exactly these, indexes in order, and a flag for NULLs on each column that has one. The last
is why an index may answer a DELETE: an index has NULL at the key 0, and a column with flags
is not searched by it. `ScanFinds`, and so `DeletesFindMatches`, needs only this invariant and
holds for every history. For the others, `OnTablesShape` says once what a statement does to
the table it works on (`Rewritten`): it keeps the rows and may add columns or indexes
(`Reworked`), drops one column (`Narrowed`), adds one validated row (`Lengthened`), drops rows
nothing refers to (`Reduced`), or starts again with columns that promise nothing (`Replaced`);
or it makes an empty table, renames one, or ends the query early.

- `EndedQueriesAreSaved`: while a query runs, every loaded database but the current one is
  on disk as it is in memory (`SavedInv`); the end saves that one.
- `RowsAreConstrained`: `ConstraintsInv` is about the disk as well, because a restart
  loads from it. A constraint survives a statement when each row comes from one of the old
  table, no two from the same, with its values, and each column promises no more than one
  there was (`Derived`); only `Lengthened` adds a row, and `Validations` has looked at it.
- `ReferencesAreFound`: `LinkInv` splits the references into those of the table that changes
  (`Outgoing`) and those to it (`Incoming`), so that each kind of rewriting has to be looked at
  for one table only. A reference is never to its own table (`CREATE TABLE` resolves the
  foreign keys before the table exists), and no directory on disk belongs to a table that
  is not loaded, or a save could leave it with references to what is gone.

These take the hypotheses that the run takes, each the one it needs: no USE away from
unsaved changes; no CHECK evaluated in freed memory; no referenced table dropped, renamed or
replaced and no stale directory (section 5). Assumed of the constants is that CREATE TABLE
is not given one column name twice, which the code does not look for
(`StatementsAssumption`), and that the database on disk at the start is one such queries
could have left (`StartAssumption`): its tables are well formed, constrained and refer to what
there is. An empty one is, and so is the run's, which TLC evaluates.

The files of a table are proved over every history there is: statements, saves that fail
at any file, a stop between any two steps, loads of what is left. The proof does not follow
the list of files in its order but asks what of a table is written (`WriteSet`, `Present`).
`WritesFacts` says that the list has all of it and nothing else, `OneWritePerFile` that no
file is written twice, so that a later write leaves an earlier one present
(`WrittenPresent`), and `MatchLoads` that a directory in which all of it is present loads as
exactly the table, whatever else lies there: a `.null` of a column that has no NULL any more
is not looked at, because `.meta` does not name it, and an `.idx` is read only under a name of
`.meta` and with as many rows. `SaveInv` carries this through a save, and `QuietInv` says that
after a save without an error the files stay those of the table until a statement changes
it; a restart that is quiet then is the identity. `IndexesAreSound` needs that
one as well, since an index that was loaded is in order only because it was when it
was saved. It is not so after a failed save, when `.idx` and `.dat` may be of two tables
with as many rows, and that is why the property excludes `lost`.
`AppendsAreKept` is about exactly those mixtures: `KeepInv` compares both the table and every
file with the last good save (`Grows`, `FilesGrow`), so that it does not matter which of the
two a file is of. A `.dat` may be ahead of `.meta` or behind it; it has the saved rows first, so
with saved rows the files are not `Lost`, and as long as no column grew they are `Whole`.
A truncated file is in neither: the invariants speak of `Disk`, what the files are once
the one that is open has been written. A truncation leaves `Disk` as a write would
(`EmptiedWritten`), the write after it does not change it, and a stop in between is "torn", after
which nothing is claimed but the shape of the files and the order of indexes built since.
Assumed is that the names are finitely many, so that the columns of the first table are a sequence, and
that the mark of "no flags" is no sequence of flags (`TableFilesAssumption`).

The storage of a column is proved over the histories of the run (`Allowed = {}`, an
explicit hypothesis), since section 5 has what happens in the others. A save is there in its
steps, with the truncation and the open that may be refused.
`StorageInvariance` says where each row is: in memory, behind the end of what was flushed,
or in the file (`MemoryInv`, `DiskInv`); `SavedInv` adds that until a row is removed the rows
of the last save are the first ones of the file, which every later write leaves alone, because
it starts behind them. That carries a crash: the next load takes `meta.row_count` rows and
these are them. After a removal the file is rewritten, and only a save makes it
whole again, which is why a crash between the two is excluded. `ColumnIsRowStore` is the
refinement `ImplementsRowStore`: by `Row`, wherever row j is, each action is the one of the
plain sequence or leaves it alone; flushing, growing, converting and reading are stutters.

For zone maps `PruneSound` is not inductive, since a map that is behind is not looked at
until it is built again. `CoverInv` says which maps are right: those that are current, and
before any removal all of them, current or not, because an append widens the map even
when nobody has asked for it. `FlagInv` says that a NULL leaves a flag, so that a scan by
chunks sees none, and `TrustInv` that without NULLs and removals a restart finds a map with a
chunk for every row, so that it trusts no map too short. The hypotheses `DeletedStays` (no
append and no restart after a removal) and `NullsStay` (no restart with NULLs) say that
`Allowed` leaves those histories out; the first is what the run `ZoneMapDeleteInsert` violates, and
the pruning needs only the first, for a table with NULLs is not scanned by chunks.

What a scan reads on the GPU (`InUseStaysHeld`) is a matter of ownership. `Apart` says that
the pool of names and the cache have buffers of their own and that none of them is
marked as free, so that an allocation gives nothing out twice; `OwnInv` says the same of the
buffers of each slot. Whatever the memory does for a caller keeps the buffers of others
(`Serves`, which has one lemma for each operation of `GpuMemory`): an eviction takes
a name no query has looked up or a chunk nobody has pinned. What that leaves is to know
that the chunks in use are pinned, and two slots may hold the same one: a pin would then
be given back twice. `HeldInv` counts, a chunk has at least as many pins as there are slots
that hold it (`Holders`). `HostInv` says which slot the host is at and that the one before is
recorded and waits for its submit, so that a slot whose chunk the device still works for is
never prepared again. Assumed is that there are finitely many buffers and columns, and
between 2 and 8 slots (`MemoryAssumption`, `ScanAssumption`).

That an answer is made of the current rows (`AnswersAreRight`) needs besides what the buffers
hold and which chunk each slot is at; `AnswerInv` is `ScanInv` with three more parts.
`StreamInv` is about a stream. `SlotRight` follows the rows of one column to the kernel: a
buffer has them, or a copy that is recorded will put them there (`ColumnRight`), a cached chunk
that can be found holds the rows it is found by (`CacheRight`), and only the slot that
asked for a new chunk copies into it, before anybody finds it (`CopyInv`). `PlaceInv` counts
the ring: the chunks launched and not yet collected are those of the last turn, each in the
slot its number gives modulo the number of slots, so that `ResultsInv` can say that the results
are the readings of the chunks collected, in order, and for the probe, whose kernels add to
the results when they end, of those and of the slots that are done. `PoolInv` is about the
columns kept whole: each name is in the pool once, a column that was uploaded as it is now
fits its buffer (`UploadFits`, else the pool would give it a larger, empty one), the record that an
aggregate remembers is the last made under its name or an older one, which the comparison
of the records tells apart (`AggHolds`), and what was bound for this query was looked up in its
epoch, so no later allocation of the query evicts it (`BoundRight`). Memory that serves one
caller keeps what the others hold (`Retains`, again with a lemma for each operation). A write ends in
no answer and with no query under way, so only what columns believe has to outlive it. The
two hypotheses leave out what the code does get wrong (section 5): a column bound although
its buffer is gone, and two columns with one name in the pool. A third condition is `None` and
`Nothing` being no rows (`ScanAssumption`), which the marks are for.

A Postgres connection refines tables by name (`ConnectionImplements`) because no name is in
two slots: an old slot of the name is freed before one is taken (`Named`, which is also what
`TypeCorrect` adds to the types). Then taking the least slot that fits is taking the only
one, freeing a slot is taking its name off the table (`FreedByName`), and what is full by
slots is full by names (`AllocFits`). Portals keep the text they were bound to while it is
executed and fetched (`UpdateNames`). Assumed is that the mark of a free slot is no
statement and no portal, which `in_use` says in the code.

The import threads share a ring of jobs whose entries are taken again without a look at
them, so the first thing to prove is that the next entry is nobody's (`NextIsFree`). It is
not a matter of the queue alone: an entry also belongs to the worker that runs it and to the
copy that waits for it. `RingInv` orders the jobs by how long ago they were handed over
(`Behind`), those in the queue last; `AgeInv` bounds that for each copy that is not joined,
by where the caller is: at most the releases and the imports of the chunk after it are newer.
The ring, with its 2 `SlotCount` `MaxImports` entries or more (`ImportAssumption`), has room for these.
`CopyInv` ties each copy to its job and back, `PlaceInv` says which
slots may have such copies, and `ObjectInv` that an import that exists is kept by one slot
or waits to be released by one job. `DeviceInv` then gives the two properties: what the
device reads is kept by a slot that is not waited for, and an import leaves its slot only
after the wait. The hypothesis `KernelsStart` leaves out the submit of a kernel that
fails (section 5). What the code does without a check, that a worker has ended a release
before the whole ring was used again, is a guard of `HandOver` (`WorkersKeepUp`) and so a
condition of the theorems as of the run.

Only model-checked: termination (`CallReturns`, `WorkersExit`, `QueriesRun`, which
need fairness) and the properties of the rest of `Queries`.
Liveness is out of the prover's reach. So are RECURSIVE operators: `FromWhere`, `Conditions`,
`Joins`, `SemiJoins` and `ScanFilter` declare some over trees, so no theorem can be about them.
The property `GroupsSound` of `GroupBy` speaks of folds over
sequences, which the library defines by recursion over an operator; nothing can be proved about
those, while a recursive function of the model itself can be named and reasoned about,
as `Bisect`, `RemoveRows`, `AddRows`, `ColumnsWrites`, `IndexesWithout` and `Others` are.
## 5. Where the code and its promises part

One disagreement has a run of its own, `ZoneMapDeleteInsert`. The others are histories or
inputs that the passing runs leave out, at the place named; each was seen with the
model before it was excluded.

- `ZoneMap.Allowed`, "restart after delete" and "restart with NULLs": a saved map with the
  right number of chunks is trusted although rows were shifted, and a column that
  is appended to before its NULLs were counted has a range without its older values.
- `ColumnStorage.Allowed`, "append after reload": a read after a restart opens the file
  for reading (`cql.c:3272`), and the next flush writes through that handle, so the
  rows are lost. "crash after remove": the file is rewritten while `.meta` still has the old
  row count. "stop inside a save": `.meta` already counts rows the column's file has not, or
  the file is truncated.
- `ColumnStorage.leaked`: a SELECT that reads a part of a column and then another leaves the first
  view mapped (`cql.c:3321`). After a DELETE the column is in memory, and the save cannot truncate
  its file; it logs an error and leaves out this and all later columns, with the new row
  count in `.meta` (`cql.c:895`). The statement is answered as failed, but `.meta` and `.dat` differ until
  a save after a restart. This is in the run; it is why `SavedIsOnDisk` speaks of saves that
  did not fail.
- `TableFiles`: a stop between the open of a file for writing and the write leaves it empty. An
  empty `.meta` is no table, an empty `.dat` a column without data (`cql.c:1160`); the rows of the last
  good save are lost, and `AppendsKeepRows` excludes these histories ("torn"). A stop after `.meta`
  of a column that grew makes the load read past the end of the `.dat` (`cql.c:1211`);
  the property then promises the saved rows if the load survives. It is about values: the NULL
  flags of `.null` may belong to another row count than `.meta`.
- `TableFiles`: what `os_file_write` returns is not looked at (`cql.c:916`). A write that fails half
  way, a full disk, is not in the model; `ReportedSaved` would not hold.
- `ThreadPool`, shared: workers of a pool with a named semaphore may be left in their wait by
  `tp_release` (`thread_pool.c:112`), see `AtRest`.
- `GpuScan.SameName`: the pool's key of a column is `scan_col:<table>.<column>`
  (`query_exec.c:2570`), without the database, so that columns of tables of one name in two
  databases share a buffer; the run and the theorems take columns with distinct names.
- `Statements.Histories`: a CHECK expression stays in the memory of the query that
  created the table (`application.c:899`); RENAME keeps a name in it and leaves the old
  directory, which a restart finds; IMPORT, DROP COLUMN and RENAME of a referenced
  table leave the references; only the database that is current at the end of a
  query is saved.
- `GpuScan.Histories`, "forgotten": a column whose generation says it is on the device
  although the pool has evicted its buffer is scanned in a new buffer with nothing in it
  (`query_exec.c:2654`). All columns of a scan are looked at before the first gets its buffer
  (`query_exec.c:640`), so the buffer of one may also go when room is made for another of the
  same scan; the guard is therefore in `BindWhole`.
- `ImportPool`, `Faults` without "compute": when the submit of a kernel fails after that of its
  copies, the slot is not marked as pending (`gpu_vulkan.c:1374`), so nothing waits for the
  copies, and the imports they read are released with the stream.
- `Server`: the message of a failed query is the last one of the process, which may be
  another connection's. `PgSession`: Describe of a prepared statement executes its text,
  also one that writes after a SELECT.
- `Joins.Key`, `MCSelects`: a NULL, and a row an outer join did not find, have the key 0 or
  the empty text (`query_exec.c:3107`), so they match rows with a real 0, while a
  condition treats "a NULL comparison" as "never true" (`query_exec.c:12362`); the inputs have no value that equals the
  placeholder. Sort keys are read the same way, and have no NULL here.
- `MCSelects.PickSubquery`: the optimizer makes NOT IN an anti join when the column has no NULL
  flags (`optimizer.c:4912`), also when its relation is the right side of a LEFT JOIN; the rows
  that join extends are then kept, which the condition with the written list drops. The
  inputs have no NOT IN over such a column.
- `Aggregation`: arguments have no NULL. Aggregates over rows an outer join extended
  add 0, and COUNT of a column counts its NULLs, while the comment at
  `query_exec.c:8848` says the kernels do not know about NULL, "so refuse instead of
  returning a wrong answer". MIN and MAX of no rows are 0.
- `ScanFilter`: when a program is too deep the code logs an error and falls back to the
  CPU, so the query is answered as failed; `FilterSound` therefore allows `failed`. A literal
  that is no number is FALSE row by row and TRUE in a program; -0.0 and 0.0
  hash differently on the GPU. The values of the model have neither.
- `Ordering`: composite keys are for values within 4e15; scores of a full text match are
  not permuted by the network (`query_exec.c:5335`), and readbacks at 5314 and 10655 are
  not tested, so that a failed batch leaves what the memory held. The model has no scores
  and these batches do not fail. OFFSET plus LIMIT does not overflow.

## 6. What is not modelled

- The parser and the IR: functions of a text, without state.
- In the planner and the optimizer: HAVING, DISTINCT, views, inlining, EXPLAIN, and the estimates that choose among orders.
- String columns: their data, offsets and the growth of the file in three writes; column
  statistics; the dictionary's concurrent claim and the numbering of codes; CSV files in
  pieces with a leftover line. `ParallelLoop` and `WorkRanges` are their loops.
- Sketches for approximate counts and quantiles, compiled expressions other than those of
  conditions, fuzzy matching, text keys other than by equality.
- The double buffered prefetch of the scan over memory that the device cannot import
  (`query_exec.c:691`), descriptor sets, pipelines and device selection.
- Encodings of the Postgres protocol and of the native one, settings, start-up, the client.
- Value domains: 64 bit integers that lose digits as doubles are not distinguished
  from small ones. One order stands for every order in which the atomic scatter of a
  join fills a bucket. A task of a top k keeps at least as many rows as it is asked for, where
  the code asks for four times as many rows in its range.
- Calls into Windows and Vulkan are external: the models take what the callers
  rely on (a semaphore has a maximum, a mapping has the size of the file when it was
  made, a write through a read only handle fails, a fence is signalled after the work
  before it).

`PROJECT.json` lists the hazards at their lines; a hazard that no property covers, or
not in every history, has a note that says why.

## 7. What could come next

The largest parts left are string columns (a sibling of `ColumnStorage` with a layout of
offsets, refining `RowStore` too), the dictionary's claim on top of `ParallelLoop` (the
argument of `DeviceProofs` carries over), and the prefetch thread beside `GpuScan`. A proof
worth adding is of the sum of the two words in `GroupBy`.
