# Verification of HybridSE in TLA+

HybridSE compiles SQL for feature computation and runs it in three modes:
*batch* (offline, over whole tables), *request* (online, one row against the
tables) and *batch request* (several request rows at once). Its promise is that
all modes give the same result. The `examples/toydb` directory is a small database
around it: storage, tablet server, dbms server.

This directory models the way of a statement from its syntax tree to the rows it
returns, and the servers and lists those rows come from. TLC checks the models on
small instances; TLAPS proves safety properties of the sliding window, the engine's cache,
the toydb lists and the schema cache for all values of the constants.

## 1. The system

| Part | Source | State it keeps | Hard behaviour |
|---|---|---|---|
| Planner, transformers, passes | `src/plan`, `src/vm/transform.cc`, `src/passes/physical` | plan trees, rewritten in place | every rewrite must keep the meaning; shared nodes; windows merged in the order of addresses |
| Batch request optimisation | `src/passes/physical/batch_request_optimize.cc` | for each node a common and another part | a part that is computed once must not depend on a request |
| Generated functions | `src/codegen`, `src/passes/expression`, `src/passes/lambdafy_projects.cc` | none across rows | NULL flags beside raw values, widths, merged aggregations |
| udafs | `src/udf` | containers across the rows of a window | bounds, NULL, truncated texts |
| Row codec | `src/codec`, `src/codegen/buf_ir_builder.cc`, `src/sdk` | a buffer being filled | several encoders and decoders of one format; offsets of 1 to 4 bytes |
| Engine | `src/vm/engine.cc` | catalog, LRU cache per mode and db, sessions | compile outside the lock; compatibility of cached plans |
| Runners and cluster tasks | `src/vm/runner.cc` | `RunnerContext` caches, task tree | caching by runner id and per batch, splitting, failing sub queries |
| Sliding window, batch and request windows | `include/vm/mem_catalog.h`, `src/vm/runner.cc` | effective window, history buffer, iterators | eviction by rows, range and MAXSIZE at once; unsigned time arithmetic; order of merges |
| toydb storage | `examples/toydb/src/storage` | lists, skip lists, segments | lock-free readers beside one writer |
| toydb servers and sdks | `examples/toydb/src/{tablet,dbms,sdk}` | databases, tables, tablets, rows, schema cache | lost and late calls, a lock held during a call |

A statement is planned and transformed (`PlanTransform`), optimised (`PhysicalPasses`,
`CommonColumns`), its expressions are compiled (`FunctionLet`,
`ExprCodegen`, `Aggregates`), and runners are built from the plan (`RunnerBuilder`).
`Engine::Get` caches the result. `Run` then executes runners over table handlers;
in a cluster it sends sub queries to tablets. Window runners read segments
(rows of one key, newest first) through iterators, which in toydb walk the lists that
`Table::Put` extends at the same time. Batch mode merges segments oldest first
into a `HistoryWindow`; request mode merges them newest first until the frame is
full. An aggregate of the frame the window was built for then reads the whole window; one
whose frame was merged into a larger one, or ends before the current row, reads an inner
list of it.

`PROJECT.json` has the full list of parts and the hazards of the code at the
lines where they bite.

## 2. Modules

Windows:

| Module | Models | Correspondence |
|---|---|---|
| `WindowFrame` | `WindowRange`, which rows of a window an aggregate reads (`StoredForFrame`: all of them; inner range and rows lists otherwise) | operators; `RowsFrame` and `RangeFrame` are the reference definition of a frame over the current row followed by the whole history |
| `HistoryWindow` | `HistoryWindow` under `Runner::WindowProject` | `table`, `current_history_buffer` as in the code; one action per outcome of `WindowProject`: refused row, union row, instance row, failed udf. `accepted` and `shown` are ghosts |
| `RequestWindow`, `RequestUnion` | `RequestUnionRunner::Run` and `RequestUnionWindow`, `PostRequestUnionRunner` | the frame arithmetic and the closed form; the loop: `Open` seeks all iterators, `Merge` is one turn, `Return`; `PostRequestUnion` puts the request row in front when the loop ran without it (`output_request_row`); `RunFails` is a missing input |
| `WindowAgg` | `WindowAggRunner::RunWindowAggOnKey` | extends `HistoryWindow`; `FeedUnionRow`, `FeedInstanceRow` are the turns of the two loops |
| `OnlineOffline` | both modes over one store | requests answered by `RequestWindow` while rows arrive, then a batch by `WindowAgg` over the same rows |

Engine and execution:

| Module | Models | Correspondence |
|---|---|---|
| `EngineCache` | `Engine::Get`, cache and sessions | the cache operations under `mu_` are one step each; a `Get` that compiles is several. boost's `lru_cache` is external |
| `Handlers` | data handlers and wrappers | operators; a lazy wrapper is the data it yields |
| `Runners` | key, order, condition, partition, sort, join and project generators; `Run` and `BatchRequestRun` of each runner, `ProxyRequestRunner` | one operator per generator and per runner |
| `RunnerBuilder` | `RunnerBuilder::Build`, `ClusterTask`, `RouteInfo`; the pass `ClusterOptimized` before it | operators on the state of the builder |
| `Execution` | sessions that run | rows are put, then the calls whose results are compared are made one after the other (`calls`, `current`); a step runs one runner or sends or answers one sub query; a stack of task runs with their caches |

Planning:

| Module | Models | Correspondence |
|---|---|---|
| `WindowMerge`, `MergedWindows` | `CanMergeWith`, `MergeWindow`, `MergeWindows`, `MergeProjectMap`; all statements of up to three windows | operators; one action adds a window |
| `PhysicalOp` | schema contexts, column ids and sources; nodes and plan context | a heap of nodes that is rewritten in place |
| `PlanTransform`, `PhysicalPasses`, `CommonColumns` | `SELECT` and `UNION` to logical plans, transformers; passes and validation; batch request optimisation | one operator per function of the code, returning plan or failure |
| `PlanMeaning` | what a plan and a query compute | the runners in closed form; SQL by the syntax tree alone |
| `Planning` | the stages in order | one action per stage: plan, transform, each pass, validate, split, generate. The stages and the two meanings that are compared are operator constants, which `MCPlanning` gives the operators of the modules above |

Generated functions and library:

| Module | Models | Correspondence |
|---|---|---|
| `RowCodec` | row format | `RowBuilder` appends column by column; the other encoders and all decoders are operators on the buffer |
| `ExprCodegen` | `InferAttr` and IR builders | an action applies one operator to expressions built before |
| `FunctionLet` | `InitFnDef` to `RowFnLetIRBuilder` | one action per pass over a select list |
| `Aggregates` | udafs and the fused loop | one action feeds a row |
| `UdafContainers`, `StringSplit` | top, `_cate` and frequency containers; split and join | one action feeds a row |

toydb:

| Module | Models | Correspondence |
|---|---|---|
| `TimeList` | `List`, `ArrayList`, `LinkList` | a step is one access to shared memory |
| `SkipList` | `SkipList` | a step is one access to shared memory; links that were never written are `Garbage` |
| `ToydbTable` | `Table::Put`, `Segment::Put`, table iterators, `TabletSegmentHandler` | one step per insert into a shared structure, lock per segment |
| `ToydbServers` | dbms and tablet handlers, sdks | messages that are handled at any time or never; a caller may stop waiting at any time |
| `TableService` | what the servers promise | abstract specification; `ToydbServers` is shown to implement it |
| `SchemaCache` | `DBMSSdkImpl::GetInputSchema` | lookup, call and insert of two threads; its theorem is in the module |

`HistoryWindowProofs`, `EngineCacheProofs`, `SkipListProofs` and `TimeListProofs` extend the
module they prove something about. The `MC` modules give values to constants
(`MCHistoryWindow` has the sample of frames). Most `MC` modules hold
several parts: a variable `part` says which model a behaviour belongs to, the variables
of the others keep a fixed value, and a property speaks of its own part.

Loops that pop from one end of a deque are written in closed form: the longest
prefix whose last row the loop condition does not pop. Integers of the code are
64 bits wide; the models take `Half` = 2^(w-1) or `Bits` as a constant, the proofs
hold for every width, the runs use 2 to 4 bits. Definitions marked `mutant` are
plausible bugs: with one of them in place of the definition it stands for, the property
it is meant for fails.

## 3. Runs

Passing runs:

| Run | Shows | Bounds and why they are enough |
|---|---|---|
| `history_window` | Fed in order, a udf reads exactly its frame, newest first, each row once, in the whole window or through an inner list (ROWS frames shorter than the window's or ending before the current row included); fed in any order, the buffers are bounded, only the instance row leaves the history, and late rows are refused if the range ends at the current row and instances stay | 5 rows, 3 times, 8 frames of all kinds: enough for a row to enter the buffer, move to the window, be read and be evicted, with ties |
| `windows` | Batch mode feeds every row once, in time order, each older union row before the instance row, and answers every instance row up to the limit (liveness); a request window is its frame and equals the closed form, also if the request row is added afterwards; both modes read the same rows in the same order | 2 union tables, segments of up to 2 rows, with and without limit and earlier rows; over one store times 1..5, no table with two rows of one time, and no union row with the time of an instance row unless the frame leaves the current time out (EXCLUDE CURRENT_TIME, or a range that ends before the current row) |
| `engine_cache` | A cached plan stays the shared one (batch request mode excepted, as in the code), after a clear only plans that were being compiled are old, in the cache and in what a `Get` gives, and a `Get` that succeeds answers the statement, number of parameters and common columns asked for | 2 threads, 2 statements, cache of 1: eviction, a race of two compiles and a clear in the middle all happen; a second part has one statement, 2 parameter schemas and 2 sets of common columns |
| `execution` | A cluster gives what one node gives; a batch of requests what the requests give alone; a failed sub query adds no row; joins, groups, request windows and batch windows are those of the query | 14 plans with one and two joins, windows, unions, common columns, GROUP BY, WHERE and LIMIT; 2 stored rows (3 in batch mode) over 2 tables, NULL and empty keys, batches of 2 and 3, any one sub query failing |
| `planning` | At every stage a plan means its query, can be compiled and, in request mode, reads tables by index only; a node computed once per batch is the same for all requests of the batch; merged windows keep their frames | 44 queries, 4 catalogs with different indexes, 3 modes, 6 sets of common columns; 9 frames, all statements of up to 3 windows at all addresses |
| `generated_functions` | Rows are read back by every decoder; expressions have the value of SQL and the inferred type; select lists keep their meaning through all passes, with one pass over a window per frame; aggregates agree with their reference one by one and fused; containers are complete; split by walk and by regular expression agree | rows at each limit of the offset size; types with their least and greatest values and two raw values under NULL, expressions of any depth with a leaf beside each operator; up to 3 select items over 2 columns; 2 to 4 rows |
| `toydb_storage` | A reader sees rows newest first and misses none that were stored before, across the conversion of an array to a list; no unwritten link is followed, stored keys are found; no row is lost to a concurrent `Put`; a scan by key misses nothing, a table scan misses rows only in a segment whose first key had no row yet, a lookup fails only behind a key made meanwhile | 5 rows with a limit of 2 in place of 400; 4 keys, 3 levels, every height; 2 threads, 2 rows, 2 indexes, 3 keys in 2 segments; the index defined second comes first in the order of names |
| `toydb_servers` | The servers implement `TableService`, listed tables have ids of their own, a row is stored at most once, every statement returns, the lock of the dbms comes back (liveness), and a schema that a request row points to stays | 2 clients, 2 tablets, 3 programs that create the same table, different tables and an invalid one; every message may be lost or late |

Runs in which the code does not do what a document, comment or message of the
repository says (`findings` in `PROJECT.json` quotes the lines):

| Run | What the code does |
|---|---|
| `online_offline_ties` | A union row of the instance row's own time is in the request window and not in the batch window |
| `engine_cache_parameters` | A session with new parameter types gets the cached plan for its old ones |
| `skip_list_seek` | A Seek that races with the insert of a smaller key arrives there; the stored key is taken for missing |
| `execution_failures` | A session whose sub query failed returns 0 and a row without the joined part |

The models also contain these behaviours, which the properties leave out by a stated
condition or a bound because the code does not exclude them.

Windows and engine:

* a late row is accepted when the newer rows are still in the history buffer
  (`LateRowsRefusedFromFront` speaks of the front of the window);
* with a range that ends before the current row, rows before `start_ts` stay in the
  window until another row moves in; the inner list does not read them
  (`WindowIsFrame`, which compares the whole window for the frames that are read
  whole);
* at time 0, `key - 1` wraps under EXCLUDE CURRENT_TIME and the row is in its batch
  window twice, and the end of a range that ends before the current row is
  clamped to the current row: the runs start at time 1;
* a cache hit for a statement with parameters reads the schema of a plan the
  session does not have (`GetUndefined` in `EngineCache`);
* a `Get` that compiles while the cache is cleared caches a plan for the old catalog
  afterwards (`overtaken` in `ClearForgets` and `AnswerNotOlderThanClear`); nothing in
  the engine removes it before the next clear.

Planning and execution:

* `CanMergeWith` is not transitive, lets MAXSIZE n be merged with ROWS n PRECEDING, which
  reads n + 1 rows, and MAXSIZE frames with different ends (`Transitive`, `OneEnd`);
* of a UNION at the top only the left query is planned, and union, distinct and
  sort nodes have no runner (`HasRunner`);
* a last join that was moved into a window is sorted by an index or not at all
  (`UnsortedWindowJoin`), union tables get the window of the main table
  (`MisgroupedUnion`), and a window over the common part of a request is filtered and
  sorted by columns of the request (`MisreadWindow`);
* where the key of a sub query comes from the row of another one that failed, rows
  with a NULL key are joined (`FailureContained` leaves chained plans out);
* a null list of handlers is dereferenced in batch request mode (`NothingToSend`).

Generated functions and library:

* rows of exactly 2^24 bytes: the generated encoder uses offsets of 3 bytes, the
  decoders expect 4; a request row of the sdk has no way to append a date;
* the expressions marked as gaps in `ExprCodegen` (an untyped NULL in AND, OR, NOT or
  WHEN, timestamp minus timestamp, number to date, CASE that begins with NULL) are
  accepted by inference and refused by the builders;
* a list in which only the argument of an aggregate reads the window loses its frames
  (`LetMeansSelectList`);
* columns of a fused loop share one count (`NullsAgree`), `sum_where` adds what lies
  under a NULL, minimum and maximum of nothing are bounds of the type;
* a text whose first entry exceeds the maximum (`OutputIsPrefix`).

toydb:

* a Seek in `TimeList` that races with an insert arrives above its key; the rows
  are still read in order and completely;
* a table scan that meets a key without a row in front of a segment leaves the
  segment out (`TableReadsComplete` excludes the rows of that segment, the ghost `left`);
* a reader in `TimeList` may meet a deleted array list (`undefined` in
  `NewIterator`), because `List::Insert` frees it at once; the properties speak of
  the readers that got their iterator;
* a table whose creation was not confirmed is never listed and cannot be created again;
  Insert reports success whatever the tablet says; a tablet whose only KeepAlive is lost
  stays unknown.

Symmetry is used over threads and putters only, which nothing orders, and only in
runs without liveness. `CHECK_DEADLOCK FALSE` stands where the bounded input ends
(rows, calls, statements, stages of a compile) and the program really stops.

**Refinement.** `ImplementsTableService` maps the servers to `TableService`: a table
exists from the moment its tablet has it, its rows are those of the tablet, and it is listed
when the dbms lists it with the definition it has there. Messages, handlers and the lock
do not show.

**Fairness.** `WindowAgg`: weak fairness of its next step, since `RunWindowAggOnKey` is a
sequential loop of one thread that nothing blocks. `ToydbServers`: a waiting caller
times out in the end (a brpc call has a timeout) and a handler whose call has come back
finishes, which nothing blocks. No message is assumed to arrive and no lock to be
obtained. The other specifications state no fairness: the spin locks of the
engine and of the segments do not guarantee any.

## 4. Proofs

| Module | Theorems | Assumed of the constants |
|---|---|---|
| `HistoryWindowProofs` | `TypeCorrect`, `InstanceLeaves`, `Bounded`, `LateRowsAreRefused`, `UnionsMerged` | keys are numbers of any width, any window range the planner can build, any input (`HalfAssumption`, `KeysAssumption`, `RangesAssumption`, `InputAssumption`), any number and length of union tables (`WindowAggAssumption`) |
| `EngineCacheProofs` | `TypeCorrect`, `GetAnswersTheCall`, `ClearCacheForgets`, `AnswersAreNotOlder`, `CompileResultKept` | the cache has room for a statement; no parameters and no common columns are among the choices (`EngineAssumption`) |
| `SkipListProofs` | `LinksAreWritten`, `StoredKeysFound` | keys are positive, at least one level (`SkipListAssumption`) |
| `TimeListProofs` | `RowsAreReadInOrder` | times are numbers; any positive length of the array (`ListAssumption`) |
| `SchemaCache` | `SchemasLive` | none |

Most theorems state a property of a run as it stands there (`Spec => []P`, for
`CompileResultStable` an action property). The exceptions: the types of the engine, which the
run does not list, and `LinksAreWritten`, `StoredKeysFound`, `RowsAreReadInOrder` and
`SchemasLive`, which state a property of the component's module that the run checks through
an instance of it. All proofs have
the same form: an inductive invariant `IInv`, `InitIInv`, one lemma per action
(`...Step`) that `NextIInv` puts together, and `IInv => P`.

**Sliding window.** `IInv == TypeOK /\ InstanceLeavesWindow /\ BufferBounded`: between two
rows the history buffer followed by the window is a prefix of the history, so nothing is
missing in the middle and nothing is there twice. None of the three is inductive alone.
`PopFrontData` takes the front of the buffer or of the window, so that it removes the
right row only if the structures are aligned with the history; that the current row is
not itself popped by the bounds when it enters needs the frame's bounds; and both need
the types. `KeptLen` and `StillHistory` are prefixes with known last elements
(`KeptLenProperties`, `StillHistoryProperties`); sliding the window (`SlideProperties`,
`SlideSize`) and moving rows from the buffer into it (`MovedAligned`, `HistoryAligned`) keep
the alignment; the copy that EXCLUDE CURRENT_TIME puts in front is added and removed
(`PushCopyAligned`, `PopCopyAligned`). For `LateRowsAreRefused`, `FrontInv` adds that the
row at the front of the window is the last one accepted: `BufferData` compares a new row with
the front only, so that this is why it refuses every late row.

**Merge.** `MergeInv`: no row still to be fed is older than the last one, the union rows that
were fed are older than each instance row to come, and those fed are the ones the iterators have
passed. `PickFacts` says that `PickIteratorWithMininumKey` finds a smallest key although it skips
tables whose next key is `UINT64_MAX`; `UnionsNotOlder` that the skipped rows do not matter.

**Engine cache.** `IInv == TypeInv /\ CacheInv /\ SessionInv /\ CallInv /\
AnswersTheCall /\ AnswerNotOlderThanClear`.
`CacheInv`: each cache is bounded, has a statement once, holds plans of its own mode and
db, and a plan older than the last clear only if its compilation was overtaken by that
clear; `CallInv`: what a `Get` carries between its steps (compiled, but not inserted) has the
same properties, since the insert happens after the lock was released, and its catalog is
not older than the clear it began after unless a clear overtook it. The lemmas on
`ToFront`, `Touch` and `Insert` say that the lru operations permute, extend or cut the cache.
`CompileResultKept` compares two states: of one step at most one cache changes
(`OneCacheChanges`), and the operations keep the plan of each statement they keep
(`TouchKeeps`, `SetCacheKeeps`).

**Skip list.** `IInv == TypeInv /\ LinkInv /\ WriterInv /\ ReaderInv`. `LinkInv`: the next
pointers of level l are the ascending chain of the keys linked there (`On(l)`), and no other
node leads anywhere. `WriterInv`: on the levels still to be linked the new key belongs
behind the node found there at the beginning, and its own pointer is written before it is
published (`ChainInserted`). `ReaderInv`: a reader stands on a written node, every
stored key it was to find is not behind it, and an iterator's keys ascend. The last part
is not inductive without the chains: a reader that moves must not jump over a stored key.

**Time list.** `IInv == TypeInv /\ PhaseInv /\ ArrayInv /\ LinkInv /\ WriterInv /\ ReaderInv`.
`ArrayInv`: until it is freed the array has the stored rows, sorted, newest first.
`LinkInv`: so has the linked list, also while it is filled and before `List::Insert` stores
its pointer. `PhaseInv` ties the two to the steps of the conversion. `ReaderInv`: each row that
was stored when the reader began has been read or lies before the reader in the structure it
reads, whichever of the two that is; a reader of the old array keeps an array that no
later insert changes.

**Schema cache.** `IInv`: the schema of each request row is the entry of the map, and a thread
that is to insert holds an answer; `std::map::insert` leaves an existing entry alone.

Only model-checked, and why:

* liveness (`BatchAnswersEveryRow`, `EveryStatementReturns`, `LockReleased`), which the
  prover cannot reason about;
* the properties of the runs `execution`, `planning` and `generated_functions`: plans and
  expressions are trees, the operators on them are recursive, and what a recursive
  definition computes for all inputs needs an induction over data that the installed provers cannot
  instantiate;
* `RequestReadsFrame` and `Consistent`: the closed form of a request window sorts the rows of
  several tables and cuts the result, and that the loop computes it needs an induction
  over the sorted sequence;
* `WindowIsFrame`: which rows may be dropped for good
  before the rows arrive that could read them needs an invariant over the whole history to
  come, and the proof is not done;
* `StoredEverywhere` and `TableReadsComplete` of the toydb table, and the properties of the
  servers with their refinement: no proof is kept here.

## 5. Not modelled

Not modelled:

* the SQL grammar (an external parser) and the conversion of its tree, field by field;
* LLVM: instructions, modules, the JIT; the IR builders of the function definition
  language in which parts of the library are written;
* scalar udfs (dates, strings, mathematics), which are pure functions of one row over
  the C library, and the registry that is filled once at start up;
* plans of CREATE, INSERT, commands and DEPLOY, which copy fields;
* the Spark layout of rows, csv and descriptor loading, printing, test support,
  benchmarks, command lines, bindings;
* `SortRunner`, which is never built, and with it the sort of a partition.

Left out of the modelled parts: key strings of toydb and the time stamps of its rows without
one (keys and times are numbers); table definitions and rows that toydb refuses, which change
nothing; types of columns
in planning (all columns have one type); memory order beyond the loads named in the
modules; `Split`, `Remove` and `Clear` of the toydb lists, which only tests use; negative
order values; sizes beyond the named bounds.
