----------------------------- MODULE Execution -----------------------------
(***************************************************************************)
(* Sessions that run compiled plans (src/vm/engine.cc, src/vm/runner.cc):  *)
(* on one node, or as a ClusterJob whose tasks run on tablets and may fail *)
(* there.  A step runs one runner, Runner::RunWithCache or                 *)
(* BatchRequestRun, or sends or answers one sub query.                     *)
(*                                                                         *)
(* Plans is a sequence of records [plan, root, common, columns, mode,      *)
(* tables, stored, query, chained]: common are the nodes that depend only  *)
(* on the common columns, stored the rows [k, ts] that may be put into     *)
(* tables, query and chained say which properties speak of the plan.       *)
(* First rows are put, then a set of calls is made, whose results are      *)
(* compared.                                                               *)
(***************************************************************************)
EXTENDS RunnerBuilder

CONSTANTS
    Plans,       \* the physical plans
    Indexes,     \* index name -> columns of the table
    Requests,    \* the request rows, [k, ts]
    Batches,     \* the batches: sequences of positions in Requests
    Faulty,      \* the batches for which a sub query may fail
    MaxRows,     \* bound on the number of rows stored for a request plan
    MaxBatchRows \* and for a batch plan

VARIABLES
    store,       \* table -> the rows put, oldest first
    plan,        \* the plan of the session
    jobs,        \* what it is compiled to, in a cluster or not
    calls,       \* the calls still to be answered
    current,     \* the call being made or made last
    stack,       \* the task runs in progress, innermost first
    results      \* call -> result, of the calls made so far

vars == <<store, plan, jobs, calls, current, stack, results>>

TableNames == {"t1", "t2"}

----------------------------------------------------------------------------
(* Compilation *)

\* CommonColumnOptimize comes after the other passes: a plan with common nodes is
\* not transformed again.
Optimized(p) ==
    IF p.common = {} THEN ApplyClusterOptimized(p.plan, p.root) ELSE [plan |-> p.plan, node |-> p.root]

Job(p, cluster) ==
    IF cluster
    THEN BuildClusterJob(Optimized(p).plan, Optimized(p).node, TRUE, p.common)
    ELSE BuildClusterJob(p.plan, p.root, FALSE, p.common)

----------------------------------------------------------------------------
(* The calls of a session *)

AgreeOn(columns, batch) ==
    \A c \in columns, i \in DOMAIN batch : Requests[batch[i]][c] = Requests[batch[1]][c]

SubTasks == DOMAIN jobs[TRUE].tasks \ {jobs[TRUE].main_task_id}

Call(cluster, mode, batch, failed, ties) ==
    [cluster |-> cluster, mode |-> mode, batch |-> batch, failed |-> failed, ties |-> ties]

NoCall == Call(FALSE, "", << >>, {}, "")

\* The requests of a batch agree in the common columns.
Calls ==
    LET p == Plans[plan]
        single == {Call(c, "kRequestMode", <<r>>, {}, "kept") : c \in BOOLEAN, r \in DOMAIN Requests}
        many   == {Call(c, "kBatchRequestMode", b, {}, "kept") :
                       c \in BOOLEAN, b \in {d \in Batches : AgreeOn(p.columns, d)}}
        failed == UNION {{[c EXCEPT !.failed = {t}] : t \in SubTasks} :
                            c \in {d \in single \cup many : d.cluster /\ d.batch \in Faulty}}
    IN IF p.mode = "batch"
       THEN {Call(FALSE, "kBatchMode", << >>, {}, ties) : ties \in {"kept", "reversed"}}
       ELSE single \cup many \cup failed

CurrentJob == jobs[current.cluster]

----------------------------------------------------------------------------
(* The catalog: a table is scanned in the order of its rows; the segments of   *)
(* an index are sorted by time, newest first.                                  *)

IndexHandler(rows, index) ==
    LET entries  == [n \in DOMAIN rows |-> [key |-> rows[n].ts, row |-> <<rows[n]>>]]
        segments == PartitionRows(<< >>, Indexes[index], << >>, entries)
    IN Partition([k \in DOMAIN segments |-> SortEntries(segments[k], FALSE, "reversed")], "kDescOrder")

Catalog ==
    [d \in TableNames \X (DOMAIN Indexes \cup {""}) |->
        IF d[2] = "" THEN Table([n \in DOMAIN store[d[1]] |-> [key |-> 0, row |-> <<store[d[1]][n]>>]], "kNoneOrder")
        ELSE IndexHandler(store[d[1]], d[2])]

\* A node of a cluster has no partition of its own: it asks tablets.
MainTables(call) ==
    [d \in DOMAIN Catalog |-> IF call.cluster /\ IsPartition(Catalog[d]) THEN Nil ELSE Catalog[d]]

RequestRow(n) == <<[id |-> <<100 + n>>, k |-> Requests[n].k, ts |-> Requests[n].ts]>>

----------------------------------------------------------------------------
(* Task runs and frames.  A frame is a runner that runs: todo are the inputs   *)
(* it still has to run, with the way to run them, outs their outputs, and      *)
(* extra says whether the inputs are done that Run asks for.                   *)

Frame(job, id, way) ==
    LET ids == Reverse(job.runners[id].producers)
    IN [id |-> id, way |-> way, todo |-> [i \in DOMAIN ids |-> <<ids[i], way>>], outs |-> << >>, extra |-> FALSE]

\* RunnerContext and the frames of one task
TaskRun(job, task_id, tables, way, requests) ==
    [way |-> way, tables |-> tables, requests |-> requests, cache |-> << >>, batch_cache |-> << >>,
     frames |-> <<Frame(job, job.tasks[task_id].root, way)>>]

Top == Head(stack)

F == Head(Top.frames)

R == CurrentJob.runners[F.id]

\* Outputs of the producers, which were run from the last to the first, and of
\* the other inputs
Producers == Reverse(SubSeq(F.outs, 1, Len(R.producers)))

Extra == SubSeq(F.outs, Len(R.producers) + 1, Len(F.outs))

GetCache(run, id, way) ==
    LET cache == IF way = "batch" THEN run.batch_cache ELSE run.cache
    IN IF id \in DOMAIN cache THEN cache[id] ELSE Nil

SetCache(run, id, way, out) ==
    IF way = "batch" THEN [run EXCEPT !.batch_cache = (id :> out) @@ @]
    ELSE [run EXCEPT !.cache = (id :> out) @@ @]

AddOut(run, out) == [run EXCEPT !.frames[1].outs = Append(@, out)]

\* The result of the call
Finish(result) ==
    /\ stack' = << >>
    /\ results' = (current :> result) @@ results
    /\ calls' = calls \ {current}
    /\ UNCHANGED <<store, plan, jobs, current>>

Continue(run) ==
    /\ stack' = <<run>> \o Tail(stack)
    /\ UNCHANGED <<store, plan, jobs, calls, current, results>>

\* The runner on top returns out: to the runner that asked, or as the result of the
\* sub query, or of the call.
Return(out) ==
    LET cached == IF R.need_cache THEN SetCache(Top, F.id, F.way, out) ELSE Top
        run == [cached EXCEPT !.frames = Tail(@)]
        result == CASE current.mode = "kRequestMode" -> RequestResult(out)
                    [] current.mode = "kBatchRequestMode" -> BatchRequestResult(out)
                    [] OTHER -> BatchResult(out)
        answer == IF Top.way = "batch" THEN BatchRequestResult(out).rows ELSE RequestResult(out).rows
    IN IF IsCrash(out) THEN Finish(Failure(-99))
       ELSE IF run.frames # << >> THEN Continue(AddOut(run, out))
       ELSE IF Len(stack) = 1 THEN Finish(result)
       ELSE /\ stack' = <<AddOut(stack[2], [type |-> "answer", rows |-> answer])>>
                            \o SubSeq(stack, 3, Len(stack))
            /\ UNCHANGED <<store, plan, jobs, calls, current, results>>

----------------------------------------------------------------------------
Init ==
    /\ store = [t \in TableNames |-> << >>]
    /\ plan \in DOMAIN Plans
    /\ jobs = [c \in BOOLEAN |-> Job(Plans[plan], c)]
    /\ calls = Calls
    /\ current = NoCall
    /\ stack = << >>
    /\ results = << >>

RowCount == Len(store["t1"]) + Len(store["t2"])

Put(t, s) ==
    /\ stack = << >> /\ results = << >>
    /\ RowCount < IF Plans[plan].mode = "batch" THEN MaxBatchRows ELSE MaxRows
    /\ t \in Plans[plan].tables
    /\ store' = [store EXCEPT ![t] = Append(@, [id |-> <<10 * RowCount + (IF t = "t1" THEN 1 ELSE 2)>>,
                                                k |-> s.k, ts |-> s.ts])]
    /\ UNCHANGED <<plan, jobs, calls, current, stack, results>>

MainTask(job, call) ==
    TaskRun(job, job.main_task_id, MainTables(call),
            IF call.mode = "kBatchRequestMode" THEN "batch" ELSE "single",
            [i \in DOMAIN call.batch |-> RequestRow(call.batch[i])])

\* RunSession::Run.  The order of the calls does not matter, for the tables no longer
\* change.
Start ==
    /\ stack = << >>
    /\ calls # {}
    /\ current' = CHOOSE c \in calls : TRUE
    /\ stack' = <<MainTask(jobs[current'.cluster], current')>>
    /\ UNCHANGED <<store, plan, jobs, calls, results>>

NextInput == Head(F.todo)

Cached ==
    /\ CurrentJob.runners[NextInput[1]].need_cache
    /\ ~IsNil(GetCache(Top, NextInput[1], NextInput[2]))

\* RunWithCache or BatchRequestRun of the next input: its output is cached ...
UseCache ==
    /\ stack # << >>
    /\ F.todo # << >> /\ Cached
    /\ Continue(AddOut([Top EXCEPT !.frames[1].todo = Tail(@)], GetCache(Top, NextInput[1], NextInput[2])))

\* ... or it is run.
RunInput ==
    /\ stack # << >>
    /\ F.todo # << >> /\ ~Cached
    /\ Continue([Top EXCEPT !.frames = <<Frame(CurrentJob, NextInput[1], NextInput[2])>> \o
                                           <<[F EXCEPT !.todo = Tail(@)]>> \o Tail(@)])

IsProxy == R.type = "kRunnerRequestRunProxy"

\* Run runs its other inputs, unless an input is null or the batch is empty: unions
\* and right sides one by one, the index input of a proxy like its producer.
RunExtraInputs ==
    /\ stack # << >>
    /\ F.todo = << >> /\ ~F.extra
    /\ LET none == \/ \E n \in DOMAIN Producers : IsNil(Producers[n])
                   \/ F.way = "batch" /\ Top.requests = << >> /\ ~IsProxy
           ids == IF none THEN << >> ELSE ExtraInputs(R)
           way == IF IsProxy THEN F.way ELSE "single"
       IN Continue([Top EXCEPT !.frames[1].extra = TRUE,
                               !.frames[1].todo = [i \in DOMAIN ids |-> <<ids[i], way>>]])

Ready == stack # << >> /\ F.todo = << >> /\ F.extra

RunRunner ==
    /\ Ready
    /\ ~IsProxy
    /\ LET request == IF Top.requests = << >> THEN EmptyRow ELSE Top.requests[1]
       IN Return(IF F.way = "batch"
                 THEN BatchRequestRun(R, Top.tables, Top.requests, current.ties, Producers, Extra)
                 ELSE Run(R, Top.tables, request, current.ties, Producers, Extra))

----------------------------------------------------------------------------
(* Proxies *)

IsAnswer(h) == h.type = "answer"

IndexInput == IF Len(R.index_input) > 0 /\ Len(Extra) > 0 THEN Extra[1] ELSE Nil

ProducerIsCommon == CurrentJob.runners[R.producers[1]].need_batch_cache

SubTask == CurrentJob.tasks[R.task_id]

Query ==
    IF F.way = "batch" THEN SendBatch(R, Producers[1], IndexInput, ProducerIsCommon)
    ELSE IF IsRow(Producers[1]) THEN SendRow(SubTask, Producers[1].row, IndexInput) ELSE NotSent

AtProxy ==
    /\ Ready
    /\ IsProxy
    /\ \A n \in DOMAIN F.outs : ~IsAnswer(F.outs[n])

SendSubQuery ==
    /\ AtProxy
    /\ Query # NotSent
    /\ R.task_id \notin current.failed
    /\ stack' = <<TaskRun(CurrentJob, R.task_id,
                          GetTablet(Catalog, SubTask, PrimaryKeys(SubTask, Query.index_rows)),
                          F.way, Query.rows)>> \o stack
    /\ UNCHANGED <<store, plan, jobs, calls, current, results>>

\* The sub query fails: its status is never read, and it has no rows.
SubQueryFails ==
    /\ AtProxy
    /\ Query # NotSent
    /\ R.task_id \in current.failed
    /\ Continue(AddOut(Top, [type |-> "answer", rows |-> << >>]))

\* Nothing can be sent: null, which a proxy with batch cache dereferences, as all do
\* with a null first item.
NothingToSend ==
    /\ AtProxy
    /\ Query = NotSent
    /\ LET list == Producers[1]
       IN Return(IF F.way = "batch" /\ list.type = "list" /\ list.items # << >>
                    /\ (R.need_batch_cache \/ IsNil(list.items[1]))
                 THEN Crash ELSE Nil)

ReceiveAnswer ==
    /\ Ready
    /\ IsProxy
    /\ \E n \in DOMAIN F.outs : IsAnswer(F.outs[n])
    /\ LET rows == F.outs[Len(F.outs)].rows
       IN Return(IF F.way = "batch"
                 THEN Received(rows, Len(Producers[1].items),
                               R.need_batch_cache \/ ProducerIsCommon \/ Len(Producers[1].items) = 1)
                 ELSE AsyncRow(1, rows))

----------------------------------------------------------------------------
Next ==
    \/ \E t \in TableNames, s \in Plans[plan].stored : Put(t, s)
    \/ Start
    \/ UseCache
    \/ RunInput
    \/ RunExtraInputs
    \/ RunRunner
    \/ SendSubQuery
    \/ SubQueryFails
    \/ NothingToSend
    \/ ReceiveAnswer

Spec == Init /\ [][Next]_vars

----------------------------------------------------------------------------
(* Properties *)

\* The calls, when all of them have been made: a result is kept once it is there.
Answers == IF calls = {} THEN DOMAIN results ELSE {}

Answered(call) == call \in DOMAIN results

WithoutFailure(call) == [call EXCEPT !.failed = {}]

\* Splitting a plan into tasks for tablets, with the projections ClusterOptimized puts
\* below joins and the routes the builder computes, does not change a result; an
\* empty batch has no rows, but may fail where a proxy finds nothing to send.
ClusterEqualsLocal ==
    \A c \in Answers :
        LET local == [c EXCEPT !.cluster = FALSE]
        IN c.cluster /\ c.failed = {} /\ Answered(local) =>
              /\ results[c].rows = results[local].rows
              /\ c.batch # << >> => results[c].ret = results[local].ret

\* A batch of requests is answered like each of them alone, whatever is shared
\* between the requests (batch cache, common sub queries) and whichever sub
\* query fails.
BatchRequestEqualsRequests ==
    \A c \in Answers :
        LET Single(i) == [c EXCEPT !.mode = "kRequestMode", !.batch = <<c.batch[i]>>]
        IN c.mode = "kBatchRequestMode" /\ (\A i \in DOMAIN c.batch : Answered(Single(i))) =>
              results[c].rows = FlattenSeq([i \in DOMAIN c.batch |-> results[Single(i)].rows])

\* The characters of a row's content that stand for rows of tables
ReadIds(result) ==
    UNION {{Content(result.rows[n])[i] : i \in DOMAIN Content(result.rows[n])} : n \in DOMAIN result.rows}

\* When a sub query fails the session still succeeds, and what it computes contains no
\* row that it would not contain without the failure.  Left out are plans where the
\* key of one sub query comes from the row of another: there the empty row's
\* key is that of NULL, and rows with NULL in the column are joined.
FailureContained ==
    \A c \in Answers :
        c.failed # {} /\ Answered(WithoutFailure(c)) /\ ~Plans[plan].chained =>
            /\ results[c].ret = results[WithoutFailure(c)].ret
            /\ ReadIds(results[c]) \subseteq ReadIds(results[WithoutFailure(c)])

\* "return `0` if run successfully else negative integer" (include/vm/engine.h,
\* RequestRunSession::Run and BatchRequestRunSession::Run)
FailureReported ==
    \A c \in Answers :
        c.failed # {} /\ Answered(WithoutFailure(c)) /\ results[c] # results[WithoutFailure(c)] =>
            results[c].ret < 0

----------------------------------------------------------------------------
(* What some of the plans compute, stated without runners *)

\* Positions of the rows of t1 with the key k and a ts in range, newest first and
\* of one ts the last one put first
Matching(k, range) ==
    SetToSortSeq({n \in DOMAIN store["t1"] : store["t1"][n].k = k /\ store["t1"][n].ts \in range},
                 LAMBDA m, n : \/ store["t1"][m].ts > store["t1"][n].ts
                               \/ store["t1"][m].ts = store["t1"][n].ts /\ m > n)

\* SELECT .. FROM t0 LAST JOIN t1 ORDER BY t1.ts ON t0.k = t1.k AND t1.ts <= t0.ts:
\* the joined row is the last one of the key that is not newer than the request.
\* NULL is a key like others.
LastJoinIsLatest ==
    Plans[plan].query = "last join" =>
        \A c \in Answers :
            LET request == Requests[c.batch[1]]
                right   == Matching(request.k, 0..request.ts)
                id      == <<1, 100 + c.batch[1]>> \o IF right = << >> THEN << >> ELSE store["t1"][right[1]].id
            IN c.mode = "kRequestMode" /\ c.failed = {} => Content(results[c].rows[1]) = id

\* SELECT .. OVER (PARTITION BY k ORDER BY ts ROWS_RANGE BETWEEN 1 PRECEDING AND
\* CURRENT ROW): the request, then the rows of its key and of the range.
WindowIsOwnKey ==
    Plans[plan].query = "window" =>
        \A c \in Answers :
            LET request == Requests[c.batch[1]]
                window  == Matching(request.k, (request.ts - 1)..request.ts)
                ids     == [n \in DOMAIN window |-> store["t1"][window[n]].id]
            IN c.mode = "kRequestMode" /\ c.failed = {} =>
                  Content(results[c].rows[1]) = <<1, 100 + c.batch[1]>> \o FlattenSeq(ids)

\* GROUP BY k, ts gives one row per pair of values, made of all rows with these
\* values and no others; NULL and the empty string are values.
GroupsAreValues ==
    Plans[plan].query = "group by" =>
        \A c \in Answers :
            LET rows  == store["t1"]
                ids   == [n \in DOMAIN results[c].rows |-> Range(Tail(Content(results[c].rows[n])))]
                Of(m) == {rows[n].id[1] : n \in {i \in DOMAIN rows : rows[i].k = rows[m].k /\ rows[i].ts = rows[m].ts}}
            IN /\ Range(ids) = {Of(m) : m \in DOMAIN rows}
               /\ \A m, n \in DOMAIN ids : ids[m] = ids[n] => m = n

\* SELECT agg OVER (UNION t2 PARTITION BY k ORDER BY ts ROWS_RANGE BETWEEN 1 PRECEDING
\* AND CURRENT ROW) FROM t1: every row of t1 is answered once, from itself, the rows
\* of its key and range that are older, and of its own time only rows of t1.
BatchWindowsAreFrames ==
    Plans[plan].query = "batch window" =>
        \A c \in Answers :
            LET rows     == store["t1"]
                out      == results[c].rows
                Ids(n)   == Tail(Content(out[n]))
                Of(t, m, range) ==
                    {store[t][i].id[1] : i \in {j \in DOMAIN store[t] : store[t][j].k = rows[m].k
                                                                     /\ store[t][j].ts \in range}}
            IN /\ Len(out) = Len(rows)
               /\ \A m \in DOMAIN rows : \E n \in DOMAIN out :
                     LET before == rows[m].ts - 1
                         older  == Of("t1", m, {before}) \cup Of("t2", m, {before})
                     IN /\ Ids(n)[1] = rows[m].id[1]
                        /\ IsInjective(Ids(n))
                        /\ older \subseteq Range(Ids(n))
                        /\ Range(Ids(n)) \subseteq older \cup Of("t1", m, {rows[m].ts})

\* The runners of these kinds of plans (RequestLastJoin, RequestUnion with an
\* aggregation, GroupBy with GroupAgg, WindowAgg) give what their queries mean.
RunnersMeanQuery ==
    calls = {} => LastJoinIsLatest /\ WindowIsOwnKey /\ GroupsAreValues /\ BatchWindowsAreFrames
=============================================================================
