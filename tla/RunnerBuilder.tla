--------------------------- MODULE RunnerBuilder ---------------------------
(***************************************************************************)
(* RunnerBuilder (src/vm/runner.h, src/vm/runner.cc): a physical plan      *)
(* becomes a graph of runners and, in cluster mode, a ClusterJob: a main   *)
(* task and the tasks that its proxies send to tablets.                    *)
(*                                                                         *)
(* A plan maps node ids to operators, records with the producers of the    *)
(* node, the number of slices of its output and what the operator needs.   *)
(* b is the state of the builder; operators that build return the new      *)
(* state and a task.  A ClusterTask is a record of its root, its input     *)
(* runners and its RouteInfo.  input_ is a shared pointer, compared by     *)
(* address: a sequence of at most one record [ptr, task].                  *)
(***************************************************************************)
EXTENDS Runners

NoRunner == -1

ClusterTask(root) ==
    [root |-> root, input_runners |-> << >>, table |-> "", index |-> "",
     index_key |-> << >>, index_input |-> << >>, input |-> << >>]

InvalidTask == ClusterTask(NoRunner)

IsValid(task) == task.root # NoRunner

IsClusterTask(task) == task.table # "" /\ task.index # ""

IsCompleted(task) == IsClusterTask(task) /\ task.index_key # << >>

IsCompletedClusterTask(task) == IsValid(task) /\ IsCompleted(task)

IsUnCompletedClusterTask(task) == IsClusterTask(task) /\ ~IsCompleted(task)

Built(b, task) == [b |-> b, task |-> task]

Init0(support_cluster_optimized, batch_common_node_set) ==
    [cluster |-> support_cluster_optimized, common |-> batch_common_node_set,
     runners |-> << >>, id |-> 0, tasks |-> << >>, task_map |-> << >>,
     request_task |-> InvalidTask, proxy_runner_map |-> << >>, ptr |-> 0,
     status |-> "kOk", main_task_id |-> -1]

----------------------------------------------------------------------------
(* Runners *)

NewRunner(type, limit_cnt, slices) ==
    [type |-> type, limit_cnt |-> limit_cnt, slices |-> slices, producers |-> << >>,
     need_cache |-> FALSE, need_batch_cache |-> FALSE]

\* CreateRunner: the new runner is the one with id b.id.
CreateRunner(b, runner) ==
    [b EXCEPT !.runners = (b.id :> runner) @@ @, !.id = @ + 1]

AddProducer(b, id, producer) == [b EXCEPT !.runners[id].producers = Append(@, producer)]

EnableCache(b, id) == [b EXCEPT !.runners[id].need_cache = TRUE]

EnableBatchCache(b, id) == [b EXCEPT !.runners[id].need_batch_cache = TRUE]

\* RegisterTask
RegisterTask(n, built) ==
    LET b == [built.b EXCEPT !.task_map = (n :> built.task) @@ @]
    IN Built(IF n \in b.common /\ IsValid(built.task) THEN EnableBatchCache(b, built.task.root) ELSE b,
             built.task)

Fail(b) == Built([b EXCEPT !.status = "kOpGenError"], InvalidTask)

UnaryInheritTask(b, input, id) ==
    Built(AddProducer(b, id, input.root), [input EXCEPT !.root = id])

\* Create the runner of a node with one input, which has been built.
Inherit(n, input, runner) ==
    RegisterTask(n, UnaryInheritTask(CreateRunner(input.b, runner), input.task, input.b.id))

\* ... and of a node without input
CommonTask(n, b, runner) ==
    RegisterTask(n, Built(CreateRunner(b, runner), ClusterTask(b.id)))

----------------------------------------------------------------------------
(* Proxies *)

\* ClusterJob::AddTask
AddTask(b, task) == [b EXCEPT !.tasks = (Cardinality(DOMAIN b.tasks) :> task) @@ @]

\* Where a proxy gets its requests from: the input of the task, or the request
ProxyInput(b, task) == IF task.input # << >> THEN task.input[1].task ELSE b.request_task

ProxyRequestRunner(b, task) ==
    [type |-> "kRunnerRequestRunProxy", task_id |-> Cardinality(DOMAIN b.tasks),
     index_input |-> task.index_input] @@ NewRunner("", 0, b.runners[task.root].slices)

\* The input that keys are computed from is cached, as two runners ask for it.
CacheIndexInput(b, task) ==
    IF task.index_input # << >> THEN EnableCache(b, task.index_input[1]) ELSE b

\* A proxy for a root with batch cache has one as well.
InheritBatchCache(b, task, proxy) ==
    IF b.runners[task.root].need_batch_cache THEN EnableBatchCache(b, proxy) ELSE b

RegisterProxy(b, task, proxy) == [b EXCEPT !.proxy_runner_map = (task.root :> proxy) @@ @]

CreateProxy(b, task) ==
    LET created == AddTask(CreateRunner(b, ProxyRequestRunner(b, task)), task)
    IN RegisterProxy(InheritBatchCache(CacheIndexInput(created, task), task, b.id), task, b.id)

\* BuildProxyRunnerForClusterTask.  A proxy found in the map gets its input a
\* second time.
BuildProxyRunner(b, task) ==
    IF ~IsCompletedClusterTask(task) THEN Built(b, InvalidTask)
    ELSE IF task.root \in DOMAIN b.proxy_runner_map
    THEN UnaryInheritTask(EnableCache(b, b.proxy_runner_map[task.root]), ProxyInput(b, task),
                          b.proxy_runner_map[task.root])
    ELSE UnaryInheritTask(CreateProxy(b, task), ProxyInput(b, task), b.id)

----------------------------------------------------------------------------
(* Binary runners *)

\* RouteInfo::EqualWith
TaskCanBeMerge(left, right) ==
    /\ [i \in DOMAIN left.input |-> left.input[i].ptr] = [i \in DOMAIN right.input |-> right.input[i].ptr]
    /\ left.table = right.table /\ left.index = right.index /\ left.index_key = right.index_key

\* TaskMergeToLeft, TaskMergeToRight: the route is that of kept.
TaskMerge(root, left, right, kept) ==
    [kept EXCEPT !.root = root, !.input_runners = left.input_runners \o right.input_runners]

GetRequestInput(task) ==
    IF IsValid(task) /\ task.input # << >> THEN task.input[1].task.root ELSE NoRunner

AddProducers(b, id, left, right) == AddProducer(AddProducer(b, id, left.root), id, right.root)

Merged(b, id, left, right, kept) ==
    Built(AddProducers(b, id, left, right), TaskMerge(id, left, right, kept))

\* ClusterTask::ResetInputs(nullptr): the input moves into the task.
ResetInputs(b, task) ==
    LET root == task.input[1].task.root
    IN Built([b EXCEPT !.runners =
                 [i \in DOMAIN @ |-> IF /\ \E n \in DOMAIN task.input_runners : task.input_runners[n] = i
                                        /\ @[i].producers # << >>
                                     THEN [@[i] EXCEPT !.producers[1] = root] ELSE @[i]]],
             [task EXCEPT !.index_input = <<root>>, !.input = << >>])

BuildLocalTaskForBinaryRunner(b, left, right, id) ==
    IF IsClusterTask(left) \/ IsClusterTask(right) THEN Built(b, InvalidTask)
    ELSE Built(AddProducers(b, id, left, right), ClusterTask(id))

\* With an index key the right task gets its route: it is sent to the tablet of
\* that key of the left row, which becomes the request there.
CompleteRoute(b, left, right, id, index_key) ==
    LET request   == NewRunner("kRunnerRequest", 0, b.runners[left.root].slices)
        b1        == AddProducer(AddProducer(CreateRunner(b, request), id, b.id), id, right.root)
        completed == [ClusterTask(id) EXCEPT !.input_runners = <<id>>, !.index = right.index,
                          !.table = right.table, !.index_key = index_key,
                          !.input = <<[ptr |-> b.ptr, task |-> left]>>]
        b2        == [b1 EXCEPT !.ptr = @ + 1]
    IN IF ~IsClusterTask(right) \/ IsCompletedClusterTask(right) THEN Built(b, InvalidTask)
       ELSE IF IsCompletedClusterTask(left) THEN BuildProxyRunner(b2, completed)
       ELSE Built(b2, completed)

SendTask(send, b, task) == IF send THEN BuildProxyRunner(b, task) ELSE Built(b, task)

\* The state of the builder with the two inputs of a binary runner
Pair(b, left, right) == [b |-> b, left |-> left, right |-> right]

SendRight(left, right, bias) ==
    LET r == SendTask(bias \in {"kNoBias", "kLeftBias"}, left.b, right)
    IN Pair(r.b, left.task, r.task)

\* Two completed tasks that cannot be merged: one of them, or both, is sent.
SplitTasks(pair, bias) ==
    SendRight(SendTask(bias \in {"kNoBias", "kRightBias"}, pair.b, pair.left), pair.right, bias)

\* A local left task and a completed right task
JoinLocalLeft(b, left, right, id, bias) ==
    LET proxy == BuildProxyRunner(b, right)
        reset == ResetInputs(b, right)
    IN IF bias # "kRightBias" THEN Merged(proxy.b, id, left, proxy.task, left)
       ELSE IF GetRequestInput(left) = GetRequestInput(right) THEN Merged(b, id, left, right, right)
       ELSE IF GetRequestInput(left) = NoRunner THEN Merged(reset.b, id, left, reset.task, reset.task)
       ELSE Built(b, InvalidTask)

\* A completed left task and a local right task: with kLeftBias both inputs are
\* computed from the right task, and are equal.
JoinLocalRight(b, left, right, id, bias) ==
    LET proxy == BuildProxyRunner(b, left)
    IN IF bias # "kLeftBias" THEN Merged(proxy.b, id, proxy.task, right, right)
       ELSE Merged(b, id, left, right, left)

RECURSIVE BinaryCluster(_, _, _)

\* The rest of BuildClusterTaskForBinaryRunner
BinaryCluster(pair, id, bias) ==
    LET b     == pair.b
        left  == pair.left
        right == pair.right
    IN CASE IsCompletedClusterTask(left) /\ IsCompletedClusterTask(right) ->
              IF TaskCanBeMerge(left, right) THEN Merged(b, id, left, right, left)
              ELSE BinaryCluster(SplitTasks(pair, bias), id, bias)
         [] IsUnCompletedClusterTask(left) \/ IsUnCompletedClusterTask(right) -> Built(b, InvalidTask)
         [] IsCompletedClusterTask(right) /\ ~IsClusterTask(left) -> JoinLocalLeft(b, left, right, id, bias)
         [] IsCompletedClusterTask(left) /\ ~IsClusterTask(right) -> JoinLocalRight(b, left, right, id, bias)
         [] OTHER -> Merged(b, id, left, right, left)

\* BinaryInherit
BinaryInherit(b, left, right, id, index_key, bias) ==
    IF ~b.cluster THEN BuildLocalTaskForBinaryRunner(b, left, right, id)
    ELSE IF index_key # << >> THEN CompleteRoute(b, left, right, id, index_key)
    ELSE BinaryCluster(Pair(b, left, right), id, bias)

----------------------------------------------------------------------------
(* RunnerBuilder::Build: one operator per kind of node.  in, left and right    *)
(* are what building the producers has returned, right after left.             *)

BuildDataProvider(n, op, b) ==
    LET data == [data |-> <<op.table, op.index>>, type |-> "kRunnerData"] @@ NewRunner("", 0, op.slices)
        request == NewRunner("kRunnerRequest", 0, op.slices)
        uncompleted == [ClusterTask(b.id) EXCEPT !.table = op.table, !.index = op.index]
    IN CASE op.provider_type = "kProviderTypeRequest" ->
              RegisterTask(n, Built([CreateRunner(b, request) EXCEPT !.request_task = ClusterTask(b.id)],
                                    ClusterTask(b.id)))
         [] op.provider_type = "kProviderTypePartition" /\ b.cluster ->
              RegisterTask(n, Built(CreateRunner(b, data), uncompleted))
         [] OTHER -> CommonTask(n, b, data)

BuildSimpleProject(n, op, in) ==
    Inherit(n, in, IF op.select_slice >= 0
                   THEN [type |-> "kRunnerSelectSlice", slice |-> op.select_slice]
                            @@ NewRunner("", op.limit_cnt, op.slices)
                   ELSE [type |-> "kRunnerSimpleProject", fn |-> op.fn]
                            @@ NewRunner("", op.limit_cnt, op.slices))

BuildConstProject(n, op, b) ==
    CommonTask(n, b, [type |-> "kRunnerConstProject", fn |-> op.fn] @@ NewRunner("", op.limit_cnt, op.slices))

\* Projections that have no other inputs; table and group aggregations exist only
\* outside of the cluster.
BuildProject(n, op, in) ==
    LET Type == CASE op.project_type = "kTableProject" -> "kRunnerTableProject"
                  [] op.project_type = "kAggregation" -> "kRunnerAgg"
                  [] op.project_type = "kGroupAggregation" -> "kRunnerGroupAgg"
                  [] op.project_type = "kRowProject" -> "kRunnerRowProject"
    IN IF in.b.cluster /\ op.project_type \in {"kTableProject", "kGroupAggregation"} THEN Fail(in.b)
       ELSE Inherit(n, in, [type |-> Type, fn |-> op.fn] @@ NewRunner("", op.limit_cnt, op.slices))

BuildGroupBy(n, op, in) ==
    Inherit(n, in, [type |-> "kRunnerGroup", key |-> op.key] @@ NewRunner("", op.limit_cnt, op.slices))

BuildFilter(n, op, in) ==
    Inherit(n, in, [type |-> "kRunnerFilter", filter |-> op.filter] @@ NewRunner("", op.limit_cnt, op.slices))

BuildLimit(n, op, in) ==
    IF op.limit_cnt = 0 \/ op.limit_optimized THEN RegisterTask(n, in)
    ELSE Inherit(n, in, NewRunner("kRunnerLimit", op.limit_cnt, op.slices))

\* The runner of a last join; slices are those of the runners of its inputs.
JoinRunner(type, op, b, left, right) ==
    [type |-> type, output_right_only |-> op.output_right_only,
     join |-> [left_slices |-> b.runners[left.root].slices,
               right_slices |-> b.runners[right.root].slices] @@ op.join]
        @@ NewRunner("", op.limit_cnt, op.slices)

ConcatRunner(op, b, left, right) ==
    [type |-> "kRunnerConcat", left_slices |-> b.runners[left.root].slices,
     right_slices |-> b.runners[right.root].slices] @@ NewRunner("", op.limit_cnt, op.slices)

Binary(n, b, left, right, runner, index_key, bias) ==
    RegisterTask(n, BinaryInherit(CreateRunner(b, runner), left, right, b.id, index_key, bias))

BuildRequestJoin(n, op, b, left, right) ==
    IF op.join_type = "kJoinTypeLast"
    THEN Binary(n, b, left, right, JoinRunner("kRunnerRequestLastJoin", op, b, left, right),
                op.join.index_key, "kLeftBias")
    ELSE Binary(n, b, left, right, ConcatRunner(op, b, left, right), << >>, "kNoBias")

\* In the cluster a last join of tables is one of requests.
BuildJoin(n, op, b, left, right) ==
    CASE op.join_type = "kJoinTypeConcat" ->
            Binary(n, b, left, right, ConcatRunner(op, b, left, right), op.join.index_key, "kNoBias")
      [] b.cluster ->
            Binary(n, b, left, right, JoinRunner("kRunnerRequestLastJoin", op, b, left, right),
                   op.join.index_key, "kLeftBias")
      [] OTHER ->
            Binary(n, b, left, right, JoinRunner("kRunnerLastJoin", op, b, left, right), << >>, "kLeftBias")

BuildPostRequestUnion(n, op, b, left, right) ==
    Binary(n, b, left, right, [type |-> "kRunnerPostRequestUnion", ts |-> op.ts]
                                  @@ NewRunner("", 0, op.slices), << >>, "kRightBias")

RECURSIVE Build(_, _, _)

AppendTask(tasks, built) == [b |-> built.b, tasks |-> Append(tasks, built.task)]

\* The tasks of several nodes, built one after the other
BuildAll(plan, b, nodes) ==
    FoldLeft(LAMBDA all, n : AppendTask(all.tasks, Build(plan, all.b, n)), [b |-> b, tasks |-> << >>], nodes)

Roots(tasks) == [i \in DOMAIN tasks |-> tasks[i].root]

AllValid(tasks) == \A i \in DOMAIN tasks : IsValid(tasks[i])

\* The runner is created before its union tables are built, and has an id
\* smaller than theirs.
BuildRequestUnion(plan, n, op, b, left, right) ==
    LET own     == IF op.instance_not_in_window THEN << >> ELSE <<op.window>>
        built   == BuildAll(plan, CreateRunner(b, NewRunner("", 0, 0)), op.unions)
        inputs  == (IF op.instance_not_in_window THEN << >> ELSE <<right.root>>) \o Roots(built.tasks)
        windows == own \o op.union_windows
        runner  == [type |-> "kRunnerRequestUnion", ts |-> op.ts, range |-> op.range,
                    exclude_current_time |-> op.exclude_current_time,
                    output_request_row |-> op.output_request_row, windows |-> windows,
                    inputs |-> inputs] @@ NewRunner("", op.limit_cnt, op.slices)
        b1      == [built.b EXCEPT !.runners[b.id] = runner]
        \* the first window with an index key routes the task
        keyed   == {i \in DOMAIN windows : windows[i].index_key # << >>}
        first   == CHOOSE i \in keyed : \A j \in keyed : i <= j
        route   == IF keyed = {} \/ (first = 1 /\ own # << >>) THEN right
                   ELSE [built.tasks[first - Len(own)] EXCEPT !.root = right.root]
    IN IF ~AllValid(built.tasks) THEN RegisterTask(n, Built(b1, InvalidTask))
       ELSE IF b.cluster /\ keyed # {} /\ first < Len(windows) THEN Built(b1, InvalidTask)
       ELSE RegisterTask(n, BinaryInherit(b1, left, route, b.id,
                                          IF keyed = {} THEN << >> ELSE windows[first].index_key,
                                          "kRightBias"))

\* Every join gets the number of slices of the input of the window.
WindowAggTask(n, op, in, unions, rights) ==
    LET id     == in.b.id
        runner == [type |-> "kRunnerWindowAgg", fn |-> op.fn, window |-> op.window, range |-> op.range,
                   exclude_current_time |-> op.exclude_current_time,
                   union_windows |-> op.union_windows, inputs |-> Roots(unions.tasks),
                   joins |-> [i \in DOMAIN op.joins |->
                                [left_slices |-> in.b.runners[in.task.root].slices,
                                 right_slices |-> rights.b.runners[rights.tasks[i].root].slices] @@ op.joins[i]],
                   join_inputs |-> Roots(rights.tasks)] @@ NewRunner("", op.limit_cnt, op.slices)
    IN IF ~AllValid(unions.tasks) \/ ~AllValid(rights.tasks)
       THEN RegisterTask(n, Built(rights.b, InvalidTask))
       ELSE RegisterTask(n, UnaryInheritTask([rights.b EXCEPT !.runners[id] = runner], in.task, id))

BuildWindowAgg(plan, n, op, in) ==
    LET unions == BuildAll(plan, CreateRunner(in.b, NewRunner("", 0, 0)), op.unions)
    IN IF in.b.cluster THEN Fail(in.b)
       ELSE WindowAggTask(n, op, in, unions, BuildAll(plan, unions.b, op.rights))

\* The runner of a node whose producers have been built
BuildNode(plan, n, op, built) ==
    LET b     == built.b
        in    == Built(built.b, built.tasks[1])
        left  == built.tasks[1]
        right == built.tasks[2]
    IN CASE ~AllValid(built.tasks) -> Fail(b)
         [] op.op = "kPhysicalOpDataProvider" -> BuildDataProvider(n, op, b)
         [] op.op = "kPhysicalOpSimpleProject" -> BuildSimpleProject(n, op, in)
         [] op.op = "kPhysicalOpConstProject" -> BuildConstProject(n, op, b)
         [] op.op = "kPhysicalOpProject" ->
               IF op.project_type = "kWindowAggregation" THEN BuildWindowAgg(plan, n, op, in)
               ELSE BuildProject(n, op, in)
         [] op.op = "kPhysicalOpRequestUnion" -> BuildRequestUnion(plan, n, op, b, left, right)
         [] op.op = "kPhysicalOpRequestJoin" -> BuildRequestJoin(n, op, b, left, right)
         [] op.op = "kPhysicalOpJoin" -> BuildJoin(n, op, b, left, right)
         [] op.op = "kPhysicalOpGroupBy" -> BuildGroupBy(n, op, in)
         [] op.op = "kPhysicalOpFilter" -> BuildFilter(n, op, in)
         [] op.op = "kPhysicalOpLimit" -> BuildLimit(n, op, in)
         [] op.op = "kPhysicalOpRename" -> in
         [] op.op = "kPhysicalOpPostRequestUnion" -> BuildPostRequestUnion(n, op, b, left, right)

\* A node that was built before is shared, and its runner cached.
Build(plan, b, n) ==
    CASE n \in DOMAIN b.task_map -> Built(EnableCache(b, b.task_map[n].root), b.task_map[n])
      [] n \notin DOMAIN b.task_map /\ plan[n].op = "kPhysicalOpGroupBy" /\ b.cluster -> Fail(b)
      [] OTHER -> BuildNode(plan, n, plan[n], BuildAll(plan, b, plan[n].producers))

AddMainTask(built) ==
    [AddTask(built.b, built.task) EXCEPT !.main_task_id = Cardinality(DOMAIN built.b.tasks)]

\* The job of a plan whose root has been built
ClusterJob(built) ==
    CASE built.b.status # "kOk" -> built.b
      [] IsCompletedClusterTask(built.task) -> AddMainTask(BuildProxyRunner(built.b, built.task))
      [] IsUnCompletedClusterTask(built.task) -> [built.b EXCEPT !.status = "kOpGenError"]
      [] ~IsValid(built.task) -> built.b
      [] OTHER -> AddMainTask(built)

\* BuildClusterJob
BuildClusterJob(plan, n, support_cluster_optimized, batch_common_node_set) ==
    ClusterJob(Build(plan, Init0(support_cluster_optimized, batch_common_node_set), n))

----------------------------------------------------------------------------
(***************************************************************************)
(* The pass ClusterOptimized (src/passes/physical/cluster_optimized.cc)    *)
(* and the walk it shares with other passes (transform_up_physical_pass    *)
(* .cc): a last join becomes the concatenation of its left side and of a   *)
(* join that needs only the columns of the left side which the join reads, *)
(* so that only these travel to the tablet of the right side.              *)
(***************************************************************************)

NewNode(plan) == Cardinality(DOMAIN plan) + 1

AddNode(plan, op) == (NewNode(plan) :> op) @@ plan

\* PhysicalOpNode::GetOutputType: whether the output is a row
RECURSIVE IsRowOutput(_, _)
IsRowOutput(plan, n) ==
    LET op == plan[n] IN
    CASE op.op = "kPhysicalOpDataProvider" -> op.provider_type = "kProviderTypeRequest"
      [] op.op \in {"kPhysicalOpRequestJoin"} -> TRUE
      [] op.op = "kPhysicalOpProject" -> op.project_type \in {"kRowProject", "kAggregation"}
      [] op.op \in {"kPhysicalOpRequestUnion", "kPhysicalOpPostRequestUnion", "kPhysicalOpConstProject"} -> FALSE
      [] OTHER -> IsRowOutput(plan, op.producers[1])

\* Columns <<slice, column>> of a key and of a condition on the joined row
KeyColumns(key) == {<<key[i].slice, key[i].col>> : i \in DOMAIN key}

CondColumns(cond) ==
    UNION {{<<cond[i].a, "ts">>} \cup (IF cond[i].b < 0 THEN {} ELSE {<<cond[i].b, "ts">>}) : i \in DOMAIN cond}

\* Join::ResolvedRelatedColumns, those that belong to the left side
LeftColumns(plan, left, join) ==
    {c \in KeyColumns(join.index_key) \cup KeyColumns(join.left_key) \cup CondColumns(join.cond) :
        c[1] < plan[left].slices}

\* Where the columns of slice s of node n come from: the producer and the slice
\* there.  A last join gives the columns of its right side new ids, a concat does
\* not.
Origin(plan, n, s) ==
    LET op == plan[n]
        left_slices == plan[op.producers[1]].slices
    IN CASE op.op \in {"kPhysicalOpRequestJoin", "kPhysicalOpJoin"} /\ ~op.output_right_only ->
              IF s < left_slices THEN <<op.producers[1], s>>
              ELSE IF op.join_type = "kJoinTypeConcat" THEN <<op.producers[2], s - left_slices>>
              ELSE <<0, 0>>
         [] OTHER -> <<0, 0>>

\* The deepest node that has all these columns, and their slices there
RECURSIVE Deepest(_, _, _)
Deepest(plan, n, slices) ==
    LET from == {Origin(plan, n, s)[1] : s \in DOMAIN slices}
        next == CHOOSE p \in from : TRUE
    IN IF Cardinality(from) # 1 \/ next = 0 THEN [node |-> n, slices |-> slices]
       ELSE Deepest(plan, next, [s \in {Origin(plan, n, t)[2] : t \in DOMAIN slices} |->
                                    slices[CHOOSE t \in DOMAIN slices : Origin(plan, n, t)[2] = s]])

SliceOf(columns, col) == IF \E c \in columns : c[2] = col THEN (CHOOSE c \in columns : c[2] = col)[1] ELSE 0

\* SimplifyJoinLeftInput: a projection to the columns the join reads, applied as
\* deep as possible.
SimplifiedLeft(plan, left, columns, tag) ==
    LET deepest == Deepest(plan, left, [s \in {c[1] : c \in columns} |-> s])
        At(s)   == IF \E t \in DOMAIN deepest.slices : deepest.slices[t] = s
                   THEN CHOOSE t \in DOMAIN deepest.slices : deepest.slices[t] = s ELSE 0
    IN [op |-> "kPhysicalOpSimpleProject", producers |-> <<deepest.node>>, select_slice |-> -1,
        fn |-> [tag |-> tag, k |-> At(SliceOf(columns, "k")), ts |-> At(SliceOf(columns, "ts"))],
        slices |-> 1, limit_cnt |-> 0]

\* ReplaceComponentExpr: the same join on a left side of one slice
Rebased(join, left_slices) ==
    LET Slice(s) == IF s < left_slices THEN 0 ELSE s - left_slices + 1
        Key(key) == [i \in DOMAIN key |-> [key[i] EXCEPT !.slice = 0]]
    IN [join EXCEPT !.index_key = Key(@), !.left_key = Key(@),
                    !.cond = [i \in DOMAIN @ |-> [@[i] EXCEPT !.a = Slice(@), !.b = IF @ < 0 THEN @ ELSE Slice(@)]]]

\* A column of one slice is not worth a projection when it is all there is
\* (simplified_projects.size() >= left->GetOutputSchemaSize()).
CanSimplify(plan, left, columns) == Cardinality(columns) < 2 * plan[left].slices

\* mutant: the condition is not rebased
TransformKeepsCondition(plan, n) ==
    LET op    == plan[n]
        left  == op.producers[1]
        columns == LeftColumns(plan, left, op.join)
        plan1 == AddNode(plan, SimplifiedLeft(plan, left, columns, n))
        plan2 == AddNode(plan1, [op EXCEPT !.producers[1] = NewNode(plan), !.output_right_only = TRUE,
                                 !.slices = plan[op.producers[2]].slices,
                                 !.join = [Rebased(op.join, plan[left].slices) EXCEPT !.cond = op.join.cond]])
    IN [plan |-> AddNode(plan2, [op EXCEPT !.producers[2] = NewNode(plan1), !.join_type = "kJoinTypeConcat",
                                 !.join.index_key = << >>]),
        node |-> NewNode(plan2)]

\* ClusterOptimized::Transform of a last join
TransformJoin(plan, n) ==
    LET op    == plan[n]
        left  == op.producers[1]
        columns == LeftColumns(plan, left, op.join)
        simple  == CanSimplify(plan, left, columns)
        plan1 == IF simple THEN AddNode(plan, SimplifiedLeft(plan, left, columns, n)) ELSE plan
        plan2 == AddNode(plan1, [op EXCEPT !.producers[1] = IF simple THEN NewNode(plan) ELSE left,
                                 !.output_right_only = TRUE, !.slices = plan[op.producers[2]].slices,
                                 !.join = IF simple THEN Rebased(op.join, plan[left].slices) ELSE @])
    IN [plan |-> AddNode(plan2, [op EXCEPT !.producers[2] = NewNode(plan1), !.join_type = "kJoinTypeConcat",
                                 !.join.index_key = << >>]),
        node |-> NewNode(plan2)]

Transform(plan, n) ==
    IF /\ plan[n].op \in {"kPhysicalOpRequestJoin", "kPhysicalOpJoin"}
       /\ plan[n].join_type = "kJoinTypeLast"
       /\ plan[n].op = "kPhysicalOpRequestJoin" => ~IsRowOutput(plan, plan[n].producers[2])
    THEN TransformJoin(plan, n)
    ELSE [plan |-> plan, node |-> n]

\* TransformUpPysicalPass::Apply: producers first, from left to right
RECURSIVE ApplyFrom(_, _, _)
ApplyFrom(plan, n, j) ==
    IF j > Len(plan[n].producers) THEN Transform(plan, n)
    ELSE LET child == ApplyFrom(plan, plan[n].producers[j], 1)
         IN ApplyFrom([child.plan EXCEPT ![n].producers[j] = child.node], n, j + 1)

ApplyClusterOptimized(plan, n) == ApplyFrom(plan, n, 1)
=============================================================================
