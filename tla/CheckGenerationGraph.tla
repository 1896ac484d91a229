------------------------ MODULE CheckGenerationGraph -------------------------
(***************************************************************************)
(* Every dependency graph of three generation tasks, the methods called on *)
(* it one after the other, against what the methods promise.  The          *)
(* assumptions are evaluated by the runs whose module extends this one.    *)
(***************************************************************************)
EXTENDS GenerationGraph

GTask(id, deps) == [id |-> id, type |-> "department", deps |-> deps, priority |-> 0]

\* The tasks 1 to 3, added in this order; 4 is no task.
TaskLists ==
  {[i \in 1..3 |-> GTask(i, SetToSeq(needs[i]))] : needs \in [1..3 -> SUBSET (1..3)]}
    \union {[i \in 1..3 |-> GTask(i, SetToSeq(needs[i]))] : needs \in [1..3 -> SUBSET {1, 4}]}

Built(tasks) == FoldLeft(AddTask, EmptyGraph, tasks)

RECURSIVE Behind(_, _)
Behind(tasks, S) ==
  LET more == S \union UNION {Range(tasks[i].deps) \intersect (1..3) : i \in S}
  IN IF more = S THEN S ELSE Behind(tasks, more)

Looping(tasks) == \E i \in 1..3 : i \in Behind(tasks, Range(tasks[i].deps) \intersect (1..3))

AllThere(tasks) == \A i \in 1..3 : 4 \notin Range(tasks[i].deps)

Respects(order, tasks) ==
  /\ Range(order) = 1..3 /\ Len(order) = 3
  /\ \A k, m \in 1..3 : order[m] \in Range(tasks[order[k]].deps) => m < k

\* topological_sort succeeds exactly when there is no cycle and every dependency
\* is a task, and then it puts dependencies first.
ASSUME SortRespectsDependencies ==
  \A tasks \in TaskLists :
    LET sorted == TopologicalSort(Built(tasks))
    IN /\ (sorted.error = "none") <=> (~Looping(tasks) /\ AllThere(tasks))
       /\ sorted.error = "none" => Respects(sorted.order, tasks)
       /\ HasCycle(Built(tasks)).cyclic <=> Looping(tasks)

\* The layers hold every task that no cycle and no missing dependency keeps
\* back, each after its dependencies, and the critical path is as long as there
\* are layers.
ASSUME LayersAreDepths ==
  \A tasks \in TaskLists :
    LET layers == LevelizedTasks(Built(tasks))
        stuck == {i \in 1..3 : \E j \in Behind(tasks, {i}) :
                     \/ j \in Behind(tasks, Range(tasks[j].deps) \intersect (1..3))
                     \/ 4 \in Range(tasks[j].deps)}
    IN /\ UNION Range(layers) = (1..3) \ stuck
       /\ \A k \in DOMAIN layers : \A i \in layers[k] :
            Range(tasks[i].deps) \subseteq UNION {layers[m] : m \in 1..(k - 1)}
       /\ stuck = {} => Len(CriticalPath(Built(tasks))) = Len(layers)

\* The two adjacency lists mirror each other and the degrees count them, for
\* every task that is still there, also after a removal.
ASSUME EdgesAreMirrored ==
  \A tasks \in TaskLists : \A x \in 0..3 :
    LET g == RemoveTask(Built(tasks), x)
        Count(s, e) == Len(SelectSeq(s, LAMBDA y : y = e))
    IN \A i \in Ids(g.tasks) :
         /\ g.in_degree[i] = Len(Get(g.rev, i, << >>))
         /\ \A d \in 1..4 : d /= x =>
              Count(Get(g.adj, d, << >>), i) = Count(Get(g.rev, i, << >>), d)

\* remove_task ends normally exactly for a task that has dependencies and on
\* which some task was once made to depend: for any other it raises a KeyError
\* after the task is gone, and a sorted order stays that still lists it.
ASSUME RemovalOfLeavesRaises ==
  \A tasks \in TaskLists : \A x \in 1..3 :
    LET sorted == TopologicalSort(Built(tasks))
        start == IF sorted.error = "none" THEN sorted ELSE Built(tasks)
        removed == RemoveTask(start, x)
        wanted == \E i \in 1..3 : x \in Range(tasks[i].deps)
    IN /\ (removed.error = "none") <=> (wanted /\ tasks[x].deps /= << >>)
       /\ x \notin Ids(removed.tasks)
       /\ removed.error /= "none" => removed.order = start.order

\* A task added to a sorted graph is not in the order the graph goes on giving.
ASSUME AddedAfterSortIsMissed ==
  \A tasks \in {t \in TaskLists : TopologicalSort(Built(t)).error = "none"} :
    LET g == AddTask(TopologicalSort(Built(tasks)), GTask(5, <<1>>))
    IN 5 \in Ids(g.tasks) /\ 5 \notin Range(TopologicalSort(g).order)

\* The resolver over one graph per task: its order is the combined graph's; the
\* dependencies of a task can only be replaced if it depends on itself.
ASSUME ResolverCombines ==
  \A tasks \in TaskLists :
    LET graphs == [i \in 1..3 |-> Built(<<tasks[i]>>)]
        strict == ResolveOrder(graphs, << >>, "any", TRUE)
    IN /\ strict.error = TopologicalSort(Built(tasks)).error
       /\ strict.error = "none" => Respects(strict.order, tasks)
       /\ Range(ResolveOrder(graphs, << >>, "department", FALSE).order) = 1..3
       /\ \A i \in 1..3 :
            (UpdateTaskDependencies(graphs, i, << >>).error = "none") <=> i \in Range(tasks[i].deps)

\* The plan's own order succeeds exactly without a cycle.  The order by levels is
\* one of all tasks, cycle or not; it puts dependencies first if every task was
\* added before those it depends on, and may not if one was added after.
ASSUME PlanOrders ==
  \A tasks \in TaskLists :
    LET order == ExecutionOrder(tasks)
        levels == OrderByPriority(tasks)
        Downward == \A i \in 1..3 : \A d \in Range(tasks[i].deps) : d > i
    IN /\ (order.error = "none") <=> ~Looping(tasks)
       /\ Range(levels) = 1..3 /\ Len(levels) = 3
       /\ (PlanErrors(tasks, levels).missing = {}) <=> AllThere(tasks)
       /\ \A k, m \in 1..3 :
            /\ ~Looping(tasks) /\ order.order[m] \in Range(tasks[order.order[k]].deps) => m < k
            /\ Downward /\ levels[m] \in Range(tasks[levels[k]].deps) => m < k

\* The order by levels can put a task before one it depends on.
ASSUME LevelsMayBreakTheOrder ==
  OrderByPriority(<<GTask(1, << >>), GTask(2, <<3>>), GTask(3, <<1>>)>>) = <<3, 1, 2>>

\* A plan lists the executives, then the specialists, then the departments, each
\* name of a kind once.
ASSUME PlanListsEachOnce ==
  LET plan == CreatePlan([executives |-> <<"a", "b", "a">>, specialists |-> <<"a">>,
                          departments |-> <<"c">>])
  IN plan.order = << <<"executive", "a">>, <<"executive", "b">>, <<"specialist", "a">>,
                     <<"department", "c">> >>
=============================================================================
