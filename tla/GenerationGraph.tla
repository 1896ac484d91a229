--------------------------- MODULE GenerationGraph ---------------------------
(***************************************************************************)
(* The order of generation tasks: the DependencyGraph and the resolver of  *)
(* generator/dependency.py and the GenerationPlan of generator/planner.py. *)
(* The graph is a mutable object whose methods are operators from a graph  *)
(* to a graph; one that raises returns what it has changed until then.     *)
(*                                                                         *)
(* A task is a record of id, type, deps (a sequence of ids), priority; the *)
(* tasks of a graph are a sequence, in the order of the dictionary, and    *)
(* keys is the order of the dictionary in_degree.                          *)
(***************************************************************************)
EXTENDS Integers, Sequences, FiniteSets, SequencesExt, FiniteSetsExt, Functions

Unsorted == <<"none">>       \* topological_order is None

EmptyGraph ==
  [tasks |-> << >>, adj |-> << >>, rev |-> << >>, in_degree |-> << >>, keys |-> << >>,
   order |-> Unsorted, cyclic |-> FALSE, error |-> "none"]

\* Reading and writing a dictionary with a default.
Get(f, k, otherwise) == IF k \in DOMAIN f THEN f[k] ELSE otherwise
Put(f, k, v) == (k :> v) @@ f
Without(f, k) == Restrict(f, DOMAIN f \ {k})

Raised(g, what) == [g EXCEPT !.error = what]

Ids(tasks) == {t.id : t \in Range(tasks)}

\* A dictionary keeps the place of a key that is written again.
Stored(tasks, task) ==
  IF task.id \in Ids(tasks)
  THEN [i \in DOMAIN tasks |-> IF tasks[i].id = task.id THEN task ELSE tasks[i]]
  ELSE Append(tasks, task)

\* The edges of a task that is added again are added again; a sorted order is kept.
AddTask(g, task) ==
  LET Depend(h, d) ==
        [h EXCEPT !.adj = Put(@, d, Append(Get(@, d, << >>), task.id)),
                  !.rev = Put(@, task.id, Append(Get(@, task.id, << >>), d)),
                  !.in_degree[task.id] = @ + 1]
      placed == [g EXCEPT !.tasks = Stored(@, task), !.in_degree = Put(@, task.id, 0),
                          !.keys = IF task.id \in Range(@) THEN @ ELSE Append(@, task.id)]
  IN FoldLeft(Depend, placed, task.deps)

\* One edge of each dependent and of each dependency is taken out per entry; then
\* the entries themselves, the first that is missing being a KeyError, and only
\* at the end is the sorted order forgotten.
RemoveTask(g, id) ==
  LET Release(h, t) ==
        IF id \in Range(Get(h.rev, t, << >>))
        THEN [h EXCEPT !.rev[t] = RemoveFirst(@, id),
                         !.in_degree = Put(@, t, Get(@, t, 0) - 1)] ELSE h
      Forget(h, d) ==
        IF id \in Range(Get(h.adj, d, << >>)) THEN [h EXCEPT !.adj[d] = RemoveFirst(@, id)] ELSE h
      released == FoldLeft(Release, g, Get(g.adj, id, << >>))
      cut == FoldLeft(Forget, released, Get(released.rev, id, << >>))
      gone == [cut EXCEPT !.tasks = SelectSeq(@, LAMBDA t : t.id /= id)]
  IN IF id \notin Ids(g.tasks) THEN g
     ELSE IF id \notin DOMAIN gone.adj THEN Raised(gone, "KeyError")
     ELSE IF id \notin DOMAIN gone.rev THEN Raised([gone EXCEPT !.adj = Without(@, id)], "KeyError")
     ELSE [gone EXCEPT !.adj = Without(@, id), !.rev = Without(@, id),
                       !.in_degree = Without(@, id), !.keys = Remove(@, id), !.order = Unsorted]

\* Whether a depth-first search along the dependents meets its own path.
RECURSIVE Meets(_, _, _, _)
Meets(g, todo, path, state) ==
  IF todo = << >> \/ state.cyclic THEN state
  ELSE LET id == Head(todo)
           inside == Meets(g, Get(g.adj, id, << >>), path \union {id},
                           [state EXCEPT !.visited = @ \union {id}])
       IN Meets(g, Tail(todo), path,
            IF id \in path THEN [state EXCEPT !.cyclic = TRUE]
            ELSE IF id \in state.visited THEN state ELSE inside)

IdsOf(tasks) == [i \in DOMAIN tasks |-> tasks[i].id]

\* With a sorted order, the answer of the last search is given again.
HasCycle(g) ==
  IF g.order /= Unsorted THEN g
  ELSE [g EXCEPT !.cyclic = Meets(g, IdsOf(g.tasks), {}, [visited |-> {}, cyclic |-> FALSE]).cyclic]

\* Kahn's algorithm, on the edges adj and the degrees left, from a queue.
RECURSIVE Kahn(_, _, _, _)
Kahn(adj, degree, queue, done) ==
  IF queue = << >> THEN done
  ELSE LET Lower(s, t) ==
             LET left == Get(s.degree, t, 0) - 1
             IN [degree |-> Put(s.degree, t, left),
                 queue |-> IF left = 0 THEN Append(s.queue, t) ELSE s.queue]
           next == FoldLeft(Lower, [degree |-> degree, queue |-> Tail(queue)],
                            Get(adj, Head(queue), << >>))
       IN Kahn(adj, next.degree, next.queue, Append(done, Head(queue)))

Free(g) == SelectSeq(g.keys, LAMBDA id : g.in_degree[id] = 0)

\* The order is in .order; a cycle, and a dependency that is not a task, is a
\* ValueError.
TopologicalSort(g) ==
  LET looked == HasCycle(g)
      order == Kahn(g.adj, g.in_degree, Free(g), << >>)
  IN IF g.order /= Unsorted THEN g
     ELSE IF looked.cyclic \/ Len(order) /= Len(g.tasks) THEN Raised(looked, "ValueError")
     ELSE [looked EXCEPT !.order = order]

\* The layers of what Kahn's algorithm reaches.
RECURSIVE Layers(_, _, _)
Layers(g, degree, queue) ==
  IF queue = << >> THEN << >>
  ELSE LET Lower(s, t) ==
             LET left == Get(s.degree, t, 0) - 1
             IN [degree |-> Put(s.degree, t, left),
                 queue |-> IF left = 0 THEN Append(s.queue, t) ELSE s.queue]
           next == FoldLeft(LAMBDA s, id : FoldLeft(Lower, s, Get(g.adj, id, << >>)),
                            [degree |-> degree, queue |-> << >>], queue)
       IN <<Range(queue)>> \o Layers(g, next.degree, next.queue)

LevelizedTasks(g) == Layers(g, g.in_degree, Free(g))

\* The longest path along the dependents, the first of its length, from a task
\* that is in some layer; it may lead on through tasks that are not.
RECURSIVE Longest(_, _, _)
Longest(g, path, best) ==
  LET longer == IF Len(path) > Len(best) THEN path ELSE best
      onward == SelectSeq(Get(g.adj, Last(path), << >>), LAMBDA t : t \notin Range(path))
  IN FoldLeft(LAMBDA b, t : Longest(g, Append(path, t), b), longer, onward)

CriticalPath(g) ==
  LET starts == SelectSeq(IdsOf(g.tasks), LAMBDA id : id \in UNION Range(LevelizedTasks(g)))
  IN FoldLeft(LAMBDA b, id : Longest(g, <<id>>, b), << >>, starts)

-----------------------------------------------------------------------------
(* DependencyResolver: a graph per task id, in the order of a dictionary,   *)
(* here a sequence of graphs; a task is found by the id made of its type    *)
(* and name.                                                                *)

Priority(type, deps, override) ==
  LET base == CASE type = "executive" -> 10 [] type = "specialist" -> 8
                [] type = "department" -> 5 [] OTHER -> 0
      few == IF deps = << >> THEN 0 ELSE Max({0, 3 - Len(deps)})
  IN IF override /= {} THEN CHOOSE p \in override : TRUE ELSE base + few

AllTaskIds(graphs) == FlattenSeq([i \in DOMAIN graphs |-> IdsOf(graphs[i].tasks)])

\* The graphs that hold a task: the resolver works on the first one.
Holding(graphs, id) == {i \in DOMAIN graphs : id \in Ids(graphs[i].tasks)}

TaskOf(graphs, id) ==
  LET g == graphs[Min(Holding(graphs, id))]
  IN CHOOSE t \in Range(g.tasks) : t.id = id

ToInclude(graphs, wanted, type) ==
  IF wanted /= << >> THEN SelectSeq(wanted, LAMBDA id : id \in Range(AllTaskIds(graphs)))
  ELSE IF type = "any" THEN AllTaskIds(graphs)
  ELSE SelectSeq(AllTaskIds(graphs), LAMBDA id : TaskOf(graphs, id).type = type)

CombinedGraph(graphs, ids) ==
  FoldLeft(LAMBDA g, id : AddTask(g, TaskOf(graphs, id)), EmptyGraph, ids)

\* Without strict mode an order that cannot be found is the order of the ids.
ResolveOrder(graphs, wanted, type, strict) ==
  LET ids == ToInclude(graphs, wanted, type)
      sorted == TopologicalSort(CombinedGraph(graphs, ids))
  IN IF sorted.error = "none" THEN [error |-> "none", order |-> sorted.order]
     ELSE IF strict THEN [error |-> sorted.error] ELSE [error |-> "none", order |-> ids]

UpdateTaskDependencies(graphs, id, deps) ==
  LET i == Min(Holding(graphs, id))
      removed == RemoveTask(graphs[i], id)
  IN IF Holding(graphs, id) = {} THEN [error |-> "ValueError", graphs |-> graphs]
     ELSE [error |-> removed.error,
           graphs |-> [graphs EXCEPT ![i] =
                         IF removed.error /= "none" THEN [removed EXCEPT !.error = "none"]
                         ELSE AddTask(removed, [TaskOf(graphs, id) EXCEPT !.deps = deps])]]

-----------------------------------------------------------------------------
(* GenerationPlan: the tasks are a sequence too.  Dependencies that are not *)
(* tasks are passed over.                                                   *)

Known(tasks, t) == SelectSeq(t.deps, LAMBDA d : d \in Ids(tasks))

ExecutionOrder(tasks) ==
  LET known == [i \in DOMAIN tasks |-> [tasks[i] EXCEPT !.deps = Known(tasks, tasks[i])]]
      g == FoldLeft(AddTask, EmptyGraph, known)
      order == Kahn(g.adj, g.in_degree, Free(g), << >>)
  IN IF Len(order) = Len(tasks) THEN [error |-> "none", order |-> order]
     ELSE [error |-> "ValueError"]

\* Each task is put at the depth at which the search first meets it, after what
\* it depends on; the deepest level is executed first.
RECURSIVE Levelled(_, _, _, _)
Levelled(tasks, todo, depth, levels) ==
  IF todo = << >> THEN levels
  ELSE LET id == Head(todo)
           task == CHOOSE t \in Range(tasks) : t.id = id
           marked == [levels EXCEPT !.visited = @ \union {id}]
           below == Levelled(tasks, Known(tasks, task), depth + 1, marked)
           put == [below EXCEPT !.at = Append(@, <<depth, id>>)]
       IN Levelled(tasks, Tail(todo), depth, IF id \in levels.visited THEN levels ELSE put)

OrderByPriority(tasks) ==
  LET found == Levelled(tasks, IdsOf(tasks), 0, [visited |-> {}, at |-> << >>]).at
      At(depth) == SelectSeq(found, LAMBDA e : e[1] = depth)
      deepest == Max({e[1] : e \in Range(found)} \union {0})
      flat == FlattenSeq([k \in 1..(deepest + 1) |-> At(deepest + 1 - k)])
  IN [i \in DOMAIN flat |-> flat[i][2]]

\* validate: the missing dependencies, and an order of another length.
PlanErrors(tasks, order) ==
  [missing |-> UNION {{<<t.id, d>> : d \in Range(t.deps) \ Ids(tasks)} : t \in Range(tasks)},
   order |-> order /= << >> /\ Len(order) /= Len(tasks)]

\* create_plan: a task for each executive, specialist and department of the
\* registry; tasks of the same type and name are one.
CreatePlan(registry) ==
  LET Tasks(type, names, priority) ==
        [i \in DOMAIN names |-> [id |-> <<type, names[i]>>, type |-> type,
                                 deps |-> << >>, priority |-> priority]]
      all == Tasks("executive", registry.executives, 10)
               \o Tasks("specialist", registry.specialists, 8)
               \o Tasks("department", registry.departments, 5)
      tasks == FoldLeft(Stored, << >>, all)
  IN [tasks |-> tasks, order |-> ExecutionOrder(tasks).order]
=============================================================================
