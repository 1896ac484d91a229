--------------------------- MODULE PipelinePlanner ---------------------------
(***************************************************************************)
(* How a plan comes about: the PipelinePlanner's checks of a declarative   *)
(* pipeline (orchestration/planner.py), the DependencyGraph behind them    *)
(* (orchestration/dependencies.py), the catalog of built-in pipelines, and *)
(* the conditions of gated stages (orchestration/pipeline.py).             *)
(*                                                                         *)
(* A pipeline is a record of its name and its stages; a stage is a record  *)
(* of its mode and its tasks; a task is a record of its id and its         *)
(* dependencies, a sequence of ids in which a typed dependency without     *)
(* task_id is NoId.                                                        *)
(***************************************************************************)
EXTENDS Integers, Sequences, FiniteSets, SequencesExt, Functions

CONSTANT NoId

Task(id, dependencies) == [id |-> id, dependencies |-> dependencies]

Stage(mode, tasks) == [mode |-> mode, tasks |-> tasks]

Pipeline(name, stages) == [name |-> name, stages |-> stages]

\* Pipeline.all_tasks, and the ids of task_map: an id that occurs twice names
\* the task declared last.
AllTasks(pipeline) ==
  FlattenSeq([k \in DOMAIN pipeline.stages |-> pipeline.stages[k].tasks])

TaskIds(pipeline) == {t.id : t \in Range(AllTasks(pipeline))}

\* _normalize_dependencies: typed dependencies become plain ids.
Normalized(pipeline) ==
  LET Plain(t) == Task(t.id, SelectSeq(t.dependencies, LAMBDA d : d /= NoId))
      Flat(s) == [s EXCEPT !.tasks = [i \in DOMAIN s.tasks |-> Plain(s.tasks[i])]]
  IN [pipeline EXCEPT !.stages = [k \in DOMAIN @ |-> Flat(@[k])]]

-----------------------------------------------------------------------------
(* DependencyGraph.                                                         *)

DefaultPolicies == [missing |-> "raise", self |-> "raise", detect_cycles |-> TRUE]

\* The dependencies the graph records, those of all tasks of an id together;
\* what the policies tolerate is left out.
DependenciesOf(pipeline, id) ==
  LET same == SelectSeq(AllTasks(pipeline), LAMBDA t : t.id = id)
      known == [i \in DOMAIN same |->
                  SelectSeq(same[i].dependencies,
                            LAMBDA d : d /= id /\ d \in TaskIds(pipeline))]
  IN FlattenSeq(known)

DependentsOf(pipeline, id) ==
  {t \in TaskIds(pipeline) : id \in Range(DependenciesOf(pipeline, t))}

\* find_cycle: a depth-first search along the dependencies; the path from the
\* task that is met again, or the empty sequence.
RECURSIVE Visit(_, _, _, _)
Visit(pipeline, todo, path, state) ==
  IF todo = << >> \/ state.cycle /= << >> THEN state
  ELSE LET id == Head(todo)
           at == CHOOSE i \in DOMAIN path : path[i] = id
           closed == [state EXCEPT !.cycle = SubSeq(path, at, Len(path)) \o <<id>>]
           inside == Visit(pipeline, DependenciesOf(pipeline, id), Append(path, id),
                           [state EXCEPT !.visited = @ \union {id}])
       IN Visit(pipeline, Tail(todo), path,
            IF id \in Range(path) THEN closed
            ELSE IF id \in state.visited THEN state ELSE inside)

IdsInOrder(pipeline) ==
  [i \in DOMAIN AllTasks(pipeline) |-> AllTasks(pipeline)[i].id]

FindCycle(pipeline) ==
  Visit(pipeline, IdsInOrder(pipeline), << >>, [visited |-> {}, cycle |-> << >>]).cycle

\* The constructor's verdict: the first dependency that a policy refuses ends
\* it, and only then are cycles looked for.
Verdict(pipeline, policies) ==
  LET refused == {<<t, d>> \in Range(AllTasks(pipeline)) \X (TaskIds(pipeline) \union
                                UNION {Range(t.dependencies) : t \in Range(AllTasks(pipeline))}) :
                    /\ d \in Range(t.dependencies)
                    /\ \/ d = t.id /\ policies.self /= "ignore"
                       \/ d /= t.id /\ d \notin TaskIds(pipeline) /\ policies.missing /= "skip"}
  IN IF refused /= {} THEN "refused"
     ELSE IF policies.detect_cycles /\ FindCycle(pipeline) /= << >> THEN "cyclic" ELSE "valid"

\* Dependencies first, in the order of the declarations otherwise.
RECURSIVE Listing(_, _, _)
Listing(pipeline, todo, state) ==
  IF todo = << >> THEN state
  ELSE LET id == Head(todo)
           inside == Listing(pipeline, DependenciesOf(pipeline, id),
                             [state EXCEPT !.visited = @ \union {id}])
       IN Listing(pipeline, Tail(todo),
            IF id \in state.visited THEN state ELSE [inside EXCEPT !.order = Append(@, id)])

TopologicalOrder(pipeline) ==
  Listing(pipeline, IdsInOrder(pipeline), [visited |-> {}, order |-> << >>]).order

ReadyTasks(pipeline, completed, failed) ==
  {id \in TaskIds(pipeline) \ (completed \union failed) :
     Range(DependenciesOf(pipeline, id)) \subseteq completed}

NoLayers == <<{}>>     \* the error that nothing that remains is ready

RECURSIVE ParallelGroups(_, _)
ParallelGroups(pipeline, completed) ==
  LET ready == ReadyTasks(pipeline, completed, {})
      rest == ParallelGroups(pipeline, completed \union ready)
  IN IF TaskIds(pipeline) \subseteq completed THEN << >>
     ELSE IF ready = {} \/ rest = NoLayers THEN NoLayers
     ELSE <<ready>> \o rest

-----------------------------------------------------------------------------
(* PipelinePlanner and OrchestrationEngine.plan.                            *)

Modes == {"sequential", "parallel", "conditional"}
ScheduleModes == {"immediate", "scheduled", "recurring", "dependency"}

\* A definition that is malformed, or whose graph is refused or cyclic, is an
\* InvalidPlanError.
ParsePipeline(definition, policies) ==
  LET pipeline == Normalized(definition)
  IN IF \A k \in DOMAIN definition.stages : definition.stages[k].mode \in Modes
     THEN IF Verdict(pipeline, policies) = "valid"
          THEN [error |-> "none", pipeline |-> pipeline]
          ELSE [error |-> "InvalidPlanError"]
     ELSE [error |-> "InvalidPlanError"]

PlanFromPipeline(parsed, name, mode) ==
  IF parsed.error /= "none" THEN parsed
  ELSE IF mode \notin ScheduleModes THEN [error |-> "InvalidPlanError"]
  ELSE [error |-> "none", schedule_mode |-> mode, pipeline |-> parsed.pipeline,
        name |-> IF name = NoId THEN parsed.pipeline.name ELSE name]

\* The built-in pipelines: tasks without dependencies, ordered by their stages.
Independent(ids) == [i \in DOMAIN ids |-> Task(ids[i], << >>)]

LoadRegistry == Stage("sequential", Independent(<<"load_registry">>))

BuiltinPipelines ==
  <<Pipeline("bootstrap",
      <<LoadRegistry,
        Stage("sequential", Independent(<<"generate_all">>)),
        Stage("sequential", Independent(<<"validate">>)),
        Stage("parallel", Independent(<<"save_memory", "audit_bootstrap">>))>>),
    Pipeline("generation",
      <<LoadRegistry,
        Stage("parallel", Independent(<<"generate_prompts", "generate_docs", "generate_graph">>)),
        Stage("sequential", Independent(<<"save_memory", "audit_generation">>))>>),
    Pipeline("report",
      <<LoadRegistry,
        Stage("sequential", Independent(<<"graph_build", "report">>)),
        Stage("sequential", Independent(<<"audit_report">>))>>)>>

\* A pipeline of the configuration hides the built-in one of its name; one bad
\* definition in the configuration makes every name fail.
Catalog(configured, policies) ==
  LET names == {c.name : c \in Range(configured)}
      parsed == configured \o SelectSeq(BuiltinPipelines, LAMBDA b : b.name \notin names)
  IN [i \in DOMAIN parsed |-> ParsePipeline(parsed[i], policies)]

GetPipeline(name, configured, policies) ==
  LET catalog == Catalog(configured, policies)
      bad == {i \in DOMAIN catalog : catalog[i].error /= "none"}
      named == {i \in DOMAIN catalog \ bad : catalog[i].pipeline.name = name}
  IN IF bad /= {} THEN [error |-> "InvalidPlanError"]
     ELSE IF named = {} THEN [error |-> "PlanNotFoundError"]
     ELSE catalog[CHOOSE i \in named : TRUE]

\* OrchestrationEngine.plan takes a definition, the file of a plan, or the name
\* of a pipeline of the catalog, in this order of preference.  Of a file, the
\* plan keeps its own schedule mode unless the caller asks for another.
Plan(request, configured, policies) ==
  CASE request.kind = "data" ->
         PlanFromPipeline(ParsePipeline(request.data, policies), request.name, request.mode)
    [] request.kind = "yaml" ->
         LET plan == PlanFromPipeline(ParsePipeline(request.data, policies),
                                      request.name, request.filed)
         IN IF plan.error /= "none" \/ request.mode = "immediate" THEN plan
            ELSE [plan EXCEPT !.schedule_mode = request.mode]
    [] request.kind = "name" ->
         PlanFromPipeline(GetPipeline(request.name, configured, policies), request.name,
                          request.mode)
    [] OTHER -> [error |-> "OrchestrationError"]

-----------------------------------------------------------------------------
(* evaluate_condition, of a parsed expression over results that are numbers *)
(* (0 and 1 for the truth values, which Python compares alike).  A value    *)
(* that no path finds is NoId; what cannot be compared is false.            *)

Comparable(x, y) == x \in Int /\ y \in Int

EvaluateCondition(expression, results) ==
  LET value == IF expression.path \in DOMAIN results THEN results[expression.path] ELSE NoId
      x == expression.operand
  IN CASE expression.form = "empty"   -> TRUE
       [] expression.form = "literal" -> x
       [] expression.form = "in"      -> value \in x
       [] expression.form = "=="      -> value = x
       [] expression.form = "!="      -> value /= x
       [] expression.form = ">="      -> Comparable(value, x) /\ value >= x
       [] expression.form = "<="      -> Comparable(value, x) /\ value <= x
       [] expression.form = ">"       -> Comparable(value, x) /\ value > x
       [] expression.form = "<"       -> Comparable(value, x) /\ value < x
       [] OTHER -> value \notin {NoId, 0}
=============================================================================
