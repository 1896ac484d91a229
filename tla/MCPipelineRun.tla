--------------------------- MODULE MCPipelineRun ---------------------------
(***************************************************************************)
(* Two plans that share a task id, as the built-in pipelines do: a         *)
(* parallel stage followed by a conditional one, and a single sequential   *)
(* stage.  Below, the planner that makes such plans is checked on every    *)
(* definition of three tasks.                                              *)
(***************************************************************************)
EXTENDS PipelineRun, FiniteSets

CONSTANTS p, q, a, b, c, None

MCStages ==
  [x \in Plans |->
    IF x = p
    THEN <<[parallel |-> TRUE,  gated |-> FALSE, tasks |-> <<a, b>>],
           [parallel |-> FALSE, gated |-> TRUE,  tasks |-> <<c>>]>>
    ELSE <<[parallel |-> FALSE, gated |-> FALSE, tasks |-> <<a, c>>]>>]

MCDeps == [t \in Tasks |-> IF t = c THEN {a} ELSE {}]

----------------------------------------------------------------------------
Planner == INSTANCE PipelinePlanner WITH NoId <- None

Raise == Planner!DefaultPolicies
Tolerate == [missing |-> "skip", self |-> "ignore", detect_cycles |-> TRUE]
Blind == [Raise EXCEPT !.detect_cycles = FALSE]

\* The first two tasks in one stage, the third in the next; task 4 is unknown,
\* and dependency 0 stands for a typed one without id.
Definition(deps) ==
  LET T(i) == Planner!Task(i, [k \in DOMAIN SetToSeq(deps[i]) |->
                                 IF SetToSeq(deps[i])[k] = 0 THEN None ELSE SetToSeq(deps[i])[k]])
  IN Planner!Pipeline("any", <<Planner!Stage("parallel", <<T(1), T(2)>>),
                               Planner!Stage("sequential", <<T(3)>>)>>)

Requires == [1..3 -> SUBSET (1..3)]

Definitions == {Definition(deps) : deps \in Requires}

Needs(d, i) == Range(Planner!DependenciesOf(d, i))

RECURSIVE AllNeeds(_, _)
AllNeeds(d, S) ==
  LET more == S \union UNION {Needs(d, i) : i \in S}
  IN IF more = S THEN S ELSE AllNeeds(d, more)

Acyclic(d) == \A i \in 1..3 : i \notin AllNeeds(d, Needs(d, i))

Accepted(d, policies) == Planner!ParsePipeline(d, policies).error = "none"

\* A definition is accepted exactly when it names its own tasks only and no
\* task needs itself, and find_cycle returns a cycle that is one.
ASSUME AcceptedIsAcyclic ==
  /\ \A d \in Definitions :
       /\ Accepted(d, Raise) <=> \A i \in 1..3 : /\ i \notin AllNeeds(d, Needs(d, i))
                                                 /\ i \notin Range(Planner!AllTasks(d)[i].dependencies)
       /\ Accepted(d, Tolerate) <=> Acyclic(d)
       /\ LET cycle == Planner!FindCycle(d)
          IN IF Acyclic(d) THEN cycle = << >>
             ELSE /\ Head(cycle) = Last(cycle)
                  /\ \A k \in 1..(Len(cycle) - 1) : cycle[k + 1] \in Needs(d, cycle[k])
  /\ \A extra \in SUBSET {0, 4} :
       LET d == Definition([i \in 1..3 |-> IF i = 3 THEN extra ELSE {}])
       IN /\ Accepted(d, Raise) <=> 4 \notin extra
          /\ Accepted(d, Tolerate)

\* topological_order lists every task once and after what it needs, and the
\* parallel groups are layers of it, exactly when there is no cycle.
ASSUME OrdersRespectNeeds ==
  \A d \in Definitions :
    LET order == Planner!TopologicalOrder(d)
        groups == Planner!ParallelGroups(d, {})
    IN /\ Range(order) = 1..3 /\ Len(order) = 3
       /\ Acyclic(d) => \A k, m \in 1..3 : order[m] \in Needs(d, order[k]) => m < k
       /\ Acyclic(d) <=> groups /= Planner!NoLayers
       /\ Acyclic(d) => /\ UNION Range(groups) = 1..3
                        /\ \A k \in DOMAIN groups : \A i \in groups[k] :
                             Needs(d, i) \subseteq UNION {groups[m] : m \in 1..(k - 1)}

\* While tasks of an accepted pipeline remain and none failed, one is ready; and
\* a task that failed keeps back exactly what needs it.
ASSUME SomethingIsReady ==
  \A d \in {e \in Definitions : Accepted(e, Raise)} :
    /\ \A done \in SUBSET (1..3) :
         (\A i \in done : Needs(d, i) \subseteq done)
           => (Planner!ReadyTasks(d, done, {}) = {}) <=> (done = 1..3)
    /\ \A f \in 1..3 :
         LET kept == {i \in 1..3 : f \in AllNeeds(d, Needs(d, i))}
         IN Planner!ReadyTasks(d, (1..3) \ (kept \union {f}), {f}) = {}

\* Every built-in pipeline is accepted and its stages can be run one after the
\* other; a configured pipeline hides the built-in one of its name.
ASSUME CatalogIsRunnable ==
  /\ \A name \in {"bootstrap", "generation", "report"} :
       LET got == Planner!Plan([kind |-> "name", name |-> name, mode |-> "immediate"], << >>, Raise)
       IN /\ got.error = "none" /\ got.pipeline.name = name
          /\ Cardinality(Planner!TaskIds(got.pipeline)) = Len(Planner!AllTasks(got.pipeline))
  /\ \A d \in Definitions :
       LET own == [d EXCEPT !.name = "report"]
           got == Planner!GetPipeline("report", <<own>>, Raise)
       IN IF Accepted(own, Raise) THEN got.error = "none" /\ got.pipeline = own
          ELSE Planner!GetPipeline("bootstrap", <<own>>, Raise).error = "InvalidPlanError"

\* The plans of Pipeline.cfg's instance are plans the planner accepts.
ASSUME InstanceIsAccepted ==
  \A x \in Plans :
    LET task(t) == Planner!Task(t, SetToSeq(Deps[t]))
        stage_(s) == Planner!Stage(IF s.parallel THEN "parallel" ELSE "sequential",
                                   [i \in DOMAIN s.tasks |-> task(s.tasks[i])])
    IN Accepted(Planner!Pipeline("plan", [k \in DOMAIN Stages[x] |-> stage_(Stages[x][k])]), Raise)

\* A condition and its negation never both hold, and a stage without one runs.
ASSUME ConditionsExclude ==
  \A values \in [{"x"} -> 0..2] \union {<< >>} : \A n \in 0..2 :
    LET Is(form) == Planner!EvaluateCondition([form |-> form, path |-> "x", operand |-> n], values)
    IN /\ Is("==") /= Is("!=")
       /\ ~(Is("<") /\ Is(">=")) /\ ~(Is(">") /\ Is("<="))
       /\ ("x" \in DOMAIN values => (Is("<") \/ Is(">=")) /\ (Is(">") \/ Is("<=")))
       /\ Planner!EvaluateCondition([form |-> "empty", path |-> "x", operand |-> n], values)
=============================================================================
