------------------------------ MODULE Workflow ------------------------------
(***************************************************************************)
(* The workflow package (workflow/): what a definition must satisfy, the   *)
(* four places that check it, the choice of a transition, the contexts of  *)
(* the executions, and the registry over the definition files.             *)
(*                                                                         *)
(* A definition is a record of its name, category, enabled flag, initial   *)
(* state, states, schema and the keys its retry policy gives.  A state     *)
(* says its type, its transitions in order, whether the section its type   *)
(* asks for (approval, action, wait, terminal_status) is configured,       *)
(* whether what that section must name is named, and whether an approval   *)
(* is required.  A condition is a tuple: <<"auto">>, <<"data", key>>, or a *)
(* comparison <<"state", id>> with the state the execution is in.          *)
(***************************************************************************)
EXTENDS Naturals, Sequences, FiniteSets, SequencesExt, FiniteSetsExt, Functions

CONSTANT NoState        \* no state, no definition, nothing found

Auto == <<"auto">>

\* The types that come with a section of their own.
Sectioned == {"approval", "action", "wait", "terminal"}

Transition(to, condition) == [to |-> to, condition |-> condition]

OfType(d, type) == {id \in DOMAIN d.states : d.states[id].type = type}

Targets(state) == {state.transitions[i].to : i \in DOMAIN state.transitions}

BadTargets(d) ==
  {<<id, to>> \in UNION {{id} \X Targets(d.states[id]) : id \in DOMAIN d.states} : to \notin DOMAIN d.states}

----------------------------------------------------------------------------
(* Validation.                                                             *)

\* validate_state: the section of the type is there.
ValidState(state) == state.type \in Sectioned => state.configured

\* What WorkflowDefinition accepts.
ValidDefinition(d) ==
  /\ \A id \in DOMAIN d.states : ValidState(d.states[id])
  /\ d.initial \in DOMAIN d.states
  /\ BadTargets(d) = {}
  /\ OfType(d, "terminal") /= {}

\* The state machine's constructor looks at less.
MachineAccepts(d) == d.initial \in DOMAIN d.states /\ BadTargets(d) = {}

Findings(raised, errors, warnings) == [raised |-> raised, errors |-> errors, warnings |-> warnings]

\* The states whose section lacks what it must name.
Unnamed(d, type) == {id \in OfType(d, type) : d.states[id].configured /\ ~d.states[id].named}

Unconfigured(d, type) == {id \in OfType(d, type) : ~d.states[id].configured}

About(problem, states) == {<<problem, id>> : id \in states}

\* The reachable set is walked while it grows: the first state added to it ends
\* the walk with an error.
GrowsWhileWalked(d) ==
  /\ d.initial \in DOMAIN d.states
  /\ ~(Targets(d.states[d.initial]) \subseteq {d.initial})

\* TransitionValidator.validate.  _check_deadlocks comes after the walk.
TransitionReport(d) ==
  Findings(IF GrowsWhileWalked(d) THEN "RuntimeError" ELSE "none",
         About("target", BadTargets(d)) \union (IF d.initial \in DOMAIN d.states THEN {} ELSE {<<"initial">>})
           \union (IF OfType(d, "terminal") = {} THEN {<<"terminal">>} ELSE {})
           \union UNION {About("section", Unconfigured(d, type)) : type \in Sectioned \ {"terminal"}}
           \union IF GrowsWhileWalked(d) THEN {}
                  ELSE About("deadlock", {id \in DOMAIN d.states :
                         d.states[id].type /= "terminal" /\ d.states[id].transitions = << >>}),
         (IF Cardinality(OfType(d, "terminal")) = 1 THEN {<<"one terminal">>} ELSE {})
           \union UNION {About("unnamed", Unnamed(d, type)) : type \in Sectioned \ {"terminal"}}
           \union About("optional", {id \in OfType(d, "approval") : d.states[id].configured /\ ~d.states[id].required})
           \union IF GrowsWhileWalked(d) THEN {} ELSE About("unreachable", DOMAIN d.states \ {d.initial}))

\* WorkflowValidator.validate_definition.  A field of the schema is an object,
\* never the dict the validator looks for; a retry policy must have both keys.
WorkflowReport(d) ==
  Findings(IF d.retry /= {} /\ d.retry /= {"max_retries", "backoff_seconds"} THEN "KeyError" ELSE "none",
         IF DOMAIN d.states = {} THEN {<<"states">>}
         ELSE (IF d.initial \in DOMAIN d.states THEN {} ELSE {<<"initial">>})
                \union (IF OfType(d, "terminal") = {} THEN {<<"terminal">>} ELSE {})
                \union About("target", BadTargets(d))
                \union UNION {About("section", Unconfigured(d, type)) : type \in Sectioned}
                \union About("unnamed", {id \in Unnamed(d, "approval") : d.states[id].required})
                \union About("unnamed", Unnamed(d, "wait")),
         About("unnamed", Unnamed(d, "action"))
           \union (IF d.schema = {} THEN {<<"schema">>} ELSE About("field", d.schema)))

\* WorkflowRegistry.validate_workflow, on a definition it has found.
RegistryErrors(d) ==
  (IF d.initial \in DOMAIN d.states THEN {} ELSE {<<"initial">>})
    \union About("target", BadTargets(d))
    \union (IF OfType(d, "terminal") = {} THEN {<<"terminal">>} ELSE {})
    \union About("section", Unconfigured(d, "approval"))

\* ExecutionValidator.validate_context: .get of a schema's field, which is an
\* object without that method, raises.
ContextReport(ctx, d) ==
  Findings(IF d.schema = {} THEN "none" ELSE "AttributeError",
         IF ctx.state \in DOMAIN d.states THEN {} ELSE {<<"state", ctx.state>>}, {})

----------------------------------------------------------------------------
(* The state machine.                                                      *)

\* Only the context's data is visible to _evaluate_condition: any other name is
\* an error, and an error is no.
Holds(condition, ctx) == condition = Auto \/ condition \in ctx.data

\* TransitionEvaluator.evaluate also sees where the execution is.
HoldsInState(condition, ctx) == Holds(condition, ctx) \/ condition = <<"state", ctx.state>>

Result(success, next, needs, error) == [success |-> success, next |-> next, needs |-> needs, error |-> error]

\* What the caller has to arrange before it enters a state of the type.
NeedOf(type) == IF type \in {"approval", "action", "wait"} THEN type ELSE "nothing"

Enter(d, to) ==
  IF to \notin DOMAIN d.states THEN Result(FALSE, NoState, "nothing", "KeyError")
  ELSE LET type == d.states[to].type
       IN IF NeedOf(type) /= "nothing" /\ ~d.states[to].configured
          THEN Result(FALSE, NoState, "nothing", "missing config")
          ELSE Result(TRUE, to, NeedOf(type), "none")

\* The first transition whose condition holds is taken.
EvaluateTransitions(d, id, ctx) ==
  IF id \notin DOMAIN d.states THEN Result(FALSE, NoState, "nothing", "KeyError")
  ELSE LET ts == d.states[id].transitions
           open == {i \in DOMAIN ts : Holds(ts[i].condition, ctx)}
       IN IF d.states[id].type = "terminal" THEN Result(TRUE, NoState, "nothing", "terminal state")
          ELSE IF open = {} THEN Result(FALSE, NoState, "nothing", "no valid transition")
          ELSE Enter(d, ts[Min(open)].to)

\* TransitionEvaluator.evaluate_transitions: all that match.
Matching(state, ctx) == SelectSeq(state.transitions, LAMBDA t : HoldsInState(t.condition, ctx))

CanTransition(d, from, to) == to \in Targets(d.states[from])

TerminalStatus(d, id) ==
  IF d.states[id].type = "terminal" /\ d.states[id].configured THEN <<"status", id>> ELSE NoState

----------------------------------------------------------------------------
(* The executions' contexts.  A store maps execution ids to contexts.      *)
(* A context is [workflow, state, previous, status, terminal, data,        *)
(* started, completed, paused, steps]; the last is how many steps were     *)
(* recorded for the execution.  No method looks at the status it changes.  *)

Context(workflow, initial, data) ==
  [workflow |-> workflow, state |-> initial, previous |-> NoState, status |-> "pending", terminal |-> NoState,
   data |-> data, started |-> FALSE, completed |-> FALSE, paused |-> FALSE, steps |-> 0]

CreateContext(store, execution, workflow, initial, data) ==
  (execution :> Context(workflow, initial, data)) @@ store

\* An operation on an execution that is not there does nothing.
At(store, execution, ctx) == IF execution \in DOMAIN store THEN [store EXCEPT ![execution] = ctx] ELSE store

Started(ctx)         == [ctx EXCEPT !.status = "running", !.started = TRUE]
Paused(ctx)          == [ctx EXCEPT !.status = "paused", !.paused = TRUE]
Resumed(ctx)         == [ctx EXCEPT !.status = "running", !.paused = FALSE]
Completed(ctx, with) == [ctx EXCEPT !.status = "completed", !.completed = TRUE, !.terminal = with]
Failed(ctx)          == [ctx EXCEPT !.status = "failed", !.completed = TRUE]
Cancelled(ctx)       == [ctx EXCEPT !.status = "cancelled", !.completed = TRUE]

\* transition_state records the state the context is in, whatever from_state says.
Moved(ctx, from, to) == [ctx EXCEPT !.previous = ctx.state, !.state = to]

WithData(ctx, data, merge) == [ctx EXCEPT !.data = IF merge THEN @ \union data ELSE data]

WithStep(ctx) == [ctx EXCEPT !.steps = @ + 1]

RemoveContext(store, execution) == [e \in DOMAIN store \ {execution} |-> store[e]]

ActiveStatuses == {"pending", "running", "paused", "waiting_approval", "waiting_external"}

ActiveContexts(store) == {e \in DOMAIN store : store[e].status \in ActiveStatuses}

ContextsOf(store, workflow) == {e \in DOMAIN store : store[e].workflow = workflow}

----------------------------------------------------------------------------
(* The registry.  A directory is the sequence of its definition files in   *)
(* the order a listing gives, each [stem, named, definition], and the      *)
(* registry file: NoState or a sequence of entries [id, file, category,    *)
(* enabled].  named is the file's top-level name: NoState when the file    *)
(* holds its definition under the key "workflow".  A file whose definition *)
(* is NoState does not load.  A registry is [initialized, definitions,     *)
(* entries, cache].                                                        *)

EmptyRegistry == [initialized |-> FALSE, definitions |-> << >>, entries |-> << >>, cache |-> << >>]

Loads(file) == file.definition /= NoState

EntryOf(d, stem) == [id |-> d.name, file |-> stem, category |-> d.category, enabled |-> d.enabled]

LoadRegistry(dir) ==
  IF dir.registry /= NoState THEN dir.registry
  ELSE LET loaded == SelectSeq(dir.files, Loads)
       IN [i \in DOMAIN loaded |-> EntryOf(loaded[i].definition, loaded[i].stem)]

\* Later files replace earlier ones of the same name.
ByName(files) ==
  FoldLeft(LAMBDA acc, file : (file.definition.name :> file.definition) @@ acc, << >>, SelectSeq(files, Loads))

ById(entries) == FoldLeft(LAMBDA acc, entry : (entry.id :> entry) @@ acc, << >>, entries)

Initialize(dir, reg) ==
  IF reg.initialized THEN reg
  ELSE [initialized |-> TRUE,
        entries |-> ById(LoadRegistry(dir)) @@ reg.entries,
        definitions |-> ByName(dir.files) @@ reg.definitions,
        cache |-> ByName(dir.files) @@ reg.cache]

FirstFile(dir, Test(_)) ==
  LET found == SelectSeq(dir.files, Test) IN IF found = << >> THEN NoState ELSE Head(found)

\* The file called like the workflow, then the registry's first that exists, then
\* one whose top level names the workflow.
FindWorkflowFile(dir, id) ==
  LET direct == FirstFile(dir, LAMBDA f : f.stem = id)
      listed == SelectSeq(LoadRegistry(dir), LAMBDA e :
                  e.id = id /\ \E i \in DOMAIN dir.files : dir.files[i].stem = e.file)
  IN IF direct /= NoState THEN direct
     ELSE IF listed /= << >> THEN FirstFile(dir, LAMBDA f : f.stem = Head(listed).file)
     ELSE FirstFile(dir, LAMBDA f : f.named = id)

Answer(reg, definition, error) == [registry |-> reg, definition |-> definition, error |-> error]

\* load_workflow, into the registry's definitions under the id asked for.
LoadWorkflow(dir, reg, id) ==
  LET file == FindWorkflowFile(dir, id)
      With(d) == [reg EXCEPT !.cache = (id :> d) @@ @, !.definitions = (id :> d) @@ @]
  IN IF id \in DOMAIN reg.cache THEN Answer(With(reg.cache[id]), reg.cache[id], "none")
     ELSE IF file = NoState THEN Answer(reg, NoState, "not found")
     ELSE IF ~Loads(file) THEN Answer(reg, NoState, "invalid")
     ELSE Answer(With(file.definition), file.definition, "none")

GetDefinition(dir, reg, id) ==
  LET ready == Initialize(dir, reg)
  IN IF id \in DOMAIN ready.definitions THEN Answer(ready, ready.definitions[id], "none")
     ELSE LoadWorkflow(dir, ready, id)

RegisterWorkflow(reg, d) ==
  [reg EXCEPT !.definitions = (d.name :> d) @@ @, !.entries = (d.name :> EntryOf(d, d.name)) @@ @]

UnregisterWorkflow(reg, id) ==
  [reg EXCEPT !.definitions = Restrict(@, DOMAIN @ \ {id}), !.entries = Restrict(@, DOMAIN @ \ {id})]

\* reload_workflow empties the loader's whole cache and initialises nothing.
ReloadWorkflow(dir, reg, id) == LoadWorkflow(dir, [reg EXCEPT !.cache = << >>], id)

ListWorkflows(dir, reg, category, enabledOnly) ==
  LET entries == Initialize(dir, reg).entries
  IN {id \in DOMAIN entries : /\ category \in {NoState, entries[id].category}
                              /\ enabledOnly => entries[id].enabled}

WorkflowsByCategory(dir, reg) ==
  LET entries == Initialize(dir, reg).entries
  IN [c \in {entries[id].category : id \in DOMAIN entries} |-> {id \in DOMAIN entries : entries[id].category = c}]

ValidateWorkflow(dir, reg, id) ==
  LET found == GetDefinition(dir, reg, id)
  IN IF found.error = "none" THEN RegistryErrors(found.definition) ELSE {<<found.error>>}
=============================================================================
