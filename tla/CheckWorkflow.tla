--------------------------- MODULE CheckWorkflow ---------------------------
(***************************************************************************)
(* Small workflow definitions, all of them, and short sequences of calls   *)
(* of the context manager and the registry.  The assumptions are evaluated *)
(* by the runs whose module extends this one.                              *)
(***************************************************************************)
EXTENDS Workflow

SectionedState(type, configured, named, transitions) ==
  [type |-> type, configured |-> configured, named |-> named, required |-> TRUE, transitions |-> transitions]

Definition(name, initial, states) ==
  [name |-> name, category |-> "hr", enabled |-> TRUE, initial |-> initial, states |-> states,
   schema |-> {}, retry |-> {}]

Plainly(targets) == [i \in 1..Len(targets) |-> Transition(targets[i], Auto)]

\* Two states; 3 is none.
Shapes ==
  {Definition("w", initial,
     <<SectionedState(t1, c1, n1, Plainly(to1)), SectionedState(t2, c2, TRUE, Plainly(to2))>>) :
       initial \in {1, 3}, t1, t2 \in {"initial", "approval", "wait", "terminal"}, c1, c2, n1 \in BOOLEAN,
       to1 \in {<< >>, <<1>>, <<2>>, <<1, 2>>, <<2, 3>>}, to2 \in {<< >>, <<1>>, <<3>>}}

\* A definition that loads passes every later check of what loading checks; what
\* remains is a dead end, or a section that does not name what it must.  A
\* definition WorkflowValidator has no complaint about would load.
ASSUME LoadedStaysValid ==
  \A d \in Shapes :
    /\ ValidDefinition(d) =>
         /\ MachineAccepts(d) /\ RegistryErrors(d) = {}
         /\ \A e \in TransitionReport(d).errors : e[1] = "deadlock"
         /\ \A e \in WorkflowReport(d).errors : e[1] = "unnamed"
    /\ WorkflowReport(d).errors = {} => ValidDefinition(d)

RECURSIVE ReachedFrom(_, _)
ReachedFrom(d, S) ==
  LET more == S \union UNION {Targets(d.states[id]) \intersect DOMAIN d.states : id \in S}
  IN IF more = S THEN S ELSE ReachedFrom(d, more)

\* TransitionValidator gives a verdict on a definition that loads only when its
\* initial state leads nowhere else: any workflow that can leave it raises.
ASSUME VerdictOnlyOfTheStuck ==
  \A d \in Shapes : ValidDefinition(d) =>
    (TransitionReport(d).raised = "none" <=> ReachedFrom(d, {d.initial}) = {d.initial})

\* Three states with conditions: what the machine answers is one of the
\* transitions that match, the first, and never the lack of a section; a state
\* with a way out may have none that is open.
Conditions == {Auto, <<"data", "k">>, <<"state", 1>>}

Machines ==
  {Definition("w", 1,
     <<SectionedState("initial", FALSE, TRUE, <<Transition(to1, c1), Transition(to2, c2)>>),
       SectionedState(t2, TRUE, TRUE, <<Transition(3, c3)>>), SectionedState("terminal", TRUE, TRUE, << >>)>>) :
       to1, to2 \in {1, 2, 3}, c1, c2, c3 \in Conditions, t2 \in {"action", "approval", "wait", "initial"}}

ASSUME FirstOpenTransition ==
  \A d \in Machines : \A data \in SUBSET {<<"data", "k">>} : \A id \in 1..3 :
    LET ctx == [Context("w", id, data) EXCEPT !.state = id]
        got == EvaluateTransitions(d, id, ctx)
        matching == Matching(d.states[id], ctx)
    IN /\ got.error \in {"none", "terminal state", "no valid transition"}
       /\ got.success /\ got.next /= NoState =>
            /\ CanTransition(d, id, got.next)
            /\ \E i \in DOMAIN matching : matching[i].to = got.next
            /\ got.needs /= "nothing" => d.states[got.next].type = got.needs
       /\ id = 3 => got.next = NoState /\ got.success /\ TerminalStatus(d, id) /= NoState

\* A definition without a complaint may leave its context where no transition is
\* open, or refuse the one that is.
ASSUME SomeStayStuck ==
  /\ \E d \in Machines : TransitionReport(d).errors = {} /\ EvaluateTransitions(d, 1, Context("w", 1, {})).next = NoState
  /\ \E d \in Machines : LET ctx == Context("w", 1, {})
                         IN Matching(d.states[1], ctx) /= << >> /\ ~EvaluateTransitions(d, 1, ctx).success

----------------------------------------------------------------------------
Operations == {"start", "pause", "resume", "complete", "fail", "cancel", "move", "data"}

Operated(ctx, op) ==
  CASE op = "start"    -> Started(ctx)
    [] op = "pause"    -> Paused(ctx)
    [] op = "resume"   -> Resumed(ctx)
    [] op = "complete" -> Completed(ctx, <<"status", ctx.state>>)
    [] op = "fail"     -> Failed(ctx)
    [] op = "cancel"   -> Cancelled(ctx)
    [] op = "move"     -> Moved(ctx, 3, ctx.state + 1)
    [] op = "data"     -> WithStep(WithData(ctx, {<<"data", "k">>}, TRUE))

TwoExecutions == CreateContext(CreateContext(<< >>, "e1", "w", 1, {}), "e2", "w", 1, {})

Calls3 == UNION {[1..n -> Operations] : n \in 0..4}

After(store, execution, ops) ==
  FoldLeft(LAMBDA s, op : IF execution \in DOMAIN s THEN At(s, execution, Operated(s[execution], op))
                          ELSE At(s, execution, NoState), store, ops)

\* One execution's calls change no other and create none; an execution is listed
\* as active unless the last call about its status ended it, so that one that has
\* ended is active again after resume, with its end still recorded.
ASSUME ContextsFollowTheCalls ==
  /\ \A ops \in Calls3 :
       LET store == After(TwoExecutions, "e1", ops)
           ctx == store["e1"]
           aboutStatus == SelectSeq(ops, LAMBDA op : op \notin {"move", "data"})
           Among(set) == Len(SelectSeq(ops, LAMBDA op : op \in set))
       IN /\ store["e2"] = TwoExecutions["e2"] /\ After(TwoExecutions, "e3", ops) = TwoExecutions
          /\ "e2" \in ActiveContexts(store)
          /\ ("e1" \in ActiveContexts(store)) <=>
               (aboutStatus = << >> \/ Last(aboutStatus) \in {"start", "pause", "resume"})
          /\ ctx.completed <=> Among({"complete", "fail", "cancel"}) > 0
          /\ ctx.state = 1 + Among({"move"}) /\ ctx.steps = Among({"data"})
          /\ ctx.previous = IF Among({"move"}) = 0 THEN NoState ELSE ctx.state - 1
          /\ DOMAIN RemoveContext(store, "e1") = {"e2"}
  /\ \E ops \in Calls3 : LET store == After(TwoExecutions, "e1", ops)
                         IN store["e1"].completed /\ "e1" \in ActiveContexts(store)

----------------------------------------------------------------------------
Named(name) == Definition(name, 1, <<SectionedState("terminal", TRUE, TRUE, << >>)>>)

File(stem, named, definition) == [stem |-> stem, named |-> named, definition |-> definition]

Plain  == File("alpha", "alpha", Named("alpha"))
Nested == File("beta", NoState, Named("gamma"))
Broken == File("delta", "delta", NoState)

Directories ==
  {[files |-> files, registry |-> listing] :
     files \in {<<Plain, Nested, Broken>>, <<Nested, Plain>>, <<Broken>>},
     listing \in {NoState, << >>, <<[id |-> "gamma", file |-> "beta", category |-> "hr", enabled |-> FALSE]>>}}

\* The registry finds what loads under the name the definition gives itself.
\* A definition under the key "workflow" that the registry file does not list is
\* found as long as it is cached and lost by a reload.
ASSUME RegistryFindsWhatLoads ==
  \A dir \in Directories :
    LET loadable == {dir.files[i] : i \in {j \in DOMAIN dir.files : Loads(dir.files[j])}}
        first == Initialize(dir, EmptyRegistry)
    IN /\ \A file \in loadable : GetDefinition(dir, EmptyRegistry, file.definition.name).definition = file.definition
       /\ GetDefinition(dir, EmptyRegistry, "delta").error /= "none"
       /\ Nested \in loadable =>
            (ReloadWorkflow(dir, first, "gamma").error = "none" <=> dir.registry /= << >>)
       /\ ListWorkflows(dir, EmptyRegistry, NoState, FALSE) = UNION Range(WorkflowsByCategory(dir, EmptyRegistry))
       /\ \A file \in loadable : ValidateWorkflow(dir, first, file.definition.name) = {}
       /\ Initialize(dir, first) = first

\* A definition registered before the registry is initialised gives way to the
\* file of its name, one registered afterwards stays; a workflow that was
\* unregistered is found again by the next lookup, though it is no longer listed.
ASSUME RegisteredAndUnregistered ==
  \A dir \in Directories : Plain \in Range(dir.files) =>
    LET mine == [Named("alpha") EXCEPT !.enabled = FALSE]
        first == Initialize(dir, EmptyRegistry)
    IN /\ GetDefinition(dir, RegisterWorkflow(EmptyRegistry, mine), "alpha").definition = Plain.definition
       /\ GetDefinition(dir, RegisterWorkflow(first, mine), "alpha").definition = mine
       /\ GetDefinition(dir, UnregisterWorkflow(first, "alpha"), "alpha").error = "none"
       /\ "alpha" \notin ListWorkflows(dir, UnregisterWorkflow(first, "alpha"), NoState, FALSE)
       /\ ReloadWorkflow(dir, RegisterWorkflow(first, mine), "alpha").definition = Plain.definition
=============================================================================
