--------------------------- MODULE DecisionScoring ---------------------------
(***************************************************************************)
(* What the decision engine computes about a decision: its risk            *)
(* (decision/risk.py), the ranking of its options (matrix.py), the route   *)
(* it takes (routing.py), the rule that says who must approve it           *)
(* (approval.py), what the policies make of it (policy.py), and what is    *)
(* told of it afterwards (engine.py, history.py).                          *)
(*                                                                         *)
(* A decision is [category, priority 1..5, scope and owner ("" if there is *)
(* none), budget, named (the risk factors its context names), context (the *)
(* other pairs of its context), options, selected, risk, factors,          *)
(* approval, approvedBy, status, resolved, constraints, created].          *)
(* Scores are counted in tenths and weights in halves.                     *)
(***************************************************************************)
EXTENDS Naturals, Sequences, FiniteSets, SequencesExt, Functions

----------------------------------------------------------------------------
(* Risk.                                                                   *)

Factor(name, weight, category) == [name |-> name, weight |-> weight, category |-> category]

Factors ==
  <<Factor("financial_impact", 6, "financial"), Factor("compliance_risk", 8, "compliance"),
    Factor("reputation_risk", 5, "strategic"), Factor("operational_impact", 4, "operational"),
    Factor("technical_complexity", 3, "technical"), Factor("stakeholder_impact", 4, "social"),
    Factor("time_pressure", 2, "operational"), Factor("data_security", 9, "compliance")>>

Limited(n, bound) == IF n > bound THEN bound ELSE n

\* A stable sort in falling order of what Value says of an element.
Falling(seq, Value(_)) ==
  LET before(i, j) == Value(seq[i]) > Value(seq[j]) \/ (Value(seq[i]) = Value(seq[j]) /\ i < j)
  IN [n \in DOMAIN seq |->
        seq[CHOOSE j \in DOMAIN seq : Cardinality({i \in DOMAIN seq : before(i, j)}) = n - 1]]

BudgetRisk(budget) ==
  Cardinality({threshold \in {10000, 50000, 100000} : budget > threshold})

CategoryRisk(factor, d) ==
  CASE factor.category = "financial" -> BudgetRisk(d.budget)
    [] factor.category = "compliance" /\ d.category = "compliance" -> 4
    [] factor.category = "compliance" /\ d.category = "governance" -> 3
    [] factor.category = "strategic" /\ d.category = "strategic" -> 3
    [] OTHER -> 0

FactorScore(factor, d) ==
  Limited(2 * d.priority + CategoryRisk(factor, d) + (IF factor.name \in d.named THEN 2 ELSE 0), 10)

Total(factors, Value(_)) == FoldLeft(LAMBDA sum, f : sum + Value(f), 0, factors)

FullRisk(factors) == 10 * Total(factors, LAMBDA f : f.weight)

\* The risk is RiskOf / FullRisk: 0 without factors.
RiskOf(factors, d) == Total(factors, LAMBDA f : f.weight * FactorScore(f, d))

\* The factors above one half, highest first and in their own order when equal,
\* whatever their weights; the first five.
TopFactors(factors, d) ==
  LET high == Falling(SelectSeq(factors, LAMBDA f : FactorScore(f, d) > 5), LAMBDA f : FactorScore(f, d))
  IN [i \in 1..Limited(Len(high), 5) |-> high[i].name]

FactorDetails(factors, d) ==
  [i \in DOMAIN factors |-> [score |-> FactorScore(factors[i], d),
                             contribution |-> factors[i].weight * FactorScore(factors[i], d)]]

\* A sum of binary fractions that should meet a threshold may fall short of it:
\* such a risk has either of two levels.
RiskLevels(risk, full) ==
  LET level(n) == <<"very_low", "low", "medium", "high", "critical">>[Limited(n, 4) + 1]
      n == (5 * risk) \div full
  IN {level(n)} \union (IF n > 0 /\ 5 * risk = n * full THEN {level(n - 1)} ELSE {})

----------------------------------------------------------------------------
(* Approval and routes: the first that matches.                            *)

RuleMatches(rule, d) ==
  /\ rule.category \in {"", d.category}
  /\ d.priority >= rule.minPriority
  /\ d.risk <= rule.maxRisk
  /\ rule.conditions \subseteq d.context

FirstRule(rules, d) == SelectInSeq(rules, LAMBDA rule : RuleMatches(rule, d))

NeedsApproval(rules, d) == FirstRule(rules, d) /= 0 => rules[FirstRule(rules, d)].approval

ApproverOf(rules, d) ==
  LET i == FirstRule(rules, d)
  IN IF i = 0 \/ rules[i].approver = "" THEN "board" ELSE rules[i].approver

AutoApproved(rules, d) == FirstRule(rules, d) /= 0 /\ rules[FirstRule(rules, d)].auto

MatchingRules(rules, d) == SelectSeq(rules, LAMBDA rule : RuleMatches(rule, d))

RouteMatches(route, d) ==
  /\ route.category \in {"", d.category}
  /\ d.priority \in route.minPriority..route.maxPriority
  /\ route.conditions \subseteq d.context

RouteOf(routes, d) ==
  LET i == SelectInSeq(routes, LAMBDA route : RouteMatches(route, d))
  IN IF i = 0 THEN "default_handler" ELSE routes[i].destination

\* Ids of routes need not differ; the first is removed.
WithoutRoute(routes, id) ==
  LET i == SelectInSeq(routes, LAMBDA route : route.id = id)
  IN IF i = 0 THEN routes ELSE RemoveAt(routes, i)

----------------------------------------------------------------------------
(* Policies, in the order in which they were added.                        *)

PolicyApplies(policy, d) ==
  /\ policy.enabled
  /\ policy.scope \in {"global", IF d.scope = "" THEN d.category ELSE d.scope}
  /\ d.priority \in policy.minPriority..policy.maxPriority
  /\ policy.category \in {"", d.category}
  /\ d.risk <= policy.maxRisk

\* One policy: the decision, and what is told of it.
Applied(so_far, policy) ==
  LET d == so_far.decision
      Gives(new) == [decision |-> new, told |-> Append(so_far.told, policy.id)]
      what == policy.action
  IN CASE ~PolicyApplies(policy, d) -> so_far
       [] what = "require_approval" -> Gives([d EXCEPT !.approval = TRUE])
       [] what = "auto_approve" -> Gives([d EXCEPT !.approval = FALSE])
       [] what = "add_constraint" /\ policy.value /= "" -> Gives([d EXCEPT !.constraints = Append(@, policy.value)])
       [] what = "set_owner" /\ policy.value /= "" -> Gives([d EXCEPT !.owner = policy.value])
       [] what = "escalate" -> Gives(d)
       [] OTHER -> so_far

ByPriority(policies) == Falling(policies, LAMBDA p : p.priority)

ApplyPolicies(policies, d) ==
  FoldLeft(Applied, [decision |-> d, told |-> << >>], ByPriority(policies))

\* A policy with the id of another takes its place.
WithPolicy(policies, policy) ==
  LET i == SelectInSeq(policies, LAMBDA p : p.id = policy.id)
  IN IF i = 0 THEN Append(policies, policy) ELSE [policies EXCEPT ![i] = policy]

WithoutPolicy(policies, id) == SelectSeq(policies, LAMBDA p : p.id /= id)

PoliciesOf(policies, scope) == SelectSeq(policies, LAMBDA p : scope \in {"", p.scope})

Reasoning(policies, d) ==
  [applied |-> SelectSeq(policies, LAMBDA p : PolicyApplies(p, d)),
   others |-> SelectSeq(policies, LAMBDA p : ~PolicyApplies(p, d))]

----------------------------------------------------------------------------
(* The matrix.  An option is [id, marks]: marks gives tenths for criteria. *)
(* An option without an id goes by its text, that is by its equals.        *)

Key(options, i) ==
  [id |-> options[i].id,
   place |-> IF options[i].id = "" THEN SelectInSeq(options, LAMBDA o : o = options[i]) ELSE 0]

Mark(criterion, option) ==
  LET mark == IF criterion.name \in DOMAIN option.marks THEN option.marks[criterion.name] ELSE 0
  IN IF criterion.beneficial THEN mark ELSE 10 - mark

Weight(criterion, weights) ==
  IF criterion.name \in DOMAIN weights THEN weights[criterion.name] ELSE criterion.weight

OptionScore(criteria, weights, option) ==
  Total(criteria, LAMBDA c : Weight(c, weights) * Mark(c, option))

\* Of options with one id the last counts, at the place of the first.
Evaluated(criteria, weights, options) ==
  IF criteria = << >> THEN [method |-> "no_criteria", scores |-> << >>, ranking |-> << >>]
  ELSE LET names == [i \in DOMAIN options |-> Key(options, i)]
           last(k) == SelectLastInSeq(names, LAMBDA x : x = k)
           scores == [k \in Range(names) |-> OptionScore(criteria, weights, options[last(k)])]
           order == FoldLeft(LAMBDA seen, k : IF k \in Range(seen) THEN seen ELSE Append(seen, k), << >>, names)
       IN [method |-> "weighted_sum", scores |-> scores,
           ranking |-> Falling(order, LAMBDA k : scores[k])]

\* The place of the top option among the options, or 0.
TopOption(criteria, weights, options) ==
  LET ranking == Evaluated(criteria, weights, options).ranking
  IN IF ranking = << >> \/ Head(ranking).id = "" THEN 0
     ELSE SelectInSeq(options, LAMBDA o : o.id = Head(ranking).id)

\* The engine's evaluation: the options that are given or else the decision's.
EvaluateOptions(criteria, weights, d, given) ==
  LET options == IF given = << >> THEN d.options ELSE given
  IN IF options = << >> THEN [method |-> "ValueError", scores |-> << >>, ranking |-> << >>]
     ELSE Evaluated(criteria, weights, options)

----------------------------------------------------------------------------
(* The engine.                                                             *)

\* The risk is known when the rules are asked.
Created(rules, d) ==
  LET rated == [d EXCEPT !.risk = RiskOf(Factors, d), !.factors = TopFactors(Factors, d)]
  IN [rated EXCEPT !.approval = NeedsApproval(rules, rated)]

\* The policies come after the status.
MadeDecision(policies, d, option, approver) ==
  ApplyPolicies(policies,
    [d EXCEPT !.selected = option, !.approvedBy = approver, !.resolved = TRUE,
              !.status = IF d.approval /\ approver = "" THEN "escalated" ELSE "approved"]).decision

Deferred(d) == [d EXCEPT !.status = "deferred"]

\* The first option with the selected id, or the id alone.
Explanation(policies, d) ==
  [status |-> d.status,
   selected |-> SelectInSeq(d.options, LAMBDA o : d.selected /= "" /\ o.id = d.selected),
   levels |-> RiskLevels(d.risk, FullRisk(Factors)),
   required |-> d.approval, approvedBy |-> d.approvedBy,
   resolved |-> d.resolved,
   reasoning |-> Reasoning(policies, d)]

QueryDecisions(decisions, status, category, owner, limit) ==
  LET kept == SelectSeq(decisions, LAMBDA d : /\ status \in {"", d.status}
                                              /\ category \in {"", d.category}
                                              /\ owner \in {"", d.owner})
      newest == Falling(kept, LAMBDA d : d.created)
  IN SubSeq(newest, 1, Limited(Len(newest), limit))

CountBy(decisions, Value(_)) ==
  [v \in {Value(decisions[i]) : i \in DOMAIN decisions} |->
     Len(SelectSeq(decisions, LAMBDA d : Value(d) = v))]

DecisionStatistics(decisions) ==
  [total |-> Len(decisions),
   status |-> CountBy(decisions, LAMBDA d : d.status),
   category |-> CountBy(decisions, LAMBDA d : d.category),
   priority |-> CountBy(decisions, LAMBDA d : d.priority),
   risk |-> Total(decisions, LAMBDA d : d.risk)]      \* over total: the average

-----------------------------------------------------------------------------
(***************************************************************************)
(* Decisions of every priority in four categories with every budget class  *)
(* and some named factors, tables of up to two rules, routes and policies, *)
(* and up to three options under two criteria.  The assumptions are        *)
(* evaluated by the runs whose module extends this one.                    *)
(***************************************************************************)

DecisionWith(category, priority, budget, named) ==
  [category |-> category, priority |-> priority, scope |-> "", owner |-> "", budget |-> budget,
   named |-> named, context |-> {}, options |-> << >>, selected |-> "", risk |-> 0, factors |-> << >>,
   approval |-> TRUE, approvedBy |-> "", status |-> "pending", resolved |-> FALSE,
   constraints |-> << >>, created |-> 0]

Categories == {"strategic", "compliance", "governance", "other"}
Budgets == {0, 10001, 50001, 100001}
SomeNames == {{}, {"time_pressure"}, {"data_security", "compliance_risk"}, {Factors[i].name : i \in DOMAIN Factors}}

SampleDecisions ==
  {DecisionWith(category, priority, budget, named) :
     category \in Categories, priority \in 1..5, budget \in Budgets, named \in SomeNames}

NamesOf(factors) == {factors[i].name : i \in DOMAIN factors}

\* The risk lies between 0 and 1, and grows with the priority, the budget and the
\* factors that are named; a factor is told only if it is above one half, and one
\* that is not told is no higher than any that is.
ASSUME RiskIsMonotone ==
  \A d \in SampleDecisions :
    LET told == Range(TopFactors(Factors, d))
        score == [i \in DOMAIN Factors |-> FactorScore(Factors[i], d)]
    IN /\ RiskOf(Factors, d) \in 0..FullRisk(Factors)
       /\ \A p \in d.priority..5 : \A b \in {x \in Budgets : x >= d.budget} :
            RiskOf(Factors, d) <= RiskOf(Factors, [d EXCEPT !.priority = p, !.budget = b, !.named = NamesOf(Factors)])
       /\ \A i, j \in DOMAIN Factors :
            /\ Factors[i].name \in told => score[i] > 5
            /\ Factors[i].name \in told /\ Factors[j].name \notin told => score[i] >= score[j]
       /\ RiskOf(Factors, d) = Total(FactorDetails(Factors, d), LAMBDA x : x.contribution)
       /\ RiskLevels(RiskOf(Factors, d), FullRisk(Factors)) \subseteq {"low", "medium", "high", "critical", "very_low"}

\* Weights do not order what is told: for every urgent decision outside compliance
\* and governance whose context names nothing, the heaviest factor is left out.
ASSUME HeaviestIsUntold ==
  \A d \in SampleDecisions :
    d.named = {} /\ d.priority >= 3 /\ d.category \in {"strategic", "other"} =>
      "data_security" \notin Range(TopFactors(Factors, d))

----------------------------------------------------------------------------
Rule(category, minPriority, maxRisk, approval, approver) ==
  [category |-> category, minPriority |-> minPriority, maxRisk |-> maxRisk, conditions |-> {},
   approval |-> approval, approver |-> approver, auto |-> ~approval]

SampleRules == {Rule(c, p, r, a, w) : c \in {"", "other"}, p \in {1, 4}, r \in {200, 410}, a \in BOOLEAN, w \in {"", "cto"}}
Tables == {<< >>} \union {<<r>> : r \in SampleRules} \union {<<r, q>> : r, q \in SampleRules}

FewDecisions == {d \in SampleDecisions : d.category \in {"other", "compliance"} /\ d.budget = 0 /\ d.named \in {{}, {"time_pressure"}}}

\* Approval is waived only by a rule that matches and comes before every other
\* that does; without one the board must approve.
ASSUME OnlyRulesWaive ==
  \A rules \in Tables : \A draft \in FewDecisions :
    LET d == Created(rules, draft)
        matching == MatchingRules(rules, d)
    IN /\ d.approval = (matching = << >> \/ Head(matching).approval)
       /\ AutoApproved(rules, d) => ~d.approval
       /\ matching = << >> => ApproverOf(rules, d) = "board"
       /\ ApproverOf(rules, d) \in {"board", "cto"}

\* A rule's limit on the risk says where the rule ends, not what is forbidden: a
\* rule that demands approval up to a risk leaves the riskier decisions to the
\* next one, which may waive it.
ASSUME RiskierMayBeWaived ==
  \E rules \in Tables : \E d, e \in FewDecisions :
    /\ Created(rules, d).risk < Created(rules, e).risk
    /\ Created(rules, d).approval /\ ~Created(rules, e).approval

Route(id, category, from, to, destination) ==
  [id |-> id, category |-> category, minPriority |-> from, maxPriority |-> to, conditions |-> {}, destination |-> destination]

SampleRoutes == {Route(id, c, f, 5, w) : id \in {"r", "s"}, c \in {"", "other"}, f \in {0, 3}, w \in {"x", "y"}}

\* A route that is removed leaves its namesakes behind it; every other decision
\* goes where it went.
ASSUME RoutesInOrder ==
  \A r, q \in SampleRoutes : \A d \in FewDecisions :
    /\ RouteOf(<<r, q>>, d) = IF RouteMatches(r, d) THEN r.destination ELSE RouteOf(<<q>>, d)
    /\ RouteOf(WithoutRoute(<<r, q>>, "r"), d) =
         IF r.id = "r" THEN RouteOf(<<q>>, d) ELSE IF q.id = "r" THEN RouteOf(<<r>>, d) ELSE RouteOf(<<r, q>>, d)

----------------------------------------------------------------------------
PolicyFor(id, scope, priority, action, value) ==
  [id |-> id, scope |-> scope, enabled |-> TRUE, priority |-> priority, minPriority |-> 2, maxPriority |-> 5,
   category |-> "", maxRisk |-> 410, action |-> action, value |-> value]

SamplePolicies(id) ==
  {PolicyFor(id, s, p, a, v) : s \in {"global", "other"}, p \in 0..1,
     a \in {"require_approval", "auto_approve", "set_owner", "escalate", "add_constraint"}, v \in {"", id}}

\* Of the policies that apply, the one of the lowest priority has the last word
\* on approval and owner, though it is asked last because it matters least; what
\* is told is a subsequence of what applies; no policy touches the status.
ASSUME LeastPolicyDecides ==
  \A p \in SamplePolicies("p") : \A q \in SamplePolicies("q") : \A d \in FewDecisions :
    LET done == ApplyPolicies(<<p, q>>, d)
        order == ByPriority(<<p, q>>)
        applied == Reasoning(<<p, q>>, d).applied
        effective == SelectSeq(order, LAMBDA x : PolicyApplies(x, d) /\ x.action \in {"require_approval", "auto_approve"})
        owning == SelectSeq(order, LAMBDA x : PolicyApplies(x, d) /\ x.action = "set_owner" /\ x.value /= "")
    IN /\ done.decision.approval = IF effective = << >> THEN d.approval ELSE Last(effective).action = "require_approval"
       /\ done.decision.owner = IF owning = << >> THEN d.owner ELSE Last(owning).value
       /\ Range(done.told) \subseteq {applied[i].id : i \in DOMAIN applied}
       /\ Cardinality({i \in DOMAIN applied : applied[i].action = "escalate"}) =
            Cardinality({i \in DOMAIN done.told : \E x \in {p, q} : x.id = done.told[i] /\ x.action = "escalate"})
       /\ done.decision.status = d.status

\* A decision that nobody signed is approved only if it needed no approval when
\* it was made; a policy may demand one afterwards, and it stays approved.
ASSUME ApprovedBeforePolicies ==
  /\ \A p \in SamplePolicies("p") : \A d \in FewDecisions : \A approval \in BOOLEAN : \A who \in {"", "cto"} :
       LET made == MadeDecision(<<p>>, [d EXCEPT !.approval = approval], "a", who)
       IN made.status = "approved" <=> (~approval \/ who /= "")
  /\ \E p \in SamplePolicies("p") : \E d \in FewDecisions :
       LET made == MadeDecision(<<p>>, [d EXCEPT !.approval = FALSE], "a", "")
       IN made.status = "approved" /\ Explanation(<<p>>, made).required /\ made.approvedBy = ""

\* A policy of a known id takes its predecessor's place, and removing it leaves
\* the others in order.
ASSUME PoliciesById ==
  \A p, r \in SamplePolicies("p") : \A q \in SamplePolicies("q") :
    /\ WithPolicy(<<p, q>>, r) = <<r, q>>
    /\ WithoutPolicy(WithPolicy(<<q>>, p), "p") = <<q>>
    /\ PoliciesOf(<<p, q>>, "") = <<p, q>>

----------------------------------------------------------------------------
Criteria == <<[name |-> "value", weight |-> 2, beneficial |-> TRUE], [name |-> "cost", weight |-> 1, beneficial |-> FALSE]>>

Options == {[id |-> id, marks |-> [value |-> v, cost |-> c]] : id \in {"a", "b", ""}, v \in {0, 5}, c \in {0, 10}}
           \union {[id |-> "c", marks |-> << >>]}
OptionLists == {<<o>> : o \in Options} \union {<<o, p>> : o, p \in Options} \union {<<o, p, q>> : o, p, q \in Options}

ScoreOf(o) == OptionScore(Criteria, << >>, o)

\* With different ids the top option has the best score, and is the first of
\* those that have it; without criteria nothing is ranked.
ASSUME TopIsBest ==
  \A options \in OptionLists :
    LET top == TopOption(Criteria, << >>, options)
        ids == {options[i].id : i \in DOMAIN options}
    IN Cardinality(ids) = Len(options) /\ "" \notin ids =>
         /\ top \in DOMAIN options
         /\ \A i \in DOMAIN options : ScoreOf(options[i]) <= ScoreOf(options[top])
         /\ \A i \in 1..(top - 1) : ScoreOf(options[i]) < ScoreOf(options[top])
         /\ EvaluateOptions(<< >>, << >>, [options |-> options], << >>).ranking = << >>
         /\ EvaluateOptions(Criteria, << >>, [options |-> << >>], << >>).method = "ValueError"

\* An id that comes twice is ranked by its last option and answered with its
\* first; an option without an id can be the best and is never answered.
ASSUME NamesHideOptions ==
  /\ \E o, p \in Options : /\ o.id = p.id /\ o.id /= "" /\ ScoreOf(o) < ScoreOf(p)
                           /\ TopOption(Criteria, << >>, <<o, p>>) = 1
  /\ \A o \in {x \in Options : x.id = ""} : TopOption(Criteria, << >>, <<o>>) = 0
  /\ \A o \in Options : Len(Evaluated(Criteria, << >>, <<o, o>>).ranking) = 1

----------------------------------------------------------------------------
Recorded(n) ==
  {[DecisionWith(c, 3, 0, {}) EXCEPT !.created = n, !.status = s, !.owner = w] :
     c \in {"other", "strategic"}, s \in {"pending", "deferred"}, w \in {"", "cto"}}

\* A query answers with the newest of what it asks for; every count adds up.
ASSUME NewestOfWhatIsAsked ==
  \A a \in Recorded(1) : \A b \in Recorded(2) : \A status \in {"", "deferred"} : \A owner \in {"", "cto"} :
    LET all == <<a, b>>
        asked == {x \in {a, b} : status \in {"", x.status} /\ owner \in {"", x.owner}}
        one == QueryDecisions(all, status, "", owner, 1)
        numbers == DecisionStatistics(all)
        Sum(f) == Total(SetToSeq(DOMAIN f), LAMBDA x : f[x])
    IN /\ Len(one) = Limited(Cardinality(asked), 1)
       /\ \A i \in DOMAIN one : one[i] \in asked /\ \A x \in asked : x.created <= one[i].created
       /\ Sum(numbers.status) = 2 /\ Sum(numbers.category) = 2 /\ Sum(numbers.priority) = 2
=============================================================================
