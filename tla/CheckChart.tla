----------------------------- MODULE CheckChart ------------------------------
(***************************************************************************)
(* The organization charts of small registries, and the reporting lines of *)
(* every graph of three nodes, against what they are meant to say.  The    *)
(* assumptions are evaluated by the runs whose module extends this one.    *)
(***************************************************************************)
EXTENDS Naturals, Sequences, FiniteSets, SequencesExt, FiniteSetsExt, Functions

CONSTANT Nobody

Words == {"a", "b", "c", "x", "y", "z", "r", "v"}

Chart == INSTANCE OrganizationChart WITH
           NoName <- Nobody,
           Slug <- [n \in Words |-> n],
           Keywords <- [n \in Words |-> {}]

\* Titles that are the sets of their words.
Ranks == {"chief", "vp", "director", "senior", "lead", "manager", "junior"}
Titles == SUBSET (Ranks \union {"officer"})

Ladder == INSTANCE OrganizationChart WITH
            NoName <- Nobody,
            Slug <- [t \in Titles |-> t],
            Keywords <- [t \in Titles |-> t \intersect Ranks]

\* Three executives, two departments of which only the first has a role, one
\* specialist and one workflow.
Registry(staff, where, words, mentioned) ==
  LET E(n, f) == [name |-> n, title |-> n, ceo |-> f.ceo, reports_to |-> f.reports_to,
                  department |-> f.department]
  IN [executives |-> <<E("a", staff[1]), E("b", staff[2]), E("c", staff[3])>>,
      board |-> <<"v">>,
      committees |-> <<[name |-> "z", chair |-> "v", members |-> <<"v", "a">>]>>,
      departments |-> <<[name |-> "x", roles |-> <<"r">>, eponymous |-> FALSE],
                        [name |-> "y", roles |-> << >>, eponymous |-> FALSE]>>,
      specialists |-> <<[name |-> "a", department |-> where, words |-> words]>>,
      workflows |-> <<[name |-> "z", steps |-> <<mentioned>>]>>]

Staffs ==
  LET Lead == [ceo : BOOLEAN, reports_to : {Nobody, "b", "z"}, department : {Nobody}]
      Staff == [ceo : {FALSE}, reports_to : {Nobody, "a", "b", "c"}, department : {Nobody, "x"}]
  IN {<<lead, e, f>> : lead \in Lead, e \in Staff, f \in Staff}

Registries ==
  {Registry(staff, Nobody, {}, {}) : staff \in Staffs}
    \union {Registry([i \in 1..3 |-> [ceo |-> FALSE, reports_to |-> Nobody, department |-> Nobody]],
                     where, words, mentioned) :
              where \in {Nobody, "x", "z"}, words \in SUBSET {"x", "y"},
              mentioned \in SUBSET {"x", "y"}}

----------------------------------------------------------------------------
Above(g) == {<<e.from, e.to>> : e \in Range(g.edges)}

\* Whether a path of edges leads from a node of from to a node of to.
RECURSIVE Upwards(_, _)
Upwards(g, from) ==
  LET further == from \union {p[2] : p \in {q \in Above(g) : q[1] \in from}}
  IN IF further = from THEN from ELSE Upwards(g, further)

Superiors(g, n) == Upwards(g, {p[2] : p \in {q \in Above(g) : q[1] = n}})

\* The nodes within 0, 1, 2, ... edges of the roots.
RECURSIVE Within(_, _, _)
Within(g, found, last) ==
  LET next == last \union {p[1] : p \in {q \in Above(g) : q[2] \in last}}
  IN IF next = last THEN found ELSE Within(g, found \union {next}, next)

\* The level a kind of node is given before the levels are resolved.
Placed(n) == CASE n[1] \in {"exec", "dept"} -> 1 [] n[1] = "role" -> 2
               [] n[1] = "specialist" -> 3 [] OTHER -> 0

Cyclic(g) == \E n \in DOMAIN g.nodes : n \in Superiors(g, n)

\* Every graph of three nodes, its edges in some order.
Triangles ==
  {[nodes |-> [n \in 1..3 |-> Chart!Node("executive", 1)],
    edges |-> [i \in 1..Cardinality(es) |-> Chart!Edge(Chart!Listed(es)[i][1], Chart!Listed(es)[i][2],
                                                       "reports_to")]] :
     es \in SUBSET ((1..3) \X (1..3))}

\* OrgGraph.detect_cycles reports something exactly when the graph has a cycle.
ASSUME CyclesAreFound == \A g \in Triangles : (Chart!DetectCycles(g) /= {}) <=> Cyclic(g)

\* The chain of a node follows the edges, and without a cycle it ends at a
\* node without superior and visits none twice.
ASSUME ChainsEndAtTheTop ==
  \A g \in Triangles : \A n \in 1..3 :
    LET chain == Chart!ReportingChain(g, n)
    IN /\ Head(chain) = n
       /\ \A i \in 1..(Len(chain) - 1) : <<chain[i], chain[i + 1]>> \in Above(g)
       /\ ~Cyclic(g) => /\ Superiors(g, Last(chain)) = {}
                        /\ Cardinality(Range(chain)) = Len(chain)

\* The subgraph of a node is the node and all its superiors, with their edges.
ASSUME SubgraphIsTheWayUp ==
  \A g \in Triangles : \A n \in 1..3 :
    LET sub == Chart!Subgraph(g, n)
    IN /\ DOMAIN sub.nodes = {n} \union Superiors(g, n)
       /\ Range(sub.edges) = {e \in Range(g.edges) : e.from \in DOMAIN sub.nodes}

\* Who decides for the company, a department or a team is ranked above the
\* seniors; a keyword of a lower rank in the same title never lowers one.
ASSUME RanksAgree ==
  \A title \in Titles :
    LET seniority == Ladder!ClassifySeniority(title)
        authority == Ladder!EstimateAuthority(title)
    IN /\ (authority = "company-wide") <=> (seniority = "c-suite")
       /\ (authority = "department-wide") <=> (seniority = "vp")
       /\ (authority = "team-wide") <=> (seniority = "director")
       /\ seniority \in {"senior", "staff"} => authority \in {"project-level", "domain-level"}
       /\ authority = "task-level" <=> seniority \in {"mid", "junior", "intern"}

\* The total span counts the nodes whose superiors include the manager, each
\* once: also the manager, in a cycle.
ASSUME SpanCountsTheTeam ==
  \A g \in Triangles : \A n \in 1..3 :
    Chart!TotalSpan(g, n) = Cardinality({m \in 1..3 : n \in Superiors(g, m)})

\* The levels: a node deeper than it was placed is at its distance from the
\* nearest root, and only a node behind a cycle of superiors is never reached.
ASSUME LevelsAreDistances ==
  \A r \in Registries :
    LET g == Chart!Hierarchy(r)
        near == Within(g, {Chart!Roots(g)}, Chart!Roots(g))
    IN \A n \in DOMAIN g.nodes :
         IF \E S \in near : n \in S
         THEN LET hops == Cardinality({S \in near : n \notin S})
              IN /\ g.nodes[n].level >= hops
                 /\ g.nodes[n].level > Placed(n) => g.nodes[n].level = hops
         ELSE \E m \in Superiors(g, n) : m \in Superiors(g, m)

\* A chart warns of a cycle exactly when the lines of its executives close one,
\* a CEO who reports to somebody and the executives who report to nobody, hence
\* to the CEO, included: no relationship added later closes another.
ASSUME CyclesAreReportingCycles ==
  \A r \in Registries :
    LET chief == \E i \in 1..3 : r.executives[i].ceo
        Boss(i) == LET to == r.executives[i].reports_to
                   IN IF to = Nobody /\ chief /\ i /= 1 THEN {1}
                      ELSE {j \in 1..3 : r.executives[j].name = to}
        Over(S) == UNION {Boss(i) : i \in S}
    IN Chart!Generate(r).anomalies.cyclic
         <=> \E i \in 1..3 : i \in Over({i}) \union Over(Over({i})) \union Over(Over(Over({i})))

\* The orphans are the specialists placed nowhere, the executives nobody
\* relates to and the departments without head, role or mention.
ASSUME OrphansAreUnrelated ==
  \A r \in Registries :
    LET chart == Chart!Generate(r)
        people == {id[2] : id \in {o \in chart.anomalies.orphans : o[1] = "specialist"}}
    IN /\ people = chart.unplaced
       /\ Chart!Id("dept", "x") \notin chart.anomalies.orphans
       /\ \A o \in chart.anomalies.orphans : Superiors(chart.graph, o) = {}
=============================================================================
