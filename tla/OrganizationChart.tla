------------------------- MODULE OrganizationChart -------------------------
(***************************************************************************)
(* The organization chart the company builds draw from the registry: the   *)
(* hierarchy (company/hierarchy.py), the relationships added to it         *)
(* (company/relationships.py), the role definitions (company/roles.py) and *)
(* the analysis of the reporting lines (company/reporting.py,              *)
(* company/models.py).  Nothing is kept between two builds: a chart is a   *)
(* function of the registry.                                               *)
(*                                                                         *)
(* A registry is a record of the sequences executives, board, committees,  *)
(* departments, specialists and workflows.  A graph is a record of nodes,  *)
(* a function from node ids to their type and level, and edges, a sequence *)
(* of records that go from the subordinate to the manager.                 *)
(***************************************************************************)
EXTENDS Naturals, Sequences, FiniteSets, SequencesExt, FiniteSetsExt, Functions

CONSTANTS
  NoName,       \* a name the registry leaves out
  Slug,         \* what make_id makes of a name: two names may share a slug
  Keywords      \* the keywords that occur in a title

Id(kind, name) == <<kind, Slug[name]>>

BoardId == <<"board", "board_of_directors">>       \* a slug no member has

\* The elements of a set in some order.
Listed(S) == FoldSet(LAMBDA x, seq : Append(seq, x), << >>, S)

Node(type, level) == [type |-> type, level |-> level]

Edge(from, to, kind) == [from |-> from, to |-> to, kind |-> kind]

\* add_node replaces a node of the same id.
WithNode(g, id, node) == [g EXCEPT !.nodes = (id :> node) @@ @]

WithEdge(g, edge) == [g EXCEPT !.edges = Append(@, edge)]

Has(g, id) == id \in DOMAIN g.nodes

HasEdge(g, from, to, kind) == Edge(from, to, kind) \in Range(g.edges)

EmptyGraph == [nodes |-> << >>, edges |-> << >>]

\* Apply a step to a graph for every element of a sequence, in its order.
Along(step(_, _), g, seq) == FoldLeft(step, g, seq)

ParentsOf(g, id) ==
  SelectSeq([i \in DOMAIN g.edges |->
               IF g.edges[i].from = id THEN g.edges[i].to ELSE NoName],
            LAMBDA p : p /= NoName /\ Has(g, p))

ChildrenOf(g, id) ==
  SelectSeq([i \in DOMAIN g.edges |->
               IF g.edges[i].to = id THEN g.edges[i].from ELSE NoName],
            LAMBDA c : c /= NoName /\ Has(g, c))

----------------------------------------------------------------------------
(* The hierarchy.                                                          *)

Named(people) == SelectSeq(people, LAMBDA p : p.name /= NoName)

BoardLevel(registry) ==
  LET Seat(g, name) ==
        WithEdge(WithNode(g, Id("board", name), Node("board", 0)),
                 Edge(Id("board", name), BoardId, "member_of"))
  IN Along(Seat, WithNode(EmptyGraph, BoardId, Node("board", 0)), registry.board)

\* The last executive with the title wins; a reports_to that names no executive
\* falls back to the board, and an executive without one reports to the CEO.
ExecutiveLevel(registry, g0) ==
  LET executives == Named(registry.executives)
      names == {ex.name : ex \in Range(executives)}
      chiefs == SelectSeq(executives, LAMBDA ex : ex.ceo)
      Appear(g, ex) == WithNode(g, Id("exec", ex.name),
                                Node("executive", IF ex.ceo THEN 0 ELSE 1))
      Report(g, ex) ==
        LET self == Id("exec", ex.name)
            boss == IF ex.reports_to \in names THEN Id("exec", ex.reports_to) ELSE BoardId
        IN IF ex.reports_to /= NoName THEN WithEdge(g, Edge(self, boss, "reports_to"))
           ELSE IF chiefs = << >> \/ Id("exec", Last(chiefs).name) = self THEN g
           ELSE WithEdge(g, Edge(self, Id("exec", Last(chiefs).name), "reports_to"))
  IN Along(Report, Along(Appear, g0, executives), executives)

\* The last executive of a department leads it.
DepartmentLevel(registry, g0) ==
  LET HeadsOf(d) == SelectSeq(Named(registry.executives), LAMBDA ex : ex.department = d)
      Found(g, d) ==
        LET placed == WithNode(g, Id("dept", d.name), Node("department", 1))
            heads == HeadsOf(d.name)
        IN IF heads = << >> THEN placed
           ELSE WithEdge(placed, Edge(Id("dept", d.name), Id("exec", Last(heads).name), "leads"))
  IN Along(Found, g0, registry.departments)

RoleLevel(registry, g0) ==
  LET Staff(g, d) ==
        LET Post(h, role) ==
              WithEdge(WithNode(h, <<"role", d.name, Slug[role]>>, Node("role", 2)),
                       Edge(<<"role", d.name, Slug[role]>>, Id("dept", d.name), "member_of"))
        IN Along(Post, g, d.roles)
  IN Along(Staff, g0, registry.departments)

SpecialistLevel(registry, g0) ==
  LET Hire(g, s) == WithNode(g, Id("specialist", s.name), Node("specialist", 3))
  IN Along(Hire, g0, Named(registry.specialists))

\* Breadth first from every root, at distance 0 whatever the root's level is.
Roots(g) == {id \in DOMAIN g.nodes : g.nodes[id].level = 0 \/ ParentsOf(g, id) = << >>}

RECURSIVE Deepened(_, _, _)
Deepened(g, queue, visited) ==
  IF queue = << >> THEN g
  ELSE LET id == Head(queue)[1]
           level == Head(queue)[2]
           deeper == IF level > g.nodes[id].level THEN [g EXCEPT !.nodes[id].level = level] ELSE g
           fresh == Listed(Range(ChildrenOf(g, id)) \ visited)
       IN Deepened(deeper,
                   Tail(queue) \o [i \in DOMAIN fresh |-> <<fresh[i], level + 1>>],
                   visited \union Range(fresh))

ResolveLevels(g) ==
  LET roots == Listed(Roots(g))
  IN Deepened(g, [i \in DOMAIN roots |-> <<roots[i], 0>>], Range(roots))

Hierarchy(registry) ==
  LET board == BoardLevel(registry)
      led == DepartmentLevel(registry, ExecutiveLevel(registry, board))
  IN ResolveLevels(SpecialistLevel(registry, RoleLevel(registry, led)))

----------------------------------------------------------------------------
(* The relationships.                                                      *)

ExecutiveDepartmentLinks(registry, g0) ==
  LET Link(g, ex) ==
        LET d == Id("dept", ex.department)
            e == Id("exec", ex.name)
        IN IF /\ ex.department /= NoName
              /\ Has(g, e) /\ Has(g, d) /\ ~HasEdge(g, d, e, "leads")
           THEN WithEdge(g, Edge(d, e, "leads"))
           ELSE g
  IN Along(Link, g0, Named(registry.executives))

CommitteeLinks(registry, g0) ==
  LET Convene(g, c) ==
        LET id == Id("committee", c.name)
            there == IF Has(g, id) THEN g ELSE WithNode(g, id, Node("committee", 0))
            chaired == IF c.chair /= NoName /\ Has(there, Id("board", c.chair))
                       THEN WithEdge(there, Edge(Id("board", c.chair), id, "chairs"))
                       ELSE there
            Join(h, m) ==
              IF Has(h, Id("board", m)) /\ ~HasEdge(h, Id("board", m), id, "member_of")
              THEN WithEdge(h, Edge(Id("board", m), id, "member_of")) ELSE h
        IN Along(Join, chaired, c.members)
  IN Along(Convene, g0, registry.committees)

\* A declared department that exists, else the first department whose name is
\* in the expertise or in the title of one of its own roles.
Placement(registry, g, s) ==
  LET matching == SelectSeq(registry.departments, LAMBDA d :
                    /\ Has(g, Id("dept", d.name))
                    /\ d.name \in s.words \/ d.eponymous)
  IN IF s.department /= NoName /\ Has(g, Id("dept", s.department))
     THEN Id("dept", s.department)
     ELSE IF matching /= << >> THEN Id("dept", Head(matching).name) ELSE NoName

SpecialistPlacements(registry, g0) ==
  LET Place(g, s) ==
        LET where == Placement(registry, g, s)
        IN IF where = NoName THEN g
           ELSE WithEdge(g, Edge(Id("specialist", s.name), where, "member_of"))
  IN Along(Place, g0, Named(registry.specialists))

\* One edge per step of the workflow and department it mentions.
WorkflowLinks(registry, g0) ==
  LET Involve(g, w) ==
        LET id == Id("workflow", w.name)
            there == IF Has(g, id) THEN g ELSE WithNode(g, id, Node("workflow", 0))
            Step(h, mentioned) ==
              LET hit == SelectSeq(registry.departments, LAMBDA d :
                           d.name \in mentioned /\ Has(h, Id("dept", d.name)))
              IN [h EXCEPT !.edges =
                   @ \o [i \in DOMAIN hit |-> Edge(id, Id("dept", hit[i].name), "involves")]]
        IN Along(Step, there, w.steps)
  IN Along(Involve, g0, Named(registry.workflows))

\* The direction of these edges is the iteration order of a set of names.
CrossFunctional(registry, g0) ==
  LET heads == SelectSeq(Named(registry.executives), LAMBDA ex :
                 ex.department /= NoName /\ ex.reports_to /= NoName)
      Shared(boss) == {ex.department : ex \in {h \in Range(heads) : h.reports_to = boss}}
      Meet(g, boss) ==
        LET names == Listed(Shared(boss))
            pairs == Listed({p \in (DOMAIN names) \X (DOMAIN names) :
                                 /\ p[1] < p[2]
                                 /\ Has(g, Id("dept", names[p[1]]))
                                 /\ Has(g, Id("dept", names[p[2]]))})
        IN [g EXCEPT !.edges = @ \o [i \in DOMAIN pairs |->
              Edge(Id("dept", names[pairs[i][1]]), Id("dept", names[pairs[i][2]]),
                   "communicates_with")]]
  IN Along(Meet, g0, Listed({h.reports_to : h \in Range(heads)}))

ResolveAll(registry, g) ==
  LET seated == CommitteeLinks(registry, ExecutiveDepartmentLinks(registry, g))
  IN CrossFunctional(registry, WorkflowLinks(registry, SpecialistPlacements(registry, seated)))

Unplaced(registry, g) ==
  {s.name : s \in {x \in Range(Named(registry.specialists)) : Placement(registry, g, x) = NoName}}

----------------------------------------------------------------------------
(* The analysis.                                                           *)

\* The reporting chain prefers a reports_to edge.  The node the chain starts
\* from is not among the visited ones, so in a cycle it comes twice.
Superior(g, id) ==
  LET bosses == SelectSeq(ParentsOf(g, id), LAMBDA p : HasEdge(g, id, p, "reports_to"))
  IN IF bosses /= << >> THEN Head(bosses)
     ELSE IF ParentsOf(g, id) /= << >> THEN Head(ParentsOf(g, id)) ELSE NoName

RECURSIVE ChainFrom(_, _, _)
ChainFrom(g, id, visited) ==
  LET next == Superior(g, id)
  IN IF next = NoName \/ next \in visited THEN << >>
     ELSE <<next>> \o ChainFrom(g, next, visited \union {next})

ReportingChain(g, id) == <<id>> \o ChainFrom(g, id, {})

\* The direct and indirect reports, each counted once.
RECURSIVE Counted(_, _, _)
Counted(g, todo, visited) ==
  IF todo = << >> THEN visited
  ELSE IF Head(todo) \in visited THEN Counted(g, Tail(todo), visited)
  ELSE Counted(g, ChildrenOf(g, Head(todo)) \o Tail(todo), visited \union {Head(todo)})

TotalSpan(g, id) == Cardinality(Counted(g, ChildrenOf(g, id), {}))

DirectReports(g, id) ==
  Cardinality({i \in DOMAIN g.edges : g.edges[i].to = id /\ g.edges[i].kind = "reports_to"})

Orphans(g) ==
  {id \in DOMAIN g.nodes :
     g.nodes[id].level > 0 /\ \A e \in Range(g.edges) : id \notin {e.from, e.to}}

\* The depth-first search behind detect_cycles: an edge to a node of the
\* current path closes a cycle; a node is entered once.
RECURSIVE Searched(_, _, _, _)
Searched(g, todo, path, state) ==
  IF todo = << >> THEN state
  ELSE LET child == Head(todo)
           back == [state EXCEPT !.cycles = @ \union {<<Last(path), child>>}]
           inside == Searched(g, ParentsOf(g, child), Append(path, child),
                              [state EXCEPT !.visited = @ \union {child}])
       IN Searched(g, Tail(todo), path,
            IF child \notin state.visited THEN inside
            ELSE IF child \in Range(path) THEN back ELSE state)

DetectCycles(g) ==
  LET Start(state, id) ==
        IF id \in state.visited THEN state
        ELSE Searched(g, ParentsOf(g, id), <<id>>, [state EXCEPT !.visited = @ \union {id}])
  IN FoldLeft(Start, [visited |-> {}, cycles |-> {}], Listed(DOMAIN g.nodes)).cycles

MaxDepth(g) == Max({g.nodes[id].level : id \in DOMAIN g.nodes} \union {0})

\* The warnings of analyse: the anomalies by name, without their wording.
Anomalies(g) ==
  LET managers == {id \in DOMAIN g.nodes : DirectReports(g, id) > 0}
  IN [wide |-> {id \in managers : DirectReports(g, id) > 15},
      deep |-> MaxDepth(g) > 8,
      orphans |-> Orphans(g),
      cyclic |-> DetectCycles(g) /= {}]

\* What a superior reaches: the graph of a node and everything above it.
RECURSIVE Climbed(_, _, _)
Climbed(g, stack, visited) ==
  IF stack = << >> THEN visited
  ELSE LET id == Last(stack)
           managers == [i \in DOMAIN g.edges |-> IF g.edges[i].from = id THEN g.edges[i].to ELSE NoName]
       IN Climbed(g, Front(stack) \o
                       (IF id \in visited \/ ~Has(g, id) THEN << >>
                        ELSE SelectSeq(managers, LAMBDA m : m /= NoName /\ m \notin visited)),
                  IF Has(g, id) THEN visited \union {id} ELSE visited)

Subgraph(g, id) ==
  LET reached == Climbed(g, <<id>>, {})
  IN [nodes |-> Restrict(g.nodes, reached),
      edges |-> SelectSeq(g.edges, LAMBDA e : e.from \in reached)]

\* The first keyword of a table that is in the title decides.
FirstOf(table, title, otherwise) ==
  LET hits == SelectSeq(table, LAMBDA row : row[1] \in Keywords[title])
  IN IF hits = << >> THEN otherwise ELSE Head(hits)[2]

ClassifySeniority(title) ==
  FirstOf(<< <<"chief", "c-suite">>, <<"vp", "vp">>, <<"vice president", "vp">>,
             <<"director", "director">>, <<"senior", "senior">>, <<"staff", "staff">>,
             <<"lead", "senior">>, <<"principal", "staff">>, <<"manager", "manager">>,
             <<"junior", "junior">>, <<"associate", "junior">>, <<"intern", "intern">> >>,
          title, "mid")

EstimateAuthority(title) ==
  FirstOf(<< <<"chief", "company-wide">>, <<"vp", "department-wide">>,
             <<"vice president", "department-wide">>, <<"director", "team-wide">>,
             <<"manager", "project-level">>, <<"senior", "domain-level">>,
             <<"staff", "domain-level">>, <<"lead", "domain-level">> >>,
          title, "task-level")

Enriched(title, department, executive) ==
  [title |-> title, department |-> department, executive |-> executive,
   seniority |-> ClassifySeniority(title), authority |-> EstimateAuthority(title)]

\* One role per role of a department and one per executive with a title.
Roles(registry) ==
  LET Posts(d) == [i \in DOMAIN d.roles |-> Enriched(d.roles[i], d.name, NoName)]
      titled == SelectSeq(Named(registry.executives), LAMBDA ex : ex.title /= NoName)
      Office(ex) == Enriched(ex.title, IF ex.department = NoName THEN "executive" ELSE ex.department,
                             ex.name)
  IN FlattenSeq([i \in DOMAIN registry.departments |-> Posts(registry.departments[i])])
       \o [i \in DOMAIN titled |-> Office(titled[i])]

Generate(registry) ==
  LET graph == ResolveAll(registry, Hierarchy(registry))
  IN [graph |-> graph, roles |-> Roles(registry),
      anomalies |-> Anomalies(graph), unplaced |-> Unplaced(registry, graph)]
=============================================================================
