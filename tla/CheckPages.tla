----------------------------- MODULE CheckPages -----------------------------
(***************************************************************************)
(* Small boards, executives and configurations against what the pages made *)
(* of them should say.  The assumptions are evaluated by the runs whose    *)
(* module extends this one.                                                *)
(***************************************************************************)
EXTENDS CompanyPages

WrittenName(words, sep, dot) == [words |-> words, upper |-> TRUE, sep |-> sep, dot |-> dot]

PeopleNames == {WrittenName(w, sep, dot) : w \in {"ada", "bob"}, sep \in {" ", "-", "_"}, dot \in BOOLEAN}

AuditCommittee == WrittenName("audit committee", " ", FALSE)

SeatOn(name) == [name |-> name, role |-> {"chair"}, committees |-> {"audit"}]

CommitteeOf(name, chair, members) == [name |-> name, purpose |-> Blank, chair |-> chair, members |-> members]

Registered(members, board, committees, executives) ==
  [members |-> members, board |-> board, committees |-> committees, meetings |-> << >>, executives |-> executives]

Given(holds) == [state |-> "given", holds |-> holds]

Absent == [state |-> "missing", holds |-> Blank]

\* The configuration as it is shipped keeps the sections beside "governance".
BoardConfig(top, governance, templates, charters) ==
  "board" :> Given([top |-> top, governance |-> governance]) @@ "committees" :> Given(templates)
    @@ "charters" :> Given(charters) @@ "meetings" :> Given([months |-> <<"March", "June", "March">>, events |-> <<"retreat">>])
    @@ "voting" :> Absent

Shipped == BoardConfig({"governance"} \union GovernanceKeys, {"framework", "board_size"},
                       <<[name |-> AuditCommittee, purpose |-> "oversee"]>>, <<AuditCommittee>>)

ChartOf(names) == {ChartId("board", n) : n \in names}

\* Every member who serves or chairs gets an edge, except those whose name has a
\* dash or a dot: the chart names their node otherwise.
ASSUME EdgesOfThePlainlyNamed ==
  \A m, n \in PeopleNames :
    LET registry == Registered(<<SeatOn(m), SeatOn(n)>>, << >>, <<CommitteeOf(AuditCommittee, m, <<m, n>>)>>, << >>)
        packet == BoardPacket(registry, Shipped)
        applied == ApplyToGraph(packet, ChartOf({m, n}))
        Plain(name) == name.sep /= "-" /\ ~name.dot
        Found(name) == NodesFor(name, applied.ids) /= {}
    IN /\ Len(packet.updates) = 3
       /\ Plain(m) => Found(m)
       /\ \A i \in DOMAIN applied.edges : applied.edges[i][1] \in applied.ids /\ applied.edges[i][2] \in applied.ids
       /\ ~Plain(m) /\ BoardSlug(m) \notin {Joined(Undotted(n), {" "})} => ~Found(m)
       /\ Len(applied.edges) = Len(SelectSeq(packet.updates, LAMBDA u : Found(u[1])))

\* A committee of the registry gets its purpose and its duties from the template
\* whatever its capitals, and its chair and members in the charter only under
\* the very name of the charter's template.
ASSUME CommitteesMeetTemplates ==
  \A upper \in BOOLEAN : \A sep \in {" ", "-"} :
    LET name == [WrittenName("audit committee", sep, FALSE) EXCEPT !.upper = upper]
        ada == WrittenName("ada", " ", FALSE)
        registry == Registered(<<SeatOn(ada)>>, << >>, <<CommitteeOf(name, ada, <<ada>>)>>, << >>)
        packet == BoardPacket(registry, Shipped)
    IN /\ packet.committees[1].duties = (sep = " ")
       /\ (packet.charters[1].chair = ada) <=> (name = AuditCommittee)
       /\ GovernancePage(packet).committees[1].members = 1
       /\ ChartersPage(packet)[1].appointed <=> (name = AuditCommittee)

\* Without anything in the registry the pages are seeded: committees from the
\* templates, meetings from the months, a month that comes twice under its first
\* quarter; without a configuration either there is nothing to seed from.
ASSUME EmptyBoardsAreSeeded ==
  LET nobody == Registered(<< >>, <<[name |-> Blank, role |-> {}]>>, << >>, << >>)
      packet == BoardPacket(nobody, Shipped)
      bare == BoardPacket(nobody, [f \in {BoardFilesRead[i] : i \in 1..5} |-> Absent])
  IN /\ Len(packet.committees) = 1 /\ packet.updates = << >>
     /\ Mapped(packet.meetings, LAMBDA m : m.title) = <<1, 2, 1, "retreat">>
     /\ BoardPage(packet).members = <<"Unnamed">> /\ packet.profiles[1].expertise = {"governance"}
     /\ bare.committees = << >> /\ bare.meetings = << >> /\ bare.charters = << >> /\ bare.warnings = << >>
     /\ ~BoardPage(bare).summary /\ ValidateBoard(nobody, FALSE) = {"No directory"}

\* What stands beside "governance" in the board's file never reaches the
\* governance page, which asks for it below that key: every value there is the
\* default, while the profiles use the configured one.
ASSUME GovernanceShowsDefaults ==
  LET ada == WrittenName("ada", " ", FALSE)
      packet == BoardPacket(Registered(<<SeatOn(ada)>>, << >>, << >>, << >>), Shipped)
  IN /\ Range(GovernancePage(packet).values) = {"default"}
     /\ packet.profiles[1].target = "configured"

\* Every keyword of a member's role and of its committees adds its skills, and
\* nobody is without one.
ASSUME SkillsFollowKeywords ==
  \A role \in SUBSET DOMAIN RoleSkills : \A committees \in SUBSET DOMAIN CommitteeSkills :
    LET skills == InferExpertise(role, committees)
    IN /\ skills /= {}
       /\ role = {} => "governance" \in skills
       /\ \A w \in role : RoleSkills[w] \subseteq skills
       /\ \A w \in committees : CommitteeSkills[w] \subseteq skills

\* Every named executive has a package; those whose names share a slug share the
\* directory, and only the last of them is left; two that differ in capitals only
\* also share the prompt of the first.
ASSUME PackagesBySlug ==
  \A m, n \in PeopleNames \union {Lower(WrittenName("ada", " ", FALSE)), Blank} :
    LET Executive(name, title) == [name |-> name, title |-> title, reports_to |-> Blank]
        registry == Registered(<< >>, << >>, << >>, <<Executive(m, "chief executive officer"), Executive(n, "editor")>>)
        packages == Packages(registry, ExecutiveTemplates)
        written == WrittenPackages(packages)
    IN /\ Len(packages) = Len(SelectSeq(<<m, n>>, LAMBDA x : x /= Blank))
       /\ DOMAIN written = {packages[i].slug : i \in DOMAIN packages}
       /\ \A i \in DOMAIN packages : written[packages[i].slug] = packages[i]
            \/ \E j \in DOMAIN packages : j > i /\ packages[j].slug = packages[i].slug
       /\ \A i \in DOMAIN packages : packages[i].prompt.name = packages[i].name
            \/ (Lower(packages[i].prompt.name) = Lower(packages[i].name) /\ i = 2)

----------------------------------------------------------------------------
WorkflowKeys == <<"workflows/hire", "workflows/review">>

Everything == UNION {Range(p.reads) : p \in {Roadmap, Changelog, ProjectStatus, BoardDocument, DecisionDocument, MemoryDocument}}
                \union {"workflows/workflow_registry"} \union Range(WorkflowKeys)

AllKeys == {"name", "mission", "objectives", "initiatives", "description", "items", "framework", "departments", "governance",
            "committees", "annual_schedule", "voting", "expectations", "workflows", "states", "default_approvers", "rules",
            "risk_levels", "risk_factors", "escalation_triggers", "decision_flows", "version", "namespaces", "memory_types",
            "retention", "embeddings", "search"}

ConfigOf(state, value) == [f \in Everything |-> [state |-> state, keys |-> [k \in AllKeys |-> value]]]

Full == ConfigOf("given", "mapping")

\* With every file there is nothing to warn of; one that is missing or does not
\* parse is named as often as it is read, the strategy twice; one that holds no
\* mapping is not named at all.  What the other files give still shows.
ASSUME WarningsNameTheMissing ==
  \A f \in Everything : \A state \in {"missing", "broken", "scalar"} :
    LET config == [Full EXCEPT ![f].state = state]
        made == GeneratePages(config, WorkflowKeys, << >>)
        full == GeneratePages(Full, WorkflowKeys, << >>)
        reads == FlattenSeq(Mapped(PagesOf(config, WorkflowKeys), LAMBDA p : p.reads))
    IN /\ full.warnings = << >>
       /\ Range(made.warnings) = IF state = "scalar" THEN {} ELSE {f}
       /\ state /= "scalar" => Len(made.warnings) = IF f = "company/strategy" THEN 2 ELSE 1
       /\ \A i \in 1..7 : made.shown[i] \subseteq full.shown[i]
       /\ \A i \in 1..7 : f \notin Range(PagesOf(Full, WorkflowKeys)[i].reads) => made.shown[i] = full.shown[i]
       /\ GeneratePages(config, WorkflowKeys, made.warnings).warnings = made.warnings \o made.warnings

\* The validation looks at directories: it passes where every file is missing,
\* and then the pages still come out, with their fixed sections and empty tables.
ASSUME ValidatedIsNotWarned ==
  LET made == GeneratePages(ConfigOf("missing", "empty"), << >>, << >>)
  IN /\ ValidatePages(SourceDirectories) = {}
     /\ Len(made.warnings) = 16
     /\ \A i \in 1..7 : i /= 2 => made.shown[i] /= {}

\* The documents and the board's pages of one build may name the company
\* differently; a manifest made up from the registry makes them agree.
ASSUME NamesOfTheCompany ==
  \A a, b, c, d \in {Blank, "one", "two"} :
    LET vision == [company_name |-> c, name |-> d]
    IN /\ CompanyName(MinimalManifest(vision), vision) = BoardName(vision)
       /\ (a = Blank /\ b = Blank) => CompanyName([company_name |-> a, name |-> b], vision) = BoardName(vision)
       /\ (a = "one" /\ c = "two") => CompanyName([company_name |-> a, name |-> b], vision) /= BoardName(vision)
=============================================================================
