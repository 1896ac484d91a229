---------------------------- MODULE CompanyPages ----------------------------
(***************************************************************************)
(* What a company build writes about the board, the executives and the     *)
(* company as a whole, as functions of the registry and the configuration: *)
(* company/board_generator.py, company/executive_generator.py and          *)
(* company/company_docs_generator.py.  Wording and layout are left out: a  *)
(* page is the sections it shows and where their values come from.         *)
(*                                                                         *)
(* A name is a record of its words, whether it has capitals, what is       *)
(* between the words (" ", "-" or "_") and whether it has a dot.           *)
(***************************************************************************)
EXTENDS Naturals, Sequences, FiniteSets, SequencesExt, FiniteSetsExt, Functions

CONSTANT Blank          \* what is not given: a name, a text, a file's key

Lower(name) == [name EXCEPT !.upper = FALSE]

\* Lower case, the given separators replaced by "_".
Joined(name, separators) ==
  IF name.sep \in separators THEN [Lower(name) EXCEPT !.sep = "_"] ELSE Lower(name)

Undotted(name) == [name EXCEPT !.dot = FALSE]

\* How the organisation chart names a board member's node (_make_id), and how
\* the board generator looks for it.
ChartId(kind, name) == <<kind, Undotted(Joined(name, {" "}))>>

BoardSlug(name) == Joined(name, {" ", "-"})

CommitteeId(name) == <<"committee", Joined(name, {" "})>>

OrElse(value, default) == IF value = Blank THEN default ELSE value

FirstWhere(seq, Test(_), default) ==
  LET found == SelectSeq(seq, Test) IN IF found = << >> THEN default ELSE Head(found)

Mapped(seq, Op(_)) == [i \in DOMAIN seq |-> Op(seq[i])]

----------------------------------------------------------------------------
(* The board.  The registry: members, board (raw entries), committees and  *)
(* meetings.  The configuration of the board maps each of five files to    *)
(* its state ("given", "missing", "broken") and what it holds.             *)

BoardFilesRead == <<"board", "committees", "charters", "meetings", "voting">>

\* A file that is missing is not mentioned, one that does not parse is.
BoardWarnings(config) == SelectSeq(BoardFilesRead, LAMBDA f : config[f].state = "broken")

Held(config, file, nothing) == IF config[file].state = "given" THEN config[file].holds ELSE nothing

RoleSkills ==
  "chair" :> {"leadership", "governance", "strategic planning"} @@ "vice chair" :> {"leadership", "governance"}
    @@ "independent director" :> {"governance", "risk management"}
    @@ "non-executive director" :> {"governance", "industry expertise"}

CommitteeSkills ==
  "audit" :> {"finance", "accounting", "risk management"} @@ "compensation" :> {"hr", "compensation", "governance"}
    @@ "ai ethics" :> {"ai ethics", "machine learning", "policy"}
    @@ "nominating" :> {"governance", "leadership", "diversity"} @@ "technology" :> {"technology", "cybersecurity"}

\* From the keywords that occur in the role and in the committees.
InferExpertise(roleWords, committeeWords) ==
  LET ofRole == UNION {RoleSkills[w] : w \in roleWords \intersect DOMAIN RoleSkills}
  IN (IF ofRole = {} THEN {"governance"} ELSE ofRole)
       \union UNION {CommitteeSkills[w] : w \in committeeWords \intersect DOMAIN CommitteeSkills}

Profile(name, expertise, target) == [name |-> name, expertise |-> expertise, target |-> target]

\* Expectations are read from the top of the board's file.
MemberProfiles(registry, config) ==
  LET top == Held(config, "board", [top |-> {}, governance |-> {}]).top
      target == IF "expectations" \in top THEN "configured" ELSE "default"
  IN IF registry.members /= << >>
     THEN Mapped(registry.members, LAMBDA m : Profile(m.name, InferExpertise(m.role, m.committees), target))
     ELSE Mapped(registry.board, LAMBDA e : Profile(OrElse(e.name, "Unnamed"), InferExpertise(e.role, {}), "none"))

CommitteeTemplates(config) == Held(config, "committees", << >>)

\* The last template whose name in lower case is the committee's in lower case,
\* or else its slug.
TemplateOf(config, name) ==
  LET ByKey(key) == LET found == SelectSeq(CommitteeTemplates(config), LAMBDA t : Lower(t.name) = key)
                    IN IF found = << >> THEN Blank ELSE Last(found)
  IN IF ByKey(Lower(name)) /= Blank THEN ByKey(Lower(name)) ELSE ByKey(BoardSlug(name))

CommitteeRecord(name, purpose, chair, members, duties) ==
  [name |-> name, purpose |-> purpose, chair |-> chair, members |-> members, duties |-> duties]

Committees(registry, config) ==
  IF registry.committees /= << >>
  THEN Mapped(registry.committees, LAMBDA c :
         LET template == TemplateOf(config, c.name)
         IN CommitteeRecord(c.name, IF c.purpose = Blank /\ template /= Blank THEN template.purpose ELSE c.purpose,
                            c.chair, c.members, template /= Blank))
  ELSE Mapped(CommitteeTemplates(config), LAMBDA t : CommitteeRecord(t.name, t.purpose, Blank, << >>, TRUE))

\* A charter per template, with the chair and the members of the registry's
\* committee of exactly that name.
Charters(registry, config) ==
  Mapped(Held(config, "charters", << >>), LAMBDA t :
    LET nobody == [chair |-> Blank, members |-> << >>]
        named == FirstWhere(registry.committees, LAMBDA c : c.name = t, nobody)
    IN [committee |-> t, chair |-> named.chair, members |-> named.members])

BoardNames(registry) ==
  IF registry.members /= << >> THEN Mapped(registry.members, LAMBDA m : m.name)
  ELSE Mapped(registry.board, LAMBDA e : e.name)

\* The quarter of a seeded meeting is the place of the month's first mention.
Meetings(registry, config) ==
  LET schedule == Held(config, "meetings", [months |-> << >>, events |-> << >>])
      Quarter(month) == Min({i \in DOMAIN schedule.months : schedule.months[i] = month})
      Seeded(title, kind) == [title |-> title, kind |-> kind, attendees |-> BoardNames(registry)]
  IN IF registry.meetings /= << >> THEN registry.meetings
     ELSE Mapped(schedule.months, LAMBDA m : Seeded(Quarter(m), "board"))
            \o Mapped(schedule.events, LAMBDA e : Seeded(e, "annual"))

\* Who serves on what, in the order the committees list them.
GraphUpdates(committees) ==
  FlattenSeq(Mapped(committees, LAMBDA c :
    Mapped(c.members, LAMBDA m : <<m, CommitteeId(c.name), "serves_on">>)
      \o (IF c.chair = Blank THEN << >> ELSE <<<<c.chair, CommitteeId(c.name), "chairs">>>>)))

BoardPacket(registry, config) ==
  [profiles |-> MemberProfiles(registry, config), committees |-> Committees(registry, config),
   charters |-> Charters(registry, config), meetings |-> Meetings(registry, config),
   updates |-> GraphUpdates(Committees(registry, config)),
   governance |-> Held(config, "board", [top |-> {}, governance |-> {}]).governance,
   voting |-> Held(config, "voting", {}), warnings |-> BoardWarnings(config)]

\* The nodes a name may stand for: the board's, or else any that ends with it.
NodesFor(name, ids) ==
  LET ofBoard == {<<kind, BoardSlug(name)>> : kind \in {"board", "board_member"}} \intersect ids
  IN IF ofBoard /= {} THEN ofBoard ELSE {id \in ids : id[2] = BoardSlug(name)}

\* apply_to_graph: the edges that are added; an update whose name stands for no
\* node is dropped.  There is at most one node for a name in the charts here.
ApplyToGraph(packet, ids) ==
  LET known == ids \union {CommitteeId(packet.committees[i].name) : i \in DOMAIN packet.committees}
      kept == SelectSeq(packet.updates, LAMBDA u : NodesFor(u[1], known) /= {})
  IN [ids |-> known,
      edges |-> Mapped(kept, LAMBDA u : <<CHOOSE id \in NodesFor(u[1], known) : TRUE, u[2], u[3]>>)]

\* The governance page takes every section from below the key "governance".
GovernanceKeys == {"expectations", "evaluation", "succession", "compensation"}

GovernancePage(packet) ==
  [values |-> [key \in GovernanceKeys |-> IF key \in packet.governance THEN "configured" ELSE "default"],
   committees |-> Mapped(packet.committees, LAMBDA c : [name |-> c.name, members |-> Len(c.members)]),
   votes |-> packet.voting]

BoardPage(packet) ==
  [members |-> Mapped(packet.profiles, LAMBDA p : p.name), summary |-> packet.governance /= {},
   meetings |-> Mapped(packet.meetings, LAMBDA m : m.title)]

ChartersPage(packet) ==
  Mapped(packet.charters, LAMBDA c : [committee |-> c.committee, appointed |-> c.members /= << >>])

ValidateBoard(registry, directoryThere) ==
  (IF registry.board = << >> /\ registry.members = << >> THEN {"No board members"} ELSE {})
    \union IF directoryThere THEN {} ELSE {"No directory"}

----------------------------------------------------------------------------
(* The executives' packages.  templates is the set of templates the        *)
(* configuration gives; a page whose template is missing is empty.         *)

ExecutiveTemplates == {"profile", "knowledge", "memory", "agent_py"}

KnownTitles == {"chief executive officer", "chief technology officer"}

ExecutiveSlug(name) == Undotted(Joined(name, {" "}))

ReportsTo(executive) == OrElse(executive.reports_to, "Board of Directors")

\* The prompt is that of the first executive of this name, whatever its capitals.
PromptOf(registry, name) ==
  FirstWhere(registry.executives, LAMBDA e : e.name /= Blank /\ Lower(e.name) = Lower(name), Blank)

Package(registry, executive, templates) ==
  [slug |-> ExecutiveSlug(executive.name), name |-> executive.name,
   prompt |-> PromptOf(registry, executive.name),
   pages |-> templates \intersect ExecutiveTemplates,
   relationships |-> IF executive.title \in KnownTitles THEN executive.title ELSE ReportsTo(executive)]

Packages(registry, templates) ==
  Mapped(SelectSeq(registry.executives, LAMBDA e : e.name /= Blank), LAMBDA e : Package(registry, e, templates))

\* A package is a directory named by the slug: the last of a slug stays.
WrittenPackages(packages) ==
  FoldLeft(LAMBDA written, p : (p.slug :> p) @@ written, << >>, packages)

----------------------------------------------------------------------------
(* The top-level documents.  config maps a file to its state ("given",     *)
(* "missing", "broken", "scalar") and its keys: a function from those it   *)
(* gives to "empty", "mapping" or "list".  A section shows under a         *)
(* condition on one key: "always", "given" (not empty), "table" (unless it *)
(* is something other than a mapping; a missing key is an empty table) or  *)
(* "filled" (a mapping that is not empty).                                 *)

Section(heading, file, key, when) == [heading |-> heading, file |-> file, key |-> key, when |-> when]

Page(reads, sections) == [reads |-> reads, sections |-> sections]

Loaded(config, file) == config[file].state = "given"

ValueOf(config, file, key) ==
  IF Loaded(config, file) /\ key \in DOMAIN config[file].keys THEN config[file].keys[key] ELSE "empty"

Shows(config, section) ==
  LET value == ValueOf(config, section.file, section.key)
  IN CASE section.when = "always" -> TRUE
       [] section.when = "given"  -> value /= "empty"
       [] section.when = "table"  -> value /= "list"
       [] section.when = "filled" -> value = "mapping"

Roadmap ==
  Page(<<"company/strategy", "company/vision">>,
       {Section("Strategy", "company/strategy", "name", "always"), Section("Mission", "company/vision", "mission", "given"),
        Section("Objectives", "company/strategy", "objectives", "given"),
        Section("Initiatives", "company/strategy", "initiatives", "given")})

Changelog == Page(<<"company/company">>, {Section("Description", "company/company", "description", "given")})

ProjectStatus ==
  Page(<<"company/kpis", "company/strategy", "company/governance", "company/budget">>,
       {Section("Key Performance Indicators", "company/kpis", "items", "always"),
        Section("Governance", "company/governance", "framework", "always"),
        Section("Budget", "company/budget", "departments", "filled")})

BoardDocument ==
  Page(<<"board/board", "board/committees", "board/meetings", "board/voting">>,
       {Section("Governance", "board/board", "governance", "always"), Section("Committees", "board/committees", "committees", "given"),
        Section("Meetings", "board/meetings", "annual_schedule", "always"), Section("Voting", "board/voting", "voting", "always"),
        Section("Director Expectations", "board/board", "expectations", "given")})

\* One more file per workflow of the registry file, named after its key.
Workflows(config, keys) ==
  Page(<<"workflows/workflow_registry">>
         \o IF ValueOf(config, "workflows/workflow_registry", "workflows") = "mapping" THEN keys ELSE << >>,
       {Section("Workflow Registry", "workflows/workflow_registry", "workflows", "always")}
         \union IF ValueOf(config, "workflows/workflow_registry", "workflows") = "mapping"
                THEN {Section(keys[i], keys[i], "states", "filled") : i \in DOMAIN keys} ELSE {})

DecisionDocument ==
  Page(<<"decision/approval_matrix", "decision/risk_matrix", "decision/decision_tree">>,
       {Section("Approval Matrix", "decision/approval_matrix", "default_approvers", "always"),
        Section("Approval Rules", "decision/approval_matrix", "rules", "given"),
        Section("Risk Levels", "decision/risk_matrix", "risk_levels", "table"),
        Section("Risk Factors", "decision/risk_matrix", "risk_factors", "table"),
        Section("Escalation Triggers", "decision/risk_matrix", "escalation_triggers", "given"),
        Section("Decision Flows", "decision/decision_tree", "decision_flows", "always")})

MemoryDocument ==
  Page(<<"memory/memory">>,
       {Section("Description", "memory/memory", "description", "given"), Section("Version", "memory/memory", "version", "given")}
         \union {Section(key, "memory/memory", key, "table") :
                   key \in {"namespaces", "memory_types", "retention", "embeddings", "search"}})

\* The page of the organisation chart reads no file: the edges by their type.
GraphPage(graph) ==
  [nodes |-> DOMAIN graph.nodes,
   edges |-> [kind \in {graph.edges[i].kind : i \in DOMAIN graph.edges} |->
                {<<graph.edges[i].from, graph.edges[i].to>> : i \in {j \in DOMAIN graph.edges : graph.edges[j].kind = kind}}]]

PagesOf(config, keys) ==
  <<Roadmap, Changelog, ProjectStatus, BoardDocument, Workflows(config, keys), DecisionDocument, MemoryDocument>>

\* One generate() on a generator that has already warned of `before`.
GeneratePages(config, keys, before) ==
  LET pages == PagesOf(config, keys)
      reads == FlattenSeq(Mapped(pages, LAMBDA p : p.reads))
  IN [shown |-> Mapped(pages, LAMBDA p : {s.heading : s \in {t \in p.sections : Shows(config, t)}}),
      warnings |-> before \o SelectSeq(reads, LAMBDA f : config[f].state \in {"missing", "broken"})]

\* The name of the company on the documents, and on the board's pages.
CompanyName(manifest, vision) ==
  FirstWhere(<<manifest.company_name, manifest.name, vision.company_name, vision.name>>, LAMBDA n : n /= Blank, "Company")

BoardName(vision) == FirstWhere(<<vision.company_name, vision.name>>, LAMBDA n : n /= Blank, "Company")

\* The manifest a generator makes up when it is given none.
MinimalManifest(vision) == [name |-> BoardName(vision), company_name |-> OrElse(vision.company_name, vision.name)]

SourceDirectories == {"company", "board", "decision", "memory", "workflows"}

ValidatePages(directories) == SourceDirectories \ directories
=============================================================================
