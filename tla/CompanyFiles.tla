---------------------------- MODULE CompanyFiles ----------------------------
(***************************************************************************)
(* The company on disk.  Calls of the API add and remove departments, and  *)
(* rename the company, by rewriting two YAML files in turn; builds read    *)
(* both files and render the generated artefacts, a generator at a time.   *)
(* The calls run in a pool of threads, without a lock, and a file that is  *)
(* being written is empty: "w" cuts it, the text comes with the close.     *)
(*                                                                         *)
(* `registry` is company/departments.yaml, the departments it has as keys. *)
(* `manifest` is config/company/company.yaml.  It lists a department as a  *)
(* mapping with a name (`proper`) or as a plain string (`bare`): the file  *)
(* the project ships has mappings, an added department becomes a string.   *)
(***************************************************************************)
EXTENDS Integers, Sequences, FiniteSets

CONSTANTS
  Callers,      \* threads that serve API calls
  Depts,        \* department slugs
  Founded,      \* the departments both files begin with
  Executives, Specialists, Workflows,   \* the rest of the registry, which no call changes
  Names,        \* company names
  None,         \* no name
  MaxCalls,     \* bound: calls in a behaviour
  MaxFaults     \* bound: failed writes and ends of the process in a behaviour

ASSUME CompanyAssumption == /\ Founded \subseteq Depts /\ Founded # {}
                            /\ None \notin Names /\ Names # {}
                            /\ MaxCalls \in Nat /\ MaxFaults \in Nat

VARIABLES
  registry,     \* the departments company/departments.yaml defines
  manifest,     \* what config/company/company.yaml holds
  packages,     \* the files generated for one member of the company each: <<directory, member>>
  pages,        \* the files generated for the whole: the departments each names
  call,         \* the call a thread serves and where it is in it
  told,         \* what the audit trail tells last of a department
  vouched,      \* a validation has passed and the manifest is as it saw it
  apart,        \* no two calls were between the load and the save of one file at once, or at
                \* one department, and no save has been cut off
  halfway,      \* departments a call was broken off at between its first save and its audit
  stirred,      \* what others have written since the thread's call began
  calls, faults \* budgets

files == <<registry, manifest>>
artefacts == <<packages, pages>>
vars == <<registry, manifest, packages, pages, call, told, vouched, apart, halfway,
          stirred, calls, faults>>
auxiliary == <<vouched, apart, halfway, stirred>>

Writing == {"add", "remove", "rename"}
Editing == {"add", "remove"}
Reading == {"build", "export", "validate"}

-----------------------------------------------------------------------------
(* The two files *)

\* A file that has been cut loads as the empty mapping.
CutManifest == [name |-> None, listed |-> FALSE, proper |-> {}, bare |-> {}]

\* CompanyManifest.load: a name is required, and a department must be a mapping.
Loads(m) == m.name # None /\ m.bare = {}

\* validate_manifest: at least one department.
Valid(m) == Loads(m) /\ m.proper # {}

\* CompanyGenerator._load_manifest falls back to a manifest without departments.
ManifestOr(m) == IF Loads(m) THEN m.proper ELSE {}

\* faulty: the registry as it was when the process began.
RegisteredAtStart == Founded

\* RegistryEngine.load of the files in company/: a cut departments.yaml is an empty one.
Registered == registry

\* What a call makes of the departments it has loaded.
Edited(op, d, departments) ==
  IF op = "add" THEN departments \union {d} ELSE departments \ {d}

\* faulty: a department that is removed stays on the manifest's list.
RelistedOnAdd(op, d, m) ==
  CASE op = "rename" -> [m EXCEPT !.name = d]
    [] op = "add" /\ m.listed -> [m EXCEPT !.bare = Edited(op, d, @)]
    [] OTHER -> m

\* What a call makes of the manifest it has loaded: a department is looked for
\* among the strings only, and a manifest without a list gets none.
Relisted(op, d, m) ==
  CASE op = "rename" -> [m EXCEPT !.name = d]
    [] op # "rename" /\ m.listed -> [m EXCEPT !.bare = Edited(op, d, @)]
    [] OTHER -> m

-----------------------------------------------------------------------------
(* The generated files, by generator.  A generator writes, it never deletes. *)

Of(directory, members) == {<<directory, x>> : x \in members}

ReadmeFiles(listed) == Of("readme", listed)
BoardFiles == Of("board", {"board"})
ExecutiveFiles == Of("executives", Executives)
DepartmentFiles(listed) == Of("departments", listed)
SpecialistFiles == Of("specialists", Specialists)
WorkflowFiles == Of("workflows", Workflows)
PromptFiles(departments) == Of("prompts", Executives \union departments \union Specialists)
DocFiles(departments) ==
  Of("docs", Executives \union departments \union Specialists \union Workflows)

Pages == {"organization", "prompts", "docs", "graph", "documents"}

\* The order of generate_all.
Generators == <<"organization", "board", "executives", "departments", "specialists",
                "workflows", "prompts", "docs", "graph", "documents">>

\* The files of a generator that one member of the company has each.
Rendered(generator, departments, listed) ==
  CASE generator = "board"       -> BoardFiles
    [] generator = "executives"  -> ExecutiveFiles
    [] generator = "departments" -> DepartmentFiles(listed)
    [] generator = "specialists" -> SpecialistFiles
    [] generator = "workflows"   -> WorkflowFiles
    [] generator = "prompts"     -> PromptFiles(departments)
    [] generator = "docs"        -> DocFiles(departments)
    [] OTHER                     -> {}

\* faulty: every generator loads the registry for itself.
RepagedAnew(generator, departments) ==
  [p \in Pages |-> IF p = generator THEN Registered ELSE pages[p]]

\* The charts and indices, which name all departments of the registry.
Repaged(generator, departments) ==
  [p \in Pages |-> IF p = generator THEN departments ELSE pages[p]]

-----------------------------------------------------------------------------
(* Calls *)

Idle == [op |-> "none", on |-> None, at |-> "idle", has |-> {}, manifest |-> CutManifest,
         skipped |-> {}, step |-> 0]

At(c, op, at) == call[c].op \in op /\ call[c].at = at
Goes(c, at) == call' = [call EXCEPT ![c].at = at]
Ends(c) == call' = [call EXCEPT ![c] = Idle]

\* Some call is between its load and its save of a file.
Between(window) == \E k \in Callers : call[k].at \in window

\* A call about a department that has saved the registry.
Late(c) == call[c].op \in Editing /\ call[c].at \in {"list", "reopen", "reclose", "done"}

\* For whoever else is in a call something has been written meanwhile.
Stirs(c, what) == stirred' = [k \in Callers |-> IF k = c THEN stirred[k] ELSE stirred[k] \union {what}]

\* A call that passes the guard begins; one that is rejected changes nothing.
Ask(c, op, x) ==
  /\ call[c].op = "none" /\ calls < MaxCalls
  /\ calls' = calls + 1
  /\ call' = [call EXCEPT ![c] = [Idle EXCEPT !.op = op, !.on = x,
                !.at = IF op = "rename" THEN "list" ELSE "begin"]]
  /\ apart' = (apart /\ (op \in Editing =>
                 \A k \in Callers : call[k].op \in Editing => call[k].on # x))
  /\ stirred' = [stirred EXCEPT ![c] = {}]
  /\ UNCHANGED <<files, artefacts, told, vouched, halfway, faults>>

\* The departments are loaded; one that is there already, or is not, ends the
\* call with a 409 or 404 and without an audit event.
LoadDepartments(c) ==
  /\ At(c, Editing, "begin")
  /\ IF (call[c].op = "add") = (call[c].on \in registry)
     THEN Ends(c)
     ELSE call' = [call EXCEPT ![c].has = registry, ![c].at = "open"]
  /\ apart' = (apart /\ ~ Between({"open", "close"}))
  /\ UNCHANGED <<files, artefacts, told, vouched, halfway, stirred, calls, faults>>

OpenDepartments(c) ==
  /\ At(c, Editing, "open")
  /\ registry' = {}
  /\ Goes(c, "close") /\ Stirs(c, "files")
  /\ UNCHANGED <<manifest, artefacts, told, vouched, apart, halfway, calls, faults>>

CloseDepartments(c) ==
  /\ At(c, Editing, "close")
  /\ registry' = Edited(call[c].op, call[c].on, call[c].has)
  /\ Goes(c, "list") /\ Stirs(c, "files")
  /\ UNCHANGED <<manifest, artefacts, told, vouched, apart, halfway, calls, faults>>

\* The manifest is loaded, and only saved when there is something to change.
LoadManifest(c) ==
  /\ At(c, Writing, "list")
  /\ call' = [call EXCEPT ![c].manifest = manifest,
                ![c].at = IF Relisted(call[c].op, call[c].on, manifest) = manifest
                          THEN "done" ELSE "reopen"]
  /\ apart' = (apart /\ ~ Between({"reopen", "reclose"}))
  /\ UNCHANGED <<files, artefacts, told, vouched, halfway, stirred, calls, faults>>

OpenManifest(c) ==
  /\ At(c, Writing, "reopen")
  /\ manifest' = CutManifest
  /\ Goes(c, "reclose") /\ Stirs(c, "files")
  /\ vouched' = FALSE
  /\ UNCHANGED <<registry, artefacts, told, apart, halfway, calls, faults>>

CloseManifest(c) ==
  /\ At(c, Writing, "reclose")
  /\ manifest' = Relisted(call[c].op, call[c].on, call[c].manifest)
  /\ Goes(c, "done") /\ Stirs(c, "files")
  /\ vouched' = FALSE
  /\ UNCHANGED <<registry, artefacts, told, apart, halfway, calls, faults>>

\* The answer of a call that succeeded, and its audit event.  It mends what an
\* earlier call has left halfway at the same department.
Answer(c) ==
  /\ At(c, Writing, "done")
  /\ told' = CASE call[c].op = "add" -> [told EXCEPT ![call[c].on] = "added"]
               [] call[c].op = "remove" -> [told EXCEPT ![call[c].on] = "removed"]
               [] OTHER -> told
  /\ halfway' = IF call[c].op \in Editing THEN halfway \ {call[c].on} ELSE halfway
  /\ Ends(c)
  /\ UNCHANGED <<files, artefacts, vouched, apart, stirred, calls, faults>>

\* A file cannot be opened: the exception ends the call with a 500, without an
\* audit event, and what it has written already stays.
SaveFails(c) ==
  /\ At(c, Writing, "open") \/ At(c, Writing, "reopen")
  /\ faults < MaxFaults /\ faults' = faults + 1
  /\ halfway' = IF Late(c) THEN halfway \union {call[c].on} ELSE halfway
  /\ Ends(c)
  /\ UNCHANGED <<files, artefacts, told, vouched, apart, stirred, calls>>

-----------------------------------------------------------------------------
(* Builds *)

\* BootstrapGenerator.run: a manifest that does not load ends the build.
BootstrapManifest(c) ==
  /\ At(c, {"build"}, "begin")
  /\ IF Loads(manifest)
     THEN call' = [call EXCEPT ![c].manifest = manifest, ![c].at = "check"]
     ELSE Ends(c)
  /\ UNCHANGED <<files, artefacts, told, auxiliary, calls, faults>>

\* The registry is loaded with the manifest, which must have departments; the
\* readmes of the departments are written.  One whose template is missing, does
\* not render or cannot be written is a warning, and the bootstrap succeeds.
Bootstrap(c) ==
  /\ At(c, {"build"}, "check")
  /\ IF Valid(call[c].manifest)
     THEN \E skipped \in SUBSET call[c].manifest.proper :
            /\ skipped # {} => faults < MaxFaults
            /\ faults' = IF skipped = {} THEN faults ELSE faults + 1
            /\ packages' = packages \union ReadmeFiles(call[c].manifest.proper \ skipped)
            /\ call' = [call EXCEPT ![c].skipped = skipped, ![c].at = "registry"]
     ELSE Ends(c) /\ UNCHANGED <<packages, faults>>
  /\ UNCHANGED <<files, pages, told, auxiliary, calls>>

\* A new CompanyGenerator loads the registry, and then the manifest once more.
LoadRegistry(c) ==
  /\ \/ At(c, {"build"}, "registry") \/ At(c, {"export"}, "begin")
  /\ IF call[c].op = "export" /\ Registered \union Executives = {}
     THEN Ends(c)
     ELSE call' = [call EXCEPT ![c].has = Registered,
            ![c].at = IF call[c].op = "export" THEN "graph" ELSE "again"]
  /\ UNCHANGED <<files, artefacts, told, auxiliary, calls, faults>>

LoadManifestAgain(c) ==
  /\ At(c, {"build"}, "again")
  /\ call' = [call EXCEPT ![c].manifest = manifest, ![c].at = "generate", ![c].step = 1]
  /\ UNCHANGED <<files, artefacts, told, auxiliary, calls, faults>>

Generates(c, generator) ==
  /\ packages' = packages \union Rendered(generator, call[c].has, ManifestOr(call[c].manifest))
  /\ pages' = Repaged(generator, call[c].has)
  /\ Stirs(c, "artefacts")

Generate(c) ==
  /\ At(c, {"build"}, "generate")
  /\ Generates(c, Generators[call[c].step])
  /\ IF call[c].step = Len(Generators)
     THEN Goes(c, "built")
     ELSE call' = [call EXCEPT ![c].step = @ + 1]
  /\ UNCHANGED <<files, told, vouched, apart, halfway, calls, faults>>

\* An export writes the graph alone.
Export(c) ==
  /\ At(c, {"export"}, "graph")
  /\ Generates(c, "graph")
  /\ Goes(c, "built")
  /\ UNCHANGED <<files, told, vouched, apart, halfway, calls, faults>>

\* The answer of a build or an export that succeeded.
Report(c) ==
  /\ At(c, {"build", "export"}, "built")
  /\ Ends(c)
  /\ UNCHANGED <<files, artefacts, told, auxiliary, calls, faults>>

\* A generator cannot write, or the bootstrap has no directory for its output or
\* none of templates: the build fails, what is written stays.
GenerateFails(c) ==
  /\ At(c, {"build"}, "check") \/ At(c, {"build"}, "generate") \/ At(c, {"export"}, "graph")
  /\ faults < MaxFaults /\ faults' = faults + 1
  /\ Ends(c)
  /\ UNCHANGED <<files, artefacts, told, auxiliary, calls>>

-----------------------------------------------------------------------------
(* Validation: five reports, of which a company the calls can make fails two.  *)
(* A registry that lacks departments, or has others, is only warned of.        *)

\* faulty: a manifest without departments passes.
ManifestReportOfAny(m) == Loads(m)

\* validate_manifest_file: it loads, and has departments.
ManifestReport(m) == Valid(m)

\* validate_generated_directory: there are markdown files.
OutputReport == packages # {}

ValidateManifest(c) ==
  /\ At(c, {"validate"}, "begin")
  /\ IF ManifestReport(manifest)
     THEN call' = [call EXCEPT ![c].manifest = manifest, ![c].at = "output"]
     ELSE Ends(c)
  /\ UNCHANGED <<files, artefacts, told, auxiliary, calls, faults>>

\* A validation that has passed answers for the manifest it has seen.
ValidateOutput(c) ==
  /\ At(c, {"validate"}, "output")
  /\ vouched' = (vouched \/ (OutputReport /\ "files" \notin stirred[c]))
  /\ Ends(c)
  /\ UNCHANGED <<files, artefacts, told, apart, halfway, stirred, calls, faults>>

-----------------------------------------------------------------------------
\* The process ends and is started again: the calls are gone, the files are as they were.
End ==
  /\ \E c \in Callers : call[c].op # "none"
  /\ faults < MaxFaults /\ faults' = faults + 1
  /\ apart' = (apart /\ ~ Between({"close", "reclose"}))
  /\ halfway' = halfway \union {call[c].on : c \in {k \in Callers : Late(k)}}
  /\ call' = [c \in Callers |-> Idle]
  /\ UNCHANGED <<files, artefacts, told, vouched, stirred, calls>>

Init ==
  /\ registry = Founded
  /\ manifest \in {[name |-> n, listed |-> TRUE, proper |-> Founded, bare |-> {}] : n \in Names}
  /\ packages = {} /\ pages = [p \in Pages |-> {}]
  /\ call = [c \in Callers |-> Idle]
  /\ told = [d \in Depts |-> IF d \in Founded THEN "founded" ELSE "removed"]
  /\ vouched = FALSE /\ apart = TRUE /\ halfway = {} /\ stirred = [c \in Callers |-> {}]
  /\ calls = 0 /\ faults = 0

Next ==
  \/ \E c \in Callers :
       \/ \E d \in Depts : Ask(c, "add", d) \/ Ask(c, "remove", d)
       \/ \E n \in Names : Ask(c, "rename", n)
       \/ \E op \in Reading : Ask(c, op, None)
       \/ LoadDepartments(c) \/ OpenDepartments(c) \/ CloseDepartments(c)
       \/ LoadManifest(c) \/ OpenManifest(c) \/ CloseManifest(c)
       \/ Answer(c) \/ SaveFails(c)
       \/ BootstrapManifest(c) \/ Bootstrap(c) \/ LoadRegistry(c) \/ LoadManifestAgain(c)
       \/ Generate(c) \/ Export(c) \/ Report(c) \/ GenerateFails(c)
       \/ ValidateManifest(c) \/ ValidateOutput(c)
  \/ End

Spec == Init /\ [][Next]_vars

-----------------------------------------------------------------------------
(* Properties *)

\* A call about the department has opened the registry to save it, and is not answered yet.
InFlight(d) ==
  \E c \in Callers :
    call[c].op \in Editing /\ call[c].on = d /\ call[c].at \notin {"begin", "open"}

\* The files tell of each department what the audit trail tells of it, however
\* calls and their two saves interleave: it is defined unless the last answer of
\* a call was that it was removed, it is a string on the manifest's list if the
\* last one was that it was added, and no call has cost the manifest its list.
\* A mapping on the list is never taken off, so that a founded department that
\* is removed stays on the manifest (runtime_facade.py 1750 says otherwise: the
\* strings are compared only, 1766-1769).  Exempt are, by name: a department a
\* call is at (InFlight) or was broken off at between its saves, until the next
\* call about it is answered (halfway); and everything once two calls were
\* between the load and the save of one file at the same time, or at the same
\* department, or a save was cut off (apart): no lock keeps them from it.
TrailTellsFiles ==
  apart => \A d \in Depts \ halfway : ~ InFlight(d) =>
    /\ ~ Between({"close"}) => (d \in registry <=> told[d] # "removed")
    /\ ~ Between({"reclose"}) =>
         /\ manifest.listed
         /\ d \in manifest.bare <=> told[d] = "added"
         /\ d \in manifest.proper <=> d \in Founded

\* A build that succeeds while nobody else writes has rendered the company as it
\* is: the charts and indices name the registry's departments, each of them has
\* its prompt and its page, and each one of the manifest has its package and its
\* readme, which takes a manifest that loads.  Exempt by name are the readmes the
\* bootstrap skipped with a warning (bootstrap.py 144-155), which the answer does
\* not show: build_run leaves the bootstrap's warnings out.  (build_run: two loads
\* of the registry and of the manifest, then ten generators.)
BuildIsWhole ==
  \A c \in Callers : At(c, {"build"}, "built") /\ stirred[c] = {} =>
    /\ Valid(manifest)
    /\ \A p \in Pages : pages[p] = registry
    /\ Of("prompts", registry) \union Of("docs", registry) \subseteq packages
    /\ DepartmentFiles(manifest.proper) \subseteq packages
    /\ ReadmeFiles(manifest.proper \ call[c].skipped) \subseteq packages

\* Whatever is written to the company's files meanwhile, the charts and indices
\* of a build that no other build or export overlaps agree with each other.
\* (generate_all loads the registry once for all its generators.)
OnePicture ==
  \A c \in Callers : At(c, {"build"}, "built") /\ "artefacts" \notin stirred[c] =>
    \A p, q \in Pages : pages[p] = pages[q]

\* A validation that has passed means that a build would get past its bootstrap,
\* until somebody saves the manifest.  (validate_artifacts, then build_run.)
PassedMeansBuildable == vouched => Valid(manifest) /\ packages # {}

CompanyTypeOK ==
  /\ registry \subseteq Depts
  /\ manifest \in [name : Names \union {None}, listed : BOOLEAN,
                   proper : SUBSET Depts, bare : SUBSET Depts]
  /\ pages \in [Pages -> SUBSET Depts]
  /\ told \in [Depts -> {"founded", "added", "removed"}]
  /\ vouched \in BOOLEAN /\ apart \in BOOLEAN /\ halfway \subseteq Depts
  /\ stirred \in [Callers -> SUBSET {"files", "artefacts"}]
  /\ calls \in 0 .. MaxCalls /\ faults \in 0 .. MaxFaults
=============================================================================
