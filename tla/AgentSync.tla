------------------------------ MODULE AgentSync ------------------------------
(***************************************************************************)
(* The agent files of the company's personas: the slugs they get           *)
(* (agents/slug_map.py), the plan, and the run that writes it              *)
(* (agents/sync.py, and the facade's agents_sync).                         *)
(*                                                                         *)
(* A text is the sequence of its words in small letters; "&" stands for    *)
(* what is neither a letter nor a digit.  A registry has the sequences     *)
(* executives and specialists of [name, title], and board.  Files are a    *)
(* function from <<directory, slug>> to what the file says.                *)
(***************************************************************************)
EXTENDS Naturals, Sequences, FiniteSets, SequencesExt, FiniteSetsExt, Functions, TLC

slugify(text) == SelectSeq(text, LAMBDA word : word /= "&")

\* Two of the thirteen titles of the table.
EXECUTIVE_SLUGS ==
  <<"chief", "executive", "officer">> :> <<"ceo">> @@ <<"chief", "technology", "officer">> :> <<"cto">>

BUILTIN_AGENT_SLUGS ==
  {<<name>> : name \in {"build", "plan", "explore", "general", "architect", "builder",
                        "compaction", "title", "summary"}}

slug_for(item) ==
  CASE item.title \in DOMAIN EXECUTIVE_SLUGS -> EXECUTIVE_SLUGS[item.title]
    [] item.title \notin DOMAIN EXECUTIVE_SLUGS /\ item.title /= << >> -> slugify(item.title)
    [] item.title = << >> /\ item.role /= << >> -> slugify(item.role)
    [] OTHER -> slugify(item.name)

Unusable(slug) == slug = << >> \/ slug \in BUILTIN_AGENT_SLUGS

\* The n-th name for a later person of the same base.
Candidate(base, name, n) ==
  base \o (IF slugify(name) = << >> THEN <<"">> ELSE slugify(name)) \o (IF n = 1 THEN << >> ELSE <<ToString(n)>>)

\* Bases are taken in order, candidates too; whoever took a base may ask for it
\* again and gets it again.
Assign(assigned, item) ==
  LET base == slug_for(item)
      taken == assigned.taken
      free == {n \in 1..(Cardinality(DOMAIN taken) + 1) : Candidate(base, item.name, n) \notin DOMAIN taken}
      slug == IF base \in DOMAIN taken /\ taken[base] /= item.name THEN Candidate(base, item.name, Min(free)) ELSE base
  IN [slugs |-> Append(assigned.slugs, slug),
      taken |-> IF Unusable(base) \/ slug \in DOMAIN taken THEN taken ELSE (slug :> item.name) @@ taken]

resolved_slugs(items) == FoldLeft(Assign, [slugs |-> << >>, taken |-> << >>], items).slugs

\* The items that are reported: an unusable slug, or one base asked for twice
\* under one name.
collisions(items) ==
  {i \in DOMAIN items :
     \/ Unusable(resolved_slugs(items)[i])
     \/ /\ slug_for(items[i]) /= << >>
        /\ \E j \in DOMAIN items \ {i} : items[j].name = items[i].name /\ slug_for(items[j]) = slug_for(items[i])}

----------------------------------------------------------------------------
(* The personas of a registry, in order.                                   *)

Titled(kind, people, title, role) ==
  LET named == SelectSeq(people, LAMBDA p : p.name /= << >>)
  IN [i \in DOMAIN named |-> [name |-> named[i].name, kind |-> kind, role |-> role,
                              title |-> IF named[i].title = << >> THEN title ELSE named[i].title]]

persona_sources(reg) ==
  Titled("executive", reg.executives, <<"executive">>, <<"executive">>)
    \o Titled("specialist", reg.specialists, <<"specialist">>, <<"specialist">>)
    \o Titled("board", reg.board, <<"director">>, <<"board">>)

\* Biography and instructions are looked up by the name: of two executives, or
\* two specialists, with one name the later one describes both.
Described(reg, source) ==
  CASE source.kind = "executive" -> SelectLastInSeq(reg.executives, LAMBDA p : p.name = source.name)
    [] source.kind = "specialist" -> SelectLastInSeq(reg.specialists, LAMBDA p : p.name = source.name)
    [] OTHER -> 0

Content(reg, source) ==
  [name |-> source.name, title |-> source.title, kind |-> source.kind, by |-> Described(reg, source)]

\* What the user has written, and a file that cannot be read.
Edited == [Content([executives |-> << >>, specialists |-> << >>], [name |-> << >>, title |-> << >>, kind |-> "board"])
             EXCEPT !.kind = "edited"]
Unreadable == [Edited EXCEPT !.kind = "unreadable"]

output_dirs(scope) ==
  CASE scope = "project" -> <<"project">> [] scope = "global" -> <<"global">> [] OTHER -> <<"project", "global">>

action_for(files, path, content, force) ==
  CASE path \notin DOMAIN files -> "create"
    [] path \in DOMAIN files /\ files[path] = content -> "skip"
    [] path \in DOMAIN files /\ files[path] /= content ->
         IF force /\ files[path] /= Unreadable THEN "update" ELSE "conflict"

\* One entry for each persona and directory; nothing if a slug collides.
plan(reg, files, scope, force) ==
  LET sources == persona_sources(reg)
      slugs == resolved_slugs(sources)
      EntriesOf(i) == [k \in DOMAIN output_dirs(scope) |->
        LET path == <<output_dirs(scope)[k], slugs[i]>>
        IN [slug |-> slugs[i], path |-> path, content |-> Content(reg, sources[i]),
            action |-> action_for(files, path, Content(reg, sources[i]), force)]]
  IN IF collisions(sources) /= {} THEN << >>
     ELSE FoldLeft(LAMBDA entries, i : entries \o EntriesOf(i), << >>, [i \in DOMAIN sources |-> i])

\* One entry of the plan.  A slug is told once, under its first outcome.
WriteEntry(failing, so_far, entry) ==
  LET writes == entry.action \in {"create", "update"}
      told == entry.slug \in DOMAIN so_far.outcome
  IN CASE writes /\ entry.path \in failing -> [so_far EXCEPT !.errors = @ \union {entry.path}]
       [] OTHER -> [so_far EXCEPT
            !.files = IF writes THEN (entry.path :> entry.content) @@ @ ELSE @,
            !.outcome = IF told THEN @ ELSE (entry.slug :> entry.action) @@ @]

\* The run of a plan over the files there are when it writes.
run(entries, files, failing) ==
  FoldLeft(LAMBDA so_far, entry : WriteEntry(failing, so_far, entry),
           [files |-> files, outcome |-> << >>, errors |-> {}], entries)

\* The facade's call and the command's exit: conflicts fail only the command.
agents_sync(reg, files, scope, force, failing) ==
  IF scope \notin {"project", "global", "both"} \/ collisions(persona_sources(reg)) /= {}
  THEN [success |-> FALSE, exit |-> 1, files |-> files, outcome |-> << >>]
  ELSE LET done == run(plan(reg, files, scope, force), files, failing)
       IN [success |-> done.errors = {}, files |-> done.files, outcome |-> done.outcome,
           exit |-> IF done.errors /= {} \/ "conflict" \in Range(done.outcome) THEN 1 ELSE 0]

-----------------------------------------------------------------------------
(***************************************************************************)
(* Up to three personas whose names and titles may be equal, empty,        *)
(* reserved or each other's extension, in registries of every split, over  *)
(* files that are absent, current, edited or unreadable.  The assumptions  *)
(* are evaluated by the runs whose module extends this one.                *)
(***************************************************************************)

AgentNames == {<<"ann">>, <<"bob">>, <<"&">>}
AgentTitles == {<<"counsel">>, <<"counsel", "bob">>, <<"&">>, <<"plan">>, <<"chief", "executive", "officer">>, <<"ceo">>, << >>}

Personas == {[name |-> n, title |-> t, role |-> <<"board">>] : n \in AgentNames, t \in AgentTitles}
PersonaLists == UNION {[1..n -> Personas] : n \in 0..2}
                \union {l \in [1..3 -> Personas] : \A i \in 1..3 : l[i].title \in {<<"counsel">>, <<"counsel", "bob">>, <<"ceo">>}}

\* Slugs that are not reported are usable and belong to one persona each, unless
\* one name asks for a slug that it was given as the later person of a shared
\* base: then two of its personas get the same slug and nothing is reported.
ASSUME SlugsAreDistinct ==
  \A items \in PersonaLists :
    LET slugs == resolved_slugs(items)
    IN collisions(items) = {} =>
         \A i, j \in DOMAIN items :
           /\ ~Unusable(slugs[i])
           /\ i < j /\ slugs[i] = slugs[j] =>
                /\ items[i].name = items[j].name
                /\ slug_for(items[j]) = slugs[i] /\ slug_for(items[i]) /= slugs[i]

\* Such a pair exists: two personas can share a slug without a report.
ASSUME SharedUnreported ==
  \E items \in PersonaLists : collisions(items) = {} /\ ~IsInjective(resolved_slugs(items))

\* The first to ask for a base keeps it, whatever comes later.
ASSUME FirstKeepsItsBase ==
  \A items \in PersonaLists : \A i \in DOMAIN items :
    (\A j \in 1..(i - 1) : slug_for(items[j]) /= slug_for(items[i]) /\ resolved_slugs(items)[j] /= slug_for(items[i])) =>
      resolved_slugs(items)[i] = slug_for(items[i])

----------------------------------------------------------------------------
People == {[name |-> n, title |-> t] : n \in {<<"ann">>, <<"bob">>}, t \in {<<"ceo">>, <<"counsel">>}}
Registries ==
  {[executives |-> <<p, q>>, specialists |-> << >>, board |-> << >>] : p, q \in People}
    \union {[executives |-> <<p>>, specialists |-> <<[name |-> << >>, title |-> <<"counsel">>]>>, board |-> <<q>>] : p, q \in People}

SyncPaths == {"project", "global"} \X {<<"ceo">>, <<"counsel">>}
StartFiles(reg) ==
  UNION {[paths -> {Edited, Unreadable, Content(reg, persona_sources(reg)[1])}] : paths \in SUBSET SyncPaths}

Written(before, after) == {p \in DOMAIN after : p \notin DOMAIN before \/ after[p] /= before[p]}

\* Without force no file that is there is changed; with it, what cannot be read
\* is left alone; the persona of every changed file is told; only the directories
\* of the scope are touched, and nothing is removed.
ASSUME NothingOverwrittenUnasked ==
  \A reg \in Registries : \A files \in StartFiles(reg) : \A force \in BOOLEAN : \A scope \in {"project", "both"} :
    LET done == agents_sync(reg, files, scope, force, {})
        changed == Written(files, done.files)
    IN /\ ~force => changed \intersect DOMAIN files = {}
       /\ \A p \in changed \intersect DOMAIN files : files[p] /= Unreadable
       /\ \A p \in changed : p[1] \in Range(output_dirs(scope)) /\ p[2] \in DOMAIN done.outcome
       /\ DOMAIN files \subseteq DOMAIN done.files

\* A second run has nothing to do but conflicts, unless two personas share a
\* slug and overwrite each other.
ASSUME SecondRunIsIdle ==
  \A reg \in Registries : \A files \in StartFiles(reg) : \A force \in BOOLEAN :
    IsInjective(resolved_slugs(persona_sources(reg))) =>
      LET once == agents_sync(reg, files, "both", force, {})
          twice == agents_sync(reg, once.files, "both", force, {})
      IN twice.files = once.files /\ Range(twice.outcome) \subseteq {"skip", "conflict"}

\* Of the two directories only the first outcome of a slug is told: a conflict in
\* the second is hidden and the command succeeds; and the facade's call succeeds
\* with any conflicts.
ASSUME SecondDirectoryIsHidden ==
  \E reg \in Registries : \E files \in StartFiles(reg) :
    LET done == agents_sync(reg, files, "both", FALSE, {})
        entries == plan(reg, files, "both", FALSE)
    IN /\ \E i \in DOMAIN entries : entries[i].action = "conflict"
       /\ done.exit = 0 /\ "conflict" \notin Range(done.outcome)

\* One file that cannot be written fails the call, and no other is held back.
ASSUME ErrorsAreSeparate ==
  \A reg \in Registries : \A path \in SyncPaths :
    LET free == agents_sync(reg, << >>, "both", FALSE, {})
        hurt == agents_sync(reg, << >>, "both", FALSE, {path})
    IN /\ DOMAIN hurt.files = DOMAIN free.files \ {path}
       /\ hurt.success = (free.success /\ path \notin DOMAIN free.files)

\* What is written was decided when the plan was made: a file that appears in
\* between is overwritten without force.
ASSUME LateFileIsLost ==
  \E reg \in Registries : \E path \in SyncPaths :
    run(plan(reg, << >>, "both", FALSE), path :> Edited, {}).files[path] /= Edited

\* Two executives with one name get the later one's description.
ASSUME NamesakesShareDescription ==
  \A reg \in Registries :
    LET sources == persona_sources(reg)
    IN Len(reg.executives) = 2 /\ reg.executives[1].name = reg.executives[2].name =>
         Content(reg, sources[1]).by = 2 /\ Content(reg, sources[2]).by = 2
=============================================================================
