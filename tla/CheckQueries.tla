---------------------------- MODULE CheckQueries ----------------------------
(***************************************************************************)
(* Two entries of the memory under every query that tells them apart,      *)
(* short texts, every short sequence of calls of a knowledge base, and     *)
(* snapshots of two entries, two of one second or one cut short.           *)
(* The assumptions are evaluated by the runs whose module extends this     *)
(* one.                                                                    *)
(***************************************************************************)
EXTENDS MemoryQueries, MemorySnapshots

Matched(where) == [in |-> where, starts |-> where \ {"content", "source"}]

EntriesNamed(id, created) ==
  {[id |-> id, importance |-> importance, created |-> created, age |-> age, version |-> 1, archived |-> archived,
    in |-> m.in, starts |-> m.starts, tags |-> tags] :
      importance \in {0, 10}, age \in {1, 40}, archived \in BOOLEAN, tags \in {0, 2},
      m \in {Matched({}), Matched({"summary"}), Matched({"title", "content"}), Matched({"source"})}}

IdsIn(entries) == {entries[i].id : i \in DOMAIN entries}

\* Without a limit that cuts, a structured search finds what the store finds, in
\* falling order of a score between 0 and 100; only what matches somewhere is
\* found, and of an entry that matches nowhere but in its whole content no
\* matched field is named.
ASSUME ScoredIsFound ==
  \A a \in EntriesNamed(1, 5) : \A b \in EntriesNamed(2, 6) : \A asked \in BOOLEAN :
    LET found == StructuredSearch(<<a, b>>, asked, FALSE, 0, 20)
    IN /\ IdsIn(found) = {e.id : e \in {x \in {a, b} : ~x.archived /\ (asked => Relevance(x) > 0)}}
       /\ \A i \in 1..(Len(found) - 1) : Score(found[i], asked) >= Score(found[i + 1], asked)
       /\ \A i \in DOMAIN found : Score(found[i], asked) \in 0..100
       /\ \A i \in DOMAIN found : asked => (MatchedFields(found[i], asked) = {} <=>
                                              found[i].in \subseteq {"content"} /\ found[i].tags = 0)
       /\ IdsIn(StoreSearch(<<a, b>>, asked, FALSE, 0, 1)) \subseteq IdsIn(found)

\* The store cuts by its own order: with a limit, the entry with the best score
\* may not be among those that are scored, and two that both reach 100 are left
\* in the store's order.
ASSUME BestMayBeCut ==
  \E a \in EntriesNamed(1, 5) : \E b \in EntriesNamed(2, 6) :
    /\ ~a.archived /\ ~b.archived /\ Relevance(a) > 0 /\ Relevance(b) > 0
    /\ IdsIn(StructuredSearch(<<a, b>>, TRUE, FALSE, 0, 1)) = {a.id}
    /\ Score(b, TRUE) > Score(a, TRUE)

\* The recent entries are the newest of those that are not archived and were
\* created in the period asked for.
ASSUME RecentIsNewest ==
  \A a \in EntriesNamed(1, 5) : \A b \in EntriesNamed(2, 6) : \A from, to \in 4..7 :
    LET one == Recent(<<a, b>>, FALSE, from, to, 1)
        both == {x \in {a, b} : ~x.archived /\ x.created \in from..to}
    IN /\ Len(one) = AtMost(Cardinality(both), 1)
       /\ \A i \in DOMAIN one : one[i] \in both /\ \A x \in both : x.created <= one[i].created

----------------------------------------------------------------------------
Texts == UNION {[1..n -> {"a", "b", "c"}] : n \in 1..3}

\* An embedder sees of a text only what was in its first one.  A first text of
\* two different tokens, or of three of which two are equal, leaves tokens that
\* weigh nothing: with two different ones no text whatever has a vector.
ASSUME VocabularyIsTheFirst ==
  \A first \in Texts : \A text \in Texts :
    LET embedder == Fitted(first)
        v == Embed(embedder, text)
    IN /\ Cardinality(v) <= Cardinality(Range(first) \intersect Range(text))
       /\ Range(first) \intersect Range(text) = {} => v = {}
       /\ Len(first) = 2 /\ first[1] /= first[2] => v = {}
       /\ Len(first) = 3 /\ Cardinality(Range(first)) = 3 =>
            (MayBeSimilar(v, Embed(embedder, first)) <=> Range(first) \intersect Range(text) /= {})

\* The vectors of two embedders do not compare: a text may be similar to one that
\* shares no token with it, and not to itself.
ASSUME VectorsOfTwoEmbedders ==
  /\ \E first, text, other \in Texts :
       /\ Range(text) \intersect Range(other) = {}
       /\ MayBeSimilar(Embed(Fitted(first), text), Embed(Fitted(other), other))
  /\ \E first, text \in Texts :
       /\ Embed(Fitted(first), text) /= {} /\ Embed(Fitted(text), text) /= {}
       /\ ~MayBeSimilar(Embed(Fitted(first), text), Embed(Fitted(text), text))

----------------------------------------------------------------------------
KnowledgeCalls ==
  {<<"add", id, tags>> : id \in {1, 2}, tags \in {{"x"}, {"x", "y"}}}
    \union {<<"retag", 1, {"y"}>>, <<"retag", 1, {}>>, <<"delete", 1, {}>>, <<"delete", 2, {}>>,
            <<"relate", 1, {}>>, <<"clear", 0, {}>>, <<"open", 0, {}>>}

\* An id is never given twice.
Called(kb, call) ==
  CASE call[1] = "add"    -> IF call[2] \in DOMAIN kb.entries THEN kb ELSE AddKnowledge(kb, call[2], "general", call[3])
    [] call[1] = "retag"  -> Retag(kb, call[2], call[3])
    [] call[1] = "delete" -> DeleteKnowledge(kb, call[2])
    [] call[1] = "relate" -> Relate(kb, 1, 2)
    [] call[1] = "clear"  -> ClearKnowledge(kb)
    [] call[1] = "open"   -> OpenKnowledge(kb.file)

Bases == {FoldLeft(Called, EmptyKnowledge, calls) : calls \in UNION {[1..n -> KnowledgeCalls] : n \in 0..4}}

\* The indexes say what the entries say, the file holds the entries, and a base
\* that opens it answers as the one that wrote it; only the counts of tags and
\* of relationships still include what was deleted.
ASSUME KnowledgeIsIndexed ==
  /\ \A kb \in Bases :
       /\ \A t \in DOMAIN kb.tags : kb.tags[t] = {id \in DOMAIN kb.entries : t \in kb.entries[id].tags}
       /\ SearchKnowledge(kb, {"general"}, {}) = DOMAIN kb.entries
       /\ kb.file = kb.entries
       /\ \A tags \in SUBSET {"x", "y"} :
            SearchKnowledge(kb, {}, tags) = SearchKnowledge(OpenKnowledge(kb.file), {}, tags)
       /\ \A a, b \in DOMAIN kb.entries : b \in Related(kb, a) <=> a \in Related(kb, b)
       /\ Statistics(kb).tags >= Statistics(OpenKnowledge(kb.file)).tags
  /\ \E kb \in Bases : Statistics(kb).relationships = 1
  /\ \E kb \in Bases : Statistics(kb).tags = 2 /\ DOMAIN kb.entries = {}

\* Two bases on one file: the second to save leaves only what it has itself.
ASSUME LastBaseWins ==
  \A kb \in Bases : 1 \notin DOMAIN kb.entries =>
    LET other == OpenKnowledge(kb.file)
        mine == AddKnowledge(kb, 1, "general", {"x"})
        theirs == Relate(AddKnowledge(other, 3, "general", {"y"}), 3, 3)
    IN /\ 1 \in DOMAIN mine.file
       /\ 1 \notin DOMAIN theirs.file /\ 3 \in DOMAIN theirs.file

----------------------------------------------------------------------------
Stores == UNION {[ids -> {"old", "new"}] : ids \in SUBSET {"x", "y"}}

\* A snapshot that was written whole gives its entries back, in the same process
\* and in the next, and touches nothing else: what came after it stays.
ASSUME RestoreGivesBack ==
  \A store, later \in Stores : \A ids \in SUBSET {"x", "y"} : \A onDisk, restarted \in BOOLEAN :
    LET taken == create_snapshot(NoSnapshots(onDisk), store, 1, ids, 3)
        back == restore_snapshot(IF restarted THEN Load(taken) ELSE taken, later, 1).store
        kept == IF ids = {} THEN DOMAIN store ELSE ids \intersect DOMAIN store
    IN IF restarted /\ ~onDisk THEN back = later
       ELSE /\ DOMAIN back = kept \union DOMAIN later
            /\ \A id \in DOMAIN back : back[id] = IF id \in kept THEN store[id] ELSE later[id]

\* Two snapshots of one second are one, the later; one that a crash cut short
\* changes nothing when it is restored, unless it takes the place of an older
\* one of that second, which it leaves as it was.
ASSUME LastOfTheSecond ==
  \A first, second, later \in Stores : \A steps \in 0..3 :
    LET older == create_snapshot(NoSnapshots(TRUE), first, 1, {}, 3)
        both == Load(create_snapshot(older, second, 1, {}, steps))
        alone == Load(create_snapshot(NoSnapshots(TRUE), second, 1, {}, steps))
    IN /\ list_snapshots(both) = {1}
       /\ restore_snapshot(both, << >>, 1).store = IF steps = 3 THEN second ELSE first
       /\ restore_snapshot(alone, later, 1).store = IF steps = 3 THEN second @@ later ELSE later
       /\ list_snapshots(alone) = IF steps >= 2 THEN {1} ELSE {}

\* A deleted snapshot on disk is not listed, and can still be restored, which
\* lists it again; the next process lists it anyway.
ASSUME DeletedComesBack ==
  \A store \in Stores : \A onDisk \in BOOLEAN :
    LET gone == delete_snapshot(import_snapshot(NoSnapshots(onDisk), 1, store), 1)
        restored == restore_snapshot(gone, << >>, 1)
    IN /\ list_snapshots(gone) = {}
       /\ restored.store = IF onDisk THEN store ELSE << >>
       /\ list_snapshots(restored.snapshots) = IF onDisk THEN {1} ELSE {}
       /\ list_snapshots(Load(gone)) = IF onDisk THEN {1} ELSE {}
=============================================================================
