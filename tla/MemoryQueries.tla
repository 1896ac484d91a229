--------------------------- MODULE MemoryQueries ---------------------------
(***************************************************************************)
(* The parts of the memory engine that answer: the scored search           *)
(* (memory/search.py over memory/store.py), the vectors behind the         *)
(* semantic search (memory/embedding.py), and the knowledge base           *)
(* (memory/knowledge.py).                                                  *)
(*                                                                         *)
(* An entry is seen from one query: [id, importance in tenths, created,    *)
(* age in days, version, archived, in (where the query occurs), starts     *)
(* (where it is what the text starts with), tags (how many tags hold it)]. *)
(***************************************************************************)
EXTENDS Naturals, Sequences, FiniteSets, SequencesExt, FiniteSetsExt, Functions

\* The fields of the content that are searched by name.
ContentFields == {"title", "name", "description", "text"}

AtMost(n, bound) == IF n > bound THEN bound ELSE n

\* The store's score, in hundredths.
Relevance(entry) ==
  (IF "summary" \in entry.in THEN 100 + (IF "summary" \in entry.starts THEN 50 ELSE 0) ELSE 0)
    + 80 * entry.tags
    + 60 * Cardinality(entry.in \intersect ContentFields)
    + 30 * Cardinality(entry.starts \intersect ContentFields)
    + (IF "source" \in entry.in THEN 40 ELSE 0)
    + (IF "content" \in entry.in THEN 30 ELSE 0)

\* The score a structured search reports, in hundredths.
Score(entry, asked) ==
  AtMost(3 * entry.importance
         + (IF ~asked THEN 0
            ELSE (IF "summary" \in entry.in THEN 40 + (IF "summary" \in entry.starts THEN 20 ELSE 0) ELSE 0)
                   + 30 * entry.tags
                   + 25 * Cardinality(entry.in \intersect ContentFields)
                   + 15 * Cardinality(entry.starts \intersect ContentFields)
                   + (IF "source" \in entry.in THEN 20 ELSE 0)
                   + (IF "content" \in entry.in THEN 10 ELSE 0))
         + (IF entry.age < 7 THEN 10 ELSE IF entry.age < 30 THEN 5 ELSE 0)
         + AtMost(entry.version, 5),
         100)

MatchedFields(entry, asked) ==
  IF ~asked THEN {}
  ELSE (entry.in \intersect ({"summary", "source"} \union ContentFields)) \union (IF entry.tags > 0 THEN {"tags"} ELSE {})

\* A stable sort in falling order of what Key says of an entry.
Falling(entries, Key(_)) ==
  LET before(i, j) == Key(entries[i]) > Key(entries[j]) \/ (Key(entries[i]) = Key(entries[j]) /\ i < j)
  IN [n \in DOMAIN entries |->
        entries[CHOOSE j \in DOMAIN entries : Cardinality({i \in DOMAIN entries : before(i, j)}) = n - 1]]

FirstOf(seq, n) == SubSeq(seq, 1, AtMost(Len(seq), n))

\* MemoryStore.search: by relevance if something is asked for, and otherwise by
\* importance and then by age.
StoreSearch(entries, asked, archivedToo, minImportance, limit) ==
  LET kept == SelectSeq(entries, LAMBDA e : (archivedToo \/ ~e.archived) /\ e.importance >= minImportance)
      relevant == SelectSeq(kept, LAMBDA e : Relevance(e) > 0)
  IN FirstOf(IF asked THEN Falling(relevant, Relevance)
             ELSE Falling(Falling(kept, LAMBDA e : e.created), LAMBDA e : e.importance), limit)

\* search_structured scores what the store has already cut to the limit.
StructuredSearch(entries, asked, archivedToo, minImportance, limit) ==
  Falling(StoreSearch(entries, asked, archivedToo, minImportance, limit), LAMBDA e : Score(e, asked))

Recent(entries, archivedToo, from, to, limit) ==
  FirstOf(Falling(SelectSeq(entries, LAMBDA e : (archivedToo \/ ~e.archived) /\ from <= e.created /\ e.created <= to),
                  LAMBDA e : e.created), limit)

----------------------------------------------------------------------------
(* Vectors.  A text is a sequence of tokens.  An embedder takes its        *)
(* vocabulary from the first text it is given, and never another: a token  *)
(* stands at the place of its frequency there, and weighs nothing if that  *)
(* text is one token longer than the token's frequency.  A vector is the   *)
(* set of the places where it is not zero; two are similar only if their   *)
(* sets meet.                                                              *)

Frequency(text, token) == Len(SelectSeq(text, LAMBDA t : t = token))

\* The distinct tokens in the order of their first place.
Distinct(text) ==
  FoldLeft(LAMBDA seen, t : IF t \in Range(seen) THEN seen ELSE Append(seen, t), << >>, text)

Fitted(text) ==
  LET vocabulary == Falling(Distinct(text), LAMBDA t : Frequency(text, t))
  IN [vocabulary |-> vocabulary,
      weightless |-> {t \in Range(text) : Len(text) = 1 + Frequency(text, t)}]

Embed(embedder, text) ==
  {i \in DOMAIN embedder.vocabulary :
     embedder.vocabulary[i] \in Range(text) \ embedder.weightless}

MayBeSimilar(v, w) == v \intersect w /= {}

----------------------------------------------------------------------------
(* The knowledge base: its entries [domain, tags, related, version], its   *)
(* two indexes, and the file, which holds the entries and is written whole *)
(* by every change.                                                        *)

EmptyKnowledge == [entries |-> << >>, domains |-> << >>, tags |-> << >>, file |-> << >>]

IdsAt(index, key) == IF key \in DOMAIN index THEN index[key] ELSE {}

WithId(index, key, id) == (key :> (IdsAt(index, key) \union {id})) @@ index

\* _index_entry only adds.
Indexed(kb, id) ==
  [kb EXCEPT !.domains = WithId(@, kb.entries[id].domain, id),
             !.tags = FoldSet(LAMBDA tag, index : WithId(index, tag, id), @, kb.entries[id].tags)]

Unlisted(index, keys, id) == [k \in DOMAIN index |-> IF k \in keys THEN index[k] \ {id} ELSE index[k]]

SaveKnowledge(kb) == [kb EXCEPT !.file = kb.entries]

AddKnowledge(kb, id, domain, tags) ==
  LET entry == [domain |-> domain, tags |-> tags, related |-> {}, version |-> 1]
  IN SaveKnowledge(Indexed([kb EXCEPT !.entries = (id :> entry) @@ @], id))

Retag(kb, id, tags) ==
  IF id \notin DOMAIN kb.entries THEN kb
  ELSE LET bare == [kb EXCEPT !.tags = Unlisted(@, kb.entries[id].tags, id)]
       IN SaveKnowledge(Indexed([bare EXCEPT !.entries[id].tags = tags, !.entries[id].version = @ + 1], id))

DeleteKnowledge(kb, id) ==
  IF id \notin DOMAIN kb.entries THEN kb
  ELSE SaveKnowledge([kb EXCEPT !.domains = Unlisted(@, {kb.entries[id].domain}, id),
                                !.tags = Unlisted(@, kb.entries[id].tags, id),
                                !.entries = Restrict(@, DOMAIN @ \ {id})])

Relate(kb, a, b) ==
  IF {a, b} \subseteq DOMAIN kb.entries
  THEN SaveKnowledge([kb EXCEPT !.entries[a].related = @ \union {b}, !.entries[b].related = @ \union {a}])
  ELSE kb

ClearKnowledge(kb) == EmptyKnowledge

\* What a base that opens the file holds.
OpenKnowledge(file) ==
  FoldSet(LAMBDA id, kb : Indexed(kb, id), [EmptyKnowledge EXCEPT !.entries = file, !.file = file], DOMAIN file)

\* No tags ask for nothing; several must all be there.
SearchKnowledge(kb, domains, tags) ==
  {id \in DOMAIN kb.entries : /\ \A d \in domains : id \in IdsAt(kb.domains, d)
                              /\ \A t \in tags : id \in IdsAt(kb.tags, t)}

Related(kb, id) == kb.entries[id].related \intersect DOMAIN kb.entries

Statistics(kb) ==
  [entries |-> Cardinality(DOMAIN kb.entries), domains |-> [d \in DOMAIN kb.domains |-> Cardinality(kb.domains[d])],
   tags |-> Cardinality(DOMAIN kb.tags),
   relationships |-> FoldSet(LAMBDA id, n : n + Cardinality(kb.entries[id].related), 0, DOMAIN kb.entries)]
=============================================================================
