----------------------------- MODULE MemoryStore -----------------------------
(***************************************************************************)
(* The memory store: entries of the program's memory in one append-only    *)
(* file, where the last line of an id counts.  Every command and every API *)
(* call builds an engine of its own, which loads the file, works on its    *)
(* copy, appends what it changes and, to delete, writes the whole file     *)
(* anew from its copy.  The engine of the runtime is built once and saves. *)
(* Nothing locks the file.                                                 *)
(***************************************************************************)
EXTENDS Integers, Sequences, FiniteSets, SequencesExt

CONSTANTS
  Callers,    \* commands and API calls
  Residents,  \* those with an engine that stays: the runtime's
  Ids,
  Tags,
  AutoPurge,  \* retention.auto_purge_archived
  NoTag, Nil,
  MaxRequests,  \* bound: calls
  MaxFaults   \* bound: processes that end in a call

ASSUME MemoryAssumption ==
  /\ IsFiniteSet(Ids) /\ Residents \subseteq Callers /\ NoTag \notin Tags /\ Nil \notin Ids
  /\ AutoPurge \in BOOLEAN /\ MaxRequests \in Nat /\ MaxFaults \in Nat

VARIABLES
  file,      \* memory/store.jsonl
  pc, call,  \* per caller: where it is, what it was called for
  open,      \* the callers that have an engine
  mem,       \* per caller, the entries of its engine
  index,     \* per caller, the ids under each tag
  todo,      \* per caller, the ids that a pass has still to visit
  used,      \* ids given to entries
  truth,     \* auxiliary: per id, what was last written about it
  lost,      \* auxiliary: ids whose last state the file need not have
  asked, faults  \* bounds

engineVars == <<open, mem, index, todo>>
auxVars == <<used, truth, lost>>
memoryVars == <<file, pc, call, engineVars, auxVars, asked, faults>>

Entry == [version : Nat, tag : Tags, archived : BOOLEAN]
Absent == [version |-> 0, tag |-> NoTag, archived |-> FALSE]
Torn == [id |-> Nil, entry |-> Absent]   \* a line that is not JSON
Nothing == [id \in Ids |-> Absent]
NoIndex == [t \in Tags |-> {}]
NoCall == [kind |-> "none", id |-> Nil, tag |-> NoTag, due |-> {}]

Present(m) == {id \in Ids : m[id] # Absent}
Archived(m) == {id \in Present(m) : m[id].archived}

------------------------------------------------------------------------------
(* The file.                                                               *)
------------------------------------------------------------------------------
\* Loading stops at a line that cannot be parsed.
Readable(f) ==
  LET torn == SelectInSeq(f, LAMBDA l : l = Torn)
  IN IF torn = 0 THEN f ELSE SubSeq(f, 1, torn - 1)

FirstWins(f) ==  \* faulty: the first line of an id counts
  [id \in Ids |->
     LET at == SelectInSeq(Readable(f), LAMBDA l : l.id = id)
     IN IF at = 0 THEN Absent ELSE f[at].entry]

Contents(f) ==
  [id \in Ids |->
     LET at == SelectLastInSeq(Readable(f), LAMBDA l : l.id = id)
     IN IF at = 0 THEN Absent ELSE f[at].entry]

\* Every line is entered in the index, also those that a later line of its id replaces.
IndexOf(f) ==
  [t \in Tags |-> {l.id : l \in {k \in ToSet(Readable(f)) : k.entry.tag = t}}]

Lines(m) == SetToSeq({[id |-> id, entry |-> m[id]] : id \in Present(m)})

\* The truncated file is written from its beginning, over what was appended in
\* between; the rest of that may begin within a line.
WrittenOver(new, old) ==
  IF new = <<>> THEN {old}
  ELSE {new \o SubSeq(old, i, Len(old)) : i \in 1 .. Len(old) + 1}
       \cup {new \o <<Torn>> : i \in DOMAIN old}

------------------------------------------------------------------------------
(* Calls.                                                                  *)
------------------------------------------------------------------------------
At(c, where) == pc[c] = where
Goto(c, where) == pc' = [pc EXCEPT ![c] = where]
Is(c, kind) == At(c, "run") /\ call[c].kind = kind
\* What a caller has last read or written is not what was last written.
Unseen(c) == {id \in Ids : truth[id] # mem[c][id]}

Engine(c, m, ix) == mem' = [mem EXCEPT ![c] = m] /\ index' = [index EXCEPT ![c] = ix]

Requests(c) ==
  LET Ask(kind, id, tag, due) == [kind |-> kind, id |-> id, tag |-> tag, due |-> due] IN
  {Ask("save", id, t, {}) : id \in Ids \ used, t \in Tags} \cup
  (IF c \in Residents THEN {} ELSE
     {Ask("update", id, t, {}) : id \in used, t \in Tags} \cup
     {Ask(k, id, NoTag, {}) : k \in {"get", "delete", "archive", "unarchive"}, id \in used} \cup
     {Ask(k, Nil, NoTag, S) : k \in {"retention", "archive_old"}, S \in (SUBSET used) \ {{}}} \cup
     {Ask(k, Nil, NoTag, {}) : k \in {"purge", "clear"}})

\* The engine that a caller finds or builds (_get_engine, RuntimeFacade._memory_engine).
Load(c) ==
  IF c \in open THEN UNCHANGED <<open, mem, index>>
  ELSE /\ open' = open \cup {c}
       /\ Engine(c, Contents(file), IndexOf(file))

\* The answer to a search by tag.
Search(c, tag) == {id \in index[c][tag] \cap Present(mem[c]) : ~ mem[c][id].archived}

\* What a pass over the entries begins with; the ids of a purge are collected first.
Visits(r, m) ==
  CASE r.kind = "purge" -> Archived(m)
    [] r.kind = "archive_old" -> r.due \ Archived(m)
    [] r.kind = "retention" -> IF AutoPurge THEN r.due ELSE r.due \ Archived(m)
    [] OTHER -> {}

Begin(c) ==
  /\ At(c, "idle") /\ asked < MaxRequests /\ asked' = asked + 1
  /\ Load(c)
  /\ \E r \in Requests(c) :
       /\ call' = [call EXCEPT ![c] = r]
       /\ used' = IF r.kind = "save" THEN used \cup {r.id} ELSE used
       /\ todo' = [todo EXCEPT ![c] = Visits(r, mem'[c]) \cap Present(mem'[c])]
  /\ Goto(c, "run")
  /\ UNCHANGED <<file, truth, lost, faults>>

Drop(c) ==
  IF c \in Residents THEN UNCHANGED <<open, mem, index>>
  ELSE /\ open' = open \ {c}
       /\ Engine(c, Nothing, NoIndex)

\* The call answers; its engine is dropped with it.
End(c) ==
  /\ At(c, "done")
  /\ Goto(c, "idle") /\ call' = [call EXCEPT ![c] = NoCall]
  /\ Drop(c)
  /\ UNCHANGED <<file, todo, used, truth, lost, asked, faults>>

ReindexedInReverse(ix, id, e) == [ix EXCEPT ![e.tag] = @ \ {id}]  \* faulty: added, then removed

\* The object that is taken out of the index before it is added is the changed one, so
\* that its id stays under its former tag.
Reindexed(ix, id, e) == [ix EXCEPT ![e.tag] = (@ \ {id}) \cup {id}]

\* MemoryStore.save: into the tables and to the end of the file.
Write(c, id, e, where) ==
  /\ Engine(c, [mem[c] EXCEPT ![id] = e], Reindexed(index[c], id, e))
  /\ file' = Append(file, [id |-> id, entry |-> e])
  /\ truth' = [truth EXCEPT ![id] = e]
  /\ lost' = IF Torn \in ToSet(file) THEN lost \cup {id} ELSE lost \ {id}
  /\ Goto(c, where)
  /\ UNCHANGED <<call, open, used, asked, faults>>

\* An id that the engine does not know: the call answers that there is no such entry.
NotFound(c) ==
  /\ \E k \in {"get", "update", "delete", "archive", "unarchive"} : Is(c, k)
  /\ mem[c][call[c].id] = Absent
  /\ Goto(c, "done")
  /\ UNCHANGED <<file, call, engineVars, auxVars, asked, faults>>

Save(c) ==
  /\ Is(c, "save")
  /\ Write(c, call[c].id, [version |-> 1, tag |-> call[c].tag, archived |-> FALSE], "done")
  /\ UNCHANGED todo

\* retrieve: also reading an entry writes it, with the time of the access.
Touch(c) ==
  LET id == call[c].id IN
  /\ Is(c, "get") \/ Is(c, "update")
  /\ mem[c][id] # Absent
  /\ Write(c, id, mem[c][id], IF Is(c, "update") THEN "touched" ELSE "done")
  /\ UNCHANGED todo

\* The second half of update.
Change(c) ==
  LET id == call[c].id IN
  /\ At(c, "touched")
  /\ Write(c, id, [mem[c][id] EXCEPT !.version = @ + 1, !.tag = call[c].tag], "done")
  /\ UNCHANGED todo

SetArchived(c) ==
  LET id == call[c].id IN
  /\ Is(c, "archive") \/ Is(c, "unarchive")
  /\ mem[c][id] # Absent
  /\ Write(c, id, [mem[c][id] EXCEPT !.archived = Is(c, "archive")], "done")
  /\ UNCHANGED todo

------------------------------------------------------------------------------
(* Deletion.                                                               *)
------------------------------------------------------------------------------
\* MemoryStore.delete, first half: the entry goes, and the file is opened for writing.
Discard(c, id) ==
  LET m == [mem[c] EXCEPT ![id] = Absent] IN
  /\ Engine(c, m, [index[c] EXCEPT ![mem[c][id].tag] = @ \ {id}])
  /\ file' = <<>>
  /\ truth' = [truth EXCEPT ![id] = Absent]
  /\ lost' = {}
  /\ Goto(c, "truncated")
  /\ UNCHANGED <<open, call, used, asked, faults>>

Delete(c) ==
  /\ Is(c, "delete") /\ mem[c][call[c].id] # Absent
  /\ Discard(c, call[c].id)
  /\ UNCHANGED todo

\* _rebuild_disk, second half.  A file that was unlinked since is not the store's.
Rebuild(c) ==
  LET done == call[c].kind = "delete" \/ todo[c] = {} IN
  /\ pc[c] \in {"truncated", "unlinked"}
  /\ file' \in IF At(c, "truncated") THEN WrittenOver(Lines(mem[c]), file) ELSE {file}
  /\ lost' = IF At(c, "truncated") THEN lost \cup Unseen(c) ELSE lost
  /\ Goto(c, IF done THEN "done" ELSE "run")
  /\ UNCHANGED <<call, engineVars, used, truth, asked, faults>>

PassEnds(c) ==
  /\ \E k \in {"purge", "archive_old", "retention"} : Is(c, k)
  /\ todo[c] = {}
  /\ Goto(c, "done")
  /\ UNCHANGED <<file, call, engineVars, auxVars, asked, faults>>

Visit(c, id) ==
  /\ id \in todo[c]
  /\ todo' = [todo EXCEPT ![c] = @ \ {id}]

Purges(c, id) ==
  \/ Is(c, "purge")
  \/ Is(c, "retention") /\ AutoPurge /\ mem[c][id].archived

Purge(c) == \E id \in todo[c] : Visit(c, id) /\ Purges(c, id) /\ Discard(c, id)

\* MemoryArchiver.archive.
ArchiveDue(c) ==
  \E id \in todo[c] :
    /\ Visit(c, id)
    /\ Is(c, "retention") \/ Is(c, "archive_old")
    /\ ~ Purges(c, id) /\ ~ mem[c][id].archived
    /\ Write(c, id, [mem[c][id] EXCEPT !.archived = TRUE], "run")

\* clear unlinks the file, also under those that are writing it.
Clear(c) ==
  /\ Is(c, "clear")
  /\ Engine(c, Nothing, NoIndex)
  /\ file' = <<>>
  /\ truth' = Nothing /\ lost' = {}
  /\ pc' = [k \in Callers |-> IF k = c THEN "done" ELSE
                              IF At(k, "truncated") THEN "unlinked" ELSE pc[k]]
  /\ UNCHANGED <<call, open, todo, used, asked, faults>>

\* The process ends, while it writes the file with a part of it written.
Crash(c) ==
  /\ ~ At(c, "idle") /\ faults < MaxFaults /\ faults' = faults + 1
  /\ \E n \in 0 .. Len(Lines(mem[c])), torn \in {<<>>, <<Torn>>} :
       file' \in IF At(c, "truncated")
                 THEN WrittenOver(SubSeq(Lines(mem[c]), 1, n) \o torn, file) ELSE {file}
  /\ lost' = lost \cup
       (IF At(c, "truncated") THEN {id \in Ids : Contents(file')[id] # truth[id]} ELSE {})
  /\ pc' = [pc EXCEPT ![c] = "idle"] /\ call' = [call EXCEPT ![c] = NoCall]
  /\ open' = open \ {c} /\ Engine(c, Nothing, NoIndex)
  /\ todo' = [todo EXCEPT ![c] = {}]
  /\ UNCHANGED <<used, truth, asked>>

CallStep(c) ==
  \/ Begin(c) \/ NotFound(c) \/ Save(c) \/ Touch(c) \/ Change(c) \/ SetArchived(c)
  \/ Delete(c) \/ Rebuild(c) \/ PassEnds(c) \/ Purge(c) \/ ArchiveDue(c)
  \/ Clear(c) \/ End(c)

MemoryInit ==
  /\ \E m \in [Ids -> {Absent} \cup [version : {1}, tag : Tags, archived : {FALSE}]] :
       /\ file = Lines(m) /\ truth = m /\ used = Present(m)
  /\ pc = [c \in Callers |-> "idle"] /\ call = [c \in Callers |-> NoCall]
  /\ open = {} /\ mem = [c \in Callers |-> Nothing]
  /\ index = [c \in Callers |-> NoIndex] /\ todo = [c \in Callers |-> {}]
  /\ lost = {}
  /\ asked = 0 /\ faults = 0

MemoryNext == \E c \in Callers : CallStep(c) \/ Crash(c)

MemorySpec == MemoryInit /\ [][MemoryNext]_memoryVars

------------------------------------------------------------------------------
(* Properties.                                                             *)
------------------------------------------------------------------------------
Line == {Torn} \cup [id : Ids, entry : Entry]
Entries == [Ids -> Entry \cup {Absent}]
Kinds == {"none", "save", "get", "update", "delete", "archive", "unarchive",
          "retention", "archive_old", "purge", "clear"}
Commands == [kind : Kinds, id : Ids \cup {Nil}, tag : Tags \cup {NoTag}, due : SUBSET Ids]
MemoryTypeOK ==
  /\ file \in Seq(Line)
  /\ pc \in [Callers -> {"idle", "run", "touched", "truncated", "unlinked", "done"}]
  /\ call \in [Callers -> Commands]
  /\ open \subseteq Callers /\ mem \in [Callers -> Entries] /\ truth \in Entries
  /\ index \in [Callers -> [Tags -> SUBSET Ids]] /\ todo \in [Callers -> SUBSET Ids]
  /\ used \subseteq Ids /\ lost \subseteq Ids /\ asked \in Nat /\ faults \in Nat

\* What was last written about an entry is what a new engine loads, however calls
\* overlap and wherever processes end, unless the whole file was written since by
\* someone who had not seen that state, the line was appended after a torn one, or the
\* end of a process cut the file off.  The next write of the entry makes that good.
WrittenIsKept ==
  (\A c \in Callers : ~ At(c, "truncated")) =>
    \A id \in Ids \ lost : Contents(file)[id] = truth[id]

\* A search by tag finds every living entry that has the tag, in an engine that has
\* loaded the file and in one that has changed entries since.
FoundByTag ==
  \A c \in open : \A id \in Present(mem[c]) \ Archived(mem[c]) :
    id \in Search(c, mem[c][id].tag)
=============================================================================
