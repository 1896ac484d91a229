------------------------------ MODULE ReadModel ------------------------------
(***************************************************************************)
(* The SQLite read model over the JSONL logs: each log is copied to a      *)
(* table, with a watermark that says how much of the log has been copied.  *)
(* The ticker's thread copies what was appended (sync_from_jsonl); startup *)
(* and the supervisor copy everything anew (rebuild).  Meanwhile the       *)
(* program appends to the logs and the retention job cuts them.            *)
(*                                                                         *)
(* All lines have the same length: a byte offset is a number of lines.     *)
(***************************************************************************)
EXTENDS Integers, Sequences, FiniteSets, SequencesExt

CONSTANTS
  Streams,      \* the logs, a sequence: the order in which a copy reads them
  Keyed,        \* the logs whose table has a primary key (event_id)
  NoMark,       \* no watermark is stored
  ModelOf,      \* the model that a line of usage is about, by line
  Limit,        \* rows that a summary looks at
  MaxLines,     \* bound: lines written
  MaxRebuilds,  \* bound: rebuilds
  MaxFaults     \* bound: copies that fail, ends of the process

ASSUME ReadModelAssumption ==
  /\ Streams \in Seq(Range(Streams)) /\ IsInjective(Streams)
  /\ Keyed \subseteq Range(Streams)
  /\ NoMark \notin Nat
  /\ DOMAIN ModelOf = 1 .. MaxLines
  /\ Limit \in Nat /\ MaxLines \in Nat /\ MaxRebuilds \in Nat /\ MaxFaults \in Nat

VARIABLES
  written,   \* lines written so far; the next line is written + 1
  log,       \* per stream, the lines of the file
  table,     \* per stream, the rows of the table, by line
  mark,      \* per stream, the watermark in the table meta
  open,      \* the engine is registered and has a store
  sync,      \* where the ticker's thread is in sync_from_jsonl
  build,     \* where the thread of a rebuild is
  lapsed,    \* auxiliary: lines that have slipped through
  twice,     \* auxiliary: streams of which a line was read beyond the size that became the
             \* watermark, or was imported by a sync beside a rebuild: it may be there twice
  shifted,   \* auxiliary: logs cut since they were last copied from the start
  rebuilds, faults  \* bounds

files == <<written, log>>
db == <<table, mark>>
slips == <<lapsed, twice, shifted>>
bounds == <<rebuilds, faults>>
readVars == <<files, db, open, sync, build, slips, bounds>>

Logs == Range(Streams)
NoRows == [s \in Logs |-> <<>>]

\* `marks`: the watermarks it began with; `size`: of the log it is at.  Auxiliary:
\* `torn`, a rebuild has changed the tables since it began; `cut`, the logs that
\* were cut since they were measured.
NoSync == [at |-> 0, marks |-> NoRows, size |-> 0, stated |-> FALSE, batch |-> NoRows,
           upto |-> NoRows, reset |-> {}, torn |-> FALSE, cut |-> {}]
NoBuild == [at |-> 0, rows |-> NoRows, dropped |-> FALSE, cut |-> {}]

Syncing == sync.at > 0
Building == build.at > 0
Measured(s) == \E i \in DOMAIN Streams : Streams[i] = s /\ (i < sync.at \/ (i = sync.at /\ sync.stated))

\* A watermark beyond the end of the log: the next sync will notice.
Short(s) == mark[s] # NoMark /\ Len(log[s]) < mark[s]

------------------------------------------------------------------------------
(***************************************************************************)
(* The writers of the logs.                                                *)
(***************************************************************************)
Write(s, line) ==
  /\ written < MaxLines
  /\ written' = written + 1
  /\ log' = [log EXCEPT ![s] = Append(@, line)]
  /\ UNCHANGED <<db, open, sync, build, slips, bounds>>

AppendLine(s) == Write(s, written + 1)

\* A stored event that is replayed or requeued is stored once more.
AppendAgain(s) == s \in Keyed /\ \E line \in Range(log[s]) : Write(s, line)

\* The retention job cuts off what has expired.
Cut(s) ==
  /\ s \notin Keyed /\ log[s] # <<>>
  /\ \E n \in 1 .. Len(log[s]) : log' = [log EXCEPT ![s] = SubSeq(@, n + 1, Len(@))]
  /\ shifted' = shifted \cup {s}
  /\ sync' = IF Measured(s) THEN [sync EXCEPT !.cut = @ \cup {s}] ELSE sync
  /\ build' = IF Building THEN [build EXCEPT !.cut = @ \cup {s}] ELSE build
  /\ UNCHANGED <<written, db, open, lapsed, twice, bounds>>

------------------------------------------------------------------------------
(***************************************************************************)
(* Copying what was appended.                                              *)
(***************************************************************************)
BeginSync ==
  /\ open /\ ~Syncing
  /\ sync' = [NoSync EXCEPT !.at = 1, !.marks = mark]
  /\ UNCHANGED <<files, db, open, build, slips, bounds>>

Looking == Syncing /\ sync.at <= Len(Streams)

\* The size of a log is taken first, and the log is read then.
StatBatch ==
  /\ Looking /\ ~sync.stated
  /\ sync' = [sync EXCEPT !.stated = TRUE, !.size = Len(log[Streams[sync.at]])]
  /\ UNCHANGED <<files, db, open, build, slips, bounds>>

ReadBatchThenStat ==  \* faulty: the size is taken after the log was read
  /\ Looking /\ sync.stated
  /\ LET s == Streams[sync.at]
         m == sync.marks[s]
         reset == m = NoMark \/ m > sync.size
         upto == IF Len(log[s]) < sync.size THEN Len(log[s]) ELSE sync.size
         rows == SubSeq(log[s], IF reset THEN 1 ELSE m + 1, upto)
     IN sync' = [sync EXCEPT !.at = @ + 1, !.stated = FALSE, !.size = 0,
                             !.batch[s] = rows, !.upto[s] = Len(log[s]),
                             !.reset = IF reset THEN @ \cup {s} ELSE @]
  /\ UNCHANGED <<files, db, open, build, slips, bounds>>

ReadBatchForward ==  \* faulty: the watermark never moves back
  /\ Looking /\ sync.stated
  /\ LET s == Streams[sync.at]
         m == sync.marks[s]
         upto == IF m # NoMark /\ m > sync.size THEN m ELSE sync.size
     IN sync' = [sync EXCEPT !.at = @ + 1, !.stated = FALSE, !.size = 0,
                             !.batch[s] = SubSeq(log[s], IF m = NoMark THEN 1 ELSE m + 1, Len(log[s])),
                             !.upto[s] = upto,
                             !.reset = IF m = NoMark THEN @ \cup {s} ELSE @]
  /\ UNCHANGED <<files, db, open, build, slips, bounds>>

\* Everything is read again when the log is shorter than the watermark.
\* A log that has grown since it was measured is read to its present end.
ReadBatch ==
  /\ Looking /\ sync.stated
  /\ LET s == Streams[sync.at]
         m == sync.marks[s]
         reset == m = NoMark \/ m > sync.size
         rows == IF reset THEN log[s]
                 ELSE IF m = sync.size THEN <<>> ELSE SubSeq(log[s], m + 1, Len(log[s]))
     IN sync' = [sync EXCEPT !.at = @ + 1, !.stated = FALSE, !.size = 0,
                             !.batch[s] = rows, !.upto[s] = sync.size,
                             !.reset = IF reset THEN @ \cup {s} ELSE @]
  /\ UNCHANGED <<files, db, open, build, slips, bounds>>

\* The lines at the positions found, in their order.
Picked(lines, found) ==
  LET place(i) == Cardinality({j \in found : j <= i})
  IN  [k \in 1 .. Cardinality(found) |-> lines[CHOOSE i \in found : place(i) = k]]

\* INSERT OR IGNORE of one row after the other: those come in that are neither in the
\* table nor among the rows before them.
Ignoring(rows, new) ==
  rows \o Picked(new, {i \in DOMAIN new :
                         new[i] \notin Range(rows) /\ \A j \in 1 .. i - 1 : new[j] # new[i]})

ImportedOnTop(s) ==  \* faulty: the rows of a log that was cut are not deleted first
  IF s \in Keyed THEN Ignoring(table[s], sync.batch[s]) ELSE table[s] \o sync.batch[s]

ImportedAfresh(s) ==  \* faulty: rows are deleted whenever there are new ones
  LET rows == IF sync.batch[s] # <<>> THEN <<>> ELSE table[s]
  IN IF s \in Keyed THEN Ignoring(rows, sync.batch[s]) ELSE rows \o sync.batch[s]

Imported(s) ==
  LET rows == IF s \in sync.reset THEN <<>> ELSE table[s]
  IN IF s \in Keyed THEN Ignoring(rows, sync.batch[s]) ELSE rows \o sync.batch[s]

\* Rows and watermarks are one transaction.
Commit ==
  /\ Syncing /\ ~Looking
  /\ table' = [s \in Logs |-> Imported(s)]
  /\ mark' = sync.upto
  /\ sync' = NoSync
  /\ lapsed' = IF sync.torn
                 THEN lapsed \cup UNION {Range(log[s]) \ Range(Imported(s)) : s \in Logs}
                 ELSE lapsed \ UNION {Range(sync.batch[s]) : s \in sync.reset}
  /\ shifted' = (shifted \ sync.reset) \cup sync.cut
  /\ twice' = {s \in Logs : \/ s \in twice \ sync.reset
                            \/ s \notin Keyed /\ sync.torn
                            \/ Len(sync.batch[s]) > sync.upto[s] - (IF s \in sync.reset THEN 0 ELSE sync.marks[s])}
  /\ UNCHANGED <<files, open, build, bounds>>

\* sync_read_model swallows what sync raises: the transaction is rolled back.
SyncFails ==
  /\ Syncing /\ faults < MaxFaults
  /\ faults' = faults + 1
  /\ sync' = NoSync
  /\ UNCHANGED <<files, db, open, build, slips, rebuilds>>

------------------------------------------------------------------------------
(***************************************************************************)
(* Copying everything anew.                                                *)
(***************************************************************************)
\* At startup, or restart() by the supervisor; the old store stays in use meanwhile.
BeginBuild ==
  /\ ~Building /\ rebuilds < MaxRebuilds
  /\ rebuilds' = rebuilds + 1
  /\ build' = [NoBuild EXCEPT !.at = 1]
  /\ UNCHANGED <<files, db, open, sync, slips, faults>>

ReadAll ==
  /\ Building /\ build.at <= Len(Streams)
  /\ build' = [build EXCEPT !.at = @ + 1, !.rows[Streams[build.at]] = log[Streams[build.at]]]
  /\ UNCHANGED <<files, db, open, sync, slips, bounds>>

\* executescript commits: this much cannot be rolled back.
Drop ==
  /\ build.at > Len(Streams) /\ ~build.dropped
  /\ build' = [build EXCEPT !.dropped = TRUE]
  /\ table' = NoRows
  /\ mark' = [s \in Logs |-> NoMark]
  /\ sync' = IF Syncing THEN [sync EXCEPT !.torn = TRUE] ELSE sync
  /\ twice' = {}
  /\ UNCHANGED <<files, open, lapsed, shifted, bounds>>

\* A plain INSERT: a key that is in the table or twice in the log is refused, and so
\* is a watermark that a sync has stored since the tables were dropped.
Refused ==
  \/ \E s \in Logs : mark[s] # NoMark
  \/ \E s \in Keyed : ~IsInjective(build.rows[s])

ImportAll ==
  /\ build.dropped /\ ~Refused
  /\ table' = build.rows
  /\ mark' = [s \in Logs |-> Len(log[s])]
  /\ lapsed' = UNION {Range(log[s]) \ Range(build.rows[s]) : s \in Logs}
  /\ open' = TRUE
  /\ build' = NoBuild
  /\ sync' = IF Syncing THEN [sync EXCEPT !.torn = TRUE] ELSE sync
  /\ shifted' = build.cut
  /\ UNCHANGED <<files, twice, bounds>>

BuildFails ==
  /\ build.dropped /\ Refused
  /\ build' = NoBuild
  /\ UNCHANGED <<files, db, open, sync, slips, bounds>>

\* stop() closes the connection, or the process ends.
Down ==
  /\ faults < MaxFaults
  /\ faults' = faults + 1
  /\ open' = FALSE
  /\ sync' = NoSync /\ build' = NoBuild
  /\ UNCHANGED <<files, db, slips, rebuilds>>

------------------------------------------------------------------------------
(***************************************************************************)
(* Reading, from the projection or, if there is none, from the log.  Usage *)
(* is summed up by model; the sums are reduced to counts of lines.         *)
(***************************************************************************)
LastRows(rows) == SubSeq(rows, IF Len(rows) > Limit THEN Len(rows) - Limit + 1 ELSE 1, Len(rows))

ByModel(rows) ==
  [m \in Range(ModelOf) |-> Cardinality({i \in DOMAIN rows : ModelOf[rows[i]] = m})]

metrics_snapshots(s) == LastRows(table[s])
read_metrics_history(s) == LastRows(log[s])
provider_usage_by_model(s) == ByModel(LastRows(table[s]))
provider_usage_summary(s) == ByModel(LastRows(log[s]))

------------------------------------------------------------------------------
ReadInit ==
  /\ written = 0 /\ log = NoRows
  /\ table = NoRows /\ mark = [s \in Logs |-> NoMark] /\ open = FALSE
  /\ sync = NoSync /\ build = NoBuild
  /\ lapsed = {} /\ twice = {} /\ shifted = {}
  /\ rebuilds = 0 /\ faults = 0

Writers == \E s \in Logs : AppendLine(s) \/ AppendAgain(s) \/ Cut(s)
SyncStep == BeginSync \/ StatBatch \/ ReadBatch \/ Commit
BuildStep == ReadAll \/ Drop \/ ImportAll \/ BuildFails

ReadNext == Writers \/ SyncStep \/ SyncFails \/ BeginBuild \/ BuildStep \/ Down

ReadSpec == ReadInit /\ [][ReadNext]_readVars

\* The ticker calls sync every thirty seconds; a rebuild that was begun goes on.
ReadFairSpec == ReadSpec /\ WF_readVars(SyncStep) /\ WF_readVars(BuildStep)

------------------------------------------------------------------------------
\* Types; rows and watermarks change together, so that a log without a watermark
\* has no rows.
ReadTypeOK ==
  /\ log \in [Logs -> Seq(1 .. written)] /\ table \in [Logs -> Seq(1 .. written)]
  /\ mark \in [Logs -> Nat \cup {NoMark}]
  /\ \A s \in Logs : mark[s] = NoMark => table[s] = <<>>
  /\ sync.at \in 0 .. Len(Streams) + 1 /\ build.at \in 0 .. Len(Streams) + 1
  /\ lapsed \subseteq 1 .. written /\ twice \subseteq Logs /\ shifted \subseteq Logs

\* The watermark is honest: what lies below it is in the table, however the sync,
\* a rebuild and the writers interleave.  Exempt are logs that were cut and not
\* copied anew since, and the lines that a rebuild or a sync beside it let slip.
NothingSkipped ==
  \A s \in Logs \ shifted :
    mark[s] # NoMark =>
      \A i \in DOMAIN log[s] : i <= mark[s] => log[s][i] \in Range(table[s]) \cup lapsed

\* A dashboard shows the same whether the facade answers from the projection or falls
\* back to the log, once the log is copied to its end.  Three exemptions besides the lines
\* that slipped through (lapsed): logs whose table has a key, which drop repeated lines;
\* logs that were cut and not copied anew since (shifted); and logs of which lines may be in
\* the table twice (twice).  The last is what sync_from_jsonl denies: "the watermark
\* guarantees each appended line is imported exactly once".  It stores the size it took
\* before it read, so a line appended between the two is read by this sync and again by
\* the next; a rebuild beside a sync imports lines once more, too.
AnswersAgree ==
  \A s \in Logs \ (Keyed \cup shifted \cup twice) :
    mark[s] = Len(log[s]) /\ lapsed \cap Range(log[s]) = {} =>
      /\ metrics_snapshots(s) = read_metrics_history(s)
      /\ provider_usage_by_model(s) = provider_usage_summary(s)

\* The projection stays current: a line that stays in its log is copied, also after
\* the log was cut and after syncs that failed.  Exempt is a log that was cut and has
\* grown beyond its watermark before the next sync.
Mirrored ==
  \A s \in Logs, line \in 1 .. MaxLines :
    open /\ line \in Range(log[s]) ~>
      \/ line \notin Range(log[s]) \/ line \in Range(table[s]) \cup lapsed
      \/ (s \in shifted /\ ~Short(s))
      \/ ~open

\* The tables together are a view of the logs, of everything that has not slipped through.
View == INSTANCE MaterializedView WITH
  produced <- Logs \X (1 .. written),
  source <- {p \in Logs \X (1 .. written) : p[2] \in Range(log[p[1]]) \ lapsed},
  view <- {p \in Logs \X (1 .. written) : p[2] \in Range(table[p[1]])},
  building <- build.dropped

\* A sync never takes away a row whose line is still in the log; rows disappear only
\* while a rebuild is between its two halves.
IsView == View!Spec
=============================================================================
