--------------------------- MODULE TelemetryShare ---------------------------
(***************************************************************************)
(* The two logs behind the dashboard's Sessions panel and the share of     *)
(* operator actions: telemetry/sessions.py and telemetry/actions.py.       *)
(*                                                                         *)
(* A log is a sequence of lines; Corrupt is one that does not parse.  A    *)
(* checkpoint of a session is [session, at, model, reason, work, commands, *)
(* tools] and an action [source, action, count, at]; at is 0 if the line   *)
(* has no time.  A session's counters only grow from one to the next of    *)
(* its checkpoints.                                                        *)
(***************************************************************************)
EXTENDS Naturals, Sequences, FiniteSets, SequencesExt, FiniteSetsExt, Functions

Corrupt == [at |-> 0, corrupt |-> TRUE]
Parsed(log) == SelectSeq(log, LAMBDA line : "corrupt" \notin DOMAIN line)

\* _next_timestamp: later than the last one of this process.
NextTime(clock, last) == IF clock <= last THEN last + 1 ELSE clock

\* The last lines of what was read; _maybe_prune replaces the log by them, also
\* if the log has grown in between.
Pruned(lines, max) == SubSeq(lines, IF Len(lines) > max THEN Len(lines) - max + 1 ELSE 1, Len(lines))

RecordSession(log, clock, last, record, max) ==
  Pruned(Append(log, [record EXCEPT !.at = NextTime(clock, last)]), max)

RecordAction(log, now, source, action, count, max) ==
  Pruned(Append(log, [source |-> source, action |-> action, count |-> IF count < 1 THEN 1 ELSE count, at |-> now]), max)

\* A limit of 0 means everything.
ReadTail(log, limit) == Pruned(Parsed(log), IF limit = 0 THEN Len(log) ELSE limit)

\* The newest record of every session, in the order of the sessions; of two with
\* one time the first.
NewestPerSession(records) ==
  LET sessions == FoldLeft(LAMBDA seen, r : IF r.session \in Range(seen) THEN seen ELSE Append(seen, r.session), << >>, records)
      newest(s) == SelectInSeq(records, LAMBDA r :
                     r.session = s /\ \A i \in DOMAIN records : records[i].session = s => records[i].at <= r.at)
  IN [i \in DOMAIN sessions |-> records[newest(sessions[i])]]

\* The later first, and in their order at one time.
NewestFirst(records) ==
  LET before(i, j) == records[i].at > records[j].at \/ (records[i].at = records[j].at /\ i < j)
  IN [n \in DOMAIN records |->
        records[CHOOSE j \in DOMAIN records : Cardinality({i \in DOMAIN records : before(i, j)}) = n - 1]]

TotalOf(records, Value(_)) == FoldLeft(LAMBDA sum, r : sum + Value(r), 0, records)

GroupBy(records, Name(_)) ==
  [name \in {Name(records[i]) : i \in DOMAIN records} |-> SelectSeq(records, LAMBDA r : Name(r) = name)]

SessionSummary(log, limit) ==
  LET records == ReadTail(log, limit)
      recent == NewestFirst(NewestPerSession(records))
  IN [records |-> Len(records), recent |-> recent,
      work |-> TotalOf(recent, LAMBDA r : r.work),
      models |-> GroupBy(recent, LAMBDA r : r.model),
      reasons |-> GroupBy(recent, LAMBDA r : r.reason)]

----------------------------------------------------------------------------
(* The share, over the records of a window.  A line without a time counts  *)
(* nowhere.                                                                *)

Since(log, since) == SelectSeq(Parsed(log), LAMBDA r : r.at > 0 /\ r.at >= since)

CountSince(log, since) == TotalOf(Since(log, since), LAMBDA r : r.count)

\* The counters at the newest checkpoint in the window, which count the session
\* from its start.
SessionActions(sessions, since, max) ==
  TotalOf(NewestPerSession(Since(ReadTail(sessions, max), since)), LAMBDA r : r.commands + r.tools)

\* A percentage in tenths, rounded; of a share just between two either one.
Percentages(part, whole) ==
  IF whole = 0 THEN {0}
  ELSE LET down == (1000 * part) \div whole
           rest == 2 * ((1000 * part) % whole)
       IN (IF rest <= whole THEN {down} ELSE {}) \union (IF rest >= whole THEN {down + 1} ELSE {})

ActionShare(cli, actions, sessions, since, max) ==
  LET of(source) == SelectSeq(actions, LAMBDA r : "corrupt" \in DOMAIN r \/ r.source = source)
      gui == CountSince(of("gui"), since)
      desktop == CountSince(of("desktop"), since)
      worked == SessionActions(sessions, since, max)
      whole == gui + desktop + worked + CountSince(cli, since)
      shares == Percentages(gui + desktop + worked, whole)
  IN [gui |-> gui, desktop |-> desktop, sessions |-> worked, total |-> whole, shares |-> shares,
      atTarget |-> {share >= 800 : share \in shares}]

-----------------------------------------------------------------------------
(***************************************************************************)
(* Logs of up to three lines of two sessions or two sources, with lines    *)
(* that do not parse or have no time, caps of one and two lines, windows   *)
(* that begin anywhere.  The assumptions are evaluated by the runs whose   *)
(* module extends this one.                                                *)
(***************************************************************************)

Checkpoint(session, at, n) ==
  [session |-> session, at |-> at, model |-> "m", reason |-> "checkpoint", work |-> n, commands |-> n, tools |-> 0]

CheckpointLines == {Checkpoint(s, at, n) : s \in {"s", "t"}, at \in 0..2, n \in {1, 5}} \union {Corrupt}
SessionLogs == UNION {[1..n -> CheckpointLines] : n \in 0..2} \union [1..3 -> {Checkpoint(s, at, at + 1) : s \in {"s", "t"}, at \in 0..2}]

TimesOf(log) == {log[i].at : i \in DOMAIN log}

\* One process records times that rise, whatever its clock does, and a log at its
\* cap gives up its oldest line for the new one.
ASSUME TimesRise ==
  \A clocks \in [1..3 -> 0..3] : \A max \in 1..3 :
    LET t1 == NextTime(clocks[1], 0)
        t2 == NextTime(clocks[2], t1)
        one == RecordSession(<< >>, clocks[1], 0, Checkpoint("s", 0, 1), max)
        two == RecordSession(one, clocks[2], t1, Checkpoint("s", 0, 2), max)
        three == RecordSession(two, clocks[3], t2, Checkpoint("t", 0, 3), max)
    IN /\ \A i \in 1..(Len(three) - 1) : three[i].at < three[i + 1].at
       /\ Len(three) = max
       /\ Last(three).work = 3 /\ three[1].work = 4 - max
       /\ max = 3 => SessionSummary(three, 0).work = 5

\* Between its read and its replacement of the log a writer does not see what
\* another appends: at the cap that record is lost, and below it none is.
ASSUME PruneDropsTheOvertaken ==
  \A max \in 1..3 : \A n \in 0..3 :
    LET log == [i \in 1..n |-> Checkpoint("s", i, i)]
        read == Append(log, Checkpoint("s", n + 1, 8))
        grown == Append(read, Checkpoint("t", n + 2, 9))
        after == IF Len(read) > max THEN Pruned(read, max) ELSE grown
    IN Checkpoint("t", n + 2, 9) \in Range(after) <=> n < max

\* Every session of the tail is shown once, with its newest checkpoint, newest
\* first; the groups share the sessions out; a limit of 0 is no limit.
ASSUME SessionsShownOnce ==
  \A log \in SessionLogs : \A limit \in 0..2 :
    LET summary == SessionSummary(log, limit)
        tail == ReadTail(log, limit)
    IN /\ {summary.recent[i].session : i \in DOMAIN summary.recent} = {tail[i].session : i \in DOMAIN tail}
       /\ Len(summary.recent) = Cardinality({tail[i].session : i \in DOMAIN tail})
       /\ \A i \in DOMAIN summary.recent : \A j \in DOMAIN tail :
            tail[j].session = summary.recent[i].session => tail[j].at <= summary.recent[i].at
       /\ \A i \in 1..(Len(summary.recent) - 1) : summary.recent[i].at >= summary.recent[i + 1].at
       /\ TotalOf(SetToSeq(DOMAIN summary.reasons), LAMBDA reason : Len(summary.reasons[reason])) = Len(summary.recent)
       /\ limit = 0 => tail = Parsed(log)

----------------------------------------------------------------------------
ActionOf(source, at, count) == [source |-> source, action |-> "write", count |-> count, at |-> at]
ActionLogs == UNION {[1..n -> {ActionOf(s, at, c) : s \in {"gui", "desktop", "other"}, at \in 0..2, c \in {1, 2}} \union {Corrupt}] : n \in 0..2}
CliLogs == {<< >>, <<ActionOf("cli", 1, 1)>>, <<ActionOf("cli", 2, 1), ActionOf("cli", 0, 1)>>}
FewSessions == {<< >>, <<Checkpoint("s", 1, 4), Checkpoint("s", 2, 6)>>, <<Checkpoint("s", 2, 6), Checkpoint("t", 1, 3)>>}

\* The share is between nothing and everything, every action of the window
\* counts once, and a later window counts no more of them.
ASSUME ShareCountsTheWindow ==
  \A actions \in ActionLogs : \A cli \in CliLogs : \A sessions \in FewSessions : \A since \in 0..3 :
    LET share == ActionShare(cli, actions, sessions, since, 10)
    IN /\ share.shares \subseteq 0..1000
       /\ since > 0 => share.total <= ActionShare(cli, actions, sessions, since - 1, 10).total
       /\ (share.total = 0 \/ share.gui + share.desktop + share.sessions = 0) => share.shares = {0}
       /\ (share.total > 0 /\ CountSince(cli, since) = 0) => share.shares = {1000}
       /\ since = 3 => share.total = 0

\* A session that reaches into the window brings all it did before.
ASSUME SessionsBringTheirPast ==
  SessionActions(<<Checkpoint("s", 1, 4), Checkpoint("s", 2, 6)>>, 2, 10) = 6

\* The target is met by rounding, from 79.95 percent on.
ASSUME TargetByRounding ==
  \A part \in 0..400 : LET reached == {share >= 800 : share \in Percentages(part + 1400, 2000)}
                       IN /\ TRUE \in reached <=> part + 1400 >= 1599
                          /\ FALSE \in reached <=> part + 1400 <= 1599

\* An action recorded with a count below one counts once.
ASSUME CountsAreWhole ==
  \A count \in 0..2 : \A max \in 1..2 :
    CountSince(RecordAction(<<ActionOf("gui", 1, 1)>>, 2, "gui", "write", count, max), 1) =
      (IF count < 1 THEN 1 ELSE count) + (max - 1)
=============================================================================
