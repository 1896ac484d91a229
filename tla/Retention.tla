------------------------------ MODULE Retention ------------------------------
(***************************************************************************)
(* apply_retention on one telemetry log: expired records are rolled up     *)
(* into hourly and daily rows and then cut off the log, while the program  *)
(* goes on appending to it.  A record is named by the time it was taken;   *)
(* the log is the set of its records, which are in the order of time.      *)
(***************************************************************************)
EXTENDS Integers, Sequences

CONSTANTS
  Window,         \* age from which a record is expired (policy["days"])
  Granularities,  \* the granularities of the rollup; none when the policy has no rollup
  Length,         \* the length of a bucket of each granularity
  MaxTime,        \* bound: points of time
  MaxFaults       \* bound: passes that are broken off

ASSUME RetentionAssumption ==
  /\ Window \in Nat /\ MaxTime \in Nat /\ MaxFaults \in Nat
  /\ Length \in [Granularities -> Nat \ {0}]

VARIABLES
  now,        \* the time
  recorded,   \* auxiliary: every record ever appended
  raw,        \* the log
  rollup,     \* the rollup file: a sequence of rows; auxiliary in each: the cutoff of
              \* the pass that wrote it
  step,       \* where the pass is
  cut,        \* cutoff: older records are expired
  read,       \* the records the pass has read
  known,      \* existing: the buckets already rolled up
  todo,       \* the buckets the pass has still to write
  between,    \* auxiliary: records appended between a pass's read and its truncation
  faults      \* passes broken off so far (bound)

pass == <<step, cut, read, known, todo>>
retentionVars == <<now, recorded, raw, rollup, pass, between, faults>>

\* The bucket of record r, as the key of its row.
bucket_key(r, g) == <<g, r \div Length[g]>>

Expired == {r \in read : r < cut}
Buckets(records) == {bucket_key(r, g) : r \in records, g \in Granularities}
RolledUp == {rollup[i].key : i \in DOMAIN rollup}

------------------------------------------------------------------------------
(***************************************************************************)
(* Time and the writers of the log.                                        *)
(***************************************************************************)
Record ==
  /\ now < MaxTime
  /\ now' = now + 1
  /\ recorded' = recorded \cup {now}
  /\ raw' = raw \cup {now}
  /\ between' = IF step = "rows" THEN between \cup {now} ELSE between
  /\ UNCHANGED <<rollup, pass, faults>>

Tick ==
  /\ now < MaxTime
  /\ now' = now + 1
  /\ UNCHANGED <<recorded, raw, rollup, pass, between, faults>>

------------------------------------------------------------------------------
(***************************************************************************)
(* A pass of the telemetry_retention job.                                  *)
(***************************************************************************)
EndPass == step' = "idle" /\ cut' = 0 /\ read' = {} /\ known' = {} /\ todo' = {}

\* The cutoff is taken from the clock once, when the job begins.
Begin ==
  /\ step = "idle"
  /\ step' = "read" /\ cut' = now - Window
  /\ UNCHANGED <<now, recorded, raw, rollup, read, known, todo, between, faults>>

ReadUnlessRolled ==  \* faulty: what was rolled up before is taken for done
  /\ step = "read"
  /\ LET expired == {r \in raw : r < cut} IN
       IF Buckets(expired) \subseteq RolledUp THEN EndPass
       ELSE /\ step' = "rows" /\ read' = raw
            /\ known' = RolledUp /\ todo' = Buckets(expired)
            /\ UNCHANGED cut
  /\ UNCHANGED <<now, recorded, raw, rollup, between, faults>>

\* A pass that finds no expired record has nothing to do.
Read ==
  /\ step = "read"
  /\ LET expired == {r \in raw : r < cut} IN
       IF expired = {} THEN EndPass
       ELSE /\ step' = "rows" /\ read' = raw
            /\ known' = RolledUp /\ todo' = Buckets(expired)
            /\ UNCHANGED cut
  /\ UNCHANGED <<now, recorded, raw, rollup, between, faults>>

Row(key) ==
  [key |-> key, records |-> {r \in Expired : bucket_key(r, key[1]) = key}, cut |-> cut]

WriteRowAnyway ==  \* faulty: a bucket that was rolled up before is not skipped
  /\ step = "rows"
  /\ \E key \in todo : /\ todo' = todo \ {key}
                       /\ known' = known \cup {key}
                       /\ rollup' = Append(rollup, Row(key))
  /\ UNCHANGED <<now, recorded, raw, step, cut, read, between, faults>>

\* The rows are written one after the other, in whatever order.
WriteRow ==
  /\ step = "rows"
  /\ \E key \in todo : /\ todo' = todo \ {key}
                       /\ known' = known \cup {key}
                       /\ rollup' = IF key \in known THEN rollup ELSE Append(rollup, Row(key))
  /\ UNCHANGED <<now, recorded, raw, step, cut, read, between, faults>>

TruncateAtOnce ==  \* faulty: before the rows are written
  /\ step = "rows"
  /\ raw' = read \ Expired
  /\ IF todo = {} THEN EndPass ELSE UNCHANGED pass
  /\ UNCHANGED <<now, recorded, rollup, between, faults>>

\* The log is replaced by what was read and has not expired.
Truncate ==
  /\ step = "rows" /\ todo = {}
  /\ raw' = read \ Expired
  /\ EndPass
  /\ UNCHANGED <<now, recorded, rollup, between, faults>>

\* A write fails, which ends the pass, or the process ends.
BreakOff ==
  /\ step # "idle" /\ faults < MaxFaults
  /\ faults' = faults + 1
  /\ EndPass
  /\ UNCHANGED <<now, recorded, raw, rollup, between>>

------------------------------------------------------------------------------
RetentionInit ==
  /\ now = 0
  /\ recorded = {} /\ raw = {} /\ rollup = <<>>
  /\ step = "idle" /\ cut = 0 /\ read = {} /\ known = {} /\ todo = {}
  /\ between = {} /\ faults = 0

PassStep == Begin \/ Read \/ WriteRow \/ Truncate

RetentionNext == Record \/ Tick \/ PassStep \/ BreakOff

RetentionSpec == RetentionInit /\ [][RetentionNext]_retentionVars

\* The job recurs, and a pass that was begun goes on unless it is broken off.
RetentionFairSpec == RetentionSpec /\ WF_retentionVars(PassStep)

------------------------------------------------------------------------------
\* Types; and a pass works with a cutoff that is not later than the window allows.
RollupRow == [key : Granularities \X Int, records : SUBSET Nat, cut : Int]

RetentionTypeOK ==
  /\ now \in Nat /\ recorded \subseteq Nat /\ raw \subseteq recorded
  /\ rollup \in Seq(RollupRow)
  /\ step \in {"idle", "read", "rows"} /\ cut \in Int
  /\ step # "idle" => cut <= now - Window
  /\ read \subseteq recorded
  /\ known \subseteq Granularities \X Int /\ todo \subseteq Granularities \X Int
  /\ between \subseteq recorded /\ faults \in Nat

\* Rollup is idempotent: however often passes are broken off and repeated, no
\* record is counted in two rows of a granularity.
NoDoubleCount ==
  \A i, j \in DOMAIN rollup :
    i # j /\ rollup[i].key[1] = rollup[j].key[1] => rollup[i].records \cap rollup[j].records = {}

\* The row of the record's bucket counts it.
CountedIn(r, g) ==
  \E i \in DOMAIN rollup : rollup[i].key = bucket_key(r, g) /\ r \in rollup[i].records

\* Its bucket was rolled up by a pass for which it had not expired yet.
BucketClosedEarly(r, g) ==
  \E i \in DOMAIN rollup : rollup[i].key = bucket_key(r, g) /\ rollup[i].cut <= r

\* Rollup before truncation: a record that has left the log was expired, and in each
\* granularity it is counted in the row of its bucket, however the passes were broken off.
\* Two exemptions, in which telemetry.yaml's "raw data is never truncated before rollup
\* completes" does not hold of the code.  BucketClosedEarly: the cutoff of an earlier pass
\* fell into the bucket, which got its row then; a later pass skips the bucket and truncates
\* the rest of it uncounted.  between: the record was appended while a pass worked, and the
\* pass wrote the log back without it.
RollupBeforeTruncate ==
  \A r \in recorded \ (raw \cup between) :
    /\ r < now - Window
    /\ \A g \in Granularities : CountedIn(r, g) \/ BucketClosedEarly(r, g)

\* The log is bounded: an expired record leaves it, also when passes were broken
\* off between its rollup and its truncation.
ExpiredLeaves == \A r \in 0 .. MaxTime : r \in raw /\ r < now - Window ~> r \notin raw
=============================================================================
