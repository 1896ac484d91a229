---------------------------- MODULE TelemetryProofs ----------------------------
(***************************************************************************)
(* Proofs about what the system keeps and tells of its own running.        *)
(* Retention: for every window, every set of granularities with buckets of *)
(* any length, and any number of passes broken off.  EventBus and          *)
(* DashboardFeed: for any number of threads on the bus, standing           *)
(* subscribers, events, restarts and connections, and every cap of the     *)
(* dead letters, the replay and the client's queue.                        *)
(***************************************************************************)
EXTENDS Retention, DashboardFeed, SequenceTheorems, FiniteSetTheorems, TLAPS

------------------------------------------------------------------------------
(***************************************************************************)
(* Retention: the telemetry log and its rollup.                            *)
(***************************************************************************)
\* A bucket is a granularity and a number.
LEMMA BucketType ==
  ASSUME NEW r \in Nat, NEW g \in Granularities
  PROVE  bucket_key(r, g) \in Granularities \X Int
<1>1. Length[g] \in Nat \ {0}
  BY RetentionAssumption
<1>2. r \div Length[g] \in Int
  BY <1>1
<1> QED
  BY <1>2 DEF bucket_key

\* The buckets of a set of records are keys.
LEMMA BucketsType ==
  ASSUME NEW R \in SUBSET Nat
  PROVE  Buckets(R) \subseteq Granularities \X Int
<1>1. \A r \in R, g \in Granularities : bucket_key(r, g) \in Granularities \X Int
  BY BucketType
<1> QED
  BY <1>1 DEF Buckets

\* A row that is appended adds its key to the buckets rolled up, and no other.
LEMMA AppendRow ==
  ASSUME NEW S, NEW s \in Seq(S), NEW row \in S
  PROVE  /\ Append(s, row) \in Seq(S)
         /\ \A i \in DOMAIN Append(s, row) :
              \/ i \in DOMAIN s /\ Append(s, row)[i] = s[i]
              \/ i = Len(s) + 1 /\ i \notin DOMAIN s /\ Append(s, row)[i] = row
         /\ \A k : (\E i \in DOMAIN Append(s, row) : Append(s, row)[i].key = k)
                    <=> (\E i \in DOMAIN s : s[i].key = k) \/ k = row.key
<1>1. /\ Append(s, row) \in Seq(S)
      /\ DOMAIN s = 1 .. Len(s) /\ Len(s) \in Nat
      /\ DOMAIN Append(s, row) = 1 .. (Len(s) + 1)
      /\ \A i \in 1 .. Len(s) : Append(s, row)[i] = s[i]
      /\ Append(s, row)[Len(s) + 1] = row
  OBVIOUS
<1>2. \A i \in DOMAIN Append(s, row) :
              \/ i \in DOMAIN s /\ Append(s, row)[i] = s[i]
              \/ i = Len(s) + 1 /\ i \notin DOMAIN s /\ Append(s, row)[i] = row
  BY <1>1
<1>3. DOMAIN s \subseteq DOMAIN Append(s, row) /\ Len(s) + 1 \in DOMAIN Append(s, row)
  BY <1>1
<1> QED
  BY <1>1, <1>2, <1>3

\* Types, and the cutoff of a pass: apply_retention reads the clock before the
\* log, and the clock only goes on.
THEOREM RetentionTypeCorrect == RetentionSpec => []RetentionTypeOK
<1>1. RetentionInit => RetentionTypeOK
  BY RetentionAssumption DEF RetentionInit, RetentionTypeOK
<1>2. RetentionTypeOK /\ [RetentionNext]_retentionVars => RetentionTypeOK'
  <2> SUFFICES ASSUME RetentionTypeOK, [RetentionNext]_retentionVars PROVE RetentionTypeOK'
    OBVIOUS
  <2> USE RetentionAssumption DEF RetentionTypeOK, pass
  <2>1. CASE Record
    BY <2>1 DEF Record
  <2>2. CASE Tick
    BY <2>2 DEF Tick
  <2>3. CASE Begin
    BY <2>3 DEF Begin
  <2>4. CASE Read
    <3>1. CASE {r \in raw : r < cut} = {}
      BY <2>4, <3>1 DEF Read, EndPass
    <3>2. CASE {r \in raw : r < cut} # {}
      <4>1. Buckets({r \in raw : r < cut}) \subseteq Granularities \X Int
        BY BucketsType
      <4>2. RolledUp \subseteq Granularities \X Int
        <5>1. \A i \in DOMAIN rollup :
                rollup[i] \in RollupRow
          <6>1. DOMAIN rollup = 1 .. Len(rollup)
            OBVIOUS
          <6> QED
            BY <6>1, ElementOfSeq
        <5>2. \A i \in DOMAIN rollup : rollup[i].key \in Granularities \X Int
          BY <5>1 DEF RollupRow
        <5> QED
          BY <5>2 DEF RolledUp
      <4> QED
        BY <2>4, <3>2, <4>1, <4>2 DEF Read
    <3> QED
      BY <3>1, <3>2
  <2>5. CASE WriteRow
    <3>1. PICK key \in todo : /\ todo' = todo \ {key}
                              /\ known' = known \cup {key}
                              /\ rollup' = IF key \in known THEN rollup
                                           ELSE Append(rollup, Row(key))
      BY <2>5 DEF WriteRow
    <3>2. Row(key) \in RollupRow
      BY <2>5 DEF Row, Expired, RollupRow, WriteRow
    <3>3. rollup' \in Seq(RollupRow)
      BY <3>1, <3>2, AppendRow
    <3> QED
      BY <2>5, <3>1, <3>3 DEF WriteRow
  <2>6. CASE Truncate
    <3>1. raw' \subseteq recorded
      BY <2>6 DEF Truncate
    <3>2. UNCHANGED <<now, recorded, rollup, between, faults>>
      BY <2>6 DEF Truncate
    <3>3. step' = "idle" /\ cut' = 0 /\ read' = {} /\ known' = {} /\ todo' = {}
      BY <2>6 DEF Truncate, EndPass
    <3> QED
      BY <3>1, <3>2, <3>3
  <2>7. CASE BreakOff
    BY <2>7 DEF BreakOff, EndPass
  <2>8. CASE UNCHANGED retentionVars
    BY <2>8 DEF retentionVars
  <2> QED
    BY <2>1, <2>2, <2>3, <2>4, <2>5, <2>6, <2>7, <2>8 DEF RetentionNext, PassStep
<1> QED
  BY <1>1, <1>2, PTL DEF RetentionSpec

------------------------------------------------------------------------------
(***************************************************************************)
(* Rollup before truncation.                                               *)
(***************************************************************************)

\* What a pass knows once it has read the log: which buckets have a row, that its
\* expired records are in buckets that have one or will have, and that what it
\* has not read was appended behind its back.
PassAccounted ==
  step = "rows" =>
    /\ known = RolledUp
    /\ \A r \in Expired, g \in Granularities : bucket_key(r, g) \in todo \cup known
    /\ raw \subseteq read \cup between

\* The buckets of what has left the log have rows, unless it was appended behind the
\* back of a pass.
BucketBeforeTruncate ==
  \A r \in recorded \ (raw \cup between) :
    r < now - Window /\ \A g \in Granularities : bucket_key(r, g) \in RolledUp

\* A row counts every record of its bucket that had expired when it was written.
RowsComplete ==
  \A i \in DOMAIN rollup :
    /\ rollup[i].cut <= now - Window
    /\ \A r \in recorded \ between, g \in Granularities :
         rollup[i].key = bucket_key(r, g) /\ r < rollup[i].cut => r \in rollup[i].records

\* While nothing is written to the rollup file, its buckets stay.
LEMMA RolledUpStays == UNCHANGED rollup => UNCHANGED RolledUp
  BY DEF RolledUp

\* A row that is written adds its bucket.
LEMMA RolledUpGrows ==
  ASSUME RetentionTypeOK, NEW key \in todo, rollup' = Append(rollup, Row(key))
  PROVE  RolledUp' = RolledUp \cup {key}
<1>1. Row(key) \in RollupRow /\ Row(key).key = key
  BY DEF Row, Expired, RetentionTypeOK, RollupRow
<1>2. rollup \in Seq(RollupRow)
  BY DEF RetentionTypeOK
<1>3. \A k : (\E i \in DOMAIN rollup' : rollup'[i].key = k)
               <=> (\E i \in DOMAIN rollup : rollup[i].key = k) \/ k = key
  <2> DEFINE row == Row(key)
  <2>1. \A k : (\E i \in DOMAIN Append(rollup, row) : Append(rollup, row)[i].key = k)
                 <=> (\E i \in DOMAIN rollup : rollup[i].key = k) \/ k = row.key
    <3>1. row \in RollupRow
      BY <1>1
    <3> DEFINE S == RollupRow
    <3>2. row \in S /\ rollup \in Seq(S)
      BY <1>2, <3>1
    <3> HIDE DEF row, S
    <3> QED
      BY <3>2, AppendRow
  <2> QED
    BY <1>1, <2>1, Zenon
<1>4. \A k : k \in RolledUp <=> \E i \in DOMAIN rollup : rollup[i].key = k
  BY DEF RolledUp
<1>5. \A k : k \in RolledUp' <=> \E i \in DOMAIN rollup' : rollup'[i].key = k
  BY DEF RolledUp
<1> QED
  BY <1>3, <1>4, <1>5

\* The inductive invariant: what a pass knows, and what the passes before it did.
LEMMA PassesAccounted == RetentionSpec => [](PassAccounted /\ BucketBeforeTruncate)
<1> DEFINE IInv == PassAccounted /\ BucketBeforeTruncate
<1>1. RetentionInit => IInv
  BY DEF RetentionInit, PassAccounted, BucketBeforeTruncate
<1>2. RetentionTypeOK /\ RetentionTypeOK' /\ IInv /\ [RetentionNext]_retentionVars => IInv'
  <2> SUFFICES ASSUME RetentionTypeOK, RetentionTypeOK', IInv, [RetentionNext]_retentionVars
               PROVE  IInv'
    OBVIOUS
  <2> USE RetentionAssumption DEF pass
  <2>1. CASE Record
    <3>1. UNCHANGED RolledUp
      BY <2>1, RolledUpStays DEF Record
    <3>2. UNCHANGED Expired
      BY <2>1 DEF Record, Expired
    <3>3. PassAccounted'
      BY <2>1, <3>1, <3>2 DEF Record, PassAccounted
    <3>4. \A r \in recorded' \ (raw' \cup between') : r \in recorded \ (raw \cup between)
      BY <2>1 DEF Record
    <3>5. \A r \in recorded' \ (raw' \cup between') : r < now' - Window
      BY <2>1, <3>4 DEF Record, BucketBeforeTruncate, RetentionTypeOK
    <3> QED
      BY <3>1, <3>3, <3>4, <3>5 DEF BucketBeforeTruncate
  <2>2. CASE Tick
    <3>1. UNCHANGED RolledUp
      BY <2>2, RolledUpStays DEF Tick
    <3>2. PassAccounted'
      BY <2>2, <3>1 DEF Tick, PassAccounted, Expired
    <3>3. \A r \in recorded' \ (raw' \cup between') : r < now' - Window
      BY <2>2 DEF Tick, BucketBeforeTruncate, RetentionTypeOK
    <3> QED
      BY <2>2, <3>1, <3>2, <3>3 DEF Tick, BucketBeforeTruncate
  <2>3. CASE Begin
    <3>1. UNCHANGED RolledUp
      BY <2>3, RolledUpStays DEF Begin
    <3> QED
      BY <2>3, <3>1 DEF Begin, PassAccounted, BucketBeforeTruncate
  <2>4. CASE Read
    <3>1. UNCHANGED RolledUp
      BY <2>4, RolledUpStays DEF Read
    <3>2. BucketBeforeTruncate'
      BY <2>4, <3>1 DEF Read, BucketBeforeTruncate
    <3>3. CASE {r \in raw : r < cut} = {}
      BY <2>4, <3>2, <3>3 DEF Read, EndPass, PassAccounted
    <3>4. CASE {r \in raw : r < cut} # {}
      <4>1. known' = RolledUp' /\ raw' \subseteq read'
        BY <2>4, <3>1, <3>4 DEF Read
      <4>2. Expired' = {r \in raw : r < cut} /\ todo' = Buckets({r \in raw : r < cut})
        BY <2>4, <3>4 DEF Read, Expired
      <4>3. \A r \in Expired', g \in Granularities : bucket_key(r, g) \in todo'
        BY <4>2 DEF Buckets
      <4> QED
        BY <3>2, <4>1, <4>3 DEF PassAccounted
    <3> QED
      BY <3>3, <3>4
  <2>5. CASE WriteRow
    <3>1. PICK key \in todo : /\ todo' = todo \ {key}
                              /\ known' = known \cup {key}
                              /\ rollup' = IF key \in known THEN rollup
                                           ELSE Append(rollup, Row(key))
      BY <2>5 DEF WriteRow
    <3>2. RolledUp' = RolledUp \cup {key}
      <4>1. known = RolledUp
        BY <2>5 DEF WriteRow, PassAccounted
      <4>2. CASE key \in known
        BY <3>1, <4>1, <4>2, RolledUpStays
      <4>3. CASE key \notin known
        BY <3>1, <4>3, RolledUpGrows
      <4> QED
        BY <4>2, <4>3
    <3>3. UNCHANGED Expired
      BY <2>5 DEF WriteRow, Expired
    <3>4. PassAccounted'
      BY <2>5, <3>1, <3>2, <3>3 DEF WriteRow, PassAccounted
    <3> QED
      BY <2>5, <3>2, <3>4 DEF WriteRow, BucketBeforeTruncate
  <2>6. CASE Truncate
    <3>1. UNCHANGED RolledUp
      BY <2>6, RolledUpStays DEF Truncate
    <3>2. ASSUME NEW r \in recorded' \ (raw' \cup between')
          PROVE  r < now' - Window /\ \A g \in Granularities : bucket_key(r, g) \in RolledUp'
      <4>1. CASE r \in raw
        <5>1. r \in Expired
          BY <2>6, <3>2, <4>1 DEF Truncate, PassAccounted
        <5>2. \A g \in Granularities : bucket_key(r, g) \in RolledUp
          BY <2>6, <5>1 DEF Truncate, PassAccounted
        <5>3. r < cut /\ cut <= now - Window /\ r \in Nat /\ now' = now
          BY <2>6, <5>1 DEF Truncate, Expired, RetentionTypeOK
        <5>4. r < now' - Window
          BY <5>3 DEF RetentionTypeOK
        <5> QED
          BY <3>1, <5>2, <5>4
      <4>2. CASE r \notin raw
        BY <2>6, <3>1, <3>2, <4>2 DEF Truncate, BucketBeforeTruncate
      <4> QED
        BY <4>1, <4>2
    <3>3. PassAccounted'
      BY <2>6 DEF Truncate, EndPass, PassAccounted
    <3> QED
      BY <3>2, <3>3 DEF BucketBeforeTruncate
  <2>7. CASE BreakOff
    <3>1. UNCHANGED RolledUp
      BY <2>7, RolledUpStays DEF BreakOff
    <3> QED
      BY <2>7, <3>1 DEF BreakOff, EndPass, PassAccounted, BucketBeforeTruncate
  <2>8. CASE UNCHANGED retentionVars
    <3>1. UNCHANGED RolledUp
      BY <2>8, RolledUpStays DEF retentionVars
    <3> QED
      BY <2>8, <3>1 DEF retentionVars, PassAccounted, BucketBeforeTruncate, Expired
  <2> QED
    BY <2>1, <2>2, <2>3, <2>4, <2>5, <2>6, <2>7, <2>8 DEF RetentionNext, PassStep
<1> QED
  BY <1>1, <1>2, RetentionTypeCorrect, PTL DEF RetentionSpec

\* Rows are complete when they are written and when the log grows.
LEMMA RowsAreComplete == RetentionSpec => []RowsComplete
<1>1. RetentionInit => RowsComplete
  BY DEF RetentionInit, RowsComplete
<1>2. /\ RetentionTypeOK /\ PassAccounted /\ BucketBeforeTruncate /\ RowsComplete
      /\ [RetentionNext]_retentionVars
      => RowsComplete'
  <2> SUFFICES ASSUME RetentionTypeOK, PassAccounted, BucketBeforeTruncate, RowsComplete,
                      [RetentionNext]_retentionVars
               PROVE  RowsComplete'
    OBVIOUS
  <2> USE RetentionAssumption
  <2>0. \A i \in DOMAIN rollup : rollup[i] \in RollupRow /\ rollup[i].cut \in Int
    <3>1. rollup \in Seq(RollupRow) /\ DOMAIN rollup = 1 .. Len(rollup)
      BY DEF RetentionTypeOK
    <3>2. \A i \in DOMAIN rollup : rollup[i] \in RollupRow
      BY <3>1, ElementOfSeq
    <3> QED
      BY <3>2 DEF RollupRow
  <2>1. CASE Record
    <3> SUFFICES ASSUME NEW i \in DOMAIN rollup
                 PROVE  /\ rollup[i].cut <= now' - Window
                        /\ \A r \in recorded' \ between', g \in Granularities :
                             rollup[i].key = bucket_key(r, g) /\ r < rollup[i].cut
                               => r \in rollup[i].records
      BY <2>1 DEF Record, RowsComplete, bucket_key
    <3>1. rollup[i].cut \in Int /\ rollup[i].cut <= now - Window /\ now \in Nat
          /\ now' = now + 1
      BY <2>0, <2>1 DEF RowsComplete, RetentionTypeOK, Record
    <3>2. ~ (now < rollup[i].cut) /\ rollup[i].cut <= now' - Window
      BY <3>1
    <3>3. \A r \in recorded' \ between' : r = now \/ r \in recorded \ between
      BY <2>1 DEF Record
    <3> QED
      BY <3>2, <3>3 DEF RowsComplete
  <2>2. CASE Tick
    <3>1. \A i \in DOMAIN rollup : rollup[i].cut <= now' - Window
      BY <2>0, <2>2 DEF Tick, RowsComplete, RetentionTypeOK
    <3> QED
      BY <2>2, <3>1 DEF Tick, RowsComplete, bucket_key
  <2>3. CASE WriteRow
    <3>1. PICK key \in todo : rollup' = IF key \in known THEN rollup ELSE Append(rollup, Row(key))
      BY <2>3 DEF WriteRow
    <3>2. UNCHANGED <<now, recorded, between>> /\ step = "rows"
      BY <2>3 DEF WriteRow
    <3>3. CASE key \in known
      BY <3>1, <3>2, <3>3 DEF RowsComplete, bucket_key
    <3>4. CASE key \notin known
      <4> DEFINE row == Row(key)
      <4>1. row \in RollupRow /\ row.key = key /\ row.cut = cut /\ cut <= now - Window
            /\ row.records = {r \in Expired : bucket_key(r, key[1]) = key}
        BY <3>2 DEF Row, Expired, RetentionTypeOK, RollupRow
      <4>2. ASSUME NEW r \in recorded \ between, NEW g \in Granularities,
                   key = bucket_key(r, g), r < cut
            PROVE  r \in row.records
        <5>1. r \in raw
          BY <3>2, <3>4, <4>2 DEF BucketBeforeTruncate, PassAccounted
        <5>2. r \in Expired
          BY <3>2, <4>2, <5>1 DEF PassAccounted, Expired
        <5> QED
          BY <4>1, <4>2, <5>2 DEF bucket_key
      <4>3. \A i \in DOMAIN rollup' : \/ i \in DOMAIN rollup /\ rollup'[i] = rollup[i]
                                      \/ rollup'[i] = row
        <5>1. rollup' = Append(rollup, row) /\ rollup \in Seq(RollupRow)
          BY <3>1, <3>4 DEF RetentionTypeOK
        <5> HIDE DEF row
        <5> QED
          BY <4>1, <5>1, AppendRow
      <4> HIDE DEF row
      <4> SUFFICES ASSUME NEW i \in DOMAIN rollup'
                   PROVE  /\ rollup'[i].cut <= now - Window
                          /\ \A r \in recorded \ between, g \in Granularities :
                               rollup'[i].key = bucket_key(r, g) /\ r < rollup'[i].cut
                                 => r \in rollup'[i].records
        BY <3>2 DEF RowsComplete, bucket_key
      <4> QED
        BY <4>1, <4>2, <4>3 DEF RowsComplete
    <3> QED
      BY <3>3, <3>4
  <2>4. CASE Begin \/ Read \/ Truncate \/ BreakOff \/ UNCHANGED retentionVars
    <3>1. UNCHANGED <<now, recorded, rollup, between>>
      BY <2>4 DEF Begin, Read, Truncate, BreakOff, retentionVars
    <3> QED
      BY <3>1 DEF RowsComplete, bucket_key
  <2> QED
    BY <2>1, <2>2, <2>3, <2>4 DEF RetentionNext, PassStep
<1> QED
  BY <1>1, <1>2, RetentionTypeCorrect, PassesAccounted, PTL DEF RetentionSpec

\* What has left the log was expired, and each of its buckets has a row that counts it,
\* unless the row was written before the record expired or the record was appended while a
\* pass worked (apply_retention appends the rows before it calls _truncate_keep).
THEOREM RolledUpBeforeTruncation == RetentionSpec => []RollupBeforeTruncate
<1>1. RetentionTypeOK /\ BucketBeforeTruncate /\ RowsComplete => RollupBeforeTruncate
  <2> SUFFICES ASSUME RetentionTypeOK, BucketBeforeTruncate, RowsComplete,
                      NEW r \in recorded \ (raw \cup between)
               PROVE  /\ r < now - Window
                      /\ \A g \in Granularities : CountedIn(r, g) \/ BucketClosedEarly(r, g)
    BY DEF RollupBeforeTruncate
  <2>1. ASSUME NEW g \in Granularities PROVE CountedIn(r, g) \/ BucketClosedEarly(r, g)
    <3>1. PICK i \in DOMAIN rollup : rollup[i].key = bucket_key(r, g)
      BY DEF BucketBeforeTruncate, RolledUp
    <3>2. r \in Nat /\ rollup[i].cut \in Int
      <4>1. rollup \in Seq(RollupRow) /\ DOMAIN rollup = 1 .. Len(rollup)
        BY DEF RetentionTypeOK
      <4>2. rollup[i] \in RollupRow
        BY <4>1, ElementOfSeq
      <4> QED
        BY <4>2 DEF RetentionTypeOK, RollupRow
    <3>3. CASE r < rollup[i].cut
      BY <3>1, <3>3 DEF RowsComplete, CountedIn
    <3>4. CASE rollup[i].cut <= r
      BY <3>1, <3>4 DEF BucketClosedEarly
    <3> QED
      BY <3>2, <3>3, <3>4
  <2> QED
    BY <2>1 DEF BucketBeforeTruncate
<1> QED
  BY <1>1, RetentionTypeCorrect, PassesAccounted, RowsAreComplete, PTL

------------------------------------------------------------------------------
(***************************************************************************)
(* No record is counted twice.                                             *)
(***************************************************************************)

\* A row counts records of its bucket, and a bucket has one row.
OneRowPerBucket ==
  /\ \A i \in DOMAIN rollup : \A r \in rollup[i].records :
       bucket_key(r, rollup[i].key[1]) = rollup[i].key
  /\ \A i, j \in DOMAIN rollup : rollup[i].key = rollup[j].key => i = j

\* A row for a bucket that has none keeps it so.
LEMMA RowWritten ==
  ASSUME RetentionTypeOK, OneRowPerBucket,
         NEW key \in todo, key \notin RolledUp, rollup' = Append(rollup, Row(key))
  PROVE  OneRowPerBucket'
<1> DEFINE S == RollupRow
<1> DEFINE row == Row(key)
<1>1. row \in S /\ rollup \in Seq(S) /\ row.key = key
  BY DEF Row, Expired, RetentionTypeOK, RollupRow
<1>2. \A r \in row.records : bucket_key(r, row.key[1]) = row.key
  BY DEF Row
<1>3. \A i \in DOMAIN rollup : rollup[i].key # row.key
  BY <1>1 DEF RolledUp
<1>4. \A i \in DOMAIN rollup' : \/ i \in DOMAIN rollup /\ rollup'[i] = rollup[i]
                                \/ i = Len(rollup) + 1 /\ rollup'[i] = row
  <2> HIDE DEF row, S
  <2>1. rollup' = Append(rollup, row)
    BY DEF row
  <2> QED
    BY <1>1, <2>1, AppendRow
<1>5. \A i \in DOMAIN rollup' : \A r \in rollup'[i].records :
         bucket_key(r, rollup'[i].key[1]) = rollup'[i].key
  <2> HIDE DEF row, S
  <2> QED
    BY <1>2, <1>4 DEF OneRowPerBucket
<1>6. \A i, j \in DOMAIN rollup' : rollup'[i].key = rollup'[j].key => i = j
  <2> HIDE DEF row, S
  <2> QED
    BY <1>3, <1>4 DEF OneRowPerBucket
<1> QED
  BY <1>5, <1>6 DEF OneRowPerBucket, bucket_key

\* The rollup is idempotent: a bucket that has a row is skipped, by this pass
\* and, since it reads the file, by the pass after one that was broken off.
THEOREM NothingCountedTwice == RetentionSpec => []NoDoubleCount
<1>1. RetentionInit => OneRowPerBucket
  BY DEF RetentionInit, OneRowPerBucket
<1>2. RetentionTypeOK /\ PassAccounted /\ OneRowPerBucket /\ [RetentionNext]_retentionVars
        => OneRowPerBucket'
  <2> SUFFICES ASSUME RetentionTypeOK, PassAccounted, OneRowPerBucket, [RetentionNext]_retentionVars
               PROVE  OneRowPerBucket'
    OBVIOUS
  <2>1. CASE WriteRow
    <3>1. PICK key \in todo : rollup' = IF key \in known THEN rollup ELSE Append(rollup, Row(key))
      BY <2>1 DEF WriteRow
    <3>2. known = RolledUp
      BY <2>1 DEF WriteRow, PassAccounted
    <3>3. CASE key \in known
      BY <3>1, <3>3 DEF OneRowPerBucket, bucket_key
    <3>4. CASE key \notin known
      BY <3>1, <3>2, <3>4, RowWritten
    <3> QED
      BY <3>3, <3>4
  <2>2. CASE ~WriteRow
    <3>1. UNCHANGED rollup
      BY <2>2 DEF RetentionNext, PassStep, retentionVars, pass, Record, Tick, Begin, Read, EndPass,
                  Truncate, BreakOff
    <3> QED
      BY <3>1 DEF OneRowPerBucket, bucket_key
  <2> QED
    BY <2>1, <2>2
<1>3. RetentionTypeOK /\ OneRowPerBucket => NoDoubleCount
  <2> SUFFICES ASSUME OneRowPerBucket,
                      NEW i \in DOMAIN rollup, NEW j \in DOMAIN rollup,
                      i # j, rollup[i].key[1] = rollup[j].key[1],
                      NEW r \in rollup[i].records \cap rollup[j].records
               PROVE  FALSE
    BY DEF NoDoubleCount
  <2>1. rollup[i].key = bucket_key(r, rollup[i].key[1])
    BY DEF OneRowPerBucket
  <2>2. rollup[j].key = bucket_key(r, rollup[i].key[1])
    BY DEF OneRowPerBucket
  <2> QED
    BY <2>1, <2>2 DEF OneRowPerBucket
<1> QED
  BY <1>1, <1>2, <1>3, RetentionTypeCorrect, PassesAccounted, PTL DEF RetentionSpec

------------------------------------------------------------------------------
(***************************************************************************)
(* The event bus and the dashboard's feed.                                 *)
(***************************************************************************)

------------------------------------------------------------------------------
(***************************************************************************)
(* Sequences and the values that occur in them.                            *)
(***************************************************************************)
IsSeq(s) == s \in Seq(Range(s))

LEMMA SeqOfIsSeq ==
  ASSUME NEW S, NEW s \in Seq(S)
  PROVE  IsSeq(s) /\ Range(s) \subseteq S
<1>1. s \in [1 .. Len(s) -> S] /\ Len(s) \in Nat
  OBVIOUS
<1>2. s \in [1 .. Len(s) -> Range(s)]
  BY <1>1 DEF Range
<1> QED
  BY <1>1, <1>2 DEF IsSeq, Range

LEMMA EmptyIsSeq == IsSeq(<<>>) /\ Range(<<>>) = {}
  BY DEF IsSeq, Range

LEMMA OneMoreIsSeq ==
  ASSUME NEW s, IsSeq(s), NEW x
  PROVE  IsSeq(Append(s, x)) /\ Range(Append(s, x)) = Range(s) \cup {x}
<1> DEFINE a == Append(s, x)
           S == Range(s) \cup {x}
<1>1. s \in Seq(S) /\ x \in S /\ Len(s) \in Nat /\ DOMAIN s = 1 .. Len(s)
  BY DEF IsSeq
<1>2. a \in Seq(S) /\ DOMAIN a = 1 .. (Len(s) + 1) /\ a[Len(s) + 1] = x
      /\ \A i \in 1 .. Len(s) : a[i] = s[i]
  BY <1>1
<1> HIDE DEF a, S
<1>3. IsSeq(a) /\ Range(a) \subseteq S
  BY <1>2, SeqOfIsSeq
<1>4. \A i \in 1 .. Len(s) : s[i] \in Range(a)
  BY <1>1, <1>2 DEF Range
<1>5. x \in Range(a)
  BY <1>1, <1>2 DEF Range
<1>6. S \subseteq Range(a)
  BY <1>1, <1>4, <1>5 DEF S, Range
<1> QED
  BY <1>3, <1>6 DEF a, S

LEMMA TailIsSeq ==
  ASSUME NEW s, IsSeq(s), s # <<>>
  PROVE  /\ IsSeq(Tail(s)) /\ Range(s) = Range(Tail(s)) \cup {Head(s)}
         /\ Len(s) > 1 <=> Tail(s) # <<>>
<1>1. s \in Seq(Range(s)) /\ Len(s) \in Nat /\ DOMAIN s = 1 .. Len(s) /\ Len(s) > 0
  BY DEF IsSeq
<1>2. Tail(s) \in Seq(Range(s)) /\ Head(s) = s[1] /\ DOMAIN Tail(s) = 1 .. (Len(s) - 1)
      /\ Len(Tail(s)) = Len(s) - 1 /\ \A i \in 1 .. (Len(s) - 1) : Tail(s)[i] = s[i + 1]
  BY <1>1
<1>3. IsSeq(Tail(s)) /\ Range(Tail(s)) \subseteq Range(s)
  BY <1>2, SeqOfIsSeq
<1>4. Head(s) \in Range(s)
  BY <1>1, <1>2 DEF Range
<1>5. ASSUME NEW i \in DOMAIN s PROVE s[i] \in Range(Tail(s)) \cup {Head(s)}
  <2>1. CASE i = 1
    BY <1>2, <2>1
  <2>2. CASE i # 1
    <3>1. i - 1 \in 1 .. (Len(s) - 1) /\ s[i] = Tail(s)[i - 1]
      BY <1>1, <1>2, <2>2
    <3> QED
      BY <1>2, <3>1 DEF Range
  <2> QED
    BY <2>1, <2>2
<1>6. Range(s) \subseteq Range(Tail(s)) \cup {Head(s)}
  BY <1>5 DEF Range
<1>7. Len(s) > 1 <=> Tail(s) # <<>>
  <2>1. ASSUME NEW u \in Seq(Range(s)) PROVE u = <<>> <=> Len(u) = 0
    OBVIOUS
  <2>2. Tail(s) = <<>> <=> Len(Tail(s)) = 0
    BY <1>2, <2>1
  <2>3. ASSUME NEW k \in Nat, k > 0 PROVE k > 1 <=> k - 1 # 0
    BY <2>3
  <2>4. Len(s) > 1 <=> Len(s) - 1 # 0
    BY <1>1, <2>3, Zenon
  <2>5. Len(Tail(s)) = Len(s) - 1
    BY <1>2, Zenon
  <2> QED
    BY <2>2, <2>4, <2>5, Zenon
<1> QED
  BY <1>3, <1>4, <1>6, <1>7

LEMMA PartIsSeq ==
  ASSUME NEW s, IsSeq(s), NEW m \in Nat \ {0}, NEW n \in 0 .. Len(s)
  PROVE  IsSeq(SubSeq(s, m, n)) /\ Range(SubSeq(s, m, n)) \subseteq Range(s)
<1>1. s \in Seq(Range(s)) /\ Len(s) \in Nat /\ DOMAIN s = 1 .. Len(s)
  BY DEF IsSeq
<1>2. SubSeq(s, m, n) \in Seq(Range(s))
  BY <1>1
<1> QED
  BY <1>2, SeqOfIsSeq

LEMMA WholeIsSeq ==
  ASSUME NEW s, IsSeq(s)
  PROVE  SubSeq(s, 1, Len(s)) = s /\ Len(s) \in Nat
<1>1. s \in Seq(Range(s)) /\ Len(s) \in Nat
  BY DEF IsSeq
<1> QED
  BY <1>1

LEMMA CappedIsSeq ==
  ASSUME NEW s, IsSeq(s)
  PROVE  IsSeq(Capped(s)) /\ Range(Capped(s)) \subseteq Range(s)
<1>1. Len(s) \in Nat /\ MaxRecords \in Nat
  BY WholeIsSeq, BusAssumption
<1>2. Len(s) > MaxRecords => Len(s) - MaxRecords + 1 \in Nat \ {0} /\ Len(s) \in 0 .. Len(s)
  BY <1>1
<1> QED
  BY <1>2, PartIsSeq DEF Capped

\* What a replay loads is a sequence, of no more events than its limit.
LEMMA LoadIsSeq ==
  ASSUME IsSeq(store), NEW s
  PROVE  IsSeq(load_events(s))
<1> DEFINE found == {i \in DOMAIN store : store[i] >= s}
           n == IF Cardinality(found) < ReplayLimit THEN Cardinality(found) ELSE ReplayLimit
           place(i) == Cardinality({j \in found : j <= i})
           v(k) == store[CHOOSE i \in found : place(i) = k]
<1>1. Len(store) \in Nat /\ DOMAIN store = 1 .. Len(store)
  BY WholeIsSeq DEF IsSeq
<1>2. IsFiniteSet(found)
  <2>1. IsFiniteSet(1 .. Len(store))
    BY <1>1, FS_Interval
  <2>2. found \subseteq 1 .. Len(store)
    BY <1>1
  <2> QED
    BY <2>1, <2>2, FS_Subset
<1>3. n \in Nat
  BY <1>2, FS_CardinalityType, BusAssumption
<1>4. load_events(s) = [k \in 1 .. n |-> v(k)]
  BY DEF load_events
<1> HIDE DEF n, v
<1>5. load_events(s) \in Seq({v(k) : k \in 1 .. n})
  BY <1>3, <1>4
<1> QED
  BY <1>5, SeqOfIsSeq

------------------------------------------------------------------------------
(***************************************************************************)
(* The steps of the bus.                                                   *)
(***************************************************************************)
Shaped(f) == f = [t \in Callers |-> f[t]]

ThreadsOK == Shaped(pc) /\ Shaped(work) /\ Shaped(targets) /\ Shaped(failed) /\ Shaped(written)

ThreadOK(t) ==
  /\ IsSeq(targets[t]) /\ IsSeq(failed[t]) /\ IsSeq(written[t])
  /\ pc[t] = "deliver" => targets[t] # <<>>
  /\ pc[t] \in {"bury", "buryfile"} => failed[t] # <<>>

BusTypes ==
  /\ ThreadsOK /\ \A t \in Callers : ThreadOK(t)
  /\ IsSeq(store) /\ IsSeq(records) /\ IsSeq(file) /\ IsSeq(routes)

\* The other threads are where they were.
Rest(t) ==
  \A u \in Callers : u # t =>
    /\ pc'[u] = pc[u] /\ work'[u] = work[u] /\ targets'[u] = targets[u]
    /\ failed'[u] = failed[u] /\ written'[u] = written[u]

\* What a step does with the thread that takes it.
LEMMA PublishDoes ==
  ASSUME BusTypes, NEW t \in Callers, Publish(t)
  PROVE  /\ ThreadsOK' /\ Rest(t) /\ work'[t] = <<created + 1>> /\ pc'[t] = "route"
         /\ targets'[t] = targets[t] /\ failed'[t] = failed[t] /\ written'[t] = written[t]
<1>1. work' = [work EXCEPT ![t] = <<created + 1>>] /\ Shaped(work)
  BY DEF Publish, Goto, AfterBurial, BusTypes, ThreadsOK
<1>2. pc' = [pc EXCEPT ![t] = "route"] /\ Shaped(pc)
  BY DEF Publish, Goto, AfterBurial, BusTypes, ThreadsOK
<1>3. Shaped(work') /\ work'[t] = <<created + 1>>
      /\ \A u \in Callers : u # t => work'[u] = work[u]
  BY <1>1 DEF Shaped
<1>4. Shaped(pc') /\ pc'[t] = "route"
      /\ \A u \in Callers : u # t => pc'[u] = pc[u]
  BY <1>2 DEF Shaped
<1>5. UNCHANGED <<targets, failed, written>>
  BY DEF Publish, AfterBurial
<1> QED
  BY <1>3, <1>4, <1>5 DEF BusTypes, ThreadsOK, Shaped, Rest

LEMMA RouteDoes ==
  ASSUME BusTypes, NEW t \in Callers, Route(t)
  PROVE  /\ ThreadsOK' /\ Rest(t) /\ pc[t] = "route"
         /\ pc'[t] = IF targets'[t] = <<>> THEN "store" ELSE "deliver"
         /\ work'[t] = work[t] /\ failed'[t] = failed[t] /\ written'[t] = written[t]
         /\ IsSeq(targets'[t])
         /\ targets'[t] = routes \/ Current(t) \in disturbed'
         /\ disturbed \subseteq disturbed'
<1>1. PICK n \in IF sorting THEN 0 .. Len(routes) ELSE {Len(routes)} :
        LET found == SubSeq(routes, 1, n)
        IN  /\ targets' = [targets EXCEPT ![t] = found]
            /\ pc' = [pc EXCEPT ![t] = IF found = <<>> THEN "store" ELSE "deliver"]
            /\ disturbed' = IF sorting THEN disturbed \cup {Current(t)} ELSE disturbed
  BY Zenon DEF Route, Goto
<1> DEFINE found == SubSeq(routes, 1, n)
           w == IF found = <<>> THEN "store" ELSE "deliver"
<1>2. Len(routes) \in Nat /\ SubSeq(routes, 1, Len(routes)) = routes /\ IsSeq(routes)
  BY WholeIsSeq DEF BusTypes
<1>3. n \in 0 .. Len(routes) /\ (~ sorting => n = Len(routes))
  <2>1. CASE sorting
    BY <1>1, <2>1
  <2>2. CASE ~ sorting
    BY <1>1, <1>2, <2>2
  <2> QED
    BY <2>1, <2>2
<1>4. IsSeq(found) /\ (~ sorting => found = routes)
  <2>1. 1 \in Nat \ {0}
    OBVIOUS
  <2>2. IsSeq(found)
    BY <1>2, <1>3, <2>1, PartIsSeq, Zenon
  <2>3. ~ sorting => found = routes
    BY <1>2, <1>3
  <2> QED
    BY <2>2, <2>3
<1>5. targets' = [targets EXCEPT ![t] = found] /\ pc' = [pc EXCEPT ![t] = w]
      /\ (sorting => Current(t) \in disturbed') /\ disturbed \subseteq disturbed'
  BY <1>1
<1> HIDE DEF found
<1>6. Shaped(targets) /\ Shaped(pc)
  BY DEF BusTypes, ThreadsOK
<1>7. Shaped(targets') /\ targets'[t] = found
      /\ \A u \in Callers : u # t => targets'[u] = targets[u]
  BY <1>5, <1>6 DEF Shaped
<1>8. Shaped(pc') /\ pc'[t] = w /\ \A u \in Callers : u # t => pc'[u] = pc[u]
  BY <1>5, <1>6 DEF Shaped
<1>9. UNCHANGED <<work, failed, written>> /\ pc[t] = "route"
  BY DEF Route
<1> QED
  BY <1>4, <1>5, <1>7, <1>8, <1>9 DEF BusTypes, ThreadsOK, Shaped, Rest

\* A delivery: its subscriber has taken the event, or is among those that failed.
LEMMA HandleDoes ==
  ASSUME BusTypes, NEW t \in Callers, NEW ok, Handle(t, ok)
  PROVE  /\ ThreadsOK' /\ Rest(t) /\ pc[t] = "deliver"
         /\ work'[t] = work[t] /\ written'[t] = written[t] /\ targets'[t] = Tail(targets[t])
         /\ IsSeq(targets'[t]) /\ IsSeq(failed'[t]) /\ handled \subseteq handled'
         /\ Range(targets[t]) = Range(targets'[t]) \cup {Head(targets[t])}
         /\ Range(failed[t]) \subseteq Range(failed'[t])
         /\ pc'[t] = IF targets'[t] # <<>> THEN "deliver"
                     ELSE IF failed'[t] = <<>> THEN "store" ELSE "bury"
         /\ <<Current(t), Head(targets[t])>> \in handled' \/ Head(targets[t]) \in Range(failed'[t])
<1> DEFINE s == Head(targets[t])
           misses == IF ok THEN failed[t] ELSE Append(failed[t], s)
           w == IF Len(targets[t]) > 1 THEN "deliver"
                ELSE IF misses = <<>> THEN "store" ELSE "bury"
<1>1. /\ failed' = [failed EXCEPT ![t] = misses]
      /\ targets' = [targets EXCEPT ![t] = Tail(targets[t])]
      /\ pc' = [pc EXCEPT ![t] = w]
      /\ handled' = IF ok THEN handled \cup {<<Current(t), s>>} ELSE handled
      /\ UNCHANGED <<work, written>> /\ pc[t] = "deliver"
  BY DEF Handle, Goto
<1>2. Shaped(targets) /\ Shaped(pc) /\ Shaped(failed) /\ ThreadOK(t)
  BY DEF BusTypes, ThreadsOK
<1>3. /\ IsSeq(misses) /\ Range(failed[t]) \subseteq Range(misses)
      /\ ~ ok => s \in Range(misses)
  BY <1>2, OneMoreIsSeq DEF ThreadOK
<1>4. IsSeq(Tail(targets[t])) /\ Range(targets[t]) = Range(Tail(targets[t])) \cup {s}
      /\ (Len(targets[t]) > 1 <=> Tail(targets[t]) # <<>>)
  BY <1>1, <1>2, TailIsSeq DEF ThreadOK
<1> HIDE DEF misses, s
<1>5. Shaped(targets') /\ targets'[t] = Tail(targets[t])
      /\ \A u \in Callers : u # t => targets'[u] = targets[u]
  BY <1>1, <1>2 DEF Shaped
<1>6. Shaped(pc') /\ pc'[t] = w /\ \A u \in Callers : u # t => pc'[u] = pc[u]
  BY <1>1, <1>2 DEF Shaped
<1>7. Shaped(failed') /\ failed'[t] = misses
      /\ \A u \in Callers : u # t => failed'[u] = failed[u]
  BY <1>1, <1>2 DEF Shaped
<1>8. ThreadsOK' /\ Rest(t)
  BY <1>1, <1>5, <1>6, <1>7 DEF BusTypes, ThreadsOK, Shaped, Rest
<1>9. handled \subseteq handled' /\ (ok => <<Current(t), s>> \in handled')
  BY <1>1
<1>10. pc'[t] = IF targets'[t] # <<>> THEN "deliver"
                ELSE IF failed'[t] = <<>> THEN "store" ELSE "bury"
  BY <1>4, <1>5, <1>6, <1>7
<1> QED
  BY <1>1, <1>3, <1>4, <1>5, <1>7, <1>8, <1>9, <1>10 DEF s

LEMMA BuryDoes ==
  ASSUME BusTypes, NEW t \in Callers, Bury(t)
  PROVE  /\ ThreadsOK' /\ Rest(t) /\ pc'[t] = "buryfile" /\ work'[t] = work[t]
         /\ targets'[t] = targets[t] /\ failed'[t] = failed[t] /\ written'[t] = written[t]
<1>1. pc' = [pc EXCEPT ![t] = "buryfile"] /\ Shaped(pc)
  BY DEF Bury, Goto, AfterBurial, BusTypes, ThreadsOK
<1>2. Shaped(pc') /\ pc'[t] = "buryfile"
      /\ \A u \in Callers : u # t => pc'[u] = pc[u]
  BY <1>1 DEF Shaped
<1>3. UNCHANGED <<work, targets, failed, written>>
  BY DEF Bury, AfterBurial
<1> QED
  BY <1>2, <1>3 DEF BusTypes, ThreadsOK, Shaped, Rest

LEMMA BuryFileDoes ==
  ASSUME BusTypes, NEW t \in Callers, BuryFile(t)
  PROVE  /\ ThreadsOK' /\ Rest(t) /\ failed'[t] = Tail(failed[t])
         /\ pc'[t] = (IF Len(failed[t]) > 1 THEN "bury" ELSE "store") /\ work'[t] = work[t]
         /\ targets'[t] = targets[t] /\ written'[t] = written[t]
<1>1. failed' = [failed EXCEPT ![t] = Tail(failed[t])] /\ Shaped(failed)
  BY DEF BuryFile, Goto, AfterBurial, BusTypes, ThreadsOK
<1>2. pc' = [pc EXCEPT ![t] = (IF Len(failed[t]) > 1 THEN "bury" ELSE "store")] /\ Shaped(pc)
  BY DEF BuryFile, Goto, AfterBurial, BusTypes, ThreadsOK
<1>3. Shaped(failed') /\ failed'[t] = Tail(failed[t])
      /\ \A u \in Callers : u # t => failed'[u] = failed[u]
  BY <1>1 DEF Shaped
<1>4. Shaped(pc') /\ pc'[t] = (IF Len(failed[t]) > 1 THEN "bury" ELSE "store")
      /\ \A u \in Callers : u # t => pc'[u] = pc[u]
  BY <1>2 DEF Shaped
<1>5. UNCHANGED <<work, targets, written>>
  BY DEF BuryFile, AfterBurial
<1> QED
  BY <1>3, <1>4, <1>5 DEF BusTypes, ThreadsOK, Shaped, Rest

LEMMA PersistDoes ==
  ASSUME BusTypes, NEW t \in Callers, Persist(t)
  PROVE  /\ ThreadsOK' /\ Rest(t) /\ work'[t] = Tail(work[t])
         /\ pc'[t] = NextEvent(Tail(work[t])) /\ targets'[t] = targets[t]
         /\ failed'[t] = failed[t] /\ written'[t] = written[t]
<1>1. work' = [work EXCEPT ![t] = Tail(work[t])] /\ Shaped(work)
  BY DEF Persist, Goto, AfterBurial, BusTypes, ThreadsOK
<1>2. pc' = [pc EXCEPT ![t] = NextEvent(Tail(work[t]))] /\ Shaped(pc)
  BY DEF Persist, Goto, AfterBurial, BusTypes, ThreadsOK
<1>3. Shaped(work') /\ work'[t] = Tail(work[t])
      /\ \A u \in Callers : u # t => work'[u] = work[u]
  BY <1>1 DEF Shaped
<1>4. Shaped(pc') /\ pc'[t] = NextEvent(Tail(work[t]))
      /\ \A u \in Callers : u # t => pc'[u] = pc[u]
  BY <1>2 DEF Shaped
<1>5. UNCHANGED <<targets, failed, written>>
  BY DEF Persist, AfterBurial
<1> QED
  BY <1>3, <1>4, <1>5 DEF BusTypes, ThreadsOK, Shaped, Rest

LEMMA SaveDoes ==
  ASSUME BusTypes, NEW t \in Callers, Save(t)
  PROVE  /\ ThreadsOK' /\ Rest(t) /\ written'[t] = records /\ pc'[t] = "saving"
         /\ work'[t] = work[t] /\ targets'[t] = targets[t] /\ failed'[t] = failed[t]
<1>1. written' = [written EXCEPT ![t] = records] /\ Shaped(written)
  BY DEF Save, Goto, AfterBurial, BusTypes, ThreadsOK
<1>2. pc' = [pc EXCEPT ![t] = "saving"] /\ Shaped(pc)
  BY DEF Save, Goto, AfterBurial, BusTypes, ThreadsOK
<1>3. Shaped(written') /\ written'[t] = records
      /\ \A u \in Callers : u # t => written'[u] = written[u]
  BY <1>1 DEF Shaped
<1>4. Shaped(pc') /\ pc'[t] = "saving"
      /\ \A u \in Callers : u # t => pc'[u] = pc[u]
  BY <1>2 DEF Shaped
<1>5. UNCHANGED <<work, targets, failed>>
  BY DEF Save, AfterBurial
<1> QED
  BY <1>3, <1>4, <1>5 DEF BusTypes, ThreadsOK, Shaped, Rest

LEMMA EndSaveDoes ==
  ASSUME BusTypes, NEW t \in Callers, EndSave(t)
  PROVE  /\ ThreadsOK' /\ Rest(t) /\ written'[t] = <<>> /\ pc'[t] = NextEvent(work[t])
         /\ work'[t] = work[t] /\ targets'[t] = targets[t] /\ failed'[t] = failed[t]
<1>1. written' = [written EXCEPT ![t] = <<>>] /\ Shaped(written)
  BY DEF EndSave, Goto, AfterBurial, BusTypes, ThreadsOK
<1>2. pc' = [pc EXCEPT ![t] = NextEvent(work[t])] /\ Shaped(pc)
  BY DEF EndSave, Goto, AfterBurial, BusTypes, ThreadsOK
<1>3. Shaped(written') /\ written'[t] = <<>>
      /\ \A u \in Callers : u # t => written'[u] = written[u]
  BY <1>1 DEF Shaped
<1>4. Shaped(pc') /\ pc'[t] = NextEvent(work[t])
      /\ \A u \in Callers : u # t => pc'[u] = pc[u]
  BY <1>2 DEF Shaped
<1>5. UNCHANGED <<work, targets, failed>>
  BY DEF EndSave, AfterBurial
<1> QED
  BY <1>3, <1>4, <1>5 DEF BusTypes, ThreadsOK, Shaped, Rest

LEMMA RequeueDoes ==
  ASSUME BusTypes, NEW t \in Callers, Requeue(t)
  PROVE  /\ ThreadsOK' /\ Rest(t) /\ pc'[t] = "save" /\ targets'[t] = targets[t]
         /\ failed'[t] = failed[t] /\ written'[t] = written[t]
         /\ IsSeq(records') /\ Range(records') \subseteq Range(records)
<1>1. PICK n \in 1 .. MaxEvents :
        LET popped == SubSeq(records, 1, IF n < Len(records) THEN n ELSE Len(records))
        IN  /\ work' = [work EXCEPT ![t] = [i \in DOMAIN popped |-> popped[i][1]]]
            /\ records' = SubSeq(records, Len(popped) + 1, Len(records))
  BY DEF Requeue
<1> DEFINE popped == SubSeq(records, 1, IF n < Len(records) THEN n ELSE Len(records))
           w == [i \in DOMAIN popped |-> popped[i][1]]
<1>2. work' = [work EXCEPT ![t] = w] /\ records' = SubSeq(records, Len(popped) + 1, Len(records))
      /\ pc' = [pc EXCEPT ![t] = "save"] /\ UNCHANGED <<targets, failed, written>>
  BY <1>1 DEF Requeue, Goto
<1>3. Shaped(work) /\ Shaped(pc) /\ IsSeq(records)
  BY DEF BusTypes, ThreadsOK
<1>4. Len(popped) \in Nat
  <2>1. Len(records) \in Nat
    BY <1>3, WholeIsSeq
  <2>2. IsSeq(popped)
    BY <1>3, <2>1, PartIsSeq
  <2> QED
    BY <2>2, WholeIsSeq
<1> HIDE DEF popped, w
<1>5. IsSeq(records') /\ Range(records') \subseteq Range(records)
  <2>1. Len(popped) + 1 \in Nat \ {0} /\ Len(records) \in 0 .. Len(records)
    BY <1>3, <1>4, WholeIsSeq
  <2> QED
    BY <1>2, <1>3, <2>1, PartIsSeq
<1>6. Shaped(work') /\ \A u \in Callers : u # t => work'[u] = work[u]
  BY <1>2, <1>3 DEF Shaped
<1>7. Shaped(pc') /\ pc'[t] = "save" /\ \A u \in Callers : u # t => pc'[u] = pc[u]
  BY <1>2, <1>3 DEF Shaped
<1> QED
  BY <1>2, <1>5, <1>6, <1>7 DEF BusTypes, ThreadsOK, Shaped, Rest

LEMMA ReplayDoes ==
  ASSUME BusTypes, NEW t \in Callers, Replay(t)
  PROVE  /\ ThreadsOK' /\ Rest(t) /\ pc'[t] \in {"idle", "route"} /\ targets'[t] = targets[t]
         /\ failed'[t] = failed[t] /\ written'[t] = written[t]
<1>1. PICK n \in 1 .. MaxEvents : /\ work' = [work EXCEPT ![t] = load_events(n)]
                                  /\ pc' = [pc EXCEPT ![t] = NextEvent(load_events(n))]
  BY DEF Replay, Goto
<1>2. Shaped(work) /\ Shaped(pc) /\ UNCHANGED <<targets, failed, written>>
  BY DEF BusTypes, ThreadsOK, Replay
<1>3. Shaped(work') /\ \A u \in Callers : u # t => work'[u] = work[u]
  BY <1>1, <1>2 DEF Shaped
<1>4. /\ Shaped(pc') /\ pc'[t] = NextEvent(load_events(n))
      /\ \A u \in Callers : u # t => pc'[u] = pc[u]
  BY <1>1, <1>2 DEF Shaped
<1> QED
  BY <1>2, <1>3, <1>4 DEF BusTypes, ThreadsOK, Shaped, Rest, NextEvent

\* Seen from the bus, a connection and the end of the sort leave all but the routes alone.
Listens ==
  /\ UNCHANGED <<store, handled, letters, thread, disturbed>>
  /\ routes' = routes \/ routes' = Append(routes, Bridge)

BusStep ==
  \/ \E t \in Callers : \/ Publish(t) \/ Route(t) \/ \E ok \in BOOLEAN : Handle(t, ok)
                        \/ Bury(t) \/ BuryFile(t) \/ Persist(t)
                        \/ Requeue(t) \/ Save(t) \/ EndSave(t) \/ Replay(t)
  \/ Restart \/ Listens \/ UNCHANGED busVars

LEMMA StepsOfTheBus ==
  ASSUME [FeedNext]_vars
  PROVE  BusStep
<1>1. ASSUME NEW t \in Callers, Deliver(t) PROVE BusStep
  <2>1. FeedRoute(t) => Route(t)
    BY DEF FeedRoute
  <2>2. OtherHandle(t) => \E ok \in BOOLEAN : Handle(t, ok)
    BY DEF OtherHandle
  <2>3. BridgeHandle(t) => \E ok \in BOOLEAN : Handle(t, ok)
    BY DEF BridgeHandle
  <2> QED
    BY <1>1, <2>1, <2>2, <2>3 DEF Deliver, BusStep
<1>2. ASSUME NEW t \in Callers, Call(t) \/ Proceed(t) PROVE BusStep
  BY <1>2 DEF Call, Proceed, BusStep
<1>3. ASSUME NEW s \in 0 .. MaxEvents, Connect(s) PROVE BusStep
  BY <1>3 DEF Connect, BusStep, Listens
<1>4. ASSUME Loop PROVE BusStep
  <2>1. EndSort => Listens
    BY DEF EndSort, Listens, bounds
  <2>2. ReplayLoad \/ ReplayPush \/ ReplayDone \/ Fanout \/ Send \/ Disconnect
          => UNCHANGED busVars
    BY DEF ReplayLoad, ReplayPush, ReplayDone, Fanout, Send, Disconnect
  <2> QED
    BY <1>4, <2>1, <2>2 DEF Loop, BusStep
<1>5. ASSUME FeedRestart PROVE BusStep
  BY <1>5 DEF FeedRestart, BusStep
<1>6. ASSUME UNCHANGED vars PROVE BusStep
  BY <1>6 DEF vars, BusStep
<1> QED
  BY <1>1, <1>2, <1>3, <1>4, <1>5, <1>6 DEF FeedNext

LEMMA OneThread ==
  ASSUME BusTypes, NEW t \in Callers, Rest(t), ThreadsOK', ThreadOK(t)'
  PROVE  \A u \in Callers : ThreadOK(u)'
<1> SUFFICES ASSUME NEW u \in Callers, u # t PROVE ThreadOK(u)'
  OBVIOUS
<1>1. ThreadOK(u)
  BY DEF BusTypes
<1> QED
  BY <1>1 DEF Rest, ThreadOK

LEMMA BusTypesKept ==
  ASSUME BusTypes, BusStep
  PROVE  BusTypes'
<1>1. ASSUME NEW t \in Callers, Publish(t) PROVE BusTypes'
  <2>1. ThreadsOK' /\ Rest(t)
    BY <1>1, PublishDoes
  <2>2. ThreadOK(t)'
    BY <1>1, PublishDoes DEF Publish, BusTypes, ThreadOK
  <2>3. IsSeq(store') /\ IsSeq(records') /\ IsSeq(file') /\ IsSeq(routes')
    BY <1>1 DEF Publish, BusTypes, letters, routing
  <2> QED
    BY <2>1, <2>2, <2>3, OneThread DEF BusTypes
<1>2. ASSUME NEW t \in Callers, Route(t) PROVE BusTypes'
  <2>1. ThreadsOK' /\ Rest(t)
    BY <1>2, RouteDoes
  <2>2. ThreadOK(t)'
    BY <1>2, RouteDoes DEF BusTypes, ThreadOK
  <2>3. IsSeq(store') /\ IsSeq(records') /\ IsSeq(file') /\ IsSeq(routes')
    BY <1>2 DEF Route, BusTypes, letters, routing
  <2> QED
    BY <2>1, <2>2, <2>3, OneThread DEF BusTypes
<1>3. ASSUME NEW t \in Callers, NEW ok, Handle(t, ok) PROVE BusTypes'
  <2>1. ThreadsOK' /\ Rest(t)
    BY <1>3, HandleDoes
  <2>2. ThreadOK(t)'
    BY <1>3, HandleDoes DEF BusTypes, ThreadOK
  <2>3. IsSeq(store') /\ IsSeq(records') /\ IsSeq(file') /\ IsSeq(routes')
    BY <1>3 DEF Handle, BusTypes, letters, routing
  <2> QED
    BY <2>1, <2>2, <2>3, OneThread DEF BusTypes
<1>4. ASSUME NEW t \in Callers, Bury(t) PROVE BusTypes'
  <2>1. ThreadsOK' /\ Rest(t)
    BY <1>4, BuryDoes
  <2>2. ThreadOK(t)'
    BY <1>4, BuryDoes DEF Bury, BusTypes, ThreadOK
  <2>3. IsSeq(store') /\ IsSeq(records') /\ IsSeq(file') /\ IsSeq(routes')
    BY <1>4, OneMoreIsSeq DEF Bury, BusTypes, letters, routing
  <2> QED
    BY <2>1, <2>2, <2>3, OneThread DEF BusTypes
<1>5. ASSUME NEW t \in Callers, BuryFile(t) PROVE BusTypes'
  <2>1. ThreadsOK' /\ Rest(t)
    BY <1>5, BuryFileDoes
  <2>2. ThreadOK(t)'
    <3>1. IsSeq(failed[t]) /\ failed[t] # <<>> /\ ThreadOK(t)
      BY <1>5 DEF BusTypes, ThreadOK, BuryFile
    <3>2. IsSeq(Tail(failed[t])) /\ (Len(failed[t]) > 1 <=> Tail(failed[t]) # <<>>)
      BY <3>1, TailIsSeq
    <3>3. failed'[t] = Tail(failed[t]) /\ targets'[t] = targets[t] /\ written'[t] = written[t]
          /\ pc'[t] = IF Len(failed[t]) > 1 THEN "bury" ELSE "store"
      BY <1>5, BuryFileDoes
    <3> QED
      BY <3>1, <3>2, <3>3 DEF ThreadOK
  <2>3. IsSeq(store') /\ IsSeq(records') /\ IsSeq(file') /\ IsSeq(routes')
    BY <1>5, OneMoreIsSeq, CappedIsSeq DEF BuryFile, AfterBurial, BusTypes, letters, routing
  <2> QED
    BY <2>1, <2>2, <2>3, OneThread DEF BusTypes
<1>6. ASSUME NEW t \in Callers, Persist(t) PROVE BusTypes'
  <2>1. ThreadsOK' /\ Rest(t)
    BY <1>6, PersistDoes
  <2>2. ThreadOK(t)'
    BY <1>6, PersistDoes DEF Persist, BusTypes, ThreadOK, NextEvent
  <2>3. IsSeq(store') /\ IsSeq(records') /\ IsSeq(file') /\ IsSeq(routes')
    BY <1>6, OneMoreIsSeq DEF Persist, BusTypes, letters, routing
  <2> QED
    BY <2>1, <2>2, <2>3, OneThread DEF BusTypes
<1>7. ASSUME NEW t \in Callers, Requeue(t) PROVE BusTypes'
  <2>1. ThreadsOK' /\ Rest(t)
    BY <1>7, RequeueDoes
  <2>2. ThreadOK(t)'
    BY <1>7, RequeueDoes DEF Requeue, BusTypes, ThreadOK
  <2>3. IsSeq(store') /\ IsSeq(records') /\ IsSeq(file') /\ IsSeq(routes')
    BY <1>7, RequeueDoes DEF Requeue, BusTypes, letters, routing
  <2> QED
    BY <2>1, <2>2, <2>3, OneThread DEF BusTypes
<1>8. ASSUME NEW t \in Callers, Save(t) PROVE BusTypes'
  <2>1. ThreadsOK' /\ Rest(t)
    BY <1>8, SaveDoes
  <2>2. ThreadOK(t)'
    BY <1>8, SaveDoes DEF Save, BusTypes, ThreadOK
  <2>3. IsSeq(store') /\ IsSeq(records') /\ IsSeq(file') /\ IsSeq(routes')
    BY <1>8, EmptyIsSeq DEF Save, BusTypes, letters, routing
  <2> QED
    BY <2>1, <2>2, <2>3, OneThread DEF BusTypes
<1>9. ASSUME NEW t \in Callers, EndSave(t) PROVE BusTypes'
  <2>1. ThreadsOK' /\ Rest(t)
    BY <1>9, EndSaveDoes
  <2>2. ThreadOK(t)'
    BY <1>9, EndSaveDoes, EmptyIsSeq DEF EndSave, BusTypes, ThreadOK, NextEvent
  <2>3. IsSeq(store') /\ IsSeq(records') /\ IsSeq(file') /\ IsSeq(routes')
    BY <1>9 DEF EndSave, ThreadOK, BusTypes, letters, routing
  <2> QED
    BY <2>1, <2>2, <2>3, OneThread DEF BusTypes
<1>10. ASSUME NEW t \in Callers, Replay(t) PROVE BusTypes'
  <2>1. ThreadsOK' /\ Rest(t)
    BY <1>10, ReplayDoes
  <2>2. ThreadOK(t)'
    BY <1>10, ReplayDoes DEF Replay, BusTypes, ThreadOK
  <2>3. IsSeq(store') /\ IsSeq(records') /\ IsSeq(file') /\ IsSeq(routes')
    BY <1>10 DEF Replay, BusTypes, letters, routing
  <2> QED
    BY <2>1, <2>2, <2>3, OneThread DEF BusTypes
<1>11. CASE Restart
  <2>1. ThreadsOK'
    BY <1>11 DEF Restart, ThreadsOK, Shaped
  <2>2. ASSUME NEW u \in Callers PROVE ThreadOK(u)'
    BY <1>11, EmptyIsSeq DEF Restart, ThreadOK
  <2>3. IsSeq(store') /\ IsSeq(records') /\ IsSeq(file') /\ IsSeq(routes')
    BY <1>11, BusAssumption DEF Restart, BusTypes, IsSeq
  <2> QED
    BY <2>1, <2>2, <2>3 DEF BusTypes
<1>12. CASE Listens
  <2>1. IsSeq(routes')
    BY <1>12, OneMoreIsSeq DEF Listens, BusTypes
  <2> QED
    BY <1>12, <2>1 DEF Listens, BusTypes, ThreadsOK, ThreadOK, Shaped, thread, letters
<1>13. CASE UNCHANGED busVars
  BY <1>13 DEF busVars, BusTypes, ThreadsOK, ThreadOK, Shaped, thread, letters, routing
<1> QED
  BY <1>1, <1>2, <1>3, <1>4, <1>5, <1>6, <1>7, <1>8, <1>9, <1>10, <1>11, <1>12, <1>13 DEF BusStep

LEMMA BusInvariant == FeedSpec => []BusTypes
<1>1. FeedInit => BusTypes
  BY EmptyIsSeq, BusAssumption
  DEF FeedInit, BusInit, BusTypes, ThreadsOK, ThreadOK, Shaped, IsSeq
<1>2. BusTypes /\ [FeedNext]_vars => BusTypes'
  BY StepsOfTheBus, BusTypesKept
<1> QED
  BY <1>1, <1>2, PTL DEF FeedSpec

------------------------------------------------------------------------------
(***************************************************************************)
(* Nothing is dropped in silence.                                          *)
(***************************************************************************)
\* A subscriber has taken the current event of a thread or has a dead letter for it, or its turn
\* to take it is to come, or its failure has still to be written down.
Reached(t, s) ==
  \/ <<Current(t), s>> \in handled \cup buried
  \/ pc[t] = "deliver" /\ s \in Range(targets[t])
  \/ pc[t] \in {"deliver", "bury", "buryfile"} /\ s \in Range(failed[t])

Owes(t) ==
  /\ pc[t] \in {"deliver", "bury", "buryfile", "store"} /\ Current(t) \notin disturbed =>
       \A s \in Range(Standing) : Reached(t, s)
  /\ pc[t] = "buryfile" => <<Current(t), Head(failed[t])>> \in buried

DropInv ==
  /\ NoSilentDrop
  /\ Range(Standing) \subseteq Range(routes)
  /\ \A t \in Callers : Owes(t)

\* A step of one thread, after which the others owe what they owed.
LEMMA OneOwes ==
  ASSUME DropInv, NEW t \in Callers, Rest(t), handled \subseteq handled', buried \subseteq buried',
         disturbed \subseteq disturbed', routes' = routes, Owes(t)',
         \A e \in Range(store') : e \in Range(store) \/
           (e \notin disturbed => \A s \in Range(Standing) : <<e, s>> \in handled \cup buried)
  PROVE  DropInv'
<1>1. ASSUME NEW u \in Callers PROVE Owes(u)'
  <2>1. CASE u = t
    BY <2>1
  <2>2. CASE u # t
    <3>1. Owes(u) /\ Current(u)' = Current(u)
      BY <2>2 DEF DropInv, Rest, Current
    <3> QED
      BY <2>2, <3>1 DEF Owes, Reached, Rest
  <2> QED
    BY <2>1, <2>2
<1>2. NoSilentDrop'
  <2> SUFFICES ASSUME NEW e \in Range(store') \ disturbed', NEW s \in Range(Standing)
               PROVE  <<e, s>> \in handled' \cup buried'
    BY DEF NoSilentDrop
  <2>1. e \notin disturbed /\ e \in Range(store')
    OBVIOUS
  <2>2. CASE e \in Range(store)
    BY <2>1, <2>2 DEF DropInv, NoSilentDrop
  <2>3. CASE e \notin Range(store)
    BY <2>1, <2>3
  <2> QED
    BY <2>2, <2>3
<1> QED
  BY <1>1, <1>2 DEF DropInv

\* The step leaves all other threads and what is stored alone.
LEMMA OneOwesOnly ==
  ASSUME DropInv, NEW t \in Callers, Rest(t), handled \subseteq handled', buried \subseteq buried',
         disturbed \subseteq disturbed', routes' = routes, Owes(t)', store' = store
  PROVE  DropInv'
  BY OneOwes

LEMMA DropKept ==
  ASSUME BusTypes, DropInv, BusStep
  PROVE  DropInv'
<1>1. ASSUME NEW t \in Callers, Publish(t) PROVE DropInv'
  <2>1. Rest(t) /\ Owes(t)'
    BY <1>1, PublishDoes DEF Owes, Reached, NextEvent
  <2>2. handled' = handled /\ buried' = buried /\ disturbed' = disturbed
        /\ routes' = routes /\ store' = store
    BY <1>1 DEF Publish, letters, routing
  <2> QED
    BY <2>1, <2>2, OneOwesOnly
<1>2. ASSUME NEW t \in Callers, Route(t) PROVE DropInv'
  <2>1. Rest(t) /\ disturbed \subseteq disturbed' /\ Current(t)' = Current(t)
        /\ (targets'[t] = routes \/ Current(t) \in disturbed')
        /\ pc'[t] = IF targets'[t] = <<>> THEN "store" ELSE "deliver"
    BY <1>2, RouteDoes DEF Current
  <2>2. handled' = handled /\ buried' = buried /\ routes' = routes /\ store' = store
    BY <1>2 DEF Route, letters
  <2>3. Range(Standing) \subseteq Range(routes)
    BY DEF DropInv
  <2>4. Owes(t)'
    BY <2>1, <2>3, EmptyIsSeq DEF Owes, Reached
  <2> QED
    BY <2>1, <2>2, <2>4, OneOwesOnly
<1>3. ASSUME NEW t \in Callers, NEW ok, Handle(t, ok) PROVE DropInv'
  <2> DEFINE s == Head(targets[t])
  <2>1. /\ Rest(t) /\ pc[t] = "deliver" /\ Current(t)' = Current(t) /\ handled \subseteq handled'
        /\ Range(targets[t]) = Range(targets'[t]) \cup {s}
        /\ Range(failed[t]) \subseteq Range(failed'[t])
        /\ pc'[t] = IF targets'[t] # <<>> THEN "deliver"
                    ELSE IF failed'[t] = <<>> THEN "store" ELSE "bury"
        /\ <<Current(t), s>> \in handled' \/ s \in Range(failed'[t])
    BY <1>3, HandleDoes DEF Current
  <2> HIDE DEF s
  <2>2. buried' = buried /\ routes' = routes /\ store' = store /\ disturbed' = disturbed
    BY <1>3 DEF Handle, letters, routing
  <2>3. Owes(t)
    BY DEF DropInv
  <2>4. ASSUME NEW r \in Range(Standing), Current(t) \notin disturbed PROVE Reached(t, r)'
    <3>1. Reached(t, r)
      BY <2>1, <2>3, <2>4 DEF Owes
    <3>2. <<Current(t), r>> \in handled' \cup buried' \/ r \in Range(targets'[t])
            \/ r \in Range(failed'[t])
      BY <2>1, <2>2, <3>1 DEF Reached
    <3>3. r \in Range(targets'[t]) => pc'[t] = "deliver"
      BY <2>1, EmptyIsSeq
    <3>4. r \in Range(failed'[t]) => pc'[t] \in {"deliver", "bury"}
      BY <2>1, EmptyIsSeq
    <3> QED
      BY <2>1, <3>2, <3>3, <3>4 DEF Reached
  <2>5. Owes(t)'
    BY <2>1, <2>2, <2>4 DEF Owes
  <2> QED
    BY <2>1, <2>2, <2>5, OneOwesOnly
<1>4. ASSUME NEW t \in Callers, Bury(t) PROVE DropInv'
  <2>1. Rest(t) /\ Current(t)' = Current(t) /\ pc'[t] = "buryfile" /\ pc[t] = "bury"
        /\ failed'[t] = failed[t]
    BY <1>4, BuryDoes DEF Current, Bury
  <2>2. buried' = buried \cup {<<Current(t), Head(failed[t])>>} /\ handled' = handled
        /\ routes' = routes /\ store' = store /\ disturbed' = disturbed
    BY <1>4 DEF Bury, routing
  <2>3. Owes(t)'
    BY <2>1, <2>2 DEF DropInv, Owes, Reached
  <2> QED
    BY <2>1, <2>2, <2>3, OneOwesOnly
<1>5. ASSUME NEW t \in Callers, BuryFile(t) PROVE DropInv'
  <2>1. Rest(t) /\ Current(t)' = Current(t) /\ pc[t] = "buryfile" /\ failed'[t] = Tail(failed[t])
        /\ pc'[t] = IF Len(failed[t]) > 1 THEN "bury" ELSE "store"
    BY <1>5, BuryFileDoes DEF Current, BuryFile
  <2>2. buried' = buried /\ handled' = handled /\ routes' = routes /\ store' = store
        /\ disturbed' = disturbed
    BY <1>5 DEF BuryFile, AfterBurial, routing
  <2>3. Owes(t) /\ ThreadOK(t)
    BY DEF DropInv, BusTypes
  <2>4. Range(failed[t]) = Range(Tail(failed[t])) \cup {Head(failed[t])}
        /\ (Len(failed[t]) > 1 <=> Tail(failed[t]) # <<>>)
    BY <2>1, <2>3, TailIsSeq DEF ThreadOK
  <2>5. ASSUME NEW r \in Range(Standing), Current(t) \notin disturbed PROVE Reached(t, r)'
    <3>1. Reached(t, r) /\ <<Current(t), Head(failed[t])>> \in buried
      BY <2>1, <2>3, <2>5 DEF Owes
    <3>2. <<Current(t), r>> \in handled \cup buried \/ r \in Range(Tail(failed[t]))
      BY <2>1, <2>4, <3>1 DEF Reached
    <3>3. r \in Range(Tail(failed[t])) => pc'[t] = "bury"
      BY <2>1, <2>4, EmptyIsSeq
    <3> QED
      BY <2>1, <2>2, <3>2, <3>3 DEF Reached
  <2>6. Owes(t)'
    BY <2>1, <2>2, <2>5 DEF Owes
  <2> QED
    BY <2>1, <2>2, <2>6, OneOwesOnly
<1>6. ASSUME NEW t \in Callers, Persist(t) PROVE DropInv'
  <2>1. Rest(t) /\ Owes(t)'
    BY <1>6, PersistDoes DEF Owes, Reached, NextEvent
  <2>2. handled' = handled /\ buried' = buried /\ disturbed' = disturbed /\ routes' = routes
        /\ store' = Append(store, Current(t)) /\ pc[t] = "store"
    BY <1>6 DEF Persist, letters, routing
  <2>3. Range(store') = Range(store) \cup {Current(t)}
    BY <2>2, OneMoreIsSeq DEF BusTypes
  <2>4. Current(t) \notin disturbed =>
          \A s \in Range(Standing) : <<Current(t), s>> \in handled \cup buried
    BY <2>2 DEF DropInv, Owes, Reached
  <2> QED
    BY <2>1, <2>2, <2>3, <2>4, OneOwes
<1>7. ASSUME NEW t \in Callers, Requeue(t) PROVE DropInv'
  <2>1. Rest(t) /\ Owes(t)'
    BY <1>7, RequeueDoes DEF Owes, Reached, NextEvent
  <2>2. handled' = handled /\ buried' = buried /\ disturbed' = disturbed
        /\ routes' = routes /\ store' = store
    BY <1>7 DEF Requeue, letters, routing
  <2> QED
    BY <2>1, <2>2, OneOwesOnly
<1>8. ASSUME NEW t \in Callers, Save(t) PROVE DropInv'
  <2>1. Rest(t) /\ Owes(t)'
    BY <1>8, SaveDoes DEF Owes, Reached, NextEvent
  <2>2. handled' = handled /\ buried' = buried /\ disturbed' = disturbed
        /\ routes' = routes /\ store' = store
    BY <1>8 DEF Save, letters, routing
  <2> QED
    BY <2>1, <2>2, OneOwesOnly
<1>9. ASSUME NEW t \in Callers, EndSave(t) PROVE DropInv'
  <2>1. Rest(t) /\ Owes(t)'
    BY <1>9, EndSaveDoes DEF Owes, Reached, NextEvent
  <2>2. handled' = handled /\ buried' = buried /\ disturbed' = disturbed
        /\ routes' = routes /\ store' = store
    BY <1>9 DEF EndSave, letters, routing
  <2> QED
    BY <2>1, <2>2, OneOwesOnly
<1>10. ASSUME NEW t \in Callers, Replay(t) PROVE DropInv'
  <2>1. Rest(t) /\ Owes(t)'
    BY <1>10, ReplayDoes DEF Owes, Reached, NextEvent
  <2>2. handled' = handled /\ buried' = buried /\ disturbed' = disturbed
        /\ routes' = routes /\ store' = store
    BY <1>10 DEF Replay, letters, routing
  <2> QED
    BY <2>1, <2>2, OneOwesOnly
<1>11. CASE Restart
  <2>1. \A u \in Callers : Owes(u)'
    BY <1>11 DEF Restart, Owes
  <2>2. UNCHANGED <<store, handled, buried, disturbed>> /\ routes' = Standing
    BY <1>11 DEF Restart
  <2> QED
    BY <2>1, <2>2 DEF DropInv, NoSilentDrop
<1>12. CASE Listens
  <2>1. UNCHANGED <<store, handled, buried, disturbed, pc, work, targets, failed>>
    BY <1>12 DEF Listens, letters, thread
  <2>2. Range(routes) \subseteq Range(routes')
    <3>1. CASE routes' = routes
      BY <3>1
    <3>2. CASE routes' = Append(routes, Bridge)
      BY <3>2, OneMoreIsSeq DEF BusTypes
    <3> QED
      BY <1>12, <3>1, <3>2 DEF Listens
  <2>3. NoSilentDrop' /\ \A u \in Callers : Owes(u)'
    BY <2>1 DEF DropInv, NoSilentDrop, Owes, Reached, Current
  <2> QED
    BY <2>2, <2>3 DEF DropInv
<1>13. CASE UNCHANGED busVars
  BY <1>13 DEF busVars, letters, thread, routing, DropInv, NoSilentDrop, Owes, Reached, Current
<1> QED
  BY <1>1, <1>2, <1>3, <1>4, <1>5, <1>6, <1>7, <1>8, <1>9, <1>10, <1>11, <1>12, <1>13 DEF BusStep

\* When an event is stored, each subscriber that was there all the time has taken it or has a
\* dead letter for it, unless the routes were being sorted when it was routed (publish).
THEOREM NothingDropped == FeedSpec => []NoSilentDrop
<1>1. FeedInit => DropInv
  BY EmptyIsSeq DEF FeedInit, BusInit, DropInv, NoSilentDrop, Owes
<1>2. BusTypes /\ DropInv /\ [FeedNext]_vars => DropInv'
  BY StepsOfTheBus, DropKept
<1>3. DropInv => NoSilentDrop
  BY DEF DropInv
<1> QED
  BY <1>1, <1>2, <1>3, BusInvariant, PTL DEF FeedSpec

------------------------------------------------------------------------------
(***************************************************************************)
(* Dead letters outlive the program.                                       *)
(***************************************************************************)
\* A dead letter that a thread is on its way to write to the file, alone or with all others.
OnTheWay(letter) ==
  \E t \in Callers : \/ pc[t] = "buryfile" /\ letter = <<Current(t), Head(failed[t])>>
                     \/ letter \in Range(written[t])

\* A step that removes no letter from the file, and none of those on their way.
LEMMA LettersStay ==
  ASSUME LettersSurvive, Range(records') \subseteq Range(records), overtaken \subseteq overtaken',
         \A letter \in Range(records) :
           letter \in Range(file) \/ OnTheWay(letter) =>
             letter \in Range(file') \/ OnTheWay(letter)' \/ letter \in overtaken'
  PROVE  LettersSurvive'
  BY DEF LettersSurvive, OnTheWay

\* A thread that is not writing a letter goes on: those on their way stay so.
LEMMA WayStays ==
  ASSUME NEW t \in Callers, Rest(t), pc[t] # "buryfile", written'[t] = written[t], NEW letter,
         OnTheWay(letter)
  PROVE  OnTheWay(letter)'
  BY DEF OnTheWay, Rest, Current

LEMMA LettersKept ==
  ASSUME BusTypes, LettersSurvive, BusStep
  PROVE  LettersSurvive'
<1>1. ASSUME NEW t \in Callers, Publish(t) PROVE LettersSurvive'
  <2>1. Rest(t) /\ pc[t] # "buryfile" /\ written'[t] = written[t]
    BY <1>1, PublishDoes DEF Publish
  <2>2. UNCHANGED <<records, file, overtaken>>
    BY <1>1 DEF Publish, letters
  <2> QED
    BY <2>1, <2>2, WayStays, LettersStay
<1>2. ASSUME NEW t \in Callers, Route(t) PROVE LettersSurvive'
  <2>1. Rest(t) /\ pc[t] # "buryfile" /\ written'[t] = written[t]
    BY <1>2, RouteDoes
  <2>2. UNCHANGED <<records, file, overtaken>>
    BY <1>2 DEF Route, letters
  <2> QED
    BY <2>1, <2>2, WayStays, LettersStay
<1>3. ASSUME NEW t \in Callers, NEW ok, Handle(t, ok) PROVE LettersSurvive'
  <2>1. Rest(t) /\ pc[t] # "buryfile" /\ written'[t] = written[t]
    BY <1>3, HandleDoes
  <2>2. UNCHANGED <<records, file, overtaken>>
    BY <1>3 DEF Handle, letters
  <2> QED
    BY <2>1, <2>2, WayStays, LettersStay
<1>4. ASSUME NEW t \in Callers, Bury(t) PROVE LettersSurvive'
  <2> DEFINE letter == <<Current(t), Head(failed[t])>>
  <2>1. Rest(t) /\ pc[t] = "bury" /\ written'[t] = written[t] /\ pc'[t] = "buryfile"
        /\ letter' = letter
    BY <1>4, BuryDoes DEF Bury, Current
  <2>2. UNCHANGED <<file, overtaken>> /\ records' = Append(records, letter)
    BY <1>4 DEF Bury
  <2> HIDE DEF letter
  <2>3. Range(records') = Range(records) \cup {letter}
    BY <2>2, OneMoreIsSeq DEF BusTypes
  <2>4. ASSUME NEW l, l = letter PROVE OnTheWay(l)'
    BY <2>1, <2>4 DEF OnTheWay, letter
  <2>5. ASSUME NEW l \in Range(records), l \notin overtaken
        PROVE  l \in Range(file') \/ OnTheWay(l)'
    <3>1. l \in Range(file) \/ OnTheWay(l)
      BY <2>5 DEF LettersSurvive, OnTheWay
    <3> QED
      BY <2>1, <2>2, <3>1, WayStays
  <2>6. ASSUME NEW l \in Range(records'), l \notin overtaken'
        PROVE  l \in Range(file') \/ OnTheWay(l)'
    BY <2>2, <2>3, <2>4, <2>5, <2>6
  <2> QED
    BY <2>6 DEF LettersSurvive, OnTheWay
<1>5. ASSUME NEW t \in Callers, BuryFile(t) PROVE LettersSurvive'
  <2> DEFINE letter == <<Current(t), Head(failed[t])>>
  <2>1. Rest(t) /\ written'[t] = written[t]
    BY <1>5, BuryFileDoes
  <2>2. file' = Append(file, letter) /\ records' = Capped(records) /\ overtaken' = overtaken
    BY <1>5 DEF BuryFile, AfterBurial
  <2>3. Range(file') = Range(file) \cup {letter} /\ Range(records') \subseteq Range(records)
    BY <2>2, OneMoreIsSeq, CappedIsSeq DEF BusTypes
  <2>4. ASSUME NEW l, OnTheWay(l) PROVE l = letter \/ OnTheWay(l)'
    BY <2>1, <2>4 DEF OnTheWay, Rest, Current
  <2> QED
    BY <2>2, <2>3, <2>4, LettersStay
<1>6. ASSUME NEW t \in Callers, Persist(t) PROVE LettersSurvive'
  <2>1. Rest(t) /\ pc[t] # "buryfile" /\ written'[t] = written[t]
    BY <1>6, PersistDoes DEF Persist
  <2>2. UNCHANGED <<records, file, overtaken>>
    BY <1>6 DEF Persist, letters
  <2> QED
    BY <2>1, <2>2, WayStays, LettersStay
<1>7. ASSUME NEW t \in Callers, Requeue(t) PROVE LettersSurvive'
  <2>1. Rest(t) /\ pc[t] # "buryfile" /\ written'[t] = written[t]
        /\ Range(records') \subseteq Range(records)
    BY <1>7, RequeueDoes DEF Requeue
  <2>2. UNCHANGED <<file, overtaken>>
    BY <1>7 DEF Requeue
  <2> QED
    BY <2>1, <2>2, WayStays, LettersStay
<1>8. ASSUME NEW t \in Callers, Save(t) PROVE LettersSurvive'
  <2>1. records' = records /\ overtaken' = overtaken
    BY <1>8 DEF Save
  <2>2. written'[t] = records
    BY <1>8, SaveDoes
  <2>3. \A l \in Range(records) : OnTheWay(l)'
    BY <2>2 DEF OnTheWay
  <2> QED
    BY <2>1, <2>3, LettersStay
<1>9. ASSUME NEW t \in Callers, EndSave(t) PROVE LettersSurvive'
  <2>1. Rest(t) /\ pc[t] = "saving" /\ records' = records
    BY <1>9, EndSaveDoes DEF EndSave
  <2>2. overtaken \subseteq overtaken' /\ Range(written[t]) \subseteq Range(file')
        /\ Range(file) \subseteq Range(file') \cup overtaken'
    BY <1>9, EmptyIsSeq DEF EndSave
  <2>3. ASSUME NEW l, OnTheWay(l) PROVE l \in Range(written[t]) \/ OnTheWay(l)'
    BY <2>1, <2>3 DEF OnTheWay, Rest, Current
  <2> QED
    BY <2>1, <2>2, <2>3, LettersStay
<1>10. ASSUME NEW t \in Callers, Replay(t) PROVE LettersSurvive'
  <2>1. Rest(t) /\ pc[t] # "buryfile" /\ written'[t] = written[t]
    BY <1>10, ReplayDoes DEF Replay
  <2>2. UNCHANGED <<records, file, overtaken>>
    BY <1>10 DEF Replay, letters
  <2> QED
    BY <2>1, <2>2, WayStays, LettersStay
<1>11. CASE Restart
  BY <1>11 DEF Restart, LettersSurvive
<1>12. CASE Listens
  BY <1>12 DEF Listens, letters, thread, LettersSurvive, Current
<1>13. CASE UNCHANGED busVars
  BY <1>13 DEF busVars, letters, thread, LettersSurvive, Current
<1> QED
  BY <1>1, <1>2, <1>3, <1>4, <1>5, <1>6, <1>7, <1>8, <1>9, <1>10, <1>11, <1>12, <1>13 DEF BusStep

\* A dead letter that is in memory is in the file or on its way there, unless it was appended
\* while another thread rewrote the file (DeadLetterQueue.add, _save_all and _load).
THEOREM LettersOutlive == FeedSpec => []LettersSurvive
<1>1. FeedInit => LettersSurvive
  BY EmptyIsSeq DEF FeedInit, BusInit, LettersSurvive
<1>2. BusTypes /\ LettersSurvive /\ [FeedNext]_vars => LettersSurvive'
  BY StepsOfTheBus, LettersKept
<1> QED
  BY <1>1, <1>2, BusInvariant, PTL DEF FeedSpec

------------------------------------------------------------------------------
(***************************************************************************)
(* A live client misses nothing.                                           *)
(***************************************************************************)
\* Where an event can be that is owed to the connection: with a thread that delivers it, still
\* in the store when the replay is to come, or with the worker of the replay.
Delivers(t, e) == pc[t] = "deliver" /\ Current(t) = e /\ Bridge \in Range(targets[t])
ToLoad(e) ==
  conn \in {"subscribing", "load"} /\ since # 0 /\ e \in Range(store) /\ e >= since
Held(e) ==
  \/ e \in received \cup Range(queue) \cup Pending
  \/ \E t \in Callers : Delivers(t, e)
  \/ ToLoad(e)
  \/ conn = "replay" /\ e \in Range(loaded)

FeedTypes == IsSeq(callbacks) /\ IsSeq(queue) /\ IsSeq(loaded)

OwedInv ==
  /\ FeedTypes
  /\ conn = "load" => since # 0
  /\ conn # "off" /\ ~ overflow => \A e \in owed : Held(e)

\* What was held is held, and what is owed is held or was owed.
LEMMA OwedStays ==
  ASSUME OwedInv, FeedTypes', conn' = "load" => since' # 0,
         conn' # "off" /\ ~ overflow' => conn # "off" /\ ~ overflow,
         conn' # "off" /\ ~ overflow' => \A e \in owed : Held(e) => Held(e)',
         conn' # "off" /\ ~ overflow' => \A e \in owed' : e \in owed \/ Held(e)'
  PROVE  OwedInv'
<1>1. ASSUME conn' # "off" /\ ~ overflow', NEW e \in owed' PROVE Held(e)'
  <2>1. CASE e \in owed
    BY <1>1, <2>1 DEF OwedInv
  <2>2. CASE e \notin owed
    BY <1>1, <2>2
  <2> QED
    BY <2>1, <2>2
<1> QED
  BY <1>1 DEF OwedInv

\* A thread that delivers nothing takes a step that the feed does not see.
LEMMA Unseen ==
  ASSUME OwedInv, NEW t \in Callers, Rest(t), pc[t] # "deliver",
         Range(store) \subseteq Range(store'), UNCHANGED feedVars
  PROVE  OwedInv'
<1>1. UNCHANGED <<conn, since, loaded, callbacks, queue, received, overflow, owed>>
  BY DEF feedVars
<1>2. ASSUME NEW e, Held(e) PROVE Held(e)'
  <2>1. (\E u \in Callers : Delivers(u, e)) => \E u \in Callers : Delivers(u, e)'
    BY DEF Delivers, Rest, Current
  <2> QED
    BY <1>1, <1>2, <2>1 DEF Held, ToLoad, Pending
<1>3. FeedTypes' /\ (conn' = "load" => since' # 0)
  BY <1>1 DEF OwedInv, FeedTypes
<1> QED
  BY <1>1, <1>2, <1>3, OwedStays

LEMMA OwedKept ==
  ASSUME BusTypes, OwedInv, [FeedNext]_vars
  PROVE  OwedInv'
<1>1. ASSUME NEW t \in Callers, FeedRoute(t) PROVE OwedInv'
  <2>1. /\ Rest(t) /\ pc[t] = "route" /\ Current(t)' = Current(t) /\ store' = store
        /\ pc'[t] = IF targets'[t] = <<>> THEN "store" ELSE "deliver"
    BY <1>1, RouteDoes DEF FeedRoute, Route, Current
  <2>2. /\ UNCHANGED <<conn, since, loaded, callbacks, queue, received, overflow>>
        /\ \A e \in owed' : e \in owed \/ (e = Current(t) /\ Bridge \in Range(targets'[t]))
    BY <1>1 DEF FeedRoute
  <2>3. ASSUME NEW e, Held(e) PROVE Held(e)'
    <3>1. (\E u \in Callers : Delivers(u, e)) => \E u \in Callers : Delivers(u, e)'
      BY <2>1 DEF Delivers, Rest, Current
    <3> QED
      BY <2>1, <2>2, <2>3, <3>1 DEF Held, ToLoad, Pending
  <2>4. Bridge \in Range(targets'[t]) => Delivers(t, Current(t))'
    BY <2>1, EmptyIsSeq DEF Delivers
  <2>5. \A e \in owed' : e \in owed \/ Held(e)'
    <3> SUFFICES ASSUME NEW e \in owed', e \notin owed PROVE Held(e)'
      OBVIOUS
    <3>1. e = Current(t)' /\ Delivers(t, Current(t))'
      BY <2>1, <2>2, <2>4
    <3>2. Delivers(t, e)'
      BY <3>1 DEF Delivers
    <3> QED
      BY <3>2 DEF Held
  <2>6. FeedTypes' /\ (conn' = "load" => since' # 0)
    BY <2>2 DEF OwedInv, FeedTypes
  <2> QED
    BY <2>2, <2>3, <2>5, <2>6, OwedStays
<1>2. ASSUME NEW t \in Callers, OtherHandle(t) PROVE OwedInv'
  <2>1. PICK ok \in BOOLEAN : Handle(t, ok)
    BY <1>2 DEF OtherHandle
  <2>2. /\ Rest(t) /\ pc[t] = "deliver" /\ Current(t)' = Current(t)
        /\ Range(targets[t]) = Range(targets'[t]) \cup {Head(targets[t])}
        /\ (targets'[t] # <<>> => pc'[t] = "deliver")
    BY <2>1, HandleDoes DEF Current
  <2>3. Head(targets[t]) # Bridge /\ store' = store
        /\ UNCHANGED <<conn, since, loaded, callbacks, queue, received, overflow, owed>>
    BY <1>2, <2>1 DEF OtherHandle, Handle, feedVars
  <2>4. ASSUME NEW u \in Callers, NEW e, Delivers(u, e) PROVE Delivers(u, e)'
    <3>1. CASE u = t
      <4>1. Bridge \in Range(targets'[t]) /\ Current(t) = e
        BY <2>2, <2>3, <2>4, <3>1 DEF Delivers
      <4>2. pc'[t] = "deliver"
        BY <2>2, <4>1, EmptyIsSeq
      <4> QED
        BY <2>2, <3>1, <4>1, <4>2 DEF Delivers
    <3>2. CASE u # t
      BY <2>2, <2>4, <3>2 DEF Delivers, Rest, Current
    <3> QED
      BY <3>1, <3>2
  <2>5. ASSUME NEW e, Held(e) PROVE Held(e)'
    BY <2>3, <2>4, <2>5 DEF Held, ToLoad, Pending
  <2>6. FeedTypes' /\ (conn' = "load" => since' # 0)
    BY <2>3 DEF OwedInv, FeedTypes
  <2> QED
    BY <2>3, <2>5, <2>6, OwedStays
<1>3. ASSUME NEW t \in Callers, BridgeHandle(t) PROVE OwedInv'
  <2>1. Handle(t, TRUE) /\ callbacks' = Append(callbacks, Live(Current(t)))
    BY <1>3 DEF BridgeHandle
  <2>2. Rest(t)
    BY <2>1, HandleDoes
  <2>3. store' = store /\ UNCHANGED <<conn, since, loaded, queue, received, overflow, owed>>
    BY <1>3, <2>1 DEF BridgeHandle, Handle
  <2>4. IsSeq(callbacks') /\ Range(callbacks') = Range(callbacks) \cup {Live(Current(t))}
    BY <2>1, OneMoreIsSeq DEF OwedInv, FeedTypes
  <2>5. Live(Current(t)).event = Current(t)
    BY DEF Live
  <2>6. Pending \cup {Current(t)} \subseteq Pending'
    BY <2>4, <2>5 DEF Pending
  <2>7. ASSUME NEW u \in Callers, NEW e, Delivers(u, e) PROVE e \in Pending' \/ Delivers(u, e)'
    BY <2>2, <2>6, <2>7 DEF Delivers, Rest, Current
  <2>8. ASSUME NEW e, Held(e) PROVE Held(e)'
    <3>1. CASE \E u \in Callers : Delivers(u, e)
      BY <2>7, <3>1 DEF Held
    <3>2. CASE ~ \E u \in Callers : Delivers(u, e)
      BY <2>3, <2>6, <2>8, <3>2 DEF Held, ToLoad
    <3> QED
      BY <3>1, <3>2
  <2>9. FeedTypes' /\ (conn' = "load" => since' # 0)
    BY <2>3, <2>4 DEF OwedInv, FeedTypes
  <2> QED
    BY <2>3, <2>8, <2>9, OwedStays
<1>4. ASSUME NEW t \in Callers, Publish(t), UNCHANGED feedVars PROVE OwedInv'
  <2>1. Rest(t)
    BY <1>4, PublishDoes
  <2>2. pc[t] # "deliver" /\ Range(store) \subseteq Range(store')
    BY <1>4 DEF Publish
  <2> QED
    BY <1>4, <2>1, <2>2, Unseen
<1>5. ASSUME NEW t \in Callers, Requeue(t), UNCHANGED feedVars PROVE OwedInv'
  <2>1. Rest(t)
    BY <1>5, RequeueDoes
  <2>2. pc[t] # "deliver" /\ Range(store) \subseteq Range(store')
    BY <1>5 DEF Requeue
  <2> QED
    BY <1>5, <2>1, <2>2, Unseen
<1>6. ASSUME NEW t \in Callers, Replay(t), UNCHANGED feedVars PROVE OwedInv'
  <2>1. Rest(t)
    BY <1>6, ReplayDoes
  <2>2. pc[t] # "deliver" /\ Range(store) \subseteq Range(store')
    BY <1>6 DEF Replay
  <2> QED
    BY <1>6, <2>1, <2>2, Unseen
<1>7. ASSUME NEW t \in Callers, Bury(t), UNCHANGED feedVars PROVE OwedInv'
  <2>1. Rest(t)
    BY <1>7, BuryDoes
  <2>2. pc[t] # "deliver" /\ Range(store) \subseteq Range(store')
    BY <1>7 DEF Bury
  <2> QED
    BY <1>7, <2>1, <2>2, Unseen
<1>8. ASSUME NEW t \in Callers, BuryFile(t), UNCHANGED feedVars PROVE OwedInv'
  <2>1. Rest(t)
    BY <1>8, BuryFileDoes
  <2>2. pc[t] # "deliver" /\ Range(store) \subseteq Range(store')
    BY <1>8 DEF BuryFile, AfterBurial
  <2> QED
    BY <1>8, <2>1, <2>2, Unseen
<1>9. ASSUME NEW t \in Callers, Persist(t), UNCHANGED feedVars PROVE OwedInv'
  <2>1. Rest(t)
    BY <1>9, PersistDoes
  <2>2. pc[t] # "deliver" /\ Range(store) \subseteq Range(store')
    BY <1>9, OneMoreIsSeq DEF Persist, BusTypes
  <2> QED
    BY <1>9, <2>1, <2>2, Unseen
<1>10. ASSUME NEW t \in Callers, Save(t), UNCHANGED feedVars PROVE OwedInv'
  <2>1. Rest(t)
    BY <1>10, SaveDoes
  <2>2. pc[t] # "deliver" /\ Range(store) \subseteq Range(store')
    BY <1>10 DEF Save
  <2> QED
    BY <1>10, <2>1, <2>2, Unseen
<1>11. ASSUME NEW t \in Callers, EndSave(t), UNCHANGED feedVars PROVE OwedInv'
  <2>1. Rest(t)
    BY <1>11, EndSaveDoes
  <2>2. pc[t] # "deliver" /\ Range(store) \subseteq Range(store')
    BY <1>11 DEF EndSave
  <2> QED
    BY <1>11, <2>1, <2>2, Unseen
<1>12. ASSUME NEW s \in 0 .. MaxEvents, Connect(s) PROVE OwedInv'
  <2>1. since' = s /\ owed' = {e \in Range(store) : s # 0 /\ e >= s} /\ store' = store
        /\ UNCHANGED <<loaded, callbacks, queue>>
    BY <1>12 DEF Connect
  <2>2. conn' = "subscribing" \/ conn' = AfterSubscribing(s)
    BY <1>12 DEF Connect
  <2>3. (conn' = "load" => s # 0) /\ (s # 0 => conn' \in {"subscribing", "load"})
    BY <2>2 DEF AfterSubscribing
  <2>4. \A e \in owed' : ToLoad(e)'
    BY <2>1, <2>3 DEF ToLoad
  <2>5. FeedTypes'
    BY <2>1 DEF OwedInv, FeedTypes
  <2> QED
    BY <2>1, <2>3, <2>4, <2>5 DEF OwedInv, Held
<1>13. CASE EndSort
  <2>1. UNCHANGED <<store, pc, work, targets, since, loaded, callbacks, queue, received, overflow,
                   owed>>
    BY <1>13 DEF EndSort, thread
  <2>2. conn = "subscribing" /\ conn' = AfterSubscribing(since)
    BY <1>13 DEF EndSort
  <2>3. (conn' = "load" => since # 0) /\ (since # 0 => conn' = "load")
    BY <2>2 DEF AfterSubscribing
  <2>4. ASSUME NEW e, Held(e) PROVE Held(e)'
    BY <2>1, <2>2, <2>3, <2>4 DEF Held, ToLoad, Delivers, Current, Pending
  <2>5. FeedTypes' /\ (conn' = "load" => since' # 0)
    BY <2>1, <2>3 DEF OwedInv, FeedTypes
  <2> QED
    BY <2>1, <2>2, <2>4, <2>5, OwedStays
<1>14. CASE ReplayLoad
  <2>1. UNCHANGED <<store, pc, work, targets, since, callbacks, queue, received, owed>>
    BY <1>14 DEF ReplayLoad, busVars, thread
  <2>2. conn = "load" /\ conn' = "replay" /\ loaded' = load_events(since)
        /\ overflow' = (overflow \/ \E e \in Range(store) : e >= since /\ e \notin Range(loaded'))
    BY <1>14 DEF ReplayLoad
  <2>3. IsSeq(loaded')
    BY <2>2, LoadIsSeq DEF BusTypes
  <2>4. ASSUME NEW e, Held(e), ~ overflow' PROVE Held(e)'
    <3>1. ToLoad(e) => e \in Range(loaded')
      BY <2>2, <2>4 DEF ToLoad
    <3> QED
      BY <2>1, <2>2, <2>4, <3>1 DEF Held, Delivers, Current, Pending
  <2>5. FeedTypes' /\ conn' # "load"
    BY <2>1, <2>2, <2>3 DEF OwedInv, FeedTypes
  <2> QED
    BY <2>1, <2>2, <2>4, <2>5, OwedStays
<1>15. CASE ReplayPush
  <2>1. UNCHANGED <<store, pc, work, targets, conn, since, queue, received, overflow, owed>>
    BY <1>15 DEF ReplayPush, busVars, thread
  <2>2. conn = "replay" /\ loaded # <<>> /\ loaded' = Tail(loaded)
        /\ callbacks' = Append(callbacks, Replayed(Head(loaded)))
    BY <1>15 DEF ReplayPush
  <2>3. IsSeq(loaded') /\ Range(loaded) = Range(loaded') \cup {Head(loaded)}
    BY <2>2, TailIsSeq DEF OwedInv, FeedTypes
  <2>4. IsSeq(callbacks') /\ Range(callbacks') = Range(callbacks) \cup {Replayed(Head(loaded))}
    BY <2>2, OneMoreIsSeq DEF OwedInv, FeedTypes
  <2>5. Replayed(Head(loaded)).event = Head(loaded)
    BY DEF Replayed
  <2>6. Pending \cup {Head(loaded)} \subseteq Pending'
    BY <2>4, <2>5 DEF Pending
  <2>7. ASSUME NEW e, Held(e) PROVE Held(e)'
    BY <2>1, <2>2, <2>3, <2>6, <2>7 DEF Held, ToLoad, Delivers, Current
  <2>8. FeedTypes' /\ conn' # "load"
    BY <2>1, <2>2, <2>3, <2>4 DEF OwedInv, FeedTypes
  <2> QED
    BY <2>1, <2>2, <2>7, <2>8, OwedStays
<1>16. CASE ReplayDone
  <2>1. UNCHANGED <<store, pc, work, targets, since, loaded, callbacks, queue, received,
                   overflow, owed>>
    BY <1>16 DEF ReplayDone, busVars, thread
  <2>2. conn = "replay" /\ conn' = "live" /\ Range(loaded) = {}
    BY <1>16, EmptyIsSeq DEF ReplayDone
  <2>3. ASSUME NEW e, Held(e) PROVE Held(e)'
    BY <2>1, <2>2, <2>3 DEF Held, ToLoad, Delivers, Current, Pending
  <2>4. FeedTypes' /\ conn' # "load"
    BY <2>1, <2>2 DEF OwedInv, FeedTypes
  <2> QED
    BY <2>1, <2>2, <2>3, <2>4, OwedStays
<1>17. CASE Fanout
  <2>1. UNCHANGED <<store, pc, work, targets, conn, since, loaded, received, owed>>
    BY <1>17 DEF Fanout, busVars, thread
  <2>2. callbacks # <<>> /\ callbacks' = Tail(callbacks)
        /\ IF conn # "off" THEN Put(Head(callbacks).event) ELSE UNCHANGED <<queue, overflow>>
    BY <1>17 DEF Fanout
  <2> DEFINE e0 == Head(callbacks).event
  <2>3. IsSeq(callbacks') /\ Range(callbacks) = Range(callbacks') \cup {Head(callbacks)}
    BY <2>2, TailIsSeq DEF OwedInv, FeedTypes
  <2>4. Pending \subseteq Pending' \cup {e0}
    BY <2>3 DEF Pending
  <2>5. IsSeq(queue)
    BY DEF OwedInv, FeedTypes
  <2>6. ASSUME Put(e0) PROVE IsSeq(queue') /\ (overflow => overflow')
                             /\ (~ overflow' => Range(queue') = Range(queue) \cup {e0})
    <3>1. CASE Len(queue) < QueueCap
      BY <2>5, <2>6, <3>1, OneMoreIsSeq DEF Put
    <3>2. CASE ~ Len(queue) < QueueCap
      <4>1. queue # <<>>
        BY <3>2, FeedAssumption
      <4>2. IsSeq(Tail(queue))
        BY <2>5, <4>1, TailIsSeq
      <4> QED
        BY <2>6, <3>2, <4>2, OneMoreIsSeq DEF Put
    <3> QED
      BY <3>1, <3>2
  <2> HIDE DEF e0
  <2>7. IsSeq(queue') /\ (conn' # "off" /\ ~ overflow' =>
          ~ overflow /\ Range(queue') = Range(queue) \cup {e0})
    BY <2>1, <2>2, <2>5, <2>6 DEF e0
  <2>8. ASSUME NEW e, Held(e), conn' # "off" /\ ~ overflow' PROVE Held(e)'
    BY <2>1, <2>4, <2>7, <2>8 DEF Held, ToLoad, Delivers, Current
  <2>9. FeedTypes' /\ (conn' = "load" => since' # 0)
    BY <2>1, <2>3, <2>7 DEF OwedInv, FeedTypes
  <2> QED
    BY <2>1, <2>7, <2>8, <2>9, OwedStays
<1>18. CASE Send
  <2>1. UNCHANGED <<store, pc, work, targets, conn, since, loaded, callbacks, overflow, owed>>
    BY <1>18 DEF Send, busVars, thread
  <2>2. queue # <<>> /\ queue' = Tail(queue) /\ received' = received \cup {Head(queue)}
    BY <1>18 DEF Send
  <2>3. IsSeq(queue') /\ Range(queue) = Range(queue') \cup {Head(queue)}
    BY <2>2, TailIsSeq DEF OwedInv, FeedTypes
  <2>4. received \cup Range(queue) = received' \cup Range(queue')
    BY <2>2, <2>3
  <2>5. ASSUME NEW e, Held(e) PROVE Held(e)'
    BY <2>1, <2>4, <2>5 DEF Held, ToLoad, Delivers, Current, Pending
  <2>6. FeedTypes' /\ (conn' = "load" => since' # 0)
    BY <2>1, <2>3 DEF OwedInv, FeedTypes
  <2> QED
    BY <2>1, <2>5, <2>6, OwedStays
<1>19. CASE Disconnect
  BY <1>19, EmptyIsSeq DEF Disconnect, NoClient, OwedInv, FeedTypes
<1>20. CASE FeedRestart
  BY <1>20, EmptyIsSeq DEF FeedRestart, NoClient, OwedInv, FeedTypes
<1>21. CASE UNCHANGED vars
  <2>1. UNCHANGED <<store, pc, work, targets, conn, since, loaded, callbacks, queue, received,
                   overflow, owed>>
    BY <1>21 DEF vars, busVars, thread, feedVars
  <2>2. ASSUME NEW e, Held(e) PROVE Held(e)'
    BY <2>1, <2>2 DEF Held, ToLoad, Delivers, Current, Pending
  <2>3. FeedTypes' /\ (conn' = "load" => since' # 0)
    BY <2>1 DEF OwedInv, FeedTypes
  <2> QED
    BY <2>1, <2>2, <2>3, OwedStays
<1> QED
  BY <1>1, <1>2, <1>3, <1>4, <1>5, <1>6, <1>7, <1>8, <1>9, <1>10, <1>11, <1>12, <1>13, <1>14,
     <1>15, <1>16, <1>17, <1>18, <1>19, <1>20, <1>21
     DEF FeedNext, Deliver, Call, Proceed, Loop

\* Once a client is live it misses nothing of what was stored when it connected and not older
\* than ?since=, or routed to the bridge since, unless the queue or the replay met its limit
\* (EventBridge._on_event, _safe_put and the replay of the websocket endpoint).
THEOREM ClientMissesNothing == FeedSpec => []FeedComplete
<1>1. FeedInit => OwedInv
  BY EmptyIsSeq DEF FeedInit, OwedInv, FeedTypes
<1>2. BusTypes /\ OwedInv /\ [FeedNext]_vars => OwedInv'
  BY OwedKept
<1>3. OwedInv => FeedComplete
  BY DEF OwedInv, FeedComplete, Held, ToLoad, Delivers
<1> QED
  BY <1>1, <1>2, <1>3, BusInvariant, PTL DEF FeedSpec

==============================================================================
