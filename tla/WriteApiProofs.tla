---------------------------- MODULE WriteApiProofs ----------------------------
(***************************************************************************)
(* Proofs about GenerateRuns and the write endpoints above it, for any     *)
(* number of runs and callers, with and without the fallback provider, and *)
(* for any number of restarts and lost audit events.                       *)
(***************************************************************************)
EXTENDS WriteApi, FiniteSetTheorems, TLAPS

USE DEF runVars, file, workers, children, Idle

\* A run that is not in the table leaves room for one more id.
LEMMA RoomForId ==
  ASSUME NEW S \in SUBSET Runs, NEW r \in Runs \ S
  PROVE  Cardinality(S) + 1 \in Ids
<1>1. IsFiniteSet(S)
  BY FS_Subset, GenerateRunsAssumption
<1>2. Cardinality(S \cup {r}) = Cardinality(S) + 1 /\ Cardinality(S) \in Nat
  BY <1>1, FS_AddElement, FS_CardinalityType
<1>3. Cardinality(S \cup {r}) <= Cardinality(Runs) /\ Cardinality(Runs) \in Nat
  BY FS_Subset, FS_CardinalityType, GenerateRunsAssumption
<1> QED
  BY <1>2, <1>3 DEF Ids

------------------------------------------------------------------------------
(***************************************************************************)
(* Runs that were not started are not in the table, are started by one     *)
(* caller only, and are not cancelled.                                     *)
(***************************************************************************)
StartedOnce ==
  /\ \A r \in listed : point[r] # "new"
  /\ \A a \in Callers :
       /\ call[a].op = "start" => /\ point[call[a].run] = "new"
                                  /\ \A b \in Callers : call[b].run = call[a].run => b = a
       /\ call[a].op \in {"look", "mark", "terminate"} => point[call[a].run] # "new"

\* A call that is under way is about a run.
LEMMA CalledRun ==
  ASSUME TypeOK, NEW a \in Callers, call[a].op # "idle"
  PROVE  call[a].run \in Runs
  BY DEF TypeOK, CallRecord

\* What the parts of the steps keep.
LEMMA RecordTypes ==
  ASSUME TypeOK, NEW r \in Runs, NEW s \in Statuses, Record(r, s)
  PROVE  /\ status' \in [Runs -> Statuses] /\ history' \in [Ids -> Statuses \cup {"absent"}]
         /\ torn' \in BOOLEAN /\ unsaved' \subseteq Ids /\ lapses' \in Nat
<1>1. id[r] \in Ids
  BY DEF TypeOK
<1>2. status' \in [Runs -> Statuses]
  BY DEF TypeOK, Record
<1>3. CASE Append(r, s)
  BY <1>1, <1>2, <1>3 DEF TypeOK, Append
<1>4. CASE AppendFails(r)
  <2>1. torn' \in BOOLEAN
    BY <1>4 DEF TypeOK, AppendFails
  <2>2. UNCHANGED history /\ unsaved' = unsaved \cup {id[r]} /\ lapses' = lapses + 1
    BY <1>4 DEF AppendFails
  <2> QED
    BY <1>1, <1>2, <2>1, <2>2 DEF TypeOK
<1> QED
  BY <1>3, <1>4 DEF Record

LEMMA AttemptTypes ==
  ASSUME TypeOK, NEW r \in Runs, NEW exited \in BOOLEAN, Attempted(r, exited)
  PROVE  /\ ran' \in [Runs -> Providers \cup {None}] /\ provider' \in [Runs -> Providers]
         /\ point' \in [Runs -> Points] /\ \A q \in Runs \ {r} : point'[q] = point[q]
<1>1. ran' \in [Runs -> Providers \cup {None}]
  BY DEF TypeOK, Attempted
<1>2. provider' = provider \/ provider' = [provider EXCEPT ![r] = "local"]
  BY DEF Attempted
<1>3. point' = [point EXCEPT ![r] = "dispatch"] \/ point' = [point EXCEPT ![r] = "outcome"]
  BY DEF Attempted
<1> QED
  BY <1>1, <1>2, <1>3 DEF TypeOK, Providers, Points

\* Every step keeps the types.
LEMMA RunTypes ==
  ASSUME TypeOK, StartedOnce, [Next]_vars
  PROVE  TypeOK'
<1> USE GenerateRunsAssumption DEF TypeOK, Statuses, Final, Points, Children, Providers,
        CallRecord
<1>1. ASSUME NEW a \in Callers, NEW r \in Runs, Start(a, r) PROVE TypeOK'
  <2>1. r \notin listed
    BY <1>1 DEF Start, StartedOnce
  <2>2. Cardinality(listed) + 1 \in Ids
    BY <2>1, RoomForId
  <2> HIDE DEF Ids
  <2> QED
    BY <1>1, <2>2 DEF Start
<1>2. ASSUME NEW a \in Callers, NEW r \in Runs, CancelLook(a, r) PROVE TypeOK'
  <2> DEFINE proc == IF \E q \in procs : id[q] = id[r]
                     THEN LET q == CHOOSE q \in procs : id[q] = id[r] IN <<q, provider[q]>>
                     ELSE None
  <2>1. proc \in (Runs \X Providers) \cup {None}
    BY DEF TypeOK
  <2>2. call' = [call EXCEPT ![a] = [op |-> "look", run |-> r, proc |-> proc]]
    BY <1>2 DEF CancelLook
  <2> HIDE DEF proc
  <2> QED
    BY <1>2, <2>1, <2>2 DEF CancelLook
<1>3. ASSUME NEW a \in Callers, Enqueue(a) PROVE TypeOK'
  <2>1. PICK r \in Runs : r = call[a].run
    BY <1>3, CalledRun DEF Enqueue
  <2>2. Record(r, "queued")
    BY <1>3, <2>1 DEF Enqueue
  <2>3. /\ status' \in [Runs -> Statuses] /\ history' \in [Ids -> Statuses \cup {"absent"}]
        /\ torn' \in BOOLEAN /\ unsaved' \subseteq Ids /\ lapses' \in Nat
    BY <2>1, <2>2, RecordTypes
  <2>4. listed' \subseteq Runs /\ point' = [point EXCEPT ![r] = "queued"] /\ point[r] = "new"
    BY <1>3, <2>1 DEF Enqueue, Others, StartedOnce
  <2>5. /\ call' \in [Callers -> CallRecord]
        /\ \A b \in Callers : (call'[b].op = "idle") <=> (call'[b].run = None)
    BY <1>3 DEF Enqueue
  <2>6. UNCHANGED <<result, id, procs, provider, ran, children, tmp, restarts>>
    BY <1>3 DEF Enqueue
  <2> QED
    BY <2>1, <2>3, <2>4, <2>5, <2>6
<1>4. ASSUME NEW a \in Callers, CancelTest(a) PROVE TypeOK'
  <2>1. PICK c \in {Idle, [call[a] EXCEPT !.op = "mark"]} : call' = [call EXCEPT ![a] = c]
    BY <1>4 DEF CancelTest
  <2>2. c \in CallRecord /\ ((c.op = "idle") <=> (c.run = None))
    BY <1>4, <2>1 DEF CancelTest
  <2>3. UNCHANGED <<runVars, id, listed, procs, workers, children, tmp, restarts>>
    BY <1>4 DEF CancelTest
  <2> QED
    BY <2>1, <2>2, <2>3
<1>5. ASSUME NEW a \in Callers, CancelMark(a) PROVE TypeOK'
  <2>1. PICK r \in Runs : r = call[a].run
    BY <1>5, CalledRun DEF CancelMark
  <2>2. Record(r, "cancelled")
    BY <1>5, <2>1 DEF CancelMark
  <2>3. /\ status' \in [Runs -> Statuses] /\ history' \in [Ids -> Statuses \cup {"absent"}]
        /\ torn' \in BOOLEAN /\ unsaved' \subseteq Ids /\ lapses' \in Nat
    BY <2>1, <2>2, RecordTypes
  <2>4. /\ call' \in [Callers -> CallRecord]
        /\ \A b \in Callers : (call'[b].op = "idle") <=> (call'[b].run = None)
    BY <1>5 DEF CancelMark
  <2>5. UNCHANGED <<result, id, listed, procs, workers, children, tmp, restarts>>
    BY <1>5 DEF CancelMark
  <2> QED
    BY <2>3, <2>4, <2>5
<1>6. ASSUME NEW a \in Callers, CancelTerminate(a) PROVE TypeOK'
  BY <1>6 DEF CancelTerminate
<1>7. ASSUME NEW r \in Runs, Begin(r) PROVE TypeOK'
  <2>1. /\ status' \in [Runs -> Statuses] /\ history' \in [Ids -> Statuses \cup {"absent"}]
        /\ torn' \in BOOLEAN /\ unsaved' \subseteq Ids /\ lapses' \in Nat
    BY <1>7, RecordTypes DEF Begin
  <2>2. point' = [point EXCEPT ![r] = "done"] \/ point' = [point EXCEPT ![r] = "dispatch"]
    BY <1>7 DEF Begin
  <2>3. /\ point' \in [Runs -> Points] /\ \A q \in Runs \ {r} : point'[q] = point[q]
        /\ point[r] = "queued" /\ tmp' = r
    BY <1>7, <2>2 DEF Begin
  <2>4. UNCHANGED <<result, id, listed, procs, provider, ran, children, call, restarts>>
    BY <1>7 DEF Begin
  <2>5. procs' \subseteq {q \in Runs : point'[q] = "waiting"}
    BY <2>3, <2>4
  <2> QED
    BY <2>1, <2>3, <2>4, <2>5
<1>8. ASSUME NEW r \in Runs, RenderFails(r) PROVE TypeOK'
  BY <1>8 DEF RenderFails
<1>9. ASSUME NEW r \in Runs, Spawn(r) PROVE TypeOK'
  BY <1>9 DEF Spawn
<1>10. ASSUME NEW r \in Runs, SpawnFails(r) PROVE TypeOK'
  <2>1. Attempted(r, FALSE)
    BY <1>10 DEF SpawnFails
  <2>2. /\ ran' \in [Runs -> Providers \cup {None}] /\ provider' \in [Runs -> Providers]
        /\ point' \in [Runs -> Points] /\ \A q \in Runs \ {r} : point'[q] = point[q]
    BY <2>1, AttemptTypes
  <2>3. procs' \subseteq {q \in Runs : point'[q] = "waiting"}
    BY <1>10, <2>2 DEF SpawnFails, Others
  <2> QED
    BY <1>10, <2>2, <2>3 DEF SpawnFails
<1>11. ASSUME NEW r \in Runs, RegisterProc(r) PROVE TypeOK'
  BY <1>11 DEF RegisterProc, Others
<1>12. ASSUME NEW r \in Runs, Collect(r) PROVE TypeOK'
  <2>1. Attempted(r, TRUE)
    BY <1>12 DEF Collect
  <2>2. /\ ran' \in [Runs -> Providers \cup {None}] /\ provider' \in [Runs -> Providers]
        /\ point' \in [Runs -> Points] /\ \A q \in Runs \ {r} : point'[q] = point[q]
    BY <2>1, AttemptTypes
  <2>3. procs' \subseteq {q \in Runs : point'[q] = "waiting"}
    BY <1>12, <2>2 DEF Collect, Others
  <2> QED
    BY <1>12, <2>2, <2>3 DEF Collect
<1>13. ASSUME NEW r \in Runs, LogFails(r) PROVE TypeOK'
  <2>1. Attempted(r, FALSE)
    BY <1>13 DEF LogFails
  <2>2. /\ ran' \in [Runs -> Providers \cup {None}] /\ provider' \in [Runs -> Providers]
        /\ point' \in [Runs -> Points] /\ \A q \in Runs \ {r} : point'[q] = point[q]
    BY <2>1, AttemptTypes
  <2>3. procs' \subseteq {q \in Runs : point'[q] = "waiting"}
    BY <1>13, <2>2 DEF LogFails, Others
  <2> QED
    BY <1>13, <2>2, <2>3 DEF LogFails
<1>14. ASSUME NEW r \in Runs, Outcome(r) PROVE TypeOK'
  <2>1. /\ status' \in [Runs -> Statuses] /\ history' \in [Ids -> Statuses \cup {"absent"}]
        /\ torn' \in BOOLEAN /\ unsaved' \subseteq Ids /\ lapses' \in Nat
    BY <1>14, RecordTypes DEF Outcome
  <2>2. result' \in [Runs -> Providers \cup {None}]
    BY <1>14 DEF Outcome
  <2> QED
    BY <1>14, <2>1, <2>2 DEF Outcome
<1>15. ASSUME NEW r \in Runs, NEW p \in Providers, ChildExits(r, p) PROVE TypeOK'
  BY <1>15 DEF ChildExits
<1>16. CASE Restart
  BY <1>16 DEF Restart, Loaded
<1>17. CASE UNCHANGED vars
  BY <1>17 DEF vars
<1> QED
  BY <1>1, <1>2, <1>3, <1>4, <1>5, <1>6, <1>7, <1>8, <1>9, <1>10, <1>11, <1>12,
     <1>13, <1>14, <1>15, <1>16, <1>17
  DEF Next, Call, CallStep, Worker

\* Every step keeps what is known about the calls.
LEMMA StartsKept ==
  ASSUME TypeOK, StartedOnce, [Next]_vars
  PROVE  StartedOnce'
<1> USE GenerateRunsAssumption DEF TypeOK, CallRecord, StartedOnce
<1>1. ASSUME NEW a \in Callers, NEW r \in Runs, Start(a, r) PROVE StartedOnce'
  BY <1>1 DEF Start
<1>2. ASSUME NEW a \in Callers, NEW r \in Runs, CancelLook(a, r) PROVE StartedOnce'
  BY <1>2 DEF CancelLook
<1>3. ASSUME NEW a \in Callers, Enqueue(a) PROVE StartedOnce'
  <2>1. PICK r \in Runs : r = call[a].run
    BY <1>3, CalledRun DEF Enqueue
  <2>2. /\ listed' \subseteq listed \cup {r} /\ point' = [point EXCEPT ![r] = "queued"]
        /\ call' = [call EXCEPT ![a] = Idle] /\ call[a].op = "start"
    BY <1>3, <2>1 DEF Enqueue, Others
  <2> QED
    BY <2>1, <2>2
<1>4. ASSUME NEW a \in Callers, CancelTest(a) PROVE StartedOnce'
  BY <1>4 DEF CancelTest
<1>5. ASSUME NEW a \in Callers, CancelMark(a) PROVE StartedOnce'
  BY <1>5 DEF CancelMark, Record
<1>6. ASSUME NEW a \in Callers, CancelTerminate(a) PROVE StartedOnce'
  BY <1>6 DEF CancelTerminate
<1>7. ASSUME NEW r \in Runs, Begin(r) PROVE StartedOnce'
  BY <1>7 DEF Begin, Record
<1>8. ASSUME NEW r \in Runs, RenderFails(r) PROVE StartedOnce'
  BY <1>8 DEF RenderFails
<1>9. ASSUME NEW r \in Runs, Spawn(r) PROVE StartedOnce'
  BY <1>9 DEF Spawn
<1>10. ASSUME NEW r \in Runs, SpawnFails(r) PROVE StartedOnce'
  BY <1>10 DEF SpawnFails, Attempted
<1>11. ASSUME NEW r \in Runs, RegisterProc(r) PROVE StartedOnce'
  BY <1>11 DEF RegisterProc, Others
<1>12. ASSUME NEW r \in Runs, Collect(r) PROVE StartedOnce'
  BY <1>12 DEF Collect, Attempted, Others
<1>13. ASSUME NEW r \in Runs, LogFails(r) PROVE StartedOnce'
  BY <1>13 DEF LogFails, Attempted, Others
<1>14. ASSUME NEW r \in Runs, Outcome(r) PROVE StartedOnce'
  BY <1>14 DEF Outcome, Record, Succeeded
<1>15. ASSUME NEW r \in Runs, NEW p \in Providers, ChildExits(r, p) PROVE StartedOnce'
  BY <1>15 DEF ChildExits
<1>16. CASE Restart
  BY <1>16 DEF Restart, Loaded
<1>17. CASE UNCHANGED vars
  BY <1>17 DEF vars
<1> QED
  BY <1>1, <1>2, <1>3, <1>4, <1>5, <1>6, <1>7, <1>8, <1>9, <1>10, <1>11, <1>12,
     <1>13, <1>14, <1>15, <1>16, <1>17
  DEF Next, Call, CallStep, Worker

\* The runner starts with nothing in its tables.
LEMMA InitTypes ==
  ASSUME Init
  PROVE  TypeOK /\ StartedOnce
<1>1. \A r \in Runs : 1 \in Ids
  <2> TAKE r \in Runs
  <2> QED
    BY RoomForId, FS_EmptySet
<1> QED
  BY <1>1, GenerateRunsAssumption
  DEF Init, TypeOK, StartedOnce, Statuses, Points, Children, Providers, CallRecord, Ids

\* Every table of the runner keeps its type, and every run an id of the right range.
THEOREM GenerateTypeCorrect == Spec => [](TypeOK /\ StartedOnce)
<1>1. Init => TypeOK /\ StartedOnce
  BY InitTypes
<1>2. TypeOK /\ StartedOnce /\ [Next]_vars => (TypeOK /\ StartedOnce)'
  BY RunTypes, StartsKept
<1> QED
  BY <1>1, <1>2, PTL DEF Spec

------------------------------------------------------------------------------
(***************************************************************************)
(* Which provider a record names.                                          *)
(***************************************************************************)
\* A provider that ran has ended; a worker that still tries one has not run it
\* before; and a record that names one names the last that ran.
Honest(r) ==
  /\ ran[r] # None => child[r][ran[r]] \in {"ok", "bad"}
  /\ point[r] \in {"new", "queued", "dispatch", "spawned", "waiting"} =>
       ran[r] # provider[r] /\ (provider[r] = "opencode" => ran[r] = None)
  /\ result[r] # None =>
       /\ point[r] \in {"done", "lost"}
       /\ ran[r] # None => result[r] = ran[r]
       /\ point[r] = "done" /\ status[r] = "succeeded" => ran[r] # None /\ child[r][ran[r]] = "ok"

\* No child is started for a provider that has run, and no worker records twice.
LEMMA HonestKept ==
  ASSUME TypeOK, StartedOnce, \A x \in Runs : Honest(x), [Next]_vars
  PROVE  \A x \in Runs : Honest(x)'
<1> USE GenerateRunsAssumption DEF TypeOK, Statuses, Final, Points, Children, Providers,
        CallRecord, StartedOnce, Honest
<1>1. ASSUME NEW a \in Callers, NEW r \in Runs, Start(a, r) PROVE \A x \in Runs : Honest(x)'
  BY <1>1 DEF Start
<1>2. ASSUME NEW a \in Callers, NEW r \in Runs, CancelLook(a, r) PROVE \A x \in Runs : Honest(x)'
  BY <1>2 DEF CancelLook
<1>3. ASSUME NEW a \in Callers, Enqueue(a) PROVE \A x \in Runs : Honest(x)'
  BY <1>3 DEF Enqueue, Record
<1>4. ASSUME NEW a \in Callers, CancelTest(a) PROVE \A x \in Runs : Honest(x)'
  BY <1>4 DEF CancelTest
<1>5. ASSUME NEW a \in Callers, CancelMark(a) PROVE \A x \in Runs : Honest(x)'
  BY <1>5 DEF CancelMark, Record
<1>6. ASSUME NEW a \in Callers, CancelTerminate(a) PROVE \A x \in Runs : Honest(x)'
  BY <1>6 DEF CancelTerminate
<1>7. ASSUME NEW r \in Runs, Begin(r) PROVE \A x \in Runs : Honest(x)'
  BY <1>7 DEF Begin, Record
<1>8. ASSUME NEW r \in Runs, RenderFails(r) PROVE \A x \in Runs : Honest(x)'
  BY <1>8 DEF RenderFails
<1>9. ASSUME NEW r \in Runs, Spawn(r) PROVE \A x \in Runs : Honest(x)'
  BY <1>9 DEF Spawn
<1>10. ASSUME NEW r \in Runs, SpawnFails(r) PROVE \A x \in Runs : Honest(x)'
  BY <1>10 DEF SpawnFails, Attempted
<1>11. ASSUME NEW r \in Runs, RegisterProc(r) PROVE \A x \in Runs : Honest(x)'
  BY <1>11 DEF RegisterProc, Others
<1>12. ASSUME NEW r \in Runs, Collect(r) PROVE \A x \in Runs : Honest(x)'
  BY <1>12 DEF Collect, Attempted, Others
<1>13. ASSUME NEW r \in Runs, LogFails(r) PROVE \A x \in Runs : Honest(x)'
  BY <1>13 DEF LogFails, Attempted, Others
<1>14. ASSUME NEW r \in Runs, Outcome(r) PROVE \A x \in Runs : Honest(x)'
  BY <1>14 DEF Outcome, Record, Succeeded
<1>15. ASSUME NEW r \in Runs, NEW p \in Providers, ChildExits(r, p) PROVE \A x \in Runs : Honest(x)'
  BY <1>15 DEF ChildExits
<1>16. CASE Restart
  BY <1>16 DEF Restart, Loaded
<1>17. CASE UNCHANGED vars
  BY <1>17 DEF vars
<1> QED
  BY <1>1, <1>2, <1>3, <1>4, <1>5, <1>6, <1>7, <1>8, <1>9, <1>10, <1>11, <1>12,
     <1>13, <1>14, <1>15, <1>16, <1>17
  DEF Next, Call, CallStep, Worker

\* The record names the provider whose process gave the exit code, although a fallback
\* may have been tried after it in vain (_outcome).
THEOREM ProviderHonest == Spec => []ProviderIsHonest
<1>1. Init => \A r \in Runs : Honest(r)
  BY GenerateRunsAssumption DEF Init, Honest, Providers
<1>2. (TypeOK /\ StartedOnce) /\ (\A r \in Runs : Honest(r)) /\ [Next]_vars
        => (\A r \in Runs : Honest(r))'
  BY HonestKept
<1>3. (\A r \in Runs : Honest(r)) => ProviderIsHonest
  BY DEF Honest, ProviderIsHonest
<1> QED
  BY <1>1, <1>2, <1>3, GenerateTypeCorrect, PTL DEF Spec

------------------------------------------------------------------------------
(***************************************************************************)
(* The history, and what a restart makes of it.                            *)
(***************************************************************************)
\* Ids that are apart were always apart.
LEMMA ApartBefore ==
  ASSUME TypeOK, StartedOnce, [Next]_vars, IdsApart'
  PROVE  IdsApart
<1> SUFFICES ASSUME NEW x \in Runs, NEW y \in Runs, point[x] # "new", point[y] # "new",
                    id[x] = id[y]
             PROVE  x = y
  BY DEF IdsApart
<1>1. \A z \in Runs : point[z] # "new" => point'[z] # "new" /\ id'[z] = id[z]
  <2> USE DEF TypeOK
  <2>1. ASSUME NEW a \in Callers, NEW r \in Runs, Start(a, r)
        PROVE  \A z \in Runs : point[z] # "new" => point'[z] # "new" /\ id'[z] = id[z]
    BY <2>1 DEF Start
  <2>2. ASSUME NEW a \in Callers, NEW r \in Runs, CancelLook(a, r)
        PROVE  \A z \in Runs : point[z] # "new" => point'[z] # "new" /\ id'[z] = id[z]
    BY <2>2 DEF CancelLook
  <2>3. ASSUME NEW a \in Callers, Enqueue(a)
        PROVE  \A z \in Runs : point[z] # "new" => point'[z] # "new" /\ id'[z] = id[z]
    <3>1. PICK r \in Runs : r = call[a].run
      BY <2>3, CalledRun DEF Enqueue
    <3> QED
      BY <2>3, <3>1 DEF Enqueue
  <2>4. ASSUME NEW a \in Callers, CancelTest(a)
        PROVE  \A z \in Runs : point[z] # "new" => point'[z] # "new" /\ id'[z] = id[z]
    BY <2>4 DEF CancelTest
  <2>5. ASSUME NEW a \in Callers, CancelMark(a)
        PROVE  \A z \in Runs : point[z] # "new" => point'[z] # "new" /\ id'[z] = id[z]
    BY <2>5 DEF CancelMark, Record
  <2>6. ASSUME NEW a \in Callers, CancelTerminate(a)
        PROVE  \A z \in Runs : point[z] # "new" => point'[z] # "new" /\ id'[z] = id[z]
    BY <2>6 DEF CancelTerminate
  <2>7. ASSUME NEW r \in Runs, Begin(r)
        PROVE  \A z \in Runs : point[z] # "new" => point'[z] # "new" /\ id'[z] = id[z]
    BY <2>7 DEF Begin, Record
  <2>8. ASSUME NEW r \in Runs, RenderFails(r)
        PROVE  \A z \in Runs : point[z] # "new" => point'[z] # "new" /\ id'[z] = id[z]
    BY <2>8 DEF RenderFails
  <2>9. ASSUME NEW r \in Runs, Spawn(r)
        PROVE  \A z \in Runs : point[z] # "new" => point'[z] # "new" /\ id'[z] = id[z]
    BY <2>9 DEF Spawn
  <2>10. ASSUME NEW r \in Runs, SpawnFails(r)
         PROVE  \A z \in Runs : point[z] # "new" => point'[z] # "new" /\ id'[z] = id[z]
    BY <2>10 DEF SpawnFails, Attempted
  <2>11. ASSUME NEW r \in Runs, RegisterProc(r)
         PROVE  \A z \in Runs : point[z] # "new" => point'[z] # "new" /\ id'[z] = id[z]
    BY <2>11 DEF RegisterProc, Others
  <2>12. ASSUME NEW r \in Runs, Collect(r)
         PROVE  \A z \in Runs : point[z] # "new" => point'[z] # "new" /\ id'[z] = id[z]
    BY <2>12 DEF Collect, Attempted, Others
  <2>13. ASSUME NEW r \in Runs, LogFails(r)
         PROVE  \A z \in Runs : point[z] # "new" => point'[z] # "new" /\ id'[z] = id[z]
    BY <2>13 DEF LogFails, Attempted, Others
  <2>14. ASSUME NEW r \in Runs, Outcome(r)
         PROVE  \A z \in Runs : point[z] # "new" => point'[z] # "new" /\ id'[z] = id[z]
    BY <2>14 DEF Outcome, Record, Succeeded
  <2>15. ASSUME NEW r \in Runs, NEW p \in Providers, ChildExits(r, p)
         PROVE  \A z \in Runs : point[z] # "new" => point'[z] # "new" /\ id'[z] = id[z]
    BY <2>15 DEF ChildExits
  <2>16. CASE Restart
    BY <2>16 DEF Restart, Loaded
  <2>17. CASE UNCHANGED vars
    BY <2>17 DEF vars
  <2> QED
    BY <2>1, <2>2, <2>3, <2>4, <2>5, <2>6, <2>7, <2>8, <2>9, <2>10, <2>11,
       <2>12, <2>13, <2>14, <2>15, <2>16, <2>17
    DEF Next, Call, CallStep, Worker
<1> QED
  BY <1>1 DEF IdsApart

\* A line of the history is about a run that was started.
HistoryOwned ==
  \A i \in Ids : history[i] # "absent" => \E q \in Runs : point[q] # "new" /\ id[q] = i

\* A run that is known has the last status of its id, or was interrupted, unless that
\* status is unsaved; and the history calls no run cancelled that is not.
AgreesOn(r) ==
  /\ id[r] \notin unsaved =>
       \/ status[r] = history[id[r]]
       \/ status[r] = "failed" /\ history[id[r]] \in {"queued", "running"}
  /\ history[id[r]] = "cancelled" => status[r] = "cancelled"

HistoryAgrees == HistoryOwned /\ (IdsApart => \A r \in listed : AgreesOn(r))

\* A recorded status agrees with the history, and no other run's does less.
LEMMA RecordAgrees ==
  ASSUME TypeOK, HistoryAgrees, IdsApart' => IdsApart, UNCHANGED id,
         NEW r \in Runs, NEW s \in Statuses, Record(r, s), point'[r] # "new",
         listed' \subseteq listed \cup {r},
         \A q \in Runs : point[q] # "new" => point'[q] # "new",
         \A q \in listed : point[q] # "new",
         IdsApart' /\ r \in listed' /\ history[id[r]] = "cancelled" => s = "cancelled"
  PROVE  HistoryAgrees'
<1>1. /\ status' = [status EXCEPT ![r] = s] /\ status \in [Runs -> Statuses]
      /\ history \in [Ids -> Statuses \cup {"absent"}] /\ listed \subseteq Runs
      /\ \A q \in Runs : id[q] \in Ids
  BY DEF Record, TypeOK
<1>2. \/ /\ history' = [history EXCEPT ![id[r]] = s] /\ unsaved' = unsaved \ {id[r]}
      \/ history' = history /\ unsaved' = unsaved \cup {id[r]}
  BY DEF Record, Append, AppendFails
<1>3. HistoryOwned'
  <2> SUFFICES ASSUME NEW i \in Ids, history'[i] # "absent"
               PROVE  \E q \in Runs : point'[q] # "new" /\ id'[q] = i
    BY DEF HistoryOwned
  <2>1. CASE i = id[r]
    BY <2>1
  <2>2. CASE i # id[r]
    <3>1. history[i] # "absent"
      BY <1>1, <1>2, <2>2
    <3> QED
      BY <3>1 DEF HistoryAgrees, HistoryOwned
  <2> QED
    BY <2>1, <2>2
<1>4. ASSUME IdsApart', NEW q \in listed' PROVE AgreesOn(q)'
  <2>1. q \in Runs /\ id'[q] = id[q]
    BY <1>1
  <2>2. CASE q = r
    BY <1>1, <1>2, <1>4, <2>1, <2>2 DEF AgreesOn
  <2>3. CASE q # r
    <3>1. q \in listed /\ point'[q] # "new"
      BY <1>4, <2>1, <2>3
    <3>2. id[q] # id[r]
      BY <1>4, <2>1, <2>3, <3>1 DEF IdsApart
    <3>3. AgreesOn(q)
      BY <1>4, <3>1 DEF HistoryAgrees
    <3>4. /\ status'[q] = status[q] /\ history'[id[q]] = history[id[q]]
          /\ id[q] \in unsaved <=> id[q] \in unsaved'
      BY <1>1, <1>2, <2>1, <2>3, <3>2
    <3> QED
      BY <2>1, <3>3, <3>4 DEF AgreesOn
  <2> QED
    BY <2>2, <2>3
<1> QED
  BY <1>3, <1>4 DEF HistoryAgrees

\* A step that records nothing.
LEMMA HistoryUntouched ==
  ASSUME TypeOK, StartedOnce, HistoryAgrees, IdsApart' => IdsApart,
         UNCHANGED <<status, history, unsaved, listed>>,
         \A q \in Runs : point[q] # "new" => point'[q] # "new" /\ id'[q] = id[q]
  PROVE  HistoryAgrees'
<1>1. HistoryOwned'
  BY DEF HistoryAgrees, HistoryOwned
<1>2. \A q \in listed : q \in Runs /\ id'[q] = id[q]
  BY DEF TypeOK, StartedOnce
<1>3. ASSUME IdsApart', NEW q \in listed' PROVE AgreesOn(q)'
  BY <1>2, <1>3 DEF HistoryAgrees, AgreesOn
<1> QED
  BY <1>1, <1>3 DEF HistoryAgrees

\* Every change of a status is recorded, and a restart loads what was recorded.
LEMMA HistoryKept ==
  ASSUME TypeOK, StartedOnce, HistoryAgrees, [Next]_vars
  PROVE  HistoryAgrees'
<1>1. ASSUME NEW a \in Callers, NEW r \in Runs, Start(a, r) PROVE HistoryAgrees'
  <2>1. UNCHANGED <<status, history, unsaved, listed>>
    BY <1>1 DEF Start
  <2>2. \A q \in Runs : point[q] # "new" => point'[q] # "new" /\ id'[q] = id[q]
    BY <1>1 DEF Start, TypeOK
  <2> QED
    BY <2>1, <2>2, ApartBefore, HistoryUntouched
<1>2. ASSUME NEW a \in Callers, NEW r \in Runs, CancelLook(a, r) PROVE HistoryAgrees'
  <2>1. UNCHANGED <<status, history, unsaved, listed>>
    BY <1>2 DEF CancelLook
  <2>2. \A q \in Runs : point[q] # "new" => point'[q] # "new" /\ id'[q] = id[q]
    BY <1>2 DEF CancelLook, TypeOK
  <2> QED
    BY <2>1, <2>2, ApartBefore, HistoryUntouched
<1>3. ASSUME NEW a \in Callers, Enqueue(a) PROVE HistoryAgrees'
  <2>1. PICK r \in Runs : r = call[a].run
    BY <1>3, CalledRun DEF Enqueue
  <2>2. /\ Record(r, "queued") /\ UNCHANGED id /\ point' = [point EXCEPT ![r] = "queued"]
        /\ listed' \subseteq listed \cup {r} /\ point[r] = "new"
    BY <1>3, <2>1 DEF Enqueue, Others, StartedOnce
  <2>3. point'[r] # "new" /\ \A q \in Runs : point[q] # "new" => point'[q] # "new"
    BY <2>2 DEF TypeOK
  <2>4. IdsApart' => history[id[r]] # "cancelled"
    <3> SUFFICES ASSUME IdsApart', history[id[r]] = "cancelled" PROVE FALSE
      OBVIOUS
    <3>1. PICK q \in Runs : point[q] # "new" /\ id[q] = id[r]
      BY DEF HistoryAgrees, HistoryOwned, TypeOK
    <3>2. q # r /\ point'[q] # "new" /\ id'[q] = id'[r]
      BY <2>2, <2>3, <3>1
    <3> QED
      BY <2>3, <3>2 DEF IdsApart
  <2> QED
    BY <2>1, <2>2, <2>3, <2>4, ApartBefore, RecordAgrees DEF Statuses, StartedOnce
<1>4. ASSUME NEW a \in Callers, CancelTest(a) PROVE HistoryAgrees'
  <2>1. UNCHANGED <<status, history, unsaved, listed>>
    BY <1>4 DEF CancelTest
  <2>2. \A q \in Runs : point[q] # "new" => point'[q] # "new" /\ id'[q] = id[q]
    BY <1>4 DEF CancelTest, TypeOK
  <2> QED
    BY <2>1, <2>2, ApartBefore, HistoryUntouched
<1>5. ASSUME NEW a \in Callers, CancelMark(a) PROVE HistoryAgrees'
  <2>1. PICK r \in Runs : r = call[a].run
    BY <1>5, CalledRun DEF CancelMark
  <2>2. Record(r, "cancelled") /\ UNCHANGED <<id, point, listed>> /\ point[r] # "new"
    BY <1>5, <2>1 DEF CancelMark, StartedOnce
  <2> QED
    BY <2>1, <2>2, ApartBefore, RecordAgrees DEF Statuses, Final, StartedOnce
<1>6. ASSUME NEW a \in Callers, CancelTerminate(a) PROVE HistoryAgrees'
  <2>1. UNCHANGED <<status, history, unsaved, listed>>
    BY <1>6 DEF CancelTerminate
  <2>2. \A q \in Runs : point[q] # "new" => point'[q] # "new" /\ id'[q] = id[q]
    BY <1>6 DEF CancelTerminate, TypeOK
  <2> QED
    BY <2>1, <2>2, ApartBefore, HistoryUntouched
<1>7. ASSUME NEW r \in Runs, Begin(r) PROVE HistoryAgrees'
  <2>1. /\ UNCHANGED <<id, listed>> /\ point'[r] # "new"
        /\ \A q \in Runs : point[q] # "new" => point'[q] # "new" /\ id'[q] = id[q]
    BY <1>7 DEF Begin, TypeOK
  <2>2. CASE UNCHANGED <<status, file>>
    BY <2>1, <2>2, ApartBefore, HistoryUntouched
  <2>3. CASE Record(r, "running") /\ status[r] # "cancelled"
    <3>1. IdsApart' /\ r \in listed' => history[id[r]] # "cancelled"
      BY <2>1, <2>3, ApartBefore DEF HistoryAgrees, AgreesOn
    <3> QED
      BY <2>1, <2>3, <3>1, ApartBefore, RecordAgrees DEF Statuses, StartedOnce
  <2> QED
    BY <1>7, <2>2, <2>3 DEF Begin
<1>8. ASSUME NEW r \in Runs, RenderFails(r) PROVE HistoryAgrees'
  <2>1. UNCHANGED <<status, history, unsaved, listed>>
    BY <1>8 DEF RenderFails
  <2>2. \A q \in Runs : point[q] # "new" => point'[q] # "new" /\ id'[q] = id[q]
    BY <1>8 DEF RenderFails, TypeOK
  <2> QED
    BY <2>1, <2>2, ApartBefore, HistoryUntouched
<1>9. ASSUME NEW r \in Runs, Spawn(r) PROVE HistoryAgrees'
  <2>1. UNCHANGED <<status, history, unsaved, listed>>
    BY <1>9 DEF Spawn
  <2>2. \A q \in Runs : point[q] # "new" => point'[q] # "new" /\ id'[q] = id[q]
    BY <1>9 DEF Spawn, TypeOK
  <2> QED
    BY <2>1, <2>2, ApartBefore, HistoryUntouched
<1>10. ASSUME NEW r \in Runs, SpawnFails(r) PROVE HistoryAgrees'
  <2>1. UNCHANGED <<status, history, unsaved, listed>>
    BY <1>10 DEF SpawnFails, Attempted
  <2>2. \A q \in Runs : point[q] # "new" => point'[q] # "new" /\ id'[q] = id[q]
    BY <1>10 DEF SpawnFails, Attempted, TypeOK
  <2> QED
    BY <2>1, <2>2, ApartBefore, HistoryUntouched
<1>11. ASSUME NEW r \in Runs, RegisterProc(r) PROVE HistoryAgrees'
  <2>1. UNCHANGED <<status, history, unsaved, listed>>
    BY <1>11 DEF RegisterProc
  <2>2. \A q \in Runs : point[q] # "new" => point'[q] # "new" /\ id'[q] = id[q]
    BY <1>11 DEF RegisterProc, TypeOK
  <2> QED
    BY <2>1, <2>2, ApartBefore, HistoryUntouched
<1>12. ASSUME NEW r \in Runs, Collect(r) PROVE HistoryAgrees'
  <2>1. UNCHANGED <<status, history, unsaved, listed>>
    BY <1>12 DEF Collect, Attempted
  <2>2. \A q \in Runs : point[q] # "new" => point'[q] # "new" /\ id'[q] = id[q]
    BY <1>12 DEF Collect, Attempted, TypeOK
  <2> QED
    BY <2>1, <2>2, ApartBefore, HistoryUntouched
<1>13. ASSUME NEW r \in Runs, LogFails(r) PROVE HistoryAgrees'
  <2>1. UNCHANGED <<status, history, unsaved, listed>>
    BY <1>13 DEF LogFails, Attempted
  <2>2. \A q \in Runs : point[q] # "new" => point'[q] # "new" /\ id'[q] = id[q]
    BY <1>13 DEF LogFails, Attempted, TypeOK
  <2> QED
    BY <2>1, <2>2, ApartBefore, HistoryUntouched
<1>14. ASSUME NEW r \in Runs, Outcome(r) PROVE HistoryAgrees'
  <2>1. /\ UNCHANGED <<id, listed>> /\ point'[r] # "new"
        /\ \A q \in Runs : point[q] # "new" => point'[q] # "new" /\ id'[q] = id[q]
    BY <1>14 DEF Outcome, TypeOK
  <2>2. CASE UNCHANGED <<status, file>>
    BY <2>1, <2>2, ApartBefore, HistoryUntouched
  <2>3. ASSUME NEW s \in {"succeeded", "failed"}, Record(r, s), status[r] # "cancelled"
        PROVE  HistoryAgrees'
    <3>1. IdsApart' /\ r \in listed' => history[id[r]] # "cancelled"
      BY <2>1, <2>3, ApartBefore DEF HistoryAgrees, AgreesOn
    <3> QED
      BY <2>1, <2>3, <3>1, ApartBefore, RecordAgrees DEF Statuses, Final, StartedOnce
  <2>4. \/ UNCHANGED <<status, file>>
        \/ status[r] # "cancelled" /\ \E s \in {"succeeded", "failed"} : Record(r, s)
    BY <1>14 DEF Outcome
  <2> QED
    BY <2>2, <2>3, <2>4
<1>15. ASSUME NEW r \in Runs, NEW p \in Providers, ChildExits(r, p) PROVE HistoryAgrees'
  <2>1. UNCHANGED <<status, history, unsaved, listed>>
    BY <1>15 DEF ChildExits
  <2>2. \A q \in Runs : point[q] # "new" => point'[q] # "new" /\ id'[q] = id[q]
    BY <1>15 DEF ChildExits, TypeOK
  <2> QED
    BY <2>1, <2>2, ApartBefore, HistoryUntouched
<1>16. CASE Restart
  <2>1. /\ UNCHANGED <<history, id>> /\ unsaved' = {}
        /\ listed' = {r \in listed : history[id[r]] # "absent"}
        /\ \A q \in Runs : point[q] # "new" => point'[q] # "new"
        /\ \A q \in Runs : q \in listed' => status'[q] = Loaded(q)
    BY <1>16 DEF Restart
  <2>2. HistoryOwned'
    BY <2>1 DEF HistoryAgrees, HistoryOwned
  <2>3. ASSUME NEW q \in listed' PROVE AgreesOn(q)'
    <3>1. q \in Runs /\ id[q] \in Ids
      BY <2>1 DEF TypeOK
    <3>2. history[id[q]] \in Statuses /\ status'[q] = Loaded(q)
      BY <2>1, <2>3, <3>1 DEF TypeOK
    <3> QED
      BY <2>1, <3>2 DEF AgreesOn, Loaded, Statuses, Final
  <2> QED
    BY <2>2, <2>3 DEF HistoryAgrees
<1>17. CASE UNCHANGED vars
  <2>1. UNCHANGED <<status, history, unsaved, listed>>
    BY <1>17 DEF vars
  <2>2. \A q \in Runs : point[q] # "new" => point'[q] # "new" /\ id'[q] = id[q]
    BY <1>17 DEF vars, TypeOK
  <2> QED
    BY <2>1, <2>2, ApartBefore, HistoryUntouched
<1> QED
  BY <1>1, <1>2, <1>3, <1>4, <1>5, <1>6, <1>7, <1>8, <1>9, <1>10, <1>11, <1>12,
     <1>13, <1>14, <1>15, <1>16, <1>17
  DEF Next, Call, CallStep, Worker

\* A restart keeps the status of a run that had ended.
LEMMA OutcomeLoaded ==
  ASSUME TypeOK, HistoryAgrees, IdsApart, Restart, NEW r \in listed,
         status[r] \in Final, id[r] \notin unsaved
  PROVE  r \in listed' /\ status'[r] = status[r]
<1>1. r \in Runs
  BY DEF TypeOK
<1>2. AgreesOn(r)
  BY DEF HistoryAgrees
<1>3. history[id[r]] # "absent"
  BY <1>2 DEF AgreesOn, Final
<1>4. r \in listed' /\ status'[r] = Loaded(r)
  BY <1>1, <1>3 DEF Restart
<1> QED
  BY <1>2, <1>4 DEF AgreesOn, Loaded, Final

\* The history agrees with the table throughout.
LEMMA HistoryInvariant == Spec => []HistoryAgrees
<1>1. Init => HistoryAgrees
  BY DEF Init, HistoryAgrees, HistoryOwned
<1>2. (TypeOK /\ StartedOnce) /\ HistoryAgrees /\ [Next]_vars => HistoryAgrees'
  BY HistoryKept
<1> QED
  BY <1>1, <1>2, GenerateTypeCorrect, PTL DEF Spec

\* No step turns a cancelled run into another.
LEMMA CancelledKept ==
  ASSUME TypeOK, StartedOnce, HistoryAgrees, IdsApart, NEW r \in listed, status[r] =
         "cancelled", [Next]_vars
  PROVE  status'[r] = "cancelled" \/ (Restart /\ id[r] \in unsaved)
<1> USE  DEF TypeOK
<1>1. ASSUME NEW a \in Callers, NEW q \in Runs, Start(a, q) PROVE status'[r] = "cancelled"
  BY <1>1 DEF Start
<1>2. ASSUME NEW a \in Callers, NEW q \in Runs, CancelLook(a, q) PROVE status'[r] = "cancelled"
  BY <1>2 DEF CancelLook
<1>3. ASSUME NEW a \in Callers, Enqueue(a) PROVE status'[r] = "cancelled"
  <2>1. PICK q \in Runs : q = call[a].run
    BY <1>3, CalledRun DEF Enqueue
  <2>2. q # r /\ status' = [status EXCEPT ![q] = "queued"]
    BY <1>3, <2>1 DEF Enqueue, Record, StartedOnce
  <2> QED
    BY <2>2 DEF TypeOK
<1>4. ASSUME NEW a \in Callers, CancelTest(a) PROVE status'[r] = "cancelled"
  BY <1>4 DEF CancelTest
<1>5. ASSUME NEW a \in Callers, CancelMark(a) PROVE status'[r] = "cancelled"
  BY <1>5 DEF CancelMark, Record
<1>6. ASSUME NEW a \in Callers, CancelTerminate(a) PROVE status'[r] = "cancelled"
  BY <1>6 DEF CancelTerminate
<1>7. ASSUME NEW q \in Runs, Begin(q) PROVE status'[r] = "cancelled"
  BY <1>7 DEF Begin, Record
<1>8. ASSUME NEW q \in Runs, RenderFails(q) PROVE status'[r] = "cancelled"
  BY <1>8 DEF RenderFails
<1>9. ASSUME NEW q \in Runs, Spawn(q) PROVE status'[r] = "cancelled"
  BY <1>9 DEF Spawn
<1>10. ASSUME NEW q \in Runs, SpawnFails(q) PROVE status'[r] = "cancelled"
  BY <1>10 DEF SpawnFails, Attempted
<1>11. ASSUME NEW q \in Runs, RegisterProc(q) PROVE status'[r] = "cancelled"
  BY <1>11 DEF RegisterProc, Others
<1>12. ASSUME NEW q \in Runs, Collect(q) PROVE status'[r] = "cancelled"
  BY <1>12 DEF Collect, Attempted, Others
<1>13. ASSUME NEW q \in Runs, LogFails(q) PROVE status'[r] = "cancelled"
  BY <1>13 DEF LogFails, Attempted, Others
<1>14. ASSUME NEW q \in Runs, Outcome(q) PROVE status'[r] = "cancelled"
  BY <1>14 DEF Outcome, Record, Succeeded
<1>15. ASSUME NEW q \in Runs, NEW p \in Providers, ChildExits(q, p) PROVE status'[r] = "cancelled"
  BY <1>15 DEF ChildExits
<1>16. CASE Restart
  BY <1>16, OutcomeLoaded DEF Final
<1>17. CASE UNCHANGED vars
  BY <1>17 DEF vars
<1> QED
  BY <1>1, <1>2, <1>3, <1>4, <1>5, <1>6, <1>7, <1>8, <1>9, <1>10, <1>11, <1>12,
     <1>13, <1>14, <1>15, <1>16, <1>17
  DEF Next, Call, CallStep, Worker

\* A cancelled run stays cancelled, whatever worker, call, start or restart follows, unless
\* two runs share an id or, over a restart, its record could not be saved (_execute,
\* _append_history, _load_history).
THEOREM CancelledForGood == Spec => CancelledStaysCancelled
<1>1. TypeOK /\ StartedOnce /\ HistoryAgrees /\ [Next]_vars =>
        [IdsApart => \A r \in listed :
           status[r] = "cancelled" =>
             status'[r] = "cancelled" \/ (Restart /\ id[r] \in unsaved)]_vars
  BY CancelledKept
<1> QED
  BY <1>1, GenerateTypeCorrect, HistoryInvariant, PTL DEF Spec, CancelledStaysCancelled

\* A restart knows every run that had ended and keeps its outcome, although appends to the
\* history fail, unless two runs share an id or the run's own last record was not saved
\* (_append_history, _load_history).
THEOREM OutcomesSurvive == Spec => RestartKeepsOutcomes
<1>1. TypeOK /\ StartedOnce /\ HistoryAgrees /\ [Next]_vars =>
        [IdsApart /\ Restart => \A r \in listed :
           status[r] \in Final /\ id[r] \notin unsaved =>
             r \in listed' /\ status'[r] = status[r]]_vars
  BY OutcomeLoaded
<1> QED
  BY <1>1, GenerateTypeCorrect, HistoryInvariant, PTL DEF Spec, RestartKeepsOutcomes

------------------------------------------------------------------------------
(***************************************************************************)
(* The endpoints above the runner.                                         *)
(***************************************************************************)
\* The writes that touch no run, and what all of them do.
OtherWrite(a) ==
  \/ GenerateInvalid(a) \/ CancelUnknown(a)
  \/ RuntimeWrite(a) \/ OrchestrateWrite(a) \/ MemoryWrite(a) \/ BuildWrite(a)
  \/ SubmitWrite(a) \/ DecideWrite(a) \/ CompanyWrite(a) \/ AgentsWrite(a) \/ TelemetryWrite(a)

LEMMA OtherWriteMeans ==
  ASSUME NEW a \in Callers, OtherWrite(a)
  PROVE  /\ UNCHANGED <<vars, trail, refusals, unkept, faults>>
         /\ request[a] = NoWrite /\ (Answered(a) \/ Returned(a))
  BY DEF OtherWrite, GenerateInvalid, CancelUnknown, RuntimeWrite, OrchestrateWrite, MemoryWrite,
     BuildWrite, SubmitWrite, DecideWrite, CompanyWrite, AgentsWrite, TelemetryWrite, Operate, Admit

\* The steps of the endpoints.
LEMMA ApiSteps ==
  ASSUME ApiNext
  PROVE  \/ Refuse \/ ServerRestart
         \/ \E a \in Callers :
              \/ \E r \in Runs : GenerateStart(a, r) \/ GenerateCancel(a, r)
              \/ RunnerStep(a) \/ OtherWrite(a) \/ CompanyRaises(a) \/ Audited(a) \/ AuditFails(a)
         \/ \E r \in Runs : RunStep(r)
  BY DEF ApiNext, Handler, OtherWrite

\* Every step of an endpoint is a step of the runner, or leaves it alone.
LEMMA RunnerOrNothing ==
  ASSUME [ApiNext]_allVars
  PROVE  [Next]_vars
<1>1. CASE Refuse
  BY <1>1 DEF Refuse
<1>2. CASE ServerRestart
  BY <1>2 DEF ServerRestart, Next
<1>3. ASSUME NEW a \in Callers, NEW r \in Runs, GenerateStart(a, r) \/ GenerateCancel(a, r)
      PROVE  [Next]_vars
  BY <1>3 DEF GenerateStart, GenerateCancel, Next, Call
<1>4. ASSUME NEW a \in Callers, RunnerStep(a) PROVE [Next]_vars
  BY <1>4 DEF RunnerStep, Next
<1>5. ASSUME NEW a \in Callers, OtherWrite(a) PROVE [Next]_vars
  BY <1>5, OtherWriteMeans
<1>6. ASSUME NEW a \in Callers, CompanyRaises(a) \/ Audited(a) \/ AuditFails(a)
      PROVE  [Next]_vars
  BY <1>6 DEF CompanyRaises, Audited, AuditFails
<1>7. ASSUME NEW r \in Runs, RunStep(r) PROVE [Next]_vars
  BY <1>7 DEF RunStep, Next
<1>8. CASE UNCHANGED allVars
  BY <1>8 DEF allVars
<1> QED
  BY <1>1, <1>2, <1>3, <1>4, <1>5, <1>6, <1>7, <1>8, ApiSteps

\* The endpoints use the runner only as its own calls allow, so that whatever is proved
\* of the runner holds behind them (WriteGuard, runtime_facade).
THEOREM EndpointsKeepTheRules == ApiSpec => Spec
<1>1. ApiInit => Init
  BY DEF ApiInit
<1>2. [ApiNext]_allVars => [Next]_vars
  BY RunnerOrNothing
<1> QED
  BY <1>1, <1>2, PTL DEF ApiSpec, Spec

------------------------------------------------------------------------------
(***************************************************************************)
(* The write that each call is made for.                                   *)
(***************************************************************************)
\* What is known of the thread a.
ServedWell(a) ==
  /\ request[a] \in RequestRecord
  /\ (request[a].at = "runner") <=> (call[a] # Idle)
  /\ call[a].run \in {None, request[a].run}
  /\ call[a].op = "start" => request[a].write = "generate"
  /\ call[a].op \in {"look", "mark", "terminate"} => request[a].write = "cancel"
  /\ request[a].run # None => request[a].write \in GenerateWrites

ApiInv ==
  /\ TypeOK /\ StartedOnce
  /\ refusals \in BOOLEAN
  /\ request \in [Callers -> RequestRecord]
  /\ \A a \in Callers : ServedWell(a)
  /\ trail \subseteq [write : GenerateWrites, run : Runs]
  /\ unkept \subseteq [write : GenerateWrites, run : Runs]

\* One thread goes on, the others wait.
LEMMA OthersServed ==
  ASSUME NEW a \in Callers, \A b \in Callers : ServedWell(b), ServedWell(a)',
         \A b \in Callers \ {a} : request'[b] = request[b] /\ call'[b] = call[b]
  PROVE  \A b \in Callers : ServedWell(b)'
  BY DEF ServedWell

\* The event of a write to a run.
LEMMA EventTypes ==
  ASSUME ApiInv, NEW a \in Callers, request[a].run # None
  PROVE  Event(a) \in [write : GenerateWrites, run : Runs]
  BY DEF ApiInv, ServedWell, RequestRecord, Event

\* A thread whose request or call is about to change.
LEMMA AnsweredServed ==
  ASSUME ApiInv, NEW a \in Callers, UNCHANGED call, call[a] = Idle, Answered(a) \/ Returned(a)
  PROVE  request' \in [Callers -> RequestRecord] /\ \A b \in Callers : ServedWell(b)'
<1>1. PICK q \in {NoWrite, [request[a] EXCEPT !.at = "audit"]} :
        request' = [request EXCEPT ![a] = q]
  BY DEF Answered, Returned
<1>2. q \in RequestRecord /\ q.at # "runner"
  BY <1>1 DEF ApiInv, RequestRecord, NoWrite
<1>3. q.run # None => q.write \in GenerateWrites
  BY <1>1 DEF ApiInv, ServedWell, NoWrite, RequestRecord
<1>4. request \in [Callers -> RequestRecord]
  BY DEF ApiInv
<1>5. request' \in [Callers -> RequestRecord]
  BY <1>1, <1>2, <1>4
<1>6. request'[a] = q /\ call'[a] = Idle
  BY <1>1, <1>4
<1>7. ServedWell(a)'
  BY <1>2, <1>3, <1>6 DEF ServedWell
<1>8. \A b \in Callers \ {a} : request'[b] = request[b] /\ call'[b] = call[b]
  BY <1>1, <1>4
<1> QED
  BY <1>5, <1>7, <1>8, OthersServed DEF ApiInv

\* A request is passed on to the runner.
LEMMA PassedOn ==
  ASSUME ApiInv, NEW a \in Callers, NEW q \in RequestRecord, NEW c \in CallRecord,
         c.run = q.run, q.at = "runner",
         \/ q.write = "generate" /\ c.op = "start"
         \/ q.write = "cancel" /\ c.op = "look",
         call' = [call EXCEPT ![a] = c], request' = [request EXCEPT ![a] = q]
  PROVE  request' \in [Callers -> RequestRecord] /\ \A b \in Callers : ServedWell(b)'
<1>1. request \in [Callers -> RequestRecord] /\ call \in [Callers -> CallRecord]
  BY DEF ApiInv, TypeOK
<1>2. request'[a] = q /\ call'[a] = c /\ request' \in [Callers -> RequestRecord]
  BY <1>1
<1>3. ServedWell(a)'
  BY <1>2 DEF ServedWell, GenerateWrites
<1>4. \A b \in Callers \ {a} : request'[b] = request[b] /\ call'[b] = call[b]
  BY <1>1
<1> QED
  BY <1>2, <1>3, <1>4, OthersServed DEF ApiInv

\* The call goes on, or is over and the facade returns.
LEMMA RunnerServed ==
  ASSUME ApiInv, NEW a \in Callers, RunnerStep(a)
  PROVE  request' \in [Callers -> RequestRecord] /\ \A b \in Callers : ServedWell(b)'
<1>1. request \in [Callers -> RequestRecord] /\ call \in [Callers -> CallRecord] /\ ServedWell(a)
  BY DEF ApiInv, TypeOK
<1>2. PICK c \in {Idle, [call[a] EXCEPT !.op = "mark"], [call[a] EXCEPT !.op = "terminate"]} :
        /\ call' = [call EXCEPT ![a] = c]
        /\ c # Idle => call[a].op \in {"look", "mark"}
  <2>1. CASE Enqueue(a)
    BY <2>1 DEF Enqueue
  <2>2. CASE CancelTest(a)
    BY <2>2 DEF CancelTest
  <2>3. CASE CancelMark(a)
    BY <2>3 DEF CancelMark
  <2>4. CASE CancelTerminate(a)
    BY <2>4 DEF CancelTerminate
  <2> QED
    BY <2>1, <2>2, <2>3, <2>4 DEF RunnerStep, CallStep
<1>3. call'[a] = c /\ \A b \in Callers \ {a} : call'[b] = call[b]
  BY <1>1, <1>2
<1>4. CASE c = Idle
  <2>1. request' = [request EXCEPT ![a].at = "audit"]
    BY <1>3, <1>4 DEF RunnerStep, Returned
  <2>2. request'[a] = [request[a] EXCEPT !.at = "audit"]
    BY <1>1, <2>1
  <2>3. /\ request'[a] \in RequestRecord /\ request'[a].at = "audit"
        /\ request'[a].run = request[a].run /\ request'[a].write = request[a].write
    BY <1>1, <2>2 DEF RequestRecord
  <2>4. ServedWell(a)'
    BY <1>1, <1>3, <1>4, <2>3 DEF ServedWell
  <2>5. /\ request' \in [Callers -> RequestRecord]
        /\ \A b \in Callers \ {a} : request'[b] = request[b]
    BY <1>1, <2>1, <2>2, <2>3
  <2> QED
    BY <1>3, <2>4, <2>5, OthersServed DEF ApiInv
<1>5. CASE c # Idle
  <2>1. UNCHANGED request
    BY <1>3, <1>5 DEF RunnerStep
  <2>2. c.op \in {"mark", "terminate"} /\ c.run = call[a].run
    BY <1>1, <1>2, <1>5 DEF CallRecord
  <2>3. ServedWell(a)'
    BY <1>1, <1>2, <1>3, <1>5, <2>1, <2>2 DEF ServedWell, RunnerStep, Serving
  <2> QED
    BY <1>1, <1>3, <2>1, <2>3, OthersServed DEF ApiInv
<1> QED
  BY <1>4, <1>5

LEMMA ApiInvKept ==
  ASSUME ApiInv, [ApiNext]_allVars
  PROVE  ApiInv'
<1>1. (TypeOK /\ StartedOnce)'
  BY RunnerOrNothing, RunTypes, StartsKept DEF ApiInv
<1>2. \A a \in Callers : ServedWell(a)' <=>
        /\ request'[a] \in RequestRecord
        /\ (request'[a].at = "runner") <=> (call'[a] # Idle)
        /\ call'[a].run \in {None, request'[a].run}
        /\ call'[a].op = "start" => request'[a].write = "generate"
        /\ call'[a].op \in {"look", "mark", "terminate"} => request'[a].write = "cancel"
        /\ request'[a].run # None => request'[a].write \in GenerateWrites
  BY DEF ServedWell
<1>3. CASE Refuse
  BY <1>1, <1>2, <1>3 DEF Refuse, ApiInv, vars, ServedWell
<1>4. CASE ServerRestart
  <2>1. /\ request' = [a \in Callers |-> NoWrite] /\ call' = [a \in Callers |-> Idle]
        /\ UNCHANGED <<refusals, trail>>
        /\ unkept' = unkept \cup {Event(a) : a \in {b \in Callers : request[b].run # None}}
    BY <1>4 DEF ServerRestart, Restart
  <2>2. NoWrite \in RequestRecord /\ NoWrite.at = "none" /\ NoWrite.run = None
    BY DEF NoWrite, RequestRecord
  <2>3. \A a \in Callers : ServedWell(a)'
    BY <1>2, <2>1, <2>2
  <2> QED
    BY <1>1, <2>1, <2>2, <2>3, EventTypes DEF ApiInv
<1>5. ASSUME NEW a \in Callers, NEW r \in Runs, GenerateStart(a, r) PROVE ApiInv'
  <2> DEFINE q == [NoWrite EXCEPT !.write = "generate", !.at = "runner", !.run = r]
  <2>1. UNCHANGED <<trail, refusals, unkept>> /\ request' = [request EXCEPT ![a] = q]
    BY <1>5 DEF GenerateStart
  <2>2. q \in RequestRecord /\ q.write = "generate" /\ q.at = "runner" /\ q.run = r
    BY DEF NoWrite, RequestRecord, Writes, GenerateWrites
  <2> HIDE DEF q
  <2> DEFINE c == [op |-> "start", run |-> r, proc |-> None]
  <2>3. call' = [call EXCEPT ![a] = c] /\ c.op = "start" /\ c.run = r
    BY <1>5 DEF GenerateStart, Start
  <2> HIDE DEF c
  <2>4. c \in CallRecord
    BY <1>1, <2>3 DEF ApiInv, TypeOK
  <2>5. request' \in [Callers -> RequestRecord] /\ \A b \in Callers : ServedWell(b)'
    BY <2>1, <2>2, <2>3, <2>4, PassedOn
  <2> QED
    BY <1>1, <2>1, <2>5 DEF ApiInv
<1>6. ASSUME NEW a \in Callers, NEW r \in Runs, GenerateCancel(a, r) PROVE ApiInv'
  <2> DEFINE q == [NoWrite EXCEPT !.write = "cancel", !.at = "runner", !.run = r]
  <2>1. UNCHANGED <<trail, refusals, unkept>> /\ request' = [request EXCEPT ![a] = q]
    BY <1>6 DEF GenerateCancel
  <2>2. q \in RequestRecord /\ q.write = "cancel" /\ q.at = "runner" /\ q.run = r
    BY DEF NoWrite, RequestRecord, Writes, GenerateWrites
  <2> HIDE DEF q
  <2> DEFINE p == IF \E x \in procs : id[x] = id[r]
                  THEN LET x == CHOOSE x \in procs : id[x] = id[r] IN <<x, provider[x]>>
                  ELSE None
             c == [op |-> "look", run |-> r, proc |-> p]
  <2>3. call' = [call EXCEPT ![a] = c] /\ c.op = "look" /\ c.run = r
    BY <1>6 DEF GenerateCancel, CancelLook
  <2> HIDE DEF p, c
  <2>4. c \in CallRecord
    BY <1>1, <2>3 DEF ApiInv, TypeOK
  <2>5. request' \in [Callers -> RequestRecord] /\ \A b \in Callers : ServedWell(b)'
    BY <2>1, <2>2, <2>3, <2>4, PassedOn
  <2> QED
    BY <1>1, <2>1, <2>5 DEF ApiInv
<1>7. ASSUME NEW a \in Callers, RunnerStep(a) PROVE ApiInv'
  <2>1. UNCHANGED <<trail, refusals, unkept>>
    BY <1>7 DEF RunnerStep
  <2> QED
    BY <1>1, <1>7, <2>1, RunnerServed DEF ApiInv
<1>8. ASSUME NEW a \in Callers, OtherWrite(a) \/ Audited(a) \/ AuditFails(a) PROVE ApiInv'
  <2>1. /\ UNCHANGED vars /\ (Answered(a) \/ Returned(a))
        /\ request[a] = NoWrite \/ request[a].at = "audit"
    BY <1>8, OtherWriteMeans DEF Audited, AuditFails, Serving
  <2>2. UNCHANGED call /\ call[a] = Idle
    BY <2>1 DEF vars, ApiInv, ServedWell, NoWrite
  <2>3. request' \in [Callers -> RequestRecord] /\ \A b \in Callers : ServedWell(b)'
    BY <2>1, <2>2, AnsweredServed
  <2>4. refusals' \in BOOLEAN
    BY <1>8, OtherWriteMeans DEF Audited, AuditFails, ApiInv
  <2>5. /\ trail' = trail \/ (request[a].run # None /\ trail' = trail \cup {Event(a)})
        /\ unkept' = unkept \/ (request[a].run # None /\ unkept' = unkept \cup {Event(a)})
    BY <1>8, OtherWriteMeans DEF Audited, AuditFails
  <2>6. /\ trail' \subseteq [write : GenerateWrites, run : Runs]
        /\ unkept' \subseteq [write : GenerateWrites, run : Runs]
    BY <2>5, EventTypes DEF ApiInv
  <2> QED
    BY <1>1, <2>1, <2>3, <2>4, <2>6 DEF ApiInv
<1>9. ASSUME UNCHANGED <<call, request, trail, refusals, unkept>> PROVE ApiInv'
  BY <1>1, <1>2, <1>9 DEF ApiInv, ServedWell
<1>10. ASSUME NEW a \in Callers, CompanyRaises(a) PROVE ApiInv'
  BY <1>9, <1>10 DEF CompanyRaises, vars
<1>11. ASSUME NEW r \in Runs, RunStep(r) PROVE ApiInv'
  <2>1. UNCHANGED apiVars
    BY <1>11 DEF RunStep
  <2>2. UNCHANGED call
    BY <1>11 DEF RunStep, Worker, Begin, RenderFails, Spawn, SpawnFails, RegisterProc, Collect,
                 LogFails, Outcome, ChildExits
  <2> QED
    BY <1>9, <2>1, <2>2 DEF apiVars
<1>12. CASE UNCHANGED allVars
  BY <1>9, <1>12 DEF allVars, vars, apiVars
<1> QED
  BY <1>3, <1>4, <1>5, <1>6, <1>7, <1>8, <1>10, <1>11, <1>12, ApiSteps

LEMMA ApiInvariant == ApiSpec => [](ApiInv /\ HistoryAgrees)
<1>1. ApiInit => ApiInv
  <2> SUFFICES ASSUME ApiInit PROVE ApiInv
    OBVIOUS
  <2>1. TypeOK /\ StartedOnce
    BY InitTypes DEF ApiInit
  <2>2. call = [a \in Callers |-> Idle] /\ request = [a \in Callers |-> NoWrite]
    BY DEF ApiInit, Init
  <2>3. NoWrite \in RequestRecord /\ NoWrite.at = "none" /\ NoWrite.run = None
    BY DEF NoWrite, RequestRecord
  <2>4. \A a \in Callers : ServedWell(a)
    BY <2>2, <2>3 DEF ServedWell
  <2> QED
    BY <2>1, <2>2, <2>3, <2>4 DEF ApiInit, ApiInv
<1>2. ApiInv /\ [ApiNext]_allVars => ApiInv'
  BY ApiInvKept
<1> QED
  BY <1>1, <1>2, EndpointsKeepTheRules, HistoryInvariant, PTL DEF ApiSpec

------------------------------------------------------------------------------
(***************************************************************************)
(* What is on record.                                                      *)
(***************************************************************************)
\* A write on record stays there: its request goes on until the audit has put it on
\* the trail, or failed to, or a restart has cut it off.
LEMMA OnRecordStays ==
  ASSUME ApiInv, [ApiNext]_allVars, Wired, NEW w, NEW r \in Runs, OnRecord(w, r)
  PROVE  OnRecord(w, r)'
<1> DEFINE Goes(b) == request'[b].write = request[b].write /\ request'[b].run = request[b].run
           Keeps == trail \subseteq trail' /\ unkept \subseteq unkept'
<1>0. request \in [Callers -> RequestRecord]
  BY DEF ApiInv
<1>1. OnRecord(w, r)' <=> \/ [write |-> w, run |-> r] \in trail' \cup unkept'
                          \/ \E b \in Callers : request'[b].write = w /\ request'[b].run = r
  BY DEF OnRecord
<1>2. ASSUME Keeps, \A b \in Callers : Goes(b) \/ request[b].run = None
                                      \/ Event(b) \in trail' \cup unkept'
      PROVE  OnRecord(w, r)'
  <2>1. r # None
    BY GenerateRunsAssumption
  <2> QED
    BY <1>1, <1>2, <2>1 DEF OnRecord, Event
<1> HIDE DEF Keeps, Goes
<1>3. CASE Refuse \/ UNCHANGED allVars
  BY <1>2, <1>3 DEF Refuse, allVars, apiVars, Keeps, Goes
<1>4. CASE ServerRestart
  <2>1. /\ UNCHANGED trail
        /\ unkept' = unkept \cup {Event(a) : a \in {b \in Callers : request[b].run # None}}
    BY <1>4 DEF ServerRestart
  <2> QED
    BY <1>2, <2>1 DEF Keeps
<1>5. ASSUME NEW a \in Callers, NEW q \in Runs, GenerateStart(a, q) \/ GenerateCancel(a, q)
      PROVE  OnRecord(w, r)'
  <2>1. UNCHANGED <<trail, unkept>> /\ request[a] = NoWrite
    BY <1>5 DEF GenerateStart, GenerateCancel, Admit
  <2>2. \A b \in Callers \ {a} : request'[b] = request[b]
    BY <1>0, <1>5 DEF GenerateStart, GenerateCancel
  <2> QED
    BY <1>2, <2>1, <2>2 DEF Keeps, Goes, NoWrite
<1>6. ASSUME NEW a \in Callers, RunnerStep(a) PROVE OnRecord(w, r)'
  <2>1. UNCHANGED <<trail, unkept>>
    BY <1>6 DEF RunnerStep
  <2>2. UNCHANGED request \/ request' = [request EXCEPT ![a].at = "audit"]
    BY <1>6 DEF RunnerStep, Returned
  <2>3. \A b \in Callers : Goes(b)
    BY <1>0, <2>2 DEF RequestRecord, Goes
  <2> QED
    BY <1>2, <2>1, <2>3 DEF Keeps
<1>7. ASSUME NEW a \in Callers, OtherWrite(a) PROVE OnRecord(w, r)'
  <2>1. UNCHANGED <<trail, unkept>> /\ request[a] = NoWrite /\ (Answered(a) \/ Returned(a))
    BY <1>7, OtherWriteMeans
  <2>2. \A b \in Callers \ {a} : request'[b] = request[b]
    BY <1>0, <2>1 DEF Answered, Returned
  <2> QED
    BY <1>2, <2>1, <2>2 DEF Keeps, Goes, NoWrite
<1>8. ASSUME NEW a \in Callers, CompanyRaises(a) PROVE OnRecord(w, r)'
  BY <1>2, <1>8 DEF CompanyRaises, Keeps, Goes
<1>9. ASSUME NEW a \in Callers, Audited(a) \/ AuditFails(a) PROVE OnRecord(w, r)'
  <2>1. Keeps /\ (request[a].run = None \/ Event(a) \in trail' \cup unkept')
    BY <1>9 DEF Audited, AuditFails, Keeps
  <2>2. \A b \in Callers \ {a} : request'[b] = request[b]
    BY <1>0, <1>9 DEF Audited, AuditFails, Answered
  <2> QED
    BY <1>2, <2>1, <2>2 DEF Goes
<1>10. ASSUME NEW q \in Runs, RunStep(q) PROVE OnRecord(w, r)'
  BY <1>2, <1>10 DEF RunStep, apiVars, Keeps, Goes
<1> QED
  BY <1>3, <1>4, <1>5, <1>6, <1>7, <1>8, <1>9, <1>10, ApiSteps

\* A run enters the table at the end of a start().
LEMMA ListedBy ==
  ASSUME TypeOK, NEW r \in Runs, r \in listed', r \notin listed, [Next]_vars
  PROVE  \E b \in Callers : call[b].op = "start" /\ call[b].run = r /\ status'[r] = "queued"
<1> USE  DEF TypeOK
<1>1. ASSUME NEW a \in Callers, NEW q \in Runs, Start(a, q)
      PROVE  \E b \in Callers : call[b].op = "start" /\ call[b].run = r /\ status'[r] = "queued"
  BY <1>1 DEF Start
<1>2. ASSUME NEW a \in Callers, NEW q \in Runs, CancelLook(a, q)
      PROVE  \E b \in Callers : call[b].op = "start" /\ call[b].run = r /\ status'[r] = "queued"
  BY <1>2 DEF CancelLook
<1>3. ASSUME NEW a \in Callers, Enqueue(a)
      PROVE  \E b \in Callers : call[b].op = "start" /\ call[b].run = r /\ status'[r] = "queued"
  BY <1>3 DEF Enqueue, Record, Others
<1>4. ASSUME NEW a \in Callers, CancelTest(a)
      PROVE  \E b \in Callers : call[b].op = "start" /\ call[b].run = r /\ status'[r] = "queued"
  BY <1>4 DEF CancelTest
<1>5. ASSUME NEW a \in Callers, CancelMark(a)
      PROVE  \E b \in Callers : call[b].op = "start" /\ call[b].run = r /\ status'[r] = "queued"
  BY <1>5 DEF CancelMark, Record
<1>6. ASSUME NEW a \in Callers, CancelTerminate(a)
      PROVE  \E b \in Callers : call[b].op = "start" /\ call[b].run = r /\ status'[r] = "queued"
  BY <1>6 DEF CancelTerminate
<1>7. ASSUME NEW q \in Runs, Begin(q)
      PROVE  \E b \in Callers : call[b].op = "start" /\ call[b].run = r /\ status'[r] = "queued"
  BY <1>7 DEF Begin, Record
<1>8. ASSUME NEW q \in Runs, RenderFails(q)
      PROVE  \E b \in Callers : call[b].op = "start" /\ call[b].run = r /\ status'[r] = "queued"
  BY <1>8 DEF RenderFails
<1>9. ASSUME NEW q \in Runs, Spawn(q)
      PROVE  \E b \in Callers : call[b].op = "start" /\ call[b].run = r /\ status'[r] = "queued"
  BY <1>9 DEF Spawn
<1>10. ASSUME NEW q \in Runs, SpawnFails(q)
       PROVE  \E b \in Callers : call[b].op = "start" /\ call[b].run = r /\ status'[r] = "queued"
  BY <1>10 DEF SpawnFails, Attempted
<1>11. ASSUME NEW q \in Runs, RegisterProc(q)
       PROVE  \E b \in Callers : call[b].op = "start" /\ call[b].run = r /\ status'[r] = "queued"
  BY <1>11 DEF RegisterProc, Others
<1>12. ASSUME NEW q \in Runs, Collect(q)
       PROVE  \E b \in Callers : call[b].op = "start" /\ call[b].run = r /\ status'[r] = "queued"
  BY <1>12 DEF Collect, Attempted, Others
<1>13. ASSUME NEW q \in Runs, LogFails(q)
       PROVE  \E b \in Callers : call[b].op = "start" /\ call[b].run = r /\ status'[r] = "queued"
  BY <1>13 DEF LogFails, Attempted, Others
<1>14. ASSUME NEW q \in Runs, Outcome(q)
       PROVE  \E b \in Callers : call[b].op = "start" /\ call[b].run = r /\ status'[r] = "queued"
  BY <1>14 DEF Outcome, Record, Succeeded
<1>15. ASSUME NEW q \in Runs, NEW p \in Providers, ChildExits(q, p)
       PROVE  \E b \in Callers : call[b].op = "start" /\ call[b].run = r /\ status'[r] = "queued"
  BY <1>15 DEF ChildExits
<1>16. CASE Restart
  BY <1>16 DEF Restart, Loaded
<1>17. CASE UNCHANGED vars
  BY <1>17 DEF vars
<1> QED
  BY <1>1, <1>2, <1>3, <1>4, <1>5, <1>6, <1>7, <1>8, <1>9, <1>10, <1>11, <1>12,
     <1>13, <1>14, <1>15, <1>16, <1>17
  DEF Next, Call, CallStep, Worker

\* A run that is cancelled is cancelled by a cancel(), or was so already.
LEMMA CancelledBy ==
  ASSUME TypeOK, StartedOnce, HistoryAgrees, IdsApart, NEW r \in Runs, status'[r] = "cancelled",
         [Next]_vars
  PROVE  \/ status[r] = "cancelled"
         \/ \E b \in Callers : call[b].op = "mark" /\ call[b].run = r
<1> USE  DEF TypeOK
<1>1. ASSUME NEW a \in Callers, NEW q \in Runs, Start(a, q)
      PROVE  \/ status[r] = "cancelled"
         \/ \E b \in Callers : call[b].op = "mark" /\ call[b].run = r
  BY <1>1 DEF Start
<1>2. ASSUME NEW a \in Callers, NEW q \in Runs, CancelLook(a, q)
      PROVE  \/ status[r] = "cancelled"
         \/ \E b \in Callers : call[b].op = "mark" /\ call[b].run = r
  BY <1>2 DEF CancelLook
<1>3. ASSUME NEW a \in Callers, Enqueue(a)
      PROVE  \/ status[r] = "cancelled"
         \/ \E b \in Callers : call[b].op = "mark" /\ call[b].run = r
  BY <1>3 DEF Enqueue, Record
<1>4. ASSUME NEW a \in Callers, CancelTest(a)
      PROVE  \/ status[r] = "cancelled"
         \/ \E b \in Callers : call[b].op = "mark" /\ call[b].run = r
  BY <1>4 DEF CancelTest
<1>5. ASSUME NEW a \in Callers, CancelMark(a)
      PROVE  \/ status[r] = "cancelled"
         \/ \E b \in Callers : call[b].op = "mark" /\ call[b].run = r
  <2>1. PICK q \in Runs : q = call[a].run
    BY <1>5, CalledRun DEF CancelMark
  <2>2. call[a].op = "mark" /\ status' = [status EXCEPT ![q] = "cancelled"]
    BY <1>5, <2>1 DEF CancelMark, Record
  <2>3. q = r \/ status'[r] = status[r]
    BY <2>2 DEF TypeOK
  <2> QED
    BY <2>1, <2>2, <2>3
<1>6. ASSUME NEW a \in Callers, CancelTerminate(a)
      PROVE  \/ status[r] = "cancelled"
         \/ \E b \in Callers : call[b].op = "mark" /\ call[b].run = r
  BY <1>6 DEF CancelTerminate
<1>7. ASSUME NEW q \in Runs, Begin(q)
      PROVE  \/ status[r] = "cancelled"
         \/ \E b \in Callers : call[b].op = "mark" /\ call[b].run = r
  BY <1>7 DEF Begin, Record
<1>8. ASSUME NEW q \in Runs, RenderFails(q)
      PROVE  \/ status[r] = "cancelled"
         \/ \E b \in Callers : call[b].op = "mark" /\ call[b].run = r
  BY <1>8 DEF RenderFails
<1>9. ASSUME NEW q \in Runs, Spawn(q)
      PROVE  \/ status[r] = "cancelled"
         \/ \E b \in Callers : call[b].op = "mark" /\ call[b].run = r
  BY <1>9 DEF Spawn
<1>10. ASSUME NEW q \in Runs, SpawnFails(q)
       PROVE  \/ status[r] = "cancelled"
         \/ \E b \in Callers : call[b].op = "mark" /\ call[b].run = r
  BY <1>10 DEF SpawnFails, Attempted
<1>11. ASSUME NEW q \in Runs, RegisterProc(q)
       PROVE  \/ status[r] = "cancelled"
         \/ \E b \in Callers : call[b].op = "mark" /\ call[b].run = r
  BY <1>11 DEF RegisterProc, Others
<1>12. ASSUME NEW q \in Runs, Collect(q)
       PROVE  \/ status[r] = "cancelled"
         \/ \E b \in Callers : call[b].op = "mark" /\ call[b].run = r
  BY <1>12 DEF Collect, Attempted, Others
<1>13. ASSUME NEW q \in Runs, LogFails(q)
       PROVE  \/ status[r] = "cancelled"
         \/ \E b \in Callers : call[b].op = "mark" /\ call[b].run = r
  BY <1>13 DEF LogFails, Attempted, Others
<1>14. ASSUME NEW q \in Runs, Outcome(q)
       PROVE  \/ status[r] = "cancelled"
         \/ \E b \in Callers : call[b].op = "mark" /\ call[b].run = r
  BY <1>14 DEF Outcome, Record, Succeeded
<1>15. ASSUME NEW q \in Runs, NEW p \in Providers, ChildExits(q, p)
       PROVE  \/ status[r] = "cancelled"
         \/ \E b \in Callers : call[b].op = "mark" /\ call[b].run = r
  BY <1>15 DEF ChildExits
<1>16. CASE Restart
  <2>1. CASE r \in listed'
    <3>1. r \in listed /\ status'[r] = Loaded(r)
      BY <1>16, <2>1 DEF Restart
    <3>2. history[id[r]] = "cancelled"
      BY <3>1 DEF Loaded
    <3> QED
      BY <3>1, <3>2 DEF HistoryAgrees, AgreesOn
  <2>2. CASE r \notin listed'
    BY <1>16, <2>2 DEF Restart
  <2> QED
    BY <2>1, <2>2
<1>17. CASE UNCHANGED vars
  BY <1>17 DEF vars
<1> QED
  BY <1>1, <1>2, <1>3, <1>4, <1>5, <1>6, <1>7, <1>8, <1>9, <1>10, <1>11, <1>12,
     <1>13, <1>14, <1>15, <1>16, <1>17
  DEF Next, Call, CallStep, Worker

\* The write that a call serves is on record.
LEMMA ServedOnRecord ==
  ASSUME ApiInv, NEW a \in Callers, NEW r \in Runs, call[a].run = r
  PROVE  /\ call[a].op = "start" => OnRecord("generate", r)
         /\ call[a].op = "mark" => OnRecord("cancel", r)
  BY GenerateRunsAssumption DEF ApiInv, ServedWell, OnRecord

\* Where the guards have a bus, every run was started by a write on the trail and every
\* cancelled run was cancelled by one, unless a restart or a fault cut the audit off; what
\* a restart makes of a cancellation is excepted for runs that share an id
\* (WriteGuard.audited, runtime_facade.start_generate and cancel_generate).
THEOREM RunsRecorded == ApiSpec => []RunsAreOnRecord
<1>1. ApiInit => RunsAreOnRecord
  BY DEF ApiInit, Init, RunsAreOnRecord
<1>2. ASSUME ApiInv, HistoryAgrees, RunsAreOnRecord, [ApiNext]_allVars, Wired
      PROVE  RunsAreOnRecord'
  <2>1. TypeOK /\ StartedOnce /\ TypeOK'
    BY <1>2, RunnerOrNothing, RunTypes DEF ApiInv
  <2>2. \A w \in GenerateWrites : \A r \in Runs : OnRecord(w, r) => OnRecord(w, r)'
    BY <1>2, OnRecordStays
  <2>3. ASSUME NEW r \in Runs, r \in listed' PROVE OnRecord("generate", r)'
    <3>1. CASE r \in listed
      BY <1>2, <2>2, <3>1 DEF RunsAreOnRecord, GenerateWrites
    <3>2. CASE r \notin listed
      <4>1. PICK b \in Callers : call[b].op = "start" /\ call[b].run = r
        BY <1>2, <2>1, <2>3, <3>2, ListedBy, RunnerOrNothing
      <4> QED
        BY <1>2, <2>2, <4>1, ServedOnRecord DEF GenerateWrites
    <3> QED
      BY <3>1, <3>2
  <2>4. ASSUME NEW r \in Runs, r \in listed', IdsApart', status'[r] = "cancelled"
        PROVE  OnRecord("cancel", r)'
    <3>1. r \in listed /\ IdsApart
      BY <1>2, <2>1, <2>4, ListedBy, RunnerOrNothing, ApartBefore
    <3>2. CASE status[r] = "cancelled"
      BY <1>2, <2>2, <3>1, <3>2 DEF RunsAreOnRecord, GenerateWrites
    <3>3. CASE \E b \in Callers : call[b].op = "mark" /\ call[b].run = r
      BY <1>2, <2>2, <3>3, ServedOnRecord DEF GenerateWrites
    <3> QED
      BY <1>2, <2>1, <2>4, <3>1, <3>2, <3>3, CancelledBy, RunnerOrNothing
  <2> QED
    BY <2>1, <2>3, <2>4 DEF RunsAreOnRecord, TypeOK
<1>3. (ApiInv /\ HistoryAgrees) /\ RunsAreOnRecord /\ [ApiNext]_allVars => RunsAreOnRecord'
  BY <1>2 DEF RunsAreOnRecord
<1> QED
  BY <1>1, <1>3, ApiInvariant, PTL DEF ApiSpec

=============================================================================
