--------------------------- MODULE SchedulerProofs ---------------------------
(***************************************************************************)
(* Proofs about JobScheduler, for any jobs of every kind, any number of    *)
(* tickers and publishing threads, and any number of restarts and dates.   *)
(***************************************************************************)
EXTENDS JobScheduler, TLAPS

USE DEF jobVars, threadVars, workerVars, opVars, auxVars

------------------------------------------------------------------------------
(***************************************************************************)
(* Dates.                                                                  *)
(***************************************************************************)
LEMMA DivIsNat ==
  ASSUME NEW i \in Nat \ {0}, NEW x \in Nat
  PROVE  x \div i \in Nat /\ (x \div i) * i <= x /\ x < (x \div i) * i + i
  OBVIOUS

LEMMA DivGrows ==
  ASSUME NEW i \in Nat \ {0}, NEW x \in Nat, NEW y \in Nat, x <= y
  PROVE  x \div i <= y \div i
  OBVIOUS

LEMMA DivOfNext ==
  ASSUME NEW i \in Nat \ {0}, NEW x \in Nat
  PROVE  (x + i) \div i = (x \div i) + 1
  OBVIOUS

LEMMA DivOfProduct ==
  ASSUME NEW i \in Nat \ {0}, NEW q \in Nat
  PROVE  (q * i) \div i = q
  OBVIOUS

------------------------------------------------------------------------------
(***************************************************************************)
(* Types.                                                                  *)
(***************************************************************************)
JobRecord == [name : Jobs \cup {NoJob}, version : Nat]
Points == {"idle", "enter", "handle", "mark"}
Results == {"pending", "running", "completed", "failed"}

SchedulerTypeOK ==
  /\ now \in Nat /\ registered \subseteq Jobs /\ running \subseteq Jobs
  /\ swapped \subseteq Jobs /\ succeeded \subseteq Jobs /\ todo \subseteq Jobs
  /\ alive \subseteq Tickers /\ overran \in BOOLEAN
  /\ version \in [Jobs -> Nat] /\ runs \in [Jobs -> Nat] /\ since \in [Jobs -> Nat]
  /\ nextRun \in [Jobs -> Nat \cup {Never}] /\ status \in [Jobs -> Results]
  /\ pc \in [Threads -> Points] /\ due \in [Threads -> SUBSET Jobs]
  /\ job \in [Threads -> JobRecord]
  /\ \A t \in Threads : pc[t] # "idle" => job[t].name \in Jobs

\* The next date of a job that is not event-driven, if there is one.
LEMMA NextRunType ==
  ASSUME SchedulerTypeOK, NEW j \in Jobs
  PROVE  NextRun(j) \in Nat \cup {Never}
<1> DEFINE from == IF nextRun[j] = Never THEN now ELSE nextRun[j]
           i == Interval[j]
<1>1. from \in Nat /\ now \in Nat /\ i \in Nat \ {0}
  BY SchedulerAssumption DEF SchedulerTypeOK, Never
<1>2. NextRun(j) \in {from, from + ((now - from) \div i + 1) * i, (now \div i + 1) * i, Never}
  BY DEF NextRun
<1>3. ~ from > now => (now - from) \div i \in Nat
  BY <1>1, DivIsNat
<1>4. now \div i \in Nat
  BY <1>1, DivIsNat
<1>5. NextRun(j) = CASE Kind[j] = "recurring" -> IF from > now THEN from
                                                ELSE from + ((now - from) \div i + 1) * i
                     [] Kind[j] = "cron" -> (now \div i + 1) * i
                     [] OTHER -> Never
  BY DEF NextRun
<1> HIDE DEF from, i
<1>6. ASSUME NEW k \in Nat PROVE (k + 1) * i \in Nat
  BY <1>1, <1>6
<1>7. ~ from > now => from + ((now - from) \div i + 1) * i \in Nat
  BY <1>1, <1>3, <1>6
<1>8. (now \div i + 1) * i \in Nat
  BY <1>4, <1>6
<1> QED
  BY <1>1, <1>5, <1>7, <1>8

\* Every step keeps the types.
LEMMA TypesKept ==
  ASSUME SchedulerTypeOK, [SchedulerNext]_schedulerVars
  PROVE  SchedulerTypeOK'
<1> USE SchedulerAssumption DEF SchedulerTypeOK, Points, Results
<1>1. ASSUME NEW t \in Tickers, Collect(t) PROVE SchedulerTypeOK'
  BY <1>1 DEF Collect
<1>2. ASSUME NEW t \in Tickers, Pick(t) PROVE SchedulerTypeOK'
  <2>1. /\ pc' = pc \/ pc' = [pc EXCEPT ![t] = "enter"]
        /\ due' \in [Threads -> SUBSET Jobs]
        /\ UNCHANGED <<now, jobVars, workerVars, opVars, auxVars>>
    BY <1>2 DEF Pick, Threads
  <2>2. CASE UNCHANGED <<job, pc>>
    BY <2>1, <2>2
  <2>3. CASE \E j \in Jobs : job' = [job EXCEPT ![t] = [name |-> j, version |-> version[j]]]
    <3>1. PICK j \in Jobs : job' = [job EXCEPT ![t] = [name |-> j, version |-> version[j]]]
      BY <2>3
    <3>2. [name |-> j, version |-> version[j]] \in JobRecord
      BY DEF JobRecord
    <3>3. job' \in [Threads -> JobRecord]
      BY <3>1, <3>2
    <3>4. \A u \in Threads : u # t => job'[u] = job[u] /\ pc'[u] = pc[u]
      BY <2>1, <3>1
    <3>5. t \in Threads => job'[t].name = j
      BY <3>1
    <3> QED
      BY <2>1, <3>3, <3>4, <3>5
  <2> QED
    BY <1>2, <2>2, <2>3 DEF Pick
<1>3. ASSUME NEW t \in Tickers, Mark(t) PROVE SchedulerTypeOK'
  <2>1. /\ job' = [job EXCEPT ![t] = [name |-> NoJob, version |-> 0]]
        /\ nextRun' = [nextRun EXCEPT ![job[t].name] = NextRun(job[t].name)]
        /\ pc' = [pc EXCEPT ![t] = "idle"]
        /\ UNCHANGED <<now, registered, version, status, runs, running, due>>
        /\ UNCHANGED <<workerVars, opVars, auxVars>>
    BY <1>3 DEF Mark
  <2>2. [name |-> NoJob, version |-> 0] \in JobRecord
    BY DEF JobRecord
  <2>3. job' \in [Threads -> JobRecord]
    BY <2>1, <2>2
  <2>4. pc[t] = "mark" /\ job[t].name \in Jobs
    BY <1>3 DEF Mark, Threads
  <2>5. nextRun' \in [Jobs -> Nat \cup {Never}]
    BY <2>1, <2>4, NextRunType
  <2> QED
    BY <2>1, <2>3, <2>5
<1>4. ASSUME NEW t \in Tickers, ExitTicker(t) PROVE SchedulerTypeOK'
  BY <1>4 DEF ExitTicker
<1>5. ASSUME NEW t \in Threads, Enter(t) PROVE SchedulerTypeOK'
  <2>1. pc[t] = "enter" /\ job[t].name \in Jobs
    BY <1>5 DEF Enter
  <2>2. pc' = [pc EXCEPT ![t] = Ended(t)] \/ pc' = [pc EXCEPT ![t] = "handle"]
    BY <1>5 DEF Enter
  <2>3. pc' \in [Threads -> Points] /\ \A u \in Threads : pc'[u] # "idle" => pc[u] # "idle"
    BY <2>1, <2>2 DEF Ended
  <2>4. /\ running' \subseteq Jobs
        /\ status' = status \/ status' = [status EXCEPT ![job[t].name] = "running"]
    BY <1>5, <2>1 DEF Enter
  <2>5. UNCHANGED <<now, registered, version, runs, nextRun, job, due, workerVars, opVars, auxVars>>
    BY <1>5 DEF Enter
  <2>6. status' \in [Jobs -> Results]
    BY <2>1, <2>4
  <2> QED
    BY <2>3, <2>4, <2>5, <2>6
<1>6. ASSUME NEW t \in Threads, Return(t) PROVE SchedulerTypeOK'
  <2>1. pc[t] = "handle" /\ job[t].name \in Jobs
    BY <1>6 DEF Return
  <2>2. pc' = [pc EXCEPT ![t] = Ended(t)]
    BY <1>6 DEF Return
  <2>3. pc' \in [Threads -> Points] /\ \A u \in Threads : pc'[u] # "idle" => pc[u] # "idle"
    BY <2>1, <2>2 DEF Ended
  <2>4. PICK result \in {"completed", "failed"} : Outcome(t, result)
    BY <1>6 DEF Return
  <2>5. /\ status' = status \/ status' = [status EXCEPT ![job[t].name] = result]
        /\ runs' = runs \/ runs' = [runs EXCEPT ![job[t].name] = @ + 1]
        /\ succeeded' \subseteq succeeded \cup {job[t].name}
        /\ UNCHANGED <<now, registered, version, nextRun, job, due, workerVars, opVars,
                       since, overran, swapped, events>>
    BY <2>4 DEF Outcome
  <2>6. running' \subseteq Jobs
    BY <1>6 DEF Return
  <2>7. status' \in [Jobs -> Results] /\ runs' \in [Jobs -> Nat] /\ succeeded' \subseteq Jobs
    BY <2>1, <2>4, <2>5
  <2> QED
    BY <2>3, <2>5, <2>6, <2>7
<1>7. ASSUME NEW u \in Publishers, Publish(u) PROVE SchedulerTypeOK'
  <2>1. pc' = [pc EXCEPT ![u] = "enter"]
        /\ UNCHANGED <<now, jobVars, due, workerVars, opVars, since, succeeded, overran, swapped>>
    BY <1>7 DEF Publish
  <2>2. PICK j \in Jobs : job' = [job EXCEPT ![u] = [name |-> j, version |-> version[j]]]
    BY <1>7 DEF Publish
  <2>3. [name |-> j, version |-> version[j]] \in JobRecord
    BY DEF JobRecord
  <2>4. job' \in [Threads -> JobRecord]
    BY <2>2, <2>3
  <2>5. \A t \in Threads : (t # u => job'[t] = job[t] /\ pc'[t] = pc[t])
                           /\ (t = u => job'[t].name = j)
    BY <2>1, <2>2
  <2> QED
    BY <2>1, <2>4, <2>5
<1>8. CASE Stop
  BY <1>8 DEF Stop
<1>9. CASE EndJoin
  BY <1>9 DEF EndJoin
<1>10. CASE Start
  BY <1>10 DEF Start
<1>11. CASE Unregister
  BY <1>11 DEF Unregister
<1>12. CASE Register
  BY <1>12 DEF Register
<1>13. CASE Tick
  BY <1>13 DEF Tick
<1>14. CASE UNCHANGED schedulerVars
  BY <1>14 DEF schedulerVars
<1> QED
  BY <1>1, <1>2, <1>3, <1>4, <1>5, <1>6, <1>7, <1>8, <1>9, <1>10, <1>11, <1>12,
     <1>13, <1>14
  DEF SchedulerNext, TickStep, RestartStep, Run, Threads

\* What the scheduler keeps of jobs and threads has its type throughout.
THEOREM SchedulerTypeCorrect == SchedulerSpec => []SchedulerTypeOK
<1>1. SchedulerInit => SchedulerTypeOK
  <2> SUFFICES ASSUME SchedulerInit PROVE SchedulerTypeOK
    OBVIOUS
  <2>1. [name |-> NoJob, version |-> 0] \in JobRecord
    BY DEF JobRecord
  <2>2. alive \subseteq Tickers
    BY SchedulerAssumption DEF SchedulerInit
  <2> QED
    BY <2>1, <2>2, SchedulerAssumption DEF SchedulerInit, SchedulerTypeOK, Points, Results
<1>2. SchedulerTypeOK /\ [SchedulerNext]_schedulerVars => SchedulerTypeOK'
  BY TypesKept
<1> QED
  BY <1>1, <1>2, PTL DEF SchedulerSpec

------------------------------------------------------------------------------
(***************************************************************************)
(* Overlaps.                                                               *)
(***************************************************************************)
\* A job that runs is marked as running, and is run by one thread.
Marked ==
  \A j \in Jobs \ swapped :
    /\ \A t \in Threads : Executing(t, j) => j \in running
    /\ \A t, u \in Threads : Executing(t, j) /\ Executing(u, j) => t = u

\* A job is entered only while it is not marked, and the mark goes with the job, unless
\* it is registered anew in between.
LEMMA MarkedKept ==
  ASSUME SchedulerTypeOK, Marked, [SchedulerNext]_schedulerVars
  PROVE  Marked'
<1> USE SchedulerAssumption DEF SchedulerTypeOK, Marked
<1>1. ASSUME NEW t \in Tickers, Collect(t) PROVE Marked'
  <2>1. /\ UNCHANGED <<running, swapped>>
        /\ \A x \in Threads, j \in Jobs : Executing(x, j)' => Executing(x, j)
    BY <1>1 DEF Collect, Executing
  <2> QED
    BY <2>1
<1>2. ASSUME NEW t \in Tickers, Pick(t) PROVE Marked'
  <2>1. /\ UNCHANGED <<running, swapped>>
        /\ (pc' = pc /\ job' = job) \/ pc' = [pc EXCEPT ![t] = "enter"]
        /\ \A x \in Threads : x # t => job'[x] = job[x]
    BY <1>2 DEF Pick
  <2>2. \A x \in Threads, j \in Jobs : Executing(x, j)' => Executing(x, j)
    BY <2>1 DEF Executing
  <2> QED
    BY <2>1, <2>2
<1>3. ASSUME NEW t \in Tickers, Mark(t) PROVE Marked'
  <2>1. UNCHANGED <<running, swapped>> /\ pc' = [pc EXCEPT ![t] = "idle"]
        /\ job' = [job EXCEPT ![t] = [name |-> NoJob, version |-> 0]]
    BY <1>3 DEF Mark
  <2>2. \A x \in Threads, j \in Jobs : Executing(x, j)' => Executing(x, j)
    BY <2>1 DEF Executing
  <2> QED
    BY <2>1, <2>2
<1>4. ASSUME NEW t \in Tickers, ExitTicker(t) PROVE Marked'
  <2>1. /\ UNCHANGED <<running, swapped>>
        /\ \A x \in Threads, j \in Jobs : Executing(x, j)' => Executing(x, j)
    BY <1>4 DEF ExitTicker, Executing
  <2> QED
    BY <2>1
<1>5. ASSUME NEW t \in Threads, Enter(t) PROVE Marked'
  <2>1. UNCHANGED <<job, swapped>>
    BY <1>5 DEF Enter
  <2>2. CASE /\ pc' = [pc EXCEPT ![t] = Ended(t)] /\ UNCHANGED running
    <3>1. \A x \in Threads, j \in Jobs : Executing(x, j)' => Executing(x, j)
      BY <2>1, <2>2 DEF Executing, Ended
    <3> QED
      BY <2>1, <2>2, <3>1
  <2>3. CASE /\ job[t].name \notin running /\ running' = running \cup {job[t].name}
             /\ pc' = [pc EXCEPT ![t] = "handle"]
    <3>1. \A x \in Threads, j \in Jobs : Executing(x, j)' =>
            Executing(x, j) \/ (x = t /\ j = job[t].name)
      BY <2>1, <2>3 DEF Executing
    <3> QED
      BY <2>1, <2>3, <3>1
  <2> QED
    BY <1>5, <2>2, <2>3 DEF Enter
<1>6. ASSUME NEW t \in Threads, Return(t) PROVE Marked'
  <2>1. UNCHANGED <<job, swapped>> /\ pc' = [pc EXCEPT ![t] = Ended(t)]
        /\ running' = running \ {job[t].name} /\ pc[t] = "handle"
    BY <1>6 DEF Return, Outcome
  <2>2. \A x \in Threads, j \in Jobs : Executing(x, j)' => Executing(x, j) /\ x # t
    BY <2>1 DEF Executing, Ended
  <2>3. Executing(t, job[t].name) /\ job[t].name \in Jobs
    BY <2>1 DEF Executing
  <2> QED
    BY <2>1, <2>2, <2>3
<1>7. ASSUME NEW u \in Publishers, Publish(u) PROVE Marked'
  <2>1. UNCHANGED <<running, swapped>> /\ pc' = [pc EXCEPT ![u] = "enter"]
        /\ \A x \in Threads : x # u => job'[x] = job[x]
    BY <1>7 DEF Publish
  <2>2. \A x \in Threads, j \in Jobs : Executing(x, j)' => Executing(x, j)
    BY <2>1 DEF Executing
  <2> QED
    BY <2>1, <2>2
<1>8. CASE Stop
  <2>1. /\ UNCHANGED <<running, swapped>>
        /\ \A x \in Threads, j \in Jobs : Executing(x, j)' => Executing(x, j)
    BY <1>8 DEF Stop, Executing
  <2> QED
    BY <2>1
<1>9. CASE EndJoin
  <2>1. /\ UNCHANGED <<running, swapped>>
        /\ \A x \in Threads, j \in Jobs : Executing(x, j)' => Executing(x, j)
    BY <1>9 DEF EndJoin, Executing
  <2> QED
    BY <2>1
<1>10. CASE Start
  <2>1. /\ UNCHANGED <<running, swapped>>
        /\ \A x \in Threads, j \in Jobs : Executing(x, j)' => Executing(x, j)
    BY <1>10 DEF Start, Executing
  <2> QED
    BY <2>1
<1>11. CASE Unregister
  <2>1. UNCHANGED <<pc, job>>
    BY <1>11 DEF Unregister
  <2>2. \A x \in Threads, j \in Jobs : Executing(x, j)' <=> Executing(x, j)
    BY <2>1 DEF Executing
  <2>3. CASE UNCHANGED <<running, swapped>>
    BY <2>2, <2>3
  <2>4. CASE \E j \in todo :
          /\ running' = running \ {j}
          /\ swapped' = IF \E x \in Threads : Executing(x, j) THEN swapped \cup {j} ELSE swapped
    BY <2>2, <2>4
  <2> QED
    BY <1>11, <2>3, <2>4 DEF Unregister
<1>12. CASE Register
  <2>1. /\ UNCHANGED <<running, swapped>>
        /\ \A x \in Threads, j \in Jobs : Executing(x, j)' => Executing(x, j)
    BY <1>12 DEF Register, Executing
  <2> QED
    BY <2>1
<1>13. CASE Tick
  <2>1. /\ UNCHANGED <<running, swapped>>
        /\ \A x \in Threads, j \in Jobs : Executing(x, j)' => Executing(x, j)
    BY <1>13 DEF Tick, Executing
  <2> QED
    BY <2>1
<1>14. CASE UNCHANGED schedulerVars
  <2>1. /\ UNCHANGED <<running, swapped>>
        /\ \A x \in Threads, j \in Jobs : Executing(x, j)' => Executing(x, j)
    BY <1>14 DEF schedulerVars, Executing
  <2> QED
    BY <2>1
<1> QED
  BY <1>1, <1>2, <1>3, <1>4, <1>5, <1>6, <1>7, <1>8, <1>9, <1>10, <1>11, <1>12,
     <1>13, <1>14
  DEF SchedulerNext, TickStep, RestartStep, Run, Threads

\* Overlapping executions of a job are skipped, by whichever threads they are asked for
\* (run_now), except of a job that was registered anew while it ran (unregister).
THEOREM OverlapsSkipped == SchedulerSpec => []NoOverlap
<1>1. SchedulerInit => Marked
  BY DEF SchedulerInit, Marked, Executing
<1>2. SchedulerTypeOK /\ Marked /\ [SchedulerNext]_schedulerVars => Marked'
  BY MarkedKept
<1>3. Marked => NoOverlap
  BY DEF Marked, NoOverlap
<1> QED
  BY <1>1, <1>2, <1>3, SchedulerTypeCorrect, PTL DEF SchedulerSpec

------------------------------------------------------------------------------
(***************************************************************************)
(* Dependencies.                                                           *)
(***************************************************************************)
\* The thread t is to run j, or runs it, or has just run it.
Has(t, j) == j \in due[t] \/ (pc[t] # "idle" /\ job[t].name = j)

\* The tables say completed only of what did complete, and a job that was found due
\* stays entitled to its run.
Upstream ==
  /\ \A j \in Jobs : status[j] = "completed" => j \in succeeded
  /\ \A t \in Threads, j \in Jobs :
       Kind[j] = "dependency" /\ Has(t, j) => Deps[j] \subseteq succeeded

\* A job that a thread has after a step.
TakenUp(t, j) ==
  Has(t, j)' => Has(t, j) \/ Kind[j] = "event" \/ (j \in registered /\ Due(j))

\* A thread gets a job when a tick finds it due, or when its event is published.
LEMMA HasKept ==
  ASSUME SchedulerTypeOK, [SchedulerNext]_schedulerVars
  PROVE  \A x \in Threads, j \in Jobs : TakenUp(x, j)
<1> USE SchedulerAssumption DEF SchedulerTypeOK
<1>1. ASSUME NEW t \in Tickers, Collect(t) PROVE \A x \in Threads, j \in Jobs : TakenUp(x, j)
  <2>1. UNCHANGED <<pc, job>> /\ \A x \in Threads : x # t => due'[x] = due[x]
    BY <1>1 DEF Collect
  <2>2. due'[t] = {j \in registered : Kind[j] # "event" /\ Due(j)}
    BY <1>1 DEF Collect, Threads
  <2> QED
    BY <1>1, <2>1, <2>2 DEF Has, TakenUp, Resting, Collect
<1>2. ASSUME NEW t \in Tickers, Pick(t) PROVE \A x \in Threads, j \in Jobs : TakenUp(x, j)
  <2>1. due' = [due EXCEPT ![t] = due'[t]] /\ due'[t] \subseteq due[t] /\ pc[t] = "idle"
    BY <1>2 DEF Pick, Threads
  <2>2. \/ UNCHANGED <<pc, job>>
        \/ \E j \in due[t] : /\ job' = [job EXCEPT ![t] = [name |-> j, version |-> version[j]]]
                             /\ pc' = [pc EXCEPT ![t] = "enter"]
    BY <1>2 DEF Pick
  <2> QED
    BY <2>1, <2>2 DEF Has, TakenUp, Threads
<1>3. ASSUME NEW t \in Tickers, Mark(t) PROVE \A x \in Threads, j \in Jobs : TakenUp(x, j)
  <2>1. /\ job' = [job EXCEPT ![t] = [name |-> NoJob, version |-> 0]]
        /\ pc' = [pc EXCEPT ![t] = "idle"] /\ UNCHANGED due
    BY <1>3 DEF Mark
  <2> QED
    BY <2>1 DEF Has, TakenUp
<1>4. ASSUME NEW t \in Tickers, ExitTicker(t) PROVE \A x \in Threads, j \in Jobs : TakenUp(x, j)
  BY <1>4 DEF ExitTicker, Has, TakenUp
<1>5. ASSUME NEW t \in Threads, Enter(t) PROVE \A x \in Threads, j \in Jobs : TakenUp(x, j)
  <2>1. UNCHANGED <<due, job>> /\ \A x \in Threads : pc'[x] # "idle" => pc[x] # "idle"
    BY <1>5 DEF Enter, Ended
  <2> QED
    BY <2>1 DEF Has, TakenUp
<1>6. ASSUME NEW t \in Threads, Return(t) PROVE \A x \in Threads, j \in Jobs : TakenUp(x, j)
  <2>1. UNCHANGED <<due, job>> /\ \A x \in Threads : pc'[x] # "idle" => pc[x] # "idle"
    BY <1>6 DEF Return, Outcome, Ended
  <2> QED
    BY <2>1 DEF Has, TakenUp
<1>7. ASSUME NEW u \in Publishers, Publish(u) PROVE \A x \in Threads, j \in Jobs : TakenUp(x, j)
  <2>1. UNCHANGED due /\ \A x \in Threads : x # u => pc'[x] = pc[x] /\ job'[x] = job[x]
    BY <1>7 DEF Publish
  <2>2. \E j \in Jobs : Kind[j] = "event" /\ job'[u].name = j
    BY <1>7 DEF Publish, Threads
  <2> QED
    BY <2>1, <2>2 DEF Has, TakenUp
<1>8. CASE Stop
  BY <1>8 DEF Stop, Has, TakenUp
<1>9. CASE EndJoin
  BY <1>9 DEF EndJoin, Has, TakenUp
<1>10. CASE Start
  BY <1>10 DEF Start, Has, TakenUp
<1>11. CASE Unregister
  BY <1>11 DEF Unregister, Has, TakenUp
<1>12. CASE Register
  BY <1>12 DEF Register, Has, TakenUp
<1>13. CASE Tick
  BY <1>13 DEF Tick, Has, TakenUp
<1>14. CASE UNCHANGED schedulerVars
  BY <1>14 DEF schedulerVars, Has, TakenUp
<1> QED
  BY <1>1, <1>2, <1>3, <1>4, <1>5, <1>6, <1>7, <1>8, <1>9, <1>10, <1>11, <1>12,
     <1>13, <1>14
  DEF SchedulerNext, TickStep, RestartStep, Run, Threads

\* What is found due has its upstream jobs completed.
LEMMA UpstreamGoes ==
  ASSUME SchedulerTypeOK, Upstream, succeeded \subseteq succeeded',
         \A j \in Jobs : status'[j] = "completed" => j \in succeeded' \/ status[j] = "completed",
         \A t \in Threads, j \in Jobs :
           Has(t, j)' => Has(t, j) \/ Kind[j] = "event" \/ (j \in registered /\ Due(j))
  PROVE  Upstream'
<1>1. \A j \in Jobs : Kind[j] = "dependency" /\ Due(j) => Deps[j] \subseteq succeeded
  <2> SUFFICES ASSUME NEW j \in Jobs, Kind[j] = "dependency", Due(j), NEW d \in Deps[j]
               PROVE  d \in succeeded
    OBVIOUS
  <2>1. d \in registered /\ status[d] = "completed"
    BY DEF Due
  <2> QED
    BY <2>1 DEF Upstream, SchedulerTypeOK
<1> QED
  BY <1>1 DEF Upstream

\* No step takes the right to run from a job.
LEMMA UpstreamKept ==
  ASSUME SchedulerTypeOK, Upstream, [SchedulerNext]_schedulerVars
  PROVE  Upstream'
<1> USE SchedulerAssumption
<1>1. ASSUME NEW t \in Tickers, Collect(t) PROVE Upstream'
  <2>1. UNCHANGED <<status, succeeded>>
    BY <1>1 DEF Collect
  <2> QED
    BY <2>1, HasKept, UpstreamGoes DEF TakenUp
<1>2. ASSUME NEW t \in Tickers, Pick(t) PROVE Upstream'
  <2>1. UNCHANGED <<status, succeeded>>
    BY <1>2 DEF Pick
  <2> QED
    BY <2>1, HasKept, UpstreamGoes DEF TakenUp
<1>3. ASSUME NEW t \in Tickers, Mark(t) PROVE Upstream'
  <2>1. UNCHANGED <<status, succeeded>>
    BY <1>3 DEF Mark
  <2> QED
    BY <2>1, HasKept, UpstreamGoes DEF TakenUp
<1>4. ASSUME NEW t \in Tickers, ExitTicker(t) PROVE Upstream'
  <2>1. UNCHANGED <<status, succeeded>>
    BY <1>4 DEF ExitTicker
  <2> QED
    BY <2>1, HasKept, UpstreamGoes DEF TakenUp
<1>5. ASSUME NEW t \in Threads, Enter(t) PROVE Upstream'
  <2>1. UNCHANGED succeeded
        /\ (status' = status \/ status' = [status EXCEPT ![job[t].name] = "running"])
    BY <1>5 DEF Enter
  <2>2. \A j \in Jobs : status'[j] = "completed" => status[j] = "completed"
    BY <2>1 DEF SchedulerTypeOK
  <2> QED
    BY <2>1, <2>2, HasKept, UpstreamGoes DEF TakenUp
<1>6. ASSUME NEW t \in Threads, Return(t) PROVE Upstream'
  <2>1. PICK result \in {"completed", "failed"} : Outcome(t, result)
    BY <1>6 DEF Return
  <2>2. /\ status' = status \/ status' = [status EXCEPT ![job[t].name] = result]
        /\ succeeded' = IF result = "completed" THEN succeeded \cup {job[t].name} ELSE succeeded
    BY <2>1 DEF Outcome
  <2>3. \A j \in Jobs : status'[j] = "completed" => status[j] = "completed" \/ j \in succeeded'
    BY <2>2 DEF SchedulerTypeOK
  <2> QED
    BY <2>2, <2>3, HasKept, UpstreamGoes DEF TakenUp
<1>7. ASSUME NEW u \in Publishers, Publish(u) PROVE Upstream'
  <2>1. UNCHANGED <<status, succeeded>>
    BY <1>7 DEF Publish
  <2> QED
    BY <2>1, HasKept, UpstreamGoes DEF TakenUp
<1>8. CASE Stop
  <2>1. UNCHANGED <<status, succeeded>>
    BY <1>8 DEF Stop
  <2> QED
    BY <2>1, HasKept, UpstreamGoes DEF TakenUp
<1>9. CASE EndJoin
  <2>1. UNCHANGED <<status, succeeded>>
    BY <1>9 DEF EndJoin
  <2> QED
    BY <2>1, HasKept, UpstreamGoes DEF TakenUp
<1>10. CASE Start
  <2>1. UNCHANGED <<status, succeeded>>
    BY <1>10 DEF Start
  <2> QED
    BY <2>1, HasKept, UpstreamGoes DEF TakenUp
<1>11. CASE Unregister
  <2>1. UNCHANGED <<status, succeeded>>
    BY <1>11 DEF Unregister
  <2> QED
    BY <2>1, HasKept, UpstreamGoes DEF TakenUp
<1>12. CASE Register
  <2>1. UNCHANGED succeeded
        /\ (status' = status \/ \E j \in todo : status' = [status EXCEPT ![j] = "pending"])
    BY <1>12 DEF Register
  <2>2. \A j \in Jobs : status'[j] = "completed" => status[j] = "completed"
    BY <2>1 DEF SchedulerTypeOK
  <2> QED
    BY <2>1, <2>2, HasKept, UpstreamGoes DEF TakenUp
<1>13. CASE Tick
  <2>1. UNCHANGED <<status, succeeded>>
    BY <1>13 DEF Tick
  <2> QED
    BY <2>1, HasKept, UpstreamGoes DEF TakenUp
<1>14. CASE UNCHANGED schedulerVars
  <2>1. UNCHANGED <<status, succeeded>>
    BY <1>14 DEF schedulerVars
  <2> QED
    BY <2>1, HasKept, UpstreamGoes DEF TakenUp
<1> QED
  BY <1>1, <1>2, <1>3, <1>4, <1>5, <1>6, <1>7, <1>8, <1>9, <1>10, <1>11, <1>12,
     <1>13, <1>14
  DEF SchedulerNext, TickStep, RestartStep, Run, Threads

\* A dependency job does not start before each job it depends on has completed (_due,
\* run_now), whatever is registered anew and whatever fails meanwhile.
THEOREM DependenciesHeld == SchedulerSpec => []DependencyHeld
<1>1. SchedulerInit => Upstream
  BY DEF SchedulerInit, Upstream, Has
<1>2. SchedulerTypeOK /\ Upstream /\ [SchedulerNext]_schedulerVars => Upstream'
  BY UpstreamKept
<1>3. Upstream => DependencyHeld
  BY DEF Upstream, DependencyHeld, Has, Executing
<1> QED
  BY <1>1, <1>2, <1>3, SchedulerTypeCorrect, PTL DEF SchedulerSpec

------------------------------------------------------------------------------
(***************************************************************************)
(* One ticker at a time, as long as none has outlived the join.            *)
(***************************************************************************)
Alone ==
  /\ \A t \in Tickers \ alive : Resting(t)
  /\ ~ overran => (op = "start" => alive = {}) /\ \A t, u \in alive : t = u
  /\ \A u \in Publishers : due[u] = {} /\ pc[u] # "mark"
  /\ \A u \in Publishers : pc[u] # "idle" => Kind[job[u].name] = "event"
  /\ \A t \in Threads : \A j \in due[t] : Kind[j] # "event"
  /\ \A t \in Tickers : pc[t] # "idle" => job[t].name \notin due[t]

\* A ticker is started when none is left, unless one has outlived the join.
LEMMA AloneKept ==
  ASSUME SchedulerTypeOK, Alone, [SchedulerNext]_schedulerVars
  PROVE  Alone'
<1> USE DEF SchedulerTypeOK, Alone
<1>1. ASSUME NEW t \in Tickers, Collect(t) PROVE Alone'
  <2>1. UNCHANGED <<alive, overran, op, pc, job>> /\ t \in alive /\ pc[t] = "idle"
        /\ \A x \in Threads : x # t => due'[x] = due[x]
    BY <1>1 DEF Collect, Resting
  <2>2. \A j \in due'[t] : Kind[j] # "event"
    BY <1>1 DEF Collect, Threads
  <2> QED
    BY <2>1, <2>2, SchedulerAssumption DEF Resting, Threads
<1>2. ASSUME NEW t \in Tickers, Pick(t) PROVE Alone'
  <2>1. UNCHANGED <<alive, overran, op>> /\ pc[t] = "idle"
    BY <1>2 DEF Pick
  <2>2. PICK j \in due[t] :
          /\ due' = [due EXCEPT ![t] = @ \ {j}]
          /\ \/ UNCHANGED <<job, pc>>
             \/ /\ job' = [job EXCEPT ![t] = [name |-> j, version |-> version[j]]]
                /\ pc' = [pc EXCEPT ![t] = "enter"]
    BY <1>2 DEF Pick
  <2>3. t \in alive /\ t \in Threads /\ t \notin Publishers
    BY <2>2, SchedulerAssumption DEF Resting, Threads
  <2>4. \A x \in Threads : x # t => due'[x] = due[x] /\ pc'[x] = pc[x] /\ job'[x] = job[x]
    BY <2>2
  <2>5. due'[t] = due[t] \ {j} /\ (pc'[t] # "idle" => job'[t].name = j)
    BY <2>1, <2>2, <2>3
  <2> QED
    BY <2>1, <2>3, <2>4, <2>5 DEF Resting, Threads
<1>3. ASSUME NEW t \in Tickers, Mark(t) PROVE Alone'
  <2>1. UNCHANGED <<alive, overran, op, due>> /\ pc' = [pc EXCEPT ![t] = "idle"] /\ pc[t] = "mark"
        /\ \A x \in Threads : x # t => job'[x] = job[x]
    BY <1>3 DEF Mark
  <2> QED
    BY <2>1, SchedulerAssumption DEF Resting, Threads
<1>4. ASSUME NEW t \in Tickers, ExitTicker(t) PROVE Alone'
  <2>1. UNCHANGED <<overran, op, pc, job, due>> /\ Resting(t) /\ alive' = alive \ {t}
    BY <1>4 DEF ExitTicker
  <2> QED
    BY <2>1 DEF Resting
<1>5. ASSUME NEW t \in Threads, Enter(t) PROVE Alone'
  <2>1. UNCHANGED <<alive, overran, op, due, job>> /\ pc[t] = "enter"
        /\ (pc' = [pc EXCEPT ![t] = Ended(t)] \/ pc' = [pc EXCEPT ![t] = "handle"])
    BY <1>5 DEF Enter
  <2>2. \A x \in Threads : x # t => pc'[x] = pc[x]
    BY <2>1
  <2>3. t \in Publishers => pc'[t] # "mark"
    BY <2>1, SchedulerAssumption DEF Ended
  <2> QED
    BY <2>1, <2>2, <2>3 DEF Resting, Threads
<1>6. ASSUME NEW t \in Threads, Return(t) PROVE Alone'
  <2>1. UNCHANGED <<alive, overran, op, due, job>> /\ pc[t] = "handle"
        /\ pc' = [pc EXCEPT ![t] = Ended(t)]
    BY <1>6 DEF Return, Outcome
  <2>2. \A x \in Threads : x # t => pc'[x] = pc[x]
    BY <2>1
  <2>3. t \in Publishers => pc'[t] # "mark"
    BY <2>1, SchedulerAssumption DEF Ended
  <2> QED
    BY <2>1, <2>2, <2>3 DEF Resting, Threads
<1>7. ASSUME NEW u \in Publishers, Publish(u) PROVE Alone'
  <2>1. UNCHANGED <<alive, overran, op, due>> /\ pc' = [pc EXCEPT ![u] = "enter"]
        /\ \A x \in Threads : x # u => job'[x] = job[x]
    BY <1>7 DEF Publish
  <2>2. Kind[job'[u].name] = "event"
    BY <1>7 DEF Publish, Threads
  <2> QED
    BY <2>1, <2>2, SchedulerAssumption DEF Resting, Threads
<1>8. CASE Stop
  BY <1>8 DEF Stop, Resting
<1>9. CASE EndJoin
  BY <1>9 DEF EndJoin, Resting
<1>10. CASE Start
  <2>1. UNCHANGED <<overran, due, pc, job>> /\ op = "start" /\ op' = "unregister"
        /\ \E t \in Tickers \ alive : alive' = alive \cup {t}
    BY <1>10 DEF Start
  <2> QED
    BY <2>1 DEF Resting
<1>11. CASE Unregister
  BY <1>11 DEF Unregister, Resting
<1>12. CASE Register
  BY <1>12 DEF Register, Resting
<1>13. CASE Tick
  BY <1>13 DEF Tick, Resting
<1>14. CASE UNCHANGED schedulerVars
  BY <1>14 DEF schedulerVars, Resting
<1> QED
  BY <1>1, <1>2, <1>3, <1>4, <1>5, <1>6, <1>7, <1>8, <1>9, <1>10, <1>11, <1>12,
     <1>13, <1>14
  DEF SchedulerNext, TickStep, RestartStep, Run, Threads

LEMMA AloneInvariant == SchedulerSpec => []Alone
<1>1. SchedulerInit => Alone
  <2> SUFFICES ASSUME SchedulerInit PROVE Alone
    OBVIOUS
  <2>1. \A t \in Threads : pc[t] = "idle" /\ due[t] = {}
    BY DEF SchedulerInit
  <2>2. alive = {CHOOSE t \in Tickers : TRUE} /\ op = "register"
    BY DEF SchedulerInit
  <2> QED
    BY <2>1, <2>2 DEF Alone, Resting, Threads
<1>2. SchedulerTypeOK /\ Alone /\ [SchedulerNext]_schedulerVars => Alone'
  BY AloneKept
<1> QED
  BY <1>1, <1>2, SchedulerTypeCorrect, PTL DEF SchedulerSpec

------------------------------------------------------------------------------
(***************************************************************************)
(* Dates that were missed.                                                 *)
(***************************************************************************)
Timed(j) == Kind[j] \in {"one_time", "recurring", "cron"}

\* A ticker is about to move the next date of j on.
Marking(j) == \E t \in Tickers : pc[t] = "mark" /\ job[t].name = j

\* A job that a ticker has taken up is due, and the dates up to the next one, without
\* that of a run which has not been moved on yet, are at least the runs.
Paced(j) ==
  /\ since[j] <= now
  /\ (\E t \in Tickers : Has(t, j)) => nextRun[j] # Never /\ nextRun[j] <= now
  /\ Kind[j] = "one_time" =>
       runs[j] <= 1 /\ (nextRun[j] # Never /\ ~ Marking(j) => runs[j] = 0)
  /\ Kind[j] # "one_time" =>
       /\ since[j] <= nextRun[j]
       /\ DatesUntil(j, nextRun[j]) <= DatesUntil(j, now) + 1
       /\ runs[j] <= DatesUntil(j, nextRun[j]) + (IF Marking(j) THEN 1 ELSE 0)

Pace == ~ overran => \A j \in registered : Timed(j) => Paced(j)

\* Dates are counted from the registration and do not get fewer.
LEMMA DatesCount ==
  ASSUME SchedulerTypeOK, NEW j \in Jobs, NEW x \in Nat, NEW y \in Nat, since[j] <= x, x <= y
  PROVE  /\ DatesUntil(j, x) \in Int /\ DatesUntil(j, x) >= 0
         /\ DatesUntil(j, x) <= DatesUntil(j, y)
<1> DEFINE i == Interval[j]
           s == since[j]
<1>1. i \in Nat \ {0} /\ s \in Nat /\ x - s \in Nat /\ y - s \in Nat
  BY SchedulerAssumption DEF SchedulerTypeOK
<1>2. DatesUntil(j, x) = (CASE Kind[j] = "recurring" -> (x - s) \div i
                            [] Kind[j] = "cron" -> x \div i - s \div i
                            [] OTHER -> 0)
      /\ DatesUntil(j, y) = (CASE Kind[j] = "recurring" -> (y - s) \div i
                               [] Kind[j] = "cron" -> y \div i - s \div i
                               [] OTHER -> 0)
  BY DEF DatesUntil
<1> HIDE DEF i, s
<1>3. /\ (x - s) \div i \in Nat /\ (y - s) \div i \in Nat /\ (x - s) \div i <= (y - s) \div i
      /\ x \div i \in Nat /\ y \div i \in Nat /\ s \div i \in Nat
  BY <1>1, DivIsNat, DivGrows
<1>4. s \div i <= x \div i /\ x \div i <= y \div i
  BY <1>1, DivGrows, s <= x DEF s
<1> QED
  BY <1>2, <1>3, <1>4

\* The next date is the first after now.
LEMMA NextDate ==
  ASSUME SchedulerTypeOK, NEW j \in Jobs, Kind[j] \in {"recurring", "cron"},
         nextRun[j] # Never, since[j] <= nextRun[j], nextRun[j] <= now
  PROVE  /\ since[j] <= NextRun(j) /\ NextRun(j) # Never
         /\ DatesUntil(j, nextRun[j]) + 1 <= DatesUntil(j, NextRun(j))
         /\ DatesUntil(j, NextRun(j)) <= DatesUntil(j, now) + 1
<1> DEFINE i == Interval[j]
           s == since[j]
           n == nextRun[j]
<1>1. i \in Nat \ {0} /\ s \in Nat /\ n \in Nat /\ now \in Nat /\ s <= n /\ n <= now
  BY SchedulerAssumption DEF SchedulerTypeOK
<1>2. CASE Kind[j] = "recurring"
  <2> DEFINE k == (now - n) \div i
  <2>1. NextRun(j) = n + (k + 1) * i
    BY <1>1, <1>2 DEF NextRun
  <2>2. /\ DatesUntil(j, n) = (n - s) \div i /\ DatesUntil(j, now) = (now - s) \div i
        /\ DatesUntil(j, NextRun(j)) = (NextRun(j) - s) \div i
    BY <1>2 DEF DatesUntil
  <2> HIDE DEF s, n, i
  <2>3. k \in Nat /\ k * i <= now - n
    BY <1>1, DivIsNat
  <2> HIDE DEF k
  <2>4. (k + 1) * i = k * i + i /\ k * i \in Nat
    BY <1>1, <2>3
  <2>5. n + i <= NextRun(j) /\ NextRun(j) <= now + i /\ NextRun(j) \in Nat
    BY <1>1, <2>1, <2>3, <2>4
  <2> DEFINE a == n - s
             b == now - s
             c == NextRun(j) - s
  <2>6. a \in Nat /\ b \in Nat /\ c \in Nat /\ a + i <= c /\ c <= b + i
    BY <1>1, <2>5
  <2>7. /\ DatesUntil(j, n) = a \div i /\ DatesUntil(j, now) = b \div i
        /\ DatesUntil(j, NextRun(j)) = c \div i
    BY <2>2
  <2> HIDE DEF a, b, c
  <2>8. (a + i) \div i = a \div i + 1 /\ (b + i) \div i = b \div i + 1
    BY <1>1, <2>6, DivOfNext
  <2>9. a + i \in Nat /\ b + i \in Nat
    BY <1>1, <2>6
  <2>10. (a + i) \div i <= c \div i /\ c \div i <= (b + i) \div i
    BY <1>1, <2>6, <2>9, DivGrows
  <2>11. a \div i \in Nat /\ b \div i \in Nat /\ c \div i \in Nat
    BY <1>1, <2>6, DivIsNat
  <2>12. DatesUntil(j, n) + 1 <= DatesUntil(j, NextRun(j))
    BY <2>7, <2>8, <2>10, <2>11
  <2>13. DatesUntil(j, NextRun(j)) <= DatesUntil(j, now) + 1
    BY <2>7, <2>8, <2>10, <2>11
  <2>14. s <= NextRun(j) /\ NextRun(j) # Never
    BY <1>1, <2>5 DEF Never
  <2> QED
    BY <2>12, <2>13, <2>14 DEF n, s
<1>3. CASE Kind[j] = "cron"
  <2> DEFINE k == now \div i
  <2>1. NextRun(j) = (k + 1) * i
    BY <1>3 DEF NextRun
  <2>2. /\ DatesUntil(j, n) = n \div i - s \div i /\ DatesUntil(j, now) = k - s \div i
        /\ DatesUntil(j, NextRun(j)) = NextRun(j) \div i - s \div i
    BY <1>3 DEF DatesUntil
  <2> HIDE DEF s, n, i
  <2>3. k \in Nat /\ now < k * i + i /\ n \div i \in Nat /\ s \div i \in Nat /\ n \div i <= k
    BY <1>1, DivIsNat, DivGrows
  <2> HIDE DEF k
  <2>4. (k + 1) * i = k * i + i /\ (k + 1) * i \in Nat
    BY <1>1, <2>3
  <2>5. NextRun(j) \div i = k + 1
    BY <1>1, <2>1, <2>3, DivOfProduct
  <2> QED
    BY <1>1, <2>1, <2>2, <2>3, <2>4, <2>5 DEF n, s, Never
<1> QED
  BY <1>2, <1>3

\* Only the dates between two registrations count.
LEMMA DatesUntilAfter ==
  ASSUME NEW j, since'[j] = since[j]
  PROVE  /\ DatesUntil(j, now)' = DatesUntil(j, now')
         /\ DatesUntil(j, nextRun[j])' = DatesUntil(j, nextRun'[j])
  BY DEF DatesUntil

\* A step that does not change the dates of a job and neither runs nor marks it.
LEMMA PacedStays ==
  ASSUME SchedulerTypeOK, SchedulerTypeOK', NEW j \in Jobs, Timed(j), Paced(j),
         since'[j] = since[j], nextRun'[j] = nextRun[j], runs'[j] = runs[j], now <= now',
         \A t \in Tickers : Has(t, j)' => Has(t, j) \/ (nextRun[j] # Never /\ nextRun[j] <= now),
         Marking(j) => Marking(j)'
  PROVE  Paced(j)'
<1>1. /\ now \in Nat /\ now' \in Nat /\ since[j] \in Nat /\ runs[j] \in Nat
      /\ nextRun[j] \in Nat \cup {Never} /\ since[j] <= now
  BY DEF SchedulerTypeOK, Paced
<1>2. (\E t \in Tickers : Has(t, j)') => nextRun'[j] # Never /\ nextRun'[j] <= now'
  BY <1>1 DEF Paced, Never
<1>3. CASE Kind[j] = "one_time"
  BY <1>1, <1>2, <1>3 DEF Paced
<1>4. CASE Kind[j] # "one_time"
  <2>1. since[j] <= nextRun[j] /\ nextRun[j] \in Nat
    BY <1>1, <1>4 DEF Paced, Never
  <2>2. /\ DatesUntil(j, now) <= DatesUntil(j, now') /\ DatesUntil(j, now) \in Int
        /\ DatesUntil(j, now') \in Int /\ DatesUntil(j, nextRun[j]) \in Int
    BY <1>1, <2>1, DatesCount
  <2>3. DatesUntil(j, nextRun[j]) <= DatesUntil(j, now') + 1
    BY <1>4, <2>2 DEF Paced
  <2>4. runs[j] <= DatesUntil(j, nextRun[j]) + (IF Marking(j)' THEN 1 ELSE 0)
    BY <1>1, <1>4, <2>2 DEF Paced
  <2> QED
    BY <1>1, <1>2, <1>4, <2>1, <2>3, <2>4, DatesUntilAfter DEF Paced
<1> QED
  BY <1>3, <1>4

\* A ticker that has taken a timed job up is the only one.
LEMMA OnlyOne ==
  ASSUME SchedulerTypeOK, Alone, ~ overran, NEW t \in Threads, NEW j \in Jobs, Timed(j), Has(t, j)
  PROVE  t \in Tickers /\ \A u \in Tickers : ~ Resting(u) => u = t
<1>1. t \in Tickers
  BY DEF Alone, Timed, Has, Threads
<1> QED
  BY <1>1 DEF Alone, Has, Resting

\* A ticker that has outlived the join is not forgotten.
LEMMA OverranStays ==
  ASSUME SchedulerTypeOK, overran, [SchedulerNext]_schedulerVars
  PROVE  overran'
<1>1. ASSUME NEW t \in Tickers, Collect(t) PROVE overran'
  BY <1>1 DEF Collect
<1>2. ASSUME NEW t \in Tickers, Pick(t) PROVE overran'
  BY <1>2 DEF Pick
<1>3. ASSUME NEW t \in Tickers, Mark(t) PROVE overran'
  BY <1>3 DEF Mark
<1>4. ASSUME NEW t \in Tickers, ExitTicker(t) PROVE overran'
  BY <1>4 DEF ExitTicker
<1>5. ASSUME NEW t \in Threads, Enter(t) PROVE overran'
  BY <1>5 DEF Enter
<1>6. ASSUME NEW t \in Threads, Return(t) PROVE overran'
  BY <1>6 DEF Return, Outcome
<1>7. ASSUME NEW u \in Publishers, Publish(u) PROVE overran'
  BY <1>7 DEF Publish
<1>8. CASE Stop
  BY <1>8 DEF Stop
<1>9. CASE EndJoin
  BY <1>9 DEF EndJoin
<1>10. CASE Start
  BY <1>10 DEF Start
<1>11. CASE Unregister
  BY <1>11 DEF Unregister
<1>12. CASE Register
  BY <1>12 DEF Register
<1>13. CASE Tick
  BY <1>13 DEF Tick
<1>14. CASE UNCHANGED schedulerVars
  BY <1>14 DEF schedulerVars
<1> QED
  BY <1>1, <1>2, <1>3, <1>4, <1>5, <1>6, <1>7, <1>8, <1>9, <1>10, <1>11, <1>12,
     <1>13, <1>14
  DEF SchedulerNext, TickStep, RestartStep, Run, Threads

\* The same for a step in which no ticker takes the job up unless it is due.
LEMMA PacedGoes ==
  ASSUME SchedulerTypeOK, [SchedulerNext]_schedulerVars, Pace, ~ overran',
         NEW j \in registered, Timed(j),
         since'[j] = since[j], nextRun'[j] = nextRun[j], runs'[j] = runs[j], now <= now',
         Marking(j) => Marking(j)'
  PROVE  Paced(j)'
<1>1. j \in Jobs /\ Paced(j) /\ SchedulerTypeOK'
  BY OverranStays, TypesKept DEF Pace, SchedulerTypeOK
<1>2. Due(j) => nextRun[j] # Never /\ nextRun[j] <= now
  BY DEF Due, Timed
<1>3. \A t \in Tickers : Has(t, j)' => Has(t, j) \/ (nextRun[j] # Never /\ nextRun[j] <= now)
  BY <1>1, <1>2, HasKept DEF TakenUp, Timed, Threads
<1> QED
  BY <1>1, <1>3, PacedStays

\* Each run of a timed job uses up a date.
LEMMA PaceKept ==
  ASSUME SchedulerTypeOK, Alone, Pace, [SchedulerNext]_schedulerVars
  PROVE  Pace'
<1> SUFFICES ASSUME ~ overran', NEW j \in registered', Timed(j) PROVE Paced(j)'
  BY DEF Pace
<1>1. ~ overran /\ SchedulerTypeOK /\ SchedulerTypeOK' /\ Alone /\ Pace /\ j \in Jobs
  BY OverranStays, TypesKept DEF SchedulerTypeOK
<1>0. now <= now
  BY DEF SchedulerTypeOK
<1>2. ASSUME NEW t \in Tickers, Collect(t) PROVE Paced(j)'
  <2>1. UNCHANGED <<since, nextRun, runs, now, registered>>
    BY <1>2 DEF Collect
  <2>2. Marking(j) => Marking(j)'
    BY <1>2 DEF Collect, Marking
  <2> QED
    BY <2>1, <2>2, <1>0, <1>1, PacedGoes
<1>3. ASSUME NEW t \in Tickers, Pick(t) PROVE Paced(j)'
  <2>1. UNCHANGED <<since, nextRun, runs, now, registered>>
        /\ pc[t] = "idle" /\ t \in Threads
    BY <1>3 DEF Pick, Threads
  <2>2. \A x \in Threads : x # t => pc'[x] = pc[x] /\ job'[x] = job[x]
    BY <1>3 DEF Pick, SchedulerTypeOK
  <2>3. Marking(j) => Marking(j)'
    BY <2>1, <2>2 DEF Marking, Threads
  <2> QED
    BY <2>1, <2>3, <1>0, <1>1, PacedGoes
<1>4. ASSUME NEW t \in Tickers, Mark(t) PROVE Paced(j)'
  <2> DEFINE n == job[t].name
  <2>1. since' = since /\ runs' = runs /\ now' = now /\ registered' = registered /\ due' = due
        /\ pc[t] = "mark" /\ nextRun' = [nextRun EXCEPT ![n] = NextRun(n)]
        /\ pc' = [pc EXCEPT ![t] = "idle"] /\ t \in Threads /\ n \in Jobs
    BY <1>4 DEF Mark, SchedulerTypeOK, Threads
  <2>2. \A x \in Threads : x # t => pc'[x] = pc[x] /\ job'[x] = job[x]
    BY <1>4 DEF Mark, SchedulerTypeOK
  <2>3. CASE n # j
    <3>1. Marking(j) => Marking(j)'
      BY <2>2, <2>3 DEF Marking, Threads
    <3>2. nextRun'[j] = nextRun[j]
      BY <2>1, <2>3 DEF SchedulerTypeOK
    <3> QED
      BY <2>1, <3>1, <3>2, <1>0, <1>1, PacedGoes
  <2>4. CASE n = j
    <3>1. Has(t, j)
      BY <2>1, <2>4 DEF Has
    <3>2. t \in Tickers /\ \A x \in Tickers : ~ Resting(x) => x = t
      BY <1>1, <2>1, <3>1, OnlyOne
    <3>3. Paced(j) /\ nextRun[j] # Never /\ nextRun[j] <= now /\ Marking(j)
      BY <1>1, <2>1, <2>4, <3>1, <3>2 DEF Pace, Paced, Marking
    <3>4. \A x \in Tickers : ~ Has(x, j)' /\ (pc'[x] = "mark" => FALSE)
      <4> SUFFICES ASSUME NEW x \in Tickers PROVE ~ Has(x, j)' /\ pc'[x] # "mark"
        OBVIOUS
      <4>1. CASE x = t
        BY <1>1, <2>1, <2>4, <4>1 DEF Has, Alone, SchedulerTypeOK
      <4>2. CASE x # t
        <5>1. Resting(x) /\ pc'[x] = pc[x] /\ due'[x] = due[x]
          BY <2>1, <2>2, <3>2, <4>2 DEF Threads
        <5> QED
          BY <5>1 DEF Has, Resting
      <4> QED
        BY <4>1, <4>2
    <3>5. ~ Marking(j)'
      BY <3>4 DEF Marking
    <3>6. nextRun'[j] = NextRun(j)
      BY <2>1, <2>4 DEF SchedulerTypeOK
    <3>7. CASE Kind[j] = "one_time"
      <4>1. NextRun(j) = Never
        BY <3>7 DEF NextRun
      <4> QED
        BY <2>1, <3>3, <3>4, <3>6, <3>7, <4>1 DEF Paced
    <3>8. CASE Kind[j] # "one_time"
      <4>1. Kind[j] \in {"recurring", "cron"} /\ since[j] <= nextRun[j]
        BY <3>3, <3>8 DEF Paced, Timed
      <4>2. /\ since[j] <= NextRun(j) /\ NextRun(j) # Never
            /\ DatesUntil(j, nextRun[j]) + 1 <= DatesUntil(j, NextRun(j))
            /\ DatesUntil(j, NextRun(j)) <= DatesUntil(j, now) + 1
        BY <1>1, <3>3, <4>1, NextDate
      <4>3. /\ NextRun(j) \in Nat /\ nextRun[j] \in Nat /\ now \in Nat
            /\ since[j] \in Nat /\ runs[j] \in Nat
        BY <1>1, <3>3, <4>2, NextRunType DEF SchedulerTypeOK
      <4>4. DatesUntil(j, nextRun[j]) \in Int /\ DatesUntil(j, NextRun(j)) \in Int
        BY <1>1, <3>3, <4>1, <4>2, <4>3, DatesCount DEF Paced
      <4>5. runs[j] <= DatesUntil(j, NextRun(j))
        BY <3>3, <3>8, <4>2, <4>3, <4>4 DEF Paced
      <4>6. /\ DatesUntil(j, now)' = DatesUntil(j, now)
            /\ DatesUntil(j, nextRun[j])' = DatesUntil(j, NextRun(j))
        BY <2>1, <3>6, DatesUntilAfter
      <4> QED
        BY <2>1, <3>3, <3>4, <3>5, <3>6, <3>8, <4>2, <4>3, <4>4, <4>5, <4>6 DEF Paced
    <3> QED
      BY <3>7, <3>8
  <2> QED
    BY <2>3, <2>4
<1>5. ASSUME NEW t \in Tickers, ExitTicker(t) PROVE Paced(j)'
  <2>1. UNCHANGED <<since, nextRun, runs, now, registered>>
    BY <1>5 DEF ExitTicker
  <2>2. Marking(j) => Marking(j)'
    BY <1>5 DEF ExitTicker, Marking
  <2> QED
    BY <2>1, <2>2, <1>0, <1>1, PacedGoes
<1>6. ASSUME NEW t \in Threads, Enter(t) PROVE Paced(j)'
  <2>1. UNCHANGED <<since, nextRun, runs, now, registered>>
        /\ job' = job /\ pc[t] = "enter"
    BY <1>6 DEF Enter
  <2>2. \A x \in Threads : x # t => pc'[x] = pc[x]
    BY <1>6 DEF Enter, SchedulerTypeOK
  <2>3. Marking(j) => Marking(j)'
    BY <2>1, <2>2 DEF Marking, Threads
  <2> QED
    BY <2>1, <2>3, <1>0, <1>1, PacedGoes
<1>7. ASSUME NEW t \in Threads, Return(t) PROVE Paced(j)'
  <2> DEFINE n == job[t].name
  <2>1. since' = since /\ nextRun' = nextRun /\ now' = now /\ registered' = registered /\ job' = job
        /\ due' = due /\ pc[t] = "handle" /\ pc' = [pc EXCEPT ![t] = Ended(t)] /\ n \in Jobs
        /\ (runs' = runs \/ runs' = [runs EXCEPT ![n] = @ + 1])
    BY <1>7 DEF Return, Outcome, SchedulerTypeOK
  <2>2. \A x \in Threads : x # t => pc'[x] = pc[x]
    BY <2>1
  <2>3. Marking(j) => Marking(j)'
    BY <2>1, <2>2 DEF Marking, Threads
  <2>4. CASE runs'[j] = runs[j]
    BY <2>1, <2>3, <2>4, <1>0, <1>1, PacedGoes
  <2>5. CASE runs'[j] # runs[j]
    <3>1. n = j /\ runs'[j] = runs[j] + 1
      BY <2>1, <2>5 DEF SchedulerTypeOK
    <3>2. Has(t, j)
      BY <2>1, <3>1 DEF Has
    <3>3. t \in Tickers /\ \A x \in Tickers : ~ Resting(x) => x = t
      BY <1>1, <3>2, OnlyOne
    <3>4. ~ Marking(j)
      BY <2>1, <3>3 DEF Marking, Resting
    <3>5. Marking(j)'
      BY <2>1, <3>1, <3>3 DEF Marking, Ended, SchedulerTypeOK
    <3>6. Paced(j) /\ nextRun[j] # Never /\ nextRun[j] <= now
      BY <1>1, <2>1, <3>2, <3>3 DEF Pace, Paced
    <3>7. /\ DatesUntil(j, now)' = DatesUntil(j, now)
          /\ DatesUntil(j, nextRun[j])' = DatesUntil(j, nextRun[j])
      BY <2>1, DatesUntilAfter
    <3>8. nextRun[j] \in Nat /\ now \in Nat /\ since[j] \in Nat
      BY <1>1, <3>6 DEF SchedulerTypeOK
    <3>9. Kind[j] # "one_time" => DatesUntil(j, nextRun[j]) \in Int /\ runs[j] \in Nat
      BY <1>1, <3>6, <3>8, DatesCount DEF Paced, SchedulerTypeOK
    <3> QED
      BY <2>1, <3>1, <3>4, <3>5, <3>6, <3>7, <3>9 DEF Paced
  <2> QED
    BY <2>4, <2>5
<1>8. ASSUME NEW u \in Publishers, Publish(u) PROVE Paced(j)'
  <2>1. UNCHANGED <<since, nextRun, runs, now, registered>>
    BY <1>8 DEF Publish
  <2>2. \A t \in Tickers : t \in Threads /\ t # u
    BY SchedulerAssumption DEF Threads
  <2>3. \A t \in Tickers : pc'[t] = pc[t] /\ job'[t] = job[t]
    BY <1>8, <2>2 DEF Publish, SchedulerTypeOK
  <2>4. Marking(j) => Marking(j)'
    BY <2>3 DEF Marking
  <2> QED
    BY <2>1, <2>4, <1>0, <1>1, PacedGoes
<1>9. CASE Stop
  <2>1. UNCHANGED <<since, nextRun, runs, now, registered>>
    BY <1>9 DEF Stop
  <2>2. Marking(j) => Marking(j)'
    BY <1>9 DEF Stop, Marking
  <2> QED
    BY <2>1, <2>2, <1>0, <1>1, PacedGoes
<1>10. CASE EndJoin
  <2>1. UNCHANGED <<since, nextRun, runs, now, registered>>
    BY <1>10 DEF EndJoin
  <2>2. Marking(j) => Marking(j)'
    BY <1>10 DEF EndJoin, Marking
  <2> QED
    BY <2>1, <2>2, <1>0, <1>1, PacedGoes
<1>11. CASE Start
  <2>1. UNCHANGED <<since, nextRun, runs, now, registered>>
    BY <1>11 DEF Start
  <2>2. Marking(j) => Marking(j)'
    BY <1>11 DEF Start, Marking
  <2> QED
    BY <2>1, <2>2, <1>0, <1>1, PacedGoes
<1>12. CASE Unregister
  <2>1. since' = since /\ runs' = runs /\ now' = now /\ pc' = pc /\ job' = job
    BY <1>12 DEF Unregister
  <2>2. j \in registered /\ nextRun'[j] = nextRun[j]
    BY <1>12 DEF Unregister, SchedulerTypeOK
  <2>3. Marking(j) => Marking(j)'
    BY <2>1 DEF Marking
  <2> QED
    BY <2>1, <2>2, <2>3, <1>0, <1>1, PacedGoes
<1>13. CASE Register
  <2>1. now' = now /\ pc' = pc /\ job' = job /\ due' = due
    BY <1>13 DEF Register
  <2>2. Marking(j) => Marking(j)'
    BY <2>1 DEF Marking
  <2>3. CASE j \in registered /\ UNCHANGED <<since[j], nextRun[j], runs[j]>>
    BY <2>1, <2>2, <2>3, <1>0, <1>1, PacedGoes
  <2>4. CASE since'[j] = now /\ nextRun'[j] = now /\ runs'[j] = 0
    <3>1. now \in Nat /\ Interval[j] \in Nat \ {0} /\ Kind[j] # "event"
      BY <1>1, SchedulerAssumption DEF SchedulerTypeOK, Timed
    <3>2. now \div Interval[j] \in Nat /\ 0 \div Interval[j] = 0 /\ now - now = 0
      BY <3>1, DivIsNat, DivOfProduct
    <3>3. DatesUntil(j, now)' = 0 /\ DatesUntil(j, nextRun[j])' = 0
      BY <2>1, <2>4, <3>1, <3>2 DEF DatesUntil
    <3> QED
      BY <2>1, <2>4, <3>1, <3>3 DEF Paced, Never
  <2>5. \/ j \in registered /\ UNCHANGED <<since[j], nextRun[j], runs[j]>>
        \/ since'[j] = now /\ nextRun'[j] = now /\ runs'[j] = 0
    BY <1>13 DEF Register, SchedulerTypeOK, Timed
  <2> QED
    BY <2>3, <2>4, <2>5
<1>14. CASE Tick
  <2>1. since' = since /\ nextRun' = nextRun /\ runs' = runs /\ now' = now + 1
        /\ registered' = registered /\ pc' = pc /\ job' = job /\ now <= now'
    BY <1>14 DEF Tick, SchedulerTypeOK
  <2>2. Marking(j) => Marking(j)'
    BY <2>1 DEF Marking
  <2> QED
    BY <2>1, <2>2, <1>1, PacedGoes
<1>15. CASE UNCHANGED schedulerVars
  <2>1. UNCHANGED <<since, nextRun, runs, now, registered>>
    BY <1>15 DEF schedulerVars
  <2>2. Marking(j) => Marking(j)'
    BY <1>15 DEF schedulerVars, Marking
  <2> QED
    BY <2>1, <2>2, <1>0, <1>1, PacedGoes
<1> QED
  BY <1>2, <1>3, <1>4, <1>5, <1>6, <1>7, <1>8, <1>9, <1>10, <1>11, <1>12, <1>13,
     <1>14, <1>15
  DEF SchedulerNext, TickStep, RestartStep, Run, Threads

\* A job that overslept runs once and not once for each date it missed, and a one-time job
\* runs once, as long as no ticker has outlived the join of a restart (tick, _mark_run).
THEOREM OncePerDateHeld == SchedulerSpec => []OncePerDate
<1>1. SchedulerInit => Pace
  BY DEF SchedulerInit, Pace
<1>2. (SchedulerTypeOK /\ Alone) /\ Pace /\ [SchedulerNext]_schedulerVars => Pace'
  BY PaceKept
<1>3. SchedulerTypeOK /\ Pace => OncePerDate
  <2> SUFFICES ASSUME SchedulerTypeOK, Pace, NEW j \in registered, Timed(j), ~ overran
               PROVE  runs[j] <= DatesUntil(j, now) + 1
    BY DEF OncePerDate, Timed
  <2>1. Paced(j) /\ j \in Jobs /\ runs[j] \in Nat /\ now \in Nat /\ since[j] \in Nat
    BY DEF Pace, SchedulerTypeOK
  <2>2. CASE Kind[j] = "one_time"
    BY <2>1, <2>2 DEF Paced, DatesUntil
  <2>3. CASE Kind[j] # "one_time"
    <3>1. since[j] <= nextRun[j] /\ nextRun[j] \in Nat
      BY <2>1, <2>3 DEF Paced, SchedulerTypeOK, Never
    <3>2. DatesUntil(j, nextRun[j]) \in Int /\ DatesUntil(j, now) \in Int
      BY <2>1, <3>1, DatesCount DEF Paced
    <3>3. Marking(j) => nextRun[j] <= now
      BY <2>1 DEF Paced, Marking, Has
    <3>4. Marking(j) => DatesUntil(j, nextRun[j]) <= DatesUntil(j, now)
      BY <2>1, <3>1, <3>3, DatesCount
    <3> QED
      BY <2>1, <2>3, <3>2, <3>4 DEF Paced
  <2> QED
    BY <2>2, <2>3
<1> QED
  BY <1>1, <1>2, <1>3, SchedulerTypeCorrect, AloneInvariant, PTL DEF SchedulerSpec

==============================================================================
