---------------------------- MODULE JobScheduler ----------------------------
(***************************************************************************)
(* The job scheduler of the runtime.  A ticker thread collects the jobs    *)
(* that are due under the lock and runs them one by one without it; event  *)
(* jobs run in the thread that publishes the event.  A restart of the      *)
(* runtime stops the ticker, waiting a bounded time for it, starts another *)
(* and registers the configured jobs anew, while a job may still run.      *)
(***************************************************************************)
EXTENDS Integers, FiniteSets

CONSTANTS
  Jobs,         \* names of jobs
  Kind,         \* "one_time", "recurring", "cron", "dependency" or "event"
  Interval,     \* of the recurring and cron jobs
  Deps,         \* depends_on of the dependency jobs
  MaxRuns,      \* max_runs of each job, 0 for no limit
  Configured,   \* the jobs of scheduler.yaml, which a restart registers anew
  Tickers,      \* worker threads, one for each start
  Publishers,   \* threads that publish events
  NoJob,        \* a thread has no job
  MaxTime,      \* bound: points of time
  MaxRestarts,  \* bound: restarts of the worker
  MaxEvents     \* bound: events published

Never == -1     \* no next run is scheduled
Threads == Tickers \cup Publishers
Kinds == {"one_time", "recurring", "cron", "dependency", "event"}

ASSUME SchedulerAssumption ==
  /\ Kind \in [Jobs -> Kinds] /\ Deps \in [Jobs -> SUBSET Jobs]
  /\ Interval \in [Jobs -> Nat \ {0}] /\ MaxRuns \in [Jobs -> Nat]
  /\ Configured \subseteq Jobs /\ NoJob \notin Jobs
  /\ Tickers \cap Publishers = {} /\ Tickers # {}
  /\ MaxTime \in Nat /\ MaxRestarts \in Nat /\ MaxEvents \in Nat

VARIABLES
  now,         \* the time
  registered,  \* the keys of _jobs
  version,     \* per name, how often it was registered: which object it is
  status, runs,  \* of the registered objects
  nextRun,     \* _next_run
  running,     \* _running, the names marked as running
  stopEvent,   \* _stop_event
  alive,       \* the tickers that live
  pc, job, due,  \* per thread: where it is, the object it runs, the names it has still to run
  op, todo,    \* the restarting thread: where it is, the jobs it has still to deal with
  since,       \* auxiliary: when each name was registered
  succeeded,   \* auxiliary: jobs that have completed at some time
  overran,     \* auxiliary: a ticker has outlived the join of a restart
  swapped,     \* auxiliary: jobs that were registered anew while they ran
  events       \* events published so far (bound)

jobVars == <<registered, version, status, runs, nextRun, running>>
threadVars == <<pc, job, due>>
workerVars == <<stopEvent, alive>>
opVars == <<op, todo>>
auxVars == <<since, succeeded, overran, swapped, events>>
schedulerVars == <<now, jobVars, threadVars, workerVars, opVars, auxVars>>

LockFree == op # "join"     \* stop() joins the ticker under the lock
Executing(t, j) == pc[t] = "handle" /\ job[t].name = j
Ended(t) == IF t \in Tickers THEN "mark" ELSE "idle"
Current(t) == job[t].version = version[job[t].name] /\ job[t].name \in registered

------------------------------------------------------------------------------
(***************************************************************************)
(* Which jobs are due, and when they are due again.                        *)
(***************************************************************************)
UnderLimit(j) == MaxRuns[j] = 0 \/ runs[j] < MaxRuns[j]

DueAfterUpstream(j) ==  \* faulty: an upstream job that failed is as good as one that completed
  /\ UnderLimit(j)
  /\ IF Kind[j] = "dependency"
       THEN \A d \in Deps[j] : d \in registered /\ status[d] \in {"completed", "failed"}
       ELSE nextRun[j] # Never /\ nextRun[j] <= now

Due(j) ==
  /\ UnderLimit(j)
  /\ IF Kind[j] = "dependency"
       THEN \A d \in Deps[j] : d \in registered /\ status[d] = "completed"
       ELSE nextRun[j] # Never /\ nextRun[j] <= now

NextFrom(j) ==  \* faulty: to the first date that is not before now
  LET from == IF nextRun[j] = Never THEN now ELSE nextRun[j] IN
  IF Kind[j] \in {"recurring", "cron"}
    THEN IF from >= now THEN from ELSE from + ((now - from) \div Interval[j]) * Interval[j]
    ELSE Never

\* From the last date in steps of the interval, to the first date after now.
NextRun(j) ==
  LET from == IF nextRun[j] = Never THEN now ELSE nextRun[j] IN
  CASE Kind[j] = "recurring" -> IF from > now THEN from
                                ELSE from + ((now - from) \div Interval[j] + 1) * Interval[j]
    [] Kind[j] = "cron" -> (now \div Interval[j] + 1) * Interval[j]
    [] OTHER -> Never

------------------------------------------------------------------------------
(***************************************************************************)
(* A tick of the worker thread.                                            *)
(***************************************************************************)
Resting(t) == pc[t] = "idle" /\ due[t] = {}

Collect(t) ==
  /\ t \in alive /\ Resting(t) /\ ~stopEvent /\ LockFree
  /\ due' = [due EXCEPT ![t] = {j \in registered : Kind[j] # "event" /\ Due(j)}]
  /\ UNCHANGED <<now, jobVars, pc, job, workerVars, opVars, auxVars>>

\* The jobs are run one after the other; a name that was unregistered meanwhile is
\* passed over.
Pick(t) ==
  /\ pc[t] = "idle"
  /\ \E j \in due[t] :
       /\ due' = [due EXCEPT ![t] = @ \ {j}]
       /\ IF j \in registered
            THEN /\ job' = [job EXCEPT ![t] = [name |-> j, version |-> version[j]]]
                 /\ pc' = [pc EXCEPT ![t] = "enter"]
            ELSE UNCHANGED <<job, pc>>
  /\ UNCHANGED <<now, jobVars, workerVars, opVars, auxVars>>

\* Also a run that was skipped moves the next one on.
Mark(t) ==
  /\ pc[t] = "mark"
  /\ nextRun' = [nextRun EXCEPT ![job[t].name] = NextRun(job[t].name)]
  /\ pc' = [pc EXCEPT ![t] = "idle"]
  /\ job' = [job EXCEPT ![t] = [name |-> NoJob, version |-> 0]]
  /\ UNCHANGED <<now, registered, version, status, runs, running, due, workerVars, opVars, auxVars>>

\* The subscription of an event job outlives its registration; nothing happens then.
Publish(p) ==
  /\ pc[p] = "idle" /\ events < MaxEvents
  /\ events' = events + 1
  /\ \E j \in registered :
       /\ Kind[j] = "event"
       /\ job' = [job EXCEPT ![p] = [name |-> j, version |-> version[j]]]
  /\ pc' = [pc EXCEPT ![p] = "enter"]
  /\ UNCHANGED <<now, jobVars, due, workerVars, opVars, since, succeeded, overran, swapped>>

------------------------------------------------------------------------------
(***************************************************************************)
(* run_now, in whichever thread.                                           *)
(***************************************************************************)
EnterAlways(t) ==  \* faulty: the overlap is not tested
  /\ pc[t] = "enter" /\ LockFree
  /\ LET j == job[t].name IN
       /\ running' = running \cup {j}
       /\ status' = IF Current(t) THEN [status EXCEPT ![j] = "running"] ELSE status
       /\ pc' = [pc EXCEPT ![t] = IF j \in registered THEN "handle" ELSE Ended(t)]
  /\ UNCHANGED <<now, registered, version, runs, nextRun, job, due, workerVars, opVars, auxVars>>

\* An overlap is skipped; a job without a handler fails at once.
Enter(t) ==
  /\ pc[t] = "enter" /\ LockFree
  /\ LET j == job[t].name IN
       IF j \in running \/ j \notin registered
         THEN /\ pc' = [pc EXCEPT ![t] = Ended(t)]
              /\ UNCHANGED <<running, status>>
         ELSE /\ running' = running \cup {j}
              /\ status' = IF Current(t) THEN [status EXCEPT ![j] = "running"] ELSE status
              /\ pc' = [pc EXCEPT ![t] = "handle"]
  /\ UNCHANGED <<now, registered, version, runs, nextRun, job, due, workerVars, opVars, auxVars>>

Outcome(t, result) ==
  LET j == job[t].name IN
    /\ IF Current(t) THEN /\ status' = [status EXCEPT ![j] = result]
                          /\ runs' = [runs EXCEPT ![j] = @ + 1]
                     ELSE UNCHANGED <<status, runs>>
    /\ succeeded' = IF result = "completed" THEN succeeded \cup {j} ELSE succeeded
    /\ UNCHANGED <<now, registered, version, nextRun, job, due, workerVars, opVars,
                   since, overran, swapped, events>>

\* The handler returns or raises; the object may no longer be the registered one,
\* but it is the name that ceases to be marked.
Return(t) ==
  /\ pc[t] = "handle"
  /\ pc' = [pc EXCEPT ![t] = Ended(t)]
  /\ \E result \in {"completed", "failed"} : Outcome(t, result)
  /\ running' = running \ {job[t].name}

------------------------------------------------------------------------------
(***************************************************************************)
(* Restarting the worker and registering the configured jobs anew.         *)
(***************************************************************************)
Stop ==
  /\ op = "none" /\ \A j \in Jobs : version[j] <= MaxRestarts
  /\ stopEvent' = TRUE /\ op' = "join"
  /\ UNCHANGED <<now, jobVars, threadVars, alive, todo, auxVars>>

ExitTicker(t) ==
  /\ t \in alive /\ Resting(t) /\ stopEvent
  /\ alive' = alive \ {t}
  /\ UNCHANGED <<now, jobVars, threadVars, stopEvent, opVars, auxVars>>

\* The join times out on a ticker that is in a job, or waits for the lock.
EndJoin ==
  /\ op = "join"
  /\ \A t \in alive : pc[t] \in {"enter", "handle"}
  /\ op' = "start"
  /\ overran' = (overran \/ alive # {})
  /\ UNCHANGED <<now, jobVars, threadVars, workerVars, todo, since, succeeded, swapped, events>>

StartStopped ==  \* faulty: the event is not cleared
  /\ op = "start"
  /\ \E t \in Tickers \ alive : alive' = alive \cup {t}
  /\ op' = "unregister" /\ todo' = Configured
  /\ UNCHANGED <<now, jobVars, threadVars, stopEvent, auxVars>>

\* start() clears the event, which a thread that outlived the join then never sees.
Start ==
  /\ op = "start"
  /\ \E t \in Tickers \ alive : alive' = alive \cup {t}
  /\ stopEvent' = FALSE
  /\ op' = "unregister" /\ todo' = Configured
  /\ UNCHANGED <<now, jobVars, threadVars, auxVars>>

Unregister ==
  /\ op = "unregister"
  /\ IF todo = {} THEN /\ op' = "register" /\ todo' = Configured
                       /\ UNCHANGED <<registered, nextRun, running, swapped>>
     ELSE \E j \in todo :
            /\ registered' = registered \ {j}
            /\ nextRun' = [nextRun EXCEPT ![j] = Never]
            /\ running' = running \ {j}
            /\ swapped' = IF \E t \in Threads : Executing(t, j) THEN swapped \cup {j} ELSE swapped
            /\ todo' = todo \ {j} /\ UNCHANGED op
  /\ UNCHANGED <<now, version, status, runs, threadVars, workerVars, since, succeeded, overran, events>>

Register ==
  /\ op = "register"
  /\ IF todo = {} THEN op' = "none" /\ UNCHANGED <<jobVars, todo, since>>
     ELSE \E j \in todo :
            /\ registered' = registered \cup {j}
            /\ version' = [version EXCEPT ![j] = @ + 1]
            /\ status' = [status EXCEPT ![j] = "pending"]
            /\ runs' = [runs EXCEPT ![j] = 0]
            /\ nextRun' = IF Kind[j] = "event" THEN nextRun ELSE [nextRun EXCEPT ![j] = now]
            /\ since' = [since EXCEPT ![j] = now]
            /\ todo' = todo \ {j}
            /\ UNCHANGED <<running, op>>
  /\ UNCHANGED <<now, threadVars, workerVars, succeeded, overran, swapped, events>>

Tick ==
  /\ now < MaxTime
  /\ now' = now + 1
  /\ UNCHANGED <<jobVars, threadVars, workerVars, opVars, auxVars>>

------------------------------------------------------------------------------
\* The first worker has been started, and the jobs are about to be registered.
SchedulerInit ==
  /\ now = 0
  /\ registered = {} /\ version = [j \in Jobs |-> 0]
  /\ status = [j \in Jobs |-> "pending"] /\ runs = [j \in Jobs |-> 0]
  /\ nextRun = [j \in Jobs |-> Never] /\ running = {}
  /\ stopEvent = FALSE /\ alive = {CHOOSE t \in Tickers : TRUE}
  /\ pc = [t \in Threads |-> "idle"] /\ due = [t \in Threads |-> {}]
  /\ job = [t \in Threads |-> [name |-> NoJob, version |-> 0]]
  /\ op = "register" /\ todo = Jobs
  /\ since = [j \in Jobs |-> 0] /\ succeeded = {} /\ overran = FALSE /\ swapped = {} /\ events = 0

Run(t) == Enter(t) \/ Return(t)
TickStep(t) == Collect(t) \/ Pick(t) \/ Mark(t) \/ Run(t) \/ ExitTicker(t)
RestartStep == EndJoin \/ Start \/ Unregister \/ Register

SchedulerNext ==
  \/ \E t \in Tickers : TickStep(t)
  \/ \E p \in Publishers : Publish(p) \/ Run(p)
  \/ Stop \/ RestartStep \/ Tick

SchedulerSpec == SchedulerInit /\ [][SchedulerNext]_schedulerVars

\* Threads run, handlers return, and a restart that was begun goes on.
SchedulerFairSpec ==
  /\ SchedulerSpec
  /\ \A t \in Tickers : WF_schedulerVars(TickStep(t))
  /\ \A p \in Publishers : WF_schedulerVars(Run(p))
  /\ WF_schedulerVars(RestartStep)

------------------------------------------------------------------------------
\* Overlapping executions of a job are skipped, by whichever threads they are asked
\* for.  Exempt is a job that was registered anew while it ran.
NoOverlap ==
  \A j \in Jobs \ swapped : \A t, u \in Threads :
    Executing(t, j) /\ Executing(u, j) => t = u

\* The dates of a job from its registration up to the time x, after the first.
DatesUntil(j, x) ==
  CASE Kind[j] = "recurring" -> (x - since[j]) \div Interval[j]
    [] Kind[j] = "cron" -> x \div Interval[j] - since[j] \div Interval[j]
    [] OTHER -> 0

\* A job that overslept runs once and not once for each date it missed, and a one-time
\* job runs once.  Exempt is a scheduler one of whose tickers outlived the join: two
\* tickers may find the same job due.
OncePerDate ==
  \A j \in registered :
    Kind[j] \in {"one_time", "recurring", "cron"} /\ ~overran => runs[j] <= DatesUntil(j, now) + 1

\* A dependency job does not start before each job it depends on has completed.
DependencyHeld ==
  \A t \in Threads, j \in Jobs :
    Kind[j] = "dependency" /\ Executing(t, j) => Deps[j] \subseteq succeeded

\* What is due is run, or its date is moved on because it was running already.
DueRuns ==
  \A j \in Jobs :
    j \in registered /\ Kind[j] # "event" /\ Due(j) ~>
      (j \notin registered \/ ~Due(j) \/ \E t \in Threads : Executing(t, j))
=============================================================================
