--------------------------- MODULE RuntimeLifecycle ---------------------------
(***************************************************************************)
(* RuntimeEngine.start, stop and restart: the startup and shutdown         *)
(* sequences, the phase, the worker threads with their bounded joins, and  *)
(* the order in which engines are stopped.                                 *)
(*                                                                         *)
(* One operator thread makes the calls; every worker has its own threads.  *)
(* A worker's stop() holds the worker's lock while it joins, and a pass of *)
(* the worker may need that lock, so a join may time out; a thread that    *)
(* outlives its join goes on beside everything that follows.               *)
(***************************************************************************)
EXTENDS Integers, Sequences, SequencesExt, FiniteSets

CONSTANTS
  Engines,      \* the registered engines
  Registered,   \* a sequence: the order of their registration
  Graphs,       \* dependency graphs: functions from Engines to sets of Engines
  Workers,      \* a sequence: the workers in the order they are started and stopped
  MaxThreads,   \* bound: threads of a worker alive at the same time
  MaxCalls      \* bound: calls of start, stop and restart

ASSUME LifecycleAssumption ==
  /\ Registered \in Seq(Engines) /\ ToSet(Registered) = Engines
  /\ Len(Registered) = Cardinality(Engines)
  /\ Graphs \subseteq [Engines -> SUBSET Engines]
  /\ Workers \in Seq(ToSet(Workers)) /\ "supervisor" \in ToSet(Workers)
  /\ ToSet(Workers) \subseteq {"sender", "scheduler", "watchdog", "supervisor"}
  /\ MaxThreads \in Nat \ {0} /\ MaxCalls \in Nat

Names    == ToSet(Workers)
Monitors == Names \cap {"watchdog", "supervisor"}
Slots    == 1 .. MaxThreads

\* The locks a pass of worker w may have to take: every on_failure and the
\* sender's list of isolated components need the supervisor's.
Locks(w) == Names \cap (IF w = "scheduler" THEN {w} ELSE {w, "supervisor"} \ {"sender"})

Phases == {"STOPPED", "STARTING", "RUNNING", "DEGRADED", "STOPPING", "FAILED"}
\* Where a thread is: waiting for its next pass, in the first part of a pass,
\* at a lock, at the two statements of _on_engine_failed, in the rest.
Points == {"none", "waiting", "pass", "lock", "report", "degrade", "rest"}
Steps  == {"idle", "steps", "start_engines", "start_workers", "jobs", "ready", "mark_ready",
           "stop_workers", "join", "stop_engines", "processes", "finalize", "restart"}

VARIABLES
  deps,     \* RuntimeDependencyGraph._nodes
  phase,    \* RuntimeLifecycle.phase
  saved,    \* the phase in the state store
  up,       \* the engines that run
  ref,      \* each worker's _thread, 0 for None
  threads,  \* the threads of each worker
  told,     \* each worker's _stop_event
  lock,     \* the workers whose lock stop() holds
  pc,       \* the operator: the step of the call it is in
  todo,     \* the operator: what is left to start or stop
  force,    \* stop(force=True)
  again,    \* the call is restart()
  overran,  \* auxiliary: the workers with a join that timed out
  calls     \* calls made so far (bound)

workers  == <<ref, threads, told, lock, overran>>
operator == <<pc, todo, force, again, calls>>
vars == <<deps, phase, saved, up, workers, operator>>

Active  == phase \in {"STARTING", "RUNNING", "DEGRADED", "STOPPING"}
Alive(w, k) == threads[w][k] # "none"

------------------------------------------------------------------------------
(***************************************************************************)
(* RuntimeDependencyGraph: Kahn's algorithm in registration order.         *)
(***************************************************************************)
Kahn(graph) ==
  LET after[n \in 0 .. Len(Registered)] ==
        IF n = 0
        THEN [queue |-> SelectSeq(Registered, LAMBDA e : graph[e] = {}), done |-> <<>>]
        ELSE IF after[n - 1].queue = <<>> THEN after[n - 1]
        ELSE LET e    == Head(after[n - 1].queue)
                 done == Append(after[n - 1].done, e)
             IN [queue |-> Tail(after[n - 1].queue) \o
                           SelectSeq(Registered, LAMBDA d : e \in graph[d] /\ graph[d] \subseteq ToSet(done)),
                 done  |-> done]
  IN after[Len(Registered)].done

StartOrder(graph) == Kahn(graph)  \* faulty: not reversed

\* The order of _stop_engines: without a topological order, that of registration.
StopOrder(graph) ==
  IF Len(Kahn(graph)) = Len(Registered) THEN Reverse(Kahn(graph)) ELSE Registered

------------------------------------------------------------------------------
(***************************************************************************)
(* The worker threads.                                                     *)
(***************************************************************************)
Move(w, k, point) == threads' = [threads EXCEPT ![w][k] = point]

Wake(w, k) ==
  /\ threads[w][k] = "waiting"
  /\ Move(w, k, IF told[w] THEN "none" ELSE "pass")
  /\ UNCHANGED <<deps, phase, saved, up, ref, told, lock, overran, operator>>

\* A monitoring pass that finds nothing.
EndPass(w, k) ==
  /\ threads[w][k] = "pass" /\ w \in Monitors
  /\ Move(w, k, "waiting")
  /\ UNCHANGED <<deps, phase, saved, up, ref, told, lock, overran, operator>>

NeedLock(w, k) ==
  /\ threads[w][k] = "pass"
  /\ Move(w, k, "lock")
  /\ UNCHANGED <<deps, phase, saved, up, ref, told, lock, overran, operator>>

\* The lock is free.  After on_failure the engine was recovered, by a restart
\* that brings it up or leaves it down, or it was isolated.
PassLock(w, k) ==
  /\ threads[w][k] = "lock"
  /\ \E l \in Locks(w) : l \notin lock
  /\ \/ /\ Move(w, k, "rest")
        /\ \/ UNCHANGED up
           \/ /\ w \in Monitors /\ "supervisor" \notin lock
              /\ \E e \in Engines : up' \in {up \cup {e}, up \ {e}}
     \/ /\ w \in Monitors /\ "supervisor" \notin lock
        /\ Move(w, k, "report")
        /\ UNCHANGED up
  /\ UNCHANGED <<deps, phase, saved, ref, told, lock, overran, operator>>

\* _on_engine_failed reads the phase, then changes it; when the transition is
\* illegal by then, the phase is forced.
Report(w, k) ==
  /\ threads[w][k] = "report"
  /\ Move(w, k, IF phase = "RUNNING" THEN "degrade" ELSE "rest")
  /\ UNCHANGED <<deps, phase, saved, up, ref, told, lock, overran, operator>>

Degrade(w, k) ==
  /\ threads[w][k] = "degrade"
  /\ phase' = "DEGRADED"
  /\ Move(w, k, "rest")
  /\ UNCHANGED <<deps, saved, up, ref, told, lock, overran, operator>>

EndRest(w, k) ==
  /\ threads[w][k] = "rest"
  /\ Move(w, k, "waiting")
  /\ UNCHANGED <<deps, phase, saved, up, ref, told, lock, overran, operator>>

------------------------------------------------------------------------------
(***************************************************************************)
(* start().                                                                *)
(***************************************************************************)
GoTo(step, list) == pc' = step /\ todo' = list

Call(restart) ==
  /\ pc = "idle" /\ calls < MaxCalls
  /\ calls' = calls + 1 /\ again' = restart

\* The call has nothing (more) to do.
Return == GoTo("idle", <<>>)

BeginStart == /\ phase' = "STARTING" /\ saved' = "STARTING"
              /\ GoTo("steps", <<>>)

Start ==
  /\ Call(FALSE)
  /\ IF Active THEN Return /\ UNCHANGED <<phase, saved>> ELSE BeginStart
  /\ UNCHANGED <<deps, up, workers, force>>

FailStart == /\ phase' = "FAILED" /\ saved' = "FAILED"
             /\ Return

\* The steps before start_runtime load configuration and register engines.
LoadSteps ==
  /\ pc = "steps"
  /\ \/ FailStart
     \/ GoTo("start_engines", Registered) /\ UNCHANGED <<phase, saved>>
  /\ UNCHANGED <<deps, up, workers, force, again, calls>>

\* An engine that does not start is marked DEGRADED, and startup goes on.
StartEngine ==
  /\ pc = "start_engines" /\ todo # <<>>
  /\ up' \in {up, up \cup {Head(todo)}}
  /\ GoTo(pc, Tail(todo))
  /\ UNCHANGED <<deps, phase, saved, workers, force, again, calls>>

EnginesStarted ==
  /\ pc = "start_engines" /\ todo = <<>>
  /\ GoTo("start_workers", Workers)
  /\ UNCHANGED <<deps, phase, saved, up, workers, force, again, calls>>

StartWorkerAnyway ==  \* faulty: a living thread is not looked for
  /\ pc = "start_workers" /\ todo # <<>>
  /\ LET w == Head(todo) IN
       \E k \in Slots : /\ threads[w][k] = "none"
                        /\ told' = [told EXCEPT ![w] = FALSE]
                        /\ ref' = [ref EXCEPT ![w] = k]
                        /\ Move(w, k, "pass")
  /\ GoTo(pc, Tail(todo))
  /\ UNCHANGED <<deps, phase, saved, up, lock, overran, force, again, calls>>

\* The start() of a worker: a new thread unless its thread is alive.
StartWorker ==
  /\ pc = "start_workers" /\ todo # <<>>
  /\ LET w == Head(todo) IN
       IF ref[w] # 0 /\ Alive(w, ref[w]) THEN UNCHANGED <<told, ref, threads>>
       ELSE \E k \in Slots : /\ threads[w][k] = "none"
                             /\ told' = [told EXCEPT ![w] = FALSE]
                             /\ ref' = [ref EXCEPT ![w] = k]
                             /\ Move(w, k, "pass")
  /\ GoTo(pc, Tail(todo))
  /\ UNCHANGED <<deps, phase, saved, up, lock, overran, force, again, calls>>

WorkersStarted ==
  /\ pc = "start_workers" /\ todo = <<>>
  /\ GoTo("jobs", <<>>)
  /\ UNCHANGED <<deps, phase, saved, up, workers, force, again, calls>>

\* A job of scheduler.yaml that cannot be registered fails the startup.
RegisterJobs ==
  /\ pc = "jobs"
  /\ \/ FailStart
     \/ GoTo("ready", <<>>) /\ UNCHANGED <<phase, saved>>
  /\ UNCHANGED <<deps, up, workers, force, again, calls>>

\* mark_ready, called by the last startup step and once more by start().
MarkReady ==
  /\ pc \in {"ready", "mark_ready"}
  /\ phase' = "RUNNING"
  /\ saved' = IF phase = "RUNNING" THEN saved ELSE "RUNNING"
  /\ IF pc = "ready" THEN GoTo("mark_ready", <<>>) ELSE Return
  /\ UNCHANGED <<deps, up, workers, force, again, calls>>

------------------------------------------------------------------------------
(***************************************************************************)
(* stop() and restart().                                                   *)
(***************************************************************************)
BeginStop == /\ phase' = "STOPPING" /\ saved' = "STOPPING"
             /\ GoTo("stop_workers", Workers)

Stop(forced) ==
  /\ Call(FALSE)
  /\ IF Active THEN BeginStop /\ force' = forced
     ELSE Return /\ UNCHANGED <<phase, saved, force>>
  /\ UNCHANGED <<deps, up, workers>>

Restart ==
  /\ Call(Active)
  /\ IF Active THEN BeginStop /\ force' = FALSE ELSE BeginStart /\ UNCHANGED force
  /\ UNCHANGED <<deps, up, workers>>

\* The stop() of a worker, up to the join.
StopWorker ==
  /\ pc = "stop_workers" /\ todo # <<>>
  /\ LET w == Head(todo) IN
       IF ref[w] = 0 THEN GoTo(pc, Tail(todo)) /\ UNCHANGED <<told, lock>>
       ELSE /\ told' = [told EXCEPT ![w] = TRUE]
            /\ lock' = lock \cup {w}
            /\ GoTo("join", todo)
  /\ UNCHANGED <<deps, phase, saved, up, ref, threads, overran, force, again, calls>>

JoinForever ==  \* faulty: join without a timeout
  LET w == Head(todo) IN
  /\ pc = "join" /\ ~ Alive(w, ref[w])
  /\ ref' = [ref EXCEPT ![w] = 0]
  /\ lock' = lock \ {w}
  /\ GoTo("stop_workers", Tail(todo))
  /\ UNCHANGED <<deps, phase, saved, up, threads, told, overran, force, again, calls>>

\* The join ends with the thread, or times out in a pass whose length is not
\* bounded or that waits for a lock.
Join ==
  LET w == Head(todo) IN
  /\ pc = "join"
  /\ threads[w][ref[w]] \in {"none", "pass", "lock", "rest"}
  /\ overran' = IF Alive(w, ref[w]) THEN overran \cup {w} ELSE overran
  /\ ref' = [ref EXCEPT ![w] = 0]
  /\ lock' = lock \ {w}
  /\ GoTo("stop_workers", Tail(todo))
  /\ UNCHANGED <<deps, phase, saved, up, threads, told, force, again, calls>>

WorkersStopped ==
  /\ pc = "stop_workers" /\ todo = <<>>
  /\ GoTo("stop_engines", StopOrder(deps))
  /\ UNCHANGED <<deps, phase, saved, up, workers, force, again, calls>>

\* An engine's stop() raises, early or late: the rest of the step is left out,
\* and without force the shutdown, and a restart, end here.
StopEngineFails ==
  /\ pc = "stop_engines" /\ todo # <<>>
  /\ up' \in {up, up \ {Head(todo)}}
  /\ IF force THEN GoTo("processes", <<>>) /\ UNCHANGED <<phase, saved>>
     ELSE phase' = "FAILED" /\ saved' = "FAILED" /\ Return
  /\ UNCHANGED <<deps, workers, force, again, calls>>

StopEngine ==
  /\ pc = "stop_engines" /\ todo # <<>>
  /\ up' = up \ {Head(todo)}
  /\ GoTo(pc, Tail(todo))
  /\ UNCHANGED <<deps, phase, saved, workers, force, again, calls>>

EnginesStopped ==
  /\ pc = "stop_engines" /\ todo = <<>>
  /\ GoTo("processes", <<>>)
  /\ UNCHANGED <<deps, phase, saved, up, workers, force, again, calls>>

\* Managed processes are joined, and the state is saved as STOPPED.
StopProcesses ==
  /\ pc = "processes"
  /\ saved' = "STOPPED"
  /\ GoTo("finalize", <<>>)
  /\ UNCHANGED <<deps, phase, up, workers, force, again, calls>>

\* mark_stopped.
Finalize ==
  /\ pc = "finalize"
  /\ phase' = "STOPPED" /\ saved' = "STOPPED"
  /\ IF again THEN GoTo("restart", <<>>) ELSE Return
  /\ UNCHANGED <<deps, up, workers, force, again, calls>>

\* restart() goes on with start().
StartAgain ==
  /\ pc = "restart"
  /\ IF Active THEN Return /\ UNCHANGED <<phase, saved>> ELSE BeginStart
  /\ UNCHANGED <<deps, up, workers, force, again, calls>>

------------------------------------------------------------------------------
Init ==
  /\ deps \in Graphs
  /\ phase = "STOPPED" /\ saved = "STOPPED"
  /\ up = {}
  /\ ref = [w \in Names |-> 0]
  /\ threads = [w \in Names |-> [k \in Slots |-> "none"]]
  /\ told = [w \in Names |-> FALSE]
  /\ lock = {} /\ overran = {}
  /\ pc = "idle" /\ todo = <<>>
  /\ force = FALSE /\ again = FALSE
  /\ calls = 0

Calls == Start \/ Restart \/ \E forced \in BOOLEAN : Stop(forced)

CallSteps ==
  \/ LoadSteps \/ StartEngine \/ EnginesStarted \/ StartWorker \/ WorkersStarted
  \/ RegisterJobs \/ MarkReady
  \/ StopWorker \/ Join \/ WorkersStopped \/ StopEngine \/ StopEngineFails
  \/ EnginesStopped \/ StopProcesses \/ Finalize \/ StartAgain

Thread(w, k) ==
  \/ Wake(w, k) \/ EndPass(w, k) \/ NeedLock(w, k) \/ PassLock(w, k)
  \/ Report(w, k) \/ Degrade(w, k) \/ EndRest(w, k)

Next == Calls \/ CallSteps \/ \E w \in Names, k \in Slots : Thread(w, k)

Spec == Init /\ [][Next]_vars

(***************************************************************************)
(* A call that was begun goes on, and every pass of a worker ends: probes, *)
(* recoveries and jobs are assumed to return, however late.                *)
(***************************************************************************)
Fairness ==
  WF_vars(CallSteps) /\ \A w \in Names, k \in Slots : WF_vars(Thread(w, k))

FairSpec == Spec /\ Fairness

------------------------------------------------------------------------------
\* Types; stop() holds at most the lock of the worker it joins.
TypeOK ==
  /\ deps \in Graphs /\ phase \in Phases /\ saved \in Phases /\ up \subseteq Engines
  /\ ref \in [Names -> 0 .. MaxThreads]
  /\ threads \in [Names -> [Slots -> Points]]
  /\ told \in [Names -> BOOLEAN]
  /\ pc \in Steps /\ todo \in Seq(Engines) \cup Seq(Names)
  /\ lock = IF pc = "join" THEN {Head(todo)} ELSE {}
  /\ overran \subseteq Names
  /\ force \in BOOLEAN /\ again \in BOOLEAN /\ calls \in Nat

Acyclic(graph) ==
  \A S \in SUBSET Engines \ {{}} : \E e \in S : graph[e] \cap S = {}

\* A shutdown stops an engine while none of its dependents runs, also after engines
\* that did not start, recoveries, shutdowns that failed half way and restarts.
DependentsStopFirst ==
  [][Acyclic(deps) /\ overran = {} /\ pc = "stop_engines" =>
       \A e \in up \ up' : \A d \in up : e \notin deps[d]]_vars

\* A worker has one thread, over any sequence of failed starts, starts and stops,
\* unless one of its threads outlived its join.
OneThread ==
  \A w \in Names \ overran : Cardinality({k \in Slots : Alive(w, k)}) <= 1

\* Every call returns, although stop() joins threads that may wait for the very
\* lock it holds.
CallsEnd == pc # "idle" ~> pc = "idle"
=============================================================================
