----------------------------- MODULE PipelineRun -----------------------------
(***************************************************************************)
(* The orchestration engine: OrchestrationEngine.run with its automatic    *)
(* recovery, resume, retry and rollback, the PipelineRunner that executes  *)
(* the stages of a plan, the CheckpointManager and the RollbackManager.    *)
(*                                                                         *)
(* Each plan is run by a thread of its own (a caller's or the scheduler's),*)
(* and all threads share one runner, one checkpoint manager and one        *)
(* rollback manager.  Tasks of a parallel stage run in a pool.  Task ids   *)
(* may occur in several plans, as they do in the built-in pipelines.       *)
(*                                                                         *)
(* A task's effect on the outside world is kept apart from its recorded    *)
(* status, which is what recovery and rollback are about.                  *)
(***************************************************************************)
EXTENDS Integers, Sequences, SequencesExt

CONSTANTS
  Plans,        \* plans the engine knows
  Tasks,        \* task ids
  Stages,       \* per plan: its stages, records [parallel, gated, tasks]
  Deps,         \* per task: the tasks it depends on
  FailFast,     \* the tasks whose on_failure is "fail"; the others skip or continue
  Undoable,     \* the tasks that declare a rollback_action
  AutoRecover,  \* recovery.auto_recover
  MaxRecovery,  \* recovery.max_recovery_attempts
  Cap,          \* checkpoints.max_checkpoints_per_pipeline
  MaxSkipped,   \* bound: checkpoints that cannot be written
  MaxCalls      \* bound: calls of run, resume, retry and rollback

StageRecord == [parallel : BOOLEAN, gated : BOOLEAN, tasks : Seq(Tasks)]

ASSUME PipelineAssumption ==
  /\ Stages \in [Plans -> Seq(StageRecord)]
  /\ Deps \in [Tasks -> SUBSET Tasks]
  /\ FailFast \subseteq Tasks /\ Undoable \subseteq Tasks
  /\ AutoRecover \in BOOLEAN /\ MaxRecovery \in Nat
  /\ Cap \in Nat \ {0} /\ MaxSkipped \in Nat /\ MaxCalls \in Nat

TaskStatuses == {"absent", "PENDING", "RUNNING", "COMPLETED", "FAILED", "SKIPPED"}
PlanStatuses == {"PENDING", "RUNNING", "COMPLETED", "FAILED"}
Points       == {"idle", "stage", "next", "wait", "cancelled", "failed", "undo", "again"}

StageTasks(p, k) == ToSet(Stages[p][k].tasks)
TasksOf(p) == UNION {StageTasks(p, k) : k \in 1 .. Len(Stages[p])}

VARIABLES
  status,       \* ExecutionState.status of each plan's last execution
  tasks,        \* ExecutionState.task_statuses
  point,        \* where the plan's thread is
  stage,        \* index in run(), counted from 1
  position,     \* position in a sequential stage
  wave,         \* tasks submitted whose result was not yet applied
  results,      \* TaskResult.status of the submitted tasks that ended
  stageIndex,   \* PipelineRunner._stage_index, shared by all plans
  checkpoints,  \* CheckpointManager._checkpoints of each plan, oldest first
  unsaved,      \* auxiliary: plans whose last checkpoint could not be written
  skipped,      \* checkpoints that could not be written so far (bound)
  handlers,     \* RollbackManager._order, with the plan that registered last
  undoing,      \* execute_rollback: the task ids of the steps still to do
  source,       \* what a recovery resumes from: <<checkpoint>>, or <<>> for the
                \* beginning; <<>> too when no recovery is under way
  recoveries,   \* automatic recoveries made for this call
  effects,      \* pairs of plan and task whose effect stands
  resumed,      \* auxiliary: the last execution started from a checkpoint
  alone,        \* auxiliary: no two plans were ever active together
  calls         \* calls made so far (bound)

state   == <<status, tasks>>
runner  == <<point, stage, position, wave, results>>
store   == <<checkpoints, unsaved, skipped>>
undo    == <<handlers, undoing, effects>>
history == <<resumed, alone, calls>>
vars == <<state, runner, stageIndex, store, undo, source, recoveries, history>>

Completed(p) == {t \in Tasks : tasks[p][t] = "COMPLETED"}

ReadyDespiteFailed(p, t) ==  \* faulty: any dependency that has ended is satisfied
  \A d \in Deps[t] : tasks[p][d] \in {"COMPLETED", "FAILED"}

\* DependencyGraph.ready_tasks: all dependencies completed.
Ready(p, t) == Deps[t] \subseteq Completed(p)

GoTo(p, where) == point' = [point EXCEPT ![p] = where]
Mark(p, t, s)  == tasks' = [tasks EXCEPT ![p][t] = s]

\* CheckpointManager.create, with _enforce_cap.
Kept(s, ck) == Append(IF Len(s) < Cap THEN s ELSE Tail(s), ck)
Checkpoint(p, ts, index) ==
  checkpoints' = [checkpoints EXCEPT ![p] = Kept(@, [tasks |-> ts, stage |-> index])]

\* _write_checkpoint.  A checkpoint that cannot be built is only logged: the deep copy
\* of the state fails on a result that cannot be copied, or on a table that tasks of a
\* parallel stage change meanwhile.
WriteCheckpoint(p, ts, index) ==
  \/ /\ Checkpoint(p, ts, index)
     /\ unsaved' = unsaved \ {p}
     /\ UNCHANGED skipped
  \/ /\ skipped < MaxSkipped
     /\ skipped' = skipped + 1
     /\ unsaved' = unsaved \cup {p}
     /\ UNCHANGED checkpoints

------------------------------------------------------------------------------
(***************************************************************************)
(* PipelineRunner.run: the execution of plan p starts, from <<checkpoint>> *)
(* or, with <<>>, from the beginning.                                      *)
(***************************************************************************)
Execute(p, from) ==
  LET first == IF from = <<>> THEN 1 ELSE from[1].stage IN
  /\ status' = [status EXCEPT ![p] = "RUNNING"]
  /\ tasks' = [tasks EXCEPT ![p] =
       IF from = <<>> THEN [t \in Tasks |-> IF t \in TasksOf(p) THEN "PENDING" ELSE "absent"]
       ELSE from[1].tasks]
  /\ stage' = [stage EXCEPT ![p] = first]
  /\ stageIndex' = first
  /\ resumed' = [resumed EXCEPT ![p] = from # <<>>]
  /\ GoTo(p, "stage")
  /\ UNCHANGED <<position, wave, results>>

Call(p) ==
  /\ point[p] = "idle" /\ calls < MaxCalls
  /\ calls' = calls + 1
  /\ alone' = (alone /\ \A q \in Plans : point[q] = "idle")

\* start and retry, and resume from the latest or from a named checkpoint.
RunPlan(p) ==
  /\ Call(p)
  /\ Execute(p, <<>>)
  /\ recoveries' = [recoveries EXCEPT ![p] = 0]
  /\ UNCHANGED <<store, undo, source>>

Resume(p) ==
  /\ Call(p)
  /\ \E k \in DOMAIN checkpoints[p] : Execute(p, <<checkpoints[p][k]>>)
  /\ recoveries' = [recoveries EXCEPT ![p] = 0]
  /\ UNCHANGED <<store, undo, source>>

------------------------------------------------------------------------------
(***************************************************************************)
(* The stage loop.                                                         *)
(***************************************************************************)
EnterStage(p) ==
  /\ point[p] = "stage" /\ stage[p] <= Len(Stages[p])
  /\ GoTo(p, "next")
  /\ position' = [position EXCEPT ![p] = 1]
  /\ UNCHANGED <<state, stage, wave, results, stageIndex, store, undo, source,
                 recoveries, history>>

\* The end of a stage whose tasks now are ts.
EndStage(p, ts) ==
  /\ GoTo(p, "stage")
  /\ stage' = [stage EXCEPT ![p] = @ + 1]
  /\ stageIndex' = stage[p] + 1
  /\ WriteCheckpoint(p, ts, stage[p] + 1)

\* The condition of the stage is not met: its pending tasks are skipped.
SkipStage(p) ==
  /\ point[p] = "stage" /\ stage[p] <= Len(Stages[p]) /\ Stages[p][stage[p]].gated
  /\ LET ts == [t \in Tasks |->
                  IF t \in StageTasks(p, stage[p]) /\ tasks[p][t] = "PENDING"
                  THEN "SKIPPED" ELSE tasks[p][t]]
     IN /\ tasks' = [tasks EXCEPT ![p] = ts]
        /\ EndStage(p, ts)
  /\ UNCHANGED <<status, position, wave, results, undo, source, recoveries, history>>

Complete(p) ==
  /\ point[p] = "stage" /\ stage[p] > Len(Stages[p])
  /\ status' = [status EXCEPT ![p] = "COMPLETED"]
  /\ GoTo(p, "idle")
  /\ UNCHANGED <<tasks, stage, position, wave, results, stageIndex, store, undo,
                 source, recoveries, history>>

------------------------------------------------------------------------------
(***************************************************************************)
(* _execute_sequential: one task after the other.  A task of a sequential  *)
(* stage is never RUNNING here: checkpoints that contain running tasks are *)
(* taken in parallel stages.                                               *)
(***************************************************************************)
InStage(p, parallel) ==
  point[p] = "next" /\ Stages[p][stage[p]].parallel = parallel

Here(p) == Stages[p][stage[p]].tasks[position[p]]
Past(p) == position[p] > Len(Stages[p][stage[p]].tasks)

Settled(p, t) ==
  tasks[p][t] \in {"COMPLETED", "SKIPPED"} \/ (tasks[p][t] = "FAILED" /\ t \in FailFast)

NextTask(p) ==
  /\ InStage(p, FALSE) /\ ~ Past(p)
  /\ \/ /\ Settled(p, Here(p))
        /\ position' = [position EXCEPT ![p] = @ + 1]
        /\ UNCHANGED <<tasks, point, wave>>
     \/ /\ ~ Settled(p, Here(p)) /\ (tasks[p][Here(p)] = "FAILED" \/ ~ Ready(p, Here(p)))
        /\ Mark(p, Here(p), "SKIPPED")
        /\ position' = [position EXCEPT ![p] = @ + 1]
        /\ UNCHANGED <<point, wave>>
     \/ /\ tasks[p][Here(p)] = "PENDING" /\ Ready(p, Here(p))
        /\ wave' = [wave EXCEPT ![p] = {Here(p)}]
        /\ GoTo(p, "wait")
        /\ UNCHANGED <<tasks, position>>
  /\ UNCHANGED <<status, stage, results, stageIndex, store, undo, source, recoveries,
                 history>>

EndSequential(p) ==
  /\ InStage(p, FALSE) /\ Past(p)
  /\ EndStage(p, tasks[p])
  /\ UNCHANGED <<state, position, wave, results, undo, source, recoveries, history>>

(***************************************************************************)
(* _execute_parallel: waves of the pending tasks that are ready.           *)
(***************************************************************************)
NextWave(p) == {t \in StageTasks(p, stage[p]) : tasks[p][t] = "PENDING" /\ Ready(p, t)}

SubmitWave(p) ==
  /\ InStage(p, TRUE) /\ NextWave(p) # {}
  /\ wave' = [wave EXCEPT ![p] = NextWave(p)]
  /\ GoTo(p, "wait")
  /\ UNCHANGED <<state, stage, position, results, stageIndex, store, undo, source,
                 recoveries, history>>

EndParallel(p) ==
  /\ InStage(p, TRUE) /\ NextWave(p) = {}
  /\ EndStage(p, tasks[p])
  /\ UNCHANGED <<state, position, wave, results, undo, source, recoveries, history>>

------------------------------------------------------------------------------
(***************************************************************************)
(* _run_task and TaskExecutor.execute_task, with all its retries.          *)
(***************************************************************************)
StartTask(p, t) ==
  /\ t \in wave[p] /\ tasks[p][t] = "PENDING"
  /\ Mark(p, t, "RUNNING")
  /\ UNCHANGED <<status, runner, stageIndex, store, undo, source, recoveries, history>>

EndTask(p, t) ==
  /\ t \in wave[p] /\ tasks[p][t] = "RUNNING" /\ results[p][t] = "none"
  /\ \/ /\ results' = [results EXCEPT ![p][t] = "completed"]
        /\ effects' = effects \cup {<<p, t>>}
     \/ /\ results' = [results EXCEPT ![p][t] = "failed"]
        /\ UNCHANGED effects
  /\ UNCHANGED <<state, point, stage, position, wave, stageIndex, store, handlers,
                 undoing, source, recoveries, history>>

\* The thread of the plan takes the result of t.
Take(p, t) ==
  /\ point[p] = "wait" /\ t \in wave[p] /\ results[p][t] # "none"
  /\ results' = [results EXCEPT ![p][t] = "none"]

\* Where the thread goes on when t was the last of its wave.
GoOn(p, t) ==
  /\ wave' = [wave EXCEPT ![p] = @ \ {t}]
  /\ GoTo(p, IF wave[p] = {t} THEN "next" ELSE "wait")
  /\ position' = [position EXCEPT ![p] = IF Stages[p][stage[p]].parallel THEN @ ELSE @ + 1]

\* RollbackManager.register_handler keeps the place of an id it knows.
Register(p, t) ==
  LET h == [task |-> t, plan |-> p] IN
  handlers' = IF \E k \in DOMAIN handlers : handlers[k].task = t
              THEN [k \in DOMAIN handlers |-> IF handlers[k].task = t THEN h ELSE handlers[k]]
              ELSE Append(handlers, h)

ApplyCompleted(p, t) ==
  LET ts == [tasks[p] EXCEPT ![t] = "COMPLETED"] IN
  /\ Take(p, t) /\ results[p][t] = "completed"
  /\ GoOn(p, t)
  /\ tasks' = [tasks EXCEPT ![p] = ts]
  /\ IF t \in Undoable THEN Register(p, t) ELSE UNCHANGED handlers
  /\ WriteCheckpoint(p, ts, stageIndex)
  /\ UNCHANGED <<status, stage, stageIndex, undoing, effects, source, recoveries, history>>

ApplyTolerated(p, t) ==
  /\ Take(p, t) /\ results[p][t] = "failed" /\ t \notin FailFast
  /\ GoOn(p, t)
  /\ Mark(p, t, "FAILED")
  /\ UNCHANGED <<status, stage, stageIndex, store, undo, source, recoveries, history>>

ApplyFailureUnsaved(p, t) ==  \* faulty: no checkpoint
  /\ Take(p, t) /\ results[p][t] = "failed" /\ t \in FailFast
  /\ Mark(p, t, "FAILED")
  /\ wave' = [wave EXCEPT ![p] = {u \in @ \ {t} : tasks[p][u] = "RUNNING"}]
  /\ GoTo(p, "cancelled")
  /\ UNCHANGED <<status, stage, position, stageIndex, store, undo, source, recoveries,
                 history>>

\* A failure that fails the plan: a sequential stage writes a checkpoint; a
\* parallel one cancels the tasks that have not started.
ApplyFailure(p, t) ==
  LET ts == [tasks[p] EXCEPT ![t] = "FAILED"] IN
  /\ Take(p, t) /\ results[p][t] = "failed" /\ t \in FailFast
  /\ tasks' = [tasks EXCEPT ![p] = ts]
  /\ wave' = [wave EXCEPT ![p] = {u \in @ \ {t} : tasks[p][u] = "RUNNING"}]
  /\ GoTo(p, "cancelled")
  /\ IF Stages[p][stage[p]].parallel THEN UNCHANGED store
     ELSE WriteCheckpoint(p, ts, stageIndex)
  /\ UNCHANGED <<status, stage, position, stageIndex, undo, source, recoveries, history>>

FailWithoutWaiting(p) ==  \* faulty: the pool is not waited for
  /\ point[p] = "cancelled"
  /\ GoTo(p, "failed")
  /\ UNCHANGED <<state, stage, position, wave, results, stageIndex, store, undo,
                 source, recoveries, history>>

\* Leaving the pool waits for the tasks that run; their results are dropped.
Drain(p) ==
  /\ point[p] = "cancelled"
  /\ \A t \in wave[p] : results[p][t] # "none"
  /\ GoTo(p, "failed")
  /\ wave' = [wave EXCEPT ![p] = {}]
  /\ results' = [results EXCEPT ![p] = [t \in Tasks |-> "none"]]
  /\ UNCHANGED <<state, stage, position, stageIndex, store, undo, source, recoveries,
                 history>>

------------------------------------------------------------------------------
(***************************************************************************)
(* The end of OrchestrationEngine.run: give up, or RecoveryManager.recover *)
(* (latest checkpoint, rollback, retry) and the next execution.            *)
(***************************************************************************)
MayRecover(p) == AutoRecover /\ recoveries[p] < MaxRecovery

GiveUp(p) ==
  /\ point[p] = "failed" /\ ~ MayRecover(p)
  /\ status' = [status EXCEPT ![p] = "FAILED"]
  /\ GoTo(p, "idle")
  /\ UNCHANGED <<tasks, stage, position, wave, results, stageIndex, store, undo,
                 source, recoveries, history>>

\* execute_rollback: the steps are fixed when it begins.
BeginRollback(p) ==
  undoing' = [undoing EXCEPT ![p] = [k \in DOMAIN handlers |-> Reverse(handlers)[k].task]]

RecoverUncounted(p) ==  \* faulty: the attempt is not counted
  /\ point[p] = "failed" /\ MayRecover(p)
  /\ status' = [status EXCEPT ![p] = "FAILED"]
  /\ source' = [source EXCEPT ![p] =
       IF checkpoints[p] = <<>> THEN <<>> ELSE <<Last(checkpoints[p])>>]
  /\ BeginRollback(p)
  /\ GoTo(p, IF handlers = <<>> THEN "again" ELSE "undo")
  /\ UNCHANGED <<tasks, stage, position, wave, results, stageIndex, store, handlers,
                 effects, recoveries, history>>

Recover(p) ==
  /\ point[p] = "failed" /\ MayRecover(p)
  /\ status' = [status EXCEPT ![p] = "FAILED"]
  /\ recoveries' = [recoveries EXCEPT ![p] = @ + 1]
  /\ source' = [source EXCEPT ![p] =
       IF checkpoints[p] = <<>> THEN <<>> ELSE <<Last(checkpoints[p])>>]
  /\ BeginRollback(p)
  /\ GoTo(p, IF handlers = <<>> THEN "again" ELSE "undo")
  /\ UNCHANGED <<tasks, stage, position, wave, results, stageIndex, store, handlers,
                 effects, history>>

\* OrchestrationEngine.rollback; its thread is at "undo" with recoveries 0.
Rollback(p) ==
  /\ Call(p) /\ handlers # <<>>
  /\ BeginRollback(p)
  /\ recoveries' = [recoveries EXCEPT ![p] = 0]
  /\ GoTo(p, "undo")
  /\ UNCHANGED <<state, stage, position, wave, results, stageIndex, store, handlers,
                 effects, source, resumed>>

\* A step runs the handler registered now; it undoes the effect, or fails, which
\* is only noted.  Without a handler it does nothing.
UndoStep(p) ==
  /\ point[p] = "undo" /\ undoing[p] # <<>>
  /\ LET undone == {<<h.plan, h.task>> : h \in {g \in ToSet(handlers) : g.task = Head(undoing[p])}}
     IN effects' \in {effects, effects \ undone}
  /\ undoing' = [undoing EXCEPT ![p] = Tail(@)]
  /\ UNCHANGED <<state, runner, stageIndex, store, handlers, source, recoveries, history>>

EndRollbackKeepingHandlers(p) ==  \* faulty: the handlers stay registered
  /\ point[p] = "undo" /\ undoing[p] = <<>>
  /\ GoTo(p, IF recoveries[p] = 0 THEN "idle" ELSE "again")
  /\ UNCHANGED <<state, stage, position, wave, results, stageIndex, store, undo,
                 source, recoveries, history>>

EndRollback(p) ==
  /\ point[p] = "undo" /\ undoing[p] = <<>>
  /\ handlers' = <<>>
  /\ GoTo(p, IF recoveries[p] = 0 THEN "idle" ELSE "again")
  /\ UNCHANGED <<state, stage, position, wave, results, stageIndex, store, undoing,
                 effects, source, recoveries, history>>

\* The execution that a recovery has prepared.
ExecuteAgain(p) ==
  /\ point[p] = "again"
  /\ Execute(p, source[p])
  /\ source' = [source EXCEPT ![p] = <<>>]
  /\ UNCHANGED <<store, undo, recoveries, alone, calls>>

------------------------------------------------------------------------------
Init ==
  /\ status = [p \in Plans |-> "PENDING"]
  /\ tasks = [p \in Plans |->
               [t \in Tasks |-> IF t \in TasksOf(p) THEN "PENDING" ELSE "absent"]]
  /\ point = [p \in Plans |-> "idle"]
  /\ stage = [p \in Plans |-> 1]
  /\ position = [p \in Plans |-> 1]
  /\ wave = [p \in Plans |-> {}]
  /\ results = [p \in Plans |-> [t \in Tasks |-> "none"]]
  /\ stageIndex = 1
  /\ checkpoints = [p \in Plans |-> <<>>]
  /\ unsaved = {} /\ skipped = 0
  /\ handlers = <<>>
  /\ undoing = [p \in Plans |-> <<>>]
  /\ source = [p \in Plans |-> <<>>]
  /\ recoveries = [p \in Plans |-> 0]
  /\ effects = {}
  /\ resumed = [p \in Plans |-> FALSE]
  /\ alone = TRUE
  /\ calls = 0

Calls(p) == RunPlan(p) \/ Resume(p) \/ Rollback(p)

PlanThread(p) ==
  \/ EnterStage(p) \/ SkipStage(p) \/ Complete(p)
  \/ NextTask(p) \/ EndSequential(p) \/ SubmitWave(p) \/ EndParallel(p)
  \/ \E t \in Tasks : ApplyCompleted(p, t) \/ ApplyTolerated(p, t) \/ ApplyFailure(p, t)
  \/ Drain(p) \/ GiveUp(p)
  \/ Recover(p) \/ UndoStep(p) \/ EndRollback(p) \/ ExecuteAgain(p)

Worker(p, t) == StartTask(p, t) \/ EndTask(p, t)

Next ==
  \E p \in Plans : Calls(p) \/ PlanThread(p) \/ \E t \in Tasks : Worker(p, t)

Spec == Init /\ [][Next]_vars

(***************************************************************************)
(* A thread that can go on does, and a task that was started ends (its     *)
(* retries are bounded, and its handler is assumed to return).             *)
(***************************************************************************)
Fairness ==
  \A p \in Plans : WF_vars(PlanThread(p)) /\ \A t \in Tasks : WF_vars(Worker(p, t))

FairSpec == Spec /\ Fairness

------------------------------------------------------------------------------
\* Types.  A plan whose thread is inside a stage has such a stage.
CheckpointRecord == [tasks : [Tasks -> TaskStatuses], stage : Nat \ {0}]
Handler == [task : Undoable, plan : Plans]

ThreadsOK ==
  /\ status \in [Plans -> PlanStatuses]
  /\ tasks \in [Plans -> [Tasks -> TaskStatuses]]
  /\ point \in [Plans -> Points]
  /\ stage \in [Plans -> Nat \ {0}] /\ position \in [Plans -> Nat \ {0}]
  /\ \A p \in Plans : point[p] \in {"next", "wait", "cancelled"} => stage[p] <= Len(Stages[p])
  /\ wave \in [Plans -> SUBSET Tasks]
  /\ results \in [Plans -> [Tasks -> {"none", "completed", "failed"}]]
  /\ stageIndex \in Nat \ {0}
  /\ recoveries \in [Plans -> Nat]
  /\ effects \subseteq Plans \X Tasks
  /\ resumed \in [Plans -> BOOLEAN] /\ alone \in BOOLEAN /\ calls \in Nat

RecordsOK ==
  /\ checkpoints \in [Plans -> Seq(CheckpointRecord)]
  /\ \A p \in Plans : Len(checkpoints[p]) <= Cap
  /\ unsaved \subseteq Plans /\ skipped \in Nat
  /\ source \in [Plans -> Seq(CheckpointRecord)]
  /\ handlers \in Seq(Handler)
  /\ undoing \in [Plans -> Seq(Tasks)]

TypeOK == ThreadsOK /\ RecordsOK

\* A task that was started had all its dependencies completed in the same
\* execution, whatever was skipped, cancelled or restored before
\* (DependencyGraph.ready_tasks).
DependenciesFirst ==
  \A p \in Plans, t \in Tasks :
    tasks[p][t] \in {"RUNNING", "COMPLETED", "FAILED"} => Deps[t] \subseteq Completed(p)

\* No task is still executing when its plan is recovered, rolled back or
\* returned to the caller: a failing parallel stage waits for its siblings.
NoTaskOutlivesItsRun ==
  \A p \in Plans : point[p] \in {"idle", "failed", "undo", "again"} => wave[p] = {}

\* A failure is kept.  When a plan has failed in a sequential stage, its last checkpoint
\* holds the stage and the statuses of the failure, unless that checkpoint could not be
\* written (unsaved) or plans were run side by side (they share _stage_index).  And no
\* plan is COMPLETED although a task failed that fails the plan, unless the execution was
\* resumed: what is resumed from such a checkpoint passes over the FAILED task and ends
\* COMPLETED, which this property neither excludes nor promises.
FailureIsKept ==
  \A p \in Plans :
    /\ (alone /\ status[p] = "FAILED" /\ point[p] = "idle" /\ p \notin unsaved
          /\ ~ Stages[p][stage[p]].parallel) =>
         /\ checkpoints[p] # <<>>
         /\ Last(checkpoints[p]) = [tasks |-> tasks[p], stage |-> stage[p]]
    /\ (status[p] = "COMPLETED" /\ ~ resumed[p]) =>
         \A t \in FailFast : tasks[p][t] # "FAILED"

\* A handler that may still be run stands for an effect that was not yet undone,
\* over any sequence of runs, resumptions and rollbacks made one after the other.
NothingUndoneTwice ==
  alone => \A h \in ToSet(handlers) :
    (\A p \in Plans : point[p] = "undo" => h.task \in ToSet(undoing[p]))
      => <<h.plan, h.task>> \in effects

\* Every call ends, however often the plan fails and is recovered.
CallsEnd == \A p \in Plans : point[p] # "idle" ~> point[p] = "idle"
=============================================================================
