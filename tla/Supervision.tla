----------------------------- MODULE Supervision -----------------------------
(***************************************************************************)
(* The self-healing loop of the runtime: HeartbeatManager, HeartbeatSender,*)
(* HealthMonitor, Watchdog, Supervisor and RecoveryManager, with the part  *)
(* of RuntimeEngine that wires them together.                              *)
(*                                                                         *)
(* Four threads run concurrently: the watchdog, the supervisor, the        *)
(* heartbeat sender, and an operator thread that calls the public methods  *)
(* of RuntimeEngine.  The code they share, Supervisor.on_failure, is       *)
(* cut at the points where a lock is released or another component is      *)
(* called, so that every interleaving of those points is explored.         *)
(*                                                                         *)
(* Time is abstracted: a component is in "stale" when its last beat is     *)
(* older than timeout_seconds, and in "sick" when its health() probe would *)
(* answer UNHEALTHY or DEGRADED.                                           *)
(***************************************************************************)
EXTENDS Integers, FiniteSets

CONSTANTS
  Engines,      \* names register_engine may be called with
  Tasks,        \* ids track_task may be called with
  System,       \* the component name of HealthMonitor._system_check
  MaxAttempts,  \* policy.max_attempts of the "engine" policy
  Threshold,    \* missed_beats_before_failure
  MaxOps,       \* bound: operator calls in a behaviour
  None          \* no component, no lock owner

Components == Engines \cup Tasks \cup {System}
Handlers   == {"watchdog", "supervisor", "operator"}

ASSUME SupervisionAssumption ==
  /\ MaxAttempts \in Nat
  /\ Threshold \in Nat \ {0}
  /\ MaxOps \in Nat
  /\ System \notin Engines \cup Tasks
  /\ None \notin Components \cup Handlers

VARIABLES
  engines,    \* RuntimeEngine.engines (its keys)
  hb,         \* HeartbeatManager._heartbeats (its keys)
  misses,     \* HeartbeatManager._consecutive_misses
  stale,      \* components silent for more than timeout_seconds
  probed,     \* HealthMonitor._components (its keys)
  sick,       \* components whose probe answers UNHEALTHY or DEGRADED
  tracked,    \* Watchdog._tasks (its keys)
  overdue,    \* tasks that exceeded their deadline
  isolated,   \* Supervisor._isolated
  attempts,   \* RecoveryManager._attempts
  status,     \* EngineState.status of each engine
  phase,      \* RuntimeLifecycle.phase, from RUNNING on
  hbLock,     \* owner of HeartbeatManager._lock
  loop,       \* the loop each handler thread is in
  step,       \* the step of on_failure (or of a call) each handler is at
  comp,       \* the component that step is about
  todo,       \* the components the loop has still to visit
  reported,   \* failures returned by check() and check_all()
  beating,    \* HeartbeatSender._send: the names still to beat for
  byHand,     \* auxiliary: recover_engine calls counted since the last reset
  ops         \* operator calls made so far (bound)

recovery == <<attempts, byHand>>
registry == <<engines, probed, tracked, isolated, recovery>>
beats    == <<hb, misses, stale>>
world    == <<sick, overdue>>
outcome  == <<status, phase>>
control  == <<loop, step, comp, todo, reported>>
vars == <<registry, beats, world, outcome, hbLock, control, beating, ops>>

Loops == {"idle", "scan", "returned", "probes", "tasks"}
Steps == {"none", "handle", "recover", "restart", "beat", "isolate", "unmonitor",
          "unprobe", "recovered", "failed", "reset", "popped", "unprobed", "added", "watched"}

(***************************************************************************)
(* A handler may take the heartbeat lock when it is free or its own (the   *)
(* lock is an RLock).                                                      *)
(***************************************************************************)
MayLock(t) == hbLock \in {None, t}

At(t, s) == step[t] = s
\* The handler goes on at step s; at "none" it is done with its component.
Goto(t, s) == /\ step' = [step EXCEPT ![t] = s]
              /\ comp' = [comp EXCEPT ![t] = IF s = "none" THEN None ELSE @]

\* A call of on_failure(c, ...) starts in handler t.
Fail(t, c) == /\ comp' = [comp EXCEPT ![t] = c]
              /\ step' = [step EXCEPT ![t] = "handle"]

\* The effect of HeartbeatManager.beat and register on the tables.
Beat(c) == /\ hb' = hb \cup {c}
           /\ stale' = stale \ {c}
           /\ misses' = [misses EXCEPT ![c] = 0]

\* HeartbeatManager.unregister; the record's age goes with it.
Unmonitor(c) == /\ hb' = hb \ {c}
                /\ stale' = stale \ {c}
                /\ misses' = [misses EXCEPT ![c] = 0]

------------------------------------------------------------------------------
(***************************************************************************)
(* The environment: a monitored component falls silent, a component gets   *)
(* sick or well, a task passes its deadline.                               *)
(***************************************************************************)
FallSilent(c) ==
  /\ c \in hb \ stale
  /\ stale' = stale \cup {c}
  /\ UNCHANGED <<registry, hb, misses, world, outcome, hbLock, control, beating, ops>>

GetSick(c) ==
  /\ c \in (Engines \cup {System}) \ sick
  /\ sick' = sick \cup {c}
  /\ UNCHANGED <<registry, beats, overdue, outcome, hbLock, control, beating, ops>>

GetWell(c) ==
  /\ c \in sick
  /\ sick' = sick \ {c}
  /\ UNCHANGED <<registry, beats, overdue, outcome, hbLock, control, beating, ops>>

PassDeadline(c) ==
  /\ c \in tracked \ overdue
  /\ overdue' = overdue \cup {c}
  /\ UNCHANGED <<registry, beats, sick, outcome, hbLock, control, beating, ops>>

------------------------------------------------------------------------------
(***************************************************************************)
(* HeartbeatManager.check, run by the watchdog and by the supervisor under *)
(* the heartbeat lock.  A failure is reported through the callback while   *)
(* the lock is held, and returned as well.                                 *)
(***************************************************************************)
BeginCheck(t) ==
  /\ t \in {"watchdog", "supervisor"} /\ loop[t] = "idle"
  /\ hbLock = None
  /\ hbLock' = t
  /\ loop' = [loop EXCEPT ![t] = "scan"]
  /\ todo' = [todo EXCEPT ![t] = hb]
  /\ reported' = [reported EXCEPT ![t] = {}]
  /\ UNCHANGED <<registry, beats, world, outcome, step, comp, beating, ops>>

\* This pass declares c failed.
Declared(c) == c \in stale /\ misses[c] + 1 >= Threshold

CheckComponent(t, c) ==
  /\ loop[t] = "scan" /\ At(t, "none") /\ c \in todo[t]
  /\ todo' = [todo EXCEPT ![t] = @ \ {c}]
  /\ IF Declared(c)
     THEN /\ misses' = [misses EXCEPT ![c] = 0]
          /\ reported' = [reported EXCEPT ![t] = @ \cup {c}]
          /\ Fail(t, c)
     ELSE /\ misses' = [misses EXCEPT ![c] = IF c \in stale THEN @ + 1 ELSE 0]
          /\ UNCHANGED <<reported, comp, step>>
  /\ UNCHANGED <<registry, hb, stale, world, outcome, hbLock, loop,
                 beating, ops>>

\* The watchdog drops the returned failures and goes on with task deadlines;
\* the supervisor handles every returned failure once more.
EndCheck(t) ==
  /\ loop[t] = "scan" /\ At(t, "none") /\ todo[t] = {}
  /\ hbLock' = None
  /\ \/ /\ t = "watchdog"
        /\ loop' = [loop EXCEPT ![t] = "tasks"]
        /\ todo' = [todo EXCEPT ![t] = tracked]
        /\ reported' = [reported EXCEPT ![t] = {}]
     \/ /\ t = "supervisor"
        /\ loop' = [loop EXCEPT ![t] = "returned"]
        /\ UNCHANGED <<todo, reported>>
  /\ UNCHANGED <<registry, beats, world, outcome, step, comp, beating, ops>>

------------------------------------------------------------------------------
(***************************************************************************)
(* The rest of Supervisor.check_once and of Watchdog.check.                *)
(***************************************************************************)
HandleReported(c) ==
  LET t == "supervisor" IN
  /\ loop[t] \in {"returned", "probes"} /\ At(t, "none") /\ c \in reported[t]
  /\ reported' = [reported EXCEPT ![t] = @ \ {c}]
  /\ Fail(t, c)
  /\ UNCHANGED <<registry, beats, world, outcome, hbLock, loop, todo,
                 beating, ops>>

\* HealthMonitor.check_all: snapshot of the registered components, probed one
\* after the other, then the system check.
CheckAll ==
  LET t == "supervisor" IN
  /\ loop[t] = "returned" /\ At(t, "none") /\ reported[t] = {}
  /\ loop' = [loop EXCEPT ![t] = "probes"]
  /\ reported' = [reported EXCEPT ![t] = sick \cap (probed \cup {System})]
  /\ UNCHANGED <<registry, beats, world, outcome, hbLock, step, comp, todo,
                 beating, ops>>

EndSupervision ==
  LET t == "supervisor" IN
  /\ loop[t] = "probes" /\ At(t, "none") /\ reported[t] = {}
  /\ loop' = [loop EXCEPT ![t] = "idle"]
  /\ UNCHANGED <<registry, beats, world, outcome, hbLock, step, comp, todo,
                 reported, beating, ops>>

CheckTaskKeepingIt(c) ==  \* faulty: the task is reported and stays tracked
  LET t == "watchdog" IN
  /\ loop[t] = "tasks" /\ At(t, "none") /\ c \in todo[t]
  /\ todo' = [todo EXCEPT ![t] = @ \ {c}]
  /\ IF c \in overdue THEN Fail(t, c) ELSE UNCHANGED <<comp, step>>
  /\ UNCHANGED <<registry, beats, world, outcome, hbLock, loop, reported, beating, ops>>

\* A task over its deadline is untracked, then reported like a component.
CheckTask(c) ==
  LET t == "watchdog" IN
  /\ loop[t] = "tasks" /\ At(t, "none") /\ c \in todo[t]
  /\ todo' = [todo EXCEPT ![t] = @ \ {c}]
  /\ IF c \in overdue
     THEN /\ tracked' = tracked \ {c}
          /\ overdue' = overdue \ {c}
          /\ Fail(t, c)
     ELSE UNCHANGED <<tracked, overdue, comp, step>>
  /\ UNCHANGED <<engines, probed, isolated, recovery, beats, sick, outcome, hbLock,
                 loop, reported, beating, ops>>

EndWatch ==
  LET t == "watchdog" IN
  /\ loop[t] = "tasks" /\ At(t, "none") /\ todo[t] = {}
  /\ loop' = [loop EXCEPT ![t] = "idle"]
  /\ UNCHANGED <<registry, beats, world, outcome, hbLock, step, comp, todo,
                 reported, beating, ops>>

------------------------------------------------------------------------------
(***************************************************************************)
(* Supervisor.on_failure, step by step.                                    *)
(***************************************************************************)
OnFailureOfAny(t) ==  \* faulty: isolated components are recovered too
  /\ At(t, "handle")
  /\ Goto(t, "recover")
  /\ UNCHANGED <<registry, beats, world, outcome, hbLock, loop, todo,
                 reported, beating, ops>>

OnFailure(t) ==
  /\ At(t, "handle")
  /\ Goto(t, IF comp[t] \in isolated THEN "none" ELSE "recover")
  /\ UNCHANGED <<registry, beats, world, outcome, hbLock, loop, todo,
                 reported, beating, ops>>

GiveUpUnisolated(t) == Goto(t, IF t = "operator" THEN "none" ELSE "failed")  \* faulty

\* What happens when RecoveryManager.recover answers success=False: on_failure
\* isolates the component, recover_engine only returns the result.
GiveUp(t) == Goto(t, IF t = "operator" THEN "none" ELSE "isolate")

\* RecoveryManager.recover up to the choice of the actions.  Only registered
\* engines have a policy.
Recover(t) ==
  /\ At(t, "recover")
  /\ attempts' = [attempts EXCEPT ![comp[t]] = @ + 1]
  /\ byHand' = [byHand EXCEPT ![comp[t]] = IF t = "operator" THEN @ + 1 ELSE @]
  /\ IF comp[t] \in engines /\ attempts[comp[t]] + 1 <= MaxAttempts
     THEN Goto(t, "restart")
     ELSE GiveUp(t)
  /\ UNCHANGED <<engines, probed, tracked, isolated, beats, world, outcome, hbLock,
                 loop, todo, reported, beating, ops>>

\* RecoveryManager._execute with the actions restart, reload_state, isolate:
\* the factory fails for an engine that is no longer registered, and for an
\* engine the two other actions always fail.  restart() may cure it or not.
Restart(t) ==
  /\ At(t, "restart")
  /\ IF comp[t] \in engines
     THEN /\ sick' \in {sick, sick \ {comp[t]}}
          /\ Goto(t, "beat")
     ELSE /\ GiveUp(t)
          /\ UNCHANGED sick
  /\ UNCHANGED <<registry, beats, overdue, outcome, hbLock, loop, todo, reported,
                 beating, ops>>

RestartForgiven(t) ==  \* faulty: a restart also resets the attempts
  /\ At(t, "beat") /\ MayLock(t)
  /\ Beat(comp[t])
  /\ Goto(t, IF t = "operator" THEN "none" ELSE "recovered")
  /\ attempts' = [attempts EXCEPT ![comp[t]] = 0]
  /\ UNCHANGED <<engines, probed, tracked, isolated, byHand, world, outcome, hbLock, loop,
                 todo, reported, beating, ops>>

\* The end of _restart_engine: the engine gets a fresh window.
RestartBeat(t) ==
  /\ At(t, "beat") /\ MayLock(t)
  /\ Beat(comp[t])
  /\ Goto(t, IF t = "operator" THEN "none" ELSE "recovered")
  /\ UNCHANGED <<registry, world, outcome, hbLock, loop, todo, reported,
                 beating, ops>>

Isolate(t) ==
  /\ At(t, "isolate")
  /\ isolated' = isolated \cup {comp[t]}
  /\ Goto(t, "unmonitor")
  /\ UNCHANGED <<engines, probed, tracked, recovery, beats, world, outcome, hbLock,
                 loop, todo, reported, beating, ops>>

IsolateUnmonitor(t) ==
  /\ At(t, "unmonitor") /\ MayLock(t)
  /\ Unmonitor(comp[t])
  /\ Goto(t, "unprobe")
  /\ UNCHANGED <<registry, world, outcome, hbLock, loop, todo, reported,
                 beating, ops>>

IsolateUnprobe(t) ==
  /\ At(t, "unprobe")
  /\ probed' = probed \ {comp[t]}
  /\ Goto(t, IF t = "operator" THEN "none" ELSE "failed")
  /\ UNCHANGED <<engines, tracked, isolated, recovery, beats, world, outcome, hbLock,
                 loop, todo, reported, beating, ops>>

\* Supervisor._notify and RuntimeEngine._on_engine_failed.
Notify(t) ==
  /\ step[t] \in {"recovered", "failed"}
  /\ LET marked == IF At(t, "recovered") THEN "RUNNING" ELSE "FAILED" IN
       status' = [c \in Engines |-> IF c = comp[t] /\ c \in engines
                                    THEN marked ELSE status[c]]
  /\ phase' = IF At(t, "failed") THEN "DEGRADED" ELSE phase
  /\ Goto(t, "none")
  /\ UNCHANGED <<registry, beats, world, hbLock, loop, todo, reported,
                 beating, ops>>

------------------------------------------------------------------------------
(***************************************************************************)
(* HeartbeatSender._send: the isolated components are read once, and every *)
(* other registered engine is then beaten for, each under the lock.        *)
(***************************************************************************)
BeginSend ==
  /\ beating = {}
  /\ beating' = engines \ isolated
  /\ UNCHANGED <<registry, beats, world, outcome, hbLock, control, ops>>

SendBeat(c) ==
  /\ c \in beating /\ hbLock = None
  /\ beating' = beating \ {c}
  /\ Beat(c)
  /\ UNCHANGED <<registry, world, outcome, hbLock, control, ops>>

------------------------------------------------------------------------------
(***************************************************************************)
(* The operator's calls.  A call that spans several locks is a first       *)
(* action that starts it and further steps.                                *)
(***************************************************************************)
StartCall(c, s) ==
  /\ ops < MaxOps /\ At("operator", "none")
  /\ ops' = ops + 1
  /\ step' = [step EXCEPT !["operator"] = s]
  /\ comp' = [comp EXCEPT !["operator"] = IF s = "none" THEN None ELSE c]
  /\ UNCHANGED <<loop, todo, reported>>

RecoverEngine(c) ==
  /\ StartCall(c, "recover")
  /\ UNCHANGED <<registry, beats, world, outcome, hbLock, beating>>

IsolateByHand(c) ==
  /\ StartCall(c, "isolate")
  /\ UNCHANGED <<registry, beats, world, outcome, hbLock, beating>>

Unisolate(c) ==
  /\ StartCall(c, "reset")
  /\ isolated' = isolated \ {c}
  /\ UNCHANGED <<engines, probed, tracked, recovery, beats, world, outcome, hbLock, beating>>

UnregisterEngine(c) ==
  /\ c \in engines
  /\ StartCall(c, "popped")
  /\ engines' = engines \ {c}
  /\ status' = [status EXCEPT ![c] = "absent"]
  /\ UNCHANGED <<probed, tracked, isolated, recovery, beats, world, phase, hbLock, beating>>

RegisterEngine(c) ==
  /\ c \notin engines
  /\ StartCall(c, "added")
  /\ engines' = engines \cup {c}
  /\ status' = [status EXCEPT ![c] = "REGISTERED"]
  /\ UNCHANGED <<probed, tracked, isolated, recovery, beats, world, phase, hbLock, beating>>

TrackTask(c) ==
  /\ StartCall(c, "none")
  /\ tracked' = tracked \cup {c}
  /\ overdue' = overdue \ {c}
  /\ UNCHANGED <<engines, probed, isolated, recovery, beats, sick, outcome, hbLock, beating>>

UntrackTask(c) ==
  /\ c \in tracked
  /\ StartCall(c, "none")
  /\ tracked' = tracked \ {c}
  /\ overdue' = overdue \ {c}
  /\ UNCHANGED <<engines, probed, isolated, recovery, beats, sick, outcome, hbLock, beating>>

InCall(s) == /\ At("operator", s)
             /\ UNCHANGED <<loop, todo, reported, ops>>

\* The end of Supervisor.unisolate: RecoveryManager.reset.
ResetAttempts ==
  /\ InCall("reset")
  /\ attempts' = [attempts EXCEPT ![comp["operator"]] = 0]
  /\ byHand' = [byHand EXCEPT ![comp["operator"]] = 0]
  /\ Goto("operator", "none")
  /\ UNCHANGED <<engines, probed, tracked, isolated, beats, world, outcome, hbLock, beating>>

\* The end of unregister_engine, then of register_engine.
UnregisterProbe ==
  /\ InCall("popped")
  /\ probed' = probed \ {comp["operator"]}
  /\ Goto("operator", "unprobed")
  /\ UNCHANGED <<engines, tracked, isolated, recovery, beats, world, outcome, hbLock, beating>>

UnregisterHeartbeat ==
  /\ InCall("unprobed") /\ hbLock = None
  /\ Unmonitor(comp["operator"])
  /\ Goto("operator", "none")
  /\ UNCHANGED <<registry, world, outcome, hbLock, beating>>

RegisterProbe ==
  /\ InCall("added")
  /\ probed' = probed \cup {comp["operator"]}
  /\ Goto("operator", "watched")
  /\ UNCHANGED <<engines, tracked, isolated, recovery, beats, world, outcome, hbLock, beating>>

RegisterHeartbeat ==
  /\ InCall("watched") /\ hbLock = None
  /\ IF comp["operator"] \in hb THEN UNCHANGED beats ELSE Beat(comp["operator"])
  /\ Goto("operator", "none")
  /\ UNCHANGED <<registry, world, outcome, hbLock, beating>>

------------------------------------------------------------------------------
\* The runtime has just reached RUNNING with some engines registered; others
\* may follow.
Init ==
  /\ engines \in SUBSET Engines /\ hb = engines /\ probed = engines
  /\ misses = [c \in Components |-> 0]
  /\ attempts = [c \in Components |-> 0]
  /\ byHand = [c \in Components |-> 0]
  /\ stale = {} /\ sick = {} /\ overdue = {} /\ isolated = {}
  /\ tracked \in SUBSET Tasks
  /\ status = [c \in Engines |-> IF c \in engines THEN "RUNNING" ELSE "absent"]
  /\ phase = "RUNNING"
  /\ hbLock = None
  /\ loop = [t \in Handlers |-> "idle"]
  /\ step = [t \in Handlers |-> "none"]
  /\ comp = [t \in Handlers |-> None]
  /\ todo = [t \in Handlers |-> {}]
  /\ reported = [t \in Handlers |-> {}]
  /\ beating = {}
  /\ ops = 0

Environment ==
  \E c \in Components : FallSilent(c) \/ GetSick(c) \/ GetWell(c) \/ PassDeadline(c)

Handling(t) ==
  \/ OnFailure(t) \/ Recover(t) \/ Restart(t) \/ RestartBeat(t)
  \/ Isolate(t) \/ IsolateUnmonitor(t) \/ IsolateUnprobe(t) \/ Notify(t)

SupervisorThread ==
  \/ BeginCheck("supervisor") \/ EndCheck("supervisor") \/ Handling("supervisor")
  \/ \E c \in Components : CheckComponent("supervisor", c) \/ HandleReported(c)
  \/ CheckAll \/ EndSupervision

WatchdogThread ==
  \/ BeginCheck("watchdog") \/ EndCheck("watchdog") \/ Handling("watchdog")
  \/ \E c \in Components : CheckComponent("watchdog", c) \/ CheckTask(c)
  \/ EndWatch

SenderThread == BeginSend \/ \E c \in Engines : SendBeat(c)

OperatorCalls ==
  \/ \E c \in Engines : \/ RecoverEngine(c) \/ IsolateByHand(c) \/ Unisolate(c)
                        \/ UnregisterEngine(c) \/ RegisterEngine(c)
  \/ \E c \in Tasks : TrackTask(c) \/ UntrackTask(c)

CallSteps ==
  \/ ResetAttempts \/ UnregisterProbe \/ UnregisterHeartbeat
  \/ RegisterProbe \/ RegisterHeartbeat \/ Handling("operator")

Next ==
  \/ Environment \/ OperatorCalls \/ CallSteps
  \/ SupervisorThread \/ WatchdogThread \/ SenderThread

Spec == Init /\ [][Next]_vars

(***************************************************************************)
(* Each of the three loops runs for ever and a call that has started is    *)
(* carried on.  A thread is at one point of its code at a time, and the    *)
(* others release the heartbeat lock and wait seconds between two passes,  *)
(* so a thread waiting for the lock gets it: strong fairness of each       *)
(* thread.  Nothing is assumed of the environment or of the operator's     *)
(* decision to call.                                                       *)
(***************************************************************************)
Fairness ==
  /\ SF_vars(SupervisorThread) /\ SF_vars(WatchdogThread)
  /\ SF_vars(SenderThread) /\ SF_vars(CallSteps)

FairSpec == Spec /\ Fairness

------------------------------------------------------------------------------
(***************************************************************************)
(* Properties.                                                             *)
(***************************************************************************)
\* Types, and what the tables of the runtime are indexed by.
TypeOK ==
  /\ engines \subseteq Engines /\ hb \subseteq Engines /\ stale \subseteq hb
  /\ probed \subseteq Engines /\ sick \subseteq Engines \cup {System}
  /\ tracked \subseteq Tasks /\ overdue \subseteq tracked
  /\ isolated \subseteq Components
  /\ misses \in [Components -> 0 .. Threshold - 1]
  /\ attempts \in [Components -> Nat] /\ byHand \in [Components -> Nat]
  /\ status \in [Engines -> {"absent", "REGISTERED", "RUNNING", "FAILED"}]
  /\ phase \in {"RUNNING", "DEGRADED"}
  /\ hbLock \in Handlers \cup {None}
  /\ loop \in [Handlers -> Loops]
  /\ step \in [Handlers -> Steps]
  /\ comp \in [Handlers -> Components \cup {None}]
  /\ \A t \in Handlers : /\ (step[t] = "none") <=> (comp[t] = None)
                         /\ step[t] \in {"beat", "added", "watched"} => comp[t] \in Engines
  /\ todo \in [Handlers -> SUBSET Components]
  /\ reported \in [Handlers -> SUBSET Components]
  /\ beating \subseteq Engines
  /\ ops \in Nat

\* A handler has given up on c, or an operator asked for its isolation, and
\* Supervisor.isolate is about to add it.
BeingIsolated(c) == \E t \in Handlers : comp[t] = c /\ step[t] = "isolate"

\* unisolate(c) has taken c out of the isolated set and has still to reset its
\* attempts.
BeingReadmitted(c) == comp["operator"] = c /\ step["operator"] = "reset"

\* Recovery that is exhausted ends in isolation: a component on which the
\* supervision threads have spent more than max_attempts (recover_engine calls
\* not counted, they never isolate) is isolated, or on its way in or out.
\* (Supervisor._recover, RecoveryManager.recover, Supervisor.unisolate.)
ExhaustedIsIsolated ==
  \A c \in Components :
    attempts[c] > MaxAttempts + byHand[c]
      => c \in isolated \/ BeingIsolated(c) \/ BeingReadmitted(c)

\* No recovery loop: beyond max_attempts each of the two supervision threads
\* can start at most one more recovery, the one it had decided on before the
\* isolation of the component became visible to it.
NoRecoveryLoop ==
  \A c \in Components :
    BeingReadmitted(c) \/ attempts[c] <= MaxAttempts + byHand[c] + 2

\* An engine whose probe keeps failing is isolated in the end, whatever the
\* other threads do meanwhile; restarts that do not cure it are bounded.
SickEndsIsolated ==
  \A c \in Engines :
    c \in sick \cap probed ~> c \in isolated \/ c \notin sick \cap probed

\* A task over its deadline is eventually taken off the watchdog's list and
\* reported, although the watchdog shares the heartbeat lock and the handlers.
OverdueIsReported ==
  \A c \in Tasks : c \in overdue ~> c \notin overdue
=============================================================================
