-------------------------- MODULE SupervisionProofs --------------------------
(***************************************************************************)
(* Proofs about Supervision, for every set of engines and tasks and every  *)
(* limit: type correctness, that an exhausted recovery ends in isolation,  *)
(* and that there is no recovery loop.                                     *)
(***************************************************************************)
EXTENDS Supervision, TLAPS

USE DEF Components, Handlers, Loops, Steps, registry, recovery, beats, world, outcome,
        control, At, Goto, Fail, Beat, Unmonitor, StartCall, InCall

\* Every table of the runtime keeps its type: what is monitored, probed and
\* beaten for is an engine, the miss count of a component stays below the
\* threshold at which check() declares it failed.
THEOREM TypeCorrect == Spec => []TypeOK
<1>1. Init => TypeOK
  BY SupervisionAssumption DEF Init, TypeOK
<1>2. TypeOK /\ [Next]_vars => TypeOK'
  <2> SUFFICES ASSUME TypeOK, [Next]_vars PROVE TypeOK'
    OBVIOUS
  <2> USE SupervisionAssumption DEF TypeOK
  <2>1. ASSUME NEW c \in Components, FallSilent(c) PROVE TypeOK'
    BY <2>1 DEF FallSilent
  <2>2. ASSUME NEW c \in Components, GetSick(c) PROVE TypeOK'
    BY <2>2 DEF GetSick
  <2>3. ASSUME NEW c \in Components, GetWell(c) PROVE TypeOK'
    BY <2>3 DEF GetWell
  <2>4. ASSUME NEW c \in Components, PassDeadline(c) PROVE TypeOK'
    BY <2>4 DEF PassDeadline
  <2>5. ASSUME NEW t \in Handlers, OnFailure(t) PROVE TypeOK'
    BY <2>5 DEF OnFailure
  <2>6. ASSUME NEW t \in Handlers, Recover(t) PROVE TypeOK'
    BY <2>6 DEF Recover, GiveUp
  <2>7. ASSUME NEW t \in Handlers, Restart(t) PROVE TypeOK'
    BY <2>7 DEF Restart, GiveUp
  <2>8. ASSUME NEW t \in Handlers, RestartBeat(t) PROVE TypeOK'
    BY <2>8 DEF RestartBeat
  <2>9. ASSUME NEW t \in Handlers, Isolate(t) PROVE TypeOK'
    BY <2>9 DEF Isolate
  <2>10. ASSUME NEW t \in Handlers, IsolateUnmonitor(t) PROVE TypeOK'
    BY <2>10 DEF IsolateUnmonitor
  <2>11. ASSUME NEW t \in Handlers, IsolateUnprobe(t) PROVE TypeOK'
    BY <2>11 DEF IsolateUnprobe
  <2>12. ASSUME NEW t \in Handlers, Notify(t) PROVE TypeOK'
    BY <2>12 DEF Notify
  <2>13. ASSUME NEW t \in Handlers, BeginCheck(t) PROVE TypeOK'
    BY <2>13 DEF BeginCheck
  <2>14. ASSUME NEW t \in Handlers, EndCheck(t) PROVE TypeOK'
    BY <2>14 DEF EndCheck
  <2>15. ASSUME NEW t \in Handlers, NEW c \in Components, CheckComponent(t, c)
       PROVE  TypeOK'
    BY <2>15 DEF CheckComponent, Declared
  <2>16. ASSUME NEW c \in Components, HandleReported(c) PROVE TypeOK'
    BY <2>16 DEF HandleReported
  <2>17. ASSUME NEW c \in Components, CheckTask(c) PROVE TypeOK'
    BY <2>17 DEF CheckTask
  <2>18. CASE CheckAll
    BY <2>18 DEF CheckAll
  <2>19. CASE EndSupervision
    BY <2>19 DEF EndSupervision
  <2>20. CASE EndWatch
    BY <2>20 DEF EndWatch
  <2>21. CASE BeginSend
    BY <2>21 DEF BeginSend
  <2>22. CASE ResetAttempts
    BY <2>22 DEF ResetAttempts
  <2>23. CASE UnregisterProbe
    BY <2>23 DEF UnregisterProbe
  <2>24. CASE UnregisterHeartbeat
    BY <2>24 DEF UnregisterHeartbeat
  <2>25. CASE RegisterProbe
    BY <2>25 DEF RegisterProbe
  <2>26. CASE RegisterHeartbeat
    BY <2>26 DEF RegisterHeartbeat
  <2>27. ASSUME NEW c \in Engines, SendBeat(c) PROVE TypeOK'
    BY <2>27 DEF SendBeat
  <2>28. ASSUME NEW c \in Engines, RecoverEngine(c) PROVE TypeOK'
    BY <2>28 DEF RecoverEngine
  <2>29. ASSUME NEW c \in Engines, IsolateByHand(c) PROVE TypeOK'
    BY <2>29 DEF IsolateByHand
  <2>30. ASSUME NEW c \in Engines, Unisolate(c) PROVE TypeOK'
    BY <2>30 DEF Unisolate
  <2>31. ASSUME NEW c \in Engines, UnregisterEngine(c) PROVE TypeOK'
    BY <2>31 DEF UnregisterEngine
  <2>32. ASSUME NEW c \in Engines, RegisterEngine(c) PROVE TypeOK'
    BY <2>32 DEF RegisterEngine
  <2>33. ASSUME NEW c \in Tasks, TrackTask(c) PROVE TypeOK'
    BY <2>33 DEF TrackTask
  <2>34. ASSUME NEW c \in Tasks, UntrackTask(c) PROVE TypeOK'
    BY <2>34 DEF UntrackTask
  <2>35. CASE UNCHANGED vars
    BY <2>35 DEF vars
  <2> QED
    BY <2>1, <2>2, <2>3, <2>4, <2>5, <2>6, <2>7, <2>8, <2>9, <2>10, <2>11, <2>12,
       <2>13, <2>14, <2>15, <2>16, <2>17, <2>18, <2>19, <2>20, <2>21, <2>22, <2>23, <2>24,
       <2>25, <2>26, <2>27, <2>28, <2>29, <2>30, <2>31, <2>32, <2>33, <2>34, <2>35
    DEF Next, Environment, OperatorCalls, CallSteps, SupervisorThread, WatchdogThread,
        SenderThread, Handling
<1>. QED
  BY <1>1, <1>2, PTL DEF Spec

------------------------------------------------------------------------------
\* _recover isolates what recover() gave up on: a component on which more than
\* max_attempts recoveries were spent is isolated, or about to be, or is just
\* being re-admitted.
THEOREM ExhaustedEndsIsolated == Spec => []ExhaustedIsIsolated
<1>1. Init => ExhaustedIsIsolated
  BY SupervisionAssumption DEF Init, ExhaustedIsIsolated
<1>2. TypeOK /\ ExhaustedIsIsolated /\ [Next]_vars => ExhaustedIsIsolated'
  <2> SUFFICES ASSUME TypeOK, ExhaustedIsIsolated, [Next]_vars PROVE ExhaustedIsIsolated'
    OBVIOUS
  <2> USE SupervisionAssumption DEF TypeOK, ExhaustedIsIsolated, BeingIsolated, BeingReadmitted
  <2>1. ASSUME NEW c \in Components, FallSilent(c) PROVE ExhaustedIsIsolated'
    BY <2>1 DEF FallSilent
  <2>2. ASSUME NEW c \in Components, GetSick(c) PROVE ExhaustedIsIsolated'
    BY <2>2 DEF GetSick
  <2>3. ASSUME NEW c \in Components, GetWell(c) PROVE ExhaustedIsIsolated'
    BY <2>3 DEF GetWell
  <2>4. ASSUME NEW c \in Components, PassDeadline(c) PROVE ExhaustedIsIsolated'
    BY <2>4 DEF PassDeadline
  <2>5. ASSUME NEW t \in Handlers, OnFailure(t) PROVE ExhaustedIsIsolated'
    BY <2>5 DEF OnFailure
  <2>6. ASSUME NEW t \in Handlers, Recover(t) PROVE ExhaustedIsIsolated'
    BY <2>6 DEF Recover, GiveUp
  <2>7. ASSUME NEW t \in Handlers, Restart(t) PROVE ExhaustedIsIsolated'
    BY <2>7 DEF Restart, GiveUp
  <2>8. ASSUME NEW t \in Handlers, RestartBeat(t) PROVE ExhaustedIsIsolated'
    BY <2>8 DEF RestartBeat
  <2>9. ASSUME NEW t \in Handlers, Isolate(t) PROVE ExhaustedIsIsolated'
    BY <2>9 DEF Isolate
  <2>10. ASSUME NEW t \in Handlers, IsolateUnmonitor(t) PROVE ExhaustedIsIsolated'
    BY <2>10 DEF IsolateUnmonitor
  <2>11. ASSUME NEW t \in Handlers, IsolateUnprobe(t) PROVE ExhaustedIsIsolated'
    BY <2>11 DEF IsolateUnprobe
  <2>12. ASSUME NEW t \in Handlers, Notify(t) PROVE ExhaustedIsIsolated'
    BY <2>12 DEF Notify
  <2>13. ASSUME NEW t \in Handlers, BeginCheck(t) PROVE ExhaustedIsIsolated'
    BY <2>13 DEF BeginCheck
  <2>14. ASSUME NEW t \in Handlers, EndCheck(t) PROVE ExhaustedIsIsolated'
    BY <2>14 DEF EndCheck
  <2>15. ASSUME NEW t \in Handlers, NEW c \in Components, CheckComponent(t, c)
       PROVE  ExhaustedIsIsolated'
    BY <2>15 DEF CheckComponent, Declared
  <2>16. ASSUME NEW c \in Components, HandleReported(c) PROVE ExhaustedIsIsolated'
    BY <2>16 DEF HandleReported
  <2>17. ASSUME NEW c \in Components, CheckTask(c) PROVE ExhaustedIsIsolated'
    BY <2>17 DEF CheckTask
  <2>18. CASE CheckAll
    BY <2>18 DEF CheckAll
  <2>19. CASE EndSupervision
    BY <2>19 DEF EndSupervision
  <2>20. CASE EndWatch
    BY <2>20 DEF EndWatch
  <2>21. CASE BeginSend
    BY <2>21 DEF BeginSend
  <2>22. CASE ResetAttempts
    BY <2>22 DEF ResetAttempts
  <2>23. CASE UnregisterProbe
    BY <2>23 DEF UnregisterProbe
  <2>24. CASE UnregisterHeartbeat
    BY <2>24 DEF UnregisterHeartbeat
  <2>25. CASE RegisterProbe
    BY <2>25 DEF RegisterProbe
  <2>26. CASE RegisterHeartbeat
    BY <2>26 DEF RegisterHeartbeat
  <2>27. ASSUME NEW c \in Engines, SendBeat(c) PROVE ExhaustedIsIsolated'
    BY <2>27 DEF SendBeat
  <2>28. ASSUME NEW c \in Engines, RecoverEngine(c) PROVE ExhaustedIsIsolated'
    BY <2>28 DEF RecoverEngine
  <2>29. ASSUME NEW c \in Engines, IsolateByHand(c) PROVE ExhaustedIsIsolated'
    BY <2>29 DEF IsolateByHand
  <2>30. ASSUME NEW c \in Engines, Unisolate(c) PROVE ExhaustedIsIsolated'
    BY <2>30 DEF Unisolate
  <2>31. ASSUME NEW c \in Engines, UnregisterEngine(c) PROVE ExhaustedIsIsolated'
    BY <2>31 DEF UnregisterEngine
  <2>32. ASSUME NEW c \in Engines, RegisterEngine(c) PROVE ExhaustedIsIsolated'
    BY <2>32 DEF RegisterEngine
  <2>33. ASSUME NEW c \in Tasks, TrackTask(c) PROVE ExhaustedIsIsolated'
    BY <2>33 DEF TrackTask
  <2>34. ASSUME NEW c \in Tasks, UntrackTask(c) PROVE ExhaustedIsIsolated'
    BY <2>34 DEF UntrackTask
  <2>35. CASE UNCHANGED vars
    BY <2>35 DEF vars
  <2> QED
    BY <2>1, <2>2, <2>3, <2>4, <2>5, <2>6, <2>7, <2>8, <2>9, <2>10, <2>11, <2>12,
       <2>13, <2>14, <2>15, <2>16, <2>17, <2>18, <2>19, <2>20, <2>21, <2>22, <2>23, <2>24,
       <2>25, <2>26, <2>27, <2>28, <2>29, <2>30, <2>31, <2>32, <2>33, <2>34, <2>35
    DEF Next, Environment, OperatorCalls, CallSteps, SupervisorThread, WatchdogThread,
        SenderThread, Handling
<1>. QED
  BY <1>1, <1>2, TypeCorrect, PTL DEF Spec

------------------------------------------------------------------------------
(***************************************************************************)
(* NoRecoveryLoop is not inductive: it does not say what the threads still *)
(* intend to do.  In AttemptsAccounted each attempt beyond the limit is    *)
(* accounted for by a supervision thread: by one about to isolate the      *)
(* component while it is not isolated, and, once it is, by one of the two  *)
(* units that threads past the _is_isolated test may still spend.          *)
(***************************************************************************)
\* How many of the two supervision threads are at step s about component c.
Busy(s, c) ==
  (IF step["watchdog"] = s /\ comp["watchdog"] = c THEN 1 ELSE 0)
    + (IF step["supervisor"] = s /\ comp["supervisor"] = c THEN 1 ELSE 0)

AttemptsAccounted ==
  \A c \in Components :
    \/ BeingReadmitted(c)
    \/ c \notin isolated /\ attempts[c] <= MaxAttempts + byHand[c] + Busy("isolate", c)
    \/ c \in isolated /\ attempts[c] + Busy("recover", c) <= MaxAttempts + byHand[c] + 2

\* Beyond max_attempts each supervision thread starts at most one more recovery
\* of a component, whatever the interleaving of isolate, unisolate, the manual
\* calls and the two loops.
THEOREM RecoveryIsBounded == Spec => []NoRecoveryLoop
<1>1. Init => AttemptsAccounted
  BY SupervisionAssumption DEF Init, AttemptsAccounted, Busy
<1>2. TypeOK /\ AttemptsAccounted /\ [Next]_vars => AttemptsAccounted'
  <2> SUFFICES ASSUME TypeOK, AttemptsAccounted, [Next]_vars PROVE AttemptsAccounted'
    OBVIOUS
  <2> USE SupervisionAssumption DEF TypeOK, AttemptsAccounted, BeingReadmitted, Busy
  <2>1. ASSUME NEW c \in Components, FallSilent(c) PROVE AttemptsAccounted'
    BY <2>1 DEF FallSilent
  <2>2. ASSUME NEW c \in Components, GetSick(c) PROVE AttemptsAccounted'
    BY <2>2 DEF GetSick
  <2>3. ASSUME NEW c \in Components, GetWell(c) PROVE AttemptsAccounted'
    BY <2>3 DEF GetWell
  <2>4. ASSUME NEW c \in Components, PassDeadline(c) PROVE AttemptsAccounted'
    BY <2>4 DEF PassDeadline
  <2>5. ASSUME NEW t \in Handlers, OnFailure(t) PROVE AttemptsAccounted'
    BY <2>5 DEF OnFailure
  <2>6. ASSUME NEW t \in Handlers, Recover(t) PROVE AttemptsAccounted'
    BY <2>6 DEF Recover, GiveUp
  <2>7. ASSUME NEW t \in Handlers, Restart(t) PROVE AttemptsAccounted'
    BY <2>7 DEF Restart, GiveUp
  <2>8. ASSUME NEW t \in Handlers, RestartBeat(t) PROVE AttemptsAccounted'
    BY <2>8 DEF RestartBeat
  <2>9. ASSUME NEW t \in Handlers, Isolate(t) PROVE AttemptsAccounted'
    BY <2>9 DEF Isolate
  <2>10. ASSUME NEW t \in Handlers, IsolateUnmonitor(t) PROVE AttemptsAccounted'
    BY <2>10 DEF IsolateUnmonitor
  <2>11. ASSUME NEW t \in Handlers, IsolateUnprobe(t) PROVE AttemptsAccounted'
    BY <2>11 DEF IsolateUnprobe
  <2>12. ASSUME NEW t \in Handlers, Notify(t) PROVE AttemptsAccounted'
    BY <2>12 DEF Notify
  <2>13. ASSUME NEW t \in Handlers, BeginCheck(t) PROVE AttemptsAccounted'
    BY <2>13 DEF BeginCheck
  <2>14. ASSUME NEW t \in Handlers, EndCheck(t) PROVE AttemptsAccounted'
    BY <2>14 DEF EndCheck
  <2>15. ASSUME NEW t \in Handlers, NEW c \in Components, CheckComponent(t, c)
       PROVE  AttemptsAccounted'
    BY <2>15 DEF CheckComponent, Declared
  <2>16. ASSUME NEW c \in Components, HandleReported(c) PROVE AttemptsAccounted'
    BY <2>16 DEF HandleReported
  <2>17. ASSUME NEW c \in Components, CheckTask(c) PROVE AttemptsAccounted'
    BY <2>17 DEF CheckTask
  <2>18. CASE CheckAll
    BY <2>18 DEF CheckAll
  <2>19. CASE EndSupervision
    BY <2>19 DEF EndSupervision
  <2>20. CASE EndWatch
    BY <2>20 DEF EndWatch
  <2>21. CASE BeginSend
    BY <2>21 DEF BeginSend
  <2>22. CASE ResetAttempts
    BY <2>22 DEF ResetAttempts
  <2>23. CASE UnregisterProbe
    BY <2>23 DEF UnregisterProbe
  <2>24. CASE UnregisterHeartbeat
    BY <2>24 DEF UnregisterHeartbeat
  <2>25. CASE RegisterProbe
    BY <2>25 DEF RegisterProbe
  <2>26. CASE RegisterHeartbeat
    BY <2>26 DEF RegisterHeartbeat
  <2>27. ASSUME NEW c \in Engines, SendBeat(c) PROVE AttemptsAccounted'
    BY <2>27 DEF SendBeat
  <2>28. ASSUME NEW c \in Engines, RecoverEngine(c) PROVE AttemptsAccounted'
    BY <2>28 DEF RecoverEngine
  <2>29. ASSUME NEW c \in Engines, IsolateByHand(c) PROVE AttemptsAccounted'
    BY <2>29 DEF IsolateByHand
  <2>30. ASSUME NEW c \in Engines, Unisolate(c) PROVE AttemptsAccounted'
    BY <2>30 DEF Unisolate
  <2>31. ASSUME NEW c \in Engines, UnregisterEngine(c) PROVE AttemptsAccounted'
    BY <2>31 DEF UnregisterEngine
  <2>32. ASSUME NEW c \in Engines, RegisterEngine(c) PROVE AttemptsAccounted'
    BY <2>32 DEF RegisterEngine
  <2>33. ASSUME NEW c \in Tasks, TrackTask(c) PROVE AttemptsAccounted'
    BY <2>33 DEF TrackTask
  <2>34. ASSUME NEW c \in Tasks, UntrackTask(c) PROVE AttemptsAccounted'
    BY <2>34 DEF UntrackTask
  <2>35. CASE UNCHANGED vars
    BY <2>35 DEF vars
  <2> QED
    BY <2>1, <2>2, <2>3, <2>4, <2>5, <2>6, <2>7, <2>8, <2>9, <2>10, <2>11, <2>12,
       <2>13, <2>14, <2>15, <2>16, <2>17, <2>18, <2>19, <2>20, <2>21, <2>22, <2>23, <2>24,
       <2>25, <2>26, <2>27, <2>28, <2>29, <2>30, <2>31, <2>32, <2>33, <2>34, <2>35
    DEF Next, Environment, OperatorCalls, CallSteps, SupervisorThread, WatchdogThread,
        SenderThread, Handling
<1>3. TypeOK /\ AttemptsAccounted => NoRecoveryLoop
  BY SupervisionAssumption DEF TypeOK, AttemptsAccounted, NoRecoveryLoop, Busy
<1>. QED
  BY <1>1, <1>2, <1>3, TypeCorrect, PTL DEF Spec
=============================================================================
