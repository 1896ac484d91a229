--------------------------- MODULE MCJobScheduler ---------------------------
(***************************************************************************)
(* An instance of JobScheduler: a configured recurring job, an event job,  *)
(* and a job that depends on it and runs once.                             *)
(***************************************************************************)
EXTENDS JobScheduler

CONSTANTS every, after, onEvent, t1, t2, p

MCKind == [j \in Jobs |-> CASE j = every -> "recurring" [] j = after -> "dependency"
                            [] OTHER -> "event"]
MCInterval == [j \in Jobs |-> 1]
MCDeps == [j \in Jobs |-> IF j = after THEN {onEvent} ELSE {}]
MCMaxRuns == [j \in Jobs |-> IF j = after THEN 1 ELSE 0]
=============================================================================
