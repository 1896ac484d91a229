------------------------- MODULE MCRuntimeLifecycle -------------------------
(***************************************************************************)
(* Two engines, registered in an order that is not that of their           *)
(* dependencies: one depends on the other, or each on the other.           *)
(***************************************************************************)
EXTENDS RuntimeLifecycle, CheckWorkflow

CONSTANTS a, b

MCRegistered == <<a, b>>

MCGraphs == {[e \in Engines |-> IF e = a THEN {b} ELSE {}],
             [e \in Engines |-> IF e = a THEN {b} ELSE IF e = b THEN {a} ELSE {}]}

\* Two of the workers: one whose passes only need its own lock, and a monitor.
MCWorkers == <<"scheduler", "supervisor">>
=============================================================================
