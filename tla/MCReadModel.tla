---------------------------- MODULE MCReadModel ----------------------------
(***************************************************************************)
(* An instance of ReadModel: the event store, whose table has a key, and   *)
(* one log whose table has none.                                           *)
(***************************************************************************)
EXTENDS ReadModel, CheckPages, AgentSync

CONSTANTS events, usage

MCStreams == <<events, usage>>
MCModelOf == [line \in 1 .. MaxLines |-> line % 2]
=============================================================================
