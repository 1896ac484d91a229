---------------------------- MODULE MCMemoryStore ----------------------------
(***************************************************************************)
(* Two commands or API calls beside the runtime's engine.                  *)
(***************************************************************************)
EXTENDS MemoryStore, TLC

CONSTANTS a, b, runtime

\* Only safety is checked.
CommandsAlike == Permutations({a, b})
=============================================================================
