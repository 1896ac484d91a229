--------------------------- MODULE MCDecisionInbox ---------------------------
(***************************************************************************)
(* Two roles, one above the other.  Decisions of the lower one need an     *)
(* approval, and so do those without an owner, which a policy then gives   *)
(* one; the others are approved by whoever asks first.                     *)
(***************************************************************************)
EXTENDS DecisionInbox, DecisionScoring, TLC

CONSTANTS manager, board, requester

MCSuperior == manager :> board
MCRules == <<[owners |-> {board}, approval |-> FALSE],
             [owners |-> {manager, Nobody}, approval |-> TRUE]>>
MCPolicies == <<[owners |-> {Nobody}, action |-> manager]>>

\* Callers are interchangeable; only invariants are checked.
Symmetry == Permutations(Callers)
=============================================================================
