-------------------------- MODULE MaterializedView --------------------------
(***************************************************************************)
(* What a reader of a projection may rely on: a view follows a source that *)
(* grows and is cut.  Bringing the view up to date never takes away a line *)
(* that the source still has; only a rebuild does, which starts from       *)
(* nothing, and which is visible as such.                                  *)
(***************************************************************************)
VARIABLES
  produced,  \* every line there has been
  source,    \* the lines that the view has to show
  view,      \* the lines that the view shows
  building   \* a rebuild has dropped the view and has not settled it yet

vars == <<produced, source, view, building>>

Init == produced = {} /\ source = {} /\ view = {} /\ building = FALSE

Produce ==
  /\ produced \subseteq produced'
  /\ source' \subseteq source \cup (produced' \ produced)
  /\ UNCHANGED <<view, building>>

\* A line may leave the source in the same step, but none of those that stay is lost.
Refresh ==
  /\ source \cap source' \cap view \subseteq view' /\ view' \subseteq produced
  /\ source' \subseteq produced
  /\ UNCHANGED <<produced, building>>

Discard ==
  /\ view' = {} /\ building' = TRUE
  /\ UNCHANGED <<produced, source>>

Settle ==
  /\ building /\ building' = FALSE
  /\ view \subseteq view' /\ view' \subseteq produced
  /\ source' \subseteq produced
  /\ UNCHANGED produced

Next == Produce \/ Refresh \/ Discard \/ Settle

Spec == Init /\ [][Next]_vars
=============================================================================
