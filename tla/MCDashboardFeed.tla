------------------------- MODULE MCDashboardFeed -------------------------
(* Two threads on the bus, one standing subscriber before the dashboard's. *)
EXTENDS DashboardFeed, TLC
CONSTANT ledger
MCStanding == <<ledger>>
CallersAlike == Permutations(Callers)
=============================================================================
