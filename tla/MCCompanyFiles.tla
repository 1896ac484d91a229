---------------------------- MODULE MCCompanyFiles --------------------------
(***************************************************************************)
(* Company.cfg's instance of CompanyFiles, with the checks of the charts   *)
(* and of the generation plans.                                            *)
(***************************************************************************)
EXTENDS CompanyFiles, CheckChart, CheckGenerationGraph, TLC

Threads == Permutations(Callers)
=============================================================================
