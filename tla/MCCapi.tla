------------------------------- MODULE MCCapi -------------------------------
(***************************************************************************)
(* Calls and their indications between the CAPI device and its             *)
(* applications.                                                           *)
(***************************************************************************)
EXTENDS CapiCall, TLC

LineDef ==
  {{"close"}, {"nt", "hold"}, {"hold"}, {"nt", "daemon"}, {"lose", "daemon"}, {"nt", "two"}}

Sym == Permutations(Apps) \cup Permutations(Calls)
=============================================================================
