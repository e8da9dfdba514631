----------------------------- MODULE MC_Discover -----------------------------
(***************************************************************************)
(* One server that hosts both PVs: what can be missed depends on the order *)
(* of edits, polls and commands, not on how many servers answer.           *)
(***************************************************************************)
EXTENDS Discover, TLC

MCServes == [i \in IOCs |-> PVs]

Symmetry == Permutations(PVs)
=============================================================================
