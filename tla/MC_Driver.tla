----------------------------- MODULE MC_Driver -----------------------------
(***************************************************************************)
(* One IOC that hosts every PV: all the races of the driver are between    *)
(* calls, event loops and sessions of the same IOC.                        *)
(***************************************************************************)
EXTENDS Driver, TLC

MCServes == [i \in IOCs |-> PVs]

Symmetry == Permutations(PVs)
============================================================================
