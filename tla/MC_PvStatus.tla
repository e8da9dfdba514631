---------------------------- MODULE MC_PvStatus ----------------------------
(***************************************************************************)
(* One PV: no rule relates two PVs, and a loop spawned for others is an    *)
(* initial state of its own.  Two loops, so that one can be dead while the *)
(* PV is subscribed on the other; batches of one are bulk batches.         *)
(***************************************************************************)
EXTENDS PvStatus

=============================================================================
