----------------------------- MODULE MC_Ingest -----------------------------
(***************************************************************************)
(* p1 is subscribed at the start, p2 can be added later.                   *)
(***************************************************************************)
EXTENDS Ingest

CONSTANTS p1, p2

MCInitial == {p1}

MCBeats == {-1, 0}

ScalarAndString == p1 :> "scalar" @@ p2 :> "string"
=============================================================================
