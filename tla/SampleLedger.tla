---------------------------- MODULE SampleLedger ----------------------------
(***************************************************************************)
(* What the storage half of the archiver promises of the rows pushed into  *)
(* it, whatever the database does: each row is decided once, a row that is *)
(* reported written is in the database, and only a row the archiver holds  *)
(* can reach the database.                                                 *)
(***************************************************************************)
CONSTANT Rows

VARIABLES
  fate,    \* what is known of each row
  archive  \* the rows the database holds

ledger == <<fate, archive>>

Decisions == {"written", "lost", "pushed_back"}
Fates     == {"unseen", "held", "dropped"} \cup Decisions

Init ==
  /\ fate = [r \in Rows |-> "unseen"]
  /\ archive = {}

\* A producer pushes a row: it is held, or dropped at once.
Accept(r) ==
  /\ fate[r] = "unseen"
  /\ \E f \in {"held", "dropped"} : fate' = [fate EXCEPT ![r] = f]
  /\ UNCHANGED archive

\* Held rows are decided, and the database commits held rows.  A row may be
\* given up on in the step in which the abandoned COPY commits it.
Progress ==
  /\ fate' \in [Rows -> Fates]
  /\ \A r \in Rows : fate'[r] # fate[r] =>
       /\ fate[r] = "held" /\ fate'[r] \in Decisions
       /\ fate'[r] = "written" => r \in archive
  /\ archive \subseteq archive'
  /\ \A r \in archive' \ archive : fate[r] = "held"

Next == Progress \/ \E r \in Rows : Accept(r)

Spec == Init /\ [][Next]_ledger
============================================================================
