----------------------------- MODULE MC_Alerts -----------------------------
EXTENDS Alerts, TLC

Symmetry == Permutations(Operators)
=============================================================================
