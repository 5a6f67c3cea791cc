------------------------- MODULE MCReconcileLease -------------------------
(* Instances of ReconcileLease for TLC: the runs are alike.                  *)
EXTENDS ReconcileLease, TLC

Symmetry == Permutations(Runs)
=============================================================================
