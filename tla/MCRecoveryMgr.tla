---------------------------- MODULE MCRecoveryMgr ----------------------------
(* Small instances of RecoveryMgr for TLC. *)
EXTENDS RecoveryMgr, TLC

CONSTANTS A, B      \* two pages

OnePage == {A}
TwoPages == {A, B}

\* The pages are interchangeable.
PageSymmetry == Permutations(Pages)
=============================================================================
