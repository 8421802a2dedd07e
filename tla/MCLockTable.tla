----------------------------- MODULE MCLockTable -----------------------------
(***************************************************************************)
(* Small instances of LockTable.                                           *)
(***************************************************************************)
EXTENDS LockTable, TLC

CONSTANTS T1, T2, T3, A, B

TwoTxns == {T1, T2}
ThreeTxns == {T1, T2, T3}
OneBlock == {A}
TwoBlocks == {A, B}

TxnSymmetry == Permutations({T1, T2, T3})
=============================================================================
