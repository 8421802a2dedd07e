---------------------------- MODULE MCTableScan ----------------------------
(* Two or three transactions on a small table, for TLC. *)
EXTENDS TableScan

CONSTANTS t1, t2

MCTxns == {t1, t2}
=============================================================================
