---------------------------- MODULE MCBufferMgr ----------------------------
(* A small pool for TLC: one block of three has two references. *)
EXTENDS BufferMgr, TLC

CONSTANTS t1, t2, f1, f2, A, B, C, refA, refA2, refB, refC

MCTxns == {t1, t2}
MCBufs == {f1, f2}
MCBlocks == {A, B, C}
MCRefs == {refA, refA2, refB, refC}
MCBlockOf == refA :> A @@ refA2 :> A @@ refB :> B @@ refC :> C
=============================================================================
