------------------------------ MODULE MCLogMgr ------------------------------
(* Small instances of LogMgr for TLC. *)
EXTENDS LogMgr, TLC

CONSTANTS t1, t2    \* two goroutines

TwoThreads == {t1, t2}

\* The goroutines are interchangeable.
ThreadSymmetry == Permutations(Threads)
=============================================================================
