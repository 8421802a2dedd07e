----------------------------- MODULE DurableLog -----------------------------
(***************************************************************************)
(* What a write-ahead log promises its users: a sequence of records that   *)
(* only grows at its end, of which a prefix is durable.  A crash may lose   *)
(* records behind that prefix, but none within it, and leaves no hole and  *)
(* nothing that was not appended.  LogMgr implements this promise and      *)
(* RecoveryMgr relies on it; both are related to it by refinement.         *)
(***************************************************************************)
EXTENDS Naturals, Sequences

VARIABLES
    records,  \* the records of the log, oldest first
    durable   \* how many of them survive whatever happens

vars == <<records, durable>>

Init == records = <<>> /\ durable = 0

(* One record more at the end. *)
Extend ==
    /\ Len(records') = Len(records) + 1
    /\ SubSeq(records', 1, Len(records)) = records
    /\ durable' = durable

(* A flush has returned. *)
Sync ==
    /\ durable' \in (durable + 1) .. Len(records)
    /\ UNCHANGED records

(* What is left after a crash is on disk, and so it is durable. *)
Crash ==
    \E n \in durable .. Len(records) :
        /\ records' = SubSeq(records, 1, n)
        /\ durable' = n

Next == Extend \/ Sync \/ Crash

Spec == Init /\ [][Next]_vars
=============================================================================
