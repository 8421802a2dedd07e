------------------------------- MODULE RWLock -------------------------------
(***************************************************************************)
(* What the lock manager of internal/trx/concurrency promises to its       *)
(* transactions: shared and exclusive locks on blocks, and the upgrade of  *)
(* a shared lock by its only holder.                                       *)
(***************************************************************************)
CONSTANTS Txns, Blocks

VARIABLE held       \* "none", "S" or "X" for each transaction and block

Unlocked == [x \in Txns \X Blocks |-> "none"]
OthersOf(t, b) == {x \in Txns \X Blocks : x[2] = b /\ x[1] # t /\ held[x] # "none"}

Init == held = Unlocked

Share(t, b) ==
    /\ held[<<t, b>>] = "none"
    /\ \A x \in OthersOf(t, b) : held[x] = "S"
    /\ held' = [held EXCEPT ![<<t, b>>] = "S"]

Exclude(t, b) ==
    /\ held[<<t, b>>] # "X"
    /\ OthersOf(t, b) = {}
    /\ held' = [held EXCEPT ![<<t, b>>] = "X"]

GiveUp(t, b) ==
    /\ held[<<t, b>>] # "none"
    /\ held' = [held EXCEPT ![<<t, b>>] = "none"]

Next == \E t \in Txns, b \in Blocks : Share(t, b) \/ Exclude(t, b) \/ GiveUp(t, b)

Spec == Init /\ [][Next]_held
=============================================================================
