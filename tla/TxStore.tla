------------------------------- MODULE TxStore -------------------------------
(***************************************************************************)
(* What the database promises a user of transactions: a store of committed *)
(* values, and for every open transaction the values it has written and    *)
(* nobody else sees.  A commit makes all of them the store's in one step,   *)
(* an abort or a crash drops all of them, and a crash never takes anything *)
(* from the store.  A transaction that has asked for its commit when the   *)
(* crash comes may be committed or dropped, but never half of it.           *)
(***************************************************************************)
CONSTANTS
    Txns,     \* the transactions
    Keys,     \* what they write
    None      \* no value

VARIABLES
    store,    \* the committed value of each key
    writes,   \* what each open transaction has written, None where it has not
    asked     \* the transactions whose commit is under way

vars == <<store, writes, asked>>

Nothing == [k \in Keys |-> None]

Init ==
    /\ \A k \in Keys : store[k] # None
    /\ writes = [t \in Txns |-> Nothing]
    /\ asked = {}

(* A key another transaction has written cannot be written. *)
Write(t, k) ==
    /\ t \notin asked
    /\ \A u \in Txns \ {t} : writes[u][k] = None
    /\ writes'[t][k] # None
    /\ writes' = [writes EXCEPT ![t][k] = writes'[t][k]]
    /\ UNCHANGED <<store, asked>>

Ask(t) ==
    /\ t \notin asked
    /\ asked' = asked \cup {t}
    /\ UNCHANGED <<store, writes>>

(* The values of all transactions of S at once. *)
Merged(S) ==
    [k \in Keys |-> IF \E t \in S : writes[t][k] # None
                    THEN writes[CHOOSE t \in S : writes[t][k] # None][k]
                    ELSE store[k]]

Commit(S) ==
    /\ store' = Merged(S)
    /\ writes' = [t \in Txns |-> IF t \in S THEN Nothing ELSE writes[t]]
    /\ asked' = asked \ S

Abort(t) ==
    /\ t \notin asked
    /\ writes' = [writes EXCEPT ![t] = Nothing]
    /\ UNCHANGED <<store, asked>>

Crash(S) ==
    /\ store' = Merged(S)
    /\ writes' = [t \in Txns |-> Nothing]
    /\ asked' = {}

Next ==
    \/ \E t \in Txns : Ask(t) \/ Abort(t) \/ \E k \in Keys : Write(t, k)
    \/ \E S \in SUBSET asked : Commit(S) \/ Crash(S)

Spec == Init /\ [][Next]_vars
=============================================================================
