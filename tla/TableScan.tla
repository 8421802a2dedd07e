------------------------------ MODULE TableScan ------------------------------
(***************************************************************************)
(* Transactions that scan one table: internal/tablescan on                 *)
(* internal/recordpage, with the locks that internal/trx/access takes      *)
(* under LockStrict2PL for each Get, Set, Size and Append.  The locks are  *)
(* those RWLock promises, which LockTable implements.                      *)
(*                                                                         *)
(* Of a record only its slot's flag is kept.  Commit and Rollback, whose   *)
(* steps are in RecoveryMgr, are one step here, as the transaction holds   *)
(* its locks until their end.  A caller that gets an error rolls back.     *)
(***************************************************************************)
EXTENDS Integers, FiniteSets

CONSTANTS
    Txns,
    None,
    MaxBlocks,  \* bound: blocks of the file; the disk is full then
    Slots       \* slots of a block: how often SlotSize fits its data

ASSUME SlotsAssumption == MaxBlocks \in Nat /\ Slots \in Nat \ {0}
ASSUME NoneAssumption == None \notin 0 .. MaxBlocks - 1

VARIABLES
    size,       \* blocks of the file
    used,       \* the RIDs whose flag is Used
    committed,  \* those of the last commits
    held,       \* the locks
    op,         \* the call each transaction is in
    scan,       \* its TableScan: block and current slot
    undo,       \* the flags its rollback puts back
    seen        \* the RIDs Next returned since BeforeFirst, and whether these are all

vars == <<size, used, committed, held, op, scan, undo, seen>>

Blocks == 0 .. MaxBlocks - 1
EndOfFile == -1
RIDs == Blocks \X (0 .. Slots - 1)

Locks == INSTANCE RWLock WITH Blocks <- Blocks \cup {EndOfFile}

Idle == [kind |-> None, pc |-> "idle"]
NoScan == [blk |-> None, slot |-> -1]
Unknown == [rids |-> {}, scope |-> "other"]
Nothing == [rids |-> {}, scope |-> "fresh"]

(* The file is empty, or has a block with records of earlier transactions. *)
Init ==
    /\ size \in {n \in {0, 1} : n <= MaxBlocks}
    /\ used \in SUBSET {r \in RIDs : r[1] < size}
    /\ committed = used
    /\ held = Locks!Unlocked
    /\ op = [t \in Txns |-> Idle]
    /\ scan = [t \in Txns |-> NoScan]
    /\ undo = [t \in Txns |-> {}]
    /\ seen = [t \in Txns |-> Unknown]

-----------------------------------------------------------------------------
(* Locks.  A lock that is held already is not asked for again. *)

SLock(t, b) ==
    IF held[<<t, b>>] # "none" THEN UNCHANGED held ELSE Locks!Share(t, b)

XLock(t, b) ==
    IF held[<<t, b>>] = "X" THEN UNCHANGED held ELSE Locks!Exclude(t, b)

\* Mutant of SLockGet: the lock of a Get is given back at once (LockReadCommitted).
SLockGetReleased(t, b) ==
    /\ \A x \in Locks!OthersOf(t, b) : held[x] = "S"
    /\ held' = [held EXCEPT ![<<t, b>>] = "none"]

(* Get of a slot's flag. *)
SLockGet(t, b) == SLock(t, b)

\* Mutant of SLockSize: the size of the file is read without a lock.
SLockSizeNot(t) == UNCHANGED held
(* Size locks the block behind the end of the file. *)
SLockSize(t) == SLock(t, EndOfFile)

Goto(t, pc) == op' = [op EXCEPT ![t].pc = pc]
Return(t) == op' = [op EXCEPT ![t] = Idle]
Call(t, kind, pc) ==
    /\ op[t].pc = "idle" /\ scan[t].blk # None
    /\ op' = [op EXCEPT ![t] = [kind |-> kind, pc |-> pc]]

(* A Set of a flag, with the value the log keeps of it. *)
Change(t, r, to) ==
    /\ used' = IF to THEN used \cup {r} ELSE used \ {r}
    /\ undo' = [undo EXCEPT ![t] = IF \E old \in BOOLEAN : <<r, old>> \in @ THEN @
                                   ELSE @ \cup {<<r, r \in used>>}]

(* moveToBlock: the old page is closed; the pin of the new one, whose error *)
(* NewRecordPage does not look at, is taken to succeed.                     *)
MoveTo(t, b, slot) == scan' = [scan EXCEPT ![t] = [blk |-> b, slot |-> slot]]

-----------------------------------------------------------------------------
(* NewTableScan. *)

Open(t) ==
    /\ op[t].pc = "idle" /\ scan[t].blk = None
    /\ op' = [op EXCEPT ![t] = [kind |-> "open", pc |-> "size"]]
    /\ UNCHANGED <<size, used, committed, held, scan, undo, seen>>

OpenSize(t) ==
    /\ op[t].pc = "size"
    /\ SLockSize(t)
    /\ IF size = 0 THEN Goto(t, "append") /\ UNCHANGED <<scan, seen>>
       ELSE Return(t) /\ MoveTo(t, 0, -1) /\ seen' = [seen EXCEPT ![t] = Nothing]
    /\ UNCHANGED <<size, used, committed, undo>>

(* moveToNewBlock: the file grows under the exclusive lock of its end. *)
AppendBlock(t) ==
    /\ op[t].pc = "append" /\ size < MaxBlocks
    /\ XLock(t, EndOfFile)
    /\ size' = size + 1
    /\ MoveTo(t, size, -1)
    /\ Goto(t, "format")
    /\ UNCHANGED <<used, committed, undo, seen>>

(* Format writes the flags without logging them.  Its errors are not looked  *)
(* at: the block is used as the file manager made it.                       *)
Format(t) ==
    /\ op[t].pc = "format"
    /\ \/ /\ XLock(t, scan[t].blk)
          /\ used' = {r \in used : r[1] # scan[t].blk}
       \/ UNCHANGED <<held, used>>
    /\ IF op[t].kind = "open"
       THEN Return(t) /\ seen' = [seen EXCEPT ![t] = Nothing]
       ELSE Goto(t, "search") /\ UNCHANGED seen
    /\ UNCHANGED <<size, committed, scan, undo>>

-----------------------------------------------------------------------------
(* Next and Insert. *)

NextRecord(t) ==
    /\ Call(t, "next", "search")
    /\ seen' = [seen EXCEPT ![t].scope = IF @ = "all" THEN "fresh" ELSE @]
    /\ UNCHANGED <<size, used, committed, held, scan, undo>>

Insert(t) ==
    /\ Call(t, "insert", "search")
    /\ seen' = [seen EXCEPT ![t] = Unknown]
    /\ UNCHANGED <<size, used, committed, held, scan, undo>>

(* The slots behind the current one with the flag that is searched for. *)
Candidates(t) ==
    {s \in scan[t].slot + 1 .. Slots - 1 : op[t].kind = "next" <=> <<scan[t].blk, s>> \in used}

First(S) == CHOOSE s \in S : \A u \in S : s <= u

(* searchAfter found a slot: Next returns it, InsertAfter marks it. *)
Found(t) ==
    /\ op[t].pc = "search" /\ Candidates(t) # {}
    /\ SLockGet(t, scan[t].blk)
    /\ LET s == First(Candidates(t))
       IN  /\ scan' = [scan EXCEPT ![t].slot = s]
           /\ IF op[t].kind = "next"
              THEN Return(t) /\ seen' = [seen EXCEPT ![t].rids = @ \cup {<<scan[t].blk, s>>}]
              ELSE Goto(t, "mark") /\ UNCHANGED seen
    /\ UNCHANGED <<size, used, committed, undo>>

NotFound(t) ==
    /\ op[t].pc = "search" /\ Candidates(t) = {}
    /\ SLockGet(t, scan[t].blk)
    /\ scan' = [scan EXCEPT ![t].slot = -1]
    /\ Goto(t, "last")
    /\ UNCHANGED <<size, used, committed, undo, seen>>

\* Mutant of SetFlag: the slot is marked under the lock of the search.
SetFlagShared(t) ==
    /\ op[t].pc = "mark"
    /\ SLock(t, scan[t].blk)
    /\ Change(t, <<scan[t].blk, scan[t].slot>>, op[t].kind = "insert")
    /\ seen' = [seen EXCEPT ![t].rids = @ \ {<<scan[t].blk, scan[t].slot>>}]
    /\ Return(t)
    /\ UNCHANGED <<size, committed, scan>>

(* setFlag: Used for an Insert, Empty for a Delete. *)
SetFlag(t) ==
    /\ op[t].pc = "mark"
    /\ XLock(t, scan[t].blk)
    /\ Change(t, <<scan[t].blk, scan[t].slot>>, op[t].kind = "insert")
    /\ seen' = [seen EXCEPT ![t].rids = @ \ {<<scan[t].blk, scan[t].slot>>}]
    /\ Return(t)
    /\ UNCHANGED <<size, committed, scan>>

\* Mutant of Behind: moveToBlock stays on the block.
BehindNot(t) == scan[t].blk
Behind(t) == scan[t].blk + 1

\* Mutant of AtLast: the number of the last block is taken for the size.
AtLastOff(t) == scan[t].blk = size
AtLast(t) == scan[t].blk = size - 1

(* atLastBlock is false: the search goes on in the next block. *)
NextBlock(t) ==
    /\ op[t].pc = "last" /\ ~AtLast(t)
    /\ SLockSize(t)
    /\ MoveTo(t, Behind(t), -1)
    /\ Goto(t, "search")
    /\ UNCHANGED <<size, used, committed, undo, seen>>

(* atLastBlock is true: Next is over, Insert appends a block. *)
LastBlock(t) ==
    /\ op[t].pc = "last" /\ AtLast(t)
    /\ SLockSize(t)
    /\ IF op[t].kind = "next"
       THEN /\ Return(t)
            /\ seen' = [seen EXCEPT ![t].scope = IF @ = "fresh" THEN "all" ELSE @]
       ELSE Goto(t, "append") /\ UNCHANGED seen
    /\ UNCHANGED <<size, used, committed, scan, undo>>

(* Delete of the record the scan stands on. *)
Delete(t) ==
    /\ scan[t].slot >= 0
    /\ Call(t, "delete", "mark")
    /\ UNCHANGED <<size, used, committed, held, scan, undo, seen>>

BeforeFirst(t) ==
    /\ op[t].pc = "idle" /\ scan[t].blk # None
    /\ MoveTo(t, 0, -1)
    /\ seen' = [seen EXCEPT ![t] = Nothing]
    /\ UNCHANGED <<size, used, committed, held, op, undo>>

(* To a record the caller has found before; no lock is taken. *)
MoveToRid(t) ==
    /\ op[t].pc = "idle"
    /\ \E r \in seen[t].rids : MoveTo(t, r[1], r[2])
    /\ seen' = [seen EXCEPT ![t] = Unknown]
    /\ UNCHANGED <<size, used, committed, held, op, undo>>

-----------------------------------------------------------------------------
(* A lock that times out, or the file that cannot grow, fails the call. *)
Fail(t) ==
    /\ op[t].pc \notin {"idle", "format", "failed", "done"}
    /\ Goto(t, "failed")
    /\ UNCHANGED <<size, used, committed, held, scan, undo, seen>>

(* Release of all locks, and UnpinAll. *)
End(t) ==
    /\ held' = [x \in DOMAIN held |-> IF x[1] = t THEN "none" ELSE held[x]]
    /\ op' = [op EXCEPT ![t] = [kind |-> None, pc |-> "done"]]
    /\ scan' = [scan EXCEPT ![t] = NoScan]
    /\ undo' = [undo EXCEPT ![t] = {}]
    /\ seen' = [seen EXCEPT ![t] = Unknown]
    /\ UNCHANGED size

Changed(t) == {u[1] : u \in undo[t]}

Commit(t) ==
    /\ op[t].pc = "idle"
    /\ committed' = (committed \ Changed(t)) \cup (used \cap Changed(t))
    /\ End(t)
    /\ UNCHANGED used

(* The flags as they were; the blocks that were appended stay. *)
Restored(t) == (used \ Changed(t)) \cup {u[1] : u \in {v \in undo[t] : v[2]}}

Rollback(t) ==
    /\ op[t].pc \in {"idle", "failed"}
    /\ used' = Restored(t)
    /\ End(t)
    /\ UNCHANGED committed

Step(t) ==
    \/ OpenSize(t) \/ AppendBlock(t) \/ Format(t) \/ Found(t) \/ NotFound(t)
    \/ SetFlag(t) \/ NextBlock(t) \/ LastBlock(t)
Caller(t) ==
    \/ Open(t) \/ NextRecord(t) \/ Insert(t) \/ Delete(t) \/ BeforeFirst(t) \/ MoveToRid(t)
    \/ Commit(t) \/ Rollback(t)

Stopped == (\A t \in Txns : op[t].pc = "done") /\ UNCHANGED vars

Next == (\E t \in Txns : Step(t) \/ Fail(t) \/ Caller(t)) \/ Stopped

Spec == Init /\ [][Next]_vars

(* A call goes on when it can have its lock, and fails at its timeout. *)
FairSpec == Spec /\ \A t \in Txns : WF_vars(Step(t) \/ Fail(t))

-----------------------------------------------------------------------------
(* Properties. *)

Calls == [kind : {None, "open", "next", "insert", "delete"},
          pc : {"idle", "size", "append", "format", "search", "mark", "last", "failed", "done"}]
Seen == [rids : SUBSET RIDs, scope : {"fresh", "all", "other"}]

(* The type invariant. *)
TypeOK ==
    /\ size \in 0 .. MaxBlocks
    /\ used \subseteq RIDs /\ committed \subseteq RIDs
    /\ held \in [Txns \X (Blocks \cup {EndOfFile}) -> {"none", "S", "X"}]
    /\ op \in [Txns -> Calls]
    /\ scan \in [Txns -> [blk : {None} \cup 0 .. size - 1, slot : -1 .. Slots - 1]]
    /\ undo \in [Txns -> SUBSET (RIDs \X BOOLEAN)]
    /\ seen \in [Txns -> Seen]

(* What a transaction may see: the committed records, with its own changes. *)
View(t) == {r \in RIDs : IF r \in Changed(t) THEN r \in used ELSE r \in committed}

(* What Next returned stays true for the transaction: no record another one *)
(* inserted without commit, and none that is deleted while it runs          *)
(* (LockStrict2PL, access/transaction.go:19).                               *)
NoDirtyRead == \A t \in Txns : seen[t].rids \subseteq View(t)

(* A scan that came to the end has every record: nobody inserts one in a    *)
(* block it has passed, or in a new block behind the one it took for last   *)
(* (tablescan_test.go:613), as long as it runs.                             *)
NoPhantoms == \A t \in Txns : seen[t].scope = "all" => seen[t].rids = View(t)

(* The slot an Insert has found is free until it marks it, although the     *)
(* lock it has meanwhile is a shared one that others may have too.          *)
SlotStaysFree ==
    \A t \in Txns : op[t].kind = "insert" /\ op[t].pc = "mark" =>
        <<scan[t].blk, scan[t].slot>> \notin used

(* Every call returns: the search goes on from block to block to an end.    *)
CallsReturn ==
    \A t \in Txns : op[t].pc # "idle" ~> op[t].pc \in {"idle", "failed", "done"}
=============================================================================
