------------------------------ MODULE BufferMgr ------------------------------
(***************************************************************************)
(* The buffer pool, internal/buffer/buffer.go, with the pins each          *)
(* transaction keeps in its BufferList, internal/trx/bufferlist.  Every    *)
(* method of BufferMgr is one critical section of its mutex, except Pin,   *)
(* which leaves it to wait for the broadcast of an Unpin or its time-out.   *)
(*                                                                         *)
(* A transaction names a block by a reference, the pointer of a BlockId;   *)
(* two references may mean the same block.  Of a page's contents only one   *)
(* thing is kept: the block whose latest contents they are, if any.  Locks  *)
(* and the log are left to LockTable and RecoveryMgr: here any transaction  *)
(* may change any page it has pinned.                                       *)
(***************************************************************************)
EXTENDS Integers, Sequences, FiniteSets, FiniteSetsExt, SequencesExt

CONSTANTS
    Txns,       \* transactions, each one goroutine
    Blocks,     \* blocks of the data files
    Refs,       \* pointers to a BlockId
    BlockOf,    \* the block each of them means
    Bufs,       \* the buffers of the pool
    None,       \* no buffer, no block, no transaction; older contents
    MaxPins,    \* bound: pins a transaction holds at once
    TornReads   \* TRUE: a read that fails may have overwritten the page

ASSUME RefAssumption == BlockOf \in [Refs -> Blocks]
ASSUME NoneAssumption == None \notin Bufs \cup Blocks \cup Txns
ASSUME PinBoundAssumption == MaxPins \in Nat /\ TornReads \in BOOLEAN
ASSUME PoolAssumption == IsFiniteSet(Bufs)

VARIABLES
    buf,      \* Buffer: block, pins, modifying transaction, recLSN set, contents
    map,      \* blkBufferMap
    lru,      \* lruBufferList, head first
    avail,    \* numAvailable
    disk,     \* the contents of each block on disk
    call,     \* where each transaction is in Pin or UnpinAll
    pins,     \* BufferList.pins: how often each reference occurs
    holds     \* BufferList.buffers

pool == <<buf, map, lru, avail>>
vars == <<pool, disk, call, pins, holds>>

Idle == [pc |-> "idle", ref |-> None]

Init ==
    /\ buf = [f \in Bufs |->
                 [blk |-> None, pins |-> 0, txn |-> None, rec |-> FALSE, val |-> None]]
    /\ map = [b \in Blocks |-> None]
    /\ lru = SetToSeq(Bufs)
    /\ avail = Cardinality(Bufs)
    /\ disk = [b \in Blocks |-> b]
    /\ call = [t \in Txns |-> Idle]
    /\ pins = [t \in Txns |-> [r \in Refs |-> 0]]
    /\ holds = [t \in Txns |-> [r \in Refs |-> None]]

-----------------------------------------------------------------------------
(* Buffers. *)

Modified(f) == buf[f].txn # None
IsDirty(f) == buf[f].blk # None /\ Modified(f) /\ buf[f].rec
Unpinned(f) == buf[f].pins = 0

Flushed(b) == [b EXCEPT !.txn = None, !.rec = FALSE]

(* flush of all buffers of F that are modified. *)
DiskAfter(F) ==
    [b \in Blocks |-> IF map[b] \in F /\ Modified(map[b]) THEN buf[map[b]].val ELSE disk[b]]
PoolAfter(F) == [f \in Bufs |-> IF f \in F /\ Modified(f) THEN Flushed(buf[f]) ELSE buf[f]]

(* assignToBlock, then pin. *)
Coming(f, b) == [Flushed(buf[f]) EXCEPT !.blk = b, !.pins = 1, !.val = disk[b]]

\* Mutant of MayGo: a victim may be pinned.
AnyMayGo(f) == TRUE
MayGo(f) == Unpinned(f)
(* ChooseVictimBuffer: the first unpinned buffer of the list. *)
Victims == {i \in DOMAIN lru : MayGo(lru[i])}
Victim == lru[Min(Victims)]
(* moveToTail of the item at place i. *)
MovedToTail(i) ==
    [j \in DOMAIN lru |->
        IF j < i THEN lru[j] ELSE IF j + 1 \in DOMAIN lru THEN lru[j + 1] ELSE lru[i]]

-----------------------------------------------------------------------------
(* Pin.  BufferList.Pin notes the buffer under the reference. *)

Got(t, r, f) ==
    /\ pins' = [pins EXCEPT ![t][r] = @ + 1]
    /\ holds' = [holds EXCEPT ![t][r] = f]
    /\ call' = [call EXCEPT ![t] = Idle]

Taken(f) == IF Unpinned(f) THEN 1 ELSE 0

(* The block is in the pool. *)
Hit(t, r) ==
    LET f == map[BlockOf[r]]
    IN  /\ f # None
        /\ buf' = [buf EXCEPT ![f].pins = @ + 1]
        /\ avail' = avail - Taken(f)
        /\ Got(t, r, f)
        /\ UNCHANGED <<map, lru, disk>>

\* Mutant of Remapped: the old entry is not deleted.
RemappedKeepsOld(f, b) == [map EXCEPT ![b] = f]
(* The map forgets the victim's block and knows the new one. *)
Remapped(f, b) ==
    [c \in Blocks |-> IF c = b THEN f ELSE IF c = buf[f].blk THEN None ELSE map[c]]

(* The victim's page is written if need be, and the block is read. *)
Assign(t, r) ==
    LET b == BlockOf[r]
        f == Victim
    IN  /\ map[b] = None /\ Victims # {}
        /\ disk' = DiskAfter({f})
        /\ buf' = [buf EXCEPT ![f] = Coming(f, b)]
        /\ map' = Remapped(f, b)
        /\ lru' = MovedToTail(Min(Victims))
        /\ avail' = avail - 1
        /\ Got(t, r, f)

(* assignToBlock fails in its write, or in its read after the write. *)
AssignFails(t, r) ==
    LET f == Victim
    IN  /\ map[BlockOf[r]] = None /\ Victims # {}
        /\ lru' = MovedToTail(Min(Victims))
        /\ \/ UNCHANGED <<buf, disk>>
           \/ /\ disk' = DiskAfter({f})
              /\ \E v \in {buf[f].val} \cup (IF TornReads THEN {None} ELSE {}) :
                    buf' = [PoolAfter({f}) EXCEPT ![f].val = v]
        /\ call' = [call EXCEPT ![t] = Idle]
        /\ UNCHANGED <<map, avail, pins, holds>>

(* Every buffer is pinned: the current channel is captured under the mutex. *)
Wait(t, r) ==
    /\ map[BlockOf[r]] = None /\ Victims = {}
    /\ call' = [call EXCEPT ![t] = [pc |-> "wait", ref |-> r]]
    /\ UNCHANGED <<pool, disk, pins, holds>>

TryToPin(t, r) == Hit(t, r) \/ Assign(t, r) \/ AssignFails(t, r) \/ Wait(t, r)

AllPins(t) == SumFunction(pins[t])

(* BufferList.Pin and BufferMgr.Pin up to its first attempt. *)
Pin(t, r) == call[t].pc = "idle" /\ AllPins(t) < MaxPins /\ TryToPin(t, r)

(* The broadcast was received: back in the loop, under the mutex again. *)
Retry(t) == call[t].pc = "woken" /\ TryToPin(t, call[t].ref)

(* The deadline passed; it may also be chosen when the broadcast has come. *)
TimeOut(t) ==
    /\ call[t].pc \in {"wait", "woken"}
    /\ call' = [call EXCEPT ![t] = Idle]
    /\ UNCHANGED <<pool, disk, pins, holds>>

-----------------------------------------------------------------------------
(* Unpin. *)

\* Mutant of Awake: the broadcast is forgotten.
AwakeNone(u) == call[u]
(* The waiters captured this channel, or an older one closed before. *)
Awake(u) == IF call[u].pc = "wait" THEN [call[u] EXCEPT !.pc = "woken"] ELSE call[u]

(* BufferMgr.Unpin; next has the new state of the caller, if it changes. *)
PoolUnpin(f, next) ==
    /\ buf' = [buf EXCEPT ![f].pins = @ - 1]
    /\ avail' = avail + (IF buf[f].pins = 1 THEN 1 ELSE 0)
    /\ call' = [u \in Txns |->
                   IF u \in DOMAIN next THEN next[u]
                   ELSE IF buf[f].pins = 1 THEN Awake(u) ELSE call[u]]
    /\ UNCHANGED <<map, lru, disk>>

\* Mutant of Kept: the buffer is forgotten at the first unpin.
KeptNot(t, r) == None
\* Mutant of Kept: the buffer is never forgotten.
KeptAlways(t, r) == holds[t][r]
(* The buffer is forgotten with the last pin of the reference. *)
Kept(t, r) == IF pins[t][r] = 1 THEN None ELSE holds[t][r]

(* BufferList.Unpin: nothing happens when no pin has this pointer. *)
Unpin(t, r) ==
    /\ call[t].pc = "idle" /\ holds[t][r] # None
    /\ PoolUnpin(holds[t][r], [u \in {t} |-> Idle])
    /\ pins' = [pins EXCEPT ![t][r] = @ - 1]
    /\ holds' = [holds EXCEPT ![t][r] = Kept(t, r)]

(* UnpinAll, at the end of a transaction: one Unpin per pin, in their order; *)
(* the lists are made new at the end.                                        *)
UnpinAll(t) ==
    /\ call[t].pc = "idle" /\ AllPins(t) > 0
    /\ call' = [call EXCEPT ![t].pc = "release"]
    /\ UNCHANGED <<pool, disk, pins, holds>>

ReleaseOne(t) ==
    /\ call[t].pc = "release"
    /\ \E r \in Refs :
          /\ pins[t][r] > 0
          /\ PoolUnpin(holds[t][r], [u \in {t} |-> IF AllPins(t) = 1 THEN Idle ELSE call[t]])
          /\ pins' = [pins EXCEPT ![t][r] = @ - 1]
          /\ holds' = [holds EXCEPT ![t][r] = Kept(t, r)]

-----------------------------------------------------------------------------
(* Changes and flushes. *)

\* Mutant of Marked: SetModified returns before it notes the transaction.
MarkedIfLogged(f, t, logged) == IF logged THEN [buf[f] EXCEPT !.txn = t, !.rec = TRUE] ELSE buf[f]
(* SetModified, with an LSN if the change was logged. *)
Marked(f, t, logged) == [buf[f] EXCEPT !.txn = t, !.rec = @ \/ logged]

(* A change of a pinned page and SetModified; the block is locked around both. *)
Modify(t, r, logged) ==
    LET f == holds[t][r]
        b == BlockOf[r]
    IN  /\ call[t].pc = "idle" /\ f # None
        /\ buf' = [g \in Bufs |->
                      IF g = f THEN [Marked(f, t, logged) EXCEPT !.val = b]
                      ELSE IF buf[g].val = b THEN [buf[g] EXCEPT !.val = None] ELSE buf[g]]
        /\ disk' = [disk EXCEPT ![b] = None]
        /\ UNCHANGED <<map, lru, avail, call, pins, holds>>

Flush(F) ==
    /\ disk' = DiskAfter(F)
    /\ buf' = PoolAfter(F)
    /\ UNCHANGED <<map, lru, avail, call, pins, holds>>

(* FlushAll at a commit or rollback; a write may fail and end the loop. *)
FlushAll(t) ==
    /\ call[t].pc = "idle"
    /\ \E F \in SUBSET {f \in Bufs : buf[f].txn = t} : F # {} /\ Flush(F)

Cleanable(f) == Unpinned(f) /\ IsDirty(f)

(* FlushPage, for the checkpoint's dirty pages. *)
FlushPage(b) == map[b] # None /\ Cleanable(map[b]) /\ Flush({map[b]})

(* FlushDirtyPages, of the page cleaner: as many as the limit and the write *)
(* errors let through.                                                      *)
FlushDirtyPages == \E F \in SUBSET {f \in Bufs : Cleanable(f)} : F # {} /\ Flush(F)

Next ==
    \/ \E t \in Txns :
          \/ \E r \in Refs : Pin(t, r) \/ Unpin(t, r)
          \/ \E r \in Refs, l \in BOOLEAN : Modify(t, r, l)
          \/ Retry(t) \/ TimeOut(t) \/ UnpinAll(t) \/ ReleaseOne(t) \/ FlushAll(t)
    \/ \E b \in Blocks : FlushPage(b)
    \/ FlushDirtyPages

Spec == Init /\ [][Next]_vars

-----------------------------------------------------------------------------
(* Properties. *)

Buffer == [blk : Blocks \cup {None}, pins : Nat, txn : Txns \cup {None},
           rec : BOOLEAN, val : Blocks \cup {None}]
Call == [pc : {"idle", "wait", "woken", "release"}, ref : Refs \cup {None}]

(* The type invariant. *)
TypeOK ==
    /\ buf \in [Bufs -> Buffer]
    /\ map \in [Blocks -> Bufs \cup {None}]
    /\ lru \in [1 .. Cardinality(Bufs) -> Bufs]
    /\ avail \in Int
    /\ disk \in [Blocks -> Blocks \cup {None}]
    /\ call \in [Txns -> Call]
    /\ pins \in [Txns -> [Refs -> Nat]]
    /\ holds \in [Txns -> [Refs -> Bufs \cup {None}]]

(* The bookkeeping of tryToPin, moveToTail, Pin and Unpin agrees with the   *)
(* buffers, through failed assignments and time-outs: the map names the     *)
(* buffer that has a block, so that no block is in two; the victims' list   *)
(* has every buffer once; numAvailable counts the unpinned ones.            *)
PoolConsistent ==
    /\ \A b \in Blocks, f \in Bufs : map[b] = f <=> buf[f].blk = b
    /\ IsInjective(lru) /\ ToSet(lru) = Bufs
    /\ avail = Cardinality({f \in Bufs : Unpinned(f)})

HoldsOf(f) == {p \in Txns \X Refs : holds[p[1]][p[2]] = f}
PinsOf(f) == UNION {{<<p, n>> : n \in 1 .. pins[p[1]][p[2]]} : p \in HoldsOf(f)}

(* A buffer's pins are those noted by the BufferLists: none is lost or      *)
(* given back twice whichever pointer a block is pinned and unpinned by.    *)
PinsCounted == \A f \in Bufs : buf[f].pins = Cardinality(PinsOf(f))

(* The buffer a transaction holds for a block keeps that block until the    *)
(* transaction unpins it: what GetBuffer returns is what was pinned.        *)
PinnedKeepsBlock ==
    \A t \in Txns, r \in Refs :
       /\ holds[t][r] # None => buf[holds[t][r]].blk = BlockOf[r]
       /\ (holds[t][r] # None) <=> (pins[t][r] > 0)

(* The latest contents of a block are what its next reader gets, from the   *)
(* pool or, once the buffer was taken for another block, from disk: no      *)
(* eviction passes over a changed page, logged or not (buffer.go:42, 76).   *)
CacheCoherent ==
    \A b \in Blocks : b = IF map[b] # None THEN buf[map[b]].val ELSE disk[b]

(* Whoever sleeps in Pin still has to: every buffer is pinned, and none has *)
(* its block.  No broadcast was missed between the attempt and the select.  *)
SleepersNeedWake ==
    \A t \in Txns : call[t].pc = "wait" =>
       /\ \A f \in Bufs : ~Unpinned(f)
       /\ map[BlockOf[call[t].ref]] = None
=============================================================================
