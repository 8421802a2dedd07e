------------------------------ MODULE LockTable ------------------------------
(***************************************************************************)
(* One shard of the lock table of internal/trx/concurrency: the state word *)
(* changed by compare-and-swap, the three queues of waiters under the      *)
(* shard's mutex, and the transactions that lock, wait, time out and       *)
(* unlock.  Blocks are the blocks that hash to this shard: they all share  *)
(* the one state word.                                                     *)
(*                                                                         *)
(* Abstractions.  The code spins maxSpinCount times before it waits; here  *)
(* any failed attempt may be the last one.  A transaction that gets an     *)
(* error from a lock call releases its locks (Rollback), and its locks are *)
(* released together at its end (strict 2PL).                              *)
(***************************************************************************)
EXTENDS Integers, FiniteSets

CONSTANTS Txns, Blocks, Nil

ASSUME FiniteAssumption == IsFiniteSet(Txns) /\ IsFiniteSet(Blocks)
ASSUME NilAssumption == Nil \notin Blocks /\ Nil \notin Txns \X Blocks \X {"S", "X"}

VARIABLES
    word,       \* the state word of the shard: write bit, upgrade bit, readers
    held,       \* the locks map of each ConcurrencyMgr: "none", "S" or "X"
    pc,         \* where each transaction is in SLock, XLock or Release
    blk,        \* the block of the current call
    old,        \* the local copy of the state word
    expired,    \* the timer of the current call has fired
    upgraded,   \* the waiters whose upgraded flag is set
    closed,     \* the waiters whose channel is closed
    queue,      \* head, tail, prev and next pointers of the waiter lists
    panicked    \* the process has died from a close of a closed channel

vars == <<word, held, pc, blk, old, expired, upgraded, closed, queue, panicked>>
waitVars == <<closed, queue, panicked>>

(***************************************************************************)
(* A waiter is made by each lock call: of a transaction on a block at most *)
(* one for reading and one for writing.  An upgrade is a write waiter of a *)
(* transaction that holds the block shared.                                *)
(***************************************************************************)
Waiters == Txns \X Blocks \X {"S", "X"}
Held(t) == held[<<t, blk[t]>>]
SWaiter(t) == <<t, blk[t], "S">>
XWaiter(t) == <<t, blk[t], "X">>
Upgrading(t) == Held(t) = "S"
XKind(t) == IF Upgrading(t) THEN "U" ELSE "W"

EmptyQueue ==
    [head |-> [k \in {"R", "W", "U"} |-> Nil], tail |-> [k \in {"R", "W", "U"} |-> Nil],
     prev |-> [w \in Waiters |-> Nil], next |-> [w \in Waiters |-> Nil]]

Enqueue(q, k, w) ==
    IF q.tail[k] = Nil
    THEN [q EXCEPT !.head[k] = w, !.tail[k] = w]
    ELSE [q EXCEPT !.prev[w] = q.tail[k], !.next[q.tail[k]] = w, !.tail[k] = w]

EnqueueUpgradeFront(q, w) ==
    LET c == [q EXCEPT !.prev[w] = Nil, !.next[w] = Nil]
    IN  IF c.head["U"] = Nil
        THEN [c EXCEPT !.head["U"] = w, !.tail["U"] = w]
        ELSE [c EXCEPT !.next[w] = c.head["U"], !.prev[c.head["U"]] = w, !.head["U"] = w]

\* The assignments in the code's order: a waiter that is linked to itself, or
\* not linked at all, changes the list in ways a removal from a set would not.
Dequeue(q, k, w) ==
    LET a == IF q.prev[w] # Nil THEN [q EXCEPT !.next[q.prev[w]] = q.next[w]]
                                ELSE [q EXCEPT !.head[k] = q.next[w]]
        b == IF a.next[w] # Nil THEN [a EXCEPT !.prev[a.next[w]] = a.prev[w]]
                                ELSE [a EXCEPT !.tail[k] = a.prev[w]]
    IN  [b EXCEPT !.prev[w] = Nil, !.next[w] = Nil]

\* One turn of a wake loop over list k: close the channel, which panics when it
\* is closed already, and take the waiter off the list.
WakeOne(k, s) ==
    IF s.cur = Nil \/ s.panicked THEN s
    ELSE IF s.cur \in s.closed THEN [s EXCEPT !.panicked = TRUE]
    ELSE [cur |-> s.queue.next[s.cur], queue |-> Dequeue(s.queue, k, s.cur),
          closed |-> s.closed \cup {s.cur}, panicked |-> FALSE]

Wake(k, n) ==
    LET turn[i \in 0 .. n] ==
          IF i = 0 THEN [cur |-> queue.head[k], queue |-> queue, closed |-> closed,
                         panicked |-> FALSE]
          ELSE WakeOne(k, turn[i - 1])
    IN  turn[n]

\* A list in which a waiter comes twice panics at the second time, so this many
\* turns are enough for the whole list.
AllTurns == Cardinality(Waiters) + 1

-----------------------------------------------------------------------------
FreeWord == [w |-> FALSE, u |-> FALSE, r |-> 0]

Init ==
    /\ word = FreeWord
    /\ held = [x \in Txns \X Blocks |-> "none"]
    /\ pc = [t \in Txns |-> "idle"]
    /\ blk = [t \in Txns |-> Nil]
    /\ old = [t \in Txns |-> FreeWord]
    /\ expired = [t \in Txns |-> FALSE]
    /\ upgraded = {} /\ closed = {} /\ queue = EmptyQueue /\ panicked = FALSE

Goto(t, p) == pc' = [pc EXCEPT ![t] = p]
Keep(t, v) == old' = [old EXCEPT ![t] = v]

\* A failed attempt: spin again, or wait.
Retry(t, try, slow) == (Goto(t, try) \/ Goto(t, slow)) /\ Keep(t, FreeWord)

\* The call returns with the lock, or with the error of its context.
Granted(t, mode) ==
    /\ held' = [held EXCEPT ![<<t, blk[t]>>] = mode]
    /\ Goto(t, "idle") /\ Keep(t, FreeWord) /\ expired' = [expired EXCEPT ![t] = FALSE]
Failed(t) ==
    /\ Goto(t, "rel") /\ Keep(t, FreeWord) /\ expired' = [expired EXCEPT ![t] = FALSE]
    /\ UNCHANGED held

\* The timeout of the context: it may fire at any point of a lock call.
LockPCs == {"sTry", "sCas", "sSlow", "sWait", "xTry", "xReserve", "xGrab", "xSlow", "xWait"}
Expire(t) ==
    /\ pc[t] \in LockPCs /\ ~expired[t]
    /\ expired' = [expired EXCEPT ![t] = TRUE]
    /\ UNCHANGED <<word, held, pc, blk, old, upgraded, waitVars>>

(***************************************************************************)
(* SLock: load the word, and add a reader when neither bit is set.         *)
(***************************************************************************)
SLock(t, b) ==
    /\ pc[t] = "idle" /\ held[<<t, b>>] = "none"
    /\ Goto(t, "sTry") /\ blk' = [blk EXCEPT ![t] = b]
    /\ UNCHANGED <<word, held, old, expired, upgraded, waitVars>>

SLoad(t) ==
    /\ pc[t] = "sTry" /\ ~expired[t]
    /\ IF word.w \/ word.u THEN Retry(t, "sTry", "sSlow")
                           ELSE Goto(t, "sCas") /\ Keep(t, word)
    /\ UNCHANGED <<word, held, blk, expired, upgraded, waitVars>>

\* Mutant of SCas: the reader is added without comparing.
SCasBlind(t) ==
    /\ pc[t] = "sCas"
    /\ word' = [old[t] EXCEPT !.r = @ + 1] /\ Granted(t, "S")
    /\ UNCHANGED <<blk, upgraded, waitVars>>

SCas(t) ==
    /\ pc[t] = "sCas"
    /\ IF word = old[t]
       THEN word' = [old[t] EXCEPT !.r = @ + 1] /\ Granted(t, "S")
       ELSE Retry(t, "sTry", "sSlow") /\ UNCHANGED <<word, held, expired>>
    /\ UNCHANGED <<blk, upgraded, waitVars>>

STimeout(t) ==
    /\ pc[t] = "sTry" /\ expired[t]
    /\ Failed(t)
    /\ UNCHANGED <<word, blk, upgraded, waitVars>>

SPark(t) ==
    /\ pc[t] = "sSlow"
    /\ queue' = Enqueue(queue, "R", SWaiter(t))
    /\ Goto(t, "sWait")
    /\ UNCHANGED <<word, held, blk, old, expired, upgraded, closed, panicked>>

SWoken(t) ==
    /\ pc[t] = "sWait" /\ SWaiter(t) \in closed
    /\ Goto(t, "sTry")
    /\ UNCHANGED <<word, held, blk, old, expired, upgraded, waitVars>>

\* Mutant of SWaitTimeout: a reader that waited for too long starts all over again.
SWaitTimeoutRetries(t) ==
    /\ pc[t] = "sWait" /\ expired[t]
    /\ queue' = Dequeue(queue, "R", SWaiter(t))
    /\ Goto(t, "sTry") /\ expired' = [expired EXCEPT ![t] = FALSE]
    /\ UNCHANGED <<word, held, blk, old, upgraded, closed, panicked>>

SWaitTimeout(t) ==
    /\ pc[t] = "sWait" /\ expired[t]
    /\ queue' = Dequeue(queue, "R", SWaiter(t))
    /\ Failed(t)
    /\ UNCHANGED <<word, blk, upgraded, closed, panicked>>

(***************************************************************************)
(* XLock: an upgrade first reserves the upgrade bit; then the write bit is *)
(* set when no reader is left, or only the upgrading one.                  *)
(***************************************************************************)
XLock(t, b) ==
    /\ pc[t] = "idle" /\ held[<<t, b>>] # "X"
    /\ Goto(t, "xTry") /\ blk' = [blk EXCEPT ![t] = b]
    /\ UNCHANGED <<word, held, old, expired, upgraded, waitVars>>

Reserving(t) == Upgrading(t) /\ XWaiter(t) \notin upgraded

\* Mutant of MayGrab: an upgrade does not wait for the other readers.
MayGrabAmongReaders(t, v) == ~v.w /\ (Upgrading(t) \/ v.r = 0)

MayGrab(t, v) == ~v.w /\ v.r = (IF Upgrading(t) THEN 1 ELSE 0)

XLoad(t) ==
    /\ pc[t] = "xTry" /\ ~expired[t]
    /\ \/ Reserving(t) /\ ~word.u /\ Goto(t, "xReserve") /\ Keep(t, word)
       \/ ~Reserving(t) /\ MayGrab(t, word) /\ Goto(t, "xGrab") /\ Keep(t, word)
       \/ Reserving(t) /\ word.u /\ Retry(t, "xTry", "xSlow")
       \/ ~Reserving(t) /\ ~MayGrab(t, word) /\ Retry(t, "xTry", "xSlow")
    /\ UNCHANGED <<word, held, blk, expired, upgraded, waitVars>>

\* After the reservation the attempt goes on with the word it had loaded before.
XReserve(t) ==
    /\ pc[t] = "xReserve"
    /\ IF word = old[t]
       THEN /\ word' = [old[t] EXCEPT !.u = TRUE]
            /\ upgraded' = upgraded \cup {XWaiter(t)}
            /\ IF MayGrab(t, old[t]) THEN Goto(t, "xGrab") /\ UNCHANGED old
                                     ELSE Retry(t, "xTry", "xSlow")
       ELSE Retry(t, "xTry", "xSlow") /\ UNCHANGED <<word, upgraded>>
    /\ UNCHANGED <<held, blk, expired, waitVars>>

XGrab(t) ==
    /\ pc[t] = "xGrab"
    /\ IF word = old[t]
       THEN /\ word' = IF Upgrading(t) THEN [w |-> TRUE, u |-> FALSE, r |-> old[t].r - 1]
                                       ELSE [old[t] EXCEPT !.w = TRUE]
            /\ Granted(t, "X")
       ELSE Retry(t, "xTry", "xSlow") /\ UNCHANGED <<word, held, expired>>
    /\ UNCHANGED <<blk, upgraded, waitVars>>

\* Mutant of CancelReservation: a failed upgrade leaves the upgrade bit set.
CancelReservationKept(t) ==
    upgraded' = upgraded \ {XWaiter(t)} /\ UNCHANGED word

\* The upgrade bit goes with the reservation of a call that fails, or of the
\* owner that unlocks, whoever has set it.
CancelReservation(t) ==
    /\ word' = [word EXCEPT !.u = IF XWaiter(t) \in upgraded THEN FALSE ELSE @]
    /\ upgraded' = upgraded \ {XWaiter(t)}

XTimeout(t) ==
    /\ pc[t] = "xTry" /\ expired[t]
    /\ CancelReservation(t)
    /\ Failed(t)
    /\ UNCHANGED <<blk, waitVars>>

XPark(t) ==
    /\ pc[t] = "xSlow"
    /\ queue' = IF XWaiter(t) \in upgraded THEN EnqueueUpgradeFront(queue, XWaiter(t))
                                           ELSE Enqueue(queue, XKind(t), XWaiter(t))
    /\ Goto(t, "xWait")
    /\ UNCHANGED <<word, held, blk, old, expired, upgraded, closed, panicked>>

XWoken(t) ==
    /\ pc[t] = "xWait" /\ XWaiter(t) \in closed
    /\ Goto(t, "xTry")
    /\ UNCHANGED <<word, held, blk, old, expired, upgraded, waitVars>>

XWaitTimeout(t) ==
    /\ pc[t] = "xWait" /\ expired[t]
    /\ queue' = Dequeue(queue, XKind(t), XWaiter(t))
    /\ CancelReservation(t)
    /\ Failed(t)
    /\ UNCHANGED <<blk, closed, panicked>>

(***************************************************************************)
(* Release unlocks the transaction's blocks one after the other: load the  *)
(* word, give the lock back, and wake under the mutex, with the word as it *)
(* was after the lock was given back.                                      *)
(***************************************************************************)
Release(t) ==
    /\ pc[t] = "idle"
    /\ Goto(t, "rel")
    /\ UNCHANGED <<word, held, blk, old, expired, upgraded, waitVars>>

UnlockLoad(t) ==
    /\ pc[t] = "rel"
    /\ \E b \in Blocks : held[<<t, b>>] # "none" /\ blk' = [blk EXCEPT ![t] = b]
    /\ Goto(t, "uWrite") /\ Keep(t, word)
    /\ UNCHANGED <<word, held, expired, upgraded, waitVars>>

\* Mutant of UnlockWrite: a writer that leaves is taken off the readers as well.
UnlockWriteCounted(t) ==
    /\ pc[t] = "uWrite"
    /\ word' = [word EXCEPT !.w = FALSE, !.r = @ - 1]
    /\ Keep(t, word')
    /\ held' = [held EXCEPT ![<<t, blk[t]>>] = "none"]
    /\ Goto(t, "uWake")
    /\ UNCHANGED <<blk, expired, upgraded, waitVars>>

UnlockWrite(t) ==
    /\ pc[t] = "uWrite"
    /\ word' = IF old[t].w THEN [old[t] EXCEPT !.w = FALSE] ELSE [word EXCEPT !.r = @ - 1]
    /\ Keep(t, word')
    /\ held' = [held EXCEPT ![<<t, blk[t]>>] = "none"]
    /\ Goto(t, "uWake")
    /\ UNCHANGED <<blk, expired, upgraded, waitVars>>

\* readers = 0: a writer, or else all readers; readers = 1 and an upgrade waits:
\* that upgrade; otherwise all readers.
HandOff(v) ==
    IF v.r = 0 /\ queue.head["W"] # Nil THEN Wake("W", 1)
    ELSE IF v.r = 1 /\ queue.head["U"] # Nil THEN Wake("U", 1)
    ELSE Wake("R", AllTurns)

UnlockWake(t) ==
    /\ pc[t] = "uWake"
    /\ IF old[t].w THEN UNCHANGED <<word, upgraded, waitVars>>
       ELSE /\ CancelReservation(t)
            /\ LET s == HandOff(old[t])
               IN  queue' = s.queue /\ closed' = s.closed /\ panicked' = s.panicked
    /\ Goto(t, "rel") /\ Keep(t, FreeWord)
    /\ UNCHANGED <<held, blk, expired>>

Released(t) ==
    /\ pc[t] = "rel" /\ \A b \in Blocks : held[<<t, b>>] = "none"
    /\ Goto(t, "done")
    /\ UNCHANGED <<word, held, blk, old, expired, upgraded, waitVars>>

-----------------------------------------------------------------------------
SLockStep(t) == SLoad(t) \/ SCas(t) \/ STimeout(t) \/ SPark(t) \/ SWoken(t) \/ SWaitTimeout(t)
XLockStep(t) ==
    XLoad(t) \/ XReserve(t) \/ XGrab(t) \/ XTimeout(t) \/ XPark(t) \/ XWoken(t) \/ XWaitTimeout(t)
UnlockStep(t) == UnlockLoad(t) \/ UnlockWrite(t) \/ UnlockWake(t) \/ Released(t)
Call(t) == Release(t) \/ \E b \in Blocks : SLock(t, b) \/ XLock(t, b)

\* A process that has died, or whose transactions are over, does nothing more.
Stopped == (panicked \/ \A t \in Txns : pc[t] = "done") /\ UNCHANGED vars

TxnStep(t) == Call(t) \/ SLockStep(t) \/ XLockStep(t) \/ UnlockStep(t) \/ Expire(t)

Next == (~panicked /\ \E t \in Txns : TxnStep(t)) \/ Stopped

Spec == Init /\ [][Next]_vars

(***************************************************************************)
(* The scheduler runs a goroutine that is in a lock call; a wait ends when *)
(* its channel is closed or its timeout has fired.  Nobody has to unlock.  *)
(***************************************************************************)
FairSpec == Spec /\ \A t \in Txns : WF_vars(~panicked /\ (SLockStep(t) \/ XLockStep(t)))

-----------------------------------------------------------------------------
PCs == LockPCs \cup {"idle", "rel", "uWrite", "uWake", "done"}
Words == [w : BOOLEAN, u : BOOLEAN, r : Nat]
Kinds == {"R", "W", "U"}

WordTypeOK ==
    /\ word \in Words
    /\ held \in [Txns \X Blocks -> {"none", "S", "X"}]
    /\ pc \in [Txns -> PCs]
    /\ blk \in [Txns -> Blocks \cup {Nil}]
    /\ \A t \in Txns : pc[t] \in LockPCs \cup {"uWrite", "uWake"} => blk[t] \in Blocks
    /\ old \in [Txns -> Words]
    /\ expired \in [Txns -> BOOLEAN]
    /\ upgraded \subseteq Waiters

QueueTypeOK ==
    /\ queue \in [head : [Kinds -> Waiters \cup {Nil}], tail : [Kinds -> Waiters \cup {Nil}],
                  prev : [Waiters -> Waiters \cup {Nil}], next : [Waiters -> Waiters \cup {Nil}]]
    /\ closed \subseteq Waiters
    /\ panicked \in BOOLEAN

\* The state word, the locks maps and the waiter lists keep their types.
TypeOK == WordTypeOK /\ QueueTypeOK

Holders(mode) == {x \in Txns \X Blocks : held[x] = mode}

\* An exclusive lock excludes every other lock of the shard, of this block or of
\* another one, through spins, upgrades, timeouts and stale copies of the word
\* (locktable.go:255).
MutualExclusion ==
    \A x, y \in Txns \X Blocks : held[x] = "X" /\ x # y => held[y] = "none"

\* The word says what the transactions hold: its reader count and its write bit
\* are never lost or counted twice (locktable.go:226, 319, 387, 391).
WordMatchesHolders ==
    /\ word.r = Cardinality(Holders("S"))
    /\ word.w <=> Holders("X") # {}

\* The upgrade bit, which keeps new readers out, is set only while a transaction
\* that reserved it still holds its shared lock: no failed upgrade leaves it
\* behind (locktable.go:268, 358, 402).
ReservationOwned ==
    word.u => \E t \in Txns, b \in Blocks : <<t, b, "X">> \in upgraded /\ held[<<t, b>>] = "S"

\* While a transaction holds the block for writing nobody else changes the word:
\* Unlock stores the copy it loaded on this assumption (locktable.go:386).
WriterOwnsWord ==
    [][\A x \in Txns \X Blocks : held[x] = "X" /\ held'[x] = "X" => word' = word]_vars

(***************************************************************************)
(* What makes these inductive: what a call knows of its lock and of its    *)
(* copy of the word at each step.                                          *)
(***************************************************************************)
SPCs == {"sTry", "sCas", "sSlow", "sWait"}
XPCs == {"xTry", "xReserve", "xGrab", "xSlow", "xWait"}

CallLocks(t) ==
    /\ pc[t] \in SPCs => Held(t) = "none"
    /\ pc[t] \in XPCs => Held(t) # "X"
    /\ pc[t] = "uWrite" => /\ Held(t) # "none"
                           /\ old[t].w <=> Held(t) = "X"
                           /\ old[t].w => old[t] = word

CallCopies(t) ==
    /\ pc[t] = "sCas" => ~old[t].w /\ ~old[t].u
    /\ pc[t] = "xReserve" => Upgrading(t)
    /\ pc[t] = "xGrab" => MayGrab(t, old[t])
    /\ pc[t] = "uWake" => ~old[t].w

\* An upgraded flag is that of an upgrade under way, of an upgraded lock, or of an
\* owner that has just unlocked one.
ReservationInCall ==
    \A t \in Txns, b \in Blocks : <<t, b, "X">> \in upgraded =>
        \/ held[<<t, b>>] = "X"
        \/ held[<<t, b>>] = "S" /\ pc[t] \in XPCs /\ blk[t] = b
        \/ held[<<t, b>>] = "none" /\ pc[t] = "uWake" /\ blk[t] = b

\* The inductive invariant: the word counts the holders exactly, and every call's
\* copy of the word is one its next compare-and-swap may rely on (locktable.go:205).
LockInv ==
    /\ WordTypeOK /\ MutualExclusion /\ WordMatchesHolders /\ ReservationOwned
    /\ \A t \in Txns : CallLocks(t) /\ CallCopies(t)
    /\ ReservationInCall

\* The lock table implements the locks its callers are promised.
RW == INSTANCE RWLock
RefinesRWLock == RW!Spec

\* A lock call whose timeout (maxtime) has fired returns, with the lock or with an
\* error, unless the process dies (locktable.go:206, 256).
CallsReturn == \A t \in Txns : expired[t] ~> (pc[t] \notin LockPCs \/ panicked)

(***************************************************************************)
(* What the tests of the lock table say and the code does not keep.        *)
(***************************************************************************)
\* Unlock wakes the waiters; it never closes the channel of a waiter twice
\* (locktable.go:149, 162, 172).
UnlockNeverPanics == ~panicked
=============================================================================
