# my-go-simple-db in TLA+

TLA+ models of my-go-simple-db, a small disk-based database in Go: page
storage, write-ahead log, buffer pool, transactions under two-phase locking, and
an ARIES-style restart recovery. Each module names the code it models; paths
below are relative to `src/`.

- [What the system is](#what-the-system-is): parts, state, interaction, what is hard
- [The modules](#the-modules) and how they correspond to the code
- [What TLC checks](#what-tlc-checks): runs, bounds, fairness
- [Where the code disagrees with its own claims](#where-the-code-disagrees-with-its-own-claims)
- [What is proved](#what-is-proved)
- [Not modelled](#not-modelled) and [the plan](#plan)

## What the system is

| Part | State | Operations | Hard because |
|---|---|---|---|
| `internal/file` FileMgr | files of blocks, one mutex | Read, Write, Append, Length | a whole block is one write |
| `internal/log` LogMgr | log page, current block, latestLSN, lastSavedLSN, header with lastCheckpointLSN | Append, Flush, ReadRecordAt, Iterater | Flush takes no mutex; fragments; a crash decides what was written |
| `internal/buffer` BufferMgr, DirtyPageTable | buffers with pins, pageLSN, recLSN; block map; DPT | Pin, Unpin, FlushAll, FlushPage, FlushDirtyPages | write-ahead rule; waiting for a free buffer |
| `internal/trx/recovery` RecoveryMgr, ActiveTrxTable | the shared ATT | start, Set*, Commit, Rollback, Checkpoint, Recover | crashes at every step; a checkpoint runs while transactions do |
| `internal/trx/concurrency` LockTable, ConcurrencyMgr | a state word and three waiter lists per shard; a locks map per transaction | SLock, XLock (with upgrade), Unlock, Release | compare-and-swap without the mutex, wake-ups under it, timeouts |
| `internal/trx/access`, `internal/trx/tx` | pinned buffers, lock policy, transaction number | Get*, Set*, Apply*, Commit, Rollback, Recover | the order of lock, log and page |
| `internal/trx/bufferlist` BufferList | pins by BlockId pointer | Pin, Unpin, UnpinAll | identity of pointers |
| `simpledb` SimpleDB | created, starting, started, closed | Start, NewTransaction, Close | two background goroutines |
| `internal/record`, `recordpage`, `tablescan` | a block and a slot; flags on pages | Insert, Delete, Next | a search under shared locks, then a change; the end of the file |

How they interact. A transaction locks a block (LockTable), pins its page
(BufferMgr), appends a log record and enters its LSN in the ATT (RecoveryMgr),
changes the page and enters it in the DPT (`Buffer.SetModified`). A commit flushes
the log up to its COMMIT record. The page cleaner, or the eviction of a page,
flushes the log up to the page's LSN and then writes the page. The checkpoint
goroutine copies ATT and DPT into the log while transactions go on. After a
crash `SimpleDB.Start` runs Recover, which reads the log from the last
checkpoint, rebuilds both tables, repeats history and undoes the losers. ATT
and DPT are shared by all of these, each access under its own short mutex:
between two accesses anything may happen.

What makes the parts correct:

- *recovery*: after a restart every page shows exactly the committed updates,
  whatever was lost and however often recovery itself was interrupted; a commit
  that has returned is never lost; no page is on disk before its log record; an
  undo is never undone, repeated or forgotten; recovery ends;
- *locks*: an exclusive lock excludes, no reader is lost from the count, an
  upgrade reservation does not outlive its owner, a call returns;
- *log*: what Flush has acknowledged is read back, in order, after any crash;
- *buffers*: a block is in at most one buffer, a pinned buffer keeps its block, the
  latest contents of a block are what its next reader gets, a waiter sleeps only
  while it has to;
- *scans*: no record that is not committed, no phantom, nothing left of a rollback;
- *SimpleDB*: one recovery, before every transaction; no loop behind a Close.

The hazards, each at its line, are listed in `PROJECT.json` with the properties
that cover them, or why none does.

## The modules

| Module | What it is |
|---|---|
| `RecoveryMgr` | transactions, log, pages, ATT, DPT, checkpoint, crash and recovery |
| `DurableLog` | what the log promises: an abstract specification |
| `TxStore` | what recovery promises: a store of committed values, abstract |
| `RecoveryMgrProofs` | durability, the write-ahead rule and the refinement of `DurableLog`; what the log says, and a rollback reads, through rollback, checkpoint, crash and recovery, proved |
| `RecoveryPageProofs` | the pages, the dirty page tables and the values against the log, up to a complete redo and to committed values, proved |
| `RecoveryStoreProofs` | the refinement of `TxStore`, and that a recovery gets on, proved |
| `LogMgr` | the log page, blocks, fragments, Flush beside Append, the restart, the iterator |
| `LogMgrProofs` | the end of every scan and the types through restarts; the file against the records that were appended, and the refinement of `DurableLog`, proved |
| `BufferMgr` | the buffer pool with the pins of each transaction |
| `BufferMgrProofs` | the pool's books, pins, wake-ups and contents, proved |
| `LockTable` | one shard of the lock table with the transactions that use it |
| `RWLock` | what the lock table promises: an abstract specification |
| `LockTableProofs` | mutual exclusion and the refinement of `RWLock`, proved |
| `TableScan` | scans, inserts and deletes of concurrent transactions, on the locks of `RWLock` |
| `TableScanProofs` | no dirty read, no phantom, no slot taken twice, proved |
| `SimpleDB` | Start, NewTransaction, Close and the two background loops |
| `SimpleDBProofs` | recovery alone, quiet after Close, errors reported, proved |
| `MC...` | instances of each for TLC |

How they fit together:

```
        SimpleDB                 TableScan
           |  (Start recovers,       |  (instantiates)
           |   loops)                v
           v                       RWLock  <-- implemented by --  LockTable
       RecoveryMgr  -- implements --> TxStore
           |
           `-- implements --> DurableLog <-- implemented by --  LogMgr
       BufferMgr (the pool under the pages of RecoveryMgr)
```

`DurableLog` is the seam of the log: `RecoveryMgr` appends to a sequence of records of
which a crash leaves a prefix, at least as long as what was flushed; `LogMgr`
with its blocks and fragments behaves like that sequence. `RWLock` is the seam of the
locks: `LockTable` implements it, `TableScan` is built on it.

### RecoveryMgr

| Variable | Code |
|---|---|
| `log`, `flushed` | the log file and the log page; `lastSavedLSN` |
| `master` | `lastCheckpointLSN` in the header block |
| `disk`, `buf` | data blocks with their page LSN; the buffer pool with `recLSN` |
| `att`, `dpt` | the shared `ActiveTrxTable` and `DirtyPageTable` |
| `lock` | exclusive page locks (strict 2PL) |
| `tx` | the program counter and locals of each transaction's handler |
| `ckpt` | the checkpoint goroutine and its two snapshots |
| `phase`, `recPos`, `recAtt`, `recDpt` | `Recover`: its phase, its iterator, its two tables |
| `used` | counters for the bounds |

Every access to shared state is a step of its own, so that the model has
the interleavings of the goroutines: an update is `UpdateLog` (X lock, old value,
SET record), `UpdateLink` (`setLastLSN`) and `UpdatePage` (page, `SetModified`); a
commit is `CommitLog`, `CommitFlush`, `CommitSet`, `EndLog`, `Finish`; a rollback is
`AbortLog`, `AbortFlush`, one step per recursive call of `doRollback` (with the CLR's
append, flush and page as separate steps), `RollbackSet`, `EndLog`, `Finish`; a
checkpoint has six steps. Two groups of accesses are one step because nothing can
tell them apart: `Finish` removes the ATT entry and releases the locks, and `FlushPage`
flushes the log, writes the page and cleans the DPT entry under the pool's mutex (a
crash between these is a crash that kept more of the log, or one after the step). The undo phase of recovery uses the same
`doRollback` steps, as the code does. `Crash` may happen at any step. It keeps a
prefix of the log at least as long as `flushed`, because blocks
written by a roll-over or by another's flush are durable without being asked for,
and drops everything in memory; transaction numbers start again from 1.

Abstractions: an LSN is a position in the log instead of a byte offset; a page
holds one value; each update stores a value of its own (the LSN of its record), so
that two updates are never confused; the five typed setters and their records
are one; shared locks are left out because reads change nothing here (they are in
`LockTable` and `TableScan`). `LogFlush` states what callers may rely on when
`Flush(lsn)` returns; that `LogMgr` keeps it is the run `LogDurable`. I/O errors are not modelled.

Two refinements. `RefinesDurableLog` maps `log` and `flushed` to the abstract log.
`RefinesTxStore` maps every record of an update, its compensation, its COMMIT and its END
to the steps of a store in which a transaction has its own writes and a commit
publishes them at once; a crash of the store takes the open writes back, and what
was committed stays. The many steps of a restart are one step there and
otherwise stutter.

`CheckpointAlone` separates the two questions that can be asked about
checkpoints. With TRUE a checkpoint never overlaps a handler of a transaction,
transactions may still be open across it, and the properties hold. With FALSE it
runs at any time, as the code lets it: `RecCkptCommit` shows what goes wrong
then. Durability, the write-ahead rule, the refinement of `DurableLog`, what a rollback reads and
the progress of a recovery are proved for both; the other theorems about recovery assume it.

### LogMgr

| Variable | Code |
|---|---|
| `disk`, `header` | the blocks of the log file; block 0 with `lastCheckpointLSN` |
| `page`, `cur`, `latest`, `saved` | `logpage`, `currentblk`, `latestLSN`, `lastSavedLSN` |
| `call` | where each goroutine is in `Append` or `Flush`, with its locals |
| `phase` | how far `NewLogMgr` is |
| `logged`, `acked` | what was appended since the log was empty, and how much of it `Flush` has acknowledged: what a caller knows |

A block is its boundary and an array of cells. A physical record is a whole record
or the first, a middle or the last fragment of one, kept in the cell at which it starts.
Bytes behind the boundary stay what they were: the code resets the boundary of
the shared page and not its contents, and the iterator can meet them again.
`Append` runs under the mutex in as many steps as a `Flush`, which takes none, can
tell apart; each write of a block is a step, and a crash may come between any two.
After a crash `NewLogMgr` runs again in its steps, and the iterator (`Scan`,
`NextRecord`, `Chain`) is a set of recursive functions over the blocks on disk that
follow `HasNext`, `ensureCurrentBlock` and `reconstructFragmentChain`. `logged` becomes
what the iterator reads, so that a record lost, doubled or invented by the restart shows.

### BufferMgr

| Variable | Code |
|---|---|
| `buf` | each `Buffer`: block, pins, modifying transaction, whether `recLSN` is set, contents |
| `map`, `lru`, `avail` | `blkBufferMap`, `lruBufferList`, `numAvailable` |
| `disk` | the data blocks |
| `pins`, `holds` | `BufferList.pins` and `BufferList.buffers` of each transaction |
| `call` | whether it sleeps in `Pin`, is woken, or is in `UnpinAll` |

A method of BufferMgr is one step, as it holds the mutex to its end, except `Pin`, which
leaves it to wait for the broadcast of an `Unpin`. Of a page's contents the model
keeps whether they are the latest ones of a block. `BufferList` finds a
buffer by the pointer of the BlockId, and `Refs` are these pointers: two of them mean
the same block. `AssignFails` is `assignToBlock` failing in its write or in its read;
`FlushAll` and `FlushDirtyPages` may stop at any buffer.

### LockTable

`word` is the 32-bit state of one shard: the write bit, the upgrade bit and the
reader count. Blocks that hash to the shard share it. Loads and compare-and-swaps
are separate steps with the loaded copy in `old`; enqueueing, dequeueing and waking
happen under the shard's mutex and are one step each. `queue` keeps the head, tail,
prev and next pointers themselves, because a waiter that is dequeued twice or
enqueued twice changes a linked list in ways a set would hide. `closed` holds the
waiters whose channel is closed and `panicked` records a second close. `held` is
the locks map of each ConcurrencyMgr.

Abstractions: of the 30 spins any failed one may be the last; a transaction whose
call fails releases its locks; `Release` is called once, at the end (strict 2PL).

### TableScan

`size` and `used` are the file and the flags of its slots, `scan` the block and slot of each
`TableScan`, `held` the locks, `op` the call a transaction is in. A step is
one lock with what is done under it: the search of a block under its shared lock, the flag
under the exclusive one, the size under the shared lock of the end of the file, an
append under the exclusive one. `undo` has the flags a rollback restores, `committed` and
`seen` are history: what was committed, and what `Next` has returned. `Format` writes its flags without a
log record and looks at no error, as in the code. Commit and rollback are one step each: their
steps are in `RecoveryMgr`, and the locks are held until their end. The values of fields are left
out: they are read and written under the lock of the same block. Pins are in `BufferMgr`; the
one `NewRecordPage` takes, without a look at its error (`recordpage.go:25`), is taken to succeed.

### SimpleDB

A step is a critical section of `db.mu` or a run of statements no other goroutine can see.
`once` is the state of `errOnce` and `closeOnce`, whose second caller waits for the
first one; `wg`, `tick` and `cancelled` are the WaitGroup, the channels of the tickers
and the context. `NewTransaction` tests the state and goes on without the mutex;
`nextTxNumber` is two steps, its add and its read. Recovery and the work of a
loop are one step that may fail.

## What TLC checks

| Run | Instance | Distinct states | Properties |
|---|---|---|---|
| `RecConcurrent` | 2 pages, 2 transactions, 2 updates, 1 crash | 802,165 | CommitDurable, UndoReadsOwn, EndMeansResolved, RefinesDurableLog, RefinesTxStore |
| `RecCheckpoint` | 1 page, 2 transactions, 2 updates, 1 checkpoint, 1 crash | 2,297,006 | TypeOK, WAL, CommittedValues |
| `RecCrashes` | 2 pages, 1 number used twice, 2 updates, 1 checkpoint, 2 crashes | 604,929 | RedoRepeatsHistory, CompensatedOnce, PrevLSNChain, EndIsFinal, RecoveryEnds |
| `LockSafety` | 2 transactions, 2 blocks of one shard | 56,345 | TypeOK, WordMatchesHolders, ReservationOwned, WriterOwnsWord, RefinesRWLock, CallsReturn |
| `LogDurable` | 2 goroutines, blocks of 2 cells, records of 1, 2 and 5, 4 records, 2 crashes | 292,307 | TypeOK, SavedIsOnDisk, AckedOnDisk, RefinesDurableLog |
| `BufferPool` | 2 transactions, 3 blocks, 4 pointers, 2 buffers, 2 pins each | 183,042 | TypeOK, PoolConsistent, PinsCounted, PinnedKeepsBlock, CacheCoherent, SleepersNeedWake |
| `TableScan` | 2 transactions, 2 blocks of 2 slots | 378,041 | TypeOK, NoDirtyRead, NoPhantoms, SlotStaysFree, CallsReturn |
| `Lifecycle` | 3 goroutines, 2 loops, 1 transaction | 47,285 | TypeOK, RecoveryAlone, QuietWhenClosed, CloseReports, CallsReturn, FailureStopsAll |

Why these bounds are enough for the interesting cases.

- *Recovery.* Two transactions and two updates give a loser and a winner on the same
  page and on different pages, a rollback of two updates, and a page flushed in
  the middle of either. The second crash of `RecCrashes` may fall into the recovery
  from the first one, into a rollback that the first one interrupted, or into the
  life of the next transaction with the same number. `RecCheckpoint` may crash
  between any two steps of a checkpoint, or after it, so that the analysis starts
  from the old or from the new one.
- *Locks.* One transaction may meet itself in another block of its shard; a reader
  upgrades beside another reader, both upgrade, and a writer waits for either. With a third
  transaction and two blocks there are over four million states; the theorems cover it.
- *Log.* A record of 1 shares its block, one of 2 fills a block to its last byte,
  one of 5 has a first, a middle and a last fragment and ends in the middle of
  a block. Four records roll over several times, and a second crash may hit the
  restart from the first.
- *Pool.* Three blocks in two buffers make every miss evict; with two pins each,
  one transaction may have all buffers, or both wait for each other; one block has
  two pointers.
- *Scans.* A scan passes a full block, the last block and a block that another transaction
  has just appended, on a file that starts empty or with any set of records; the
  second append finds the disk full.
- *SimpleDB.* Three callers allow two Closes and a Start or a transaction beside them.
  All may call again and again; only the transactions are bounded.

Parameters that switch a case of the code off. Each passing run names them, and the
README's next section and the notes of the hazards say what TLC finds with the other value.

| Parameter or hypothesis | In the passing runs | Without it |
|---|---|---|
| `CheckpointAlone` | no checkpoint inside a call of a transaction | committed updates lost (`RecCkptCommit`) |
| `OneRestart` (`RecoveryPageProofs`) | one checkpoint, or one crash, in a run with `CommittedValues` | the undo of a loser lost: `CommittedValues` is violated |
| `FlushAlone` | no `Flush` while an `Append` runs | an acknowledged record overwritten: `AckedOnDisk` is violated |
| `CrashAnywhere` FALSE | no crash while the last log block does not end with a record | records read twice (`LogPhantom`) |
| `TornReads` FALSE | a failed read leaves the page in memory as it was | `CacheCoherent` is violated |

Fairness, with its reason in each case:

- `RecCrashes`: weak fairness of Recover's own steps. It runs in one goroutine,
  before any other is started, and nothing blocks it; crashes are not fair and bounded.
- `LockSafety`: weak fairness of the steps within a lock call and of its timeout: every
  call makes a context `WithTimeout` (`locktable.go:206`, `:256`), and the
  scheduler runs every runnable goroutine. Nobody is assumed to release a lock; that is why
  `CallsReturn` promises a return, and not the lock.
- `TableScan`: weak fairness of the next step of a call or its failure. A
  step that needs a lock is enabled only while the lock can be had; the timeout of
  the lock is the failure.
- `Lifecycle`: weak fairness of the steps of a call and of a loop, and strong fairness of a
  loop's exit: a Go `select` with several ready cases picks one at random, so that a
  cancelled loop with a tick in its channel does not take the tick for ever.

`Idle`, `Rest` and `Stopped` are the only stuttering steps: nothing is open, the bounds are
used up, or the process has ended or panicked.

Every property of a passing run has a mutant of the code (a skipped flush, an
off-by-one, a missing reset, a blind store) under which the same run finds it
violated; the mutated operators stand beside the originals.

## Where the code disagrees with its own claims

Four runs state what a test of the repository says, and TLC finds a
behaviour of the code that violates it.

- `RecCkptCommit` / `WinnersKept`: a checkpoint overlaps a commit. Its ATT snapshot
  still holds the transaction, the END record comes before CHECKPOINT_END, and the
  analysis takes the stale entry in (`recovery.go:133`, `:331`): the committed
  transaction is rolled back.
- `LockPanic` / `UnlockNeverPanics`: a woken waiter that fails again is enqueued
  with its closed channel; the next Unlock closes it again and panics.
- `LogPhantom` / `RecordsInOrder`: a crash after a roll-over and before the new block
  holds a record. The restart reads the bytes that the old block left in the new
  one: its first record, a second time.
- `TxNumbers` / `StartedOnce`: two goroutines add to the counter and then read it
  (`transaction.go:177`); both transactions have the same number, in two START records
  and one ATT entry.

Met while modelling, of the same kind, and without a run of their own because no line of the
repository promises the opposite or a run above has the same cause: a checkpoint between the append of a SET
record and `SetModified` misses the page, and redo skips a committed update; Recover replaces
the shared DPT by a table that lacks the pages only the undo phase made dirty
(`recovery.go:172`): a checkpoint behind it does not know them, and after a second crash redo skips
the CLR of a rollback that has its END record, so that the value of the loser is back; a waiter
of a lock that is enqueued after the Unlock it waits for sleeps until its timeout; an
upgraded owner clears, in Unlock, an upgrade bit another transaction has reserved
(`locktable.go:402`); a crash between the append of the header block and its write leaves a log
that no start accepts (`log.go:87`). None of the lock findings breaks mutual exclusion,
which is proved.

## What is proved

TLAPS checks every step of the proof modules, for all values of the constants.

`RecoveryMgrProofs`, from the assumptions on `MaxTx` and the bounds:

- `Durability`: `DurabilityInv` is an invariant;
- `TypesKept`, `WriteAheadLogging`, `CommitsAreDurable`: `TypeOK`, `WAL` and `CommitDurable`;
- `UsesDurableLog`: `RefinesDurableLog`, with `log` and `flushed` mapped to themselves.

The inductive invariant is `TypeOK /\ LSNBounds /\ HandlerRecords /\ CommitDurable`.
`WAL` is not inductive alone: when a page is written, its LSN must be one that a
flush can reach, so page LSNs must lie within the log (`PageBounds`), which
needs the LSN in each handler to lie within it (`TxBounds`), and `flushed` as well.
`TableBounds` carries the same through the ATT, the tables of the analysis and the
snapshots in checkpoint records; a crash shortens the log, so that a checkpoint record must not name
LSNs behind itself. `HandlerRecords` says that a handler past its append finds a
record of the right kind there, which type correctness of `UpdatePage` and `UndoPage`
needs. The proof goes through `Next` by handler: types first (`NextType`), then
`NextGrows` (every step but a crash only extends the log), on which each bound is
kept in a lemma of its own. `UsesDurableLog` follows from the same `NextGrows` and the bound on
`flushed`.

`LockTableProofs`, assuming that there are finitely many transactions and blocks:

- `LockTableInvariant`: `LockInv` is an invariant;
- `ExclusiveLocks`, `WordCountsHolders`, `NoLeakedReservation`: `MutualExclusion`,
  `WordMatchesHolders` and `ReservationOwned`;
- `WriterKeepsWord`: the word does not change under a writer, the assumption
  that the store in `Unlock` (`locktable.go:386`) states in its comment;
- `ImplementsRWLock`: `LockTable` implements `RWLock`, with `held` mapped to itself;
- `LockTypesKept`: `TypeOK`, the waiter lists included.

`LockInv` adds to mutual exclusion that the reader count is the number of shared
locks (`WordMatchesHolders`) and what a call knows at each step: its copy of the word
was free of the bits it checked (`CallCopies`), so that a successful
compare-and-swap is as good as an atomic test; and the copy of a writer in `Unlock`
is still the word (`CallLocks`). The counting is done by `FiniteSetTheorems`. The
waiter lists take no part: mutual exclusion does not depend on who is woken. For
`LockTypesKept`, `TypeOK` with the types of the waiter lists, every change of a pointer
(enqueue, dequeue, the wake loop) is shown to lead to a waiter or to none. The wake loop is a
recursive function over its turns: by a least counterexample (`WFMin` over the natural
numbers, a set and not an operator) it has a run of every length (`TurnsExist`), each turn of
which keeps the types (`TurnsType`).

The second part of `RecoveryMgrProofs`, on top of `DurabilityInv` and assuming `CheckpointAlone`:

- `ChainsKept`: `ChainInv` is an invariant;
- `ChainsAreWhole`, `EndsAreFinal`, `NoSecondCLR`, `EndsAreResolved`:
  `PrevLSNChain`, `EndIsFinal`, `CompensatedOnce` and `EndMeansResolved`;
- `WinnersAreKept`: `WinnersKept`, which the run `RecCkptCommit` refutes when a commit overlaps a
  checkpoint. The hypothesis is thus needed, and the overlap is the only way to the bug.

None of these is inductive. `ChainInv` states what a record owes to those before it, one
record at a time (`RecordOk`): `prev` is the last record of the transaction (`ChainOk`), nothing
follows END, only CLRs and END follow ABORT, and the undoNextLSNs fall (`MayFollow`); a CLR
belongs to one update, above which everything is undone (`ClrOk`); what has its END is
committed or undone (`EndOk`). An append must show this for one record only
(`AppendKeepsLog`), and a crash, which cuts the log, keeps it (`RecordsInPrefix`). The other
half says where everybody stands in the log: each handler, and the rollback with its undo
pointer, at the last record of its transaction (`TxAt`); the ATT of the checkpoint and of
CKPT_END as the log has it at that point (`TableAt`, `CkptAt`); the table of the
analysis as the log has it up to the iterator (`AnalysisAt`), whether the scan came from
a checkpoint or from the start; the losers and the winners of a recovery as the whole log has them.
`DownTo(u, l)` is the heart of the rollback: from record `l` on, undoing has
come to `u`, and every update of the transaction between them has its CLR. A crash in the
middle of a rollback loses the undo pointer; the next recovery enters at the last CLR
and gets it back from its undoNextLSN, because the log says the same.

Its last part keeps what is left of the chains when a checkpoint does overlap a handler, on top of
`DurabilityInv` and with no hypothesis:

- `LinksKept`: `LinkInv` is an invariant;
- `UndoIsReadable`: `UndoReadsOwn`.

A checkpoint that runs inside a call may write down a state that is out of date, and the chain
that a restart goes on from can then miss the last records of a transaction. What it cannot do is
to lead astray: every prevLSN, undoNextLSN, entry of the ATT, of a snapshot or of the table of the
analysis leads to a record of the same transaction further back (`OwnIn`), because each of them
was the position of such a record when it was written down, and records do not move. A snapshot
under way, and a record that is not yet appended, may only name records that are already there.
And the record a rollback reads next is durable: a later one, the ABORT record or the CLR, has
been flushed before, or the whole log has come through a restart.

`RecoveryPageProofs`, on top of `DurabilityInv` and `ChainInv`, assuming `CheckpointAlone` and
`OneRestart` (at most one checkpoint, or at most one crash, in a behaviour):

- `PagesFollowLog`: `PageInv` is an invariant;
- `RedoIsComplete`: `RedoRepeatsHistory`;
- `DataFollowsLog`: `DataInv` is an invariant;
- `CommittedValuesKept`: `CommittedValues`.

Redo starts at the smallest recLSN and skips a record when its page is not in the table,
has a later recLSN, or is on disk with a later LSN. That nothing is missing afterwards has
to be carried from the moment a page is changed to the next recovery:

- `PageOk`, `AppliedOk`, `ApplyOk`: page and disk show a record of the log each, and
  a record that a page does not show belongs to a handler between its append and its
  change. No two handlers are there for one page: `LocksOk` says that what an unfinished
  transaction changed is locked by it, and in the undo phase, where nothing is locked, there is one
  rollback at a time (`OneUndo`). So the changes of a page come in the order of their LSNs;
- `DptOk`, `SnapshotOk`, `HeaderDptOk`: a table *covers* a prefix of the log when it names every page
  that a record of the prefix left dirty, with a recLSN no later than the record. The shared DPT
  does; so do the copy of a checkpoint, its CKPT_END record and the one of the log header, and they go
  on doing so, because the pageLSN on disk only grows (`DiskGrows`);
- `AnalysisDptOk`, `RedoOk`, `AfterRedoOk`: the table of the analysis covers what it has
  read, plus, from CKPT_END on, what is before the checkpoint; and every record that a page misses is
  at the iterator of the redo phase or behind it.

`OneRestart` is there because the code needs it: `Recover` replaces the shared DPT by the table of the
analysis (`recovery.go:172`), which does not know the pages that only the undo phase made dirty. A
checkpoint behind it writes a table that does not cover the log, and after the next crash redo
misses the CLRs. Without a checkpoint behind the recovery, or without a crash behind
that, nothing reads the table; `DptOk` is therefore stated only for as long as one may follow. With
no checkpoint at all (`master = 1`) the analysis reads the whole log, and its table covers
the CLRs of the undo phase as well, because the updates they undo are about the same pages.

`CommittedValues` sums up the whole history of a page, but no induction over the log is needed:
`DataInv` says of each record what it owes to those before it. On one page transactions follow each
other (`SerialOk`), the first update of a transaction stores as old value what was committed
then (`OldOk`), a CLR carries the old value of its update (`ClrDataOk`), and a transaction
number starts again only when its former transaction has ended (`StartOk`). Consider now the last
record about a page that is *settled*, all its writers having their END records. If it is
a SET, its transaction has committed, or `EndOk` would ask for a CLR behind it. If it is a CLR, its update
was the first of the transaction on the page, because a rollback comes down to that, and its old value
is the committed one (`LastClr`, `SettledValue`). A page without a lock is settled by
`LocksOk` (`FreeSettled`), and shows its last record by `AppliedOk` (`SettledShown`). The same
argument proves the step of an update, whose old value is that of the page.

`RecoveryStoreProofs`, on top of all these and under the same hypotheses:

- `RecoveryInvariant`: `RecoveryInv`, the conjunction of the four invariants and `AskedOk`
  (a COMMIT record that is not durable belongs to a flush that has not returned);
- `ImplementsTxStore`: `RefinesTxStore`.

In one state (`StoreFacts`) the mapping is what it should be: the store shows the last durably
committed value of every page, for pages without a lock by `CommittedValues`, and what an open
transaction has written is the last thing on its pages, which it has locked. When a flush
or a crash leaves the first `f` records durable, the commits it makes are those whose COMMIT record is
one of them: every page they have written takes their value (`CommittedOwn`), and the others keep
theirs (`CommittedSame`), which is `Merged` of `TxStore`. Every handler step then either goes on with
every transaction (`Goes`) and commits what it makes durable, perhaps nothing (`GoesCommits`), or it is
one of the five that have a step of their own: `StartStep`, `AskStep`, `AbortStep`,
`WriteStep` and `CrashStep`.

In its last part, on top of `DurabilityInv` and `LinkInv` and with no hypothesis, what a recovery
needs to come to its end, with any number of checkpoints, at any time, and of crashes:

- `ProgressKept`: `ProgressInv` is an invariant;
- `RecoveryGoesDown`: short of a crash, every step while the system recovers leads down in
  `RecoveryOrder`, or is the flush of a page and leaves the measure as it is;
- `RecoveryOrderFounded`: there is no infinite descent in that order;
- `RecoveryGoesOn`: until the system is up there is a step of Recover whose guard holds.

The measure is `RecoveryLeft`: the phases to come; the records still to be scanned, or the transactions
still in the rebuilt table; the stage of the rollback under way; and the record that it has come
down to, in four naturals that are compared in this order. Only the last one is not obvious: that
the undo pointer falls from one call of `doRollback` to the next, through CLRs of earlier
recoveries as well, is the part of `LinkInv` that says that prevLSNs and undoNextLSNs point
backwards. The CLRs which a rollback appends do not count, as nothing scans the log any more.
`ProgressInv` is what the guards need: a rebuilt dirty page table names records of the log
(`DptBounds`), so that redo has a record to begin with; one rollback at a time (`OneUndo`); the undo
phase finds no winner in its table, and whatever it rolls back is in it (`LosersOk`).
None of this needs `OneRestart` or `CheckpointAlone`: a recovery ends even if its tables miss a page
or a record.
With the weak fairness of `RecoverStep` this is the argument for `RecoveryEnds`, up to its last,
temporal step.

`LogMgrProofs`, from the assumptions on the constants:

- `LogInvariant`: `LogTypes` is an invariant;
- `LogTypesKept`: `TypeOK`;
- `LogContents`, for `FlushAlone` TRUE and `CrashAnywhere` FALSE: `ContentInv` is an
  invariant;
- `AllIsSaved`, `AcknowledgedIsOnDisk` and `ImplementsDurableLog`, for the same:
  `SavedIsOnDisk`, `AckedOnDisk` and `RefinesDurableLog`.

After a crash the log is what the iterator reads, so its type is the type of a scan, and
a scan is three nested recursive functions (`Scan` over `NextRecord` over `Chain`). A recursive
function is its equation only if there is a function that solves it. `RecursionExists` builds one for
a recursion that goes down along a measure, from solutions up to each value of the
measure (`SomeObey`), and `MeasureInduction` shows what its values have in common; both are about
sets and functions, so that no operator has to be instantiated. The measure of the iterator is
the way ahead of it (`Ahead`): every piece has a cell, and a step to the next block leaves a
whole block behind (`Moves`). `ChainEnds`, `NextEnds` and `ScanEnds` say that each loop ends on any
blocks with pieces in them, garbage and broken chains included: no restart hangs in its scan. That
the pieces have a cell is part of `LogTypes`, as is what a call knows of the record it appends
(`CallKnows`): a fragment is never larger than what is left of the record or of the page.

`ContentInv` says what those blocks hold. A file is `Laid` for a log if a list of places
tells where each record ends, and `NextRecord` from the end of one record gives the next one, with its
size, up to the end of the next. `ScanLaid` then says that a scan of such a file returns
that log and nothing else. The `File` is the disk with the last block as it is in memory: it is
`Laid` for the records Append has returned for, and a running append stands behind
them (`Pending`), with nothing of its record written yet, or with a beginning of it as a chain of
fragments that ends where the next one goes. Each write of a piece lengthens the chain or ends
it with the record (`AppendGoesOn`); a new block lies behind all that is laid and moves nothing
(`Grown`).

The disk is the file cut short in its last block: what is there is a beginning of
the page (`Near`). So the disk is `Laid` for a prefix of the records. How long a prefix, `Kept` and
`Safe` say: an acknowledged record is on disk, or the last block is the new one, still
empty, and the record starts before it, as roll-over has written that block out.
`FlushGoesOn` needs that the page does not change between the steps of a Flush, which is
`FlushAlone`. A crash leaves a disk that ends with a record or with a new block
(`UsableCut`); it is `Laid` for at least the acknowledged records (`LaidHad`, `CutContents`), and the
restart, which takes up that block (`log.go:396`), begins with the invariant again
(`CrashContents`). With a crash in the middle of a record, or a Flush beside an Append, this
fails as the code does: `LogPhantom`, and the table of parameters above.

In `ImplementsDurableLog` a record comes into the log when Append returns its LSN, and is
promised when Flush returns; every other step is a stutter (`PromiseStep`).

`BufferMgrProofs`, assuming finitely many buffers, that a reference means a block, and that
`None` is nothing else:

- `PoolInvariant`: `Inv` is an invariant;
- `BooksAgree`, `PinsAreCounted`, `PinnedBlocksStay`, `NoLostWakeUp`, `TypesKept`:
  `PoolConsistent`, `PinsCounted`, `PinnedKeepsBlock`, `SleepersNeedWake` and `TypeOK`;
- `LatestContents`: `CacheCoherent`, for `TornReads` FALSE.

The properties lean on each other. That an eviction takes no held buffer needs that a held
buffer is pinned, which is `PinsCounted`: the pins are a set of tokens, one for each pin
under each reference, and its cardinality moves with each step. The tokens of a buffer must be
finitely many for that (`PinsFinite`). `numAvailable` moves with the set of unpinned buffers
in the same way. `SleepersNeedWake` then only has to look at steps that unpin. `Contents`
says where the latest contents are: a buffer always has those of its block, and a clean
one has them on disk as well.

`TableScanProofs`, from the assumptions on `MaxBlocks`, `Slots` and `None`:

- `ScanInvariant`: `Inv` is an invariant;
- `ScansReadCommitted`, `ScansComplete`, `InsertsFindFree`, `TypesKept`: `NoDirtyRead`,
  `NoPhantoms`, `SlotStaysFree` and `TypeOK`.

`Inv` says that an exclusive lock excludes all others, that what a transaction changed
is locked by it and its undo list has the committed flag (`UndoKept`), and that flags
nobody changed are committed (`Clean`): so a flag read under a lock is committed or one's own.
`Covered` follows a scan: all it went past is locked, and the records among it were
returned; once it came to the end, the lock on the end of the file holds the size
still. `FreshBlock` is what the unlogged `Format` needs: a block that waits for it is the
last, and no other scan has reached it.

`SimpleDBProofs`, assuming finitely many loops:

- `LifecycleInvariant`: `Inv` is an invariant;
- `OneRecoveryFirst`, `NothingAfterClose`, `ErrorsReported`, `TypesKept`: `RecoveryAlone`,
  `QuietWhenClosed`, `CloseReports` and `TypeOK`.

The state tells how far the one Start is (`StartOrder`), and before the launch there is no
loop, transaction or Close (`BeforeLaunch`). The WaitGroup is the number of loops that are not
done (`LoopsCounted`), so that a Close behind `Wait` finds none. A loop that failed keeps its
error before it leaves (`ErrorKept`), so that Close, which reads it behind `Wait`, reports one.

Model-checked only: liveness (`RecoveryEnds`, `CallsReturn`, `FailureStopsAll`), because weak
fairness is about ENABLED, which TLAPS does not reach here, and the four violations, each of which
is a behaviour and not a theorem. Of `RecoveryEnds` the descent, its order and the guards
are proved, as `RecoveryGoesDown`, `RecoveryOrderFounded` and `RecoveryGoesOn`; that a guard which holds
is a step that can be taken, and that fairness takes it, is not.
Every invariant, action property and refinement of the passing runs is proved. Where a
theorem has a hypothesis (`CheckpointAlone`, `OneRestart`, `FlushAlone`, `CrashAnywhere` or
`TornReads`), it is there because the code needs it: without it TLC finds the property violated,
and the table of parameters says what happens.

The leaves of the proofs are small: each goes through in a tenth of the time that the provers are
given by default (`tlapm --stretch 0.1`), so that a slower machine checks them as well.

## Not modelled

- The layout of pages, the encoding of log records, the five value types, and the
  offsets of `Schema` and `Layout`: sequential conversions that the unit tests cover.
- `FileMgr`'s directory and open files. That a block is read and written whole, under
  a mutex, is taken over.
- `LockReadCommitted` and, outside recovery, `LockNoLock`: only tests choose them. What the
  first would break is the mutant of `SlotStaysFree`.
- I/O errors within a recovery or a commit, and a second `Start` after a failed recovery
  with the tables of the first.
- The typed getters and setters of `TableScan`.

## Plan

Done: `RecoveryMgr`, `LockTable`, `LogMgr`, `BufferMgr`, `TableScan`, `SimpleDB`, and the
abstract specifications `DurableLog`, `RWLock` and `TxStore`. Of what the runs
check, liveness alone has no proof. What can still be added:

1. What is left of the guarantees of `LogMgr` when a Flush does overlap an Append.
2. The steps of the argument for `CallsReturn` of `LockTable` and of `TableScan`, as they are proved
   for `RecoveryEnds`. Timeouts and failures keep them short.
