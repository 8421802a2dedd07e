------------------------------- MODULE LogMgr -------------------------------
(***************************************************************************)
(* The log manager, internal/log/log.go: one page in memory, the blocks of *)
(* the log file, and the iterator that reads them.  Append runs under a    *)
(* mutex; Flush and the restart do not take it.  A record that does not    *)
(* fit into what is left of a block goes to a new one, a record larger     *)
(* than a block is split into fragments.  The system may crash between any *)
(* two writes, and NewLogMgr then goes on behind what it finds on disk.    *)
(*                                                                         *)
(* A block is a boundary and an array of cells; the cell at which a        *)
(* physical record starts holds it.  An LSN is the position of a cell in   *)
(* the file.  Bytes behind the boundary stay what they were, as in the     *)
(* code, which resets the boundary of the page and nothing else.           *)
(***************************************************************************)
EXTENDS Integers, Sequences

CONSTANTS
    Threads,       \* goroutines that append and flush
    Cap,           \* cells of a block
    Sizes,         \* sizes of the records that are appended, in cells
    MaxRec,        \* bound: records appended in all
    MaxCrash,      \* bound: crashes
    FlushAlone,    \* TRUE: no Flush overlaps an Append
    CrashAnywhere  \* FALSE: no crash while the last block does not end
                   \* with a record

ASSUME CapAssumption == Cap \in Nat \ {0}
ASSUME SizeAssumption == Sizes \subseteq Nat \ {0}
ASSUME LogBoundAssumption == MaxRec \in Nat /\ MaxCrash \in Nat
ASSUME LogEnvAssumption == FlushAlone \in BOOLEAN /\ CrashAnywhere \in BOOLEAN

VARIABLES
    phase,   \* "down", the steps of NewLogMgr, "up", or "failed"
    header,  \* block 0: missing, zeroed, or the last checkpoint's LSN
    disk,    \* the data blocks of the file
    page,    \* logpage
    cur,     \* currentblk
    latest,  \* latestLSN
    saved,   \* lastSavedLSN
    call,    \* program counter and locals of each goroutine
    logged,  \* the records Append has returned for and a crash has not lost
    acked,   \* how many of them a returned Flush covers
    used     \* counters for the bounds

memory == <<page, cur, latest, saved, call>>
vars == <<phase, header, disk, page, cur, latest, saved, call, logged, acked, used>>

-----------------------------------------------------------------------------
(* Physical records and blocks. *)

Absent == -2   \* header: the file is empty
Zeroed == -1   \* header: block 0 is appended, not yet written

Piece(k, id, n, total) == [kind |-> k, id |-> id, size |-> n, total |-> total]
NoPiece == Piece("none", 0, 1, 0)     \* zero bytes: a record of length 0
Inside  == Piece("inside", 0, 1, 0)   \* in the middle of a record
Overrun == Piece("overrun", 0, 1, 0)  \* behind the end of the page

(* fm.Append writes zeros: a boundary before the first cell. *)
ZeroBlock == [boundary |-> -1, cells |-> [p \in 0 .. Cap - 1 |-> NoPiece]]

LSN(at) == at.blk * Cap + at.pos
AtLSN(lsn) == [blk |-> lsn \div Cap, pos |-> lsn % Cap]
FirstLSN == Cap

(* SetBytes at the boundary, then the new boundary.  On a zeroed block the *)
(* record starts where the boundary itself is stored, and is destroyed.    *)
Room(pg) == Cap - IF pg.boundary < 0 THEN 0 ELSE pg.boundary
Written(pg, piece) ==
    LET b == Cap - Room(pg)
        kept == IF pg.boundary < 0 THEN Inside ELSE piece
    IN  [boundary |-> b + piece.size,
         cells |-> [p \in 0 .. Cap - 1 |->
                       IF p = b THEN kept
                       ELSE IF p \in b + 1 .. b + piece.size - 1 THEN Inside
                       ELSE pg.cells[p]]]

Reset(pg) == [pg EXCEPT !.boundary = 0]

-----------------------------------------------------------------------------
(* The iterator, on the blocks d of the file. *)

HasNext(d, at) ==
    \/ at.blk < Len(d)
    \/ at.blk = Len(d) /\ at.pos < d[at.blk].boundary

(* ensureCurrentBlock: one step forward, whatever the next block holds. *)
EnsureCurrent(d, at) ==
    IF at.pos >= d[at.blk].boundary /\ at.blk < Len(d)
    THEN [blk |-> at.blk + 1, pos |-> 0]
    ELSE at

PieceAt(d, at) == IF at.pos < Cap THEN d[at.blk].cells[at.pos] ELSE Overrun
Behind(at, piece) == [at EXCEPT !.pos = @ + piece.size]

Places(d) == [blk : 1 .. Len(d), pos : Nat]
Broken(at) == [ok |-> FALSE, id |-> 0, at |-> at]

(* reconstructFragmentChain: what follows a first fragment with `left`     *)
(* cells of its record missing.  A piece that is no fragment is not        *)
(* consumed.                                                               *)
Chain(d) ==
    LET chain[x \in Places(d) \X Int] ==
            LET start == x[1]
                left  == x[2]
                at == EnsureCurrent(d, start)
                p  == PieceAt(d, at)
            IN  IF left <= 0 THEN Broken(start)
                ELSE IF p.kind \notin {"first", "cont", "last"} THEN Broken(at)
                ELSE IF p.kind = "first" THEN Broken(Behind(at, p))
                ELSE IF p.kind = "last" /\ left = p.size
                THEN [ok |-> TRUE, id |-> p.id, at |-> Behind(at, p)]
                ELSE chain[<<Behind(at, p), left - p.size>>]
    IN  chain

Garbage == 0    \* bytes that are not a record that was appended
Panic   == -1   \* a slice out of its range

(* Next: skips zero bytes and broken chains until it has a record. *)
NextRecord(d) ==
    LET next[start \in Places(d)] ==
            LET at == EnsureCurrent(d, start)
                p  == PieceAt(d, at)
                c  == Chain(d)[<<Behind(at, p), p.total - p.size>>]
                Got(id, rest) == [id |-> id, lsn |-> LSN(at), at |-> rest]
            IN  IF p.kind = "normal" THEN Got(p.id, Behind(at, p))
                ELSE IF p.kind = "overrun" THEN Got(Panic, at)
                ELSE IF p.kind = "inside" THEN Got(Garbage, Behind(at, p))
                ELSE IF p.kind # "first" THEN next[Behind(at, p)]
                ELSE IF ~c.ok THEN next[c.at]
                ELSE Got(IF c.id = p.id THEN p.id ELSE Garbage, c.at)
    IN  next

(* for iter.HasNext() { iter.Next() }: everything read from an LSN on. *)
Scan(d, lsn) ==
    LET scan[at \in Places(d)] ==
            IF ~HasNext(d, at) THEN <<>>
            ELSE LET n == NextRecord(d)[at]
                 IN  <<[lsn |-> n.lsn, id |-> n.id]>>
                         \o (IF n.id = Panic THEN <<>> ELSE scan[n.at])
    IN  IF AtLSN(lsn).blk > Len(d) THEN <<>> ELSE scan[AtLSN(lsn)]

(* ReadRecordAt: the id of the record at lsn, Panic standing for any error. *)
ReadRecordAt(d, lsn) ==
    IF AtLSN(lsn).blk \in 1 .. Len(d) /\ HasNext(d, AtLSN(lsn))
    THEN NextRecord(d)[AtLSN(lsn)].id
    ELSE Panic

-----------------------------------------------------------------------------
(* NewLogMgr. *)

Idle == [pc |-> "idle", id |-> 0, total |-> 0, left |-> 0, lsn |-> 0, blk |-> 0, pos |-> 0]

Init ==
    /\ phase = "down"
    /\ header = Absent
    /\ disk = <<>>
    /\ page = ZeroBlock
    /\ cur = 0 /\ latest = 0 /\ saved = 0
    /\ call = [t \in Threads |-> Idle]
    /\ logged = <<>>
    /\ acked = 0
    /\ used = [recs |-> 0, crashes |-> 0]

(* The empty file: the header block is appended, then written. *)
AppendHeader ==
    /\ phase = "down" /\ header = Absent
    /\ header' = Zeroed
    /\ phase' = "header"
    /\ UNCHANGED <<disk, memory, logged, acked, used>>

WriteHeader ==
    /\ phase = "header"
    /\ header' = FirstLSN
    /\ phase' = "block"
    /\ UNCHANGED <<disk, memory, logged, acked, used>>

(* readHeader finds no magic number: this start fails, and every later one. *)
BadHeader ==
    /\ phase = "down" /\ header = Zeroed
    /\ phase' = "failed"
    /\ UNCHANGED <<header, disk, memory, logged, acked, used>>

(* The file has a header and no data block. *)
NoBlock ==
    /\ phase = "down" /\ header >= 0 /\ disk = <<>>
    /\ phase' = "block"
    /\ UNCHANGED <<header, disk, memory, logged, acked, used>>

(* appendNewBlock for the first data block, in its two writes. *)
FirstAppend ==
    /\ phase = "block"
    /\ disk' = Append(disk, ZeroBlock)
    /\ phase' = "first"
    /\ UNCHANGED <<header, memory, logged, acked, used>>

FirstWrite ==
    /\ phase = "first"
    /\ page' = Reset(page)
    /\ disk' = [disk EXCEPT ![Len(disk)] = page']
    /\ cur' = Len(disk)
    /\ phase' = "up"
    /\ UNCHANGED <<header, latest, saved, call, logged, acked, used>>

(* The log goes on in its last block. *)
LoadLast ==
    /\ phase = "down" /\ header >= 0 /\ disk # <<>>
    /\ page' = disk[Len(disk)]
    /\ cur' = Len(disk)
    /\ phase' = "up"
    /\ UNCHANGED <<header, disk, latest, saved, call, logged, acked, used>>

-----------------------------------------------------------------------------
(* Append, under the mutex. *)

AppendPCs == {"put", "publish", "roll", "switch"}
FlushPCs  == {"capture", "write", "save"}
MutexFree == \A t \in Threads : call[t].pc \notin AppendPCs
NoFlush   == \A t \in Threads : call[t].pc \notin FlushPCs

Goto(t, pc) == call' = [call EXCEPT ![t].pc = pc]

AppendCall(t, n) ==
    /\ phase = "up" /\ call[t].pc = "idle" /\ MutexFree
    /\ FlushAlone => NoFlush
    /\ used.recs < MaxRec
    /\ used' = [used EXCEPT !.recs = @ + 1]
    /\ call' = [call EXCEPT ![t] =
                   [Idle EXCEPT !.pc = "put", !.id = used'.recs, !.total = n, !.left = n]]
    /\ UNCHANGED <<phase, header, disk, page, cur, latest, saved, logged, acked>>

(* canFitAsSingle; a fragment takes what the block has left. *)
Single(c) == c.total <= Cap

\* Mutant of MustRoll: canFit is off by one.
MustRollLate(c) == IF Single(c) THEN c.total > Room(page) + 1 ELSE Room(page) = 0
MustRoll(c) == IF Single(c) THEN c.total > Room(page) ELSE Room(page) = 0
NextPiece(c) ==
    LET n == IF c.left < Room(page) THEN c.left ELSE Room(page)
    IN  IF Single(c) THEN Piece("normal", c.id, c.total, c.total)
        ELSE IF c.left = c.total THEN Piece("first", c.id, n, c.total)
        ELSE Piece(IF n = c.left THEN "last" ELSE "cont", c.id, n, c.total)

Put(t) ==
    LET c == call[t]
        p == NextPiece(c)
    IN  /\ c.pc = "put" /\ ~MustRoll(c)
        /\ page' = Written(page, p)
        /\ call' = [call EXCEPT ![t].pc = "publish", ![t].left = c.left - p.size,
                                ![t].pos = Cap - Room(page),
                                ![t].lsn = IF c.left = c.total
                                           THEN LSN([blk |-> cur, pos |-> Cap - Room(page)])
                                           ELSE @]
        /\ UNCHANGED <<phase, header, disk, cur, latest, saved, logged, acked, used>>

(* latestLSN is the last fragment's, the caller gets the first one's. *)
Publish(t) ==
    LET c == call[t]
    IN  /\ c.pc = "publish"
        /\ latest' = LSN([blk |-> cur, pos |-> c.pos])
        /\ IF c.left > 0
           THEN Goto(t, "put") /\ UNCHANGED logged
           ELSE /\ call' = [call EXCEPT ![t] = Idle]
                /\ logged' = Append(logged, [lsn |-> c.lsn, id |-> c.id])
        /\ UNCHANGED <<phase, header, disk, page, cur, saved, acked, used>>

\* Mutant of WritePage: the error of fm.Write is dropped.
WriteFails(b) == UNCHANGED disk
WritePage(b) == disk' = [disk EXCEPT ![b] = page]

\* Mutant of NewBlock: currentblk stays at the old block.
OldBlock == cur
NewBlock == Len(disk)

(* ensureNewBlock.  A concurrent Flush can tell three steps apart: the old  *)
(* block is written; a zeroed block follows it and the boundary of the     *)
(* shared page is reset; the page is written there and becomes current.    *)
RollWrite(t) ==
    /\ call[t].pc = "put" /\ MustRoll(call[t])
    /\ WritePage(cur)
    /\ Goto(t, "roll")
    /\ UNCHANGED <<phase, header, page, cur, latest, saved, logged, acked, used>>

RollAppend(t) ==
    /\ call[t].pc = "roll"
    /\ saved' = latest
    /\ disk' = Append(disk, ZeroBlock)
    /\ page' = Reset(page)
    /\ Goto(t, "switch")
    /\ UNCHANGED <<phase, header, cur, latest, logged, acked, used>>

RollSwitch(t) ==
    /\ call[t].pc = "switch"
    /\ WritePage(Len(disk))
    /\ cur' = NewBlock
    /\ Goto(t, "put")
    /\ UNCHANGED <<phase, header, page, latest, saved, logged, acked, used>>

-----------------------------------------------------------------------------
(* Flush, without the mutex. *)

Acknowledge(i) == acked' = IF i > acked THEN i ELSE acked

FlushCall(t, i) ==
    /\ phase = "up" /\ call[t].pc = "idle"
    /\ FlushAlone => MutexFree
    /\ IF logged[i].lsn > saved
       THEN /\ call' = [call EXCEPT ![t] = [Idle EXCEPT !.pc = "capture", !.id = i]]
            /\ UNCHANGED acked
       ELSE Acknowledge(i) /\ UNCHANGED call
    /\ UNCHANGED <<phase, header, disk, page, cur, latest, saved, logged, used>>

FlushCapture(t) ==
    /\ call[t].pc = "capture"
    /\ call' = [call EXCEPT ![t].pc = "write", ![t].blk = cur]
    /\ UNCHANGED <<phase, header, disk, page, cur, latest, saved, logged, acked, used>>

FlushWrite(t) ==
    /\ call[t].pc = "write"
    /\ WritePage(call[t].blk)
    /\ Goto(t, "save")
    /\ UNCHANGED <<phase, header, page, cur, latest, saved, logged, acked, used>>

FlushSave(t) ==
    /\ call[t].pc = "save"
    /\ saved' = latest
    /\ Acknowledge(call[t].id)
    /\ call' = [call EXCEPT ![t] = Idle]
    /\ UNCHANGED <<phase, header, disk, page, cur, latest, logged, used>>

(* WriteLastCheckpointLSN reads and writes block 0 under the mutex.  The   *)
(* caller, writeCheckpoint, has flushed the record before.                 *)
WriteCheckpoint(i) ==
    /\ phase = "up" /\ MutexFree
    /\ i <= acked /\ header < logged[i].lsn
    /\ header' = logged[i].lsn
    /\ UNCHANGED <<phase, disk, memory, logged, acked, used>>

-----------------------------------------------------------------------------
(* The last block ends with a record or the last fragment of one, or the   *)
(* log is empty: the iterator will not run past what was written.          *)
EndsWithRecord(b) ==
    \E p \in 0 .. b.boundary - 1 :
        b.cells[p].kind \in {"normal", "last"} /\ p + b.cells[p].size = b.boundary

FileUsable ==
    disk # <<>> => \/ EndsWithRecord(disk[Len(disk)])
                   \/ Len(disk) = 1 /\ disk[1].boundary = 0

Crash ==
    /\ phase \notin {"down", "failed"} /\ used.crashes < MaxCrash
    /\ CrashAnywhere \/ FileUsable
    /\ phase' = "down"
    /\ page' = ZeroBlock
    /\ cur' = 0 /\ latest' = 0 /\ saved' = 0
    /\ call' = [t \in Threads |-> Idle]
    /\ logged' = Scan(disk, FirstLSN)
    /\ acked' = Len(logged')
    /\ used' = [used EXCEPT !.crashes = @ + 1]
    /\ UNCHANGED <<header, disk>>

(* Nothing is left to do within the bounds, or NewLogMgr has failed. *)
Rest ==
    /\ \/ phase = "failed"
       \/ phase = "up" /\ MutexFree /\ NoFlush
    /\ UNCHANGED vars

Start == AppendHeader \/ WriteHeader \/ BadHeader \/ NoBlock
            \/ FirstAppend \/ FirstWrite \/ LoadLast

Step(t) ==
    \/ \E n \in Sizes : AppendCall(t, n)
    \/ Put(t) \/ Publish(t)
    \/ RollWrite(t) \/ RollAppend(t) \/ RollSwitch(t)
    \/ \E i \in DOMAIN logged : FlushCall(t, i)
    \/ FlushCapture(t) \/ FlushWrite(t) \/ FlushSave(t)

Next ==
    \/ Start
    \/ \E t \in Threads : Step(t)
    \/ \E i \in DOMAIN logged : WriteCheckpoint(i)
    \/ Crash
    \/ Rest

Spec == Init /\ [][Next]_vars

-----------------------------------------------------------------------------
(***************************************************************************)
(* Properties.                                                             *)
(***************************************************************************)
PhysicalRecord ==
    [kind : {"none", "inside", "overrun", "normal", "first", "cont", "last"},
     id : 0 .. MaxRec, size : Nat, total : Nat]
Block == [boundary : -1 .. Cap, cells : [0 .. Cap - 1 -> PhysicalRecord]]

TypeOK ==
    /\ phase \in {"down", "header", "block", "first", "up", "failed"}
    /\ header \in Int
    /\ \A b \in DOMAIN disk : disk[b] \in Block
    /\ page \in Block
    /\ cur \in 0 .. Len(disk)
    /\ latest \in Nat /\ saved \in Nat
    /\ call \in [Threads ->
          [pc : {"idle"} \cup AppendPCs \cup FlushPCs, id : Nat, total : Nat,
           left : Nat, lsn : Nat, blk : 0 .. Len(disk), pos : 0 .. Cap - 1]]
    /\ acked \in 0 .. Len(logged)
    /\ used \in [recs : 0 .. MaxRec, crashes : 0 .. MaxCrash]

\* The log manager keeps the promise of DurableLog: whatever crash and restart
\* leave is a prefix of what was appended, with all that Flush has acknowledged
\* (log.go:130, 148 and the restart at log.go:119).
Promise == INSTANCE DurableLog WITH records <- logged, durable <- acked
RefinesDurableLog == Promise!Spec

\* When nobody is appending or flushing, and lastSavedLSN says that all is
\* saved, then the iterator reads exactly the appended records from disk, in
\* order, records in fragments included (log.go:325, 410).
SavedIsOnDisk ==
    phase = "up" /\ MutexFree /\ NoFlush /\ saved = latest =>
        Scan(disk, FirstLSN) = logged

\* The piece at the LSN of an acknowledged record is on disk, at any moment
\* of an append or roll-over (log.go:130): ReadRecordAt finds a record that fits
\* into a block as soon as Flush has returned, which doRollback relies on.
AckedOnDisk ==
    \A i \in 1 .. acked :
        LET at == AtLSN(logged[i].lsn)
        IN  /\ at.blk \in DOMAIN disk /\ at.pos < disk[at.blk].boundary
            /\ PieceAt(disk, at).id = logged[i].id
            /\ PieceAt(disk, at).kind = "normal" =>
                  ReadRecordAt(disk, logged[i].lsn) = logged[i].id

\* The iterator returns the records it finds in the order they were appended in,
\* each once, after a restart too (log_test.go:723).
RecordsInOrder == 
    \A i, j \in DOMAIN logged : i < j /\ logged[j].id > 0 => logged[i].id < logged[j].id
=============================================================================
