----------------------------- MODULE RecoveryMgr -----------------------------
(***************************************************************************)
(* Transactions, write-ahead log, buffer pool, fuzzy checkpoint and the    *)
(* three-phase restart recovery of internal/trx/recovery, with the shared  *)
(* active transaction table (ATT) and dirty page table (DPT).              *)
(*                                                                         *)
(* Abstractions.  An LSN is the position of a record in log: the byte      *)
(* offsets of log.go are ordered the same way.  A page holds one value;    *)
(* every update stores a value of its own, the LSN of its SET record, so   *)
(* that no two updates are confused.  lock is the exclusive page lock of a *)
(* transaction (strict 2PL, held until Release); shared locks are not      *)
(* needed because reads change nothing here.                               *)
(***************************************************************************)
EXTENDS Integers, Sequences, FiniteSets

CONSTANTS
    Pages,              \* the blocks of the data files
    MaxTx,              \* transaction numbers handed out by one process: 1..MaxTx
    CheckpointAlone,    \* TRUE: no handler of a transaction overlaps a checkpoint
    MaxStarts,          \* bound on the transactions of a behaviour
    MaxUpdates,         \* bound on the updates of a behaviour
    MaxCheckpoints,     \* bound on the checkpoints of a behaviour
    MaxCrashes          \* bound on the crashes of a behaviour

ASSUME MaxTxAssumption == MaxTx \in Nat \ {0}
ASSUME CheckpointAloneAssumption == CheckpointAlone \in BOOLEAN
ASSUME BoundsAssumption ==
    MaxStarts \in Nat /\ MaxUpdates \in Nat /\ MaxCheckpoints \in Nat /\ MaxCrashes \in Nat

VARIABLES
    log,        \* the log records appended so far, durable or not
    flushed,    \* the records up to this LSN are durable for sure (lastSavedLSN)
    master,     \* lastCheckpointLSN of the log header
    disk,       \* the pages on disk, with their pageLSN
    buf,        \* the pages as the buffer pool shows them, with recLSN
    att,        \* the shared active transaction table
    dpt,        \* the shared dirty page table: recLSN of a page or NoLSN
    lock,       \* holder of a page's exclusive lock, or NoTx
    tx,         \* where each transaction is in the handler it runs
    ckpt,       \* where the checkpoint goroutine is, and its snapshots
    phase,      \* the phase of Recover, or "up"
    recPos,     \* the log iterator of the analysis and of the redo phase
    recAtt,     \* recovAtTbl, the table the analysis rebuilds
    recDpt,     \* recovDptTbl, the table the analysis rebuilds
    used        \* transactions, updates, checkpoints and crashes so far (for the bounds)

logVars == <<log, flushed, master>>
pageVars == <<disk, buf>>
tblVars == <<att, dpt>>
recVars == <<phase, recPos, recAtt, recDpt>>
vars == <<logVars, pageVars, tblVars, lock, tx, ckpt, recVars, used>>

Txns == 1 .. MaxTx
NoTx == 0
NoLSN == -1
LSN == Nat \ {0}

Absent == [status |-> "absent", lastLSN |-> NoLSN]
Entry(s, lsn) == [status |-> s, lastLSN |-> lsn]
EmptyATT == [t \in Txns |-> Absent]
EmptyDPT == [p \in Pages |-> NoLSN]

TxIdle == [pc |-> "none", lsn |-> NoLSN, undo |-> NoLSN]
CkptIdle == [pc |-> "idle", begin |-> NoLSN, att |-> EmptyATT, dpt |-> EmptyDPT]

(***************************************************************************)
(* The log manager, as its callers see it.  Append gives the record the    *)
(* next LSN.  When Flush(lsn) returns, every record up to lsn is durable.  *)
(* Later records may be durable too, those of the same block and those of  *)
(* blocks written when they were full: a crash decides how many (Crash).   *)
(***************************************************************************)
NextLSN == Len(log) + 1

LogAppend(rec) == log' = Append(log, rec) /\ UNCHANGED flushed

\* Mutant of LogFlush: a flush of an older record takes the saved LSN back.
LogFlushBack(lsn) == flushed' = lsn
LogFlush(lsn) == flushed' = IF lsn > flushed THEN lsn ELSE flushed

StartRec(t) == [op |-> "START", txn |-> t, prev |-> NoLSN]
CommitRec(t, prev) == [op |-> "COMMIT", txn |-> t, prev |-> prev]
AbortRec(t, prev) == [op |-> "ABORT", txn |-> t, prev |-> prev]
EndRec(t, prev) == [op |-> "END", txn |-> t, prev |-> prev]
SetRec(t, prev, p, old, new) ==
    [op |-> "SET", txn |-> t, prev |-> prev, page |-> p, old |-> old, new |-> new]
CLRRec(t, prev, p, new, undoNext) ==
    [op |-> "CLR", txn |-> t, prev |-> prev, page |-> p, new |-> new,
     undoNext |-> undoNext]
CkptBeginRec == [op |-> "CKPT_BEGIN"]
CkptEndRec(a, d) == [op |-> "CKPT_END", att |-> a, dpt |-> d]

(***************************************************************************)
(* A change of a buffered page under LSN lsn: Apply*, then SetModified,    *)
(* which enters the page in the DPT only when its recLSN was unset.        *)
(***************************************************************************)
MarkDirty(d, p, lsn) == [d EXCEPT ![p] = IF @ = NoLSN THEN lsn ELSE @]

ApplyToPage(p, val, lsn) ==
    /\ buf' = [buf EXCEPT ![p] =
                  [val |-> val, lsn |-> lsn,
                   recLSN |-> IF @.recLSN = NoLSN THEN lsn ELSE @.recLSN]]
    /\ dpt' = IF buf[p].recLSN = NoLSN THEN MarkDirty(dpt, p, lsn) ELSE dpt

Clean(pg) == [val |-> pg.val, lsn |-> pg.lsn, recLSN |-> NoLSN]

-----------------------------------------------------------------------------
Init ==
    /\ log = << >> /\ flushed = 0 /\ master = 1
    /\ disk = [p \in Pages |-> [val |-> 0, lsn |-> 0]]
    /\ buf = [p \in Pages |-> [val |-> 0, lsn |-> 0, recLSN |-> NoLSN]]
    /\ att = EmptyATT /\ dpt = EmptyDPT
    /\ lock = [p \in Pages |-> NoTx]
    /\ tx = [t \in Txns |-> TxIdle]
    /\ ckpt = CkptIdle
    /\ phase = "up" /\ recPos = 1 /\ recAtt = EmptyATT /\ recDpt = EmptyDPT
    /\ used = [starts |-> 0, updates |-> 0, ckpts |-> 0, crashes |-> 0]

(***************************************************************************)
(* Transactions.  A handler starts from an idle transaction; under         *)
(* CheckpointAlone it also waits for a running checkpoint to end.          *)
(***************************************************************************)
AtRest == {"none", "active", "done"}
MayStartHandler == phase = "up" /\ (CheckpointAlone => ckpt.pc = "idle")

Goto(t, pc) == tx' = [tx EXCEPT ![t].pc = pc]
GotoWith(t, pc, lsn, undo) ==
    tx' = [tx EXCEPT ![t] = [pc |-> pc, lsn |-> lsn, undo |-> undo]]

\* NewRecoveryMgr: the START record, then the entry in the ATT.
StartLog(t) ==
    /\ MayStartHandler
    /\ tx[t].pc = "none"
    /\ \A u \in 1 .. t - 1 : tx[u].pc # "none"      \* numbers are handed out in order
    /\ used.starts < MaxStarts
    /\ LogAppend(StartRec(t))
    /\ GotoWith(t, "new", NextLSN, NoLSN)
    /\ used' = [used EXCEPT !.starts = @ + 1]
    /\ UNCHANGED <<master, pageVars, tblVars, lock, ckpt, recVars>>

StartSet(t) ==
    /\ tx[t].pc = "new"
    /\ att' = [att EXCEPT ![t] = Entry("running", tx[t].lsn)]
    /\ GotoWith(t, "active", NoLSN, NoLSN)
    /\ UNCHANGED <<logVars, pageVars, dpt, lock, ckpt, recVars, used>>

\* A logged update: X lock, SET record with the old value of the page ...
UpdateLog(t, p) ==
    /\ MayStartHandler
    /\ tx[t].pc = "active"
    /\ lock[p] \in {NoTx, t}
    /\ used.updates < MaxUpdates
    /\ lock' = [lock EXCEPT ![p] = t]
    /\ LogAppend(SetRec(t, att[t].lastLSN, p, buf[p].val, NextLSN))
    /\ GotoWith(t, "logged", NextLSN, NoLSN)
    /\ used' = [used EXCEPT !.updates = @ + 1]
    /\ UNCHANGED <<master, pageVars, tblVars, ckpt, recVars>>

\* Mutant of UpdateLink: the ATT keeps the old lastLSN.
UpdateLinkUnlinked(t) ==
    /\ tx[t].pc = "logged"
    /\ Goto(t, "linked")
    /\ UNCHANGED <<logVars, pageVars, tblVars, lock, ckpt, recVars, used>>

\* ... the new lastLSN in the ATT ...
UpdateLink(t) ==
    /\ tx[t].pc = "logged"
    /\ att' = [att EXCEPT ![t].lastLSN = tx[t].lsn]
    /\ Goto(t, "linked")
    /\ UNCHANGED <<logVars, pageVars, dpt, lock, ckpt, recVars, used>>

\* ... and the new value on the buffered page.
UpdatePage(t) ==
    /\ tx[t].pc = "linked"
    /\ LET rec == log[tx[t].lsn] IN ApplyToPage(rec.page, rec.new, tx[t].lsn)
    /\ GotoWith(t, "active", NoLSN, NoLSN)
    /\ UNCHANGED <<logVars, disk, att, lock, ckpt, recVars, used>>

\* Commit: COMMIT record, flush, ATT, END record, ATT again, Release.
CommitLog(t) ==
    /\ MayStartHandler
    /\ tx[t].pc = "active"
    /\ LogAppend(CommitRec(t, att[t].lastLSN))
    /\ GotoWith(t, "commit", NextLSN, NoLSN)
    /\ UNCHANGED <<master, pageVars, tblVars, lock, ckpt, recVars, used>>

\* Mutant of CommitFlush: the COMMIT record stays in the log page.
CommitFlushSkipped(t) ==
    /\ tx[t].pc = "commit"
    /\ Goto(t, "commitFlushed")
    /\ UNCHANGED <<logVars, pageVars, tblVars, lock, ckpt, recVars, used>>

CommitFlush(t) ==
    /\ tx[t].pc = "commit"
    /\ LogFlush(tx[t].lsn)
    /\ Goto(t, "commitFlushed")
    /\ UNCHANGED <<log, master, pageVars, tblVars, lock, ckpt, recVars, used>>

CommitSet(t) ==
    /\ tx[t].pc = "commitFlushed"
    /\ att' = [att EXCEPT ![t] = Entry("commited", tx[t].lsn)]
    /\ Goto(t, "commitSet")
    /\ UNCHANGED <<logVars, pageVars, dpt, lock, ckpt, recVars, used>>

\* The END record of a commit or of a rollback that is through.
EndLog(t) ==
    /\ tx[t].pc \in {"commitSet", "abortSet"}
    /\ LogAppend(EndRec(t, tx[t].lsn))
    /\ Goto(t, "ended")
    /\ UNCHANGED <<master, pageVars, tblVars, lock, ckpt, recVars, used>>

\* Mutant of Finish: the locks are released, but the ATT keeps the entry.
FinishKeepsEntry(t) ==
    /\ phase = "up"
    /\ tx[t].pc = "ended"
    /\ lock' = [p \in Pages |-> IF lock[p] = t THEN NoTx ELSE lock[p]]
    /\ Goto(t, "done")
    /\ UNCHANGED <<logVars, pageVars, tblVars, ckpt, recVars, used>>

\* removeTrx, then Release of the locks.
Finish(t) ==
    /\ phase = "up"
    /\ tx[t].pc = "ended"
    /\ att' = [att EXCEPT ![t] = Absent]
    /\ lock' = [p \in Pages |-> IF lock[p] = t THEN NoTx ELSE lock[p]]
    /\ Goto(t, "done")
    /\ UNCHANGED <<logVars, pageVars, dpt, ckpt, recVars, used>>

\* Rollback: ABORT record and its flush, doRollback from the last record of
\* the transaction before it, ATT, END record, ATT again, Release.
AbortLog(t) ==
    /\ MayStartHandler
    /\ tx[t].pc = "active"
    /\ LogAppend(AbortRec(t, att[t].lastLSN))
    /\ GotoWith(t, "abort", NextLSN, att[t].lastLSN)
    /\ UNCHANGED <<master, pageVars, tblVars, lock, ckpt, recVars, used>>

\* Mutant of AbortFlush: doRollback reads a log that is not on disk yet.
AbortFlushSkipped(t) ==
    /\ tx[t].pc = "abort"
    /\ Goto(t, "undo")
    /\ UNCHANGED <<logVars, pageVars, tblVars, lock, ckpt, recVars, used>>

AbortFlush(t) ==
    /\ tx[t].pc = "abort"
    /\ LogFlush(tx[t].lsn)
    /\ Goto(t, "undo")
    /\ UNCHANGED <<log, master, pageVars, tblVars, lock, ckpt, recVars, used>>

(***************************************************************************)
(* doRollback(undo, lsn), shared by Rollback and by the undo phase.  One   *)
(* step per recursive call; ReadRecordAt reads the log from disk, so only  *)
(* a durable record of the transaction itself can be read.                 *)
(***************************************************************************)
\* Mutant of UndoStops: an ABORT record ends the rollback as a START record does.
UndoStopsAtAbort(t) ==
    tx[t].undo # NoLSN => log[tx[t].undo].op \in {"START", "ABORT"}

UndoStops(t) == tx[t].undo # NoLSN => log[tx[t].undo].op = "START"
Readable(t) ==
    tx[t].undo \in 1 .. flushed /\ log[tx[t].undo].op \notin {"CKPT_BEGIN", "CKPT_END"}
        /\ log[tx[t].undo].txn = t

UndoStop(t) ==
    /\ tx[t].pc = "undo"
    /\ tx[t].undo # NoLSN => Readable(t)
    /\ UndoStops(t)
    /\ Goto(t, "undone")
    /\ UNCHANGED <<logVars, pageVars, tblVars, lock, ckpt, recVars, used>>

UndoSet(t) ==
    /\ tx[t].pc = "undo"
    /\ Readable(t)
    /\ log[tx[t].undo].op = "SET"
    /\ LET rec == log[tx[t].undo]
       IN  LogAppend(CLRRec(t, tx[t].lsn, rec.page, rec.old, rec.prev))
    /\ tx' = [tx EXCEPT ![t].pc = "clr", ![t].lsn = NextLSN]
    /\ UNCHANGED <<master, pageVars, tblVars, lock, ckpt, recVars, used>>

\* Mutant of UndoSkip: a CLR is left by prevLSN instead of undoNextLSN.
UndoSkipByPrev(t) ==
    /\ tx[t].pc = "undo"
    /\ Readable(t)
    /\ log[tx[t].undo].op \in {"CLR", "COMMIT", "ABORT", "END"}
    /\ tx' = [tx EXCEPT ![t].undo = log[tx[t].undo].prev]
    /\ UNCHANGED <<logVars, pageVars, tblVars, lock, ckpt, recVars, used>>

\* Mutant of UndoSkip: a CLR is read again and again.
UndoSkipStays(t) ==
    /\ tx[t].pc = "undo"
    /\ Readable(t)
    /\ log[tx[t].undo].op \in {"CLR", "COMMIT", "ABORT", "END"}
    /\ LET rec == log[tx[t].undo]
       IN  tx' = [tx EXCEPT ![t].undo = IF rec.op = "CLR" THEN @ ELSE rec.prev]
    /\ UNCHANGED <<logVars, pageVars, tblVars, lock, ckpt, recVars, used>>

UndoSkip(t) ==
    /\ tx[t].pc = "undo"
    /\ Readable(t)
    /\ log[tx[t].undo].op \in {"CLR", "COMMIT", "ABORT", "END"}
    /\ LET rec == log[tx[t].undo]
       IN  tx' = [tx EXCEPT ![t].undo = IF rec.op = "CLR" THEN rec.undoNext ELSE rec.prev]
    /\ UNCHANGED <<logVars, pageVars, tblVars, lock, ckpt, recVars, used>>

ClrFlush(t) ==
    /\ tx[t].pc = "clr"
    /\ LogFlush(tx[t].lsn)
    /\ Goto(t, "clrFlushed")
    /\ UNCHANGED <<log, master, pageVars, tblVars, lock, ckpt, recVars, used>>

\* Mutant of UndoPage: only the last update is undone.
UndoPageOnce(t) ==
    /\ tx[t].pc = "clrFlushed"
    /\ LET rec == log[tx[t].undo]
       IN  /\ ApplyToPage(rec.page, rec.old, tx[t].lsn)
           /\ tx' = [tx EXCEPT ![t].pc = "undo", ![t].undo = NoLSN]
    /\ UNCHANGED <<logVars, disk, att, lock, ckpt, recVars, used>>

UndoPage(t) ==
    /\ tx[t].pc = "clrFlushed"
    /\ LET rec == log[tx[t].undo]
       IN  /\ ApplyToPage(rec.page, rec.old, tx[t].lsn)
           /\ tx' = [tx EXCEPT ![t].pc = "undo", ![t].undo = rec.prev]
    /\ UNCHANGED <<logVars, disk, att, lock, ckpt, recVars, used>>

\* Mutant of RollbackSet: a status the table does not know.
RollbackSetUnknown(t) ==
    /\ tx[t].pc = "undone"
    /\ LET set(a) == [a EXCEPT ![t] = Entry("aborted", tx[t].lsn)]
       IN  IF phase = "up" THEN att' = set(att) /\ recAtt' = recAtt
                           ELSE recAtt' = set(recAtt) /\ att' = att
    /\ Goto(t, "abortSet")
    /\ UNCHANGED <<logVars, pageVars, dpt, lock, ckpt, phase, recPos, recDpt, used>>

RollbackSet(t) ==
    /\ tx[t].pc = "undone"
    /\ LET set(a) == [a EXCEPT ![t] = Entry("aborting", tx[t].lsn)]
       IN  IF phase = "up" THEN att' = set(att) /\ recAtt' = recAtt
                           ELSE recAtt' = set(recAtt) /\ att' = att
    /\ Goto(t, "abortSet")
    /\ UNCHANGED <<logVars, pageVars, dpt, lock, ckpt, phase, recPos, recDpt, used>>

(***************************************************************************)
(* The checkpoint goroutine: BEGIN record, snapshot of the ATT, snapshot   *)
(* of the DPT, END record, flush, and the BEGIN LSN in the log header.     *)
(***************************************************************************)
CkptGoto(pc) == ckpt' = [ckpt EXCEPT !.pc = pc]

CkptBegin ==
    /\ phase = "up" /\ ckpt.pc = "idle"
    /\ CheckpointAlone => \A t \in Txns : tx[t].pc \in AtRest
    /\ used.ckpts < MaxCheckpoints
    /\ LogAppend(CkptBeginRec)
    /\ ckpt' = [ckpt EXCEPT !.pc = "begun", !.begin = NextLSN]
    /\ used' = [used EXCEPT !.ckpts = @ + 1]
    /\ UNCHANGED <<master, pageVars, tblVars, lock, tx, recVars>>

CkptATT ==
    /\ ckpt.pc = "begun"
    /\ ckpt' = [ckpt EXCEPT !.pc = "att", !.att = att]
    /\ UNCHANGED <<logVars, pageVars, tblVars, lock, tx, recVars, used>>

CkptDPT ==
    /\ ckpt.pc = "att"
    /\ ckpt' = [ckpt EXCEPT !.pc = "dpt", !.dpt = dpt]
    /\ UNCHANGED <<logVars, pageVars, tblVars, lock, tx, recVars, used>>

CkptEnd ==
    /\ ckpt.pc = "dpt"
    /\ LogAppend(CkptEndRec(ckpt.att, ckpt.dpt))
    /\ CkptGoto("end")
    /\ UNCHANGED <<master, pageVars, tblVars, lock, tx, recVars, used>>

CkptFlush ==
    /\ ckpt.pc = "end"
    /\ \E lsn \in 1 .. Len(log) :                      \* the CKPT_END just written
          /\ log[lsn].op = "CKPT_END"
          /\ \A later \in lsn + 1 .. Len(log) : log[later].op # "CKPT_END"
          /\ LogFlush(lsn)
    /\ CkptGoto("flushed")
    /\ UNCHANGED <<log, master, pageVars, tblVars, lock, tx, recVars, used>>

CkptMaster ==
    /\ ckpt.pc = "flushed"
    /\ master' = ckpt.begin
    /\ ckpt' = CkptIdle
    /\ UNCHANGED <<log, flushed, pageVars, tblVars, lock, tx, recVars, used>>

(***************************************************************************)
(* The buffer pool writes a dirty page that nobody has pinned: the page    *)
(* cleaner, or the eviction of a victim (a clean buffer shows its page as  *)
(* it is on disk).  An updating transaction has its page pinned.           *)
(***************************************************************************)
Pinned(p) ==
    \E t \in Txns : tx[t].pc \in {"logged", "linked"} /\ log[tx[t].lsn].page = p

\* Mutant of FlushPage: the page is written before its log records.
FlushPageUnlogged(p) ==
    /\ buf[p].recLSN # NoLSN
    /\ ~Pinned(p)
    /\ disk' = [disk EXCEPT ![p] = [val |-> buf[p].val, lsn |-> buf[p].lsn]]
    /\ buf' = [buf EXCEPT ![p] = Clean(buf[p])]
    /\ dpt' = [dpt EXCEPT ![p] = NoLSN]
    /\ UNCHANGED <<logVars, att, lock, tx, ckpt, recVars, used>>

FlushPage(p) ==
    /\ buf[p].recLSN # NoLSN
    /\ ~Pinned(p)
    /\ LogFlush(buf[p].lsn)
    /\ disk' = [disk EXCEPT ![p] = [val |-> buf[p].val, lsn |-> buf[p].lsn]]
    /\ buf' = [buf EXCEPT ![p] = Clean(buf[p])]
    /\ dpt' = [dpt EXCEPT ![p] = NoLSN]
    /\ UNCHANGED <<log, master, att, lock, tx, ckpt, recVars, used>>

(***************************************************************************)
(* A crash at any point, recovery included: what is not durable is lost,   *)
(* and the restarted process begins Recover with the analysis phase.       *)
(***************************************************************************)
Crash ==
    /\ used.crashes < MaxCrashes
    /\ used' = [used EXCEPT !.crashes = @ + 1]
    /\ \E last \in flushed .. Len(log) : log' = SubSeq(log, 1, last) /\ flushed' = last
    /\ buf' = [p \in Pages |-> Clean(disk[p])]
    /\ att' = EmptyATT /\ dpt' = EmptyDPT
    /\ lock' = [p \in Pages |-> NoTx]
    /\ tx' = [t \in Txns |-> TxIdle]
    /\ ckpt' = CkptIdle
    /\ phase' = "analysis" /\ recPos' = master
    /\ recAtt' = EmptyATT /\ recDpt' = EmptyDPT
    /\ UNCHANGED <<master, disk>>

(***************************************************************************)
(* Recover, one log record per step.                                       *)
(***************************************************************************)
\* setLastLSN creates a running entry when the table has none.
SetLastLSN(a, t, lsn) ==
    [a EXCEPT ![t] = Entry(IF @ = Absent THEN "running" ELSE @.status, lsn)]

AnalyzeATT(rec, lsn) ==
    CASE rec.op = "CKPT_END" ->
           [t \in Txns |-> IF recAtt[t] = Absent THEN rec.att[t] ELSE recAtt[t]]
      [] rec.op = "START"  -> [recAtt EXCEPT ![rec.txn] = Entry("running", lsn)]
      [] rec.op = "END"    -> [recAtt EXCEPT ![rec.txn] = Absent]
      [] rec.op = "COMMIT" -> [recAtt EXCEPT ![rec.txn] = Entry("commited", lsn)]
      [] rec.op = "ABORT"  -> [recAtt EXCEPT ![rec.txn] = Entry("aborting", lsn)]
      [] rec.op \in {"SET", "CLR"} -> SetLastLSN(recAtt, rec.txn, lsn)
      [] OTHER -> recAtt

AnalyzeDPT(rec, lsn) ==
    CASE rec.op = "CKPT_END" ->
           [p \in Pages |-> IF recDpt[p] = NoLSN THEN rec.dpt[p] ELSE recDpt[p]]
      [] rec.op \in {"SET", "CLR"} -> MarkDirty(recDpt, rec.page, lsn)
      [] OTHER -> recDpt

Analyze ==
    /\ phase = "analysis" /\ recPos \in 1 .. Len(log)
    /\ recAtt' = AnalyzeATT(log[recPos], recPos)
    /\ recDpt' = AnalyzeDPT(log[recPos], recPos)
    /\ recPos' = recPos + 1
    /\ UNCHANGED <<logVars, pageVars, tblVars, lock, tx, ckpt, phase, used>>

\* GetMinRecLSN: the redo phase starts at the smallest recLSN, if there is one.
MinRecLSN(lsn) ==
    /\ \E p \in Pages : recDpt[p] = lsn
    /\ \A p \in Pages : recDpt[p] # NoLSN => lsn <= recDpt[p]

AnalysisDone ==
    /\ phase = "analysis" /\ recPos > Len(log)
    /\ \/ recDpt = EmptyDPT /\ phase' = "winners" /\ recPos' = recPos
       \/ recDpt # EmptyDPT /\ phase' = "redo" /\ recPos' \in {l \in 1 .. Len(log) : MinRecLSN(l)}
    /\ UNCHANGED <<logVars, pageVars, tblVars, lock, tx, ckpt, recAtt, recDpt, used>>

\* Mutant of NeedsRedo: the record that made the page dirty is skipped as well.
NeedsRedoAfterFirst(rec, lsn) ==
    /\ rec.op \in {"SET", "CLR"}
    /\ recDpt[rec.page] # NoLSN
    /\ lsn > recDpt[rec.page]
    /\ lsn > disk[rec.page].lsn

\* The three conditions under which doRedoPhase skips a record.
NeedsRedo(rec, lsn) ==
    /\ rec.op \in {"SET", "CLR"}
    /\ recDpt[rec.page] # NoLSN
    /\ lsn >= recDpt[rec.page]
    /\ lsn > disk[rec.page].lsn

Redo ==
    /\ phase = "redo" /\ recPos \in 1 .. Len(log)
    /\ LET rec == log[recPos]
       IN  IF NeedsRedo(rec, recPos) THEN ApplyToPage(rec.page, rec.new, recPos)
                                     ELSE UNCHANGED <<buf, dpt>>
    /\ recPos' = recPos + 1
    /\ UNCHANGED <<logVars, disk, att, lock, tx, ckpt, phase, recAtt, recDpt, used>>

RedoDone ==
    /\ phase = "redo" /\ recPos > Len(log)
    /\ phase' = "winners"
    /\ UNCHANGED <<logVars, pageVars, tblVars, lock, tx, ckpt, recPos, recAtt, recDpt, used>>

\* Committed transactions get the END record they miss, then the log is flushed.
EndWinner(t) ==
    /\ phase = "winners"
    /\ recAtt[t].status = "commited"
    /\ LogAppend(EndRec(t, recAtt[t].lastLSN))
    /\ recAtt' = [recAtt EXCEPT ![t] = Absent]
    /\ UNCHANGED <<master, pageVars, tblVars, lock, tx, ckpt, phase, recPos, recDpt, used>>

WinnersDone ==
    /\ phase = "winners"
    /\ \A t \in Txns : recAtt[t].status # "commited"
    /\ LogFlush(Len(log))
    /\ phase' = "undo"
    /\ UNCHANGED <<log, master, pageVars, tblVars, lock, tx, ckpt, recPos, recAtt, recDpt, used>>

\* doUndoPhase rolls the other transactions back, one after the other.
NoUndoRunning == \A t \in Txns : tx[t].pc = "none"

UndoRunningLoser(t) ==
    /\ phase = "undo" /\ NoUndoRunning
    /\ recAtt[t].status = "running"
    /\ LogAppend(AbortRec(t, recAtt[t].lastLSN))
    /\ GotoWith(t, "abort", NextLSN, recAtt[t].lastLSN)
    /\ UNCHANGED <<master, pageVars, tblVars, lock, ckpt, recVars, used>>

UndoAbortingLoser(t) ==
    /\ phase = "undo" /\ NoUndoRunning
    /\ recAtt[t].status = "aborting"
    /\ GotoWith(t, "undo", recAtt[t].lastLSN, recAtt[t].lastLSN)
    /\ UNCHANGED <<logVars, pageVars, tblVars, lock, ckpt, recVars, used>>

LoserUndone(t) ==
    /\ phase = "undo"
    /\ tx[t].pc = "ended"
    /\ recAtt' = [recAtt EXCEPT ![t] = Absent]
    /\ tx' = [tx EXCEPT ![t] = TxIdle]
    /\ UNCHANGED <<logVars, pageVars, tblVars, lock, ckpt, phase, recPos, recDpt, used>>

\* The END records are flushed and the rebuilt tables replace the shared ones.
RecoverDone ==
    /\ phase = "undo" /\ NoUndoRunning
    /\ recAtt = EmptyATT
    /\ LogFlush(Len(log))
    /\ att' = recAtt /\ dpt' = recDpt
    /\ phase' = "up" /\ recPos' = 1
    /\ recAtt' = EmptyATT /\ recDpt' = EmptyDPT
    /\ UNCHANGED <<log, master, pageVars, lock, tx, ckpt, used>>

-----------------------------------------------------------------------------
TxStart(t) == StartLog(t) \/ StartSet(t)
TxUpdate(t) == (\E p \in Pages : UpdateLog(t, p)) \/ UpdateLink(t) \/ UpdatePage(t)
TxCommit(t) == CommitLog(t) \/ CommitFlush(t) \/ CommitSet(t)
TxRollback(t) == AbortLog(t) \/ AbortFlush(t) \/ RollbackSet(t)
DoRollback(t) == UndoStop(t) \/ UndoSet(t) \/ UndoSkip(t) \/ ClrFlush(t) \/ UndoPage(t)
TxEnd(t) == EndLog(t) \/ Finish(t)
Checkpoint == CkptBegin \/ CkptATT \/ CkptDPT \/ CkptEnd \/ CkptFlush \/ CkptMaster
RecoverLoser(t) == UndoRunningLoser(t) \/ UndoAbortingLoser(t) \/ LoserUndone(t)
RecoverScan == Analyze \/ AnalysisDone \/ Redo \/ RedoDone

\* With no transaction open and no checkpoint under way, the process may stay idle.
Idle ==
    /\ phase = "up" /\ ckpt.pc = "idle"
    /\ \A t \in Txns : tx[t].pc \in {"none", "done"}
    /\ UNCHANGED vars

Next ==
    \/ \E t \in Txns :
          \/ TxStart(t) \/ TxUpdate(t) \/ TxCommit(t) \/ TxRollback(t)
          \/ DoRollback(t) \/ TxEnd(t)
          \/ EndWinner(t) \/ RecoverLoser(t)
    \/ \E p \in Pages : FlushPage(p)
    \/ Checkpoint
    \/ RecoverScan \/ WinnersDone \/ RecoverDone
    \/ Crash
    \/ Idle

Spec == Init /\ [][Next]_vars

\* Recover runs in one goroutine that nothing blocks: each of its steps is
\* taken eventually unless the process crashes.
RecoverStep ==
    \/ RecoverScan \/ WinnersDone \/ RecoverDone
    \/ \E t \in Txns : \/ EndWinner(t) \/ RecoverLoser(t)
                       \/ phase # "up" /\ (DoRollback(t) \/ AbortFlush(t) \/ RollbackSet(t)
                                             \/ EndLog(t))

FairSpec == Spec /\ WF_vars(RecoverStep)

-----------------------------------------------------------------------------
(***************************************************************************)
(* Type invariant.                                                         *)
(***************************************************************************)
Statuses == {"absent", "running", "commited", "aborting"}
Entries == [status : Statuses, lastLSN : LSN \cup {NoLSN}]
ATTs == [Txns -> Entries]
DPTs == [Pages -> LSN \cup {NoLSN}]
TxPCs == {"none", "new", "active", "logged", "linked",
          "commit", "commitFlushed", "commitSet", "ended", "done",
          "abort", "undo", "clr", "clrFlushed", "undone", "abortSet"}
TxRows == [pc : TxPCs, lsn : LSN \cup {NoLSN}, undo : LSN \cup {NoLSN}]

LogRecords ==
    [op : {"START", "COMMIT", "ABORT", "END"}, txn : Txns, prev : LSN \cup {NoLSN}]
    \cup [op : {"SET"}, txn : Txns, prev : LSN \cup {NoLSN}, page : Pages,
          old : Nat, new : Nat]
    \cup [op : {"CLR"}, txn : Txns, prev : LSN \cup {NoLSN}, page : Pages,
          new : Nat, undoNext : LSN \cup {NoLSN}]
    \cup [op : {"CKPT_BEGIN"}]
    \cup [op : {"CKPT_END"}, att : ATTs, dpt : DPTs]

\* Every variable keeps its type: the state the recovery manager, the ATT, the
\* DPT and the pages can be in.
TypeOK ==
    /\ log \in Seq(LogRecords)
    /\ flushed \in Nat
    /\ master \in LSN
    /\ disk \in [Pages -> [val : Nat, lsn : Nat]]
    /\ buf \in [Pages -> [val : Nat, lsn : Nat, recLSN : LSN \cup {NoLSN}]]
    /\ att \in ATTs /\ dpt \in DPTs
    /\ lock \in [Pages -> Txns \cup {NoTx}]
    /\ tx \in [Txns -> TxRows]
    /\ ckpt \in [pc : {"idle", "begun", "att", "dpt", "end", "flushed"},
                 begin : LSN \cup {NoLSN}, att : ATTs, dpt : DPTs]
    /\ phase \in {"up", "analysis", "redo", "winners", "undo"}
    /\ recPos \in LSN
    /\ recAtt \in ATTs /\ recDpt \in DPTs
    /\ used \in [starts : Nat, updates : Nat, ckpts : Nat, crashes : Nat]

(***************************************************************************)
(* What the log says.  Transaction numbers are used again after a restart, *)
(* so a transaction is the stretch of its number's records from one START  *)
(* to the next.                                                            *)
(***************************************************************************)
LSNs == 1 .. Len(log)
IsTxRec(i) == log[i].op \notin {"CKPT_BEGIN", "CKPT_END"}
SameTx(i, j) ==
    /\ IsTxRec(i) /\ IsTxRec(j) /\ log[i].txn = log[j].txn
    /\ \A k \in i + 1 .. j : ~(log[k].op = "START" /\ log[k].txn = log[i].txn)

CommitOf(i, j) == i < j /\ log[j].op = "COMMIT" /\ SameTx(i, j)
CommittedSets(p) ==
    {i \in LSNs : log[i].op = "SET" /\ log[i].page = p /\ \E j \in LSNs : CommitOf(i, j)}
PageRecs(p) == {i \in LSNs : log[i].op \in {"SET", "CLR"} /\ log[i].page = p}
ValueOfLast(S) ==
    IF S = {} THEN 0 ELSE log[CHOOSE i \in S : \A j \in S : j <= i].new

(***************************************************************************)
(* Safety.                                                                 *)
(***************************************************************************)
\* A page nobody has locked holds the value of the last committed update of it:
\* after a commit, after a rollback, and after a restart whatever was lost,
\* committed updates are kept and those of losers are gone (recovery.go:149).
CommittedValues ==
    phase = "up" =>
        \A p \in Pages : lock[p] = NoTx => buf[p].val = ValueOfLast(CommittedSets(p))

\* Redo repeats history: when the redo phase is through, every page is as the
\* last record of the log about it left it (recovery.go:357).
RedoRepeatsHistory ==
    phase = "winners" =>
        \A p \in Pages : buf[p].val = ValueOfLast(PageRecs(p))

\* Write-ahead logging: a page never reaches the disk before the record of its
\* last change does (buffer.go:76).
WAL == \A p \in Pages : disk[p].lsn <= flushed

\* The COMMIT record of a transaction past its commit flush is durable.
ReturnedCommitDurable(t) ==
    phase = "up" /\ (\/ tx[t].pc \in {"commitFlushed", "commitSet"}
                     \/ tx[t].pc \in {"ended", "done"} /\ log[tx[t].lsn].op = "COMMIT")
    => tx[t].lsn <= flushed

\* From the moment a commit goes on after its flush, its COMMIT record is on
\* disk, where no crash can take it back (recovery.go:84).
CommitDurable == \A t \in Txns : ReturnedCommitDurable(t)

\* doRollback reads the log from disk: the next record to undo is always durable
\* and one of the transaction's own (recovery.go:263-273 would fail otherwise).
UndoReadsOwn ==
    \A t \in Txns : tx[t].pc = "undo" /\ tx[t].undo # NoLSN => Readable(t)

\* No update is compensated twice, whatever crashes interrupt the rollback: the
\* undoNextLSN of a CLR skips what is undone already (recovery.go:297).
CompensatedOnce ==
    \A i, j \in LSNs :
        /\ i < j /\ log[i].op = "CLR" /\ log[j].op = "CLR"
        /\ SameTx(i, j)
        => log[i].undoNext # log[j].undoNext

\* A transaction that has its END record is committed, or every update of it is
\* compensated: nothing is left for a later recovery (recovery.go:118, 458).
EndMeansResolved ==
    \A i, j \in LSNs :
        /\ log[i].op = "SET" /\ i < j /\ log[j].op = "END" /\ SameTx(i, j)
        => \/ \E k \in LSNs : CommitOf(i, k)
           \/ \E k \in i .. j : /\ log[k].op = "CLR" /\ SameTx(i, k)
                                /\ log[k].undoNext = log[i].prev

\* The END record is the last one of a transaction: no later recovery takes it
\* up again, not even to write a second END (recovery.go:94, 122, 472).
EndIsFinal == \A i, j \in LSNs : log[i].op = "END" /\ i < j => ~SameTx(i, j)

\* A transaction whose commit went through to its END record is never rolled
\* back: no CLR of it follows (recovery.go:438).
WinnersKept ==
    \A c, e, j \in LSNs :
        /\ log[c].op = "COMMIT" /\ log[e].op = "END" /\ c < e /\ SameTx(c, e)
        /\ e < j /\ SameTx(e, j)
        => log[j].op # "CLR"

\* The records of a transaction form one backward chain, also across a restart
\* that goes on writing it: prevLSN is the transaction's previous record.
PrevLSNChain ==
    \A j \in LSNs :
        IsTxRec(j) /\ log[j].op # "START" =>
            LET before == {i \in 1 .. j - 1 : SameTx(i, j)}
            IN  /\ log[j].prev \in before
                /\ \A i \in before : i <= log[j].prev

(***************************************************************************)
(* What makes the type invariant, WAL and CommitDurable inductive.         *)
(***************************************************************************)
\* No LSN in a transaction, a page or a table lies beyond the log, no snapshot in
\* a checkpoint record beyond that record, and no pageLSN on disk beyond the
\* durable part of the log.
TxBounds == \A t \in Txns : tx[t].lsn <= Len(log)
PageBounds == \A p \in Pages : buf[p].lsn <= Len(log)
TableBounds ==
    /\ \A t \in Txns : /\ att[t].lastLSN <= Len(log)
                       /\ recAtt[t].lastLSN <= Len(log)
                       /\ ckpt.att[t].lastLSN <= Len(log)
    /\ \A i \in LSNs : log[i].op = "CKPT_END" => \A t \in Txns : log[i].att[t].lastLSN <= i
LSNBounds == flushed <= Len(log) /\ TxBounds /\ PageBounds /\ TableBounds /\ WAL

RollbackPCs == {"abort", "undo", "clr", "clrFlushed", "undone", "abortSet"}
CommitPCs == {"commit", "commitFlushed", "commitSet", "ended", "done"}

\* The record a handler has written, or is undoing, is in the log and of the kind
\* the handler's position says.
HasItsRecord(t) ==
    /\ tx[t].pc \in {"logged", "linked"} => tx[t].lsn \in LSNs /\ log[tx[t].lsn].op = "SET"
    /\ tx[t].pc \in {"clr", "clrFlushed"} =>
          tx[t].lsn \in LSNs /\ tx[t].undo \in LSNs /\ log[tx[t].undo].op = "SET"
    /\ phase = "up" /\ tx[t].pc \in RollbackPCs =>
          tx[t].lsn \in LSNs /\ log[tx[t].lsn].op \in {"ABORT", "CLR"}
    /\ phase = "up" /\ tx[t].pc \in CommitPCs => tx[t].lsn \in LSNs
HandlerRecords ==
    /\ \A t \in Txns : HasItsRecord(t)
    /\ ckpt.pc # "idle" => ckpt.begin \in LSN

\* The inductive invariant: the log is written ahead of the pages, the handlers
\* point at their records, and returned commits are durable (recovery.go:74).
DurabilityInv == TypeOK /\ LSNBounds /\ HandlerRecords /\ CommitDurable

(***************************************************************************)
(* Liveness.                                                               *)
(***************************************************************************)
\* Recovery ends: a started recovery comes up, unless it crashes for ever.
RecoveryEnds == phase # "up" ~> phase = "up"

(***************************************************************************)
(* Refinement.                                                             *)
(***************************************************************************)
\* What RecoveryMgr takes the log to be is what LogMgr provides: both keep to
\* DurableLog (log.go:130, 148).
Log == INSTANCE DurableLog WITH records <- log, durable <- flushed
RefinesDurableLog == Log!Spec

\* The store a user sees.  A page that nobody has locked is its own witness while
\* the system is up; for the others the durable part of the log decides.
DurablySet(p) ==
    {i \in 1 .. flushed : log[i].op = "SET" /\ log[i].page = p
                            /\ \E j \in 1 .. flushed : CommitOf(i, j)}
StoreOf(p) ==
    IF phase = "up" /\ lock[p] = NoTx THEN buf[p].val ELSE ValueOfLast(DurablySet(p))

Asked(t) == phase = "up" /\ tx[t].pc = "commit" /\ tx[t].lsn > flushed
Open(t) == phase = "up" /\ (tx[t].pc \in {"active", "logged", "linked"} \/ Asked(t))
WrittenBy(t, p) ==
    LET own == {i \in PageRecs(p) : log[i].txn = t
                    /\ \A k \in i + 1 .. Len(log) : ~(log[k].op = "START" /\ log[k].txn = t)}
    IN  IF Open(t) /\ own # {} THEN ValueOfLast(own) ELSE NoLSN

Store == INSTANCE TxStore
            WITH Keys <- Pages, None <- NoLSN,
                 store <- [p \in Pages |-> StoreOf(p)],
                 writes <- [t \in Txns |-> [p \in Pages |-> WrittenBy(t, p)]],
                 asked <- {t \in Txns : Asked(t)}

\* Transactions are atomic and durable: locks, log, page writes in any order,
\* rollback, crash and recovery together implement TxStore (recovery.go:74, 99, 149).
RefinesTxStore == Store!Spec
=============================================================================
