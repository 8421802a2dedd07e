-------------------------- MODULE RecoveryPageProofs -------------------------
(***************************************************************************)
(* The pages of RecoveryMgr against its log: the redo phase brings every   *)
(* page to the last record about it, from the tables that a checkpoint     *)
(* wrote and the analysis rebuilt, and what a page shows when nobody is at *)
(* work on it is the last committed value.                                 *)
(***************************************************************************)
EXTENDS RecoveryMgrProofs, WellFoundedInduction

(***************************************************************************)
(* Pages and the records about them.                                       *)
(***************************************************************************)
\* What a page shows is what the record of its LSN says, or what it was at first.
Shows(val, lsn, p) ==
    \/ lsn = 0 /\ val = 0
    \/ lsn \in PageRecs(p) /\ val = log[lsn].new

PageOk(p) ==
    /\ Shows(disk[p].val, disk[p].lsn, p) /\ Shows(buf[p].val, buf[p].lsn, p)
    /\ disk[p].lsn <= buf[p].lsn
    /\ buf[p].recLSN = NoLSN <=> disk[p].lsn = buf[p].lsn
    /\ phase = "analysis" => disk[p].lsn = buf[p].lsn

\* Transaction t has written a record whose change is not on the page yet.
ApplyPCs == {"logged", "linked", "clr", "clrFlushed"}
Applying(t) == tx[t].pc \in ApplyPCs

\* Outside the redo phase, whatever is not on a page is about to be applied.
AppliedOk(p) ==
    phase \in {"up", "winners", "undo"} =>
        \A i \in PageRecs(p) : i > buf[p].lsn => \E t \in Txns : Applying(t) /\ tx[t].lsn = i

ApplyOk(t) ==
    /\ Applying(t) => buf[log[tx[t].lsn].page].lsn < tx[t].lsn
    /\ tx[t].pc \in {"clr", "clrFlushed"} =>
          /\ log[tx[t].lsn].page = log[tx[t].undo].page
          /\ log[tx[t].lsn].new = log[tx[t].undo].old

\* The pages an unfinished transaction has changed are locked by it.
LockedBy(t, l) ==
    \A i \in 1 .. l : log[i].op \in {"SET", "CLR"} /\ SameTx(i, l) => lock[log[i].page] = t
LocksOk(t) == phase = "up" => \A l : LastOf(l, t, Len(log)) /\ log[l].op # "END" => LockedBy(t, l)

\* doUndoPhase rolls back one loser at a time.
OneUndo ==
    phase = "undo" => \A t, u \in Txns : tx[t].pc # "none" /\ tx[u].pc # "none" => t = u

(***************************************************************************)
(* The dirty page tables.                                                  *)
(***************************************************************************)
\* Table d names the pages that records up to n have left dirty.
Covers(d, n) ==
    \A p \in Pages : \A i \in PageRecs(p) :
        i <= n /\ disk[p].lsn < i => d[p] # NoLSN /\ d[p] <= i

\* The shared DPT, as long as a checkpoint can still copy it for a later recovery.
DptOk ==
    phase = "up" /\ used.crashes < MaxCrashes
        /\ (used.ckpts < MaxCheckpoints \/ ckpt.pc \in {"begun", "att"})
    => \A p \in Pages : \A i \in PageRecs(p) :
           disk[p].lsn < i => dpt[p] <= i /\ (i <= buf[p].lsn => dpt[p] # NoLSN)

SnapshotOk ==
    used.crashes < MaxCrashes =>
        /\ ckpt.pc = "dpt" => Covers(ckpt.dpt, Len(log))
        /\ ckpt.pc \in {"end", "flushed"} => Covers(log[ckpt.begin + 1].dpt, ckpt.begin)

HeaderDptOk ==
    master # 1 /\ (used.crashes < MaxCrashes \/ phase # "up") => Covers(log[master + 1].dpt, master)

\* No table names a record behind itself.
DptBounds ==
    /\ \A p \in Pages : /\ dpt[p] <= Len(log)
                        /\ ckpt.dpt[p] <= Len(log)
                        /\ recDpt[p] <= Len(log)
                        /\ phase = "analysis" => recDpt[p] < recPos
    /\ \A i \in LSNs : log[i].op = "CKPT_END" => \A p \in Pages : log[i].dpt[p] <= i

\* The table of the analysis.  A scan from the start names every page.
RecCovers(n) ==
    \A p \in Pages : \A i \in PageRecs(p) :
        i <= n /\ (master = 1 \/ disk[p].lsn < i) => recDpt[p] # NoLSN /\ recDpt[p] <= i

AnalysisDptOk ==
    phase = "analysis" =>
        \/ RecCovers(recPos - 1)
        \/ recDpt = EmptyDPT /\ master # 1 /\ recPos \in {master, master + 1}

RedoOk ==
    phase = "redo" =>
        /\ RecCovers(Len(log))
        /\ \A p \in Pages : /\ \A i \in PageRecs(p) : buf[p].lsn < i => recPos <= i
                            /\ buf[p].lsn < recPos \/ buf[p].lsn = disk[p].lsn

AfterRedoOk == phase \in {"winners", "undo"} /\ master = 1 => RecCovers(Len(log))

\* The bounds on checkpoints and crashes.
CountsOk ==
    /\ used.ckpts <= MaxCheckpoints /\ used.crashes <= MaxCrashes
    /\ used.ckpts = 0 => master = 1 /\ ckpt.pc = "idle"
    /\ phase # "up" => used.crashes > 0

PagesInv ==
    /\ \A p \in Pages : PageOk(p) /\ AppliedOk(p)
    /\ \A t \in Txns : ApplyOk(t)
LocksInv == OneUndo /\ \A t \in Txns : LocksOk(t)
DptInv == DptOk /\ SnapshotOk /\ HeaderDptOk /\ DptBounds
RecInv == AnalysisDptOk /\ RedoOk /\ AfterRedoOk

PageInv == PagesInv /\ LocksInv /\ DptInv /\ RecInv /\ CountsOk

\* One checkpoint or one crash: beyond that the DPT that RecoverDone hands over may
\* lack a page only the undo phase made dirty (recovery.go:172).
OneRestart == MaxCheckpoints <= 1 \/ MaxCrashes <= 1

-----------------------------------------------------------------------------
(* Steps that touch no page and no page table. *)

\* No record about a page is appended.
NoPageRec ==
    /\ CommonPrefix(Len(log)) /\ Len(log) \in Nat /\ Len(log') \in Nat /\ Len(log) <= Len(log')
    /\ \A p \in Pages : PageRecs(p)' = PageRecs(p)

SameApply(t) ==
    /\ Applying(t)' <=> Applying(t)
    /\ Applying(t) => /\ tx'[t].lsn = tx[t].lsn /\ tx'[t].undo = tx[t].undo
                      /\ tx'[t].pc \in {"clr", "clrFlushed"} => tx[t].pc \in {"clr", "clrFlushed"}

Appends(rec) == LogAppend(rec) /\ rec.op \notin {"SET", "CLR", "CKPT_END"}

Quiet ==
    /\ log' = log \/ \E rec : Appends(rec)
    /\ UNCHANGED <<disk, buf, dpt, master, ckpt, phase, recPos, recDpt>>
    /\ used'.ckpts = used.ckpts /\ used'.crashes = used.crashes
    /\ \A t \in Txns : SameApply(t)

\* The records about a page, when a record is appended.
LEMMA PageRecsAppend ==
    ASSUME DurabilityInv, NEW rec, LogAppend(rec), NEW p
    PROVE  PageRecs(p)' = PageRecs(p) \cup
              {i \in {Len(log) + 1} : rec.op \in {"SET", "CLR"} /\ rec.page = p}
  <1>1. /\ CommonPrefix(Len(log)) /\ Len(log) \in Nat /\ Len(log') = Len(log) + 1
        /\ log'[Len(log) + 1] = rec
    BY AppendPrefix
  <1>2. \A i \in 1 .. Len(log) : log'[i] = log[i]
    BY <1>1 DEF CommonPrefix
  <1>3. LSNs' = LSNs \cup {Len(log) + 1} /\ LSNs = 1 .. Len(log)
    BY <1>1 DEF LSNs
  <1>4. \A i : i \in PageRecs(p)' <=>
           i \in PageRecs(p) \/ (i = Len(log) + 1 /\ rec.op \in {"SET", "CLR"} /\ rec.page = p)
    BY <1>1, <1>2, <1>3 DEF PageRecs
  <1> QED BY <1>4

\* What an append of another record, or none, leaves alone.
LEMMA NoPageRecFacts ==
    ASSUME DurabilityInv,
           log' = log \/ \E rec : LogAppend(rec) /\ rec.op \notin {"SET", "CLR"}
    PROVE  NoPageRec
  <1>1. CASE log' = log
    <2>1. Len(log) \in Nat /\ CommonPrefix(Len(log))
      BY <1>1, StateFacts DEF CommonPrefix
    <2>2. \A p \in Pages : PageRecs(p)' = PageRecs(p)
      BY <1>1 DEF PageRecs, LSNs
    <2> QED BY <1>1, <2>1, <2>2 DEF NoPageRec
  <1>2. ASSUME NEW rec, LogAppend(rec), rec.op \notin {"SET", "CLR"} PROVE NoPageRec
    <2>1. ASSUME NEW p \in Pages PROVE PageRecs(p)' = PageRecs(p)
      <3>1. PageRecs(p)' = PageRecs(p) \cup
               {i \in {Len(log) + 1} : rec.op \in {"SET", "CLR"} /\ rec.page = p}
        BY <1>2, PageRecsAppend
      <3> QED BY <1>2, <3>1
    <2>2. CommonPrefix(Len(log)) /\ Len(log) \in Nat /\ Len(log') = Len(log) + 1
      BY <1>2, AppendPrefix
    <2> QED BY <2>1, <2>2 DEF NoPageRec
  <1> QED BY <1>1, <1>2

\* A step of one transaction is quiet if it is for that transaction.
LEMMA QuietMove ==
    ASSUME NEW t \in Txns,
           log' = log \/ \E rec : Appends(rec),
           UNCHANGED <<disk, buf, dpt, master, ckpt, phase, recPos, recDpt>>,
           used'.ckpts = used.ckpts, used'.crashes = used.crashes,
           \A u \in Txns : u # t => tx'[u] = tx[u],
           SameApply(t)
    PROVE  Quiet
  <1>1. \A u \in Txns : u # t => SameApply(u)
    BY DEF SameApply, Applying
  <1> QED BY <1>1 DEF Quiet

\* Every handler step that appends no record about a page and changes none is quiet.
LEMMA QuietHandlers ==
    ASSUME DurabilityInv, NEW t \in Txns,
           \/ TxStart(t) \/ UpdateLink(t) \/ TxCommit(t) \/ TxRollback(t)
           \/ UndoStop(t) \/ UndoSkip(t) \/ ClrFlush(t) \/ TxEnd(t)
           \/ EndWinner(t) \/ RecoverLoser(t)
    PROVE  Quiet
  <1>0. /\ tx \in [Txns -> TxRows]
        /\ used \in [starts : Nat, updates : Nat, ckpts : Nat, crashes : Nat]
    BY StateFacts DEF TypeOK
  <1> DEFINE Still == UNCHANGED <<disk, buf, dpt, master, ckpt, phase, recPos, recDpt>>
             Counts == used'.ckpts = used.ckpts /\ used'.crashes = used.crashes
             Others == \A u \in Txns : u # t => tx'[u] = tx[u]
             Logged == log' = log \/ \E rec : Appends(rec)
  <1>1. CASE StartLog(t)
    <2>1. Appends(StartRec(t))
      BY <1>1 DEF StartLog, Appends, StartRec
    <2>2. Still /\ Counts /\ Others /\ SameApply(t)
      BY <1>0, <1>1
      DEF StartLog, GotoWith, pageVars, tblVars, recVars, SameApply, Applying, ApplyPCs
    <2> QED BY <2>1, <2>2, QuietMove
  <1>2. CASE CommitLog(t)
    <2>1. Appends(CommitRec(t, att[t].lastLSN))
      BY <1>2 DEF CommitLog, Appends, CommitRec
    <2>2. Still /\ Counts /\ Others /\ SameApply(t)
      BY <1>0, <1>2
      DEF CommitLog, GotoWith, pageVars, tblVars, recVars, SameApply, Applying, ApplyPCs
    <2> QED BY <2>1, <2>2, QuietMove
  <1>3. CASE EndLog(t)
    <2>1. Appends(EndRec(t, tx[t].lsn))
      BY <1>3 DEF EndLog, Appends, EndRec
    <2>2. Still /\ Counts /\ Others /\ SameApply(t)
      BY <1>0, <1>3 DEF EndLog, Goto, pageVars, tblVars, recVars, SameApply, Applying, ApplyPCs
    <2> QED BY <2>1, <2>2, QuietMove
  <1>4. CASE AbortLog(t)
    <2>1. Appends(AbortRec(t, att[t].lastLSN))
      BY <1>4 DEF AbortLog, Appends, AbortRec
    <2>2. Still /\ Counts /\ Others /\ SameApply(t)
      BY <1>0, <1>4
      DEF AbortLog, GotoWith, pageVars, tblVars, recVars, SameApply, Applying, ApplyPCs
    <2> QED BY <2>1, <2>2, QuietMove
  <1>5. CASE EndWinner(t)
    <2>1. Appends(EndRec(t, recAtt[t].lastLSN))
      BY <1>5 DEF EndWinner, Appends, EndRec
    <2>2. Still /\ Counts /\ Others /\ SameApply(t)
      BY <1>0, <1>5 DEF EndWinner, pageVars, tblVars, SameApply, Applying, ApplyPCs
    <2> QED BY <2>1, <2>2, QuietMove
  <1>6. CASE UndoRunningLoser(t)
    <2>1. tx[t].pc = "none"
      BY <1>6 DEF UndoRunningLoser, NoUndoRunning
    <2>2. Appends(AbortRec(t, recAtt[t].lastLSN))
      BY <1>6 DEF UndoRunningLoser, Appends, AbortRec
    <2>3. Still /\ Counts /\ Others /\ SameApply(t)
      BY <1>0, <1>6, <2>1
      DEF UndoRunningLoser, GotoWith, pageVars, tblVars, recVars, SameApply, Applying, ApplyPCs
    <2> QED BY <2>2, <2>3, QuietMove
  <1>7. CASE UndoAbortingLoser(t)
    <2>1. tx[t].pc = "none"
      BY <1>7 DEF UndoAbortingLoser, NoUndoRunning
    <2>2. Logged /\ Still /\ Counts /\ Others /\ SameApply(t)
      BY <1>0, <1>7, <2>1
      DEF UndoAbortingLoser, GotoWith, logVars, pageVars, tblVars, recVars, SameApply, Applying,
          ApplyPCs
    <2> QED BY <2>2, QuietMove
  <1>8. CASE StartSet(t)
    <2>1. Logged /\ Still /\ Counts /\ Others /\ SameApply(t)
      BY <1>0, <1>8
      DEF StartSet, GotoWith, logVars, pageVars, tblVars, recVars, SameApply, Applying, ApplyPCs
    <2> QED BY <2>1, QuietMove
  <1>9. CASE UpdateLink(t)
    <2>1. Logged /\ Still /\ Counts /\ Others /\ SameApply(t)
      BY <1>0, <1>9
      DEF UpdateLink, Goto, logVars, pageVars, tblVars, recVars, SameApply, Applying, ApplyPCs
    <2> QED BY <2>1, QuietMove
  <1>10. CASE CommitSet(t)
    <2>1. Logged /\ Still /\ Counts /\ Others /\ SameApply(t)
      BY <1>0, <1>10
      DEF CommitSet, Goto, logVars, pageVars, tblVars, recVars, SameApply, Applying, ApplyPCs
    <2> QED BY <2>1, QuietMove
  <1>11. CASE Finish(t)
    <2>1. Logged /\ Still /\ Counts /\ Others /\ SameApply(t)
      BY <1>0, <1>11
      DEF Finish, Goto, logVars, pageVars, tblVars, recVars, SameApply, Applying, ApplyPCs
    <2> QED BY <2>1, QuietMove
  <1>12. CASE CommitFlush(t)
    <2>1. Logged /\ Still /\ Counts /\ Others /\ SameApply(t)
      BY <1>0, <1>12
      DEF CommitFlush, Goto, logVars, pageVars, tblVars, recVars, SameApply, Applying, ApplyPCs
    <2> QED BY <2>1, QuietMove
  <1>13. CASE AbortFlush(t)
    <2>1. Logged /\ Still /\ Counts /\ Others /\ SameApply(t)
      BY <1>0, <1>13
      DEF AbortFlush, Goto, logVars, pageVars, tblVars, recVars, SameApply, Applying, ApplyPCs
    <2> QED BY <2>1, QuietMove
  <1>14. CASE ClrFlush(t)
    <2>1. Logged /\ Still /\ Counts /\ Others /\ SameApply(t)
      BY <1>0, <1>14
      DEF ClrFlush, Goto, logVars, pageVars, tblVars, recVars, SameApply, Applying, ApplyPCs
    <2> QED BY <2>1, QuietMove
  <1>15. CASE RollbackSet(t)
    <2>1. Logged /\ Still /\ Counts /\ Others /\ SameApply(t)
      BY <1>0, <1>15
      DEF RollbackSet, Goto, logVars, pageVars, tblVars, recVars, SameApply, Applying, ApplyPCs
    <2> QED BY <2>1, QuietMove
  <1>16. CASE UndoStop(t)
    <2>1. Logged /\ Still /\ Counts /\ Others /\ SameApply(t)
      BY <1>0, <1>16
      DEF UndoStop, Goto, logVars, pageVars, tblVars, recVars, SameApply, Applying, ApplyPCs
    <2> QED BY <2>1, QuietMove
  <1>17. CASE UndoSkip(t)
    <2>1. Logged /\ Still /\ Counts /\ Others /\ SameApply(t)
      BY <1>0, <1>17
      DEF UndoSkip, TxIdle, logVars, pageVars, tblVars, recVars, SameApply, Applying, ApplyPCs
    <2> QED BY <2>1, QuietMove
  <1>18. CASE LoserUndone(t)
    <2>1. Logged /\ Still /\ Counts /\ Others /\ SameApply(t)
      BY <1>0, <1>18
      DEF LoserUndone, TxIdle, logVars, pageVars, tblVars, recVars, SameApply, Applying, ApplyPCs
    <2> QED BY <2>1, QuietMove
  <1> QED BY <1>1, <1>2, <1>3, <1>4, <1>5, <1>6, <1>7, <1>8, <1>9, <1>10, <1>11, <1>12, <1>13,
             <1>14, <1>15, <1>16, <1>17, <1>18
          DEF TxStart, TxCommit, TxRollback, TxEnd, RecoverLoser

\* What a step can be, as far as pages are concerned.
LEMMA StepKinds ==
    ASSUME DurabilityInv, [Next]_vars
    PROVE  \/ Quiet \/ (\E t \in Txns, p \in Pages : UpdateLog(t, p))
           \/ (\E t \in Txns : UpdatePage(t) \/ UndoSet(t) \/ UndoPage(t))
           \/ (\E p \in Pages : FlushPage(p))
           \/ Checkpoint \/ RecoverScan \/ WinnersDone \/ RecoverDone \/ Crash
  <1>1. ASSUME UNCHANGED vars PROVE Quiet
    BY <1>1 DEF vars, logVars, pageVars, tblVars, recVars, Quiet, SameApply, Applying
  <1> QED BY <1>1, QuietHandlers DEF Next, TxUpdate, DoRollback, Idle

-----------------------------------------------------------------------------
(* Pages against the log. *)

\* The types and bounds of pages and page tables.
LEMMA PageTypes ==
    ASSUME DurabilityInv
    PROVE  /\ Len(log) \in Nat /\ flushed \in Nat /\ flushed <= Len(log)
           /\ \A p \in Pages :
                 /\ disk[p].lsn \in Nat /\ disk[p].lsn <= flushed /\ disk[p].val \in Nat
                 /\ buf[p].lsn \in Nat /\ buf[p].lsn <= Len(log) /\ buf[p].val \in Nat
                 /\ buf[p].recLSN \in LSN \cup {NoLSN}
                 /\ dpt[p] \in LSN \cup {NoLSN} /\ recDpt[p] \in LSN \cup {NoLSN}
                 /\ ckpt.dpt[p] \in LSN \cup {NoLSN}
           /\ \A p : \A i \in PageRecs(p) :
                 /\ i \in 1 .. Len(log) /\ log[i].op \in {"SET", "CLR"} /\ log[i].page = p
                 /\ log[i].new \in Nat /\ log[i].txn \in Txns /\ p \in Pages
  <1>1. TypeOK /\ LSNBounds
    BY StateFacts
    DEF DurabilityInv
  <1>2. Len(log) \in Nat /\ flushed \in Nat /\ flushed <= Len(log)
    BY StateFacts
  <1>3. ASSUME NEW p \in Pages
        PROVE  /\ disk[p].lsn \in Nat /\ disk[p].lsn <= flushed /\ disk[p].val \in Nat
               /\ buf[p].lsn \in Nat /\ buf[p].lsn <= Len(log) /\ buf[p].val \in Nat
               /\ buf[p].recLSN \in LSN \cup {NoLSN}
               /\ dpt[p] \in LSN \cup {NoLSN} /\ recDpt[p] \in LSN \cup {NoLSN}
               /\ ckpt.dpt[p] \in LSN \cup {NoLSN}
    BY <1>1 DEF TypeOK, LSNBounds, PageBounds, WAL, DPTs
  <1>4. ASSUME NEW p, NEW i \in PageRecs(p)
        PROVE  /\ i \in 1 .. Len(log) /\ log[i].op \in {"SET", "CLR"} /\ log[i].page = p
               /\ log[i].new \in Nat /\ log[i].txn \in Txns /\ p \in Pages
    <2>1. i \in 1 .. Len(log) /\ log[i].op \in {"SET", "CLR"} /\ log[i].page = p
      BY DEF PageRecs, LSNs
    <2>2. log[i] \in LogRecords
      BY <2>1, StateFacts
    <2> QED BY <2>1, <2>2, RecordFields
  <1> QED BY <1>2, <1>3, <1>4

\* A transaction about to change a page holds the last record of its chain, and
\* neither a checkpoint nor another phase of the recovery runs.
LEMMA ApplyingFacts ==
    ASSUME DurabilityInv, ChainInv, NEW t \in Txns, Applying(t)
    PROVE  /\ tx[t].lsn \in PageRecs(log[tx[t].lsn].page)
           /\ log[tx[t].lsn].page \in Pages /\ tx[t].lsn \in 1 .. Len(log)
           /\ LastOf(tx[t].lsn, t, Len(log)) /\ log[tx[t].lsn].op \in {"SET", "CLR"}
           /\ phase \in {"up", "undo"} /\ ckpt.pc = "idle"
           /\ tx[t].pc \in {"logged", "linked"} => phase = "up"
           /\ tx[t].pc \in {"clr", "clrFlushed"} => tx[t].undo \in 1 .. Len(log)
  <1>1. /\ UndoAt(t) /\ (phase = "up" => WorkAt(t))
        /\ phase = "up" \/ (phase = "undo" /\ tx[t].pc \in UndoPCs)
        /\ ckpt.pc = "idle"
    BY HandlerAt DEF Applying, ApplyPCs, AtRest
  <1>2. tx[t].pc \in {"logged", "linked"} => phase = "up"
    BY <1>1 DEF UndoPCs, RollbackPCs
  <1>3. Here(t, {"SET", "CLR"})
    BY <1>1, <1>2 DEF Applying, ApplyPCs, UndoAt, WorkAt, Here
  <1>4. /\ LastOf(tx[t].lsn, t, Len(log)) /\ log[tx[t].lsn].op \in {"SET", "CLR"}
        /\ tx[t].lsn \in 1 .. Len(log)
    BY <1>3 DEF Here, LastOf
  <1>5. log[tx[t].lsn] \in LogRecords
    BY <1>4, StateFacts
  <1>6. log[tx[t].lsn].page \in Pages
    BY <1>4, <1>5, RecordFields
  <1>7. tx[t].pc \in {"clr", "clrFlushed"} => tx[t].undo \in 1 .. Len(log)
    BY <1>1 DEF UndoAt, LSNs
  <1> QED BY <1>1, <1>2, <1>4, <1>6, <1>7 DEF PageRecs, LSNs

\* No two transactions are about to change the same page.
LEMMA OneApplies ==
    ASSUME DurabilityInv, ChainInv, LocksInv, NEW t \in Txns, NEW u \in Txns,
           Applying(t), Applying(u), log[tx[t].lsn].page = log[tx[u].lsn].page
    PROVE  t = u
  <1>1. CASE phase = "undo"
    BY <1>1 DEF LocksInv, OneUndo, Applying, ApplyPCs
  <1>2. ASSUME phase = "up", NEW v \in Txns, Applying(v)
        PROVE  lock[log[tx[v].lsn].page] = v
    <2>1. /\ LastOf(tx[v].lsn, v, Len(log)) /\ log[tx[v].lsn].op \in {"SET", "CLR"}
          /\ tx[v].lsn \in 1 .. Len(log)
      BY <1>2, ApplyingFacts
    <2>2. SameTx(tx[v].lsn, tx[v].lsn) /\ tx[v].lsn \in 1 .. tx[v].lsn
      BY <2>1 DEF SameTx, IsTxRec
    <2>3. LockedBy(v, tx[v].lsn)
      BY <1>2, <2>1 DEF LocksInv, LocksOk
    <2> QED BY <2>1, <2>2, <2>3 DEF LockedBy
  <1> QED BY <1>1, <1>2, ApplyingFacts

\* A step that touches no page and appends no record about one.
LEMMA QuietPages ==
    ASSUME DurabilityInv, ChainInv, PagesInv, NoPageRec, UNCHANGED <<disk, buf>>,
           phase' = "analysis" => phase = "analysis",
           phase' \in {"up", "winners", "undo"} => phase \in {"up", "winners", "undo"},
           \A t \in Txns : SameApply(t)
    PROVE  PagesInv'
  <1>0. PICK n \in Nat : n = Len(log)
    BY PageTypes
  <1>1. \A i \in 1 .. n : log'[i] = log[i]
    BY <1>0 DEF NoPageRec, CommonPrefix
  <1>2. ASSUME NEW p \in Pages PROVE PageOk(p)'
    <2>1. PageOk(p) /\ PageRecs(p)' = PageRecs(p) /\ \A i \in PageRecs(p) : log'[i] = log[i]
      BY <1>0, <1>1, PageTypes DEF PagesInv, NoPageRec
    <2> QED BY <2>1 DEF PageOk, Shows
  <1>3. ASSUME NEW p \in Pages PROVE AppliedOk(p)'
    <2>1. AppliedOk(p) /\ PageRecs(p)' = PageRecs(p)
      BY DEF PagesInv, NoPageRec
    <2> QED BY <2>1 DEF AppliedOk, SameApply
  <1>4. ASSUME NEW t \in Txns PROVE ApplyOk(t)'
    <2>1. CASE Applying(t)
      <3>1. /\ log'[tx[t].lsn] = log[tx[t].lsn] /\ tx'[t].lsn = tx[t].lsn
            /\ tx'[t].undo = tx[t].undo
            /\ tx'[t].pc \in {"clr", "clrFlushed"} =>
                  tx[t].pc \in {"clr", "clrFlushed"} /\ log'[tx[t].undo] = log[tx[t].undo]
        BY <1>0, <1>1, <2>1, ApplyingFacts DEF SameApply
      <3> QED BY <2>1, <3>1 DEF ApplyOk, PagesInv
    <2>2. CASE ~Applying(t)
      BY <2>2 DEF ApplyOk, SameApply, Applying, ApplyPCs
    <2> QED BY <2>1, <2>2
  <1> QED BY <1>2, <1>3, <1>4 DEF PagesInv

\* A record about a page is written: from now on its transaction is about to apply it.
LEMMA AppendPages ==
    ASSUME DurabilityInv, ChainInv, PagesInv, UNCHANGED <<disk, buf, phase>>,
           NEW t \in Txns, NEW rec, LogAppend(rec), rec.op \in {"SET", "CLR"}, ~Applying(t),
           Applying(t)', tx'[t].lsn = Len(log) + 1,
           \A u \in Txns : u # t => tx'[u] = tx[u],
           tx'[t].pc \in {"clr", "clrFlushed"} =>
              /\ tx'[t].undo \in 1 .. Len(log)
              /\ rec.page = log[tx'[t].undo].page /\ rec.new = log[tx'[t].undo].old,
           rec.page \in Pages
    PROVE  PagesInv'
  <1>0. PICK n \in Nat : n = Len(log)
    BY PageTypes
  <1>1. /\ \A i \in 1 .. n : log'[i] = log[i]
        /\ log'[n + 1] = rec
        /\ \A p \in Pages : PageRecs(p)' = PageRecs(p) \cup {i \in {n + 1} : rec.page = p}
    BY <1>0, AppendPrefix, PageRecsAppend DEF CommonPrefix
  <1>2. ASSUME NEW p \in Pages PROVE PageOk(p)'
    <2>1. /\ PageOk(p) /\ \A i \in PageRecs(p) : log'[i] = log[i] /\ i \in PageRecs(p)'
      BY <1>0, <1>1, PageTypes DEF PagesInv
    <2> QED BY <2>1 DEF PageOk, Shows
  <1>3. ASSUME NEW p \in Pages PROVE AppliedOk(p)'
    <2> SUFFICES ASSUME phase \in {"up", "winners", "undo"}, NEW i \in PageRecs(p)',
                        i > buf[p].lsn
                 PROVE  \E u \in Txns : Applying(u)' /\ tx'[u].lsn = i
      BY DEF AppliedOk
    <2>1. CASE i = n + 1
      BY <1>0, <2>1
    <2>2. CASE i # n + 1
      <3>1. i \in PageRecs(p)
        BY <1>1, <2>2
      <3>2. PICK u \in Txns : Applying(u) /\ tx[u].lsn = i
        BY <3>1 DEF PagesInv, AppliedOk
      <3>3. u # t
        BY <3>2
      <3> QED BY <3>2, <3>3 DEF Applying
    <2> QED BY <2>1, <2>2
  <1>4. ASSUME NEW u \in Txns PROVE ApplyOk(u)'
    <2>1. CASE u = t
      <3>1. log'[tx'[t].lsn] = rec /\ buf[rec.page].lsn < tx'[t].lsn
        BY <1>0, <1>1, PageTypes
      <3>2. tx'[t].pc \in {"clr", "clrFlushed"} => log'[tx'[t].undo] = log[tx'[t].undo]
        BY <1>0, <1>1
      <3> QED BY <2>1, <3>1, <3>2 DEF ApplyOk
    <2>2. CASE u # t /\ Applying(u)
      <3>1. /\ log'[tx[u].lsn] = log[tx[u].lsn] /\ tx'[u] = tx[u]
            /\ tx[u].pc \in {"clr", "clrFlushed"} => log'[tx[u].undo] = log[tx[u].undo]
        BY <1>0, <1>1, <2>2, ApplyingFacts
      <3> QED BY <2>2, <3>1 DEF ApplyOk, PagesInv, Applying
    <2>3. CASE u # t /\ ~Applying(u)
      BY <2>3 DEF ApplyOk, Applying, ApplyPCs
    <2> QED BY <2>1, <2>2, <2>3
  <1> QED BY <1>2, <1>3, <1>4 DEF PagesInv

\* What ApplyToPage does to the page and to the others.
LEMMA ApplyShape ==
    ASSUME DurabilityInv, NEW p \in Pages, NEW val, NEW lsn, ApplyToPage(p, val, lsn)
    PROVE  /\ buf'[p].val = val /\ buf'[p].lsn = lsn
           /\ buf'[p].recLSN = IF buf[p].recLSN = NoLSN THEN lsn ELSE buf[p].recLSN
           /\ \A q \in Pages : q # p => buf'[q] = buf[q] /\ dpt'[q] = dpt[q]
           /\ dpt'[p] = IF buf[p].recLSN = NoLSN /\ dpt[p] = NoLSN THEN lsn ELSE dpt[p]
  BY StateFacts DEF TypeOK, DPTs, ApplyToPage, MarkDirty

\* The record j about page p is applied, and none between the page and j is left out.
LEMMA AppliedPage ==
    ASSUME DurabilityInv, PagesInv, NEW p \in Pages, NEW j \in PageRecs(p),
           UNCHANGED <<log, disk>>, phase' = phase, phase # "analysis",
           ApplyToPage(p, log[j].new, j), buf[p].lsn < j
    PROVE  \A q \in Pages : PageOk(q)'
  <1>1. \A q \in Pages : PageRecs(q)' = PageRecs(q)
    BY DEF PageRecs, LSNs
  <1>2. ASSUME NEW q \in Pages, q # p PROVE PageOk(q)'
    <2>1. PageOk(q) /\ buf'[q] = buf[q]
      BY <1>2, ApplyShape DEF PagesInv
    <2> QED BY <1>1, <2>1 DEF PageOk, Shows
  <1>3. PageOk(p)'
    <2>1. PageOk(p) /\ j \in Nat /\ disk[p].lsn \in Nat /\ buf[p].lsn \in Nat /\ j # NoLSN
      BY PageTypes DEF PagesInv, NoLSN
    <2>2. /\ buf'[p].val = log[j].new /\ buf'[p].lsn = j
          /\ buf'[p].recLSN = IF buf[p].recLSN = NoLSN THEN j ELSE buf[p].recLSN
      BY ApplyShape
    <2>3. disk[p].lsn <= j /\ disk[p].lsn # j /\ buf'[p].recLSN # NoLSN
      BY <2>1, <2>2 DEF PageOk
    <2> QED BY <1>1, <2>1, <2>2, <2>3 DEF PageOk, Shows
  <1> QED BY <1>2, <1>3

\* A transaction applies its record.
LEMMA ApplyPages ==
    ASSUME DurabilityInv, ChainInv, PagesInv, LocksInv, NEW t \in Txns, NEW p \in Pages,
           Applying(t), log[tx[t].lsn].page = p,
           ApplyToPage(p, log[tx[t].lsn].new, tx[t].lsn),
           UNCHANGED <<log, disk, phase>>, ~Applying(t)',
           \A u \in Txns : u # t => tx'[u] = tx[u]
    PROVE  PagesInv'
  <1>0. PICK j : j = tx[t].lsn
    OBVIOUS
  <1>1. /\ j \in PageRecs(p) /\ buf[p].lsn < j /\ j \in Nat /\ phase # "analysis"
        /\ buf'[p].lsn = j /\ \A q \in Pages : q # p => buf'[q] = buf[q]
    <2>1. j \in PageRecs(p) /\ buf[p].lsn < j /\ phase # "analysis"
      BY <1>0, ApplyingFacts DEF PagesInv, ApplyOk
    <2>2. buf'[p].lsn = j /\ \A q \in Pages : q # p => buf'[q] = buf[q]
      BY <1>0, ApplyShape
    <2>3. j \in Nat
      BY <2>1, PageTypes
    <2> QED BY <2>1, <2>2, <2>3
  <1>2. \A q \in Pages : PageOk(q)'
    BY <1>0, <1>1, AppliedPage
  <1>3. ASSUME NEW q \in Pages PROVE AppliedOk(q)'
    <2> SUFFICES ASSUME phase \in {"up", "winners", "undo"}, NEW i \in PageRecs(q)',
                        i > buf'[q].lsn
                 PROVE  \E u \in Txns : Applying(u)' /\ tx'[u].lsn = i
      BY DEF AppliedOk
    <2>1. i \in PageRecs(q) /\ i > buf[q].lsn /\ i # j
      <3>1. i \in PageRecs(q) /\ i \in Nat /\ buf[q].lsn \in Nat
        BY PageTypes DEF PageRecs, LSNs
      <3>2. CASE q = p
        BY <1>1, <3>1, <3>2
      <3>3. CASE q # p
        BY <1>1, <3>1, <3>3, PageTypes
      <3> QED BY <3>2, <3>3
    <2>2. PICK u \in Txns : Applying(u) /\ tx[u].lsn = i
      BY <2>1 DEF PagesInv, AppliedOk
    <2>3. u # t
      BY <1>0, <2>1, <2>2
    <2> QED BY <2>2, <2>3 DEF Applying
  <1>4. ASSUME NEW u \in Txns PROVE ApplyOk(u)'
    <2>1. CASE u = t
      BY <2>1 DEF ApplyOk, Applying, ApplyPCs
    <2>2. CASE u # t /\ Applying(u)
      <3>1. log[tx[u].lsn].page \in Pages /\ log[tx[u].lsn].page # p
        BY <2>2, ApplyingFacts, OneApplies
      <3>2. buf'[log[tx[u].lsn].page] = buf[log[tx[u].lsn].page]
        BY <1>1, <3>1
      <3> QED BY <2>2, <3>2 DEF ApplyOk, PagesInv, Applying
    <2>3. CASE u # t /\ ~Applying(u)
      BY <2>3 DEF ApplyOk, Applying, ApplyPCs
    <2> QED BY <2>1, <2>2, <2>3
  <1> QED BY <1>2, <1>3, <1>4 DEF PagesInv

\* SetInt32 and its siblings: the record (recovery.go:313), then the page.
LEMMA UpdatePages ==
    ASSUME DurabilityInv, ChainInv, PagesInv, LocksInv, NEW t \in Txns,
           (\E p \in Pages : UpdateLog(t, p)) \/ UpdatePage(t)
    PROVE  PagesInv'
  <1>0. tx \in [Txns -> TxRows]
    BY StateFacts DEF TypeOK
  <1>1. ASSUME NEW p \in Pages, UpdateLog(t, p) PROVE PagesInv'
    <2> DEFINE rec == SetRec(t, att[t].lastLSN, p, buf[p].val, NextLSN)
    <2>1. LogAppend(rec) /\ rec.op = "SET" /\ rec.page = p
      BY <1>1 DEF UpdateLog, SetRec
    <2>2. /\ UNCHANGED <<disk, buf, phase>> /\ ~Applying(t) /\ Applying(t)'
          /\ tx'[t].lsn = Len(log) + 1 /\ tx'[t].pc = "logged"
          /\ \A u \in Txns : u # t => tx'[u] = tx[u]
      BY <1>0, <1>1 DEF UpdateLog, GotoWith, NextLSN, Applying, ApplyPCs, pageVars, recVars
    <2> HIDE DEF rec
    <2> QED BY <2>1, <2>2, AppendPages
  <1>2. CASE UpdatePage(t)
    <2>1. Applying(t) /\ log[tx[t].lsn].page \in Pages
      BY <1>2, ApplyingFacts DEF UpdatePage, Applying, ApplyPCs
    <2>2. /\ ApplyToPage(log[tx[t].lsn].page, log[tx[t].lsn].new, tx[t].lsn)
          /\ UNCHANGED <<log, disk, phase>> /\ ~Applying(t)'
          /\ \A u \in Txns : u # t => tx'[u] = tx[u]
      BY <1>0, <1>2 DEF UpdatePage, GotoWith, Applying, ApplyPCs, logVars, recVars
    <2> QED BY <2>1, <2>2, ApplyPages
  <1> QED BY <1>1, <1>2

\* undo: the CLR (recovery.go:292), then the page.
LEMMA UndoPages ==
    ASSUME DurabilityInv, ChainInv, PagesInv, LocksInv, NEW t \in Txns, UndoSet(t) \/ UndoPage(t)
    PROVE  PagesInv'
  <1>0. tx \in [Txns -> TxRows]
    BY StateFacts DEF TypeOK
  <1>1. CASE UndoSet(t)
    <2> DEFINE u == log[tx[t].undo]
               rec == CLRRec(t, tx[t].lsn, u.page, u.old, u.prev)
    <2>1. LogAppend(rec) /\ rec.op = "CLR" /\ rec.page = u.page /\ rec.new = u.old
      BY <1>1 DEF UndoSet, CLRRec
    <2>2. /\ UNCHANGED <<disk, buf, phase>> /\ ~Applying(t) /\ Applying(t)'
          /\ tx'[t].lsn = Len(log) + 1 /\ tx'[t].pc = "clr" /\ tx'[t].undo = tx[t].undo
          /\ \A v \in Txns : v # t => tx'[v] = tx[v]
      BY <1>0, <1>1 DEF UndoSet, NextLSN, Applying, ApplyPCs, pageVars, recVars
    <2>3. tx[t].undo \in 1 .. Len(log) /\ u.op = "SET"
      BY <1>1, PageTypes DEF UndoSet, Readable
    <2>4. u.page \in Pages
      BY <2>3, StateFacts, RecordFields
    <2> HIDE DEF rec
    <2> QED BY <2>1, <2>2, <2>3, <2>4, AppendPages
  <1>2. CASE UndoPage(t)
    <2>1. /\ Applying(t) /\ tx[t].pc \in {"clr", "clrFlushed"}
          /\ log[tx[t].lsn].page \in Pages
      BY <1>2, ApplyingFacts DEF UndoPage, Applying, ApplyPCs
    <2>2. /\ log[tx[t].lsn].page = log[tx[t].undo].page
          /\ log[tx[t].lsn].new = log[tx[t].undo].old
      BY <2>1 DEF PagesInv, ApplyOk
    <2>3. /\ ApplyToPage(log[tx[t].undo].page, log[tx[t].undo].old, tx[t].lsn)
          /\ UNCHANGED <<log, disk, phase>> /\ ~Applying(t)'
          /\ \A v \in Txns : v # t => tx'[v] = tx[v]
      BY <1>0, <1>2 DEF UndoPage, Applying, ApplyPCs, logVars, recVars
    <2> QED BY <2>1, <2>2, <2>3, ApplyPages
  <1> QED BY <1>1, <1>2

\* What the page cleaner does: the page of the pool goes to disk as it is.
LEMMA FlushShape ==
    ASSUME DurabilityInv, PagesInv, NEW p \in Pages, FlushPage(p)
    PROVE  /\ disk'[p].lsn = buf[p].lsn /\ disk'[p].val = buf[p].val
           /\ buf'[p].lsn = buf[p].lsn /\ buf'[p].val = buf[p].val /\ buf'[p].recLSN = NoLSN
           /\ \A q \in Pages : q # p => /\ disk'[q] = disk[q] /\ buf'[q] = buf[q]
                                        /\ dpt'[q] = dpt[q]
           /\ UNCHANGED <<log, master, tx, lock, ckpt, phase, recPos, recDpt, used>>
           /\ disk[p].lsn <= buf[p].lsn /\ phase # "analysis" /\ disk[p].lsn # buf[p].lsn
           /\ dpt'[p] = NoLSN
  <1>1. PageOk(p) /\ TypeOK /\ buf[p].recLSN # NoLSN
    BY StateFacts DEF PagesInv, FlushPage
  <1>2. phase # "analysis" /\ disk[p].lsn <= buf[p].lsn /\ disk[p].lsn # buf[p].lsn
    BY <1>1 DEF PageOk
  <1>3. /\ disk'[p].lsn = buf[p].lsn /\ disk'[p].val = buf[p].val
        /\ buf'[p].lsn = buf[p].lsn /\ buf'[p].val = buf[p].val /\ buf'[p].recLSN = NoLSN
        /\ \A q \in Pages : q # p => disk'[q] = disk[q] /\ buf'[q] = buf[q]
    BY <1>1 DEF FlushPage, TypeOK, Clean
  <1>4. dpt'[p] = NoLSN /\ \A q \in Pages : q # p => dpt'[q] = dpt[q]
    BY <1>1 DEF FlushPage, TypeOK, DPTs
  <1>5. UNCHANGED <<log, master, tx, lock, ckpt, phase, recPos, recDpt, used>>
    BY DEF FlushPage, recVars
  <1> QED BY <1>2, <1>3, <1>4, <1>5

\* Writing a page back leaves pages and log in agreement (buffer.go:76).
LEMMA FlushPages ==
    ASSUME DurabilityInv, ChainInv, PagesInv, NEW p \in Pages, FlushPage(p)
    PROVE  PagesInv'
  <1>1. /\ \A q \in Pages : PageRecs(q)' = PageRecs(q) /\ buf'[q].lsn = buf[q].lsn
        /\ UNCHANGED <<log, tx, phase>>
    BY FlushShape DEF PageRecs, LSNs
  <1>2. ASSUME NEW q \in Pages PROVE PageOk(q)'
    <2>1. PageOk(q) /\ PageOk(p)
      BY DEF PagesInv
    <2>2. CASE q = p
      BY <1>1, <2>1, <2>2, FlushShape, PageTypes DEF PageOk, Shows
    <2>3. CASE q # p
      BY <1>1, <2>1, <2>3, FlushShape DEF PageOk, Shows
    <2> QED BY <2>2, <2>3
  <1>3. ASSUME NEW q \in Pages PROVE AppliedOk(q)'
    BY <1>1 DEF PagesInv, AppliedOk, Applying
  <1>4. ASSUME NEW t \in Txns PROVE ApplyOk(t)'
    <2>1. CASE Applying(t)
      BY <1>1, <2>1, ApplyingFacts DEF PagesInv, ApplyOk, Applying
    <2>2. CASE ~Applying(t)
      BY <1>1, <2>2 DEF ApplyOk, Applying, ApplyPCs
    <2> QED BY <2>1, <2>2
  <1> QED BY <1>2, <1>3, <1>4 DEF PagesInv

\* Before the undo phase no transaction has work to do.
LEMMA NoneApplying ==
    ASSUME DurabilityInv, ChainInv, phase \in {"analysis", "redo", "winners"}, NEW t \in Txns
    PROVE  tx[t].pc = "none" /\ ~Applying(t)
  BY HandlerAt DEF Applying, ApplyPCs

\* The analysis ends with the whole log read: a scan from a checkpoint has read the
\* END of it.
LEMMA AnalysisEnd ==
    ASSUME DurabilityInv, ChainInv, RecInv, AnalysisDone
    PROVE  RecCovers(Len(log)) /\ recPos = Len(log) + 1
  <1>1. phase = "analysis" /\ recPos > Len(log) /\ recPos \in 1 .. Len(log) + 1 /\ Len(log) \in Nat
    BY PageTypes DEF AnalysisDone, ChainInv, AnalysisAt
  <1>2. recPos = Len(log) + 1 /\ recPos - 1 = Len(log)
    BY <1>1
  <1>3. master # 1 => master + 1 \in 1 .. Len(log)
    BY DEF ChainInv, HeaderAt, CkptPair, LSNs
  <1>4. master # 1 => recPos \notin {master, master + 1}
    BY <1>1, <1>3
  <1> QED BY <1>1, <1>2, <1>4 DEF RecInv, AnalysisDptOk

\* The analysis and the redo phase (recovery.go:357, 430).
LEMMA ScanPages ==
    ASSUME DurabilityInv, ChainInv, PagesInv, RecInv, RecoverScan
    PROVE  PagesInv'
  <1>0. UNCHANGED <<log, disk, tx>> /\ \A p \in Pages : PageRecs(p)' = PageRecs(p)
    BY DEF RecoverScan, Analyze, AnalysisDone, Redo, RedoDone, logVars, pageVars, PageRecs, LSNs
  <1>1. phase \in {"analysis", "redo"} /\ \A t \in Txns : ~Applying(t)
    BY NoneApplying DEF RecoverScan, Analyze, AnalysisDone, Redo, RedoDone
  <1>2. \A t \in Txns : ApplyOk(t)'
    BY <1>0, <1>1 DEF ApplyOk, Applying, ApplyPCs
  <1>3. CASE Analyze
    <2>1. phase' = "analysis" /\ buf' = buf /\ phase = "analysis"
      BY <1>3 DEF Analyze, pageVars
    <2>2. \A p \in Pages : PageOk(p)' /\ AppliedOk(p)'
      BY <1>0, <2>1 DEF PagesInv, PageOk, Shows, AppliedOk
    <2> QED BY <1>2, <2>2 DEF PagesInv
  <1>4. CASE AnalysisDone
    <2>1. /\ phase = "analysis" /\ buf' = buf /\ phase' \in {"winners", "redo"}
          /\ phase' = "winners" => recDpt = EmptyDPT
      BY <1>4 DEF AnalysisDone, pageVars
    <2>2. \A p \in Pages : PageOk(p)'
      BY <1>0, <2>1 DEF PagesInv, PageOk, Shows
    <2>3. ASSUME NEW p \in Pages, phase' = "winners", NEW i \in PageRecs(p), buf[p].lsn < i
          PROVE FALSE
      <3>1. disk[p].lsn < i /\ i <= Len(log)
        BY <2>1, <2>3, PageTypes DEF PagesInv, PageOk
      <3>2. recDpt[p] # NoLSN
        BY <1>4, <3>1, AnalysisEnd DEF RecCovers
      <3> QED BY <2>1, <2>3, <3>2 DEF EmptyDPT
    <2>4. \A p \in Pages : AppliedOk(p)'
      <3>1. ASSUME NEW p \in Pages, NEW i \in PageRecs(p), i > buf[p].lsn PROVE buf[p].lsn < i
        BY <3>1, PageTypes
      <3> QED BY <1>0, <2>1, <2>3, <3>1 DEF AppliedOk
    <2> QED BY <1>2, <2>2, <2>4 DEF PagesInv
  <1>5. CASE Redo
    <2>1. phase = "redo" /\ phase' = "redo" /\ recPos \in 1 .. Len(log)
      BY <1>5 DEF Redo
    <2>2. \A p \in Pages : AppliedOk(p)'
      BY <2>1 DEF AppliedOk
    <2>3. CASE NeedsRedo(log[recPos], recPos)
      <3>1. PICK p, j : p = log[recPos].page /\ j = recPos
        OBVIOUS
      <3>2. /\ log[j].op \in {"SET", "CLR"} /\ disk[p].lsn < j /\ j \in 1 .. Len(log)
            /\ ApplyToPage(p, log[j].new, j)
        <4>1. j > disk[p].lsn /\ log[j].op \in {"SET", "CLR"}
          BY <2>3, <3>1 DEF NeedsRedo
        <4>2. ApplyToPage(p, log[j].new, j)
          BY <1>5, <2>3, <3>1 DEF Redo
        <4>3. j \in PageRecs(p) /\ j \in Nat
          BY <2>1, <3>1, <4>1, PageTypes DEF PageRecs, LSNs
        <4> QED BY <2>1, <3>1, <4>1, <4>2, <4>3, PageTypes
      <3>3. j \in PageRecs(p) /\ p \in Pages
        BY <3>1, <3>2, PageTypes DEF PageRecs, LSNs
      <3>4. buf[p].lsn < j
        BY <2>1, <3>1, <3>2, <3>3, PageTypes DEF RecInv, RedoOk
      <3>5. \A q \in Pages : PageOk(q)'
        BY <1>0, <2>1, <3>2, <3>3, <3>4, AppliedPage
      <3> QED BY <1>2, <2>2, <3>5 DEF PagesInv
    <2>4. CASE ~NeedsRedo(log[recPos], recPos)
      <3>1. buf' = buf
        BY <1>5, <2>4 DEF Redo
      <3>2. \A p \in Pages : PageOk(p)'
        BY <1>0, <2>1, <3>1 DEF PagesInv, PageOk, Shows
      <3> QED BY <1>2, <2>2, <3>2 DEF PagesInv
    <2> QED BY <2>3, <2>4
  <1>6. CASE RedoDone
    <2>1. phase = "redo" /\ phase' = "winners" /\ recPos > Len(log) /\ buf' = buf
      BY <1>6 DEF RedoDone, pageVars
    <2>2. \A p \in Pages : PageOk(p)'
      BY <1>0, <2>1 DEF PagesInv, PageOk, Shows
    <2>3. ASSUME NEW p \in Pages, NEW i \in PageRecs(p) PROVE ~(i > buf[p].lsn)
      <3>1. i \in 1 .. Len(log) /\ buf[p].lsn \in Nat /\ Len(log) \in Nat /\ recPos \in Nat
        BY PageTypes, StateFacts DEF TypeOK, LSN
      <3>2. buf[p].lsn < i => recPos <= i
        BY <2>1 DEF RecInv, RedoOk
      <3> QED BY <2>1, <3>1, <3>2
    <2>4. \A p \in Pages : AppliedOk(p)'
      BY <1>0, <2>1, <2>3 DEF AppliedOk
    <2> QED BY <1>2, <2>2, <2>4 DEF PagesInv
  <1> QED BY <1>3, <1>4, <1>5, <1>6 DEF RecoverScan

\* What a crash leaves: a prefix of the log, and the pages on disk.
LEMMA CrashShape ==
    ASSUME DurabilityInv, Crash
    PROVE  \E last \in flushed .. Len(log) :
              /\ Len(log') = last /\ last \in Nat /\ \A i \in 1 .. last : log'[i] = log[i]
              /\ \A p : PageRecs(p)' = {i \in PageRecs(p) : i <= last}
              /\ \A p \in Pages : buf'[p] = Clean(disk[p])
  <1>1. /\ Len(log) \in Nat /\ flushed \in Nat /\ flushed <= Len(log) /\ log \in Seq(LogRecords)
    BY StateFacts
  <1>2. PICK last \in flushed .. Len(log) : log' = SubSeq(log, 1, last)
    BY DEF Crash
  <1>3. last \in Nat /\ Len(log') = last /\ \A i \in 1 .. last : log'[i] = log[i]
    BY <1>1, <1>2
  <1>4. ASSUME NEW p PROVE PageRecs(p)' = {i \in PageRecs(p) : i <= last}
    <2>1. \A i : i \in PageRecs(p)' <=> i \in PageRecs(p) /\ i <= last
      BY <1>1, <1>3 DEF PageRecs, LSNs
    <2> QED BY <2>1
  <1>5. \A p \in Pages : buf'[p] = Clean(disk[p])
    BY DEF Crash
  <1> QED BY <1>3, <1>4, <1>5

\* After a crash the pool shows what is on disk, and what is on disk is still in the log.
LEMMA CrashPages ==
    ASSUME DurabilityInv, PagesInv, Crash
    PROVE  PagesInv'
  <1>1. PICK last \in flushed .. Len(log) :
              /\ Len(log') = last /\ last \in Nat /\ \A i \in 1 .. last : log'[i] = log[i]
              /\ \A p : PageRecs(p)' = {i \in PageRecs(p) : i <= last}
              /\ \A p \in Pages : buf'[p] = Clean(disk[p])
    BY CrashShape
  <1>2. disk' = disk /\ phase' = "analysis" /\ \A t \in Txns : tx'[t].pc = "none"
    BY DEF Crash, TxIdle
  <1>3. ASSUME NEW p \in Pages PROVE PageOk(p)'
    <2>1. /\ Shows(disk[p].val, disk[p].lsn, p) /\ disk[p].lsn <= last /\ disk[p].lsn \in Nat
      BY <1>1, PageTypes DEF PagesInv, PageOk
    <2>2. Shows(disk[p].val, disk[p].lsn, p)'
      <3>1. CASE disk[p].lsn = 0 /\ disk[p].val = 0
        BY <1>2, <3>1 DEF Shows
      <3>2. CASE disk[p].lsn \in PageRecs(p) /\ disk[p].val = log[disk[p].lsn].new
        <4>1. disk[p].lsn \in 1 .. last /\ disk[p].lsn \in PageRecs(p)'
          BY <1>1, <2>1, <3>2, PageTypes
        <4> QED BY <1>1, <1>2, <3>2, <4>1 DEF Shows
      <3> QED BY <2>1, <3>1, <3>2 DEF Shows
    <2>3. /\ buf'[p].val = disk'[p].val /\ buf'[p].lsn = disk'[p].lsn /\ buf'[p].recLSN = NoLSN
          /\ disk'[p].lsn \in Nat
      <3>1. buf'[p] = Clean(disk[p])
        BY <1>1
      <3>2. disk'[p] = disk[p]
        BY <1>2
      <3> QED BY <2>1, <3>1, <3>2 DEF Clean
    <2> QED BY <2>2, <2>3 DEF PageOk, Shows
  <1>4. \A p \in Pages : AppliedOk(p)'
    BY <1>2 DEF AppliedOk
  <1>5. \A t \in Txns : ApplyOk(t)'
    BY <1>2 DEF ApplyOk, Applying, ApplyPCs
  <1> QED BY <1>3, <1>4, <1>5 DEF PagesInv

\* A step that moves no transaction changes nothing about who is to apply what.
LEMMA StillApply ==
    ASSUME UNCHANGED tx
    PROVE  \A t \in Txns : SameApply(t)
  BY DEF SameApply, Applying

\* Pages agree with the log after every step.
LEMMA NextPages ==
    ASSUME DurabilityInv, ChainInv, PagesInv, LocksInv, RecInv, [Next]_vars
    PROVE  PagesInv'
  <1>1. CASE Quiet
    <2>1. NoPageRec
      BY <1>1, NoPageRecFacts DEF Quiet, Appends
    <2> QED BY <1>1, <2>1, QuietPages DEF Quiet
  <1>2. CASE Checkpoint
    <2>1. UNCHANGED <<disk, buf, tx, phase>>
      BY <1>2
      DEF Checkpoint, CkptBegin, CkptATT, CkptDPT, CkptEnd, CkptFlush, CkptMaster, pageVars, recVars
    <2>2. log' = log \/ \E rec : LogAppend(rec) /\ rec.op \notin {"SET", "CLR"}
      BY <1>2
      DEF Checkpoint, CkptBegin, CkptATT, CkptDPT, CkptEnd, CkptFlush, CkptMaster, logVars,
          CkptBeginRec, CkptEndRec
    <2>3. NoPageRec
      BY <2>2, NoPageRecFacts
    <2> QED BY <2>1, <2>3, QuietPages, StillApply
  <1>3. CASE WinnersDone \/ RecoverDone
    <2>1. /\ UNCHANGED <<log, disk, buf, tx>> /\ phase \in {"winners", "undo"}
          /\ phase' \in {"up", "undo"}
      BY <1>3 DEF WinnersDone, RecoverDone, pageVars
    <2>2. NoPageRec
      BY <2>1, NoPageRecFacts
    <2> QED BY <2>1, <2>2, QuietPages, StillApply
  <1> QED BY <1>1, <1>2, <1>3, StepKinds, UpdatePages, UndoPages, FlushPages, ScanPages, CrashPages

-----------------------------------------------------------------------------
(* Locks. *)

\* A step that leaves the log and the locks alone.
LEMMA SameLocks ==
    ASSUME UNCHANGED <<log, lock>>, phase' = "up" => phase = "up", NEW t, LocksOk(t)
    PROVE  LocksOk(t)'
  <1>1. \A l : LastOf(l, t, Len(log))' <=> LastOf(l, t, Len(log))
    BY SameLog
  <1>2. \A i, l : SameTx(i, l)' <=> SameTx(i, l)
    BY SameLog
  <1> QED BY <1>1, <1>2 DEF LocksOk, LockedBy

\* A transaction whose records are all in place keeps its locks when others append.
LEMMA OtherLocks ==
    ASSUME DurabilityInv, NEW t \in Txns, LocksOk(t), NEW rec, LogAppend(rec),
           rec.op \in {"CKPT_BEGIN", "CKPT_END"} \/ rec.txn # t,
           phase' = "up" => phase = "up",
           \A p \in Pages : lock[p] = t => lock'[p] = t
    PROVE  LocksOk(t)'
  <1>0. PICK n \in Nat : n = Len(log)
    BY PageTypes
  <1>1. /\ CommonPrefix(n) /\ Len(log') = n + 1 /\ Len(log') \in Nat /\ log'[n + 1] = rec
        /\ \A i \in 1 .. n : log'[i] = log[i]
    BY <1>0, AppendPrefix DEF CommonPrefix
  <1> SUFFICES ASSUME phase = "up", NEW l, LastOf(l, t, Len(log))', log'[l].op # "END",
                      NEW i \in 1 .. l, log'[i].op \in {"SET", "CLR"}, SameTx(i, l)'
               PROVE  lock'[log'[i].page] = t
    BY DEF LocksOk, LockedBy
  <1>2. l \in 1 .. n + 1 /\ RecOf(l, t)' /\ \A k \in l + 1 .. n + 1 : ~RecOf(k, t)'
    BY <1>1 DEF LastOf
  <1>3. l # n + 1
    BY <1>1, <1>2 DEF RecOf, IsTxRec
  <1>4. l \in 1 .. n /\ i \in 1 .. n
    BY <1>2, <1>3
  <1>5. RecOf(l, t) /\ \A k \in l + 1 .. n : ~RecOf(k, t)
    <2>1. \A k \in 1 .. n : RecOf(k, t)' <=> RecOf(k, t)
      BY <1>0, <1>1, SameInPrefix
    <2>2. \A k \in l + 1 .. n : k \in 1 .. n /\ k \in l + 1 .. n + 1
      BY <1>4
    <2> QED BY <1>2, <1>4, <2>1, <2>2
  <1>6. LastOf(l, t, n) /\ log[l].op # "END" /\ log[i].op \in {"SET", "CLR"} /\ SameTx(i, l)
    <2>1. SameTx(i, l)' <=> SameTx(i, l)
      BY <1>0, <1>1, <1>4, SameInPrefix
    <2> QED BY <1>1, <1>4, <1>5, <2>1 DEF LastOf
  <1>7. lock[log[i].page] = t
    BY <1>0, <1>6 DEF LocksOk, LockedBy
  <1>8. log[i].page \in Pages
    BY <1>0, <1>4, <1>6, PageTypes DEF PageRecs, LSNs
  <1> QED BY <1>1, <1>4, <1>7, <1>8

\* The transaction that appends holds the lock of the page the record is about.
LEMMA OwnLocks ==
    ASSUME DurabilityInv, NEW t \in Txns, LocksOk(t), NEW rec, LogAppend(rec),
           rec.op \notin {"CKPT_BEGIN", "CKPT_END"}, rec.txn = t, phase' = "up" => phase = "up",
           \A p \in Pages : lock[p] = t => lock'[p] = t,
           \/ rec.op \in {"START", "END"}
           \/ LastOf(rec.prev, t, Len(log)) /\ log[rec.prev].op # "END",
           rec.op \in {"SET", "CLR"} /\ phase = "up" => lock'[rec.page] = t
    PROVE  LocksOk(t)'
  <1>0. PICK n \in Nat : n = Len(log)
    BY PageTypes
  <1>1. /\ CommonPrefix(n) /\ Len(log') = n + 1 /\ Len(log') \in Nat /\ log'[n + 1] = rec
        /\ \A i \in 1 .. n : log'[i] = log[i]
    BY <1>0, AppendPrefix DEF CommonPrefix
  <1>2. LastOf(n + 1, t, Len(log))'
    BY <1>1, OwnAppended
  <1> SUFFICES ASSUME phase = "up", NEW l, LastOf(l, t, Len(log))', log'[l].op # "END",
                      NEW i \in 1 .. l, log'[i].op \in {"SET", "CLR"}, SameTx(i, l)'
               PROVE  lock'[log'[i].page] = t
    BY DEF LocksOk, LockedBy
  <1>3. l = n + 1
    BY <1>1, <1>2 DEF LastOf
  <1>4. CASE i = n + 1
    BY <1>1, <1>4
  <1>5. CASE i \in 1 .. n
    <2>1. rec.op # "START"
      <3>1. n + 1 \in i + 1 .. l
        BY <1>3, <1>5
      <3> QED BY <1>1, <1>3, <3>1 DEF SameTx
    <2>2. LastOf(rec.prev, t, n) /\ log[rec.prev].op # "END"
      BY <1>0, <1>1, <1>3, <2>1
    <2>3. i <= rec.prev /\ SameTx(i, rec.prev) /\ rec.prev \in 1 .. n
      BY <1>0, <1>3, <1>5, <2>1, <2>2, SameAppended
    <2>4. LockedBy(t, rec.prev)
      BY <1>0, <2>2 DEF LocksOk
    <2>5. lock[log[i].page] = t
      BY <1>1, <1>5, <2>3, <2>4 DEF LockedBy
    <2>6. log[i].page \in Pages
      BY <1>0, <1>1, <1>5, PageTypes DEF PageRecs, LSNs
    <2> QED BY <1>1, <1>5, <2>5, <2>6
  <1> QED BY <1>3, <1>4, <1>5

\* Appending to the chain of t, whose locks are kept, keeps the locks of all.
LEMMA AppendLocks ==
    ASSUME DurabilityInv, LocksInv, NEW t \in Txns, NEW rec, LogAppend(rec),
           rec.op \notin {"CKPT_BEGIN", "CKPT_END"}, rec.txn = t, phase' = "up" => phase = "up",
           \A p \in Pages : lock[p] # NoTx => lock'[p] = lock[p],
           \/ rec.op \in {"START", "END"}
           \/ LastOf(rec.prev, t, Len(log)) /\ log[rec.prev].op # "END",
           rec.op \in {"SET", "CLR"} /\ phase = "up" => lock'[rec.page] = t
    PROVE  \A u \in Txns : LocksOk(u)'
  <1>1. \A u \in Txns : \A p \in Pages : lock[p] = u => lock'[p] = u
    BY DEF Txns, NoTx
  <1>2. LocksOk(t)'
    BY <1>1, OwnLocks DEF LocksInv
  <1>3. ASSUME NEW u \in Txns, u # t PROVE LocksOk(u)'
    BY <1>1, <1>3, OtherLocks DEF LocksInv
  <1> QED BY <1>2, <1>3

\* The records of the forward handlers (recovery.go:51, 74, 99, 313).
LEMMA ForwardLocks ==
    ASSUME DurabilityInv, ChainInv, LocksInv, NEW t \in Txns,
           StartLog(t) \/ CommitLog(t) \/ AbortLog(t) \/ \E p \in Pages : UpdateLog(t, p)
    PROVE  \A u \in Txns : LocksOk(u)'
  <1>0. /\ phase = "up" /\ WorkAt(t)
        /\ lock \in [Pages -> Txns \cup {NoTx}]
    <2>1. phase = "up"
      BY DEF StartLog, CommitLog, AbortLog, UpdateLog, MayStartHandler
    <2> QED BY <2>1, HandlerAt, StateFacts DEF TypeOK
  <1>1. tx[t].pc = "active" =>
           LastOf(att[t].lastLSN, t, Len(log)) /\ log[att[t].lastLSN].op # "END"
    BY <1>0 DEF WorkAt
  <1>2. CASE StartLog(t)
    <2>1. LogAppend(StartRec(t)) /\ lock' = lock
      BY <1>2 DEF StartLog
    <2>2. StartRec(t).op = "START" /\ StartRec(t).txn = t
      BY DEF StartRec
    <2> QED BY <1>0, <2>1, <2>2, AppendLocks
  <1>3. CASE CommitLog(t)
    <2> DEFINE rec == CommitRec(t, att[t].lastLSN)
    <2>1. LogAppend(rec) /\ lock' = lock /\ tx[t].pc = "active"
      BY <1>3 DEF CommitLog
    <2>2. rec.op = "COMMIT" /\ rec.txn = t /\ rec.prev = att[t].lastLSN
      BY DEF CommitRec
    <2> HIDE DEF rec
    <2> QED BY <1>0, <1>1, <2>1, <2>2, AppendLocks
  <1>4. CASE AbortLog(t)
    <2> DEFINE rec == AbortRec(t, att[t].lastLSN)
    <2>1. LogAppend(rec) /\ lock' = lock /\ tx[t].pc = "active"
      BY <1>4 DEF AbortLog
    <2>2. rec.op = "ABORT" /\ rec.txn = t /\ rec.prev = att[t].lastLSN
      BY DEF AbortRec
    <2> HIDE DEF rec
    <2> QED BY <1>0, <1>1, <2>1, <2>2, AppendLocks
  <1>5. ASSUME NEW p \in Pages, UpdateLog(t, p) PROVE \A u \in Txns : LocksOk(u)'
    <2> DEFINE rec == SetRec(t, att[t].lastLSN, p, buf[p].val, NextLSN)
    <2>1. LogAppend(rec) /\ tx[t].pc = "active" /\ phase' = phase
      BY <1>5 DEF UpdateLog, recVars
    <2>2. rec.op = "SET" /\ rec.txn = t /\ rec.prev = att[t].lastLSN /\ rec.page = p
      BY DEF SetRec
    <2>3. lock'[p] = t /\ \A q \in Pages : lock[q] # NoTx => lock'[q] = lock[q]
      BY <1>0, <1>5 DEF UpdateLog
    <2> HIDE DEF rec
    <2> QED BY <1>0, <1>1, <2>1, <2>2, <2>3, AppendLocks
  <1> QED BY <1>2, <1>3, <1>4, <1>5

\* The records of a rollback, and END (recovery.go:118, 292).
LEMMA BackwardLocks ==
    ASSUME DurabilityInv, ChainInv, LocksInv, NEW t \in Txns,
           EndLog(t) \/ UndoSet(t) \/ EndWinner(t) \/ UndoRunningLoser(t)
    PROVE  \A u \in Txns : LocksOk(u)'
  <1>1. CASE EndLog(t)
    <2>1. LogAppend(EndRec(t, tx[t].lsn)) /\ lock' = lock /\ phase' = phase
      BY <1>1 DEF EndLog, recVars
    <2>2. EndRec(t, tx[t].lsn).op = "END" /\ EndRec(t, tx[t].lsn).txn = t
      BY DEF EndRec
    <2> QED BY <2>1, <2>2, AppendLocks
  <1>2. CASE UndoSet(t)
    <2> DEFINE s == log[tx[t].undo]
               rec == CLRRec(t, tx[t].lsn, s.page, s.old, s.prev)
    <2>1. /\ LogAppend(rec) /\ lock' = lock /\ phase' = phase
          /\ tx[t].pc = "undo" /\ s.op = "SET" /\ tx[t].undo \in 1 .. flushed
      BY <1>2 DEF UndoSet, Readable, recVars
    <2>2. rec.op = "CLR" /\ rec.txn = t /\ rec.prev = tx[t].lsn /\ rec.page = s.page
      BY DEF CLRRec
    <2>3. /\ Here(t, {"ABORT", "CLR"})
          /\ tx[t].undo = tx[t].lsn \/ DownTo(tx[t].undo, tx[t].lsn)
      BY <2>1, HandlerAt DEF UndoAt
    <2>4. /\ LastOf(tx[t].lsn, t, Len(log)) /\ log[tx[t].lsn].op \in {"ABORT", "CLR"}
          /\ tx[t].undo \in 1 .. tx[t].lsn /\ SameTx(tx[t].undo, tx[t].lsn)
      <3>1. LastOf(tx[t].lsn, t, Len(log)) /\ log[tx[t].lsn].op \in {"ABORT", "CLR"}
        BY <2>3 DEF Here
      <3>2. DownTo(tx[t].undo, tx[t].lsn)
        BY <2>1, <2>3, <3>1
      <3>3. tx[t].undo \in 1 .. tx[t].lsn - 1 /\ SameTx(tx[t].undo, tx[t].lsn)
        BY <3>2 DEF DownTo
      <3>4. tx[t].lsn \in Nat
        BY <3>1, PageTypes DEF LastOf
      <3> QED BY <3>1, <3>3, <3>4
    <2>5. phase = "up" => lock[s.page] = t
      BY <2>1, <2>4 DEF LocksInv, LocksOk, LockedBy
    <2> HIDE DEF rec
    <2> QED BY <2>1, <2>2, <2>4, <2>5, AppendLocks
  <1>3. CASE EndWinner(t) \/ UndoRunningLoser(t)
    <2>1. phase' # "up"
      BY <1>3 DEF EndWinner, UndoRunningLoser, recVars
    <2> QED BY <2>1 DEF LocksOk
  <1> QED BY <1>1, <1>2, <1>3

\* Release gives up the locks of a transaction that has its END (locktable.go:382).
LEMMA FinishLocks ==
    ASSUME DurabilityInv, ChainInv, LocksInv, NEW t \in Txns, Finish(t)
    PROVE  \A u \in Txns : LocksOk(u)'
  <1>1. /\ log' = log /\ phase' = phase /\ tx[t].pc = "ended"
        /\ \A p \in Pages : lock'[p] = IF lock[p] = t THEN NoTx ELSE lock[p]
    BY DEF Finish, logVars, recVars
  <1>2. Resolved(t, Len(log))
    BY <1>1, HandlerAt DEF UndoAt
  <1>3. ASSUME NEW u \in Txns, phase = "up", NEW l, LastOf(l, u, Len(log)), log[l].op # "END"
        PROVE  LockedBy(u, l)'
    <2>1. u # t
      BY <1>2, <1>3 DEF Resolved, LastOf
    <2>2. LockedBy(u, l) /\ l \in 1 .. Len(log) /\ Len(log) \in Nat
      BY <1>3, PageTypes DEF LocksInv, LocksOk, LastOf
    <2>3. ASSUME NEW i \in 1 .. l, log[i].op \in {"SET", "CLR"}, SameTx(i, l)
          PROVE  lock'[log[i].page] = u
      <3>1. i \in PageRecs(log[i].page)
        BY <2>2, <2>3 DEF PageRecs, LSNs
      <3>2. log[i].page \in Pages
        BY <3>1, PageTypes
      <3>3. lock[log[i].page] = u
        BY <2>2, <2>3 DEF LockedBy
      <3> QED BY <1>1, <2>1, <3>2, <3>3
    <2>4. \A i : SameTx(i, l)' <=> SameTx(i, l)
      BY <1>1, SameLog
    <2> QED BY <1>1, <2>3, <2>4 DEF LockedBy
  <1>4. \A l : \A u : LastOf(l, u, Len(log))' <=> LastOf(l, u, Len(log))
    BY <1>1, SameLog
  <1> QED BY <1>1, <1>3, <1>4 DEF LocksOk

\* After a recovery no transaction is open.
LEMMA RecoverLocks ==
    ASSUME DurabilityInv, ChainInv', RecoverDone
    PROVE  \A t \in Txns : LocksOk(t)'
  <1>1. ASSUME NEW t \in Txns PROVE Resolved(t, Len(log))'
    <2>1. tx[t].pc = "none" /\ tx' = tx /\ phase' = "up"
      BY DEF RecoverDone, NoUndoRunning
    <2>2. TxAt(t)'
      BY DEF ChainInv
    <2> QED BY <2>1, <2>2 DEF TxAt, WorkAt
  <1> QED BY <1>1 DEF LocksOk, Resolved, LastOf

\* The steps that leave the log and the locks alone, and the crash.
LEMMA StillLocks ==
    ASSUME LocksInv, UNCHANGED <<log, lock>> \/ phase' # "up", phase' = "up" => phase = "up"
    PROVE  \A t \in Txns : LocksOk(t)'
  <1>1. CASE phase' # "up"
    BY <1>1 DEF LocksOk
  <1>2. CASE UNCHANGED <<log, lock>>
    BY <1>2, SameLocks DEF LocksInv
  <1> QED BY <1>1, <1>2

\* Locks cover what open transactions have changed after every step.
LEMMA NextLocks ==
    ASSUME CheckpointAlone, DurabilityInv, ChainInv, LocksInv, [Next]_vars
    PROVE  \A t \in Txns : LocksOk(t)'
  <1>1. ASSUME NEW t \in Txns, TxStart(t) \/ TxUpdate(t) PROVE \A u \in Txns : LocksOk(u)'
    <2>1. CASE StartSet(t) \/ UpdateLink(t) \/ UpdatePage(t)
      BY <2>1, StillLocks DEF StartSet, UpdateLink, UpdatePage, logVars, recVars
    <2> QED BY <1>1, <2>1, ForwardLocks DEF TxStart, TxUpdate
  <1>2. ASSUME NEW t \in Txns, TxCommit(t) \/ TxRollback(t) PROVE \A u \in Txns : LocksOk(u)'
    <2>1. CASE CommitFlush(t) \/ CommitSet(t) \/ AbortFlush(t) \/ RollbackSet(t)
      BY <2>1, StillLocks DEF CommitFlush, CommitSet, AbortFlush, RollbackSet, logVars, recVars
    <2> QED BY <1>2, <2>1, ForwardLocks DEF TxCommit, TxRollback
  <1>3. ASSUME NEW t \in Txns, DoRollback(t) PROVE \A u \in Txns : LocksOk(u)'
    <2>1. CASE UndoStop(t) \/ UndoSkip(t) \/ ClrFlush(t) \/ UndoPage(t)
      BY <2>1, StillLocks DEF UndoStop, UndoSkip, ClrFlush, UndoPage, logVars, recVars
    <2> QED BY <1>3, <2>1, BackwardLocks DEF DoRollback
  <1>4. ASSUME NEW t \in Txns, TxEnd(t) \/ EndWinner(t) \/ RecoverLoser(t)
        PROVE  \A u \in Txns : LocksOk(u)'
    <2>1. CASE UndoAbortingLoser(t) \/ LoserUndone(t)
      BY <2>1, StillLocks DEF UndoAbortingLoser, LoserUndone, logVars, recVars
    <2> QED BY <1>4, <2>1, BackwardLocks, FinishLocks DEF TxEnd, RecoverLoser
  <1>5. CASE Checkpoint
    <2>1. UNCHANGED <<lock, phase>>
      BY <1>5
      DEF Checkpoint, CkptBegin, CkptATT, CkptDPT, CkptEnd, CkptFlush, CkptMaster, recVars
    <2>2. log' = log \/ \E rec : LogAppend(rec) /\ rec.op \in {"CKPT_BEGIN", "CKPT_END"}
      BY <1>5
      DEF Checkpoint, CkptBegin, CkptATT, CkptDPT, CkptEnd, CkptFlush, CkptMaster, logVars,
          CkptBeginRec, CkptEndRec
    <2>3. ASSUME NEW rec, LogAppend(rec), rec.op \in {"CKPT_BEGIN", "CKPT_END"}, NEW t \in Txns
          PROVE  LocksOk(t)'
      BY <2>1, <2>3, OtherLocks DEF LocksInv
    <2> QED BY <2>1, <2>2, <2>3, StillLocks
  <1>6. CASE RecoverScan \/ WinnersDone \/ Crash
    <2>1. phase' # "up"
      BY <1>6 DEF RecoverScan, Analyze, AnalysisDone, Redo, RedoDone, WinnersDone, Crash
    <2> QED BY <2>1, StillLocks
  <1>7. ASSUME NEW p \in Pages, FlushPage(p) PROVE \A t \in Txns : LocksOk(t)'
    BY <1>7, StillLocks DEF FlushPage, recVars
  <1>8. CASE RecoverDone
    BY <1>8, NextChain, RecoverLocks
  <1>9. CASE UNCHANGED vars
    BY <1>9, StillLocks DEF vars, logVars, recVars
  <1> QED BY <1>1, <1>2, <1>3, <1>4, <1>5, <1>6, <1>7, <1>8, <1>9 DEF Next, Idle

\* The winners get their END records before any rollback, and checkpoints wait for the end of
\* the recovery (recovery.go:397-436, simpledb.go:195-220).
WorkInTurn == (phase = "winners" => NoUndoRunning) /\ (ckpt.pc # "idle" => phase = "up")

LEMMA TakesTurns == ASSUME DurabilityInv, ChainInv \/ LinkInv PROVE WorkInTurn
  <1>1. CASE ChainInv
    <2>1. ckpt.pc # "idle" => phase = "up"
      BY <1>1 DEF ChainInv, CkptAt
    <2>2. phase = "winners" => NoUndoRunning
      BY <1>1, HandlerAt DEF NoUndoRunning
    <2> QED BY <2>1, <2>2 DEF WorkInTurn
  <1>2. CASE LinkInv
    <2>1. ckpt.pc # "idle" => phase = "up"
      BY <1>2 DEF LinkInv, CkptLinks
    <2>2. phase = "winners" => NoUndoRunning
      BY <1>2, LinkFacts DEF NoUndoRunning
    <2> QED BY <2>1, <2>2 DEF WorkInTurn
  <1> QED BY <1>1, <1>2

\* doUndoPhase takes up the next loser when the one before is done (recovery.go:436-470).
LEMMA NextOneUndo ==
    ASSUME DurabilityInv, WorkInTurn, OneUndo, [Next]_vars
    PROVE  OneUndo'
  <1>0. tx \in [Txns -> TxRows]
    BY StateFacts DEF TypeOK
  <1> DEFINE Still == /\ phase' = "undo" => phase = "undo"
                      /\ \A u \in Txns : tx[u].pc = "none" => tx'[u].pc = "none"
  <1>1. ASSUME Still PROVE OneUndo'
    BY <1>1 DEF OneUndo
  <1>2. ASSUME NEW t \in Txns, tx[t].pc # "none", phase' = phase,
               \A u \in Txns : u # t => tx'[u] = tx[u]
        PROVE  OneUndo'
    BY <1>1, <1>2
  <1>3. ASSUME NEW t \in Txns, phase = "undo", NoUndoRunning,
               \A u \in Txns : u # t => tx'[u] = tx[u]
        PROVE  OneUndo'
    BY <1>3 DEF NoUndoRunning, OneUndo
  <1>4. ASSUME NEW t \in Txns, StartLog(t) PROVE OneUndo'
    <2>1. phase' = "up"
      BY <1>4 DEF StartLog, MayStartHandler, recVars
    <2> QED BY <2>1 DEF OneUndo
  <1>5. ASSUME NEW t \in Txns, StartSet(t) \/ TxUpdate(t) \/ TxCommit(t) PROVE OneUndo'
    <2>1. /\ tx[t].pc # "none" /\ phase' = phase
          /\ \A u \in Txns : u # t => tx'[u] = tx[u]
      BY <1>0, <1>5
      DEF StartSet, TxUpdate, UpdateLog, UpdateLink, UpdatePage, TxCommit, CommitLog, CommitFlush,
          CommitSet, Goto, GotoWith, recVars
    <2> QED BY <1>2, <2>1
  <1>6. ASSUME NEW t \in Txns, TxRollback(t) \/ TxEnd(t) PROVE OneUndo'
    <2>1. /\ tx[t].pc # "none" /\ phase' = phase
          /\ \A u \in Txns : u # t => tx'[u] = tx[u]
      BY <1>0, <1>6
      DEF TxRollback, AbortLog, AbortFlush, RollbackSet, TxEnd, EndLog, Finish, Goto, GotoWith,
          recVars
    <2> QED BY <1>2, <2>1
  <1>7. ASSUME NEW t \in Txns, DoRollback(t) PROVE OneUndo'
    <2>1. /\ tx[t].pc # "none" /\ phase' = phase
          /\ \A u \in Txns : u # t => tx'[u] = tx[u]
      BY <1>0, <1>7
      DEF DoRollback, UndoStop, UndoSet, UndoSkip, ClrFlush, UndoPage, Goto, GotoWith, recVars
    <2> QED BY <1>2, <2>1
  <1>8. ASSUME NEW t \in Txns, EndWinner(t) \/ RecoverLoser(t) PROVE OneUndo'
    <2>1. CASE EndWinner(t)
      BY <1>1, <2>1 DEF EndWinner
    <2>2. CASE UndoRunningLoser(t) \/ UndoAbortingLoser(t)
      <3>1. /\ phase = "undo" /\ NoUndoRunning
            /\ \A u \in Txns : u # t => tx'[u] = tx[u]
        BY <1>0, <2>2 DEF UndoRunningLoser, UndoAbortingLoser, GotoWith
      <3> QED BY <1>3, <3>1
    <2>3. CASE LoserUndone(t)
      <3>1. /\ tx[t].pc # "none" /\ phase' = phase
            /\ \A u \in Txns : u # t => tx'[u] = tx[u]
        BY <1>0, <2>3 DEF LoserUndone
      <3> QED BY <1>2, <3>1
    <2> QED BY <1>8, <2>1, <2>2, <2>3 DEF RecoverLoser
  <1>9. CASE WinnersDone
    <2>1. \A t \in Txns : tx'[t].pc = "none"
      BY <1>9 DEF WinnersDone, WorkInTurn, NoUndoRunning
    <2> QED BY <2>1 DEF OneUndo
  <1>10. CASE RecoverScan \/ RecoverDone \/ Crash
    <2>1. phase' # "undo"
      BY <1>10 DEF RecoverScan, Analyze, AnalysisDone, Redo, RedoDone, RecoverDone, Crash
    <2> QED BY <2>1 DEF OneUndo
  <1>11. CASE Checkpoint
    <2>1. UNCHANGED <<tx, phase>>
      BY <1>11
      DEF Checkpoint, CkptBegin, CkptATT, CkptDPT, CkptEnd, CkptFlush, CkptMaster, recVars
    <2> QED BY <1>1, <2>1
  <1>12. CASE (\E p \in Pages : FlushPage(p)) \/ Idle \/ UNCHANGED vars
    <2>1. UNCHANGED <<tx, phase>>
      BY <1>12 DEF FlushPage, Idle, vars, recVars
    <2> QED BY <1>1, <2>1
  <1> QED BY <1>4, <1>5, <1>6, <1>7, <1>8, <1>9, <1>10, <1>11, <1>12 DEF Next, TxStart

-----------------------------------------------------------------------------
(* Counters and phases. *)

\* Only a crash leaves the state "up" and counts, or takes a page table back.
LEMMA PhaseSteps ==
    ASSUME DurabilityInv, [Next]_vars
    PROVE  Crash \/ (/\ phase' # "up" => phase # "up"
                     /\ used'.crashes = used.crashes)
  <1>0. used \in [starts : Nat, updates : Nat, ckpts : Nat, crashes : Nat]
    BY StateFacts DEF TypeOK
  <1>1. CASE Quiet
    BY <1>1 DEF Quiet
  <1>2. ASSUME NEW t \in Txns, NEW p \in Pages, UpdateLog(t, p)
        PROVE  phase' = phase /\ used'.crashes = used.crashes
    BY <1>0, <1>2 DEF UpdateLog, recVars
  <1>3. ASSUME NEW t \in Txns, UpdatePage(t) \/ UndoSet(t) \/ UndoPage(t)
        PROVE  phase' = phase /\ used'.crashes = used.crashes
    BY <1>3 DEF UpdatePage, UndoSet, UndoPage, recVars
  <1>4. ASSUME NEW p \in Pages, FlushPage(p)
        PROVE  phase' = phase /\ used'.crashes = used.crashes
    BY <1>4 DEF FlushPage, recVars
  <1>5. CASE Checkpoint
    <2>1. phase' = phase /\ used'.crashes = used.crashes
      BY <1>0, <1>5
      DEF Checkpoint, CkptBegin, CkptATT, CkptDPT, CkptEnd, CkptFlush, CkptMaster, recVars
    <2> QED BY <2>1
  <1>6. CASE RecoverScan \/ WinnersDone \/ RecoverDone
    <2>1. phase # "up" /\ used' = used
      BY <1>6 DEF RecoverScan, Analyze, AnalysisDone, Redo, RedoDone, WinnersDone, RecoverDone
    <2> QED BY <2>1
  <1> QED BY <1>1, <1>2, <1>3, <1>4, <1>5, <1>6, StepKinds

\* The bounds keep (and name) what each step counts.
LEMMA NextCounts ==
    ASSUME DurabilityInv, ChainInv, CountsOk, [Next]_vars
    PROVE  CountsOk'
  <1>0. /\ used \in [starts : Nat, updates : Nat, ckpts : Nat, crashes : Nat]
        /\ MaxCheckpoints \in Nat /\ MaxCrashes \in Nat
    BY StateFacts, BoundsAssumption DEF TypeOK
  <1>1. ASSUME used'.ckpts = used.ckpts, used'.crashes = used.crashes,
               UNCHANGED <<master, ckpt>>, phase' # "up" => phase # "up"
        PROVE  CountsOk'
    BY <1>1 DEF CountsOk
  <1>2. CASE Quiet
    BY <1>1, <1>2 DEF Quiet
  <1>3. ASSUME NEW t \in Txns, NEW p \in Pages, UpdateLog(t, p) PROVE CountsOk'
    <2>1. /\ used'.ckpts = used.ckpts /\ used'.crashes = used.crashes
          /\ UNCHANGED <<master, ckpt, phase>>
      BY <1>0, <1>3 DEF UpdateLog, recVars
    <2> QED BY <1>1, <2>1
  <1>4. ASSUME NEW t \in Txns, UpdatePage(t) \/ UndoSet(t) \/ UndoPage(t) PROVE CountsOk'
    <2>1. UNCHANGED <<master, ckpt, phase, used>>
      BY <1>4 DEF UpdatePage, UndoSet, UndoPage, recVars, logVars
    <2> QED BY <1>1, <2>1
  <1>5. ASSUME NEW p \in Pages, FlushPage(p) PROVE CountsOk'
    <2>1. UNCHANGED <<master, ckpt, phase, used>>
      BY <1>5 DEF FlushPage, recVars
    <2> QED BY <1>1, <2>1
  <1>6. CASE CkptBegin
    BY <1>0, <1>6 DEF CkptBegin, CountsOk, recVars
  <1>7. CASE CkptATT \/ CkptDPT \/ CkptEnd \/ CkptFlush \/ CkptMaster
    <2>1. used' = used /\ phase' = phase /\ ckpt.pc # "idle"
      BY <1>7 DEF CkptATT, CkptDPT, CkptEnd, CkptFlush, CkptMaster, recVars
    <2> QED BY <2>1 DEF CountsOk
  <1>8. CASE RecoverScan \/ WinnersDone \/ RecoverDone
    <2>1. phase # "up" /\ UNCHANGED <<master, ckpt, used>>
      BY <1>8
      DEF RecoverScan, Analyze, AnalysisDone, Redo, RedoDone, WinnersDone, RecoverDone, logVars
    <2> QED BY <1>1, <2>1
  <1>9. CASE Crash
    <2>1. /\ used.crashes < MaxCrashes /\ used' = [used EXCEPT !.crashes = @ + 1]
          /\ master' = master /\ ckpt'.pc = "idle"
      BY <1>9 DEF Crash, CkptIdle
    <2> QED BY <1>0, <2>1 DEF CountsOk
  <1> QED BY <1>2, <1>3, <1>4, <1>5, <1>6, <1>7, <1>8, <1>9, StepKinds DEF Checkpoint

-----------------------------------------------------------------------------
(* The dirty page tables, from the shared one to that of the log header. *)

\* The pageLSN on disk only grows.
LEMMA DiskGrows ==
    ASSUME DurabilityInv, PagesInv, [Next]_vars
    PROVE  \A p \in Pages : disk[p].lsn <= disk'[p].lsn
  <1>0. \A p \in Pages : disk[p].lsn \in Nat
    BY PageTypes
  <1>1. CASE disk' = disk
    BY <1>0, <1>1
  <1>2. ASSUME NEW p \in Pages, FlushPage(p) PROVE \A q \in Pages : disk[q].lsn <= disk'[q].lsn
    BY <1>0, <1>2, FlushShape
  <1>3. disk' = disk \/ \E p \in Pages : FlushPage(p)
    <2>1. ASSUME Quiet PROVE disk' = disk
      BY <2>1 DEF Quiet
    <2>2. ASSUME NEW t \in Txns, NEW p \in Pages, UpdateLog(t, p) PROVE disk' = disk
      BY <2>2 DEF UpdateLog, pageVars
    <2>3. ASSUME NEW t \in Txns, UpdatePage(t) \/ UndoSet(t) \/ UndoPage(t) PROVE disk' = disk
      BY <2>3 DEF UpdatePage, UndoSet, UndoPage, pageVars
    <2>4. ASSUME Checkpoint PROVE disk' = disk
      BY <2>4
      DEF Checkpoint, CkptBegin, CkptATT, CkptDPT, CkptEnd, CkptFlush, CkptMaster, pageVars
    <2>5. ASSUME RecoverScan \/ WinnersDone \/ RecoverDone \/ Crash PROVE disk' = disk
      BY <2>5
      DEF RecoverScan, Analyze, AnalysisDone, Redo, RedoDone, WinnersDone, RecoverDone, Crash,
          pageVars
    <2> QED BY <2>1, <2>2, <2>3, <2>4, <2>5, StepKinds
  <1> QED BY <1>1, <1>2, <1>3

\* A table that covers a prefix of the log goes on doing so.
LEMMA CoversKept ==
    ASSUME DurabilityInv, NEW m, NEW n, m \in 0 .. n, CommonPrefix(n), NEW d, Covers(d, m),
           Len(log) \in Nat, Len(log') \in Nat, DurabilityInv',
           \A p \in Pages : disk[p].lsn <= disk'[p].lsn
    PROVE  Covers(d, m)'
  <1> SUFFICES ASSUME NEW p \in Pages, NEW i \in PageRecs(p)', i <= m, disk'[p].lsn < i
               PROVE  d[p] # NoLSN /\ d[p] <= i
    BY DEF Covers
  <1>1. n \in Nat /\ i \in 1 .. n /\ log'[i] = log[i] /\ i \in 1 .. Len(log)
    BY DEF PageRecs, LSNs, CommonPrefix
  <1>2. i \in PageRecs(p)
    BY <1>1 DEF PageRecs, LSNs
  <1>3. disk[p].lsn \in Nat /\ disk'[p].lsn \in Nat
    <2>1. DurabilityInv => \A q \in Pages : disk[q].lsn \in Nat
      BY PageTypes
    <2>2. TypeOK'
      BY DEF DurabilityInv
    <2> QED BY <2>1, <2>2 DEF TypeOK
  <1> QED BY <1>1, <1>2, <1>3 DEF Covers

\* What handlers and the recovery do happens beside no checkpoint.
LEMMA CkptIsIdle ==
    ASSUME DurabilityInv, ChainInv, NEW t \in Txns,
           \/ \E p \in Pages : UpdateLog(t, p)
           \/ UpdatePage(t) \/ UndoSet(t) \/ UndoPage(t)
           \/ RecoverScan \/ WinnersDone \/ RecoverDone,
           CheckpointAlone
    PROVE  ckpt.pc = "idle" /\ ckpt' = ckpt
  <1>1. CASE \E p \in Pages : UpdateLog(t, p)
    BY <1>1 DEF UpdateLog, MayStartHandler
  <1>2. CASE UpdatePage(t) \/ UndoSet(t) \/ UndoPage(t)
    <2>1. tx[t].pc \notin AtRest
      BY <1>2 DEF UpdatePage, UndoSet, UndoPage, AtRest
    <2> QED BY <1>2, <2>1, HandlerAt DEF UpdatePage, UndoSet, UndoPage
  <1>3. CASE RecoverScan \/ WinnersDone \/ RecoverDone
    <2>1. phase # "up" /\ ckpt' = ckpt
      BY <1>3 DEF RecoverScan, Analyze, AnalysisDone, Redo, RedoDone, WinnersDone, RecoverDone
    <2> QED BY <2>1, HandlerAt
  <1> QED BY <1>1, <1>2, <1>3

\* The DPT a checkpoint carries names all dirty pages (recovery.go:107-140).
LEMMA NextSnapshot ==
    ASSUME CheckpointAlone, DurabilityInv, DurabilityInv', ChainInv, PagesInv, DptInv, [Next]_vars
    PROVE  SnapshotOk'
  <1>0. /\ Len(log) \in Nat /\ \A p \in Pages : disk[p].lsn <= disk'[p].lsn
        /\ used \in [starts : Nat, updates : Nat, ckpts : Nat, crashes : Nat]
        /\ MaxCrashes \in Nat
    BY PageTypes, DiskGrows, StateFacts, BoundsAssumption DEF TypeOK
  <1>1. CASE Crash
    BY <1>1 DEF Crash, CkptIdle, SnapshotOk
  <1>2. used'.crashes < MaxCrashes => Crash \/ used.crashes < MaxCrashes
    BY PhaseSteps
  <1>3. ASSUME ckpt' = ckpt, NoPageRec, used'.crashes < MaxCrashes => used.crashes < MaxCrashes
        PROVE  SnapshotOk'
    <2> SUFFICES ASSUME used'.crashes < MaxCrashes
                 PROVE  /\ ckpt'.pc = "dpt" => Covers(ckpt.dpt, Len(log))'
                        /\ ckpt'.pc \in {"end", "flushed"} =>
                              Covers(log[ckpt.begin + 1].dpt, ckpt.begin)'
      BY DEF SnapshotOk
    <2>1. SnapshotOk /\ used.crashes < MaxCrashes
      BY <1>3 DEF DptInv
    <2>2. PICK n, d : n = Len(log) /\ d = ckpt.dpt
      OBVIOUS
    <2>3. n \in 0 .. n /\ CommonPrefix(n) /\ n \in Nat /\ Len(log') \in Nat /\ n <= Len(log')
      BY <1>0, <1>3, <2>2 DEF NoPageRec
    <2>4. CASE ckpt.pc = "dpt"
      <3>1. Covers(d, n)
        BY <2>1, <2>2, <2>4 DEF SnapshotOk
      <3>2. Covers(d, n)'
        BY <1>0, <2>2, <2>3, <3>1, CoversKept
      <3>3. \A p \in Pages : \A i \in PageRecs(p)' : i <= n
        <4>1. \A p \in Pages : \A i \in PageRecs(p) : i <= n
          BY <2>2, PageTypes
        <4> QED BY <1>3, <4>1 DEF NoPageRec
      <3>4. Covers(d, Len(log))'
        BY <3>2, <3>3 DEF Covers
      <3> QED BY <1>3, <2>2, <2>4, <3>4
    <2>5. CASE ckpt.pc \in {"end", "flushed"}
      <3>1. PICK b, e : b = ckpt.begin /\ e = log[ckpt.begin + 1].dpt
        OBVIOUS
      <3>2. b \in 0 .. n /\ b + 1 \in 1 .. n /\ Covers(e, b)
        BY <2>1, <2>2, <2>5, <3>1 DEF SnapshotOk, ChainInv, CkptAt, CkptPair, LSNs
      <3>3. Covers(e, b)'
        BY <1>0, <2>2, <2>3, <3>2, CoversKept
      <3>4. ckpt'.begin = b /\ log'[b + 1].dpt = e
        BY <1>3, <2>3, <3>1, <3>2 DEF CommonPrefix
      <3> QED BY <1>3, <2>5, <3>3, <3>4
    <2> QED BY <1>3, <2>4, <2>5
  <1>4. CASE Quiet
    <2>1. NoPageRec
      BY <1>4, NoPageRecFacts DEF Quiet, Appends
    <2> QED BY <1>1, <1>2, <1>3, <1>4, <2>1 DEF Quiet
  <1>5. ASSUME NEW t \in Txns, NEW p \in Pages, UpdateLog(t, p) PROVE SnapshotOk'
    BY <1>5, CkptIsIdle DEF SnapshotOk
  <1>6. ASSUME NEW t \in Txns, UpdatePage(t) \/ UndoSet(t) \/ UndoPage(t) PROVE SnapshotOk'
    BY <1>6, CkptIsIdle DEF SnapshotOk
  <1>7. CASE RecoverScan \/ WinnersDone \/ RecoverDone
    <2>1. 1 \in Txns
      BY MaxTxAssumption DEF Txns
    <2> QED BY <1>7, <2>1, CkptIsIdle DEF SnapshotOk
  <1>8. ASSUME NEW p \in Pages, FlushPage(p) PROVE SnapshotOk'
    <2>1. ckpt' = ckpt /\ log' = log /\ used' = used
      BY <1>8 DEF FlushPage
    <2> QED BY <1>3, <2>1, NoPageRecFacts
  <1>9. CASE CkptBegin \/ CkptATT \/ CkptMaster
    <2>1. ckpt \in [pc : {"idle", "begun", "att", "dpt", "end", "flushed"},
                     begin : LSN \cup {NoLSN}, att : ATTs, dpt : DPTs]
      BY StateFacts DEF TypeOK
    <2>2. ckpt'.pc \in {"begun", "att", "idle"}
      <3>1. CASE CkptBegin
        BY <2>1, <3>1 DEF CkptBegin
      <3>2. CASE CkptATT
        BY <2>1, <3>2 DEF CkptATT
      <3>3. CASE CkptMaster
        BY <3>3 DEF CkptMaster, CkptIdle
      <3> QED BY <1>9, <3>1, <3>2, <3>3
    <2> QED BY <2>2 DEF SnapshotOk
  <1>10. CASE CkptDPT
    <2>1. /\ ckpt.pc = "att" /\ ckpt' = [ckpt EXCEPT !.pc = "dpt", !.dpt = dpt]
          /\ UNCHANGED <<log, disk, used, dpt, tx, phase>>
      BY <1>10 DEF CkptDPT, logVars, pageVars, tblVars, recVars
    <2>2. ckpt'.pc = "dpt" /\ ckpt'.dpt = dpt /\ phase = "up" /\ \A t \in Txns : ~Applying(t)
      BY <2>1, StateFacts DEF TypeOK, ChainInv, CkptAt, Applying, ApplyPCs, AtRest
    <2>3. ASSUME used.crashes < MaxCrashes, NEW p \in Pages, NEW i \in PageRecs(p), disk[p].lsn < i
          PROVE  dpt[p] # NoLSN /\ dpt[p] <= i
      <3>1. ~(i > buf[p].lsn)
        BY <2>2 DEF PagesInv, AppliedOk
      <3>2. i <= buf[p].lsn
        BY <3>1, PageTypes
      <3> QED BY <2>1, <2>2, <2>3, <3>2 DEF DptInv, DptOk
    <2>4. \A p \in Pages : PageRecs(p)' = PageRecs(p)
      BY <2>1 DEF PageRecs, LSNs
    <2> QED BY <2>1, <2>2, <2>3, <2>4 DEF SnapshotOk, Covers
  <1>11. CASE CkptEnd
    <2>1. PICK n, d : n = Len(log) /\ d = ckpt.dpt
      OBVIOUS
    <2>2. /\ ckpt.pc = "dpt" /\ ckpt' = [ckpt EXCEPT !.pc = "end"] /\ used' = used
          /\ LogAppend(CkptEndRec(ckpt.att, d)) /\ ckpt.begin = n
      BY <1>11, <2>1 DEF CkptEnd, CkptGoto, ChainInv, CkptAt
    <2>3. ckpt'.pc = "end" /\ ckpt'.begin = n
      BY <2>2, StateFacts DEF TypeOK
    <2>4. /\ CommonPrefix(n) /\ n \in 0 .. n /\ Len(log') \in Nat
          /\ log'[n + 1] = CkptEndRec(ckpt.att, d)
      BY <1>0, <2>1, <2>2, AppendPrefix
    <2>5. log'[n + 1].dpt = d
      BY <2>4 DEF CkptEndRec
    <2>6. used.crashes < MaxCrashes => Covers(d, n)'
      BY <1>0, <2>1, <2>2, <2>4, CoversKept DEF DptInv, SnapshotOk
    <2> QED BY <2>2, <2>3, <2>5, <2>6 DEF SnapshotOk
  <1>12. CASE CkptFlush
    <2>1. /\ ckpt.pc = "end" /\ ckpt' = [ckpt EXCEPT !.pc = "flushed"]
          /\ UNCHANGED <<log, disk, used>>
      BY <1>12 DEF CkptFlush, CkptGoto, pageVars
    <2>2. ckpt'.pc = "flushed" /\ ckpt'.begin = ckpt.begin
      BY <2>1, StateFacts DEF TypeOK
    <2>3. \A p \in Pages : PageRecs(p)' = PageRecs(p)
      BY <2>1 DEF PageRecs, LSNs
    <2> QED BY <2>1, <2>2, <2>3 DEF DptInv, SnapshotOk, Covers
  <1> QED BY <1>1, <1>4, <1>5, <1>6, <1>7, <1>8, <1>9, <1>10, <1>11, <1>12, StepKinds
          DEF Checkpoint

\* So does the table of the checkpoint that the log header names, through any
\* number of crashes and recoveries (log.go:130, recovery.go:140).
LEMMA NextHeaderDpt ==
    ASSUME CheckpointAlone, DurabilityInv, DurabilityInv', ChainInv, PagesInv, DptInv, [Next]_vars
    PROVE  HeaderDptOk'
  <1>0. /\ Len(log) \in Nat /\ \A p \in Pages : disk[p].lsn <= disk'[p].lsn
        /\ used.crashes < MaxCrashes \/ ~Crash
        /\ Len(log') \in Nat
    <2>1. DurabilityInv' => Len(log') \in Nat
      BY DEF DurabilityInv, TypeOK
    <2> QED BY <2>1, PageTypes, DiskGrows DEF Crash
  <1>1. (used'.crashes < MaxCrashes \/ phase' # "up") =>
           (used.crashes < MaxCrashes \/ phase # "up")
    BY <1>0, PhaseSteps
  <1>2. PICK m, d : m = master /\ d = log[master + 1].dpt
    OBVIOUS
  <1>3. ASSUME master' = master, m # 1, NEW n, CommonPrefix(n), m + 1 \in 1 .. n, m \in 0 .. n
        PROVE  HeaderDptOk'
    <2> SUFFICES ASSUME used'.crashes < MaxCrashes \/ phase' # "up"
                 PROVE  Covers(log[master + 1].dpt, master)'
      BY DEF HeaderDptOk
    <2>1. Covers(d, m)
      BY <1>1, <1>2, <1>3 DEF DptInv, HeaderDptOk
    <2>2. Covers(d, m)'
      BY <1>0, <1>3, <2>1, CoversKept
    <2>3. log'[m + 1].dpt = d /\ master' = m
      BY <1>2, <1>3 DEF CommonPrefix
    <2> QED BY <2>2, <2>3
  <1>4. ASSUME m # 1 PROVE m + 1 \in 1 .. Len(log) /\ m < flushed /\ m \in Nat
    BY <1>2, <1>4 DEF ChainInv, HeaderAt, CkptPair, LSNs
  <1>5. CASE m = 1 /\ master' = master
    BY <1>2, <1>5 DEF HeaderDptOk
  <1>6. CASE m # 1 /\ master' = master /\ Crash
    <2>1. PICK last \in flushed .. Len(log) :
              Len(log') = last /\ last \in Nat /\ \A i \in 1 .. last : log'[i] = log[i]
      BY <1>6, CrashShape
    <2>2. CommonPrefix(last) /\ m + 1 \in 1 .. last /\ m \in 0 .. last
      BY <1>0, <1>4, <1>6, <2>1, PageTypes DEF CommonPrefix
    <2> QED BY <1>3, <1>6, <2>2
  <1>7. CASE m # 1 /\ master' = master /\ ~Crash
    <2>1. CommonPrefix(Len(log))
      BY <1>7, NextGrows DEF LogGrows, CommonPrefix
    <2> QED BY <1>0, <1>3, <1>4, <1>7, <2>1
  <1>8. CASE CkptMaster
    <2>1. /\ ckpt.pc = "flushed" /\ master' = ckpt.begin /\ UNCHANGED <<log, disk, used, phase>>
      BY <1>8 DEF CkptMaster, pageVars, recVars
    <2>2. phase = "up"
      BY <2>1 DEF ChainInv, CkptAt
    <2>3. \A p \in Pages : PageRecs(p)' = PageRecs(p)
      BY <2>1 DEF PageRecs, LSNs
    <2>4. used.crashes < MaxCrashes => Covers(log[ckpt.begin + 1].dpt, ckpt.begin)
      BY <2>1 DEF DptInv, SnapshotOk
    <2> QED BY <2>1, <2>2, <2>3, <2>4 DEF HeaderDptOk, Covers
  <1>9. master' = master \/ CkptMaster
    <2>1. ASSUME Quiet PROVE master' = master
      BY <2>1 DEF Quiet
    <2>2. ASSUME NEW t \in Txns, NEW p \in Pages, UpdateLog(t, p) PROVE master' = master
      BY <2>2 DEF UpdateLog
    <2>3. ASSUME NEW t \in Txns, UpdatePage(t) \/ UndoSet(t) \/ UndoPage(t) PROVE master' = master
      BY <2>3 DEF UpdatePage, UndoSet, UndoPage, logVars
    <2>4. ASSUME NEW p \in Pages, FlushPage(p) PROVE master' = master
      BY <2>4 DEF FlushPage
    <2>5. ASSUME Checkpoint, ~CkptMaster PROVE master' = master
      BY <2>5 DEF Checkpoint, CkptBegin, CkptATT, CkptDPT, CkptEnd, CkptFlush, logVars
    <2>6. ASSUME RecoverScan \/ WinnersDone \/ RecoverDone \/ Crash PROVE master' = master
      BY <2>6
      DEF RecoverScan, Analyze, AnalysisDone, Redo, RedoDone, WinnersDone, RecoverDone, Crash,
          logVars
    <2> QED BY <2>1, <2>2, <2>3, <2>4, <2>5, <2>6, StepKinds
  <1> QED BY <1>5, <1>6, <1>7, <1>8, <1>9

\* Of the records about the page that t changes, all but its own are applied.
LEMMA OthersApplied ==
    ASSUME DurabilityInv, ChainInv, PagesInv, LocksInv, NEW t \in Txns, Applying(t),
           NEW p \in Pages, log[tx[t].lsn].page = p
    PROVE  \A i \in PageRecs(p) : i <= buf[p].lsn \/ i = tx[t].lsn
  <1> SUFFICES ASSUME NEW i \in PageRecs(p), ~(i <= buf[p].lsn) PROVE i = tx[t].lsn
    OBVIOUS
  <1>1. i > buf[p].lsn /\ log[i].page = p
    BY PageTypes
  <1>2. phase \in {"up", "undo"}
    BY ApplyingFacts
  <1>3. PICK u \in Txns : Applying(u) /\ tx[u].lsn = i
    BY <1>1, <1>2 DEF PagesInv, AppliedOk
  <1> QED BY <1>1, <1>3, OneApplies

\* A page that is changed enters the DPT, or is there with an older LSN
\* (setint32record.go:62, buffer.go:39).
LEMMA ApplyDpt ==
    ASSUME DurabilityInv, ChainInv, PagesInv, LocksInv, DptInv, NEW t \in Txns, NEW p \in Pages,
           Applying(t), log[tx[t].lsn].page = p, NEW val, ApplyToPage(p, val, tx[t].lsn),
           UNCHANGED <<log, disk, phase, used, ckpt>>
    PROVE  DptOk'
  <1>0. PICK j : j = tx[t].lsn
    OBVIOUS
  <1> DEFINE Needed == phase = "up" /\ used.crashes < MaxCrashes
                          /\ (used.ckpts < MaxCheckpoints \/ ckpt.pc \in {"begun", "att"})
  <1>1. \A q \in Pages : PageRecs(q)' = PageRecs(q)
    BY DEF PageRecs, LSNs
  <1> SUFFICES ASSUME Needed, NEW q \in Pages, NEW i \in PageRecs(q), disk[q].lsn < i
               PROVE  dpt'[q] <= i /\ (i <= buf'[q].lsn => dpt'[q] # NoLSN)
    BY <1>1 DEF DptOk
  <1>2. dpt[q] <= i /\ (i <= buf[q].lsn => dpt[q] # NoLSN)
    BY DEF DptInv, DptOk
  <1>3. CASE q # p
    BY <1>2, <1>3, ApplyShape
  <1>4. CASE q = p
    <2>0. i \in PageRecs(p) /\ j \in PageRecs(p) /\ (i <= buf[p].lsn \/ i = j)
      BY <1>0, <1>4, ApplyingFacts, OthersApplied
    <2>1. /\ j \in PageRecs(p) /\ buf[p].lsn < j /\ j \in Nat /\ i \in Nat
          /\ disk[p].lsn \in Nat /\ buf[p].lsn \in Nat /\ dpt[p] \in LSN \cup {NoLSN}
          /\ i <= buf[p].lsn \/ i = j
      <3>1. buf[p].lsn < j
        BY <1>0 DEF PagesInv, ApplyOk
      <3> QED BY <2>0, <3>1, PageTypes
    <2>2. /\ buf'[p].lsn = j
          /\ dpt'[p] = IF buf[p].recLSN = NoLSN /\ dpt[p] = NoLSN THEN j ELSE dpt[p]
      BY <1>0, ApplyShape
    <2>3. disk[p].lsn <= buf[p].lsn /\ (buf[p].recLSN = NoLSN <=> disk[p].lsn = buf[p].lsn)
      BY DEF PagesInv, PageOk
    <2>4. CASE buf[p].recLSN = NoLSN
      BY <1>2, <1>4, <2>1, <2>2, <2>3, <2>4 DEF NoLSN
    <2>5. CASE buf[p].recLSN # NoLSN
      <3>1. disk[p].lsn < buf[p].lsn /\ buf[p].lsn # 0
        BY <2>1, <2>3, <2>5
      <3>2. buf[p].lsn \in PageRecs(p)
        BY <3>1 DEF PagesInv, PageOk, Shows
      <3>3. dpt[p] <= buf[p].lsn /\ dpt[p] # NoLSN
        BY <2>1, <3>1, <3>2 DEF DptInv, DptOk
      <3> QED BY <1>2, <1>4, <2>2, <2>5, <3>3
    <2> QED BY <2>4, <2>5
  <1> QED BY <1>3, <1>4

\* The records a handler appends are about later changes than the table knows of.
LEMMA AppendDpt ==
    ASSUME DurabilityInv, DptInv, NEW rec, LogAppend(rec),
           UNCHANGED <<disk, buf, dpt, phase, ckpt>>,
           used'.ckpts = used.ckpts, used'.crashes = used.crashes
    PROVE  DptOk'
  <1> DEFINE Needed == phase = "up" /\ used.crashes < MaxCrashes
                          /\ (used.ckpts < MaxCheckpoints \/ ckpt.pc \in {"begun", "att"})
  <1> SUFFICES ASSUME Needed, NEW p \in Pages, NEW i \in PageRecs(p)', disk[p].lsn < i
               PROVE  dpt[p] <= i /\ (i <= buf[p].lsn => dpt[p] # NoLSN)
    BY DEF DptOk
  <1>1. i \in PageRecs(p) \/ i = Len(log) + 1
    BY PageRecsAppend
  <1>2. CASE i \in PageRecs(p)
    BY <1>2 DEF DptInv, DptOk
  <1>3. CASE i = Len(log) + 1
    <2>1. dpt[p] <= Len(log) /\ dpt[p] \in Int
      BY PageTypes DEF DptInv, DptBounds, LSN, NoLSN
    <2> QED BY <1>3, <2>1, PageTypes
  <1> QED BY <1>1, <1>2, <1>3

\* The shared DPT names the dirty pages after every step.  Where a recovery hands
\* over its own table, it has scanned the log from the start.
LEMMA NextDpt ==
    ASSUME CheckpointAlone, OneRestart, DurabilityInv, ChainInv, PageInv, [Next]_vars
    PROVE  DptOk'
  <1>0. /\ PagesInv /\ LocksInv /\ DptInv /\ RecInv /\ CountsOk
        /\ used \in [starts : Nat, updates : Nat, ckpts : Nat, crashes : Nat]
        /\ MaxCheckpoints \in Nat /\ MaxCrashes \in Nat
    BY StateFacts, BoundsAssumption DEF PageInv, TypeOK
  <1>1. ASSUME \A p \in Pages : PageRecs(p)' = PageRecs(p), UNCHANGED <<disk, buf, dpt, phase>>,
               used'.crashes = used.crashes,
               (used'.ckpts < MaxCheckpoints \/ ckpt'.pc \in {"begun", "att"}) =>
                  (used.ckpts < MaxCheckpoints \/ ckpt.pc \in {"begun", "att"})
        PROVE  DptOk'
    BY <1>0, <1>1 DEF DptInv, DptOk
  <1>2. CASE Quiet
    <2>1. NoPageRec
      BY <1>2, NoPageRecFacts DEF Quiet, Appends
    <2> QED BY <1>1, <1>2, <2>1 DEF Quiet, NoPageRec
  <1>3. ASSUME NEW t \in Txns, NEW p \in Pages, UpdateLog(t, p) PROVE DptOk'
    <2>1. /\ UNCHANGED <<disk, buf, dpt, phase, ckpt>>
          /\ used'.ckpts = used.ckpts /\ used'.crashes = used.crashes
          /\ LogAppend(SetRec(t, att[t].lastLSN, p, buf[p].val, NextLSN))
      BY <1>0, <1>3 DEF UpdateLog, pageVars, tblVars, recVars
    <2> QED BY <1>0, <2>1, AppendDpt
  <1>4. ASSUME NEW t \in Txns, UndoSet(t) PROVE DptOk'
    <2>1. /\ UNCHANGED <<disk, buf, dpt, phase, ckpt, used>>
          /\ \E rec : LogAppend(rec)
      BY <1>4 DEF UndoSet, pageVars, tblVars, recVars
    <2> QED BY <1>0, <2>1, AppendDpt
  <1>5. ASSUME NEW t \in Txns, UpdatePage(t) PROVE DptOk'
    <2>1. /\ ApplyToPage(log[tx[t].lsn].page, log[tx[t].lsn].new, tx[t].lsn)
          /\ UNCHANGED <<log, disk, phase, used, ckpt>> /\ Applying(t)
      BY <1>5 DEF UpdatePage, Applying, ApplyPCs, logVars, recVars
    <2>2. log[tx[t].lsn].page \in Pages
      BY <2>1, ApplyingFacts
    <2> QED BY <1>0, <2>1, <2>2, ApplyDpt
  <1>6. ASSUME NEW t \in Txns, UndoPage(t) PROVE DptOk'
    <2>1. /\ ApplyToPage(log[tx[t].undo].page, log[tx[t].undo].old, tx[t].lsn)
          /\ UNCHANGED <<log, disk, phase, used, ckpt>> /\ Applying(t)
          /\ tx[t].pc \in {"clr", "clrFlushed"}
      BY <1>6 DEF UndoPage, Applying, ApplyPCs, logVars, recVars
    <2>2. log[tx[t].lsn].page \in Pages /\ log[tx[t].lsn].page = log[tx[t].undo].page
      BY <1>0, <2>1, ApplyingFacts DEF PagesInv, ApplyOk
    <2> QED BY <1>0, <2>1, <2>2, ApplyDpt
  <1>7. ASSUME NEW p \in Pages, FlushPage(p) PROVE DptOk'
    <2>1. /\ \A q \in Pages : PageRecs(q)' = PageRecs(q)
          /\ UNCHANGED <<phase, used, ckpt>>
      BY <1>0, <1>7, FlushShape DEF PageRecs, LSNs
    <2> SUFFICES ASSUME phase = "up" /\ used.crashes < MaxCrashes
                           /\ (used.ckpts < MaxCheckpoints \/ ckpt.pc \in {"begun", "att"}),
                        NEW q \in Pages, NEW i \in PageRecs(q), disk'[q].lsn < i
                 PROVE  dpt'[q] <= i /\ (i <= buf'[q].lsn => dpt'[q] # NoLSN)
      BY <2>1 DEF DptOk
    <2>2. CASE q = p
      <3>1. disk'[p].lsn = buf[p].lsn /\ buf'[p].lsn = buf[p].lsn /\ dpt'[p] = NoLSN
        BY <1>0, <1>7, FlushShape
      <3>2. i \in Nat /\ buf[p].lsn \in Nat /\ NoLSN <= i
        BY PageTypes DEF NoLSN
      <3> QED BY <2>2, <3>1, <3>2
    <2>3. CASE q # p
      <3>1. disk'[q] = disk[q] /\ buf'[q] = buf[q] /\ dpt'[q] = dpt[q]
        BY <1>0, <1>7, <2>3, FlushShape
      <3> QED BY <1>0, <3>1 DEF DptInv, DptOk
    <2> QED BY <2>2, <2>3
  <1>8. CASE Checkpoint
    <2>1. UNCHANGED <<disk, buf, dpt, phase>> /\ used'.crashes = used.crashes
      BY <1>0, <1>8
      DEF Checkpoint, CkptBegin, CkptATT, CkptDPT, CkptEnd, CkptFlush, CkptMaster, pageVars,
          tblVars, recVars
    <2>2. log' = log \/ \E rec : LogAppend(rec) /\ rec.op \notin {"SET", "CLR"}
      BY <1>8
      DEF Checkpoint, CkptBegin, CkptATT, CkptDPT, CkptEnd, CkptFlush, CkptMaster, logVars,
          CkptBeginRec, CkptEndRec
    <2>3. \A p \in Pages : PageRecs(p)' = PageRecs(p)
      BY <2>2, NoPageRecFacts DEF NoPageRec
    <2>4. ckpt \in [pc : {"idle", "begun", "att", "dpt", "end", "flushed"},
                    begin : LSN \cup {NoLSN}, att : ATTs, dpt : DPTs]
      BY StateFacts DEF TypeOK
    <2>5. ASSUME used'.ckpts < MaxCheckpoints \/ ckpt'.pc \in {"begun", "att"}
          PROVE  used.ckpts < MaxCheckpoints \/ ckpt.pc \in {"begun", "att"}
      <3>1. CASE CkptBegin
        BY <3>1 DEF CkptBegin
      <3>2. CASE CkptATT
        BY <3>2 DEF CkptATT
      <3>3. CASE CkptDPT
        BY <2>4, <2>5, <3>3 DEF CkptDPT
      <3>4. CASE CkptEnd \/ CkptFlush
        BY <2>4, <2>5, <3>4 DEF CkptEnd, CkptFlush, CkptGoto
      <3>5. CASE CkptMaster
        BY <2>5, <3>5 DEF CkptMaster, CkptIdle
      <3> QED BY <1>8, <3>1, <3>2, <3>3, <3>4, <3>5 DEF Checkpoint
    <2> QED BY <1>1, <2>1, <2>3, <2>5
  <1>9. CASE RecoverScan \/ WinnersDone \/ Crash
    <2>1. phase' # "up"
      BY <1>9 DEF RecoverScan, Analyze, AnalysisDone, Redo, RedoDone, WinnersDone, Crash
    <2> QED BY <2>1 DEF DptOk
  <1>10. CASE RecoverDone
    <2>1. /\ phase = "undo" /\ dpt' = recDpt /\ UNCHANGED <<log, disk, buf, ckpt, used>>
      BY <1>10 DEF RecoverDone, pageVars
    <2>2. ckpt.pc = "idle" /\ \A p \in Pages : PageRecs(p)' = PageRecs(p)
      BY <2>1 DEF ChainInv, CkptAt, PageRecs, LSNs
    <2>3. ASSUME used.crashes < MaxCrashes, used.ckpts < MaxCheckpoints
          PROVE  RecCovers(Len(log))
      <3>1. used.crashes > 0
        BY <1>0, <2>1 DEF CountsOk
      <3>2. used.ckpts = 0
        BY <1>0, <2>3, <3>1 DEF OneRestart
      <3> QED BY <1>0, <2>1, <3>2 DEF CountsOk, RecInv, AfterRedoOk
    <2>4. ASSUME RecCovers(Len(log)), NEW p \in Pages, NEW i \in PageRecs(p), disk[p].lsn < i
          PROVE  recDpt[p] # NoLSN /\ recDpt[p] <= i
      BY <2>4, PageTypes DEF RecCovers
    <2> QED BY <2>1, <2>2, <2>3, <2>4 DEF DptOk
  <1> QED BY <1>2, <1>3, <1>4, <1>5, <1>6, <1>7, <1>8, <1>9, <1>10, StepKinds

\* No record and no table of a step names a page at an LSN the log does not have.
LEMMA BoundsKept ==
    ASSUME DurabilityInv, DptBounds,
           log' = log \/ \E rec : LogAppend(rec) /\ rec.op # "CKPT_END",
           \A p \in Pages : /\ dpt'[p] <= Len(log) /\ ckpt'.dpt[p] <= Len(log)
                            /\ recDpt'[p] <= Len(log)
                            /\ phase' = "analysis" => recDpt'[p] < recPos',
           dpt' \in DPTs, recDpt' \in DPTs, ckpt'.dpt \in DPTs
    PROVE  DptBounds'
  <1>0. PICK n \in Nat : n = Len(log)
    BY PageTypes
  <1>1. Len(log') \in Nat /\ n <= Len(log')
    BY <1>0, AppendPrefix
  <1>2. ASSUME NEW p \in Pages
        PROVE  /\ dpt'[p] <= Len(log') /\ ckpt'.dpt[p] <= Len(log') /\ recDpt'[p] <= Len(log')
    <2>1. dpt'[p] \in Int /\ ckpt'.dpt[p] \in Int /\ recDpt'[p] \in Int
      BY DEF DPTs, LSN, NoLSN
    <2> QED BY <1>0, <1>1, <2>1
  <1>3. ASSUME NEW i \in LSNs', log'[i].op = "CKPT_END" PROVE \A p \in Pages : log'[i].dpt[p] <= i
    <2>1. i \in LSNs /\ log'[i] = log[i]
      <3>1. CASE log' = log
        BY <3>1 DEF LSNs
      <3>2. ASSUME NEW rec, LogAppend(rec), rec.op # "CKPT_END"
            PROVE i \in LSNs /\ log'[i] = log[i]
        <4>1. log'[n + 1] = rec /\ Len(log') = n + 1 /\ \A k \in 1 .. n : log'[k] = log[k]
          BY <1>0, <3>2, AppendPrefix DEF CommonPrefix
        <4> QED BY <1>0, <1>3, <3>2, <4>1 DEF LSNs
      <3> QED BY <3>1, <3>2
    <2> QED BY <1>3, <2>1 DEF DptBounds
  <1> QED BY <1>2, <1>3 DEF DptBounds

\* The shared DPT, when the record j about page p is applied.
LEMMA ApplyBounds ==
    ASSUME DurabilityInv, DptBounds, NEW p \in Pages, NEW val, NEW j \in 1 .. Len(log),
           ApplyToPage(p, val, j)
    PROVE  \A q \in Pages : dpt'[q] <= Len(log)
  <1>1. \A q \in Pages : dpt[q] <= Len(log)
    BY DEF DptBounds
  <1> QED BY <1>1, ApplyShape, PageTypes

\* No table names a record that is not there, across crashes that cut the log.
LEMMA NextDptBounds ==
    ASSUME DurabilityInv, DurabilityInv', WorkInTurn, DptBounds, [Next]_vars
    PROVE  DptBounds'
  <1>0. /\ Len(log) \in Nat
        /\ dpt \in DPTs /\ recDpt \in DPTs /\ ckpt.dpt \in DPTs
        /\ dpt' \in DPTs /\ recDpt' \in DPTs /\ ckpt'.dpt \in DPTs
    <2>1. TypeOK /\ TypeOK'
      BY DEF DurabilityInv
    <2> QED BY <2>1, PageTypes DEF TypeOK
  <1> DEFINE Logged == log' = log \/ \E rec : LogAppend(rec) /\ rec.op # "CKPT_END"
             Tables == \A p \in Pages : /\ dpt'[p] <= Len(log) /\ ckpt'.dpt[p] <= Len(log)
                                        /\ recDpt'[p] <= Len(log)
                                        /\ phase' = "analysis" => recDpt'[p] < recPos'
  <1>1. Logged /\ Tables => DptBounds'
    BY <1>0, BoundsKept
  <1>2. UNCHANGED <<dpt, recDpt, phase, recPos>> /\ ckpt'.dpt = ckpt.dpt => Tables
    BY <1>0 DEF DptBounds
  <1>3. CASE Quiet
    <2>1. Logged
      BY <1>3 DEF Quiet, Appends
    <2> QED BY <1>1, <1>2, <1>3, <2>1 DEF Quiet
  <1>4. ASSUME NEW t \in Txns, NEW p \in Pages, UpdateLog(t, p) PROVE DptBounds'
    <2>1. UNCHANGED <<dpt, recDpt, phase, recPos, ckpt>>
      BY <1>4 DEF UpdateLog, tblVars, recVars
    <2>2. Logged
      BY <1>4 DEF UpdateLog, SetRec
    <2> QED BY <1>1, <1>2, <2>1, <2>2
  <1>5. ASSUME NEW t \in Txns, UndoSet(t) PROVE DptBounds'
    <2>1. UNCHANGED <<dpt, recDpt, phase, recPos, ckpt>>
      BY <1>5 DEF UndoSet, tblVars, recVars
    <2>2. Logged
      BY <1>5 DEF UndoSet, CLRRec
    <2> QED BY <1>1, <1>2, <2>1, <2>2
  <1>6. ASSUME NEW t \in Txns, UpdatePage(t) \/ UndoPage(t) PROVE DptBounds'
    <2>1. /\ tx[t].pc \in {"linked", "clrFlushed"} /\ UNCHANGED <<log, recDpt, phase, recPos, ckpt>>
          /\ HasItsRecord(t)
      BY <1>6 DEF UpdatePage, UndoPage, logVars, recVars, DurabilityInv, HandlerRecords
    <2>2. tx[t].lsn \in 1 .. Len(log)
      BY <2>1 DEF HasItsRecord, LSNs
    <2>3. \E p \in Pages : \E val : ApplyToPage(p, val, tx[t].lsn)
      <3>1. CASE UpdatePage(t)
        <4>1. log[tx[t].lsn].op = "SET"
          BY <2>1, <3>1 DEF UpdatePage, HasItsRecord
        <4>2. log[tx[t].lsn].page \in Pages
          BY <2>2, <4>1, StateFacts, RecordFields
        <4> QED BY <3>1, <4>2 DEF UpdatePage
      <3>2. CASE UndoPage(t)
        <4>1. tx[t].undo \in LSNs /\ log[tx[t].undo].op = "SET"
          BY <2>1, <3>2 DEF UndoPage, HasItsRecord
        <4>2. log[tx[t].undo].page \in Pages
          BY <4>1, StateFacts, RecordFields DEF LSNs
        <4> QED BY <3>2, <4>2 DEF UndoPage
      <3> QED BY <1>6, <3>1, <3>2
    <2>4. \A q \in Pages : dpt'[q] <= Len(log)
      BY <2>2, <2>3, ApplyBounds
    <2> QED BY <1>0, <1>1, <2>1, <2>4 DEF DptBounds
  <1>7. ASSUME NEW p \in Pages, FlushPage(p) PROVE DptBounds'
    <2>1. UNCHANGED <<log, ckpt, phase, recPos, recDpt>>
          /\ dpt' = [dpt EXCEPT ![p] = NoLSN]
      BY <1>7 DEF FlushPage, recVars
    <2>2. PICK n \in Nat : n = Len(log)
      BY <1>0
    <2>3. ASSUME NEW q \in Pages PROVE dpt'[q] <= Len(log)
      <3>1. dpt[q] <= n
        BY <2>2 DEF DptBounds
      <3>2. dpt'[q] = dpt[q] \/ dpt'[q] = NoLSN
        BY <1>0, <2>1 DEF DPTs
      <3> QED BY <2>2, <3>1, <3>2 DEF NoLSN
    <2> QED BY <1>0, <1>1, <2>1, <2>3 DEF DptBounds
  <1>8. CASE CkptBegin \/ CkptATT \/ CkptFlush
    <2>1. UNCHANGED <<dpt, recDpt, phase, recPos>>
      BY <1>8 DEF CkptBegin, CkptATT, CkptFlush, tblVars, recVars
    <2>2. ckpt \in [pc : {"idle", "begun", "att", "dpt", "end", "flushed"},
                    begin : LSN \cup {NoLSN}, att : ATTs, dpt : DPTs]
      BY StateFacts DEF TypeOK
    <2>3. ckpt'.dpt = ckpt.dpt
      <3>1. CASE CkptBegin
        BY <2>2, <3>1 DEF CkptBegin
      <3>2. CASE CkptATT
        BY <2>2, <3>2 DEF CkptATT
      <3>3. CASE CkptFlush
        BY <2>2, <3>3 DEF CkptFlush, CkptGoto
      <3> QED BY <1>8, <3>1, <3>2, <3>3
    <2>4. Logged
      BY <1>8 DEF CkptBegin, CkptATT, CkptFlush, CkptBeginRec, logVars
    <2> QED BY <1>1, <1>2, <2>1, <2>3, <2>4
  <1>9. CASE CkptDPT
    <2>1. /\ UNCHANGED <<log, dpt, recDpt, phase, recPos>>
          /\ ckpt' = [ckpt EXCEPT !.pc = "dpt", !.dpt = dpt]
      BY <1>9 DEF CkptDPT, logVars, tblVars, recVars
    <2>2. ckpt'.dpt = dpt
      BY <2>1, StateFacts DEF TypeOK
    <2> QED BY <1>0, <1>1, <2>1, <2>2 DEF DptBounds
  <1>10. CASE CkptMaster
    <2>1. UNCHANGED <<log, dpt, recDpt, phase, recPos>> /\ ckpt'.dpt = EmptyDPT
      BY <1>10 DEF CkptMaster, CkptIdle, tblVars, recVars
    <2>2. \A q \in Pages : ckpt'.dpt[q] <= Len(log)
      BY <1>0, <2>1 DEF EmptyDPT, NoLSN
    <2> QED BY <1>0, <1>1, <2>1, <2>2 DEF DptBounds
  <1>11. CASE CkptEnd
    <2>1. PICK n \in Nat : n = Len(log)
      BY <1>0
    <2>2. /\ UNCHANGED <<dpt, recDpt, phase, recPos>> /\ ckpt' = [ckpt EXCEPT !.pc = "end"]
          /\ LogAppend(CkptEndRec(ckpt.att, ckpt.dpt)) /\ phase = "up"
      BY <1>11 DEF CkptEnd, CkptGoto, tblVars, recVars, WorkInTurn
    <2>3. ckpt'.dpt = ckpt.dpt
      BY <2>2, StateFacts DEF TypeOK
    <2>4. /\ Len(log') = n + 1 /\ \A k \in 1 .. n : log'[k] = log[k]
          /\ log'[n + 1].dpt = ckpt.dpt
      <3>1. log'[n + 1] = CkptEndRec(ckpt.att, ckpt.dpt) /\ Len(log') = n + 1
            /\ \A k \in 1 .. n : log'[k] = log[k]
        BY <2>1, <2>2, AppendPrefix DEF CommonPrefix
      <3> QED BY <3>1 DEF CkptEndRec
    <2>5. ASSUME NEW p \in Pages
          PROVE  dpt[p] <= n + 1 /\ ckpt.dpt[p] <= n + 1 /\ recDpt[p] <= n + 1
      BY <1>0, <2>1, PageTypes DEF DptBounds, LSN, NoLSN
    <2>6. ASSUME NEW i \in LSNs', log'[i].op = "CKPT_END" PROVE \A p \in Pages : log'[i].dpt[p] <= i
      <3>1. CASE i = n + 1
        BY <2>4, <2>5, <3>1
      <3>2. CASE i # n + 1
        <4>1. i \in LSNs /\ log'[i] = log[i]
          BY <2>1, <2>4, <3>2 DEF LSNs
        <4> QED BY <1>0, <2>6, <4>1 DEF DptBounds
      <3> QED BY <3>1, <3>2
    <2> QED BY <2>2, <2>3, <2>4, <2>5, <2>6 DEF DptBounds
  <1>12. CASE Analyze
    <2>1. PICK k : k = recPos
      OBVIOUS
    <2>2. /\ k \in 1 .. Len(log) /\ k \in Nat /\ recDpt' = AnalyzeDPT(log[k], k) /\ recPos' = k + 1
          /\ UNCHANGED <<log, dpt, ckpt>> /\ \A p \in Pages : recDpt[p] < k
      BY <1>0, <1>12, <2>1 DEF Analyze, logVars, tblVars, DptBounds
    <2>3. ASSUME NEW p \in Pages PROVE recDpt'[p] <= k
      <3>1. recDpt[p] \in LSN \cup {NoLSN} /\ recDpt \in [Pages -> LSN \cup {NoLSN}]
        BY <1>0 DEF DPTs
      <3>2. CASE log[k].op = "CKPT_END"
        BY <1>0, <2>2, <3>1, <3>2 DEF AnalyzeDPT, DptBounds, LSNs, LSN, NoLSN
      <3>3. CASE log[k].op \in {"SET", "CLR"}
        BY <2>2, <3>1, <3>3 DEF AnalyzeDPT, MarkDirty, LSN, NoLSN
      <3>4. CASE log[k].op \notin {"SET", "CLR", "CKPT_END"}
        BY <2>2, <3>1, <3>4 DEF AnalyzeDPT, LSN, NoLSN
      <3> QED BY <3>2, <3>3, <3>4
    <2>4. \A p \in Pages : recDpt'[p] \in Int
      BY <1>0 DEF DPTs, LSN, NoLSN
    <2> QED BY <1>0, <1>1, <2>2, <2>3, <2>4 DEF DptBounds
  <1>13. CASE Redo
    <2>1. PICK k : k = recPos
      OBVIOUS
    <2>2. /\ UNCHANGED <<log, recDpt, ckpt>> /\ phase' # "analysis" /\ k \in 1 .. Len(log)
      BY <1>13, <2>1 DEF Redo, logVars
    <2>3. \A q \in Pages : dpt'[q] <= Len(log)
      <3>1. CASE NeedsRedo(log[k], k)
        <4>1. log[k].page \in Pages
          BY <2>2, <3>1, StateFacts, RecordFields DEF NeedsRedo
        <4>2. ApplyToPage(log[k].page, log[k].new, k)
          BY <1>13, <2>1, <3>1 DEF Redo
        <4> QED BY <2>2, <4>1, <4>2, ApplyBounds
      <3>2. CASE ~NeedsRedo(log[k], k)
        BY <1>0, <1>13, <2>1, <3>2 DEF Redo, DptBounds
      <3> QED BY <3>1, <3>2
    <2> QED BY <1>0, <1>1, <2>2, <2>3 DEF DptBounds
  <1>14. CASE AnalysisDone \/ RedoDone \/ WinnersDone
    <2>1. UNCHANGED <<log, dpt, recDpt, ckpt>> /\ phase' # "analysis"
      BY <1>14 DEF AnalysisDone, RedoDone, WinnersDone, logVars, tblVars
    <2> QED BY <1>0, <1>1, <2>1 DEF DptBounds
  <1>15. CASE RecoverDone
    <2>1. /\ UNCHANGED <<log, ckpt>> /\ phase' = "up" /\ dpt' = recDpt /\ recDpt' = EmptyDPT
      BY <1>15 DEF RecoverDone
    <2>2. \A q \in Pages : recDpt'[q] <= Len(log)
      BY <1>0, <2>1 DEF EmptyDPT, NoLSN
    <2> QED BY <1>0, <1>1, <2>1, <2>2 DEF DptBounds
  <1>16. CASE Crash
    <2>1. PICK last \in flushed .. Len(log) :
              Len(log') = last /\ last \in Nat /\ \A i \in 1 .. last : log'[i] = log[i]
      BY <1>16, CrashShape
    <2>2. /\ dpt' = EmptyDPT /\ recDpt' = EmptyDPT /\ ckpt'.dpt = EmptyDPT /\ recPos' = master
          /\ master \in LSN
      BY <1>16, StateFacts DEF Crash, CkptIdle, TypeOK
    <2>3. \A q \in Pages : EmptyDPT[q] = -1
      BY DEF EmptyDPT, NoLSN
    <2>4. \A q \in Pages : EmptyDPT[q] <= Len(log') /\ EmptyDPT[q] < master
      BY <2>1, <2>2, <2>3 DEF LSN
    <2>5. ASSUME NEW i \in LSNs', log'[i].op = "CKPT_END" PROVE \A p \in Pages : log'[i].dpt[p] <= i
      <3>1. i \in LSNs /\ log'[i] = log[i]
        BY <1>0, <2>1 DEF LSNs
      <3> QED BY <1>0, <2>5, <3>1 DEF DptBounds
    <2> QED BY <2>2, <2>4, <2>5 DEF DptBounds
  <1> QED BY <1>3, <1>4, <1>5, <1>6, <1>7, <1>8, <1>9, <1>10, <1>11, <1>12, <1>13, <1>14,
             <1>15, <1>16,
             StepKinds
          DEF Checkpoint, RecoverScan

-----------------------------------------------------------------------------
(* The dirty page table of the recovery. *)

\* A table that covers a prefix of the log goes on doing so while it does not change.
LEMMA RecCoversKept ==
    ASSUME DurabilityInv, DurabilityInv', NEW n \in Int, RecCovers(n),
           \A p \in Pages : PageRecs(p)' = PageRecs(p),
           \A p \in Pages : disk[p].lsn <= disk'[p].lsn,
           UNCHANGED <<master, recDpt>>
    PROVE  RecCovers(n)'
  <1> SUFFICES ASSUME NEW p \in Pages, NEW i \in PageRecs(p), i <= n,
                      master = 1 \/ disk'[p].lsn < i
               PROVE  recDpt[p] # NoLSN /\ recDpt[p] <= i
    BY DEF RecCovers
  <1>1. i \in Int /\ disk[p].lsn \in Nat /\ disk'[p].lsn \in Nat
    <2>1. TypeOK'
      BY DEF DurabilityInv
    <2> QED BY <2>1, PageTypes DEF TypeOK
  <1>2. disk[p].lsn <= disk'[p].lsn
    OBVIOUS
  <1> QED BY <1>1, <1>2 DEF RecCovers

\* All records of the log are among its first Len(log).
LEMMA RecCoversAll ==
    ASSUME DurabilityInv, NEW n, n = Len(log),
           \A p \in Pages : PageRecs(p)' = PageRecs(p), RecCovers(n)'
    PROVE  RecCovers(Len(log))'
  <1>1. \A p \in Pages : \A i \in PageRecs(p) : i <= n
    BY PageTypes
  <1> QED BY <1>1 DEF RecCovers

\* The analysis enters the page of each record it reads, and the pages of the
\* CKPT_END record behind the one the log header names (recovery.go:430-480).
LEMMA AnalyzeDpt ==
    ASSUME DurabilityInv, ChainInv, DptInv, RecInv, Analyze
    PROVE  AnalysisDptOk'
  <1>1. PICK r : r = recPos
    OBVIOUS
  <1>2. /\ r \in 1 .. Len(log) /\ r \in Nat /\ recDpt' = AnalyzeDPT(log[r], r) /\ recPos' = r + 1
        /\ UNCHANGED <<log, disk, master>> /\ phase = "analysis" /\ \A p \in Pages : recDpt[p] < r
        /\ \A p \in Pages : PageRecs(p)' = PageRecs(p)
    BY <1>1, PageTypes DEF Analyze, logVars, pageVars, DptInv, DptBounds, PageRecs, LSNs
  <1>3. recDpt \in [Pages -> LSN \cup {NoLSN}]
    BY StateFacts DEF TypeOK, DPTs
  <1>4. ASSUME RecCovers(r - 1) PROVE RecCovers(r)'
    <2> SUFFICES ASSUME NEW p \in Pages, NEW i \in PageRecs(p), i <= r,
                        master = 1 \/ disk[p].lsn < i
                 PROVE  recDpt'[p] # NoLSN /\ recDpt'[p] <= i
      BY <1>2 DEF RecCovers
    <2>1. i \in Nat /\ log[i].op \in {"SET", "CLR"} /\ log[i].page = p
      BY PageTypes
    <2>2. CASE recDpt[p] # NoLSN
      <3>1. recDpt'[p] = recDpt[p]
        BY <1>2, <1>3, <2>2 DEF AnalyzeDPT, MarkDirty
      <3>2. CASE i = r
        BY <1>2, <1>3, <2>1, <2>2, <3>1, <3>2 DEF LSN, NoLSN
      <3>3. CASE i # r
        <4>1. i <= r - 1
          BY <1>2, <2>1, <3>3
        <4> QED BY <1>4, <3>1, <4>1 DEF RecCovers
      <3> QED BY <3>2, <3>3
    <2>3. CASE recDpt[p] = NoLSN
      <3>1. ~(i <= r - 1)
        BY <1>4, <2>3 DEF RecCovers
      <3>2. i = r
        BY <1>2, <2>1, <3>1
      <3>3. recDpt'[p] = r
        BY <1>2, <1>3, <2>1, <2>3, <3>2 DEF AnalyzeDPT, MarkDirty
      <3> QED BY <1>2, <3>2, <3>3 DEF NoLSN
    <2> QED BY <2>2, <2>3
  <1>5. ASSUME recDpt = EmptyDPT, master # 1, r \in {master, master + 1}
        PROVE  RecCovers(r)' \/ (recDpt' = EmptyDPT /\ r + 1 = master + 1)
    <2>1. /\ log[master].op = "CKPT_BEGIN" /\ log[master + 1].op = "CKPT_END" /\ master \in Nat
          /\ Covers(log[master + 1].dpt, master)
      BY <1>2, <1>5 DEF ChainInv, HeaderAt, CkptPair, LSNs, DptInv, HeaderDptOk
    <2>2. CASE r = master
      BY <1>2, <1>5, <2>1, <2>2 DEF AnalyzeDPT
    <2>3. CASE r = master + 1
      <3>1. \A p \in Pages : recDpt'[p] = log[r].dpt[p]
        BY <1>2, <1>5, <2>1, <2>3 DEF AnalyzeDPT, EmptyDPT
      <3> SUFFICES ASSUME NEW p \in Pages, NEW i \in PageRecs(p), i <= r, disk[p].lsn < i
                   PROVE  recDpt'[p] # NoLSN /\ recDpt'[p] <= i
        BY <1>2, <1>5 DEF RecCovers
      <3>2. i # r /\ i \in Nat
        BY <2>1, <2>3, PageTypes
      <3>3. i <= master
        BY <2>1, <2>3, <3>2
      <3> QED BY <2>1, <2>3, <3>1, <3>3 DEF Covers
    <2> QED BY <1>5, <2>2, <2>3
  <1>6. CASE RecCovers(r - 1)
    <2>1. recPos' - 1 = r
      BY <1>2
    <2> QED BY <1>4, <1>6, <2>1 DEF AnalysisDptOk
  <1>7. CASE recDpt = EmptyDPT /\ master # 1 /\ r \in {master, master + 1}
    <2>1. recPos' - 1 = r
      BY <1>2
    <2> QED BY <1>2, <1>5, <1>7, <2>1 DEF AnalysisDptOk
  <1> QED BY <1>1, <1>2, <1>6, <1>7 DEF RecInv, AnalysisDptOk

\* The redo phase starts at the smallest recLSN: nothing before it is missing on a page.
LEMMA AnalysisDoneRec ==
    ASSUME DurabilityInv, DurabilityInv', ChainInv, PagesInv, RecInv, AnalysisDone
    PROVE  RecInv'
  <1>1. PICK n \in Nat : n = Len(log)
    BY PageTypes
  <1>2. /\ UNCHANGED <<log, disk, buf, recDpt, master>> /\ phase = "analysis"
        /\ phase' \in {"redo", "winners"} /\ \A p \in Pages : PageRecs(p)' = PageRecs(p)
    BY DEF AnalysisDone, logVars, pageVars, PageRecs, LSNs
  <1>3. RecCovers(n)
    BY <1>1, AnalysisEnd
  <1>4. RecCovers(Len(log))'
    BY <1>1, <1>2, <1>3 DEF RecCovers
  <1>5. ASSUME phase' = "redo", NEW p \in Pages
        PROVE  /\ \A i \in PageRecs(p) : buf[p].lsn < i => recPos' <= i
               /\ buf[p].lsn = disk[p].lsn
    <2>1. buf[p].lsn = disk[p].lsn
      BY <1>2 DEF PagesInv, PageOk
    <2>2. recPos' \in Nat /\ MinRecLSN(recPos')
      BY <1>1, <1>2, <1>5 DEF AnalysisDone
    <2>3. ASSUME NEW i \in PageRecs(p), buf[p].lsn < i PROVE recPos' <= i
      <3>1. i \in Nat /\ i <= n /\ recDpt[p] \in Int
        BY <1>1, PageTypes DEF LSN, NoLSN
      <3>2. recDpt[p] # NoLSN /\ recDpt[p] <= i
        BY <1>3, <2>1, <2>3, <3>1 DEF RecCovers
      <3>3. recPos' <= recDpt[p]
        BY <2>2, <3>2 DEF MinRecLSN
      <3> QED BY <2>2, <3>1, <3>2, <3>3
    <2> QED BY <2>1, <2>3
  <1> QED BY <1>2, <1>4, <1>5 DEF RecInv, AnalysisDptOk, RedoOk, AfterRedoOk

\* What the redo phase leaves out is on the page already: the page is clean and not
\* in the table, or on disk with the record or a later one (recovery.go:357-420).
LEMMA RedoRec ==
    ASSUME DurabilityInv, DurabilityInv', ChainInv, PagesInv, RecInv, Redo
    PROVE  RecInv'
  <1>1. PICK r, n : r = recPos /\ n = Len(log)
    OBVIOUS
  <1>2. /\ UNCHANGED <<log, disk, recDpt, master>> /\ phase = "redo" /\ phase' = "redo"
        /\ r \in 1 .. n /\ n \in Nat /\ r \in Nat /\ recPos' = r + 1
        /\ \A p \in Pages : PageRecs(p)' = PageRecs(p)
    BY <1>1, PageTypes DEF Redo, logVars, PageRecs, LSNs
  <1>3. RecCovers(n) /\ \A p \in Pages : /\ \A i \in PageRecs(p) : buf[p].lsn < i => r <= i
                                         /\ buf[p].lsn < r \/ buf[p].lsn = disk[p].lsn
    BY <1>1, <1>2 DEF RecInv, RedoOk
  <1>4. RecCovers(Len(log))'
    BY <1>1, <1>2, <1>3 DEF RecCovers
  <1>5. ASSUME NEW p \in Pages
        PROVE  /\ \A i \in PageRecs(p) : buf'[p].lsn < i => r + 1 <= i
               /\ buf'[p].lsn < r + 1 \/ buf'[p].lsn = disk[p].lsn
    <2>1. /\ buf[p].lsn \in Nat /\ disk[p].lsn \in Nat /\ disk[p].lsn <= buf[p].lsn
          /\ \A i \in PageRecs(p) : /\ i \in Nat /\ log[i].op \in {"SET", "CLR"}
                                    /\ log[i].page = p
      BY PageTypes DEF PagesInv, PageOk
    <2>2. CASE NeedsRedo(log[r], r) /\ log[r].page = p
      <3>1. buf'[p].lsn = r
        BY <1>1, <2>2, ApplyShape DEF Redo
      <3> QED BY <1>2, <2>1, <3>1
    <2>3. CASE NeedsRedo(log[r], r) /\ log[r].page # p
      <3>1. log[r].page \in Pages
        BY <1>1, <1>2, <2>3, StateFacts, RecordFields DEF NeedsRedo
      <3>2. buf'[p] = buf[p]
        BY <1>1, <2>3, <3>1, ApplyShape DEF Redo
      <3>3. r \notin PageRecs(p)
        BY <2>1, <2>3
      <3> QED BY <1>2, <1>3, <2>1, <3>2, <3>3
    <2>4. CASE ~NeedsRedo(log[r], r)
      <3>1. buf' = buf
        BY <1>1, <2>4 DEF Redo
      <3>2. ASSUME r \in PageRecs(p), buf[p].lsn < r PROVE FALSE
        <4>1. disk[p].lsn < r /\ r <= n
          BY <1>2, <2>1, <3>2
        <4>2. recDpt[p] # NoLSN /\ recDpt[p] <= r
          BY <1>3, <3>2, <4>1 DEF RecCovers
        <4>3. r >= recDpt[p] /\ r > disk[p].lsn
          BY <1>2, <2>1, <4>1, <4>2, PageTypes DEF LSN, NoLSN
        <4> QED BY <2>1, <2>4, <3>2, <4>2, <4>3 DEF NeedsRedo
      <3> QED BY <1>2, <1>3, <2>1, <3>1, <3>2
    <2> QED BY <2>2, <2>3, <2>4
  <1> QED BY <1>2, <1>4, <1>5 DEF RecInv, AnalysisDptOk, RedoOk, AfterRedoOk

\* A step that changes no log and no table, and ends no phase.
LEMMA SameRec ==
    ASSUME DurabilityInv, DurabilityInv', RecInv, NoPageRec,
           UNCHANGED <<recDpt, master, phase, recPos>>,
           \A p \in Pages : disk[p].lsn <= disk'[p].lsn,
           phase = "redo" =>
               \A p \in Pages : /\ buf'[p].lsn = buf[p].lsn
                                /\ disk'[p].lsn = disk[p].lsn \/ disk'[p].lsn = buf[p].lsn
    PROVE  RecInv'
  <1>1. PICK n \in Nat, k \in Int : n = Len(log) /\ k = recPos - 1
    BY StateFacts DEF TypeOK, LSN
  <1>2. \A p \in Pages : PageRecs(p)' = PageRecs(p)
    BY DEF NoPageRec
  <1>3. RecCovers(n) => RecCovers(Len(log))'
    <2>1. RecCovers(n) => RecCovers(n)'
      BY <1>2, RecCoversKept
    <2> QED BY <1>1, <1>2, <2>1, RecCoversAll
  <1>4. RecCovers(k) => RecCovers(k)'
    BY <1>2, RecCoversKept
  <1>5. AnalysisDptOk'
    BY <1>1, <1>4 DEF RecInv, AnalysisDptOk
  <1>6. RedoOk'
    BY <1>1, <1>2, <1>3 DEF RecInv, RedoOk
  <1>7. AfterRedoOk'
    BY <1>1, <1>3 DEF RecInv, AfterRedoOk
  <1> QED BY <1>5, <1>6, <1>7 DEF RecInv

\* doUndoPhase adds CLRs, all about pages that the table names when the analysis has
\* read the log from its start.
LEMMA UndoRec ==
    ASSUME DurabilityInv, DurabilityInv', ChainInv, RecInv, NEW t \in Txns, UndoSet(t)
    PROVE  RecInv'
  <1>1. PICK n, u : n = Len(log) /\ n \in Nat /\ u = tx[t].undo
    BY PageTypes
  <1> DEFINE rec == CLRRec(t, tx[t].lsn, log[u].page, log[u].old, log[u].prev)
  <1>2. /\ LogAppend(rec) /\ rec.op = "CLR" /\ rec.page = log[u].page
        /\ u \in 1 .. n /\ log[u].op = "SET"
        /\ UNCHANGED <<disk, buf, recDpt, master, phase, recPos>>
    BY <1>1, PageTypes DEF UndoSet, Readable, CLRRec, pageVars, recVars
  <1>3. phase \in {"up", "undo"}
    BY HandlerAt DEF UndoSet
  <1> HIDE DEF rec
  <1>4. \A p : PageRecs(p)' = PageRecs(p) \cup {i \in {n + 1} : rec.page = p}
    BY <1>1, <1>2, PageRecsAppend
  <1>5. ASSUME phase = "undo", master = 1, NEW p \in Pages, NEW i \in PageRecs(p)'
        PROVE  recDpt[p] # NoLSN /\ recDpt[p] <= i
    <2>1. RecCovers(n)
      BY <1>1, <1>5 DEF RecInv, AfterRedoOk
    <2>2. CASE i \in PageRecs(p)
      <3>1. i <= n
        BY <1>1, <2>2, PageTypes
      <3> QED BY <1>5, <2>1, <2>2, <3>1 DEF RecCovers
    <2>3. CASE i \notin PageRecs(p)
      <3>0. i = n + 1 /\ rec.page = p
        BY <1>4, <2>3
      <3>1. i = n + 1 /\ u \in PageRecs(p)
        BY <1>1, <1>2, <3>0 DEF PageRecs, LSNs
      <3>2. recDpt[p] # NoLSN /\ recDpt[p] <= u
        BY <1>2, <1>5, <2>1, <3>1 DEF RecCovers
      <3>3. recDpt[p] \in Int
        BY PageTypes DEF LSN, NoLSN
      <3> QED BY <1>1, <1>2, <3>1, <3>2, <3>3
    <2> QED BY <2>2, <2>3
  <1>6. AfterRedoOk'
    BY <1>2, <1>3, <1>5 DEF AfterRedoOk, RecCovers
  <1> QED BY <1>2, <1>3, <1>6 DEF RecInv, AnalysisDptOk, RedoOk

\* The tables of the recovery name what the redo phase has to look at, after every step.
LEMMA NextRec ==
    ASSUME DurabilityInv, DurabilityInv', ChainInv, PagesInv, DptInv, RecInv, [Next]_vars
    PROVE  RecInv'
  <1>0. \A p \in Pages : disk[p].lsn <= disk'[p].lsn
    BY DiskGrows
  <1>1. ASSUME phase' = "up" PROVE RecInv'
    BY <1>1 DEF RecInv, AnalysisDptOk, RedoOk, AfterRedoOk
  <1>2. CASE Quiet
    <2>1. NoPageRec
      BY <1>2, NoPageRecFacts DEF Quiet, Appends
    <2> QED BY <1>0, <1>2, <2>1, SameRec DEF Quiet
  <1>3. ASSUME NEW t \in Txns, NEW p \in Pages, UpdateLog(t, p) PROVE RecInv'
    BY <1>1, <1>3 DEF UpdateLog, MayStartHandler, recVars
  <1>4. ASSUME NEW t \in Txns, UpdatePage(t) \/ UndoPage(t) PROVE RecInv'
    <2>1. UNCHANGED <<log, recDpt, master, phase, recPos>> /\ phase # "redo"
      BY <1>4, HandlerAt DEF UpdatePage, UndoPage, logVars, recVars
    <2> QED BY <1>0, <2>1, NoPageRecFacts, SameRec
  <1>5. ASSUME NEW p \in Pages, FlushPage(p) PROVE RecInv'
    <2>1. /\ UNCHANGED <<log, recDpt, master, phase, recPos>>
          /\ \A q \in Pages : /\ buf'[q].lsn = buf[q].lsn
                              /\ disk'[q].lsn = disk[q].lsn \/ disk'[q].lsn = buf[q].lsn
      BY <1>5, FlushShape
    <2> QED BY <1>0, <2>1, NoPageRecFacts, SameRec
  <1>6. CASE Checkpoint
    <2>1. phase' = phase /\ phase = "up"
      BY <1>6
      DEF Checkpoint, CkptBegin, CkptATT, CkptDPT, CkptEnd, CkptFlush, CkptMaster, ChainInv,
          CkptAt, recVars
    <2> QED BY <1>1, <2>1
  <1>7. CASE RedoDone \/ WinnersDone
    <2>1. /\ UNCHANGED <<log, disk, recDpt, master>> /\ phase' \in {"winners", "undo"}
          /\ phase \in {"redo", "winners"}
      BY <1>7 DEF RedoDone, WinnersDone, logVars, pageVars
    <2>2. master = 1 => RecCovers(Len(log))
      BY <2>1 DEF RecInv, RedoOk, AfterRedoOk
    <2>3. \A p \in Pages : PageRecs(p)' = PageRecs(p)
      BY <2>1 DEF PageRecs, LSNs
    <2>4. master = 1 => RecCovers(Len(log))'
      BY <2>1, <2>2, <2>3 DEF RecCovers
    <2> QED BY <2>1, <2>4 DEF RecInv, AnalysisDptOk, RedoOk, AfterRedoOk
  <1>8. CASE RecoverDone
    BY <1>1, <1>8 DEF RecoverDone
  <1>9. CASE Crash
    <2>1. /\ phase' = "analysis" /\ recPos' = master /\ master' = master /\ recDpt' = EmptyDPT
      BY <1>9 DEF Crash
    <2>2. RecCovers(0)'
      <3>1. \A p \in Pages : \A i \in PageRecs(p)' : ~(i <= 0)
        BY DEF PageRecs, LSNs
      <3> QED BY <3>1 DEF RecCovers
    <2>3. AnalysisDptOk'
      <3>1. CASE master = 1
        <4>1. recPos' - 1 = 0
          BY <2>1, <3>1
        <4> QED BY <2>2, <4>1 DEF AnalysisDptOk
      <3>2. CASE master # 1
        BY <2>1, <3>2 DEF AnalysisDptOk
      <3> QED BY <3>1, <3>2
    <2> QED BY <2>1, <2>3 DEF RecInv, RedoOk, AfterRedoOk
  <1>10. CASE Analyze
    <2>1. phase' = "analysis"
      BY <1>10 DEF Analyze
    <2> QED BY <1>10, <2>1, AnalyzeDpt DEF RecInv, RedoOk, AfterRedoOk
  <1> QED BY <1>2, <1>3, <1>4, <1>5, <1>6, <1>7, <1>8, <1>9, <1>10, UndoRec, AnalysisDoneRec,
             RedoRec,
             StepKinds
          DEF RecoverScan

-----------------------------------------------------------------------------
(* The invariant, and what follows of it. *)

\* A new database has no records, and nothing to apply.
LEMMA InitPage == Init => PageInv
  <1> SUFFICES ASSUME Init PROVE PageInv
    OBVIOUS
  <1>1. /\ log = << >> /\ master = 1 /\ phase = "up" /\ used.ckpts = 0 /\ used.crashes = 0
        /\ disk = [p \in Pages |-> [val |-> 0, lsn |-> 0]]
        /\ buf = [p \in Pages |-> [val |-> 0, lsn |-> 0, recLSN |-> NoLSN]]
        /\ dpt = EmptyDPT /\ recDpt = EmptyDPT /\ ckpt = CkptIdle /\ tx = [t \in Txns |-> TxIdle]
    BY DEF Init
  <1>2. Len(log) = 0 /\ LSNs = {} /\ \A p : PageRecs(p) = {}
    BY <1>1 DEF LSNs, PageRecs
  <1>3. PagesInv
    <2>1. \A p \in Pages : PageOk(p) /\ AppliedOk(p)
      BY <1>1, <1>2 DEF PageOk, Shows, AppliedOk
    <2>2. \A t \in Txns : ApplyOk(t)
      BY <1>1 DEF ApplyOk, Applying, ApplyPCs, TxIdle
    <2> QED BY <2>1, <2>2 DEF PagesInv
  <1>4. LocksInv
    BY <1>1, <1>2 DEF LocksInv, OneUndo, LocksOk, LastOf
  <1>5. DptInv
    <2>1. DptOk
      BY <1>2 DEF DptOk
    <2>2. SnapshotOk /\ HeaderDptOk
      BY <1>1 DEF SnapshotOk, HeaderDptOk, CkptIdle
    <2>3. DptBounds
      BY <1>1, <1>2 DEF DptBounds, EmptyDPT, CkptIdle, NoLSN
    <2> QED BY <2>1, <2>2, <2>3 DEF DptInv
  <1>6. RecInv
    BY <1>1 DEF RecInv, AnalysisDptOk, RedoOk, AfterRedoOk
  <1>7. CountsOk
    BY <1>1, BoundsAssumption DEF CountsOk, CkptIdle
  <1> QED BY <1>3, <1>4, <1>5, <1>6, <1>7 DEF PageInv

\* Pages, locks and page tables agree with the log after every step.
LEMMA NextPage ==
    ASSUME CheckpointAlone, OneRestart, DurabilityInv, ChainInv, PageInv, [Next]_vars
    PROVE  PageInv'
  <1>1. DurabilityInv'
    BY NextDurability
  <1>2. PagesInv /\ LocksInv /\ DptInv /\ RecInv /\ CountsOk
    BY DEF PageInv
  <1>3. PagesInv'
    BY <1>2, NextPages
  <1>4. LocksInv'
    BY <1>2, NextLocks, TakesTurns, NextOneUndo DEF LocksInv
  <1>5. DptInv'
    BY <1>1, <1>2, NextDpt, NextSnapshot, NextHeaderDpt, TakesTurns, NextDptBounds DEF DptInv
  <1>6. RecInv'
    BY <1>1, <1>2, NextRec
  <1>7. CountsOk'
    BY <1>2, NextCounts
  <1> QED BY <1>3, <1>4, <1>5, <1>6, <1>7 DEF PageInv

\* Where no handler overlaps a checkpoint, and no checkpoint is taken after a
\* recovery that another crash may follow: every page shows a record of the log,
\* what it does not show yet is about to be applied by the transaction that holds
\* its lock or is on the way of the redo phase, and the dirty page tables name every
\* page a recovery has to look at (recovery.go:107-140, 149-180, 357-480).
THEOREM PagesFollowLog == ASSUME CheckpointAlone, OneRestart PROVE Spec => []PageInv
  <1>1. DurabilityInv /\ ChainInv /\ PageInv /\ [Next]_vars => PageInv'
    BY NextPage
  <1> QED BY <1>1, InitPage, Durability, ChainsKept, PTL DEF Spec

\* The last record about a page is the one whose LSN the page shows.
LEMMA LastRecShown ==
    ASSUME DurabilityInv, NEW p \in Pages, NEW val, NEW lsn \in Nat, Shows(val, lsn, p),
           \A i \in PageRecs(p) : i <= lsn
    PROVE  val = ValueOfLast(PageRecs(p))
  <1>1. \A i \in PageRecs(p) : i \in Nat /\ i # 0
    BY PageTypes
  <1>2. CASE lsn \in PageRecs(p) /\ val = log[lsn].new
    <2> DEFINE m == CHOOSE i \in PageRecs(p) : \A j \in PageRecs(p) : j <= i
    <2>1. m \in PageRecs(p) /\ \A j \in PageRecs(p) : j <= m
      BY <1>2
    <2>2. lsn <= m /\ m <= lsn
      BY <1>2, <2>1
    <2>3. m = lsn
      BY <1>1, <2>1, <2>2
    <2>4. PageRecs(p) # {}
      BY <1>2
    <2>5. ValueOfLast(PageRecs(p)) = log[m].new
      BY <2>4, Zenon DEF ValueOfLast
    <2> HIDE DEF m
    <2> QED BY <1>2, <2>3, <2>5
  <1>3. CASE lsn = 0 /\ val = 0
    <2>1. PageRecs(p) = {}
      BY <1>1, <1>3
    <2> QED BY <1>3, <2>1 DEF ValueOfLast
  <1> QED BY <1>2, <1>3 DEF Shows

\* After the redo phase every page is as the last record about it left it, although
\* redo starts at the smallest recLSN and skips what the tables say is on disk: no
\* record that a page misses is skipped (recovery.go:357-420).
THEOREM RedoIsComplete == ASSUME CheckpointAlone, OneRestart PROVE Spec => []RedoRepeatsHistory
  <1>1. ASSUME DurabilityInv, ChainInv, PageInv PROVE RedoRepeatsHistory
    <2> SUFFICES ASSUME phase = "winners", NEW p \in Pages
                 PROVE  buf[p].val = ValueOfLast(PageRecs(p))
      BY DEF RedoRepeatsHistory
    <2>1. buf[p].lsn \in Nat /\ Shows(buf[p].val, buf[p].lsn, p)
      BY <1>1, PageTypes DEF PageInv, PagesInv, PageOk
    <2>2. ASSUME NEW i \in PageRecs(p) PROVE i <= buf[p].lsn
      <3>1. ~(i > buf[p].lsn)
        BY <1>1, NoneApplying DEF PageInv, PagesInv, AppliedOk
      <3> QED BY <1>1, <2>1, <3>1, PageTypes
    <2> QED BY <1>1, <2>1, <2>2, LastRecShown
  <1> QED BY <1>1, Durability, ChainsKept, PagesFollowLog, PTL

-----------------------------------------------------------------------------
(***************************************************************************)
(* Committed values.                                                       *)
(***************************************************************************)
\* The transaction of record i has its END record among the first n.
EndedBy(i, n) == \E e \in i .. n : log[e].op = "END" /\ SameTx(i, e)
Settled(p) == \A i \in PageRecs(p) : EndedBy(i, Len(log))

\* v is what the last record of S says; ValueOfLast without a choice.
ValueIs(S, v) ==
    \/ S = {} /\ v = 0
    \/ \E m \in S : v = log[m].new /\ \A j \in S : j <= m

CommittedBy(p, n) ==
    {i \in 1 .. n : log[i].op = "SET" /\ log[i].page = p /\ \E k \in 1 .. n : CommitOf(i, k)}

\* What a transaction number has done before ends before the number starts again.
StartOk(j) == \A i \in 1 .. j - 1 : RecOf(i, log[j].txn) => EndedBy(i, j - 1)

\* The records of a page come from one transaction after the other.
SerialOk(j) ==
    \A i \in 1 .. j - 1 :
        log[i].op \in {"SET", "CLR"} /\ log[i].page = log[j].page =>
            SameTx(i, j) \/ EndedBy(i, j - 1)

\* The first update of a page by a transaction finds the last committed value.
FirstSet(j) ==
    \A i \in 1 .. j - 1 : log[i].op = "SET" /\ log[i].page = log[j].page => ~SameTx(i, j)
OldOk(j) == FirstSet(j) => ValueIs(CommittedBy(log[j].page, j - 1), log[j].old)

\* A CLR puts back what the update it compensates found.
ClrDataOk(j) ==
    \E s \in 1 .. j - 1 :
        /\ log[s].op = "SET" /\ SameTx(s, j) /\ log[s].prev = log[j].undoNext
        /\ log[s].page = log[j].page /\ log[s].old = log[j].new

DataOk(j) ==
    /\ log[j].op = "START" => StartOk(j)
    /\ log[j].op \in {"SET", "CLR"} => SerialOk(j)
    /\ log[j].op = "SET" => OldOk(j)
    /\ log[j].op = "CLR" => ClrDataOk(j)

DataInv == \A j \in LSNs : DataOk(j)

\* A transaction number with a record among the first n has a last one there.
LEMMA LastExists ==
    ASSUME NEW n \in Nat, NEW t, NEW i \in 1 .. n, RecOf(i, t)
    PROVE  \E l \in i .. n : LastOf(l, t, n)
  <1> DEFINE T == {d \in Nat : d < n /\ RecOf(n - d, t)}
  <1>1. n - i \in T /\ n - (n - i) = i
    <2>1. n - i \in Nat /\ n - i < n /\ n - (n - i) = i
      OBVIOUS
    <2> QED BY <2>1
  <1>2. T \subseteq Nat /\ T # {}
    BY <1>1
  <1>3. PICK d \in T : \A y \in T : ~(<<y, d>> \in OpToRel(<, Nat))
    <2> HIDE DEF T
    <2> QED BY <1>2, NatLessThanWellFounded, WFMin
  <1>4. \A y \in T : ~(y < d)
    BY <1>3 DEF OpToRel
  <1>5. d \in Nat /\ n - d \in 1 .. n /\ RecOf(n - d, t)
    OBVIOUS
  <1>6. i <= n - d
    <2>1. ~(n - i < d)
      BY <1>1, <1>4
    <2> QED BY <1>5, <2>1
  <1>7. ASSUME NEW k \in n - d + 1 .. n, RecOf(k, t) PROVE FALSE
    <2>1. n - k \in Nat /\ n - k < n /\ n - (n - k) = k /\ n - k < d
      BY <1>5, <1>6, <1>7
    <2>2. n - k \in T
      BY <1>7, <2>1
    <2> QED BY <1>4, <2>1, <2>2
  <1> QED BY <1>5, <1>6, <1>7 DEF LastOf

\* ValueIs is ValueOfLast.
LEMMA ValueIsLast ==
    ASSUME NEW S \in SUBSET Int, NEW v, ValueIs(S, v)
    PROVE  v = ValueOfLast(S)
  <1>1. CASE S = {} /\ v = 0
    BY <1>1 DEF ValueOfLast
  <1>2. ASSUME NEW l \in S, v = log[l].new, \A j \in S : j <= l PROVE v = ValueOfLast(S)
    <2> DEFINE m == CHOOSE i \in S : \A j \in S : j <= i
    <2>1. m \in S /\ \A j \in S : j <= m
      BY <1>2
    <2>2. ValueOfLast(S) = log[m].new
      BY <1>2, Zenon DEF ValueOfLast
    <2> HIDE DEF m
    <2>3. l <= m /\ m <= l /\ l \in Int /\ m \in Int
      BY <1>2, <2>1
    <2> QED BY <1>2, <2>2, <2>3
  <1> QED BY <1>1, <1>2 DEF ValueIs

-----------------------------------------------------------------------------
(* What the order of the records says about the values. *)

\* The END record of a transaction is behind all its records.
LEMMA EndLast ==
    ASSUME LogOk, Len(log) \in Nat, NEW i \in LSNs, NEW k \in LSNs, NEW e \in LSNs,
           i <= k, i <= e, SameTx(i, k), SameTx(i, e), log[e].op = "END"
    PROVE  k <= e
  <1> SUFFICES ASSUME e < k PROVE FALSE
    BY DEF LSNs
  <1>1. IsTxRec(e) /\ log[e].txn = log[i].txn
    BY DEF SameTx
  <1>2. SameTx(e, k)
    BY <1>1, SameTxSplit DEF LSNs
  <1>3. e \in 1 .. k - 1
    BY DEF LSNs
  <1> QED BY <1>2, <1>3 DEF LogOk, RecordOk, MayFollow

\* Two records of one transaction stand in one order or the other.
LEMMA SameSplit ==
    ASSUME Len(log) \in Nat, NEW i \in LSNs, NEW j \in LSNs, NEW k \in LSNs,
           i <= j, j <= k, SameTx(i, k), SameTx(j, k)
    PROVE  SameTx(i, j)
  <1>1. IsTxRec(j) /\ log[j].txn = log[i].txn
    BY DEF SameTx
  <1> QED BY <1>1, SameTxSplit DEF LSNs

\* What is undone is known by its prevLSN.
LEMMA SamePrev ==
    ASSUME LogOk, Len(log) \in Nat, NEW i \in LSNs, NEW j \in LSNs, NEW k \in LSNs,
           log[i].op = "SET", log[j].op = "SET", SameTx(i, k), SameTx(j, k), i <= k, j <= k,
           log[i].prev = log[j].prev
    PROVE  i = j
  <1>1. ASSUME NEW a \in LSNs, NEW b \in LSNs, a < b, b <= k, SameTx(a, k), SameTx(b, k),
               log[b].op = "SET", log[a].op = "SET", log[a].prev = log[b].prev
        PROVE  FALSE
    <2>1. SameTx(a, b) /\ a \in 1 .. b - 1
      BY <1>1, SameSplit DEF LSNs
    <2>2. a <= log[b].prev
      BY <1>1, <2>1 DEF LogOk, RecordOk, ChainOk, IsTxRec
    <2>3. log[a].prev \in 1 .. a - 1
      BY <1>1 DEF LogOk, RecordOk, ChainOk, IsTxRec
    <2> QED BY <1>1, <2>2, <2>3 DEF LSNs
  <1>2. i < j \/ j < i \/ i = j
    BY DEF LSNs
  <1> QED BY <1>1, <1>2

\* The first update s of page p by a transaction, when all of p is settled but what
\* this transaction did: the committed updates before it are those that were
\* committed when it was made.
LEMMA CommittedBefore ==
    ASSUME LogOk, DataInv, Len(log) \in Nat, NEW p, NEW s \in PageRecs(p), log[s].op = "SET",
           FirstSet(s), \A i \in CommittedSets(p) : i < s
    PROVE  CommittedSets(p) = CommittedBy(p, s - 1)
  <1>1. s \in LSNs /\ log[s].page = p /\ SerialOk(s)
    BY DEF PageRecs, DataInv, DataOk
  <1>2. ASSUME NEW i \in CommittedSets(p) PROVE i \in CommittedBy(p, s - 1)
    <2>1. /\ i \in 1 .. s - 1 /\ i \in LSNs /\ log[i].op = "SET" /\ log[i].page = p
      BY <1>1, <1>2 DEF CommittedSets, LSNs
    <2>2. PICK k \in LSNs : CommitOf(i, k)
      BY <1>2 DEF CommittedSets
    <2>3. PICK e \in i .. s - 1 : log[e].op = "END" /\ SameTx(i, e)
      BY <1>1, <2>1 DEF FirstSet, SerialOk, EndedBy
    <2>4. k <= e
      BY <1>1, <2>1, <2>2, <2>3, EndLast DEF CommitOf, LSNs
    <2>5. k \in 1 .. s - 1
      BY <1>1, <2>3, <2>4 DEF LSNs
    <2> QED BY <2>1, <2>2, <2>5 DEF CommittedBy
  <1>3. ASSUME NEW i \in CommittedBy(p, s - 1) PROVE i \in CommittedSets(p)
    BY <1>1 DEF CommittedBy, CommittedSets, LSNs
  <1> QED BY <1>2, <1>3

\* A transaction that has rolled an update back has not committed.
LEMMA NoCommitAround ==
    ASSUME LogOk, Len(log) \in Nat, NEW j \in LSNs, log[j].op = "CLR",
           ~\E k \in LSNs : CommitOf(j, k)
    PROVE  \A i, k \in LSNs : i <= j /\ SameTx(i, j) => ~CommitOf(i, k)
  <1> SUFFICES ASSUME NEW i \in LSNs, NEW k \in LSNs, i <= j, SameTx(i, j), CommitOf(i, k)
               PROVE  FALSE
    OBVIOUS
  <1>1. log[k].op = "COMMIT" /\ SameTx(i, k) /\ i < k /\ k # j
    BY DEF CommitOf
  <1>2. CASE k < j
    <2>1. SameTx(k, j) /\ k \in 1 .. j - 1
      <3>1. IsTxRec(k) /\ log[k].txn = log[i].txn
        BY <1>1 DEF SameTx
      <3> QED BY <1>1, <1>2, <3>1, SameTxSplit DEF LSNs
    <2> QED BY <1>1, <2>1 DEF LogOk, RecordOk, MayFollow
  <1>3. CASE j < k
    <2>1. SameTx(j, k)
      <3>1. IsTxRec(j) /\ log[j].txn = log[i].txn
        BY DEF SameTx
      <3> QED BY <1>1, <1>3, <3>1, SameTxSplit DEF LSNs
    <2> QED BY <1>1, <1>3, <2>1 DEF CommitOf
  <1> QED BY <1>1, <1>2, <1>3 DEF LSNs

\* The CLR of an update is about the page of the update.
LEMMA ClrOfSet ==
    ASSUME LogOk, DataInv, Len(log) \in Nat, NEW i \in LSNs, NEW e \in LSNs, i <= e,
           log[i].op = "SET", Compensated(i, e)
    PROVE  \E k \in LSNs : /\ i < k /\ k <= e /\ log[k].op = "CLR" /\ log[k].page = log[i].page
                           /\ SameTx(i, k) /\ log[k].undoNext = log[i].prev
  <1>1. PICK k \in i .. e : log[k].op = "CLR" /\ SameTx(i, k) /\ log[k].undoNext = log[i].prev
    BY DEF Compensated
  <1>2. k \in LSNs /\ i < k /\ k <= e
    BY <1>1 DEF LSNs
  <1>3. PICK s \in 1 .. k - 1 :
            /\ log[s].op = "SET" /\ SameTx(s, k) /\ log[s].prev = log[k].undoNext
            /\ log[s].page = log[k].page
    BY <1>1, <1>2 DEF DataInv, DataOk, ClrDataOk
  <1>4. s = i
    BY <1>1, <1>2, <1>3, SamePrev DEF LSNs
  <1> QED BY <1>1, <1>2, <1>3, <1>4

\* Where the last record about a page is one of a rollback, it puts back what the
\* transaction found.
LEMMA LastClr ==
    ASSUME LogOk, DataInv, Len(log) \in Nat, NEW p, NEW j \in PageRecs(p), log[j].op = "CLR",
           \A i \in PageRecs(p) : i <= j, ~\E k \in LSNs : CommitOf(j, k),
           NEW e \in LSNs, j <= e, log[e].op = "END", SameTx(j, e)
    PROVE  ValueIs(CommittedSets(p), log[j].new)
  <1>1. j \in LSNs /\ log[j].page = p /\ \A i \in PageRecs(p) : i \in LSNs /\ log[i].page = p
    BY DEF PageRecs
  <1>2. PICK s \in 1 .. j - 1 :
            /\ log[s].op = "SET" /\ SameTx(s, j) /\ log[s].prev = log[j].undoNext
            /\ log[s].page = log[j].page /\ log[s].old = log[j].new
    BY <1>1 DEF DataInv, DataOk, ClrDataOk
  <1>3. s \in LSNs /\ s \in PageRecs(p) /\ s < j
    BY <1>1, <1>2 DEF PageRecs, LSNs
  <1>4. FirstSet(s)
    <2> SUFFICES ASSUME NEW i \in 1 .. s - 1, log[i].op = "SET", log[i].page = p, SameTx(i, s)
                 PROVE  FALSE
      BY <1>1, <1>2 DEF FirstSet
    <2>1. i \in LSNs /\ i < s /\ i <= j /\ i <= e
      BY <1>1, <1>3 DEF LSNs
    <2>2. SameTx(i, j) /\ SameTx(i, e)
      BY <1>1, <1>2, <1>3, <2>1, SameTxTrans DEF LSNs
    <2>3. Compensated(i, e)
      <3>1. CASE \E k \in i + 1 .. e : log[k].op = "COMMIT" /\ SameTx(i, k)
        <4>1. PICK k \in i + 1 .. e : log[k].op = "COMMIT" /\ SameTx(i, k)
          BY <3>1
        <4>2. k \in LSNs /\ CommitOf(i, k)
          BY <2>1, <4>1 DEF CommitOf, LSNs
        <4> QED BY <1>1, <2>1, <2>2, <4>2, NoCommitAround
      <3>2. CASE ~\E k \in i + 1 .. e : log[k].op = "COMMIT" /\ SameTx(i, k)
        <4>1. EndOk(e) /\ i \in 1 .. e
          BY <2>1 DEF LogOk, RecordOk, LSNs
        <4> QED BY <2>2, <3>2, <4>1 DEF EndOk
      <3> QED BY <3>1, <3>2
    <2>4. PICK k \in LSNs : /\ i < k /\ log[k].op = "CLR" /\ log[k].page = p
                            /\ SameTx(i, k) /\ log[k].undoNext = log[i].prev
      BY <2>1, <2>3, ClrOfSet
    <2>5. k <= j /\ k \in PageRecs(p)
      BY <2>4 DEF PageRecs
    <2>6. log[i].prev < log[s].prev
      <3>1. i <= log[s].prev
        BY <1>2, <1>3 DEF LogOk, RecordOk, ChainOk, IsTxRec
      <3>2. log[i].prev \in 1 .. i - 1 /\ log[s].prev \in 1 .. s - 1
        BY <1>2, <1>3, <2>1 DEF LogOk, RecordOk, ChainOk, IsTxRec
      <3> QED BY <3>1, <3>2
    <2>7. log[i].prev \in Int /\ log[s].prev \in Int
      BY <1>2, <1>3, <2>1 DEF LogOk, RecordOk, ChainOk, IsTxRec
    <2>8. k # j
      BY <1>2, <2>4, <2>6, <2>7
    <2>9. SameTx(k, j) /\ k \in 1 .. j - 1
      <3>1. IsTxRec(k) /\ log[k].txn = log[i].txn
        BY <2>4 DEF SameTx
      <3> QED BY <1>1, <2>1, <2>2, <2>4, <2>5, <2>8, <3>1, SameTxSplit DEF LSNs
    <2>10. log[j].undoNext < log[k].undoNext
      BY <1>1, <2>4, <2>9 DEF LogOk, RecordOk, MayFollow
    <2> QED BY <1>2, <2>4, <2>6, <2>7, <2>10
  <1>5. ASSUME NEW i \in CommittedSets(p) PROVE i < s
    <2>1. /\ i \in PageRecs(p) /\ i \in LSNs /\ log[i].op = "SET" /\ i <= j
      BY DEF CommittedSets, PageRecs
    <2>2. PICK k \in LSNs : CommitOf(i, k)
      BY <1>5 DEF CommittedSets
    <2> SUFFICES ASSUME s <= i PROVE FALSE
      BY <1>3, <2>1 DEF LSNs
    <2>3. SameTx(s, i)
      <3>1. CASE i = s
        BY <1>2, <3>1 DEF SameTx
      <3>2. CASE i # s /\ EndedBy(s, i - 1)
        <4>1. PICK f \in s .. i - 1 : log[f].op = "END" /\ SameTx(s, f)
          BY <3>2 DEF EndedBy
        <4>2. j <= f
          BY <1>1, <1>2, <1>3, <2>1, <4>1, EndLast DEF LSNs
        <4> QED BY <1>1, <1>3, <2>1, <4>1, <4>2 DEF LSNs
      <3>3. CASE i # s /\ ~EndedBy(s, i - 1)
        <4>1. SerialOk(i) /\ s \in 1 .. i - 1 /\ log[s].page = log[i].page
          BY <1>1, <1>2, <1>3, <2>1, <3>3 DEF DataInv, DataOk, LSNs
        <4> QED BY <1>2, <3>3, <4>1 DEF SerialOk
      <3> QED BY <3>1, <3>2, <3>3
    <2>4. SameTx(i, j)
      <3>1. IsTxRec(i) /\ log[i].txn = log[s].txn
        BY <2>3 DEF SameTx
      <3> QED BY <1>1, <1>2, <1>3, <2>1, <3>1, SameTxSplit DEF LSNs
    <2> QED BY <1>1, <2>1, <2>2, <2>4, NoCommitAround
  <1>6. CommittedSets(p) = CommittedBy(p, s - 1)
    BY <1>2, <1>3, <1>4, <1>5, CommittedBefore
  <1>7. OldOk(s)
    BY <1>2, <1>3 DEF DataInv, DataOk
  <1> QED BY <1>1, <1>2, <1>4, <1>6, <1>7 DEF OldOk

\* When nobody is at work on page p, the last record about it is the last committed
\* update, or a CLR that puts the value of that back.
LEMMA SettledValue ==
    ASSUME LogOk, DataInv, Len(log) \in Nat, NEW p, Settled(p), NEW v, ValueIs(PageRecs(p), v)
    PROVE  ValueIs(CommittedSets(p), v)
  <1>1. CommittedSets(p) \subseteq PageRecs(p)
    BY DEF CommittedSets, PageRecs
  <1>2. CASE PageRecs(p) = {} /\ v = 0
    BY <1>1, <1>2 DEF ValueIs
  <1>3. ASSUME NEW j \in PageRecs(p), v = log[j].new, \A i \in PageRecs(p) : i <= j
        PROVE  ValueIs(CommittedSets(p), v)
    <2>1. j \in LSNs /\ log[j].op \in {"SET", "CLR"} /\ log[j].page = p
      BY DEF PageRecs
    <2>2. PICK e \in LSNs : j <= e /\ log[e].op = "END" /\ SameTx(j, e)
      BY <2>1 DEF Settled, EndedBy, LSNs
    <2>3. CASE \E k \in LSNs : CommitOf(j, k)
      <3>1. PICK k \in LSNs : CommitOf(j, k)
        BY <2>3
      <3>2. j \in 1 .. k - 1 /\ log[k].op = "COMMIT" /\ SameTx(j, k)
        BY <2>1, <3>1 DEF CommitOf, LSNs
      <3>3. log[j].op = "SET"
        BY <2>1, <3>2 DEF LogOk, RecordOk, MayFollow
      <3>4. j \in CommittedSets(p)
        BY <2>1, <3>1, <3>3 DEF CommittedSets
      <3> QED BY <1>1, <1>3, <3>4 DEF ValueIs
    <2>4. CASE ~\E k \in LSNs : CommitOf(j, k)
      <3>1. log[j].op = "CLR"
        <4> SUFFICES ASSUME log[j].op = "SET" PROVE FALSE
          BY <2>1
        <4>1. Compensated(j, e)
          <5>1. EndOk(e) /\ j \in 1 .. e
            BY <2>1, <2>2 DEF LogOk, RecordOk, LSNs
          <5>2. ASSUME NEW k \in j + 1 .. e, log[k].op = "COMMIT", SameTx(j, k) PROVE FALSE
            BY <2>1, <2>4, <5>2 DEF CommitOf, LSNs
          <5> QED BY <2>2, <5>1, <5>2 DEF EndOk
        <4>2. PICK k \in LSNs : j < k /\ log[k].op = "CLR" /\ log[k].page = log[j].page
          BY <2>1, <2>2, <4>1, ClrOfSet
        <4>3. k <= j
          BY <1>3, <2>1, <4>2 DEF PageRecs
        <4> QED BY <2>1, <4>2, <4>3 DEF LSNs
      <3> QED BY <1>3, <2>2, <2>4, <3>1, LastClr
    <2> QED BY <2>3, <2>4
  <1> QED BY <1>2, <1>3 DEF ValueIs

-----------------------------------------------------------------------------
(* Steps of the log. *)

\* What the first records say of each other stays so.
LEMMA DataInPrefix ==
    ASSUME NEW n, CommonPrefix(n), Len(log) \in Nat, Len(log') \in Nat,
           NEW j \in 1 .. n, DataOk(j)
    PROVE  DataOk(j)'
  <1>1. /\ n \in Nat /\ log'[j] = log[j] /\ 1 .. j - 1 \subseteq 1 .. n
        /\ \A i \in 1 .. n : log'[i] = log[i]
    BY SameInPrefix DEF CommonPrefix
  <1>2. \A i \in 1 .. n, k \in 1 .. n : SameTx(i, k)' <=> SameTx(i, k)
    BY SameInPrefix
  <1>3. \A t : \A i \in 1 .. n : RecOf(i, t)' <=> RecOf(i, t)
    BY SameInPrefix
  <1>4. \A i \in 1 .. j - 1 : EndedBy(i, j - 1)' <=> EndedBy(i, j - 1)
    <2> SUFFICES ASSUME NEW i \in 1 .. j - 1
                 PROVE  EndedBy(i, j - 1)' <=> EndedBy(i, j - 1)
      OBVIOUS
    <2>1. \A e \in i .. j - 1 : e \in 1 .. n
      BY <1>1
    <2> QED BY <1>1, <1>2, <2>1 DEF EndedBy
  <1>5. \A i \in 1 .. n, k \in 1 .. n : CommitOf(i, k)' <=> CommitOf(i, k)
    BY <1>1, <1>2 DEF CommitOf
  <1>6. \A p : CommittedBy(p, j - 1)' = CommittedBy(p, j - 1)
    BY <1>1, <1>5 DEF CommittedBy
  <1>7. StartOk(j) => StartOk(j)'
    BY <1>1, <1>3, <1>4 DEF StartOk
  <1>8. SerialOk(j) => SerialOk(j)'
    BY <1>1, <1>2, <1>4 DEF SerialOk
  <1>9. OldOk(j) => OldOk(j)'
    <2>1. FirstSet(j)' <=> FirstSet(j)
      BY <1>1, <1>2 DEF FirstSet
    <2>2. PICK S : S = CommittedBy(log[j].page, j - 1)
      OBVIOUS
    <2>3. S = CommittedBy(log[j].page, j - 1)'
      BY <1>1, <1>6, <2>2
    <2>4. \A m \in S : log'[m] = log[m]
      BY <1>1, <2>2 DEF CommittedBy
    <2> QED BY <1>1, <2>1, <2>2, <2>3, <2>4 DEF OldOk, ValueIs
  <1>10. ClrDataOk(j) => ClrDataOk(j)'
    BY <1>1, <1>2 DEF ClrDataOk
  <1> QED BY <1>1, <1>7, <1>8, <1>9, <1>10 DEF DataOk

\* Only the new record has to be looked at.
LEMMA AppendKeepsData ==
    ASSUME DurabilityInv, DataInv, NEW rec, LogAppend(rec), NEW n \in Nat, n = Len(log),
           DataOk(n + 1)'
    PROVE  DataInv'
  <1>1. CommonPrefix(n) /\ Len(log') = n + 1 /\ Len(log) \in Nat
    BY AppendPrefix
  <1>2. \A j \in 1 .. n : DataOk(j)'
    BY <1>1, DataInPrefix DEF DataInv, LSNs
  <1> QED BY <1>1, <1>2 DEF DataInv, LSNs

\* A record without data says nothing about the data before it.
LEMMA PlainKeepsData ==
    ASSUME DurabilityInv, DataInv, NEW rec, LogAppend(rec), rec.op \notin {"START", "SET", "CLR"}
    PROVE  DataInv'
  <1>1. PICK n \in Nat : n = Len(log)
    BY AppendPrefix
  <1>2. log'[n + 1] = rec
    BY <1>1, AppendPrefix
  <1>3. DataOk(n + 1)'
    BY <1>2 DEF DataOk
  <1> QED BY <1>1, <1>3, AppendKeepsData

\* The same log, or a prefix of it, keeps the invariant.
LEMMA PrefixKeepsData ==
    ASSUME DataInv, Len(log) \in Nat, NEW n, CommonPrefix(n), Len(log') = n
    PROVE  DataInv'
  <1>1. n \in Nat /\ n <= Len(log)
    BY DEF CommonPrefix
  <1>2. \A j \in 1 .. n : DataOk(j)'
    BY <1>1, DataInPrefix DEF DataInv, LSNs
  <1> QED BY <1>2 DEF DataInv, LSNs

-----------------------------------------------------------------------------
(* Who may have changed a page. *)

\* A transaction that has ended has ended for good.
LEMMA EndedStays ==
    ASSUME NEW n \in Nat, NEW m \in Nat, m <= n, NEW i, EndedBy(i, m)
    PROVE  EndedBy(i, n)
  <1>1. i .. m \subseteq i .. n
    OBVIOUS
  <1> QED BY <1>1 DEF EndedBy

\* Two records of a transaction number are of one transaction, or the first has ended.
LEMMA SameOrEnded ==
    ASSUME DataInv, NEW n \in Nat, n = Len(log), NEW t, NEW i \in 1 .. n, NEW l \in i .. n,
           RecOf(i, t), RecOf(l, t), ~EndedBy(i, n)
    PROVE  SameTx(i, l)
  <1>1. l \in 1 .. n /\ i + 1 .. l \subseteq i + 1 .. n
    OBVIOUS
  <1>2. ASSUME NEW k \in i + 1 .. n, log[k].op = "START", log[k].txn = t PROVE FALSE
    <2>1. StartOk(k) /\ i \in 1 .. k - 1 /\ k - 1 \in Nat /\ k - 1 <= n
      BY <1>2 DEF DataInv, DataOk, LSNs
    <2>2. EndedBy(i, k - 1)
      BY <1>2, <2>1 DEF StartOk
    <2> QED BY <2>1, <2>2, EndedStays
  <1> QED BY <1>1, <1>2 DEF SameTx, RecOf

\* A record about a page is one of the transaction that holds its lock, or its
\* transaction has ended.
LEMMA Owner ==
    ASSUME DurabilityInv, LocksInv, DataInv, phase = "up", NEW n \in Nat, n = Len(log),
           NEW p \in Pages, NEW i \in PageRecs(p), log[i].txn \in Txns, ~EndedBy(i, n)
    PROVE  \E l \in i .. n : LastOf(l, log[i].txn, n) /\ SameTx(i, l) /\ lock[p] = log[i].txn
  <1> DEFINE t == log[i].txn
  <1>1. i \in 1 .. n /\ log[i].op \in {"SET", "CLR"} /\ log[i].page = p /\ RecOf(i, t)
    BY DEF PageRecs, LSNs, RecOf, IsTxRec
  <1>2. PICK l \in i .. n : LastOf(l, t, n)
    BY <1>1, LastExists
  <1>3. SameTx(i, l)
    BY <1>1, <1>2, SameOrEnded DEF LastOf
  <1>4. log[l].op # "END"
    BY <1>2, <1>3 DEF EndedBy
  <1>5. LockedBy(t, l)
    BY <1>2, <1>4 DEF LocksInv, LocksOk
  <1>6. i \in 1 .. l
    BY <1>1, <1>2
  <1> QED BY <1>1, <1>2, <1>3, <1>5, <1>6 DEF LockedBy

\* The transaction of a record is a transaction.
LEMMA TxnOfRec ==
    ASSUME DurabilityInv, NEW i \in LSNs, IsTxRec(i)
    PROVE  log[i].txn \in Txns
  <1>1. PICK rec \in LogRecords : rec = log[i]
    BY StateFacts DEF LSNs
  <1>2. rec.op \in {"START", "COMMIT", "ABORT", "END", "SET", "CLR", "CKPT_BEGIN", "CKPT_END"}
    BY DEF LogRecords
  <1> QED BY <1>1, <1>2, RecordFields DEF IsTxRec

\* A page without a lock is settled: everybody who changed it has ended.
LEMMA FreeSettled ==
    ASSUME DurabilityInv, LocksInv, DataInv, phase = "up", NEW p \in Pages, lock[p] = NoTx
    PROVE  Settled(p)
  <1> SUFFICES ASSUME NEW i \in PageRecs(p), ~EndedBy(i, Len(log)) PROVE FALSE
    BY DEF Settled
  <1>1. Len(log) \in Nat /\ i \in LSNs /\ IsTxRec(i)
    BY StateFacts DEF PageRecs, IsTxRec
  <1>2. log[i].txn \in Txns
    BY <1>1, TxnOfRec
  <1>3. lock[p] = log[i].txn
    BY <1>1, <1>2, Owner
  <1> QED BY <1>2, <1>3 DEF Txns, NoTx

\* A settled page shows the last record about it.
LEMMA SettledShown ==
    ASSUME DurabilityInv, ChainInv, PagesInv, phase = "up", NEW p \in Pages, Settled(p)
    PROVE  ValueIs(PageRecs(p), buf[p].val)
  <1>1. /\ buf[p].lsn \in Nat /\ Shows(buf[p].val, buf[p].lsn, p)
        /\ \A i \in PageRecs(p) : i \in Nat /\ i # 0 /\ i \in LSNs
    BY PageTypes DEF PagesInv, PageOk, PageRecs
  <1>2. ASSUME NEW i \in PageRecs(p) PROVE i <= buf[p].lsn
    <2> SUFFICES ASSUME i > buf[p].lsn PROVE FALSE
      BY <1>1
    <2>1. PICK t \in Txns : Applying(t) /\ tx[t].lsn = i
      BY DEF PagesInv, AppliedOk
    <2>2. LastOf(i, t, Len(log))
      BY <2>1 DEF Applying, ApplyPCs, ChainInv, TxAt, UndoAt, WorkAt, Here
    <2>3. PICK e \in i .. Len(log) : log[e].op = "END" /\ SameTx(i, e)
      BY DEF Settled, EndedBy
    <2>4. e # i /\ RecOf(e, t)
      BY <2>2, <2>3 DEF PageRecs, SameTx, RecOf, LastOf
    <2>5. e \in i + 1 .. Len(log)
      BY <1>1, <2>3, <2>4, StateFacts
    <2> QED BY <2>2, <2>4, <2>5 DEF LastOf
  <1>3. CASE buf[p].lsn \in PageRecs(p) /\ buf[p].val = log[buf[p].lsn].new
    BY <1>2, <1>3 DEF ValueIs
  <1>4. CASE buf[p].lsn = 0 /\ buf[p].val = 0
    <2>1. PageRecs(p) = {}
      BY <1>1, <1>2, <1>4
    <2> QED BY <1>4, <2>1 DEF ValueIs
  <1> QED BY <1>1, <1>3, <1>4 DEF Shows

\* ... and so the last committed value.
LEMMA SettledCommitted ==
    ASSUME DurabilityInv, ChainInv, PagesInv, DataInv, phase = "up", NEW p \in Pages, Settled(p)
    PROVE  ValueIs(CommittedSets(p), buf[p].val)
  BY SettledShown, SettledValue, StateFacts DEF ChainInv

-----------------------------------------------------------------------------
(* The steps that append a START, a SET or a CLR record. *)

\* What has ended before the append has ended after it.
LEMMA EndedKept ==
    ASSUME DurabilityInv, NEW rec, LogAppend(rec), NEW n \in Nat, n = Len(log),
           NEW i \in 1 .. n, EndedBy(i, n)
    PROVE  EndedBy(i, n)'
  <1>1. CommonPrefix(n) /\ Len(log') \in Nat /\ \A k \in 1 .. n : log'[k] = log[k]
    BY AppendPrefix DEF CommonPrefix
  <1>2. PICK e \in i .. n : log[e].op = "END" /\ SameTx(i, e)
    BY DEF EndedBy
  <1>3. e \in 1 .. n
    OBVIOUS
  <1>4. SameTx(i, e)'
    BY <1>1, <1>2, <1>3, SameInPrefix
  <1> QED BY <1>1, <1>2, <1>3, <1>4 DEF EndedBy

\* A number is handed out again only when what it did is over (transaction.go:63,
\* recovery.go:47).
LEMMA StartData ==
    ASSUME DurabilityInv, ChainInv, DataInv, NEW t \in Txns, StartLog(t)
    PROVE  DataInv'
  <1>1. PICK n \in Nat : n = Len(log)
    BY StateFacts
  <1>2. LogAppend(StartRec(t)) /\ tx[t].pc = "none" /\ phase = "up"
    BY DEF StartLog, MayStartHandler
  <1>3. CommonPrefix(n) /\ log'[n + 1] = StartRec(t) /\ Len(log) \in Nat /\ Len(log') \in Nat
    BY <1>1, <1>2, AppendPrefix
  <1>4. Resolved(t, n)
    BY <1>1, <1>2 DEF ChainInv, TxAt, WorkAt
  <1>5. ASSUME NEW i \in 1 .. n, RecOf(i, t) PROVE EndedBy(i, n)
    <2>1. PICK l \in i .. n : LastOf(l, t, n)
      BY <1>5, LastExists
    <2>2. log[l].op = "END" /\ RecOf(l, t)
      BY <1>4, <2>1 DEF Resolved, LastOf
    <2>3. EndedBy(i, n) \/ SameTx(i, l)
      BY <1>1, <1>5, <2>2, SameOrEnded
    <2> QED BY <2>2, <2>3 DEF EndedBy
  <1>6. ASSUME NEW i \in 1 .. n, RecOf(i, t)' PROVE EndedBy(i, n)'
    <2>1. RecOf(i, t)
      BY <1>3, <1>6, SameInPrefix
    <2> QED BY <1>1, <1>2, <1>5, <2>1, EndedKept
  <1>7. log'[n + 1].op = "START" /\ log'[n + 1].txn = t /\ n + 1 - 1 = n
    BY <1>3 DEF StartRec
  <1>8. StartOk(n + 1)'
    BY <1>6, <1>7 DEF StartOk
  <1>9. DataOk(n + 1)'
    BY <1>7, <1>8 DEF DataOk
  <1> QED BY <1>1, <1>2, <1>9, AppendKeepsData

\* An update follows what its transaction did to the page, or finds it settled: the X
\* lock is held until the END record is written (recovery.go:107, concurrency.go:69).
LEMMA UpdateData ==
    ASSUME DurabilityInv, ChainInv, PagesInv, LocksInv, DataInv,
           NEW t \in Txns, NEW p \in Pages, UpdateLog(t, p)
    PROVE  DataInv'
  <1>0. PICK n \in Nat : n = Len(log)
    BY StateFacts
  <1>1. PICK l, v : n = Len(log) /\ l = att[t].lastLSN /\ v = buf[p].val
    BY <1>0
  <1> DEFINE rec == SetRec(t, l, p, v, NextLSN)
  <1>2. /\ LogAppend(rec) /\ tx[t].pc = "active" /\ phase = "up" /\ lock[p] \in {NoTx, t}
        /\ rec.op = "SET" /\ rec.page = p /\ rec.old = v /\ rec.prev = l /\ rec.txn = t
    BY <1>1 DEF UpdateLog, MayStartHandler, SetRec
  <1> HIDE DEF rec
  <1>3. CommonPrefix(n) /\ log'[n + 1] = rec /\ \A i \in 1 .. n : log'[i] = log[i]
    BY <1>1, <1>2, AppendPrefix DEF CommonPrefix
  <1>4. LastOf(l, t, n) /\ log[l].op \in {"START", "SET"}
    BY <1>1, <1>2 DEF ChainInv, TxAt, WorkAt
  <1>5. /\ l \in 1 .. n
        /\ \A i \in 1 .. n : SameTx(i, n + 1)' <=> i <= l /\ SameTx(i, l)
    BY <1>1, <1>2, <1>4, SameAppended
  <1>6. ASSUME NEW i \in PageRecs(p), ~EndedBy(i, n) PROVE i \in 1 .. l /\ SameTx(i, l)
    <2>1. i \in 1 .. n /\ i \in LSNs /\ IsTxRec(i)
      BY <1>1 DEF PageRecs, LSNs, IsTxRec
    <2>2. log[i].txn \in Txns
      BY <2>1, TxnOfRec
    <2>3. PICK m \in i .. n : LastOf(m, log[i].txn, n) /\ SameTx(i, m) /\ lock[p] = log[i].txn
      BY <1>1, <1>2, <1>6, <2>2, Owner
    <2>4. log[i].txn = t
      BY <1>2, <2>2, <2>3 DEF Txns, NoTx
    <2>5. m = l
      BY <1>4, <2>3, <2>4, LastUnique
    <2> QED BY <2>1, <2>3, <2>5
  <1>7. \A i \in 1 .. n : log'[i].op \in {"SET", "CLR"} /\ log'[i].page = p => i \in PageRecs(p)
    BY <1>1, <1>3 DEF PageRecs, LSNs
  <1>8. SerialOk(n + 1)'
    <2>1. ASSUME NEW i \in 1 .. n, log'[i].op \in {"SET", "CLR"}, log'[i].page = p
          PROVE  SameTx(i, n + 1)' \/ EndedBy(i, n)'
      <3>1. i \in PageRecs(p)
        BY <1>7, <2>1
      <3>2. CASE EndedBy(i, n)
        BY <1>1, <1>2, <3>2, EndedKept
      <3>3. CASE ~EndedBy(i, n)
        <4>1. i \in 1 .. l /\ SameTx(i, l)
          BY <1>6, <3>1, <3>3
        <4> QED BY <1>5, <4>1
      <3> QED BY <3>2, <3>3
    <2>2. n + 1 - 1 = n
      OBVIOUS
    <2> QED BY <1>2, <1>3, <2>1, <2>2 DEF SerialOk
  <1>9. ASSUME FirstSet(n + 1)' PROVE Settled(p)
    <2> SUFFICES ASSUME NEW i \in PageRecs(p), ~EndedBy(i, n) PROVE FALSE
      BY <1>1 DEF Settled
    <2>1. i \in 1 .. l /\ SameTx(i, l)
      BY <1>6
    <2>2. log[i].op \in {"SET", "CLR"} /\ log[i].page = p /\ i \in 1 .. n
      BY <1>1 DEF PageRecs, LSNs
    <2>3. SameTx(i, n + 1)'
      BY <1>5, <2>1, <2>2
    <2>4. n + 1 - 1 = n
      OBVIOUS
    <2>5. log[i].op # "SET"
      BY <1>2, <1>3, <1>9, <2>2, <2>3, <2>4 DEF FirstSet
    <2>6. i # l /\ i \in 1 .. l - 1
      BY <1>4, <1>5, <2>1, <2>2, <2>5
    <2>7. log[l].op # "START"
      <3>1. l \in i + 1 .. l
        BY <1>5, <2>6
      <3> QED BY <2>1, <3>1 DEF SameTx
    <2>8. MayFollow(i, l)
      BY <1>1, <1>5, <2>1, <2>6 DEF ChainInv, LogOk, RecordOk, LSNs
    <2> QED BY <1>4, <2>2, <2>5, <2>7, <2>8 DEF MayFollow
  <1>10. OldOk(n + 1)'
    <2> SUFFICES ASSUME FirstSet(n + 1)'
                 PROVE  ValueIs(CommittedBy(log[n + 1].page, n + 1 - 1), log[n + 1].old)'
      BY DEF OldOk
    <2>1. PICK S : S = CommittedBy(p, n)
      OBVIOUS
    <2>2. ValueIs(S, v)
      <3>1. ValueIs(CommittedSets(p), v)
        BY <1>1, <1>2, <1>9, SettledCommitted
      <3>2. S = CommittedSets(p)
        BY <1>1, <2>1 DEF CommittedSets, CommittedBy, LSNs
      <3> QED BY <3>1, <3>2
    <2>3. CommittedBy(p, n)' = S
      <3>1. \A i \in 1 .. n, k \in 1 .. n : SameTx(i, k)' <=> SameTx(i, k)
        BY <1>1, <1>2, <1>3, AppendPrefix, SameInPrefix
      <3>2. \A i \in 1 .. n, k \in 1 .. n : CommitOf(i, k)' <=> CommitOf(i, k)
        BY <1>3, <3>1 DEF CommitOf
      <3> QED BY <1>3, <2>1, <3>2 DEF CommittedBy
    <2>4. \A m \in S : log'[m] = log[m]
      BY <1>3, <2>1 DEF CommittedBy
    <2>5. log'[n + 1].page = p /\ log'[n + 1].old = v /\ n + 1 - 1 = n
      BY <1>2, <1>3
    <2> QED BY <2>2, <2>3, <2>4, <2>5 DEF ValueIs
  <1>11. DataOk(n + 1)'
    BY <1>2, <1>3, <1>8, <1>10 DEF DataOk
  <1> QED BY <1>1, <1>2, <1>11, AppendKeepsData

\* A CLR is about the page of the update it compensates and holds its old value; no
\* other transaction got at the page in between (recovery.go:263-310).
LEMMA UndoData ==
    ASSUME DurabilityInv, ChainInv, DataInv, NEW t \in Txns, UndoSet(t)
    PROVE  DataInv'
  <1>0. PICK n \in Nat : n = Len(log)
    BY StateFacts
  <1>1. PICK l, u : n = Len(log) /\ l = tx[t].lsn /\ u = tx[t].undo
    BY <1>0
  <1> DEFINE rec == CLRRec(t, l, log[u].page, log[u].old, log[u].prev)
  <1>2. PICK p : p = log[u].page
    OBVIOUS
  <1>3. /\ LogAppend(rec) /\ tx[t].pc = "undo" /\ log[u].op = "SET"
        /\ rec.op = "CLR" /\ rec.page = p /\ rec.new = log[u].old /\ rec.prev = l
        /\ rec.txn = t /\ rec.undoNext = log[u].prev
    BY <1>1, <1>2 DEF UndoSet, CLRRec
  <1> HIDE DEF rec
  <1>4. CommonPrefix(n) /\ log'[n + 1] = rec /\ \A i \in 1 .. n : log'[i] = log[i]
    BY <1>1, <1>3, AppendPrefix DEF CommonPrefix
  <1>5. LastOf(l, t, n) /\ log[l].op \in {"ABORT", "CLR"} /\ (u = l \/ DownTo(u, l))
    BY <1>1, <1>3 DEF ChainInv, TxAt, UndoAt, Here
  <1>6. u \in 1 .. l - 1 /\ SameTx(u, l)
    BY <1>3, <1>5 DEF DownTo
  <1>7. /\ l \in 1 .. n
        /\ \A i \in 1 .. n : SameTx(i, n + 1)' <=> i <= l /\ SameTx(i, l)
    BY <1>1, <1>3, <1>5, SameAppended
  <1>8. u \in 1 .. n /\ u \in LSNs /\ l \in LSNs /\ SameTx(u, n + 1)'
    BY <1>1, <1>6, <1>7 DEF LSNs
  <1>9. ClrDataOk(n + 1)'
    <2>1. u \in 1 .. n + 1 - 1
      BY <1>8
    <2> QED BY <1>2, <1>3, <1>4, <1>8, <2>1 DEF ClrDataOk
  <1>10. ASSUME NEW i \in 1 .. n, log[i].op \in {"SET", "CLR"}, log[i].page = p
         PROVE  (SameTx(i, l) /\ i <= l) \/ EndedBy(i, n)
    <2>1. CASE i < u
      <3>1. SameTx(i, u) \/ EndedBy(i, u - 1)
        <4>1. SerialOk(u) /\ i \in 1 .. u - 1
          BY <1>3, <1>8, <2>1 DEF DataInv, DataOk
        <4> QED BY <1>2, <1>10, <4>1 DEF SerialOk
      <3>2. CASE SameTx(i, u)
        BY <1>6, <1>7, <1>8, <2>1, <3>2, SameTxTrans
      <3>3. CASE EndedBy(i, u - 1)
        <4>1. u - 1 \in Nat /\ u - 1 <= n
          BY <1>8
        <4> QED BY <3>3, <4>1, EndedStays
      <3> QED BY <3>1, <3>2, <3>3
    <2>2. CASE i = u
      BY <1>6, <1>7, <2>2
    <2>3. CASE u < i
      <3>1. SameTx(u, i) \/ EndedBy(u, i - 1)
        <4>1. SerialOk(i) /\ u \in 1 .. i - 1
          BY <1>1, <1>8, <1>10, <2>3 DEF DataInv, DataOk, LSNs
        <4> QED BY <1>2, <1>3, <1>10, <4>1 DEF SerialOk
      <3>2. CASE SameTx(u, i)
        <4>1. RecOf(i, t) /\ IsTxRec(i) /\ log[i].txn = log[u].txn
          BY <1>5, <1>6, <3>2 DEF SameTx, LastOf, RecOf
        <4>2. i <= l
          BY <1>5, <4>1, LastSame
        <4> QED BY <1>6, <1>7, <1>8, <2>3, <4>1, <4>2, SameTxSplit
      <3>3. CASE EndedBy(u, i - 1)
        <4>1. PICK e \in u .. i - 1 : log[e].op = "END" /\ SameTx(u, e)
          BY <3>3 DEF EndedBy
        <4>2. e \in 1 .. n /\ e \in LSNs /\ u <= e /\ u <= l
          BY <1>1, <1>6, <1>7, <1>8, <4>1 DEF LSNs
        <4>3. l <= e
          BY <1>1, <1>6, <1>8, <4>1, <4>2, EndLast DEF ChainInv
        <4>4. RecOf(e, t)
          BY <1>5, <1>6, <4>1 DEF SameTx, LastOf, RecOf
        <4>5. e <= l
          BY <1>5, <4>2, <4>4, LastSame
        <4>6. e = l
          BY <1>7, <4>2, <4>3, <4>5
        <4> QED BY <1>5, <4>1, <4>6
      <3> QED BY <3>1, <3>2, <3>3
    <2> QED BY <1>8, <2>1, <2>2, <2>3
  <1>11. SerialOk(n + 1)'
    <2>1. ASSUME NEW i \in 1 .. n, log'[i].op \in {"SET", "CLR"}, log'[i].page = p
          PROVE  SameTx(i, n + 1)' \/ EndedBy(i, n)'
      <3>1. (SameTx(i, l) /\ i <= l) \/ EndedBy(i, n)
        BY <1>4, <1>10, <2>1
      <3>2. CASE EndedBy(i, n)
        BY <1>1, <1>3, <3>2, EndedKept
      <3> QED BY <1>7, <3>1, <3>2
    <2>2. n + 1 - 1 = n
      OBVIOUS
    <2> QED BY <1>3, <1>4, <2>1, <2>2 DEF SerialOk
  <1>12. DataOk(n + 1)'
    BY <1>3, <1>4, <1>9, <1>11 DEF DataOk
  <1> QED BY <1>1, <1>3, <1>12, AppendKeepsData

-----------------------------------------------------------------------------
(* The invariant, and what follows of it. *)

\* A step that appends no START, no SET and no CLR record.
PlainStep == log' = log \/ \E rec : LogAppend(rec) /\ rec.op \notin {"START", "SET", "CLR"}

\* Every handler step but three is of this kind.
LEMMA PlainHandlers ==
    ASSUME NEW t \in Txns,
           \/ TxStart(t) \/ TxUpdate(t) \/ TxCommit(t) \/ TxRollback(t) \/ DoRollback(t)
           \/ TxEnd(t) \/ EndWinner(t) \/ RecoverLoser(t)
    PROVE  PlainStep \/ StartLog(t) \/ UndoSet(t) \/ \E p \in Pages : UpdateLog(t, p)
  <1>1. CASE CommitLog(t) \/ AbortLog(t)
    <2>1. LogAppend(CommitRec(t, att[t].lastLSN)) \/ LogAppend(AbortRec(t, att[t].lastLSN))
      BY <1>1 DEF CommitLog, AbortLog
    <2> QED BY <2>1 DEF PlainStep, CommitRec, AbortRec
  <1>2. CASE EndLog(t) \/ EndWinner(t)
    <2>1. LogAppend(EndRec(t, tx[t].lsn)) \/ LogAppend(EndRec(t, recAtt[t].lastLSN))
      BY <1>2 DEF EndLog, EndWinner
    <2> QED BY <2>1 DEF PlainStep, EndRec
  <1>3. CASE UndoRunningLoser(t)
    <2>1. LogAppend(AbortRec(t, recAtt[t].lastLSN))
      BY <1>3 DEF UndoRunningLoser
    <2> QED BY <2>1 DEF PlainStep, AbortRec
  <1>4. CASE \/ StartSet(t) \/ UpdateLink(t) \/ UpdatePage(t) \/ CommitFlush(t) \/ CommitSet(t)
             \/ AbortFlush(t) \/ RollbackSet(t) \/ UndoStop(t) \/ UndoSkip(t) \/ ClrFlush(t)
             \/ UndoPage(t) \/ Finish(t) \/ UndoAbortingLoser(t) \/ LoserUndone(t)
    BY <1>4
    DEF PlainStep, logVars, StartSet, UpdateLink, UpdatePage, CommitFlush, CommitSet, AbortFlush,
        RollbackSet, UndoStop, UndoSkip, ClrFlush, UndoPage, Finish, UndoAbortingLoser,
        LoserUndone
  <1> QED BY <1>1, <1>2, <1>3, <1>4
          DEF TxStart, TxUpdate, TxCommit, TxRollback, DoRollback, TxEnd, RecoverLoser

\* What a step can be, as far as the data in the log are concerned.
LEMMA DataSteps ==
    ASSUME [Next]_vars
    PROVE  \/ PlainStep \/ Crash
           \/ \E t \in Txns : \/ StartLog(t) \/ UndoSet(t) \/ \E p \in Pages : UpdateLog(t, p)
  <1>1. CASE Checkpoint
    <2>1. CASE CkptBegin
      <3>1. LogAppend(CkptBeginRec)
        BY <2>1 DEF CkptBegin
      <3> QED BY <3>1 DEF PlainStep, CkptBeginRec
    <2>2. CASE CkptEnd
      <3>1. LogAppend(CkptEndRec(ckpt.att, ckpt.dpt))
        BY <2>2 DEF CkptEnd
      <3> QED BY <3>1 DEF PlainStep, CkptEndRec
    <2>3. CASE CkptATT \/ CkptDPT \/ CkptFlush \/ CkptMaster
      BY <2>3 DEF PlainStep, logVars, CkptATT, CkptDPT, CkptFlush, CkptMaster
    <2> QED BY <1>1, <2>1, <2>2, <2>3 DEF Checkpoint
  <1>2. CASE RecoverScan \/ WinnersDone \/ RecoverDone
    BY <1>2
    DEF PlainStep, logVars, RecoverScan, Analyze, AnalysisDone, Redo, RedoDone, WinnersDone,
        RecoverDone
  <1>3. CASE (\E p \in Pages : FlushPage(p)) \/ Idle \/ UNCHANGED vars
    BY <1>3 DEF PlainStep, logVars, FlushPage, Idle, vars
  <1> QED BY <1>1, <1>2, <1>3, PlainHandlers DEF Next

\* The values in the log are in order after every step.
LEMMA NextData ==
    ASSUME DurabilityInv, ChainInv, PageInv, DataInv, [Next]_vars
    PROVE  DataInv'
  <1>1. PagesInv /\ LocksInv /\ Len(log) \in Nat
    BY StateFacts DEF PageInv
  <1>2. CASE log' = log
    <2>1. CommonPrefix(Len(log))
      BY <1>1, <1>2 DEF CommonPrefix
    <2> QED BY <1>1, <1>2, <2>1, PrefixKeepsData
  <1>3. CASE Crash
    <2>1. PICK last \in flushed .. Len(log) :
              Len(log') = last /\ last \in Nat /\ \A i \in 1 .. last : log'[i] = log[i]
      BY <1>3, CrashShape
    <2>2. CommonPrefix(last)
      BY <1>1, <2>1, StateFacts DEF CommonPrefix
    <2> QED BY <1>1, <2>1, <2>2, PrefixKeepsData
  <1>4. ASSUME NEW rec, LogAppend(rec), rec.op \notin {"START", "SET", "CLR"} PROVE DataInv'
    BY <1>4, PlainKeepsData
  <1> QED BY <1>1, <1>2, <1>3, <1>4, StartData, UpdateData, UndoData, DataSteps DEF PlainStep

\* The values in the log are those of transactions that run one after the other on
\* every page: an update finds what the last commit left, unless it is not the first
\* of its transaction, a CLR puts back what its update found, and nobody is at work
\* on a page in between (recovery.go:107, 263-310, concurrency.go:69).
THEOREM DataFollowsLog == ASSUME CheckpointAlone, OneRestart PROVE Spec => []DataInv
  <1>1. Init => DataInv
    BY DEF Init, DataInv, LSNs
  <1>2. DurabilityInv /\ ChainInv /\ PageInv /\ DataInv /\ [Next]_vars => DataInv'
    BY NextData
  <1> QED BY <1>1, <1>2, Durability, ChainsKept, PagesFollowLog, PTL DEF Spec

\* Atomicity and durability: what a reader finds on a page that nobody has locked is
\* the value of the last committed update, after commits, rollbacks and a restart,
\* whatever the crash lost (recovery.go:74, 99, 149).
THEOREM CommittedValuesKept ==
    ASSUME CheckpointAlone, OneRestart PROVE Spec => []CommittedValues
  <1>1. ASSUME DurabilityInv, ChainInv, PageInv, DataInv PROVE CommittedValues
    <2> SUFFICES ASSUME phase = "up", NEW p \in Pages, lock[p] = NoTx
                 PROVE  buf[p].val = ValueOfLast(CommittedSets(p))
      BY DEF CommittedValues
    <2>1. Settled(p)
      BY <1>1, FreeSettled DEF PageInv
    <2>2. ValueIs(CommittedSets(p), buf[p].val)
      BY <1>1, <2>1, SettledCommitted DEF PageInv
    <2>3. CommittedSets(p) \in SUBSET Int
      BY <1>1, StateFacts DEF CommittedSets, LSNs
    <2> QED BY <2>2, <2>3, ValueIsLast
  <1> QED BY <1>1, Durability, ChainsKept, PagesFollowLog, DataFollowsLog, PTL
=============================================================================
