-------------------------- MODULE RecoveryMgrProofs --------------------------
(***************************************************************************)
(* For every set of pages, number of transactions and bound: types, WAL    *)
(* and the durability of returned commits are invariants of RecoveryMgr.   *)
(* The second part is about chains, CLRs and END records, the last one is  *)
(* about the links that a rollback goes back by.                           *)
(***************************************************************************)
EXTENDS RecoveryMgr, TLAPS

\* The entries the tables are built from are well typed (activetrxtable.go:22).
LEMMA TableTypes ==
    /\ Absent \in Entries /\ EmptyATT \in ATTs /\ EmptyDPT \in DPTs
    /\ \A s \in Statuses, l \in LSN \cup {NoLSN} : Entry(s, l) \in Entries
    /\ TxIdle \in TxRows
  BY DEF Absent, Entries, EmptyATT, ATTs, EmptyDPT, DPTs, Entry, Statuses, LSN, NoLSN,
         TxIdle, TxPCs, TxRows

\* Appending a record (log.go:148) leaves the records before it alone and gives
\* the new one the next LSN.
LEMMA AppendFacts ==
    ASSUME TypeOK, NEW rec \in LogRecords, LogAppend(rec)
    PROVE  /\ log' \in Seq(LogRecords)
           /\ Len(log') = Len(log) + 1 /\ Len(log) \in Nat
           /\ NextLSN = Len(log') /\ NextLSN \in LSN
           /\ \A i \in 1 .. Len(log) : log'[i] = log[i]
           /\ log'[NextLSN] = rec
           /\ flushed' = flushed
  BY DEF TypeOK, LogAppend, NextLSN, LSN

\* A flush (log.go:130) makes the LSN it is given durable and takes nothing back.
LEMMA FlushFacts ==
    ASSUME TypeOK, flushed <= Len(log), NEW lsn \in Int, lsn <= Len(log), LogFlush(lsn)
    PROVE  /\ flushed' \in Nat /\ flushed <= flushed' /\ lsn <= flushed'
           /\ flushed' <= Len(log)
  BY DEF TypeOK, LogFlush

\* A crash keeps a prefix of the log that holds everything durable.
LEMMA PrefixFacts ==
    ASSUME TypeOK, NEW last \in flushed .. Len(log), flushed <= Len(log)
    PROVE  /\ SubSeq(log, 1, last) \in Seq(LogRecords)
           /\ Len(SubSeq(log, 1, last)) = last /\ last \in Nat
  <1>1. last \in Nat /\ last <= Len(log) /\ log \in Seq(LogRecords)
    BY DEF TypeOK
  <1> QED BY <1>1

\* What a page change (setint32record.go:62-84, buffer.go:39) does to the types.
LEMMA ApplyFacts ==
    ASSUME TypeOK, NEW p \in Pages, NEW val \in Nat, NEW lsn \in LSN,
           ApplyToPage(p, val, lsn)
    PROVE  /\ buf' \in [Pages -> [val : Nat, lsn : Nat, recLSN : LSN \cup {NoLSN}]]
           /\ dpt' \in DPTs
           /\ buf'[p].lsn = lsn
           /\ \A q \in Pages : q # p => buf'[q] = buf[q]
  BY DEF TypeOK, ApplyToPage, MarkDirty, DPTs, LSN, NoLSN

\* Every record kind belongs to the log (logrecord.go:13).
LEMMA RecordTypes ==
    ASSUME NEW t \in Txns, NEW prev \in LSN \cup {NoLSN}, NEW p \in Pages,
           NEW old \in Nat, NEW new \in Nat, NEW next \in LSN \cup {NoLSN},
           NEW a \in ATTs, NEW d \in DPTs
    PROVE  /\ StartRec(t) \in LogRecords /\ CommitRec(t, prev) \in LogRecords
           /\ AbortRec(t, prev) \in LogRecords /\ EndRec(t, prev) \in LogRecords
           /\ SetRec(t, prev, p, old, new) \in LogRecords
           /\ CLRRec(t, prev, p, new, next) \in LogRecords
           /\ CkptBeginRec \in LogRecords /\ CkptEndRec(a, d) \in LogRecords
  BY DEF StartRec, CommitRec, AbortRec, EndRec, SetRec, CLRRec, CkptBeginRec, CkptEndRec,
         LogRecords, LSN, NoLSN

\* The fields a record has, by its kind.
LEMMA RecordFields ==
    ASSUME NEW rec \in LogRecords
    PROVE  /\ rec.op = "SET" => /\ rec.page \in Pages /\ rec.old \in Nat /\ rec.new \in Nat
                                /\ rec.prev \in LSN \cup {NoLSN} /\ rec.txn \in Txns
           /\ rec.op = "CLR" => /\ rec.page \in Pages /\ rec.new \in Nat /\ rec.txn \in Txns
                                /\ rec.undoNext \in LSN \cup {NoLSN}
                                /\ rec.prev \in LSN \cup {NoLSN}
           /\ rec.op \in {"START", "COMMIT", "ABORT", "END"} =>
                 rec.txn \in Txns /\ rec.prev \in LSN \cup {NoLSN}
           /\ rec.op = "CKPT_END" => rec.att \in ATTs /\ rec.dpt \in DPTs
  BY DEF LogRecords

-----------------------------------------------------------------------------
\* The initial state satisfies the inductive invariant (simpledb.go:193: a new
\* database has nothing to recover).
LEMMA InitDurability == Init => DurabilityInv
  <1> SUFFICES ASSUME Init PROVE DurabilityInv OBVIOUS
  <1>1. TypeOK
    BY TableTypes DEF Init, TypeOK, CkptIdle, LSN, NoLSN, NoTx
  <1>2. LSNBounds
    BY DEF Init, LSNBounds, TxBounds, PageBounds, TableBounds, WAL, TxIdle, NoLSN, EmptyATT,
           Absent, CkptIdle, LSNs
  <1>3. HandlerRecords /\ CommitDurable
    BY DEF Init, HandlerRecords, HasItsRecord, CommitDurable, ReturnedCommitDurable, TxIdle, CkptIdle, RollbackPCs, CommitPCs
  <1> QED BY <1>1, <1>2, <1>3 DEF DurabilityInv

\* What the type and bounds invariants say of one transaction and of the log.
LEMMA StateFacts ==
    ASSUME DurabilityInv
    PROVE  /\ TypeOK
           /\ NextLSN \in LSN /\ Len(log) \in Nat /\ log \in Seq(LogRecords)
           /\ \A i \in 1 .. Len(log) : log[i] \in LogRecords
           /\ flushed \in Nat /\ flushed <= Len(log)
           /\ \A t \in Txns :
                 /\ tx[t].lsn <= Len(log)
                 /\ tx[t].lsn \in LSN \cup {NoLSN} /\ tx[t].undo \in LSN \cup {NoLSN}
                 /\ att[t] \in Entries /\ att[t].lastLSN \in LSN \cup {NoLSN}
                 /\ recAtt[t] \in Entries /\ recAtt[t].lastLSN \in LSN \cup {NoLSN}
  <1>1. TypeOK /\ LSNBounds
    BY DEF DurabilityInv
  <1>2. log \in Seq(LogRecords) /\ flushed \in Nat /\ flushed <= Len(log)
    BY <1>1 DEF TypeOK, LSNBounds
  <1>3. NextLSN \in LSN /\ Len(log) \in Nat /\ \A i \in 1 .. Len(log) : log[i] \in LogRecords
    BY <1>2 DEF NextLSN, LSN
  <1>4. ASSUME NEW t \in Txns
        PROVE  /\ tx[t].lsn <= Len(log)
               /\ tx[t].lsn \in LSN \cup {NoLSN} /\ tx[t].undo \in LSN \cup {NoLSN}
               /\ att[t] \in Entries /\ att[t].lastLSN \in LSN \cup {NoLSN}
               /\ recAtt[t] \in Entries /\ recAtt[t].lastLSN \in LSN \cup {NoLSN}
    BY <1>1 DEF TypeOK, LSNBounds, TxBounds, ATTs, Entries, TxRows
  <1> QED BY <1>1, <1>2, <1>3, <1>4

\* The counters stay natural numbers.
LEMMA UsedType ==
    ASSUME TypeOK
    PROVE  /\ [used EXCEPT !.starts = @ + 1] \in
                  [starts : Nat, updates : Nat, ckpts : Nat, crashes : Nat]
           /\ [used EXCEPT !.updates = @ + 1] \in
                  [starts : Nat, updates : Nat, ckpts : Nat, crashes : Nat]
           /\ [used EXCEPT !.ckpts = @ + 1] \in
                  [starts : Nat, updates : Nat, ckpts : Nat, crashes : Nat]
           /\ [used EXCEPT !.crashes = @ + 1] \in
                  [starts : Nat, updates : Nat, ckpts : Nat, crashes : Nat]
  <1>1. used \in [starts : Nat, updates : Nat, ckpts : Nat, crashes : Nat]
    BY DEF TypeOK
  <1> QED BY <1>1

\* Moving a transaction inside its handler keeps the type of tx.
LEMMA GotoTypes ==
    ASSUME TypeOK, NEW t \in Txns, NEW pc \in TxPCs,
           NEW lsn \in LSN \cup {NoLSN}, NEW undo \in LSN \cup {NoLSN},
           GotoWith(t, pc, lsn, undo) \/ Goto(t, pc)
    PROVE  tx' \in [Txns -> TxRows]
  <1>1. CASE GotoWith(t, pc, lsn, undo)
    BY <1>1 DEF TypeOK, GotoWith, TxRows
  <1>2. CASE Goto(t, pc)
    <2>1. tx \in [Txns -> TxRows]
      BY DEF TypeOK
    <2>2. tx' = [tx EXCEPT ![t].pc = pc]
      BY <1>2 DEF Goto
    <2> QED BY <2>1, <2>2 DEF TxRows
  <1> QED BY <1>1, <1>2

-----------------------------------------------------------------------------
(***************************************************************************)
(* Types are kept by every step.                                           *)
(***************************************************************************)
\* Starting a transaction keeps the types (recovery.go:51).
LEMMA TxStartType == ASSUME DurabilityInv, NEW t \in Txns, TxStart(t) PROVE TypeOK'
  <1>1. CASE StartLog(t)
    <2>1. log' \in Seq(LogRecords) /\ flushed' = flushed
      <3>1. StartRec(t) \in LogRecords
        BY DEF StartRec, LogRecords
      <3> QED BY <1>1, <3>1, StateFacts, AppendFacts DEF StartLog
    <2>2. GotoWith(t, "new", NextLSN, NoLSN) /\ "new" \in TxPCs
      BY <1>1 DEF StartLog, TxPCs
    <2>3. tx' \in [Txns -> TxRows]
      BY <2>2, StateFacts, GotoTypes
    <2>4. used' \in [starts : Nat, updates : Nat, ckpts : Nat, crashes : Nat]
      BY <1>1, StateFacts, UsedType DEF StartLog
    <2> QED BY <1>1, <2>1, <2>3, <2>4, StateFacts DEF StartLog, TypeOK, pageVars, tblVars, recVars
  <1>2. CASE StartSet(t)
    <2>1. att' \in ATTs
      BY <1>2, StateFacts, TableTypes DEF StartSet, TypeOK, ATTs, Statuses
    <2>2. tx' \in [Txns -> TxRows]
      BY <1>2, StateFacts, GotoTypes DEF StartSet, TxPCs
    <2> QED BY <1>2, <2>1, <2>2, StateFacts DEF StartSet, TypeOK, logVars, pageVars, recVars
  <1> QED BY <1>1, <1>2 DEF TxStart

\* Updating a page keeps the types (recovery.go:193, transaction.go:200).
LEMMA TxUpdateType == ASSUME DurabilityInv, NEW t \in Txns, TxUpdate(t) PROVE TypeOK'
  <1>1. ASSUME NEW p \in Pages, UpdateLog(t, p) PROVE TypeOK'
    <2>1. buf[p].val \in Nat /\ NextLSN \in Nat
      BY StateFacts DEF TypeOK, LSN
    <2>2. SetRec(t, att[t].lastLSN, p, buf[p].val, NextLSN) \in LogRecords
      BY <2>1, StateFacts, TableTypes, RecordTypes
    <2>3. log' \in Seq(LogRecords) /\ flushed' = flushed
      BY <1>1, <2>2, StateFacts, AppendFacts DEF UpdateLog
    <2>4. tx' \in [Txns -> TxRows]
      BY <1>1, StateFacts, GotoTypes DEF UpdateLog, TxPCs
    <2>5. lock' \in [Pages -> Txns \cup {NoTx}]
      BY <1>1, StateFacts DEF UpdateLog, TypeOK
    <2>6. used' \in [starts : Nat, updates : Nat, ckpts : Nat, crashes : Nat]
      BY <1>1, StateFacts, UsedType DEF UpdateLog
    <2> QED BY <1>1, <2>3, <2>4, <2>5, <2>6, StateFacts
            DEF UpdateLog, TypeOK, pageVars, tblVars, recVars
  <1>2. CASE UpdateLink(t)
    <2>1. att' \in ATTs
      BY <1>2, StateFacts DEF UpdateLink, TypeOK, ATTs, Entries
    <2>2. tx' \in [Txns -> TxRows]
      BY <1>2, StateFacts, GotoTypes DEF UpdateLink, TxPCs
    <2> QED BY <1>2, <2>1, <2>2, StateFacts DEF UpdateLink, TypeOK, logVars, pageVars, recVars
  <1>3. CASE UpdatePage(t)
    <2> DEFINE rec == log[tx[t].lsn]
    <2>1. tx[t].lsn \in 1 .. Len(log) /\ rec.op = "SET"
      BY <1>3 DEF UpdatePage, DurabilityInv, HandlerRecords, HasItsRecord, LSNs
    <2>2. rec.page \in Pages /\ rec.new \in Nat /\ tx[t].lsn \in LSN
      BY <2>1, StateFacts, RecordFields DEF LSN
    <2>3. ApplyToPage(rec.page, rec.new, tx[t].lsn)
      BY <1>3 DEF UpdatePage
    <2>4. /\ buf' \in [Pages -> [val : Nat, lsn : Nat, recLSN : LSN \cup {NoLSN}]]
          /\ dpt' \in DPTs
      BY <2>2, <2>3, StateFacts, ApplyFacts
    <2>5. tx' \in [Txns -> TxRows]
      BY <1>3, StateFacts, GotoTypes DEF UpdatePage, TxPCs
    <2> QED BY <1>3, <2>4, <2>5, StateFacts DEF UpdatePage, TypeOK, logVars, recVars
  <1> QED BY <1>1, <1>2, <1>3 DEF TxUpdate

\* The steps of Commit before the END record keep the types (recovery.go:74).
LEMMA TxCommitType == ASSUME DurabilityInv, NEW t \in Txns, TxCommit(t) PROVE TypeOK'
  <1>1. CASE CommitLog(t)
    <2>1. CommitRec(t, att[t].lastLSN) \in LogRecords
      BY StateFacts DEF CommitRec, LogRecords
    <2>2. log' \in Seq(LogRecords) /\ flushed' = flushed
      BY <1>1, <2>1, StateFacts, AppendFacts DEF CommitLog
    <2>3. tx' \in [Txns -> TxRows]
      BY <1>1, StateFacts, GotoTypes DEF CommitLog, TxPCs
    <2> QED BY <1>1, <2>2, <2>3, StateFacts DEF CommitLog, TypeOK, pageVars, tblVars, recVars
  <1>2. CASE CommitFlush(t)
    <2>1. flushed' \in Nat
      BY <1>2, StateFacts DEF CommitFlush, LogFlush, LSN, NoLSN
    <2>2. tx' \in [Txns -> TxRows]
      BY <1>2, StateFacts, GotoTypes DEF CommitFlush, TxPCs
    <2> QED BY <1>2, <2>1, <2>2, StateFacts
            DEF CommitFlush, TypeOK, pageVars, tblVars, recVars
  <1>3. CASE CommitSet(t)
    <2>1. att' \in ATTs
      BY <1>3, StateFacts, TableTypes DEF CommitSet, TypeOK, ATTs, Statuses
    <2>2. tx' \in [Txns -> TxRows]
      BY <1>3, StateFacts, GotoTypes DEF CommitSet, TxPCs
    <2> QED BY <1>3, <2>1, <2>2, StateFacts DEF CommitSet, TypeOK, logVars, pageVars, recVars
  <1> QED BY <1>1, <1>2, <1>3 DEF TxCommit

\* The steps of Rollback around doRollback keep the types (recovery.go:99).
LEMMA TxRollbackType == ASSUME DurabilityInv, NEW t \in Txns, TxRollback(t) PROVE TypeOK'
  <1>1. CASE AbortLog(t)
    <2>1. AbortRec(t, att[t].lastLSN) \in LogRecords
      BY StateFacts DEF AbortRec, LogRecords
    <2>2. log' \in Seq(LogRecords) /\ flushed' = flushed
      BY <1>1, <2>1, StateFacts, AppendFacts DEF AbortLog
    <2>3. tx' \in [Txns -> TxRows]
      BY <1>1, StateFacts, GotoTypes DEF AbortLog, TxPCs
    <2> QED BY <1>1, <2>2, <2>3, StateFacts DEF AbortLog, TypeOK, pageVars, tblVars, recVars
  <1>2. CASE AbortFlush(t)
    <2>1. flushed' \in Nat
      BY <1>2, StateFacts DEF AbortFlush, LogFlush, LSN, NoLSN
    <2>2. tx' \in [Txns -> TxRows]
      BY <1>2, StateFacts, GotoTypes DEF AbortFlush, TxPCs
    <2> QED BY <1>2, <2>1, <2>2, StateFacts
            DEF AbortFlush, TypeOK, pageVars, tblVars, recVars
  <1>3. CASE RollbackSet(t)
    <2>1. Entry("aborting", tx[t].lsn) \in Entries
      BY StateFacts, TableTypes DEF Statuses
    <2>2. att' \in ATTs /\ recAtt' \in ATTs
      <3>1. att \in ATTs /\ recAtt \in ATTs
        BY StateFacts DEF TypeOK
      <3>2. /\ att' = att \/ att' = [att EXCEPT ![t] = Entry("aborting", tx[t].lsn)]
            /\ recAtt' = recAtt \/ recAtt' = [recAtt EXCEPT ![t] = Entry("aborting", tx[t].lsn)]
        BY <1>3 DEF RollbackSet
      <3> QED BY <2>1, <3>1, <3>2 DEF ATTs
    <2>3. tx' \in [Txns -> TxRows]
      <3>1. Goto(t, "abortSet") /\ "abortSet" \in TxPCs
        BY <1>3 DEF RollbackSet, TxPCs
      <3> QED BY <3>1, StateFacts, GotoTypes
    <2> QED BY <1>3, <2>2, <2>3, StateFacts DEF RollbackSet, TypeOK, logVars, pageVars
  <1> QED BY <1>1, <1>2, <1>3 DEF TxRollback

\* One call of doRollback keeps the types (recovery.go:258).
LEMMA DoRollbackType == ASSUME DurabilityInv, NEW t \in Txns, DoRollback(t) PROVE TypeOK'
  <1> DEFINE rec == log[tx[t].undo]
  <1>1. CASE UndoStop(t)
    <2>1. tx' \in [Txns -> TxRows]
      BY <1>1, StateFacts, GotoTypes DEF UndoStop, TxPCs
    <2> QED BY <1>1, <2>1, StateFacts DEF UndoStop, TypeOK, logVars, pageVars, tblVars, recVars
  <1>2. CASE UndoSet(t)
    <2>1. tx[t].undo \in 1 .. Len(log) /\ rec.op = "SET"
      BY <1>2, StateFacts DEF UndoSet, Readable
    <2>2. CLRRec(t, tx[t].lsn, rec.page, rec.old, rec.prev) \in LogRecords
      BY <2>1, StateFacts, RecordFields DEF CLRRec, LogRecords
    <2>3. log' \in Seq(LogRecords) /\ flushed' = flushed
      BY <1>2, <2>2, StateFacts, AppendFacts DEF UndoSet
    <2>4. tx \in [Txns -> TxRows] /\ NextLSN \in LSN
      BY StateFacts DEF TypeOK
    <2>5. tx' \in [Txns -> TxRows]
      <3>1. tx' = [tx EXCEPT ![t].pc = "clr", ![t].lsn = NextLSN] /\ "clr" \in TxPCs
        BY <1>2 DEF UndoSet, TxPCs
      <3> QED BY <2>4, <3>1 DEF TxRows
    <2>6. /\ TypeOK
          /\ UNCHANGED <<disk, buf, lock, att, dpt, master, ckpt, used, phase, recPos, recAtt, recDpt>>
      BY <1>2, StateFacts DEF UndoSet, pageVars, tblVars, recVars
    <2> QED BY <2>3, <2>5, <2>6 DEF TypeOK
  <1>3. CASE UndoSkip(t)
    <2>1. tx[t].undo \in 1 .. Len(log) /\ rec.op \in {"CLR", "COMMIT", "ABORT", "END"}
      BY <1>3, StateFacts DEF UndoSkip, Readable
    <2>2. (IF rec.op = "CLR" THEN rec.undoNext ELSE rec.prev) \in LSN \cup {NoLSN}
      BY <2>1, StateFacts, RecordFields
    <2>3. tx \in [Txns -> TxRows]
      BY StateFacts DEF TypeOK
    <2> DEFINE next == IF rec.op = "CLR" THEN rec.undoNext ELSE rec.prev
    <2>a. tx' = [tx EXCEPT ![t].undo = next] /\ next \in LSN \cup {NoLSN}
      BY <1>3, <2>2 DEF UndoSkip
    <2> HIDE DEF next
    <2>4. tx' \in [Txns -> TxRows]
      BY <2>a, <2>3 DEF TxRows
    <2> QED BY <1>3, <2>4, StateFacts DEF UndoSkip, TypeOK, logVars, pageVars, tblVars, recVars
  <1>4. CASE ClrFlush(t)
    <2>1. flushed' \in Nat
      BY <1>4, StateFacts DEF ClrFlush, LogFlush, LSN, NoLSN
    <2>2. tx' \in [Txns -> TxRows]
      BY <1>4, StateFacts, GotoTypes DEF ClrFlush, TxPCs
    <2> QED BY <1>4, <2>1, <2>2, StateFacts DEF ClrFlush, TypeOK, pageVars, tblVars, recVars
  <1>5. CASE UndoPage(t)
    <2>1. tx[t].undo \in 1 .. Len(log) /\ rec.op = "SET" /\ tx[t].lsn \in LSN
      <3>1. tx[t].pc = "clrFlushed"
        BY <1>5 DEF UndoPage
      <3>2. tx[t].lsn \in LSNs /\ tx[t].undo \in LSNs /\ rec.op = "SET"
        BY <3>1 DEF DurabilityInv, HandlerRecords, HasItsRecord
      <3> QED BY <3>2, StateFacts DEF LSNs, LSN, NoLSN
    <2>2. rec.page \in Pages /\ rec.old \in Nat /\ rec.prev \in LSN \cup {NoLSN}
      BY <2>1, StateFacts, RecordFields
    <2>3. ApplyToPage(rec.page, rec.old, tx[t].lsn)
      BY <1>5 DEF UndoPage
    <2>4. /\ buf' \in [Pages -> [val : Nat, lsn : Nat, recLSN : LSN \cup {NoLSN}]]
          /\ dpt' \in DPTs
      BY <2>1, <2>2, <2>3, StateFacts, ApplyFacts
    <2>5. tx \in [Txns -> TxRows]
      BY StateFacts DEF TypeOK
    <2>6. tx' \in [Txns -> TxRows]
      <3>1. tx' = [tx EXCEPT ![t].pc = "undo", ![t].undo = rec.prev] /\ "undo" \in TxPCs
        BY <1>5 DEF UndoPage, TxPCs
      <3>2. [tx[t] EXCEPT !.pc = "undo", !.undo = rec.prev] \in TxRows
        BY <2>2, <2>5, <3>1 DEF TxRows
      <3> QED BY <2>5, <3>1, <3>2
    <2> QED BY <1>5, <2>4, <2>6, StateFacts DEF UndoPage, TypeOK, logVars, recVars
  <1> QED BY <1>1, <1>2, <1>3, <1>4, <1>5 DEF DoRollback

\* The END record and the release of a transaction keep the types (recovery.go:90).
LEMMA TxEndType == ASSUME DurabilityInv, NEW t \in Txns, TxEnd(t) PROVE TypeOK'
  <1>1. CASE EndLog(t)
    <2>1. EndRec(t, tx[t].lsn) \in LogRecords
      BY StateFacts DEF EndRec, LogRecords
    <2>2. log' \in Seq(LogRecords) /\ flushed' = flushed
      BY <1>1, <2>1, StateFacts, AppendFacts DEF EndLog
    <2>3. tx' \in [Txns -> TxRows]
      BY <1>1, StateFacts, GotoTypes DEF EndLog, TxPCs
    <2> QED BY <1>1, <2>2, <2>3, StateFacts DEF EndLog, TypeOK, pageVars, tblVars, recVars
  <1>2. CASE Finish(t)
    <2>1. att' \in ATTs /\ lock' \in [Pages -> Txns \cup {NoTx}]
      BY <1>2, StateFacts, TableTypes DEF Finish, TypeOK, ATTs
    <2>2. tx' \in [Txns -> TxRows]
      BY <1>2, StateFacts, GotoTypes DEF Finish, TxPCs
    <2> QED BY <1>2, <2>1, <2>2, StateFacts DEF Finish, TypeOK, logVars, pageVars, recVars
  <1> QED BY <1>1, <1>2 DEF TxEnd

\* Checkpoint steps keep the types (recovery.go:127).
LEMMA CheckpointType == ASSUME DurabilityInv, Checkpoint PROVE TypeOK'
  <1> DEFINE Ckpts == [pc : {"idle", "begun", "att", "dpt", "end", "flushed"},
                       begin : LSN \cup {NoLSN}, att : ATTs, dpt : DPTs]
  <1>a. ckpt \in Ckpts /\ att \in ATTs /\ dpt \in DPTs
    BY StateFacts DEF TypeOK
  <1>1. CASE CkptBegin
    <2>1. CkptBeginRec \in LogRecords
      BY DEF CkptBeginRec, LogRecords
    <2>2. log' \in Seq(LogRecords) /\ flushed' = flushed
      BY <1>1, <2>1, StateFacts, AppendFacts DEF CkptBegin
    <2>3. ckpt' \in Ckpts
      BY <1>1, <1>a, StateFacts DEF CkptBegin
    <2>4. used' \in [starts : Nat, updates : Nat, ckpts : Nat, crashes : Nat]
      BY <1>1, StateFacts, UsedType DEF CkptBegin
    <2> QED BY <1>1, <2>2, <2>3, <2>4, StateFacts
            DEF CkptBegin, TypeOK, pageVars, tblVars, recVars
  <1>2. CASE CkptATT
    <2>1. ckpt' \in Ckpts
      BY <1>2, <1>a DEF CkptATT
    <2> QED BY <1>2, <2>1, StateFacts DEF CkptATT, TypeOK, logVars, pageVars, tblVars, recVars
  <1>3. CASE CkptDPT
    <2>1. ckpt' \in Ckpts
      BY <1>3, <1>a DEF CkptDPT
    <2> QED BY <1>3, <2>1, StateFacts DEF CkptDPT, TypeOK, logVars, pageVars, tblVars, recVars
  <1>4. CASE CkptEnd
    <2>1. CkptEndRec(ckpt.att, ckpt.dpt) \in LogRecords
      BY <1>a DEF CkptEndRec, LogRecords
    <2>2. log' \in Seq(LogRecords) /\ flushed' = flushed
      BY <1>4, <2>1, StateFacts, AppendFacts DEF CkptEnd
    <2>3. ckpt' \in Ckpts
      BY <1>4, <1>a DEF CkptEnd, CkptGoto
    <2> QED BY <1>4, <2>2, <2>3, StateFacts DEF CkptEnd, TypeOK, pageVars, tblVars, recVars
  <1>5. CASE CkptFlush
    <2>1. flushed' \in Nat
      BY <1>5, StateFacts DEF CkptFlush, LogFlush
    <2>2. ckpt' \in Ckpts
      BY <1>5, <1>a DEF CkptFlush, CkptGoto
    <2> QED BY <1>5, <2>1, <2>2, StateFacts DEF CkptFlush, TypeOK, pageVars, tblVars, recVars
  <1>6. CASE CkptMaster
    <2>1. master' \in LSN
      BY <1>6 DEF CkptMaster, DurabilityInv, HandlerRecords
    <2>2. ckpt' \in Ckpts
      BY <1>6, TableTypes DEF CkptMaster, CkptIdle
    <2> QED BY <1>6, <2>1, <2>2, StateFacts DEF CkptMaster, TypeOK, pageVars, tblVars, recVars
  <1> QED BY <1>1, <1>2, <1>3, <1>4, <1>5, <1>6 DEF Checkpoint

\* Writing a page keeps the types (buffer.go:76).
LEMMA FlushPageType == ASSUME DurabilityInv, NEW p \in Pages, FlushPage(p) PROVE TypeOK'
  <1>1. /\ disk \in [Pages -> [val : Nat, lsn : Nat]]
        /\ buf \in [Pages -> [val : Nat, lsn : Nat, recLSN : LSN \cup {NoLSN}]]
        /\ dpt \in DPTs
    BY StateFacts DEF TypeOK
  <1>2. flushed' \in Nat
    BY <1>1, StateFacts DEF FlushPage, LogFlush
  <1>3. /\ disk' \in [Pages -> [val : Nat, lsn : Nat]]
        /\ buf' \in [Pages -> [val : Nat, lsn : Nat, recLSN : LSN \cup {NoLSN}]]
        /\ dpt' \in DPTs
    BY <1>1 DEF FlushPage, Clean, DPTs
  <1> QED BY <1>2, <1>3, StateFacts DEF FlushPage, TypeOK, recVars

\* A crash keeps the types: it resets what is volatile.
LEMMA CrashType == ASSUME DurabilityInv, Crash PROVE TypeOK'
  <1>1. PICK last \in flushed .. Len(log) : log' = SubSeq(log, 1, last) /\ flushed' = last
    BY DEF Crash
  <1>2. log' \in Seq(LogRecords) /\ flushed' \in Nat
    BY <1>1, StateFacts, PrefixFacts
  <1>3. disk \in [Pages -> [val : Nat, lsn : Nat]]
    BY StateFacts DEF TypeOK
  <1>4. buf' \in [Pages -> [val : Nat, lsn : Nat, recLSN : LSN \cup {NoLSN}]]
    BY <1>3 DEF Crash, Clean
  <1>5. used' \in [starts : Nat, updates : Nat, ckpts : Nat, crashes : Nat]
    BY StateFacts, UsedType DEF Crash
  <1>6. /\ tx' \in [Txns -> TxRows]
        /\ lock' \in [Pages -> Txns \cup {NoTx}]
        /\ ckpt' \in [pc : {"idle", "begun", "att", "dpt", "end", "flushed"},
                      begin : LSN \cup {NoLSN}, att : ATTs, dpt : DPTs]
    BY TableTypes DEF Crash, CkptIdle, TxRows
  <1> QED BY <1>2, <1>3, <1>4, <1>5, <1>6, StateFacts, TableTypes DEF Crash, TypeOK

\* The analysis of one record keeps the types of the rebuilt tables (recovery.go:309).
LEMMA AnalyzeType ==
    ASSUME DurabilityInv, NEW lsn \in 1 .. Len(log)
    PROVE  AnalyzeATT(log[lsn], lsn) \in ATTs /\ AnalyzeDPT(log[lsn], lsn) \in DPTs
  <1> DEFINE rec == log[lsn]
  <1>1. rec \in LogRecords /\ lsn \in LSN
    BY StateFacts DEF LSN
  <1>2. recAtt \in ATTs /\ recDpt \in DPTs
    BY StateFacts DEF TypeOK
  <1>3. \A s \in Statuses : Entry(s, lsn) \in Entries
    BY <1>1, TableTypes
  <1>4. AnalyzeATT(rec, lsn) \in ATTs
    <2>1. CASE rec.op = "CKPT_END"
      BY <2>1, <1>1, <1>2, RecordFields DEF AnalyzeATT, ATTs
    <2>2. CASE rec.op \in {"START", "END", "COMMIT", "ABORT"}
      BY <2>2, <1>1, <1>2, <1>3, RecordFields, TableTypes DEF AnalyzeATT, ATTs, Statuses
    <2>3. CASE rec.op \in {"SET", "CLR"}
      <3>1. rec.txn \in Txns
        BY <2>3, <1>1, RecordFields
      <3>2. Entry(IF recAtt[rec.txn] = Absent THEN "running" ELSE recAtt[rec.txn].status, lsn)
               \in Entries
        BY <3>1, <1>2, <1>3 DEF ATTs, Entries, Statuses
      <3> QED BY <2>3, <3>1, <3>2, <1>2 DEF AnalyzeATT, SetLastLSN, ATTs
    <2>4. CASE rec.op = "CKPT_BEGIN"
      BY <2>4, <1>2 DEF AnalyzeATT
    <2> QED BY <1>1, <2>1, <2>2, <2>3, <2>4 DEF LogRecords
  <1>5. AnalyzeDPT(rec, lsn) \in DPTs
    <2>1. CASE rec.op = "CKPT_END"
      BY <2>1, <1>1, <1>2, RecordFields DEF AnalyzeDPT, DPTs
    <2>2. CASE rec.op \in {"SET", "CLR"}
      BY <2>2, <1>1, <1>2, RecordFields DEF AnalyzeDPT, MarkDirty, DPTs
    <2>3. CASE rec.op \notin {"CKPT_END", "SET", "CLR"}
      BY <2>3, <1>2 DEF AnalyzeDPT
    <2> QED BY <2>1, <2>2, <2>3
  <1> QED BY <1>4, <1>5

\* The analysis and redo phases keep the types (recovery.go:309, 357).
LEMMA RecoverScanType == ASSUME DurabilityInv, RecoverScan PROVE TypeOK'
  <1>1. CASE Analyze
    <2>1. recAtt' \in ATTs /\ recDpt' \in DPTs /\ recPos' \in LSN
      BY <1>1, StateFacts, AnalyzeType DEF Analyze, LSN
    <2> QED BY <1>1, <2>1, StateFacts DEF Analyze, TypeOK, logVars, pageVars, tblVars
  <1>2. CASE AnalysisDone
    <2>1. recPos' \in LSN /\ phase' \in {"winners", "redo"}
      BY <1>2, StateFacts DEF AnalysisDone, TypeOK, LSN
    <2> QED BY <1>2, <2>1, StateFacts DEF AnalysisDone, TypeOK, logVars, pageVars, tblVars
  <1>3. CASE Redo
    <2> DEFINE rec == log[recPos]
    <2>1. recPos \in 1 .. Len(log) /\ recPos \in LSN /\ recPos' \in LSN /\ rec \in LogRecords
      BY <1>3, StateFacts DEF Redo, LSN
    <2>2. /\ buf' \in [Pages -> [val : Nat, lsn : Nat, recLSN : LSN \cup {NoLSN}]]
          /\ dpt' \in DPTs
      <3>1. CASE NeedsRedo(rec, recPos)
        <4>1. rec.page \in Pages /\ rec.new \in Nat
          BY <3>1, <2>1, RecordFields DEF NeedsRedo
        <4>2. ApplyToPage(rec.page, rec.new, recPos)
          BY <1>3, <3>1 DEF Redo
        <4> QED BY <4>1, <4>2, <2>1, StateFacts, ApplyFacts
      <3>2. CASE ~NeedsRedo(rec, recPos)
        BY <1>3, <3>2, StateFacts DEF Redo, TypeOK
      <3> QED BY <3>1, <3>2
    <2> QED BY <1>3, <2>1, <2>2, StateFacts DEF Redo, TypeOK, logVars
  <1>4. CASE RedoDone
    BY <1>4, StateFacts DEF RedoDone, TypeOK, logVars, pageVars, tblVars
  <1> QED BY <1>1, <1>2, <1>3, <1>4 DEF RecoverScan

\* The END records of winners, the rollback of losers and the hand-over of the
\* rebuilt tables keep the types (recovery.go:405, 430, 171).
LEMMA RecoverTailType ==
    ASSUME DurabilityInv,
           \/ \E t \in Txns : EndWinner(t) \/ RecoverLoser(t)
           \/ WinnersDone \/ RecoverDone
    PROVE  TypeOK'
  <1>1. ASSUME NEW t \in Txns, EndWinner(t) PROVE TypeOK'
    <2>1. EndRec(t, recAtt[t].lastLSN) \in LogRecords
      BY StateFacts DEF EndRec, LogRecords
    <2>2. log' \in Seq(LogRecords) /\ flushed' = flushed
      BY <1>1, <2>1, StateFacts, AppendFacts DEF EndWinner
    <2>3. recAtt' \in ATTs
      BY <1>1, StateFacts, TableTypes DEF EndWinner, TypeOK, ATTs
    <2> QED BY <1>1, <2>2, <2>3, StateFacts DEF EndWinner, TypeOK, pageVars, tblVars
  <1>2. ASSUME NEW t \in Txns, UndoRunningLoser(t) PROVE TypeOK'
    <2>1. AbortRec(t, recAtt[t].lastLSN) \in LogRecords
      BY StateFacts DEF AbortRec, LogRecords
    <2>2. log' \in Seq(LogRecords) /\ flushed' = flushed
      BY <1>2, <2>1, StateFacts, AppendFacts DEF UndoRunningLoser
    <2>3. tx' \in [Txns -> TxRows]
      BY <1>2, StateFacts, GotoTypes DEF UndoRunningLoser, TxPCs
    <2> QED BY <1>2, <2>2, <2>3, StateFacts
            DEF UndoRunningLoser, TypeOK, pageVars, tblVars, recVars
  <1>3. ASSUME NEW t \in Txns, UndoAbortingLoser(t) PROVE TypeOK'
    <2>1. tx' \in [Txns -> TxRows]
      BY <1>3, StateFacts, GotoTypes DEF UndoAbortingLoser, TxPCs
    <2> QED BY <1>3, <2>1, StateFacts
            DEF UndoAbortingLoser, TypeOK, logVars, pageVars, tblVars, recVars
  <1>4. ASSUME NEW t \in Txns, LoserUndone(t) PROVE TypeOK'
    <2>1. recAtt' \in ATTs /\ tx' \in [Txns -> TxRows]
      BY <1>4, StateFacts, TableTypes DEF LoserUndone, TypeOK, ATTs, TxRows
    <2> QED BY <1>4, <2>1, StateFacts DEF LoserUndone, TypeOK, logVars, pageVars, tblVars
  <1>5. CASE WinnersDone
    <2>1. flushed' \in Nat
      BY <1>5, StateFacts DEF WinnersDone, LogFlush
    <2> QED BY <1>5, <2>1, StateFacts DEF WinnersDone, TypeOK, pageVars, tblVars
  <1>6. CASE RecoverDone
    <2>1. flushed' \in Nat
      BY <1>6, StateFacts DEF RecoverDone, LogFlush
    <2> QED BY <1>6, <2>1, StateFacts, TableTypes DEF RecoverDone, TypeOK, pageVars, LSN
  <1> QED BY <1>1, <1>2, <1>3, <1>4, <1>5, <1>6 DEF RecoverLoser

\* Every step keeps the types.
LEMMA NextType == ASSUME DurabilityInv, [Next]_vars PROVE TypeOK'
  <1>1. CASE Idle \/ UNCHANGED vars
    BY <1>1, StateFacts DEF Idle, TypeOK, vars, logVars, pageVars, tblVars, recVars
  <1> QED BY <1>1, TxStartType, TxUpdateType, TxCommitType, TxRollbackType, DoRollbackType,
             TxEndType, CheckpointType, FlushPageType, CrashType, RecoverScanType,
             RecoverTailType
          DEF Next

-----------------------------------------------------------------------------
(***************************************************************************)
(* LSNs stay within the log, and pageLSNs on disk within its durable part. *)
(* The argument is one for every step: the log and its durable part only   *)
(* grow, and a step gives tx and buf LSNs within the new log.              *)
(***************************************************************************)
\* The log and its durable part grow, except in a crash; an entry of the log stays.
LogGrows ==
    /\ Len(log) <= Len(log') /\ Len(log') \in Nat /\ Len(log) \in Nat
    /\ flushed <= flushed' /\ flushed' <= Len(log')
    /\ flushed \in Nat /\ flushed' \in Nat
    /\ \A i \in 1 .. Len(log) : log'[i] = log[i]

\* A step that appends one record or none and flushes nothing.
LEMMA AppendGrows ==
    ASSUME DurabilityInv,
           \/ UNCHANGED <<log, flushed>>
           \/ \E rec \in LogRecords : LogAppend(rec)
    PROVE  LogGrows
  <1>1. CASE UNCHANGED <<log, flushed>>
    BY <1>1, StateFacts DEF LogGrows
  <1>2. ASSUME NEW rec \in LogRecords, LogAppend(rec) PROVE LogGrows
    BY <1>2, StateFacts, AppendFacts DEF LogGrows
  <1> QED BY <1>1, <1>2

\* A step that flushes up to an LSN of the log and appends nothing.
LEMMA FlushGrows ==
    ASSUME DurabilityInv, log' = log, NEW lsn \in Int, lsn <= Len(log), LogFlush(lsn)
    PROVE  LogGrows /\ lsn <= flushed'
  BY StateFacts, FlushFacts DEF LogGrows

\* Every step but a crash makes the log grow.
LEMMA NextGrows == ASSUME DurabilityInv, [Next]_vars PROVE Crash \/ LogGrows
  <1>0. \A t \in Txns : tx[t].lsn \in Int /\ tx[t].lsn <= Len(log)
    BY StateFacts DEF LSN, NoLSN
  <1>1. ASSUME NEW t \in Txns, TxStart(t) PROVE LogGrows
    <2>1. StartRec(t) \in LogRecords
      BY DEF StartRec, LogRecords
    <2> QED BY <1>1, <2>1, AppendGrows DEF TxStart, StartLog, StartSet, logVars
  <1>2. ASSUME NEW t \in Txns, TxUpdate(t) PROVE LogGrows
    <2>1. ASSUME NEW p \in Pages
          PROVE SetRec(t, att[t].lastLSN, p, buf[p].val, NextLSN) \in LogRecords
      <3>1. buf[p].val \in Nat /\ NextLSN \in Nat
        BY StateFacts DEF TypeOK, LSN
      <3> QED BY <3>1, StateFacts, TableTypes, RecordTypes
    <2> QED BY <1>2, <2>1, AppendGrows DEF TxUpdate, UpdateLog, UpdateLink, UpdatePage, logVars
  <1>3. ASSUME NEW t \in Txns, TxCommit(t) PROVE LogGrows
    <2>1. CommitRec(t, att[t].lastLSN) \in LogRecords
      BY StateFacts DEF CommitRec, LogRecords
    <2>2. CASE CommitFlush(t)
      BY <2>2, <1>0, FlushGrows DEF CommitFlush
    <2> QED BY <1>3, <2>1, <2>2, AppendGrows DEF TxCommit, CommitLog, CommitSet, logVars
  <1>4. ASSUME NEW t \in Txns, TxRollback(t) PROVE LogGrows
    <2>1. AbortRec(t, att[t].lastLSN) \in LogRecords
      BY StateFacts DEF AbortRec, LogRecords
    <2>2. CASE AbortFlush(t)
      BY <2>2, <1>0, FlushGrows DEF AbortFlush
    <2> QED BY <1>4, <2>1, <2>2, AppendGrows DEF TxRollback, AbortLog, RollbackSet, logVars
  <1>5. ASSUME NEW t \in Txns, DoRollback(t) PROVE LogGrows
    <2>1. CASE UndoSet(t)
      <3>1. tx[t].undo \in 1 .. Len(log) /\ log[tx[t].undo].op = "SET"
        BY <2>1, StateFacts DEF UndoSet, Readable
      <3>2. CLRRec(t, tx[t].lsn, log[tx[t].undo].page, log[tx[t].undo].old,
                   log[tx[t].undo].prev) \in LogRecords
        BY <3>1, StateFacts, RecordFields DEF CLRRec, LogRecords
      <3> QED BY <2>1, <3>2, AppendGrows DEF UndoSet
    <2>2. CASE ClrFlush(t)
      BY <2>2, <1>0, FlushGrows DEF ClrFlush
    <2> QED BY <1>5, <2>1, <2>2, AppendGrows DEF DoRollback, UndoStop, UndoSkip, UndoPage, logVars
  <1>6. ASSUME NEW t \in Txns, TxEnd(t) PROVE LogGrows
    <2>1. EndRec(t, tx[t].lsn) \in LogRecords
      BY StateFacts DEF EndRec, LogRecords
    <2> QED BY <1>6, <2>1, AppendGrows DEF TxEnd, EndLog, Finish, logVars
  <1>7. CASE Checkpoint
    <2>1. CkptBeginRec \in LogRecords
      BY DEF CkptBeginRec, LogRecords
    <2>2. CkptEndRec(ckpt.att, ckpt.dpt) \in LogRecords
      BY StateFacts DEF CkptEndRec, LogRecords, TypeOK
    <2>3. CASE CkptFlush
      BY <2>3, StateFacts, FlushGrows DEF CkptFlush
    <2> QED BY <1>7, <2>1, <2>2, <2>3, AppendGrows
            DEF Checkpoint, CkptBegin, CkptATT, CkptDPT, CkptEnd, CkptMaster, logVars
  <1>8. ASSUME NEW p \in Pages, FlushPage(p) PROVE LogGrows
    <2>1. buf[p].lsn \in Int /\ buf[p].lsn <= Len(log)
      BY StateFacts DEF TypeOK, DurabilityInv, LSNBounds, PageBounds
    <2> QED BY <1>8, <2>1, FlushGrows DEF FlushPage
  <1>9. CASE RecoverScan
    BY <1>9, AppendGrows DEF RecoverScan, Analyze, AnalysisDone, Redo, RedoDone, logVars
  <1>10. ASSUME NEW t \in Txns, EndWinner(t) \/ RecoverLoser(t) PROVE LogGrows
    <2>1. /\ EndRec(t, recAtt[t].lastLSN) \in LogRecords
          /\ AbortRec(t, recAtt[t].lastLSN) \in LogRecords
      BY StateFacts DEF EndRec, AbortRec, LogRecords
    <2> QED BY <1>10, <2>1, AppendGrows
            DEF EndWinner, RecoverLoser, UndoRunningLoser, UndoAbortingLoser, LoserUndone, logVars
  <1>11. CASE WinnersDone \/ RecoverDone
    BY <1>11, StateFacts, FlushGrows DEF WinnersDone, RecoverDone
  <1>12. CASE Idle \/ UNCHANGED vars
    BY <1>12, AppendGrows DEF Idle, vars, logVars
  <1> QED BY <1>1, <1>2, <1>3, <1>4, <1>5, <1>6, <1>7, <1>8, <1>9, <1>10, <1>11, <1>12
          DEF Next

\* Appending makes the log longer by the record.
LEMMA AppendLen ==
    ASSUME DurabilityInv, NEW rec, LogAppend(rec)
    PROVE  Len(log') = NextLSN /\ NextLSN = Len(log) + 1 /\ log'[NextLSN] = rec
  <1>1. log \in Seq(LogRecords \cup {rec})
    BY StateFacts
  <1> QED BY <1>1 DEF LogAppend, NextLSN

\* A step leaves the LSN a transaction holds alone, clears it, takes it from the
\* rebuilt ATT, or sets it to the record it appends.
LEMMA TxLSNStep ==
    ASSUME DurabilityInv, [Next]_vars, ~Crash, NEW u \in Txns
    PROVE  \/ tx'[u].lsn \in {tx[u].lsn, NoLSN, recAtt[u].lastLSN}
           \/ tx'[u].lsn = NextLSN /\ Len(log') = NextLSN
  <1>0. tx \in [Txns -> TxRows]
    BY StateFacts DEF TypeOK
  <1> DEFINE Goal == \/ tx'[u].lsn \in {tx[u].lsn, NoLSN, recAtt[u].lastLSN}
                     \/ tx'[u].lsn = NextLSN /\ Len(log') = NextLSN
  <1>1. ASSUME NEW t \in Txns, TxStart(t) PROVE Goal
    BY <1>0, <1>1, AppendLen DEF TxStart, StartLog, StartSet, GotoWith
  <1>2. ASSUME NEW t \in Txns, TxUpdate(t) PROVE Goal
    BY <1>0, <1>2, AppendLen DEF TxUpdate, UpdateLog, UpdateLink, UpdatePage, Goto, GotoWith, TxRows
  <1>3. ASSUME NEW t \in Txns, TxCommit(t) PROVE Goal
    BY <1>0, <1>3, AppendLen DEF TxCommit, CommitLog, CommitFlush, CommitSet, Goto, GotoWith, TxRows
  <1>4. ASSUME NEW t \in Txns, TxRollback(t) PROVE Goal
    BY <1>0, <1>4, AppendLen DEF TxRollback, AbortLog, AbortFlush, RollbackSet, Goto, GotoWith, TxRows
  <1>5. ASSUME NEW t \in Txns, DoRollback(t) PROVE Goal
    <2>1. CASE UndoSet(t)
      BY <1>0, <2>1, AppendLen DEF UndoSet, TxRows
    <2>2. CASE UndoStop(t) \/ ClrFlush(t)
      BY <1>0, <2>2 DEF UndoStop, ClrFlush, Goto, TxRows
    <2>3. CASE UndoSkip(t) \/ UndoPage(t)
      BY <1>0, <2>3 DEF UndoSkip, UndoPage, TxRows
    <2> QED BY <1>5, <2>1, <2>2, <2>3 DEF DoRollback
  <1>6. ASSUME NEW t \in Txns, TxEnd(t) PROVE Goal
    BY <1>0, <1>6 DEF TxEnd, EndLog, Finish, Goto, TxRows
  <1>7. ASSUME NEW t \in Txns, EndWinner(t) \/ RecoverLoser(t) PROVE Goal
    BY <1>0, <1>7, AppendLen DEF EndWinner, RecoverLoser, UndoRunningLoser, UndoAbortingLoser,
       LoserUndone, GotoWith, TxIdle
  <1>8. ASSUME UNCHANGED tx PROVE Goal
    BY <1>8
  <1>9. ASSUME NEW p \in Pages, FlushPage(p) PROVE Goal
    BY <1>8, <1>9 DEF FlushPage
  <1>10. CASE Checkpoint
    BY <1>8, <1>10 DEF Checkpoint, CkptBegin, CkptATT, CkptDPT, CkptEnd, CkptFlush, CkptMaster
  <1>11. CASE RecoverScan \/ WinnersDone \/ RecoverDone
    BY <1>8, <1>11 DEF RecoverScan, Analyze, AnalysisDone, Redo, RedoDone, WinnersDone, RecoverDone
  <1>12. CASE Idle \/ UNCHANGED vars
    BY <1>8, <1>12 DEF Idle, vars
  <1> QED BY <1>1, <1>2, <1>3, <1>4, <1>5, <1>6, <1>7, <1>9, <1>10, <1>11, <1>12 DEF Next

\* Every step keeps the LSNs of transactions within the log.
LEMMA NextTxBounds == ASSUME DurabilityInv, [Next]_vars PROVE TxBounds'
  <1>0. /\ \A t \in Txns : tx[t].lsn <= Len(log) /\ tx[t].lsn \in Int
        /\ \A t \in Txns : recAtt[t].lastLSN <= Len(log) /\ recAtt[t].lastLSN \in Int
        /\ Len(log) \in Nat
    BY StateFacts DEF DurabilityInv, LSNBounds, TableBounds, LSN, NoLSN
  <1>1. CASE Crash
    <2>1. PICK last \in flushed .. Len(log) : log' = SubSeq(log, 1, last)
      BY <1>1 DEF Crash
    <2>2. Len(log') \in Nat
      BY <2>1, StateFacts, PrefixFacts
    <2> QED BY <1>1, <2>2 DEF Crash, TxBounds, TxIdle, NoLSN
  <1>2. CASE ~Crash
    <2>1. LogGrows
      BY <1>2, NextGrows
    <2> QED BY <1>0, <1>2, <2>1, TxLSNStep DEF LogGrows, TxBounds, NoLSN
  <1> QED BY <1>1, <1>2

\* Every step keeps the pageLSNs of the buffer pool within the log.
LEMMA NextPageBounds == ASSUME DurabilityInv, [Next]_vars PROVE PageBounds'
  <1>0. /\ \A p \in Pages : buf[p].lsn <= Len(log) /\ buf[p].lsn \in Nat
        /\ \A p \in Pages : disk[p].lsn <= flushed /\ disk[p].lsn \in Nat
        /\ Len(log) \in Nat
    BY StateFacts DEF DurabilityInv, LSNBounds, PageBounds, WAL, TypeOK
  <1>1. CASE Crash
    <2>1. PICK last \in flushed .. Len(log) : log' = SubSeq(log, 1, last)
      BY <1>1 DEF Crash
    <2>2. Len(log') = last /\ last \in Nat /\ flushed <= last /\ flushed \in Nat
      BY <2>1, StateFacts, PrefixFacts
    <2>3. \A p \in Pages : buf'[p].lsn = disk[p].lsn
      BY <1>1 DEF Crash, Clean
    <2> QED BY <1>0, <2>2, <2>3 DEF PageBounds
  <1>2. CASE ~Crash
    <2>1. LogGrows
      BY <1>2, NextGrows
    <2>2. ASSUME UNCHANGED buf PROVE PageBounds'
      BY <1>0, <2>1, <2>2 DEF LogGrows, PageBounds
    <2>3. ASSUME NEW q \in Pages, NEW val \in Nat, NEW lsn \in LSN, lsn <= Len(log),
                 ApplyToPage(q, val, lsn)
          PROVE  PageBounds'
      <3>1. lsn \in Nat /\ \A r \in Pages : buf'[r].lsn = IF r = q THEN lsn ELSE buf[r].lsn
        BY <2>3, StateFacts, ApplyFacts DEF LSN
      <3> QED BY <1>0, <2>1, <2>3, <3>1 DEF LogGrows, PageBounds
    <2>4. ASSUME NEW t \in Txns, UpdatePage(t) PROVE PageBounds'
      <3>1. tx[t].lsn \in 1 .. Len(log) /\ log[tx[t].lsn].op = "SET"
        BY <2>4 DEF UpdatePage, DurabilityInv, HandlerRecords, HasItsRecord, LSNs
      <3>2. log[tx[t].lsn].page \in Pages /\ log[tx[t].lsn].new \in Nat /\ tx[t].lsn \in LSN
        BY <3>1, StateFacts, RecordFields DEF LSN
      <3> QED BY <2>3, <2>4, <3>1, <3>2 DEF UpdatePage
    <2>5. ASSUME NEW t \in Txns, UndoPage(t) PROVE PageBounds'
      <3>1. /\ tx[t].lsn \in 1 .. Len(log) /\ tx[t].undo \in 1 .. Len(log)
            /\ log[tx[t].undo].op = "SET"
        BY <2>5 DEF UndoPage, DurabilityInv, HandlerRecords, HasItsRecord, LSNs
      <3>2. log[tx[t].undo].page \in Pages /\ log[tx[t].undo].old \in Nat /\ tx[t].lsn \in LSN
        BY <3>1, StateFacts, RecordFields DEF LSN
      <3> QED BY <2>3, <2>5, <3>1, <3>2 DEF UndoPage
    <2>6. CASE Redo
      <3>1. recPos \in 1 .. Len(log) /\ recPos \in LSN /\ log[recPos] \in LogRecords
        BY <2>6, StateFacts DEF Redo, LSN
      <3>2. CASE NeedsRedo(log[recPos], recPos)
        <4>1. log[recPos].page \in Pages /\ log[recPos].new \in Nat
          BY <3>1, <3>2, RecordFields DEF NeedsRedo
        <4> QED BY <2>3, <2>6, <3>1, <3>2, <4>1 DEF Redo
      <3>3. CASE ~NeedsRedo(log[recPos], recPos)
        BY <2>2, <2>6, <3>3 DEF Redo
      <3> QED BY <3>2, <3>3
    <2>7. ASSUME NEW p \in Pages, FlushPage(p) PROVE PageBounds'
      <3>1. \A q \in Pages : buf'[q].lsn = buf[q].lsn
        BY <2>7, StateFacts DEF FlushPage, Clean, TypeOK
      <3> QED BY <1>0, <2>1, <3>1 DEF LogGrows, PageBounds
    <2>8. ASSUME NEW t \in Txns,
                 \/ TxStart(t) \/ TxCommit(t) \/ TxRollback(t) \/ TxEnd(t)
                 \/ EndWinner(t) \/ RecoverLoser(t)
          PROVE PageBounds'
      BY <2>2, <2>8 DEF TxStart, StartLog, StartSet, TxCommit, CommitLog, CommitFlush, CommitSet,
         TxRollback, AbortLog, AbortFlush, RollbackSet, TxEnd, EndLog, Finish, EndWinner,
         RecoverLoser, UndoRunningLoser, UndoAbortingLoser, LoserUndone, pageVars
    <2>9. ASSUME NEW t \in Txns, TxUpdate(t) \/ DoRollback(t) PROVE PageBounds'
      BY <2>2, <2>4, <2>5, <2>9 DEF TxUpdate, UpdateLog, UpdateLink, DoRollback, UndoStop,
         UndoSet, UndoSkip, ClrFlush, pageVars
    <2>10. CASE Checkpoint \/ RecoverScan \/ WinnersDone \/ RecoverDone
      BY <2>2, <2>6, <2>10 DEF Checkpoint, CkptBegin, CkptATT, CkptDPT, CkptEnd, CkptFlush,
         CkptMaster, RecoverScan, Analyze, AnalysisDone, RedoDone, WinnersDone, RecoverDone,
         pageVars
    <2>11. CASE Idle \/ UNCHANGED vars
      BY <2>2, <2>11 DEF Idle, vars, pageVars
    <2> QED BY <1>2, <2>7, <2>8, <2>9, <2>10, <2>11 DEF Next
  <1> QED BY <1>1, <1>2

\* Every step keeps write-ahead logging: only FlushPage writes a page, after the log.
LEMMA NextWAL == ASSUME DurabilityInv, [Next]_vars PROVE WAL'
  <1>0. /\ \A p \in Pages : buf[p].lsn <= Len(log) /\ buf[p].lsn \in Nat
        /\ \A p \in Pages : disk[p].lsn <= flushed /\ disk[p].lsn \in Nat
        /\ Len(log) \in Nat
    BY StateFacts DEF DurabilityInv, LSNBounds, PageBounds, WAL, TypeOK
  <1>1. CASE Crash
    BY <1>0, <1>1, StateFacts DEF Crash, WAL
  <1>2. CASE ~Crash
    <2>1. LogGrows
      BY <1>2, NextGrows
    <2>2. ASSUME UNCHANGED disk PROVE WAL'
      BY <1>0, <2>1, <2>2 DEF LogGrows, WAL
    <2>3. ASSUME NEW q \in Pages, FlushPage(q) PROVE WAL'
      <3>1. flushed' \in Nat /\ buf[q].lsn <= flushed' /\ flushed <= flushed'
        BY <1>0, <2>1, <2>3, FlushGrows DEF FlushPage, LogGrows
      <3>2. \A p \in Pages : disk'[p].lsn = IF p = q THEN buf[p].lsn ELSE disk[p].lsn
        BY <2>3, StateFacts DEF FlushPage, TypeOK
      <3> QED BY <1>0, <3>1, <3>2, StateFacts DEF WAL
    <2>4. ASSUME NEW t \in Txns,
                 \/ TxStart(t) \/ TxCommit(t) \/ TxRollback(t) \/ TxEnd(t)
                 \/ EndWinner(t) \/ RecoverLoser(t)
          PROVE WAL'
      BY <2>2, <2>4 DEF TxStart, StartLog, StartSet, TxCommit, CommitLog, CommitFlush, CommitSet,
         TxRollback, AbortLog, AbortFlush, RollbackSet, TxEnd, EndLog, Finish, EndWinner,
         RecoverLoser, UndoRunningLoser, UndoAbortingLoser, LoserUndone, pageVars
    <2>5. ASSUME NEW t \in Txns, TxUpdate(t) \/ DoRollback(t) PROVE WAL'
      BY <2>2, <2>5 DEF TxUpdate, UpdateLog, UpdateLink, UpdatePage, DoRollback, UndoStop,
         UndoSet, UndoSkip, ClrFlush, UndoPage, pageVars
    <2>6. CASE Checkpoint \/ RecoverScan \/ WinnersDone \/ RecoverDone
      BY <2>2, <2>6 DEF Checkpoint, CkptBegin, CkptATT, CkptDPT, CkptEnd, CkptFlush,
         CkptMaster, RecoverScan, Analyze, AnalysisDone, Redo, RedoDone, WinnersDone,
         RecoverDone, pageVars
    <2>7. CASE Idle \/ UNCHANGED vars
      BY <2>2, <2>7 DEF Idle, vars, pageVars
    <2> QED BY <1>2, <2>3, <2>4, <2>5, <2>6, <2>7 DEF Next
  <1> QED BY <1>1, <1>2

\* The tables of the analysis stay within the log (recovery.go:309).
LEMMA AnalyzeBounds ==
    ASSUME DurabilityInv, NEW lsn \in 1 .. Len(log), NEW u \in Txns
    PROVE  AnalyzeATT(log[lsn], lsn)[u].lastLSN <= Len(log)
  <1> DEFINE rec == log[lsn]
  <1>1. rec \in LogRecords /\ lsn \in Nat /\ lsn <= Len(log) /\ Len(log) \in Nat
    BY StateFacts
  <1>2. /\ recAtt \in ATTs /\ recAtt[u].lastLSN <= Len(log)
        /\ rec.op = "CKPT_END" => rec.att[u].lastLSN <= lsn /\ rec.att \in ATTs
    BY <1>1, StateFacts, RecordFields DEF DurabilityInv, LSNBounds, TableBounds, LSNs, TypeOK
  <1>3. CASE rec.op = "CKPT_END"
    <2>1. rec.att[u].lastLSN \in Int
      BY <1>2, <1>3 DEF ATTs, Entries, LSN, NoLSN
    <2> QED BY <1>1, <1>2, <1>3, <2>1 DEF AnalyzeATT
  <1>4. CASE rec.op \in {"START", "END", "COMMIT", "ABORT", "SET", "CLR"}
    BY <1>1, <1>2, <1>4, RecordFields DEF AnalyzeATT, SetLastLSN, ATTs, Entry, Absent, NoLSN
  <1>5. CASE rec.op = "CKPT_BEGIN"
    BY <1>2, <1>5 DEF AnalyzeATT
  <1> QED BY <1>1, <1>3, <1>4, <1>5 DEF LogRecords

\* A step leaves the lastLSN of an ATT entry alone, clears it, or takes it from
\* where the transaction is; the rebuilt ATT also takes it from the record analysed.
LEMMA ATTStep ==
    ASSUME DurabilityInv, [Next]_vars, ~Crash, NEW u \in Txns
    PROVE  /\ att'[u].lastLSN \in {att[u].lastLSN, NoLSN, tx[u].lsn, recAtt[u].lastLSN}
           /\ \/ recAtt'[u].lastLSN \in {recAtt[u].lastLSN, NoLSN, tx[u].lsn}
              \/ Analyze
  <1>0. att \in ATTs /\ recAtt \in ATTs
    BY StateFacts DEF TypeOK
  <1> DEFINE Goal ==
         /\ att'[u].lastLSN \in {att[u].lastLSN, NoLSN, tx[u].lsn, recAtt[u].lastLSN}
         /\ \/ recAtt'[u].lastLSN \in {recAtt[u].lastLSN, NoLSN, tx[u].lsn}
            \/ Analyze
  <1>1. ASSUME UNCHANGED <<att, recAtt>> PROVE Goal
    BY <1>1
  <1>2. ASSUME NEW t \in Txns, TxStart(t) PROVE Goal
    BY <1>0, <1>2 DEF TxStart, StartLog, StartSet, Entry, ATTs, tblVars, recVars
  <1>3. ASSUME NEW t \in Txns, TxUpdate(t) PROVE Goal
    BY <1>0, <1>3 DEF TxUpdate, UpdateLog, UpdateLink, UpdatePage, ATTs, Entries, tblVars, recVars
  <1>4. ASSUME NEW t \in Txns, TxCommit(t) PROVE Goal
    BY <1>0, <1>4 DEF TxCommit, CommitLog, CommitFlush, CommitSet, Entry, ATTs, tblVars, recVars
  <1>5. ASSUME NEW t \in Txns, TxRollback(t) PROVE Goal
    BY <1>0, <1>5 DEF TxRollback, AbortLog, AbortFlush, RollbackSet, Entry, ATTs, tblVars, recVars
  <1>6. ASSUME NEW t \in Txns, TxEnd(t) PROVE Goal
    BY <1>0, <1>6 DEF TxEnd, EndLog, Finish, Absent, ATTs, tblVars, recVars
  <1>7. ASSUME NEW t \in Txns, DoRollback(t) PROVE Goal
    BY <1>1, <1>7 DEF DoRollback, UndoStop, UndoSet, UndoSkip, ClrFlush, UndoPage, tblVars, recVars
  <1>8. ASSUME NEW t \in Txns, EndWinner(t) \/ RecoverLoser(t) PROVE Goal
    BY <1>0, <1>8 DEF EndWinner, RecoverLoser, UndoRunningLoser, UndoAbortingLoser, LoserUndone,
       Absent, ATTs, tblVars, recVars
  <1>9. ASSUME NEW p \in Pages, FlushPage(p) PROVE Goal
    BY <1>1, <1>9 DEF FlushPage, recVars
  <1>10. CASE Checkpoint \/ WinnersDone \/ AnalysisDone \/ Redo \/ RedoDone
    BY <1>1, <1>10 DEF Checkpoint, CkptBegin, CkptATT, CkptDPT, CkptEnd, CkptFlush, CkptMaster,
       WinnersDone, AnalysisDone, Redo, RedoDone, tblVars, recVars
  <1>11. CASE Analyze
    BY <1>11 DEF Analyze, tblVars
  <1>12. CASE RecoverDone
    BY <1>0, <1>12 DEF RecoverDone, EmptyATT, Absent
  <1>13. CASE Idle \/ UNCHANGED vars
    BY <1>1, <1>13 DEF Idle, vars, tblVars, recVars
  <1> QED BY <1>2, <1>3, <1>4, <1>5, <1>6, <1>7, <1>8, <1>9, <1>10, <1>11, <1>12, <1>13
          DEF Next, RecoverScan

\* A step appends no record or one, and the one that ends a checkpoint carries the
\* snapshot of the ATT the checkpoint took.
LEMMA LogStep ==
    ASSUME DurabilityInv, [Next]_vars, ~Crash
    PROVE  \/ log' = log
           \/ /\ Len(log') = Len(log) + 1
              /\ log'[Len(log) + 1].op = "CKPT_END" => log'[Len(log) + 1].att = ckpt.att
  <1> DEFINE Goal ==
         \/ log' = log
         \/ /\ Len(log') = Len(log) + 1
            /\ log'[Len(log) + 1].op = "CKPT_END" => log'[Len(log) + 1].att = ckpt.att
  <1>1. ASSUME NEW rec, LogAppend(rec), rec.op # "CKPT_END" PROVE Goal
    BY <1>1, AppendLen
  <1>2. ASSUME NEW t \in Txns,
               \/ TxStart(t) \/ TxUpdate(t) \/ TxCommit(t) \/ TxRollback(t) \/ TxEnd(t)
               \/ DoRollback(t) \/ EndWinner(t) \/ RecoverLoser(t)
        PROVE Goal
    <2>1. ASSUME NEW p, NEW lsn, NEW old, NEW new, NEW next
          PROVE  /\ StartRec(t).op # "CKPT_END" /\ CommitRec(t, lsn).op # "CKPT_END"
                 /\ AbortRec(t, lsn).op # "CKPT_END" /\ EndRec(t, lsn).op # "CKPT_END"
                 /\ SetRec(t, lsn, p, old, new).op # "CKPT_END"
                 /\ CLRRec(t, lsn, p, new, next).op # "CKPT_END"
      BY DEF StartRec, CommitRec, AbortRec, EndRec, SetRec, CLRRec
    <2>2. CASE TxStart(t)
      BY <1>1, <2>1, <2>2 DEF TxStart, StartLog, StartSet, logVars
    <2>3. CASE TxUpdate(t)
      BY <1>1, <2>1, <2>3 DEF TxUpdate, UpdateLog, UpdateLink, UpdatePage, logVars
    <2>4. CASE TxCommit(t)
      BY <1>1, <2>1, <2>4 DEF TxCommit, CommitLog, CommitFlush, CommitSet, logVars
    <2>5. CASE TxRollback(t)
      BY <1>1, <2>1, <2>5 DEF TxRollback, AbortLog, AbortFlush, RollbackSet, logVars
    <2>6. CASE TxEnd(t)
      BY <1>1, <2>1, <2>6 DEF TxEnd, EndLog, Finish, logVars
    <2>7. CASE DoRollback(t)
      BY <1>1, <2>1, <2>7 DEF DoRollback, UndoStop, UndoSet, UndoSkip, ClrFlush, UndoPage, logVars
    <2>8. CASE EndWinner(t) \/ RecoverLoser(t)
      BY <1>1, <2>1, <2>8 DEF EndWinner, RecoverLoser, UndoRunningLoser, UndoAbortingLoser,
         LoserUndone, logVars
    <2> QED BY <1>2, <2>2, <2>3, <2>4, <2>5, <2>6, <2>7, <2>8
  <1>3. CASE Checkpoint
    <2>1. CASE CkptBegin
      <3>1. CkptBeginRec.op # "CKPT_END"
        BY DEF CkptBeginRec
      <3> QED BY <1>1, <2>1, <3>1 DEF CkptBegin
    <2>2. CASE CkptEnd
      <3>1. CkptEndRec(ckpt.att, ckpt.dpt).att = ckpt.att
        BY DEF CkptEndRec
      <3> QED BY <2>2, <3>1, AppendLen DEF CkptEnd
    <2>3. CASE CkptATT \/ CkptDPT \/ CkptFlush \/ CkptMaster
      BY <2>3 DEF CkptATT, CkptDPT, CkptFlush, CkptMaster, logVars
    <2> QED BY <1>3, <2>1, <2>2, <2>3 DEF Checkpoint
  <1>4. ASSUME NEW p \in Pages, FlushPage(p) PROVE Goal
    BY <1>4 DEF FlushPage
  <1>5. CASE RecoverScan \/ WinnersDone \/ RecoverDone
    BY <1>5 DEF RecoverScan, Analyze, AnalysisDone, Redo, RedoDone, WinnersDone, RecoverDone, logVars
  <1>6. CASE Idle \/ UNCHANGED vars
    BY <1>6 DEF Idle, vars, logVars
  <1> QED BY <1>2, <1>3, <1>4, <1>5, <1>6 DEF Next

\* A step leaves the snapshot of a running checkpoint alone, clears it, or takes
\* it from the ATT.
LEMMA SnapshotStep ==
    ASSUME DurabilityInv, [Next]_vars, ~Crash
    PROVE  ckpt'.att \in {ckpt.att, att, EmptyATT}
  <1>0. ckpt \in [pc : {"idle", "begun", "att", "dpt", "end", "flushed"},
                  begin : LSN \cup {NoLSN}, att : ATTs, dpt : DPTs]
    BY StateFacts DEF TypeOK
  <1>1. ASSUME UNCHANGED ckpt PROVE ckpt'.att \in {ckpt.att, att, EmptyATT}
    BY <1>1
  <1>2. CASE Checkpoint
    <2>1. CASE CkptATT
      BY <1>0, <2>1 DEF CkptATT
    <2>2. CASE CkptBegin
      BY <1>0, <2>2 DEF CkptBegin
    <2>3. CASE CkptDPT
      BY <1>0, <2>3 DEF CkptDPT
    <2>4. CASE CkptEnd \/ CkptFlush
      BY <1>0, <2>4 DEF CkptEnd, CkptFlush, CkptGoto
    <2>5. CASE CkptMaster
      BY <2>5 DEF CkptMaster, CkptIdle
    <2> QED BY <1>2, <2>1, <2>2, <2>3, <2>4, <2>5 DEF Checkpoint
  <1>3. ASSUME NEW t \in Txns,
               \/ TxStart(t) \/ TxCommit(t) \/ TxRollback(t) \/ TxEnd(t)
               \/ EndWinner(t) \/ RecoverLoser(t)
        PROVE UNCHANGED ckpt
    BY <1>3 DEF TxStart, StartLog, StartSet, TxCommit, CommitLog, CommitFlush, CommitSet,
       TxRollback, AbortLog, AbortFlush, RollbackSet, TxEnd, EndLog, Finish, EndWinner,
       RecoverLoser, UndoRunningLoser, UndoAbortingLoser, LoserUndone
  <1>4. ASSUME NEW t \in Txns, TxUpdate(t) \/ DoRollback(t) PROVE UNCHANGED ckpt
    BY <1>4 DEF TxUpdate, UpdateLog, UpdateLink, UpdatePage, DoRollback, UndoStop,
       UndoSet, UndoSkip, ClrFlush, UndoPage
  <1>5. CASE RecoverScan \/ WinnersDone \/ RecoverDone \/ \E p \in Pages : FlushPage(p)
    BY <1>1, <1>5 DEF RecoverScan, Analyze, AnalysisDone, Redo, RedoDone, WinnersDone,
       RecoverDone, FlushPage
  <1>6. CASE Idle \/ UNCHANGED vars
    BY <1>1, <1>6 DEF Idle, vars
  <1> QED BY <1>1, <1>2, <1>3, <1>4, <1>5, <1>6 DEF Next

\* Every step keeps the tables and the checkpoint records within the log.
LEMMA NextTableBounds == ASSUME DurabilityInv, [Next]_vars PROVE TableBounds'
  <1>0. /\ Len(log) \in Nat
        /\ \A t \in Txns :
              /\ att[t].lastLSN <= Len(log) /\ att[t].lastLSN \in Int
              /\ recAtt[t].lastLSN <= Len(log) /\ recAtt[t].lastLSN \in Int
              /\ ckpt.att[t].lastLSN <= Len(log) /\ ckpt.att[t].lastLSN \in Int
              /\ tx[t].lsn <= Len(log) /\ tx[t].lsn \in Int
        /\ \A i \in 1 .. Len(log) : log[i].op = "CKPT_END" =>
              \A t \in Txns : log[i].att[t].lastLSN <= i
    <2>1. \A t \in Txns : ckpt.att[t].lastLSN \in Int
      BY StateFacts DEF TypeOK, ATTs, Entries, LSN, NoLSN
    <2> QED BY <2>1, StateFacts DEF DurabilityInv, LSNBounds, TableBounds, LSNs, LSN, NoLSN
  <1>e. \A t \in Txns : EmptyATT[t].lastLSN = NoLSN
    BY DEF EmptyATT, Absent
  <1>1. CASE Crash
    <2>1. PICK last \in flushed .. Len(log) : log' = SubSeq(log, 1, last)
      BY <1>1 DEF Crash
    <2>2. Len(log') = last /\ last \in Nat /\ last <= Len(log)
      BY <2>1, StateFacts, PrefixFacts
    <2>3. \A i \in 1 .. Len(log') : log'[i] = log[i]
      BY <2>1, <2>2, StateFacts
    <2>4. att' = EmptyATT /\ recAtt' = EmptyATT /\ ckpt'.att = EmptyATT
      BY <1>1 DEF Crash, CkptIdle
    <2> QED BY <1>0, <1>e, <2>2, <2>3, <2>4 DEF TableBounds, LSNs, NoLSN
  <1>2. CASE ~Crash
    <2>1. LogGrows
      BY <1>2, NextGrows
    <2>2. ASSUME NEW u \in Txns
          PROVE  /\ att'[u].lastLSN <= Len(log')
                 /\ recAtt'[u].lastLSN <= Len(log')
                 /\ ckpt'.att[u].lastLSN <= Len(log')
      <3>1. att'[u].lastLSN <= Len(log')
        <4>1. att'[u].lastLSN \in {att[u].lastLSN, NoLSN, tx[u].lsn, recAtt[u].lastLSN}
          BY <1>2, ATTStep
        <4>2. /\ att[u].lastLSN <= Len(log) /\ tx[u].lsn <= Len(log)
              /\ recAtt[u].lastLSN <= Len(log)
          BY <1>0
        <4> QED BY <1>0, <2>1, <4>1, <4>2 DEF LogGrows, NoLSN
      <3>2. recAtt'[u].lastLSN <= Len(log')
        <4>1. CASE Analyze
          BY <4>1, AnalyzeBounds DEF Analyze, logVars
        <4>2. CASE ~Analyze
          BY <1>0, <1>2, <2>1, <4>2, ATTStep DEF LogGrows, NoLSN
        <4> QED BY <4>1, <4>2
      <3>3. ckpt'.att[u].lastLSN <= Len(log')
        BY <1>0, <1>e, <1>2, <2>1, SnapshotStep DEF LogGrows, NoLSN
      <3> QED BY <3>1, <3>2, <3>3
    <2>3. ASSUME NEW i \in 1 .. Len(log'), log'[i].op = "CKPT_END", NEW u \in Txns
          PROVE  log'[i].att[u].lastLSN <= i
      <3>1. CASE i \in 1 .. Len(log)
        BY <1>0, <2>1, <2>3, <3>1 DEF LogGrows
      <3>2. CASE i \notin 1 .. Len(log)
        <4>1. i = Len(log) + 1 /\ log'[i].att = ckpt.att
          BY <1>0, <1>2, <2>1, <2>3, <3>2, LogStep DEF LogGrows
        <4> QED BY <1>0, <4>1
      <3> QED BY <3>1, <3>2
    <2> QED BY <2>2, <2>3 DEF TableBounds, LSNs
  <1> QED BY <1>1, <1>2

-----------------------------------------------------------------------------
(***************************************************************************)
(* The records of the handlers, and the durability of returned commits.    *)
(***************************************************************************)
TxKept(u) == HasItsRecord(u)' /\ ReturnedCommitDurable(u)'

\* A transaction that does not move keeps its record: the log only grows.
LEMMA KeepTx ==
    ASSUME DurabilityInv, LogGrows, NEW u \in Txns, tx'[u] = tx[u],
           phase' = phase \/ phase' # "up"
    PROVE  TxKept(u)
  <1>1. HasItsRecord(u) /\ ReturnedCommitDurable(u)
    BY DEF DurabilityInv, HandlerRecords, CommitDurable
  <1>2. tx[u].lsn \in Int /\ Len(log) \in Nat
    BY StateFacts DEF LSN, NoLSN
  <1>3. HasItsRecord(u)'
    BY <1>1 DEF HasItsRecord, LSNs, LogGrows
  <1>4. ReturnedCommitDurable(u)'
    <2>1. SUFFICES ASSUME phase' = "up",
                          \/ tx[u].pc \in {"commitFlushed", "commitSet"}
                          \/ tx[u].pc \in {"ended", "done"} /\ log'[tx[u].lsn].op = "COMMIT"
                   PROVE  tx[u].lsn <= flushed'
      BY DEF ReturnedCommitDurable
    <2>2. tx[u].pc \in {"ended", "done"} => log'[tx[u].lsn] = log[tx[u].lsn]
      BY <1>1, <2>1 DEF HasItsRecord, CommitPCs, LSNs, LogGrows
    <2>3. tx[u].lsn <= flushed
      BY <1>1, <2>1, <2>2 DEF ReturnedCommitDurable
    <2> QED BY <1>2, <2>3 DEF LogGrows
  <1> QED BY <1>3, <1>4 DEF TxKept

\* A transaction without a handler under way has no record to keep.
LEMMA NoHandlerKept ==
    ASSUME NEW u \in Txns, tx'[u].pc \in {"none", "new", "active"} PROVE TxKept(u)
  BY DEF TxKept, HasItsRecord, ReturnedCommitDurable, RollbackPCs, CommitPCs

\* Starting and updating keep the records of all transactions (recovery.go:51, 193).
LEMMA StartUpdateKept ==
    ASSUME DurabilityInv, [Next]_vars, ~Crash, NEW t \in Txns, TxStart(t) \/ TxUpdate(t),
           NEW u \in Txns
    PROVE  TxKept(u)
  <1>0. tx \in [Txns -> TxRows] /\ LogGrows /\ phase' = phase
    BY StateFacts, NextGrows DEF TypeOK, TxStart, StartLog, StartSet, TxUpdate, UpdateLog,
       UpdateLink, UpdatePage, recVars
  <1>1. CASE u # t
    <2>1. tx'[u] = tx[u]
      BY <1>0, <1>1 DEF TxStart, StartLog, StartSet, TxUpdate, UpdateLog, UpdateLink, UpdatePage,
         Goto, GotoWith
    <2> QED BY <1>0, <2>1, KeepTx
  <1>2. CASE u = t
    <2>1. CASE TxStart(t) \/ UpdatePage(t)
      <3>1. tx'[u].pc \in {"new", "active"}
        BY <1>0, <1>2, <2>1 DEF TxStart, StartLog, StartSet, UpdatePage, GotoWith
      <3> QED BY <3>1, NoHandlerKept
    <2>2. ASSUME NEW p \in Pages, UpdateLog(t, p) PROVE TxKept(u)
      <3>1. tx'[u].pc = "logged" /\ tx'[u].lsn = NextLSN
        BY <1>0, <1>2, <2>2 DEF UpdateLog, GotoWith
      <3>2. NextLSN \in 1 .. Len(log') /\ log'[NextLSN].op = "SET"
        BY <2>2, StateFacts, AppendLen DEF UpdateLog, SetRec
      <3> QED BY <3>1, <3>2
              DEF TxKept, HasItsRecord, ReturnedCommitDurable, RollbackPCs, CommitPCs, LSNs
    <2>3. CASE UpdateLink(t)
      <3>1. tx[u].pc = "logged" /\ tx'[u].pc = "linked" /\ tx'[u].lsn = tx[u].lsn
        BY <1>0, <1>2, <2>3 DEF UpdateLink, Goto, TxRows
      <3>2. tx[u].lsn \in 1 .. Len(log) /\ log[tx[u].lsn].op = "SET"
        BY <3>1 DEF DurabilityInv, HandlerRecords, HasItsRecord, LSNs
      <3> QED BY <1>0, <3>1, <3>2
              DEF TxKept, HasItsRecord, ReturnedCommitDurable, RollbackPCs, CommitPCs, LSNs, LogGrows
    <2> QED BY <2>1, <2>2, <2>3 DEF TxUpdate
  <1> QED BY <1>1, <1>2

\* Committing keeps the records of all transactions, and a commit that goes on
\* after its flush is durable (recovery.go:84).
LEMMA CommitKept ==
    ASSUME DurabilityInv, [Next]_vars, ~Crash, NEW t \in Txns, TxCommit(t), NEW u \in Txns
    PROVE  TxKept(u)
  <1>0. tx \in [Txns -> TxRows] /\ LogGrows /\ phase' = phase
    BY StateFacts, NextGrows DEF TypeOK, TxCommit, CommitLog, CommitFlush, CommitSet, recVars
  <1>1. CASE u # t
    <2>1. tx'[u] = tx[u]
      BY <1>0, <1>1 DEF TxCommit, CommitLog, CommitFlush, CommitSet, Goto, GotoWith
    <2> QED BY <1>0, <2>1, KeepTx
  <1>2. CASE u = t /\ CommitLog(t)
    <2>1. tx'[u].pc = "commit" /\ tx'[u].lsn = NextLSN
      BY <1>0, <1>2 DEF CommitLog, GotoWith
    <2>2. NextLSN \in 1 .. Len(log')
      BY <1>2, StateFacts, AppendLen DEF CommitLog
    <2> QED BY <2>1, <2>2 DEF TxKept, HasItsRecord, ReturnedCommitDurable, RollbackPCs, LSNs
  <1>3. CASE u = t /\ (CommitFlush(t) \/ CommitSet(t))
    <2>1. /\ tx[u].pc \in {"commit", "commitFlushed"} /\ tx'[u].lsn = tx[u].lsn
          /\ tx'[u].pc \in {"commitFlushed", "commitSet"}
      BY <1>0, <1>3 DEF CommitFlush, CommitSet, Goto, TxRows
    <2>2. phase = "up" => tx[u].lsn \in 1 .. Len(log)
      BY <2>1 DEF DurabilityInv, HandlerRecords, HasItsRecord, CommitPCs, LSNs
    <2>3. phase = "up" => tx[u].lsn <= flushed'
      <3>1. CASE CommitFlush(t)
        BY <1>3, <2>2, <3>1, StateFacts, FlushGrows DEF CommitFlush
      <3>2. CASE CommitSet(t)
        <4>1. phase = "up" => tx[u].lsn <= flushed
          BY <1>3, <3>2 DEF CommitSet, DurabilityInv, CommitDurable, ReturnedCommitDurable
        <4>2. flushed' = flushed
          BY <3>2 DEF CommitSet, logVars
        <4> QED BY <4>1, <4>2
      <3> QED BY <1>3, <3>1, <3>2
    <2> QED BY <1>0, <2>1, <2>2, <2>3
            DEF TxKept, HasItsRecord, ReturnedCommitDurable, RollbackPCs, CommitPCs, LSNs, LogGrows
  <1> QED BY <1>1, <1>2, <1>3 DEF TxCommit

\* Rolling back keeps the records of all transactions (recovery.go:99, 258).
LEMMA RollbackKept ==
    ASSUME DurabilityInv, [Next]_vars, ~Crash, NEW t \in Txns, TxRollback(t) \/ DoRollback(t),
           NEW u \in Txns
    PROVE  TxKept(u)
  <1>0. tx \in [Txns -> TxRows] /\ LogGrows /\ phase' = phase
    BY StateFacts, NextGrows DEF TypeOK, TxRollback, AbortLog, AbortFlush, RollbackSet,
       DoRollback, UndoStop, UndoSet, UndoSkip, ClrFlush, UndoPage, recVars
  <1>1. CASE u # t
    <2>1. tx'[u] = tx[u]
      BY <1>0, <1>1 DEF TxRollback, AbortLog, AbortFlush, RollbackSet,
         DoRollback, UndoStop, UndoSet, UndoSkip, ClrFlush, UndoPage, Goto, GotoWith
    <2> QED BY <1>0, <2>1, KeepTx
  <1>2. CASE u = t /\ AbortLog(t)
    <2>1. tx'[u].pc = "abort" /\ tx'[u].lsn = NextLSN
      BY <1>0, <1>2 DEF AbortLog, GotoWith
    <2>2. NextLSN \in 1 .. Len(log') /\ log'[NextLSN].op = "ABORT"
      BY <1>2, StateFacts, AppendLen DEF AbortLog, AbortRec
    <2> QED BY <2>1, <2>2 DEF TxKept, HasItsRecord, ReturnedCommitDurable, CommitPCs, LSNs
  <1>3. CASE u = t /\ UndoSet(t)
    <2>1. /\ tx'[u].pc = "clr" /\ tx'[u].lsn = NextLSN /\ tx'[u].undo = tx[u].undo
          /\ tx[u].undo \in 1 .. Len(log) /\ log[tx[u].undo].op = "SET"
      BY <1>0, <1>3, StateFacts DEF UndoSet, Readable, TxRows
    <2>2. NextLSN \in 1 .. Len(log') /\ log'[NextLSN].op = "CLR"
      BY <1>3, StateFacts, AppendLen DEF UndoSet, CLRRec
    <2> QED BY <1>0, <2>1, <2>2
            DEF TxKept, HasItsRecord, ReturnedCommitDurable, CommitPCs, LSNs, LogGrows
  <1>4. CASE u = t /\ (\/ AbortFlush(t) \/ UndoStop(t) \/ UndoSkip(t) \/ UndoPage(t)
                       \/ RollbackSet(t))
    <2>1. /\ tx[u].pc \in RollbackPCs /\ tx'[u].lsn = tx[u].lsn
          /\ tx'[u].pc \in {"undo", "undone", "abortSet"}
      BY <1>0, <1>4 DEF AbortFlush, UndoStop, UndoSkip, UndoPage, RollbackSet, Goto, TxRows,
         RollbackPCs
    <2>2. phase = "up" => tx[u].lsn \in 1 .. Len(log) /\ log[tx[u].lsn].op \in {"ABORT", "CLR"}
      BY <2>1 DEF DurabilityInv, HandlerRecords, HasItsRecord, LSNs
    <2> QED BY <1>0, <2>1, <2>2
            DEF TxKept, HasItsRecord, ReturnedCommitDurable, CommitPCs, LSNs, LogGrows
  <1>5. CASE u = t /\ ClrFlush(t)
    <2>1. /\ tx[u].pc = "clr" /\ tx'[u].pc = "clrFlushed"
          /\ tx'[u].lsn = tx[u].lsn /\ tx'[u].undo = tx[u].undo
      BY <1>0, <1>5 DEF ClrFlush, Goto, TxRows
    <2>2. /\ tx[u].lsn \in 1 .. Len(log) /\ tx[u].undo \in 1 .. Len(log)
          /\ log[tx[u].undo].op = "SET"
          /\ phase = "up" => log[tx[u].lsn].op \in {"ABORT", "CLR"}
      BY <2>1 DEF DurabilityInv, HandlerRecords, HasItsRecord, RollbackPCs, LSNs
    <2> QED BY <1>0, <2>1, <2>2
            DEF TxKept, HasItsRecord, ReturnedCommitDurable, CommitPCs, LSNs, LogGrows
  <1> QED BY <1>1, <1>2, <1>3, <1>4, <1>5 DEF TxRollback, DoRollback

\* The END record and the release keep the records of all transactions, and the
\* COMMIT record of a returned commit durable (recovery.go:90).
LEMMA EndKept ==
    ASSUME DurabilityInv, [Next]_vars, ~Crash, NEW t \in Txns, TxEnd(t), NEW u \in Txns
    PROVE  TxKept(u)
  <1>0. tx \in [Txns -> TxRows] /\ LogGrows /\ phase' = phase
    BY StateFacts, NextGrows DEF TypeOK, TxEnd, EndLog, Finish, recVars
  <1>1. CASE u # t
    <2>1. tx'[u] = tx[u]
      BY <1>0, <1>1 DEF TxEnd, EndLog, Finish, Goto
    <2> QED BY <1>0, <2>1, KeepTx
  <1>2. CASE u = t
    <2>1. /\ tx[u].pc \in {"commitSet", "abortSet", "ended"} /\ tx'[u].lsn = tx[u].lsn
          /\ tx'[u].pc \in {"ended", "done"}
      BY <1>0, <1>2 DEF TxEnd, EndLog, Finish, Goto, TxRows
    <2>2. HasItsRecord(u) /\ ReturnedCommitDurable(u)
      BY DEF DurabilityInv, HandlerRecords, CommitDurable
    <2>3. phase = "up" => tx[u].lsn \in 1 .. Len(log) /\ log'[tx[u].lsn] = log[tx[u].lsn]
      BY <1>0, <2>1, <2>2 DEF HasItsRecord, RollbackPCs, CommitPCs, LSNs, LogGrows
    <2>4. phase = "up" /\ log'[tx[u].lsn].op = "COMMIT" => tx[u].lsn <= flushed'
      <3>1. SUFFICES ASSUME phase = "up", log[tx[u].lsn].op = "COMMIT"
                     PROVE  tx[u].lsn <= flushed
        BY <1>0, <2>3 DEF LogGrows
      <3> QED BY <2>1, <2>2, <3>1 DEF HasItsRecord, ReturnedCommitDurable, RollbackPCs
    <2> QED BY <1>0, <2>1, <2>3, <2>4
            DEF TxKept, HasItsRecord, ReturnedCommitDurable, RollbackPCs, CommitPCs, LSNs, LogGrows
  <1> QED BY <1>1, <1>2

\* The steps of Recover, checkpoints and page writes keep the records of all
\* transactions: recovery returns with no handler under way (recovery.go:149).
LEMMA OtherStepsKept ==
    ASSUME DurabilityInv, [Next]_vars, ~Crash, NEW u \in Txns,
           \/ \E t \in Txns : EndWinner(t) \/ RecoverLoser(t)
           \/ \E p \in Pages : FlushPage(p)
           \/ Checkpoint \/ RecoverScan \/ WinnersDone \/ RecoverDone \/ Idle \/ UNCHANGED vars
    PROVE  TxKept(u)
  <1>0. tx \in [Txns -> TxRows] /\ LogGrows
    BY StateFacts, NextGrows DEF TypeOK
  <1>1. CASE tx'[u] = tx[u] /\ (phase' = phase \/ phase' # "up")
    BY <1>0, <1>1, KeepTx
  <1>2. CASE RecoverDone
    <2>1. tx'[u].pc = "none"
      BY <1>2 DEF RecoverDone, NoUndoRunning
    <2> QED BY <2>1, NoHandlerKept
  <1>3. ASSUME NEW t \in Txns, UndoRunningLoser(t) \/ UndoAbortingLoser(t) PROVE TxKept(u)
    <2>1. CASE u # t
      <3>1. tx'[u] = tx[u] /\ phase' = phase
        BY <1>0, <1>3, <2>1 DEF UndoRunningLoser, UndoAbortingLoser, GotoWith, recVars
      <3> QED BY <1>1, <3>1
    <2>2. CASE u = t
      <3>1. tx'[u].pc \in {"abort", "undo"} /\ phase' = "undo"
        BY <1>0, <1>3, <2>2 DEF UndoRunningLoser, UndoAbortingLoser, GotoWith, recVars
      <3> QED BY <3>1 DEF TxKept, HasItsRecord, ReturnedCommitDurable
    <2> QED BY <2>1, <2>2
  <1>4. ASSUME NEW t \in Txns, LoserUndone(t) PROVE TxKept(u)
    <2>1. CASE u # t
      <3>1. tx'[u] = tx[u] /\ phase' = phase
        BY <1>0, <1>4, <2>1 DEF LoserUndone
      <3> QED BY <1>1, <3>1
    <2>2. CASE u = t
      <3>1. tx'[u].pc = "none"
        BY <1>0, <1>4, <2>2 DEF LoserUndone, TxIdle
      <3> QED BY <3>1, NoHandlerKept
    <2> QED BY <2>1, <2>2
  <1>5. CASE \/ \E t \in Txns : EndWinner(t)
             \/ \E p \in Pages : FlushPage(p)
             \/ RecoverScan \/ WinnersDone \/ Idle \/ UNCHANGED vars
    <2>1. tx' = tx /\ (phase' = phase \/ phase' # "up")
      BY <1>5 DEF EndWinner, FlushPage, RecoverScan, Analyze, AnalysisDone, Redo, RedoDone,
         WinnersDone, Idle, vars, recVars
    <2> QED BY <1>1, <2>1
  <1>6. CASE Checkpoint
    <2>1. tx' = tx /\ phase' = phase
      BY <1>6 DEF Checkpoint, CkptBegin, CkptATT, CkptDPT, CkptEnd, CkptFlush, CkptMaster, recVars
    <2> QED BY <1>1, <2>1
  <1> QED BY <1>2, <1>3, <1>4, <1>5, <1>6 DEF RecoverLoser

\* A running checkpoint knows the LSN of its BEGIN record (recovery.go:128).
LEMMA CkptBeginKept ==
    ASSUME DurabilityInv, [Next]_vars PROVE ckpt'.pc # "idle" => ckpt'.begin \in LSN
  <1>0. /\ ckpt \in [pc : {"idle", "begun", "att", "dpt", "end", "flushed"},
                     begin : LSN \cup {NoLSN}, att : ATTs, dpt : DPTs]
        /\ ckpt.pc # "idle" => ckpt.begin \in LSN
        /\ NextLSN \in LSN
    BY StateFacts DEF TypeOK, DurabilityInv, HandlerRecords
  <1>1. CASE UNCHANGED ckpt
    BY <1>0, <1>1
  <1>2. CASE CkptBegin
    BY <1>0, <1>2 DEF CkptBegin
  <1>3. CASE CkptATT
    BY <1>0, <1>3 DEF CkptATT
  <1>4. CASE CkptDPT
    BY <1>0, <1>4 DEF CkptDPT
  <1>5. CASE CkptEnd \/ CkptFlush
    BY <1>0, <1>5 DEF CkptEnd, CkptFlush, CkptGoto
  <1>6. CASE CkptMaster \/ Crash
    BY <1>6 DEF CkptMaster, Crash, CkptIdle
  <1>7. ASSUME NEW t \in Txns,
               \/ TxStart(t) \/ TxCommit(t) \/ TxRollback(t) \/ TxEnd(t)
               \/ EndWinner(t) \/ RecoverLoser(t)
        PROVE UNCHANGED ckpt
    BY <1>7 DEF TxStart, StartLog, StartSet, TxCommit, CommitLog, CommitFlush, CommitSet,
       TxRollback, AbortLog, AbortFlush, RollbackSet, TxEnd, EndLog, Finish, EndWinner,
       RecoverLoser, UndoRunningLoser, UndoAbortingLoser, LoserUndone
  <1>8. ASSUME NEW t \in Txns, TxUpdate(t) \/ DoRollback(t) PROVE UNCHANGED ckpt
    BY <1>8 DEF TxUpdate, UpdateLog, UpdateLink, UpdatePage, DoRollback, UndoStop,
       UndoSet, UndoSkip, ClrFlush, UndoPage
  <1>9. CASE \/ RecoverScan \/ WinnersDone \/ RecoverDone \/ Idle \/ UNCHANGED vars
             \/ \E p \in Pages : FlushPage(p)
    BY <1>1, <1>9 DEF RecoverScan, Analyze, AnalysisDone, Redo, RedoDone, WinnersDone,
       RecoverDone, FlushPage, Idle, vars
  <1> QED BY <1>1, <1>2, <1>3, <1>4, <1>5, <1>6, <1>7, <1>8, <1>9 DEF Next, Checkpoint

\* The invariant is inductive.
LEMMA NextDurability == DurabilityInv /\ [Next]_vars => DurabilityInv'
  <1> SUFFICES ASSUME DurabilityInv, [Next]_vars PROVE DurabilityInv'
    OBVIOUS
  <1>1. TypeOK'
    BY NextType
  <1>2. LSNBounds'
    <2>1. (flushed <= Len(log))'
      <3>1. CASE Crash
        <4>1. PICK last \in flushed .. Len(log) : log' = SubSeq(log, 1, last) /\ flushed' = last
          BY <3>1 DEF Crash
        <4> QED BY <4>1, StateFacts, PrefixFacts
      <3>2. CASE ~Crash
        BY <3>2, NextGrows DEF LogGrows
      <3> QED BY <3>1, <3>2
    <2> QED BY <2>1, NextTxBounds, NextPageBounds, NextTableBounds, NextWAL DEF LSNBounds
  <1>3. ASSUME NEW u \in Txns PROVE TxKept(u)
    <2>1. CASE Crash
      <3>1. tx'[u].pc = "none"
        BY <2>1 DEF Crash, TxIdle
      <3> QED BY <3>1, NoHandlerKept
    <2>2. CASE ~Crash
      BY <2>2, StartUpdateKept, CommitKept, RollbackKept, EndKept, OtherStepsKept DEF Next
    <2> QED BY <2>1, <2>2
  <1>4. HandlerRecords' /\ CommitDurable'
    BY <1>3, CkptBeginKept DEF TxKept, HandlerRecords, CommitDurable
  <1> QED BY <1>1, <1>2, <1>4 DEF DurabilityInv

-----------------------------------------------------------------------------
\* The inductive invariant of transactions, checkpoints, crashes and recovery.
THEOREM Durability == Spec => []DurabilityInv
  <1> QED BY InitDurability, NextDurability, PTL DEF Spec

\* Every variable keeps its type, whatever crashes interrupt (recovery.go:149).
THEOREM TypesKept == Spec => []TypeOK
  <1>1. DurabilityInv => TypeOK
    BY DEF DurabilityInv
  <1> QED BY <1>1, Durability, PTL

\* Write-ahead logging: no page is on disk whose last change is not durable in
\* the log (buffer.go:76).
THEOREM WriteAheadLogging == Spec => []WAL
  <1>1. DurabilityInv => WAL
    BY DEF DurabilityInv, LSNBounds
  <1> QED BY <1>1, Durability, PTL

\* A commit that returns is durable: its COMMIT record cannot be lost (recovery.go:84).
THEOREM CommitsAreDurable == Spec => []CommitDurable
  <1>1. DurabilityInv => CommitDurable
    BY DEF DurabilityInv
  <1> QED BY <1>1, Durability, PTL
-----------------------------------------------------------------------------
(***************************************************************************)
(* The log RecoveryMgr works on is a DurableLog.                           *)
(***************************************************************************)
\* A step appends one record, or flushes, or leaves the log alone.
LogUse ==
    \/ \E rec : LogAppend(rec)
    \/ log' = log /\ \E lsn : LogFlush(lsn)
    \/ UNCHANGED <<log, flushed>>

\* Every step but a crash uses the log through Append and Flush only.
LEMMA NextLogUse == ASSUME [Next]_vars PROVE Crash \/ LogUse
  <1>1. ASSUME NEW t \in Txns, TxStart(t) \/ TxUpdate(t) PROVE LogUse
    BY <1>1 DEF LogUse, TxStart, StartLog, StartSet, TxUpdate, UpdateLog, UpdateLink, UpdatePage,
       logVars
  <1>2. ASSUME NEW t \in Txns, TxCommit(t) \/ TxEnd(t) PROVE LogUse
    BY <1>2 DEF LogUse, TxCommit, CommitLog, CommitFlush, CommitSet, TxEnd, EndLog, Finish, logVars
  <1>3. ASSUME NEW t \in Txns, TxRollback(t) \/ DoRollback(t) PROVE LogUse
    BY <1>3 DEF LogUse, TxRollback, AbortLog, AbortFlush, RollbackSet, DoRollback, UndoStop,
       UndoSet, UndoSkip, ClrFlush, UndoPage, logVars
  <1>4. CASE Checkpoint
    BY <1>4 DEF LogUse, Checkpoint, CkptBegin, CkptATT, CkptDPT, CkptEnd, CkptFlush, CkptMaster,
       logVars
  <1>5. ASSUME NEW p \in Pages, FlushPage(p) PROVE LogUse
    BY <1>5 DEF LogUse, FlushPage
  <1>6. CASE RecoverScan \/ WinnersDone \/ RecoverDone
    BY <1>6 DEF LogUse, RecoverScan, Analyze, AnalysisDone, Redo, RedoDone, WinnersDone,
       RecoverDone, logVars
  <1>7. ASSUME NEW t \in Txns, EndWinner(t) \/ RecoverLoser(t) PROVE LogUse
    BY <1>7 DEF LogUse, EndWinner, RecoverLoser, UndoRunningLoser, UndoAbortingLoser,
       LoserUndone, logVars
  <1>8. CASE Idle \/ UNCHANGED vars
    BY <1>8 DEF LogUse, Idle, vars, logVars
  <1> QED BY <1>1, <1>2, <1>3, <1>4, <1>5, <1>6, <1>7, <1>8 DEF Next

\* Every step is one of the abstract log, or leaves it alone.
LEMMA NextDurableLog == ASSUME DurabilityInv, [Next]_vars PROVE [Log!Next]_<<log, flushed>>
  <1>1. log \in Seq(LogRecords) /\ flushed \in Nat /\ flushed <= Len(log) /\ Len(log) \in Nat
    BY StateFacts
  <1>2. CASE Crash
    <2>1. PICK n \in flushed .. Len(log) : log' = SubSeq(log, 1, n) /\ flushed' = n
      BY <1>2 DEF Crash
    <2> QED BY <2>1 DEF Log!Next, Log!Crash
  <1>3. ASSUME NEW rec, LogAppend(rec) PROVE Log!Extend
    <2>1. log \in Seq(LogRecords \cup {rec})
      BY <1>1
    <2>2. log' = Append(log, rec) /\ flushed' = flushed
      BY <1>3 DEF LogAppend
    <2>3. Len(log') = Len(log) + 1 /\ SubSeq(log', 1, Len(log)) = log
      BY <2>1, <2>2
    <2> QED BY <2>2, <2>3 DEF Log!Extend
  <1>4. CASE ~Crash /\ log' = log
    <2>1. flushed' \in Nat /\ flushed <= flushed' /\ flushed' <= Len(log)
      BY <1>4, NextGrows DEF LogGrows
    <2> QED BY <1>1, <1>4, <2>1 DEF Log!Next, Log!Sync
  <1> QED BY <1>2, <1>3, <1>4, NextLogUse DEF LogUse, Log!Next

\* The recovery manager relies on no more of its log than DurableLog promises: it
\* only grows at its end, and a crash takes nothing that was flushed (log.go:130, 148).
THEOREM UsesDurableLog == Spec => RefinesDurableLog
  <1>1. Init => Log!Init
    BY DEF Init, Log!Init
  <1>2. DurabilityInv /\ [Next]_vars => [Log!Next]_<<log, flushed>>
    BY NextDurableLog
  <1>3. [Log!Next]_<<log, flushed>> => [Log!Next]_Log!vars
    BY DEF Log!vars
  <1> QED BY <1>1, <1>2, <1>3, Durability, PTL DEF Spec, RefinesDurableLog, Log!Spec

-----------------------------------------------------------------------------
(***************************************************************************)
(* What the log says of its transactions, when no handler overlaps a       *)
(* checkpoint: their records form chains, a rollback undoes each update    *)
(* once and leaves none, through any number of crashes.                    *)
(***************************************************************************)

RecOf(i, t) == IsTxRec(i) /\ log[i].txn = t

\* Record i is the last one of transaction number t among the first n.
LastOf(i, t, n) == i \in 1 .. n /\ RecOf(i, t) /\ \A k \in i + 1 .. n : ~RecOf(k, t)
Resolved(t, n) == \A i \in 1 .. n : LastOf(i, t, n) => log[i].op = "END"

\* The update i has a CLR among the records up to j.
Compensated(i, j) ==
    \E k \in i .. j : log[k].op = "CLR" /\ SameTx(i, k) /\ log[k].undoNext = log[i].prev

\* The entry that the analysis of the first n records gives transaction t.
StatusAfter(op) ==
    IF op \in {"START", "SET"} THEN "running" ELSE IF op = "COMMIT" THEN "commited" ELSE "aborting"
EntryAt(e, t, n) ==
    \/ e = Absent /\ Resolved(t, n)
    \/ /\ LastOf(e.lastLSN, t, n) /\ log[e.lastLSN].op # "END"
       /\ e.status = StatusAfter(log[e.lastLSN].op)
TableAt(a, n) == \A t \in Txns : EntryAt(a[t], t, n)

(***************************************************************************)
(* Each record against those before it.                                    *)
(***************************************************************************)
ChainOk(j) ==
    /\ log[j].prev \in 1 .. j - 1 /\ SameTx(log[j].prev, j)
    /\ \A i \in 1 .. j - 1 : SameTx(i, j) => i <= log[j].prev

\* Records i and, later, j of one transaction.
MayFollow(i, j) ==
    /\ log[i].op # "END"
    /\ log[j].op \in {"SET", "COMMIT", "ABORT"} => log[i].op \in {"START", "SET"}
    /\ log[j].op = "CLR" => log[i].op # "COMMIT"
    /\ log[j].op = "CLR" /\ log[i].op = "CLR" => log[j].undoNext < log[i].undoNext

\* What is behind undoNext has its CLR.
ClrOk(j) ==
    LET u == log[j].undoNext
    IN  /\ log[log[j].prev].op \in {"ABORT", "CLR"}
        /\ u \in 1 .. j - 1 /\ SameTx(u, j) /\ log[u].op \in {"START", "SET"}
        /\ \A s \in u + 1 .. j : log[s].op = "SET" /\ SameTx(s, j) => Compensated(s, j)

EndOk(j) ==
    \A s \in 1 .. j : log[s].op = "SET" /\ SameTx(s, j) =>
        \/ \E k \in s + 1 .. j : log[k].op = "COMMIT" /\ SameTx(s, k)
        \/ Compensated(s, j)

RecordOk(j) ==
    /\ IsTxRec(j) /\ log[j].op # "START" => ChainOk(j)
    /\ \A i \in 1 .. j - 1 : SameTx(i, j) => MayFollow(i, j)
    /\ log[j].op = "CLR" => ClrOk(j)
    /\ log[j].op = "END" => EndOk(j)
    /\ log[j].op = "CKPT_END" => TableAt(log[j].att, j)

LogOk == \A j \in LSNs : RecordOk(j)

(***************************************************************************)
(* Each handler against the log.                                           *)
(***************************************************************************)
\* A rollback whose last record is l has come down to record u.
DownTo(u, l) ==
    /\ u \in 1 .. l - 1 /\ SameTx(u, l) /\ log[u].op \in {"START", "SET"}
    /\ \A c \in 1 .. l : log[c].op = "CLR" /\ SameTx(c, l) => u <= log[c].undoNext
    /\ \A s \in u + 1 .. l : log[s].op = "SET" /\ SameTx(s, l) => Compensated(s, l)

AllUndone(l) == \A s \in 1 .. l : log[s].op = "SET" /\ SameTx(s, l) => Compensated(s, l)

Here(t, ops) == LastOf(tx[t].lsn, t, Len(log)) /\ log[tx[t].lsn].op \in ops

UndoAt(t) ==
    /\ tx[t].pc = "abort" => Here(t, {"ABORT"}) /\ tx[t].undo = log[tx[t].lsn].prev
    /\ tx[t].pc = "undo" =>
          /\ Here(t, {"ABORT", "CLR"}) /\ tx[t].undo <= flushed
          /\ tx[t].undo = tx[t].lsn \/ DownTo(tx[t].undo, tx[t].lsn)
    /\ tx[t].pc \in {"clr", "clrFlushed"} =>
          /\ Here(t, {"CLR"}) /\ tx[t].undo <= flushed
          /\ tx[t].undo \in LSNs /\ log[tx[t].undo].op = "SET" /\ SameTx(tx[t].undo, tx[t].lsn)
          /\ log[tx[t].lsn].undoNext = log[tx[t].undo].prev
    /\ tx[t].pc \in {"undone", "abortSet"} => Here(t, {"ABORT", "CLR"}) /\ AllUndone(tx[t].lsn)
    /\ tx[t].pc = "ended" => Resolved(t, Len(log))

WorkAt(t) ==
    /\ tx[t].pc \in {"none", "new", "done"} => att[t] = Absent
    /\ tx[t].pc \in {"none", "done"} => Resolved(t, Len(log))
    /\ tx[t].pc = "new" => Here(t, {"START"})
    /\ tx[t].pc = "active" =>
          /\ att[t].status = "running" /\ LastOf(att[t].lastLSN, t, Len(log))
          /\ log[att[t].lastLSN].op \in {"START", "SET"}
    /\ tx[t].pc \in {"logged", "linked"} => att[t].status = "running" /\ Here(t, {"SET"})
    /\ tx[t].pc = "linked" => att[t].lastLSN = tx[t].lsn
    /\ tx[t].pc \in {"commit", "commitFlushed", "commitSet"} => Here(t, {"COMMIT"})

UndoPCs == RollbackPCs \cup {"ended"}

\* The undo phase still has to take up t, or has begun to.
LoserAt(t) ==
    /\ tx[t].pc \in UndoPCs \cup {"none"}
    /\ tx[t].pc # "none" => phase = "undo"
    /\ tx[t].pc = "none" => EntryAt(recAtt[t], t, Len(log))
    /\ phase = "undo" /\ tx[t].pc = "none" => recAtt[t].lastLSN <= flushed

TxAt(t) ==
    /\ UndoAt(t)
    /\ phase = "up" => WorkAt(t)
    /\ phase \in {"redo", "winners", "undo"} => LoserAt(t)
    /\ phase = "analysis" => tx[t].pc = "none"
    /\ phase # "up" => att[t] = Absent

(***************************************************************************)
(* The checkpoint, the log header and the analysis.                        *)
(***************************************************************************)
CkptPair(b) ==
    /\ b \in LSNs /\ log[b].op = "CKPT_BEGIN"
    /\ b + 1 \in LSNs /\ log[b + 1].op = "CKPT_END"

CkptAt ==
    /\ ckpt.pc # "idle" => phase = "up" /\ \A t \in Txns : tx[t].pc \in AtRest
    /\ ckpt.pc \in {"begun", "att", "dpt"} =>
          ckpt.begin = Len(log) /\ ckpt.begin \in LSNs /\ log[ckpt.begin].op = "CKPT_BEGIN"
    /\ ckpt.pc \in {"att", "dpt"} => TableAt(ckpt.att, Len(log))
    /\ ckpt.pc \in {"end", "flushed"} => CkptPair(ckpt.begin) /\ Len(log) = ckpt.begin + 1
    /\ ckpt.pc = "flushed" => ckpt.begin < flushed

HeaderAt == master # 1 => CkptPair(master) /\ master < flushed

AnalysisAt ==
    phase = "analysis" =>
        /\ recPos \in 1 .. Len(log) + 1
        /\ \/ TableAt(recAtt, recPos - 1)
           \/ recAtt = EmptyATT /\ master # 1 /\ recPos \in {master, master + 1}

ChainInv ==
    /\ LogOk /\ CkptAt /\ HeaderAt /\ AnalysisAt
    /\ \A t \in Txns : TxAt(t)

-----------------------------------------------------------------------------
(* Lemmas on chains of records. *)

\* A transaction's records are of one transaction with each other.
LEMMA SameTxTrans ==
    ASSUME NEW i \in Int, NEW j \in Int, NEW k \in Int, i <= j, j <= k, SameTx(i, j), SameTx(j, k)
    PROVE  SameTx(i, k)
  <1>1. \A m \in i + 1 .. k : m \in i + 1 .. j \/ m \in j + 1 .. k
    OBVIOUS
  <1> QED BY <1>1 DEF SameTx

\* The records of a transaction between two of its records are of it as well.
LEMMA SameTxSplit ==
    ASSUME NEW i \in Int, NEW j \in Int, NEW k \in Int, i <= j, j <= k, SameTx(i, k),
           IsTxRec(j), log[j].txn = log[i].txn
    PROVE  SameTx(i, j) /\ SameTx(j, k)
  <1>1. i + 1 .. j \subseteq i + 1 .. k /\ j + 1 .. k \subseteq i + 1 .. k
    OBVIOUS
  <1> QED BY <1>1 DEF SameTx

\* Nothing of the transaction is behind its last record.
LEMMA LastSame ==
    ASSUME NEW n \in Nat, NEW t, NEW l, LastOf(l, t, n), NEW i \in 1 .. n, RecOf(i, t)
    PROVE  l \in 1 .. n /\ i <= l
  BY DEF LastOf

\* A transaction has one last record.
LEMMA LastUnique ==
    ASSUME NEW n \in Nat, NEW t, NEW l, NEW m, LastOf(l, t, n), LastOf(m, t, n)
    PROVE  l = m
  BY DEF LastOf

\* What two logs with a common prefix say of that prefix.
CommonPrefix(n) == n \in 0 .. Len(log) /\ n \in 0 .. Len(log') /\ \A i \in 1 .. n : log'[i] = log[i]

\* What is said of the records of the common prefix holds of both logs.
LEMMA SameInPrefix ==
    ASSUME NEW n, CommonPrefix(n), Len(log) \in Nat, Len(log') \in Nat
    PROVE  /\ n \in Nat
           /\ \A i \in 1 .. n : IsTxRec(i)' <=> IsTxRec(i)
           /\ \A t : \A i \in 1 .. n : RecOf(i, t)' <=> RecOf(i, t)
           /\ \A i, j \in 1 .. n : SameTx(i, j)' <=> SameTx(i, j)
           /\ \A i, j \in 1 .. n : Compensated(i, j)' <=> Compensated(i, j)
           /\ \A i, t : \A m \in 0 .. n : LastOf(i, t, m)' <=> LastOf(i, t, m)
           /\ \A t : \A m \in 0 .. n : Resolved(t, m)' <=> Resolved(t, m)
           /\ \A e, t : \A m \in 0 .. n : EntryAt(e, t, m)' <=> EntryAt(e, t, m)
  <1>0. n \in Nat /\ \A i \in 1 .. n : log'[i] = log[i]
    BY DEF CommonPrefix
  <1>1. \A i \in 1 .. n : IsTxRec(i)' <=> IsTxRec(i)
    BY <1>0 DEF IsTxRec
  <1>2. \A t : \A i \in 1 .. n : RecOf(i, t)' <=> RecOf(i, t)
    BY <1>0, <1>1 DEF RecOf
  <1>3. ASSUME NEW i \in 1 .. n, NEW j \in 1 .. n PROVE SameTx(i, j)' <=> SameTx(i, j)
    <2>1. \A k \in i + 1 .. j : k \in 1 .. n
      BY <1>0
    <2> QED BY <1>0, <1>1, <2>1 DEF SameTx
  <1>4. ASSUME NEW i \in 1 .. n, NEW j \in 1 .. n PROVE Compensated(i, j)' <=> Compensated(i, j)
    <2>1. \A k \in i .. j : k \in 1 .. n
      BY <1>0
    <2> QED BY <1>0, <1>3, <2>1 DEF Compensated
  <1>5. ASSUME NEW m \in 0 .. n, NEW i, NEW t PROVE LastOf(i, t, m)' <=> LastOf(i, t, m)
    <2>1. i \in 1 .. m => i \in 1 .. n /\ \A k \in i + 1 .. m : k \in 1 .. n
      BY <1>0
    <2> QED BY <1>2, <2>1 DEF LastOf
  <1>6. ASSUME NEW m \in 0 .. n, NEW t PROVE Resolved(t, m)' <=> Resolved(t, m)
    <2>1. \A i \in 1 .. m : i \in 1 .. n
      BY <1>0
    <2> QED BY <1>0, <1>5, <2>1 DEF Resolved
  <1>7. ASSUME NEW e, NEW t, NEW m \in 0 .. n PROVE EntryAt(e, t, m)' <=> EntryAt(e, t, m)
    <2>1. LastOf(e.lastLSN, t, m) => e.lastLSN \in 1 .. n
      BY <1>0 DEF LastOf
    <2> QED BY <1>0, <1>5, <1>6, <2>1 DEF EntryAt
  <1> QED BY <1>0, <1>1, <1>2, <1>3, <1>4, <1>5, <1>6, <1>7

\* A record in order stays so: nothing later is asked about.
LEMMA RecordsInPrefix ==
    ASSUME NEW n, CommonPrefix(n), Len(log) \in Nat, Len(log') \in Nat,
           NEW j \in 1 .. n, RecordOk(j)
    PROVE  RecordOk(j)'
  <1>1. /\ n \in Nat /\ log'[j] = log[j] /\ 1 .. j \subseteq 1 .. n /\ j \in 1 .. j
        /\ 1 .. j - 1 \subseteq 1 .. n /\ \A i \in 1 .. n : log'[i] = log[i]
    BY SameInPrefix DEF CommonPrefix
  <1>2. IsTxRec(j)' <=> IsTxRec(j)
    BY SameInPrefix
  <1>3. \A i \in 1 .. n, k \in 1 .. n :
           (SameTx(i, k)' <=> SameTx(i, k)) /\ (Compensated(i, k)' <=> Compensated(i, k))
    BY SameInPrefix
  <1>4. ChainOk(j) => ChainOk(j)'
    BY <1>1, <1>3 DEF ChainOk
  <1>5. \A i \in 1 .. n : MayFollow(i, j)' <=> MayFollow(i, j)
    BY <1>1 DEF MayFollow
  <1>6. ASSUME ChainOk(j), ClrOk(j) PROVE ClrOk(j)'
    <2>1. log[j].prev \in 1 .. n /\ log[j].undoNext \in 1 .. n
      BY <1>1, <1>6 DEF ChainOk, ClrOk
    <2>2. \A s \in log[j].undoNext + 1 .. j : s \in 1 .. n
      BY <1>1, <2>1
    <2> QED BY <1>1, <1>3, <1>6, <2>1, <2>2 DEF ClrOk
  <1>7. ASSUME EndOk(j) PROVE EndOk(j)'
    <2>1. \A s \in 1 .. j : \A k \in s + 1 .. j : s \in 1 .. n /\ k \in 1 .. n
      BY <1>1
    <2> QED BY <1>1, <1>3, <1>7, <2>1 DEF EndOk
  <1>8. TableAt(log[j].att, j) => TableAt(log[j].att, j)'
    <2>1. \A e, t : EntryAt(e, t, j)' <=> EntryAt(e, t, j)
      BY <1>1, SameInPrefix
    <2> QED BY <1>1, <2>1 DEF TableAt
  <1>9. log[j].op = "CLR" => IsTxRec(j) /\ log[j].op # "START"
    BY DEF IsTxRec
  <1> QED BY <1>1, <1>2, <1>3, <1>4, <1>5, <1>6, <1>7, <1>8, <1>9 DEF RecordOk

-----------------------------------------------------------------------------
(* Appending a record. *)

\* What makes rec a record that keeps the log in order.
Fits(rec) ==
    \/ rec.op \in {"CKPT_BEGIN", "START"}
    \/ rec.op = "CKPT_END" /\ TableAt(rec.att, Len(log))
    \/ /\ LastOf(rec.prev, rec.txn, Len(log))
       /\ \/ rec.op \in {"SET", "COMMIT", "ABORT"} /\ log[rec.prev].op \in {"START", "SET"}
          \/ rec.op = "END" /\ log[rec.prev].op = "COMMIT"
          \/ /\ rec.op = "END" /\ log[rec.prev].op \in {"ABORT", "CLR"}
             /\ AllUndone(rec.prev)
          \/ /\ rec.op = "CLR" /\ log[rec.prev].op \in {"ABORT", "CLR"}
             /\ \E u \in LSNs : /\ log[u].op = "SET" /\ DownTo(u, rec.prev)
                                /\ rec.undoNext = log[u].prev

\* LogMgr.Append (log.go:148) in these terms.
LEMMA AppendPrefix ==
    ASSUME DurabilityInv, NEW rec, LogAppend(rec)
    PROVE  /\ CommonPrefix(Len(log)) /\ Len(log) \in Nat /\ Len(log') = Len(log) + 1
           /\ log'[Len(log) + 1] = rec /\ flushed' = flushed
  <1>1. log \in Seq(LogRecords \cup {rec}) /\ Len(log) \in Nat
    BY StateFacts
  <1> QED BY <1>1 DEF LogAppend, CommonPrefix

\* A record of another transaction changes nothing for transaction t.
LEMMA OtherAppended ==
    ASSUME DurabilityInv, NEW rec, LogAppend(rec), NEW t,
           rec.op \in {"CKPT_BEGIN", "CKPT_END"} \/ rec.txn # t
    PROVE  /\ \A i : LastOf(i, t, Len(log))  => LastOf(i, t, Len(log))'
           /\ Resolved(t, Len(log)) => Resolved(t, Len(log))'
           /\ \A e : EntryAt(e, t, Len(log)) => EntryAt(e, t, Len(log))'
  <1>0. PICK n \in Nat : n = Len(log)
    BY AppendPrefix
  <1>1. /\ CommonPrefix(n) /\ n \in Nat /\ Len(log') = n + 1 /\ Len(log') \in Nat
        /\ log'[n + 1] = rec
    BY <1>0, AppendPrefix
  <1>2. \A i \in 1 .. n : log'[i] = log[i] /\ (RecOf(i, t)' <=> RecOf(i, t))
    BY <1>1, SameInPrefix DEF CommonPrefix
  <1>3. ~RecOf(n + 1, t)'
    BY <1>1 DEF RecOf, IsTxRec
  <1>4. ASSUME NEW i PROVE LastOf(i, t, Len(log))' <=> LastOf(i, t, n)
    <2>1. CASE i \in 1 .. n
      <3>1. i + 1 .. n + 1 = (i + 1 .. n) \cup {n + 1} /\ i + 1 .. n \subseteq 1 .. n
        BY <1>1, <2>1
      <3> QED BY <1>1, <1>2, <1>3, <2>1, <3>1 DEF LastOf
    <2>2. CASE i \notin 1 .. n
      BY <1>1, <1>3, <2>2 DEF LastOf
    <2> QED BY <2>1, <2>2
  <1>5. \A i : LastOf(i, t, n) => i \in 1 .. n
    BY DEF LastOf
  <1>6. Resolved(t, n) => Resolved(t, Len(log))'
    BY <1>1, <1>2, <1>4, <1>5 DEF Resolved
  <1>7. ASSUME NEW e, EntryAt(e, t, n) PROVE EntryAt(e, t, Len(log))'
    BY <1>2, <1>4, <1>5, <1>6, <1>7 DEF EntryAt
  <1> QED BY <1>0, <1>4, <1>6, <1>7

\* The new record is the last of its transaction.
LEMMA OwnAppended ==
    ASSUME DurabilityInv, NEW rec, LogAppend(rec), rec.op \notin {"CKPT_BEGIN", "CKPT_END"}
    PROVE  LastOf(Len(log), rec.txn, Len(log))' /\ log'[Len(log')] = rec
  BY AppendPrefix DEF LastOf, RecOf, IsTxRec

\* What a transaction record that continues the chain of record l sees behind it.
LEMMA SameAppended ==
    ASSUME DurabilityInv, NEW rec, LogAppend(rec),
           rec.op \notin {"CKPT_BEGIN", "CKPT_END", "START"},
           NEW n \in Nat, n = Len(log), LastOf(rec.prev, rec.txn, n)
    PROVE  /\ rec.prev \in 1 .. n
           /\ \A i \in 1 .. n : SameTx(i, n + 1)' <=> i <= rec.prev /\ SameTx(i, rec.prev)
           /\ SameTx(rec.prev, n + 1)' /\ SameTx(rec.prev, rec.prev)
  <1> DEFINE l == rec.prev
  <1>1. /\ CommonPrefix(n) /\ Len(log') = n + 1 /\ log'[n + 1] = rec /\ l \in 1 .. n
        /\ Len(log') \in Nat
    BY AppendPrefix DEF LastOf
  <1>2. \A i \in 1 .. n : log'[i] = log[i] /\ (IsTxRec(i)' <=> IsTxRec(i))
    BY <1>1, SameInPrefix DEF CommonPrefix
  <1>3. IsTxRec(n + 1)'
    BY <1>1, <1>2 DEF IsTxRec
  <1>4. IsTxRec(l) /\ log[l].txn = rec.txn /\ \A k \in l + 1 .. n : ~RecOf(k, rec.txn)
    BY DEF LastOf, RecOf
  <1> HIDE DEF l
  <1>5. ASSUME NEW i \in 1 .. n, SameTx(i, n + 1)' PROVE i <= l /\ SameTx(i, l)
    <2>1. /\ IsTxRec(i) /\ log[i].txn = rec.txn
          /\ \A k \in i + 1 .. n : ~(log[k].op = "START" /\ log[k].txn = rec.txn)
      <3>1. \A k \in i + 1 .. n : k \in 1 .. n /\ k \in i + 1 .. n + 1
        BY <1>5
      <3> QED BY <1>1, <1>2, <1>5, <3>1 DEF SameTx
    <2>2. i <= l
      BY <1>1, <1>4, <2>1 DEF RecOf
    <2>3. \A k \in i + 1 .. l : k \in i + 1 .. n
      BY <1>1
    <2> QED BY <1>4, <2>1, <2>2, <2>3 DEF SameTx
  <1>6. ASSUME NEW i \in 1 .. n, i <= l, SameTx(i, l) PROVE SameTx(i, n + 1)'
    <2>1. \A k \in i + 1 .. n + 1 : k \in i + 1 .. l \/ k \in l + 1 .. n \/ k = n + 1
      BY <1>1, <1>6
    <2>2. \A k \in i + 1 .. l : k \in 1 .. n
      BY <1>1
    <2>3. \A k \in l + 1 .. n : ~(log'[k].op = "START" /\ log'[k].txn = rec.txn)
      <3>1. ASSUME NEW k \in l + 1 .. n PROVE k \in 1 .. n /\ ~RecOf(k, rec.txn)
        BY <1>1, <1>4
      <3> QED BY <1>2, <3>1 DEF RecOf, IsTxRec
    <2>4. \A k \in i + 1 .. n + 1 : ~(log'[k].op = "START" /\ log'[k].txn = log'[i].txn)
      BY <1>1, <1>2, <1>4, <1>6, <2>1, <2>2, <2>3 DEF SameTx
    <2>5. IsTxRec(i)' /\ log'[i].txn = log'[n + 1].txn
      BY <1>1, <1>2, <1>4, <1>6 DEF SameTx
    <2> QED BY <1>3, <2>4, <2>5 DEF SameTx
  <1>7. SameTx(l, l)
    BY <1>1, <1>4 DEF SameTx
  <1> QED BY <1>1, <1>5, <1>6, <1>7 DEF l

\* A log in order stays so when a record that fits is appended.
LEMMA AppendKeepsLog ==
    ASSUME DurabilityInv, LogOk, NEW rec, LogAppend(rec), Fits(rec)
    PROVE  LogOk'
  <1>0. PICK n \in Nat : n = Len(log)
    BY AppendPrefix
  <1>1. CommonPrefix(n) /\ Len(log') = n + 1 /\ log'[n + 1] = rec /\ Len(log') \in Nat
    BY <1>0, AppendPrefix
  <1>2. \A j \in 1 .. n : RecordOk(j)
    BY <1>0 DEF LogOk, LSNs
  <1>3. \A j \in 1 .. n : RecordOk(j)'
    BY <1>0, <1>1, <1>2, RecordsInPrefix
  <1>4. \A i \in 1 .. n : log'[i] = log[i]
    BY <1>1 DEF CommonPrefix
  <1>5. \A i, j \in 1 .. n : Compensated(i, j)' <=> Compensated(i, j)
    BY <1>0, <1>1, SameInPrefix
  <1>6. CASE rec.op \in {"CKPT_BEGIN", "START"}
    <2>1. ASSUME NEW i \in 1 .. n PROVE ~SameTx(i, n + 1)'
      <3>1. n + 1 \in i + 1 .. n + 1
        OBVIOUS
      <3> QED BY <1>1, <1>6, <3>1 DEF SameTx, IsTxRec
    <2>2. RecordOk(n + 1)'
      BY <1>1, <1>6, <2>1 DEF RecordOk, IsTxRec
    <2> QED BY <1>1, <1>3, <2>2 DEF LogOk, LSNs
  <1>7. CASE rec.op = "CKPT_END" /\ TableAt(rec.att, Len(log))
    <2>1. ASSUME NEW i \in 1 .. n PROVE ~SameTx(i, n + 1)'
      BY <1>1, <1>7 DEF SameTx, IsTxRec
    <2>2. TableAt(rec.att, Len(log))'
      <3> SUFFICES ASSUME NEW t \in Txns PROVE EntryAt(rec.att[t], t, Len(log))'
        BY <1>1 DEF TableAt
      <3> QED BY <1>7, OtherAppended DEF TableAt
    <2>3. RecordOk(n + 1)'
      BY <1>1, <1>7, <2>1, <2>2 DEF RecordOk, IsTxRec
    <2> QED BY <1>1, <1>3, <2>3 DEF LogOk, LSNs
  <1>8. CASE /\ LastOf(rec.prev, rec.txn, Len(log))
             /\ rec.op \in {"SET", "COMMIT", "ABORT", "END", "CLR"}
    <2> DEFINE l == rec.prev
    <2>1. /\ l \in 1 .. n /\ SameTx(l, n + 1)' /\ SameTx(l, l)
          /\ \A i \in 1 .. n : SameTx(i, n + 1)' <=> i <= l /\ SameTx(i, l)
      BY <1>0, <1>8, SameAppended
    <2>2. /\ \A i \in 1 .. l - 1 : SameTx(i, l) => MayFollow(i, l)
          /\ \A i \in 1 .. l : log'[i] = log[i] /\ i \in 1 .. n
          /\ \A i \in 1 .. l : Compensated(i, l) => Compensated(i, n + 1)'
      <3>1. \A i \in 1 .. l : i \in 1 .. n
        BY <1>0, <2>1
      <3>2. ASSUME NEW i \in 1 .. l, Compensated(i, l) PROVE Compensated(i, n + 1)'
        <4>1. Compensated(i, l)'
          BY <1>5, <2>1, <3>1, <3>2
        <4>2. \A k \in i .. l : k \in i .. n + 1
          BY <2>1
        <4> QED BY <4>1, <4>2 DEF Compensated
      <3> QED BY <1>2, <1>4, <2>1, <3>1, <3>2 DEF RecordOk
    <2>3. \A i \in 1 .. l - 1 : SameTx(i, l) => log[l].op # "START"
      <3>1. \A i \in 1 .. l - 1 : l \in i + 1 .. l
        BY <2>1
      <3> QED BY <3>1 DEF SameTx
    <2>4. ChainOk(n + 1)'
      <3>1. \A i \in 1 .. n + 1 - 1 : i \in 1 .. n
        BY <1>0
      <3> QED BY <1>1, <2>1, <3>1 DEF ChainOk
    <2> HIDE DEF l
    <2>a. l = rec.prev
      BY DEF l
    <2>5. CASE rec.op \in {"SET", "COMMIT", "ABORT"} /\ log[l].op \in {"START", "SET"}
      <3>1. ASSUME NEW i \in 1 .. n, SameTx(i, n + 1)' PROVE MayFollow(i, n + 1)'
        <4>1. i <= l /\ SameTx(i, l)
          BY <2>1, <3>1
        <4>2. log[i].op \in {"START", "SET"}
          BY <2>1, <2>2, <2>3, <2>5, <4>1 DEF MayFollow
        <4> QED BY <1>1, <1>4, <2>5, <4>2 DEF MayFollow
      <3>2. RecordOk(n + 1)'
        BY <1>1, <2>4, <2>5, <3>1 DEF RecordOk
      <3> QED BY <1>1, <1>3, <3>2 DEF LogOk, LSNs
    <2>6. CASE /\ rec.op = "END"
               /\ \/ log[l].op = "COMMIT"
                  \/ log[l].op \in {"ABORT", "CLR"} /\ AllUndone(l)
      <3>1. ASSUME NEW i \in 1 .. n, SameTx(i, n + 1)' PROVE MayFollow(i, n + 1)'
        <4>1. i <= l /\ SameTx(i, l)
          BY <2>1, <3>1
        <4>2. log[i].op # "END"
          BY <2>1, <2>2, <2>6, <4>1 DEF MayFollow
        <4> QED BY <1>1, <1>4, <2>6, <4>2 DEF MayFollow
      <3>2. EndOk(n + 1)'
        <4> SUFFICES ASSUME NEW s \in 1 .. n + 1, log'[s].op = "SET", SameTx(s, n + 1)'
                     PROVE  \/ \E k \in s + 1 .. n + 1 : log'[k].op = "COMMIT" /\ SameTx(s, k)'
                            \/ Compensated(s, n + 1)'
          BY DEF EndOk
        <4>1. s \in 1 .. n
          BY <1>1, <2>6
        <4>2. s \in 1 .. l /\ SameTx(s, l) /\ log[s].op = "SET"
          BY <1>4, <2>1, <4>1
        <4>3. CASE log[l].op = "COMMIT"
          <5>1. l \in s + 1 .. n + 1 /\ log'[l].op = "COMMIT"
            BY <1>4, <2>1, <4>2, <4>3
          <5>2. SameTx(s, l)'
            BY <1>0, <1>1, <2>1, <4>1, <4>2, SameInPrefix
          <5> QED BY <5>1, <5>2
        <4>4. CASE AllUndone(l)
          BY <2>2, <4>2, <4>4 DEF AllUndone
        <4> QED BY <2>6, <4>3, <4>4
      <3>3. RecordOk(n + 1)'
        BY <1>1, <2>4, <2>6, <3>1, <3>2 DEF RecordOk
      <3> QED BY <1>1, <1>3, <3>3 DEF LogOk, LSNs
    <2>7. CASE /\ rec.op = "CLR" /\ log[l].op \in {"ABORT", "CLR"}
               /\ \E u \in LSNs : /\ log[u].op = "SET" /\ DownTo(u, l)
                                  /\ rec.undoNext = log[u].prev
      <3>0. PICK u \in 1 .. n : log[u].op = "SET" /\ DownTo(u, l) /\ rec.undoNext = log[u].prev
        BY <1>0, <2>7 DEF LSNs
      <3>v. PICK v : v = log[u].prev
        OBVIOUS
      <3>1. /\ v \in 1 .. u - 1 /\ SameTx(v, u) /\ MayFollow(v, u)
            /\ \A i \in 1 .. u - 1 : SameTx(i, u) => i <= v
        BY <1>2, <3>0, <3>v DEF RecordOk, ChainOk, IsTxRec
      <3>2. /\ u \in 1 .. l - 1 /\ SameTx(u, l)
            /\ \A c \in 1 .. l : log[c].op = "CLR" /\ SameTx(c, l) => u <= log[c].undoNext
            /\ \A s \in u + 1 .. l : log[s].op = "SET" /\ SameTx(s, l) => Compensated(s, l)
        BY <3>0 DEF DownTo
      <3>3. ASSUME NEW i \in 1 .. n, SameTx(i, n + 1)' PROVE MayFollow(i, n + 1)'
        <4>1. i <= l /\ SameTx(i, l)
          BY <2>1, <3>3
        <4>2. log[i].op \notin {"END", "COMMIT"}
          BY <2>1, <2>2, <2>7, <4>1 DEF MayFollow
        <4>3. log[i].op = "CLR" => v < log[i].undoNext
          <5>1. ASSUME log[i].op = "CLR" PROVE log[i].undoNext \in Int
            BY <1>2, <5>1 DEF RecordOk, ClrOk
          <5> QED BY <3>1, <3>2, <4>1, <5>1
        <4> QED BY <1>1, <1>4, <2>7, <3>0, <3>v, <4>2, <4>3 DEF MayFollow
      <3>4. ASSUME NEW s \in v + 1 .. n + 1, log'[s].op = "SET", SameTx(s, n + 1)'
            PROVE  Compensated(s, n + 1)'
        <4>1. s \in 1 .. n
          BY <1>1, <2>7, <3>1, <3>4
        <4>2. s \in 1 .. l /\ SameTx(s, l) /\ log[s].op = "SET"
          BY <1>4, <2>1, <3>4, <4>1
        <4>3. CASE s > u
          <5>1. s \in u + 1 .. l
            BY <3>2, <4>2, <4>3
          <5> QED BY <2>2, <3>2, <4>2, <5>1
        <4>4. CASE s = u
          <5>1. n + 1 \in s .. n + 1 /\ log'[n + 1].undoNext = log'[s].prev
            BY <1>1, <1>4, <3>0, <4>1, <4>4
          <5> QED BY <1>1, <2>7, <3>4, <5>1 DEF Compensated
        <4>5. CASE s < u
          <5>1. IsTxRec(u) /\ log[u].txn = log[s].txn
            BY <3>2, <4>2 DEF SameTx
          <5>2. SameTx(s, u)
            <6>1. s \in Int /\ u \in Int /\ l \in Int /\ s <= u /\ u <= l
              BY <2>1, <3>2, <4>2, <4>5
            <6> QED BY <4>2, <5>1, <6>1, SameTxSplit
          <5> QED BY <3>1, <3>4, <4>1, <4>5, <5>2
        <4> QED BY <2>1, <3>0, <4>1, <4>3, <4>4, <4>5
      <3>5. v \in 1 .. n /\ SameTx(v, n + 1)' /\ log'[v].op \in {"START", "SET"}
        <4>1. SameTx(v, l) /\ v <= l /\ v \in 1 .. n
          <5>1. u \in Int /\ v \in Int /\ l \in Int /\ v <= u /\ u <= l /\ v \in 1 .. n
            BY <2>1, <3>1, <3>2
          <5> QED BY <3>1, <3>2, <5>1, SameTxTrans
        <4>2. SameTx(v, n + 1)'
          BY <2>1, <4>1
        <4>3. log'[v].op \in {"START", "SET"}
          BY <1>4, <3>0, <3>1, <4>1 DEF MayFollow
        <4> QED BY <4>1, <4>2, <4>3
      <3>6. ClrOk(n + 1)'
        <4>1. log'[n + 1].undoNext = v /\ log'[log'[n + 1].prev].op \in {"ABORT", "CLR"}
          BY <1>1, <1>4, <2>1, <2>7, <2>a, <3>0, <3>v
        <4>2. v \in 1 .. n + 1 - 1
          BY <3>5
        <4>3. \A s \in log'[n + 1].undoNext + 1 .. n + 1 :
                 log'[s].op = "SET" /\ SameTx(s, n + 1)' => Compensated(s, n + 1)'
          BY <3>4, <4>1
        <4> QED BY <3>5, <4>1, <4>2, <4>3 DEF ClrOk
      <3>7. RecordOk(n + 1)'
        BY <1>1, <2>4, <2>7, <3>3, <3>6 DEF RecordOk
      <3> QED BY <1>1, <1>3, <3>7 DEF LogOk, LSNs
    <2> QED BY <1>6, <1>7, <1>8, <2>5, <2>6, <2>7 DEF Fits, l
  <1> QED BY <1>6, <1>7, <1>8 DEF Fits

-----------------------------------------------------------------------------
(* A step of one transaction leaves what the invariant says of the others. *)

\* How far a rollback has come does not depend on what is appended later.
LEMMA UndoInPrefix ==
    ASSUME NEW n, CommonPrefix(n), Len(log) \in Nat, Len(log') \in Nat, NEW l \in 1 .. n
    PROVE  /\ \A u : DownTo(u, l) => DownTo(u, l)'
           /\ AllUndone(l) => AllUndone(l)'
  <1>1. n \in Nat /\ \A i \in 1 .. l : i \in 1 .. n /\ log'[i] = log[i]
    BY SameInPrefix DEF CommonPrefix
  <1>2. \A i \in 1 .. l : (SameTx(i, l)' <=> SameTx(i, l))
                       /\ (Compensated(i, l)' <=> Compensated(i, l))
    BY <1>1, SameInPrefix
  <1>3. ASSUME NEW u, DownTo(u, l) PROVE DownTo(u, l)'
    <2>1. u \in 1 .. l /\ \A s \in u + 1 .. l : s \in 1 .. l
      BY <1>3 DEF DownTo
    <2> QED BY <1>1, <1>2, <1>3, <2>1 DEF DownTo
  <1>4. AllUndone(l) => AllUndone(l)'
    BY <1>1, <1>2 DEF AllUndone
  <1> QED BY <1>3, <1>4

\* The log is left alone, or a record is appended that is not of transaction t.
NotOf(t) ==
    \/ log' = log
    \/ \E rec : LogAppend(rec) /\ (rec.op \in {"CKPT_BEGIN", "CKPT_END"} \/ rec.txn # t)

\* Then everything said of t and the whole log stays so.
LEMMA NotOfFacts ==
    ASSUME DurabilityInv, NEW t, NotOf(t)
    PROVE  /\ CommonPrefix(Len(log)) /\ Len(log) \in Nat /\ Len(log') \in Nat
           /\ \A i : LastOf(i, t, Len(log)) => LastOf(i, t, Len(log))'
           /\ Resolved(t, Len(log)) => Resolved(t, Len(log))'
           /\ \A e : EntryAt(e, t, Len(log)) => EntryAt(e, t, Len(log))'
  <1>1. CASE log' = log
    <2>1. Len(log) \in Nat /\ CommonPrefix(Len(log))
      BY <1>1, StateFacts DEF CommonPrefix
    <2>2. \A i : LastOf(i, t, Len(log)) <=> LastOf(i, t, Len(log))'
      BY <1>1 DEF LastOf, RecOf, IsTxRec
    <2>3. Resolved(t, Len(log)) <=> Resolved(t, Len(log))'
      BY <1>1, <2>2 DEF Resolved
    <2>4. \A e : EntryAt(e, t, Len(log)) <=> EntryAt(e, t, Len(log))'
      BY <1>1, <2>2, <2>3 DEF EntryAt
    <2> QED BY <1>1, <2>1, <2>2, <2>3, <2>4
  <1>2. ASSUME NEW rec, LogAppend(rec), rec.op \in {"CKPT_BEGIN", "CKPT_END"} \/ rec.txn # t
        PROVE  /\ CommonPrefix(Len(log)) /\ Len(log) \in Nat /\ Len(log') \in Nat
               /\ \A i : LastOf(i, t, Len(log)) => LastOf(i, t, Len(log))'
               /\ Resolved(t, Len(log)) => Resolved(t, Len(log))'
               /\ \A e : EntryAt(e, t, Len(log)) => EntryAt(e, t, Len(log))'
    <2>1. CommonPrefix(Len(log)) /\ Len(log) \in Nat /\ Len(log') \in Nat
      BY <1>2, AppendPrefix
    <2> QED BY <1>2, <2>1, OtherAppended
  <1> QED BY <1>1, <1>2 DEF NotOf

\* A transaction that the step does not move stays where its last record says.
LEMMA OtherKept ==
    ASSUME DurabilityInv, LogGrows, NEW t \in Txns, TxAt(t), NotOf(t),
           tx'[t] = tx[t], att'[t] = att[t], recAtt'[t] = recAtt[t], phase' = phase
    PROVE  TxAt(t)'
  <1>0. PICK n \in Nat : n = Len(log)
    BY NotOfFacts
  <1>1. /\ CommonPrefix(n) /\ Len(log) \in Nat /\ Len(log') \in Nat
        /\ \A i \in 1 .. n : log'[i] = log[i]
        /\ \A i : LastOf(i, t, n) => LastOf(i, t, Len(log))'
        /\ Resolved(t, n) => Resolved(t, Len(log))'
        /\ \A e : EntryAt(e, t, n) => EntryAt(e, t, Len(log))'
    BY <1>0, NotOfFacts DEF CommonPrefix
  <1>2. \A i : LastOf(i, t, n) => i \in 1 .. n
    BY DEF LastOf
  <1>3. \A i \in 1 .. n : \A j \in 1 .. n : SameTx(i, j) => SameTx(i, j)'
    BY <1>0, <1>1, SameInPrefix
  <1>4. \A l \in 1 .. n : /\ \A u : DownTo(u, l) => DownTo(u, l)'
                          /\ AllUndone(l) => AllUndone(l)'
    BY <1>0, <1>1, UndoInPrefix
  <1>5. \A ops : Here(t, ops) => Here(t, ops)' /\ tx[t].lsn \in 1 .. n
                                      /\ log'[tx[t].lsn] = log[tx[t].lsn]
    BY <1>0, <1>1, <1>2 DEF Here
  <1>6. flushed \in Nat /\ flushed' \in Nat /\ flushed <= flushed' /\ Len(log) <= Len(log')
    BY <1>1 DEF LogGrows
  <1>t. tx[t].undo \in LSN \cup {NoLSN} /\ recAtt[t].lastLSN \in LSN \cup {NoLSN}
    BY StateFacts
  <1>7. UndoAt(t)'
    <2>1. UndoAt(t)
      BY DEF TxAt
    <2>2. tx[t].pc = "abort" => (Here(t, {"ABORT"}) /\ tx[t].undo = log[tx[t].lsn].prev)'
      BY <1>5, <2>1 DEF UndoAt
    <2>3. tx[t].pc = "undo" =>
            /\ Here(t, {"ABORT", "CLR"})' /\ tx[t].undo <= flushed'
            /\ tx[t].undo = tx[t].lsn \/ DownTo(tx[t].undo, tx[t].lsn)'
      BY <1>4, <1>5, <1>6, <1>t, <2>1 DEF UndoAt, LSN, NoLSN
    <2>4. tx[t].pc \in {"clr", "clrFlushed"} =>
            /\ Here(t, {"CLR"})' /\ tx[t].undo <= flushed'
            /\ tx[t].undo \in 1 .. n
            /\ log'[tx[t].undo].op = "SET" /\ SameTx(tx[t].undo, tx[t].lsn)'
            /\ log'[tx[t].lsn].undoNext = log'[tx[t].undo].prev
      BY <1>0, <1>1, <1>3, <1>5, <1>6, <1>t, <2>1 DEF UndoAt, LSN, NoLSN, LSNs
    <2>5. tx[t].pc \in {"undone", "abortSet"} => Here(t, {"ABORT", "CLR"})' /\ AllUndone(tx[t].lsn)'
      BY <1>4, <1>5, <2>1 DEF UndoAt
    <2>6. tx[t].pc = "ended" => Resolved(t, Len(log))'
      BY <1>0, <1>1, <2>1 DEF UndoAt
    <2>7. 1 .. n \subseteq LSNs'
      BY <1>0, <1>1, <1>6 DEF LSNs
    <2> QED BY <2>2, <2>3, <2>4, <2>5, <2>6, <2>7 DEF UndoAt
  <1>8. phase = "up" => WorkAt(t)'
    <2> SUFFICES ASSUME phase = "up" PROVE WorkAt(t)'
      OBVIOUS
    <2>1. WorkAt(t)
      BY DEF TxAt
    <2>2. /\ tx[t].pc \in {"none", "new", "done"} => att[t] = Absent
          /\ tx[t].pc \in {"none", "done"} => Resolved(t, Len(log))'
      BY <1>0, <1>1, <2>1 DEF WorkAt
    <2>3. tx[t].pc = "new" => Here(t, {"START"})'
      BY <1>5, <2>1 DEF WorkAt
    <2>4. tx[t].pc = "active" =>
             /\ att[t].status = "running" /\ LastOf(att[t].lastLSN, t, Len(log))'
             /\ log'[att[t].lastLSN].op \in {"START", "SET"}
      BY <1>0, <1>1, <1>2, <2>1 DEF WorkAt
    <2>5. /\ tx[t].pc \in {"logged", "linked"} => att[t].status = "running" /\ Here(t, {"SET"})'
          /\ tx[t].pc \in {"commit", "commitFlushed", "commitSet"} => Here(t, {"COMMIT"})'
          /\ tx[t].pc = "linked" => att[t].lastLSN = tx[t].lsn
      BY <1>5, <2>1 DEF WorkAt
    <2> QED BY <2>2, <2>3, <2>4, <2>5 DEF WorkAt
  <1>9. LoserAt(t) => LoserAt(t)'
    BY <1>0, <1>1, <1>6, <1>t DEF LoserAt, LSN, NoLSN
  <1> QED BY <1>7, <1>8, <1>9 DEF TxAt

\* The log header keeps its checkpoint as long as the log grows.
LEMMA HeaderKept ==
    ASSUME DurabilityInv, HeaderAt, NEW n, CommonPrefix(n), flushed <= n, Len(log') \in Nat,
           flushed \in Nat, flushed' \in Nat, flushed <= flushed', master' = master
    PROVE  HeaderAt'
  <1> SUFFICES ASSUME master # 1 PROVE CkptPair(master)' /\ master < flushed'
    BY DEF HeaderAt
  <1>1. CkptPair(master) /\ master < flushed /\ Len(log) \in Nat /\ master \in LSN
    BY StateFacts DEF HeaderAt, TypeOK
  <1>2. /\ master \in 1 .. n /\ master + 1 \in 1 .. n
        /\ n \in Nat /\ n <= Len(log') /\ \A i \in 1 .. n : log'[i] = log[i]
    BY <1>1 DEF CommonPrefix, LSN
  <1>3. master < flushed'
    BY <1>1 DEF LSN
  <1>4. master \in 1 .. Len(log') /\ master + 1 \in 1 .. Len(log')
    BY <1>2
  <1> QED BY <1>1, <1>2, <1>3, <1>4 DEF CkptPair, LSNs

\* A step of one transaction while no checkpoint runs: it appends a record that
\* fits, or none, and ends in order.
Moves(t) ==
    /\ \/ log' = log
       \/ \E rec : /\ LogAppend(rec) /\ Fits(rec) /\ rec.txn = t
                   /\ rec.op \notin {"CKPT_BEGIN", "CKPT_END"}
    /\ TxAt(t)'
    /\ ckpt.pc = "idle" /\ phase # "analysis"
    /\ UNCHANGED <<master, ckpt, phase>>
    /\ \A u \in Txns \ {t} : tx'[u] = tx[u] /\ att'[u] = att[u] /\ recAtt'[u] = recAtt[u]

\* Such a step keeps the invariant.
LEMMA MovesKeep ==
    ASSUME DurabilityInv, ChainInv, LogGrows, NEW t \in Txns, Moves(t)
    PROVE  ChainInv'
  <1>1. LogOk'
    <2>1. CASE log' = log
      <3>1. CommonPrefix(Len(log)) /\ Len(log) \in Nat /\ Len(log') \in Nat
        BY <2>1, StateFacts DEF CommonPrefix
      <3> QED BY <2>1, <3>1, RecordsInPrefix DEF ChainInv, LogOk, LSNs
    <2>2. CASE \E rec : LogAppend(rec) /\ Fits(rec)
      BY <2>2, AppendKeepsLog DEF ChainInv
    <2> QED BY <2>1, <2>2 DEF Moves
  <1>2. \A u \in Txns \ {t} : NotOf(u)
    BY DEF Moves, NotOf
  <1>3. \A u \in Txns : TxAt(u)'
    BY <1>2, OtherKept DEF Moves, ChainInv
  <1>4. CkptAt' /\ AnalysisAt'
    BY DEF Moves, CkptAt, AnalysisAt
  <1>5. HeaderAt'
    <2>1. CommonPrefix(Len(log)) /\ flushed <= Len(log) /\ flushed <= flushed'
          /\ Len(log') \in Nat /\ flushed \in Nat /\ flushed' \in Nat
      BY StateFacts DEF LogGrows, CommonPrefix
    <2> QED BY <2>1, HeaderKept DEF ChainInv, Moves
  <1> QED BY <1>1, <1>3, <1>4, <1>5 DEF ChainInv

-----------------------------------------------------------------------------
(* Handler by handler. *)

\* The invariant, for the transaction that takes the step: outside its handlers' rest
\* no checkpoint runs, and in recovery only the undo phase moves transactions.
LEMMA HandlerAt ==
    ASSUME DurabilityInv, ChainInv, NEW t \in Txns
    PROVE  /\ UndoAt(t) /\ (phase = "up" => WorkAt(t)) /\ (phase # "up" => att[t] = Absent)
           /\ tx[t].pc # "none" => phase = "up" \/ (phase = "undo" /\ tx[t].pc \in UndoPCs)
           /\ tx[t].pc \notin AtRest => ckpt.pc = "idle"
           /\ phase # "up" => ckpt.pc = "idle"
           /\ tx \in [Txns -> TxRows] /\ tx[t] \in TxRows
           /\ att \in [Txns -> Entries] /\ recAtt \in [Txns -> Entries]
           /\ tx[t] = [pc |-> tx[t].pc, lsn |-> tx[t].lsn, undo |-> tx[t].undo]
  <1>1. TxAt(t) /\ CkptAt /\ TypeOK
    BY StateFacts DEF ChainInv
  <1>2. phase \in {"up", "analysis", "redo", "winners", "undo"} /\ tx \in [Txns -> TxRows]
        /\ att \in ATTs /\ recAtt \in ATTs
    BY <1>1 DEF TypeOK
  <1>3. tx[t].pc # "none" => phase = "up" \/ (phase = "undo" /\ tx[t].pc \in UndoPCs)
    BY <1>1, <1>2 DEF TxAt, LoserAt
  <1> QED BY <1>1, <1>2, <1>3 DEF TxAt, CkptAt, ATTs, TxRows

\* The record a handler has just appended is the last of its transaction.
LEMMA NewHere ==
    ASSUME DurabilityInv, NEW rec, LogAppend(rec), rec.op \notin {"CKPT_BEGIN", "CKPT_END"},
           NEW t, rec.txn = t, tx'[t].lsn = NextLSN
    PROVE  Here(t, {rec.op})' /\ log'[NextLSN] = rec
  <1>1. Len(log') = NextLSN /\ log'[NextLSN] = rec
    BY AppendLen
  <1>2. LastOf(Len(log), t, Len(log))'
    BY OwnAppended
  <1> QED BY <1>1, <1>2 DEF Here

\* NewRecoveryMgr (recovery.go:51).
LEMMA StartMoves ==
    ASSUME CheckpointAlone, DurabilityInv, ChainInv, NEW t \in Txns, TxStart(t)
    PROVE  Moves(t)
  <1>0. /\ phase = "up" => WorkAt(t)
        /\ tx[t].pc = "new" => phase = "up" /\ ckpt.pc = "idle"
        /\ tx \in [Txns -> TxRows] /\ att \in [Txns -> Entries]
    BY HandlerAt DEF UndoPCs, RollbackPCs, AtRest
  <1>1. CASE StartLog(t)
    <2>1. /\ phase = "up" /\ ckpt.pc = "idle" /\ att[t] = Absent /\ tx[t].pc = "none"
          /\ UNCHANGED <<master, ckpt, phase, att, recAtt>> /\ LogAppend(StartRec(t))
          /\ tx' = [tx EXCEPT ![t] = [pc |-> "new", lsn |-> NextLSN, undo |-> NoLSN]]
      BY <1>0, <1>1 DEF StartLog, MayStartHandler, WorkAt, GotoWith, tblVars, recVars
    <2>2. /\ tx'[t].pc = "new" /\ tx'[t].lsn = NextLSN /\ \A u \in Txns \ {t} : tx'[u] = tx[u]
      BY <1>0, <2>1
    <2>3. StartRec(t).op = "START" /\ StartRec(t).txn = t
      BY DEF StartRec
    <2>4. Here(t, {"START"})'
      BY <2>1, <2>2, <2>3, NewHere
    <2>5. TxAt(t)'
      BY <2>1, <2>2, <2>4 DEF TxAt, UndoAt, WorkAt, LoserAt
    <2> QED BY <2>1, <2>2, <2>3, <2>5 DEF Moves, Fits
  <1>2. CASE StartSet(t)
    <2>1. /\ tx[t].pc = "new" /\ UNCHANGED <<log, master, ckpt, phase, recAtt>>
          /\ att' = [att EXCEPT ![t] = Entry("running", tx[t].lsn)]
          /\ tx' = [tx EXCEPT ![t] = [pc |-> "active", lsn |-> NoLSN, undo |-> NoLSN]]
      BY <1>2 DEF StartSet, GotoWith, logVars, recVars
    <2>2. /\ tx'[t].pc = "active" /\ \A u \in Txns \ {t} : tx'[u] = tx[u] /\ att'[u] = att[u]
          /\ att'[t].status = "running" /\ att'[t].lastLSN = tx[t].lsn
      BY <1>0, <2>1 DEF Entry
    <2>3. LastOf(tx[t].lsn, t, Len(log)) /\ log[tx[t].lsn].op = "START"
      BY <1>0, <2>1 DEF WorkAt, Here
    <2>4. LastOf(att[t].lastLSN, t, Len(log))'
      BY <2>1, <2>2, <2>3 DEF LastOf, RecOf, IsTxRec
    <2>5. TxAt(t)'
      BY <1>0, <2>1, <2>2, <2>3, <2>4 DEF TxAt, UndoAt, WorkAt, LoserAt
    <2> QED BY <1>0, <2>1, <2>2, <2>5 DEF Moves
  <1> QED BY <1>1, <1>2 DEF TxStart

\* SetInt16 ... SetDate (recovery.go:177-255).
LEMMA UpdateMoves ==
    ASSUME CheckpointAlone, DurabilityInv, ChainInv, NEW t \in Txns, TxUpdate(t)
    PROVE  Moves(t)
  <1>0. /\ phase = "up" => WorkAt(t)
        /\ tx[t].pc \in {"logged", "linked"} => phase = "up" /\ ckpt.pc = "idle"
        /\ tx \in [Txns -> TxRows] /\ tx[t] \in TxRows /\ att \in [Txns -> Entries]
    BY HandlerAt DEF UndoPCs, RollbackPCs, AtRest
  <1>1. ASSUME NEW p \in Pages, UpdateLog(t, p) PROVE Moves(t)
    <2> DEFINE rec == SetRec(t, att[t].lastLSN, p, buf[p].val, NextLSN)
    <2>1. /\ phase = "up" /\ ckpt.pc = "idle" /\ tx[t].pc = "active"
          /\ UNCHANGED <<master, ckpt, phase, att, recAtt>> /\ LogAppend(rec)
          /\ tx' = [tx EXCEPT ![t] = [pc |-> "logged", lsn |-> NextLSN, undo |-> NoLSN]]
      BY <1>1 DEF UpdateLog, MayStartHandler, GotoWith, tblVars, recVars
    <2>2. tx'[t].pc = "logged" /\ tx'[t].lsn = NextLSN /\ \A u \in Txns \ {t} : tx'[u] = tx[u]
      BY <1>0, <2>1
    <2>3. rec.op = "SET" /\ rec.txn = t /\ rec.prev = att[t].lastLSN
      BY DEF SetRec
    <2> HIDE DEF rec
    <2>4. Here(t, {"SET"})'
      BY <2>1, <2>2, <2>3, NewHere
    <2>5. att[t].status = "running" /\ Fits(rec)
      BY <1>0, <2>1, <2>3 DEF WorkAt, Fits
    <2>6. TxAt(t)'
      BY <2>1, <2>2, <2>4, <2>5 DEF TxAt, UndoAt, WorkAt, LoserAt
    <2> QED BY <2>1, <2>2, <2>3, <2>5, <2>6 DEF Moves
  <1>2. ASSUME log' = log, Here(t, {"SET"})
        PROVE  LastOf(tx[t].lsn, t, Len(log)) /\ log'[tx[t].lsn].op = "SET"
               /\ \A i : LastOf(i, t, Len(log)) => LastOf(i, t, Len(log))'
    BY <1>2 DEF LastOf, Here, RecOf, IsTxRec
  <1>3. CASE UpdateLink(t)
    <2>1. /\ tx[t].pc = "logged" /\ UNCHANGED <<log, master, ckpt, phase, recAtt>>
          /\ att' = [att EXCEPT ![t].lastLSN = tx[t].lsn] /\ tx' = [tx EXCEPT ![t].pc = "linked"]
      BY <1>3 DEF UpdateLink, Goto, logVars, recVars
    <2>2. /\ tx'[t].pc = "linked" /\ tx'[t].lsn = tx[t].lsn
          /\ \A u \in Txns \ {t} : tx'[u] = tx[u] /\ att'[u] = att[u]
          /\ att'[t].lastLSN = tx[t].lsn /\ att'[t].status = att[t].status
      BY <1>0, <2>1 DEF TxRows, Entries
    <2>3. Here(t, {"SET"}) /\ att[t].status = "running"
      BY <1>0, <2>1 DEF WorkAt
    <2>4. Here(t, {"SET"})'
      BY <1>2, <2>1, <2>2, <2>3 DEF Here
    <2>5. TxAt(t)'
      BY <1>0, <2>1, <2>2, <2>3, <2>4 DEF TxAt, UndoAt, WorkAt, LoserAt
    <2> QED BY <1>0, <2>1, <2>2, <2>5 DEF Moves
  <1>4. CASE UpdatePage(t)
    <2>1. /\ tx[t].pc = "linked" /\ UNCHANGED <<log, master, ckpt, phase, att, recAtt>>
          /\ tx' = [tx EXCEPT ![t] = [pc |-> "active", lsn |-> NoLSN, undo |-> NoLSN]]
      BY <1>4 DEF UpdatePage, GotoWith, logVars, recVars
    <2>2. tx'[t].pc = "active" /\ \A u \in Txns \ {t} : tx'[u] = tx[u]
      BY <1>0, <2>1
    <2>3. Here(t, {"SET"}) /\ att[t].status = "running" /\ att[t].lastLSN = tx[t].lsn
      BY <1>0, <2>1 DEF WorkAt
    <2>4. LastOf(att[t].lastLSN, t, Len(log))' /\ log'[att[t].lastLSN].op = "SET"
      BY <1>2, <2>1, <2>3 DEF Here
    <2>5. TxAt(t)'
      BY <1>0, <2>1, <2>2, <2>3, <2>4 DEF TxAt, UndoAt, WorkAt, LoserAt
    <2> QED BY <1>0, <2>1, <2>2, <2>5 DEF Moves
  <1> QED BY <1>1, <1>3, <1>4 DEF TxUpdate

\* With the log as it was, so is what it says.
LEMMA SameLog ==
    ASSUME log' = log
    PROVE  /\ \A i, t : LastOf(i, t, Len(log))' <=> LastOf(i, t, Len(log))
           /\ \A t : Resolved(t, Len(log))' <=> Resolved(t, Len(log))
           /\ \A e, t : EntryAt(e, t, Len(log))' <=> EntryAt(e, t, Len(log))
           /\ \A u, l : DownTo(u, l)' <=> DownTo(u, l)
           /\ \A l : AllUndone(l)' <=> AllUndone(l)
           /\ \A i, j : SameTx(i, j)' <=> SameTx(i, j)
  <1>1. \A i, t : LastOf(i, t, Len(log))' <=> LastOf(i, t, Len(log))
    BY DEF LastOf, RecOf, IsTxRec
  <1>2. \A t : Resolved(t, Len(log))' <=> Resolved(t, Len(log))
    BY <1>1 DEF Resolved
  <1>3. \A e, t : EntryAt(e, t, Len(log))' <=> EntryAt(e, t, Len(log))
    BY <1>1, <1>2 DEF EntryAt
  <1>4. \A i, j : (SameTx(i, j)' <=> SameTx(i, j)) /\ (Compensated(i, j)' <=> Compensated(i, j))
    BY DEF SameTx, IsTxRec, Compensated
  <1>5. \A u, l : DownTo(u, l)' <=> DownTo(u, l)
    BY <1>4 DEF DownTo
  <1>6. \A l : AllUndone(l)' <=> AllUndone(l)
    BY <1>4 DEF AllUndone
  <1> QED BY <1>1, <1>2, <1>3, <1>4, <1>5, <1>6

\* ... and so is a transaction that still points at its last record.
LEMMA SameHere ==
    ASSUME log' = log, NEW t, NEW ops, Here(t, ops), tx'[t].lsn = tx[t].lsn
    PROVE  Here(t, ops)'
  BY SameLog DEF Here

\* Commit up to its END record (recovery.go:74).
LEMMA CommitMoves ==
    ASSUME CheckpointAlone, DurabilityInv, ChainInv, NEW t \in Txns, TxCommit(t)
    PROVE  Moves(t)
  <1>0. /\ phase = "up" => WorkAt(t)
        /\ tx[t].pc \in {"commit", "commitFlushed", "commitSet"} => phase = "up" /\ ckpt.pc = "idle"
        /\ tx \in [Txns -> TxRows] /\ tx[t] \in TxRows /\ att \in [Txns -> Entries]
    BY HandlerAt DEF UndoPCs, RollbackPCs, AtRest
  <1>1. CASE CommitLog(t)
    <2> DEFINE rec == CommitRec(t, att[t].lastLSN)
    <2>1. /\ phase = "up" /\ ckpt.pc = "idle" /\ tx[t].pc = "active"
          /\ UNCHANGED <<master, ckpt, phase, att, recAtt>> /\ LogAppend(rec)
          /\ tx' = [tx EXCEPT ![t] = [pc |-> "commit", lsn |-> NextLSN, undo |-> NoLSN]]
      BY <1>1 DEF CommitLog, MayStartHandler, GotoWith, tblVars, recVars
    <2>2. tx'[t].pc = "commit" /\ tx'[t].lsn = NextLSN /\ \A u \in Txns \ {t} : tx'[u] = tx[u]
      BY <1>0, <2>1
    <2>3. rec.op = "COMMIT" /\ rec.txn = t /\ rec.prev = att[t].lastLSN
      BY DEF CommitRec
    <2> HIDE DEF rec
    <2>4. Here(t, {"COMMIT"})'
      BY <2>1, <2>2, <2>3, NewHere
    <2>5. Fits(rec)
      BY <1>0, <2>1, <2>3 DEF WorkAt, Fits
    <2>6. TxAt(t)'
      BY <2>1, <2>2, <2>4 DEF TxAt, UndoAt, WorkAt, LoserAt
    <2> QED BY <2>1, <2>2, <2>3, <2>5, <2>6 DEF Moves
  <1>2. ASSUME NEW pc \in {"commitFlushed", "commitSet"}, tx' = [tx EXCEPT ![t].pc = pc],
               tx[t].pc \in {"commit", "commitFlushed"},
               UNCHANGED <<log, master, ckpt, phase, recAtt>>,
               \A u \in Txns \ {t} : att'[u] = att[u]
        PROVE Moves(t)
    <2>1. tx'[t].pc = pc /\ tx'[t].lsn = tx[t].lsn /\ \A u \in Txns \ {t} : tx'[u] = tx[u]
      BY <1>0, <1>2 DEF TxRows
    <2>2. Here(t, {"COMMIT"})'
      BY <1>0, <1>2, <2>1, SameHere DEF WorkAt
    <2>3. TxAt(t)'
      BY <1>0, <1>2, <2>1, <2>2 DEF TxAt, UndoAt, WorkAt, LoserAt
    <2> QED BY <1>0, <1>2, <2>1, <2>3 DEF Moves
  <1>3. CASE CommitFlush(t)
    BY <1>2, <1>3 DEF CommitFlush, Goto, tblVars, recVars
  <1>4. CASE CommitSet(t)
    <2>1. \A u \in Txns \ {t} : att'[u] = att[u]
      BY <1>0, <1>4 DEF CommitSet
    <2> QED BY <1>2, <1>4, <2>1 DEF CommitSet, Goto, logVars, recVars
  <1> QED BY <1>1, <1>3, <1>4 DEF TxCommit

\* The END record and removeTrx, of a commit and of a rollback (recovery.go:94, 122).
LEMMA EndMoves ==
    ASSUME CheckpointAlone, DurabilityInv, ChainInv, NEW t \in Txns, TxEnd(t)
    PROVE  Moves(t)
  <1>0. /\ UndoAt(t) /\ (phase = "up" => WorkAt(t)) /\ (phase # "up" => att[t] = Absent)
        /\ tx[t].pc \in {"commitSet", "abortSet", "ended"} =>
              (phase = "up" \/ phase = "undo") /\ ckpt.pc = "idle"
        /\ tx[t].pc = "commitSet" => phase = "up"
        /\ tx \in [Txns -> TxRows] /\ tx[t] \in TxRows /\ att \in [Txns -> Entries]
    BY HandlerAt DEF UndoPCs, RollbackPCs, AtRest
  <1>1. CASE EndLog(t)
    <2> DEFINE rec == EndRec(t, tx[t].lsn)
    <2>1. /\ tx[t].pc \in {"commitSet", "abortSet"} /\ LogAppend(rec)
          /\ UNCHANGED <<master, ckpt, phase, att, recAtt>> /\ tx' = [tx EXCEPT ![t].pc = "ended"]
      BY <1>1 DEF EndLog, Goto, tblVars, recVars
    <2>2. tx'[t].pc = "ended" /\ \A u \in Txns \ {t} : tx'[u] = tx[u]
      BY <1>0, <2>1 DEF TxRows
    <2>3. rec.op = "END" /\ rec.txn = t /\ rec.prev = tx[t].lsn
      BY DEF EndRec
    <2> HIDE DEF rec
    <2>4. Fits(rec)
      BY <1>0, <2>1, <2>3 DEF WorkAt, UndoAt, Here, Fits
    <2>5. Resolved(t, Len(log))'
      <3>1. LastOf(Len(log), t, Len(log))' /\ log'[Len(log')] = rec /\ Len(log') \in Nat
        BY <2>1, <2>3, OwnAppended, AppendPrefix
      <3> QED BY <2>3, <3>1 DEF Resolved, LastOf
    <2>6. TxAt(t)'
      BY <1>0, <2>1, <2>2, <2>5 DEF TxAt, UndoAt, WorkAt, LoserAt, UndoPCs
    <2> QED BY <1>0, <2>1, <2>2, <2>3, <2>4, <2>6 DEF Moves
  <1>2. CASE Finish(t)
    <2>1. /\ tx[t].pc = "ended" /\ phase = "up" /\ UNCHANGED <<log, master, ckpt, phase, recAtt>>
          /\ att' = [att EXCEPT ![t] = Absent] /\ tx' = [tx EXCEPT ![t].pc = "done"]
      BY <1>2 DEF Finish, Goto, logVars, recVars
    <2>2. /\ tx'[t].pc = "done" /\ att'[t] = Absent
          /\ \A u \in Txns \ {t} : tx'[u] = tx[u] /\ att'[u] = att[u]
      BY <1>0, <2>1 DEF TxRows
    <2>3. Resolved(t, Len(log))'
      BY <1>0, <2>1, SameLog DEF UndoAt
    <2>4. TxAt(t)'
      BY <2>1, <2>2, <2>3 DEF TxAt, UndoAt, WorkAt, LoserAt
    <2> QED BY <1>0, <2>1, <2>2, <2>4 DEF Moves
  <1> QED BY <1>1, <1>2 DEF TxEnd

\* An ABORT record has the whole transaction still to undo.
LEMMA AbortDown ==
    ASSUME LogOk, Len(log) \in Nat, NEW l \in LSNs, log[l].op = "ABORT"
    PROVE  DownTo(log[l].prev, l)
  <1>1. /\ log[l].prev \in 1 .. l - 1 /\ SameTx(log[l].prev, l)
        /\ \A i \in 1 .. l - 1 : SameTx(i, l) => MayFollow(i, l) /\ i <= log[l].prev
    BY DEF LogOk, RecordOk, ChainOk, IsTxRec
  <1>2. \A i \in 1 .. l - 1 : SameTx(i, l) => log[i].op \in {"START", "SET"}
    BY <1>1 DEF MayFollow
  <1>3. \A c \in 1 .. l : c \in 1 .. l - 1 \/ c = l
    BY DEF LSNs
  <1>4. \A c \in 1 .. l : ~(log[c].op = "CLR" /\ SameTx(c, l))
    BY <1>2, <1>3
  <1>5. \A s \in log[l].prev + 1 .. l : ~(log[s].op = "SET" /\ SameTx(s, l))
    <2> SUFFICES ASSUME NEW s \in log[l].prev + 1 .. l, log[s].op = "SET", SameTx(s, l)
                 PROVE  FALSE
      OBVIOUS
    <2>1. s \in 1 .. l - 1 /\ s > log[l].prev
      BY <1>1 DEF LSNs
    <2> QED BY <1>1, <2>1
  <1> QED BY <1>1, <1>2, <1>4, <1>5 DEF DownTo

\* A CLR has what undoNext names still to undo.
LEMMA ClrDown ==
    ASSUME LogOk, Len(log) \in Nat, NEW l \in LSNs, log[l].op = "CLR"
    PROVE  DownTo(log[l].undoNext, l)
  <1>1. ClrOk(l) /\ \A i \in 1 .. l - 1 : SameTx(i, l) => MayFollow(i, l)
    BY DEF LogOk, RecordOk
  <1>2. ASSUME NEW c \in 1 .. l, log[c].op = "CLR", SameTx(c, l)
        PROVE  log[l].undoNext <= log[c].undoNext
    <2>1. CASE c = l
      BY <1>1, <2>1 DEF ClrOk
    <2>2. CASE c # l
      <3>1. c \in 1 .. l - 1 /\ c \in LSNs
        BY <2>2 DEF LSNs
      <3>2. MayFollow(c, l) /\ log[c].undoNext \in Int /\ log[l].undoNext \in Int
        BY <1>1, <1>2, <3>1 DEF LogOk, RecordOk, ClrOk
      <3> QED BY <1>2, <3>2 DEF MayFollow
    <2> QED BY <2>1, <2>2
  <1> QED BY <1>1, <1>2 DEF DownTo, ClrOk

\* A rollback that has come down to the START record has nothing left to undo.
LEMMA StartUndone ==
    ASSUME NEW l \in Nat, NEW u, DownTo(u, l), log[u].op = "START"
    PROVE  AllUndone(l)
  <1> SUFFICES ASSUME NEW s \in 1 .. l, log[s].op = "SET", SameTx(s, l)
               PROVE  Compensated(s, l)
    BY DEF AllUndone
  <1>1. /\ u \in 1 .. l - 1 /\ SameTx(u, l)
        /\ \A i \in u + 1 .. l : log[i].op = "SET" /\ SameTx(i, l) => Compensated(i, l)
    BY DEF DownTo
  <1>2. CASE s > u
    <2>1. s \in u + 1 .. l
      BY <1>1, <1>2
    <2> QED BY <1>1, <2>1
  <1>3. CASE s < u
    <2>1. u \in s + 1 .. l
      BY <1>1, <1>3
    <2> QED BY <1>1, <2>1 DEF SameTx
  <1> QED BY <1>1, <1>2, <1>3

\* The last record of t, where its rollback goes on.
LEMMA AtLast ==
    ASSUME NEW t, NEW ops, Here(t, ops), Len(log) \in Nat
    PROVE  tx[t].lsn \in LSNs /\ tx[t].lsn \in Nat /\ log[tx[t].lsn].op \in ops
  BY DEF Here, LastOf, LSNs

\* Rollback around doRollback (recovery.go:99).
LEMMA RollbackMoves ==
    ASSUME CheckpointAlone, DurabilityInv, ChainInv, NEW t \in Txns, TxRollback(t)
    PROVE  Moves(t)
  <1>0. /\ UndoAt(t) /\ (phase = "up" => WorkAt(t)) /\ (phase # "up" => att[t] = Absent)
        /\ tx[t].pc \in {"abort", "undone"} => (phase = "up" \/ phase = "undo") /\ ckpt.pc = "idle"
        /\ tx \in [Txns -> TxRows] /\ tx[t] \in TxRows
        /\ att \in [Txns -> Entries] /\ recAtt \in [Txns -> Entries]
    BY HandlerAt DEF AtRest
  <1>1. CASE AbortLog(t)
    <2> DEFINE rec == AbortRec(t, att[t].lastLSN)
    <2>1. /\ phase = "up" /\ ckpt.pc = "idle" /\ tx[t].pc = "active"
          /\ UNCHANGED <<master, ckpt, phase, att, recAtt>> /\ LogAppend(rec)
          /\ tx' = [tx EXCEPT ![t] = [pc |-> "abort", lsn |-> NextLSN, undo |-> att[t].lastLSN]]
      BY <1>1 DEF AbortLog, MayStartHandler, GotoWith, tblVars, recVars
    <2>2. /\ tx'[t].pc = "abort" /\ tx'[t].lsn = NextLSN /\ tx'[t].undo = att[t].lastLSN
          /\ \A u \in Txns \ {t} : tx'[u] = tx[u]
      BY <1>0, <2>1
    <2>3. rec.op = "ABORT" /\ rec.txn = t /\ rec.prev = att[t].lastLSN
      BY DEF AbortRec
    <2> HIDE DEF rec
    <2>4. Here(t, {"ABORT"})' /\ log'[NextLSN] = rec
      BY <2>1, <2>2, <2>3, NewHere
    <2>5. Fits(rec)
      BY <1>0, <2>1, <2>3 DEF WorkAt, Fits
    <2>6. TxAt(t)'
      BY <2>1, <2>2, <2>3, <2>4 DEF TxAt, UndoAt, WorkAt, LoserAt
    <2> QED BY <2>1, <2>2, <2>3, <2>5, <2>6 DEF Moves
  <1>2. CASE AbortFlush(t)
    <2>1. /\ tx[t].pc = "abort" /\ LogFlush(tx[t].lsn)
          /\ UNCHANGED <<log, master, ckpt, phase, att, recAtt>>
          /\ tx' = [tx EXCEPT ![t].pc = "undo"]
      BY <1>2 DEF AbortFlush, Goto, tblVars, recVars
    <2>2. /\ tx'[t].pc = "undo" /\ tx'[t].lsn = tx[t].lsn /\ tx'[t].undo = tx[t].undo
          /\ \A u \in Txns \ {t} : tx'[u] = tx[u]
      BY <1>0, <2>1 DEF TxRows
    <2>3. Here(t, {"ABORT"}) /\ tx[t].undo = log[tx[t].lsn].prev
      BY <1>0, <2>1 DEF UndoAt
    <2>4. tx[t].lsn \in LSNs /\ tx[t].lsn \in Nat /\ log[tx[t].lsn].op = "ABORT" /\ Len(log) \in Nat
      BY <2>3, AtLast, StateFacts
    <2>5. DownTo(tx[t].undo, tx[t].lsn)
      BY <2>3, <2>4, AbortDown DEF ChainInv
    <2>6. tx[t].undo <= flushed'
      <3>1. tx[t].undo \in 1 .. tx[t].lsn - 1
        BY <2>5 DEF DownTo
      <3>2. flushed' \in Nat /\ tx[t].lsn <= flushed'
        BY <2>1, <2>4, StateFacts, FlushFacts
      <3> QED BY <2>4, <3>1, <3>2
    <2>7. DownTo(tx[t].undo, tx[t].lsn)' /\ Here(t, {"ABORT"})'
      BY <2>1, <2>2, <2>3, <2>5, SameLog, SameHere
    <2>8. TxAt(t)'
      BY <1>0, <2>1, <2>2, <2>6, <2>7 DEF TxAt, UndoAt, WorkAt, LoserAt, UndoPCs, RollbackPCs, Here
    <2> QED BY <1>0, <2>1, <2>2, <2>8 DEF Moves
  <1>3. CASE RollbackSet(t)
    <2>1. /\ tx[t].pc = "undone"
          /\ UNCHANGED <<log, master, ckpt, phase>> /\ tx' = [tx EXCEPT ![t].pc = "abortSet"]
          /\ phase # "up" => att' = att
          /\ \A u \in Txns \ {t} : att'[u] = att[u] /\ recAtt'[u] = recAtt[u]
      BY <1>0, <1>3 DEF RollbackSet, Goto, logVars
    <2>2. /\ tx'[t].pc = "abortSet" /\ tx'[t].lsn = tx[t].lsn
          /\ \A u \in Txns \ {t} : tx'[u] = tx[u]
      BY <1>0, <2>1 DEF TxRows
    <2>3. Here(t, {"ABORT", "CLR"}) /\ AllUndone(tx[t].lsn)
      BY <1>0, <2>1 DEF UndoAt
    <2>4. Here(t, {"ABORT", "CLR"})' /\ AllUndone(tx[t].lsn)'
      BY <2>1, <2>2, <2>3, SameLog, SameHere
    <2>5. TxAt(t)'
      BY <1>0, <2>1, <2>2, <2>4 DEF TxAt, UndoAt, WorkAt, LoserAt, UndoPCs, RollbackPCs
    <2> QED BY <1>0, <2>1, <2>2, <2>5 DEF Moves
  <1> QED BY <1>1, <1>2, <1>3 DEF TxRollback

\* doRollback, record by record (recovery.go:258).
LEMMA DoRollbackMoves ==
    ASSUME CheckpointAlone, DurabilityInv, ChainInv, NEW t \in Txns, DoRollback(t)
    PROVE  Moves(t)
  <1>0. /\ UndoAt(t) /\ (phase # "up" => att[t] = Absent) /\ LogOk
        /\ tx[t].pc \in {"undo", "clr", "clrFlushed"} =>
              (phase = "up" \/ phase = "undo") /\ ckpt.pc = "idle"
        /\ tx \in [Txns -> TxRows] /\ tx[t] \in TxRows
        /\ Len(log) \in Nat /\ flushed \in Nat /\ flushed <= Len(log)
    BY HandlerAt, StateFacts DEF AtRest, ChainInv
  <1> DEFINE l == tx[t].lsn
             u == tx[t].undo
  <1>u. ASSUME tx[t].pc = "undo"
        PROVE  /\ Here(t, {"ABORT", "CLR"}) /\ u <= flushed /\ (u = l \/ DownTo(u, l))
               /\ l \in LSNs /\ l \in Nat /\ log[l].op \in {"ABORT", "CLR"} /\ u # NoLSN
    <2>1. Here(t, {"ABORT", "CLR"}) /\ u <= flushed /\ (u = l \/ DownTo(u, l))
      BY <1>0, <1>u DEF UndoAt
    <2>2. l \in LSNs /\ l \in Nat /\ log[l].op \in {"ABORT", "CLR"}
      BY <1>0, <2>1, AtLast
    <2> QED BY <2>1, <2>2 DEF DownTo, NoLSN
  <1>1. CASE UndoStop(t)
    <2>1. /\ tx[t].pc = "undo" /\ (u # NoLSN => log[u].op = "START")
          /\ UNCHANGED <<log, master, ckpt, phase, att, recAtt>>
          /\ tx' = [tx EXCEPT ![t].pc = "undone"]
      BY <1>1 DEF UndoStop, UndoStops, Goto, logVars, tblVars, recVars
    <2>2. /\ tx'[t].pc = "undone" /\ tx'[t].lsn = l /\ \A v \in Txns \ {t} : tx'[v] = tx[v]
      BY <1>0, <2>1 DEF TxRows
    <2>3. log[u].op = "START" /\ DownTo(u, l)
      BY <1>u, <2>1
    <2>4. AllUndone(l)
      BY <1>u, <2>1, <2>3, StartUndone
    <2>5. Here(t, {"ABORT", "CLR"})' /\ AllUndone(tx[t].lsn)'
      BY <1>u, <2>1, <2>2, <2>4, SameLog, SameHere
    <2>6. TxAt(t)'
      BY <1>0, <2>1, <2>2, <2>5 DEF TxAt, UndoAt, WorkAt, LoserAt, UndoPCs, RollbackPCs
    <2> QED BY <1>0, <2>1, <2>2, <2>6 DEF Moves
  <1>2. CASE UndoSet(t)
    <2>0. PICK rec : rec = CLRRec(t, tx[t].lsn, log[u].page, log[u].old, log[u].prev)
      OBVIOUS
    <2>1. /\ tx[t].pc = "undo" /\ Readable(t) /\ log[u].op = "SET" /\ LogAppend(rec)
          /\ UNCHANGED <<master, ckpt, phase, att, recAtt>>
          /\ tx' = [tx EXCEPT ![t].pc = "clr", ![t].lsn = NextLSN]
      BY <1>2, <2>0 DEF UndoSet, tblVars, recVars
    <2>2. /\ tx'[t].pc = "clr" /\ tx'[t].lsn = NextLSN /\ tx'[t].undo = u
          /\ \A v \in Txns \ {t} : tx'[v] = tx[v]
      BY <1>0, <2>1 DEF TxRows
    <2>3. rec.op = "CLR" /\ rec.txn = t /\ rec.prev = l /\ rec.undoNext = log[u].prev
      BY <2>0 DEF CLRRec
    <2>4. Here(t, {"CLR"})' /\ log'[NextLSN] = rec
      <3>1. LogAppend(rec) /\ rec.op \notin {"CKPT_BEGIN", "CKPT_END"} /\ rec.txn = t
            /\ tx'[t].lsn = NextLSN
        BY <2>1, <2>2, <2>3
      <3>2. Here(t, {rec.op})' /\ log'[NextLSN] = rec
        BY <3>1, NewHere
      <3> QED BY <2>3, <3>2
    <2>5. LastOf(l, t, Len(log)) /\ DownTo(u, l) /\ u \in LSNs /\ u < l /\ SameTx(u, l)
      BY <1>u, <2>1 DEF Here, DownTo, LSNs
    <2>6. Fits(rec)
      BY <1>u, <2>1, <2>3, <2>5 DEF Fits
    <2>7. /\ tx'[t].undo \in LSNs' /\ log'[tx'[t].undo] = log[u]
          /\ SameTx(tx[t].undo, tx[t].lsn)'
      <3>1. PICK n \in Nat : n = Len(log)
        BY <1>0
      <3>2. PICK v \in 1 .. n : v = u
        BY <2>5, <3>1 DEF LSNs
      <3>3. SameTx(v, n + 1)'
        BY <2>1, <2>3, <2>5, <3>1, <3>2, SameAppended
      <3>4. log'[v] = log[v] /\ Len(log') = n + 1 /\ NextLSN = n + 1
        BY <2>1, <3>1, <3>2, AppendPrefix DEF CommonPrefix, NextLSN
      <3>5. v \in LSNs' /\ tx'[t].undo = v /\ tx'[t].lsn = n + 1
        BY <2>2, <3>1, <3>2, <3>4 DEF LSNs
      <3> QED BY <3>2, <3>3, <3>4, <3>5
    <2>8. UndoAt(t)'
      <3>1. tx'[t].undo <= flushed'
        BY <1>u, <2>1, <2>2 DEF LogAppend
      <3>2. log'[tx'[t].lsn].undoNext = log[u].prev
        BY <2>2, <2>3, <2>4
      <3> QED BY <2>1, <2>2, <2>4, <2>7, <3>1, <3>2 DEF UndoAt
    <2>9. TxAt(t)'
      BY <1>0, <2>1, <2>2, <2>8 DEF TxAt, WorkAt, LoserAt, UndoPCs, RollbackPCs
    <2> QED BY <1>0, <2>1, <2>2, <2>3, <2>6, <2>9 DEF Moves
  <1>3. CASE UndoSkip(t)
    <2>1. /\ tx[t].pc = "undo" /\ log[u].op \in {"CLR", "COMMIT", "ABORT", "END"}
          /\ UNCHANGED <<log, flushed, master, ckpt, phase, att, recAtt>>
          /\ tx' = [tx EXCEPT ![t].undo =
                        IF log[u].op = "CLR" THEN log[u].undoNext ELSE log[u].prev]
      BY <1>3 DEF UndoSkip, logVars, tblVars, recVars
    <2>2. /\ tx'[t].pc = "undo" /\ tx'[t].lsn = l /\ \A v \in Txns \ {t} : tx'[v] = tx[v]
          /\ tx'[t].undo = IF log[u].op = "CLR" THEN log[u].undoNext ELSE log[u].prev
      BY <1>0, <2>1 DEF TxRows
    <2>3. u = l
      BY <1>u, <2>1 DEF DownTo
    <2>4. DownTo(tx'[t].undo, l)
      BY <1>0, <1>u, <2>1, <2>2, <2>3, AbortDown, ClrDown
    <2>5. tx'[t].undo <= flushed
      <3>1. tx'[t].undo \in 1 .. l - 1
        BY <2>4 DEF DownTo
      <3>2. PICK x \in 1 .. l - 1 : x = tx'[t].undo
        BY <3>1
      <3>3. l <= flushed /\ l \in Nat /\ flushed \in Nat
        BY <1>0, <1>u, <2>1, <2>3
      <3>4. x <= flushed
        BY <3>3
      <3> QED BY <3>2, <3>4
    <2>6. Here(t, {"ABORT", "CLR"})' /\ DownTo(tx[t].undo, tx[t].lsn)'
      BY <1>u, <2>1, <2>2, <2>4, SameLog, SameHere
    <2>7. TxAt(t)'
      BY <1>0, <2>1, <2>2, <2>5, <2>6 DEF TxAt, UndoAt, WorkAt, LoserAt, UndoPCs, RollbackPCs
    <2> QED BY <1>0, <2>1, <2>2, <2>7 DEF Moves
  <1>4. CASE ClrFlush(t)
    <2>1. /\ tx[t].pc = "clr" /\ LogFlush(l)
          /\ UNCHANGED <<log, master, ckpt, phase, att, recAtt>>
          /\ tx' = [tx EXCEPT ![t].pc = "clrFlushed"]
      BY <1>4 DEF ClrFlush, Goto, tblVars, recVars
    <2>2. /\ tx'[t].pc = "clrFlushed" /\ tx'[t].lsn = l /\ tx'[t].undo = u
          /\ \A v \in Txns \ {t} : tx'[v] = tx[v]
      BY <1>0, <2>1 DEF TxRows
    <2>3. /\ Here(t, {"CLR"}) /\ u <= flushed /\ u \in LSNs /\ log[u].op = "SET" /\ SameTx(u, l)
          /\ log[l].undoNext = log[u].prev
      BY <1>0, <2>1 DEF UndoAt
    <2>4. u <= flushed'
      <3>1. l \in Nat /\ l \in LSNs
        BY <1>0, <2>3, AtLast
      <3>2. flushed' \in Nat /\ flushed <= flushed'
        BY <2>1, <3>1, StateFacts, FlushFacts DEF LSNs
      <3> QED BY <1>0, <2>3, <3>2 DEF LSNs
    <2>5. Here(t, {"CLR"})' /\ SameTx(u, l)' /\ (u \in LSNs)'
      BY <2>1, <2>2, <2>3, SameLog, SameHere DEF LSNs
    <2>6. TxAt(t)'
      BY <1>0, <2>1, <2>2, <2>3, <2>4, <2>5
         DEF TxAt, UndoAt, WorkAt, LoserAt, UndoPCs, RollbackPCs
    <2> QED BY <1>0, <2>1, <2>2, <2>6 DEF Moves
  <1>5. CASE UndoPage(t)
    <2>1. /\ tx[t].pc = "clrFlushed"
          /\ UNCHANGED <<log, flushed, master, ckpt, phase, att, recAtt>>
          /\ tx' = [tx EXCEPT ![t].pc = "undo", ![t].undo = log[u].prev]
      BY <1>5 DEF UndoPage, logVars, recVars
    <2>2. /\ tx'[t].pc = "undo" /\ tx'[t].lsn = l /\ tx'[t].undo = log[u].prev
          /\ \A v \in Txns \ {t} : tx'[v] = tx[v]
      BY <1>0, <2>1 DEF TxRows
    <2>3. /\ Here(t, {"CLR"}) /\ u <= flushed /\ u \in LSNs /\ log[u].op = "SET"
          /\ log[l].undoNext = log[u].prev
      BY <1>0, <2>1 DEF UndoAt
    <2>4. DownTo(log[u].prev, l)
      <3>1. l \in LSNs /\ log[l].op = "CLR"
        BY <1>0, <2>3, AtLast
      <3> QED BY <1>0, <2>3, <3>1, ClrDown
    <2>5. log[u].prev <= flushed
      <3>1. log[u].prev \in 1 .. u - 1
        BY <1>0, <2>3 DEF LogOk, RecordOk, ChainOk, IsTxRec
      <3> QED BY <1>0, <2>3, <3>1 DEF LSNs
    <2>6. Here(t, {"CLR"})' /\ DownTo(tx[t].undo, tx[t].lsn)'
      BY <2>1, <2>2, <2>3, <2>4, SameLog, SameHere
    <2>7. TxAt(t)'
      BY <1>0, <2>1, <2>2, <2>5, <2>6
         DEF TxAt, UndoAt, WorkAt, LoserAt, UndoPCs, RollbackPCs, Here
    <2> QED BY <1>0, <2>1, <2>2, <2>7 DEF Moves
  <1> QED BY <1>1, <1>2, <1>3, <1>4, <1>5 DEF DoRollback

\* The winners' END records and doUndoPhase (recovery.go:430).
LEMMA LoserMoves ==
    ASSUME CheckpointAlone, DurabilityInv, ChainInv, NEW t \in Txns,
           EndWinner(t) \/ RecoverLoser(t)
    PROVE  Moves(t)
  <1>0. /\ UndoAt(t) /\ (phase # "up" => att[t] = Absent) /\ (phase # "up" => ckpt.pc = "idle")
        /\ tx \in [Txns -> TxRows] /\ tx[t] \in TxRows /\ recAtt \in [Txns -> Entries]
        /\ Len(log) \in Nat /\ \A i \in LSNs : log[i] \in LogRecords
        /\ phase \in {"winners", "undo"} => LoserAt(t)
    BY HandlerAt, StateFacts DEF ChainInv, TxAt, LSNs
  <1>1. ASSUME phase \in {"winners", "undo"}, tx[t].pc = "none", recAtt[t] # Absent
        PROVE  /\ LastOf(recAtt[t].lastLSN, t, Len(log)) /\ recAtt[t].lastLSN \in LSNs
               /\ log[recAtt[t].lastLSN].op # "END"
               /\ recAtt[t].status = StatusAfter(log[recAtt[t].lastLSN].op)
               /\ log[recAtt[t].lastLSN].op \in {"START", "SET", "COMMIT", "ABORT", "CLR"}
    <2>1. /\ LastOf(recAtt[t].lastLSN, t, Len(log)) /\ log[recAtt[t].lastLSN].op # "END"
          /\ recAtt[t].status = StatusAfter(log[recAtt[t].lastLSN].op)
      BY <1>0, <1>1 DEF LoserAt, EntryAt
    <2>2. recAtt[t].lastLSN \in LSNs /\ IsTxRec(recAtt[t].lastLSN)
      BY <2>1 DEF LastOf, LSNs, RecOf
    <2>3. log[recAtt[t].lastLSN].op \in {"START", "SET", "COMMIT", "ABORT", "CLR", "END"}
      BY <1>0, <2>2 DEF LogRecords, IsTxRec
    <2> QED BY <2>1, <2>2, <2>3
  <1>2. Absent.status = "absent"
    BY DEF Absent
  <1>3. CASE EndWinner(t)
    <2>0. PICK rec : rec = EndRec(t, recAtt[t].lastLSN)
      OBVIOUS
    <2>1. /\ phase = "winners" /\ recAtt[t].status = "commited" /\ LogAppend(rec)
          /\ recAtt' = [recAtt EXCEPT ![t] = Absent]
          /\ UNCHANGED <<master, ckpt, phase, att, tx>>
      BY <1>3, <2>0 DEF EndWinner, tblVars
    <2>2. tx[t].pc = "none"
      BY <1>0, <2>1 DEF LoserAt
    <2>3. rec.op = "END" /\ rec.txn = t /\ rec.prev = recAtt[t].lastLSN
      BY <2>0 DEF EndRec
    <2>4. LastOf(rec.prev, t, Len(log)) /\ log[rec.prev].op = "COMMIT"
      BY <1>1, <1>2, <2>1, <2>2, <2>3 DEF StatusAfter
    <2>5. Fits(rec)
      BY <2>3, <2>4 DEF Fits
    <2>6. Resolved(t, Len(log))'
      <3>1. LastOf(Len(log), t, Len(log))' /\ log'[Len(log')] = rec /\ Len(log') \in Nat
        BY <2>1, <2>3, OwnAppended, AppendPrefix
      <3> QED BY <2>3, <3>1 DEF Resolved, LastOf
    <2>7. recAtt'[t] = Absent /\ \A u \in Txns \ {t} : recAtt'[u] = recAtt[u]
      BY <1>0, <2>1
    <2>8. TxAt(t)'
      BY <1>0, <2>1, <2>2, <2>6, <2>7 DEF TxAt, UndoAt, LoserAt, EntryAt
    <2> QED BY <1>0, <2>1, <2>3, <2>5, <2>7, <2>8 DEF Moves
  <1>4. CASE UndoRunningLoser(t)
    <2>0. PICK rec : rec = AbortRec(t, recAtt[t].lastLSN)
      OBVIOUS
    <2>1. /\ phase = "undo" /\ recAtt[t].status = "running" /\ LogAppend(rec) /\ tx[t].pc = "none"
          /\ UNCHANGED <<master, ckpt, phase, att, recAtt>>
          /\ tx' = [tx EXCEPT ![t] = [pc |-> "abort", lsn |-> NextLSN, undo |-> recAtt[t].lastLSN]]
      BY <1>4, <2>0 DEF UndoRunningLoser, NoUndoRunning, GotoWith, tblVars, recVars
    <2>2. /\ tx'[t].pc = "abort" /\ tx'[t].lsn = NextLSN /\ tx'[t].undo = recAtt[t].lastLSN
          /\ \A u \in Txns \ {t} : tx'[u] = tx[u]
      BY <1>0, <2>1
    <2>3. rec.op = "ABORT" /\ rec.txn = t /\ rec.prev = recAtt[t].lastLSN
      BY <2>0 DEF AbortRec
    <2>4. LastOf(rec.prev, t, Len(log)) /\ log[rec.prev].op \in {"START", "SET"}
      BY <1>1, <1>2, <2>1, <2>3 DEF StatusAfter
    <2>5. Fits(rec)
      BY <2>3, <2>4 DEF Fits
    <2>6. Here(t, {"ABORT"})' /\ log'[NextLSN] = rec
      <3>1. Here(t, {rec.op})' /\ log'[NextLSN] = rec
        BY <2>1, <2>2, <2>3, NewHere
      <3> QED BY <2>3, <3>1
    <2>7. TxAt(t)'
      BY <1>0, <2>1, <2>2, <2>3, <2>6 DEF TxAt, UndoAt, LoserAt, UndoPCs, RollbackPCs
    <2> QED BY <1>0, <2>1, <2>2, <2>3, <2>5, <2>7 DEF Moves
  <1>5. CASE UndoAbortingLoser(t)
    <2>1. /\ phase = "undo" /\ recAtt[t].status = "aborting" /\ tx[t].pc = "none"
          /\ UNCHANGED <<log, flushed, master, ckpt, phase, att, recAtt>>
          /\ tx' = [tx EXCEPT ![t] = [pc |-> "undo", lsn |-> recAtt[t].lastLSN,
                                      undo |-> recAtt[t].lastLSN]]
      BY <1>5 DEF UndoAbortingLoser, NoUndoRunning, GotoWith, logVars, tblVars, recVars
    <2>2. /\ tx'[t].pc = "undo" /\ tx'[t].lsn = recAtt[t].lastLSN /\ tx'[t].undo = tx'[t].lsn
          /\ \A u \in Txns \ {t} : tx'[u] = tx[u]
      BY <1>0, <2>1
    <2>3. /\ LastOf(recAtt[t].lastLSN, t, Len(log)) /\ recAtt[t].lastLSN <= flushed
          /\ log[recAtt[t].lastLSN].op \in {"ABORT", "CLR"}
      BY <1>0, <1>1, <1>2, <2>1 DEF StatusAfter, LoserAt
    <2>4. Here(t, {"ABORT", "CLR"})'
      BY <2>1, <2>2, <2>3, SameLog DEF Here
    <2>5. TxAt(t)'
      BY <1>0, <2>1, <2>2, <2>3, <2>4 DEF TxAt, UndoAt, LoserAt, UndoPCs, RollbackPCs
    <2> QED BY <1>0, <2>1, <2>2, <2>5 DEF Moves
  <1>6. CASE LoserUndone(t)
    <2>1. /\ phase = "undo" /\ tx[t].pc = "ended" /\ UNCHANGED <<log, master, ckpt, phase, att>>
          /\ recAtt' = [recAtt EXCEPT ![t] = Absent] /\ tx' = [tx EXCEPT ![t] = TxIdle]
      BY <1>6 DEF LoserUndone, logVars, tblVars
    <2>2. /\ tx'[t].pc = "none" /\ recAtt'[t] = Absent /\ recAtt'[t].lastLSN = NoLSN
          /\ \A u \in Txns \ {t} : tx'[u] = tx[u] /\ recAtt'[u] = recAtt[u]
      BY <1>0, <2>1 DEF TxIdle, Absent
    <2>3. Resolved(t, Len(log))' /\ NoLSN <= flushed'
      <3>1. flushed' \in Nat
        BY <1>6, StateFacts DEF LoserUndone, logVars
      <3> QED BY <1>0, <2>1, <3>1, SameLog DEF UndoAt, NoLSN
    <2>4. TxAt(t)'
      BY <1>0, <2>1, <2>2, <2>3 DEF TxAt, UndoAt, LoserAt, EntryAt
    <2> QED BY <1>0, <2>1, <2>2, <2>4 DEF Moves
  <1> QED BY <1>3, <1>4, <1>5, <1>6 DEF RecoverLoser

-----------------------------------------------------------------------------
(* The analysis of restart recovery. *)

\* A log left alone stays in order.
LEMMA SameLogOk == ASSUME DurabilityInv, log' = log, LogOk PROVE LogOk'
  <1>1. CommonPrefix(Len(log)) /\ Len(log) \in Nat /\ Len(log') \in Nat
    BY StateFacts DEF CommonPrefix
  <1> QED BY <1>1, RecordsInPrefix DEF LogOk, LSNs

\* The next record is that of another transaction, or the last of its own.
LEMMA NextLast ==
    ASSUME NEW k \in Nat \ {0}, NEW t
    PROVE  /\ ~RecOf(k, t) =>
                 /\ \A i : LastOf(i, t, k - 1) <=> LastOf(i, t, k)
                 /\ \A e : EntryAt(e, t, k - 1) => EntryAt(e, t, k)
           /\ RecOf(k, t) => LastOf(k, t, k)
  <1>1. ASSUME ~RecOf(k, t), NEW i PROVE LastOf(i, t, k - 1) <=> LastOf(i, t, k)
    <2>1. CASE i \in 1 .. k - 1
      <3>1. i + 1 .. k = (i + 1 .. k - 1) \cup {k} /\ i \in 1 .. k
        BY <2>1
      <3> QED BY <1>1, <2>1, <3>1 DEF LastOf
    <2>2. CASE i \notin 1 .. k - 1
      BY <1>1, <2>2 DEF LastOf
    <2> QED BY <2>1, <2>2
  <1>2. ASSUME ~RecOf(k, t), Resolved(t, k - 1) PROVE Resolved(t, k)
    <2>1. \A i : LastOf(i, t, k - 1) => i \in 1 .. k - 1
      BY DEF LastOf
    <2> QED BY <1>1, <1>2, <2>1 DEF Resolved
  <1>3. ASSUME ~RecOf(k, t), NEW e, EntryAt(e, t, k - 1) PROVE EntryAt(e, t, k)
    BY <1>1, <1>2, <1>3 DEF EntryAt
  <1>4. RecOf(k, t) => LastOf(k, t, k)
    BY DEF LastOf
  <1> QED BY <1>1, <1>3, <1>4

\* What is behind a record that continues a chain.
LEMMA PrevLast ==
    ASSUME LogOk, Len(log) \in Nat, NEW k \in LSNs, NEW t, RecOf(k, t), log[k].op # "START"
    PROVE  LastOf(log[k].prev, t, k - 1) /\ MayFollow(log[k].prev, k)
  <1>1. /\ log[k].prev \in 1 .. k - 1 /\ SameTx(log[k].prev, k)
        /\ \A i \in 1 .. k - 1 : SameTx(i, k) => MayFollow(i, k) /\ i <= log[k].prev
    BY DEF LogOk, RecordOk, ChainOk, RecOf
  <1>2. ASSUME NEW i \in log[k].prev + 1 .. k - 1, RecOf(i, t) PROVE FALSE
    <2>1. i \in Int /\ log[k].prev \in Int /\ k \in Int /\ log[k].prev <= i /\ i <= k
      BY <1>1 DEF LSNs
    <2>2. IsTxRec(i) /\ log[i].txn = log[log[k].prev].txn
      BY <1>1, <1>2 DEF RecOf, SameTx
    <2>3. SameTx(i, k)
      BY <1>1, <2>1, <2>2, SameTxSplit
    <2> QED BY <1>1, <2>1, <2>3 DEF LSNs
  <1> QED BY <1>1, <1>2 DEF LastOf, RecOf, SameTx

\* The table of a log prefix becomes that of the prefix and one record more.
LEMMA AnalyzeTable ==
    ASSUME DurabilityInv, LogOk, NEW k \in LSNs, TableAt(recAtt, k - 1)
    PROVE  TableAt(AnalyzeATT(log[k], k), k)
  <1>0. /\ Len(log) \in Nat /\ k \in Nat \ {0} /\ recAtt \in [Txns -> Entries]
        /\ log[k] \in LogRecords /\ RecordOk(k)
    BY StateFacts DEF LSNs, LogOk, TypeOK, ATTs
  <1> DEFINE a == AnalyzeATT(log[k], k)
             op == log[k].op
  <1>1. \A t \in Txns : EntryAt(recAtt[t], t, k - 1)
    BY DEF TableAt
  <1>2. CASE op = "CKPT_END"
    <2>1. \A t \in Txns : a[t] = IF recAtt[t] = Absent THEN log[k].att[t] ELSE recAtt[t]
      BY <1>2 DEF AnalyzeATT
    <2>2. \A t \in Txns : EntryAt(log[k].att[t], t, k)
      BY <1>0, <1>2 DEF RecordOk, TableAt
    <2>3. \A t \in Txns : EntryAt(recAtt[t], t, k)
      BY <1>0, <1>1, <1>2, NextLast DEF RecOf, IsTxRec
    <2> QED BY <2>1, <2>2, <2>3 DEF TableAt
  <1>3. CASE op = "CKPT_BEGIN"
    <2>1. a = recAtt
      BY <1>3 DEF AnalyzeATT
    <2>2. \A t \in Txns : EntryAt(recAtt[t], t, k)
      BY <1>0, <1>1, <1>3, NextLast DEF RecOf, IsTxRec
    <2> QED BY <2>1, <2>2 DEF TableAt
  <1>4. CASE op \in {"START", "SET", "CLR", "COMMIT", "ABORT", "END"}
    <2> DEFINE t == log[k].txn
    <2>1. t \in Txns /\ RecOf(k, t) /\ LastOf(k, t, k)
      BY <1>0, <1>4, RecordFields, NextLast DEF RecOf, IsTxRec
    <2>2. ASSUME NEW u \in Txns, u # t PROVE EntryAt(a[u], u, k)
      <3>1. a[u] = recAtt[u]
        BY <1>0, <1>4, <2>1, <2>2 DEF AnalyzeATT, SetLastLSN
      <3>2. ~RecOf(k, u)
        BY <2>2 DEF RecOf
      <3> QED BY <1>0, <1>1, <3>1, <3>2, NextLast
    <2>3. ASSUME NEW s, a[t] = Entry(s, k), s = StatusAfter(op), op # "END"
          PROVE  EntryAt(a[t], t, k)
      BY <2>1, <2>3 DEF EntryAt, Entry
    <2>4. CASE op \in {"START", "COMMIT", "ABORT"}
      <3>1. a[t] = Entry(StatusAfter(op), k)
        BY <1>0, <2>1, <2>4 DEF AnalyzeATT, StatusAfter
      <3> QED BY <2>2, <2>3, <2>4, <3>1 DEF TableAt
    <2>5. CASE op = "END"
      <3>1. a[t] = Absent
        BY <1>0, <2>1, <2>5 DEF AnalyzeATT
      <3>2. Resolved(t, k)
        BY <1>0, <2>1, <2>5, LastUnique DEF Resolved
      <3>3. EntryAt(a[t], t, k)
        BY <3>1, <3>2 DEF EntryAt
      <3> QED BY <2>2, <3>3 DEF TableAt
    <2>6. CASE op \in {"SET", "CLR"}
      <3> DEFINE s == IF recAtt[t] = Absent THEN "running" ELSE recAtt[t].status
                 l == log[k].prev
      <3>1. a[t] = Entry(s, k)
        BY <1>0, <2>1, <2>6 DEF AnalyzeATT, SetLastLSN
      <3>2. LastOf(l, t, k - 1) /\ MayFollow(l, k)
        BY <1>0, <2>1, <2>6, PrevLast
      <3>3. /\ op = "SET" => log[l].op \in {"START", "SET"}
            /\ op = "CLR" => log[l].op \in {"ABORT", "CLR"}
        BY <1>0, <3>2 DEF MayFollow, RecordOk, ClrOk
      <3>4. EntryAt(recAtt[t], t, k - 1)
        BY <1>1, <2>1
      <3>5. recAtt[t] # Absent
        <4>1. l \in 1 .. k - 1 /\ log[l].op # "END"
          BY <2>6, <3>2, <3>3 DEF LastOf
        <4>2. ~Resolved(t, k - 1)
          BY <3>2, <4>1 DEF Resolved
        <4>3. ~LastOf(Absent.lastLSN, t, k - 1)
          BY DEF LastOf, Absent, NoLSN
        <4> QED BY <3>4, <4>2, <4>3 DEF EntryAt
      <3>6. recAtt[t].lastLSN = l /\ s = StatusAfter(log[l].op)
        <4>1. /\ LastOf(recAtt[t].lastLSN, t, k - 1)
              /\ recAtt[t].status = StatusAfter(log[recAtt[t].lastLSN].op)
          BY <3>4, <3>5 DEF EntryAt
        <4>2. recAtt[t].lastLSN = l
          BY <1>0, <3>2, <4>1, LastUnique
        <4> QED BY <3>5, <4>1, <4>2
      <3>7. s = StatusAfter(op)
        BY <2>6, <3>3, <3>6 DEF StatusAfter
      <3>8. EntryAt(a[t], t, k)
        BY <2>3, <2>6, <3>1, <3>7
      <3> QED BY <2>2, <3>8 DEF TableAt
    <2> QED BY <1>4, <2>4, <2>5, <2>6
  <1>5. op \in {"START", "SET", "CLR", "COMMIT", "ABORT", "END", "CKPT_BEGIN", "CKPT_END"}
    BY <1>0 DEF LogRecords
  <1> QED BY <1>2, <1>3, <1>4, <1>5

\* A table entry is right or wrong as before when the log is as before.
LEMMA SameEntry ==
    ASSUME log' = log, NEW n, NEW e, NEW t
    PROVE  EntryAt(e, t, n)' <=> EntryAt(e, t, n)
  <1>1. \A i : LastOf(i, t, n)' <=> LastOf(i, t, n)
    BY DEF LastOf, RecOf, IsTxRec
  <1>2. Resolved(t, n)' <=> Resolved(t, n)
    BY <1>1 DEF Resolved
  <1> QED BY <1>1, <1>2 DEF EntryAt

-----------------------------------------------------------------------------
(* The other steps. *)

\* A step that leaves the log and the transactions alone.
LEMMA QuietKept ==
    ASSUME DurabilityInv, ChainInv, LogGrows, UNCHANGED <<log, tx, att, recAtt, phase>>
    PROVE  LogOk' /\ (\A t \in Txns : TxAt(t)') /\ (master' = master => HeaderAt')
  <1>1. LogOk'
    BY SameLogOk DEF ChainInv
  <1>2. \A t \in Txns : TxAt(t)'
    BY OtherKept DEF ChainInv, NotOf
  <1>3. master' = master => HeaderAt'
    <2>1. /\ CommonPrefix(Len(log)) /\ flushed <= Len(log) /\ flushed <= flushed'
          /\ Len(log') \in Nat /\ flushed \in Nat /\ flushed' \in Nat
      BY StateFacts DEF LogGrows, CommonPrefix
    <2> QED BY <2>1, HeaderKept DEF ChainInv
  <1> QED BY <1>1, <1>2, <1>3

\* Checkpoint (recovery.go:127): with every transaction at rest its snapshot of the ATT
\* is what the log says, and its two records are neighbours.
LEMMA CheckpointChain ==
    ASSUME CheckpointAlone, DurabilityInv, ChainInv, LogGrows, Checkpoint
    PROVE  ChainInv'
  <1>0. /\ LogOk /\ CkptAt /\ HeaderAt /\ \A t \in Txns : TxAt(t)
        /\ Len(log) \in Nat /\ att \in [Txns -> Entries] /\ ckpt.begin \in LSN \cup {NoLSN}
        /\ ckpt \in [pc : {"idle", "begun", "att", "dpt", "end", "flushed"},
                     begin : LSN \cup {NoLSN}, att : ATTs, dpt : DPTs]
    BY StateFacts DEF ChainInv, TypeOK, ATTs
  <1>1. /\ phase = "up" /\ UNCHANGED <<phase, tx, att, recAtt, recPos>>
        /\ \A t \in Txns : tx[t].pc \in AtRest
    BY <1>0 DEF Checkpoint, CkptBegin, CkptATT, CkptDPT, CkptEnd, CkptFlush, CkptMaster,
                CkptAt, tblVars, recVars
  <1>2. AnalysisAt'
    BY <1>1 DEF AnalysisAt
  <1>3. ASSUME NEW rec, LogAppend(rec), rec.op \in {"CKPT_BEGIN", "CKPT_END"}, Fits(rec),
               master' = master
        PROVE  LogOk' /\ HeaderAt' /\ \A t \in Txns : TxAt(t)'
    <2>1. LogOk'
      BY <1>0, <1>3, AppendKeepsLog
    <2>2. \A t \in Txns : TxAt(t)'
      BY <1>0, <1>1, <1>3, OtherKept DEF NotOf
    <2>3. CommonPrefix(Len(log)) /\ flushed <= Len(log) /\ flushed <= flushed'
          /\ Len(log') \in Nat /\ flushed \in Nat /\ flushed' \in Nat
      BY StateFacts DEF LogGrows, CommonPrefix
    <2> QED BY <1>0, <1>3, <2>1, <2>2, <2>3, HeaderKept
  <1>4. CASE CkptBegin
    <2>1. /\ LogAppend(CkptBeginRec) /\ master' = master
          /\ ckpt' = [ckpt EXCEPT !.pc = "begun", !.begin = NextLSN]
      BY <1>4 DEF CkptBegin
    <2>2. CkptBeginRec.op = "CKPT_BEGIN"
      BY DEF CkptBeginRec
    <2>3. ckpt'.pc = "begun" /\ ckpt'.begin = NextLSN
      BY <1>0, <2>1
    <2>4. NextLSN = Len(log') /\ log'[NextLSN] = CkptBeginRec /\ NextLSN \in 1 .. Len(log')
      BY <1>0, <2>1, AppendLen
    <2>5. CkptAt'
      BY <1>1, <2>2, <2>3, <2>4 DEF CkptAt, LSNs
    <2>6. LogOk' /\ HeaderAt' /\ \A t \in Txns : TxAt(t)'
      BY <1>3, <2>1, <2>2 DEF Fits
    <2> QED BY <1>2, <2>5, <2>6 DEF ChainInv
  <1>5. CASE CkptATT \/ CkptDPT
    <2>1. /\ UNCHANGED <<log, flushed, master>> /\ ckpt.pc \in {"begun", "att"}
          /\ ckpt'.pc \in {"att", "dpt"} /\ ckpt'.begin = ckpt.begin
          /\ CkptATT => ckpt'.att = att
          /\ CkptDPT => ckpt'.att = ckpt.att /\ ckpt.pc = "att"
      BY <1>0, <1>5 DEF CkptATT, CkptDPT, logVars
    <2>2. TableAt(ckpt'.att, Len(log))
      <3>1. CASE CkptATT
        <4>1. ASSUME NEW t \in Txns PROVE EntryAt(att[t], t, Len(log))
          <5>1. WorkAt(t) /\ tx[t].pc \in AtRest
            BY <1>0, <1>1 DEF TxAt
          <5>2. CASE tx[t].pc \in {"none", "done"}
            BY <5>1, <5>2 DEF WorkAt, EntryAt
          <5>3. CASE tx[t].pc = "active"
            BY <5>1, <5>3 DEF WorkAt, EntryAt, StatusAfter
          <5> QED BY <5>1, <5>2, <5>3 DEF AtRest
        <4> QED BY <2>1, <3>1, <4>1 DEF TableAt
      <3>2. CASE CkptDPT
        BY <1>0, <2>1, <3>2 DEF CkptAt
      <3> QED BY <1>5, <3>1, <3>2
    <2>3. TableAt(ckpt.att, Len(log))'
      BY <2>1, <2>2, SameLog DEF TableAt
    <2>4. CkptAt'
      BY <1>0, <1>1, <2>1, <2>3 DEF CkptAt, LSNs
    <2> QED BY <1>1, <1>2, <2>1, <2>4, QuietKept DEF ChainInv
  <1>6. CASE CkptEnd
    <2>0. PICK rec : rec = CkptEndRec(ckpt.att, ckpt.dpt)
      OBVIOUS
    <2>1. /\ ckpt.pc = "dpt" /\ LogAppend(rec) /\ master' = master
          /\ ckpt' = [ckpt EXCEPT !.pc = "end"]
      BY <1>6, <2>0 DEF CkptEnd, CkptGoto
    <2>2. rec.op = "CKPT_END" /\ rec.att = ckpt.att
      BY <2>0 DEF CkptEndRec
    <2>3. ckpt'.pc = "end" /\ ckpt'.begin = ckpt.begin
      BY <1>0, <2>1
    <2>4. /\ ckpt.begin = Len(log) /\ ckpt.begin \in LSNs /\ log[ckpt.begin].op = "CKPT_BEGIN"
          /\ TableAt(ckpt.att, Len(log))
      BY <1>0, <2>1 DEF CkptAt
    <2>5. /\ Len(log') = Len(log) + 1 /\ log'[Len(log) + 1] = rec
          /\ \A i \in LSNs : log'[i] = log[i]
      BY <2>1, AppendPrefix DEF CommonPrefix, LSNs
    <2>6. CkptAt'
      BY <1>0, <1>1, <2>2, <2>3, <2>4, <2>5 DEF CkptAt, CkptPair, LSNs
    <2>7. LogOk' /\ HeaderAt' /\ \A t \in Txns : TxAt(t)'
      BY <1>3, <2>1, <2>2, <2>4 DEF Fits
    <2> QED BY <1>2, <2>6, <2>7 DEF ChainInv
  <1>7. CASE CkptFlush
    <2>1. /\ ckpt.pc = "end" /\ ckpt' = [ckpt EXCEPT !.pc = "flushed"] /\ UNCHANGED <<log, master>>
      BY <1>7 DEF CkptFlush, CkptGoto
    <2>2. ckpt'.pc = "flushed" /\ ckpt'.begin = ckpt.begin
      BY <1>0, <2>1
    <2>3. CkptPair(ckpt.begin) /\ Len(log) = ckpt.begin + 1 /\ ckpt.begin \in Nat
      BY <1>0, <2>1 DEF CkptAt, CkptPair, LSNs
    <2>4. PICK lsn \in 1 .. Len(log) :
             /\ \A later \in lsn + 1 .. Len(log) : log[later].op # "CKPT_END"
             /\ LogFlush(lsn)
      BY <1>7 DEF CkptFlush
    <2>5. lsn = ckpt.begin + 1
      <3>1. ckpt.begin + 1 \notin lsn + 1 .. Len(log)
        BY <2>3, <2>4 DEF CkptPair
      <3> QED BY <2>3, <3>1
    <2>6. ckpt.begin < flushed'
      <3>1. flushed' \in Nat /\ lsn <= flushed'
        BY <2>4, StateFacts, FlushFacts
      <3> QED BY <2>3, <2>5, <3>1
    <2>7. CkptPair(ckpt.begin)'
      BY <2>1, <2>2, <2>3 DEF CkptPair, LSNs
    <2>8. CkptAt'
      BY <1>0, <1>1, <2>1, <2>2, <2>3, <2>6, <2>7 DEF CkptAt
    <2> QED BY <1>1, <1>2, <2>1, <2>8, QuietKept DEF ChainInv
  <1>8. CASE CkptMaster
    <2>1. /\ ckpt.pc = "flushed" /\ master' = ckpt.begin /\ ckpt' = CkptIdle
          /\ UNCHANGED <<log, flushed>>
      BY <1>8 DEF CkptMaster
    <2>2. HeaderAt'
      BY <1>0, <2>1 DEF HeaderAt, CkptAt, CkptPair, LSNs
    <2>3. CkptAt'
      BY <2>1 DEF CkptAt, CkptIdle
    <2> QED BY <1>1, <1>2, <2>1, <2>2, <2>3, QuietKept DEF ChainInv
  <1> QED BY <1>4, <1>5, <1>6, <1>7, <1>8 DEF Checkpoint

\* doAnalyzePhase and doRedoPhase (recovery.go:309, 357).
LEMMA ScanChain ==
    ASSUME DurabilityInv, ChainInv, LogGrows, RecoverScan
    PROVE  ChainInv'
  <1>0. /\ LogOk /\ CkptAt /\ HeaderAt /\ AnalysisAt /\ \A t \in Txns : TxAt(t)
        /\ Len(log) \in Nat /\ recAtt \in [Txns -> Entries] /\ recPos \in Nat
    BY StateFacts DEF ChainInv, TypeOK, ATTs, LSN
  <1>1. /\ phase # "up" /\ phase' # "up" /\ UNCHANGED <<log, flushed, master, tx, att, ckpt>>
    BY DEF RecoverScan, Analyze, AnalysisDone, Redo, RedoDone, logVars, tblVars
  <1>2. CkptAt'
    BY <1>0, <1>1 DEF CkptAt
  <1>3. LogOk'
    BY <1>0, <1>1, SameLogOk
  <1>4. HeaderAt'
    BY <1>0, <1>1 DEF HeaderAt, CkptPair, LSNs
  <1>5. CASE Analyze
    <2>1. /\ phase = "analysis" /\ phase' = "analysis" /\ recPos \in LSNs
          /\ recAtt' = AnalyzeATT(log[recPos], recPos) /\ recPos' = recPos + 1
      BY <1>5 DEF Analyze, LSNs
    <2>2. PICK k \in Nat \ {0} : k = recPos /\ k \in LSNs
      BY <2>1 DEF LSNs
    <2>3. \/ TableAt(AnalyzeATT(log[k], k), k)
          \/ recAtt' = EmptyATT /\ master # 1 /\ recPos' = master + 1
      <3>1. CASE TableAt(recAtt, recPos - 1)
        BY <1>0, <2>2, <3>1, AnalyzeTable
      <3>2. CASE recAtt = EmptyATT /\ master # 1 /\ recPos = master
        <4>1. log[recPos].op = "CKPT_BEGIN"
          BY <1>0, <3>2 DEF HeaderAt, CkptPair
        <4> QED BY <2>1, <3>2, <4>1 DEF AnalyzeATT
      <3>3. CASE recAtt = EmptyATT /\ master # 1 /\ recPos = master + 1
        <4>1. log[k].op = "CKPT_END"
          BY <1>0, <2>2, <3>3 DEF HeaderAt, CkptPair
        <4>2. TableAt(log[k].att, k)
          BY <1>0, <2>2, <4>1 DEF LogOk, RecordOk
        <4>3. \A t \in Txns : AnalyzeATT(log[k], k)[t] = log[k].att[t]
          BY <3>3, <4>1 DEF AnalyzeATT, EmptyATT
        <4> QED BY <4>2, <4>3 DEF TableAt
      <3> QED BY <1>0, <2>1, <3>1, <3>2, <3>3 DEF AnalysisAt
    <2>4. AnalysisAt'
      <3>1. recPos' \in 1 .. Len(log') + 1 /\ recPos' - 1 = k
        BY <1>0, <1>1, <2>1, <2>2 DEF LSNs
      <3>2. TableAt(AnalyzeATT(log[k], k), k) => TableAt(recAtt, recPos - 1)'
        <4>1. recAtt' = AnalyzeATT(log[k], k)
          BY <2>1, <2>2
        <4> QED BY <1>1, <3>1, <4>1, SameEntry DEF TableAt
      <3> QED BY <1>1, <2>3, <3>1, <3>2 DEF AnalysisAt
    <2>5. \A t \in Txns : TxAt(t)'
      BY <1>0, <1>1, <2>1 DEF TxAt, UndoAt
    <2> QED BY <1>2, <1>3, <1>4, <2>4, <2>5 DEF ChainInv
  <1>6. CASE AnalysisDone
    <2>1. /\ phase = "analysis" /\ phase' \in {"winners", "redo"} /\ recPos > Len(log)
          /\ recAtt' = recAtt
      BY <1>6 DEF AnalysisDone
    <2>2. TableAt(recAtt, Len(log))
      <3>1. recPos = Len(log) + 1
        BY <1>0, <2>1 DEF AnalysisAt
      <3>2. ~(master # 1 /\ recPos \in {master, master + 1})
        BY <1>0, <2>1 DEF HeaderAt, CkptPair, LSNs
      <3> QED BY <1>0, <2>1, <3>1, <3>2 DEF AnalysisAt
    <2>3. \A t \in Txns : EntryAt(recAtt[t], t, Len(log))'
      BY <1>1, <2>1, <2>2, SameLog DEF TableAt
    <2>4. ASSUME NEW t \in Txns PROVE TxAt(t)'
      BY <1>0, <1>1, <2>1, <2>3 DEF TxAt, UndoAt, LoserAt
    <2>5. AnalysisAt'
      BY <2>1 DEF AnalysisAt
    <2> QED BY <1>2, <1>3, <1>4, <2>4, <2>5 DEF ChainInv
  <1>7. CASE Redo
    <2>1. phase' = phase /\ recAtt' = recAtt /\ phase = "redo"
      BY <1>7 DEF Redo
    <2>2. AnalysisAt'
      BY <2>1 DEF AnalysisAt
    <2> QED BY <1>1, <1>2, <2>1, <2>2, QuietKept DEF ChainInv
  <1>8. CASE RedoDone
    <2>1. phase' = "winners" /\ recAtt' = recAtt /\ phase = "redo"
      BY <1>8 DEF RedoDone
    <2>2. ASSUME NEW t \in Txns PROVE TxAt(t)'
      <3>1. LoserAt(t) /\ tx[t].pc = "none" /\ EntryAt(recAtt[t], t, Len(log))'
        BY <1>0, <1>1, <2>1, SameLog DEF TxAt, LoserAt
      <3> QED BY <1>0, <1>1, <2>1, <3>1 DEF TxAt, UndoAt, LoserAt
    <2>3. AnalysisAt'
      BY <2>1 DEF AnalysisAt
    <2> QED BY <1>2, <1>3, <1>4, <2>2, <2>3 DEF ChainInv
  <1> QED BY <1>5, <1>6, <1>7, <1>8 DEF RecoverScan

\* The flushes between the phases and the handing over of the tables (recovery.go:149).
LEMMA RecoverEndChain ==
    ASSUME DurabilityInv, ChainInv, LogGrows, WinnersDone \/ RecoverDone
    PROVE  ChainInv'
  <1>0. /\ LogOk /\ CkptAt /\ HeaderAt /\ (\A t \in Txns : TxAt(t))
        /\ Len(log) \in Nat /\ TypeOK
    BY StateFacts DEF ChainInv
  <1>1. /\ phase \in {"winners", "undo"} /\ UNCHANGED <<log, master, tx, ckpt>>
        /\ LogFlush(Len(log))
    BY DEF WinnersDone, RecoverDone
  <1>2. LogOk' /\ CkptAt'
    BY <1>0, <1>1, SameLogOk DEF CkptAt
  <1>3. HeaderAt'
    BY <1>1, StateFacts, HeaderKept DEF LogGrows, CommonPrefix, ChainInv
  <1>4. flushed' \in Nat /\ Len(log) <= flushed'
    BY <1>0, <1>1, StateFacts, FlushFacts
  <1>5. CASE WinnersDone
    <2>1. phase = "winners" /\ phase' = "undo" /\ att' = att /\ recAtt' = recAtt
      BY <1>5 DEF WinnersDone, tblVars
    <2>2. ASSUME NEW t \in Txns PROVE TxAt(t)'
      <3>1. tx[t].pc = "none" /\ EntryAt(recAtt[t], t, Len(log)) /\ att[t] = Absent
        BY <1>0, <2>1 DEF TxAt, LoserAt
      <3>2. EntryAt(recAtt[t], t, Len(log))'
        BY <1>1, <2>1, <3>1, SameLog
      <3>3. recAtt[t].lastLSN <= flushed'
        <4>1. CASE recAtt[t] = Absent
          BY <1>4, <4>1 DEF Absent, NoLSN
        <4>2. CASE LastOf(recAtt[t].lastLSN, t, Len(log))
          BY <1>0, <1>4, <4>2 DEF LastOf
        <4> QED BY <3>1, <4>1, <4>2 DEF EntryAt
      <3> QED BY <1>1, <2>1, <3>1, <3>2, <3>3 DEF TxAt, UndoAt, LoserAt
    <2>3. AnalysisAt'
      BY <2>1 DEF AnalysisAt
    <2> QED BY <1>2, <1>3, <2>2, <2>3 DEF ChainInv
  <1>6. CASE RecoverDone
    <2>1. /\ phase = "undo" /\ phase' = "up" /\ recAtt = EmptyATT /\ att' = EmptyATT
          /\ \A t \in Txns : tx[t].pc = "none"
      BY <1>6 DEF RecoverDone, NoUndoRunning
    <2>2. ASSUME NEW t \in Txns PROVE TxAt(t)'
      <3>1. tx[t].pc = "none" /\ EntryAt(Absent, t, Len(log)) /\ att'[t] = Absent
        BY <1>0, <2>1 DEF TxAt, LoserAt, EmptyATT
      <3>2. Resolved(t, Len(log))
        BY <3>1 DEF EntryAt, Absent, NoLSN, LastOf
      <3>3. Resolved(t, Len(log))'
        BY <1>1, <3>2, SameLog
      <3> QED BY <1>1, <2>1, <3>1, <3>3 DEF TxAt, UndoAt, WorkAt, LoserAt
    <2>3. AnalysisAt'
      BY <2>1 DEF AnalysisAt
    <2> QED BY <1>2, <1>3, <2>2, <2>3 DEF ChainInv
  <1> QED BY <1>5, <1>6

\* A crash leaves a prefix of the log, with the checkpoint the header names in it.
LEMMA CrashChain ==
    ASSUME DurabilityInv, ChainInv, Crash
    PROVE  ChainInv'
  <1>0. /\ LogOk /\ HeaderAt /\ Len(log) \in Nat /\ master \in LSN
        /\ flushed \in Nat /\ flushed <= Len(log)
    BY StateFacts DEF ChainInv, TypeOK
  <1>1. PICK last \in flushed .. Len(log) : log' = SubSeq(log, 1, last) /\ flushed' = last
    BY DEF Crash
  <1>2. Len(log') = last /\ last \in Nat /\ last <= Len(log) /\ flushed <= last
    BY <1>0, <1>1, StateFacts, PrefixFacts
  <1>3. \A i \in 1 .. last : log'[i] = log[i]
    BY <1>1, <1>2, StateFacts
  <1>4. CommonPrefix(last)
    BY <1>0, <1>2, <1>3 DEF CommonPrefix
  <1>5. LogOk'
    <2>1. \A j \in 1 .. last : RecordOk(j)
      BY <1>0, <1>2 DEF LogOk, LSNs
    <2>2. \A j \in 1 .. last : RecordOk(j)'
      BY <1>0, <1>2, <1>4, <2>1, RecordsInPrefix
    <2> QED BY <1>2, <2>2 DEF LogOk, LSNs
  <1>6. /\ master' = master /\ phase' = "analysis" /\ recPos' = master /\ recAtt' = EmptyATT
        /\ ckpt' = CkptIdle /\ att' = EmptyATT /\ tx' = [t \in Txns |-> TxIdle]
    BY DEF Crash
  <1>7. HeaderAt'
    BY <1>0, <1>1, <1>2, <1>4, <1>6, HeaderKept
  <1>8. CkptAt'
    BY <1>6 DEF CkptAt, CkptIdle
  <1>9. AnalysisAt'
    <2>1. CASE master = 1
      <3>2. \A t \in Txns : EntryAt(EmptyATT[t], t, 0)'
        <4>1. \A t : Resolved(t, 0)'
          BY DEF Resolved
        <4> QED BY <4>1 DEF EntryAt, EmptyATT
      <3>3. recPos' - 1 = 0 /\ recPos' \in 1 .. Len(log') + 1
        BY <1>2, <1>6, <2>1
      <3> QED BY <1>6, <3>2, <3>3 DEF AnalysisAt, TableAt
    <2>2. CASE master # 1
      <3>1. master \in 1 .. Len(log')
        BY <1>6, <1>7, <2>2 DEF HeaderAt, CkptPair, LSNs
      <3> QED BY <1>2, <1>6, <2>2, <3>1 DEF AnalysisAt
    <2> QED BY <2>1, <2>2
  <1>10. \A t \in Txns : TxAt(t)'
    BY <1>6 DEF TxAt, UndoAt, TxIdle, EmptyATT
  <1> QED BY <1>5, <1>7, <1>8, <1>9, <1>10 DEF ChainInv

\* A page write (buffer.go:76) and the steps in which nothing happens.
LEMMA FlushOrIdleChain ==
    ASSUME DurabilityInv, ChainInv, LogGrows,
           (\E p \in Pages : FlushPage(p)) \/ Idle \/ UNCHANGED vars
    PROVE  ChainInv'
  <1>1. UNCHANGED <<log, master, tx, att, recAtt, phase, ckpt, recPos>>
    BY DEF FlushPage, Idle, vars, logVars, tblVars, recVars
  <1>2. flushed \in Nat /\ flushed' \in Nat /\ flushed <= flushed'
    BY DEF LogGrows
  <1>3. CkptAt'
    <2>1. TableAt(ckpt.att, Len(log))' <=> TableAt(ckpt.att, Len(log))
      BY <1>1, SameLog DEF TableAt
    <2>2. ckpt.pc \in {"end", "flushed"} => ckpt.begin \in Int
      BY DEF ChainInv, CkptAt, CkptPair, LSNs
    <2> QED BY <1>1, <1>2, <2>1, <2>2 DEF ChainInv, CkptAt, CkptPair, LSNs
  <1>4. AnalysisAt'
    <2>1. TableAt(recAtt, recPos - 1)' <=> TableAt(recAtt, recPos - 1)
      <3>1. PICK n : n = recPos - 1
        OBVIOUS
      <3>2. \A e, t : EntryAt(e, t, n)' <=> EntryAt(e, t, n)
        BY <1>1, SameEntry
      <3> QED BY <1>1, <3>1, <3>2 DEF TableAt
    <2> QED BY <1>1, <2>1 DEF ChainInv, AnalysisAt
  <1> QED BY <1>1, <1>3, <1>4, QuietKept DEF ChainInv

\* The empty log of a new database is in order.
LEMMA InitChain == Init => ChainInv
  <1> SUFFICES ASSUME Init PROVE ChainInv OBVIOUS
  <1>1. /\ log = << >> /\ flushed = 0 /\ master = 1 /\ phase = "up"
        /\ att = EmptyATT /\ tx = [t \in Txns |-> TxIdle] /\ ckpt = CkptIdle
    BY DEF Init
  <1>2. LSNs = {} /\ Len(log) = 0
    BY <1>1 DEF LSNs
  <1>3. \A t : Resolved(t, Len(log))
    BY <1>2 DEF Resolved
  <1>4. \A t \in Txns : TxAt(t)
    BY <1>1, <1>3 DEF TxAt, UndoAt, WorkAt, TxIdle, EmptyATT
  <1>5. LogOk /\ CkptAt /\ HeaderAt /\ AnalysisAt
    BY <1>1, <1>2 DEF LogOk, CkptAt, CkptIdle, HeaderAt, AnalysisAt
  <1> QED BY <1>4, <1>5 DEF ChainInv

\* Every step keeps the invariant.
LEMMA NextChain ==
    ASSUME CheckpointAlone, DurabilityInv, ChainInv, [Next]_vars
    PROVE  ChainInv'
  <1>1. Crash \/ LogGrows
    BY NextGrows
  <1>2. CASE Crash
    BY <1>2, CrashChain
  <1>3. CASE LogGrows
    <2>1. ASSUME NEW t \in Txns, TxStart(t) PROVE ChainInv'
      BY <1>3, <2>1, StartMoves, MovesKeep
    <2>2. ASSUME NEW t \in Txns, TxUpdate(t) PROVE ChainInv'
      BY <1>3, <2>2, UpdateMoves, MovesKeep
    <2>3. ASSUME NEW t \in Txns, TxCommit(t) PROVE ChainInv'
      BY <1>3, <2>3, CommitMoves, MovesKeep
    <2>4. ASSUME NEW t \in Txns, TxRollback(t) PROVE ChainInv'
      BY <1>3, <2>4, RollbackMoves, MovesKeep
    <2>5. ASSUME NEW t \in Txns, DoRollback(t) PROVE ChainInv'
      BY <1>3, <2>5, DoRollbackMoves, MovesKeep
    <2>6. ASSUME NEW t \in Txns, TxEnd(t) PROVE ChainInv'
      BY <1>3, <2>6, EndMoves, MovesKeep
    <2>7. ASSUME NEW t \in Txns, EndWinner(t) \/ RecoverLoser(t) PROVE ChainInv'
      BY <1>3, <2>7, LoserMoves, MovesKeep
    <2>8. CASE Checkpoint
      BY <1>3, <2>8, CheckpointChain
    <2>9. CASE RecoverScan
      BY <1>3, <2>9, ScanChain
    <2>10. CASE WinnersDone \/ RecoverDone
      BY <1>3, <2>10, RecoverEndChain
    <2>11. CASE (\E p \in Pages : FlushPage(p)) \/ Idle \/ UNCHANGED vars
      BY <1>3, <2>11, FlushOrIdleChain
    <2> QED BY <1>2, <2>1, <2>2, <2>3, <2>4, <2>5, <2>6, <2>7, <2>8, <2>9, <2>10, <2>11
            DEF Next
  <1> QED BY <1>1, <1>2, <1>3

-----------------------------------------------------------------------------
(* What follows of it. *)

\* In every run in which no handler overlaps a checkpoint the log is in order, the
\* handlers are where their last record says, and the tables of the checkpoint and
\* of the analysis say what the log does (recovery.go:74-140, 192-310, 430-480).
THEOREM ChainsKept == ASSUME CheckpointAlone PROVE Spec => []ChainInv
  <1>1. DurabilityInv /\ ChainInv /\ [Next]_vars => ChainInv'
    BY NextChain
  <1> QED BY <1>1, InitChain, Durability, PTL DEF Spec

\* The prevLSN of a record is the record of its transaction before it, also when a
\* restart goes on with the chain from its rebuilt table (recovery.go:430-480).
THEOREM ChainsAreWhole == ASSUME CheckpointAlone PROVE Spec => []PrevLSNChain
  <1>1. ChainInv => PrevLSNChain
    BY DEF ChainInv, LogOk, RecordOk, ChainOk, PrevLSNChain
  <1> QED BY <1>1, ChainsKept, PTL

\* Nothing of a transaction follows its END record (recovery.go:94, 122, 472).
THEOREM EndsAreFinal == ASSUME CheckpointAlone PROVE Spec => []EndIsFinal
  <1>1. ASSUME ChainInv, NEW i \in LSNs, NEW j \in LSNs, log[i].op = "END", i < j
        PROVE  ~SameTx(i, j)
    <2>1. i \in 1 .. j - 1
      BY <1>1 DEF LSNs
    <2> QED BY <1>1, <2>1 DEF ChainInv, LogOk, RecordOk, MayFollow
  <1>2. ChainInv => EndIsFinal
    BY <1>1 DEF EndIsFinal
  <1> QED BY <1>2, ChainsKept, PTL

\* A committed transaction with its END record is never rolled back: the violation
\* that an overlapping checkpoint makes possible is the only way (recovery.go:438).
THEOREM WinnersAreKept == ASSUME CheckpointAlone PROVE Spec => []WinnersKept
  <1>1. EndIsFinal => WinnersKept
    BY DEF EndIsFinal, WinnersKept
  <1> QED BY <1>1, EndsAreFinal, PTL

\* No update is compensated twice: each CLR's undoNextLSN is below that of the one
\* before, through rollback, crash and recovery again (recovery.go:297).
THEOREM NoSecondCLR == ASSUME CheckpointAlone PROVE Spec => []CompensatedOnce
  <1>1. ASSUME ChainInv, NEW i \in LSNs, NEW j \in LSNs, i < j, log[i].op = "CLR",
               log[j].op = "CLR", SameTx(i, j)
        PROVE  log[i].undoNext # log[j].undoNext
    <2>1. i \in 1 .. j - 1
      BY <1>1 DEF LSNs
    <2>2. MayFollow(i, j) /\ log[i].undoNext \in Int /\ log[j].undoNext \in Int
      BY <1>1, <2>1 DEF ChainInv, LogOk, RecordOk, ClrOk
    <2> QED BY <1>1, <2>2 DEF MayFollow
  <1>2. ChainInv => CompensatedOnce
    BY <1>1 DEF CompensatedOnce
  <1> QED BY <1>2, ChainsKept, PTL

\* Before its END record a transaction has committed or every update of it has its
\* CLR (recovery.go:118, 458).
THEOREM EndsAreResolved == ASSUME CheckpointAlone PROVE Spec => []EndMeansResolved
  <1>1. ASSUME ChainInv, NEW i \in LSNs, NEW j \in LSNs, log[i].op = "SET", i < j,
               log[j].op = "END", SameTx(i, j)
        PROVE  \/ \E k \in LSNs : CommitOf(i, k)
               \/ \E k \in i .. j : /\ log[k].op = "CLR" /\ SameTx(i, k)
                                    /\ log[k].undoNext = log[i].prev
    <2>1. EndOk(j) /\ i \in 1 .. j
      BY <1>1 DEF ChainInv, LogOk, RecordOk, LSNs
    <2>2. CASE \E k \in i + 1 .. j : log[k].op = "COMMIT" /\ SameTx(i, k)
      <3>1. \A k \in i + 1 .. j : k \in LSNs /\ i < k
        BY <1>1 DEF LSNs
      <3> QED BY <2>2, <3>1 DEF CommitOf
    <2>3. CASE Compensated(i, j)
      BY <2>3 DEF Compensated
    <2> QED BY <1>1, <2>1, <2>2, <2>3 DEF EndOk
  <1>2. ChainInv => EndMeansResolved
    BY <1>1 DEF EndMeansResolved
  <1> QED BY <1>2, ChainsKept, PTL

-----------------------------------------------------------------------------
(***************************************************************************)
(* What is left of it when a checkpoint does overlap the handlers: every   *)
(* link leads back to a record of the same transaction.  That is enough    *)
(* for a rollback to read its own records, and to get to its end.          *)
(***************************************************************************)
\* l names none of the first n records of the log f, or one of transaction t.
OwnIn(f, l, t, n) ==
    l # NoLSN => l \in 1 .. n /\ f[l].op \notin {"CKPT_BEGIN", "CKPT_END"} /\ f[l].txn = t

EntryLink(f, e, t, n) == OwnIn(f, e.lastLSN, t, n) /\ (e = Absent \/ e.status # "absent")

RecLinks(f, rec, n) ==
    /\ rec.op \notin {"CKPT_BEGIN", "CKPT_END"} => OwnIn(f, rec.prev, rec.txn, n)
    /\ rec.op = "CLR" => OwnIn(f, rec.undoNext, rec.txn, n)
    /\ rec.op = "CKPT_END" => \A t \in Txns : EntryLink(f, rec.att[t], t, n)
LogLinks == \A i \in LSNs : RecLinks(log, log[i], i - 1)

TableLinks(t) ==
    /\ EntryLink(log, att[t], t, Len(log)) /\ EntryLink(log, recAtt[t], t, Len(log))
    /\ EntryLink(log, ckpt.att[t], t, Len(log))

\* A rollback has its next record on disk, and so has a loser that is still to be taken up.
TxLinks(t) ==
    /\ OwnIn(log, tx[t].lsn, t, Len(log)) /\ OwnIn(log, tx[t].undo, t, Len(log))
    /\ tx[t].pc = "abort" => tx[t].undo < tx[t].lsn
    /\ tx[t].pc \in {"undo", "clr", "clrFlushed"} => tx[t].undo <= flushed
    /\ tx[t].pc \in {"active", "logged", "linked"} => att[t].status # "absent"
    /\ tx[t].pc # "none" => phase = "up" \/ (phase = "undo" /\ tx[t].pc \in UndoPCs)
    /\ phase = "undo" /\ tx[t].pc \notin {"abortSet", "ended"} => recAtt[t].lastLSN <= flushed

CkptLinks ==
    /\ ckpt.pc # "idle" => phase = "up" /\ ckpt.begin \in LSNs
    /\ ckpt.pc = "end" => \E e \in LSNs : ckpt.begin < e /\ log[e].op = "CKPT_END"
    /\ ckpt.pc = "flushed" => ckpt.begin <= flushed
    /\ master = 1 \/ master <= flushed
    /\ phase = "analysis" => recPos <= Len(log) + 1

LinkInv == LogLinks /\ CkptLinks /\ \A t \in Txns : TableLinks(t) /\ TxLinks(t)

\* A link stays a link in every log that begins with the same records.
LEMMA LinksStay ==
    ASSUME NEW f, NEW g, NEW n \in Nat, NEW m \in Nat, n <= m, \A i \in 1 .. n : g[i] = f[i]
    PROVE  /\ \A l, t : OwnIn(f, l, t, n) => OwnIn(g, l, t, m)
           /\ \A e, t : EntryLink(f, e, t, n) => EntryLink(g, e, t, m)
           /\ \A rec : RecLinks(f, rec, n) => RecLinks(g, rec, m)
  <1>1. ASSUME NEW l, NEW t, OwnIn(f, l, t, n) PROVE OwnIn(g, l, t, m)
    BY <1>1 DEF OwnIn
  <1>2. ASSUME NEW e, NEW t, EntryLink(f, e, t, n) PROVE EntryLink(g, e, t, m)
    BY <1>1, <1>2 DEF EntryLink
  <1>3. ASSUME NEW rec, RecLinks(f, rec, n) PROVE RecLinks(g, rec, m)
    BY <1>1, <1>2, <1>3 DEF RecLinks
  <1> QED BY <1>1, <1>2, <1>3

\* Append leaves the links of the log alone when the new record has its own (log.go:148).
LEMMA AppendLinks ==
    ASSUME DurabilityInv, LogLinks, NEW rec, LogAppend(rec), RecLinks(log, rec, Len(log))
    PROVE  LogLinks'
  <1>1. /\ Len(log) \in Nat /\ Len(log') = Len(log) + 1 /\ log'[Len(log) + 1] = rec
        /\ \A i \in 1 .. Len(log) : log'[i] = log[i]
    BY AppendPrefix DEF CommonPrefix
  <1>2. ASSUME NEW i \in 1 .. Len(log) PROVE RecLinks(log', log'[i], i - 1)
    <2>1. RecLinks(log, log[i], i - 1)
      BY DEF LogLinks, LSNs
    <2>2. i - 1 \in Nat /\ \A k \in 1 .. i - 1 : log'[k] = log[k]
      BY <1>1
    <2>3. RecLinks(log', log[i], i - 1)
      BY <2>1, <2>2, LinksStay
    <2> QED BY <1>1, <2>3
  <1>3. RecLinks(log', log'[Len(log) + 1], Len(log))
    BY <1>1, LinksStay
  <1>4. ASSUME NEW i \in 1 .. Len(log) + 1 PROVE RecLinks(log', log'[i], i - 1)
    <2>1. CASE i \in 1 .. Len(log)
      BY <1>2, <2>1
    <2>2. CASE i = Len(log) + 1
      <3>1. i - 1 = Len(log)
        BY <1>1, <2>2
      <3> QED BY <1>3, <2>2, <3>1
    <2> QED BY <1>1, <2>1, <2>2
  <1> QED BY <1>1, <1>4 DEF LogLinks, LSNs

\* The record a handler appends is one of its transaction.
LEMMA NewOwn ==
    ASSUME DurabilityInv, NEW rec, LogAppend(rec), rec.op \notin {"CKPT_BEGIN", "CKPT_END"}
    PROVE  /\ OwnIn(log', NextLSN, rec.txn, Len(log')) /\ NextLSN = Len(log) + 1
           /\ Len(log) \in Nat /\ Len(log') = Len(log) + 1 /\ flushed' = flushed
           /\ \A i \in 1 .. Len(log) : log'[i] = log[i]
           /\ \A l, t : OwnIn(log, l, t, Len(log)) => OwnIn(log', l, t, Len(log'))
           /\ \A e, t : EntryLink(log, e, t, Len(log)) => EntryLink(log', e, t, Len(log'))
  <1>1. /\ Len(log) \in Nat /\ Len(log') = Len(log) + 1 /\ log'[Len(log) + 1] = rec
        /\ \A i \in 1 .. Len(log) : log'[i] = log[i]
    BY AppendPrefix DEF CommonPrefix
  <1>2. NextLSN = Len(log) + 1 /\ flushed' = flushed
    BY AppendPrefix DEF NextLSN
  <1>3. OwnIn(log', NextLSN, rec.txn, Len(log'))
    <2>1. NextLSN \in 1 .. Len(log') /\ log'[NextLSN] = rec
      BY <1>1, <1>2
    <2> QED BY <2>1, Zenon DEF OwnIn
  <1>4. /\ \A l, t : OwnIn(log, l, t, Len(log)) => OwnIn(log', l, t, Len(log'))
        /\ \A e, t : EntryLink(log, e, t, Len(log)) => EntryLink(log', e, t, Len(log'))
    <2>1. /\ Len(log) \in Nat /\ Len(log') \in Nat /\ Len(log) <= Len(log')
          /\ \A i \in 1 .. Len(log) : log'[i] = log[i]
      BY <1>1
    <2> QED BY <2>1, LinksStay
  <1> QED BY <1>1, <1>2, <1>3, <1>4

\* What a step leaves alone keeps its links when the log only grows.
LEMMA GrowLinks ==
    ASSUME DurabilityInv, LogGrows
    PROVE  /\ \A l, t : OwnIn(log, l, t, Len(log)) => OwnIn(log', l, t, Len(log'))
           /\ \A e, t : EntryLink(log, e, t, Len(log)) => EntryLink(log', e, t, Len(log'))
           /\ \A u \in Txns :
                 /\ TxLinks(u) /\ phase' = phase
                 /\ tx'[u] = tx[u] /\ att'[u] = att[u] /\ recAtt'[u] = recAtt[u]
                 => TxLinks(u)'
           /\ CkptLinks /\ UNCHANGED <<master, ckpt, phase, recPos>> => CkptLinks'
           /\ LogLinks /\ log' = log => LogLinks'
  <1>1. /\ \A l, t : OwnIn(log, l, t, Len(log)) => OwnIn(log', l, t, Len(log'))
        /\ \A e, t : EntryLink(log, e, t, Len(log)) => EntryLink(log', e, t, Len(log'))
    BY LinksStay DEF LogGrows
  <1>2. ASSUME NEW u \in Txns, TxLinks(u), phase' = phase,
               tx'[u] = tx[u], att'[u] = att[u], recAtt'[u] = recAtt[u]
        PROVE  TxLinks(u)'
    <2>1. /\ OwnIn(log', tx[u].lsn, u, Len(log')) /\ OwnIn(log', tx[u].undo, u, Len(log'))
      BY <1>1, <1>2 DEF TxLinks
    <2>2. /\ tx[u].undo \in Int /\ recAtt[u].lastLSN \in Int
          /\ flushed \in Nat /\ flushed' \in Nat /\ flushed <= flushed'
      BY StateFacts DEF LogGrows, LSN, NoLSN
    <2> QED BY <1>2, <2>1, <2>2 DEF TxLinks
  <1>3. ASSUME CkptLinks, UNCHANGED <<master, ckpt, phase, recPos>> PROVE CkptLinks'
    <2>1. /\ Len(log) \in Nat /\ Len(log') \in Nat /\ Len(log) <= Len(log')
          /\ flushed \in Nat /\ flushed' \in Nat /\ flushed <= flushed'
          /\ \A i \in 1 .. Len(log) : log'[i] = log[i]
      BY DEF LogGrows
    <2>2. master \in Nat /\ recPos \in Nat /\ ckpt.begin \in LSN \cup {NoLSN}
      BY StateFacts DEF TypeOK, LSN
    <2>3. /\ ckpt.pc # "idle" => phase = "up" /\ ckpt.begin \in LSNs'
          /\ ckpt.pc = "end" => \E e \in LSNs' : ckpt.begin < e /\ log'[e].op = "CKPT_END"
      BY <1>3, <2>1 DEF CkptLinks, LSNs
    <2>4. ckpt.pc = "flushed" => ckpt.begin <= flushed'
      BY <1>3, <2>1, <2>2 DEF CkptLinks, LSN, NoLSN
    <2>5. /\ master = 1 \/ master <= flushed'
          /\ phase = "analysis" => recPos <= Len(log') + 1
      BY <1>3, <2>1, <2>2 DEF CkptLinks
    <2> QED BY <1>3, <2>3, <2>4, <2>5 DEF CkptLinks
  <1>4. LogLinks /\ log' = log => LogLinks'
    BY DEF LogLinks, LSNs
  <1> QED BY <1>1, <1>2, <1>3, <1>4

\* A step of one transaction leaves the others and the checkpoint alone.
LEMMA OneMoved ==
    ASSUME DurabilityInv, LinkInv, LogGrows, LogLinks', NEW t \in Txns,
           UNCHANGED <<master, ckpt, phase, recPos>>,
           \A u \in Txns : u # t => tx'[u] = tx[u] /\ att'[u] = att[u] /\ recAtt'[u] = recAtt[u],
           EntryLink(log', att'[t], t, Len(log')), EntryLink(log', recAtt'[t], t, Len(log')),
           TxLinks(t)'
    PROVE  LinkInv'
  <1>1. ASSUME NEW u \in Txns PROVE TxLinks(u)'
    BY GrowLinks DEF LinkInv
  <1>2. ASSUME NEW u \in Txns PROVE TableLinks(u)'
    <2>1. EntryLink(log', ckpt.att[u], u, Len(log'))
      BY GrowLinks DEF LinkInv, TableLinks
    <2>2. u # t => EntryLink(log', att[u], u, Len(log')) /\ EntryLink(log', recAtt[u], u, Len(log'))
      BY GrowLinks DEF LinkInv, TableLinks
    <2> QED BY <2>1, <2>2 DEF TableLinks
  <1>3. CkptLinks'
    BY GrowLinks DEF LinkInv
  <1> QED BY <1>1, <1>2, <1>3 DEF LinkInv

\* What the invariant says of a handler, and of its new record.
LEMMA LinkFacts ==
    ASSUME DurabilityInv, LinkInv, NEW t \in Txns
    PROVE  /\ OwnIn(log, tx[t].lsn, t, Len(log)) /\ OwnIn(log, tx[t].undo, t, Len(log))
           /\ EntryLink(log, att[t], t, Len(log)) /\ EntryLink(log, recAtt[t], t, Len(log))
           /\ tx[t].pc # "none" => phase = "up" \/ (phase = "undo" /\ tx[t].pc \in UndoPCs)
           /\ phase \in {"analysis", "redo", "winners"} => tx[t].pc = "none"
           /\ tx \in [Txns -> TxRows] /\ att \in [Txns -> Entries] /\ recAtt \in [Txns -> Entries]
           /\ tx[t].lsn \in Int /\ tx[t].undo \in Int /\ att[t].lastLSN \in Int
           /\ recAtt[t].lastLSN \in Int /\ flushed \in Nat /\ Len(log) \in Nat
           /\ flushed <= Len(log)
  <1>1. TableLinks(t) /\ TxLinks(t) /\ TypeOK
    BY StateFacts DEF LinkInv
  <1>2. /\ tx \in [Txns -> TxRows] /\ att \in [Txns -> Entries] /\ recAtt \in [Txns -> Entries]
    BY <1>1 DEF TypeOK, ATTs
  <1>3. /\ tx[t].lsn \in Int /\ tx[t].undo \in Int /\ att[t].lastLSN \in Int
        /\ recAtt[t].lastLSN \in Int /\ flushed \in Nat /\ Len(log) \in Nat /\ flushed <= Len(log)
    BY StateFacts DEF LSN, NoLSN
  <1>4. tx[t].pc # "none" => phase = "up" \/ (phase = "undo" /\ tx[t].pc \in UndoPCs)
    BY <1>1 DEF TxLinks
  <1>5. OwnIn(log, tx[t].lsn, t, Len(log)) /\ OwnIn(log, tx[t].undo, t, Len(log))
    BY <1>1 DEF TxLinks
  <1>6. EntryLink(log, att[t], t, Len(log)) /\ EntryLink(log, recAtt[t], t, Len(log))
    BY <1>1 DEF TableLinks
  <1> QED BY <1>2, <1>3, <1>4, <1>5, <1>6

\* A START record, its entry in the ATT (recovery.go, NewRecoveryMgr).
LEMMA StartLinks ==
    ASSUME DurabilityInv, LinkInv, LogGrows, NEW t \in Txns, TxStart(t)
    PROVE  LinkInv'
  <1>0. LogLinks /\ TxLinks(t)
    BY DEF LinkInv
  <1>1. CASE StartLog(t)
    <2>1. /\ LogAppend(StartRec(t)) /\ UNCHANGED <<master, ckpt, phase, recPos, att, recAtt>>
          /\ tx' = [tx EXCEPT ![t] = [pc |-> "new", lsn |-> NextLSN, undo |-> NoLSN]]
          /\ phase = "up"
      BY <1>1 DEF StartLog, GotoWith, MayStartHandler, recVars, tblVars
    <2>2. /\ StartRec(t).op = "START" /\ StartRec(t).txn = t
          /\ RecLinks(log, StartRec(t), Len(log))
      BY DEF StartRec, RecLinks, OwnIn
    <2>3. LogLinks'
      BY <1>0, <2>1, <2>2, AppendLinks
    <2>4. /\ tx'[t] = [pc |-> "new", lsn |-> NextLSN, undo |-> NoLSN]
          /\ \A u \in Txns : u # t => tx'[u] = tx[u]
      BY <2>1, LinkFacts
    <2>5. OwnIn(log', NextLSN, t, Len(log'))
      BY <2>1, <2>2, NewOwn
    <2>6. TxLinks(t)'
      BY <2>1, <2>4, <2>5 DEF TxLinks, OwnIn
    <2>7. EntryLink(log', att[t], t, Len(log')) /\ EntryLink(log', recAtt[t], t, Len(log'))
      BY LinkFacts, GrowLinks
    <2> QED BY <2>1, <2>3, <2>4, <2>6, <2>7, OneMoved
  <1>2. CASE StartSet(t)
    <2>1. /\ UNCHANGED <<log, master, ckpt, phase, recPos, recAtt>>
          /\ tx' = [tx EXCEPT ![t] = [pc |-> "active", lsn |-> NoLSN, undo |-> NoLSN]]
          /\ att' = [att EXCEPT ![t] = Entry("running", tx[t].lsn)] /\ tx[t].pc = "new"
      BY <1>2 DEF StartSet, GotoWith, logVars, recVars
    <2>2. phase = "up"
      BY <2>1, LinkFacts DEF UndoPCs, RollbackPCs
    <2>3. /\ tx'[t] = [pc |-> "active", lsn |-> NoLSN, undo |-> NoLSN]
          /\ att'[t] = Entry("running", tx[t].lsn)
          /\ \A u \in Txns : u # t => tx'[u] = tx[u] /\ att'[u] = att[u]
      BY <2>1, LinkFacts
    <2>4. EntryLink(log', att'[t], t, Len(log')) /\ att'[t].status # "absent"
      BY <2>1, <2>3, LinkFacts DEF EntryLink, Entry
    <2>5. TxLinks(t)'
      BY <2>1, <2>2, <2>3, <2>4 DEF TxLinks, OwnIn
    <2>6. EntryLink(log', recAtt[t], t, Len(log'))
      BY LinkFacts, GrowLinks
    <2> QED BY <1>0, <2>1, <2>3, <2>4, <2>5, <2>6, OneMoved, GrowLinks
  <1> QED BY <1>1, <1>2 DEF TxStart

\* A step that moves one transaction and leaves both tables alone.
LEMMA RowMoved ==
    ASSUME DurabilityInv, LinkInv, LogGrows, LogLinks', NEW t \in Txns,
           UNCHANGED <<master, ckpt, phase, recPos, att, recAtt>>,
           \A u \in Txns : u # t => tx'[u] = tx[u],
           TxLinks(t)'
    PROVE  LinkInv'
  <1>1. EntryLink(log', att'[t], t, Len(log')) /\ EntryLink(log', recAtt'[t], t, Len(log'))
    BY LinkFacts, GrowLinks
  <1> QED BY <1>1, OneMoved

\* A step that appends a record of transaction t: the record links back to one of t, so
\* the log keeps its links and gains one (log.go:148).
LEMMA OwnRecord ==
    ASSUME DurabilityInv, LinkInv, NEW t \in Txns, NEW rec, LogAppend(rec),
           rec.op \notin {"CKPT_BEGIN", "CKPT_END"}, rec.txn = t,
           OwnIn(log, rec.prev, t, Len(log)),
           rec.op = "CLR" => OwnIn(log, rec.undoNext, t, Len(log))
    PROVE  /\ LogLinks' /\ OwnIn(log', NextLSN, t, Len(log')) /\ flushed' = flushed
           /\ NextLSN = Len(log) + 1
  <1>1. RecLinks(log, rec, Len(log))
    BY DEF RecLinks
  <1>2. LogLinks'
    BY <1>1, AppendLinks DEF LinkInv
  <1> QED BY <1>2, NewOwn

\* The record a rollback is to read next, and where it leads (recovery.go:263-297).
LEMMA BackLink ==
    ASSUME DurabilityInv, LinkInv, NEW t \in Txns, tx[t].undo # NoLSN
    PROVE  /\ tx[t].undo \in LSNs /\ IsTxRec(tx[t].undo) /\ log[tx[t].undo].txn = t
           /\ log[tx[t].undo] \in LogRecords
           /\ OwnIn(log, log[tx[t].undo].prev, t, Len(log)) /\ log[tx[t].undo].prev \in Int
           /\ log[tx[t].undo].prev < tx[t].undo
           /\ log[tx[t].undo].op = "CLR" =>
                 /\ OwnIn(log, log[tx[t].undo].undoNext, t, Len(log))
                 /\ log[tx[t].undo].undoNext \in Int
                 /\ log[tx[t].undo].undoNext < tx[t].undo
  <1>1. tx[t].undo \in LSNs /\ IsTxRec(tx[t].undo) /\ log[tx[t].undo].txn = t
    BY LinkFacts DEF OwnIn, LSNs, IsTxRec
  <1>2. Len(log) \in Nat /\ log[tx[t].undo] \in LogRecords
    BY <1>1, StateFacts DEF LSNs
  <1>3. /\ log[tx[t].undo].prev \in LSN \cup {NoLSN}
        /\ log[tx[t].undo].op = "CLR" => log[tx[t].undo].undoNext \in LSN \cup {NoLSN}
    BY <1>1, <1>2, RecordFields DEF LogRecords, IsTxRec
  <1>4. RecLinks(log, log[tx[t].undo], tx[t].undo - 1)
    BY <1>1 DEF LinkInv, LogLinks
  <1>5. tx[t].undo \in 1 .. Len(log)
    BY <1>1 DEF LSNs
  <1>6. ASSUME NEW l \in LSN \cup {NoLSN}, OwnIn(log, l, t, tx[t].undo - 1)
        PROVE  OwnIn(log, l, t, Len(log)) /\ l \in Int /\ l < tx[t].undo
    BY <1>2, <1>5, <1>6 DEF OwnIn, LSN, NoLSN
  <1>7. OwnIn(log, log[tx[t].undo].prev, t, tx[t].undo - 1)
    BY <1>1, <1>4 DEF RecLinks, IsTxRec
  <1>8. log[tx[t].undo].op = "CLR" => OwnIn(log, log[tx[t].undo].undoNext, t, tx[t].undo - 1)
    BY <1>1, <1>4 DEF RecLinks, IsTxRec
  <1> QED BY <1>1, <1>2, <1>3, <1>6, <1>7, <1>8

\* An update: its SET record, its link in the ATT, its page (transaction.go:174).
LEMMA UpdateLinks ==
    ASSUME DurabilityInv, LinkInv, LogGrows, NEW t \in Txns, TxUpdate(t)
    PROVE  LinkInv'
  <1>0. LogLinks /\ TxLinks(t) /\ TableLinks(t)
    BY DEF LinkInv
  <1>1. ASSUME NEW p \in Pages, UpdateLog(t, p) PROVE LinkInv'
    <2> DEFINE rec == SetRec(t, att[t].lastLSN, p, buf[p].val, NextLSN)
    <2>1. /\ LogAppend(rec) /\ UNCHANGED <<master, ckpt, phase, recPos, att, recAtt>>
          /\ tx' = [tx EXCEPT ![t] = [pc |-> "logged", lsn |-> NextLSN, undo |-> NoLSN]]
          /\ phase = "up" /\ tx[t].pc = "active"
      BY <1>1 DEF UpdateLog, GotoWith, MayStartHandler, recVars, tblVars
    <2>2. rec.op = "SET" /\ rec.txn = t /\ rec.prev = att[t].lastLSN
      BY DEF SetRec
    <2>3. OwnIn(log, att[t].lastLSN, t, Len(log))
      BY LinkFacts DEF EntryLink
    <2> HIDE DEF rec
    <2>4. LogLinks' /\ OwnIn(log', NextLSN, t, Len(log')) /\ NextLSN = Len(log) + 1
      BY <2>1, <2>2, <2>3, OwnRecord
    <2>5. /\ tx'[t] = [pc |-> "logged", lsn |-> NextLSN, undo |-> NoLSN]
          /\ \A u \in Txns : u # t => tx'[u] = tx[u]
      BY <2>1, LinkFacts
    <2>6. att[t].status # "absent"
      BY <1>0, <2>1 DEF TxLinks
    <2>7. TxLinks(t)'
      BY <2>1, <2>4, <2>5, <2>6 DEF TxLinks, OwnIn
    <2> QED BY <2>1, <2>4, <2>5, <2>7, RowMoved
  <1>2. CASE UpdateLink(t)
    <2>1. /\ UNCHANGED <<log, flushed, master, ckpt, phase, recPos, recAtt>>
          /\ tx' = [tx EXCEPT ![t].pc = "linked"] /\ tx[t].pc = "logged"
          /\ att' = [att EXCEPT ![t].lastLSN = tx[t].lsn]
      BY <1>2 DEF UpdateLink, Goto, logVars, recVars
    <2>2. /\ tx'[t].pc = "linked" /\ tx'[t].lsn = tx[t].lsn /\ tx'[t].undo = tx[t].undo
          /\ \A u \in Txns : u # t => tx'[u] = tx[u] /\ att'[u] = att[u]
      BY <2>1, LinkFacts DEF TxRows
    <2>3. att'[t].status = att[t].status /\ att'[t].lastLSN = tx[t].lsn
      BY <2>1, LinkFacts DEF Entries
    <2>4. att[t].status # "absent" /\ phase = "up"
      BY <1>0, <2>1 DEF TxLinks, UndoPCs, RollbackPCs
    <2>5. EntryLink(log', att'[t], t, Len(log')) /\ EntryLink(log', recAtt'[t], t, Len(log'))
      BY <2>1, <2>3, <2>4, LinkFacts DEF EntryLink
    <2>6. TxLinks(t)'
      BY <1>0, <2>1, <2>2, <2>3, <2>4 DEF TxLinks
    <2>7. LogLinks'
      BY <1>0, <2>1, GrowLinks
    <2> QED BY <2>1, <2>2, <2>5, <2>6, <2>7, OneMoved
  <1>3. CASE UpdatePage(t)
    <2>1. /\ UNCHANGED <<log, flushed, master, ckpt, phase, recPos, att, recAtt>>
          /\ tx' = [tx EXCEPT ![t] = [pc |-> "active", lsn |-> NoLSN, undo |-> NoLSN]]
          /\ tx[t].pc = "linked"
      BY <1>3 DEF UpdatePage, GotoWith, logVars, recVars
    <2>2. /\ tx'[t] = [pc |-> "active", lsn |-> NoLSN, undo |-> NoLSN]
          /\ \A u \in Txns : u # t => tx'[u] = tx[u]
      BY <2>1, LinkFacts
    <2>3. att[t].status # "absent" /\ phase = "up"
      BY <1>0, <2>1 DEF TxLinks, UndoPCs, RollbackPCs
    <2>4. /\ tx'[t].pc = "active" /\ tx'[t].lsn = NoLSN /\ tx'[t].undo = NoLSN
          /\ phase' = "up" /\ att'[t].status # "absent"
      BY <2>1, <2>2, <2>3
    <2>5. TxLinks(t)'
      BY <2>4 DEF TxLinks, OwnIn
    <2>6. LogLinks'
      BY <1>0, <2>1, GrowLinks
    <2> QED BY <2>1, <2>2, <2>5, <2>6, RowMoved
  <1> QED BY <1>1, <1>2, <1>3 DEF TxUpdate

\* A commit: its record, its flush, its entry in the ATT (recovery.go:74-97).
LEMMA CommitLinks ==
    ASSUME DurabilityInv, LinkInv, LogGrows, NEW t \in Txns, TxCommit(t)
    PROVE  LinkInv'
  <1>0. LogLinks /\ TxLinks(t)
    BY DEF LinkInv
  <1>1. CASE CommitLog(t)
    <2> DEFINE rec == CommitRec(t, att[t].lastLSN)
    <2>1. /\ LogAppend(rec) /\ UNCHANGED <<master, ckpt, phase, recPos, att, recAtt>>
          /\ tx' = [tx EXCEPT ![t] = [pc |-> "commit", lsn |-> NextLSN, undo |-> NoLSN]]
          /\ phase = "up"
      BY <1>1 DEF CommitLog, GotoWith, MayStartHandler, recVars, tblVars
    <2>2. rec.op = "COMMIT" /\ rec.txn = t /\ rec.prev = att[t].lastLSN
      BY DEF CommitRec
    <2>3. OwnIn(log, att[t].lastLSN, t, Len(log))
      BY LinkFacts DEF EntryLink
    <2> HIDE DEF rec
    <2>4. LogLinks' /\ OwnIn(log', NextLSN, t, Len(log'))
      BY <2>1, <2>2, <2>3, OwnRecord
    <2>5. /\ tx'[t] = [pc |-> "commit", lsn |-> NextLSN, undo |-> NoLSN]
          /\ \A u \in Txns : u # t => tx'[u] = tx[u]
      BY <2>1, LinkFacts
    <2>6. TxLinks(t)'
      BY <2>1, <2>4, <2>5 DEF TxLinks, OwnIn
    <2> QED BY <2>1, <2>4, <2>5, <2>6, RowMoved
  <1>2. CASE CommitFlush(t)
    <2>1. /\ UNCHANGED <<log, master, ckpt, phase, recPos, att, recAtt>>
          /\ tx' = [tx EXCEPT ![t].pc = "commitFlushed"] /\ tx[t].pc = "commit"
      BY <1>2 DEF CommitFlush, Goto, recVars, tblVars
    <2>2. /\ tx'[t].pc = "commitFlushed" /\ tx'[t].lsn = tx[t].lsn /\ tx'[t].undo = tx[t].undo
          /\ \A u \in Txns : u # t => tx'[u] = tx[u]
      BY <2>1, LinkFacts DEF TxRows
    <2>3. phase = "up"
      BY <1>0, <2>1 DEF TxLinks, UndoPCs, RollbackPCs
    <2>l. LogLinks'
      BY <1>0, <2>1, GrowLinks
    <2>4. TxLinks(t)'
      BY <1>0, <2>1, <2>2, <2>3, GrowLinks DEF TxLinks
    <2> QED BY <2>1, <2>2, <2>l, <2>4, RowMoved
  <1>3. CASE CommitSet(t)
    <2>1. /\ UNCHANGED <<log, flushed, master, ckpt, phase, recPos, recAtt>>
          /\ tx' = [tx EXCEPT ![t].pc = "commitSet"] /\ tx[t].pc = "commitFlushed"
          /\ att' = [att EXCEPT ![t] = Entry("commited", tx[t].lsn)]
      BY <1>3 DEF CommitSet, Goto, logVars, recVars
    <2>2. /\ tx'[t].pc = "commitSet" /\ tx'[t].lsn = tx[t].lsn /\ tx'[t].undo = tx[t].undo
          /\ att'[t] = Entry("commited", tx[t].lsn)
          /\ \A u \in Txns : u # t => tx'[u] = tx[u] /\ att'[u] = att[u]
      BY <2>1, LinkFacts DEF TxRows
    <2>3. phase = "up"
      BY <1>0, <2>1 DEF TxLinks, UndoPCs, RollbackPCs
    <2>l. LogLinks'
      BY <1>0, <2>1, GrowLinks
    <2>4. TxLinks(t)'
      BY <1>0, <2>1, <2>2, <2>3, GrowLinks DEF TxLinks
    <2>5. EntryLink(log', att'[t], t, Len(log')) /\ EntryLink(log', recAtt'[t], t, Len(log'))
      BY <2>1, <2>2, LinkFacts DEF EntryLink, Entry
    <2> QED BY <2>1, <2>2, <2>l, <2>4, <2>5, OneMoved
  <1> QED BY <1>1, <1>2, <1>3 DEF TxCommit

\* The END record, and the entry taken out of the ATT (recovery.go:91-97, 118-125).
LEMMA EndLinks ==
    ASSUME DurabilityInv, LinkInv, LogGrows, NEW t \in Txns, TxEnd(t)
    PROVE  LinkInv'
  <1>0. LogLinks /\ TxLinks(t)
    BY DEF LinkInv
  <1>1. CASE EndLog(t)
    <2> DEFINE rec == EndRec(t, tx[t].lsn)
    <2>1. /\ LogAppend(rec) /\ UNCHANGED <<master, ckpt, phase, recPos, att, recAtt>>
          /\ tx' = [tx EXCEPT ![t].pc = "ended"] /\ tx[t].pc \in {"commitSet", "abortSet"}
      BY <1>1 DEF EndLog, Goto, recVars, tblVars
    <2>2. rec.op = "END" /\ rec.txn = t /\ rec.prev = tx[t].lsn
      BY DEF EndRec
    <2> HIDE DEF rec
    <2>3. LogLinks'
      BY <2>1, <2>2, OwnRecord, LinkFacts
    <2>4. /\ tx'[t].pc = "ended" /\ tx'[t].lsn = tx[t].lsn /\ tx'[t].undo = tx[t].undo
          /\ \A u \in Txns : u # t => tx'[u] = tx[u]
      BY <2>1, LinkFacts DEF TxRows
    <2>5. OwnIn(log', tx[t].lsn, t, Len(log')) /\ OwnIn(log', tx[t].undo, t, Len(log'))
      BY LinkFacts, GrowLinks
    <2>6. TxLinks(t)'
      BY <1>0, <2>1, <2>4, <2>5 DEF TxLinks, UndoPCs
    <2> QED BY <2>1, <2>3, <2>4, <2>6, RowMoved
  <1>2. CASE Finish(t)
    <2>1. /\ UNCHANGED <<log, flushed, master, ckpt, phase, recPos, recAtt>>
          /\ tx' = [tx EXCEPT ![t].pc = "done"] /\ phase = "up"
          /\ att' = [att EXCEPT ![t] = Absent]
      BY <1>2 DEF Finish, Goto, logVars, recVars
    <2>2. /\ tx'[t].pc = "done" /\ tx'[t].lsn = tx[t].lsn /\ tx'[t].undo = tx[t].undo
          /\ att'[t] = Absent
          /\ \A u \in Txns : u # t => tx'[u] = tx[u] /\ att'[u] = att[u]
      BY <2>1, LinkFacts DEF TxRows
    <2>l. LogLinks'
      BY <1>0, <2>1, GrowLinks
    <2>3. TxLinks(t)'
      BY <1>0, <2>1, <2>2, GrowLinks DEF TxLinks
    <2>4. EntryLink(log', att'[t], t, Len(log')) /\ EntryLink(log', recAtt'[t], t, Len(log'))
      BY <2>1, <2>2, LinkFacts DEF EntryLink, Absent, OwnIn
    <2> QED BY <2>1, <2>2, <2>l, <2>3, <2>4, OneMoved
  <1> QED BY <1>1, <1>2 DEF TxEnd

\* A rollback: its ABORT record and the flush of it, and its entry (recovery.go:99-125).
LEMMA RollbackLinks ==
    ASSUME DurabilityInv, LinkInv, LogGrows, NEW t \in Txns, TxRollback(t)
    PROVE  LinkInv'
  <1>0. LogLinks /\ TxLinks(t)
    BY DEF LinkInv
  <1>1. CASE AbortLog(t)
    <2> DEFINE rec == AbortRec(t, att[t].lastLSN)
               row == [pc |-> "abort", lsn |-> NextLSN, undo |-> att[t].lastLSN]
    <2>1. /\ LogAppend(rec) /\ UNCHANGED <<master, ckpt, phase, recPos, att, recAtt>>
          /\ tx' = [tx EXCEPT ![t] = row]
          /\ phase = "up"
      BY <1>1 DEF AbortLog, GotoWith, MayStartHandler, recVars, tblVars
    <2>2. rec.op = "ABORT" /\ rec.txn = t /\ rec.prev = att[t].lastLSN
      BY DEF AbortRec
    <2>3. OwnIn(log, att[t].lastLSN, t, Len(log))
      BY LinkFacts DEF EntryLink
    <2> HIDE DEF rec
    <2>4. LogLinks' /\ OwnIn(log', NextLSN, t, Len(log')) /\ NextLSN = Len(log) + 1
      BY <2>1, <2>2, <2>3, OwnRecord
    <2>5. /\ tx'[t] = row /\ \A u \in Txns : u # t => tx'[u] = tx[u]
      BY <2>1, LinkFacts
    <2>6. att[t].lastLSN < NextLSN
      BY <2>3, <2>4, LinkFacts DEF OwnIn, NoLSN
    <2>7. OwnIn(log', att[t].lastLSN, t, Len(log'))
      BY <2>3, GrowLinks
    <2>8. TxLinks(t)'
      BY <2>1, <2>4, <2>5, <2>6, <2>7 DEF TxLinks
    <2> QED BY <2>1, <2>4, <2>5, <2>8, RowMoved
  <1>2. CASE AbortFlush(t)
    <2>1. /\ UNCHANGED <<log, master, ckpt, phase, recPos, att, recAtt>>
          /\ tx' = [tx EXCEPT ![t].pc = "undo"] /\ tx[t].pc = "abort" /\ LogFlush(tx[t].lsn)
      BY <1>2 DEF AbortFlush, Goto, recVars, tblVars
    <2>2. /\ tx'[t].pc = "undo" /\ tx'[t].lsn = tx[t].lsn /\ tx'[t].undo = tx[t].undo
          /\ \A u \in Txns : u # t => tx'[u] = tx[u]
      BY <2>1, LinkFacts DEF TxRows
    <2>3. tx[t].lsn <= flushed' /\ flushed <= flushed' /\ flushed' \in Nat
      BY <2>1, LinkFacts, StateFacts, FlushGrows DEF LogGrows
    <2>4. tx[t].undo <= flushed'
      BY <1>0, <2>1, <2>3, LinkFacts DEF TxLinks
    <2>5. phase = "undo" => recAtt[t].lastLSN <= flushed'
      BY <1>0, <2>1, <2>3, LinkFacts DEF TxLinks
    <2>l. LogLinks'
      BY <1>0, <2>1, GrowLinks
    <2>6. TxLinks(t)'
      BY <1>0, <2>1, <2>2, <2>4, <2>5, GrowLinks DEF TxLinks, UndoPCs, RollbackPCs
    <2> QED BY <2>1, <2>2, <2>l, <2>6, RowMoved
  <1>3. CASE RollbackSet(t)
    <2> DEFINE e == Entry("aborting", tx[t].lsn)
    <2>1. /\ UNCHANGED <<log, flushed, master, ckpt, phase, recPos>>
          /\ tx' = [tx EXCEPT ![t].pc = "abortSet"] /\ tx[t].pc = "undone"
          /\ \/ att' = [att EXCEPT ![t] = e] /\ recAtt' = recAtt
             \/ recAtt' = [recAtt EXCEPT ![t] = e] /\ att' = att
      BY <1>3 DEF RollbackSet, Goto, logVars, recVars
    <2>2. /\ tx'[t].pc = "abortSet" /\ tx'[t].lsn = tx[t].lsn /\ tx'[t].undo = tx[t].undo
          /\ \A u \in Txns : u # t => tx'[u] = tx[u]
      BY <2>1, LinkFacts DEF TxRows
    <2>3. EntryLink(log, e, t, Len(log))
      BY LinkFacts DEF EntryLink, Entry
    <2>4. /\ att'[t] \in {att[t], e} /\ recAtt'[t] \in {recAtt[t], e}
          /\ \A u \in Txns : u # t => att'[u] = att[u] /\ recAtt'[u] = recAtt[u]
      BY <2>1, LinkFacts
    <2> HIDE DEF e
    <2>5. EntryLink(log', att'[t], t, Len(log')) /\ EntryLink(log', recAtt'[t], t, Len(log'))
      BY <2>1, <2>3, <2>4, LinkFacts
    <2>l. LogLinks'
      BY <1>0, <2>1, GrowLinks
    <2>6. TxLinks(t)'
      BY <1>0, <2>1, <2>2, GrowLinks DEF TxLinks, UndoPCs, RollbackPCs
    <2> QED BY <2>1, <2>2, <2>4, <2>5, <2>l, <2>6, OneMoved
  <1> QED BY <1>1, <1>2, <1>3 DEF TxRollback

\* One call of doRollback (recovery.go:258-307): where it goes next is further back.
LEMMA UndoLinks ==
    ASSUME DurabilityInv, LinkInv, LogGrows, NEW t \in Txns, DoRollback(t)
    PROVE  LinkInv'
  <1>0. LogLinks /\ TxLinks(t)
    BY DEF LinkInv
  <1>1. CASE UndoStop(t)
    <2>1. /\ UNCHANGED <<log, flushed, master, ckpt, phase, recPos, att, recAtt>>
          /\ tx' = [tx EXCEPT ![t].pc = "undone"] /\ tx[t].pc = "undo"
      BY <1>1 DEF UndoStop, Goto, logVars, recVars, tblVars
    <2>2. /\ tx'[t].pc = "undone" /\ tx'[t].lsn = tx[t].lsn /\ tx'[t].undo = tx[t].undo
          /\ \A u \in Txns : u # t => tx'[u] = tx[u]
      BY <2>1, LinkFacts DEF TxRows
    <2>l. LogLinks'
      BY <1>0, <2>1, GrowLinks
    <2>3. TxLinks(t)'
      BY <1>0, <2>1, <2>2, GrowLinks DEF TxLinks, UndoPCs, RollbackPCs
    <2> QED BY <2>1, <2>2, <2>l, <2>3, RowMoved
  <1>2. CASE UndoSet(t)
    <2> DEFINE old == log[tx[t].undo]
               rec == CLRRec(t, tx[t].lsn, old.page, old.old, old.prev)
    <2>1. /\ LogAppend(rec) /\ UNCHANGED <<master, ckpt, phase, recPos, att, recAtt>>
          /\ tx' = [tx EXCEPT ![t].pc = "clr", ![t].lsn = NextLSN] /\ tx[t].pc = "undo"
          /\ tx[t].undo \in 1 .. flushed
      BY <1>2 DEF UndoSet, Readable, recVars, tblVars
    <2>2. rec.op = "CLR" /\ rec.txn = t /\ rec.prev = tx[t].lsn /\ rec.undoNext = old.prev
      BY DEF CLRRec
    <2>3. tx[t].undo # NoLSN
      BY <2>1, LinkFacts DEF NoLSN
    <2>4. OwnIn(log, old.prev, t, Len(log))
      BY <2>3, BackLink
    <2> HIDE DEF rec, old
    <2>5. LogLinks' /\ OwnIn(log', NextLSN, t, Len(log')) /\ flushed' = flushed
      BY <2>1, <2>2, <2>4, OwnRecord, LinkFacts
    <2>6. /\ tx'[t].pc = "clr" /\ tx'[t].lsn = NextLSN /\ tx'[t].undo = tx[t].undo
          /\ \A u \in Txns : u # t => tx'[u] = tx[u]
      BY <2>1, LinkFacts DEF TxRows
    <2>7. OwnIn(log', tx[t].undo, t, Len(log'))
      BY LinkFacts, GrowLinks
    <2>8. TxLinks(t)'
      BY <1>0, <2>1, <2>5, <2>6, <2>7 DEF TxLinks, UndoPCs, RollbackPCs
    <2> QED BY <2>1, <2>5, <2>6, <2>8, RowMoved
  <1>3. CASE UndoSkip(t)
    <2> DEFINE rec == log[tx[t].undo]
               to == IF rec.op = "CLR" THEN rec.undoNext ELSE rec.prev
    <2>1. /\ UNCHANGED <<log, flushed, master, ckpt, phase, recPos, att, recAtt>>
          /\ tx' = [tx EXCEPT ![t].undo = to] /\ tx[t].pc = "undo"
          /\ tx[t].undo \in 1 .. flushed
      BY <1>3 DEF UndoSkip, Readable, logVars, recVars, tblVars
    <2>2. tx[t].undo # NoLSN
      BY <2>1, LinkFacts DEF NoLSN
    <2>3. OwnIn(log, to, t, Len(log)) /\ to \in Int /\ to < tx[t].undo
      BY <2>2, BackLink
    <2> HIDE DEF to
    <2>4. /\ tx'[t].pc = "undo" /\ tx'[t].lsn = tx[t].lsn /\ tx'[t].undo = to
          /\ \A u \in Txns : u # t => tx'[u] = tx[u]
      BY <2>1, LinkFacts DEF TxRows
    <2>5. to <= flushed
      BY <2>1, <2>3, LinkFacts
    <2>l. LogLinks'
      BY <1>0, <2>1, GrowLinks
    <2>6. TxLinks(t)'
      BY <1>0, <2>1, <2>3, <2>4, <2>5, GrowLinks DEF TxLinks
    <2> QED BY <2>1, <2>4, <2>l, <2>6, RowMoved
  <1>4. CASE ClrFlush(t)
    <2>1. /\ UNCHANGED <<log, master, ckpt, phase, recPos, att, recAtt>>
          /\ tx' = [tx EXCEPT ![t].pc = "clrFlushed"] /\ tx[t].pc = "clr"
      BY <1>4 DEF ClrFlush, Goto, recVars, tblVars
    <2>2. /\ tx'[t].pc = "clrFlushed" /\ tx'[t].lsn = tx[t].lsn /\ tx'[t].undo = tx[t].undo
          /\ \A u \in Txns : u # t => tx'[u] = tx[u]
      BY <2>1, LinkFacts DEF TxRows
    <2>3. flushed <= flushed' /\ flushed' \in Nat
      BY DEF LogGrows
    <2>4. tx[t].undo <= flushed' /\ (phase = "undo" => recAtt[t].lastLSN <= flushed')
      BY <1>0, <2>1, <2>3, LinkFacts DEF TxLinks
    <2>l. LogLinks'
      BY <1>0, <2>1, GrowLinks
    <2>5. TxLinks(t)'
      BY <1>0, <2>1, <2>2, <2>4, GrowLinks DEF TxLinks, UndoPCs, RollbackPCs
    <2> QED BY <2>1, <2>2, <2>l, <2>5, RowMoved
  <1>5. CASE UndoPage(t)
    <2> DEFINE to == log[tx[t].undo].prev
    <2>1. /\ UNCHANGED <<log, flushed, master, ckpt, phase, recPos, att, recAtt>>
          /\ tx' = [tx EXCEPT ![t].pc = "undo", ![t].undo = to] /\ tx[t].pc = "clrFlushed"
      BY <1>5 DEF UndoPage, logVars, recVars
    <2>2. tx[t].undo # NoLSN
      <3>1. tx[t].undo \in LSNs
        BY <2>1 DEF DurabilityInv, HandlerRecords, HasItsRecord
      <3> QED BY <3>1, LinkFacts DEF LSNs, NoLSN
    <2>3. OwnIn(log, to, t, Len(log)) /\ to \in Int /\ to < tx[t].undo
      BY <2>2, BackLink
    <2> HIDE DEF to
    <2>4. /\ tx'[t].pc = "undo" /\ tx'[t].lsn = tx[t].lsn /\ tx'[t].undo = to
          /\ \A u \in Txns : u # t => tx'[u] = tx[u]
      BY <2>1, LinkFacts DEF TxRows
    <2>5. to <= flushed
      BY <1>0, <2>1, <2>3, LinkFacts DEF TxLinks
    <2>l. LogLinks'
      BY <1>0, <2>1, GrowLinks
    <2>6. TxLinks(t)'
      BY <1>0, <2>1, <2>3, <2>4, <2>5, GrowLinks DEF TxLinks, UndoPCs, RollbackPCs
    <2> QED BY <2>1, <2>4, <2>l, <2>6, RowMoved
  <1> QED BY <1>1, <1>2, <1>3, <1>4, <1>5 DEF DoRollback

\* Winners and losers, one by one (recovery.go:397-476).
LEMMA LoserLinks ==
    ASSUME DurabilityInv, LinkInv, LogGrows, NEW t \in Txns, EndWinner(t) \/ RecoverLoser(t)
    PROVE  LinkInv'
  <1>0. LogLinks /\ TxLinks(t)
    BY DEF LinkInv
  <1>e. OwnIn(log, recAtt[t].lastLSN, t, Len(log))
    BY LinkFacts DEF EntryLink
  <1>1. CASE EndWinner(t)
    <2> DEFINE rec == EndRec(t, recAtt[t].lastLSN)
    <2>1. /\ LogAppend(rec) /\ UNCHANGED <<master, ckpt, phase, recPos, att, tx>>
          /\ recAtt' = [recAtt EXCEPT ![t] = Absent] /\ phase = "winners"
      BY <1>1 DEF EndWinner, tblVars
    <2>2. rec.op = "END" /\ rec.txn = t /\ rec.prev = recAtt[t].lastLSN
      BY DEF EndRec
    <2> HIDE DEF rec
    <2>3. LogLinks' /\ flushed' = flushed
      BY <1>e, <2>1, <2>2, OwnRecord
    <2>4. recAtt'[t] = Absent /\ \A u \in Txns : u # t => recAtt'[u] = recAtt[u]
      BY <2>1, LinkFacts
    <2>5. OwnIn(log', tx[t].lsn, t, Len(log')) /\ OwnIn(log', tx[t].undo, t, Len(log'))
      BY LinkFacts, GrowLinks
    <2>6. TxLinks(t)'
      BY <1>0, <2>1, <2>3, <2>5 DEF TxLinks
    <2>7. EntryLink(log', att'[t], t, Len(log')) /\ EntryLink(log', recAtt'[t], t, Len(log'))
      <3>1. EntryLink(log', att[t], t, Len(log'))
        BY LinkFacts, GrowLinks
      <3>2. EntryLink(log', Absent, t, Len(log'))
        BY DEF EntryLink, Absent, OwnIn
      <3> QED BY <2>1, <2>4, <3>1, <3>2
    <2> QED BY <2>1, <2>3, <2>4, <2>6, <2>7, OneMoved
  <1>2. CASE UndoRunningLoser(t)
    <2> DEFINE rec == AbortRec(t, recAtt[t].lastLSN)
               row == [pc |-> "abort", lsn |-> NextLSN, undo |-> recAtt[t].lastLSN]
    <2>1. /\ LogAppend(rec) /\ UNCHANGED <<master, ckpt, phase, recPos, att, recAtt>>
          /\ tx' = [tx EXCEPT ![t] = row] /\ phase = "undo" /\ tx[t].pc = "none"
      BY <1>2 DEF UndoRunningLoser, GotoWith, NoUndoRunning, recVars, tblVars
    <2>2. rec.op = "ABORT" /\ rec.txn = t /\ rec.prev = recAtt[t].lastLSN
      BY DEF AbortRec
    <2> HIDE DEF rec
    <2>3. /\ LogLinks' /\ OwnIn(log', NextLSN, t, Len(log')) /\ NextLSN = Len(log) + 1
          /\ flushed' = flushed
      BY <1>e, <2>1, <2>2, OwnRecord
    <2>4. tx'[t] = row /\ \A u \in Txns : u # t => tx'[u] = tx[u]
      BY <2>1, LinkFacts
    <2>5. recAtt[t].lastLSN < NextLSN
      BY <1>e, <2>3, LinkFacts DEF OwnIn, NoLSN
    <2>6. OwnIn(log', recAtt[t].lastLSN, t, Len(log'))
      BY <1>e, GrowLinks
    <2>7. recAtt[t].lastLSN <= flushed
      BY <1>0, <2>1 DEF TxLinks
    <2>8. /\ tx'[t].pc = "abort" /\ tx'[t].lsn = NextLSN /\ tx'[t].undo = recAtt[t].lastLSN
          /\ phase' = "undo" /\ recAtt'[t].lastLSN <= flushed' /\ "abort" \in UndoPCs
      BY <2>1, <2>3, <2>4, <2>7 DEF UndoPCs, RollbackPCs
    <2>9. TxLinks(t)'
      BY <2>3, <2>5, <2>6, <2>8 DEF TxLinks
    <2> QED BY <2>1, <2>3, <2>4, <2>9, RowMoved
  <1>3. CASE UndoAbortingLoser(t)
    <2> DEFINE row == [pc |-> "undo", lsn |-> recAtt[t].lastLSN, undo |-> recAtt[t].lastLSN]
    <2>1. /\ UNCHANGED <<log, flushed, master, ckpt, phase, recPos, att, recAtt>>
          /\ tx' = [tx EXCEPT ![t] = row] /\ phase = "undo" /\ tx[t].pc = "none"
      BY <1>3 DEF UndoAbortingLoser, GotoWith, NoUndoRunning, logVars, recVars, tblVars
    <2>2. tx'[t] = row /\ \A u \in Txns : u # t => tx'[u] = tx[u]
      BY <2>1, LinkFacts
    <2>3. recAtt[t].lastLSN <= flushed
      BY <1>0, <2>1 DEF TxLinks
    <2>l. LogLinks'
      BY <1>0, <2>1, GrowLinks
    <2>4. TxLinks(t)'
      BY <1>0, <1>e, <2>1, <2>2, <2>3, GrowLinks DEF TxLinks, UndoPCs, RollbackPCs
    <2> QED BY <2>1, <2>2, <2>l, <2>4, RowMoved
  <1>4. CASE LoserUndone(t)
    <2>1. /\ UNCHANGED <<log, flushed, master, ckpt, phase, recPos, att>>
          /\ tx' = [tx EXCEPT ![t] = TxIdle] /\ recAtt' = [recAtt EXCEPT ![t] = Absent]
      BY <1>4 DEF LoserUndone, logVars, tblVars
    <2>2. /\ tx'[t] = TxIdle /\ recAtt'[t] = Absent
          /\ \A u \in Txns : u # t => tx'[u] = tx[u] /\ recAtt'[u] = recAtt[u]
      BY <2>1, LinkFacts
    <2>3. EntryLink(log', att'[t], t, Len(log')) /\ EntryLink(log', recAtt'[t], t, Len(log'))
      BY <2>1, <2>2, LinkFacts DEF EntryLink, Absent, OwnIn
    <2>4. /\ tx'[t].pc = "none" /\ tx'[t].lsn = NoLSN /\ tx'[t].undo = NoLSN
          /\ recAtt'[t].lastLSN = -1
      BY <2>2 DEF TxIdle, Absent, NoLSN
    <2>5. recAtt'[t].lastLSN <= flushed'
      BY <2>1, <2>4, LinkFacts
    <2>6. TxLinks(t)'
      BY <2>4, <2>5 DEF TxLinks, OwnIn
    <2>7. LogLinks'
      BY <1>0, <2>1, GrowLinks
    <2> QED BY <2>1, <2>2, <2>3, <2>6, <2>7, OneMoved
  <1> QED BY <1>1, <1>2, <1>3, <1>4 DEF RecoverLoser

\* A step of the checkpoint leaves the transactions and both tables alone.
LEMMA CkptMoved ==
    ASSUME DurabilityInv, LinkInv, LogGrows, LogLinks', CkptLinks',
           UNCHANGED <<tx, att, recAtt, phase>>,
           \A u \in Txns : EntryLink(log', ckpt'.att[u], u, Len(log'))
    PROVE  LinkInv'
  <1>1. ASSUME NEW u \in Txns PROVE TableLinks(u)' /\ TxLinks(u)'
    <2>1. EntryLink(log', att[u], u, Len(log')) /\ EntryLink(log', recAtt[u], u, Len(log'))
      BY LinkFacts, GrowLinks
    <2>2. TxLinks(u)'
      BY GrowLinks DEF LinkInv
    <2> QED BY <2>1, <2>2 DEF TableLinks
  <1> QED BY <1>1 DEF LinkInv

\* The checkpoint (recovery.go:127-147): its snapshot of the ATT links as the ATT does, at
\* whatever time it is taken.
LEMMA CheckpointLinks ==
    ASSUME DurabilityInv, LinkInv, LogGrows, Checkpoint
    PROVE  LinkInv'
  <1>0. /\ LogLinks /\ CkptLinks /\ Len(log) \in Nat /\ master \in LSN
        /\ flushed \in Nat /\ flushed' \in Nat /\ flushed <= flushed'
        /\ ckpt.begin \in LSN \cup {NoLSN} /\ recPos \in LSN
    BY StateFacts DEF LinkInv, TypeOK, LogGrows
  <1>t. ckpt \in [pc : {"idle", "begun", "att", "dpt", "end", "flushed"},
                  begin : LSN \cup {NoLSN}, att : ATTs, dpt : DPTs]
    BY StateFacts DEF TypeOK
  <1>s. \A u \in Txns : EntryLink(log, ckpt.att[u], u, Len(log))
    BY DEF LinkInv, TableLinks
  <1>g. \A u \in Txns : EntryLink(log', ckpt.att[u], u, Len(log'))
    BY <1>s, GrowLinks
  <1>1. CASE CkptBegin
    <2>1. /\ LogAppend(CkptBeginRec) /\ UNCHANGED <<tx, att, recAtt, phase, master, recPos>>
          /\ ckpt' = [ckpt EXCEPT !.pc = "begun", !.begin = NextLSN] /\ phase = "up"
      BY <1>1 DEF CkptBegin, tblVars, recVars
    <2>2. /\ ckpt'.pc = "begun" /\ ckpt'.begin = Len(log) + 1 /\ ckpt'.att = ckpt.att
          /\ Len(log') = Len(log) + 1
      BY <1>t, <2>1, AppendPrefix DEF NextLSN
    <2>3. LogLinks'
      BY <1>0, <2>1, AppendLinks DEF RecLinks, CkptBeginRec
    <2>4. ckpt'.begin \in LSNs'
      BY <1>0, <2>2 DEF LSNs
    <2>5. CkptLinks'
      BY <1>0, <2>1, <2>2, <2>4 DEF CkptLinks, LSN
    <2> QED BY <1>g, <2>1, <2>2, <2>3, <2>5, CkptMoved
  <1>2. CASE CkptATT \/ CkptDPT
    <2>1. /\ UNCHANGED <<log, flushed, tx, att, recAtt, phase, master, recPos>>
          /\ ckpt.pc \in {"begun", "att"} /\ ckpt'.pc \in {"att", "dpt"}
          /\ ckpt'.begin = ckpt.begin /\ ckpt'.att \in {ckpt.att, att}
      BY <1>t, <1>2 DEF CkptATT, CkptDPT, logVars, tblVars, recVars
    <2>2. \A u \in Txns : EntryLink(log', ckpt'.att[u], u, Len(log'))
      BY <1>s, <2>1, LinkFacts
    <2>3. CkptLinks' /\ LogLinks'
      BY <1>0, <2>1, GrowLinks DEF CkptLinks, LSNs
    <2> QED BY <2>1, <2>2, <2>3, CkptMoved
  <1>3. CASE CkptEnd
    <2> DEFINE rec == CkptEndRec(ckpt.att, ckpt.dpt)
    <2>1. /\ LogAppend(rec) /\ UNCHANGED <<tx, att, recAtt, phase, master, recPos>>
          /\ ckpt' = [ckpt EXCEPT !.pc = "end"] /\ ckpt.pc = "dpt"
      BY <1>3 DEF CkptEnd, CkptGoto, tblVars, recVars
    <2>2. ckpt'.pc = "end" /\ ckpt'.begin = ckpt.begin /\ ckpt'.att = ckpt.att
      BY <1>t, <2>1
    <2>3. rec.op = "CKPT_END" /\ rec.att = ckpt.att
      BY DEF CkptEndRec
    <2> HIDE DEF rec
    <2>4. LogLinks'
      BY <1>0, <1>s, <2>1, <2>3, AppendLinks DEF RecLinks
    <2>5. Len(log') = Len(log) + 1 /\ log'[Len(log) + 1].op = "CKPT_END"
      BY <2>1, <2>3, AppendPrefix
    <2>6. ckpt.begin \in 1 .. Len(log) /\ phase = "up"
      BY <1>0, <2>1 DEF CkptLinks, LSNs
    <2>7. \E e \in LSNs' : ckpt.begin < e /\ log'[e].op = "CKPT_END"
      BY <1>0, <2>5, <2>6 DEF LSNs
    <2>8. CkptLinks'
      <3>1. ckpt'.begin \in LSNs' /\ phase' = "up"
        BY <1>0, <2>1, <2>2, <2>5, <2>6 DEF LSNs
      <3>2. master' = 1 \/ master' <= flushed'
        BY <1>0, <2>1 DEF CkptLinks, LSN
      <3> QED BY <2>2, <2>7, <3>1, <3>2 DEF CkptLinks
    <2> QED BY <1>g, <2>1, <2>2, <2>4, <2>8, CkptMoved
  <1>4. CASE CkptFlush
    <2>1. /\ UNCHANGED <<log, tx, att, recAtt, phase, master, recPos>>
          /\ ckpt' = [ckpt EXCEPT !.pc = "flushed"] /\ ckpt.pc = "end"
      BY <1>4 DEF CkptFlush, CkptGoto, tblVars, recVars
    <2>2. PICK lsn \in 1 .. Len(log) :
             /\ \A later \in lsn + 1 .. Len(log) : log[later].op # "CKPT_END"
             /\ LogFlush(lsn)
      BY <1>4 DEF CkptFlush
    <2>3. PICK e \in 1 .. Len(log) : ckpt.begin < e /\ log[e].op = "CKPT_END"
      BY <1>0, <2>1 DEF CkptLinks, LSNs
    <2>4. e <= lsn
      BY <1>0, <2>2, <2>3
    <2>5. lsn <= flushed'
      BY <1>0, <2>1, <2>2, FlushGrows
    <2>6. ckpt.begin <= flushed' /\ ckpt.begin \in LSNs /\ phase = "up"
      BY <1>0, <2>1, <2>3, <2>4, <2>5 DEF CkptLinks, LSN, NoLSN
    <2>7. ckpt'.pc = "flushed" /\ ckpt'.begin = ckpt.begin /\ ckpt'.att = ckpt.att
      BY <1>t, <2>1
    <2>8. CkptLinks' /\ LogLinks'
      BY <1>0, <2>1, <2>6, <2>7, GrowLinks DEF CkptLinks, LSNs, LSN
    <2> QED BY <1>g, <2>1, <2>7, <2>8, CkptMoved
  <1>5. CASE CkptMaster
    <2>1. /\ UNCHANGED <<log, flushed, tx, att, recAtt, phase, recPos>>
          /\ ckpt' = CkptIdle /\ master' = ckpt.begin /\ ckpt.pc = "flushed"
      BY <1>5 DEF CkptMaster, tblVars, recVars
    <2>2. CkptLinks' /\ LogLinks'
      BY <1>0, <2>1, GrowLinks DEF CkptLinks, CkptIdle
    <2>3. \A u \in Txns : EntryLink(log', ckpt'.att[u], u, Len(log'))
      BY <2>1 DEF CkptIdle, EmptyATT, EntryLink, Absent, OwnIn
    <2> QED BY <2>1, <2>2, <2>3, CkptMoved
  <1> QED BY <1>1, <1>2, <1>3, <1>4, <1>5 DEF Checkpoint

\* What the analysis enters in its table is a record of the transaction, whether it reads
\* the record itself or a snapshot (recovery.go:321-352).
LEMMA AnalyzeLinks ==
    ASSUME DurabilityInv, LinkInv, NEW lsn \in 1 .. Len(log), NEW u \in Txns
    PROVE  EntryLink(log, AnalyzeATT(log[lsn], lsn)[u], u, Len(log))
  <1> DEFINE rec == log[lsn]
  <1>1. rec \in LogRecords /\ lsn \in Nat /\ lsn <= Len(log) /\ Len(log) \in Nat
    BY StateFacts
  <1>2. recAtt \in ATTs /\ EntryLink(log, recAtt[u], u, Len(log))
    BY StateFacts, LinkFacts DEF TypeOK
  <1>3. CASE rec.op = "CKPT_END"
    <2>1. EntryLink(log, rec.att[u], u, lsn - 1)
      BY <1>3 DEF LinkInv, LogLinks, RecLinks, LSNs
    <2>2. EntryLink(log, rec.att[u], u, Len(log))
      BY <1>1, <2>1, LinksStay
    <2>3. AnalyzeATT(rec, lsn)[u] \in {rec.att[u], recAtt[u]}
      BY <1>3 DEF AnalyzeATT
    <2> QED BY <1>2, <2>2, <2>3
  <1>4. CASE rec.op \in {"START", "END", "COMMIT", "ABORT", "SET", "CLR"}
    <2>1. rec.txn \in Txns
      BY <1>1, <1>4, RecordFields
    <2>2. OwnIn(log, lsn, rec.txn, Len(log))
      BY <1>4 DEF OwnIn
    <2>3. \A s : s # "absent" => EntryLink(log, Entry(s, lsn), rec.txn, Len(log))
      BY <2>2 DEF EntryLink, Entry
    <2>4. EntryLink(log, Absent, u, Len(log))
      BY DEF EntryLink, Absent, OwnIn
    <2>5. CASE u # rec.txn
      <3>1. AnalyzeATT(rec, lsn)[u] = recAtt[u]
        BY <1>2, <1>4, <2>1, <2>5 DEF AnalyzeATT, SetLastLSN, ATTs
      <3> QED BY <1>2, <3>1
    <2>6. CASE u = rec.txn
      <3>1. \/ AnalyzeATT(rec, lsn)[u] = Absent
            \/ \E s : s # "absent" /\ AnalyzeATT(rec, lsn)[u] = Entry(s, lsn)
        <4>1. CASE rec.op \in {"START", "END", "COMMIT", "ABORT"}
          BY <1>2, <2>6, <4>1 DEF AnalyzeATT, ATTs
        <4>2. CASE rec.op \in {"SET", "CLR"}
          <5>1. AnalyzeATT(rec, lsn)[u] =
                  Entry(IF recAtt[u] = Absent THEN "running" ELSE recAtt[u].status, lsn)
            BY <1>2, <2>6, <4>2 DEF AnalyzeATT, SetLastLSN, ATTs
          <5>2. recAtt[u] = Absent \/ recAtt[u].status # "absent"
            BY <1>2 DEF EntryLink
          <5> QED BY <5>1, <5>2
        <4> QED BY <1>4, <4>1, <4>2
      <3> QED BY <2>3, <2>4, <2>6, <3>1
    <2> QED BY <2>5, <2>6
  <1>5. CASE rec.op = "CKPT_BEGIN"
    BY <1>2, <1>5 DEF AnalyzeATT
  <1> QED BY <1>1, <1>3, <1>4, <1>5 DEF LogRecords

\* The analysis and the redo phase: no transaction is at work in them (recovery.go:309-395).
LEMMA ScanLinks ==
    ASSUME DurabilityInv, LinkInv, LogGrows, RecoverScan
    PROVE  LinkInv'
  <1>0. /\ LogLinks /\ CkptLinks /\ Len(log) \in Nat /\ recPos \in LSN
        /\ \A u \in Txns : TableLinks(u) /\ TxLinks(u)
    BY StateFacts DEF LinkInv, TypeOK
  <1>1. /\ UNCHANGED <<log, flushed, tx, att, ckpt, master>> /\ phase \in {"analysis", "redo"}
        /\ phase' \in {"analysis", "redo", "winners"}
    BY DEF RecoverScan, Analyze, AnalysisDone, Redo, RedoDone, logVars, tblVars
  <1>2. /\ recAtt' = recAtt \/ (recPos \in 1 .. Len(log) /\ recAtt' = AnalyzeATT(log[recPos], recPos))
        /\ phase' = "analysis" => recPos' <= Len(log) + 1
    BY <1>0 DEF RecoverScan, Analyze, AnalysisDone, Redo, RedoDone, LSN
  <1>3. ASSUME NEW u \in Txns PROVE EntryLink(log, recAtt'[u], u, Len(log))
    BY <1>2, AnalyzeLinks, LinkFacts
  <1>4. \A u \in Txns : tx[u].pc = "none"
    BY <1>1, LinkFacts
  <1>5. ASSUME NEW u \in Txns PROVE TableLinks(u)' /\ TxLinks(u)'
    <2>1. TableLinks(u)'
      BY <1>0, <1>1, <1>3 DEF TableLinks
    <2>2. TxLinks(u)'
      BY <1>0, <1>1, <1>4 DEF TxLinks
    <2> QED BY <2>1, <2>2
  <1>6. CkptLinks' /\ LogLinks'
    <2>1. CkptLinks'
      BY <1>0, <1>1, <1>2 DEF CkptLinks, LSNs
    <2> QED BY <1>0, <1>1, <2>1, GrowLinks
  <1> QED BY <1>5, <1>6 DEF LinkInv

\* The flush after the winners makes every record durable that a loser can link to, and
\* the end of Recover finds an empty table (recovery.go:415-419, 170-174).
LEMMA RecoverEndLinks ==
    ASSUME DurabilityInv, LinkInv, LogGrows, WinnersDone \/ RecoverDone
    PROVE  LinkInv'
  <1>0. /\ LogLinks /\ CkptLinks /\ Len(log) \in Nat
        /\ flushed \in Nat /\ flushed' \in Nat /\ flushed <= flushed'
        /\ master \in LSN /\ \A u \in Txns : TableLinks(u) /\ TxLinks(u)
    BY StateFacts DEF LinkInv, TypeOK, LogGrows
  <1>1. /\ UNCHANGED <<log, tx, ckpt, master>> /\ LogFlush(Len(log)) /\ phase \in {"winners", "undo"}
    BY DEF WinnersDone, RecoverDone
  <1>2. Len(log) <= flushed'
    BY <1>0, <1>1, FlushGrows
  <1>3. /\ \A u \in Txns : tx[u].pc = "none"
        /\ att' = att \/ att' = EmptyATT
        /\ recAtt' = recAtt \/ recAtt' = EmptyATT
        /\ phase' = "undo" => recAtt' = recAtt
        /\ phase' \in {"undo", "up"}
    <2>1. CASE WinnersDone
      <3>1. \A u \in Txns : tx[u].pc = "none"
        BY <2>1, LinkFacts DEF WinnersDone
      <3>2. att' = att /\ recAtt' = recAtt /\ phase' = "undo"
        BY <2>1 DEF WinnersDone, tblVars
      <3> QED BY <3>1, <3>2
    <2>2. CASE RecoverDone
      BY <2>2 DEF RecoverDone, NoUndoRunning
    <2> QED BY <2>1, <2>2
  <1>4. \A u \in Txns : EntryLink(log, EmptyATT[u], u, Len(log))
    BY DEF EntryLink, EmptyATT, Absent, OwnIn
  <1>5. ASSUME NEW u \in Txns PROVE TableLinks(u)' /\ TxLinks(u)'
    <2>1. TableLinks(u)'
      BY <1>0, <1>1, <1>3, <1>4 DEF TableLinks
    <2>2. recAtt[u].lastLSN <= flushed'
      BY <1>0, <1>2, StateFacts DEF TableLinks, EntryLink, OwnIn, LSN, NoLSN
    <2>3. TxLinks(u)'
      BY <1>0, <1>1, <1>3, <2>2 DEF TxLinks
    <2> QED BY <2>1, <2>3
  <1>6. CkptLinks' /\ LogLinks'
    <2>1. ckpt.pc = "idle"
      BY <1>0, <1>1 DEF CkptLinks
    <2>2. master = 1 \/ master <= flushed'
      BY <1>0 DEF CkptLinks, LSN
    <2>3. CkptLinks'
      BY <1>1, <1>3, <2>1, <2>2 DEF CkptLinks
    <2> QED BY <1>0, <1>1, <2>3, GrowLinks
  <1> QED BY <1>5, <1>6 DEF LinkInv

\* A crash keeps the links of the records it keeps, and forgets the others
\* (recovery.go:149: the restarted process knows the log and its header).
LEMMA CrashLinks ==
    ASSUME DurabilityInv, LinkInv, Crash
    PROVE  LinkInv'
  <1>0. /\ LogLinks /\ CkptLinks /\ Len(log) \in Nat /\ master \in LSN
        /\ flushed \in Nat /\ flushed <= Len(log)
    BY StateFacts DEF LinkInv, TypeOK
  <1>1. PICK last \in flushed .. Len(log) : log' = SubSeq(log, 1, last) /\ flushed' = last
    BY DEF Crash
  <1>2. Len(log') = last /\ last \in Nat /\ last <= Len(log) /\ flushed <= last
    BY <1>0, <1>1, StateFacts, PrefixFacts
  <1>3. \A i \in 1 .. last : log'[i] = log[i]
    BY <1>1, <1>2, StateFacts
  <1>4. /\ master' = master /\ phase' = "analysis" /\ recPos' = master /\ recAtt' = EmptyATT
        /\ ckpt' = CkptIdle /\ att' = EmptyATT /\ tx' = [t \in Txns |-> TxIdle]
    BY DEF Crash
  <1>5. LogLinks'
    <2>1. ASSUME NEW i \in 1 .. last PROVE RecLinks(log', log'[i], i - 1)
      <3>1. RecLinks(log, log[i], i - 1)
        BY <1>0, <1>2 DEF LogLinks, LSNs
      <3>2. i - 1 \in Nat /\ \A k \in 1 .. i - 1 : log'[k] = log[k]
        BY <1>2, <1>3
      <3>3. RecLinks(log', log[i], i - 1)
        BY <3>1, <3>2, LinksStay
      <3> QED BY <1>3, <3>3
    <2> QED BY <1>2, <2>1 DEF LogLinks, LSNs
  <1>6. CkptLinks'
    <2>1. master = 1 \/ master <= flushed
      BY <1>0 DEF CkptLinks
    <2>2. (master = 1 \/ master <= last) /\ master <= last + 1
      BY <1>0, <1>2, <2>1 DEF LSN
    <2>3. ckpt'.pc = "idle"
      BY <1>4 DEF CkptIdle
    <2> QED BY <1>1, <1>2, <1>4, <2>2, <2>3 DEF CkptLinks
  <1>7. ASSUME NEW u \in Txns PROVE TableLinks(u)' /\ TxLinks(u)'
    <2>1. EntryLink(log', Absent, u, Len(log'))
      BY DEF EntryLink, Absent, OwnIn
    <2>2. att'[u] = Absent /\ recAtt'[u] = Absent /\ ckpt'.att[u] = Absent /\ tx'[u] = TxIdle
      BY <1>4 DEF EmptyATT, CkptIdle
    <2>3. TableLinks(u)'
      BY <2>1, <2>2 DEF TableLinks
    <2>4. TxLinks(u)'
      BY <1>4, <2>2 DEF TxLinks, TxIdle, OwnIn
    <2> QED BY <2>3, <2>4
  <1> QED BY <1>5, <1>6, <1>7 DEF LinkInv

\* A page write (buffer.go:76) and the steps in which nothing happens.
LEMMA FlushOrIdleLinks ==
    ASSUME DurabilityInv, LinkInv, LogGrows,
           (\E p \in Pages : FlushPage(p)) \/ Idle \/ UNCHANGED vars
    PROVE  LinkInv'
  <1>1. UNCHANGED <<log, master, tx, att, recAtt, phase, ckpt, recPos>>
    BY DEF FlushPage, Idle, vars, logVars, tblVars, recVars
  <1>2. CkptLinks' /\ LogLinks'
    BY <1>1, GrowLinks DEF LinkInv
  <1>3. ASSUME NEW u \in Txns PROVE TableLinks(u)' /\ TxLinks(u)'
    <2>1. TxLinks(u)'
      BY <1>1, GrowLinks DEF LinkInv
    <2>2. TableLinks(u)'
      BY <1>1 DEF LinkInv, TableLinks
    <2> QED BY <2>1, <2>2
  <1> QED BY <1>2, <1>3 DEF LinkInv

\* Nothing links to the empty log of a new database.
LEMMA InitLinks == Init => LinkInv
  <1> SUFFICES ASSUME Init PROVE LinkInv OBVIOUS
  <1>1. /\ log = << >> /\ flushed = 0 /\ master = 1 /\ phase = "up"
        /\ att = EmptyATT /\ recAtt = EmptyATT /\ tx = [t \in Txns |-> TxIdle]
        /\ ckpt = CkptIdle
    BY DEF Init
  <1>2. LSNs = {}
    BY <1>1 DEF LSNs
  <1>3. ASSUME NEW t \in Txns PROVE TableLinks(t) /\ TxLinks(t)
    <2>1. EntryLink(log, Absent, t, Len(log))
      BY DEF EntryLink, Absent, OwnIn
    <2>2. att[t] = Absent /\ recAtt[t] = Absent /\ ckpt.att[t] = Absent /\ tx[t] = TxIdle
      BY <1>1 DEF EmptyATT, CkptIdle
    <2>3. TxLinks(t)
      BY <1>1, <2>2 DEF TxLinks, TxIdle, OwnIn
    <2> QED BY <2>1, <2>2, <2>3 DEF TableLinks
  <1>4. CkptLinks /\ LogLinks
    BY <1>1, <1>2 DEF CkptLinks, CkptIdle, LogLinks
  <1> QED BY <1>3, <1>4 DEF LinkInv

\* Every step keeps the links.
LEMMA NextLinks == ASSUME DurabilityInv, LinkInv, [Next]_vars PROVE LinkInv'
  <1>1. Crash \/ LogGrows
    BY NextGrows
  <1>2. CASE Crash
    BY <1>2, CrashLinks
  <1>3. CASE LogGrows
    <2>1. ASSUME NEW t \in Txns, TxStart(t) PROVE LinkInv'
      BY <1>3, <2>1, StartLinks
    <2>2. ASSUME NEW t \in Txns, TxUpdate(t) PROVE LinkInv'
      BY <1>3, <2>2, UpdateLinks
    <2>3. ASSUME NEW t \in Txns, TxCommit(t) PROVE LinkInv'
      BY <1>3, <2>3, CommitLinks
    <2>4. ASSUME NEW t \in Txns, TxRollback(t) PROVE LinkInv'
      BY <1>3, <2>4, RollbackLinks
    <2>5. ASSUME NEW t \in Txns, DoRollback(t) PROVE LinkInv'
      BY <1>3, <2>5, UndoLinks
    <2>6. ASSUME NEW t \in Txns, TxEnd(t) PROVE LinkInv'
      BY <1>3, <2>6, EndLinks
    <2>7. ASSUME NEW t \in Txns, EndWinner(t) \/ RecoverLoser(t) PROVE LinkInv'
      BY <1>3, <2>7, LoserLinks
    <2>8. CASE Checkpoint
      BY <1>3, <2>8, CheckpointLinks
    <2>9. CASE RecoverScan
      BY <1>3, <2>9, ScanLinks
    <2>10. CASE WinnersDone \/ RecoverDone
      BY <1>3, <2>10, RecoverEndLinks
    <2>11. CASE (\E p \in Pages : FlushPage(p)) \/ Idle \/ UNCHANGED vars
      BY <1>3, <2>11, FlushOrIdleLinks
    <2> QED BY <1>2, <2>1, <2>2, <2>3, <2>4, <2>5, <2>6, <2>7, <2>8, <2>9, <2>10, <2>11
            DEF Next
  <1> QED BY <1>1, <1>2, <1>3

\* In every run, checkpoints inside the calls of a transaction included, each prevLSN,
\* undoNextLSN and table entry leads to a record of the same transaction further back, and
\* a rollback has its next record on disk (recovery.go:74-147, 258-307, 430-476).
THEOREM LinksKept == Spec => []LinkInv
  <1>1. DurabilityInv /\ LinkInv /\ [Next]_vars => LinkInv'
    BY NextLinks
  <1> QED BY <1>1, InitLinks, Durability, PTL DEF Spec

\* The record that doRollback reads next is durable, and of its transaction.
LEMMA UndoReads ==
    ASSUME DurabilityInv, LinkInv, NEW t \in Txns, tx[t].pc = "undo", tx[t].undo # NoLSN
    PROVE  Readable(t)
  <1>1. tx[t].undo \in LSNs /\ IsTxRec(tx[t].undo) /\ log[tx[t].undo].txn = t
    BY BackLink
  <1>2. tx[t].undo <= flushed
    BY DEF LinkInv, TxLinks
  <1>3. tx[t].undo \in 1 .. flushed
    BY <1>1, <1>2, LinkFacts DEF LSNs
  <1> QED BY <1>1, <1>3 DEF Readable, IsTxRec

\* doRollback finds the record it reads on disk, and it is one of the transaction
\* itself, whatever a checkpoint saw of it: its error returns are never taken
\* (recovery.go:263-273).
THEOREM UndoIsReadable == Spec => []UndoReadsOwn
  <1>1. DurabilityInv /\ LinkInv => UndoReadsOwn
    BY UndoReads DEF UndoReadsOwn
  <1> QED BY <1>1, Durability, LinksKept, PTL
=============================================================================
