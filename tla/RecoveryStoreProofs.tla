-------------------------- MODULE RecoveryStoreProofs ------------------------
(***************************************************************************)
(* RecoveryMgr implements TxStore, when no handler overlaps a checkpoint:  *)
(* locks, log, page writes in any order, rollback, crash and recovery      *)
(* together make transactions atomic and durable.  And a recovery gets on: *)
(* each step takes it further, and there is always a step to take.         *)
(***************************************************************************)
EXTENDS RecoveryPageProofs, FiniteSetTheorems

\* The records of page p by the transaction that number t runs now.
Own(t, p) ==
    {i \in PageRecs(p) : log[i].txn = t
        /\ \A k \in i + 1 .. Len(log) : ~(log[k].op = "START" /\ log[k].txn = t)}

\* A COMMIT record that is not durable is one whose flush has not returned.
AskedOk ==
    \A k \in LSNs : log[k].op = "COMMIT" /\ flushed < k => \E t \in Txns : Asked(t) /\ tx[t].lsn = k

RecoveryInv == DurabilityInv /\ ChainInv /\ PageInv /\ DataInv /\ AskedOk

\* What an open transaction has written is the last thing on its pages, and locked.
OpenAt(t, l) ==
    /\ LastOf(l, t, Len(log)) /\ log[l].op \in {"START", "SET", "COMMIT"}
    /\ Asked(t) => l = tx[t].lsn /\ log[l].op = "COMMIT"
    /\ \A p \in Pages : \A i \in Own(t, p) :
           i \in 1 .. l /\ log[i].op = "SET" /\ SameTx(i, l) /\ lock[p] = t
OpenOk == \A t \in Txns : Open(t) => \E l : OpenAt(t, l)

StoreIs == \A p \in Pages : ValueIs(DurablySet(p), StoreOf(p))

WritesAre ==
    \A t \in Txns, p \in Pages :
        IF Open(t) /\ Own(t, p) # {}
        THEN ValueIs(Own(t, p), WrittenBy(t, p)) /\ WrittenBy(t, p) # NoLSN
        ELSE WrittenBy(t, p) = NoLSN

StoreInv == OpenOk /\ StoreIs /\ WritesAre

\* A set of records has a last one.
LEMMA MaxExists ==
    ASSUME NEW n \in Nat, NEW S \in SUBSET (1 .. n), S # {}
    PROVE  \E m \in S : \A j \in S : j <= m
  <1> DEFINE T == {d \in Nat : d < n /\ n - d \in S}
  <1>1. PICK i \in S : i \in 1 .. n
    OBVIOUS
  <1>2. n - i \in T
    <2>1. n - i \in Nat /\ n - i < n /\ n - (n - i) = i
      BY <1>1
    <2> QED BY <1>1, <2>1
  <1>3. PICK d \in T : \A y \in T : ~(<<y, d>> \in OpToRel(<, Nat))
    <2>1. T \subseteq Nat /\ T # {}
      BY <1>2
    <2> HIDE DEF T
    <2> QED BY <2>1, NatLessThanWellFounded, WFMin
  <1>4. \A y \in T : ~(y < d)
    BY <1>3 DEF OpToRel
  <1>5. d \in Nat /\ n - d \in S
    OBVIOUS
  <1>6. ASSUME NEW j \in S, ~(j <= n - d) PROVE FALSE
    <2>1. j \in 1 .. n /\ n - j \in Nat /\ n - j < n /\ n - (n - j) = j /\ n - j < d
      BY <1>5, <1>6
    <2> QED BY <1>4, <2>1
  <1> QED BY <1>5, <1>6

\* ValueOfLast is what ValueIs says.
LEMMA LastIsValue ==
    ASSUME NEW n \in Nat, NEW S \in SUBSET (1 .. n)
    PROVE  ValueIs(S, ValueOfLast(S))
  <1>1. CASE S = {}
    BY <1>1 DEF ValueIs, ValueOfLast
  <1>2. CASE S # {}
    <2>1. PICK m \in S : \A j \in S : j <= m
      BY <1>2, MaxExists
    <2>2. ValueIs(S, log[m].new)
      BY <2>1 DEF ValueIs
    <2>3. log[m].new = ValueOfLast(S)
      BY <2>2, ValueIsLast
    <2> QED BY <2>2, <2>3
  <1> QED BY <1>1, <1>2

\* A set of records has one last value.
LEMMA ValueUnique ==
    ASSUME NEW S \in SUBSET Int, NEW v, NEW w, ValueIs(S, v), ValueIs(S, w)
    PROVE  v = w
  BY ValueIsLast

-----------------------------------------------------------------------------
(* The store in one state. *)

\* Where an open transaction is in the log.
LEMMA OpenFacts == RecoveryInv => OpenOk
  <1> SUFFICES ASSUME RecoveryInv, NEW t \in Txns, Open(t) PROVE \E l : OpenAt(t, l)
    BY DEF OpenOk
  <1>1. /\ DurabilityInv /\ ChainInv /\ LocksInv /\ phase = "up"
        /\ tx[t].pc \in {"active", "logged", "linked"} \/ Asked(t)
    BY DEF RecoveryInv, PageInv, Open, Asked
  <1>2. PICK n \in Nat : n = Len(log)
    BY <1>1, StateFacts
  <1>3. WorkAt(t)
    BY <1>1 DEF ChainInv, TxAt
  <1>4. PICK l : /\ LastOf(l, t, n) /\ log[l].op \in {"START", "SET", "COMMIT"}
                 /\ Asked(t) => l = tx[t].lsn /\ log[l].op = "COMMIT"
    <2>1. CASE tx[t].pc = "active"
      BY <1>2, <1>3, <2>1 DEF WorkAt, Asked
    <2>2. CASE tx[t].pc \in {"logged", "linked"}
      BY <1>2, <1>3, <2>2 DEF WorkAt, Here, Asked
    <2>3. CASE Asked(t)
      BY <1>2, <1>3, <2>3 DEF WorkAt, Here, Asked
    <2> QED BY <1>1, <2>1, <2>2, <2>3
  <1>5. l \in 1 .. n /\ RecOf(l, t)
    BY <1>4 DEF LastOf
  <1>6. ASSUME NEW p \in Pages, NEW i \in Own(t, p)
        PROVE  i \in 1 .. l /\ log[i].op = "SET" /\ SameTx(i, l) /\ lock[p] = t
    <2>1. /\ i \in 1 .. n /\ log[i].op \in {"SET", "CLR"} /\ log[i].page = p /\ RecOf(i, t)
          /\ \A k \in i + 1 .. n : ~(log[k].op = "START" /\ log[k].txn = t)
      BY <1>2 DEF Own, PageRecs, LSNs, RecOf, IsTxRec
    <2>2. i <= l
      BY <1>4, <2>1, LastSame
    <2>3. SameTx(i, l)
      <3>1. \A k \in i + 1 .. l : k \in i + 1 .. n
        BY <1>5, <2>1
      <3> QED BY <1>5, <2>1, <3>1 DEF SameTx, RecOf
    <2>4. log[i].op = "SET"
      <3>1. CASE i = l
        BY <1>4, <2>1, <3>1
      <3>2. CASE i < l
        <4>1. log[l].op # "START"
          <5>1. l \in i + 1 .. n
            BY <1>5, <2>1, <3>2
          <5> QED BY <1>5, <2>1, <5>1 DEF RecOf
        <4>2. MayFollow(i, l)
          <5>1. i \in 1 .. l - 1 /\ l \in LSNs
            BY <1>2, <1>5, <2>1, <3>2 DEF LSNs
          <5> QED BY <1>1, <2>3, <5>1 DEF ChainInv, LogOk, RecordOk
        <4> QED BY <1>4, <2>1, <4>1, <4>2 DEF MayFollow
      <3> QED BY <1>5, <2>1, <2>2, <3>1, <3>2
    <2>5. LockedBy(t, l)
      BY <1>1, <1>2, <1>4 DEF LocksInv, LocksOk
    <2>6. i \in 1 .. l
      BY <1>5, <2>1, <2>2
    <2> QED BY <2>1, <2>3, <2>4, <2>5, <2>6 DEF LockedBy
  <1> QED BY <1>2, <1>4, <1>6 DEF OpenAt

\* Between two durable lengths of the log lie only the COMMIT records of those who
\* have asked: the committed updates are those before, and theirs.
LEMMA CommittedSame ==
    ASSUME RecoveryInv, OpenOk, NEW p \in Pages, NEW f \in flushed .. Len(log),
           \A t \in Txns : Asked(t) /\ tx[t].lsn <= f => Own(t, p) = {}
    PROVE  CommittedBy(p, f) = DurablySet(p)
  <1>1. /\ Len(log) \in Nat /\ flushed \in Nat /\ flushed <= Len(log) /\ f \in Nat
        /\ f <= Len(log) /\ flushed <= f
    BY StateFacts DEF RecoveryInv
  <1>2. ASSUME NEW i \in CommittedBy(p, f) PROVE i \in DurablySet(p)
    <2>1. i \in 1 .. f /\ i \in LSNs /\ log[i].op = "SET" /\ log[i].page = p
      BY <1>1 DEF CommittedBy, LSNs
    <2>2. PICK k \in 1 .. f : CommitOf(i, k)
      BY <1>2 DEF CommittedBy
    <2>3. i < k /\ log[k].op = "COMMIT" /\ SameTx(i, k) /\ k \in LSNs
      BY <1>1, <2>2 DEF CommitOf, LSNs
    <2>4. CASE k <= flushed
      <3>1. i \in 1 .. flushed /\ k \in 1 .. flushed
        BY <1>1, <2>1, <2>3, <2>4
      <3> QED BY <2>1, <2>2, <3>1 DEF DurablySet
    <2>5. CASE flushed < k
      <3>1. PICK t \in Txns : Asked(t) /\ tx[t].lsn = k
        BY <2>3, <2>5 DEF RecoveryInv, AskedOk
      <3>2. PICK l : OpenAt(t, l)
        BY <3>1 DEF OpenOk, Open, Asked
      <3>3. LastOf(k, t, Len(log))
        BY <3>1, <3>2 DEF OpenAt
      <3>4. log[i].txn = t
        BY <2>3, <3>3 DEF SameTx, LastOf, RecOf
      <3>5. ASSUME NEW m \in i + 1 .. Len(log), log[m].op = "START", log[m].txn = t PROVE FALSE
        <4>1. m \in i + 1 .. k \/ m \in k + 1 .. Len(log)
          BY <2>1, <2>2
        <4> QED BY <2>3, <3>3, <3>4, <3>5, <4>1 DEF SameTx, LastOf, RecOf, IsTxRec
      <3>6. i \in Own(t, p)
        BY <2>1, <3>4, <3>5 DEF Own, PageRecs
      <3> QED BY <3>1, <3>6
    <2> QED BY <1>1, <2>3, <2>4, <2>5 DEF LSNs
  <1>3. ASSUME NEW i \in DurablySet(p) PROVE i \in CommittedBy(p, f)
    BY <1>1 DEF CommittedBy, DurablySet
  <1> QED BY <1>2, <1>3

\* With the COMMIT record of a transaction its updates are the last committed ones.
LEMMA CommittedOwn ==
    ASSUME RecoveryInv, OpenOk, NEW p \in Pages, NEW f \in flushed .. Len(log),
           NEW t \in Txns, Asked(t), tx[t].lsn <= f, Own(t, p) # {}, NEW v, ValueIs(Own(t, p), v)
    PROVE  ValueIs(CommittedBy(p, f), v)
  <1>1. PICK n \in Nat : n = Len(log)
    BY StateFacts DEF RecoveryInv
  <1>2. flushed \in Nat /\ f \in Nat /\ f <= n
    BY <1>1, StateFacts DEF RecoveryInv
  <1>3. PICK m \in Own(t, p) : v = log[m].new /\ \A j \in Own(t, p) : j <= m
    BY DEF ValueIs
  <1>4. PICK l : OpenAt(t, l)
    BY DEF OpenOk, Open, Asked
  <1>5. /\ l <= f /\ log[l].op = "COMMIT" /\ LastOf(l, t, n) /\ l \in 1 .. n /\ l \in LSNs
        /\ m \in 1 .. l /\ log[m].op = "SET" /\ SameTx(m, l) /\ m # l
    BY <1>1, <1>4 DEF OpenAt, LastOf, LSNs
  <1>6. m \in PageRecs(p) /\ m \in LSNs /\ log[m].page = p /\ log[m].txn = t
    BY DEF Own, PageRecs
  <1>7. m \in CommittedBy(p, f)
    <2>1. m \in 1 .. f /\ l \in 1 .. f /\ m < l
      BY <1>1, <1>2, <1>5
    <2> QED BY <1>5, <1>6, <2>1 DEF CommittedBy, CommitOf
  <1>8. ASSUME NEW i \in CommittedBy(p, f) PROVE i <= m
    <2>1. i \in 1 .. n /\ i \in LSNs /\ log[i].op = "SET" /\ log[i].page = p
      BY <1>1, <1>2 DEF CommittedBy, LSNs
    <2> SUFFICES ASSUME m < i PROVE FALSE
      BY <1>5, <2>1
    <2>2. SameTx(m, i) \/ EndedBy(m, i - 1)
      <3>1. SerialOk(i) /\ m \in 1 .. i - 1
        BY <1>5, <2>1 DEF RecoveryInv, DataInv, DataOk
      <3> QED BY <1>5, <1>6, <2>1, <3>1 DEF SerialOk
    <2>3. CASE SameTx(m, i)
      <3>1. log[i].txn = t /\ RecOf(i, t)
        BY <1>6, <2>3 DEF SameTx, RecOf
      <3>2. i <= l
        BY <1>5, <2>1, <3>1, LastSame
      <3>3. ASSUME NEW k \in i + 1 .. n, log[k].op = "START", log[k].txn = t PROVE FALSE
        <4>1. k \in m + 1 .. n
          BY <1>5, <2>1, <3>3
        <4> QED BY <1>1, <3>3, <4>1 DEF Own
      <3>4. i \in Own(t, p)
        BY <1>1, <2>1, <3>1, <3>3 DEF Own, PageRecs
      <3>5. i <= m
        BY <1>3, <3>4
      <3> QED BY <1>5, <2>1, <3>5
    <2>4. CASE EndedBy(m, i - 1)
      <3>1. PICK e \in m .. i - 1 : log[e].op = "END" /\ SameTx(m, e)
        BY <2>4 DEF EndedBy
      <3>2. e \in LSNs /\ e \in 1 .. n /\ m <= e /\ m <= l
        BY <1>1, <1>5, <2>1, <3>1 DEF LSNs
      <3>3. l <= e
        BY <1>1, <1>5, <1>6, <3>1, <3>2, EndLast DEF RecoveryInv, ChainInv
      <3>4. RecOf(e, t)
        BY <1>6, <3>1 DEF SameTx, RecOf
      <3>5. e <= l
        BY <1>5, <3>2, <3>4, LastSame
      <3>6. e = l
        BY <1>5, <3>2, <3>3, <3>5
      <3> QED BY <1>5, <3>1, <3>6
    <2> QED BY <2>2, <2>3, <2>4
  <1> QED BY <1>3, <1>7, <1>8 DEF ValueIs

\* What the store shows is what the durable part of the log says, for pages without
\* a lock as well.
LEMMA StoreFacts == RecoveryInv => StoreInv
  <1> SUFFICES ASSUME RecoveryInv PROVE StoreInv
    OBVIOUS
  <1>1. OpenOk
    BY OpenFacts
  <1>2. PICK n \in Nat : n = Len(log)
    BY StateFacts DEF RecoveryInv
  <1>3. flushed \in Nat /\ flushed <= n
    BY <1>2, StateFacts DEF RecoveryInv
  <1>4. ASSUME NEW p \in Pages PROVE ValueIs(DurablySet(p), StoreOf(p))
    <2>1. CASE phase = "up" /\ lock[p] = NoTx
      <3>1. ValueIs(CommittedSets(p), buf[p].val)
        BY <2>1, FreeSettled, SettledCommitted DEF RecoveryInv, PageInv
      <3>2. CommittedSets(p) = CommittedBy(p, n)
        BY <1>2 DEF CommittedSets, CommittedBy, LSNs
      <3>3. ASSUME NEW t \in Txns, Asked(t) PROVE Own(t, p) = {}
        <4>1. PICK l : OpenAt(t, l)
          BY <1>1, <3>3 DEF OpenOk, Open, Asked
        <4> QED BY <2>1, <4>1 DEF OpenAt, Txns, NoTx
      <3>4. CommittedBy(p, n) = DurablySet(p)
        BY <1>1, <1>2, <1>3, <3>3, CommittedSame
      <3> QED BY <2>1, <3>1, <3>2, <3>4 DEF StoreOf
    <2>2. CASE ~(phase = "up" /\ lock[p] = NoTx)
      <3>1. DurablySet(p) \in SUBSET (1 .. flushed)
        BY DEF DurablySet
      <3>2. ValueIs(DurablySet(p), ValueOfLast(DurablySet(p)))
        BY <1>3, <3>1, LastIsValue
      <3> QED BY <2>2, <3>2 DEF StoreOf
    <2> QED BY <2>1, <2>2
  <1>5. ASSUME NEW t \in Txns, NEW p \in Pages
        PROVE  IF Open(t) /\ Own(t, p) # {}
               THEN ValueIs(Own(t, p), WrittenBy(t, p)) /\ WrittenBy(t, p) # NoLSN
               ELSE WrittenBy(t, p) = NoLSN
    <2>1. Own(t, p) \in SUBSET (1 .. n)
      BY <1>2 DEF Own, PageRecs, LSNs
    <2>2. WrittenBy(t, p) =
              IF Open(t) /\ Own(t, p) # {} THEN ValueOfLast(Own(t, p)) ELSE NoLSN
      BY DEF WrittenBy, Own
    <2>3. PICK w : w = ValueOfLast(Own(t, p))
      OBVIOUS
    <2>4. ValueIs(Own(t, p), w)
      BY <2>1, <2>3, LastIsValue
    <2>5. ASSUME Own(t, p) # {} PROVE w # NoLSN
      <3>1. PICK m \in Own(t, p) : w = log[m].new
        BY <2>4, <2>5 DEF ValueIs
      <3>2. log[m].op \in {"SET", "CLR"} /\ log[m] \in LogRecords
        BY StateFacts DEF Own, PageRecs, LSNs, RecoveryInv
      <3>3. log[m].new \in Nat
        BY <3>2, RecordFields
      <3> QED BY <3>1, <3>3 DEF NoLSN
    <2> QED BY <2>2, <2>3, <2>4, <2>5
  <1> QED BY <1>1, <1>4, <1>5 DEF StoreInv, StoreIs, WritesAre

-----------------------------------------------------------------------------
(* Steps: who is open and who has asked. *)

\* Transaction t goes on as it was, unless a flush makes its COMMIT record durable.
Goes(t) ==
    /\ Asked(t)' <=> Asked(t) /\ flushed' < tx[t].lsn
    /\ Asked(t)' => tx'[t].lsn = tx[t].lsn
    /\ Open(t)' <=> Open(t) /\ ~(Asked(t) /\ tx[t].lsn <= flushed')

FlushKind == log' = log /\ flushed' \in flushed .. Len(log) /\ \A t \in Txns : Goes(t)

AppendKind ==
    \E rec : /\ LogAppend(rec) /\ rec.op # "COMMIT"
             /\ \A t \in Txns : Goes(t)
             /\ rec.op \in {"START", "SET", "CLR"} => rec.txn \in Txns /\ ~Open(rec.txn)

\* A step of one transaction, seen from the others.
LEMMA OthersGo ==
    ASSUME DurabilityInv, LogGrows, phase' = phase, NEW t \in Txns,
           \A u \in Txns : u # t => tx'[u] = tx[u]
    PROVE  \A u \in Txns : u # t => Goes(u)
  <1> SUFFICES ASSUME NEW u \in Txns, u # t PROVE Goes(u)
    OBVIOUS
  <1>1. flushed \in Nat /\ flushed' \in Nat /\ flushed <= flushed' /\ tx[u].lsn \in Int
    BY StateFacts DEF LogGrows, LSN, NoLSN
  <1> QED BY <1>1 DEF Goes, Asked, Open

\* Where a transaction is while it is open, or on its way to a durable commit.
OpenPCs == {"active", "logged", "linked", "commit"}

\* A transaction that stays on one side: it is at work on its updates, or does
\* something that nobody asks about.
LEMMA StaysOpen ==
    ASSUME NEW t, phase' = phase,
           \/ tx[t].pc \notin OpenPCs /\ tx'[t].pc \notin OpenPCs
           \/ /\ tx[t].pc \in {"active", "logged", "linked"}
              /\ tx'[t].pc \in {"active", "logged", "linked"}
    PROVE  Goes(t)
  BY DEF Goes, Asked, Open, OpenPCs

\* The steps of a transaction that append no record (recovery.go:47-140, 263-310).
LEMMA FlushHandlers ==
    ASSUME DurabilityInv, ChainInv, LogGrows, NEW t \in Txns,
           \/ UpdateLink(t) \/ UpdatePage(t) \/ CommitFlush(t) \/ CommitSet(t)
           \/ AbortFlush(t) \/ RollbackSet(t) \/ UndoStop(t) \/ UndoSkip(t) \/ ClrFlush(t)
           \/ UndoPage(t) \/ Finish(t) \/ UndoAbortingLoser(t) \/ LoserUndone(t)
    PROVE  FlushKind
  <1>0. /\ tx \in [Txns -> TxRows] /\ flushed \in Nat /\ flushed' \in Nat /\ flushed <= flushed'
        /\ tx[t].lsn \in Int /\ tx[t].lsn <= Len(log) /\ Len(log) \in Nat /\ TypeOK
        /\ flushed <= Len(log)
    <2>1. TypeOK /\ flushed \in Nat /\ Len(log) \in Nat /\ flushed <= Len(log)
      BY StateFacts
    <2>2. tx[t].lsn \in Int /\ tx[t].lsn <= Len(log)
      BY StateFacts DEF LSN, NoLSN
    <2>3. flushed' \in Nat /\ flushed <= flushed'
      BY <2>1 DEF LogGrows
    <2> QED BY <2>1, <2>2, <2>3 DEF TypeOK
  <1> DEFINE Alone == log' = log /\ phase' = phase /\ \A u \in Txns : u # t => tx'[u] = tx[u]
  <1>1. ASSUME Alone, Goes(t) PROVE FlushKind
    <2>1. flushed' \in flushed .. Len(log)
      BY <1>0, <1>1 DEF LogGrows
    <2> QED BY <1>1, <2>1, OthersGo DEF FlushKind
  <1>2. CASE CommitFlush(t)
    <2>1. Alone
      BY <1>0, <1>2 DEF CommitFlush, Goto, recVars
    <2>2. tx[t].pc = "commit" /\ tx'[t].pc = "commitFlushed" /\ LogFlush(tx[t].lsn)
      BY <1>0, <1>2 DEF CommitFlush, Goto
    <2>3. tx[t].lsn <= flushed'
      BY <1>0, <2>2, FlushFacts
    <2>4. Goes(t)
      BY <1>0, <2>2, <2>3 DEF Goes, Asked, Open
    <2> HIDE DEF Alone
    <2> QED BY <1>1, <2>1, <2>4
  <1>a. ASSUME Alone, tx[t].pc \notin OpenPCs, tx'[t].pc \notin OpenPCs PROVE FlushKind
    BY <1>1, <1>a, StaysOpen
  <1> HIDE DEF Alone
  <1>3. CASE UpdateLink(t)
    <2>1. Alone
      BY <1>0, <1>3 DEF Alone, UpdateLink, Goto, logVars, recVars
    <2>2. /\ tx[t].pc \in {"active", "logged", "linked"}
          /\ tx'[t].pc \in {"active", "logged", "linked"}
      BY <1>0, <1>3 DEF UpdateLink, Goto
    <2> QED BY <1>1, <2>1, <2>2, StaysOpen DEF Alone
  <1>4. CASE UpdatePage(t)
    <2>1. Alone
      BY <1>0, <1>4 DEF Alone, UpdatePage, GotoWith, logVars, recVars
    <2>2. /\ tx[t].pc \in {"active", "logged", "linked"}
          /\ tx'[t].pc \in {"active", "logged", "linked"}
      BY <1>0, <1>4 DEF UpdatePage, GotoWith
    <2> QED BY <1>1, <2>1, <2>2, StaysOpen DEF Alone
  <1>5. CASE CommitSet(t)
    <2>1. Alone
      BY <1>0, <1>5 DEF Alone, CommitSet, Goto, logVars, recVars
    <2>2. tx[t].pc \notin OpenPCs /\ tx'[t].pc \notin OpenPCs
      BY <1>0, <1>5 DEF CommitSet, Goto, OpenPCs
    <2> QED BY <1>a, <2>1, <2>2
  <1>6. CASE AbortFlush(t)
    <2>1. Alone
      BY <1>0, <1>6 DEF Alone, AbortFlush, Goto, LogFlush, recVars
    <2>2. tx[t].pc \notin OpenPCs /\ tx'[t].pc \notin OpenPCs
      BY <1>0, <1>6 DEF AbortFlush, Goto, OpenPCs
    <2> QED BY <1>a, <2>1, <2>2
  <1>7. CASE ClrFlush(t)
    <2>1. Alone
      BY <1>0, <1>7 DEF Alone, ClrFlush, Goto, LogFlush, recVars
    <2>2. tx[t].pc \notin OpenPCs /\ tx'[t].pc \notin OpenPCs
      BY <1>0, <1>7 DEF ClrFlush, Goto, OpenPCs
    <2> QED BY <1>a, <2>1, <2>2
  <1>8. CASE UndoStop(t)
    <2>1. Alone
      BY <1>0, <1>8 DEF Alone, UndoStop, Goto, logVars, recVars
    <2>2. tx[t].pc \notin OpenPCs /\ tx'[t].pc \notin OpenPCs
      BY <1>0, <1>8 DEF UndoStop, Goto, OpenPCs
    <2> QED BY <1>a, <2>1, <2>2
  <1>9. CASE RollbackSet(t)
    <2>1. Alone
      BY <1>0, <1>9 DEF Alone, RollbackSet, Goto, logVars
    <2>2. tx[t].pc \notin OpenPCs /\ tx'[t].pc \notin OpenPCs
      BY <1>0, <1>9 DEF RollbackSet, Goto, OpenPCs
    <2> QED BY <1>a, <2>1, <2>2
  <1>10. CASE UndoSkip(t)
    <2>1. Alone
      BY <1>0, <1>10 DEF Alone, UndoSkip, logVars, recVars
    <2>2. tx[t].pc \notin OpenPCs /\ tx'[t].pc \notin OpenPCs
      BY <1>0, <1>10 DEF UndoSkip, OpenPCs
    <2> QED BY <1>a, <2>1, <2>2
  <1>11. CASE UndoPage(t)
    <2>1. Alone
      BY <1>0, <1>11 DEF Alone, UndoPage, logVars, recVars
    <2>2. tx[t].pc \notin OpenPCs /\ tx'[t].pc \notin OpenPCs
      BY <1>0, <1>11 DEF UndoPage, OpenPCs
    <2> QED BY <1>a, <2>1, <2>2
  <1>12. CASE Finish(t)
    <2>1. Alone
      BY <1>0, <1>12 DEF Alone, Finish, Goto, logVars, recVars
    <2>2. tx[t].pc \notin OpenPCs /\ tx'[t].pc \notin OpenPCs
      BY <1>0, <1>12 DEF Finish, Goto, OpenPCs
    <2> QED BY <1>a, <2>1, <2>2
  <1>13. CASE UndoAbortingLoser(t)
    <2>1. Alone
      BY <1>0, <1>13 DEF Alone, UndoAbortingLoser, GotoWith, NoUndoRunning, logVars, recVars
    <2>2. tx[t].pc \notin OpenPCs /\ tx'[t].pc \notin OpenPCs
      BY <1>0, <1>13 DEF UndoAbortingLoser, GotoWith, NoUndoRunning, OpenPCs
    <2> QED BY <1>a, <2>1, <2>2
  <1>14. CASE LoserUndone(t)
    <2>1. Alone
      BY <1>0, <1>14 DEF Alone, LoserUndone, TxIdle, NoUndoRunning, logVars
    <2>2. tx[t].pc \notin OpenPCs /\ tx'[t].pc \notin OpenPCs
      BY <1>0, <1>14 DEF LoserUndone, TxIdle, NoUndoRunning, OpenPCs
    <2> QED BY <1>a, <2>1, <2>2
  <1> QED BY <1>2, <1>3, <1>4, <1>5, <1>6, <1>7, <1>8, <1>9, <1>10, <1>11, <1>12, <1>13, <1>14

\* The steps of a transaction that append a record nobody reads as data, and the CLRs
\* of one that is rolled back.
LEMMA AppendHandlers ==
    ASSUME DurabilityInv, ChainInv, LogGrows, NEW t \in Txns,
           StartLog(t) \/ EndLog(t) \/ UndoSet(t) \/ EndWinner(t) \/ UndoRunningLoser(t)
    PROVE  AppendKind
  <1>0. tx \in [Txns -> TxRows]
    BY StateFacts DEF TypeOK
  <1>1. ASSUME NEW rec, LogAppend(rec), rec.op # "COMMIT", rec.txn = t, phase' = phase,
               \A u \in Txns : u # t => tx'[u] = tx[u],
               tx[t].pc \notin OpenPCs, tx'[t].pc \notin OpenPCs
        PROVE  AppendKind
    <2>1. Goes(t)
      BY <1>1, StaysOpen
    <2>2. ~Open(t)
      BY <1>1 DEF Open, Asked, OpenPCs
    <2> QED BY <1>1, <2>1, <2>2, OthersGo DEF AppendKind
  <1>2. CASE StartLog(t)
    <2>1. LogAppend(StartRec(t)) /\ phase' = phase /\ tx[t].pc \notin OpenPCs
      BY <1>2 DEF StartLog, recVars, OpenPCs
    <2>2. tx'[t].pc \notin OpenPCs /\ \A u \in Txns : u # t => tx'[u] = tx[u]
      BY <1>0, <1>2 DEF StartLog, GotoWith, OpenPCs
    <2>3. StartRec(t).op # "COMMIT" /\ StartRec(t).txn = t
      BY DEF StartRec
    <2> QED BY <1>1, <2>1, <2>2, <2>3
  <1>3. CASE EndLog(t)
    <2>1. LogAppend(EndRec(t, tx[t].lsn)) /\ phase' = phase /\ tx[t].pc \notin OpenPCs
      BY <1>3 DEF EndLog, recVars, OpenPCs
    <2>2. tx'[t].pc \notin OpenPCs /\ \A u \in Txns : u # t => tx'[u] = tx[u]
      BY <1>0, <1>3 DEF EndLog, Goto, OpenPCs
    <2>3. EndRec(t, tx[t].lsn).op # "COMMIT" /\ EndRec(t, tx[t].lsn).txn = t
      BY DEF EndRec
    <2> QED BY <1>1, <2>1, <2>2, <2>3
  <1>4. CASE UndoSet(t)
    <2>1. PICK q, v, w : LogAppend(CLRRec(t, tx[t].lsn, q, v, w))
      BY <1>4 DEF UndoSet
    <2>2. /\ tx'[t].pc \notin OpenPCs /\ \A u \in Txns : u # t => tx'[u] = tx[u]
          /\ phase' = phase /\ tx[t].pc \notin OpenPCs
      BY <1>0, <1>4 DEF UndoSet, recVars, OpenPCs
    <2>3. CLRRec(t, tx[t].lsn, q, v, w).op # "COMMIT" /\ CLRRec(t, tx[t].lsn, q, v, w).txn = t
      BY DEF CLRRec
    <2> QED BY <1>1, <2>1, <2>2, <2>3
  <1>5. CASE EndWinner(t)
    <2>1. LogAppend(EndRec(t, recAtt[t].lastLSN)) /\ phase' = phase /\ tx' = tx
      BY <1>5 DEF EndWinner
    <2>2. tx[t].pc \notin OpenPCs
      BY <1>5, HandlerAt DEF EndWinner, OpenPCs, UndoPCs, RollbackPCs
    <2>3. EndRec(t, recAtt[t].lastLSN).op # "COMMIT" /\ EndRec(t, recAtt[t].lastLSN).txn = t
      BY DEF EndRec
    <2> QED BY <1>1, <2>1, <2>2, <2>3
  <1>6. CASE UndoRunningLoser(t)
    <2>1. LogAppend(AbortRec(t, recAtt[t].lastLSN)) /\ phase' = phase
      BY <1>6 DEF UndoRunningLoser, recVars
    <2>2. /\ tx'[t].pc \notin OpenPCs /\ \A u \in Txns : u # t => tx'[u] = tx[u]
          /\ tx[t].pc \notin OpenPCs
      BY <1>0, <1>6 DEF UndoRunningLoser, NoUndoRunning, GotoWith, OpenPCs
    <2>3. AbortRec(t, recAtt[t].lastLSN).op # "COMMIT" /\ AbortRec(t, recAtt[t].lastLSN).txn = t
      BY DEF AbortRec
    <2> QED BY <1>1, <2>1, <2>2, <2>3
  <1> QED BY <1>2, <1>3, <1>4, <1>5, <1>6

\* The steps of no transaction, but the crash.
LEMMA SystemSteps ==
    ASSUME DurabilityInv, ChainInv, LogGrows,
           \/ (\E p \in Pages : FlushPage(p)) \/ Checkpoint \/ RecoverScan
           \/ WinnersDone \/ RecoverDone \/ Idle \/ UNCHANGED vars
    PROVE  FlushKind \/ AppendKind
  <1>0. /\ flushed \in Nat /\ flushed' \in Nat /\ flushed <= flushed' /\ flushed <= Len(log)
        /\ Len(log) \in Nat /\ \A t \in Txns : tx[t].lsn \in Int
    BY StateFacts DEF LogGrows, LSN, NoLSN
  <1>1. ASSUME phase' = phase, tx' = tx PROVE \A t \in Txns : Goes(t)
    BY <1>0, <1>1 DEF Goes, Asked, Open
  <1>2. log' = log => flushed' \in flushed .. Len(log)
    BY <1>0 DEF LogGrows
  <1>3. CASE CkptBegin
    <2>1. LogAppend(CkptBeginRec) /\ phase' = phase /\ tx' = tx
      BY <1>3 DEF CkptBegin, recVars
    <2> QED BY <1>1, <2>1 DEF AppendKind, CkptBeginRec
  <1>4. CASE CkptEnd
    <2>1. LogAppend(CkptEndRec(ckpt.att, ckpt.dpt)) /\ phase' = phase /\ tx' = tx
      BY <1>4 DEF CkptEnd, recVars
    <2>2. CkptEndRec(ckpt.att, ckpt.dpt).op = "CKPT_END"
      BY DEF CkptEndRec
    <2> QED BY <1>1, <2>1, <2>2 DEF AppendKind
  <1>5. CASE CkptATT \/ CkptDPT \/ CkptFlush \/ CkptMaster
    <2>1. log' = log /\ phase' = phase /\ tx' = tx
      BY <1>5 DEF CkptATT, CkptDPT, CkptFlush, CkptMaster, logVars, recVars
    <2> QED BY <1>1, <1>2, <2>1 DEF FlushKind
  <1>6. CASE (\E p \in Pages : FlushPage(p)) \/ Idle \/ UNCHANGED vars
    <2>1. log' = log /\ phase' = phase /\ tx' = tx
      BY <1>6 DEF FlushPage, Idle, vars, logVars, recVars
    <2> QED BY <1>1, <1>2, <2>1 DEF FlushKind
  <1>7. CASE RecoverScan \/ WinnersDone
    <2>1. log' = log /\ phase # "up" /\ phase' # "up"
      BY <1>7 DEF RecoverScan, Analyze, AnalysisDone, Redo, RedoDone, WinnersDone, logVars
    <2>2. \A t \in Txns : Goes(t)
      BY <2>1 DEF Goes, Asked, Open
    <2> QED BY <1>2, <2>1, <2>2 DEF FlushKind
  <1>8. CASE RecoverDone
    <2>1. log' = log /\ phase # "up" /\ tx' = tx /\ \A t \in Txns : tx[t].pc = "none"
      BY <1>8 DEF RecoverDone, NoUndoRunning
    <2>2. \A t \in Txns : Goes(t)
      BY <2>1 DEF Goes, Asked, Open
    <2> QED BY <1>2, <2>1, <2>2 DEF FlushKind
  <1> QED BY <1>3, <1>4, <1>5, <1>6, <1>7, <1>8 DEF Checkpoint

\* What a step can be for the store.
LEMMA StoreSteps ==
    ASSUME DurabilityInv, ChainInv, [Next]_vars
    PROVE  \/ FlushKind \/ AppendKind \/ Crash
           \/ \E t \in Txns : \/ StartSet(t) \/ CommitLog(t) \/ AbortLog(t)
                              \/ \E p \in Pages : UpdateLog(t, p)
  <1>1. Crash \/ LogGrows
    BY NextGrows
  <1> QED BY <1>1, FlushHandlers, AppendHandlers, SystemSteps
          DEF Next, TxStart, TxUpdate, TxCommit, TxRollback, DoRollback, TxEnd, RecoverLoser

-----------------------------------------------------------------------------
(* Steps: what is committed, and what an open transaction has written. *)

\* What is committed by a record of the common prefix is so in both logs.
LEMMA CommittedPrefix ==
    ASSUME NEW n, CommonPrefix(n), Len(log) \in Nat, Len(log') \in Nat, NEW p
    PROVE  CommittedBy(p, n)' = CommittedBy(p, n)
  <1>1. n \in Nat /\ \A i \in 1 .. n : log'[i] = log[i]
    BY DEF CommonPrefix
  <1>2. \A i, k \in 1 .. n : SameTx(i, k)' <=> SameTx(i, k)
    BY SameInPrefix
  <1>3. \A i, k \in 1 .. n : CommitOf(i, k)' <=> CommitOf(i, k)
    BY <1>1, <1>2 DEF CommitOf
  <1> QED BY <1>1, <1>3 DEF CommittedBy

\* The store after a step that leaves the first f records durable: the transactions
\* whose COMMIT record is one of them give it their values, the rest stays.
LEMMA StoreAfter ==
    ASSUME RecoveryInv, StoreInv, StoreIs', NEW f \in flushed .. Len(log), flushed' = f,
           CommonPrefix(f), Len(log') \in Nat, NEW p \in Pages
    PROVE  /\ \A t \in Txns : Asked(t) /\ tx[t].lsn <= f /\ Own(t, p) # {}
                                 => StoreOf(p)' = WrittenBy(t, p)
           /\ (\A t \in Txns : Asked(t) /\ tx[t].lsn <= f => Own(t, p) = {})
                  => StoreOf(p)' = StoreOf(p)
  <1>0. /\ Len(log) \in Nat /\ flushed \in Nat /\ f \in Nat
        /\ OpenOk /\ StoreIs /\ WritesAre
    BY StateFacts DEF RecoveryInv, StoreInv
  <1>1. DurablySet(p)' = CommittedBy(p, f)
    <2>1. CommittedBy(p, f)' = CommittedBy(p, f)
      BY <1>0, CommittedPrefix
    <2>2. DurablySet(p)' = CommittedBy(p, f)'
      BY DEF DurablySet, CommittedBy
    <2> QED BY <2>1, <2>2
  <1>2. CommittedBy(p, f) \in SUBSET Int /\ CommittedBy(p, f) \subseteq 1 .. f
        /\ DurablySet(p) \in SUBSET Int
    BY <1>0 DEF CommittedBy, DurablySet
  <1>3. PICK w : w = StoreOf(p)'
    OBVIOUS
  <1>4. ValueIs(CommittedBy(p, f), w)
    <2>1. ValueIs(DurablySet(p), StoreOf(p))'
      BY DEF StoreIs
    <2>2. \A i \in 1 .. f : log'[i] = log[i]
      BY DEF CommonPrefix
    <2> QED BY <1>1, <1>2, <1>3, <2>1, <2>2 DEF ValueIs
  <1>5. ASSUME NEW t \in Txns, Asked(t), tx[t].lsn <= f, Own(t, p) # {}
        PROVE  w = WrittenBy(t, p)
    <2>1. PICK v : v = WrittenBy(t, p)
      OBVIOUS
    <2>2. ValueIs(Own(t, p), v)
      <3>1. Open(t)
        BY <1>5 DEF Open, Asked
      <3> QED BY <1>0, <1>5, <2>1, <3>1 DEF WritesAre
    <2>3. ValueIs(CommittedBy(p, f), v)
      BY <1>0, <1>5, <2>2, CommittedOwn
    <2> QED BY <1>2, <1>4, <2>1, <2>3, ValueUnique
  <1>6. ASSUME \A t \in Txns : Asked(t) /\ tx[t].lsn <= f => Own(t, p) = {}
        PROVE  w = StoreOf(p)
    <2>1. PICK v : v = StoreOf(p)
      OBVIOUS
    <2>2. CommittedBy(p, f) = DurablySet(p)
      BY <1>0, <1>6, CommittedSame
    <2>3. ValueIs(DurablySet(p), v)
      BY <1>0, <2>1 DEF StoreIs
    <2> QED BY <1>2, <1>4, <2>1, <2>2, <2>3, ValueUnique
  <1> QED BY <1>3, <1>5, <1>6

\* The records of transaction t for page p are the same after the step.
OwnKept(t, p) == Own(t, p)' = Own(t, p) /\ \A i \in Own(t, p) : log'[i] = log[i]

\* They are, when the step appends nothing ...
LEMMA KeptByLog ==
    ASSUME log' = log, NEW t, NEW p
    PROVE  OwnKept(t, p)
  BY DEF OwnKept, Own, PageRecs, LSNs

\* ... and what a step appends adds to them a change of the page by the transaction.
LEMMA OwnAppend ==
    ASSUME DurabilityInv, NEW t, NEW p, NEW rec, LogAppend(rec),
           ~(rec.op = "START" /\ rec.txn = t)
    PROVE  /\ \A i \in Own(t, p) : log'[i] = log[i] /\ i # Len(log')
           /\ IF rec.op \in {"SET", "CLR"} /\ rec.txn = t /\ rec.page = p
              THEN Own(t, p)' = Own(t, p) \cup {Len(log')}
              ELSE Own(t, p)' = Own(t, p)
  <1>1. PICK n \in Nat : n = Len(log)
    BY StateFacts
  <1>2. /\ CommonPrefix(n) /\ Len(log') = n + 1 /\ log'[n + 1] = rec
        /\ \A i \in 1 .. n : log'[i] = log[i]
    BY <1>1, AppendPrefix DEF CommonPrefix
  <1>3. Own(t, p) \subseteq 1 .. n
    BY <1>1 DEF Own, PageRecs, LSNs
  <1> DEFINE new == {i \in {n + 1} : rec.op \in {"SET", "CLR"} /\ rec.txn = t /\ rec.page = p}
  <1>4. ASSUME NEW i \in Own(t, p)' PROVE i \in Own(t, p) \cup new
    <2>1. /\ i \in 1 .. n + 1 /\ log'[i].op \in {"SET", "CLR"} /\ log'[i].page = p
          /\ log'[i].txn = t
          /\ \A k \in i + 1 .. n + 1 : ~(log'[k].op = "START" /\ log'[k].txn = t)
      BY <1>2 DEF Own, PageRecs, LSNs
    <2>2. CASE i \in 1 .. n
      <3>1. \A k \in i + 1 .. n : k \in i + 1 .. n + 1 /\ k \in 1 .. n
        BY <2>2
      <3> QED BY <1>1, <1>2, <2>1, <2>2, <3>1 DEF Own, PageRecs, LSNs
    <2>3. CASE i = n + 1
      BY <1>2, <2>1, <2>3
    <2> QED BY <2>1, <2>2, <2>3
  <1>5. ASSUME NEW i \in Own(t, p) PROVE i \in Own(t, p)'
    <2>1. i \in 1 .. n /\ \A k \in i + 1 .. n + 1 : k \in i + 1 .. n \/ k = n + 1
      BY <1>3
    <2>2. \A k \in i + 1 .. n : k \in 1 .. n
      BY <2>1
    <2> QED BY <1>1, <1>2, <2>1, <2>2 DEF Own, PageRecs, LSNs
  <1>6. ASSUME NEW i \in new PROVE i \in Own(t, p)'
    BY <1>2, <1>6 DEF Own, PageRecs, LSNs
  <1>7. \A i \in Own(t, p) : log'[i] = log[i] /\ i # n + 1
    BY <1>2, <1>3
  <1>8. Own(t, p)' = Own(t, p) \cup new
    BY <1>4, <1>5, <1>6
  <1>9. CASE rec.op \in {"SET", "CLR"} /\ rec.txn = t /\ rec.page = p
    <2>1. new = {Len(log')}
      BY <1>2, <1>9
    <2> QED BY <1>2, <1>7, <1>8, <1>9, <2>1
  <1>10. CASE ~(rec.op \in {"SET", "CLR"} /\ rec.txn = t /\ rec.page = p)
    <2>1. new = {}
      BY <1>10
    <2> QED BY <1>2, <1>7, <1>8, <1>10, <2>1
  <1> QED BY <1>9, <1>10

\* What a transaction has written is the same when its records are.
LEMMA SameWritten ==
    ASSUME Len(log) \in Nat, WritesAre, WritesAre', NEW t \in Txns, NEW p \in Pages,
           Open(t)' <=> Open(t), Open(t) => OwnKept(t, p)
    PROVE  WrittenBy(t, p)' = WrittenBy(t, p)
  <1>1. CASE ~Open(t)
    BY <1>1 DEF WritesAre
  <1>2. CASE Open(t) /\ Own(t, p) = {}
    BY <1>2 DEF WritesAre, OwnKept
  <1>3. CASE Open(t) /\ Own(t, p) # {}
    <2>1. PICK v : v = WrittenBy(t, p)
      OBVIOUS
    <2>2. PICK w : w = WrittenBy(t, p)'
      OBVIOUS
    <2>3. ValueIs(Own(t, p), v)
      BY <1>3, <2>1 DEF WritesAre
    <2>4. ValueIs(Own(t, p), w)
      <3>1. ValueIs(Own(t, p), WrittenBy(t, p))'
        BY <1>3 DEF WritesAre, OwnKept
      <3> QED BY <1>3, <2>2, <3>1 DEF ValueIs, OwnKept
    <2>5. Own(t, p) \in SUBSET Int
      BY DEF Own, PageRecs, LSNs
    <2> QED BY <2>1, <2>2, <2>3, <2>4, <2>5, ValueUnique
  <1> QED BY <1>1, <1>2, <1>3

-----------------------------------------------------------------------------
(* Steps of the store. *)

\* The commits that a step makes durable.
Made == {t \in Txns : Asked(t) /\ tx[t].lsn <= flushed'}

\* The store after a step is the store before with what was committed merged in.
LEMMA Merges ==
    ASSUME RecoveryInv, StoreInv, StoreIs', flushed' \in flushed .. Len(log),
           CommonPrefix(flushed'), Len(log') \in Nat
    PROVE  [p \in Pages |-> StoreOf(p)]' = Store!Merged(Made)
  <1>1. PICK f : f = flushed'
    OBVIOUS
  <1>2. WritesAre
    BY DEF StoreInv
  <1>3. ASSUME NEW p \in Pages
        PROVE  StoreOf(p)' = IF \E t \in Made : WrittenBy(t, p) # NoLSN
                             THEN WrittenBy(CHOOSE t \in Made : WrittenBy(t, p) # NoLSN, p)
                             ELSE StoreOf(p)
    <2>1. CASE \E t \in Made : WrittenBy(t, p) # NoLSN
      <3>1. PICK c : c = CHOOSE t \in Made : WrittenBy(t, p) # NoLSN
        OBVIOUS
      <3>2. c \in Made /\ WrittenBy(c, p) # NoLSN
        BY <2>1, <3>1
      <3>3. c \in Txns /\ Asked(c) /\ tx[c].lsn <= f
        BY <1>1, <3>2 DEF Made
      <3>4. Own(c, p) # {}
        BY <1>2, <3>2, <3>3 DEF WritesAre
      <3>5. StoreOf(p)' = WrittenBy(c, p)
        BY <1>1, <3>3, <3>4, StoreAfter
      <3> QED BY <2>1, <3>1, <3>5
    <2>2. CASE ~\E t \in Made : WrittenBy(t, p) # NoLSN
      <3>1. ASSUME NEW t \in Txns, Asked(t), tx[t].lsn <= f PROVE Own(t, p) = {}
        <4>1. t \in Made /\ Open(t)
          BY <1>1, <3>1 DEF Made, Open, Asked
        <4> QED BY <1>2, <2>2, <4>1 DEF WritesAre
      <3>2. StoreOf(p)' = StoreOf(p)
        BY <1>1, <3>1, StoreAfter
      <3> QED BY <2>2, <3>2
    <2> QED BY <2>1, <2>2
  <1>4. \A t \in Made : t \in Txns
    BY DEF Made
  <1>5. ASSUME NEW p \in Pages
        PROVE  StoreOf(p)' = Store!Merged(Made)[p]
    <2>1. CASE \E t \in Made : WrittenBy(t, p) # NoLSN
      <3> DEFINE c == CHOOSE t \in Made : WrittenBy(t, p) # NoLSN
      <3>1. c \in Made /\ WrittenBy(c, p) # NoLSN /\ c \in Txns
        BY <1>4, <2>1
      <3> QED BY <1>3, <1>4, <2>1, <3>1 DEF Store!Merged
    <2>2. CASE ~\E t \in Made : WrittenBy(t, p) # NoLSN
      BY <1>3, <1>4, <2>2 DEF Store!Merged
    <2> QED BY <2>1, <2>2
  <1> QED BY <1>5 DEF Store!Merged

\* A step that goes on with every transaction and writes nothing for an open one
\* commits those whose COMMIT record it makes durable, perhaps none.
LEMMA GoesCommits ==
    ASSUME RecoveryInv, StoreInv, StoreIs', WritesAre', flushed' \in flushed .. Len(log),
           CommonPrefix(flushed'), Len(log') \in Nat, \A t \in Txns : Goes(t),
           \A t \in Txns : \A p \in Pages : Open(t) => OwnKept(t, p)
    PROVE  Store!Commit(Made)
  <1>1. [p \in Pages |-> StoreOf(p)]' = Store!Merged(Made)
    BY Merges
  <1>2. {t \in Txns : Asked(t)}' = {t \in Txns : Asked(t)} \ Made
    <2>1. flushed' \in Int /\ \A t \in Txns : tx[t].lsn \in Int
      BY StateFacts DEF RecoveryInv, LSN, NoLSN
    <2> QED BY <2>1 DEF Goes, Made
  <1>3. ASSUME NEW t \in Txns, NEW p \in Pages
        PROVE  WrittenBy(t, p)' = IF t \in Made THEN NoLSN ELSE WrittenBy(t, p)
    <2>1. CASE t \in Made
      BY <2>1 DEF Made, Goes, WritesAre
    <2>2. CASE t \notin Made
      <3>1. Open(t)' <=> Open(t)
        BY <2>2 DEF Made, Goes
      <3> QED BY <2>2, <3>1, SameWritten, StateFacts DEF StoreInv, RecoveryInv
    <2> QED BY <2>1, <2>2
  <1>4. [t \in Txns |-> [p \in Pages |-> WrittenBy(t, p)]]' =
            [t \in Txns |-> IF t \in Made THEN Store!Nothing
                            ELSE [u \in Txns |-> [p \in Pages |-> WrittenBy(u, p)]][t]]
    BY <1>3 DEF Store!Nothing
  <1> QED BY <1>1, <1>2, <1>4 DEF Store!Commit

\* A step that makes nothing durable leaves the store as it was.
LEMMA StoreStays ==
    ASSUME RecoveryInv, StoreInv, StoreIs', flushed' = flushed, CommonPrefix(flushed),
           Len(log') \in Nat
    PROVE  [p \in Pages |-> StoreOf(p)]' = [p \in Pages |-> StoreOf(p)]
  <1>1. PICK f : f = flushed
    OBVIOUS
  <1>2. f \in flushed .. Len(log) /\ \A t \in Txns : tx[t].lsn \in Int
    BY <1>1, StateFacts DEF RecoveryInv, LSN, NoLSN
  <1>3. \A t \in Txns : ~(Asked(t) /\ tx[t].lsn <= f)
    BY <1>1, <1>2 DEF Asked
  <1>4. \A p \in Pages : StoreOf(p)' = StoreOf(p)
    BY <1>1, <1>2, <1>3, StoreAfter
  <1> QED BY <1>4

\* What a step of transaction t alone leaves alone.
Alone(t) ==
    /\ flushed' = flushed /\ phase' = phase /\ \A u \in Txns : u # t => tx'[u] = tx[u]
    /\ \/ log' = log
       \/ \E rec : LogAppend(rec) /\ rec.op # "START" /\ (rec.op \in {"SET", "CLR"} => rec.txn = t)

\* The other transactions are where they were, and so is what they have written.
LEMMA OthersSame ==
    ASSUME DurabilityInv, WritesAre, WritesAre', NEW t \in Txns, Alone(t),
           NEW u \in Txns, u # t
    PROVE  /\ Asked(u)' <=> Asked(u)
           /\ Open(u)' <=> Open(u)
           /\ Asked(u)' => tx'[u].lsn = tx[u].lsn
           /\ \A p \in Pages : WrittenBy(u, p)' = WrittenBy(u, p)
  <1>1. Asked(u)' <=> Asked(u)
    BY DEF Alone, Asked
  <1>2. Open(u)' <=> Open(u)
    BY <1>1 DEF Alone, Open
  <1>3. tx'[u].lsn = tx[u].lsn
    BY DEF Alone
  <1>4. ASSUME NEW p \in Pages PROVE OwnKept(u, p)
    <2>1. CASE log' = log
      BY <2>1, KeptByLog
    <2>2. ASSUME NEW rec, LogAppend(rec), rec.op # "START",
                 rec.op \in {"SET", "CLR"} => rec.txn = t
          PROVE  OwnKept(u, p)
      BY <2>2, OwnAppend DEF OwnKept
    <2> QED BY <2>1, <2>2 DEF Alone
  <1>5. \A p \in Pages : WrittenBy(u, p)' = WrittenBy(u, p)
    BY <1>2, <1>4, SameWritten, StateFacts
  <1> QED BY <1>1, <1>2, <1>3, <1>5

\* A new transaction has written nothing yet (recovery.go:51).
LEMMA StartStep ==
    ASSUME RecoveryInv, StoreInv, StoreIs', WritesAre', NEW t \in Txns, StartSet(t)
    PROVE  UNCHANGED Store!vars
  <1>0. PICK n \in Nat : n = Len(log)
    BY StateFacts DEF RecoveryInv
  <1>1. /\ log' = log /\ flushed' = flushed /\ phase' = phase /\ tx[t].pc = "new"
        /\ DurabilityInv /\ ChainInv /\ WritesAre /\ tx \in [Txns -> TxRows]
    BY StateFacts DEF StartSet, logVars, recVars, RecoveryInv, StoreInv, TypeOK
  <1>2. tx'[t].pc = "active" /\ \A u \in Txns : u # t => tx'[u] = tx[u]
    BY <1>1 DEF StartSet, GotoWith
  <1>3. Alone(t)
    BY <1>1, <1>2 DEF Alone
  <1>4. ~Asked(t) /\ ~Asked(t)' /\ ~Open(t)
    BY <1>1, <1>2 DEF Asked, Open
  <1>5. {u \in Txns : Asked(u)}' = {u \in Txns : Asked(u)}
    BY <1>1, <1>3, <1>4, OthersSame
  <1>6. ASSUME NEW p \in Pages PROVE WrittenBy(t, p)' = WrittenBy(t, p)
    <2>1. Own(t, p) = {}
      <3> SUFFICES ASSUME NEW i \in Own(t, p) PROVE FALSE
        OBVIOUS
      <3>1. phase = "up" \/ tx[t].pc = "none" \/ tx[t].pc \in UndoPCs
        BY <1>1 DEF ChainInv, TxAt, LoserAt, TypeOK, DurabilityInv
      <3>2. phase = "up"
        BY <1>1, <3>1 DEF UndoPCs, RollbackPCs
      <3>3. PICK l : LastOf(l, t, n) /\ log[l].op = "START"
        BY <1>0, <1>1, <3>2 DEF ChainInv, TxAt, WorkAt, Here
      <3>4. /\ i \in 1 .. n /\ RecOf(i, t) /\ log[i].op \in {"SET", "CLR"}
            /\ \A k \in i + 1 .. n : ~(log[k].op = "START" /\ log[k].txn = t)
        BY <1>0 DEF Own, PageRecs, LSNs, RecOf, IsTxRec
      <3>5. l \in 1 .. n /\ i <= l /\ log[l].txn = t
        BY <3>3, <3>4, LastSame DEF LastOf, RecOf
      <3>6. i # l
        BY <3>3, <3>4
      <3>7. l \in i + 1 .. n
        BY <3>4, <3>5, <3>6
      <3> QED BY <3>3, <3>4, <3>5, <3>7
    <2>2. OwnKept(t, p)
      BY <1>1, KeptByLog
    <2> QED BY <1>1, <1>4, <2>1, <2>2 DEF WritesAre, OwnKept
  <1>7. [u \in Txns |-> [p \in Pages |-> WrittenBy(u, p)]]' =
            [u \in Txns |-> [p \in Pages |-> WrittenBy(u, p)]]
    BY <1>1, <1>3, <1>6, OthersSame
  <1>8. [p \in Pages |-> StoreOf(p)]' = [p \in Pages |-> StoreOf(p)]
    BY <1>1, StoreStays, StateFacts DEF CommonPrefix
  <1> QED BY <1>5, <1>7, <1>8 DEF Store!vars

\* The log after a record more, as the store sees it.
LEMMA AppendStays ==
    ASSUME RecoveryInv, StoreInv, StoreIs', NEW rec, LogAppend(rec)
    PROVE  [p \in Pages |-> StoreOf(p)]' = [p \in Pages |-> StoreOf(p)]
  <1>1. PICK n \in Nat : n = Len(log)
    BY StateFacts DEF RecoveryInv
  <1>2. flushed \in Nat /\ flushed <= n
    BY <1>1, StateFacts DEF RecoveryInv
  <1>3. /\ CommonPrefix(n) /\ Len(log') = n + 1 /\ flushed' = flushed
    BY <1>1, AppendPrefix DEF RecoveryInv
  <1>4. CommonPrefix(flushed)
    BY <1>2, <1>3 DEF CommonPrefix
  <1> QED BY <1>3, <1>4, StoreStays

\* With its COMMIT record a transaction asks for its commit (recovery.go:76).
LEMMA AskStep ==
    ASSUME RecoveryInv, StoreInv, StoreIs', WritesAre', NEW t \in Txns, CommitLog(t)
    PROVE  Store!Ask(t)
  <1>1. /\ LogAppend(CommitRec(t, att[t].lastLSN)) /\ phase' = phase /\ phase = "up"
        /\ tx[t].pc = "active" /\ DurabilityInv /\ WritesAre /\ tx \in [Txns -> TxRows]
        /\ flushed \in Nat /\ flushed <= Len(log) /\ Len(log) \in Nat
    BY StateFacts DEF CommitLog, MayStartHandler, recVars, RecoveryInv, StoreInv, TypeOK
  <1>2. /\ tx'[t].pc = "commit" /\ tx'[t].lsn = Len(log) + 1
        /\ \A u \in Txns : u # t => tx'[u] = tx[u]
    BY <1>1 DEF CommitLog, GotoWith, NextLSN
  <1>3. PICK rec : rec = CommitRec(t, att[t].lastLSN)
    OBVIOUS
  <1>4. LogAppend(rec) /\ rec.op = "COMMIT" /\ flushed' = flushed
    BY <1>1, <1>3 DEF CommitRec, LogAppend
  <1>5. Alone(t)
    BY <1>1, <1>2, <1>4 DEF Alone
  <1>6. ~Asked(t) /\ Asked(t)' /\ Open(t) /\ Open(t)'
    BY <1>1, <1>2, <1>4 DEF Asked, Open
  <1>7. {u \in Txns : Asked(u)}' = {u \in Txns : Asked(u)} \cup {t}
    BY <1>1, <1>5, <1>6, OthersSame
  <1>8. ASSUME NEW p \in Pages PROVE WrittenBy(t, p)' = WrittenBy(t, p)
    <2>1. OwnKept(t, p)
      BY <1>1, <1>4, OwnAppend DEF OwnKept
    <2> QED BY <1>1, <1>6, <2>1, SameWritten
  <1>9. [u \in Txns |-> [p \in Pages |-> WrittenBy(u, p)]]' =
            [u \in Txns |-> [p \in Pages |-> WrittenBy(u, p)]]
    BY <1>1, <1>5, <1>8, OthersSame
  <1>10. [p \in Pages |-> StoreOf(p)]' = [p \in Pages |-> StoreOf(p)]
    BY <1>4, AppendStays
  <1> QED BY <1>6, <1>7, <1>9, <1>10 DEF Store!Ask

\* With its ABORT record a transaction drops what it has written (recovery.go:101).
LEMMA AbortStep ==
    ASSUME RecoveryInv, StoreInv, StoreIs', WritesAre', NEW t \in Txns, AbortLog(t)
    PROVE  Store!Abort(t)
  <1>1. /\ LogAppend(AbortRec(t, att[t].lastLSN)) /\ phase' = phase
        /\ tx[t].pc = "active" /\ DurabilityInv /\ WritesAre /\ tx \in [Txns -> TxRows]
    BY StateFacts DEF AbortLog, recVars, RecoveryInv, StoreInv, TypeOK
  <1>2. tx'[t].pc = "abort" /\ \A u \in Txns : u # t => tx'[u] = tx[u]
    BY <1>1 DEF AbortLog, GotoWith
  <1>3. PICK rec : rec = AbortRec(t, att[t].lastLSN)
    OBVIOUS
  <1>4. LogAppend(rec) /\ rec.op = "ABORT" /\ flushed' = flushed
    BY <1>1, <1>3 DEF AbortRec, LogAppend
  <1>5. Alone(t)
    BY <1>1, <1>2, <1>4 DEF Alone
  <1>6. ~Asked(t) /\ ~Asked(t)' /\ ~Open(t)'
    BY <1>1, <1>2 DEF Asked, Open
  <1>7. {u \in Txns : Asked(u)}' = {u \in Txns : Asked(u)}
    BY <1>1, <1>5, <1>6, OthersSame
  <1>8. \A p \in Pages : WrittenBy(t, p)' = NoLSN
    BY <1>6 DEF WritesAre
  <1>9. [u \in Txns |-> [p \in Pages |-> WrittenBy(u, p)]]' =
            [[u \in Txns |-> [p \in Pages |-> WrittenBy(u, p)]] EXCEPT ![t] = Store!Nothing]
    BY <1>1, <1>5, <1>8, OthersSame DEF Store!Nothing
  <1>10. [p \in Pages |-> StoreOf(p)]' = [p \in Pages |-> StoreOf(p)]
    BY <1>4, AppendStays
  <1> QED BY <1>6, <1>7, <1>9, <1>10 DEF Store!Abort

\* An update under the page's lock is a write of one value, on a page that no other
\* open transaction has written (transaction.go:200, recovery.go:193).
LEMMA WriteStep ==
    ASSUME RecoveryInv, StoreInv, StoreIs', WritesAre', NEW t \in Txns, NEW p \in Pages,
           UpdateLog(t, p)
    PROVE  Store!Write(t, p)
  <1>1. /\ LogAppend(SetRec(t, att[t].lastLSN, p, buf[p].val, NextLSN)) /\ phase' = phase
        /\ phase = "up" /\ lock[p] \in {NoTx, t} /\ Len(log) \in Nat
        /\ tx[t].pc = "active" /\ DurabilityInv /\ WritesAre /\ OpenOk /\ tx \in [Txns -> TxRows]
    BY StateFacts DEF UpdateLog, MayStartHandler, recVars, RecoveryInv, StoreInv, TypeOK
  <1>2. tx'[t].pc = "logged" /\ \A u \in Txns : u # t => tx'[u] = tx[u]
    BY <1>1 DEF UpdateLog, GotoWith
  <1>3. PICK rec : rec = SetRec(t, att[t].lastLSN, p, buf[p].val, NextLSN)
    OBVIOUS
  <1>4. /\ LogAppend(rec) /\ rec.op = "SET" /\ rec.txn = t /\ rec.page = p
        /\ flushed' = flushed
    BY <1>1, <1>3 DEF SetRec, LogAppend
  <1>5. Alone(t)
    BY <1>1, <1>2, <1>4 DEF Alone
  <1>6. ~Asked(t) /\ ~Asked(t)' /\ Open(t) /\ Open(t)'
    BY <1>1, <1>2 DEF Asked, Open
  <1>7. {u \in Txns : Asked(u)}' = {u \in Txns : Asked(u)}
    BY <1>1, <1>5, <1>6, OthersSame
  <1>8. ASSUME NEW q \in Pages, q # p PROVE WrittenBy(t, q)' = WrittenBy(t, q)
    <2>1. OwnKept(t, q)
      BY <1>1, <1>4, <1>8, OwnAppend DEF OwnKept
    <2> QED BY <1>1, <1>6, <2>1, SameWritten
  <1>9. WrittenBy(t, p)' # NoLSN
    <2>1. Own(t, p)' = Own(t, p) \cup {Len(log')}
      BY <1>1, <1>4, OwnAppend
    <2> QED BY <1>6, <2>1 DEF WritesAre
  <1>10. ASSUME NEW u \in Txns \ {t} PROVE WrittenBy(u, p) = NoLSN
    <2>1. ASSUME Open(u), NEW i \in Own(u, p) PROVE FALSE
      <3>1. lock[p] = u
        BY <1>1, <2>1 DEF OpenOk, OpenAt
      <3> QED BY <1>1, <3>1 DEF Txns, NoTx
    <2> QED BY <1>1, <2>1 DEF WritesAre
  <1> DEFINE W == [u \in Txns |-> [q \in Pages |-> WrittenBy(u, q)]]
  <1>11. W' = [W EXCEPT ![t][p] = W'[t][p]]
    <2>1. \A u \in Txns : u # t => \A q \in Pages : WrittenBy(u, q)' = WrittenBy(u, q)
      BY <1>1, <1>5, OthersSame
    <2>2. \A q \in Pages : q # p => WrittenBy(t, q)' = WrittenBy(t, q)
      BY <1>8
    <2> QED BY <2>1, <2>2
  <1>12. [q \in Pages |-> StoreOf(q)]' = [q \in Pages |-> StoreOf(q)]
    BY <1>4, AppendStays
  <1> QED BY <1>6, <1>7, <1>9, <1>10, <1>11, <1>12 DEF Store!Write

\* A crash drops every open transaction, but those whose COMMIT record happens to be
\* on disk already (log.go:148).
LEMMA CrashStep ==
    ASSUME RecoveryInv, StoreInv, StoreIs', WritesAre', Crash
    PROVE  Store!Crash(Made)
  <1>1. PICK last \in flushed .. Len(log) :
            Len(log') = last /\ last \in Nat /\ \A i \in 1 .. last : log'[i] = log[i]
    BY CrashShape DEF RecoveryInv
  <1>2. flushed' = Len(log') /\ phase' = "analysis"
    <2>1. PICK m \in flushed .. Len(log) : log' = SubSeq(log, 1, m) /\ flushed' = m
      BY DEF Crash
    <2>2. Len(SubSeq(log, 1, m)) = m
      BY <2>1, PrefixFacts, StateFacts DEF RecoveryInv
    <2> QED BY <2>1, <2>2 DEF Crash
  <1>3. CommonPrefix(flushed') /\ flushed' \in flushed .. Len(log) /\ Len(log') \in Nat
    BY <1>1, <1>2, StateFacts DEF CommonPrefix, RecoveryInv
  <1>4. [p \in Pages |-> StoreOf(p)]' = Store!Merged(Made)
    BY <1>3, Merges
  <1>5. \A t \in Txns : ~Asked(t)' /\ ~Open(t)'
    BY <1>2 DEF Asked, Open
  <1>6. \A t \in Txns : \A p \in Pages : WrittenBy(t, p)' = NoLSN
    BY <1>5 DEF WritesAre
  <1>7. {t \in Txns : Asked(t)}' = {}
    BY <1>5
  <1>8. [t \in Txns |-> [p \in Pages |-> WrittenBy(t, p)]]' = [t \in Txns |-> Store!Nothing]
    BY <1>6 DEF Store!Nothing
  <1> QED BY <1>4, <1>7, <1>8 DEF Store!Crash

-----------------------------------------------------------------------------
(* The invariant, and the refinement. *)

\* A COMMIT record that is not durable stays one whose flush has not returned.
LEMMA NextAsked ==
    ASSUME RecoveryInv, [Next]_vars
    PROVE  AskedOk'
  <1>0. /\ DurabilityInv /\ ChainInv /\ AskedOk /\ flushed \in Nat /\ flushed <= Len(log)
        /\ \A t \in Txns : tx[t].lsn \in Int
    BY StateFacts DEF RecoveryInv, LSN, NoLSN
  <1>1. PICK n \in Nat : n = Len(log)
    BY <1>0, StateFacts
  <1>2. CASE FlushKind
    <2> SUFFICES ASSUME NEW k \in 1 .. n, log[k].op = "COMMIT", flushed' < k
                 PROVE  \E t \in Txns : Asked(t)' /\ tx'[t].lsn = k
      BY <1>1, <1>2 DEF FlushKind, AskedOk, LSNs
    <2>1. flushed < k
      BY <1>0, <1>1, <1>2 DEF FlushKind
    <2>2. PICK t \in Txns : Asked(t) /\ tx[t].lsn = k
      BY <1>0, <1>1, <2>1 DEF AskedOk, LSNs
    <2> QED BY <1>2, <2>2 DEF FlushKind, Goes
  <1>3. ASSUME NEW rec, LogAppend(rec),
               \A k \in 1 .. n : log[k].op = "COMMIT" /\ flushed < k =>
                   \E t \in Txns : Asked(t)' /\ tx'[t].lsn = k,
               rec.op = "COMMIT" => \E t \in Txns : Asked(t)' /\ tx'[t].lsn = n + 1
        PROVE  AskedOk'
    <2>1. /\ Len(log') = n + 1 /\ log'[n + 1] = rec /\ flushed' = flushed
          /\ \A k \in 1 .. n : log'[k] = log[k]
      BY <1>0, <1>1, <1>3, AppendPrefix DEF CommonPrefix
    <2> SUFFICES ASSUME NEW k \in 1 .. n + 1, log'[k].op = "COMMIT", flushed' < k
                 PROVE  \E t \in Txns : Asked(t)' /\ tx'[t].lsn = k
      BY <2>1 DEF AskedOk, LSNs
    <2>2. CASE k \in 1 .. n
      BY <1>3, <2>1, <2>2
    <2>3. CASE k = n + 1
      BY <1>3, <2>1, <2>3
    <2> QED BY <2>2, <2>3
  <1>4. CASE AppendKind
    <2>1. PICK rec : /\ LogAppend(rec) /\ rec.op # "COMMIT" /\ \A t \in Txns : Goes(t)
      BY <1>4 DEF AppendKind
    <2>2. flushed' = flushed
      BY <2>1 DEF LogAppend
    <2>3. ASSUME NEW k \in 1 .. n, log[k].op = "COMMIT", flushed < k
          PROVE  \E t \in Txns : Asked(t)' /\ tx'[t].lsn = k
      <3>1. PICK t \in Txns : Asked(t) /\ tx[t].lsn = k
        BY <1>0, <1>1, <2>3 DEF AskedOk, LSNs
      <3> QED BY <2>1, <2>2, <2>3, <3>1 DEF Goes
    <2> QED BY <1>3, <2>1, <2>3
  <1>5. CASE Crash
    <2>1. PICK m \in flushed .. Len(log) : log' = SubSeq(log, 1, m) /\ flushed' = m
      BY <1>5 DEF Crash
    <2>2. Len(SubSeq(log, 1, m)) = m /\ m \in Nat
      BY <1>0, <2>1, PrefixFacts, StateFacts
    <2> QED BY <2>1, <2>2 DEF AskedOk, LSNs
  <1>6. ASSUME NEW t \in Txns, ~Asked(t), flushed' = flushed, phase' = phase,
               \A u \in Txns : u # t => tx'[u] = tx[u],
               NEW k \in 1 .. n, log[k].op = "COMMIT", flushed < k
        PROVE  \E u \in Txns : Asked(u)' /\ tx'[u].lsn = k
    <2>1. PICK u \in Txns : Asked(u) /\ tx[u].lsn = k
      BY <1>0, <1>1, <1>6 DEF AskedOk, LSNs
    <2>2. u # t /\ tx'[u] = tx[u]
      BY <1>6, <2>1
    <2>3. Asked(u)'
      BY <1>6, <2>1, <2>2 DEF Asked
    <2> QED BY <2>1, <2>2, <2>3
  <1>7. ASSUME NEW t \in Txns, StartSet(t) PROVE AskedOk'
    <2>1. /\ log' = log /\ flushed' = flushed /\ phase' = phase /\ ~Asked(t)
          /\ \A u \in Txns : u # t => tx'[u] = tx[u]
      BY <1>0, <1>7, StateFacts DEF StartSet, GotoWith, logVars, recVars, Asked, TypeOK
    <2>2. \A k \in 1 .. n : log[k].op = "COMMIT" /\ flushed < k =>
              \E u \in Txns : Asked(u)' /\ tx'[u].lsn = k
      BY <1>6, <2>1
    <2> QED BY <1>1, <2>1, <2>2 DEF AskedOk, LSNs
  <1>8. ASSUME NEW t \in Txns, CommitLog(t) PROVE AskedOk'
    <2>1. /\ flushed' = flushed /\ phase' = phase /\ phase = "up" /\ ~Asked(t)
          /\ \A u \in Txns : u # t => tx'[u] = tx[u]
          /\ LogAppend(CommitRec(t, att[t].lastLSN)) /\ tx \in [Txns -> TxRows]
      BY <1>0, <1>8, StateFacts
      DEF CommitLog, MayStartHandler, GotoWith, recVars, Asked, TypeOK, LogAppend
    <2>2. tx'[t].pc = "commit" /\ tx'[t].lsn = n + 1
      BY <1>1, <1>8, <2>1 DEF CommitLog, GotoWith, NextLSN
    <2>3. Asked(t)'
      BY <1>0, <1>1, <2>1, <2>2 DEF Asked
    <2>4. \A k \in 1 .. n : log[k].op = "COMMIT" /\ flushed < k =>
              \E u \in Txns : Asked(u)' /\ tx'[u].lsn = k
      BY <1>6, <2>1
    <2> QED BY <1>3, <2>1, <2>2, <2>3, <2>4
  <1>9. ASSUME NEW t \in Txns, NEW rec, LogAppend(rec), rec.op # "COMMIT", ~Asked(t),
               phase' = phase, \A u \in Txns : u # t => tx'[u] = tx[u]
        PROVE  AskedOk'
    <2>1. flushed' = flushed
      BY <1>9 DEF LogAppend
    <2>2. \A k \in 1 .. n : log[k].op = "COMMIT" /\ flushed < k =>
              \E u \in Txns : Asked(u)' /\ tx'[u].lsn = k
      BY <1>6, <1>9, <2>1
    <2> QED BY <1>3, <1>9, <2>2
  <1>10. ASSUME NEW t \in Txns, AbortLog(t) PROVE AskedOk'
    <2>1. /\ phase' = phase /\ ~Asked(t) /\ \A u \in Txns : u # t => tx'[u] = tx[u]
          /\ LogAppend(AbortRec(t, att[t].lastLSN))
      BY <1>0, <1>10, StateFacts DEF AbortLog, GotoWith, recVars, Asked, TypeOK
    <2> QED BY <1>9, <2>1 DEF AbortRec
  <1>11. ASSUME NEW t \in Txns, NEW p \in Pages, UpdateLog(t, p) PROVE AskedOk'
    <2>1. /\ phase' = phase /\ ~Asked(t) /\ \A u \in Txns : u # t => tx'[u] = tx[u]
          /\ LogAppend(SetRec(t, att[t].lastLSN, p, buf[p].val, NextLSN))
      BY <1>0, <1>11, StateFacts DEF UpdateLog, GotoWith, recVars, Asked, TypeOK
    <2> QED BY <1>9, <2>1 DEF SetRec
  <1> QED BY <1>0, <1>2, <1>4, <1>5, <1>7, <1>8, <1>10, <1>11, StoreSteps

\* The whole invariant of the recovery manager: types and write-ahead logging, the
\* chains of records, pages, tables, values, and the commits under way
\* (recovery.go:74, 99, 149).
THEOREM RecoveryInvariant == ASSUME CheckpointAlone, OneRestart PROVE Spec => []RecoveryInv
  <1>1. Init => AskedOk
    BY DEF Init, AskedOk, LSNs
  <1>2. RecoveryInv /\ [Next]_vars => AskedOk'
    BY NextAsked
  <1>3. DurabilityInv /\ ChainInv /\ PageInv /\ DataInv /\ AskedOk <=> RecoveryInv
    BY DEF RecoveryInv
  <1> QED BY <1>1, <1>2, <1>3, Durability, ChainsKept, PagesFollowLog, DataFollowsLog, PTL
          DEF Spec

\* A flush, or a record of no open transaction, commits what it makes durable.
LEMMA SystemStep ==
    ASSUME RecoveryInv, StoreInv, StoreIs', WritesAre', FlushKind \/ AppendKind
    PROVE  Store!Commit(Made)
  <1>0. PICK n \in Nat : n = Len(log)
    BY StateFacts DEF RecoveryInv
  <1>1. DurabilityInv /\ flushed \in Nat /\ flushed <= n
    BY <1>0, StateFacts DEF RecoveryInv
  <1>2. CASE FlushKind
    <2>1. /\ log' = log /\ flushed' \in flushed .. Len(log) /\ \A t \in Txns : Goes(t)
      BY <1>2 DEF FlushKind
    <2>2. CommonPrefix(flushed') /\ Len(log') \in Nat
      BY <1>0, <1>1, <2>1 DEF CommonPrefix
    <2>3. \A t \in Txns : \A p \in Pages : Open(t) => OwnKept(t, p)
      BY <2>1, KeptByLog
    <2> QED BY <2>1, <2>2, <2>3, GoesCommits
  <1>3. CASE AppendKind
    <2>1. PICK rec : /\ LogAppend(rec) /\ rec.op # "COMMIT" /\ \A t \in Txns : Goes(t)
                     /\ rec.op \in {"START", "SET", "CLR"} => rec.txn \in Txns /\ ~Open(rec.txn)
      BY <1>3 DEF AppendKind
    <2>2. CommonPrefix(n) /\ Len(log') = n + 1 /\ flushed' = flushed
      BY <1>0, <1>1, <2>1, AppendPrefix
    <2>3. CommonPrefix(flushed') /\ Len(log') \in Nat /\ flushed' \in flushed .. Len(log)
      BY <1>0, <1>1, <2>2 DEF CommonPrefix
    <2>4. ASSUME NEW t \in Txns, NEW p \in Pages, Open(t) PROVE OwnKept(t, p)
      <3>1. ~(rec.op \in {"START", "SET", "CLR"} /\ rec.txn = t)
        BY <2>1, <2>4
      <3> QED BY <1>1, <2>1, <3>1, OwnAppend DEF OwnKept
    <2> QED BY <2>1, <2>3, <2>4, GoesCommits
  <1> QED BY <1>2, <1>3

\* Every step of the system is one of the store, or none.
LEMMA NextStore ==
    ASSUME RecoveryInv, StoreInv, StoreIs', WritesAre', [Next]_vars
    PROVE  [Store!Next]_(Store!vars)
  <1>1. Made \in SUBSET {t \in Txns : Asked(t)}
    BY DEF Made
  <1>2. ASSUME FlushKind \/ AppendKind PROVE Store!Next
    BY <1>1, <1>2, SystemStep DEF Store!Next
  <1>3. ASSUME Crash PROVE Store!Next
    BY <1>1, <1>3, CrashStep DEF Store!Next
  <1>4. ASSUME NEW t \in Txns, CommitLog(t) PROVE Store!Next
    BY <1>4, AskStep DEF Store!Next
  <1>5. ASSUME NEW t \in Txns, AbortLog(t) PROVE Store!Next
    BY <1>5, AbortStep DEF Store!Next
  <1>6. ASSUME NEW t \in Txns, NEW p \in Pages, UpdateLog(t, p) PROVE Store!Next
    BY <1>6, WriteStep DEF Store!Next
  <1>7. ASSUME NEW t \in Txns, StartSet(t) PROVE UNCHANGED Store!vars
    BY <1>7, StartStep
  <1>8. DurabilityInv /\ ChainInv
    BY DEF RecoveryInv
  <1> QED BY <1>2, <1>3, <1>4, <1>5, <1>6, <1>7, <1>8, StoreSteps

\* Transactions are atomic and durable: locks, log, page writes in any order, rollback,
\* crash and recovery together implement TxStore (recovery.go:74, 99, 149).
THEOREM ImplementsTxStore == ASSUME CheckpointAlone, OneRestart PROVE Spec => RefinesTxStore
  <1>1. Init => Store!Init
    <2> SUFFICES ASSUME Init PROVE Store!Init
      OBVIOUS
    <2>1. \A t \in Txns : ~Asked(t) /\ ~Open(t)
      BY DEF Init, TxIdle, Asked, Open
    <2>2. \A t \in Txns, p \in Pages : WrittenBy(t, p) = NoLSN
      BY <2>1 DEF WrittenBy
    <2>3. \A p \in Pages : StoreOf(p) = 0
      BY DEF Init, StoreOf
    <2> QED BY <2>1, <2>2, <2>3 DEF Store!Init, Store!Nothing, NoLSN
  <1>2. RecoveryInv => StoreInv /\ StoreIs /\ WritesAre
    BY StoreFacts DEF StoreInv
  <1>3. RecoveryInv /\ StoreInv /\ StoreIs' /\ WritesAre' /\ [Next]_vars
            => [Store!Next]_(Store!vars)
    BY NextStore
  <1> QED BY <1>1, <1>2, <1>3, RecoveryInvariant, PTL DEF Spec, RefinesTxStore, Store!Spec
-----------------------------------------------------------------------------
(***************************************************************************)
(* Recovery gets on.  Short of a crash each of its steps brings it nearer  *)
(* to its end, in an order without infinite descents, and as long as it is *)
(* not at its end there is a step to take.                                 *)
(***************************************************************************)
PhaseLeft ==
    CASE phase = "analysis" -> 4 [] phase = "redo" -> 3 [] phase = "winners" -> 2
      [] phase = "undo" -> 1 [] OTHER -> 0

\* The records still to be scanned, or the transactions still in the rebuilt table.
Unfinished == {t \in Txns : recAtt[t] # Absent}
ItemsLeft ==
    IF phase \in {"analysis", "redo"} THEN Len(log) + 1 - recPos ELSE Cardinality(Unfinished)

\* How far a rollback is: its stage, and the record it has come down to.
StageOf(row) ==
    CASE row.pc = "abort" -> 4 [] row.pc \in {"undo", "clr", "clrFlushed"} -> 3
      [] row.pc = "undone" -> 2 [] row.pc = "abortSet" -> 1 [] OTHER -> 0
UndoOf(row) ==
    CASE row.pc = "undo" -> 3 * row.undo + 5 [] row.pc = "clr" -> 3 * row.undo + 4
      [] row.pc = "clrFlushed" -> 3 * row.undo + 3 [] OTHER -> 0
RowLower(r, s) ==
    StageOf(r) < StageOf(s) \/ (StageOf(r) = StageOf(s) /\ UndoOf(r) < UndoOf(s))

\* The rollback under way, if there is one.
RollbackOf(x) ==
    LET t == CHOOSE t \in Txns : x[t].pc # "none"
    IN  IF \A u \in Txns : x[u].pc = "none" THEN <<5, 0>> ELSE <<StageOf(x[t]), UndoOf(x[t])>>

RecoveryLeft == <<<<PhaseLeft, ItemsLeft>>, RollbackOf(tx)>>

\* The lexicographic order of four naturals, in two pairs.
PairOrder == LexPairOrdering(OpToRel(<, Nat), OpToRel(<, Nat), Nat, Nat)
Quads == (Nat \X Nat) \X (Nat \X Nat)
RecoveryOrder == LexPairOrdering(PairOrder, PairOrder, Nat \X Nat, Nat \X Nat)

\* Only the flush of a page takes a recovery no further.
RecoveryDescends ==
    phase # "up" =>
        \/ Crash
        \/ <<RecoveryLeft', RecoveryLeft>> \in RecoveryOrder
        \/ RecoveryLeft' = RecoveryLeft /\ \E p \in Pages : FlushPage(p)

\* The guards of the steps of RecoverStep.
ScanReady ==
    \/ phase \in {"analysis", "redo"} /\ recPos \in LSNs
    \/ phase = "analysis" /\ recPos > Len(log)
          /\ (recDpt = EmptyDPT \/ \E l \in LSNs : MinRecLSN(l))
    \/ phase = "redo" /\ recPos > Len(log)
    \/ phase = "winners"
LoserReady ==
    /\ phase = "undo" /\ NoUndoRunning
    /\ recAtt = EmptyATT \/ \E t \in Txns : recAtt[t].status \in {"running", "aborting"}
RollbackReady(t) ==
    /\ phase = "undo"
    /\ \/ tx[t].pc \in {"abort", "clr", "clrFlushed", "undone", "abortSet", "ended"}
       \/ tx[t].pc = "undo" /\ tx[t].undo = NoLSN
       \/ tx[t].pc = "undo" /\ Readable(t)
             /\ log[tx[t].undo].op \in {"START", "SET", "CLR", "COMMIT", "ABORT", "END"}
RecoveryNeverStuck ==
    phase # "up" => ScanReady \/ LoserReady \/ \E t \in Txns : RollbackReady(t)

(***************************************************************************)
(* The invariant.                                                          *)
(***************************************************************************)
\* The undo phase has no winners left, and rolls back what its table says it must.
LosersOk ==
    phase = "undo" =>
        \A t \in Txns : /\ recAtt[t].status # "commited"
                        /\ tx[t].pc # "none" => recAtt[t].status \in {"running", "aborting"}
RedoScanOk == phase = "redo" => recPos <= Len(log) + 1

ProgressInv == DptBounds /\ OneUndo /\ LosersOk /\ RedoScanOk
LeftOk == PhaseLeft \in Nat /\ ItemsLeft \in Nat /\ RollbackOf(tx) \in Nat \X Nat

-----------------------------------------------------------------------------
(* The order. *)

\* A pair goes down with its first part, or with its second when the first stays.
LEMMA PairLess ==
    ASSUME NEW a \in Nat, NEW b \in Nat, NEW c \in Nat, NEW d \in Nat,
           a < c \/ (a = c /\ b < d)
    PROVE  <<<<a, b>>, <<c, d>>>> \in PairOrder
  <1>1. a < c => <<a, c>> \in OpToRel(<, Nat)
    BY DEF OpToRel
  <1>2. b < d => <<b, d>> \in OpToRel(<, Nat)
    BY DEF OpToRel
  <1> QED BY <1>1, <1>2 DEF PairOrder, LexPairOrdering

\* So does a pair of pairs, which is what RecoveryLeft is.
LEMMA QuadLess ==
    ASSUME NEW a \in Nat \X Nat, NEW b \in Nat \X Nat, NEW c \in Nat \X Nat, NEW d \in Nat \X Nat,
           <<a, c>> \in PairOrder \/ (a = c /\ <<b, d>> \in PairOrder)
    PROVE  <<<<a, b>>, <<c, d>>>> \in RecoveryOrder
  BY DEF RecoveryOrder, LexPairOrdering

\* No recovery can go down in this order for ever.
THEOREM RecoveryOrderFounded == IsWellFoundedOn(RecoveryOrder, Quads)
  <1>1. IsWellFoundedOn(PairOrder, Nat \X Nat)
    BY NatLessThanWellFounded, WFLexPairOrdering DEF PairOrder
  <1> QED BY <1>1, WFLexPairOrdering DEF RecoveryOrder, Quads

\* A later phase, fewer items, or a rollback further down is nearer to the end.
LEMMA NearerPhase ==
    ASSUME LeftOk, LeftOk', PhaseLeft' < PhaseLeft
    PROVE  <<RecoveryLeft', RecoveryLeft>> \in RecoveryOrder
  <1>1. <<<<PhaseLeft', ItemsLeft'>>, <<PhaseLeft, ItemsLeft>>>> \in PairOrder
    BY PairLess DEF LeftOk
  <1> QED BY <1>1, QuadLess DEF LeftOk, RecoveryLeft

\* Within a phase: fewer records to scan, or fewer transactions in the table
\* (recovery.go:320, 377, 441, 477).
LEMMA NearerItems ==
    ASSUME LeftOk, LeftOk', PhaseLeft' = PhaseLeft, ItemsLeft' < ItemsLeft
    PROVE  <<RecoveryLeft', RecoveryLeft>> \in RecoveryOrder
  <1>1. <<<<PhaseLeft', ItemsLeft'>>, <<PhaseLeft, ItemsLeft>>>> \in PairOrder
    BY PairLess DEF LeftOk
  <1> QED BY <1>1, QuadLess DEF LeftOk, RecoveryLeft

\* With the same transactions in the table: a rollback further down (recovery.go:258-310).
LEMMA NearerRollback ==
    ASSUME LeftOk, LeftOk', PhaseLeft' = PhaseLeft, ItemsLeft' = ItemsLeft,
           <<RollbackOf(tx)', RollbackOf(tx)>> \in PairOrder
    PROVE  <<RecoveryLeft', RecoveryLeft>> \in RecoveryOrder
  BY QuadLess DEF LeftOk, RecoveryLeft

\* The measure of a rollback under way, and of a single row.
LEMMA RowLeft ==
    ASSUME NEW r \in TxRows
    PROVE  StageOf(r) \in 0 .. 4 /\ UndoOf(r) \in Nat
  <1>1. r.undo \in LSN \cup {NoLSN} /\ r.pc \in TxPCs
    BY DEF TxRows
  <1>2. r.undo \in Int /\ r.undo >= -1
    BY <1>1 DEF LSN, NoLSN
  <1> QED BY <1>2 DEF StageOf, UndoOf

\* With one transaction in doRollback its row is the measure (recovery.go:474).
LEMMA RollbackIs ==
    ASSUME NEW x, NEW t \in Txns, x[t].pc # "none", \A u \in Txns : x[u].pc # "none" => u = t
    PROVE  RollbackOf(x) = <<StageOf(x[t]), UndoOf(x[t])>>
  <1>1. (CHOOSE u \in Txns : x[u].pc # "none") = t
    OBVIOUS
  <1> QED BY <1>1 DEF RollbackOf

\* With none the next loser is still to be taken up (recovery.go:449).
LEMMA RollbackNone ==
    ASSUME NEW x, \A u \in Txns : x[u].pc = "none"
    PROVE  RollbackOf(x) = <<5, 0>>
  BY DEF RollbackOf

\* The table has finitely many transactions.
LEMMA UnfinishedFinite ==
    /\ IsFiniteSet(Unfinished) /\ Cardinality(Unfinished) \in Nat
    /\ \A t \in Unfinished : Cardinality(Unfinished \ {t}) < Cardinality(Unfinished)
  <1>1. IsFiniteSet(Txns)
    BY FS_Interval, MaxTxAssumption DEF Txns
  <1>2. IsFiniteSet(Unfinished)
    BY <1>1, FS_Subset DEF Unfinished
  <1>3. Cardinality(Unfinished) \in Nat
    BY <1>2, FS_CardinalityType
  <1> QED BY <1>2, <1>3, FS_RemoveElement

\* Every measure is made of naturals.
LEMMA LeftFacts == ASSUME DurabilityInv, LinkInv, RedoScanOk PROVE LeftOk
  <1>1. PhaseLeft \in Nat
    BY DEF PhaseLeft
  <1>2. ItemsLeft \in Nat
    <2>1. Len(log) \in Nat /\ recPos \in Nat
      BY StateFacts DEF TypeOK, LSN
    <2>2. phase \in {"analysis", "redo"} => recPos <= Len(log) + 1
      BY <2>1 DEF LinkInv, CkptLinks, RedoScanOk
    <2> QED BY <2>1, <2>2, UnfinishedFinite DEF ItemsLeft
  <1>3. RollbackOf(tx) \in Nat \X Nat
    <2>1. CASE \A u \in Txns : tx[u].pc = "none"
      BY <2>1, RollbackNone
    <2>2. ASSUME NEW u \in Txns, tx[u].pc # "none" PROVE RollbackOf(tx) \in Nat \X Nat
      <3>1. PICK t \in Txns : t = CHOOSE v \in Txns : tx[v].pc # "none"
        BY <2>2
      <3>2. tx[t] \in TxRows
        BY StateFacts DEF TypeOK
      <3>3. StageOf(tx[t]) \in Nat /\ UndoOf(tx[t]) \in Nat
        BY <3>2, RowLeft
      <3> QED BY <2>2, <3>1, <3>3 DEF RollbackOf
    <2> QED BY <2>1, <2>2
  <1> QED BY <1>1, <1>2, <1>3 DEF LeftOk

-----------------------------------------------------------------------------
(* Each step of a recovery. *)

\* A row that goes down is a rollback that goes down.
LEMMA RollbackNearer ==
    ASSUME DurabilityInv, OneUndo, LeftOk, LeftOk', phase = "undo", phase' = "undo",
           NEW t \in Txns, tx[t].pc # "none", tx'[t] \in TxRows, tx'[t].pc # "none",
           \A u \in Txns : u # t => tx'[u] = tx[u],
           RowLower(tx'[t], tx[t]), Unfinished' = Unfinished
    PROVE  <<RecoveryLeft', RecoveryLeft>> \in RecoveryOrder
  <1>1. \A u \in Txns : tx[u].pc # "none" => u = t
    BY DEF OneUndo
  <1>2. RollbackOf(tx) = <<StageOf(tx[t]), UndoOf(tx[t])>>
    BY <1>1, RollbackIs
  <1>3. \A u \in Txns : tx'[u].pc # "none" => u = t
    BY <1>1
  <1>4. RollbackOf(tx') = <<StageOf(tx'[t]), UndoOf(tx'[t])>>
    BY <1>3, RollbackIs
  <1>5. tx[t] \in TxRows
    BY StateFacts DEF TypeOK
  <1>6. /\ StageOf(tx[t]) \in Nat /\ UndoOf(tx[t]) \in Nat
        /\ StageOf(tx'[t]) \in Nat /\ UndoOf(tx'[t]) \in Nat
    BY <1>5, RowLeft
  <1>7. <<RollbackOf(tx'), RollbackOf(tx)>> \in PairOrder
    BY <1>2, <1>4, <1>6, PairLess DEF RowLower
  <1>8. PhaseLeft' = PhaseLeft /\ ItemsLeft' = ItemsLeft
    BY DEF PhaseLeft, ItemsLeft
  <1> QED BY <1>7, <1>8, NearerRollback

\* doRollback and the steps around it, one row further down (recovery.go:258-310).
LEMMA RowSteps ==
    ASSUME DurabilityInv, LinkInv, phase = "undo", NEW t \in Txns, tx[t].pc \in UndoPCs,
           TxRollback(t) \/ DoRollback(t) \/ TxEnd(t)
    PROVE  /\ RowLower(tx'[t], tx[t]) /\ tx'[t].pc \in UndoPCs
           /\ phase' = phase /\ \A u \in Txns : u # t => tx'[u] = tx[u]
           /\ recAtt' = recAtt \/ recAtt' = [recAtt EXCEPT ![t] = Entry("aborting", tx[t].lsn)]
  <1> DEFINE u == tx[t].undo
  <1>0. /\ tx \in [Txns -> TxRows] /\ tx[t] \in TxRows /\ u \in LSN \cup {NoLSN}
        /\ Len(log) \in Nat /\ flushed \in Nat /\ flushed <= Len(log) /\ HasItsRecord(t)
    BY StateFacts DEF TypeOK, DurabilityInv, HandlerRecords
  <1>1. u \in Int /\ u >= -1
    BY <1>0 DEF LSN, NoLSN
  <1>2. ASSUME NEW pc \in {"undo", "clrFlushed", "undone", "abortSet", "ended"},
               tx' = [tx EXCEPT ![t].pc = pc]
        PROVE  /\ tx'[t].pc = pc /\ tx'[t].undo = u
               /\ \A v \in Txns : v # t => tx'[v] = tx[v]
    BY <1>0, <1>2 DEF TxRows
  <1>3. CASE AbortFlush(t)
    <2>1. tx[t].pc = "abort" /\ tx' = [tx EXCEPT ![t].pc = "undo"] /\ UNCHANGED <<phase, recAtt>>
      BY <1>3 DEF AbortFlush, Goto, recVars
    <2> QED BY <1>2, <2>1 DEF RowLower, StageOf, UndoPCs, RollbackPCs
  <1>4. CASE RollbackSet(t)
    <2>1. /\ tx[t].pc = "undone" /\ tx' = [tx EXCEPT ![t].pc = "abortSet"] /\ UNCHANGED phase
          /\ recAtt' = recAtt \/ recAtt' = [recAtt EXCEPT ![t] = Entry("aborting", tx[t].lsn)]
      BY <1>4 DEF RollbackSet, Goto
    <2> QED BY <1>2, <2>1 DEF RowLower, StageOf, UndoPCs, RollbackPCs
  <1>5. CASE EndLog(t)
    <2>1. tx[t].pc = "abortSet" /\ tx' = [tx EXCEPT ![t].pc = "ended"] /\ UNCHANGED <<phase, recAtt>>
      BY <1>5 DEF EndLog, Goto, recVars, UndoPCs, RollbackPCs
    <2> QED BY <1>2, <2>1 DEF RowLower, StageOf, UndoPCs
  <1>6. CASE UndoStop(t)
    <2>1. tx[t].pc = "undo" /\ tx' = [tx EXCEPT ![t].pc = "undone"] /\ UNCHANGED <<phase, recAtt>>
      BY <1>6 DEF UndoStop, Goto, recVars
    <2> QED BY <1>2, <2>1 DEF RowLower, StageOf, UndoPCs, RollbackPCs
  <1>7. CASE UndoSet(t)
    <2>1. /\ tx[t].pc = "undo" /\ tx' = [tx EXCEPT ![t].pc = "clr", ![t].lsn = NextLSN]
          /\ UNCHANGED <<phase, recAtt>>
      BY <1>7 DEF UndoSet, recVars
    <2>2. tx'[t].pc = "clr" /\ tx'[t].undo = u /\ \A v \in Txns : v # t => tx'[v] = tx[v]
      BY <1>0, <2>1 DEF TxRows
    <2>3. UndoOf(tx'[t]) < UndoOf(tx[t])
      BY <1>1, <2>1, <2>2 DEF UndoOf
    <2> QED BY <2>1, <2>2, <2>3 DEF RowLower, StageOf, UndoPCs, RollbackPCs
  <1>8. CASE ClrFlush(t)
    <2>1. tx[t].pc = "clr" /\ tx' = [tx EXCEPT ![t].pc = "clrFlushed"] /\ UNCHANGED <<phase, recAtt>>
      BY <1>8 DEF ClrFlush, Goto, recVars
    <2>2. UndoOf(tx'[t]) < UndoOf(tx[t])
      BY <1>1, <1>2, <2>1 DEF UndoOf
    <2> QED BY <1>2, <2>1, <2>2 DEF RowLower, StageOf, UndoPCs, RollbackPCs
  <1>9. CASE UndoSkip(t) \/ UndoPage(t)
    <2>1. PICK v : /\ v = tx'[t].undo /\ tx'[t].pc = "undo" /\ \A w \in Txns : w # t => tx'[w] = tx[w]
                   /\ UNCHANGED <<phase, recAtt>>
                   /\ \/ v = log[u].prev /\ log[u].op \in {"SET", "COMMIT", "ABORT", "END"}
                      \/ v = log[u].undoNext /\ log[u].op = "CLR"
                   /\ u \in LSNs
      <3>1. CASE UndoSkip(t)
        <4>1. /\ u \in 1 .. flushed /\ log[u].op \in {"CLR", "COMMIT", "ABORT", "END"}
              /\ tx[t].pc = "undo" /\ UNCHANGED <<phase, recAtt>>
              /\ tx' = [tx EXCEPT ![t].undo =
                           IF log[u].op = "CLR" THEN log[u].undoNext ELSE log[u].prev]
          BY <3>1 DEF UndoSkip, Readable, recVars
        <4>2. /\ tx'[t].undo = IF log[u].op = "CLR" THEN log[u].undoNext ELSE log[u].prev
              /\ tx'[t].pc = "undo" /\ \A w \in Txns : w # t => tx'[w] = tx[w]
          BY <1>0, <4>1 DEF TxRows
        <4>3. u \in LSNs
          BY <1>0, <4>1 DEF LSNs
        <4> QED BY <4>1, <4>2, <4>3
      <3>2. CASE UndoPage(t)
        <4>1. /\ tx[t].pc = "clrFlushed" /\ UNCHANGED <<phase, recAtt>>
              /\ tx' = [tx EXCEPT ![t].pc = "undo", ![t].undo = log[u].prev]
          BY <3>2 DEF UndoPage, recVars
        <4>2. tx'[t].undo = log[u].prev /\ tx'[t].pc = "undo" /\ \A w \in Txns : w # t => tx'[w] = tx[w]
          BY <1>0, <4>1 DEF TxRows
        <4>3. u \in LSNs /\ log[u].op = "SET"
          BY <1>0, <4>1 DEF HasItsRecord
        <4> QED BY <4>1, <4>2, <4>3
      <3> QED BY <1>9, <3>1, <3>2
    <2>2. v \in Int /\ v < u
      <3>1. u # NoLSN
        BY <1>0, <2>1 DEF LSNs, NoLSN
      <3> QED BY <2>1, <3>1, BackLink
    <2>3. tx[t].pc \in {"undo", "clrFlushed"}
      BY <1>9 DEF UndoSkip, UndoPage
    <2>4. UndoOf(tx'[t]) < UndoOf(tx[t])
      BY <1>1, <2>1, <2>2, <2>3 DEF UndoOf
    <2> QED BY <2>1, <2>3, <2>4 DEF RowLower, StageOf, UndoPCs, RollbackPCs
  <1>10. ~AbortLog(t) /\ ~Finish(t)
    BY DEF AbortLog, MayStartHandler, Finish
  <1> QED BY <1>3, <1>4, <1>5, <1>6, <1>7, <1>8, <1>9, <1>10 DEF TxRollback, DoRollback, TxEnd

\* A step of a rollback that the undo phase has begun brings recovery nearer to its end, and no
\* other handler runs while it does (recovery.go:258-310, 474).
LEMMA HandlerNearer ==
    ASSUME DurabilityInv, DurabilityInv', LinkInv, ProgressInv, LeftOk, LeftOk', phase # "up",
           NEW t \in Txns,
           TxStart(t) \/ TxUpdate(t) \/ TxCommit(t) \/ TxRollback(t) \/ DoRollback(t) \/ TxEnd(t)
    PROVE  <<RecoveryLeft', RecoveryLeft>> \in RecoveryOrder
  <1>1. tx[t].pc # "none" => phase = "undo" /\ tx[t].pc \in UndoPCs
    BY LinkFacts
  <1>2. ~TxStart(t) /\ ~TxUpdate(t) /\ ~TxCommit(t)
    BY <1>1
    DEF TxStart, StartLog, StartSet, MayStartHandler, TxUpdate, UpdateLog, UpdateLink, UpdatePage,
        TxCommit, CommitLog, CommitFlush, CommitSet, UndoPCs, RollbackPCs
  <1>3. tx[t].pc # "none"
    BY <1>2
    DEF TxRollback, AbortLog, AbortFlush, RollbackSet, DoRollback, UndoStop, UndoSet, UndoSkip,
        ClrFlush, UndoPage, TxEnd, EndLog, Finish
  <1>4. /\ RowLower(tx'[t], tx[t]) /\ tx'[t].pc \in UndoPCs
        /\ phase' = phase /\ \A u \in Txns : u # t => tx'[u] = tx[u]
        /\ recAtt' = recAtt \/ recAtt' = [recAtt EXCEPT ![t] = Entry("aborting", tx[t].lsn)]
    BY <1>1, <1>2, <1>3, RowSteps
  <1>5. recAtt[t] # Absent /\ recAtt \in [Txns -> Entries]
    <2>1. recAtt[t].status \in {"running", "aborting"}
      BY <1>1, <1>3 DEF ProgressInv, LosersOk
    <2>2. recAtt \in [Txns -> Entries]
      BY StateFacts DEF TypeOK, ATTs
    <2> QED BY <2>1, <2>2 DEF Absent
  <1>6. Unfinished' = Unfinished
    <2>1. Entry("aborting", tx[t].lsn) # Absent
      BY DEF Entry, Absent
    <2> QED BY <1>4, <1>5, <2>1 DEF Unfinished
  <1>7. tx'[t] \in TxRows /\ tx'[t].pc # "none"
    BY <1>4 DEF DurabilityInv, TypeOK, UndoPCs, RollbackPCs
  <1> QED BY <1>1, <1>3, <1>4, <1>6, <1>7, RollbackNearer DEF ProgressInv

\* A transaction leaves the rebuilt table (recovery.go:441, 477).
LEMMA EntryGone ==
    ASSUME DurabilityInv, LeftOk, LeftOk', NEW t \in Txns, recAtt[t] # Absent,
           recAtt' = [recAtt EXCEPT ![t] = Absent], phase \in {"winners", "undo"}, phase' = phase
    PROVE  <<RecoveryLeft', RecoveryLeft>> \in RecoveryOrder
  <1>1. recAtt \in [Txns -> Entries]
    BY StateFacts DEF TypeOK, ATTs
  <1>2. Unfinished' = Unfinished \ {t} /\ t \in Unfinished
    BY <1>1 DEF Unfinished
  <1>3. ItemsLeft' < ItemsLeft
    BY <1>2, UnfinishedFinite DEF ItemsLeft
  <1> QED BY <1>3, NearerItems DEF PhaseLeft

\* A winner or a loser that is done leaves the table, and one that is taken up begins its
\* rollback (recovery.go:430-480).
LEMMA LoserNearer ==
    ASSUME DurabilityInv, ProgressInv, LeftOk, LeftOk', NEW t \in Txns,
           EndWinner(t) \/ RecoverLoser(t)
    PROVE  <<RecoveryLeft', RecoveryLeft>> \in RecoveryOrder
  <1>1. CASE EndWinner(t)
    <2>1. recAtt[t] # Absent
      BY <1>1 DEF EndWinner, Absent
    <2> QED BY <1>1, <2>1, EntryGone DEF EndWinner
  <1>2. CASE LoserUndone(t)
    <2>1. recAtt[t] # Absent
      BY <1>2 DEF LoserUndone, ProgressInv, LosersOk, Absent
    <2> QED BY <1>2, <2>1, EntryGone DEF LoserUndone
  <1>3. ASSUME NEW pc \in {"abort", "undo"}, NEW lsn, NEW undo, GotoWith(t, pc, lsn, undo),
               phase = "undo", NoUndoRunning, UNCHANGED recVars
        PROVE  <<RecoveryLeft', RecoveryLeft>> \in RecoveryOrder
    <2>1. RollbackOf(tx) = <<5, 0>>
      BY <1>3, RollbackNone DEF NoUndoRunning
    <2>2. /\ tx'[t].pc = pc /\ \A u \in Txns : u # t => tx'[u] = tx[u]
      BY <1>3, StateFacts DEF GotoWith, TypeOK
    <2>3. RollbackOf(tx') = <<StageOf(tx'[t]), UndoOf(tx'[t])>>
      <3>1. tx'[t].pc # "none" /\ \A u \in Txns : tx'[u].pc # "none" => u = t
        BY <1>3, <2>2 DEF NoUndoRunning
      <3> QED BY <3>1, RollbackIs
    <2>4. StageOf(tx'[t]) \in 0 .. 4
      BY <2>2 DEF StageOf
    <2>5. RollbackOf(tx') \in Nat \X Nat
      BY DEF LeftOk
    <2>6. <<RollbackOf(tx'), RollbackOf(tx)>> \in PairOrder
      <3>1. StageOf(tx'[t]) \in Nat /\ UndoOf(tx'[t]) \in Nat /\ StageOf(tx'[t]) < 5
        BY <2>3, <2>4, <2>5
      <3> QED BY <2>1, <2>3, <3>1, PairLess
    <2>7. PhaseLeft' = PhaseLeft /\ ItemsLeft' = ItemsLeft
      BY <1>3 DEF recVars, PhaseLeft, ItemsLeft, Unfinished
    <2> QED BY <2>6, <2>7, NearerRollback
  <1>4. CASE UndoRunningLoser(t)
    BY <1>3, <1>4 DEF UndoRunningLoser
  <1>5. CASE UndoAbortingLoser(t)
    BY <1>3, <1>5 DEF UndoAbortingLoser
  <1> QED BY <1>1, <1>2, <1>4, <1>5 DEF RecoverLoser

\* The scans of the log, and the steps from one phase to the next (recovery.go:318-455).
LEMMA ScanNearer ==
    ASSUME DurabilityInv, LeftOk, LeftOk', RecoverScan \/ WinnersDone \/ RecoverDone
    PROVE  <<RecoveryLeft', RecoveryLeft>> \in RecoveryOrder
  <1>1. CASE Analyze \/ Redo
    <2>1. /\ phase \in {"analysis", "redo"} /\ phase' = phase /\ log' = log /\ recPos' = recPos + 1
          /\ recPos \in 1 .. Len(log)
      BY <1>1 DEF Analyze, Redo, logVars
    <2>2. Len(log) \in Nat
      BY StateFacts
    <2>3. ItemsLeft' < ItemsLeft /\ PhaseLeft' = PhaseLeft
      BY <2>1, <2>2 DEF ItemsLeft, PhaseLeft
    <2> QED BY <2>3, NearerItems
  <1>2. CASE AnalysisDone \/ RedoDone \/ WinnersDone \/ RecoverDone
    <2>1. PhaseLeft' < PhaseLeft
      BY <1>2 DEF AnalysisDone, RedoDone, WinnersDone, RecoverDone, PhaseLeft
    <2> QED BY <2>1, NearerPhase
  <1> QED BY <1>1, <1>2 DEF RecoverScan

\* All steps together: each of them but a crash and the flush of a page goes down.
LEMMA NextDescends ==
    ASSUME DurabilityInv, DurabilityInv', LinkInv, ProgressInv, LeftOk, LeftOk', Next
    PROVE  RecoveryDescends
  <1> SUFFICES ASSUME phase # "up" PROVE
          \/ Crash
          \/ <<RecoveryLeft', RecoveryLeft>> \in RecoveryOrder
          \/ RecoveryLeft' = RecoveryLeft /\ \E p \in Pages : FlushPage(p)
    BY DEF RecoveryDescends
  <1>1. ~Checkpoint /\ ~Idle
    <2>1. ckpt.pc = "idle"
      BY DEF LinkInv, CkptLinks
    <2> QED BY <2>1
        DEF Checkpoint, CkptBegin, CkptATT, CkptDPT, CkptEnd, CkptFlush, CkptMaster, Idle
  <1>2. ASSUME NEW p \in Pages, FlushPage(p) PROVE RecoveryLeft' = RecoveryLeft
    <2>1. UNCHANGED <<log, tx, phase, recPos, recAtt>>
      BY <1>2 DEF FlushPage, recVars
    <2> QED BY <2>1 DEF RecoveryLeft, PhaseLeft, ItemsLeft, Unfinished
  <1> QED BY <1>1, <1>2, HandlerNearer, LoserNearer, ScanNearer DEF Next

-----------------------------------------------------------------------------
(* The invariant is kept. *)

\* Who is left after the winners runs or aborts, and a rollback of the undo phase keeps its
\* transaction in the table (recovery.go:430-480).
LEMMA NextLosers ==
    ASSUME DurabilityInv, LinkInv, LosersOk, [Next]_vars
    PROVE  LosersOk'
  <1> SUFFICES ASSUME phase' = "undo"
               PROVE  \A u \in Txns :
                         /\ recAtt'[u].status # "commited"
                         /\ tx'[u].pc # "none" => recAtt'[u].status \in {"running", "aborting"}
    BY DEF LosersOk
  <1>0. recAtt \in [Txns -> Entries] /\ tx \in [Txns -> TxRows]
    BY StateFacts DEF TypeOK, ATTs
  <1>1. ASSUME phase = "undo", NEW t \in Txns,
               \A u \in Txns : u # t => tx'[u] = tx[u] /\ recAtt'[u] = recAtt[u],
               recAtt'[t].status # "commited",
               tx'[t].pc # "none" => recAtt'[t].status \in {"running", "aborting"}
        PROVE  LosersOk'
    BY <1>1 DEF LosersOk
  <1>2. ASSUME UNCHANGED <<tx, recAtt>>, phase' = phase PROVE LosersOk'
    BY <1>2 DEF LosersOk
  <1>3. ASSUME NEW t \in Txns, TxStart(t) \/ TxUpdate(t) \/ TxCommit(t) PROVE FALSE
    <2>1. tx[t].pc = "none" \/ phase = "up" \/ tx[t].pc \in UndoPCs
      BY LinkFacts
    <2>2. phase = "up"
      BY <1>3, <2>1
      DEF TxStart, StartLog, StartSet, MayStartHandler, TxUpdate, UpdateLog, UpdateLink, UpdatePage,
          TxCommit, CommitLog, CommitFlush, CommitSet, UndoPCs, RollbackPCs
    <2>3. phase' = phase
      BY <1>3
      DEF TxStart, StartLog, StartSet, TxUpdate, UpdateLog, UpdateLink, UpdatePage,
          TxCommit, CommitLog, CommitFlush, CommitSet, recVars
    <2> QED BY <2>2, <2>3
  <1>4. ASSUME NEW t \in Txns, TxRollback(t) \/ DoRollback(t) \/ TxEnd(t) PROVE LosersOk'
    <2>1. phase = "undo" /\ tx[t].pc # "none"
      BY <1>4
      DEF TxRollback, AbortLog, AbortFlush, RollbackSet, DoRollback, UndoStop, UndoSet, UndoSkip,
          ClrFlush, UndoPage, TxEnd, EndLog, Finish, recVars
    <2>2. tx[t].pc \in UndoPCs
      BY <2>1, LinkFacts
    <2>3. /\ \A u \in Txns : u # t => tx'[u] = tx[u]
          /\ recAtt' = recAtt \/ recAtt' = [recAtt EXCEPT ![t] = Entry("aborting", tx[t].lsn)]
      BY <1>4, <2>1, <2>2, RowSteps
    <2>4. recAtt[t].status \in {"running", "aborting"}
      BY <2>1 DEF LosersOk
    <2>5. /\ \A u \in Txns : u # t => recAtt'[u] = recAtt[u]
          /\ recAtt'[t].status \in {"running", "aborting"}
      BY <1>0, <2>3, <2>4 DEF Entry
    <2> QED BY <1>1, <2>1, <2>3, <2>5
  <1>5. ASSUME NEW t \in Txns, EndWinner(t) \/ RecoverLoser(t) PROVE LosersOk'
    <2>1. ~EndWinner(t) /\ phase = "undo"
      BY <1>5
      DEF EndWinner, RecoverLoser, UndoRunningLoser, UndoAbortingLoser, LoserUndone
    <2>2. CASE UndoRunningLoser(t) \/ UndoAbortingLoser(t)
      <3>1. /\ recAtt' = recAtt /\ recAtt[t].status \in {"running", "aborting"}
            /\ \A u \in Txns : u # t => tx'[u] = tx[u]
        BY <1>0, <2>2 DEF UndoRunningLoser, UndoAbortingLoser, GotoWith, recVars
      <3> QED BY <1>1, <2>1, <3>1
    <2>3. CASE LoserUndone(t)
      <3>1. /\ recAtt' = [recAtt EXCEPT ![t] = Absent] /\ tx' = [tx EXCEPT ![t] = TxIdle]
        BY <2>3 DEF LoserUndone
      <3>2. /\ \A u \in Txns : u # t => tx'[u] = tx[u] /\ recAtt'[u] = recAtt[u]
            /\ recAtt'[t].status = "absent" /\ tx'[t].pc = "none"
        BY <1>0, <3>1 DEF Absent, TxIdle
      <3> QED BY <1>1, <2>1, <3>2
    <2> QED BY <1>5, <2>1, <2>2, <2>3 DEF RecoverLoser
  <1>6. CASE WinnersDone
    <2>1. \A t \in Txns : recAtt[t].status # "commited" /\ tx[t].pc = "none"
      BY <1>6, LinkFacts DEF WinnersDone
    <2>2. recAtt' = recAtt /\ tx' = tx
      BY <1>6 DEF WinnersDone
    <2> QED BY <2>1, <2>2
  <1>7. ~RecoverScan /\ ~RecoverDone /\ ~Crash
    BY DEF RecoverScan, Analyze, AnalysisDone, Redo, RedoDone, RecoverDone, Crash
  <1>8. ASSUME Checkpoint \/ (\E p \in Pages : FlushPage(p)) \/ Idle \/ UNCHANGED vars
        PROVE  LosersOk'
    <2>1. tx' = tx /\ recAtt' = recAtt /\ phase' = phase
      BY <1>8
      DEF Checkpoint, CkptBegin, CkptATT, CkptDPT, CkptEnd, CkptFlush, CkptMaster, FlushPage, Idle,
          vars, recVars
    <2> QED BY <1>2, <2>1
  <1>9. LosersOk' \/ WinnersDone
    <2>1. CASE Next
      BY <1>3, <1>4, <1>5, <1>7, <1>8, <2>1 DEF Next
    <2>2. CASE UNCHANGED vars
      BY <1>8, <2>2
    <2> QED BY <2>1, <2>2
  <1> QED BY <1>6, <1>9 DEF LosersOk

\* The redo phase reads the log from a record on to its end (recovery.go:375).
LEMMA NextRedoScan ==
    ASSUME DurabilityInv, RedoScanOk, [Next]_vars
    PROVE  RedoScanOk'
  <1>0. Len(log) \in Nat /\ recPos \in Nat
    BY StateFacts DEF TypeOK, LSN
  <1>1. CASE phase' # "redo"
    BY <1>1 DEF RedoScanOk
  <1>2. CASE AnalysisDone /\ phase' = "redo"
    <2>1. recPos' \in 1 .. Len(log) /\ log' = log
      BY <1>2 DEF AnalysisDone, logVars
    <2> QED BY <1>0, <2>1 DEF RedoScanOk
  <1>3. CASE Redo
    <2>1. recPos \in 1 .. Len(log) /\ recPos' = recPos + 1 /\ log' = log
      BY <1>3 DEF Redo, logVars
    <2> QED BY <1>0, <2>1 DEF RedoScanOk
  <1>4. CASE LogGrows /\ UNCHANGED <<phase, recPos>>
    <2>1. Len(log) <= Len(log') /\ Len(log') \in Nat
      BY <1>0, <1>4 DEF LogGrows
    <2> QED BY <1>0, <1>4, <2>1 DEF RedoScanOk
  <1>5. Crash \/ LogGrows
    BY NextGrows
  <1>6. \/ phase' # "redo" \/ Redo \/ AnalysisDone
        \/ UNCHANGED <<phase, recPos>>
    <2> DEFINE Still == phase' = phase /\ recPos' = recPos
    <2>1. ASSUME NEW t \in Txns, TxStart(t) \/ TxUpdate(t) \/ TxCommit(t) PROVE Still
      BY <2>1
      DEF recVars, TxStart, StartLog, StartSet, TxUpdate, UpdateLog, UpdateLink, UpdatePage,
          TxCommit, CommitLog, CommitFlush, CommitSet
    <2>2. ASSUME NEW t \in Txns, TxRollback(t) \/ DoRollback(t) \/ TxEnd(t) PROVE Still
      BY <2>2
      DEF recVars, TxRollback, AbortLog, AbortFlush, RollbackSet, DoRollback, UndoStop, UndoSet,
          UndoSkip, ClrFlush, UndoPage, TxEnd, EndLog, Finish
    <2>3. ASSUME NEW t \in Txns, EndWinner(t) \/ RecoverLoser(t) PROVE Still
      BY <2>3 DEF recVars, EndWinner, RecoverLoser, UndoRunningLoser, UndoAbortingLoser, LoserUndone
    <2>4. ASSUME Checkpoint \/ (\E p \in Pages : FlushPage(p)) \/ Idle \/ UNCHANGED vars
          PROVE  Still
      BY <2>4
      DEF Checkpoint, CkptBegin, CkptATT, CkptDPT, CkptEnd, CkptFlush, CkptMaster, FlushPage, Idle,
          vars, recVars
    <2>5. CASE RecoverScan \/ WinnersDone \/ RecoverDone \/ Crash
      BY <2>5 DEF RecoverScan, Analyze, RedoDone, WinnersDone, RecoverDone, Crash
    <2> HIDE DEF Still
    <2>6. Still \/ RecoverScan \/ WinnersDone \/ RecoverDone \/ Crash
      BY <2>1, <2>2, <2>3, <2>4 DEF Next
    <2> QED BY <2>5, <2>6 DEF Still
  <1>7. Crash => phase' # "redo"
    BY DEF Crash
  <1> QED BY <1>1, <1>2, <1>3, <1>4, <1>5, <1>6, <1>7

\* Every step keeps the invariant, and the initial state has it.
LEMMA NextProgress ==
    ASSUME DurabilityInv, DurabilityInv', LinkInv, ProgressInv, [Next]_vars
    PROVE  ProgressInv'
  BY TakesTurns, NextDptBounds, NextOneUndo, NextLosers, NextRedoScan DEF ProgressInv

\* There is nothing to recover at first.
LEMMA InitProgress == Init => ProgressInv
  <1> SUFFICES ASSUME Init PROVE ProgressInv
    OBVIOUS
  <1>1. PageInv /\ phase = "up"
    BY InitPage DEF Init
  <1> QED BY <1>1 DEF PageInv, LocksInv, DptInv, ProgressInv, LosersOk, RedoScanOk

\* GetMinRecLSN finds a record of the log when some page is dirty (recovery.go:357).
LEMMA MinExists ==
    ASSUME DurabilityInv, DptBounds, recDpt # EmptyDPT
    PROVE  \E l \in LSNs : MinRecLSN(l)
  <1> DEFINE T == {n \in Nat : \E p \in Pages : recDpt[p] = n}
  <1>0. recDpt \in [Pages -> LSN \cup {NoLSN}] /\ Len(log) \in Nat
    BY StateFacts DEF TypeOK, DPTs
  <1>1. PICK p \in Pages : recDpt[p] # NoLSN
    BY <1>0 DEF EmptyDPT
  <1>2. recDpt[p] \in T
    BY <1>0, <1>1 DEF LSN
  <1>3. PICK m \in T : \A n \in T : ~(<<n, m>> \in OpToRel(<, Nat))
    <2>1. T \subseteq Nat /\ T # {}
      BY <1>2
    <2> HIDE DEF T
    <2> QED BY <2>1, NatLessThanWellFounded, WFMin
  <1>4. m \in Nat /\ \A n \in T : n \in Nat /\ m <= n
    <2>1. T \subseteq Nat
      OBVIOUS
    <2> HIDE DEF T
    <2>2. \A n \in T : n \in Nat /\ ~(n < m)
      BY <1>3, <2>1 DEF OpToRel
    <2> QED BY <2>1, <2>2
  <1>5. PICK q \in Pages : recDpt[q] = m
    OBVIOUS
  <1>6. m \in LSNs
    <2>1. m <= Len(log)
      BY <1>5 DEF DptBounds
    <2>2. m \in LSN \cup {NoLSN}
      BY <1>0, <1>5
    <2> QED BY <1>0, <1>4, <2>1, <2>2 DEF LSN, NoLSN, LSNs
  <1>7. ASSUME NEW r \in Pages, recDpt[r] # NoLSN PROVE m <= recDpt[r]
    <2>1. recDpt[r] \in T
      BY <1>0, <1>7 DEF LSN
    <2> QED BY <1>4, <2>1
  <1> QED BY <1>5, <1>6, <1>7 DEF MinRecLSN

\* In every phase some guard holds: by the scans' bounds, MinExists, and the place of every
\* rollback in the log (recovery.go:263, 357, 438-480).
LEMMA NotStuck == ASSUME DurabilityInv, LinkInv, ProgressInv PROVE RecoveryNeverStuck
  <1> SUFFICES ASSUME phase # "up"
               PROVE  ScanReady \/ LoserReady \/ \E t \in Txns : RollbackReady(t)
    BY DEF RecoveryNeverStuck
  <1>0. Len(log) \in Nat /\ recPos \in LSN /\ phase \in {"analysis", "redo", "winners", "undo"}
    BY StateFacts DEF TypeOK
  <1>1. CASE phase # "undo"
    <2>1. recPos \in LSNs \/ recPos > Len(log)
      BY <1>0 DEF LSN, LSNs
    <2>2. recDpt = EmptyDPT \/ \E l \in LSNs : MinRecLSN(l)
      BY MinExists DEF ProgressInv
    <2> QED BY <1>0, <1>1, <2>1, <2>2 DEF ScanReady
  <1>2. CASE phase = "undo" /\ NoUndoRunning
    <2>1. ASSUME NEW t \in Txns, recAtt[t] # Absent
          PROVE  recAtt[t].status \in {"running", "aborting"}
      <3>1. recAtt[t].status # "absent"
        BY <2>1, LinkFacts DEF EntryLink
      <3>2. recAtt[t].status \in {"absent", "running", "commited", "aborting"}
        BY StateFacts DEF Entries, Statuses
      <3> QED BY <1>2, <3>1, <3>2 DEF ProgressInv, LosersOk
    <2>2. recAtt \in [Txns -> Entries]
      BY StateFacts DEF TypeOK, ATTs
    <2>3. recAtt = EmptyATT \/ \E t \in Txns : recAtt[t] # Absent
      BY <2>2 DEF EmptyATT
    <2> QED BY <1>2, <2>1, <2>3 DEF LoserReady
  <1>3. CASE phase = "undo" /\ ~NoUndoRunning
    <2>1. PICK t \in Txns : tx[t].pc # "none"
      BY <1>3 DEF NoUndoRunning
    <2>2. tx[t].pc \in UndoPCs
      BY <1>3, <2>1, LinkFacts
    <2>3. CASE tx[t].pc = "undo" /\ tx[t].undo # NoLSN
      <3>1. Readable(t)
        BY <2>3, UndoReads
      <3>2. tx[t].undo \in 1 .. Len(log)
        BY <3>1, StateFacts DEF Readable
      <3>3. log[tx[t].undo] \in LogRecords
        BY <3>2, StateFacts
      <3>4. log[tx[t].undo].op \in {"START", "SET", "CLR", "COMMIT", "ABORT", "END"}
        BY <3>1, <3>3 DEF Readable, LogRecords
      <3> QED BY <1>3, <2>3, <3>1, <3>4 DEF RollbackReady
    <2>4. CASE tx[t].pc # "undo" \/ tx[t].undo = NoLSN
      BY <1>3, <2>2, <2>4 DEF RollbackReady, UndoPCs, RollbackPCs
    <2> QED BY <2>3, <2>4
  <1> QED BY <1>0, <1>1, <1>2, <1>3

-----------------------------------------------------------------------------
(* What follows of it. *)

\* Whatever a checkpoint overlaps, the undo phase rolls back one loser at a time, each of
\* them in the table, and no table names a record that is not in the log: with any number
\* of checkpoints and crashes (recovery.go:357, 430-480).
THEOREM ProgressKept == Spec => []ProgressInv
  <1>1. DurabilityInv /\ DurabilityInv' /\ LinkInv /\ ProgressInv /\ [Next]_vars => ProgressInv'
    BY NextProgress
  <1> QED BY <1>1, InitProgress, Durability, LinksKept, PTL DEF Spec

\* Short of a crash, every step of a recovery but the flush of a page takes it down in a
\* well-founded order: it scans on, unlists a transaction, or undoes an earlier record
\* than before (recovery.go:258-310, 318-490).
THEOREM RecoveryGoesDown == Spec => [][RecoveryDescends]_vars
  <1>1. DurabilityInv /\ LinkInv /\ ProgressInv => LeftOk
    BY LeftFacts DEF ProgressInv
  <1>2. DurabilityInv /\ DurabilityInv' /\ LinkInv /\ ProgressInv /\ LeftOk /\ LeftOk' /\ [Next]_vars
            => [RecoveryDescends]_vars
    BY NextDescends
  <1> QED BY <1>1, <1>2, Durability, LinksKept, ProgressKept, PTL DEF Spec

\* And until it is up again there is a step of it whose guard holds: the scan always
\* finds where to begin, and no rollback is left without the record it must read
\* (recovery.go:263, 357, 438-480).
THEOREM RecoveryGoesOn == Spec => []RecoveryNeverStuck
  <1>1. DurabilityInv /\ LinkInv /\ ProgressInv => RecoveryNeverStuck
    BY NotStuck
  <1> QED BY <1>1, Durability, LinksKept, ProgressKept, PTL
=============================================================================
