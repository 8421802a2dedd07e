--------------------------- MODULE TableScanProofs ---------------------------
(***************************************************************************)
(* A scan reads what is committed or its own, the slot an Insert found     *)
(* stays free, and a scan that is over has every record: for any number of *)
(* transactions, blocks and slots.                                         *)
(***************************************************************************)
EXTENDS TableScan, WellFoundedInduction, TLAPS

USE DEF Calls, Seen

AllBlocks == Blocks \cup {EndOfFile}
InFile == {r \in RIDs : r[1] < size}

\* An exclusive lock excludes every other one.
Exclusive ==
    \A t, u \in Txns, b \in AllBlocks :
        t # u /\ held[<<t, b>>] = "X" => held[<<u, b>>] = "none"

\* What a transaction changed is locked, and its undo has the committed flag.
UndoKept ==
    \A t \in Txns, r \in RIDs :
        /\ <<r, TRUE>> \in undo[t] => r \in committed
        /\ <<r, FALSE>> \in undo[t] => r \notin committed
        /\ r \in Changed(t) => held[<<t, r[1]>>] = "X"

\* A flag that nobody has changed is as the last commit left it.
Clean ==
    \A r \in RIDs : (\A t \in Txns : r \notin Changed(t)) => (r \in used <=> r \in committed)

\* Flags are those of blocks in the file.
Bounded ==
    /\ used \subseteq InFile /\ committed \subseteq InFile
    /\ \A t \in Txns : Changed(t) \subseteq InFile

\* A block that waits for Format is the last one, and only its transaction has reached it.
FreshBlock ==
    \A t \in Txns : op[t].pc = "format" =>
        /\ held[<<t, EndOfFile>>] = "X"
        /\ scan[t].blk = size - 1
        /\ \A u \in Txns \ {t} : scan[u].blk # size - 1
        /\ \A r \in RIDs : r[1] = size - 1 =>
              r \notin used /\ r \notin committed /\ \A u \in Txns : r \notin Changed(u)

\* Where the scan stands in each call.
Standing(t) ==
    /\ op[t].pc \in {"search", "mark", "last", "format"} => scan[t].blk # None
    /\ op[t].pc = "mark" => scan[t].slot >= 0
    /\ op[t].pc = "mark" /\ op[t].kind = "insert" => held[<<t, scan[t].blk>>] # "none"
    /\ op[t].pc = "size" => op[t].kind = "open"
    /\ op[t].pc \in {"append", "format"} => op[t].kind \in {"open", "insert"}
    /\ op[t].pc = "append" /\ op[t].kind = "open" => size = 0 /\ held[<<t, EndOfFile>>] # "none"
    /\ op[t].pc = "format" => scan[t].slot = -1
    /\ op[t].pc = "format" /\ op[t].kind = "open" => scan[t].blk = 0
    /\ op[t].pc \in {"search", "last"} => op[t].kind \in {"next", "insert"}
    /\ (\/ scan[t].blk = None
        \/ op[t].pc \in {"size", "append", "format"}
        \/ op[t].kind = "insert" /\ op[t].pc \in {"search", "mark", "last"}) => seen[t] = Unknown

\* The RIDs the search has gone past.
Passed(t, r) ==
    \/ r[1] < scan[t].blk
    \/ r[1] = scan[t].blk /\ (r[2] <= scan[t].slot \/ op[t].pc = "last")

\* A record that Next returned is locked, and so is everything it went past.
Covered(t) ==
    /\ \A r \in seen[t].rids : held[<<t, r[1]>>] # "none"
    /\ seen[t].scope = "fresh" =>
          \A r \in RIDs : Passed(t, r) =>
              held[<<t, r[1]>>] # "none" /\ (r \in View(t) => r \in seen[t].rids)
    /\ seen[t].scope = "all" =>
          /\ held[<<t, EndOfFile>>] # "none"
          /\ \A r \in InFile :
                held[<<t, r[1]>>] # "none" /\ (r \in View(t) => r \in seen[t].rids)


\* What holds of each transaction.
Mine(t) ==
    /\ Standing(t) /\ Covered(t)
    /\ seen[t].rids \subseteq View(t)
    /\ op[t].kind = "insert" /\ op[t].pc = "mark" => <<scan[t].blk, scan[t].slot>> \notin used

Inv ==
    /\ TypeOK /\ Exclusive /\ UndoKept /\ Clean /\ Bounded /\ FreshBlock
    /\ \A t \in Txns : Mine(t)

-----------------------------------------------------------------------------
\* A step of t takes locks, gives none back, and leaves those of others alone.
Grown(t) ==
    /\ held' \in [Txns \X AllBlocks -> {"none", "S", "X"}]
    /\ Exclusive'
    /\ \A u \in Txns, c \in AllBlocks :
          /\ u # t => held'[<<u, c>>] = held[<<u, c>>]
          /\ held[<<u, c>>] # "none" => held'[<<u, c>>] # "none"
          /\ held[<<u, c>>] = "X" => held'[<<u, c>>] = "X"

\* With a shared lock nobody else has an exclusive one (transaction.go:84).
LEMMA SharedTaken ==
    ASSUME NEW t \in Txns, NEW b \in AllBlocks, TypeOK, Exclusive, SLock(t, b)
    PROVE  /\ Grown(t) /\ held'[<<t, b>>] # "none"
           /\ \A u \in Txns \ {t} : held[<<u, b>>] # "X"
  <1>0. held \in [Txns \X AllBlocks -> {"none", "S", "X"}]
    BY DEF TypeOK, AllBlocks
  <1>1. CASE held[<<t, b>>] # "none"
    BY <1>0, <1>1 DEF SLock, Grown, Exclusive
  <1>2. CASE held[<<t, b>>] = "none"
    <2>1. /\ \A u \in Txns \ {t} : held[<<u, b>>] # "X"
          /\ held' = [held EXCEPT ![<<t, b>>] = "S"]
      BY <1>0, <1>2 DEF SLock, Locks!Share, Locks!OthersOf, AllBlocks
    <2>2. Exclusive'
      BY <1>0, <1>2, <2>1 DEF Exclusive
    <2> QED BY <1>0, <1>2, <2>1, <2>2 DEF Grown
  <1> QED BY <1>1, <1>2

\* With an exclusive lock nobody else has any (transaction.go:97).
LEMMA ExclusiveTaken ==
    ASSUME NEW t \in Txns, NEW b \in AllBlocks, TypeOK, Exclusive, XLock(t, b)
    PROVE  /\ Grown(t) /\ held'[<<t, b>>] = "X"
           /\ \A u \in Txns \ {t} : held[<<u, b>>] = "none"
  <1>0. held \in [Txns \X AllBlocks -> {"none", "S", "X"}]
    BY DEF TypeOK, AllBlocks
  <1>1. CASE held[<<t, b>>] = "X"
    BY <1>0, <1>1 DEF XLock, Grown, Exclusive
  <1>2. CASE held[<<t, b>>] # "X"
    <2>1. /\ \A u \in Txns \ {t} : held[<<u, b>>] = "none"
          /\ held' = [held EXCEPT ![<<t, b>>] = "X"]
      BY <1>0, <1>2 DEF XLock, Locks!Exclude, Locks!OthersOf, AllBlocks
    <2>2. Exclusive'
      BY <1>0, <1>2, <2>1 DEF Exclusive
    <2> QED BY <1>0, <1>2, <2>1, <2>2 DEF Grown
  <1> QED BY <1>1, <1>2

\* A step that takes no lock leaves them as they were.
LEMMA NoneTaken ==
    ASSUME NEW t \in Txns, TypeOK, Exclusive, UNCHANGED held
    PROVE  Grown(t)
  BY DEF Grown, Exclusive, TypeOK, AllBlocks

-----------------------------------------------------------------------------
\* The state of other transactions, and what they have locked, is left alone.
Isolated(t) ==
    /\ \A u \in Txns \ {t} :
          /\ op'[u] = op[u] /\ scan'[u] = scan[u] /\ undo'[u] = undo[u] /\ seen'[u] = seen[u]
          /\ \A b \in AllBlocks : held'[<<u, b>>] = held[<<u, b>>]
          /\ \A r \in RIDs : held[<<u, r[1]>>] # "none" =>
                (r \in used' <=> r \in used) /\ (r \in committed' <=> r \in committed)
          /\ size' = size \/ held[<<u, EndOfFile>>] = "none"

\* What holds for another transaction goes on to hold.
LEMMA OthersKept ==
    ASSUME NEW t \in Txns, NEW u \in Txns \ {t}, Inv, Isolated(t), size' \in Nat
    PROVE  Mine(u)'
  <1>0. /\ TypeOK /\ Mine(u) /\ \A r \in RIDs : r[1] \in AllBlocks
        /\ op'[u] = op[u] /\ scan'[u] = scan[u] /\ undo'[u] = undo[u] /\ seen'[u] = seen[u]
        /\ \A b \in AllBlocks : held'[<<u, b>>] = held[<<u, b>>]
        /\ \A r \in RIDs : held[<<u, r[1]>>] # "none" =>
              (r \in used' <=> r \in used) /\ (r \in committed' <=> r \in committed)
        /\ size' = size \/ held[<<u, EndOfFile>>] = "none"
        /\ EndOfFile \in AllBlocks
    BY DEF Inv, Isolated, RIDs, AllBlocks
  <1>1. Changed(u)' = Changed(u)
    BY <1>0 DEF Changed
  <1>2. \A r \in RIDs : held[<<u, r[1]>>] # "none" => (r \in View(u)' <=> r \in View(u))
    BY <1>0, <1>1 DEF View
  <1>3. Standing(u)'
    <2>1. op[u].pc = "mark" => scan[u].blk \in AllBlocks
      BY <1>0, SlotsAssumption DEF Mine, Standing, TypeOK, AllBlocks, Blocks
    <2> QED BY <1>0, <2>1 DEF Mine, Standing
  <1>4. Covered(u)'
    <2>1. \A r \in RIDs : Passed(u, r)' <=> Passed(u, r)
      BY <1>0 DEF Passed
    <2>2. seen[u].rids \subseteq RIDs
      BY <1>0 DEF TypeOK
    <2>3. seen[u].scope = "all" => InFile' = InFile
      BY <1>0 DEF Mine, Covered, InFile
    <2>4. InFile \subseteq RIDs
      BY DEF InFile
    <2> QED BY <1>0, <1>2, <2>1, <2>2, <2>3, <2>4 DEF Mine, Covered
  <1>5. (seen[u].rids \subseteq View(u))'
    BY <1>0, <1>2 DEF Mine, Covered, TypeOK
  <1>6. (op[u].kind = "insert" /\ op[u].pc = "mark" => <<scan[u].blk, scan[u].slot>> \notin used)'
    <2>1. op[u].pc = "mark" /\ op[u].kind = "insert" =>
             /\ <<scan[u].blk, scan[u].slot>> \in RIDs
             /\ held[<<u, scan[u].blk>>] # "none"
      BY <1>0, SlotsAssumption DEF Mine, Standing, TypeOK, RIDs, Blocks
    <2> QED BY <1>0, <2>1 DEF Mine
  <1> QED BY <1>3, <1>4, <1>5, <1>6 DEF Mine

\* Without a change of a flag the lists, the clean slots and the bounds stay right.
LEMMA DataKept ==
    ASSUME NEW t \in Txns, Inv, Grown(t), UNCHANGED <<used, committed, undo>>,
           size' \in Nat, size' >= size
    PROVE  UndoKept' /\ Clean' /\ Bounded'
  <1>1. \A u \in Txns : Changed(u)' = Changed(u)
    BY DEF Changed
  <1>2. \A r \in RIDs : r[1] \in AllBlocks
    BY DEF RIDs, AllBlocks
  <1>3. UndoKept'
    BY <1>1, <1>2 DEF Inv, UndoKept, Grown
  <1>4. Clean'
    BY <1>1 DEF Inv, Clean
  <1>5. InFile \subseteq InFile'
    BY DEF InFile, RIDs, Blocks, Inv, TypeOK
  <1> QED BY <1>1, <1>3, <1>4, <1>5 DEF Inv, Bounded

-----------------------------------------------------------------------------
(* The steps that change no flag. *)

\* Such a step of t keeps the invariant if it keeps the types and what holds of t.
LEMMA QuietStep ==
    ASSUME NEW t \in Txns, Inv, Grown(t), TypeOK', Mine(t)',
           UNCHANGED <<size, used, committed, undo>>,
           op'[t].pc # "format",
           \A u \in Txns \ {t} : op'[u] = op[u] /\ scan'[u] = scan[u] /\ seen'[u] = seen[u],
           \A u \in Txns \ {t} : op[u].pc = "format" => scan'[t].blk # size - 1
    PROVE  Inv'
  <1>1. size \in Nat /\ EndOfFile \in AllBlocks /\ \A r \in RIDs : r[1] \in AllBlocks
    BY SlotsAssumption DEF Inv, TypeOK, AllBlocks, RIDs
  <1>2. UndoKept' /\ Clean' /\ Bounded'
    BY <1>1, DataKept
  <1>3. Isolated(t)
    BY <1>1 DEF Isolated, Grown
  <1>4. \A u \in Txns : Mine(u)'
    BY <1>1, <1>3, OthersKept
  <1>5. \A u \in Txns : Changed(u)' = Changed(u)
    BY DEF Changed
  <1>6. FreshBlock'
    BY <1>1, <1>5 DEF Inv, FreshBlock, Grown
  <1> QED BY <1>2, <1>4, <1>6 DEF Inv, Grown

\* A block that waits for Format has not been seen.
LEMMA FreshUnseen ==
    ASSUME NEW t \in Txns, NEW u \in Txns, Inv, op[u].pc = "format",
           NEW r \in seen[t].rids
    PROVE  r[1] # size - 1
  <1>1. r \in RIDs /\ (r \in used \/ r \in committed)
    BY DEF Inv, Mine, View
  <1> QED BY <1>1 DEF Inv, FreshBlock

\* And so does what a transaction sees.
LEMMA ViewKept ==
    ASSUME NEW t \in Txns, UNCHANGED <<used, committed, undo>>
    PROVE  View(t)' = View(t)
  BY DEF View, Changed

\* NewTableScan begins to read the size (tablescan.go:22).
LEMMA OpenKeeps == ASSUME NEW t \in Txns, Inv, Open(t) PROVE Inv'
  <1>1. Grown(t)
    BY NoneTaken DEF Inv, Open
  <1>2. TypeOK'
    BY DEF Inv, TypeOK, Open
  <1>3. op'[t] = [kind |-> "open", pc |-> "size"] /\ scan[t].blk = None /\ seen[t] = Unknown
    BY DEF Open, Inv, TypeOK, Mine, Standing
  <1>4. Mine(t)'
    BY <1>3, ViewKept DEF Open, Mine, Standing, Covered, Unknown
  <1> QED BY <1>1, <1>2, <1>3, <1>4, QuietStep DEF Open, Inv, TypeOK, FreshBlock

\* NewTableScan at the first block, or at a new one (tablescan.go:29).
LEMMA OpenSizeKeeps == ASSUME NEW t \in Txns, Inv, OpenSize(t) PROVE Inv'
  <1>1. /\ Grown(t) /\ held'[<<t, EndOfFile>>] # "none"
        /\ \A u \in Txns \ {t} : op[u].pc # "format"
    BY SharedTaken DEF Inv, OpenSize, SLockSize, AllBlocks, FreshBlock
  <1>2. UNCHANGED <<size, used, committed, undo>> /\ TypeOK
    BY DEF OpenSize, Inv
  <1>3. seen[t] = Unknown /\ op[t].pc = "size" /\ op[t].kind = "open"
    BY DEF OpenSize, Inv, Mine, Standing
  <1>4. CASE size = 0
    <2>1. op' = [op EXCEPT ![t].pc = "append"] /\ seen' = seen /\ scan' = scan
      BY <1>4 DEF OpenSize, Goto
    <2>2. op'[t].pc = "append" /\ op'[t].kind = op[t].kind
      BY <1>2, <2>1 DEF TypeOK
    <2>3. Mine(t)'
      BY <1>1, <1>2, <1>3, <1>4, <2>1, <2>2 DEF Mine, Standing, Covered, Unknown
    <2>4. TypeOK'
      BY <1>1, <1>2, <2>1 DEF TypeOK, Grown, AllBlocks
    <2> QED BY <1>1, <1>2, <2>1, <2>2, <2>3, <2>4, QuietStep DEF TypeOK
  <1>5. CASE size # 0
    <2>1. /\ op' = [op EXCEPT ![t] = Idle] /\ seen' = [seen EXCEPT ![t] = Nothing]
          /\ scan' = [scan EXCEPT ![t] = [blk |-> 0, slot |-> -1]]
      BY <1>5 DEF OpenSize, Return, MoveTo
    <2>2. /\ op'[t] = Idle /\ seen'[t] = Nothing /\ scan'[t] = [blk |-> 0, slot |-> -1]
          /\ \A u \in Txns \ {t} : op'[u] = op[u] /\ scan'[u] = scan[u] /\ seen'[u] = seen[u]
      BY <1>2, <2>1 DEF TypeOK
    <2>3. 0 # None
      BY <1>2, <1>5, NoneAssumption, SlotsAssumption DEF TypeOK
    <2>4. Mine(t)'
      BY <2>2, <2>3 DEF Mine, Standing, Covered, Nothing, Idle, Passed, RIDs, Blocks
    <2>5. TypeOK'
      BY <1>1, <1>2, <1>5, <2>1, SlotsAssumption DEF TypeOK, Grown, AllBlocks, Idle, Nothing
    <2> QED BY <1>1, <1>2, <2>2, <2>4, <2>5, QuietStep DEF Idle
  <1> QED BY <1>4, <1>5

\* BeforeFirst forgets what the scan has covered (tablescan.go:138).
LEMMA BeforeFirstKeeps == ASSUME NEW t \in Txns, Inv, BeforeFirst(t) PROVE Inv'
  <1>1. Grown(t)
    BY NoneTaken DEF Inv, BeforeFirst
  <1>2. /\ scan[t].blk \in 0 .. size - 1 /\ size \in Nat /\ 0 # None
        /\ op'[t].pc = "idle" /\ seen'[t] = Nothing /\ scan'[t] = [blk |-> 0, slot |-> -1]
    BY NoneAssumption, SlotsAssumption DEF BeforeFirst, MoveTo, Inv, TypeOK
  <1>3. TypeOK'
    BY <1>2, SlotsAssumption DEF Inv, TypeOK, BeforeFirst, MoveTo, Nothing
  <1>4. Mine(t)'
    BY <1>2 DEF Mine, Standing, Covered, Nothing, Passed, RIDs, Blocks
  <1>5. \A u \in Txns \ {t} : op[u].pc = "format" => scan'[t].blk # size - 1
    <2>1. \A u \in Txns \ {t} : op[u].pc = "format" => scan[t].blk # size - 1
      BY DEF Inv, FreshBlock
    <2> QED BY <1>2, <2>1
  <1> QED BY <1>1, <1>2, <1>3, <1>4, <1>5, QuietStep DEF BeforeFirst, MoveTo, Inv, TypeOK

\* MoveToRid goes to a record the scan has returned before (tablescan.go:49).
LEMMA MoveToRidKeeps == ASSUME NEW t \in Txns, Inv, MoveToRid(t) PROVE Inv'
  <1>1. Grown(t)
    BY NoneTaken DEF Inv, MoveToRid
  <1>2. PICK r \in seen[t].rids : MoveTo(t, r[1], r[2])
    BY DEF MoveToRid
  <1>3. r \in InFile
    BY DEF Inv, Mine, View, Bounded
  <1>4. /\ scan'[t] = [blk |-> r[1], slot |-> r[2]] /\ r[1] # None /\ r[1] \in 0 .. size - 1
        /\ r[2] \in 0 .. Slots - 1
        /\ op'[t].pc = "idle" /\ seen'[t] = Unknown
    BY <1>2, <1>3, NoneAssumption, SlotsAssumption
       DEF MoveToRid, MoveTo, Inv, TypeOK, InFile, RIDs, Blocks
  <1>5. TypeOK'
    <2>1. /\ TypeOK /\ UNCHANGED <<size, used, committed, held, op, undo>>
          /\ scan' = [scan EXCEPT ![t] = [blk |-> r[1], slot |-> r[2]]]
          /\ seen' = [seen EXCEPT ![t] = Unknown]
      BY <1>2 DEF Inv, MoveToRid, MoveTo
    <2>2. [blk |-> r[1], slot |-> r[2]] \in [blk : {None} \cup 0 .. size - 1, slot : -1 .. Slots - 1]
      <3>1. r[2] \in -1 .. Slots - 1
        BY <1>4, SlotsAssumption
      <3> QED BY <1>4, <3>1
    <2>3. Unknown \in Seen
      BY DEF Unknown
    <2> QED BY <2>1, <2>2, <2>3 DEF TypeOK
  <1>6. Mine(t)'
    BY <1>4 DEF Mine, Standing, Covered, Unknown
  <1>7. \A u \in Txns \ {t} : op[u].pc = "format" => scan'[t].blk # size - 1
    BY <1>4, FreshUnseen
  <1> QED BY <1>1, <1>2, <1>4, <1>5, <1>6, <1>7, QuietStep DEF MoveToRid, MoveTo, Inv, TypeOK

\* Next begins its search behind the current slot (tablescan.go:142).
LEMMA NextRecordKeeps == ASSUME NEW t \in Txns, Inv, NextRecord(t) PROVE Inv'
  <1>1. Grown(t) /\ TypeOK /\ Mine(t)
    BY NoneTaken DEF Inv, NextRecord
  <1>2. /\ op'[t] = [kind |-> "next", pc |-> "search"] /\ scan[t].blk # None
        /\ seen'[t].rids = seen[t].rids /\ op[t].pc = "idle"
        /\ seen'[t].scope = IF seen[t].scope = "all" THEN "fresh" ELSE seen[t].scope
        /\ scan' = scan /\ UNCHANGED <<size, used, committed, held, undo>>
        /\ \A u \in Txns \ {t} : op'[u] = op[u] /\ seen'[u] = seen[u]
    BY <1>1 DEF NextRecord, Call, TypeOK
  <1>3. TypeOK'
    <2>1. op' \in [Txns -> Calls]
      BY <1>1 DEF TypeOK, NextRecord, Call
    <2>2. seen' \in [Txns -> Seen]
      BY <1>1 DEF TypeOK, NextRecord
    <2> QED BY <1>1, <1>2, <2>1, <2>2 DEF TypeOK
  <1>6. \A r \in RIDs : Passed(t, r)' <=> Passed(t, r)
    BY <1>2 DEF Passed
  <1>7. \A r \in RIDs : Passed(t, r) => r \in InFile
    BY <1>1, <1>2, SlotsAssumption DEF TypeOK, Passed, InFile, RIDs, Blocks
  <1>8. Mine(t)'
    BY <1>1, <1>2, <1>6, <1>7, ViewKept DEF Mine, Standing, Covered
  <1>9. \A u \in Txns \ {t} : op[u].pc = "format" => scan[t].blk # size - 1
    BY DEF Inv, FreshBlock
  <1> QED BY <1>1, <1>2, <1>3, <1>8, <1>9, QuietStep

\* Insert begins its search behind the current slot (tablescan.go:106).
LEMMA InsertKeeps == ASSUME NEW t \in Txns, Inv, Insert(t) PROVE Inv'
  <1>1. Grown(t) /\ TypeOK /\ Mine(t)
    BY NoneTaken DEF Inv, Insert
  <1>2. /\ op'[t] = [kind |-> "insert", pc |-> "search"] /\ scan[t].blk # None
        /\ seen'[t] = Unknown
        /\ scan' = scan /\ UNCHANGED <<size, used, committed, held, undo>>
        /\ \A u \in Txns \ {t} : op'[u] = op[u] /\ seen'[u] = seen[u]
    BY <1>1 DEF Insert, Call, TypeOK
  <1>3. TypeOK'
    BY <1>1 DEF TypeOK, Insert, Call, Unknown
  <1>4. Mine(t)'
    BY <1>2 DEF Mine, Standing, Covered, Unknown
  <1>5. \A u \in Txns \ {t} : op[u].pc = "format" => scan[t].blk # size - 1
    BY DEF Inv, FreshBlock
  <1> QED BY <1>1, <1>2, <1>3, <1>4, <1>5, QuietStep

\* Delete is about to clear the flag of the current slot (tablescan.go:134).
LEMMA DeleteKeeps == ASSUME NEW t \in Txns, Inv, Delete(t) PROVE Inv'
  <1>1. Grown(t) /\ TypeOK /\ Mine(t)
    BY NoneTaken DEF Inv, Delete
  <1>2. /\ op'[t] = [kind |-> "delete", pc |-> "mark"] /\ scan[t].blk # None
        /\ op[t].pc = "idle" /\ scan[t].slot >= 0
        /\ seen' = seen /\ scan' = scan /\ UNCHANGED <<size, used, committed, held, undo>>
        /\ \A u \in Txns \ {t} : op'[u] = op[u]
    BY <1>1 DEF Delete, Call, TypeOK
  <1>3. TypeOK'
    BY <1>1 DEF TypeOK, Delete, Call
  <1>4. \A r \in RIDs : Passed(t, r)' <=> Passed(t, r)
    BY <1>2 DEF Passed
  <1>5. Mine(t)'
    BY <1>1, <1>2, <1>4, ViewKept DEF Mine, Standing, Covered, InFile
  <1>6. \A u \in Txns \ {t} : op[u].pc = "format" => scan[t].blk # size - 1
    BY DEF Inv, FreshBlock
  <1> QED BY <1>1, <1>2, <1>3, <1>5, <1>6, QuietStep

\* A lock that is not granted ends the call and moves nothing (transaction.go:84).
LEMMA FailKeeps == ASSUME NEW t \in Txns, Inv, Fail(t) PROVE Inv'
  <1>1. Grown(t) /\ TypeOK /\ Mine(t)
    BY NoneTaken DEF Inv, Fail
  <1>2. /\ op'[t].pc = "failed"
        /\ seen' = seen /\ scan' = scan /\ UNCHANGED <<size, used, committed, held, undo>>
        /\ \A u \in Txns \ {t} : op'[u] = op[u]
    BY <1>1 DEF Fail, Goto, TypeOK
  <1>3. TypeOK'
    BY <1>1 DEF TypeOK, Fail, Goto
  <1>4. \A r \in RIDs : Passed(t, r)' => Passed(t, r)
    BY <1>2 DEF Passed
  <1>5. Mine(t)'
    <2>1. seen[t] # Unknown => Covered(t)'
      BY <1>1, <1>2, <1>4, ViewKept DEF Mine, Covered, InFile
    <2>2. Covered(t)'
      BY <1>2, <2>1 DEF Covered, Unknown
    <2> QED BY <1>1, <1>2, <2>2, ViewKept DEF Mine, Standing
  <1>6. \A u \in Txns \ {t} : op[u].pc = "format" => scan[t].blk # size - 1
    BY DEF Inv, FreshBlock
  <1> QED BY <1>1, <1>2, <1>3, <1>5, <1>6, QuietStep

-----------------------------------------------------------------------------
(* The search, under the shared lock of its block. *)

\* What nobody else may change is as t sees it.
LEMMA SeesUsed ==
    ASSUME NEW t \in Txns, NEW r \in RIDs, Inv,
           \A u \in Txns \ {t} : held[<<u, r[1]>>] # "X"
    PROVE  r \in View(t) <=> r \in used
  BY DEF View, Inv, Clean, UndoKept

\* First is the least of the slots that are searched for.
LEMMA FirstIsLeast ==
    ASSUME NEW S \in SUBSET Nat, S # {}
    PROVE  First(S) \in S /\ \A u \in S : First(S) <= u
  <1> DEFINE R == OpToRel(<, Nat)
  <1>1. \A x, y \in Nat : <<x, y>> \in R <=> x < y
    BY DEF OpToRel
  <1>2. IsWellFoundedOn(R, Nat)
    BY NatLessThanWellFounded
  <1> HIDE DEF R
  <1>3. PICK x \in S : \A y \in S : <<y, x>> \notin R
    BY <1>2, WFMin
  <1>4. x \in Nat /\ S \subseteq Nat
    OBVIOUS
  <1>5. \A y \in S : ~(y < x)
    BY <1>1, <1>3, <1>4
  <1>6. \A y \in S : x <= y
    BY <1>4, <1>5
  <1> QED BY <1>6 DEF First

\* The search stops at the first slot that fits; those it skipped do not (recordpage.go:100).
LEMMA FoundKeeps == ASSUME NEW t \in Txns, Inv, Found(t) PROVE Inv'
  <1> DEFINE b == scan[t].blk
             s == First(Candidates(t))
  <1>1. /\ TypeOK /\ Mine(t) /\ b \in Blocks /\ b \in AllBlocks /\ op[t].pc = "search"
        /\ SLock(t, b) /\ b # None /\ b \in 0 .. size - 1
    <2>1. TypeOK /\ Mine(t) /\ op[t].pc = "search" /\ b # None /\ SLock(t, b)
      BY DEF Inv, Found, SLockGet, Mine, Standing
    <2> QED BY <2>1, SlotsAssumption DEF TypeOK, Blocks, AllBlocks
  <1>2. Grown(t) /\ held'[<<t, b>>] # "none" /\ \A u \in Txns \ {t} : held[<<u, b>>] # "X"
    BY <1>1, SharedTaken DEF Inv
  <1>3. /\ s \in scan[t].slot + 1 .. Slots - 1
        /\ op[t].kind = "next" <=> <<b, s>> \in used
        /\ \A x \in scan[t].slot + 1 .. s - 1 : ~(op[t].kind = "next" <=> <<b, x>> \in used)
    <2>1. Candidates(t) \subseteq scan[t].slot + 1 .. Slots - 1
      BY DEF Candidates
    <2>2. scan[t].slot + 1 \in Nat /\ Slots \in Nat
      BY <1>1, SlotsAssumption DEF TypeOK
    <2>3. Candidates(t) \in SUBSET Nat /\ Candidates(t) # {}
      BY <2>1, <2>2 DEF Found
    <2>4. s \in Candidates(t) /\ \A u \in Candidates(t) : s <= u
      BY <2>3, FirstIsLeast
    <2> HIDE DEF s
    <2> QED BY <2>1, <2>2, <2>4 DEF Candidates
  <1> HIDE DEF s
  <1>4. s \in 0 .. Slots - 1 /\ <<b, s>> \in RIDs
    BY <1>1, <1>3, SlotsAssumption DEF TypeOK, RIDs
  <1>5. scan' = [scan EXCEPT ![t].slot = s] /\ UNCHANGED <<size, used, committed, undo>>
    BY DEF Found, s
  <1>6. /\ scan'[t] = [blk |-> b, slot |-> s]
        /\ \A u \in Txns \ {t} : scan'[u] = scan[u] /\ op[u] = op'[u] /\ seen[u] = seen'[u]
    BY <1>1, <1>5 DEF TypeOK, Found, Return, Goto
  <1>7. \A u \in Txns \ {t} : op[u].pc = "format" => scan'[t].blk # size - 1
    <2>1. \A u \in Txns \ {t} : op[u].pc = "format" => b # size - 1
      BY DEF Inv, FreshBlock
    <2> QED BY <1>6, <2>1
  <1>8. scan' \in [Txns -> [blk : {None} \cup 0 .. size' - 1, slot : -1 .. Slots - 1]]
    BY <1>1, <1>4, <1>5 DEF TypeOK
  <1>9. CASE op[t].kind = "next"
    <2>1. /\ op' = [op EXCEPT ![t] = Idle]
          /\ seen' = [seen EXCEPT ![t].rids = @ \cup {<<b, s>>}]
      BY <1>9 DEF Found, Return, s
    <2>2. /\ op'[t] = Idle /\ seen'[t].rids = seen[t].rids \cup {<<b, s>>}
          /\ seen'[t].scope = seen[t].scope
      BY <1>1, <2>1 DEF TypeOK
    <2>3. TypeOK'
      <3>1. op' \in [Txns -> Calls]
        BY <1>1, <2>1 DEF TypeOK, Idle
      <3>2. seen' \in [Txns -> Seen]
        BY <1>1, <1>4, <2>1 DEF TypeOK
      <3> QED BY <1>1, <1>2, <1>5, <1>8, <3>1, <3>2 DEF TypeOK, Grown, AllBlocks
    <2>4. \A r \in RIDs : r \in View(t)' <=> r \in View(t)
      BY <1>5, ViewKept
    <2>5. \A r \in RIDs : r[1] = b => (r \in View(t) <=> r \in used)
      BY <1>2, SeesUsed
    <2>6. \A r \in RIDs : r[1] \in AllBlocks
      BY DEF RIDs, AllBlocks
    <2>7. \A r \in RIDs : Passed(t, r)' =>
             \/ Passed(t, r) \/ r = <<b, s>>
             \/ r[1] = b /\ r \notin used
      <3>1. SUFFICES ASSUME NEW r \in RIDs, r[1] = b, r[2] <= s, r[2] > scan[t].slot, r[2] # s
                     PROVE  r \notin used
        <4>1. scan[t].slot \in Int /\ b \in Int
          BY <1>1 DEF TypeOK, Blocks
        <4>2. \A r \in RIDs : r[1] \in Int /\ r[2] \in Int /\ r = <<r[1], r[2]>>
          BY DEF RIDs, Blocks
        <4>3. \A r \in RIDs : Passed(t, r)' => r[1] < b \/ (r[1] = b /\ r[2] <= s)
          <5>1. scan'[t].blk = b /\ scan'[t].slot = s /\ op'[t].pc = "idle"
            BY <1>6, <2>2 DEF Idle
          <5> QED BY <4>1, <4>2, <5>1 DEF Passed
        <4> QED BY <1>4, <4>1, <4>2, <4>3 DEF Passed
      <3>2. r[2] \in scan[t].slot + 1 .. s - 1 /\ r = <<b, r[2]>>
        <4>1. scan[t].slot \in Int
          BY <1>1 DEF TypeOK
        <4>2. r[2] \in Int /\ r = <<r[1], r[2]>>
          BY DEF RIDs
        <4> QED BY <1>4, <3>1, <4>1, <4>2
      <3> QED BY <1>3, <1>9, <3>2
    <2>8. Covered(t)'
      <3>1. \A r \in seen'[t].rids : held'[<<t, r[1]>>] # "none"
        <4>1. \A r \in seen[t].rids : held'[<<t, r[1]>>] # "none"
          BY <1>1, <1>2, <2>6 DEF Mine, Covered, Grown, TypeOK
        <4> QED BY <1>2, <2>2, <4>1
      <3>2. seen'[t].scope = "fresh" =>
                \A r \in RIDs : Passed(t, r)' =>
                    held'[<<t, r[1]>>] # "none" /\ (r \in View(t)' => r \in seen'[t].rids)
        BY <1>1, <1>2, <2>2, <2>4, <2>5, <2>6, <2>7 DEF Mine, Covered, Grown
      <3>3. InFile' = InFile /\ InFile \subseteq RIDs
        BY <1>5 DEF InFile
      <3>4. EndOfFile \in AllBlocks
        BY DEF AllBlocks
      <3> QED BY <1>1, <1>2, <2>2, <2>4, <2>6, <3>1, <3>2, <3>3, <3>4 DEF Mine, Covered, Grown
    <2>9. (seen[t].rids \subseteq View(t))'
      BY <1>1, <1>3, <1>4, <1>5, <1>9, <2>2, <2>5, ViewKept DEF Mine
    <2>10. Standing(t)'
      BY <1>1, <1>6, <1>9, <2>2 DEF Standing, Idle
    <2>11. Mine(t)'
      BY <2>2, <2>8, <2>9, <2>10 DEF Mine, Idle
    <2> QED BY <1>2, <1>5, <1>6, <1>7, <2>2, <2>3, <2>11, QuietStep DEF Idle
  <1>10. CASE op[t].kind # "next"
    <2>1. op' = [op EXCEPT ![t].pc = "mark"] /\ seen' = seen
      BY <1>10 DEF Found, Goto
    <2>2. op'[t].pc = "mark" /\ op'[t].kind = op[t].kind
      BY <1>1, <2>1 DEF TypeOK
    <2>3. TypeOK'
      <3>1. op' \in [Txns -> Calls]
        BY <1>1, <2>1 DEF TypeOK
      <3> QED BY <1>1, <1>2, <1>5, <1>8, <2>1, <3>1 DEF TypeOK, Grown, AllBlocks
    <2>4. seen[t] = Unknown /\ op[t].kind = "insert"
      BY <1>1, <1>10 DEF Mine, Standing
    <2>5. <<b, s>> \notin used
      BY <1>3, <1>10
    <2>6. Mine(t)'
      BY <1>1, <1>2, <1>4, <1>5, <1>6, <2>1, <2>2, <2>4, <2>5
         DEF Mine, Standing, Covered, Unknown
    <2> QED BY <1>2, <1>5, <1>6, <1>7, <2>2, <2>3, <2>6, QuietStep
  <1> QED BY <1>9, <1>10

\* No slot of the block fits: all of it is covered (recordpage.go:141).
LEMMA NotFoundKeeps == ASSUME NEW t \in Txns, Inv, NotFound(t) PROVE Inv'
  <1> DEFINE b == scan[t].blk
  <1>1. /\ TypeOK /\ Mine(t) /\ b \in Blocks /\ b \in AllBlocks /\ op[t].pc = "search"
        /\ SLock(t, b) /\ b # None
    <2>1. TypeOK /\ Mine(t) /\ op[t].pc = "search" /\ b # None /\ SLock(t, b)
      BY DEF Inv, NotFound, SLockGet, Mine, Standing
    <2> QED BY <2>1, SlotsAssumption DEF TypeOK, Blocks, AllBlocks
  <1>2. Grown(t) /\ held'[<<t, b>>] # "none" /\ \A u \in Txns \ {t} : held[<<u, b>>] # "X"
    BY <1>1, SharedTaken DEF Inv
  <1>3. /\ scan' = [scan EXCEPT ![t].slot = -1] /\ op' = [op EXCEPT ![t].pc = "last"]
        /\ UNCHANGED <<size, used, committed, undo, seen>>
    BY DEF NotFound, Goto
  <1>4. /\ scan'[t].blk = b /\ scan'[t].slot = -1 /\ op'[t].pc = "last" /\ op'[t].kind = op[t].kind
        /\ \A u \in Txns \ {t} : scan'[u] = scan[u] /\ op'[u] = op[u]
    BY <1>1, <1>3 DEF TypeOK
  <1>5. TypeOK'
    <2>1. op' \in [Txns -> Calls]
      <3>1. op \in [Txns -> Calls] /\ op[t] \in Calls
        BY <1>1 DEF TypeOK
      <3>2. [op[t] EXCEPT !.pc = "last"] \in Calls
        BY <3>1 DEF Calls
      <3> QED BY <1>3, <3>1, <3>2
    <2>2. scan' \in [Txns -> [blk : {None} \cup 0 .. size - 1, slot : -1 .. Slots - 1]]
      <3>1. -1 \in -1 .. Slots - 1
        BY SlotsAssumption
      <3> QED BY <1>1, <1>3, <3>1 DEF TypeOK
    <2> QED BY <1>1, <1>2, <1>3, <2>1, <2>2 DEF TypeOK, Grown, AllBlocks
  <1>6. \A u \in Txns \ {t} : op[u].pc = "format" => scan'[t].blk # size - 1
    <2>1. \A u \in Txns \ {t} : op[u].pc = "format" => b # size - 1
      BY DEF Inv, FreshBlock
    <2> QED BY <1>4, <2>1
  <1>7. CASE op[t].kind = "next"
    <2>1. \A r \in RIDs : /\ r[1] \in AllBlocks /\ r[1] \in Int
                          /\ r[2] \in 0 .. Slots - 1 /\ r[2] \in Int /\ r = <<r[1], r[2]>>
      BY DEF RIDs, AllBlocks, Blocks
    <2>2. \A r \in RIDs : r[1] = b => (r \in View(t) <=> r \in used)
      BY <1>2, SeesUsed
    <2>3. \A r \in RIDs : Passed(t, r)' => Passed(t, r) \/ (r[1] = b /\ r \notin used)
      <3>1. SUFFICES ASSUME NEW r \in RIDs, r[1] = b, r[2] > scan[t].slot
                     PROVE  r \notin used
        <4>1. scan[t].slot \in Int /\ b \in Int
          BY <1>1 DEF TypeOK, Blocks
        <4>2. \A r \in RIDs : Passed(t, r)' => r[1] < b \/ r[1] = b
          BY <1>4 DEF Passed
        <4> QED BY <2>1, <4>1, <4>2 DEF Passed
      <3>2. r[2] \in scan[t].slot + 1 .. Slots - 1
        BY <1>1, <2>1, <3>1, SlotsAssumption DEF TypeOK
      <3> QED BY <1>7, <2>1, <3>1, <3>2 DEF NotFound, Candidates
    <2>4. \A r \in RIDs : r \in View(t)' <=> r \in View(t)
      BY <1>3, ViewKept
    <2>5. Covered(t)'
      <3>1. seen' = seen /\ InFile' = InFile /\ InFile \subseteq RIDs /\ EndOfFile \in AllBlocks
        BY <1>3 DEF InFile, AllBlocks
      <3>2. seen[t].rids \subseteq RIDs
        BY <1>1 DEF TypeOK
      <3>3. seen[t].scope = "fresh" =>
                \A r \in RIDs : Passed(t, r)' =>
                    held'[<<t, r[1]>>] # "none" /\ (r \in View(t)' => r \in seen[t].rids)
        BY <1>1, <1>2, <2>1, <2>2, <2>3, <2>4 DEF Mine, Covered, Grown
      <3> QED BY <1>1, <1>2, <2>1, <2>4, <3>1, <3>2, <3>3 DEF Mine, Covered, Grown
    <2>6. Mine(t)'
      BY <1>1, <1>3, <1>4, <1>7, <2>5, ViewKept DEF Mine, Standing
    <2> QED BY <1>2, <1>3, <1>4, <1>5, <1>6, <2>6, QuietStep
  <1>8. CASE op[t].kind # "next"
    <2>1. seen[t] = Unknown /\ op[t].kind = "insert"
      BY <1>1, <1>8 DEF Mine, Standing
    <2>2. Mine(t)'
      BY <1>1, <1>3, <1>4, <2>1 DEF Mine, Standing, Covered, Unknown
    <2> QED BY <1>2, <1>3, <1>4, <1>5, <1>6, <2>2, QuietStep
  <1> QED BY <1>7, <1>8

\* On to the next block of the file: the one before it is covered (tablescan.go:149).
LEMMA NextBlockKeeps == ASSUME NEW t \in Txns, Inv, NextBlock(t) PROVE Inv'
  <1> DEFINE b == scan[t].blk
  <1>1. /\ TypeOK /\ Mine(t) /\ b # None /\ op[t].pc = "last" /\ SLock(t, EndOfFile)
        /\ b \in 0 .. size - 1 /\ b # size - 1 /\ EndOfFile \in AllBlocks
    BY DEF Inv, NextBlock, SLockSize, Mine, Standing, AtLast, TypeOK, AllBlocks
  <1>2. Grown(t) /\ \A u \in Txns \ {t} : op[u].pc # "format"
    BY <1>1, SharedTaken DEF Inv, FreshBlock
  <1>3. /\ scan' = [scan EXCEPT ![t] = [blk |-> b + 1, slot |-> -1]]
        /\ op' = [op EXCEPT ![t].pc = "search"]
        /\ UNCHANGED <<size, used, committed, undo, seen>>
    BY DEF NextBlock, Goto, MoveTo, Behind
  <1>4. /\ scan'[t].blk = b + 1 /\ scan'[t].slot = -1
        /\ op'[t].pc = "search" /\ op'[t].kind = op[t].kind
        /\ \A u \in Txns \ {t} : scan'[u] = scan[u] /\ op'[u] = op[u]
    BY <1>1, <1>3 DEF TypeOK
  <1>5. b + 1 \in 0 .. size - 1 /\ b + 1 # None
    <2>1. size \in Int /\ size <= MaxBlocks /\ MaxBlocks \in Nat
      BY <1>1, SlotsAssumption DEF TypeOK
    <2>2. b + 1 \in 0 .. size - 1 /\ b + 1 \in 0 .. MaxBlocks - 1
      BY <1>1, <2>1
    <2> QED BY <2>2, NoneAssumption
  <1>6. TypeOK'
    <2>1. op' \in [Txns -> Calls]
      <3>1. op \in [Txns -> Calls] /\ op[t] \in Calls
        BY <1>1 DEF TypeOK
      <3>2. [op[t] EXCEPT !.pc = "search"] \in Calls
        BY <3>1 DEF Calls
      <3> QED BY <1>3, <3>1, <3>2
    <2>2. scan' \in [Txns -> [blk : {None} \cup 0 .. size - 1, slot : -1 .. Slots - 1]]
      <3>1. -1 \in -1 .. Slots - 1
        BY SlotsAssumption
      <3> QED BY <1>1, <1>3, <1>5, <3>1 DEF TypeOK
    <2> QED BY <1>1, <1>2, <1>3, <2>1, <2>2 DEF TypeOK, Grown, AllBlocks
  <1>7. \A r \in RIDs : Passed(t, r)' => Passed(t, r)
    <2>1. \A r \in RIDs : r[1] \in Int /\ r[2] \in 0 .. Slots - 1
      BY DEF RIDs, Blocks
    <2>2. \A r \in RIDs : Passed(t, r)' => r[1] < b + 1
      BY <1>4, <2>1 DEF Passed
    <2>3. b \in Int
      BY <1>1 DEF TypeOK
    <2> QED BY <1>1, <2>1, <2>2, <2>3 DEF Passed
  <1>8. Covered(t)'
    <2>1. \A r \in RIDs : r \in View(t)' <=> r \in View(t)
      BY <1>3, ViewKept
    <2>2. seen' = seen /\ InFile' = InFile /\ InFile \subseteq RIDs /\ \A r \in RIDs : r[1] \in AllBlocks
      BY <1>3 DEF InFile, AllBlocks, RIDs
    <2>3. seen[t].rids \subseteq RIDs
      BY <1>1 DEF TypeOK
    <2> QED BY <1>1, <1>2, <1>7, <2>1, <2>2, <2>3 DEF Mine, Covered, Grown
  <1>9. Mine(t)'
    BY <1>1, <1>3, <1>4, <1>5, <1>8, ViewKept DEF Mine, Standing
  <1> QED BY <1>2, <1>3, <1>4, <1>6, <1>9, QuietStep

\* Behind the last block an insert appends one, and a scan is at its end, where its lock holds
\* the size still (tablescan.go:112, 149).
LEMMA LastBlockKeeps == ASSUME NEW t \in Txns, Inv, LastBlock(t) PROVE Inv'
  <1> DEFINE b == scan[t].blk
  <1>1. /\ TypeOK /\ Mine(t) /\ b # None /\ op[t].pc = "last" /\ SLock(t, EndOfFile)
        /\ b = size - 1 /\ b \in 0 .. size - 1 /\ EndOfFile \in AllBlocks
    BY DEF Inv, LastBlock, SLockSize, Mine, Standing, AtLast, TypeOK, AllBlocks
  <1>2. /\ Grown(t) /\ held'[<<t, EndOfFile>>] # "none"
        /\ \A u \in Txns \ {t} : op[u].pc # "format"
    BY <1>1, SharedTaken DEF Inv, FreshBlock
  <1>3. scan' = scan /\ UNCHANGED <<size, used, committed, undo>>
    BY DEF LastBlock
  <1>4. CASE op[t].kind = "next"
    <2>1. /\ op' = [op EXCEPT ![t] = Idle]
          /\ seen' = [seen EXCEPT ![t].scope = IF @ = "fresh" THEN "all" ELSE @]
      BY <1>4 DEF LastBlock, Return
    <2>2. /\ op'[t] = Idle /\ seen'[t].rids = seen[t].rids
          /\ seen'[t].scope = IF seen[t].scope = "fresh" THEN "all" ELSE seen[t].scope
          /\ \A u \in Txns \ {t} : op'[u] = op[u] /\ seen'[u] = seen[u]
      BY <1>1, <2>1 DEF TypeOK
    <2>3. TypeOK'
      <3>1. op' \in [Txns -> Calls]
        BY <1>1, <2>1 DEF TypeOK, Idle
      <3>2. seen' \in [Txns -> Seen]
        BY <1>1, <2>1 DEF TypeOK
      <3> QED BY <1>1, <1>2, <1>3, <3>1, <3>2 DEF TypeOK, Grown, AllBlocks
    <2>4. \A r \in InFile : Passed(t, r) /\ r \in RIDs /\ r[1] \in AllBlocks
      <3>1. \A r \in RIDs : r[1] \in Int /\ r[1] \in AllBlocks
        BY DEF RIDs, AllBlocks, Blocks
      <3>2. size \in Int
        BY <1>1 DEF TypeOK
      <3> QED BY <1>1, <3>1, <3>2 DEF Passed, InFile
    <2>5. Covered(t)'
      <3>1. \A r \in RIDs : r \in View(t)' <=> r \in View(t)
        BY <1>3, ViewKept
      <3>2. InFile' = InFile /\ \A r \in RIDs : r[1] \in AllBlocks
        BY <1>3 DEF InFile, AllBlocks, RIDs
      <3>3. seen[t].rids \subseteq RIDs
        BY <1>1 DEF TypeOK
      <3>4. seen'[t].scope # "fresh"
        BY <2>2
      <3> QED BY <1>1, <1>2, <2>2, <2>4, <3>1, <3>2, <3>3, <3>4 DEF Mine, Covered, Grown
    <2>6. Mine(t)'
      BY <1>1, <1>3, <1>4, <2>2, <2>5, ViewKept DEF Mine, Standing, Idle
    <2> QED BY <1>2, <1>3, <2>2, <2>3, <2>6, QuietStep DEF Idle
  <1>5. CASE op[t].kind # "next"
    <2>1. op' = [op EXCEPT ![t].pc = "append"] /\ seen' = seen
      BY <1>5 DEF LastBlock, Goto
    <2>2. /\ op'[t].pc = "append" /\ op'[t].kind = op[t].kind
          /\ \A u \in Txns \ {t} : op'[u] = op[u]
      BY <1>1, <2>1 DEF TypeOK
    <2>3. TypeOK'
      <3>1. op' \in [Txns -> Calls]
        BY <1>1, <2>1 DEF TypeOK
      <3> QED BY <1>1, <1>2, <1>3, <2>1, <3>1 DEF TypeOK, Grown, AllBlocks
    <2>4. seen[t] = Unknown /\ op[t].kind = "insert"
      BY <1>1, <1>5 DEF Mine, Standing
    <2>5. Mine(t)'
      BY <1>1, <1>3, <2>1, <2>2, <2>4 DEF Mine, Standing, Covered, Unknown
    <2> QED BY <1>2, <1>3, <2>1, <2>2, <2>3, <2>5, QuietStep
  <1> QED BY <1>4, <1>5

-----------------------------------------------------------------------------
(* The steps that change the file: a new block, its Format, and a flag. *)

\* A new block lies behind all that is covered, and its creator has the lock on the end of
\* the file (tx/transaction.go:168).
LEMMA AppendBlockKeeps == ASSUME NEW t \in Txns, Inv, AppendBlock(t) PROVE Inv'
  <1>1. /\ TypeOK /\ Mine(t) /\ op[t].pc = "append" /\ size < MaxBlocks /\ size \in Nat
        /\ seen[t] = Unknown /\ op[t].kind \in {"open", "insert"}
        /\ op[t].kind = "open" => size = 0
        /\ XLock(t, EndOfFile) /\ EndOfFile \in AllBlocks /\ MaxBlocks \in Nat
    <2>1. TypeOK /\ Mine(t) /\ op[t].pc = "append" /\ size < MaxBlocks /\ XLock(t, EndOfFile)
      BY DEF Inv, AppendBlock
    <2>2. size \in Nat /\ MaxBlocks \in Nat /\ EndOfFile \in AllBlocks
      BY <2>1, SlotsAssumption DEF TypeOK, AllBlocks
    <2> QED BY <2>1, <2>2 DEF Mine, Standing
  <1>2. /\ Grown(t) /\ held'[<<t, EndOfFile>>] = "X"
        /\ \A u \in Txns \ {t} : held[<<u, EndOfFile>>] = "none"
    BY <1>1, ExclusiveTaken DEF Inv
  <1>3. /\ scan' = [scan EXCEPT ![t] = [blk |-> size, slot |-> -1]] /\ size' = size + 1
        /\ op' = [op EXCEPT ![t].pc = "format"] /\ UNCHANGED <<used, committed, undo, seen>>
    BY DEF AppendBlock, MoveTo, Goto
  <1>4. /\ scan'[t] = [blk |-> size, slot |-> -1]
        /\ op'[t].pc = "format" /\ op'[t].kind = op[t].kind
        /\ \A u \in Txns \ {t} : scan'[u] = scan[u] /\ op'[u] = op[u]
    BY <1>1, <1>3 DEF TypeOK
  <1>5. size # None /\ size \in 0 .. size' - 1 /\ size' \in 0 .. MaxBlocks /\ size' - 1 = size
    <2>1. size \in 0 .. MaxBlocks - 1
      BY <1>1
    <2> QED BY <1>1, <1>3, <2>1, NoneAssumption
  <1>6. TypeOK'
    <2>1. op' \in [Txns -> Calls]
      BY <1>1, <1>3 DEF TypeOK
    <2>2. \A u \in Txns : scan[u] \in [blk : {None} \cup 0 .. size' - 1, slot : -1 .. Slots - 1]
      BY <1>1, <1>3, <1>5 DEF TypeOK
    <2>3. scan' \in [Txns -> [blk : {None} \cup 0 .. size' - 1, slot : -1 .. Slots - 1]]
      BY <1>1, <1>3, <1>5, <2>2, SlotsAssumption DEF TypeOK
    <2> QED BY <1>1, <1>2, <1>3, <1>5, <2>1, <2>3 DEF TypeOK, Grown, AllBlocks
  <1>7. UndoKept' /\ Clean' /\ Bounded'
    BY <1>1, <1>2, <1>3, <1>5, DataKept
  <1>8. Mine(t)'
    BY <1>1, <1>3, <1>4, <1>5 DEF Mine, Standing, Covered, Unknown
  <1>9. Isolated(t)
    BY <1>1, <1>2, <1>3, <1>4 DEF Isolated, Grown, AllBlocks
  <1>10. \A u \in Txns : Mine(u)'
    BY <1>1, <1>3, <1>8, <1>9, OthersKept
  <1>11. FreshBlock'
    <2>1. \A u \in Txns \ {t} : op'[u].pc # "format"
      BY <1>2, <1>4 DEF Inv, FreshBlock
    <2>2. \A u \in Txns \ {t} : scan'[u].blk # size
      BY <1>1, <1>4, <1>5 DEF TypeOK
    <2>3. \A r \in RIDs : r[1] = size =>
             r \notin used' /\ r \notin committed' /\ \A u \in Txns : r \notin Changed(u)'
      BY <1>1, <1>3 DEF Inv, Bounded, InFile, Changed
    <2>4. ASSUME NEW v \in Txns, op'[v].pc = "format"
          PROVE  /\ held'[<<v, EndOfFile>>] = "X" /\ scan'[v].blk = size' - 1
                 /\ \A u \in Txns \ {v} : scan'[u].blk # size' - 1
                 /\ \A r \in RIDs : r[1] = size' - 1 =>
                       r \notin used' /\ r \notin committed' /\ \A u \in Txns : r \notin Changed(u)'
      <3>1. v = t
        BY <2>1, <2>4
      <3>2. scan'[t].blk = size
        BY <1>4
      <3> QED BY <1>2, <1>5, <2>2, <2>3, <3>1, <3>2
    <2> QED BY <2>4 DEF FreshBlock
  <1> QED BY <1>2, <1>6, <1>7, <1>10, <1>11 DEF Inv, Grown

\* Format finds no flag set in its block: it takes a lock and changes nothing.
LEMMA FormatKeeps == ASSUME NEW t \in Txns, Inv, Format(t) PROVE Inv'
  <1> DEFINE b == scan[t].blk
  <1>1. /\ TypeOK /\ Mine(t) /\ op[t].pc = "format" /\ op[t].kind \in {"open", "insert"}
        /\ seen[t] = Unknown /\ b # None /\ b \in 0 .. size - 1 /\ scan[t].slot = -1
        /\ op[t].kind = "open" => b = 0
    BY DEF Inv, Format, Mine, Standing, TypeOK
  <1>2. b \in AllBlocks /\ \A r \in used : r[1] # b
    <2>1. b \in AllBlocks
      BY <1>1, SlotsAssumption DEF TypeOK, AllBlocks, Blocks
    <2> QED BY <1>1, <2>1 DEF Inv, FreshBlock, TypeOK
  <1>3. Grown(t) /\ used' = used
    <2>1. CASE XLock(t, b) /\ used' = {r \in used : r[1] # b}
      BY <1>1, <1>2, <2>1, ExclusiveTaken DEF Inv
    <2>2. CASE UNCHANGED <<held, used>>
      BY <1>1, <2>2, NoneTaken DEF Inv
    <2> QED BY <2>1, <2>2 DEF Format
  <1>4. UNCHANGED <<size, used, committed, scan, undo>>
    BY <1>3 DEF Format
  <1>5. \A u \in Txns \ {t} : op[u].pc = "format" => b # size - 1
    BY DEF Inv, FreshBlock
  <1>6. CASE op[t].kind = "open"
    <2>1. op' = [op EXCEPT ![t] = Idle] /\ seen' = [seen EXCEPT ![t] = Nothing]
      BY <1>6 DEF Format, Return
    <2>2. /\ op'[t] = Idle /\ seen'[t] = Nothing
          /\ \A u \in Txns \ {t} : op'[u] = op[u] /\ seen'[u] = seen[u]
      BY <1>1, <2>1 DEF TypeOK
    <2>3. TypeOK'
      <3>1. op' \in [Txns -> Calls]
        BY <1>1, <2>1 DEF TypeOK, Idle
      <3>2. seen' \in [Txns -> Seen]
        BY <1>1, <2>1 DEF TypeOK, Nothing
      <3> QED BY <1>1, <1>3, <1>4, <3>1, <3>2 DEF TypeOK, Grown, AllBlocks
    <2>4. Mine(t)'
      <3>1. \A r \in RIDs : ~Passed(t, r)'
        <4>1. \A r \in RIDs : r[1] \in Nat /\ r[2] \in Nat
          BY DEF RIDs, Blocks
        <4>2. scan'[t].blk = 0 /\ scan'[t].slot = -1 /\ op'[t].pc # "last"
          BY <1>1, <1>4, <1>6, <2>2 DEF Idle
        <4> QED BY <4>1, <4>2 DEF Passed
      <3> QED BY <1>1, <1>4, <2>2, <3>1 DEF Mine, Standing, Covered, Nothing, Idle
    <2> QED BY <1>3, <1>4, <1>5, <2>2, <2>3, <2>4, QuietStep DEF Idle
  <1>7. CASE op[t].kind # "open"
    <2>1. op' = [op EXCEPT ![t].pc = "search"] /\ seen' = seen
      BY <1>7 DEF Format, Goto
    <2>2. /\ op'[t].pc = "search" /\ op'[t].kind = op[t].kind
          /\ \A u \in Txns \ {t} : op'[u] = op[u]
      BY <1>1, <2>1 DEF TypeOK
    <2>3. TypeOK'
      <3>1. op' \in [Txns -> Calls]
        BY <1>1, <2>1 DEF TypeOK
      <3> QED BY <1>1, <1>3, <1>4, <2>1, <3>1 DEF TypeOK, Grown, AllBlocks
    <2>4. Mine(t)'
      BY <1>1, <1>4, <1>7, <2>1, <2>2 DEF Mine, Standing, Covered, Unknown
    <2> QED BY <1>3, <1>4, <1>5, <2>1, <2>2, <2>3, <2>4, QuietStep
  <1> QED BY <1>6, <1>7

\* The value that SetFlag is to write is a slot with its flag.
LEMMA FlagPair ==
    ASSUME NEW S, NEW v \in S \X BOOLEAN
    PROVE  /\ v[1] \in S /\ (v = <<v[1], TRUE>> \/ v = <<v[1], FALSE>>)
           /\ v[2] => v = <<v[1], TRUE>>
  <1>1. PICK x \in S, y \in BOOLEAN : v = <<x, y>>
    OBVIOUS
  <1>2. CASE y = TRUE
    <2>1. v = <<x, TRUE>>
      BY <1>1, <1>2
    <2> QED BY <2>1
  <1>3. CASE y = FALSE
    <2>1. v = <<x, FALSE>>
      BY <1>1, <1>3
    <2> QED BY <2>1
  <1> QED BY <1>2, <1>3

\* An undo list has one entry for each flag it puts back.
LEMMA ChangedFlags ==
    ASSUME NEW t \in Txns, TypeOK, NEW r \in RIDs
    PROVE  /\ r \in Changed(t) <=> <<r, TRUE>> \in undo[t] \/ <<r, FALSE>> \in undo[t]
           /\ r \in {u[1] : u \in {v \in undo[t] : v[2]}} <=> <<r, TRUE>> \in undo[t]
  <1>0. undo[t] \subseteq RIDs \X BOOLEAN
    BY DEF TypeOK
  <1>1. \A v \in undo[t] : /\ v = <<v[1], TRUE>> \/ v = <<v[1], FALSE>>
                           /\ v[2] => v = <<v[1], TRUE>>
    BY <1>0, FlagPair
  <1>2. \A v \in {w \in undo[t] : w[2]} : v \in undo[t] /\ v = <<v[1], TRUE>>
    BY <1>1
  <1>3. <<r, TRUE>> \in undo[t] => <<r, TRUE>> \in {w \in undo[t] : w[2]}
    OBVIOUS
  <1>4. r \in {u[1] : u \in {v \in undo[t] : v[2]}} <=> <<r, TRUE>> \in undo[t]
    BY <1>2, <1>3
  <1> QED BY <1>1, <1>4 DEF Changed

\* What t has locked for itself, no other one has changed.
LEMMA OwnChanges ==
    ASSUME NEW t \in Txns, NEW r \in RIDs, Inv, \A u \in Txns \ {t} : held[<<u, r[1]>>] # "X"
    PROVE  /\ \A u \in Txns \ {t} : r \notin Changed(u)
           /\ r \notin Changed(t) => (r \in used <=> r \in committed)
  BY DEF Inv, UndoKept, Clean

\* A flag changes under an exclusive lock, with its old value kept for a rollback
\* (transaction.go:200).
LEMMA SetFlagKeeps == ASSUME NEW t \in Txns, Inv, SetFlag(t) PROVE Inv'
  <1> DEFINE b == scan[t].blk
             r0 == <<b, scan[t].slot>>
             to == op[t].kind = "insert"
  <1>1. /\ TypeOK /\ Mine(t) /\ op[t].pc = "mark" /\ b # None /\ scan[t].slot >= 0
        /\ XLock(t, b) /\ b \in 0 .. size - 1 /\ Change(t, r0, to)
        /\ op' = [op EXCEPT ![t] = Idle]
        /\ seen' = [seen EXCEPT ![t].rids = @ \ {r0}]
        /\ UNCHANGED <<size, committed, scan>>
    BY DEF Inv, SetFlag, Return, Mine, Standing, TypeOK
  <1>2. b \in AllBlocks /\ r0 \in RIDs /\ r0 \in InFile /\ r0[1] = b /\ size \in Nat
    <2>1. b \in Blocks /\ size \in Nat
      BY <1>1, SlotsAssumption DEF TypeOK, Blocks
    <2>2. scan[t].slot \in 0 .. Slots - 1
      BY <1>1, SlotsAssumption DEF TypeOK
    <2> QED BY <1>1, <2>1, <2>2 DEF AllBlocks, RIDs, InFile
  <1>3. /\ Grown(t) /\ held'[<<t, b>>] = "X"
        /\ \A u \in Txns \ {t} : held[<<u, b>>] = "none"
    BY <1>1, <1>2, ExclusiveTaken DEF Inv
  <1>4. /\ \A r \in RIDs : r # r0 => (r \in used' <=> r \in used)
        /\ r0 \in used' <=> to
        /\ used' \subseteq RIDs
    <2>1. used' = IF to THEN used \cup {r0} ELSE used \ {r0}
      BY <1>1 DEF Change
    <2>2. used \subseteq RIDs
      BY <1>1 DEF TypeOK
    <2> HIDE DEF r0, to
    <2> QED BY <1>2, <2>1, <2>2
  <1>5. /\ op'[t] = Idle /\ seen'[t].rids = seen[t].rids \ {r0} /\ seen'[t].scope = seen[t].scope
        /\ \A u \in Txns \ {t} : op'[u] = op[u] /\ seen'[u] = seen[u] /\ undo'[u] = undo[u]
    <2>1. undo \in [Txns -> SUBSET (RIDs \X BOOLEAN)] /\ seen \in [Txns -> Seen]
      BY <1>1 DEF TypeOK
    <2>2. \A u \in Txns \ {t} : undo'[u] = undo[u]
      BY <1>1, <2>1 DEF Change
    <2> HIDE DEF r0
    <2> QED BY <1>1, <2>1, <2>2 DEF TypeOK
  <1>6. /\ undo'[t] = IF r0 \in Changed(t) THEN undo[t] ELSE undo[t] \cup {<<r0, r0 \in used>>}
        /\ undo' \in [Txns -> SUBSET (RIDs \X BOOLEAN)]
    <2>1. undo \in [Txns -> SUBSET (RIDs \X BOOLEAN)]
      BY <1>1 DEF TypeOK
    <2>2. r0 \in Changed(t) <=> \E old \in BOOLEAN : <<r0, old>> \in undo[t]
      BY <1>1, <1>2, ChangedFlags
    <2>3. undo' = [undo EXCEPT ![t] = IF \E old \in BOOLEAN : <<r0, old>> \in @ THEN @
                                      ELSE @ \cup {<<r0, r0 \in used>>}]
      BY <1>1 DEF Change
    <2> HIDE DEF r0
    <2>4. <<r0, r0 \in used>> \in RIDs \X BOOLEAN
      <3>1. (r0 \in used) \in BOOLEAN
        OBVIOUS
      <3> QED BY <1>2, <3>1
    <2> QED BY <2>1, <2>2, <2>3, <2>4
  <1>7. TypeOK'
    <2>1. op' \in [Txns -> Calls]
      BY <1>1 DEF TypeOK, Idle
    <2>2. seen' \in [Txns -> Seen]
      <3> HIDE DEF r0
      <3> QED BY <1>1 DEF TypeOK
    <2> QED BY <1>1, <1>3, <1>4, <1>6, <2>1, <2>2 DEF TypeOK, Grown, AllBlocks
  <1> HIDE DEF r0
  <1>8. /\ \A u \in Txns \ {t} : r0 \notin Changed(u)
        /\ r0 \notin Changed(t) => (r0 \in used <=> r0 \in committed)
    BY <1>2, <1>3, OwnChanges
  <1>9. /\ \A r \in RIDs : r # r0 => /\ <<r, TRUE>> \in undo'[t] <=> <<r, TRUE>> \in undo[t]
                                     /\ <<r, FALSE>> \in undo'[t] <=> <<r, FALSE>> \in undo[t]
        /\ <<r0, TRUE>> \in undo'[t] => r0 \in committed
        /\ <<r0, FALSE>> \in undo'[t] => r0 \notin committed
        /\ <<r0, TRUE>> \in undo'[t] \/ <<r0, FALSE>> \in undo'[t]
    <2>1. CASE r0 \in Changed(t)
      <3>1. /\ <<r0, TRUE>> \in undo[t] \/ <<r0, FALSE>> \in undo[t]
            /\ undo'[t] = undo[t]
        BY <1>1, <1>2, <1>6, <2>1, ChangedFlags
      <3> QED BY <1>2, <3>1 DEF Inv, UndoKept
    <2>2. CASE r0 \notin Changed(t)
      <3>1. <<r0, TRUE>> \notin undo[t] /\ <<r0, FALSE>> \notin undo[t]
        BY <1>1, <1>2, <2>2, ChangedFlags
      <3>2. CASE r0 \in used
        <4>1. undo'[t] = undo[t] \cup {<<r0, TRUE>>}
          BY <1>6, <2>2, <3>2
        <4> QED BY <1>8, <2>2, <3>1, <3>2, <4>1
      <3>3. CASE r0 \notin used
        <4>1. undo'[t] = undo[t] \cup {<<r0, FALSE>>}
          <5>1. (r0 \in used) = FALSE
            BY <3>3
          <5> QED BY <1>6, <2>2, <5>1
        <4> QED BY <1>8, <2>2, <3>1, <3>3, <4>1
      <3> QED BY <3>2, <3>3
    <2> QED BY <2>1, <2>2
  <1>10. /\ \A r \in RIDs : r # r0 => (r \in Changed(t)' <=> r \in Changed(t))
         /\ r0 \in Changed(t)'
         /\ \A u \in Txns \ {t} : Changed(u)' = Changed(u)
         /\ \A u \in Txns : Changed(u) \subseteq RIDs /\ Changed(u)' \subseteq RIDs
    <2>1. \A r \in RIDs : r \in Changed(t)' <=> <<r, TRUE>> \in undo'[t] \/ <<r, FALSE>> \in undo'[t]
      <3>1. \A v \in undo'[t] : v = <<v[1], TRUE>> \/ v = <<v[1], FALSE>>
        <4>1. undo'[t] \subseteq RIDs \X BOOLEAN
          BY <1>6
        <4> QED BY <4>1, FlagPair
      <3> QED BY <3>1 DEF Changed
    <2>2. \A r \in RIDs : r \in Changed(t) <=> <<r, TRUE>> \in undo[t] \/ <<r, FALSE>> \in undo[t]
      BY <1>1, ChangedFlags
    <2>3. \A u \in Txns : Changed(u) \subseteq RIDs /\ Changed(u)' \subseteq RIDs
      <3>1. \A u \in Txns : undo[u] \subseteq RIDs \X BOOLEAN /\ undo'[u] \subseteq RIDs \X BOOLEAN
        BY <1>1, <1>6 DEF TypeOK
      <3>2. \A u \in Txns : /\ \A v \in undo[u] : v[1] \in RIDs
                           /\ \A v \in undo'[u] : v[1] \in RIDs
        BY <3>1
      <3> QED BY <3>2 DEF Changed
    <2> QED BY <1>2, <1>5, <1>9, <2>1, <2>2, <2>3 DEF Changed
  <1>11. \A r \in RIDs : r[1] \in AllBlocks
    BY DEF RIDs, AllBlocks
  <1>12. UndoKept'
    <2>1. ASSUME NEW u \in Txns, NEW r \in RIDs
          PROVE  /\ <<r, TRUE>> \in undo'[u] => r \in committed'
                 /\ <<r, FALSE>> \in undo'[u] => r \notin committed'
                 /\ r \in Changed(u)' => held'[<<u, r[1]>>] = "X"
      <3>1. CASE u = t
        <4>1. CASE r = r0
          BY <1>1, <1>2, <1>3, <1>9, <3>1, <4>1
        <4>2. CASE r # r0
          BY <1>1, <1>3, <1>9, <1>10, <1>11, <3>1, <4>2 DEF Inv, UndoKept, Grown
        <4> QED BY <4>1, <4>2
      <3>2. CASE u # t
        <4>1. undo'[u] = undo[u] /\ Changed(u)' = Changed(u) /\ committed' = committed
          BY <1>1, <1>5, <1>10, <3>2
        <4>2. held[<<u, r[1]>>] = "X" => held'[<<u, r[1]>>] = "X"
          BY <1>3, <1>11 DEF Grown
        <4> QED BY <4>1, <4>2 DEF Inv, UndoKept
      <3> QED BY <3>1, <3>2
    <2> QED BY <2>1 DEF UndoKept
  <1>13. Clean'
    BY <1>1, <1>4, <1>10 DEF Inv, Clean
  <1>14. Bounded'
    <2>1. InFile' = InFile
      BY <1>1 DEF InFile
    <2> QED BY <1>1, <1>2, <1>4, <1>10, <2>1 DEF Inv, Bounded, TypeOK
  <1>15. Isolated(t)
    BY <1>1, <1>2, <1>3, <1>4, <1>5, <1>11 DEF Isolated, Grown
  <1>16. FreshBlock'
    <2>1. \A u \in Txns : op'[u].pc = "format" => u # t /\ op[u].pc = "format"
      BY <1>5 DEF Idle
    <2>2. \A u \in Txns : op'[u].pc = "format" => r0[1] # size - 1
      BY <1>2, <2>1 DEF Inv, FreshBlock
    <2>3. EndOfFile \in AllBlocks
      BY DEF AllBlocks
    <2> QED BY <1>1, <1>3, <1>4, <1>10, <2>1, <2>2, <2>3 DEF Inv, FreshBlock, Grown
  <1>17. Mine(t)'
    <2>1. \A r \in RIDs : r # r0 => (r \in View(t)' <=> r \in View(t))
      BY <1>1, <1>4, <1>10 DEF View
    <2>2. ~to => r0 \notin View(t)'
      BY <1>4, <1>10 DEF View
    <2>3. \A r \in RIDs : Passed(t, r)' <=> Passed(t, r)
      BY <1>1, <1>5 DEF Passed, Idle
    <2>4. to => seen[t].scope = "other"
      BY <1>1 DEF Mine, Standing, Unknown
    <2>5. seen[t].rids \subseteq RIDs /\ InFile' = InFile /\ InFile \subseteq RIDs
      BY <1>1 DEF TypeOK, InFile
    <2>6. EndOfFile \in AllBlocks
      BY DEF AllBlocks
    <2>7. Covered(t)'
      BY <1>1, <1>3, <1>5, <1>11, <2>1, <2>2, <2>3, <2>4, <2>5, <2>6 DEF Mine, Covered, Grown
    <2>8. (seen[t].rids \subseteq View(t))'
      BY <1>1, <1>5, <2>1, <2>5 DEF Mine
    <2>9. Standing(t)'
      BY <1>1, <1>5 DEF Standing, Idle
    <2> QED BY <1>5, <2>7, <2>8, <2>9 DEF Mine, Idle
  <1>18. \A u \in Txns : Mine(u)'
    BY <1>1, <1>2, <1>15, <1>17, OthersKept
  <1> QED BY <1>3, <1>7, <1>12, <1>13, <1>14, <1>16, <1>18 DEF Inv, Grown

-----------------------------------------------------------------------------
(* The ends of a transaction. *)

\* Who ends gives up its locks, and nothing it changed is left uncommitted (concurrency.go:96).
LEMMA EndKeeps ==
    ASSUME NEW t \in Txns, Inv, End(t), used' \subseteq RIDs, committed' \subseteq RIDs,
           \A r \in RIDs : IF r \in Changed(t) THEN r \in used' <=> r \in committed'
                           ELSE (r \in used' <=> r \in used) /\ (r \in committed' <=> r \in committed),
           used' = used \/ committed' = committed
    PROVE  Inv'
  <1>1. /\ TypeOK /\ size' = size /\ size \in Nat
        /\ op' = [op EXCEPT ![t] = [kind |-> None, pc |-> "done"]]
        /\ scan' = [scan EXCEPT ![t] = NoScan] /\ undo' = [undo EXCEPT ![t] = {}]
        /\ seen' = [seen EXCEPT ![t] = Unknown]
        /\ held \in [Txns \X AllBlocks -> {"none", "S", "X"}]
    BY SlotsAssumption DEF Inv, End, TypeOK, AllBlocks
  <1>2. /\ op'[t].pc = "done" /\ scan'[t] = NoScan /\ undo'[t] = {} /\ seen'[t] = Unknown
        /\ \A u \in Txns \ {t} :
              op'[u] = op[u] /\ scan'[u] = scan[u] /\ undo'[u] = undo[u] /\ seen'[u] = seen[u]
    BY <1>1 DEF TypeOK
  <1>3. /\ \A c \in AllBlocks : held'[<<t, c>>] = "none"
        /\ \A u \in Txns \ {t}, c \in AllBlocks : held'[<<u, c>>] = held[<<u, c>>]
        /\ held' \in [Txns \X AllBlocks -> {"none", "S", "X"}]
    <2>1. held' = [x \in Txns \X AllBlocks |-> IF x[1] = t THEN "none" ELSE held[x]]
      BY <1>1 DEF End
    <2> QED BY <1>1, <2>1
  <1>4. TypeOK'
    <2>1. op' \in [Txns -> Calls]
      BY <1>1 DEF TypeOK
    <2>2. scan' \in [Txns -> [blk : {None} \cup 0 .. size - 1, slot : -1 .. Slots - 1]]
      BY <1>1, SlotsAssumption DEF TypeOK, NoScan
    <2>3. seen' \in [Txns -> Seen]
      BY <1>1 DEF TypeOK, Unknown
    <2>4. undo' \in [Txns -> SUBSET (RIDs \X BOOLEAN)]
      BY <1>1 DEF TypeOK
    <2> QED BY <1>1, <1>3, <2>1, <2>2, <2>3, <2>4 DEF TypeOK, AllBlocks
  <1>5. Exclusive'
    BY <1>3 DEF Inv, Exclusive
  <1>6. /\ Changed(t)' = {} /\ \A u \in Txns \ {t} : Changed(u)' = Changed(u)
        /\ Changed(t) \subseteq RIDs
    <2>1. Changed(t)' = {} /\ \A u \in Txns \ {t} : Changed(u)' = Changed(u)
      BY <1>2 DEF Changed
    <2>2. undo[t] \subseteq RIDs \X BOOLEAN
      BY <1>1 DEF TypeOK
    <2>3. \A v \in undo[t] : v[1] \in RIDs
      BY <2>2
    <2> QED BY <2>1, <2>3 DEF Changed
  <1>7. \A r \in RIDs : r[1] \in AllBlocks
    BY DEF RIDs, AllBlocks
  <1>8. \A u \in Txns \ {t}, r \in RIDs : held[<<u, r[1]>>] # "none" => r \notin Changed(t)
    BY <1>7 DEF Inv, UndoKept, Exclusive
  <1>9. UndoKept'
    <2>1. ASSUME NEW u \in Txns, NEW r \in RIDs
          PROVE  /\ <<r, TRUE>> \in undo'[u] => r \in committed'
                 /\ <<r, FALSE>> \in undo'[u] => r \notin committed'
                 /\ r \in Changed(u)' => held'[<<u, r[1]>>] = "X"
      <3>1. CASE u = t
        BY <1>2, <1>6, <3>1
      <3>2. CASE u # t
        <4>1. undo'[u] = undo[u] /\ Changed(u)' = Changed(u) /\ held'[<<u, r[1]>>] = held[<<u, r[1]>>]
          BY <1>2, <1>3, <1>6, <1>7, <3>2
        <4>2. r \in Changed(u) => held[<<u, r[1]>>] = "X"
          BY DEF Inv, UndoKept
        <4>3. <<r, TRUE>> \in undo[u] \/ <<r, FALSE>> \in undo[u] => r \notin Changed(t)
          BY <1>1, <1>8, <3>2, <4>2, ChangedFlags
        <4> QED BY <4>1, <4>2, <4>3 DEF Inv, UndoKept
      <3> QED BY <3>1, <3>2
    <2> QED BY <2>1 DEF UndoKept
  <1>10. Clean'
    <2>1. ASSUME NEW r \in RIDs, \A u \in Txns : r \notin Changed(u)'
          PROVE  r \in used' <=> r \in committed'
      <3>1. CASE r \in Changed(t)
        BY <3>1
      <3>2. CASE r \notin Changed(t)
        <4>1. \A u \in Txns : r \notin Changed(u)
          BY <1>6, <2>1, <3>2
        <4> QED BY <3>2, <4>1 DEF Inv, Clean
      <3> QED BY <3>1, <3>2
    <2> QED BY <2>1 DEF Clean
  <1>11. Bounded'
    <2>1. InFile' = InFile
      BY <1>1 DEF InFile
    <2>2. \A u \in Txns : Changed(u)' \subseteq InFile
      BY <1>6 DEF Inv, Bounded
    <2> QED BY <2>1, <2>2 DEF Inv, Bounded
  <1>12. FreshBlock'
    <2>1. ASSUME NEW v \in Txns, op'[v].pc = "format"
          PROVE  /\ held'[<<v, EndOfFile>>] = "X" /\ scan'[v].blk = size' - 1
                 /\ \A u \in Txns \ {v} : scan'[u].blk # size' - 1
                 /\ \A r \in RIDs : r[1] = size' - 1 =>
                       r \notin used' /\ r \notin committed' /\ \A u \in Txns : r \notin Changed(u)'
      <3>1. v # t /\ op[v].pc = "format" /\ EndOfFile \in AllBlocks
        BY <1>2, <2>1 DEF AllBlocks
      <3>2. /\ held[<<v, EndOfFile>>] = "X" /\ scan[v].blk = size - 1 /\ scan[v].blk # None
            /\ \A u \in Txns \ {v} : scan[u].blk # size - 1
        BY <3>1 DEF Inv, FreshBlock, Mine, Standing
      <3>3. \A u \in Txns \ {v} : scan'[u].blk # size' - 1
        BY <1>1, <1>2, <3>2 DEF NoScan
      <3>4. \A r \in RIDs : r[1] = size - 1 =>
               r \notin used /\ r \notin committed /\ \A u \in Txns : r \notin Changed(u)
        BY <3>1 DEF Inv, FreshBlock
      <3> QED BY <1>1, <1>2, <1>3, <1>6, <3>1, <3>2, <3>3, <3>4
    <2> QED BY <2>1 DEF FreshBlock
  <1>13. Isolated(t)
    BY <1>1, <1>2, <1>3, <1>8 DEF Isolated
  <1>14. Mine(t)'
    BY <1>2 DEF Mine, Standing, Covered, Unknown, NoScan
  <1>15. \A u \in Txns : Mine(u)'
    BY <1>1, <1>13, <1>14, OthersKept
  <1> QED BY <1>4, <1>5, <1>9, <1>10, <1>11, <1>12, <1>15 DEF Inv

\* A commit publishes the flags it leaves (tx/transaction.go:67).
LEMMA CommitKeeps == ASSUME NEW t \in Txns, Inv, Commit(t) PROVE Inv'
  <1>1. /\ committed' = (committed \ Changed(t)) \cup (used \cap Changed(t))
        /\ used' = used /\ End(t)
    BY DEF Commit
  <1>2. used \subseteq RIDs /\ committed \subseteq RIDs
    BY DEF Inv, TypeOK
  <1>3. \A r \in RIDs : IF r \in Changed(t) THEN r \in used' <=> r \in committed'
                        ELSE (r \in used' <=> r \in used) /\ (r \in committed' <=> r \in committed)
    BY <1>1
  <1> QED BY <1>1, <1>2, <1>3, EndKeeps

\* A rollback puts the committed flags back (tx/transaction.go:79).
LEMMA RollbackKeeps == ASSUME NEW t \in Txns, Inv, Rollback(t) PROVE Inv'
  <1>1. used' = Restored(t) /\ committed' = committed /\ End(t)
    BY DEF Rollback
  <1>2. used \subseteq RIDs /\ committed \subseteq RIDs /\ TypeOK
    BY DEF Inv, TypeOK
  <1>3. \A r \in RIDs : /\ r \in Changed(t) => (r \in Restored(t) <=> r \in committed)
                        /\ r \notin Changed(t) => (r \in Restored(t) <=> r \in used)
    <2>1. ASSUME NEW r \in RIDs
          PROVE  /\ r \in Changed(t) => (r \in Restored(t) <=> r \in committed)
                 /\ r \notin Changed(t) => (r \in Restored(t) <=> r \in used)
      <3>1. r \in Restored(t) <=> (r \in used /\ r \notin Changed(t)) \/ <<r, TRUE>> \in undo[t]
        BY <1>2, ChangedFlags DEF Restored
      <3>2. r \in Changed(t) <=> <<r, TRUE>> \in undo[t] \/ <<r, FALSE>> \in undo[t]
        BY <1>2, ChangedFlags
      <3>3. /\ <<r, TRUE>> \in undo[t] => r \in committed
            /\ <<r, FALSE>> \in undo[t] => r \notin committed
        BY DEF Inv, UndoKept
      <3> QED BY <3>1, <3>2, <3>3
    <2> QED BY <2>1
  <1>4. Restored(t) \subseteq RIDs
    <2>1. undo[t] \subseteq RIDs \X BOOLEAN
      BY <1>2 DEF TypeOK
    <2>2. \A v \in undo[t] : v[1] \in RIDs
      BY <2>1
    <2> QED BY <1>2, <2>2 DEF Restored
  <1>5. \A r \in RIDs : IF r \in Changed(t) THEN r \in used' <=> r \in committed'
                        ELSE (r \in used' <=> r \in used) /\ (r \in committed' <=> r \in committed)
    BY <1>1, <1>3
  <1> QED BY <1>1, <1>2, <1>4, <1>5, EndKeeps

-----------------------------------------------------------------------------
(* The theorems. *)

\* With no scan open and no lock held the invariant holds.
LEMMA InitInv == Init => Inv
  <1> SUFFICES ASSUME Init PROVE Inv
    OBVIOUS
  <1>1. /\ size \in 0 .. MaxBlocks /\ used \subseteq InFile /\ committed = used
        /\ held = [x \in Txns \X AllBlocks |-> "none"]
        /\ op = [t \in Txns |-> Idle] /\ scan = [t \in Txns |-> NoScan]
        /\ undo = [t \in Txns |-> {}] /\ seen = [t \in Txns |-> Unknown]
    BY SlotsAssumption DEF Init, Locks!Unlocked, AllBlocks, InFile
  <1>2. InFile \subseteq RIDs
    BY DEF InFile
  <1>3. \A t \in Txns : Changed(t) = {}
    BY <1>1 DEF Changed
  <1>4. TypeOK
    BY <1>1, <1>2, SlotsAssumption DEF TypeOK, AllBlocks, Idle, NoScan, Unknown
  <1>5. \A t \in Txns : Mine(t)
    BY <1>1 DEF Mine, Standing, Covered, Idle, NoScan, Unknown
  <1>6. Exclusive /\ Clean /\ Bounded /\ UndoKept /\ FreshBlock
    BY <1>1, <1>3 DEF Exclusive, Clean, Bounded, UndoKept, FreshBlock, Idle
  <1> QED BY <1>4, <1>5, <1>6 DEF Inv

\* Every step keeps the invariant.
LEMMA NextInv == Inv /\ [Next]_vars => Inv'
  <1> SUFFICES ASSUME Inv, [Next]_vars PROVE Inv'
    OBVIOUS
  <1>1. CASE UNCHANGED vars
    <2>1. UNCHANGED <<size, used, committed, held, op, scan, undo, seen>>
      BY <1>1 DEF vars
    <2>2. \A t \in Txns : Changed(t)' = Changed(t) /\ View(t)' = View(t)
      BY <2>1 DEF Changed, View
    <2>3. InFile' = InFile /\ \A t \in Txns, r \in RIDs : Passed(t, r)' <=> Passed(t, r)
      BY <2>1 DEF InFile, Passed
    <2>4. TypeOK' /\ Exclusive' /\ Bounded'
      BY <2>1, <2>2, <2>3 DEF Inv, TypeOK, Exclusive, Bounded
    <2>5. UndoKept' /\ Clean' /\ FreshBlock'
      BY <2>1, <2>2 DEF Inv, UndoKept, Clean, FreshBlock
    <2>6. ASSUME NEW t \in Txns PROVE Standing(t)' /\ Covered(t)'
      <3>1. Standing(t) /\ Covered(t)
        BY DEF Inv, Mine
      <3>2. Standing(t)'
        BY <2>1, <3>1 DEF Standing
      <3>3. Covered(t)'
        BY <2>1, <2>2, <2>3, <3>1 DEF Covered
      <3> QED BY <3>2, <3>3
    <2>7. \A t \in Txns : Mine(t)'
      BY <2>1, <2>2, <2>6 DEF Inv, Mine
    <2> QED BY <2>4, <2>5, <2>7 DEF Inv
  <1>2. ASSUME NEW t \in Txns, Step(t) PROVE Inv'
    BY <1>2, OpenSizeKeeps, AppendBlockKeeps, FormatKeeps, FoundKeeps, NotFoundKeeps,
       SetFlagKeeps, NextBlockKeeps, LastBlockKeeps DEF Step
  <1>3. ASSUME NEW t \in Txns, Caller(t) PROVE Inv'
    BY <1>3, OpenKeeps, NextRecordKeeps, InsertKeeps, DeleteKeeps, BeforeFirstKeeps,
       MoveToRidKeeps, CommitKeeps, RollbackKeeps DEF Caller
  <1> QED BY <1>1, <1>2, <1>3, FailKeeps DEF Next, Stopped

(* The inductive invariant: locks, undo lists and what a scan has passed.   *)
THEOREM ScanInvariant == Spec => []Inv
  BY InitInv, NextInv, PTL DEF Spec

(* The types of the scans, of the locks and of what was seen.               *)
THEOREM TypesKept == Spec => []TypeOK
  <1>1. Inv => TypeOK
    BY DEF Inv
  <1> QED BY <1>1, ScanInvariant, PTL

(* What Next returned is committed or the transaction's own, and stays so.  *)
THEOREM ScansReadCommitted == Spec => []NoDirtyRead
  <1>1. Inv => NoDirtyRead
    BY DEF Inv, Mine, NoDirtyRead
  <1> QED BY <1>1, ScanInvariant, PTL

(* A scan that came to the end has every record, and nobody adds one.       *)
THEOREM ScansComplete == Spec => []NoPhantoms
  <1>1. Inv => NoPhantoms
    <2>1. ASSUME Inv, NEW t \in Txns, seen[t].scope = "all"
          PROVE  seen[t].rids = View(t)
      <3>1. seen[t].rids \subseteq View(t) /\ Covered(t)
        BY <2>1 DEF Inv, Mine
      <3>2. View(t) \subseteq InFile
        BY <2>1 DEF Inv, Bounded, View
      <3> QED BY <2>1, <3>1, <3>2 DEF Covered
    <2> QED BY <2>1 DEF NoPhantoms
  <1> QED BY <1>1, ScanInvariant, PTL

(* The slot an Insert has found is free when it is marked.                  *)
THEOREM InsertsFindFree == Spec => []SlotStaysFree
  <1>1. Inv => SlotStaysFree
    BY DEF Inv, Mine, SlotStaysFree
  <1> QED BY <1>1, ScanInvariant, PTL
=============================================================================
