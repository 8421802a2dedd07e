--------------------------- MODULE LockTableProofs ---------------------------
(***************************************************************************)
(* LockInv is an inductive invariant of LockTable; mutual exclusion, the   *)
(* ownership of the upgrade bit and of the word, and the refinement of     *)
(* RWLock follow from it.  The waiter lists play no part in that argument: *)
(* they decide who is woken, never who gets the lock.  That their pointers *)
(* and the wake loop keep their types is the last part of this module.     *)
(***************************************************************************)
EXTENDS LockTable, FiniteSetTheorems, FunctionTheorems, WellFoundedInduction, TLAPS

Keys == Txns \X Blocks

\* The holders of a mode are finitely many.
LEMMA HoldersFinite ==
    ASSUME NEW m
    PROVE  IsFiniteSet(Holders(m)) /\ Cardinality(Holders(m)) \in Nat
  <1>1. IsFiniteSet(Txns \X Blocks)
    BY FiniteAssumption, FS_Product
  <1>2. Holders(m) \in SUBSET (Txns \X Blocks)
    BY DEF Holders
  <1>3. IsFiniteSet(Holders(m))
    BY <1>1, <1>2, FS_Subset
  <1> QED BY <1>3, FS_CardinalityType

\* The next-state's holders are finitely many, too.
LEMMA HoldersFiniteNext ==
    ASSUME NEW m
    PROVE  IsFiniteSet(Holders(m)') /\ Cardinality(Holders(m)') \in Nat
  <1>1. IsFiniteSet(Txns \X Blocks)
    BY FiniteAssumption, FS_Product
  <1>2. Holders(m)' \in SUBSET (Txns \X Blocks)
    BY DEF Holders
  <1>3. IsFiniteSet(Holders(m)')
    BY <1>1, <1>2, FS_Subset
  <1> QED BY <1>3, FS_CardinalityType

\* What the reader count and the write bit say of the holders.
LEMMA WordSays ==
    ASSUME WordTypeOK, WordMatchesHolders, MutualExclusion
    PROVE  /\ word.r = 0 <=> Holders("S") = {}
           /\ word.r = 1 => \A x \in Keys : held[x] = "S" => Holders("S") = {x}
           /\ word.w => Holders("S") = {}
           /\ ~word.w => \A x \in Keys : held[x] # "X"
           /\ \A x \in Keys : held[x] = "S" => word.r >= 1 /\ ~word.w
           /\ \A x \in Keys : held[x] = "X" => word.w /\ word.r = 0 /\ Holders("X") = {x}
  <1>1. word.r = 0 <=> Holders("S") = {}
    BY HoldersFinite, FS_EmptySet DEF WordMatchesHolders
  <1>2. ASSUME word.r = 1, NEW x \in Keys, held[x] = "S" PROVE Holders("S") = {x}
    <2>1. PICK y : Holders("S") = {y}
      BY <1>2, HoldersFinite, FS_Singleton DEF WordMatchesHolders
    <2> QED BY <1>2, <2>1 DEF Holders, Keys
  <1>3. word.w => Holders("S") = {}
    BY DEF WordMatchesHolders, MutualExclusion, Holders
  <1>4. ~word.w => \A x \in Keys : held[x] # "X"
    BY DEF WordMatchesHolders, Holders, Keys
  <1>5. ASSUME NEW x \in Keys, held[x] = "S" PROVE word.r >= 1 /\ ~word.w
    <2>1. x \in Holders("S")
      BY <1>5 DEF Holders, Keys
    <2>2. word.r # 0 /\ ~word.w
      BY <2>1, <1>1, <1>3
    <2> QED BY <2>2 DEF WordTypeOK, Words
  <1>6. ASSUME NEW x \in Keys, held[x] = "X"
        PROVE  word.w /\ word.r = 0 /\ Holders("X") = {x}
    <2>1. x \in Holders("X")
      BY <1>6 DEF Holders, Keys
    <2>2. word.w
      BY <2>1 DEF WordMatchesHolders
    <2>3. Holders("X") = {x}
      BY <1>6, <2>1 DEF Holders, Keys, MutualExclusion
    <2> QED BY <2>2, <2>3, <1>1, <1>3
  <1> QED BY <1>1, <1>2, <1>3, <1>4, <1>5, <1>6

-----------------------------------------------------------------------------
\* Every call starts from free locks and an empty word.
LEMMA InitInv == Init => LockInv
  <1> SUFFICES ASSUME Init PROVE LockInv
    OBVIOUS
  <1>1. WordTypeOK
    BY DEF Init, WordTypeOK, Words, FreeWord, PCs, LockPCs, Waiters
  <1>2. MutualExclusion
    BY DEF Init, MutualExclusion
  <1>3. Holders("S") = {} /\ Holders("X") = {}
    BY DEF Init, Holders
  <1>4. WordMatchesHolders
    BY <1>3, FS_EmptySet DEF Init, WordMatchesHolders, FreeWord
  <1>5. ReservationOwned /\ ReservationInCall
    BY DEF Init, ReservationOwned, ReservationInCall, FreeWord
  <1>6. \A t \in Txns : CallLocks(t) /\ CallCopies(t)
    BY DEF Init, CallLocks, CallCopies, SPCs, XPCs
  <1> QED BY <1>1, <1>2, <1>4, <1>5, <1>6 DEF LockInv

\* A step of one transaction leaves the others where they are, with their locks.
LEMMA OthersKept ==
    ASSUME WordTypeOK, NEW t \in Txns, TxnStep(t), NEW u \in Txns, u # t
    PROVE  /\ pc'[u] = pc[u] /\ blk'[u] = blk[u] /\ old'[u] = old[u]
           /\ \A b \in Blocks : held'[<<u, b>>] = held[<<u, b>>]
           /\ \A b \in Blocks : <<u, b, "X">> \in upgraded' <=> <<u, b, "X">> \in upgraded
  <1> USE DEF WordTypeOK, Goto, Keep, Retry, Granted, Failed
  <1>1. CASE Call(t)
    BY <1>1 DEF Call, Release, SLock, XLock
  <1>2. CASE SLoad(t) \/ SPark(t) \/ SWoken(t) \/ SWaitTimeout(t) \/ STimeout(t)
    BY <1>2 DEF SLoad, SPark, SWoken, SWaitTimeout, STimeout
  <1>3. CASE SCas(t)
    BY <1>3 DEF SCas
  <1>4. CASE XLoad(t) \/ XPark(t) \/ XWoken(t)
    BY <1>4 DEF XLoad, XPark, XWoken
  <1>5. CASE XReserve(t)
    BY <1>5 DEF XReserve, XWaiter
  <1>6. CASE XGrab(t)
    BY <1>6 DEF XGrab
  <1>7. CASE XTimeout(t) \/ XWaitTimeout(t)
    BY <1>7 DEF XTimeout, XWaitTimeout, CancelReservation, XWaiter
  <1>8. CASE UnlockLoad(t) \/ Released(t) \/ Expire(t)
    BY <1>8 DEF UnlockLoad, Released, Expire
  <1>9. CASE UnlockWrite(t)
    BY <1>9 DEF UnlockWrite
  <1>10. CASE UnlockWake(t)
    BY <1>10 DEF UnlockWake, CancelReservation, XWaiter
  <1> QED BY <1>1, <1>2, <1>3, <1>4, <1>5, <1>6, <1>7, <1>8, <1>9, <1>10
         DEF TxnStep, SLockStep, XLockStep, UnlockStep

\* Only these steps change the word, the locks or the reservations.
LEMMA QuietSteps ==
    ASSUME NEW t \in Txns, TxnStep(t)
    PROVE  \/ UNCHANGED <<word, held, upgraded>>
           \/ SCas(t) \/ XReserve(t) \/ XGrab(t) \/ XTimeout(t) \/ XWaitTimeout(t)
           \/ UnlockWrite(t) \/ UnlockWake(t)
  BY DEF TxnStep, Call, SLockStep, XLockStep, UnlockStep, Release, SLock, XLock, SLoad,
         SPark, SWoken, SWaitTimeout, STimeout, XLoad, XPark, XWoken, UnlockLoad, Released,
         Expire, Failed

-----------------------------------------------------------------------------
(***************************************************************************)
(* The steps that change the word, one lemma each: what they do to the     *)
(* holders of each mode.                                                   *)
(***************************************************************************)
\* A reader is counted exactly when it gets the lock, and no writer is there.
LEMMA SCasHolders ==
    ASSUME LockInv, NEW t \in Txns, SCas(t), word = old[t]
    PROVE  /\ WordMatchesHolders' /\ MutualExclusion' /\ ReservationOwned'
           /\ \A x \in Keys : held[x] # "X"
           /\ word' \in Words
  <1> DEFINE x == <<t, blk[t]>>
  <1>1. x \in Keys /\ held[x] = "none" /\ ~word.w /\ ~word.u /\ word \in Words
    BY DEF LockInv, WordTypeOK, SCas, Keys, LockPCs, CallLocks, CallCopies, SPCs, Held
  <1>2. word' = [word EXCEPT !.r = @ + 1] /\ held' = [held EXCEPT ![x] = "S"]
    BY DEF SCas, Granted
  <1>3. word' \in Words /\ word'.r = word.r + 1 /\ ~word'.w /\ ~word'.u
    BY <1>1, <1>2 DEF Words
  <1>4. \A y \in Keys : held[y] # "X"
    BY <1>1, WordSays DEF LockInv
  <1>5. held \in [Keys -> {"none", "S", "X"}]
    BY DEF LockInv, WordTypeOK, Keys
  <1>6. Holders("S")' = Holders("S") \cup {x} /\ x \notin Holders("S")
    BY <1>1, <1>2, <1>5 DEF Holders, Keys
  <1>7. Holders("X")' = {}
    BY <1>1, <1>2, <1>4, <1>5 DEF Holders, Keys
  <1>8. Cardinality(Holders("S")') = Cardinality(Holders("S")) + 1
    BY <1>6, HoldersFinite, FS_AddElement
  <1>9. WordMatchesHolders'
    BY <1>3, <1>7, <1>8 DEF LockInv, WordMatchesHolders
  <1>10. MutualExclusion'
    BY <1>7 DEF MutualExclusion, Holders
  <1>11. ReservationOwned'
    BY <1>3 DEF ReservationOwned
  <1> QED BY <1>3, <1>4, <1>9, <1>10, <1>11

\* A writer gets the lock when nobody else has any.
LEMMA XGrabHolders ==
    ASSUME LockInv, NEW t \in Txns, XGrab(t), word = old[t]
    PROVE  /\ WordMatchesHolders' /\ MutualExclusion' /\ ReservationOwned'
           /\ \A x \in Keys : x # <<t, blk[t]>> => held[x] = "none" /\ held'[x] = "none"
           /\ word' \in Words
  <1> DEFINE x == <<t, blk[t]>>
  <1>1. /\ x \in Keys /\ held[x] \in {"none", "S"} /\ word \in Words
        /\ MayGrab(t, word)
    BY DEF LockInv, WordTypeOK, XGrab, Keys, LockPCs, CallLocks, CallCopies, XPCs, Held
  <1>2. held' = [held EXCEPT ![x] = "X"]
    BY DEF XGrab, Granted
  <1>3. held \in [Keys -> {"none", "S", "X"}]
    BY DEF LockInv, WordTypeOK, Keys
  <1>4. \A y \in Keys : held[y] # "X"
    BY <1>1, WordSays DEF LockInv, MayGrab
  <1>5. Holders("S") \subseteq {x}
    <2>1. CASE Upgrading(t)
      <3>1. word.r = 1 /\ held[x] = "S"
        BY <1>1, <2>1 DEF MayGrab, Upgrading, Held
      <3> QED BY <1>1, <3>1, WordSays DEF LockInv
    <2>2. CASE ~Upgrading(t)
      BY <1>1, <2>2, WordSays DEF LockInv, MayGrab
    <2> QED BY <2>1, <2>2
  <1>6. \A y \in Keys : y # x => held[y] = "none" /\ held'[y] = "none"
    BY <1>1, <1>2, <1>3, <1>4, <1>5 DEF Holders, Keys
  <1>7. Holders("S")' = {} /\ Holders("X")' = {x}
    BY <1>1, <1>2, <1>3, <1>6 DEF Holders, Keys
  <1>8. word' \in Words /\ word'.w /\ word'.r = 0 /\ (word'.u => word.u /\ ~Upgrading(t))
    <2>1. CASE Upgrading(t)
      <3>1. word.r = 1
        BY <1>1, <2>1 DEF MayGrab
      <3>2. word' = [w |-> TRUE, u |-> FALSE, r |-> word.r - 1]
        BY <2>1 DEF XGrab
      <3>3. word' = [w |-> TRUE, u |-> FALSE, r |-> 0]
        BY <3>1, <3>2
      <3> QED BY <3>3 DEF Words
    <2>2. CASE ~Upgrading(t)
      BY <1>1, <2>2 DEF XGrab, MayGrab, Words
    <2> QED BY <2>1, <2>2
  <1>9. WordMatchesHolders'
    BY <1>7, <1>8, FS_EmptySet DEF WordMatchesHolders
  <1>10. MutualExclusion'
    BY <1>2, <1>6 DEF MutualExclusion, Keys
  <1>11. ~word'.u
    <2>1. SUFFICES ASSUME word.u, ~Upgrading(t) PROVE FALSE
      BY <1>8
    <2>2. PICK u \in Txns, b \in Blocks : held[<<u, b>>] = "S"
      BY <2>1 DEF LockInv, ReservationOwned
    <2> QED BY <1>5, <2>1, <2>2 DEF Upgrading, Held, Holders
  <1>12. ReservationOwned'
    BY <1>11 DEF ReservationOwned
  <1> QED BY <1>6, <1>8, <1>9, <1>10, <1>12

\* The reservation is made by a transaction that holds its lock shared.
LEMMA XReserveHolders ==
    ASSUME LockInv, NEW t \in Txns, XReserve(t), word = old[t]
    PROVE  /\ WordMatchesHolders' /\ MutualExclusion' /\ ReservationOwned'
           /\ \A x \in Keys : held[x] # "X"
           /\ word' \in Words
  <1> DEFINE x == <<t, blk[t]>>
  <1>1. x \in Keys /\ held[x] = "S" /\ word \in Words /\ blk[t] \in Blocks
    BY DEF LockInv, WordTypeOK, XReserve, Keys, LockPCs, CallCopies, Upgrading, Held
  <1>2. /\ word' = [word EXCEPT !.u = TRUE] /\ held' = held
        /\ upgraded' = upgraded \cup {XWaiter(t)}
    BY DEF XReserve
  <1>3. word' \in Words /\ word'.r = word.r /\ word'.w = word.w
    BY <1>1, <1>2 DEF Words
  <1>4. \A m : Holders(m)' = Holders(m)
    BY <1>2 DEF Holders
  <1>5. WordMatchesHolders'
    BY <1>3, <1>4 DEF LockInv, WordMatchesHolders
  <1>6. MutualExclusion'
    BY <1>2 DEF LockInv, MutualExclusion
  <1>7. ReservationOwned'
    BY <1>1, <1>2 DEF ReservationOwned, XWaiter
  <1>8. \A y \in Keys : held[y] # "X"
    BY <1>1, WordSays DEF LockInv
  <1> QED BY <1>3, <1>5, <1>6, <1>7, <1>8

\* Giving up a reservation never changes the word while a writer holds the lock.
LEMMA CancelHolders ==
    ASSUME LockInv, NEW t \in Txns, CancelReservation(t), UNCHANGED held
    PROVE  /\ WordMatchesHolders' /\ MutualExclusion' /\ ReservationOwned'
           /\ \A x \in Keys : held[x] = "X" => word' = word
           /\ word' \in Words
  <1>1. word \in Words
    BY DEF LockInv, WordTypeOK
  <1>2. /\ word' \in Words /\ word'.r = word.r /\ word'.w = word.w
        /\ word'.u => word.u /\ XWaiter(t) \notin upgraded
        /\ ~word.u => word' = word
    BY <1>1 DEF CancelReservation, Words
  <1>3. \A m : Holders(m)' = Holders(m)
    BY DEF Holders
  <1>4. WordMatchesHolders'
    BY <1>2, <1>3 DEF LockInv, WordMatchesHolders
  <1>5. MutualExclusion'
    BY DEF LockInv, MutualExclusion
  <1>6. ReservationOwned'
    <2>1. word'.u => upgraded' = upgraded
      BY <1>2 DEF CancelReservation
    <2> QED BY <1>2, <2>1 DEF LockInv, ReservationOwned
  <1>7. ASSUME NEW x \in Keys, held[x] = "X" PROVE word' = word
    <2>1. Holders("S") = {}
      BY <1>7, WordSays DEF LockInv
    <2>2. ~word.u
      BY <2>1 DEF LockInv, ReservationOwned, Holders
    <2> QED BY <1>2, <2>2
  <1> QED BY <1>2, <1>4, <1>5, <1>6, <1>7

\* Giving a lock back takes exactly its holder out of the count.
LEMMA UnlockHolders ==
    ASSUME LockInv, NEW t \in Txns, UnlockWrite(t)
    PROVE  /\ WordMatchesHolders' /\ MutualExclusion' /\ ReservationOwned'
           /\ \A x \in Keys : held[x] = "X" => x = <<t, blk[t]>>
           /\ word' \in Words
  <1> DEFINE x == <<t, blk[t]>>
  <1>1. /\ x \in Keys /\ word \in Words /\ old[t] \in Words /\ blk[t] \in Blocks
        /\ held[x] \in {"S", "X"} /\ (old[t].w <=> held[x] = "X")
        /\ old[t].w => old[t] = word
    BY DEF LockInv, WordTypeOK, UnlockWrite, Keys, LockPCs, CallLocks, Held
  <1>2. held' = [held EXCEPT ![x] = "none"] /\ held \in [Keys -> {"none", "S", "X"}]
    BY DEF UnlockWrite, LockInv, WordTypeOK, Keys
  <1>3. MutualExclusion'
    BY <1>1, <1>2 DEF LockInv, MutualExclusion, Keys
  <1>4. \A y \in Keys : held[y] = "X" => y = x
    BY <1>1 DEF LockInv, MutualExclusion, Keys
  <1>5. Holders("X")' = {}
    BY <1>2, <1>4 DEF Holders, Keys
  <1>6. CASE held[x] = "X"
    <2>1. word.w /\ word.r = 0 /\ Holders("S") = {}
      BY <1>1, <1>6, WordSays DEF LockInv
    <2>2. word' = [word EXCEPT !.w = FALSE]
      BY <1>1, <1>6 DEF UnlockWrite
    <2>3. word' \in Words /\ word'.r = 0 /\ ~word'.w /\ word'.u = word.u
      BY <1>1, <2>1, <2>2 DEF Words
    <2>4. Holders("S")' = {}
      BY <1>2, <2>1 DEF Holders, Keys
    <2>5. WordMatchesHolders'
      BY <1>5, <2>3, <2>4, FS_EmptySet DEF WordMatchesHolders
    <2>6. ~word.u
      BY <2>1 DEF LockInv, ReservationOwned, Holders
    <2> QED BY <1>3, <1>4, <2>3, <2>5, <2>6 DEF ReservationOwned
  <1>7. CASE held[x] = "S"
    <2>1. word.r >= 1 /\ ~word.w
      BY <1>1, <1>7, WordSays DEF LockInv
    <2>2. word' = [word EXCEPT !.r = @ - 1]
      BY <1>1, <1>7 DEF UnlockWrite
    <2>3. word' \in Words /\ word'.r = word.r - 1 /\ ~word'.w /\ word'.u = word.u
      BY <1>1, <2>1, <2>2 DEF Words
    <2>4. Holders("S")' = Holders("S") \ {x} /\ x \in Holders("S")
      BY <1>1, <1>2, <1>7 DEF Holders, Keys
    <2>5. Cardinality(Holders("S")') = Cardinality(Holders("S")) - 1
      BY <2>4, HoldersFinite, FS_RemoveElement
    <2>6. WordMatchesHolders'
      BY <1>5, <2>3, <2>5 DEF LockInv, WordMatchesHolders
    <2>7. ReservationOwned'
      <3>1. SUFFICES ASSUME word.u
                     PROVE  \E u \in Txns, b \in Blocks :
                                <<u, b, "X">> \in upgraded' /\ held'[<<u, b>>] = "S"
        BY <2>3 DEF ReservationOwned
      <3>2. PICK u \in Txns, b \in Blocks : <<u, b, "X">> \in upgraded /\ held[<<u, b>>] = "S"
        BY <3>1 DEF LockInv, ReservationOwned
      <3>3. pc[u] \in XPCs /\ pc[t] = "uWrite"
        BY <3>2 DEF LockInv, ReservationInCall, UnlockWrite
      <3>4. <<u, b>> # x
        BY <3>3 DEF XPCs
      <3> QED BY <1>2, <3>2, <3>4 DEF UnlockWrite, Keys
    <2> QED BY <1>3, <1>4, <2>3, <2>6, <2>7
  <1> QED BY <1>1, <1>6, <1>7

-----------------------------------------------------------------------------
\* What the word counts is kept by every step.
LEMMA WordStep ==
    ASSUME LockInv, NEW t \in Txns, TxnStep(t)
    PROVE  /\ WordMatchesHolders' /\ MutualExclusion' /\ ReservationOwned'
           /\ \A x \in Keys : held[x] = "X" /\ x[1] # t => word' = word
           /\ word' \in Words
  <1>1. CASE UNCHANGED <<word, held, upgraded>>
    <2>1. \A m : Holders(m)' = Holders(m)
      BY <1>1 DEF Holders
    <2> QED BY <1>1, <2>1 DEF LockInv, WordTypeOK, WordMatchesHolders, MutualExclusion,
                              ReservationOwned
  <1>2. CASE SCas(t) /\ word = old[t]
    BY <1>2, SCasHolders
  <1>3. CASE XReserve(t) /\ word = old[t]
    BY <1>3, XReserveHolders
  <1>4. CASE XGrab(t) /\ word = old[t]
    <2>1. \A x \in Keys : x[1] # t => held[x] # "X"
      BY <1>4, XGrabHolders DEF Keys
    <2> QED BY <1>4, <2>1, XGrabHolders
  <1>5. CASE (XTimeout(t) \/ XWaitTimeout(t) \/ UnlockWake(t)) /\ CancelReservation(t)
    <2>1. UNCHANGED held
      BY <1>5 DEF XTimeout, XWaitTimeout, UnlockWake, Failed
    <2> QED BY <1>5, <2>1, CancelHolders
  <1>6. CASE UnlockWrite(t)
    <2>1. \A x \in Keys : held[x] = "X" => x[1] = t
      BY <1>6, UnlockHolders
    <2> QED BY <1>6, <2>1, UnlockHolders
  <1>7. \/ UNCHANGED <<word, held, upgraded>>
        \/ (SCas(t) \/ XReserve(t) \/ XGrab(t)) /\ word = old[t]
        \/ (XTimeout(t) \/ XWaitTimeout(t) \/ UnlockWake(t)) /\ CancelReservation(t)
        \/ UnlockWrite(t)
    BY QuietSteps DEF SCas, XReserve, XGrab, XTimeout, XWaitTimeout, UnlockWake
  <1> QED BY <1>1, <1>2, <1>3, <1>4, <1>5, <1>6, <1>7

\* The types are kept by every step.
LEMMA TypeStep ==
    ASSUME LockInv, NEW t \in Txns, TxnStep(t)
    PROVE  WordTypeOK'
  <1>1. word' \in Words
    BY WordStep
  <1> DEFINE SomeKeys == Txns \X Blocks
  <1>2. WordTypeOK
    BY DEF LockInv
  <1>3. FreeWord \in Words /\ word \in Words
    BY <1>2 DEF FreeWord, Words, WordTypeOK
  <1>4. old' \in [Txns -> Words]
    BY <1>1, <1>2, <1>3 DEF WordTypeOK, TxnStep, Call, SLockStep, XLockStep, UnlockStep, Release,
          SLock, XLock, SLoad, SPark, SWoken, SWaitTimeout, STimeout, SCas, XLoad, XPark, XWoken,
          XReserve, XGrab, XTimeout, XWaitTimeout, UnlockLoad, UnlockWrite, UnlockWake, Released,
          Expire, Failed, Granted, Retry, Keep
  <1>5. expired' \in [Txns -> BOOLEAN]
    BY <1>2 DEF WordTypeOK, TxnStep, Call, SLockStep, XLockStep, UnlockStep, Release,
          SLock, XLock, SLoad, SPark, SWoken, SWaitTimeout, STimeout, SCas, XLoad, XPark, XWoken,
          XReserve, XGrab, XTimeout, XWaitTimeout, UnlockLoad, UnlockWrite, UnlockWake, Released,
          Expire, Failed, Granted, Retry
  <1>6. held' \in [Txns \X Blocks -> {"none", "S", "X"}]
    <2>1. \/ held' = held
          \/ \E mode \in {"none", "S", "X"} : held' = [held EXCEPT ![<<t, blk[t]>>] = mode]
      BY DEF TxnStep, Call, SLockStep, XLockStep, UnlockStep, Release,
          SLock, XLock, SLoad, SPark, SWoken, SWaitTimeout, STimeout, SCas, XLoad, XPark, XWoken,
          XReserve, XGrab, XTimeout, XWaitTimeout, UnlockLoad, UnlockWrite, UnlockWake, Released,
          Expire, Failed, Granted, Retry
    <2> QED BY <1>2, <2>1 DEF WordTypeOK
  <1>7. /\ pc' \in [Txns -> PCs] /\ blk' \in [Txns -> Blocks \cup {Nil}]
        /\ pc'[t] \in LockPCs \cup {"uWrite", "uWake"} => blk'[t] \in Blocks
    <2>1. /\ pc' = pc \/ \E p \in PCs : pc' = [pc EXCEPT ![t] = p]
          /\ \/ blk' = blk /\ pc[t] \in LockPCs \cup {"uWrite", "uWake"}
             \/ \E b \in Blocks : blk' = [blk EXCEPT ![t] = b]
             \/ blk' = blk /\ pc' = pc
             \/ blk' = blk /\ pc'[t] \notin LockPCs \cup {"uWrite", "uWake"}
      BY <1>2 DEF WordTypeOK, TxnStep, Call, SLockStep, XLockStep, UnlockStep, Release,
          SLock, XLock, SLoad, SPark, SWoken, SWaitTimeout, STimeout, SCas, XLoad, XPark, XWoken,
          XReserve, XGrab, XTimeout, XWaitTimeout, UnlockLoad, UnlockWrite, UnlockWake, Released,
          Expire, Failed, Granted, Retry, Goto, PCs, LockPCs
    <2> QED BY <1>2, <2>1 DEF WordTypeOK
  <1>8. \A u \in Txns : pc'[u] \in LockPCs \cup {"uWrite", "uWake"} => blk'[u] \in Blocks
    <2> TAKE u \in Txns
    <2>1. CASE u = t
      BY <1>7, <2>1
    <2>2. CASE u # t
      <3>1. pc'[u] = pc[u] /\ blk'[u] = blk[u]
        BY <1>2, <2>2, OthersKept
      <3> QED BY <1>2, <3>1 DEF WordTypeOK
    <2> QED BY <2>1, <2>2
  <1>9. upgraded' \subseteq Waiters
    <2>1. CASE XReserve(t) /\ word = old[t]
      BY <1>2, <2>1 DEF WordTypeOK, XReserve, XWaiter, Waiters, LockPCs
    <2>2. CASE CancelReservation(t)
      BY <1>2, <2>2 DEF WordTypeOK, CancelReservation
    <2>3. CASE UNCHANGED upgraded
      BY <1>2, <2>3 DEF WordTypeOK
    <2> QED BY <2>1, <2>2, <2>3, QuietSteps
           DEF SCas, XReserve, XGrab, XTimeout, XWaitTimeout, UnlockWrite, UnlockWake
  <1> QED BY <1>1, <1>4, <1>5, <1>6, <1>7, <1>8, <1>9 DEF WordTypeOK

\* What a transaction knows of its lock and of its copy of the word, after a step
\* of its own.
LEMMA OwnCall ==
    ASSUME LockInv, NEW t \in Txns, TxnStep(t)
    PROVE  CallLocks(t)' /\ CallCopies(t)'
  <1> USE DEF CallLocks, CallCopies, Held, Upgrading, MayGrab, Goto, Keep, SPCs, XPCs
  <1>0. /\ pc \in [Txns -> PCs] /\ old \in [Txns -> Words] /\ blk \in [Txns -> Blocks \cup {Nil}]
        /\ held \in [Txns \X Blocks -> {"none", "S", "X"}] /\ word \in Words
        /\ CallLocks(t) /\ CallCopies(t)
    BY DEF LockInv, WordTypeOK
  <1>1. CASE Call(t)
    BY <1>0, <1>1 DEF Call, Release, SLock, XLock
  <1>2. CASE SLoad(t)
    BY <1>0, <1>2 DEF SLoad, Retry
  <1>3. CASE SCas(t)
    BY <1>0, <1>3 DEF SCas, Retry, Granted
  <1>4. CASE SPark(t) \/ SWoken(t) \/ XPark(t) \/ XWoken(t) \/ Expire(t) \/ Released(t)
    BY <1>0, <1>4 DEF SPark, SWoken, XPark, XWoken, Expire, Released, LockPCs
  <1>5. CASE STimeout(t) \/ SWaitTimeout(t) \/ XTimeout(t) \/ XWaitTimeout(t)
    BY <1>0, <1>5 DEF STimeout, SWaitTimeout, XTimeout, XWaitTimeout, Failed
  <1>6. CASE XLoad(t)
    BY <1>0, <1>6 DEF XLoad, Retry, Reserving
  <1>7. CASE XReserve(t)
    BY <1>0, <1>7 DEF XReserve, Retry
  <1>8. CASE XGrab(t)
    BY <1>0, <1>8 DEF XGrab, Retry, Granted
  <1>9. CASE UnlockLoad(t)
    <2>1. PICK b \in Blocks : held[<<t, b>>] # "none" /\ blk' = [blk EXCEPT ![t] = b]
      BY <1>9 DEF UnlockLoad
    <2>2. <<t, b>> \in Keys
      BY DEF Keys
    <2>3. word.w <=> held[<<t, b>>] = "X"
      BY <1>0, <2>1, <2>2, WordSays DEF LockInv, Keys
    <2> QED BY <1>0, <1>9, <2>1, <2>3 DEF UnlockLoad
  <1>10. CASE UnlockWrite(t)
    <2>1. ~word'.w
      <3>1. CASE old[t].w
        BY <1>0, <1>10, <3>1 DEF UnlockWrite, Words
      <3>2. CASE ~old[t].w
        <4>1. held[<<t, blk[t]>>] = "S" /\ <<t, blk[t]>> \in Keys
          BY <1>0, <1>10, <3>2 DEF UnlockWrite, LockInv, WordTypeOK, Keys, LockPCs
        <4>2. ~word.w
          BY <4>1, WordSays DEF LockInv
        <4> QED BY <1>0, <1>10, <3>2, <4>2 DEF UnlockWrite, Words
      <3> QED BY <3>1, <3>2
    <2>2. old' = [old EXCEPT ![t] = word'] /\ pc' = [pc EXCEPT ![t] = "uWake"]
      BY <1>10 DEF UnlockWrite
    <2> QED BY <1>0, <2>1, <2>2
  <1>11. CASE UnlockWake(t)
    BY <1>0, <1>11 DEF UnlockWake
  <1> QED BY <1>11, <1>1, <1>2, <1>3, <1>4, <1>5, <1>6, <1>7, <1>8, <1>9, <1>10
         DEF TxnStep, SLockStep, XLockStep, UnlockStep

\* The other transactions' knowledge survives a step of t.
LEMMA OthersCall ==
    ASSUME LockInv, NEW t \in Txns, TxnStep(t), NEW u \in Txns, u # t
    PROVE  CallLocks(u)' /\ CallCopies(u)'
  <1>1. /\ pc'[u] = pc[u] /\ blk'[u] = blk[u] /\ old'[u] = old[u]
        /\ \A b \in Blocks : held'[<<u, b>>] = held[<<u, b>>]
    BY OthersKept DEF LockInv
  <1>2. pc[u] \in LockPCs \cup {"uWrite", "uWake"} => blk[u] \in Blocks
    BY DEF LockInv, WordTypeOK
  <1>3. CallLocks(u) /\ CallCopies(u)
    BY DEF LockInv
  <1>4. ASSUME pc[u] = "uWrite", old[u].w PROVE word' = word
    <2>1. <<u, blk[u]>> \in Keys /\ held[<<u, blk[u]>>] = "X"
      BY <1>2, <1>3, <1>4 DEF CallLocks, Held, Keys
    <2> QED BY <2>1, WordStep
  <1>5. CallLocks(u)'
    BY <1>1, <1>2, <1>3, <1>4 DEF CallLocks, Held, SPCs, XPCs, LockPCs
  <1>6. CallCopies(u)'
    BY <1>1, <1>2, <1>3 DEF CallCopies, Upgrading, MayGrab, Held, LockPCs
  <1> QED BY <1>5, <1>6

\* A reservation for a lock still held shared stays with its call.
LEMMA ReservationStep ==
    ASSUME LockInv, NEW t \in Txns, TxnStep(t)
    PROVE  ReservationInCall'
  <1> DEFINE Placed(u, b) == \/ held[<<u, b>>] = "X"
                             \/ held[<<u, b>>] = "S" /\ pc[u] \in XPCs /\ blk[u] = b
                             \/ held[<<u, b>>] = "none" /\ pc[u] = "uWake" /\ blk[u] = b
  <1> SUFFICES ASSUME NEW u \in Txns, NEW b \in Blocks, <<u, b, "X">> \in upgraded'
               PROVE  Placed(u, b)'
    BY DEF ReservationInCall
  <1>0. /\ pc \in [Txns -> PCs] /\ blk \in [Txns -> Blocks \cup {Nil}]
        /\ held \in [Txns \X Blocks -> {"none", "S", "X"}]
        /\ ReservationInCall
    BY DEF LockInv, WordTypeOK
  <1>1. CASE u # t
    BY <1>0, <1>1, OthersKept DEF LockInv, ReservationInCall
  <1>2. CASE u = t
    <2> USE DEF Goto, Keep, XPCs
    <2>1. CASE XReserve(t)
      <3>1. held' = held /\ blk' = blk /\ pc[t] \in XPCs /\ pc'[t] \in XPCs
        BY <1>0, <2>1 DEF XReserve, Retry
      <3>2. held[<<t, blk[t]>>] = "S"
        BY <2>1 DEF XReserve, LockInv, CallCopies, Upgrading, Held
      <3>3. <<t, b, "X">> \in upgraded \/ b = blk[t]
        BY <1>2, <2>1 DEF XReserve, XWaiter
      <3> QED BY <1>0, <1>2, <3>1, <3>2, <3>3 DEF ReservationInCall
    <2>2. CASE SCas(t)
      <3>1. CASE word = old[t]
        <4>1. held' = [held EXCEPT ![<<t, blk[t]>>] = "S"] /\ upgraded' = upgraded
          BY <2>2, <3>1 DEF SCas, Granted
        <4>2. held[<<t, blk[t]>>] = "none" /\ pc[t] = "sCas"
          BY <2>2 DEF SCas, LockInv, CallLocks, SPCs, Held
        <4>3. <<t, blk[t], "X">> \notin upgraded
          BY <1>0, <4>2 DEF ReservationInCall, LockInv, WordTypeOK, LockPCs
        <4>4. held[<<u, b>>] = "X" /\ b # blk[t]
          BY <1>0, <1>2, <4>1, <4>2, <4>3 DEF ReservationInCall
        <4> QED BY <1>0, <1>2, <4>1, <4>4
      <3>2. CASE word # old[t]
        BY <1>0, <1>2, <2>2, <3>2 DEF SCas, Retry, ReservationInCall
      <3> QED BY <3>1, <3>2
    <2>3. CASE XGrab(t)
      BY <1>0, <1>2, <2>3 DEF XGrab, Granted, Retry, ReservationInCall
    <2>4. CASE (XTimeout(t) \/ XWaitTimeout(t) \/ UnlockWake(t)) /\ CancelReservation(t)
      <3>1. <<t, b, "X">> \in upgraded /\ b # blk[t]
        BY <1>2, <2>4 DEF CancelReservation, XWaiter
      <3>2. held' = held
        BY <2>4 DEF XTimeout, XWaitTimeout, UnlockWake, Failed
      <3> QED BY <1>0, <1>2, <3>1, <3>2 DEF ReservationInCall
    <2>5. CASE UnlockWrite(t)
      <3>1. /\ held' = [held EXCEPT ![<<t, blk[t]>>] = "none"] /\ upgraded' = upgraded
            /\ pc[t] = "uWrite" /\ pc' = [pc EXCEPT ![t] = "uWake"] /\ blk' = blk
        BY <2>5 DEF UnlockWrite
      <3>2. held[<<t, b>>] = "X"
        BY <1>0, <1>2, <3>1 DEF ReservationInCall
      <3> QED BY <1>0, <1>2, <3>1, <3>2
    <2>6. CASE XLoad(t) \/ XPark(t) \/ XWoken(t) \/ Expire(t)
      BY <1>0, <1>2, <2>6 DEF XLoad, XPark, XWoken, Expire, Retry, ReservationInCall
    <2>7. CASE Call(t) \/ SLoad(t) \/ SPark(t) \/ SWoken(t) \/ SWaitTimeout(t) \/ STimeout(t)
               \/ UnlockLoad(t) \/ Released(t)
      <3>1. UNCHANGED <<held, upgraded>> /\ pc[t] \notin XPCs /\ pc[t] # "uWake"
        BY <2>7 DEF Call, Release, SLock, XLock, SLoad, SPark, SWoken, SWaitTimeout,
           STimeout, UnlockLoad, Released, Failed
      <3>2. held[<<t, b>>] = "X"
        BY <1>2, <3>1 DEF LockInv, ReservationInCall
      <3> QED BY <1>2, <3>1, <3>2
    <2>8. UnlockWake(t) => CancelReservation(t)
      BY DEF UnlockWake, LockInv, CallCopies
    <2> QED BY <2>1, <2>2, <2>3, <2>4, <2>5, <2>6, <2>7, <2>8
           DEF TxnStep, SLockStep, XLockStep, UnlockStep, XTimeout, XWaitTimeout
  <1> QED BY <1>1, <1>2

-----------------------------------------------------------------------------
\* LockInv is inductive: the lock word always counts exactly the locks that the
\* transactions hold (locktable.go:205-430).
THEOREM LockTableInvariant == Spec => []LockInv
  <1>1. LockInv /\ [Next]_vars => LockInv'
    <2> SUFFICES ASSUME LockInv, [Next]_vars PROVE LockInv'
      OBVIOUS
    <2>1. CASE UNCHANGED vars
      <3>1. \A m : Holders(m)' = Holders(m)
        BY <2>1 DEF Holders, vars
      <3> QED BY <2>1, <3>1 DEF LockInv, vars, WordTypeOK, MutualExclusion, WordMatchesHolders,
                  ReservationOwned, CallLocks, CallCopies, ReservationInCall, Held, Upgrading,
                  MayGrab
    <2>2. ASSUME NEW t \in Txns, TxnStep(t) PROVE LockInv'
      BY <2>2, TypeStep, WordStep, OwnCall, OthersCall, ReservationStep DEF LockInv
    <2> QED BY <2>1, <2>2 DEF Next, Stopped
  <1> QED BY InitInv, <1>1, PTL DEF Spec

\* An exclusive lock excludes every other lock of the shard (locktable.go:255).
THEOREM ExclusiveLocks == Spec => []MutualExclusion
  <1>1. LockInv => MutualExclusion
    BY DEF LockInv
  <1> QED BY <1>1, LockTableInvariant, PTL

\* The reader count is the number of shared locks, and the write bit is set for the
\* exclusive one (locktable.go:226, 320).
THEOREM WordCountsHolders == Spec => []WordMatchesHolders
  <1>1. LockInv => WordMatchesHolders
    BY DEF LockInv
  <1> QED BY <1>1, LockTableInvariant, PTL

\* No failed or finished upgrade leaves the upgrade bit behind (locktable.go:402).
THEOREM NoLeakedReservation == Spec => []ReservationOwned
  <1>1. LockInv => ReservationOwned
    BY DEF LockInv
  <1> QED BY <1>1, LockTableInvariant, PTL

\* The assumption of Unlock's in-place store holds: nobody changes the word while
\* a transaction keeps its exclusive lock (locktable.go:386).
THEOREM WriterKeepsWord == Spec => WriterOwnsWord
  <1>1. LockInv /\ [Next]_vars
        => [\A x \in Txns \X Blocks : held[x] = "X" /\ held'[x] = "X" => word' = word]_vars
    <2> SUFFICES ASSUME LockInv, [Next]_vars, NEW x \in Keys, held[x] = "X", held'[x] = "X"
                 PROVE  word' = word
      BY DEF Keys
    <2>1. CASE UNCHANGED vars
      BY <2>1 DEF vars
    <2>2. ASSUME NEW t \in Txns, TxnStep(t) PROVE word' = word
      <3>1. CASE x[1] # t
        BY <2>2, <3>1, WordStep
      <3>2. CASE x[1] = t
        <4>1. CASE UNCHANGED word
          BY <4>1
        <4>2. CASE SCas(t) /\ word = old[t]
          BY <4>2, SCasHolders
        <4>3. CASE XReserve(t) /\ word = old[t]
          BY <4>3, XReserveHolders
        <4>4. CASE XGrab(t) /\ word = old[t]
          <5>1. x = <<t, blk[t]>>
            BY <4>4, XGrabHolders
          <5> QED BY <4>4, <5>1 DEF XGrab, LockInv, CallLocks, XPCs, Held
        <4>5. CASE CancelReservation(t) /\ UNCHANGED held
          BY <4>5, CancelHolders
        <4>6. CASE UnlockWrite(t)
          <5>1. x = <<t, blk[t]>> /\ held \in [Keys -> {"none", "S", "X"}]
            BY <4>6, UnlockHolders DEF LockInv, WordTypeOK, Keys
          <5> QED BY <4>6, <5>1 DEF UnlockWrite
        <4> QED BY <2>2, <4>1, <4>2, <4>3, <4>4, <4>5, <4>6, QuietSteps
               DEF SCas, XReserve, XGrab, XTimeout, XWaitTimeout, UnlockWake, Failed
      <3> QED BY <3>1, <3>2
    <2> QED BY <2>1, <2>2 DEF Next, Stopped
  <1> QED BY <1>1, LockTableInvariant, PTL DEF Spec, WriterOwnsWord

\* A step of the lock table is a step of RWLock, or leaves the locks as they are.
LEMMA StepRefines ==
    ASSUME LockInv, NEW t \in Txns, TxnStep(t)
    PROVE  UNCHANGED held \/ \E b \in Blocks : RW!Share(t, b) \/ RW!Exclude(t, b) \/ RW!GiveUp(t, b)
  <1> DEFINE x == <<t, blk[t]>>
  <1>1. CASE UNCHANGED held
    BY <1>1
  <1>2. CASE SCas(t) /\ word = old[t]
    <2>1. blk[t] \in Blocks /\ held[x] = "none" /\ held' = [held EXCEPT ![x] = "S"]
      BY <1>2 DEF SCas, Granted, LockInv, WordTypeOK, LockPCs, CallLocks, SPCs, Held
    <2>2. \A y \in RW!OthersOf(t, blk[t]) : held[y] = "S"
      BY <1>2, SCasHolders DEF RW!OthersOf, Keys, LockInv, WordTypeOK
    <2> QED BY <2>1, <2>2 DEF RW!Share
  <1>3. CASE XGrab(t) /\ word = old[t]
    <2>1. blk[t] \in Blocks /\ held[x] # "X" /\ held' = [held EXCEPT ![x] = "X"]
      BY <1>3 DEF XGrab, Granted, LockInv, WordTypeOK, LockPCs, CallLocks, XPCs, Held
    <2>2. RW!OthersOf(t, blk[t]) = {}
      BY <1>3, XGrabHolders DEF RW!OthersOf, Keys
    <2> QED BY <2>1, <2>2 DEF RW!Exclude
  <1>4. CASE UnlockWrite(t)
    <2>1. blk[t] \in Blocks /\ held[x] # "none" /\ held' = [held EXCEPT ![x] = "none"]
      BY <1>4 DEF UnlockWrite, LockInv, WordTypeOK, CallLocks, Held
    <2> QED BY <2>1 DEF RW!GiveUp
  <1> QED BY <1>1, <1>2, <1>3, <1>4, QuietSteps
         DEF SCas, XReserve, XGrab, XTimeout, XWaitTimeout, UnlockWake, Failed

\* The lock table implements RWLock: what it grants on a block is what a lock
\* manager may grant (concurrency.go:46-112).
THEOREM ImplementsRWLock == Spec => RefinesRWLock
  <1>1. Init => RW!Init
    BY DEF Init, RW!Init, RW!Unlocked
  <1>2. LockInv /\ [Next]_vars => [RW!Next]_held
    <2> SUFFICES ASSUME LockInv, [Next]_vars PROVE RW!Next \/ UNCHANGED held
      OBVIOUS
    <2>1. CASE UNCHANGED vars
      BY <2>1 DEF vars
    <2>2. ASSUME NEW t \in Txns, TxnStep(t) PROVE RW!Next \/ UNCHANGED held
      BY <2>2, StepRefines DEF RW!Next
    <2> QED BY <2>1, <2>2 DEF Next, Stopped
  <1> QED BY <1>1, <1>2, LockTableInvariant, PTL DEF Spec, RefinesRWLock, RW!Spec

-----------------------------------------------------------------------------
(* The types of the waiter lists. *)

Queues ==
    [head : [Kinds -> Waiters \cup {Nil}], tail : [Kinds -> Waiters \cup {Nil}],
     prev : [Waiters -> Waiters \cup {Nil}], next : [Waiters -> Waiters \cup {Nil}]]
WakeStates ==
    [cur : Waiters \cup {Nil}, queue : Queues, closed : SUBSET Waiters, panicked : BOOLEAN]

\* One pointer of the lists set to a waiter, or to none.
LEMMA PointerType ==
    ASSUME NEW q \in Queues, NEW v \in Waiters \cup {Nil}
    PROVE  /\ \A k \in Kinds : [q EXCEPT !.head[k] = v] \in Queues
           /\ \A k \in Kinds : [q EXCEPT !.tail[k] = v] \in Queues
           /\ \A w \in Waiters : [q EXCEPT !.prev[w] = v] \in Queues
           /\ \A w \in Waiters : [q EXCEPT !.next[w] = v] \in Queues
  BY DEF Queues

\* A waiter put at the end of a list (waiter.go) leaves pointers to waiters.
LEMMA EnqueueType ==
    ASSUME NEW q \in Queues, NEW k \in Kinds, NEW w \in Waiters
    PROVE  Enqueue(q, k, w) \in Queues
  <1>1. q.tail[k] \in Waiters \cup {Nil}
    BY DEF Queues
  <1>2. CASE q.tail[k] = Nil
    <2> DEFINE a == [q EXCEPT !.head[k] = w]
    <2>1. a \in Queues
      BY PointerType
    <2>2. Enqueue(q, k, w) = [a EXCEPT !.tail[k] = w]
      BY <1>2 DEF Enqueue
    <2> HIDE DEF a
    <2> QED BY <2>1, <2>2, PointerType
  <1>3. CASE q.tail[k] # Nil
    <2> DEFINE a == [q EXCEPT !.prev[w] = q.tail[k]]
    <2> DEFINE b == [a EXCEPT !.next[q.tail[k]] = w]
    <2>1. a \in Queues
      BY <1>1, PointerType
    <2>2. Enqueue(q, k, w) = [b EXCEPT !.tail[k] = w]
      BY <1>3 DEF Enqueue
    <2> HIDE DEF a
    <2>3. b \in Queues
      BY <1>1, <1>3, <2>1, PointerType
    <2> HIDE DEF b
    <2> QED BY <2>2, <2>3, PointerType
  <1> QED BY <1>2, <1>3

\* So does an upgrade put at the front of its list.
LEMMA EnqueueFrontType ==
    ASSUME NEW q \in Queues, NEW w \in Waiters
    PROVE  EnqueueUpgradeFront(q, w) \in Queues
  <1> DEFINE d == [q EXCEPT !.prev[w] = Nil]
             c == [d EXCEPT !.next[w] = Nil]
             v == c.head["U"]
             a == [c EXCEPT !.head["U"] = w]
             e == [c EXCEPT !.next[w] = v]
             g == [e EXCEPT !.prev[v] = w]
  <1>1. EnqueueUpgradeFront(q, w) =
            IF v = Nil THEN [a EXCEPT !.tail["U"] = w] ELSE [g EXCEPT !.head["U"] = w]
    BY DEF EnqueueUpgradeFront
  <1>2. d \in Queues /\ "U" \in Kinds
    BY PointerType DEF Kinds
  <1> HIDE DEF d
  <1>3. c \in Queues
    BY <1>2, PointerType
  <1> HIDE DEF c
  <1>4. v \in Waiters \cup {Nil}
    BY <1>2, <1>3 DEF Queues
  <1> HIDE DEF v
  <1>5. a \in Queues /\ e \in Queues
    BY <1>2, <1>3, <1>4, PointerType
  <1> HIDE DEF a, e
  <1>6. v # Nil => g \in Queues
    BY <1>4, <1>5, PointerType
  <1> HIDE DEF g
  <1>7. [a EXCEPT !.tail["U"] = w] \in Queues
    BY <1>2, <1>5, PointerType
  <1>8. v # Nil => [g EXCEPT !.head["U"] = w] \in Queues
    BY <1>2, <1>6, PointerType
  <1> QED BY <1>1, <1>7, <1>8

\* And so does a waiter that leaves its list, from wherever.
LEMMA DequeueType ==
    ASSUME NEW q \in Queues, NEW k \in Kinds, NEW w \in Waiters
    PROVE  Dequeue(q, k, w) \in Queues
  <1> DEFINE a == IF q.prev[w] # Nil THEN [q EXCEPT !.next[q.prev[w]] = q.next[w]]
                                     ELSE [q EXCEPT !.head[k] = q.next[w]]
             b == IF a.next[w] # Nil THEN [a EXCEPT !.prev[a.next[w]] = a.prev[w]]
                                     ELSE [a EXCEPT !.tail[k] = a.prev[w]]
             c == [b EXCEPT !.prev[w] = Nil]
  <1>1. Dequeue(q, k, w) = [c EXCEPT !.next[w] = Nil]
    BY DEF Dequeue
  <1>2. a \in Queues
    <2>1. q.prev[w] # Nil => q.prev[w] \in Waiters
      BY DEF Queues
    <2> QED BY <2>1 DEF Queues
  <1> HIDE DEF a
  <1>3. b \in Queues
    <2>1. a.next[w] # Nil => a.next[w] \in Waiters
      BY <1>2 DEF Queues
    <2> QED BY <1>2, <2>1 DEF Queues
  <1> HIDE DEF b
  <1>4. c \in Queues
    BY <1>3, PointerType
  <1> HIDE DEF c
  <1> QED BY <1>1, <1>4, PointerType

\* One turn of a wake loop keeps the types.
LEMMA WakeOneType ==
    ASSUME NEW k \in Kinds, NEW s \in WakeStates
    PROVE  WakeOne(k, s) \in WakeStates
  <1>1. /\ s.cur \in Waiters \cup {Nil} /\ s.queue \in Queues /\ s.closed \in SUBSET Waiters
        /\ s.panicked \in BOOLEAN
    BY DEF WakeStates
  <1>2. CASE s.cur = Nil \/ s.panicked
    BY <1>2 DEF WakeOne
  <1>3. CASE ~(s.cur = Nil \/ s.panicked) /\ s.cur \in s.closed
    <2>1. WakeOne(k, s) = [s EXCEPT !.panicked = TRUE]
      BY <1>3 DEF WakeOne
    <2> QED BY <2>1 DEF WakeStates
  <1>4. CASE ~(s.cur = Nil \/ s.panicked) /\ s.cur \notin s.closed
    <2>1. s.cur \in Waiters
      BY <1>1, <1>4
    <2>2. Dequeue(s.queue, k, s.cur) \in Queues /\ s.queue.next[s.cur] \in Waiters \cup {Nil}
      BY <1>1, <2>1, DequeueType DEF Queues
    <2>3. WakeOne(k, s) =
              [cur |-> s.queue.next[s.cur], queue |-> Dequeue(s.queue, k, s.cur),
               closed |-> s.closed \cup {s.cur}, panicked |-> FALSE]
      BY <1>4 DEF WakeOne
    <2> QED BY <1>1, <2>1, <2>2, <2>3 DEF WakeStates
  <1> QED BY <1>2, <1>3, <1>4

\* The wake loop after i turns.
Turns(k, n, f) ==
    f = [i \in 0 .. n |->
            IF i = 0 THEN [cur |-> queue.head[k], queue |-> queue, closed |-> closed,
                           panicked |-> FALSE]
            ELSE WakeOne(k, f[i - 1])]

\* The wake loop has a run of every length.
LEMMA TurnsExist ==
    ASSUME NEW k, NEW n \in Nat
    PROVE  \E f : Turns(k, n, f)
  <1> DEFINE start == [cur |-> queue.head[k], queue |-> queue, closed |-> closed,
                       panicked |-> FALSE]
             T == {m \in Nat : ~\E f : Turns(k, m, f)}
  <1>1. SUFFICES ASSUME n \in T PROVE FALSE
    OBVIOUS
  <1>2. PICK m \in T : \A y \in T : ~(<<y, m>> \in OpToRel(<, Nat))
    <2>1. T \subseteq Nat /\ T # {}
      BY <1>1
    <2> HIDE DEF T
    <2> QED BY <2>1, NatLessThanWellFounded, WFMin
  <1>3. m \in Nat /\ ~\E f : Turns(k, m, f)
    OBVIOUS
  <1>4. \A y \in T : ~(y < m)
    BY <1>2 DEF OpToRel
  <1>5. CASE m = 0
    <2>1. Turns(k, 0, [i \in 0 .. 0 |-> start])
      BY DEF Turns
    <2> QED BY <1>3, <1>5, <2>1
  <1>6. CASE m # 0
    <2>1. m - 1 \in Nat /\ m - 1 < m
      BY <1>3, <1>6
    <2>2. PICK f : Turns(k, m - 1, f)
      BY <1>4, <2>1
    <2> DEFINE g == [i \in 0 .. m |-> IF i = m THEN WakeOne(k, f[m - 1]) ELSE f[i]]
    <2>3. Turns(k, m, g)
      <3>1. \A i \in 0 .. m - 1 : f[i] = IF i = 0 THEN start ELSE WakeOne(k, f[i - 1])
        BY <2>2 DEF Turns
      <3>2. ASSUME NEW i \in 0 .. m PROVE g[i] = IF i = 0 THEN start ELSE WakeOne(k, g[i - 1])
        <4>1. CASE i = m
          <5>1. g[i] = WakeOne(k, f[m - 1]) /\ g[i - 1] = f[m - 1] /\ i # 0
            BY <1>3, <1>6, <4>1
          <5> QED BY <4>1, <5>1
        <4>2. CASE i # m /\ i # 0
          <5>1. g[i] = f[i] /\ g[i - 1] = f[i - 1] /\ i \in 0 .. m - 1
            BY <1>3, <4>2
          <5> QED BY <3>1, <4>2, <5>1
        <4>3. CASE i = 0
          <5>1. g[i] = f[i] /\ i \in 0 .. m - 1
            BY <1>3, <1>6, <4>3
          <5> QED BY <3>1, <4>3, <5>1
        <4> QED BY <4>1, <4>2, <4>3
      <3> QED BY <3>2 DEF Turns
    <2> QED BY <1>3, <2>3
  <1> QED BY <1>5, <1>6

\* Every turn of it keeps the types.
LEMMA TurnsType ==
    ASSUME QueueTypeOK, NEW k \in Kinds, NEW n \in Nat, NEW f, Turns(k, n, f), NEW j \in 0 .. n
    PROVE  f[j] \in WakeStates
  <1> DEFINE start == [cur |-> queue.head[k], queue |-> queue, closed |-> closed,
                       panicked |-> FALSE]
             T == {m \in Nat : m <= n /\ f[m] \notin WakeStates}
  <1>1. SUFFICES ASSUME j \in T PROVE FALSE
    OBVIOUS
  <1>2. PICK m \in T : \A y \in T : ~(<<y, m>> \in OpToRel(<, Nat))
    <2>1. T \subseteq Nat /\ T # {}
      BY <1>1
    <2> HIDE DEF T
    <2> QED BY <2>1, NatLessThanWellFounded, WFMin
  <1>3. \A y \in T : ~(y < m)
    BY <1>2 DEF OpToRel
  <1>4. /\ m \in 0 .. n /\ f[m] \notin WakeStates
        /\ f[m] = IF m = 0 THEN start ELSE WakeOne(k, f[m - 1])
    <2>1. m \in 0 .. n /\ f[m] \notin WakeStates
      OBVIOUS
    <2>2. \A i \in 0 .. n : f[i] = IF i = 0 THEN start ELSE WakeOne(k, f[i - 1])
      BY DEF Turns
    <2> QED BY <2>1, <2>2
  <1>5. start \in WakeStates
    BY DEF QueueTypeOK, WakeStates, Queues
  <1>6. CASE m # 0
    <2>1. m - 1 \in Nat /\ m - 1 <= n /\ m - 1 < m
      BY <1>4, <1>6
    <2>2. f[m - 1] \in WakeStates
      BY <1>3, <2>1
    <2> QED BY <1>4, <1>6, <2>2, WakeOneType
  <1> HIDE DEF start
  <1> QED BY <1>4, <1>5, <1>6

\* Waking keeps the types.
LEMMA WakeType ==
    ASSUME QueueTypeOK, NEW k \in Kinds, NEW n \in Nat
    PROVE  Wake(k, n) \in WakeStates
  <1> DEFINE turn == CHOOSE f : Turns(k, n, f)
  <1>1. Turns(k, n, turn)
    BY TurnsExist
  <1>2. Wake(k, n) = turn[n]
    BY DEF Wake, Turns
  <1> HIDE DEF turn
  <1> QED BY <1>1, <1>2, TurnsType

\* Turns enough for every waiter is a number of turns.
LEMMA AllTurnsNat == AllTurns \in Nat
  <1> DEFINE A == (Txns \X Blocks) \X {"S", "X"}
             f == [x \in A |-> <<x[1][1], x[1][2], x[2]>>]
  <1>1. IsFiniteSet(A)
    <2>1. IsFiniteSet(Txns \X Blocks)
      BY FiniteAssumption, FS_Product
    <2>2. IsFiniteSet({"S", "X"})
      <3>1. IsFiniteSet({"S"})
        BY FS_Singleton
      <3>2. {"S", "X"} = {"S"} \cup {"X"}
        OBVIOUS
      <3> QED BY <3>1, <3>2, FS_AddElement
    <2> QED BY <2>1, <2>2, FS_Product
  <1>2. f \in Surjection(A, Waiters)
    <2>1. f \in [A -> Waiters]
      BY DEF Waiters
    <2>2. ASSUME NEW w \in Waiters PROVE \E x \in A : f[x] = w
      <3>1. PICK t \in Txns, b \in Blocks, m \in {"S", "X"} : w = <<t, b, m>>
        BY DEF Waiters
      <3>2. <<<<t, b>>, m>> \in A /\ f[<<<<t, b>>, m>>] = w
        BY <3>1
      <3> QED BY <3>2
    <2> HIDE DEF f, A
    <2> QED BY <2>1, <2>2, Fun_IsSurj
  <1>3. IsFiniteSet(Waiters)
    <2> HIDE DEF f, A
    <2> QED BY <1>1, <1>2, FS_Surjection
  <1> QED BY <1>3, FS_CardinalityType DEF AllTurns

\* Parking (SPark, XPark) puts a waiter on a list.
LEMMA ParkQueueType ==
    ASSUME LockInv, QueueTypeOK, NEW t \in Txns, SPark(t) \/ XPark(t)
    PROVE  QueueTypeOK'
  <1>1. queue \in Queues /\ blk[t] \in Blocks
    BY DEF QueueTypeOK, Queues, LockInv, WordTypeOK, SPark, XPark, LockPCs
  <1>2. SWaiter(t) \in Waiters /\ XWaiter(t) \in Waiters /\ "R" \in Kinds /\ XKind(t) \in Kinds
    BY <1>1 DEF SWaiter, XWaiter, Waiters, Kinds, XKind
  <1>3. /\ Enqueue(queue, "R", SWaiter(t)) \in Queues
        /\ Enqueue(queue, XKind(t), XWaiter(t)) \in Queues
    BY <1>1, <1>2, EnqueueType
  <1>4. EnqueueUpgradeFront(queue, XWaiter(t)) \in Queues
    BY <1>1, <1>2, EnqueueFrontType
  <1>5. queue' \in Queues /\ closed' = closed /\ panicked' = panicked
    BY <1>3, <1>4 DEF SPark, XPark
  <1> QED BY <1>5 DEF QueueTypeOK, Queues

\* A timeout (SWaitTimeout, XWaitTimeout) takes the waiter off.
LEMMA TimeoutQueueType ==
    ASSUME LockInv, QueueTypeOK, NEW t \in Txns, SWaitTimeout(t) \/ XWaitTimeout(t)
    PROVE  QueueTypeOK'
  <1>1. queue \in Queues /\ blk[t] \in Blocks
    BY DEF QueueTypeOK, Queues, LockInv, WordTypeOK, SWaitTimeout, XWaitTimeout, LockPCs
  <1>2. SWaiter(t) \in Waiters /\ XWaiter(t) \in Waiters /\ "R" \in Kinds /\ XKind(t) \in Kinds
    BY <1>1 DEF SWaiter, XWaiter, Waiters, Kinds, XKind
  <1>3. /\ Dequeue(queue, "R", SWaiter(t)) \in Queues
        /\ Dequeue(queue, XKind(t), XWaiter(t)) \in Queues
    BY <1>1, <1>2, DequeueType
  <1>4. queue' \in Queues /\ closed' = closed /\ panicked' = panicked
    BY <1>3 DEF SWaitTimeout, XWaitTimeout
  <1> QED BY <1>4 DEF QueueTypeOK, Queues

\* Unlock wakes waiters of one list.
LEMMA WakeQueueType ==
    ASSUME QueueTypeOK, NEW t \in Txns, UnlockWake(t)
    PROVE  QueueTypeOK'
  <1>1. CASE old[t].w
    BY <1>1 DEF UnlockWake, waitVars, QueueTypeOK
  <1>2. CASE ~old[t].w
    <2>1. Wake("W", 1) \in WakeStates /\ Wake("U", 1) \in WakeStates
          /\ Wake("R", AllTurns) \in WakeStates
      BY WakeType, AllTurnsNat DEF Kinds
    <2>2. PICK s \in WakeStates : s = HandOff(old[t])
      BY <2>1 DEF HandOff
    <2>3. queue' = s.queue /\ closed' = s.closed /\ panicked' = s.panicked
      BY <1>2, <2>2 DEF UnlockWake
    <2> QED BY <2>3 DEF WakeStates, QueueTypeOK, Queues
  <1> QED BY <1>1, <1>2

\* The types of words, locks and waiter lists are kept (locktable.go, waiter.go).
THEOREM LockTypesKept == Spec => []TypeOK
  <1>1. Init => QueueTypeOK
    <2>1. EmptyQueue \in Queues
      BY DEF EmptyQueue, Queues, Kinds
    <2>2. Init => queue \in Queues /\ closed = {} /\ panicked = FALSE
      BY <2>1 DEF Init
    <2> QED BY <2>2 DEF Queues, QueueTypeOK
  <1>2. LockInv /\ QueueTypeOK /\ [Next]_vars => QueueTypeOK'
    <2> SUFFICES ASSUME LockInv, QueueTypeOK, [Next]_vars PROVE QueueTypeOK'
      OBVIOUS
    <2>1. UNCHANGED waitVars => QueueTypeOK'
      BY DEF waitVars, QueueTypeOK
    <2>2. ASSUME NEW t \in Txns, TxnStep(t) PROVE QueueTypeOK'
      <3>1. CASE SPark(t) \/ XPark(t)
        BY <3>1, ParkQueueType
      <3>2. CASE SWaitTimeout(t) \/ XWaitTimeout(t)
        BY <3>2, TimeoutQueueType
      <3>3. CASE UnlockWake(t)
        BY <3>3, WakeQueueType
      <3>4. CASE Call(t) \/ Expire(t)
        <4>1. UNCHANGED waitVars
          BY <3>4 DEF Call, Release, SLock, XLock, Expire
        <4> QED BY <2>1, <4>1
      <3>5. CASE SLoad(t) \/ SCas(t) \/ STimeout(t) \/ SWoken(t)
        <4>1. UNCHANGED waitVars
          BY <3>5 DEF SLoad, SCas, STimeout, SWoken
        <4> QED BY <2>1, <4>1
      <3>6. CASE XLoad(t) \/ XReserve(t) \/ XGrab(t) \/ XTimeout(t) \/ XWoken(t)
        <4>1. UNCHANGED waitVars
          BY <3>6 DEF XLoad, XReserve, XGrab, XTimeout, XWoken
        <4> QED BY <2>1, <4>1
      <3>7. CASE UnlockLoad(t) \/ UnlockWrite(t) \/ Released(t)
        <4>1. UNCHANGED waitVars
          BY <3>7 DEF UnlockLoad, UnlockWrite, Released
        <4> QED BY <2>1, <4>1
      <3> QED BY <2>2, <3>1, <3>2, <3>3, <3>4, <3>5, <3>6, <3>7
              DEF TxnStep, SLockStep, XLockStep, UnlockStep
    <2>3. CASE UNCHANGED vars
      <3>1. UNCHANGED waitVars
        BY <2>3 DEF vars, waitVars
      <3> QED BY <2>1, <3>1
    <2> QED BY <2>2, <2>3 DEF Next, Stopped
  <1>3. LockInv /\ QueueTypeOK => TypeOK
    BY DEF LockInv, TypeOK
  <1> QED BY <1>1, <1>2, <1>3, LockTableInvariant, PTL DEF Spec
=============================================================================
