--------------------------- MODULE BufferMgrProofs ---------------------------
(***************************************************************************)
(* The bookkeeping of the buffer pool agrees, a pinned buffer keeps its    *)
(* block, no sleeper is left with a free buffer, and no change is lost:    *)
(* for any number of transactions, blocks, references and buffers.         *)
(***************************************************************************)
EXTENDS BufferMgr, FiniteSetTheorems, TLAPS

USE DEF Buffer, Call

\* Whoever waits in Pin knows for which block.
CallRefs == \A t \in Txns : call[t].pc \in {"wait", "woken"} => call[t].ref \in Refs

PinsFinite == \A f \in Bufs : IsFiniteSet(PinsOf(f))

\* A buffer has its block's contents; a block whose buffer is clean has them on disk.
Contents ==
    /\ \A f \in Bufs : buf[f].val = buf[f].blk
    /\ \A b \in Blocks : (map[b] = None \/ ~Modified(map[b])) => disk[b] = b

Inv ==
    /\ TypeOK /\ PoolConsistent /\ CallRefs /\ PinsFinite /\ PinsCounted
    /\ PinnedKeepsBlock /\ SleepersNeedWake
    /\ ~TornReads => Contents

-----------------------------------------------------------------------------
(* Lemmas on the operators. *)

\* Min is a member of a set of naturals that is not empty.
LEMMA MinIsIn ==
    ASSUME NEW S \in SUBSET Nat, S # {}
    PROVE  Min(S) \in S
  <1> DEFINE R == OpToRel(<, Nat)
  <1>1. \A x, y \in Nat : <<x, y>> \in R <=> x < y
    BY DEF OpToRel
  <1>2. IsWellFoundedOn(R, Nat)
    BY NatLessThanWellFounded
  <1> HIDE DEF R
  <1>3. PICK x \in S : \A y \in S : <<y, x>> \notin R
    BY <1>2, WFMin
  <1>4. x \in Nat /\ S \subseteq Nat
    OBVIOUS
  <1>5. \A y \in S : ~(y < x)
    BY <1>1, <1>3, <1>4
  <1>6. \A y \in S : x <= y
    BY <1>4, <1>5
  <1> QED BY <1>6 DEF Min

\* The members of PinsOf.
LEMMA InPins ==
    ASSUME NEW f, NEW x
    PROVE  x \in PinsOf(f) <=>
             \E u \in Txns, q \in Refs :
                holds[u][q] = f /\ \E n \in 1 .. pins[u][q] : x = <<<<u, q>>, n>>
  BY DEF PinsOf, HoldsOf

\* A buffer that some transaction holds is pinned.
LEMMA HeldIsPinned ==
    ASSUME Inv, NEW t \in Txns, NEW r \in Refs, holds[t][r] # None
    PROVE  /\ holds[t][r] \in Bufs /\ pins[t][r] \in Nat /\ pins[t][r] > 0
           /\ buf[holds[t][r]].pins > 0
  <1> DEFINE f == holds[t][r]
  <1>1. f \in Bufs /\ pins[t][r] \in Nat /\ pins[t][r] > 0
    BY DEF Inv, TypeOK, PinnedKeepsBlock
  <1>2. <<<<t, r>>, 1>> \in PinsOf(f)
    BY <1>1, InPins
  <1>3. IsFiniteSet(PinsOf(f)) /\ buf[f].pins = Cardinality(PinsOf(f))
    BY <1>1 DEF Inv, PinsFinite, PinsCounted
  <1>4. Cardinality(PinsOf(f)) \in Nat /\ Cardinality(PinsOf(f)) # 0
    BY <1>2, <1>3, FS_CardinalityType, FS_EmptySet
  <1> QED BY <1>1, <1>3, <1>4

\* A victim is a buffer that no transaction holds.
LEMMA VictimIsFree ==
    ASSUME Inv, Victims # {}
    PROVE  /\ Min(Victims) \in 1 .. Cardinality(Bufs) /\ Victim \in Bufs /\ Unpinned(Victim)
           /\ \A t \in Txns, r \in Refs : holds[t][r] # Victim
  <1>1. lru \in [1 .. Cardinality(Bufs) -> Bufs] /\ Cardinality(Bufs) \in Nat
    BY PoolAssumption, FS_CardinalityType DEF Inv, TypeOK
  <1>2. Victims \in SUBSET Nat
    BY <1>1 DEF Victims
  <1>3. Min(Victims) \in Victims
    BY <1>2, MinIsIn
  <1>4. Victim \in Bufs /\ Unpinned(Victim) /\ Min(Victims) \in 1 .. Cardinality(Bufs)
    BY <1>1, <1>3 DEF Victims, Victim, MayGo
  <1>5. ASSUME NEW t \in Txns, NEW r \in Refs, holds[t][r] = Victim
        PROVE  FALSE
    BY <1>4, <1>5, HeldIsPinned, NoneAssumption DEF Unpinned
  <1> QED BY <1>4, <1>5

\* The list of victims stays a list of all buffers.
LEMMA LruMoved ==
    ASSUME Inv, NEW i \in 1 .. Cardinality(Bufs), lru' = MovedToTail(i)
    PROVE  /\ lru' \in [1 .. Cardinality(Bufs) -> Bufs]
           /\ IsInjective(lru') /\ ToSet(lru') = Bufs
  <1> DEFINE N == Cardinality(Bufs)
  <1>1. N \in Nat /\ lru \in [1 .. N -> Bufs] /\ IsInjective(lru) /\ ToSet(lru) = Bufs
    BY PoolAssumption, FS_CardinalityType DEF Inv, TypeOK, PoolConsistent
  <1> HIDE DEF N
  <1>2. i \in 1 .. N
    BY DEF N
  <1>3. lru' = [j \in 1 .. N |->
                     IF j < i THEN lru[j] ELSE IF j + 1 \in 1 .. N THEN lru[j + 1] ELSE lru[i]]
    BY <1>1 DEF MovedToTail
  <1>4. lru' \in [1 .. N -> Bufs]
    BY <1>1, <1>2, <1>3
  <1>5. \A j \in 1 .. N : lru'[j] = IF j < i THEN lru[j] ELSE IF j < N THEN lru[j + 1] ELSE lru[i]
    BY <1>1, <1>3
  <1>6. \A j, k \in 1 .. N : lru[j] = lru[k] => j = k
    BY <1>1 DEF IsInjective
  <1>7. IsInjective(lru')
    <2>1. ASSUME NEW j \in 1 .. N, NEW k \in 1 .. N, lru'[j] = lru'[k] PROVE j = k
      BY <1>1, <1>2, <1>5, <1>6, <2>1
    <2> QED BY <1>4, <2>1 DEF IsInjective
  <1>8. \A g \in Bufs : \E j \in 1 .. N : lru'[j] = g
    <2>1. SUFFICES ASSUME NEW k \in 1 .. N PROVE \E j \in 1 .. N : lru'[j] = lru[k]
      BY <1>1 DEF ToSet
    <2>2. CASE k < i
      BY <1>5, <2>2
    <2>3. CASE k = i
      <3>1. N \in 1 .. N /\ lru'[N] = lru[i]
        BY <1>1, <1>2, <1>5, <2>3
      <3> QED BY <2>3, <3>1
    <2>4. CASE k > i
      <3>1. k - 1 \in 1 .. N /\ lru'[k - 1] = lru[k]
        BY <1>1, <1>2, <1>5, <2>4
      <3> QED BY <3>1
    <2> QED BY <1>1, <1>2, <2>2, <2>3, <2>4
  <1> QED BY <1>4, <1>7, <1>8 DEF ToSet, N

\* One more pin under a reference.
LEMMA PinAdded ==
    ASSUME Inv, NEW t \in Txns, NEW r \in Refs, NEW f \in Bufs,
           holds[t][r] \in {None, f}, Got(t, r, f), NEW g \in Bufs
    PROVE  /\ IsFiniteSet(PinsOf(g)')
           /\ Cardinality(PinsOf(g)') = IF g = f THEN Cardinality(PinsOf(f)) + 1
                                        ELSE Cardinality(PinsOf(g))
  <1> DEFINE x == <<<<t, r>>, pins[t][r] + 1>>
  <1>1. /\ pins \in [Txns -> [Refs -> Nat]] /\ holds \in [Txns -> [Refs -> Bufs \cup {None}]]
        /\ holds[t][r] = None => pins[t][r] = 0
        /\ None \notin Bufs
    BY NoneAssumption DEF Inv, TypeOK, PinnedKeepsBlock
  <1>2. /\ pins' = [pins EXCEPT ![t][r] = @ + 1] /\ holds' = [holds EXCEPT ![t][r] = f]
    BY DEF Got
  <1>3. \A u \in Txns, q \in Refs : <<u, q>> # <<t, r>> =>
           pins'[u][q] = pins[u][q] /\ holds'[u][q] = holds[u][q]
    BY <1>1, <1>2
  <1>4. pins'[t][r] = pins[t][r] + 1 /\ holds'[t][r] = f /\ pins[t][r] \in Nat
    BY <1>1, <1>2
  <1>5. \A y : y \in PinsOf(g)' <=>
             \E u \in Txns, q \in Refs :
                holds'[u][q] = g /\ \E n \in 1 .. pins'[u][q] : y = <<<<u, q>>, n>>
    BY DEF PinsOf, HoldsOf
  <1>6. IsFiniteSet(PinsOf(g))
    BY DEF Inv, PinsFinite
  <1>7. CASE g = f
    <2>1. x \notin PinsOf(f)
      BY <1>4, InPins
    <2>2. PinsOf(f)' = PinsOf(f) \cup {x}
      <3>1. ASSUME NEW u \in Txns, NEW q \in Refs, NEW y
            PROVE  (holds'[u][q] = f /\ \E n \in 1 .. pins'[u][q] : y = <<<<u, q>>, n>>) <=>
                   \/ holds[u][q] = f /\ \E n \in 1 .. pins[u][q] : y = <<<<u, q>>, n>>
                   \/ <<u, q>> = <<t, r>> /\ y = x
        <4>1. CASE <<u, q>> = <<t, r>>
          <5>1. 1 .. pins'[t][r] = 1 .. pins[t][r] \cup {pins[t][r] + 1}
            BY <1>4
          <5>2. holds[t][r] # f => 1 .. pins[t][r] = {}
            BY <1>1, <1>4
          <5> QED BY <1>4, <4>1, <5>1, <5>2
        <4>2. CASE <<u, q>> # <<t, r>>
          BY <1>3, <4>2
        <4> QED BY <4>1, <4>2
      <3>2. \A y : y \in PinsOf(f)' <=> y \in PinsOf(f) \/ y = x
        BY <1>5, <1>7, <3>1, InPins
      <3> QED BY <3>2
    <2> QED BY <1>6, <1>7, <2>1, <2>2, FS_AddElement
  <1>8. CASE g # f
    <2>1. \A u \in Txns, q \in Refs : holds'[u][q] = g <=> holds[u][q] = g
      BY <1>1, <1>3, <1>4, <1>8
    <2>2. \A u \in Txns, q \in Refs : holds[u][q] = g => pins'[u][q] = pins[u][q]
      BY <1>1, <1>3, <1>8
    <2>3. PinsOf(g)' = PinsOf(g)
      <3>1. \A y : y \in PinsOf(g)' <=> y \in PinsOf(g)
        BY <1>5, <2>1, <2>2, InPins
      <3> QED BY <3>1
    <2> QED BY <1>6, <1>8, <2>3
  <1> QED BY <1>7, <1>8

\* One pin less under a reference.
LEMMA PinDropped ==
    ASSUME Inv, NEW t \in Txns, NEW r \in Refs, NEW f \in Bufs,
           holds[t][r] = f, pins[t][r] > 0, NEW g \in Bufs,
           pins' = [pins EXCEPT ![t][r] = @ - 1], holds' = [holds EXCEPT ![t][r] = Kept(t, r)]
    PROVE  /\ IsFiniteSet(PinsOf(g)')
           /\ Cardinality(PinsOf(g)') = IF g = f THEN Cardinality(PinsOf(f)) - 1
                                        ELSE Cardinality(PinsOf(g))
  <1> DEFINE x == <<<<t, r>>, pins[t][r]>>
  <1>1. /\ pins \in [Txns -> [Refs -> Nat]] /\ holds \in [Txns -> [Refs -> Bufs \cup {None}]]
        /\ None \notin Bufs
    BY NoneAssumption DEF Inv, TypeOK
  <1>2. \A u \in Txns, q \in Refs : <<u, q>> # <<t, r>> =>
           pins'[u][q] = pins[u][q] /\ holds'[u][q] = holds[u][q]
    BY <1>1
  <1>3. /\ pins'[t][r] = pins[t][r] - 1 /\ pins[t][r] \in Nat
        /\ holds'[t][r] = IF pins[t][r] = 1 THEN None ELSE f
    BY <1>1 DEF Kept
  <1>4. \A y : y \in PinsOf(g)' <=>
             \E u \in Txns, q \in Refs :
                holds'[u][q] = g /\ \E n \in 1 .. pins'[u][q] : y = <<<<u, q>>, n>>
    BY DEF PinsOf, HoldsOf
  <1>5. IsFiniteSet(PinsOf(g))
    BY DEF Inv, PinsFinite
  <1>6. CASE g = f
    <2>1. x \in PinsOf(f)
      BY <1>3, InPins
    <2>2. PinsOf(f)' = PinsOf(f) \ {x}
      <3>1. ASSUME NEW u \in Txns, NEW q \in Refs, NEW y
            PROVE  (holds'[u][q] = f /\ \E n \in 1 .. pins'[u][q] : y = <<<<u, q>>, n>>) <=>
                   (y # x /\ holds[u][q] = f /\ \E n \in 1 .. pins[u][q] : y = <<<<u, q>>, n>>)
        <4>1. CASE <<u, q>> = <<t, r>>
          <5>1. 1 .. pins'[t][r] = (1 .. pins[t][r]) \ {pins[t][r]}
            BY <1>3
          <5>2. holds'[t][r] # f => 1 .. pins'[t][r] = {} /\ pins[t][r] = 1
            BY <1>3
          <5>3. u = t /\ q = r
            BY <4>1
          <5>4. \A n \in 1 .. pins[t][r] : n # pins[t][r] <=> n \in 1 .. pins'[t][r]
            BY <5>1
          <5>5. \A n : <<<<t, r>>, n>> = x <=> n = pins[t][r]
            OBVIOUS
          <5> HIDE DEF x
          <5>6. CASE pins[t][r] = 1
            <6>1. 1 .. pins'[t][r] = {} /\ 1 .. pins[t][r] = {1}
              BY <1>3, <5>6
            <6> QED BY <5>3, <5>5, <5>6, <6>1
          <5>7. CASE pins[t][r] # 1
            BY <1>3, <5>1, <5>3, <5>4, <5>5, <5>7
          <5> QED BY <5>6, <5>7
        <4>2. CASE <<u, q>> # <<t, r>>
          BY <1>2, <4>2
        <4> QED BY <4>1, <4>2
      <3>2. \A y : y \in PinsOf(f)' <=> y \in PinsOf(f) /\ y # x
        BY <1>4, <1>6, <3>1, InPins
      <3> QED BY <3>2
    <2> HIDE DEF x
    <2>3. /\ IsFiniteSet(PinsOf(f) \ {x})
          /\ Cardinality(PinsOf(f) \ {x}) = Cardinality(PinsOf(f)) - 1
      BY <1>5, <1>6, <2>1, FS_RemoveElement
    <2> QED BY <1>6, <2>2, <2>3
  <1>7. CASE g # f
    <2>1. \A u \in Txns, q \in Refs : (holds'[u][q] = g) <=> (holds[u][q] = g)
      BY <1>1, <1>2, <1>3, <1>7
    <2>2. \A u \in Txns, q \in Refs : holds[u][q] = g => pins'[u][q] = pins[u][q]
      BY <1>1, <1>2, <1>7
    <2>3. PinsOf(g)' = PinsOf(g)
      <3>1. \A y : y \in PinsOf(g)' <=> y \in PinsOf(g)
        BY <1>4, <2>1, <2>2, InPins
      <3> QED BY <3>1
    <2> QED BY <1>5, <1>7, <2>3
  <1> QED BY <1>6, <1>7

\* The pins do not change.
LEMMA PinsKept ==
    ASSUME Inv, UNCHANGED <<pins, holds>>, \A f \in Bufs : buf'[f].pins = buf[f].pins
    PROVE  PinsFinite' /\ PinsCounted'
  <1>1. \A f \in Bufs : PinsOf(f)' = PinsOf(f)
    BY DEF PinsOf, HoldsOf
  <1> QED BY <1>1 DEF Inv, PinsFinite, PinsCounted

FreeBufs == {f \in Bufs : Unpinned(f)}

\* The unpinned buffers are finitely many.
LEMMA FreeFinite == IsFiniteSet(FreeBufs) /\ Cardinality(FreeBufs) \in Nat
  <1>1. FreeBufs \in SUBSET Bufs
    BY DEF FreeBufs
  <1> QED BY <1>1, PoolAssumption, FS_Subset, FS_CardinalityType

-----------------------------------------------------------------------------
(* Pin. *)

\* A pin of a block in the pool takes its buffer from the free ones, if it was one (buffer.go:293).
LEMMA HitKeeps ==
    ASSUME Inv, NEW t \in Txns, NEW r \in Refs, Hit(t, r), call[t].pc \in {"idle", "woken"}
    PROVE  Inv'
  <1> DEFINE b == BlockOf[r]
             f == map[b]
  <1>1. /\ TypeOK /\ PoolConsistent /\ b \in Blocks /\ f \in Bufs /\ f # None /\ None \notin Bufs
        /\ buf' = [buf EXCEPT ![f].pins = @ + 1] /\ avail' = avail - Taken(f) /\ Got(t, r, f)
        /\ UNCHANGED <<map, lru, disk>> /\ buf[f].blk = b
    BY RefAssumption, NoneAssumption DEF Inv, Hit, TypeOK, PoolConsistent
  <1> HIDE DEF b, f
  <1>2. /\ buf'[f].pins = buf[f].pins + 1 /\ buf[f].pins \in Nat
        /\ \A g \in Bufs : g # f => buf'[g] = buf[g]
        /\ \A g \in Bufs : /\ buf'[g].blk = buf[g].blk /\ buf'[g].val = buf[g].val
                           /\ buf'[g].txn = buf[g].txn
    BY <1>1 DEF TypeOK
  <1>3. holds[t][r] \in {None, f}
    <2>1. holds[t][r] # None => buf[holds[t][r]].blk = b /\ holds[t][r] \in Bufs
      BY <1>1 DEF Inv, PinnedKeepsBlock, TypeOK, b
    <2> QED BY <1>1, <2>1 DEF PoolConsistent, f
  <1>4. PinsFinite' /\ PinsCounted'
    <2>1. \A g \in Bufs : buf'[g].pins = IF g = f THEN buf[f].pins + 1 ELSE buf[g].pins
      BY <1>2
    <2>2. \A g \in Bufs : /\ IsFiniteSet(PinsOf(g)')
                          /\ Cardinality(PinsOf(g)') = IF g = f THEN Cardinality(PinsOf(f)) + 1
                                                       ELSE Cardinality(PinsOf(g))
      BY <1>1, <1>3, PinAdded
    <2> QED BY <1>1, <2>1, <2>2 DEF Inv, PinsFinite, PinsCounted
  <1>5. TypeOK'
    <2>1. buf' \in [Bufs -> Buffer]
      <3>0. buf[f] \in Buffer
        BY <1>1 DEF TypeOK
      <3>1. [buf[f] EXCEPT !.pins = @ + 1] \in Buffer
        BY <3>0
      <3>2. buf' = [buf EXCEPT ![f] = [buf[f] EXCEPT !.pins = @ + 1]]
        BY <1>1
      <3> QED BY <1>1, <3>1, <3>2 DEF TypeOK
    <2>2. /\ call' \in [Txns -> Call]
          /\ pins' \in [Txns -> [Refs -> Nat]] /\ holds' \in [Txns -> [Refs -> Bufs \cup {None}]]
      BY <1>1 DEF TypeOK, Got, Idle
    <2>3. avail' \in Int
      BY <1>1 DEF TypeOK, Taken
    <2> QED BY <1>1, <2>1, <2>2, <2>3 DEF TypeOK
  <1>6. PoolConsistent'
    <2>1. avail' = Cardinality(FreeBufs')
      <3>1. FreeBufs' = FreeBufs \ {f}
        BY <1>1, <1>2 DEF FreeBufs, Unpinned, TypeOK
      <3>2. avail = Cardinality(FreeBufs) /\ (f \in FreeBufs <=> Unpinned(f))
        BY <1>1 DEF PoolConsistent, FreeBufs
      <3>3. Cardinality(FreeBufs \ {f}) =
               IF f \in FreeBufs THEN Cardinality(FreeBufs) - 1 ELSE Cardinality(FreeBufs)
        BY FreeFinite, FS_RemoveElement
      <3> QED BY <1>1, <3>1, <3>2, <3>3, FreeFinite DEF Taken
    <2> QED BY <1>1, <1>2, <2>1 DEF PoolConsistent, FreeBufs, Unpinned
  <1>7. PinnedKeepsBlock'
    <2>1. /\ \A u \in Txns, q \in Refs : <<u, q>> # <<t, r>> =>
                pins'[u][q] = pins[u][q] /\ holds'[u][q] = holds[u][q]
          /\ pins'[t][r] = pins[t][r] + 1 /\ holds'[t][r] = f /\ pins[t][r] \in Nat
      BY <1>1 DEF TypeOK, Got
    <2>2. ASSUME NEW u \in Txns, NEW q \in Refs
          PROVE  /\ holds'[u][q] # None => buf'[holds'[u][q]].blk = BlockOf[q]
                 /\ (holds'[u][q] # None) <=> (pins'[u][q] > 0)
      <3>1. CASE <<u, q>> = <<t, r>>
        BY <1>1, <1>2, <2>1, <3>1 DEF b
      <3>2. CASE <<u, q>> # <<t, r>>
        <4>1. holds[u][q] # None => holds[u][q] \in Bufs
          BY <1>1 DEF TypeOK
        <4> QED BY <1>2, <2>1, <3>2, <4>1 DEF Inv, PinnedKeepsBlock
      <3> QED BY <3>1, <3>2
    <2> QED BY <2>2 DEF PinnedKeepsBlock
  <1>8. \A u \in Txns : call'[u] = IF u = t THEN Idle ELSE call[u]
    BY <1>1 DEF TypeOK, Got
  <1>9. CallRefs' /\ SleepersNeedWake'
    <2>1. \A g \in Bufs : ~Unpinned(g) => ~Unpinned(g)'
      BY <1>1, <1>2 DEF Unpinned, TypeOK
    <2> QED BY <1>1, <1>8, <2>1 DEF Inv, CallRefs, SleepersNeedWake, Idle
  <1>10. ~TornReads => Contents'
    <2>1. \A c \in Blocks : map[c] # None => map[c] \in Bufs
      BY <1>1 DEF TypeOK
    <2> QED BY <1>1, <1>2, <2>1 DEF Inv, Contents, Modified
  <1> QED BY <1>4, <1>5, <1>6, <1>7, <1>9, <1>10 DEF Inv

\* An eviction takes a free buffer, so nobody loses a pinned one, and writes it if it is dirty
\* (buffer.go:270).
LEMMA AssignKeeps ==
    ASSUME Inv, NEW t \in Txns, NEW r \in Refs, Assign(t, r), call[t].pc \in {"idle", "woken"}
    PROVE  Inv'
  <1> DEFINE b == BlockOf[r]
             f == Victim
  <1>1. /\ TypeOK /\ PoolConsistent /\ b \in Blocks /\ None \notin Bufs /\ None \notin Blocks
        /\ map[b] = None /\ Victims # {}
        /\ disk' = DiskAfter({f}) /\ buf' = [buf EXCEPT ![f] = Coming(f, b)]
        /\ map' = Remapped(f, b) /\ lru' = MovedToTail(Min(Victims)) /\ avail' = avail - 1
        /\ Got(t, r, f)
    BY RefAssumption, NoneAssumption DEF Inv, Assign
  <1>2. /\ f \in Bufs /\ Unpinned(f) /\ \A u \in Txns, q \in Refs : holds[u][q] # f
        /\ Min(Victims) \in 1 .. Cardinality(Bufs)
    BY <1>1, VictimIsFree
  <1>3. /\ lru' \in [1 .. Cardinality(Bufs) -> Bufs]
        /\ IsInjective(lru') /\ ToSet(lru') = Bufs
    BY <1>1, <1>2, LruMoved
  <1> HIDE DEF b, f
  <1>4. /\ buf'[f].blk = b /\ buf'[f].pins = 1 /\ buf'[f].val = disk[b] /\ buf'[f].txn = None
        /\ buf'[f].rec = FALSE
        /\ \A g \in Bufs : g # f => buf'[g] = buf[g]
    BY <1>1, <1>2 DEF TypeOK, Coming, Flushed
  <1>5. holds[t][r] = None /\ buf[f].pins = 0
    <2>1. holds[t][r] # None => buf[holds[t][r]].blk = b /\ holds[t][r] \in Bufs
      BY <1>1 DEF Inv, PinnedKeepsBlock, TypeOK, b
    <2> QED BY <1>1, <1>2, <2>1 DEF PoolConsistent, Unpinned
  <1>6. PinsFinite' /\ PinsCounted'
    <2>1. \A g \in Bufs : buf'[g].pins = IF g = f THEN buf[f].pins + 1 ELSE buf[g].pins
      BY <1>4, <1>5
    <2>2. \A g \in Bufs : /\ IsFiniteSet(PinsOf(g)')
                          /\ Cardinality(PinsOf(g)') = IF g = f THEN Cardinality(PinsOf(f)) + 1
                                                       ELSE Cardinality(PinsOf(g))
      BY <1>1, <1>2, <1>5, PinAdded
    <2> QED BY <1>2, <2>1, <2>2 DEF Inv, PinsFinite, PinsCounted
  <1>7. \A c \in Blocks : map'[c] = IF c = b THEN f ELSE IF c = buf[f].blk THEN None ELSE map[c]
    BY <1>1 DEF Remapped
  <1>8. TypeOK'
    <2>1. disk[b] \in Blocks \cup {None} /\ buf[f] \in Buffer
      BY <1>1, <1>2 DEF TypeOK
    <2>2. Coming(f, b) \in Buffer
      BY <1>1, <2>1 DEF Coming, Flushed
    <2>3. buf' \in [Bufs -> Buffer]
      BY <1>1, <1>2, <2>2 DEF TypeOK
    <2>4. /\ call' \in [Txns -> Call]
          /\ pins' \in [Txns -> [Refs -> Nat]] /\ holds' \in [Txns -> [Refs -> Bufs \cup {None}]]
      BY <1>1, <1>2 DEF TypeOK, Got, Idle
    <2>5. map' \in [Blocks -> Bufs \cup {None}]
      BY <1>1, <1>2 DEF TypeOK, Remapped
    <2>6. disk' \in [Blocks -> Blocks \cup {None}]
      BY <1>1, <1>2 DEF TypeOK, DiskAfter
    <2>7. avail' \in Int
      BY <1>1 DEF TypeOK
    <2> QED BY <1>3, <2>3, <2>4, <2>5, <2>6, <2>7 DEF TypeOK
  <1>9. PoolConsistent'
    <2>1. avail' = Cardinality(FreeBufs')
      <3>1. FreeBufs' = FreeBufs \ {f} /\ f \in FreeBufs
        BY <1>2, <1>4 DEF FreeBufs, Unpinned
      <3>2. avail = Cardinality(FreeBufs)
        BY <1>1 DEF PoolConsistent, FreeBufs
      <3> QED BY <1>1, <3>1, <3>2, FreeFinite, FS_RemoveElement
    <2>2. ASSUME NEW c \in Blocks, NEW g \in Bufs
          PROVE  map'[c] = g <=> buf'[g].blk = c
      <3>1. /\ map[c] = g <=> buf[g].blk = c
            /\ map[c] = f <=> buf[f].blk = c
            /\ map[b] = g <=> buf[g].blk = b
        BY <1>1, <1>2, <2>2 DEF PoolConsistent
      <3> QED BY <1>1, <1>2, <1>4, <1>7, <3>1
    <2> QED BY <1>3, <2>1, <2>2 DEF PoolConsistent, FreeBufs, Unpinned
  <1>10. PinnedKeepsBlock'
    <2>1. /\ \A u \in Txns, q \in Refs : <<u, q>> # <<t, r>> =>
                pins'[u][q] = pins[u][q] /\ holds'[u][q] = holds[u][q]
          /\ pins'[t][r] = pins[t][r] + 1 /\ holds'[t][r] = f /\ pins[t][r] \in Nat
      BY <1>1 DEF TypeOK, Got
    <2>2. ASSUME NEW u \in Txns, NEW q \in Refs
          PROVE  /\ holds'[u][q] # None => buf'[holds'[u][q]].blk = BlockOf[q]
                 /\ (holds'[u][q] # None) <=> (pins'[u][q] > 0)
      <3>1. CASE <<u, q>> = <<t, r>>
        BY <1>1, <1>2, <1>4, <2>1, <3>1 DEF b
      <3>2. CASE <<u, q>> # <<t, r>>
        <4>1. holds[u][q] # None => holds[u][q] \in Bufs /\ holds[u][q] # f
          BY <1>1, <1>2 DEF TypeOK
        <4> QED BY <1>4, <2>1, <3>2, <4>1 DEF Inv, PinnedKeepsBlock
      <3> QED BY <3>1, <3>2
    <2> QED BY <2>2 DEF PinnedKeepsBlock
  <1>11. \A u \in Txns : call'[u] = IF u = t THEN Idle ELSE call[u]
    BY <1>1 DEF TypeOK, Got
  <1>12. CallRefs' /\ SleepersNeedWake'
    <2>1. \A u \in Txns : call[u].pc # "wait"
      BY <1>2 DEF Inv, SleepersNeedWake
    <2> QED BY <1>11, <2>1 DEF Inv, CallRefs, SleepersNeedWake, Idle
  <1>13. ASSUME ~TornReads PROVE Contents'
    <2>1. Contents
      BY <1>13 DEF Inv
    <2>2. \A g \in Bufs : buf'[g].val = buf'[g].blk
      BY <1>1, <1>4, <2>1 DEF Contents
    <2>3. ASSUME NEW c \in Blocks, map'[c] = None \/ buf'[map'[c]].txn = None
          PROVE  disk'[c] = c
      <3>1. disk'[c] = IF map[c] = f /\ Modified(f) THEN buf[f].val ELSE disk[c]
        BY <1>1 DEF DiskAfter
      <3>2. map[c] = f => buf[f].blk = c /\ buf[f].val = c
        BY <1>1, <1>2, <2>1 DEF PoolConsistent, Contents
      <3>3. CASE map[c] = None \/ ~Modified(map[c])
        BY <1>1, <1>2, <2>1, <3>1, <3>2, <3>3 DEF Contents
      <3>4. CASE map[c] # None /\ Modified(map[c])
        <4>1. map[c] # f => map[c] \in Bufs /\ c # b /\ c # buf[f].blk
          BY <1>1, <1>2, <3>4 DEF TypeOK, PoolConsistent
        <4>2. map[c] # f => map'[c] = map[c] /\ buf'[map[c]] = buf[map[c]]
          BY <1>4, <1>7, <4>1
        <4>3. map[c] = f
          BY <2>3, <3>4, <4>2 DEF Modified
        <4> QED BY <3>1, <3>2, <3>4, <4>3
      <3> QED BY <3>3, <3>4
    <2> QED BY <2>2, <2>3 DEF Contents, Modified
  <1> QED BY <1>6, <1>8, <1>9, <1>10, <1>12, <1>13 DEF Inv

-----------------------------------------------------------------------------
(* The steps that leave the pins alone. *)

\* A step that moves no pin and no block has only the contents to answer for.
LEMMA SameBooks ==
    ASSUME Inv, TypeOK', UNCHANGED <<map, avail, pins, holds>>,
           \A f \in Bufs : buf'[f].blk = buf[f].blk /\ buf'[f].pins = buf[f].pins,
           IsInjective(lru') /\ ToSet(lru') = Bufs, CallRefs', SleepersNeedWake',
           ~TornReads => Contents'
    PROVE  Inv'
  <1>1. PinsFinite' /\ PinsCounted'
    BY PinsKept
  <1>2. {f \in Bufs : Unpinned(f)}' = {f \in Bufs : Unpinned(f)}
    BY DEF Unpinned
  <1>3. PoolConsistent'
    BY <1>2 DEF Inv, PoolConsistent
  <1>4. PinnedKeepsBlock'
    <2>1. \A u \in Txns, q \in Refs : holds[u][q] # None => holds[u][q] \in Bufs
      BY DEF Inv, TypeOK
    <2> QED BY <2>1 DEF Inv, PinnedKeepsBlock
  <1> QED BY <1>1, <1>3, <1>4 DEF Inv

\* Nobody starts to sleep and no buffer is unpinned.
LEMMA SleepersKept ==
    ASSUME Inv, map' = map, \A f \in Bufs : buf'[f].pins = buf[f].pins,
           \A u \in Txns : call'[u] = call[u] \/ call'[u].pc \in {"idle", "release"}
    PROVE  CallRefs' /\ SleepersNeedWake'
  <1>1. \A f \in Bufs : Unpinned(f)' <=> Unpinned(f)
    BY DEF Unpinned
  <1>2. ASSUME NEW u \in Txns, call'[u].pc \in {"wait", "woken"}
        PROVE  call'[u] = call[u]
    BY <1>2
  <1>3. CallRefs'
    BY <1>2 DEF Inv, CallRefs
  <1>4. SleepersNeedWake'
    BY <1>1, <1>2 DEF Inv, SleepersNeedWake
  <1> QED BY <1>3, <1>4

\* What a flush writes is what the disk lacks.
LEMMA FlushKeepsContents ==
    ASSUME Inv, ~TornReads, NEW F \in SUBSET Bufs, map' = map, disk' = DiskAfter(F),
           \A f \in Bufs : /\ buf'[f].blk = buf[f].blk /\ buf'[f].val = buf[f].val
                           /\ buf'[f].txn = IF f \in F THEN None ELSE buf[f].txn
    PROVE  Contents'
  <1>1. Contents /\ TypeOK /\ PoolConsistent
    BY DEF Inv
  <1>2. ASSUME NEW c \in Blocks, map[c] = None \/ buf'[map[c]].txn = None
        PROVE  disk'[c] = c
    <2>1. disk'[c] = IF map[c] \in F /\ Modified(map[c]) THEN buf[map[c]].val ELSE disk[c]
      BY DEF DiskAfter
    <2>2. map[c] \in F => buf[map[c]].val = c
      BY <1>1 DEF PoolConsistent, Contents
    <2>3. CASE map[c] \in F /\ Modified(map[c])
      BY <2>1, <2>2, <2>3
    <2>4. CASE ~(map[c] \in F /\ Modified(map[c]))
      <3>1. map[c] = None \/ ~Modified(map[c])
        BY <1>1, <1>2, <2>4 DEF TypeOK, Modified
      <3> QED BY <1>1, <2>1, <2>4, <3>1 DEF Contents
    <2> QED BY <2>3, <2>4
  <1> QED BY <1>1, <1>2 DEF Contents, Modified

\* The types of a flush.
LEMMA FlushTypes ==
    ASSUME TypeOK, NEW F \in SUBSET Bufs
    PROVE  /\ DiskAfter(F) \in [Blocks -> Blocks \cup {None}]
           /\ PoolAfter(F) \in [Bufs -> Buffer]
           /\ \A f \in Bufs :
                 /\ PoolAfter(F)[f].blk = buf[f].blk /\ PoolAfter(F)[f].pins = buf[f].pins
                 /\ PoolAfter(F)[f].val = buf[f].val
                 /\ PoolAfter(F)[f].txn = IF f \in F THEN None ELSE buf[f].txn
  <1>1. DiskAfter(F) \in [Blocks -> Blocks \cup {None}]
    BY DEF DiskAfter, TypeOK
  <1>2. ASSUME NEW f \in Bufs
        PROVE  /\ PoolAfter(F)[f] \in Buffer
               /\ PoolAfter(F)[f].blk = buf[f].blk /\ PoolAfter(F)[f].pins = buf[f].pins
               /\ PoolAfter(F)[f].val = buf[f].val
               /\ PoolAfter(F)[f].txn = IF f \in F THEN None ELSE buf[f].txn
    <2>1. buf[f] \in Buffer
      BY DEF TypeOK
    <2>2. PoolAfter(F)[f] = IF f \in F /\ Modified(f) THEN Flushed(buf[f]) ELSE buf[f]
      BY DEF PoolAfter
    <2> QED BY <2>1, <2>2 DEF Flushed, Modified
  <1>3. PoolAfter(F) \in [Bufs -> Buffer]
    BY <1>2 DEF PoolAfter
  <1> QED BY <1>1, <1>2, <1>3

\* A flush cleans buffers and puts their contents on disk (buffer.go:76).
LEMMA FlushKeeps == ASSUME Inv, NEW F \in SUBSET Bufs, Flush(F) PROVE Inv'
  <1>1. /\ TypeOK /\ disk' = DiskAfter(F) /\ buf' = PoolAfter(F)
        /\ UNCHANGED <<map, lru, avail, call, pins, holds>>
    BY DEF Inv, Flush
  <1>2. /\ disk' \in [Blocks -> Blocks \cup {None}] /\ buf' \in [Bufs -> Buffer]
        /\ \A f \in Bufs : /\ buf'[f].blk = buf[f].blk /\ buf'[f].pins = buf[f].pins
                           /\ buf'[f].val = buf[f].val
                           /\ buf'[f].txn = IF f \in F THEN None ELSE buf[f].txn
    BY <1>1, FlushTypes
  <1>3. TypeOK'
    BY <1>1, <1>2 DEF TypeOK
  <1>4. CallRefs' /\ SleepersNeedWake'
    BY <1>1, <1>2, SleepersKept
  <1>5. ~TornReads => Contents'
    BY <1>1, <1>2, FlushKeepsContents
  <1>6. IsInjective(lru') /\ ToSet(lru') = Bufs
    BY <1>1 DEF Inv, PoolConsistent
  <1> QED BY <1>1, <1>2, <1>3, <1>4, <1>5, <1>6, SameBooks

\* An eviction that fails in its write or its read leaves the books right (buffer.go:277).
LEMMA AssignFailsKeeps ==
    ASSUME Inv, NEW t \in Txns, NEW r \in Refs, AssignFails(t, r)
    PROVE  Inv'
  <1> DEFINE f == Victim
  <1>1. /\ TypeOK /\ Victims # {} /\ lru' = MovedToTail(Min(Victims))
        /\ call' = [call EXCEPT ![t] = Idle] /\ UNCHANGED <<map, avail, pins, holds>>
    BY DEF Inv, AssignFails
  <1>2. f \in Bufs /\ Min(Victims) \in 1 .. Cardinality(Bufs)
    BY <1>1, VictimIsFree
  <1>3. /\ lru' \in [1 .. Cardinality(Bufs) -> Bufs]
        /\ IsInjective(lru') /\ ToSet(lru') = Bufs
    BY <1>1, <1>2, LruMoved
  <1>4. /\ call' \in [Txns -> Call]
        /\ \A u \in Txns : call'[u] = call[u] \/ call'[u].pc \in {"idle", "release"}
    BY <1>1 DEF TypeOK, Idle
  <1>5. CASE UNCHANGED <<buf, disk>>
    <2>1. TypeOK'
      BY <1>1, <1>3, <1>4, <1>5 DEF TypeOK
    <2>2. CallRefs' /\ SleepersNeedWake'
      BY <1>1, <1>4, <1>5, SleepersKept
    <2>3. ~TornReads => Contents'
      BY <1>1, <1>5 DEF Inv, Contents, Modified
    <2> QED BY <1>1, <1>3, <1>5, <2>1, <2>2, <2>3, SameBooks
  <1>6. CASE /\ disk' = DiskAfter({f})
             /\ \E v \in {buf[f].val} \cup (IF TornReads THEN {None} ELSE {}) :
                   buf' = [PoolAfter({f}) EXCEPT ![f].val = v]
    <2>1. PICK v \in {buf[f].val} \cup (IF TornReads THEN {None} ELSE {}) :
                   buf' = [PoolAfter({f}) EXCEPT ![f].val = v]
      BY <1>6
    <2> HIDE DEF f
    <2>2. /\ DiskAfter({f}) \in [Blocks -> Blocks \cup {None}]
          /\ PoolAfter({f}) \in [Bufs -> Buffer]
          /\ \A g \in Bufs :
                /\ PoolAfter({f})[g].blk = buf[g].blk /\ PoolAfter({f})[g].pins = buf[g].pins
                /\ PoolAfter({f})[g].val = buf[g].val
                /\ PoolAfter({f})[g].txn = IF g \in {f} THEN None ELSE buf[g].txn
      BY <1>1, <1>2, FlushTypes
    <2>3. v \in Blocks \cup {None} /\ (~TornReads => v = buf[f].val)
      BY <1>1, <1>2 DEF TypeOK
    <2>4. [PoolAfter({f})[f] EXCEPT !.val = v] \in Buffer
      <3>1. PoolAfter({f})[f] \in Buffer
        BY <1>2, <2>2
      <3> QED BY <2>3, <3>1
    <2>5. /\ buf' \in [Bufs -> Buffer]
          /\ \A g \in Bufs : g # f => buf'[g] = PoolAfter({f})[g]
          /\ buf'[f] = [PoolAfter({f})[f] EXCEPT !.val = v]
      BY <1>2, <2>1, <2>2, <2>4
    <2>6. /\ buf'[f].blk = PoolAfter({f})[f].blk /\ buf'[f].pins = PoolAfter({f})[f].pins
          /\ buf'[f].val = v /\ buf'[f].txn = PoolAfter({f})[f].txn
      BY <1>2, <2>2, <2>5
    <2>7. \A g \in Bufs : /\ buf'[g].blk = buf[g].blk /\ buf'[g].pins = buf[g].pins
                          /\ ~TornReads => buf'[g].val = buf[g].val
                          /\ buf'[g].txn = IF g \in {f} THEN None ELSE buf[g].txn
      <3>1. TAKE g \in Bufs
      <3>2. CASE g = f
        BY <2>2, <2>3, <2>6, <3>2
      <3>3. CASE g # f
        <4>1. buf'[g] = PoolAfter({f})[g]
          BY <2>5, <3>3
        <4> QED BY <2>2, <4>1
      <3> QED BY <3>2, <3>3
    <2>8. TypeOK'
      BY <1>1, <1>3, <1>4, <1>6, <2>2, <2>5 DEF TypeOK, f
    <2>9. CallRefs' /\ SleepersNeedWake'
      BY <1>1, <1>4, <2>7, SleepersKept
    <2>10. disk' = DiskAfter({f}) /\ {f} \in SUBSET Bufs
      BY <1>2, <1>6 DEF f
    <2>11. ~TornReads => Contents'
      BY <1>1, <2>7, <2>10, FlushKeepsContents
    <2> QED BY <1>1, <1>3, <2>7, <2>8, <2>9, <2>11, SameBooks
  <1> QED BY <1>5, <1>6 DEF AssignFails

\* Whoever goes to sleep in Pin finds no free buffer (buffer.go:246).
LEMMA WaitKeeps == ASSUME Inv, NEW t \in Txns, NEW r \in Refs, Wait(t, r) PROVE Inv'
  <1>1. /\ TypeOK /\ call' = [call EXCEPT ![t] = [pc |-> "wait", ref |-> r]]
        /\ UNCHANGED <<buf, map, lru, avail, disk, pins, holds>>
        /\ map[BlockOf[r]] = None /\ Victims = {}
    BY DEF Inv, Wait, pool
  <1>2. TypeOK' /\ \A u \in Txns : call'[u] = IF u = t THEN [pc |-> "wait", ref |-> r] ELSE call[u]
    BY <1>1 DEF TypeOK
  <1>3. \A f \in Bufs : ~Unpinned(f)
    BY <1>1 DEF Inv, PoolConsistent, ToSet, Victims, MayGo
  <1>4. CallRefs' /\ SleepersNeedWake'
    <2>1. \A f \in Bufs : Unpinned(f)' <=> Unpinned(f)
      BY <1>1 DEF Unpinned
    <2> QED BY <1>1, <1>2, <1>3, <2>1 DEF Inv, CallRefs, SleepersNeedWake
  <1>5. ~TornReads => Contents'
    BY <1>1 DEF Inv, Contents, Modified
  <1>6. IsInjective(lru') /\ ToSet(lru') = Bufs
    BY <1>1 DEF Inv, PoolConsistent
  <1> QED BY <1>1, <1>2, <1>4, <1>5, <1>6, SameBooks

\* tryToPin takes one of these ways (buffer.go:267).
LEMMA TryToPinKeeps ==
    ASSUME Inv, NEW t \in Txns, NEW r \in Refs, TryToPin(t, r), call[t].pc \in {"idle", "woken"}
    PROVE  Inv'
  BY HitKeeps, AssignKeeps, AssignFailsKeeps, WaitKeeps DEF TryToPin

\* Only the caller's state changes: a time-out, or the start of UnpinAll.
LEMMA CallKeeps ==
    ASSUME Inv, NEW t \in Txns, TimeOut(t) \/ UnpinAll(t)
    PROVE  Inv'
  <1>1. /\ TypeOK /\ UNCHANGED <<buf, map, lru, avail, disk, pins, holds>>
        /\ \/ call' = [call EXCEPT ![t] = Idle]
           \/ call' = [call EXCEPT ![t].pc = "release"]
    BY DEF Inv, TimeOut, UnpinAll, pool
  <1>2. /\ TypeOK'
        /\ \A u \in Txns : call'[u] = call[u] \/ call'[u].pc \in {"idle", "release"}
    <2>1. CASE call' = [call EXCEPT ![t] = Idle]
      BY <1>1, <2>1 DEF TypeOK, Idle
    <2>2. CASE call' = [call EXCEPT ![t].pc = "release"]
      <3>1. call' \in [Txns -> Call]
        BY <1>1, <2>2 DEF TypeOK
      <3>2. \A u \in Txns : call'[u] = IF u = t THEN [call[t] EXCEPT !.pc = "release"] ELSE call[u]
        BY <1>1, <2>2 DEF TypeOK
      <3>3. call'[t].pc = "release"
        BY <1>1, <3>2 DEF TypeOK
      <3> QED BY <1>1, <3>1, <3>2, <3>3 DEF TypeOK
    <2> QED BY <1>1, <2>1, <2>2
  <1>3. CallRefs' /\ SleepersNeedWake'
    BY <1>1, <1>2, SleepersKept
  <1>4. ~TornReads => Contents'
    BY <1>1 DEF Inv, Contents, Modified
  <1>5. IsInjective(lru') /\ ToSet(lru') = Bufs
    BY <1>1 DEF Inv, PoolConsistent
  <1> QED BY <1>1, <1>2, <1>3, <1>4, <1>5, SameBooks

-----------------------------------------------------------------------------
(* Unpin, and changes. *)

\* Unpin gives back one token, and wakes the sleepers with the last one (bufferlist.go:40).
LEMMA UnpinKeeps ==
    ASSUME Inv, NEW t \in Txns, NEW r \in Refs, NEW f \in Bufs, holds[t][r] = f,
           NEW c \in Call, c.pc \in {"idle", "release"}, PoolUnpin(f, [u \in {t} |-> c]),
           pins' = [pins EXCEPT ![t][r] = @ - 1], holds' = [holds EXCEPT ![t][r] = Kept(t, r)]
    PROVE  Inv'
  <1>1. /\ TypeOK /\ PoolConsistent /\ None \notin Bufs /\ UNCHANGED <<map, lru, disk>>
        /\ buf' = [buf EXCEPT ![f].pins = @ - 1]
        /\ avail' = avail + (IF buf[f].pins = 1 THEN 1 ELSE 0)
    BY NoneAssumption DEF Inv, PoolUnpin
  <1>2. pins[t][r] \in Nat /\ pins[t][r] > 0 /\ buf[f].pins \in Nat /\ buf[f].pins > 0
    BY <1>1, HeldIsPinned DEF TypeOK
  <1>3. /\ call' \in [Txns -> Call] /\ call'[t] = c
        /\ \A u \in Txns \ {t} : call'[u] = IF buf[f].pins = 1 THEN Awake(u) ELSE call[u]
    <2>1. call' = [u \in Txns |-> IF u \in {t} THEN [x \in {t} |-> c][u]
                                  ELSE IF buf[f].pins = 1 THEN Awake(u) ELSE call[u]]
      BY DEF PoolUnpin
    <2>2. \A u \in Txns : call[u] \in Call
      BY <1>1 DEF TypeOK
    <2>3. \A u \in Txns : Awake(u) \in Call
      BY <2>2 DEF Awake
    <2>4. \A u \in Txns :
             call'[u] = IF u = t THEN c ELSE IF buf[f].pins = 1 THEN Awake(u) ELSE call[u]
      BY <2>1
    <2> QED BY <2>1, <2>2, <2>3, <2>4
  <1>4. /\ buf' \in [Bufs -> Buffer] /\ buf'[f].pins = buf[f].pins - 1
        /\ \A g \in Bufs : g # f => buf'[g] = buf[g]
        /\ \A g \in Bufs : /\ buf'[g].blk = buf[g].blk /\ buf'[g].val = buf[g].val
                           /\ buf'[g].txn = buf[g].txn
    <2>1. buf[f] \in Buffer
      BY <1>1 DEF TypeOK
    <2>2. [buf[f] EXCEPT !.pins = @ - 1] \in Buffer
      BY <1>2, <2>1
    <2>3. buf' = [buf EXCEPT ![f] = [buf[f] EXCEPT !.pins = @ - 1]]
      BY <1>1
    <2> QED BY <1>1, <2>2, <2>3 DEF TypeOK
  <1>5. /\ pins' \in [Txns -> [Refs -> Nat]] /\ holds' \in [Txns -> [Refs -> Bufs \cup {None}]]
        /\ \A u \in Txns, q \in Refs : <<u, q>> # <<t, r>> =>
              pins'[u][q] = pins[u][q] /\ holds'[u][q] = holds[u][q]
        /\ pins'[t][r] = pins[t][r] - 1
        /\ holds'[t][r] = IF pins[t][r] = 1 THEN None ELSE f
    <2>1. Kept(t, r) \in Bufs \cup {None}
      BY DEF Kept
    <2>2. pins \in [Txns -> [Refs -> Nat]] /\ holds \in [Txns -> [Refs -> Bufs \cup {None}]]
      BY <1>1 DEF TypeOK
    <2>3. holds' \in [Txns -> [Refs -> Bufs \cup {None}]]
      BY <2>1, <2>2
    <2>4. pins' \in [Txns -> [Refs -> Nat]]
      BY <1>2, <2>2
    <2> QED BY <2>2, <2>3, <2>4 DEF Kept
  <1>6. TypeOK'
    BY <1>1, <1>3, <1>4, <1>5 DEF TypeOK
  <1>7. PinsFinite' /\ PinsCounted'
    <2>1. \A g \in Bufs : /\ IsFiniteSet(PinsOf(g)')
                          /\ Cardinality(PinsOf(g)') = IF g = f THEN Cardinality(PinsOf(f)) - 1
                                                       ELSE Cardinality(PinsOf(g))
      BY <1>2, PinDropped
    <2> QED BY <1>4, <2>1 DEF Inv, PinsFinite, PinsCounted
  <1>8. PoolConsistent'
    <2>1. avail' = Cardinality(FreeBufs')
      <3>1. FreeBufs' = IF buf[f].pins = 1 THEN FreeBufs \cup {f} ELSE FreeBufs
        BY <1>2, <1>4 DEF FreeBufs, Unpinned
      <3>2. avail = Cardinality(FreeBufs) /\ f \notin FreeBufs
        BY <1>1, <1>2 DEF PoolConsistent, FreeBufs, Unpinned
      <3>3. Cardinality(FreeBufs \cup {f}) = Cardinality(FreeBufs) + 1
        BY <3>2, FreeFinite, FS_AddElement
      <3> QED BY <1>1, <3>1, <3>2, <3>3, FreeFinite
    <2> QED BY <1>1, <1>4, <2>1 DEF PoolConsistent, FreeBufs, Unpinned
  <1>9. PinnedKeepsBlock'
    <2>1. ASSUME NEW u \in Txns, NEW q \in Refs
          PROVE  /\ holds'[u][q] # None => buf'[holds'[u][q]].blk = BlockOf[q]
                 /\ (holds'[u][q] # None) <=> (pins'[u][q] > 0)
      <3>1. /\ holds[u][q] # None => holds[u][q] \in Bufs /\ buf[holds[u][q]].blk = BlockOf[q]
            /\ (holds[u][q] # None) <=> (pins[u][q] > 0)
        BY <1>1 DEF Inv, TypeOK, PinnedKeepsBlock
      <3>2. CASE <<u, q>> = <<t, r>>
        <4>1. u = t /\ q = r
          BY <3>2
        <4> QED BY <1>1, <1>2, <1>4, <1>5, <3>1, <4>1
      <3>3. CASE <<u, q>> # <<t, r>>
        BY <1>4, <1>5, <3>1, <3>3
      <3> QED BY <3>2, <3>3
    <2> QED BY <2>1 DEF PinnedKeepsBlock
  <1>10. CallRefs'
    <2>1. ASSUME NEW u \in Txns, call'[u].pc \in {"wait", "woken"}
          PROVE  call'[u].ref \in Refs
      <3>1. u # t /\ call[u] \in Call
        BY <1>1, <1>3, <2>1 DEF TypeOK
      <3>2. call'[u].ref = call[u].ref /\ call[u].pc \in {"wait", "woken"}
        BY <1>3, <2>1, <3>1 DEF Awake
      <3> QED BY <3>2 DEF Inv, CallRefs
    <2> QED BY <2>1 DEF CallRefs
  <1>11. SleepersNeedWake'
    <2>1. CASE buf[f].pins = 1
      <3>1. \A u \in Txns : call'[u].pc # "wait"
        <4>1. \A u \in Txns : Awake(u).pc # "wait"
          BY <1>1 DEF Awake, TypeOK
        <4> QED BY <1>3, <2>1, <4>1
      <3> QED BY <3>1 DEF SleepersNeedWake
    <2>2. CASE buf[f].pins # 1
      <3>1. \A g \in Bufs : ~Unpinned(g) => ~Unpinned(g)'
        BY <1>2, <1>4, <2>2 DEF Unpinned
      <3>2. \A u \in Txns : call'[u].pc = "wait" => call'[u] = call[u]
        BY <1>3, <2>2
      <3> QED BY <1>1, <3>1, <3>2 DEF Inv, SleepersNeedWake
    <2> QED BY <2>1, <2>2
  <1>12. ~TornReads => Contents'
    <2>1. \A b \in Blocks : map[b] # None => map[b] \in Bufs
      BY <1>1 DEF TypeOK
    <2> QED BY <1>1, <1>4, <2>1 DEF Inv, Contents, Modified
  <1> QED BY <1>6, <1>7, <1>8, <1>9, <1>10, <1>11, <1>12 DEF Inv

\* UnpinAll is Unpin, one reference after the other (bufferlist.go).
LEMMA UnpinsKeep ==
    ASSUME Inv, NEW t \in Txns, (\E r \in Refs : Unpin(t, r)) \/ ReleaseOne(t)
    PROVE  Inv'
  <1>1. TypeOK /\ \A r \in Refs : pins[t][r] > 0 => holds[t][r] # None
    BY DEF Inv, PinnedKeepsBlock
  <1>2. \A r \in Refs : holds[t][r] # None => holds[t][r] \in Bufs
    BY <1>1 DEF TypeOK
  <1>3. ASSUME NEW r \in Refs, Unpin(t, r) PROVE Inv'
    <2>1. Idle \in Call /\ Idle.pc = "idle"
      BY DEF Idle
    <2> QED BY <1>2, <1>3, <2>1, UnpinKeeps DEF Unpin
  <1>4. ASSUME NEW r \in Refs, pins[t][r] > 0, call[t].pc = "release",
               PoolUnpin(holds[t][r], [u \in {t} |-> IF AllPins(t) = 1 THEN Idle ELSE call[t]]),
               pins' = [pins EXCEPT ![t][r] = @ - 1], holds' = [holds EXCEPT ![t][r] = Kept(t, r)]
        PROVE  Inv'
    <2> DEFINE c == IF AllPins(t) = 1 THEN Idle ELSE call[t]
    <2>1. c \in Call /\ c.pc \in {"idle", "release"}
      BY <1>1, <1>4 DEF TypeOK, Idle
    <2>2. PoolUnpin(holds[t][r], [u \in {t} |-> c])
      BY <1>4
    <2> HIDE DEF c
    <2> QED BY <1>1, <1>2, <1>4, <2>1, <2>2, UnpinKeeps
  <1> QED BY <1>3, <1>4 DEF ReleaseOne

\* A setter changes a buffer its transaction holds, so the latest contents are still one
\* buffer's (transaction.go:172).
LEMMA ModifyKeeps ==
    ASSUME Inv, NEW t \in Txns, NEW r \in Refs, NEW l \in BOOLEAN, Modify(t, r, l)
    PROVE  Inv'
  <1> DEFINE f == holds[t][r]
             b == BlockOf[r]
  <1>1. /\ TypeOK /\ PoolConsistent /\ f # None /\ b \in Blocks
        /\ buf' = [g \in Bufs |->
                      IF g = f THEN [Marked(f, t, l) EXCEPT !.val = b]
                      ELSE IF buf[g].val = b THEN [buf[g] EXCEPT !.val = None] ELSE buf[g]]
        /\ disk' = [disk EXCEPT ![b] = None] /\ UNCHANGED <<map, lru, avail, call, pins, holds>>
    BY RefAssumption DEF Inv, Modify
  <1>2. f \in Bufs /\ buf[f].blk = b /\ map[b] = f
    BY <1>1 DEF Inv, TypeOK, PinnedKeepsBlock, PoolConsistent
  <1> HIDE DEF f, b
  <1>3. \A g \in Bufs : buf[g] \in Buffer
    BY <1>1 DEF TypeOK
  <1>4. Marked(f, t, l) \in Buffer /\ [Marked(f, t, l) EXCEPT !.val = b] \in Buffer
    <2>1. buf[f] \in Buffer /\ (buf[f].rec \/ l) \in BOOLEAN
      BY <1>2, <1>3
    <2>2. Marked(f, t, l) \in Buffer
      BY <2>1 DEF Marked
    <2> QED BY <1>1, <2>2
  <1>5. /\ buf' \in [Bufs -> Buffer]
        /\ buf'[f].blk = buf[f].blk /\ buf'[f].pins = buf[f].pins
        /\ buf'[f].txn = t /\ buf'[f].val = b
        /\ \A g \in Bufs \ {f} :
              /\ buf'[g].blk = buf[g].blk /\ buf'[g].pins = buf[g].pins /\ buf'[g].txn = buf[g].txn
              /\ buf'[g].val = IF buf[g].val = b THEN None ELSE buf[g].val
    <2>1. buf'[f] = [Marked(f, t, l) EXCEPT !.val = b]
      BY <1>1, <1>2
    <2>2. /\ Marked(f, t, l).blk = buf[f].blk /\ Marked(f, t, l).pins = buf[f].pins
          /\ Marked(f, t, l).txn = t
      BY <1>2, <1>3 DEF Marked
    <2>3. /\ buf'[f].blk = buf[f].blk /\ buf'[f].pins = buf[f].pins
          /\ buf'[f].txn = t /\ buf'[f].val = b
      BY <1>4, <2>1, <2>2
    <2>4. ASSUME NEW g \in Bufs \ {f}
          PROVE  /\ buf'[g] \in Buffer
                 /\ buf'[g].blk = buf[g].blk /\ buf'[g].pins = buf[g].pins
                 /\ buf'[g].txn = buf[g].txn
                 /\ buf'[g].val = IF buf[g].val = b THEN None ELSE buf[g].val
      <3>1. buf'[g] = IF buf[g].val = b THEN [buf[g] EXCEPT !.val = None] ELSE buf[g]
        BY <1>1
      <3> QED BY <1>3, <3>1
    <2>5. buf' \in [Bufs -> Buffer]
      BY <1>1, <1>4, <2>1, <2>4
    <2> QED BY <2>3, <2>4, <2>5
  <1>6. TypeOK'
    BY <1>1, <1>5 DEF TypeOK
  <1>7. \A g \in Bufs : buf'[g].blk = buf[g].blk /\ buf'[g].pins = buf[g].pins
    BY <1>5
  <1>8. CallRefs' /\ SleepersNeedWake'
    BY <1>1, <1>7, SleepersKept
  <1>9. ASSUME ~TornReads PROVE Contents'
    <2>1. Contents /\ None \notin Bufs
      BY <1>9, NoneAssumption DEF Inv
    <2>2. \A g \in Bufs : buf'[g].val = buf'[g].blk
      <3>1. \A g \in Bufs \ {f} : buf[g].val # b
        BY <1>1, <1>2, <2>1 DEF Contents, PoolConsistent
      <3> QED BY <1>2, <1>5, <2>1, <3>1 DEF Contents
    <2>3. ASSUME NEW c \in Blocks, map[c] = None \/ buf'[map[c]].txn = None
          PROVE  disk'[c] = c
      <3>1. c # b
        <4>1. t # None /\ buf'[f].txn = t
          BY <1>5, NoneAssumption
        <4> QED BY <1>1, <1>2, <2>3, <4>1
      <3>2. disk'[c] = disk[c]
        BY <1>1, <3>1 DEF TypeOK
      <3>3. map[c] # None => map[c] \in Bufs /\ map[c] # f
        BY <1>1, <1>2, <3>1 DEF TypeOK, PoolConsistent
      <3> QED BY <1>5, <2>1, <2>3, <3>2, <3>3 DEF Contents, Modified
    <2> QED BY <1>1, <2>2, <2>3 DEF Contents, Modified
  <1>10. IsInjective(lru') /\ ToSet(lru') = Bufs
    BY <1>1 DEF Inv, PoolConsistent
  <1> QED BY <1>1, <1>6, <1>7, <1>8, <1>9, <1>10, SameBooks

-----------------------------------------------------------------------------
(* The theorems. *)

\* An empty pool with every buffer available has the invariant.
LEMMA InitInv == Init => Inv
  <1> SUFFICES ASSUME Init PROVE Inv
    OBVIOUS
  <1>1. Cardinality(Bufs) \in Nat /\ None \notin Bufs /\ None \notin Blocks
    BY PoolAssumption, NoneAssumption, FS_CardinalityType
  <1>2. lru \in [1 .. Cardinality(Bufs) -> Bufs] /\ IsInjective(lru) /\ ToSet(lru) = Bufs
    <2>1. ExistsBijection(1 .. Cardinality(Bufs), Bufs)
      BY PoolAssumption, FS_CardinalityType
    <2>2. PICK h \in [1 .. Cardinality(Bufs) -> Bufs] :
             IsInjective(h) /\ \A g \in Bufs : \E j \in 1 .. Cardinality(Bufs) : h[j] = g
      BY <2>1 DEF ExistsBijection, Bijection, Injection, Surjection
    <2>3. lru \in [1 .. Cardinality(Bufs) -> Bufs] /\ IsInjective(lru)
      BY <2>2 DEF Init, SetToSeq
    <2>4. ToSet(lru) = Bufs
      <3>1. lru \in Injection(1 .. Cardinality(Bufs), Bufs)
        BY <2>3 DEF Injection
      <3>2. /\ IsFiniteSet(1 .. Cardinality(Bufs))
            /\ Cardinality(1 .. Cardinality(Bufs)) = Cardinality(Bufs)
        BY <1>1, FS_Interval
      <3>3. lru \in Surjection(1 .. Cardinality(Bufs), Bufs)
        BY <3>1, <3>2, PoolAssumption, FS_Injection
      <3> QED BY <2>3, <3>3 DEF Surjection, ToSet
    <2> QED BY <2>3, <2>4
  <1>3. /\ \A f \in Bufs :
              buf[f] = [blk |-> None, pins |-> 0, txn |-> None, rec |-> FALSE, val |-> None]
        /\ \A b \in Blocks : map[b] = None /\ disk[b] = b
        /\ \A t \in Txns : call[t] = Idle
        /\ \A t \in Txns, r \in Refs : pins[t][r] = 0 /\ holds[t][r] = None
    BY DEF Init
  <1>4. TypeOK
    BY <1>1, <1>2 DEF Init, TypeOK, Idle
  <1>5. PoolConsistent
    <2>1. {f \in Bufs : Unpinned(f)} = Bufs
      BY <1>3 DEF Unpinned
    <2> QED BY <1>1, <1>2, <1>3, <2>1 DEF Init, PoolConsistent
  <1>6. PinsFinite /\ PinsCounted
    <2>1. \A f \in Bufs : PinsOf(f) = {}
      BY <1>3 DEF PinsOf, HoldsOf
    <2> QED BY <1>3, <2>1, FS_EmptySet DEF PinsFinite, PinsCounted
  <1>7. CallRefs /\ SleepersNeedWake /\ PinnedKeepsBlock /\ Contents
    BY <1>3 DEF CallRefs, SleepersNeedWake, PinnedKeepsBlock, Contents, Idle
  <1> QED BY <1>4, <1>5, <1>6, <1>7 DEF Inv

\* Every step keeps the invariant.
LEMMA NextInv == Inv /\ [Next]_vars => Inv'
  <1> SUFFICES ASSUME Inv, [Next]_vars PROVE Inv'
    OBVIOUS
  <1>1. ASSUME NEW t \in Txns, NEW r \in Refs, Pin(t, r) PROVE Inv'
    BY <1>1, TryToPinKeeps DEF Pin
  <1>2. ASSUME NEW t \in Txns, Retry(t) PROVE Inv'
    <2>1. call[t].pc = "woken" /\ call[t].ref \in Refs /\ TryToPin(t, call[t].ref)
      BY <1>2 DEF Retry, Inv, CallRefs
    <2> QED BY <2>1, TryToPinKeeps
  <1>3. ASSUME NEW t \in Txns, TimeOut(t) \/ UnpinAll(t) PROVE Inv'
    BY <1>3, CallKeeps
  <1>4. ASSUME NEW t \in Txns, (\E r \in Refs : Unpin(t, r)) \/ ReleaseOne(t) PROVE Inv'
    BY <1>4, UnpinsKeep
  <1>5. ASSUME NEW t \in Txns, NEW r \in Refs, NEW l \in BOOLEAN, Modify(t, r, l) PROVE Inv'
    BY <1>5, ModifyKeeps
  <1>6. ASSUME NEW t \in Txns, FlushAll(t) PROVE Inv'
    BY <1>6, FlushKeeps DEF FlushAll
  <1>7. ASSUME NEW b \in Blocks, FlushPage(b) PROVE Inv'
    <2>1. {map[b]} \in SUBSET Bufs
      BY <1>7 DEF FlushPage, Inv, TypeOK
    <2> QED BY <1>7, <2>1, FlushKeeps DEF FlushPage
  <1>8. ASSUME FlushDirtyPages PROVE Inv'
    BY <1>8, FlushKeeps DEF FlushDirtyPages
  <1>9. ASSUME UNCHANGED vars PROVE Inv'
    <2>1. TypeOK' /\ CallRefs' /\ PinnedKeepsBlock'
      BY <1>9 DEF Inv, TypeOK, CallRefs, PinnedKeepsBlock, vars, pool
    <2>2. SleepersNeedWake' /\ (~TornReads => Contents')
      BY <1>9 DEF Inv, SleepersNeedWake, Contents, Unpinned, Modified, vars, pool
    <2>3. PoolConsistent'
      BY <1>9 DEF Inv, PoolConsistent, Unpinned, vars, pool
    <2>4. PinsFinite' /\ PinsCounted'
      BY <1>9 DEF Inv, PinsFinite, PinsCounted, PinsOf, HoldsOf, vars, pool
    <2> QED BY <2>1, <2>2, <2>3, <2>4 DEF Inv
  <1> QED
    BY <1>1, <1>2, <1>3, <1>4, <1>5, <1>6, <1>7, <1>8, <1>9 DEF Next

\* The inductive invariant holds in every behaviour of the pool (buffer.go, bufferlist.go).
THEOREM PoolInvariant == Spec => []Inv
  BY InitInv, NextInv, PTL DEF Spec

\* Every variable of the pool keeps its type: a buffer's pins never fall below 0.
THEOREM TypesKept == Spec => []TypeOK
  <1>1. Inv => TypeOK
    BY DEF Inv
  <1> QED BY <1>1, PoolInvariant, PTL

\* The map, the victims' list and numAvailable agree with the buffers (tryToPin, moveToTail, Unpin).
THEOREM BooksAgree == Spec => []PoolConsistent
  <1>1. Inv => PoolConsistent
    BY DEF Inv
  <1> QED BY <1>1, PoolInvariant, PTL

\* A buffer's pins are those the BufferLists have noted, whatever references they use.
THEOREM PinsAreCounted == Spec => []PinsCounted
  <1>1. Inv => PinsCounted
    BY DEF Inv
  <1> QED BY <1>1, PoolInvariant, PTL

\* No eviction takes a buffer from a transaction that holds it (ChooseVictimBuffer, BufferList).
THEOREM PinnedBlocksStay == Spec => []PinnedKeepsBlock
  <1>1. Inv => PinnedKeepsBlock
    BY DEF Inv
  <1> QED BY <1>1, PoolInvariant, PTL

\* No broadcast of Unpin is missed between a waiter's attempt and its select (Pin).
THEOREM NoLostWakeUp == Spec => []SleepersNeedWake
  <1>1. Inv => SleepersNeedWake
    BY DEF Inv
  <1> QED BY <1>1, PoolInvariant, PTL

\* When a failed read leaves the page alone, the next reader of a block gets its latest
\* contents, from its buffer or from disk (assignToBlock, flush).
THEOREM LatestContents == ASSUME ~TornReads PROVE Spec => []CacheCoherent
  <1>1. ASSUME Inv PROVE CacheCoherent
    <2>1. Contents /\ TypeOK /\ PoolConsistent
      BY <1>1 DEF Inv
    <2>2. ASSUME NEW b \in Blocks, map[b] # None PROVE buf[map[b]].val = b
      <3>1. map[b] \in Bufs /\ buf[map[b]].blk = b
        BY <2>1, <2>2 DEF TypeOK, PoolConsistent
      <3> QED BY <2>1, <3>1 DEF Contents
    <2> QED BY <2>1, <2>2 DEF Contents, CacheCoherent
  <1> QED BY <1>1, PoolInvariant, PTL
=============================================================================
