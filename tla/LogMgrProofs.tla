---------------------------- MODULE LogMgrProofs ----------------------------
(***************************************************************************)
(* The iterator of LogMgr is three nested recursive functions over places  *)
(* in the file.  Whatever blocks a crash leaves, it comes to its end; the  *)
(* types of the log manager, restarts included, follow.  While no Flush    *)
(* overlaps an Append, and no crash leaves a record in parts, the file and *)
(* the page hold exactly the records that were appended, and what Flush    *)
(* has acknowledged is on disk: the log manager implements DurableLog.     *)
(***************************************************************************)
EXTENDS LogMgr, WellFoundedInduction, TLAPS

-----------------------------------------------------------------------------
(* A function defined by recursion along a measure exists, and what its    *)
(* body hands on, it has everywhere.                                       *)

\* f obeys its equation wherever the measure is at most m.
Obeys(D, V, s, g, mu, m, f) ==
    /\ f \in [D -> V]
    /\ \A x \in D : mu[x] <= m => f[x] = g[<<x, f[s[x]]>>]

\* The body looks at the next argument only if the measure goes down.
Falls(D, V, s, g, mu) ==
    \A x \in D : mu[s[x]] < mu[x] \/ \A y, z \in V : g[<<x, y>>] = g[<<x, z>>]

\* There are solutions up to every measure.
LEMMA SomeObey ==
    ASSUME NEW D, NEW V, NEW s \in [D -> D], NEW g \in [D \X V -> V], NEW mu \in [D -> Nat],
           NEW v0 \in V, Falls(D, V, s, g, mu), NEW n \in Nat
    PROVE  \E f : Obeys(D, V, s, g, mu, n, f)
  <1> DEFINE T == {m \in Nat : ~\E f : Obeys(D, V, s, g, mu, m, f)}
  <1>1. SUFFICES ASSUME n \in T PROVE FALSE
    OBVIOUS
  <1>2. PICK m \in T : \A y \in T : ~(<<y, m>> \in OpToRel(<, Nat))
    <2>1. T \subseteq Nat /\ T # {}
      BY <1>1
    <2> HIDE DEF T
    <2> QED BY <2>1, NatLessThanWellFounded, WFMin
  <1>3. \A y \in T : ~(y < m)
    BY <1>2 DEF OpToRel
  <1>4. m \in Nat /\ ~\E f : Obeys(D, V, s, g, mu, m, f)
    OBVIOUS
  <1>5. PICK f : /\ f \in [D -> V]
                 /\ \A x \in D : mu[x] < m => f[x] = g[<<x, f[s[x]]>>]
    <2>1. CASE m = 0
      <3>1. [x \in D |-> v0] \in [D -> V] /\ \A x \in D : ~(mu[x] < m)
        BY <2>1
      <3> QED BY <3>1
    <2>2. CASE m # 0
      <3>1. m - 1 \in Nat /\ m - 1 < m
        BY <1>4, <2>2
      <3>2. PICK f : Obeys(D, V, s, g, mu, m - 1, f)
        BY <1>3, <3>1
      <3>3. \A x \in D : mu[x] < m => mu[x] <= m - 1
        BY <1>4
      <3> QED BY <3>2, <3>3 DEF Obeys
    <2> QED BY <2>1, <2>2
  <1> DEFINE h == [x \in D |-> g[<<x, f[s[x]]>>]]
  <1>6. h \in [D -> V]
    BY <1>5
  <1>7. ASSUME NEW x \in D, mu[x] <= m PROVE h[x] = g[<<x, h[s[x]]>>]
    <2>1. s[x] \in D /\ f[s[x]] \in V /\ h[s[x]] \in V /\ h[x] = g[<<x, f[s[x]]>>]
      BY <1>5, <1>6
    <2>2. CASE mu[s[x]] < mu[x]
      <3>1. mu[s[x]] < m
        BY <1>4, <1>7, <2>1, <2>2
      <3>2. h[s[x]] = f[s[x]]
        BY <1>5, <2>1, <3>1
      <3> QED BY <2>1, <3>2
    <2>3. CASE \A y, z \in V : g[<<x, y>>] = g[<<x, z>>]
      BY <2>1, <2>3
    <2> QED BY <2>2, <2>3 DEF Falls
  <1> HIDE DEF h
  <1>8. Obeys(D, V, s, g, mu, m, h)
    BY <1>6, <1>7 DEF Obeys
  <1> QED BY <1>4, <1>8

\* What a recursion along a measure is, and its solution.
Recursion(D, V, s, g, mu) ==
    /\ s \in [D -> D] /\ g \in [D \X V -> V] /\ mu \in [D -> Nat] /\ V # {}
    /\ Falls(D, V, s, g, mu)
Solves(D, V, s, g, f) == f \in [D -> V] /\ \A x \in D : f[x] = g[<<x, f[s[x]]>>]

\* So there is one that obeys everywhere.
LEMMA RecursionExists ==
    ASSUME NEW D, NEW V, NEW s, NEW g, NEW mu, Recursion(D, V, s, g, mu)
    PROVE  \E f : Solves(D, V, s, g, f)
  <1> USE DEF Recursion
  <1> PICK v0 \in V : TRUE
    OBVIOUS
  <1> DEFINE Sol(n) == CHOOSE f : Obeys(D, V, s, g, mu, n, f)
             F == [x \in D |-> Sol(mu[x])[x]]
  <1>0. ASSUME NEW i \in Nat, NEW j \in Nat, NEW f, NEW h, Obeys(D, V, s, g, mu, i, f),
               Obeys(D, V, s, g, mu, j, h), NEW z \in D, mu[z] <= i, mu[z] <= j
        PROVE  f[z] = h[z]
    <2> DEFINE T == {m \in Nat : \E y \in D : mu[y] = m /\ m <= i /\ m <= j /\ f[y] # h[y]}
    <2>1. SUFFICES ASSUME mu[z] \in T PROVE FALSE
      BY <1>0
    <2>2. PICK m \in T : \A y \in T : ~(<<y, m>> \in OpToRel(<, Nat))
      <3>1. T \subseteq Nat /\ T # {}
        BY <2>1
      <3> HIDE DEF T
      <3> QED BY <3>1, NatLessThanWellFounded, WFMin
    <2>3. \A y \in T : ~(y < m)
      BY <2>2 DEF OpToRel
    <2>4. PICK y \in D : mu[y] = m /\ m <= i /\ m <= j /\ f[y] # h[y]
      OBVIOUS
    <2>5. /\ f[y] = g[<<y, f[s[y]]>>] /\ h[y] = g[<<y, h[s[y]]>>]
          /\ s[y] \in D /\ f[s[y]] \in V /\ h[s[y]] \in V
      BY <1>0, <2>4 DEF Obeys
    <2>6. mu[s[y]] < mu[y]
      BY <2>4, <2>5 DEF Falls
    <2>7. mu[s[y]] \in T
      <3>1. f[s[y]] # h[s[y]]
        BY <2>4, <2>5
      <3>2. mu[s[y]] \in Nat /\ mu[s[y]] <= i /\ mu[s[y]] <= j
        BY <2>4, <2>5, <2>6
      <3> QED BY <2>5, <3>1, <3>2
    <2> QED BY <2>3, <2>4, <2>6, <2>7
  <1>1. \A n \in Nat : Obeys(D, V, s, g, mu, n, Sol(n))
    BY SomeObey DEF Recursion
  <1> HIDE DEF Sol
  <1>2. F \in [D -> V]
    <2>1. \A x \in D : Sol(mu[x]) \in [D -> V]
      BY <1>1 DEF Obeys
    <2> QED BY <2>1
  <1>3. ASSUME NEW x \in D PROVE F[x] = g[<<x, F[s[x]]>>]
    <2>1. s[x] \in D /\ mu[x] \in Nat /\ mu[s[x]] \in Nat
      OBVIOUS
    <2>2. Obeys(D, V, s, g, mu, mu[x], Sol(mu[x])) /\ Obeys(D, V, s, g, mu, mu[s[x]], Sol(mu[s[x]]))
      BY <1>1, <2>1
    <2>3. F[x] = g[<<x, Sol(mu[x])[s[x]]>>]
      BY <2>1, <2>2 DEF Obeys
    <2>4. F[s[x]] = Sol(mu[s[x]])[s[x]] /\ F[s[x]] \in V /\ Sol(mu[x])[s[x]] \in V
      BY <1>2, <2>1, <2>2 DEF Obeys
    <2>5. CASE mu[s[x]] < mu[x]
      <3>1. Sol(mu[x])[s[x]] = Sol(mu[s[x]])[s[x]]
        <4>1. mu[s[x]] <= mu[x] /\ mu[s[x]] <= mu[s[x]]
          BY <2>1, <2>5
        <4>2. PICK y, m, n, a, b : /\ y = s[x] /\ m = mu[x] /\ n = mu[s[x]]
                                   /\ a = Sol(mu[x]) /\ b = Sol(mu[s[x]])
          OBVIOUS
        <4>3. y \in D /\ m \in Nat /\ n \in Nat /\ mu[y] <= m /\ mu[y] <= n
          BY <2>1, <4>1, <4>2
        <4>4. Obeys(D, V, s, g, mu, m, a) /\ Obeys(D, V, s, g, mu, n, b)
          BY <2>2, <4>2
        <4>5. a[y] = b[y]
          BY <4>3, <4>4, <1>0
        <4> QED BY <4>2, <4>5
      <3> QED BY <2>3, <2>4, <3>1
    <2>6. CASE \A y, z \in V : g[<<x, y>>] = g[<<x, z>>]
      BY <2>3, <2>4, <2>6
    <2> QED BY <2>5, <2>6 DEF Falls
  <1> HIDE DEF F
  <1> QED BY <1>2, <1>3 DEF Solves

\* What holds of x if it holds wherever the measure is smaller, holds everywhere.
LEMMA MeasureInduction ==
    ASSUME NEW D, NEW mu \in [D -> Nat], NEW Q,
           \A x \in D : (\A y \in D : mu[y] < mu[x] => y \in Q) => x \in Q
    PROVE  D \subseteq Q
  <1> DEFINE T == {m \in Nat : \E y \in D : mu[y] = m /\ y \notin Q}
  <1>1. SUFFICES ASSUME NEW x \in D, mu[x] \in T PROVE FALSE
    OBVIOUS
  <1>2. PICK m \in T : \A y \in T : ~(<<y, m>> \in OpToRel(<, Nat))
    <2>1. T \subseteq Nat /\ T # {}
      BY <1>1
    <2> HIDE DEF T
    <2> QED BY <2>1, NatLessThanWellFounded, WFMin
  <1>3. \A y \in T : ~(y < m)
    BY <1>2 DEF OpToRel
  <1>4. PICK y \in D : mu[y] = m /\ y \notin Q
    OBVIOUS
  <1>5. \A z \in D : mu[z] < mu[y] => z \in Q
    BY <1>3, <1>4
  <1> QED BY <1>4, <1>5

-----------------------------------------------------------------------------
(* The iterator comes to an end, on any blocks whose pieces are not empty. *)

GoodPiece ==
    [kind : {"none", "inside", "overrun", "normal", "first", "cont", "last"},
     id : 0 .. MaxRec, size : Nat \ {0}, total : Nat]
GoodBlock == [boundary : -1 .. Cap, cells : [0 .. Cap - 1 -> GoodPiece]]

\* How far the iterator still has to go.
Ahead(d, at) == (Len(d) - at.blk) * (Cap + 1) + (IF at.pos < Cap THEN Cap - at.pos ELSE 0)

\* The way ahead is a number, and one block less than it from the next block.
LEMMA AheadNat ==
    ASSUME NEW d \in Seq(GoodBlock), NEW at \in Places(d)
    PROVE  /\ Ahead(d, at) \in Nat
           /\ at.blk < Len(d) =>
                Ahead(d, [blk |-> at.blk + 1, pos |-> 0]) < Ahead(d, at)
           /\ \A n \in Nat : Ahead(d, [at EXCEPT !.pos = @ + n]) <= Ahead(d, at)
           /\ \A n \in Nat \ {0} :
                at.pos < Cap => Ahead(d, [at EXCEPT !.pos = @ + n]) < Ahead(d, at)
  <1>1. at.blk \in 1 .. Len(d) /\ at.pos \in Nat /\ Len(d) \in Nat /\ Cap \in Nat \ {0}
    BY CapAssumption DEF Places
  <1> DEFINE m(b) == (Len(d) - b) * (Cap + 1)
             r(p) == IF p < Cap THEN Cap - p ELSE 0
  <1>2. m(at.blk) \in Nat /\ r(at.pos) \in Nat /\ r(at.pos) \in 0 .. Cap
    BY <1>1
  <1>3. m(at.blk + 1) = m(at.blk) - (Cap + 1)
    BY <1>1
  <1>4. Ahead(d, at) = m(at.blk) + r(at.pos)
    BY DEF Ahead
  <1>5. Ahead(d, [blk |-> at.blk + 1, pos |-> 0]) = m(at.blk + 1) + r(0)
    BY DEF Ahead
  <1>6. \A n \in Nat : Ahead(d, [at EXCEPT !.pos = @ + n]) = m(at.blk) + r(at.pos + n)
    BY DEF Ahead, Places
  <1>7. r(0) = Cap /\ \A n \in Nat : r(at.pos + n) \in Int /\ r(at.pos + n) <= r(at.pos)
    BY <1>1
  <1>8. \A n \in Nat \ {0} : at.pos < Cap => r(at.pos + n) < r(at.pos)
    BY <1>1
  <1> HIDE DEF m, r
  <1>9. Ahead(d, at) \in Nat
    BY <1>2, <1>4
  <1>10. at.blk < Len(d) => Ahead(d, [blk |-> at.blk + 1, pos |-> 0]) < Ahead(d, at)
    BY <1>1, <1>2, <1>3, <1>4, <1>5, <1>7
  <1>11. ASSUME NEW n \in Nat PROVE Ahead(d, [at EXCEPT !.pos = @ + n]) <= Ahead(d, at)
    <2>1. Ahead(d, [at EXCEPT !.pos = @ + n]) = m(at.blk) + r(at.pos + n)
      BY <1>6
    <2> QED BY <1>2, <1>4, <1>7, <2>1
  <1>12. ASSUME NEW n \in Nat \ {0}, at.pos < Cap
         PROVE  Ahead(d, [at EXCEPT !.pos = @ + n]) < Ahead(d, at)
    <2>1. Ahead(d, [at EXCEPT !.pos = @ + n]) = m(at.blk) + r(at.pos + n)
      BY <1>6
    <2> QED BY <1>2, <1>4, <1>7, <1>8, <1>12, <2>1
  <1> QED BY <1>9, <1>10, <1>11, <1>12

\* A step of the iterator (log.go:410) leads to a place and goes ahead.
LEMMA Moves ==
    ASSUME NEW d \in Seq(GoodBlock), NEW at \in Places(d), NEW e, e = EnsureCurrent(d, at),
           NEW p, p = PieceAt(d, e)
    PROVE  /\ e \in Places(d) /\ p \in GoodPiece /\ Behind(e, p) \in Places(d)
           /\ Ahead(d, e) <= Ahead(d, at) /\ Ahead(d, Behind(e, p)) <= Ahead(d, e)
           /\ p.kind # "overrun" => Ahead(d, Behind(e, p)) < Ahead(d, e)
           /\ {Ahead(d, e), Ahead(d, at), Ahead(d, Behind(e, p))} \subseteq Nat
           /\ LSN(e) \in Nat
  <1>1. at.blk \in 1 .. Len(d) /\ at.pos \in Nat /\ at = [blk |-> at.blk, pos |-> at.pos]
    BY DEF Places
  <1>2. e \in Places(d) /\ Ahead(d, e) <= Ahead(d, at) /\ Ahead(d, at) \in Nat
    <2>1. CASE e = at
      <3>1. Ahead(d, at) \in Nat
        BY AheadNat
      <3> QED BY <2>1, <3>1
    <2>2. CASE e = [blk |-> at.blk + 1, pos |-> 0] /\ at.blk < Len(d)
      <3>1. e \in Places(d)
        BY <1>1, <2>2 DEF Places
      <3>2. Ahead(d, e) \in Nat /\ Ahead(d, at) \in Nat /\ Ahead(d, e) < Ahead(d, at)
        BY <2>2, <3>1, AheadNat
      <3> QED BY <3>1, <3>2
    <2> QED BY <2>1, <2>2 DEF EnsureCurrent
  <1>3. d[e.blk] \in GoodBlock /\ e.pos \in Nat
    BY <1>2 DEF Places
  <1>4. p \in GoodPiece /\ (p.kind # "overrun" => e.pos < Cap)
    <2>1. CASE e.pos < Cap
      <3>1. e.pos \in 0 .. Cap - 1
        BY <1>3, <2>1, CapAssumption
      <3> QED BY <1>3, <2>1, <3>1 DEF PieceAt, GoodBlock
    <2>2. CASE ~(e.pos < Cap)
      BY <2>2, LogBoundAssumption DEF PieceAt, Overrun, Piece, GoodPiece
    <2> QED BY <2>1, <2>2
  <1>5. p.size \in Nat \ {0}
    BY <1>4 DEF GoodPiece
  <1>6. Behind(e, p) \in Places(d)
    BY <1>2, <1>5 DEF Behind, Places
  <1>7. Ahead(d, Behind(e, p)) \in Nat /\ Ahead(d, e) \in Nat
    BY <1>2, <1>6, AheadNat
  <1>8. Ahead(d, Behind(e, p)) <= Ahead(d, e)
    BY <1>2, <1>5, AheadNat DEF Behind
  <1>9. p.kind # "overrun" => Ahead(d, Behind(e, p)) < Ahead(d, e)
    BY <1>2, <1>4, <1>5, AheadNat DEF Behind
  <1>10. LSN(e) \in Nat
    BY <1>2, CapAssumption DEF Places, LSN
  <1> QED BY <1>2, <1>4, <1>6, <1>7, <1>8, <1>9, <1>10

\* One turn of reconstructFragmentChain: what it returns, if `then` is what the rest returns.
ChainBody(d, x, then) ==
    LET at == EnsureCurrent(d, x[1])
        p  == PieceAt(d, at)
    IN  IF x[2] <= 0 THEN Broken(x[1])
        ELSE IF p.kind \notin {"first", "cont", "last"} THEN Broken(at)
        ELSE IF p.kind = "first" THEN Broken(Behind(at, p))
        ELSE IF p.kind = "last" /\ x[2] = p.size
        THEN [ok |-> TRUE, id |-> p.id, at |-> Behind(at, p)]
        ELSE then
ChainNext(d, x) ==
    LET at == EnsureCurrent(d, x[1])
        p  == PieceAt(d, at)
    IN  <<Behind(at, p), x[2] - p.size>>
IsChain(d, f) ==
    f = [x \in Places(d) \X Int |-> ChainBody(d, x, f[ChainNext(d, x)])]
Chains(d) == [ok : BOOLEAN, id : Int, at : Places(d)]

\* reconstructFragmentChain comes to an end (log.go:449), not behind where it began.
LEMMA ChainEnds ==
    ASSUME NEW d \in Seq(GoodBlock), d # <<>>
    PROVE  /\ IsChain(d, Chain(d))
           /\ \A x \in Places(d) \X Int :
                Chain(d)[x] \in Chains(d) /\ Ahead(d, Chain(d)[x].at) <= Ahead(d, x[1])
  <1> DEFINE D == Places(d) \X Int
             V == Chains(d)
             s == [x \in D |-> ChainNext(d, x)]
             g == [xy \in D \X V |-> ChainBody(d, xy[1], xy[2])]
             mu == [x \in D |-> Ahead(d, x[1])]
             Fits(x, y) == y \in V /\ Ahead(d, y.at) <= Ahead(d, x[1])
  <1>1. ASSUME NEW x \in D
        PROVE  /\ ChainNext(d, x) \in D /\ Ahead(d, x[1]) \in Nat
               /\ \A y \in V : ChainBody(d, x, y) \in V
               /\ \A y : (Ahead(d, ChainNext(d, x)[1]) < Ahead(d, x[1])
                            => Fits(ChainNext(d, x), y))
                         => Fits(x, ChainBody(d, x, y))
               /\ \/ Ahead(d, ChainNext(d, x)[1]) < Ahead(d, x[1])
                  \/ \A y, z : ChainBody(d, x, y) = ChainBody(d, x, z)
    <2>1. PICK a \in Places(d), left \in Int : x = <<a, left>>
      OBVIOUS
    <2>2. PICK e : e = EnsureCurrent(d, a)
      OBVIOUS
    <2>3. PICK p : p = PieceAt(d, e)
      OBVIOUS
    <2>4. PICK b : b = Behind(e, p)
      OBVIOUS
    <2>5. /\ e \in Places(d) /\ p \in GoodPiece /\ b \in Places(d)
          /\ Ahead(d, e) <= Ahead(d, a) /\ Ahead(d, b) <= Ahead(d, e)
          /\ p.kind # "overrun" => Ahead(d, b) < Ahead(d, e)
          /\ Ahead(d, e) \in Nat /\ Ahead(d, a) \in Nat /\ Ahead(d, b) \in Nat
      BY <2>2, <2>3, <2>4, Moves
    <2>6. p.size \in Nat /\ p.id \in Int
      BY <2>5, LogBoundAssumption DEF GoodPiece
    <2>7. ChainNext(d, x) = <<b, left - p.size>>
      BY <2>1, <2>2, <2>3, <2>4 DEF ChainNext
    <2>8. \A y : ChainBody(d, x, y) =
            IF left <= 0 THEN Broken(a)
            ELSE IF p.kind \notin {"first", "cont", "last"} THEN Broken(e)
            ELSE IF p.kind = "first" THEN Broken(b)
            ELSE IF p.kind = "last" /\ left = p.size
            THEN [ok |-> TRUE, id |-> p.id, at |-> b]
            ELSE y
      BY <2>1, <2>2, <2>3, <2>4 DEF ChainBody
    <2>9. ChainNext(d, x) \in D /\ Ahead(d, x[1]) \in Nat
      BY <2>1, <2>5, <2>6, <2>7
    <2>10. /\ \A c \in Places(d) : Broken(c) \in V /\ Broken(c).at = c
           /\ [ok |-> TRUE, id |-> p.id, at |-> b] \in V
           /\ [ok |-> TRUE, id |-> p.id, at |-> b].at = b
      BY <2>5, <2>6 DEF Broken, Chains
    <2> HIDE DEF V
    <2>11. ASSUME NEW y \in V PROVE ChainBody(d, x, y) \in V
      <3>1. \/ ChainBody(d, x, y) \in {Broken(a), Broken(e), Broken(b), y}
            \/ ChainBody(d, x, y) = [ok |-> TRUE, id |-> p.id, at |-> b]
        BY <2>8
      <3> QED BY <2>5, <2>10, <3>1
    <2>12. ChainNext(d, x)[1] = b /\ x[1] = a
      BY <2>1, <2>7
    <2>13. ASSUME NEW y, Ahead(d, b) < Ahead(d, a) => y \in V /\ Ahead(d, y.at) <= Ahead(d, b)
           PROVE  /\ ChainBody(d, x, y) \in V
                  /\ Ahead(d, ChainBody(d, x, y).at) <= Ahead(d, a)
      <3>1. \/ ChainBody(d, x, y) \in {Broken(a), Broken(e), Broken(b)}
            \/ ChainBody(d, x, y) = [ok |-> TRUE, id |-> p.id, at |-> b]
            \/ ChainBody(d, x, y) = y /\ p.kind # "overrun"
        BY <2>8
      <3>2. \/ ChainBody(d, x, y) \in V /\ ChainBody(d, x, y).at \in {a, e, b}
            \/ ChainBody(d, x, y) = y /\ p.kind # "overrun"
        BY <2>5, <2>10, <3>1
      <3>3. CASE ChainBody(d, x, y) \in V /\ ChainBody(d, x, y).at \in {a, e, b}
        BY <2>5, <3>3
      <3>4. CASE ChainBody(d, x, y) = y /\ p.kind # "overrun"
        <4>1. y \in V /\ Ahead(d, y.at) <= Ahead(d, b) /\ Ahead(d, b) < Ahead(d, a)
          BY <2>5, <2>13, <3>4
        <4>2. Ahead(d, y.at) \in Nat
          BY <4>1, AheadNat DEF Chains, V
        <4> QED BY <2>5, <3>4, <4>1, <4>2
      <3> QED BY <3>2, <3>3, <3>4
    <2>14. \/ Ahead(d, b) < Ahead(d, a)
           \/ \A y, z : ChainBody(d, x, y) = ChainBody(d, x, z)
      <3>1. CASE p.kind = "overrun"
        BY <2>8, <3>1
      <3>2. CASE p.kind # "overrun"
        BY <2>5, <3>2
      <3> QED BY <3>1, <3>2
    <2> QED BY <2>9, <2>11, <2>12, <2>13, <2>14
  <1>2. D # {} /\ V # {}
    <2>1. [blk |-> 1, pos |-> 0] \in Places(d)
      BY DEF Places
    <2>2. <<[blk |-> 1, pos |-> 0], 0>> \in D /\ Broken([blk |-> 1, pos |-> 0]) \in V
      BY <2>1 DEF Broken, Chains
    <2> QED BY <2>2
  <1>3. /\ s \in [D -> D] /\ g \in [D \X V -> V] /\ mu \in [D -> Nat]
        /\ \A x \in D : s[x] = ChainNext(d, x) /\ mu[x] = Ahead(d, x[1])
        /\ \A x \in D, y \in V : g[<<x, y>>] = ChainBody(d, x, y)
    BY <1>1
  <1>4. /\ IsChain(d, Chain(d))
        /\ \A x \in D : Chain(d)[x] = ChainBody(d, x, Chain(d)[ChainNext(d, x)])
    <2> HIDE DEF D, V, s, g, mu
    <2>1. Recursion(D, V, s, g, mu)
      <3>1. ASSUME NEW x \in D
            PROVE  mu[s[x]] < mu[x] \/ \A y, z \in V : g[<<x, y>>] = g[<<x, z>>]
        <4>1. PICK n \in D : n = ChainNext(d, x)
          BY <1>1
        <4>2. s[x] = n /\ mu[s[x]] = Ahead(d, n[1]) /\ mu[x] = Ahead(d, x[1])
          BY <1>3, <4>1
        <4>3. \A y \in V : g[<<x, y>>] = ChainBody(d, x, y)
          BY <1>3
        <4> QED BY <1>1, <4>1, <4>2, <4>3
      <3> QED BY <1>2, <1>3, <3>1 DEF Recursion, Falls
    <2>2. PICK h : Solves(D, V, s, g, h)
      BY <2>1, RecursionExists
    <2>3. h = [x \in D |-> h[x]] /\ \A x \in D : h[x] = ChainBody(d, x, h[ChainNext(d, x)])
      <3>1. h \in [D -> V] /\ \A x \in D : h[x] = g[<<x, h[s[x]]>>]
        BY <2>2 DEF Solves
      <3>2. ASSUME NEW x \in D PROVE h[x] = ChainBody(d, x, h[ChainNext(d, x)])
        <4>1. PICK n \in D : n = ChainNext(d, x)
          BY <1>1
        <4>2. s[x] = n /\ h[n] \in V
          BY <1>3, <3>1, <4>1
        <4> QED BY <1>3, <3>1, <4>1, <4>2
      <3> QED BY <3>1, <3>2
    <2>4. h = [x \in D |-> ChainBody(d, x, h[ChainNext(d, x)])]
      BY <2>3
    <2>5. IsChain(d, h)
      BY <2>4 DEF IsChain, D
    <2>6. Chain(d) = CHOOSE f : IsChain(d, f)
      BY DEF Chain, IsChain, ChainBody, ChainNext
    <2>7. IsChain(d, Chain(d))
      BY <2>5, <2>6
    <2>8. Chain(d) = [x \in D |-> ChainBody(d, x, Chain(d)[ChainNext(d, x)])]
      BY <2>7 DEF IsChain, D
    <2> QED BY <2>7, <2>8
  <1>5. \A x \in D : Fits(x, Chain(d)[x])
    <2> DEFINE Q == {x \in D : Fits(x, Chain(d)[x])}
    <2> HIDE DEF D, V, Fits, s, g, mu
    <2>1. ASSUME NEW x \in D, \A y \in D : mu[y] < mu[x] => y \in Q PROVE x \in Q
      <3>1. PICK n \in D : n = ChainNext(d, x)
        BY <1>1
      <3>2. Ahead(d, n[1]) < Ahead(d, x[1]) => Fits(n, Chain(d)[n])
        BY <1>3, <2>1, <3>1
      <3>3. Fits(x, ChainBody(d, x, Chain(d)[n]))
        BY <1>1, <3>1, <3>2
      <3> QED BY <1>4, <3>1, <3>3
    <2>2. D \subseteq Q
      <3> HIDE DEF Q
      <3> QED BY <1>3, <2>1, MeasureInduction
    <2> QED BY <2>2
  <1> QED BY <1>4, <1>5

\* One turn of Next: what it returns, if `then` is what it returns when it goes on.
NextBody(d, start, then) ==
    LET at == EnsureCurrent(d, start)
        p  == PieceAt(d, at)
        c  == Chain(d)[<<Behind(at, p), p.total - p.size>>]
        Got(id, rest) == [id |-> id, lsn |-> LSN(at), at |-> rest]
    IN  IF p.kind = "normal" THEN Got(p.id, Behind(at, p))
        ELSE IF p.kind = "overrun" THEN Got(Panic, at)
        ELSE IF p.kind = "inside" THEN Got(Garbage, Behind(at, p))
        ELSE IF p.kind # "first" THEN then
        ELSE IF ~c.ok THEN then
        ELSE Got(IF c.id = p.id THEN p.id ELSE Garbage, c.at)
NextPlace(d, start) ==
    LET at == EnsureCurrent(d, start)
        p  == PieceAt(d, at)
    IN  IF p.kind # "first" THEN Behind(at, p)
        ELSE Chain(d)[<<Behind(at, p), p.total - p.size>>].at
IsNext(d, f) == f = [x \in Places(d) |-> NextBody(d, x, f[NextPlace(d, x)])]
NextTurn(d, start, f) ==
    LET at == EnsureCurrent(d, start)
        p  == PieceAt(d, at)
        c  == Chain(d)[<<Behind(at, p), p.total - p.size>>]
        Got(id, rest) == [id |-> id, lsn |-> LSN(at), at |-> rest]
    IN  IF p.kind = "normal" THEN Got(p.id, Behind(at, p))
        ELSE IF p.kind = "overrun" THEN Got(Panic, at)
        ELSE IF p.kind = "inside" THEN Got(Garbage, Behind(at, p))
        ELSE IF p.kind # "first" THEN f[Behind(at, p)]
        ELSE IF ~c.ok THEN f[c.at]
        ELSE Got(IF c.id = p.id THEN p.id ELSE Garbage, c.at)
IsNextTurn(d, f) == f = [x \in Places(d) |-> NextTurn(d, x, f)]
Nexts(d) == [id : Int, lsn : Nat, at : Places(d)]

\* The two say the same of the model's function.
LEMMA NextRecordIs ==
    ASSUME NEW d, NEW h, h = [x \in Places(d) |-> NextBody(d, x, h[NextPlace(d, x)])]
    PROVE  IsNext(d, NextRecord(d))
  <1>1. ASSUME NEW f, NEW x PROVE NextTurn(d, x, f) = NextBody(d, x, f[NextPlace(d, x)])
    <2>1. PICK at : at = EnsureCurrent(d, x)
      OBVIOUS
    <2>2. PICK p : p = PieceAt(d, at)
      OBVIOUS
    <2>3. PICK c : c = Chain(d)[<<Behind(at, p), p.total - p.size>>]
      OBVIOUS
    <2>4. CASE p.kind # "first"
      BY <2>1, <2>2, <2>4 DEF NextTurn, NextBody, NextPlace
    <2>5. CASE p.kind = "first"
      BY <2>1, <2>2, <2>3, <2>5 DEF NextTurn, NextBody, NextPlace
    <2> QED BY <2>4, <2>5
  <1>2. NextRecord(d) = CHOOSE f : IsNextTurn(d, f)
    BY DEF NextRecord, IsNextTurn, NextTurn
  <1> HIDE DEF NextTurn, NextBody, NextPlace
  <1>3. \A f : IsNextTurn(d, f) <=> IsNext(d, f)
    BY <1>1 DEF IsNextTurn, IsNext
  <1>4. IsNextTurn(d, h)
    BY <1>3 DEF IsNext
  <1> QED BY <1>2, <1>3, <1>4

\* Next comes to an end (log.go:410), and what it returns it has gone past.
LEMMA NextEnds ==
    ASSUME NEW d \in Seq(GoodBlock), d # <<>>
    PROVE  /\ IsNext(d, NextRecord(d))
           /\ \A x \in Places(d) :
                /\ NextRecord(d)[x] \in Nexts(d)
                /\ NextRecord(d)[x].id # Panic => Ahead(d, NextRecord(d)[x].at) < Ahead(d, x)
  <1> DEFINE D == Places(d)
             V == Nexts(d)
             s == [x \in D |-> NextPlace(d, x)]
             g == [xy \in D \X V |-> NextBody(d, xy[1], xy[2])]
             mu == [x \in D |-> Ahead(d, x)]
             Fits(x, y) == y \in V /\ (y.id # Panic => Ahead(d, y.at) < Ahead(d, x))
  <1>1. ASSUME NEW x \in D
        PROVE  /\ NextPlace(d, x) \in D /\ Ahead(d, x) \in Nat
               /\ \A y \in V : NextBody(d, x, y) \in V
               /\ \A y : (Ahead(d, NextPlace(d, x)) < Ahead(d, x) => Fits(NextPlace(d, x), y))
                         => Fits(x, NextBody(d, x, y))
               /\ \/ Ahead(d, NextPlace(d, x)) < Ahead(d, x)
                  \/ \A y, z : NextBody(d, x, y) = NextBody(d, x, z)
    <2>1. PICK e : e = EnsureCurrent(d, x)
      OBVIOUS
    <2>2. PICK p : p = PieceAt(d, e)
      OBVIOUS
    <2>3. PICK b : b = Behind(e, p)
      OBVIOUS
    <2>4. PICK c : c = Chain(d)[<<b, p.total - p.size>>]
      OBVIOUS
    <2>5. PICK n : n = NextPlace(d, x)
      OBVIOUS
    <2>6. /\ e \in Places(d) /\ p \in GoodPiece /\ b \in Places(d)
          /\ Ahead(d, e) <= Ahead(d, x) /\ Ahead(d, b) <= Ahead(d, e)
          /\ p.kind # "overrun" => Ahead(d, b) < Ahead(d, e)
          /\ Ahead(d, e) \in Nat /\ Ahead(d, x) \in Nat /\ Ahead(d, b) \in Nat
          /\ LSN(e) \in Nat
      BY <2>1, <2>2, <2>3, Moves
    <2>7. p.id \in Int /\ p.id # Panic /\ p.total - p.size \in Int
      BY <2>6, LogBoundAssumption DEF GoodPiece, Panic
    <2>8. /\ c \in Chains(d) /\ c.at \in Places(d) /\ Ahead(d, c.at) <= Ahead(d, b)
          /\ Ahead(d, c.at) \in Nat
      <3>1. c \in Chains(d) /\ Ahead(d, c.at) <= Ahead(d, b)
        <4>1. PICK z \in Places(d) \X Int : z = <<b, p.total - p.size>>
          BY <2>6, <2>7
        <4> QED BY <2>4, <4>1, ChainEnds
      <3>2. c.at \in Places(d)
        BY <3>1 DEF Chains
      <3> QED BY <3>1, <3>2, AheadNat
    <2>9. n = IF p.kind # "first" THEN b ELSE c.at
      BY <2>1, <2>2, <2>3, <2>4, <2>5 DEF NextPlace
    <2>10. \A y : NextBody(d, x, y) =
            IF p.kind = "normal" THEN [id |-> p.id, lsn |-> LSN(e), at |-> b]
            ELSE IF p.kind = "overrun" THEN [id |-> Panic, lsn |-> LSN(e), at |-> e]
            ELSE IF p.kind = "inside" THEN [id |-> Garbage, lsn |-> LSN(e), at |-> b]
            ELSE IF p.kind # "first" THEN y
            ELSE IF ~c.ok THEN y
            ELSE [id |-> IF c.id = p.id THEN p.id ELSE Garbage, lsn |-> LSN(e), at |-> c.at]
      BY <2>1, <2>2, <2>3, <2>4 DEF NextBody
    <2>11. n \in D /\ Ahead(d, n) \in Nat
      BY <2>6, <2>8, <2>9
    <2>12. ASSUME NEW i \in {p.id, Panic, Garbage}, NEW a \in {b, e, c.at}
           PROVE  /\ [id |-> i, lsn |-> LSN(e), at |-> a] \in V
                  /\ [id |-> i, lsn |-> LSN(e), at |-> a].id = i
                  /\ [id |-> i, lsn |-> LSN(e), at |-> a].at = a
      <3>1. i \in Int /\ a \in Places(d)
        BY <2>6, <2>7, <2>8 DEF Panic, Garbage
      <3> QED BY <2>6, <3>1 DEF Nexts
    <2> HIDE DEF V
    <2>13. ASSUME NEW y
           PROVE  \/ NextBody(d, x, y) = y /\ p.kind # "overrun"
                  \/ /\ NextBody(d, x, y) \in V
                     /\ \/ NextBody(d, x, y).id = Panic
                        \/ NextBody(d, x, y).at \in {b, c.at} /\ p.kind # "overrun"
      <3>1. \/ NextBody(d, x, y) = y /\ p.kind # "overrun"
            \/ NextBody(d, x, y) = [id |-> Panic, lsn |-> LSN(e), at |-> e]
            \/ \E i \in {p.id, Garbage}, a \in {b, c.at} :
                  p.kind # "overrun" /\ NextBody(d, x, y) = [id |-> i, lsn |-> LSN(e), at |-> a]
        BY <2>10
      <3> QED BY <2>12, <3>1
    <2>14. Ahead(d, b) < Ahead(d, x) \/ p.kind = "overrun"
      BY <2>6
    <2>15. p.kind # "overrun" => Ahead(d, n) < Ahead(d, x) /\ Ahead(d, c.at) < Ahead(d, x)
      BY <2>6, <2>8, <2>9, <2>14
    <2>16. ASSUME NEW y \in V PROVE NextBody(d, x, y) \in V
      BY <2>13
    <2>17. ASSUME NEW y, Ahead(d, n) < Ahead(d, x) => Fits(n, y)
           PROVE  Fits(x, NextBody(d, x, y))
      <3>1. CASE NextBody(d, x, y) = y /\ p.kind # "overrun"
        <4>1. y \in V /\ (y.id # Panic => Ahead(d, y.at) < Ahead(d, n))
          BY <2>15, <2>17, <3>1
        <4>2. Ahead(d, y.at) \in Nat
          BY <4>1, AheadNat DEF Nexts, V
        <4> QED BY <2>6, <2>11, <2>15, <3>1, <4>1, <4>2
      <3>2. CASE /\ NextBody(d, x, y) \in V
                 /\ \/ NextBody(d, x, y).id = Panic
                    \/ NextBody(d, x, y).at \in {b, c.at} /\ p.kind # "overrun"
        BY <2>14, <2>15, <3>2
      <3> QED BY <2>13, <3>1, <3>2
    <2>18. \/ Ahead(d, n) < Ahead(d, x)
           \/ \A y, z : NextBody(d, x, y) = NextBody(d, x, z)
      <3>1. CASE p.kind = "overrun"
        BY <2>10, <3>1
      <3>2. CASE p.kind # "overrun"
        BY <2>15, <3>2
      <3> QED BY <3>1, <3>2
    <2> QED BY <2>5, <2>6, <2>11, <2>16, <2>17, <2>18
  <1>2. D # {} /\ V # {}
    <2>1. [blk |-> 1, pos |-> 0] \in Places(d)
      BY DEF Places
    <2>2. [id |-> 0, lsn |-> 0, at |-> [blk |-> 1, pos |-> 0]] \in V
      BY <2>1 DEF Nexts
    <2> QED BY <2>1, <2>2
  <1>3. /\ s \in [D -> D] /\ g \in [D \X V -> V] /\ mu \in [D -> Nat]
        /\ \A x \in D : s[x] = NextPlace(d, x) /\ mu[x] = Ahead(d, x)
        /\ \A x \in D, y \in V : g[<<x, y>>] = NextBody(d, x, y)
    BY <1>1
  <1>4. /\ IsNext(d, NextRecord(d))
        /\ \A x \in D : NextRecord(d)[x] = NextBody(d, x, NextRecord(d)[NextPlace(d, x)])
    <2> HIDE DEF D, V, s, g, mu
    <2>1. Recursion(D, V, s, g, mu)
      <3>1. ASSUME NEW x \in D
            PROVE  mu[s[x]] < mu[x] \/ \A y, z \in V : g[<<x, y>>] = g[<<x, z>>]
        <4>1. PICK n \in D : n = NextPlace(d, x)
          BY <1>1
        <4>2. s[x] = n /\ mu[s[x]] = Ahead(d, n) /\ mu[x] = Ahead(d, x)
          BY <1>3, <4>1
        <4>3. \A y \in V : g[<<x, y>>] = NextBody(d, x, y)
          BY <1>3
        <4> QED BY <1>1, <4>1, <4>2, <4>3
      <3> QED BY <1>2, <1>3, <3>1 DEF Recursion, Falls
    <2>2. PICK h : Solves(D, V, s, g, h)
      BY <2>1, RecursionExists
    <2>3. h = [x \in D |-> h[x]] /\ \A x \in D : h[x] = NextBody(d, x, h[NextPlace(d, x)])
      <3>1. h \in [D -> V] /\ \A x \in D : h[x] = g[<<x, h[s[x]]>>]
        BY <2>2 DEF Solves
      <3>2. ASSUME NEW x \in D PROVE h[x] = NextBody(d, x, h[NextPlace(d, x)])
        <4>1. PICK n \in D : n = NextPlace(d, x)
          BY <1>1
        <4>2. s[x] = n /\ h[n] \in V
          BY <1>3, <3>1, <4>1
        <4> QED BY <1>3, <3>1, <4>1, <4>2
      <3> QED BY <3>1, <3>2
    <2>4. h = [x \in D |-> NextBody(d, x, h[NextPlace(d, x)])]
      BY <2>3
    <2>5. IsNext(d, NextRecord(d))
      BY <2>4, NextRecordIs DEF D
    <2>6. NextRecord(d) = [x \in D |-> NextBody(d, x, NextRecord(d)[NextPlace(d, x)])]
      BY <2>5 DEF IsNext, D
    <2> QED BY <2>5, <2>6
  <1>5. \A x \in D : Fits(x, NextRecord(d)[x])
    <2> DEFINE Q == {x \in D : Fits(x, NextRecord(d)[x])}
    <2> HIDE DEF D, V, Fits, s, g, mu
    <2>1. ASSUME NEW x \in D, \A y \in D : mu[y] < mu[x] => y \in Q PROVE x \in Q
      <3>1. PICK n \in D : n = NextPlace(d, x)
        BY <1>1
      <3>2. Ahead(d, n) < Ahead(d, x) => Fits(n, NextRecord(d)[n])
        BY <1>3, <2>1, <3>1
      <3>3. Fits(x, NextBody(d, x, NextRecord(d)[n]))
        BY <1>1, <3>1, <3>2
      <3> QED BY <1>4, <3>1, <3>3
    <2>2. D \subseteq Q
      <3> HIDE DEF Q
      <3> QED BY <1>3, <2>1, MeasureInduction
    <2> QED BY <2>2
  <1> QED BY <1>4, <1>5

\* One turn of the loop over HasNext and Next, if `then` is what the rest of it reads.
ScanBody(d, at, then) ==
    IF ~HasNext(d, at) THEN <<>>
    ELSE LET n == NextRecord(d)[at]
         IN  <<[lsn |-> n.lsn, id |-> n.id]>> \o (IF n.id = Panic THEN <<>> ELSE then)
IsScan(d, f) == f = [at \in Places(d) |-> ScanBody(d, at, f[NextRecord(d)[at].at])]
Scanner(d) == CHOOSE f : IsScan(d, f)
ReadRecords == [lsn : Nat, id : Int]

\* The loop over the iterator comes to an end (log.go:396, 410).
LEMMA ScanEnds ==
    ASSUME NEW d \in Seq(GoodBlock), d # <<>>
    PROVE  /\ Scanner(d) \in [Places(d) -> Seq(ReadRecords)]
           /\ \A at \in Places(d) :
                Scanner(d)[at] = ScanBody(d, at, Scanner(d)[NextRecord(d)[at].at])
  <1> DEFINE D == Places(d)
             V == Seq(ReadRecords)
             s == [x \in D |-> NextRecord(d)[x].at]
             g == [xy \in D \X V |-> ScanBody(d, xy[1], xy[2])]
             mu == [x \in D |-> Ahead(d, x)]
  <1>1. ASSUME NEW x \in D
        PROVE  /\ NextRecord(d)[x].at \in D /\ Ahead(d, x) \in Nat
               /\ \A y \in V : ScanBody(d, x, y) \in V
               /\ \/ Ahead(d, NextRecord(d)[x].at) < Ahead(d, x)
                  \/ \A y, z : ScanBody(d, x, y) = ScanBody(d, x, z)
    <2>1. PICK n : n = NextRecord(d)[x]
      OBVIOUS
    <2>2. n \in Nexts(d) /\ (n.id # Panic => Ahead(d, n.at) < Ahead(d, x))
      BY <2>1, NextEnds
    <2>3. n.at \in D /\ n.id \in Int /\ n.lsn \in Nat
      BY <2>2 DEF Nexts
    <2>4. Ahead(d, x) \in Nat
      BY AheadNat
    <2>5. \A y : ScanBody(d, x, y) =
            IF ~HasNext(d, x) THEN <<>>
            ELSE <<[lsn |-> n.lsn, id |-> n.id]>> \o (IF n.id = Panic THEN <<>> ELSE y)
      BY <2>1 DEF ScanBody
    <2>6. ASSUME NEW y \in V PROVE ScanBody(d, x, y) \in V
      <3>1. [lsn |-> n.lsn, id |-> n.id] \in ReadRecords
        BY <2>3 DEF ReadRecords
      <3>2. <<[lsn |-> n.lsn, id |-> n.id]>> \in V /\ <<>> \in V
        BY <3>1
      <3>3. \A a, b \in V : a \o b \in V
        OBVIOUS
      <3> HIDE DEF V
      <3> QED BY <2>5, <3>2, <3>3
    <2>7. \/ Ahead(d, n.at) < Ahead(d, x)
          \/ \A y, z : ScanBody(d, x, y) = ScanBody(d, x, z)
      <3>1. CASE n.id = Panic
        BY <2>5, <3>1
      <3>2. CASE n.id # Panic
        BY <2>2, <3>2
      <3> QED BY <3>1, <3>2
    <2> QED BY <2>1, <2>3, <2>4, <2>6, <2>7
  <1>2. <<>> \in V
    OBVIOUS
  <1>3. /\ s \in [D -> D] /\ g \in [D \X V -> V] /\ mu \in [D -> Nat]
        /\ \A x \in D : s[x] = NextRecord(d)[x].at /\ mu[x] = Ahead(d, x)
        /\ \A x \in D, y \in V : g[<<x, y>>] = ScanBody(d, x, y)
    BY <1>1
  <1>4. /\ IsScan(d, Scanner(d))
        /\ \A x \in D : Scanner(d)[x] = ScanBody(d, x, Scanner(d)[NextRecord(d)[x].at])
    <2> HIDE DEF D, V, s, g, mu
    <2>1. Recursion(D, V, s, g, mu)
      <3>1. ASSUME NEW x \in D
            PROVE  mu[s[x]] < mu[x] \/ \A y, z \in V : g[<<x, y>>] = g[<<x, z>>]
        <4>1. PICK n \in D : n = NextRecord(d)[x].at
          BY <1>1
        <4>2. s[x] = n /\ mu[s[x]] = Ahead(d, n) /\ mu[x] = Ahead(d, x)
          BY <1>3, <4>1
        <4>3. \A y \in V : g[<<x, y>>] = ScanBody(d, x, y)
          BY <1>3
        <4> QED BY <1>1, <4>1, <4>2, <4>3
      <3> QED BY <1>2, <1>3, <3>1 DEF Recursion, Falls
    <2>2. PICK h : Solves(D, V, s, g, h)
      BY <2>1, RecursionExists
    <2>3. h = [x \in D |-> h[x]]
          /\ \A x \in D : h[x] = ScanBody(d, x, h[NextRecord(d)[x].at])
      <3>1. h \in [D -> V] /\ \A x \in D : h[x] = g[<<x, h[s[x]]>>]
        BY <2>2 DEF Solves
      <3>2. ASSUME NEW x \in D PROVE h[x] = ScanBody(d, x, h[NextRecord(d)[x].at])
        <4>1. PICK n \in D : n = NextRecord(d)[x].at
          BY <1>1
        <4>2. s[x] = n /\ h[n] \in V
          BY <1>3, <3>1, <4>1
        <4> QED BY <1>3, <3>1, <4>1, <4>2
      <3> QED BY <3>1, <3>2
    <2>4. h = [x \in D |-> ScanBody(d, x, h[NextRecord(d)[x].at])]
      BY <2>3
    <2>5. IsScan(d, h)
      BY <2>4 DEF IsScan, D
    <2>6. IsScan(d, Scanner(d))
      BY <2>5 DEF Scanner
    <2>7. Scanner(d) = [x \in D |-> ScanBody(d, x, Scanner(d)[NextRecord(d)[x].at])]
      BY <2>6 DEF IsScan, D
    <2> QED BY <2>6, <2>7
  <1>5. \A x \in D : Scanner(d)[x] \in V
    <2> DEFINE Q == {x \in D : Scanner(d)[x] \in V}
    <2>0. PICK v \in V : v = <<>>
      BY <1>2
    <2> HIDE DEF D, V, s, g, mu
    <2>1. ASSUME NEW x \in D, \A y \in D : mu[y] < mu[x] => y \in Q PROVE x \in Q
      <3>1. PICK n \in D : n = NextRecord(d)[x].at
        BY <1>1
      <3>2. CASE Ahead(d, n) < Ahead(d, x)
        <4>1. Scanner(d)[n] \in V
          BY <1>3, <2>1, <3>1, <3>2
        <4> QED BY <1>1, <1>4, <3>1, <4>1
      <3>3. CASE \A y, z : ScanBody(d, x, y) = ScanBody(d, x, z)
        <4>1. Scanner(d)[x] = ScanBody(d, x, v)
          BY <1>4, <3>3
        <4>2. ScanBody(d, x, v) \in V
          BY <1>1
        <4> QED BY <4>1, <4>2
      <3> QED BY <1>1, <3>1, <3>2, <3>3
    <2>2. D \subseteq Q
      <3> HIDE DEF Q
      <3> QED BY <1>3, <2>1, MeasureInduction
    <2> QED BY <2>2
  <1>6. Scanner(d) = [x \in D |-> Scanner(d)[x]]
    BY <1>4 DEF IsScan
  <1> HIDE DEF V, D
  <1>7. Scanner(d) \in [D -> V]
    BY <1>5, <1>6
  <1> QED BY <1>4, <1>7 DEF D, V

\* Reading the log from its first LSN, as a restart does (log.go:139, 410).
LEMMA ScanFirst ==
    ASSUME NEW d \in Seq(GoodBlock)
    PROVE  /\ d = <<>> => Scan(d, FirstLSN) = <<>>
           /\ d # <<>> => Scan(d, FirstLSN) = Scanner(d)[[blk |-> 1, pos |-> 0]]
           /\ Scan(d, FirstLSN) \in Seq(ReadRecords)
  <1>1. AtLSN(FirstLSN) = [blk |-> 1, pos |-> 0]
    <2>1. Cap \div Cap = 1 /\ Cap % Cap = 0
      BY CapAssumption
    <2> QED BY <2>1 DEF AtLSN, FirstLSN
  <1>2. d = <<>> => Scan(d, FirstLSN) = <<>>
    BY <1>1 DEF Scan
  <1>3. ASSUME d # <<>>
        PROVE  Scan(d, FirstLSN) = Scanner(d)[[blk |-> 1, pos |-> 0]]
    <2>1. [blk |-> 1, pos |-> 0] \in Places(d) /\ ~(1 > Len(d))
      BY <1>3 DEF Places
    <2>2. Scan(d, FirstLSN) = Scanner(d)[AtLSN(FirstLSN)]
      BY <1>1, <2>1 DEF Scan, Scanner, IsScan, ScanBody
    <2> QED BY <1>1, <2>2
  <1>4. Scan(d, FirstLSN) \in Seq(ReadRecords)
    <2>1. d # <<>> => Scanner(d)[[blk |-> 1, pos |-> 0]] \in Seq(ReadRecords)
      <3>1. d # <<>> => [blk |-> 1, pos |-> 0] \in Places(d)
        BY DEF Places
      <3> QED BY <3>1, ScanEnds
    <2> QED BY <1>2, <1>3, <2>1
  <1> QED BY <1>2, <1>3, <1>4

-----------------------------------------------------------------------------
(* The types.                                                              *)

Calls(n) ==
    [pc : {"idle"} \cup AppendPCs \cup FlushPCs, id : Nat, total : Nat,
     left : Nat, lsn : Nat, blk : 0 .. n, pos : 0 .. Cap - 1]

\* A call knows its record, what is left of it, and what it flushes.
CallKnows(c) ==
    /\ c.pc \in AppendPCs => c.id \in 1 .. MaxRec /\ c.total > 0 /\ c.left <= c.total
    /\ c.pc \in AppendPCs \ {"publish"} => c.left > 0 /\ (Single(c) => c.left = c.total)
    /\ c.pc = "publish" /\ Single(c) => c.left = 0
    /\ c.pc \in FlushPCs => c.id \in DOMAIN logged

LogTypes ==
    /\ phase \in {"down", "header", "block", "first", "up", "failed"}
    /\ header \in Int
    /\ disk \in Seq(GoodBlock) /\ page \in GoodBlock
    /\ cur \in 0 .. Len(disk)
    /\ latest \in Nat /\ saved \in Nat
    /\ call \in [Threads -> Calls(Len(disk))]
    /\ \A t \in Threads : CallKnows(call[t])
    /\ logged \in Seq(ReadRecords)
    /\ acked \in 0 .. Len(logged)
    /\ used \in [recs : 0 .. MaxRec, crashes : 0 .. MaxCrash]

\* A zeroed block, a reset page, and an idle call.
LEMMA Fresh ==
    /\ ZeroBlock \in GoodBlock
    /\ \A pg \in GoodBlock : Reset(pg) \in GoodBlock
    /\ \A n \in Nat : Idle \in Calls(n)
    /\ CallKnows(Idle)
  <1>1. NoPiece \in GoodPiece
    BY LogBoundAssumption DEF NoPiece, Piece, GoodPiece
  <1>2. ZeroBlock \in GoodBlock
    BY <1>1, CapAssumption DEF ZeroBlock, GoodBlock
  <1>3. ASSUME NEW pg \in GoodBlock PROVE Reset(pg) \in GoodBlock
    BY CapAssumption DEF Reset, GoodBlock
  <1>4. \A n \in Nat : Idle \in Calls(n)
    BY CapAssumption DEF Idle, Calls
  <1>5. CallKnows(Idle)
    BY DEF CallKnows, Idle, AppendPCs, FlushPCs
  <1> QED BY <1>2, <1>3, <1>4, <1>5

\* A call of the file before one block more is appended.
LEMMA CallsGrow ==
    ASSUME NEW n \in Nat, NEW m \in Nat, n <= m
    PROVE  Calls(n) \subseteq Calls(m)
  BY DEF Calls

\* A page with a piece that fits is a page.
LEMMA WrittenType ==
    ASSUME NEW pg \in GoodBlock, NEW p \in GoodPiece, p.size <= Room(pg)
    PROVE  Written(pg, p) \in GoodBlock /\ Room(pg) \in 0 .. Cap
  <1> DEFINE b == Cap - Room(pg)
             kept == IF pg.boundary < 0 THEN Inside ELSE p
             cells == [i \in 0 .. Cap - 1 |->
                          IF i = b THEN kept
                          ELSE IF i \in b + 1 .. b + p.size - 1 THEN Inside
                          ELSE pg.cells[i]]
  <1>1. pg.boundary \in -1 .. Cap /\ pg.cells \in [0 .. Cap - 1 -> GoodPiece]
        /\ Cap \in Nat \ {0} /\ p.size \in Nat \ {0}
    BY CapAssumption DEF GoodBlock, GoodPiece
  <1>2. Room(pg) \in 0 .. Cap /\ b \in 0 .. Cap /\ b + p.size \in 0 .. Cap
    BY <1>1 DEF Room
  <1>3. Inside \in GoodPiece
    BY LogBoundAssumption DEF Inside, Piece, GoodPiece
  <1>4. kept \in GoodPiece
    BY <1>3
  <1> HIDE DEF kept
  <1>5. cells \in [0 .. Cap - 1 -> GoodPiece]
    BY <1>1, <1>3, <1>4
  <1>6. Written(pg, p) = [boundary |-> b + p.size, cells |-> cells]
    BY DEF Written, kept
  <1> HIDE DEF cells, b
  <1>7. b + p.size \in -1 .. Cap
    BY <1>2
  <1> QED BY <1>2, <1>5, <1>6, <1>7 DEF GoodBlock

\* Appending and writing blocks (fm.Append, fm.Write) keep the file a sequence of blocks.
LEMMA FileType ==
    ASSUME NEW d \in Seq(GoodBlock), NEW b \in GoodBlock
    PROVE  /\ Append(d, b) \in Seq(GoodBlock) /\ Len(Append(d, b)) = Len(d) + 1
           /\ \A i : [d EXCEPT ![i] = b] \in Seq(GoodBlock)
           /\ \A i : Len([d EXCEPT ![i] = b]) = Len(d)
  <1>1. Append(d, b) \in Seq(GoodBlock) /\ Len(Append(d, b)) = Len(d) + 1
    OBVIOUS
  <1>2. ASSUME NEW i
        PROVE  [d EXCEPT ![i] = b] \in Seq(GoodBlock) /\ Len([d EXCEPT ![i] = b]) = Len(d)
    <2>1. d \in [1 .. Len(d) -> GoodBlock] /\ Len(d) \in Nat
      OBVIOUS
    <2>2. [d EXCEPT ![i] = b] \in [1 .. Len(d) -> GoodBlock]
      BY <2>1
    <2>3. [d EXCEPT ![i] = b] \in Seq(GoodBlock)
      BY <2>1, <2>2
    <2> QED BY <2>1, <2>2, <2>3
  <1> QED BY <1>1, <1>2

\* The file and the log may have grown under the calls that went on.
LEMMA CallsKept ==
    ASSUME LogTypes, call' = call, Len(disk') \in Nat, Len(disk) <= Len(disk'),
           logged' = logged
    PROVE  /\ call' \in [Threads -> Calls(Len(disk'))]
           /\ \A t \in Threads : CallKnows(call[t])'
  <1>1. Len(disk) \in Nat
    BY DEF LogTypes
  <1>2. Calls(Len(disk)) \subseteq Calls(Len(disk'))
    BY <1>1, CallsGrow
  <1>3. call' \in [Threads -> Calls(Len(disk'))]
    BY <1>2 DEF LogTypes
  <1>4. \A t \in Threads : CallKnows(call[t])'
    BY DEF LogTypes, CallKnows, Single
  <1> QED BY <1>3, <1>4

\* NewLogMgr (log.go:74) keeps the types.
LEMMA StartTypes ==
    ASSUME LogTypes, Start
    PROVE  LogTypes'
  <1> USE DEF LogTypes
  <1>1. CASE AppendHeader \/ WriteHeader \/ BadHeader \/ NoBlock
    <2>1. /\ UNCHANGED <<disk, memory, logged, acked, used>>
          /\ header' \in Int /\ phase' \in {"header", "block", "failed"}
      BY <1>1, CapAssumption DEF AppendHeader, WriteHeader, BadHeader, NoBlock, Zeroed, FirstLSN
    <2>2. UNCHANGED <<page, cur, latest, saved, call>>
      BY <2>1 DEF memory
    <2>3. call' \in [Threads -> Calls(Len(disk'))] /\ \A t \in Threads : CallKnows(call[t])'
      BY <2>1, <2>2, CallsKept
    <2> QED BY <2>1, <2>2, <2>3
  <1>2. CASE FirstAppend
    <2>1. /\ UNCHANGED <<header, page, cur, latest, saved, call, logged, acked, used>>
          /\ phase' = "first" /\ disk' = Append(disk, ZeroBlock)
      BY <1>2 DEF FirstAppend, memory
    <2>2. disk' \in Seq(GoodBlock) /\ Len(disk') = Len(disk) + 1 /\ Len(disk) \in Nat
      BY <2>1, Fresh, FileType
    <2>3. call' \in [Threads -> Calls(Len(disk'))] /\ \A t \in Threads : CallKnows(call[t])'
      BY <2>1, <2>2, CallsKept
    <2> QED BY <2>1, <2>2, <2>3
  <1>3. CASE FirstWrite
    <2>1. /\ UNCHANGED <<header, latest, saved, call, logged, acked, used>>
          /\ phase' = "up" /\ page' = Reset(page) /\ disk' = [disk EXCEPT ![Len(disk)] = page']
          /\ cur' = Len(disk)
      BY <1>3 DEF FirstWrite
    <2>2. page' \in GoodBlock
      BY <2>1, Fresh
    <2>3. disk' \in Seq(GoodBlock) /\ Len(disk') = Len(disk) /\ Len(disk) \in Nat
      BY <2>1, <2>2, FileType
    <2>4. call' \in [Threads -> Calls(Len(disk'))] /\ \A t \in Threads : CallKnows(call[t])'
      BY <2>1, <2>3, CallsKept
    <2> QED BY <2>1, <2>2, <2>3, <2>4
  <1>4. CASE LoadLast
    <2>1. /\ UNCHANGED <<header, disk, latest, saved, call, logged, acked, used>>
          /\ phase' = "up" /\ page' = disk[Len(disk)] /\ cur' = Len(disk) /\ disk # <<>>
      BY <1>4 DEF LoadLast
    <2>2. page' \in GoodBlock /\ Len(disk) \in Nat
      BY <2>1
    <2>3. call' \in [Threads -> Calls(Len(disk'))] /\ \A t \in Threads : CallKnows(call[t])'
      BY <2>1, <2>2, CallsKept
    <2> QED BY <2>1, <2>2, <2>3
  <1> QED BY <1>1, <1>2, <1>3, <1>4 DEF Start

\* One call has moved on, the others know what they knew.
LEMMA CallMoves ==
    ASSUME LogTypes, NEW t \in Threads, NEW c \in Calls(Len(disk')),
           call' = [call EXCEPT ![t] = c], CallKnows(c)',
           Len(disk') \in Nat, Len(disk) <= Len(disk'), DOMAIN logged \subseteq DOMAIN logged'
    PROVE  /\ call' \in [Threads -> Calls(Len(disk'))]
           /\ \A u \in Threads : CallKnows(call[u])'
  <1>1. Len(disk) \in Nat
    BY DEF LogTypes
  <1>2. Calls(Len(disk)) \subseteq Calls(Len(disk'))
    BY <1>1, CallsGrow
  <1>3. call' \in [Threads -> Calls(Len(disk'))]
    BY <1>2 DEF LogTypes
  <1>4. ASSUME NEW u \in Threads PROVE CallKnows(call[u])'
    <2>1. CASE u = t
      <3>1. call'[u] = c
        BY <2>1 DEF LogTypes
      <3> QED BY <3>1 DEF CallKnows, Single
    <2>2. CASE u # t
      <3>1. call'[u] = call[u]
        BY <2>2 DEF LogTypes
      <3>2. CallKnows(call[u])
        BY DEF LogTypes
      <3> QED BY <3>1, <3>2 DEF CallKnows, Single
    <2> QED BY <2>1, <2>2
  <1> QED BY <1>3, <1>4

\* Most steps leave the number of blocks and the log as they are.
LEMMA CallMovesOnly ==
    ASSUME LogTypes, NEW t \in Threads, NEW c \in Calls(Len(disk)),
           call' = [call EXCEPT ![t] = c], CallKnows(c)', Len(disk') = Len(disk), logged' = logged
    PROVE  /\ call' \in [Threads -> Calls(Len(disk'))]
           /\ \A u \in Threads : CallKnows(call[u])'
  <1>1. Len(disk') \in Nat /\ Len(disk) <= Len(disk') /\ c \in Calls(Len(disk'))
        /\ DOMAIN logged \subseteq DOMAIN logged'
    BY DEF LogTypes
  <1> QED BY <1>1, CallMoves

\* A call that moves within its program keeps its record.
LEMMA GotoCall ==
    ASSUME LogTypes, NEW t \in Threads, NEW pc \in {"idle"} \cup AppendPCs \cup FlushPCs,
           Goto(t, pc)
    PROVE  \E c \in Calls(Len(disk)) :
              /\ call' = [call EXCEPT ![t] = c] /\ c.pc = pc
              /\ c.id = call[t].id /\ c.total = call[t].total /\ c.left = call[t].left
              /\ c.lsn = call[t].lsn /\ c.blk = call[t].blk /\ c.pos = call[t].pos
  <1>1. call[t] \in Calls(Len(disk))
    BY DEF LogTypes
  <1> DEFINE c == [call[t] EXCEPT !.pc = pc]
  <1>2. /\ c \in Calls(Len(disk)) /\ c.pc = pc
        /\ c.id = call[t].id /\ c.total = call[t].total /\ c.left = call[t].left
        /\ c.lsn = call[t].lsn /\ c.blk = call[t].blk /\ c.pos = call[t].pos
    BY <1>1 DEF Calls
  <1>3. call' = [call EXCEPT ![t] = c]
    BY DEF Goto
  <1> HIDE DEF c
  <1> QED BY <1>2, <1>3

\* Append is called.
LEMMA AppendCallTypes ==
    ASSUME LogTypes, NEW t \in Threads, NEW n \in Sizes, AppendCall(t, n)
    PROVE  LogTypes'
  <1> USE DEF LogTypes
  <1>1. /\ used.recs < MaxRec /\ used' = [used EXCEPT !.recs = @ + 1]
        /\ call' = [call EXCEPT ![t] =
                   [Idle EXCEPT !.pc = "put", !.id = used'.recs, !.total = n, !.left = n]]
        /\ UNCHANGED <<phase, header, disk, page, cur, latest, saved, logged, acked>>
    BY DEF AppendCall
  <1>2. used' \in [recs : 0 .. MaxRec, crashes : 0 .. MaxCrash] /\ used'.recs \in 1 .. MaxRec
    BY <1>1, LogBoundAssumption
  <1>3. n \in Nat \ {0} /\ Len(disk) \in Nat
    BY SizeAssumption
  <1>4. PICK r : r = used'.recs
    OBVIOUS
  <1> DEFINE c == [pc |-> "put", id |-> r, total |-> n, left |-> n, lsn |-> 0, blk |-> 0,
                   pos |-> 0]
  <1>5. call' = [call EXCEPT ![t] = c]
    <2> DEFINE a == [Idle EXCEPT !.pc = "put"]
               b == [a EXCEPT !.id = r]
               e == [b EXCEPT !.total = n]
    <2>0. [Idle EXCEPT !.pc = "put", !.id = r, !.total = n, !.left = n] = [e EXCEPT !.left = n]
      OBVIOUS
    <2>2. a = [pc |-> "put", id |-> 0, total |-> 0, left |-> 0, lsn |-> 0, blk |-> 0, pos |-> 0]
      BY DEF Idle
    <2> HIDE DEF a
    <2>3. b = [pc |-> "put", id |-> r, total |-> 0, left |-> 0, lsn |-> 0, blk |-> 0, pos |-> 0]
      BY <2>2
    <2> HIDE DEF b
    <2>4. e = [pc |-> "put", id |-> r, total |-> n, left |-> 0, lsn |-> 0, blk |-> 0, pos |-> 0]
      BY <2>3
    <2> HIDE DEF e
    <2>1. [Idle EXCEPT !.pc = "put", !.id = r, !.total = n, !.left = n] = c
      BY <2>0, <2>4
    <2> QED BY <1>1, <1>4, <2>1
  <1>6. c \in Calls(Len(disk)) /\ CallKnows(c)'
    BY <1>2, <1>3, <1>4, CapAssumption DEF Calls, CallKnows, AppendPCs, FlushPCs
  <1> HIDE DEF c
  <1>7. call' \in [Threads -> Calls(Len(disk'))] /\ \A u \in Threads : CallKnows(call[u])'
    BY <1>1, <1>5, <1>6, CallMovesOnly
  <1> QED BY <1>1, <1>2, <1>7

\* What Put writes is a piece that fits, and the call has that much less left.
LEMMA PieceFits ==
    ASSUME LogTypes, NEW t \in Threads, call[t].pc = "put", ~MustRoll(call[t])
    PROVE  /\ NextPiece(call[t]) \in GoodPiece
           /\ NextPiece(call[t]).size \in 1 .. Room(page) /\ Room(page) \in 1 .. Cap
           /\ NextPiece(call[t]).size <= call[t].left
           /\ Single(call[t]) => NextPiece(call[t]).size = call[t].left
           /\ NextPiece(call[t]).id = call[t].id /\ NextPiece(call[t]).total = call[t].total
           /\ NextPiece(call[t]).kind \in {"normal", "first", "last", "cont"}
  <1> DEFINE c == call[t]
  <1>1. /\ c.id \in 1 .. MaxRec /\ c.total \in Nat \ {0} /\ c.left \in 1 .. c.total
        /\ Single(c) => c.left = c.total
    <2>1. c \in Calls(Len(disk)) /\ CallKnows(c)
      BY DEF LogTypes
    <2> QED BY <2>1 DEF CallKnows, Calls, AppendPCs
  <1>2. Room(page) \in 0 .. Cap
    BY CapAssumption DEF LogTypes, GoodBlock, Room
  <1>3. Room(page) \in 1 .. Cap /\ (Single(c) => c.total <= Room(page))
    BY <1>1, <1>2 DEF MustRoll
  <1> DEFINE n == IF c.left < Room(page) THEN c.left ELSE Room(page)
  <1>4. n \in 1 .. Room(page) /\ n <= c.left
    BY <1>1, <1>3
  <1>5. CASE Single(c)
    <2>1. NextPiece(c) = Piece("normal", c.id, c.total, c.total)
      BY <1>5 DEF NextPiece
    <2> QED BY <1>1, <1>3, <1>5, <2>1, LogBoundAssumption DEF Piece, GoodPiece
  <1>6. CASE ~Single(c)
    <2>1. PICK k \in {"first", "last", "cont"} : NextPiece(c) = Piece(k, c.id, n, c.total)
      BY <1>6 DEF NextPiece
    <2> HIDE DEF n
    <2> QED BY <1>1, <1>3, <1>4, <1>6, <2>1, LogBoundAssumption DEF Piece, GoodPiece
  <1> QED BY <1>5, <1>6

\* What Put makes of its call.
LEMMA PutCall ==
    ASSUME LogTypes, NEW t \in Threads, Put(t), NEW c, c = call[t], NEW p, p = NextPiece(c)
    PROVE  \E e, l :
              /\ l = IF c.left = c.total THEN LSN([blk |-> cur, pos |-> Cap - Room(page)])
                     ELSE c.lsn
              /\ e = [pc |-> "publish", id |-> c.id, total |-> c.total, left |-> c.left - p.size,
                      lsn |-> l, blk |-> c.blk, pos |-> Cap - Room(page)]
              /\ call' = [call EXCEPT ![t] = e]
  <1>1. PICK l : l = IF c.left = c.total THEN LSN([blk |-> cur, pos |-> Cap - Room(page)])
                     ELSE c.lsn
    OBVIOUS
  <1>2. PICK left, pos : left = c.left - p.size /\ pos = Cap - Room(page)
    OBVIOUS
  <1>3. call' = [call EXCEPT ![t].pc = "publish", ![t].left = c.left - p.size,
                              ![t].pos = Cap - Room(page),
                              ![t].lsn = IF c.left = c.total
                                         THEN LSN([blk |-> cur, pos |-> Cap - Room(page)])
                                         ELSE @]
    BY DEF Put
  <1>4. call' = [call EXCEPT ![t] = [@ EXCEPT !.pc = "publish", !.left = left, !.pos = pos,
                                              !.lsn = l]]
    BY <1>1, <1>2, <1>3
  <1> DEFINE y == [c EXCEPT !.pc = "publish"]
             z == [y EXCEPT !.left = left]
             w == [z EXCEPT !.pos = pos]
             e == [w EXCEPT !.lsn = l]
  <1>5. c = [pc |-> c.pc, id |-> c.id, total |-> c.total, left |-> c.left, lsn |-> c.lsn,
             blk |-> c.blk, pos |-> c.pos]
    BY DEF LogTypes, Calls
  <1>6. [c EXCEPT !.pc = "publish", !.left = left, !.pos = pos, !.lsn = l] = e
    OBVIOUS
  <1>7. y = [pc |-> "publish", id |-> c.id, total |-> c.total, left |-> c.left, lsn |-> c.lsn,
             blk |-> c.blk, pos |-> c.pos]
    BY <1>5
  <1> HIDE DEF y
  <1>8. z = [pc |-> "publish", id |-> c.id, total |-> c.total, left |-> left, lsn |-> c.lsn,
             blk |-> c.blk, pos |-> c.pos]
    BY <1>7
  <1> HIDE DEF z
  <1>9. w = [pc |-> "publish", id |-> c.id, total |-> c.total, left |-> left, lsn |-> c.lsn,
             blk |-> c.blk, pos |-> pos]
    BY <1>8
  <1> HIDE DEF w
  <1>10. e = [pc |-> "publish", id |-> c.id, total |-> c.total, left |-> left, lsn |-> l,
              blk |-> c.blk, pos |-> pos]
    BY <1>9
  <1> HIDE DEF e
  <1>11. call' = [call EXCEPT ![t] = e]
    BY <1>4, <1>6
  <1> QED BY <1>1, <1>2, <1>10, <1>11

\* A piece is put on the page (log.go:353).
LEMMA PutTypes ==
    ASSUME LogTypes, NEW t \in Threads, Put(t)
    PROVE  LogTypes'
  <1> USE DEF LogTypes
  <1> DEFINE c == call[t]
             p == NextPiece(c)
  <1>1. /\ c.pc = "put" /\ ~MustRoll(c)
        /\ page' = Written(page, p)
        /\ UNCHANGED <<phase, header, disk, cur, latest, saved, logged, acked, used>>
    BY DEF Put
  <1>2. /\ p \in GoodPiece /\ p.size \in 1 .. Room(page) /\ Room(page) \in 1 .. Cap
        /\ p.size <= c.left /\ (Single(c) => p.size = c.left)
    BY <1>1, PieceFits
  <1>3. c \in Calls(Len(disk)) /\ CallKnows(c) /\ Len(disk) \in Nat /\ cur \in 0 .. Len(disk)
    OBVIOUS
  <1>4. PICK e, l :
           /\ l = IF c.left = c.total THEN LSN([blk |-> cur, pos |-> Cap - Room(page)])
                  ELSE c.lsn
           /\ e = [pc |-> "publish", id |-> c.id, total |-> c.total, left |-> c.left - p.size,
                   lsn |-> l, blk |-> c.blk, pos |-> Cap - Room(page)]
           /\ call' = [call EXCEPT ![t] = e]
    <2> HIDE DEF c, p, LogTypes
    <2>1. LogTypes /\ Put(t) /\ c = call[t] /\ p = NextPiece(c)
      BY DEF LogTypes, c, p
    <2> QED BY <2>1, PutCall
  <1>5. l \in Nat
    <2> HIDE DEF p
    <2>1. c.lsn \in Nat
      BY <1>3 DEF Calls
    <2>2. LSN([blk |-> cur, pos |-> Cap - Room(page)]) \in Nat
      BY <1>2, <1>3, CapAssumption DEF LSN
    <2> QED BY <1>4, <2>1, <2>2
  <1>7. e \in Calls(Len(disk)) /\ CallKnows(e)'
    <2> HIDE DEF p
    <2>1. c.left - p.size \in Nat /\ c.left - p.size <= c.total
          /\ (Single(c) => c.left - p.size = 0)
      <3>1. /\ c.left \in Nat /\ c.total \in Nat /\ c.left <= c.total /\ p.size \in Nat
        BY <1>1, <1>2, <1>3 DEF Calls, CallKnows, AppendPCs
      <3> HIDE DEF LogTypes, c
      <3> QED BY <1>2, <3>1
    <2>2. Cap - Room(page) \in 0 .. Cap - 1
      BY <1>2, CapAssumption
    <2>3. /\ c.id \in 1 .. MaxRec /\ c.total \in Nat \ {0} /\ c.blk \in 0 .. Len(disk)
      BY <1>1, <1>3 DEF Calls, CallKnows, AppendPCs
    <2>4. e \in Calls(Len(disk))
      BY <1>4, <1>5, <2>1, <2>2, <2>3 DEF Calls, AppendPCs
    <2>5. e.pc = "publish" /\ e.id = c.id /\ e.total = c.total /\ e.left = c.left - p.size
      BY <1>4
    <2>6. CallKnows(e)'
      BY <1>1, <2>1, <2>3, <2>5 DEF CallKnows, Single, AppendPCs, FlushPCs
    <2> QED BY <2>4, <2>6
  <1>8. page' \in GoodBlock
    BY <1>1, <1>2, WrittenType
  <1> HIDE DEF p
  <1>9. call' \in [Threads -> Calls(Len(disk'))] /\ \A u \in Threads : CallKnows(call[u])'
    BY <1>1, <1>4, <1>7, CallMovesOnly
  <1> QED BY <1>1, <1>8, <1>9

\* The piece is published, and with the last one the record.
LEMMA PublishTypes ==
    ASSUME LogTypes, NEW t \in Threads, Publish(t)
    PROVE  LogTypes'
  <1> USE DEF LogTypes
  <1> DEFINE c == call[t]
  <1>1. /\ c.pc = "publish" /\ latest' = LSN([blk |-> cur, pos |-> c.pos])
        /\ UNCHANGED <<phase, header, disk, page, cur, saved, acked, used>>
    BY DEF Publish
  <1>2. c \in Calls(Len(disk)) /\ CallKnows(c) /\ Len(disk) \in Nat /\ cur \in 0 .. Len(disk)
    OBVIOUS
  <1>3. latest' \in Nat
    BY <1>1, <1>2, CapAssumption DEF LSN, Calls
  <1>4. CASE c.left > 0
    <2>1. Goto(t, "put") /\ UNCHANGED logged
      BY <1>4 DEF Publish
    <2>2. PICK e \in Calls(Len(disk)) :
              /\ call' = [call EXCEPT ![t] = e] /\ e.pc = "put"
              /\ e.id = c.id /\ e.total = c.total /\ e.left = c.left
      BY <2>1, GotoCall DEF AppendPCs
    <2>3. CallKnows(e)'
      BY <1>1, <1>2, <1>4, <2>2 DEF CallKnows, Single, AppendPCs, FlushPCs
    <2>4. call' \in [Threads -> Calls(Len(disk'))] /\ \A u \in Threads : CallKnows(call[u])'
      BY <1>1, <2>1, <2>2, <2>3, CallMovesOnly
    <2> QED BY <1>1, <1>3, <2>1, <2>4
  <1>5. CASE ~(c.left > 0)
    <2>1. /\ call' = [call EXCEPT ![t] = Idle]
          /\ logged' = Append(logged, [lsn |-> c.lsn, id |-> c.id])
      BY <1>5 DEF Publish
    <2>2. [lsn |-> c.lsn, id |-> c.id] \in ReadRecords
      BY <1>2 DEF Calls, ReadRecords
    <2>3. logged' \in Seq(ReadRecords) /\ Len(logged') = Len(logged) + 1
      BY <2>1, <2>2
    <2>4. Idle \in Calls(Len(disk)) /\ CallKnows(Idle)' /\ DOMAIN logged \subseteq DOMAIN logged'
      BY <1>2, <2>3, Fresh DEF CallKnows, Idle, AppendPCs, FlushPCs
    <2>5. Len(disk') \in Nat /\ Len(disk) <= Len(disk') /\ Idle \in Calls(Len(disk'))
      BY <1>1, <1>2, <2>4
    <2>6. call' \in [Threads -> Calls(Len(disk'))] /\ \A u \in Threads : CallKnows(call[u])'
      BY <2>1, <2>4, <2>5, CallMoves
    <2> QED BY <1>1, <1>3, <2>3, <2>6
  <1> QED BY <1>4, <1>5

\* A new block (log.go:334) in its three steps.
LEMMA RollTypes ==
    ASSUME LogTypes, NEW t \in Threads, RollWrite(t) \/ RollAppend(t) \/ RollSwitch(t)
    PROVE  LogTypes'
  <1> USE DEF LogTypes
  <1> DEFINE c == call[t]
  <1>1. PICK pc \in {"put", "roll", "switch"} : Goto(t, pc)
    BY DEF RollWrite, RollAppend, RollSwitch
  <1>2. PICK e \in Calls(Len(disk)) :
            /\ call' = [call EXCEPT ![t] = e] /\ e.pc = pc
            /\ e.id = c.id /\ e.total = c.total /\ e.left = c.left
    BY <1>1, GotoCall DEF AppendPCs
  <1>3. c.pc \in {"put", "roll", "switch"} /\ logged' = logged
        /\ UNCHANGED <<phase, header, latest, acked, used>>
    BY DEF RollWrite, RollAppend, RollSwitch
  <1>4. c \in Calls(Len(disk)) /\ CallKnows(c) /\ Len(disk) \in Nat /\ cur \in 0 .. Len(disk)
    OBVIOUS
  <1>5. CallKnows(e)'
    BY <1>2, <1>3, <1>4 DEF CallKnows, Single, AppendPCs, FlushPCs
  <1>6. /\ disk' \in Seq(GoodBlock) /\ Len(disk') \in {Len(disk), Len(disk) + 1}
        /\ page' \in GoodBlock /\ saved' \in Nat
        /\ cur' \in {cur, Len(disk)}
    <2>1. CASE RollWrite(t)
      <3>1. disk' = [disk EXCEPT ![cur] = page] /\ UNCHANGED <<page, cur, saved>>
        BY <2>1 DEF RollWrite, WritePage
      <3> QED BY <3>1, FileType
    <2>2. CASE RollAppend(t)
      <3>1. disk' = Append(disk, ZeroBlock) /\ page' = Reset(page) /\ saved' = latest /\ cur' = cur
        BY <2>2 DEF RollAppend
      <3> QED BY <3>1, FileType, Fresh
    <2>3. CASE RollSwitch(t)
      <3>1. /\ disk' = [disk EXCEPT ![Len(disk)] = page] /\ cur' = Len(disk)
            /\ UNCHANGED <<page, saved>>
        BY <2>3 DEF RollSwitch, WritePage, NewBlock
      <3> QED BY <3>1, FileType
    <2> QED BY <2>1, <2>2, <2>3
  <1>7. e \in Calls(Len(disk')) /\ Len(disk') \in Nat /\ Len(disk) <= Len(disk')
    BY <1>4, <1>6, CallsGrow
  <1>8. call' \in [Threads -> Calls(Len(disk'))] /\ \A u \in Threads : CallKnows(call[u])'
    BY <1>2, <1>3, <1>5, <1>7, CallMoves
  <1> QED BY <1>3, <1>4, <1>6, <1>7, <1>8

\* Flush (log.go:130) in its steps.
LEMMA FlushTypes ==
    ASSUME LogTypes, NEW t \in Threads,
           \/ \E i \in DOMAIN logged : FlushCall(t, i)
           \/ FlushCapture(t) \/ FlushWrite(t) \/ FlushSave(t)
    PROVE  LogTypes'
  <1> USE DEF LogTypes
  <1> DEFINE c == call[t]
  <1>1. c \in Calls(Len(disk)) /\ CallKnows(c) /\ Len(disk) \in Nat /\ cur \in 0 .. Len(disk)
        /\ DOMAIN logged = 1 .. Len(logged) /\ Len(logged) \in Nat
    OBVIOUS
  <1>2. CASE \E i \in DOMAIN logged : FlushCall(t, i)
    <2>1. PICK i \in DOMAIN logged : FlushCall(t, i)
      BY <1>2
    <2>2. UNCHANGED <<phase, header, disk, page, cur, latest, saved, logged, used>>
      BY <2>1 DEF FlushCall
    <2>3. CASE logged[i].lsn > saved
      <3> DEFINE e == [pc |-> "capture", id |-> i, total |-> 0, left |-> 0, lsn |-> 0,
                       blk |-> 0, pos |-> 0]
      <3>1. call' = [call EXCEPT ![t] = e] /\ acked' = acked
        BY <2>1, <2>3 DEF FlushCall, Idle
      <3>2. e \in Calls(Len(disk)) /\ CallKnows(e)'
        BY <1>1, <2>2, CapAssumption DEF Calls, CallKnows, AppendPCs, FlushPCs
      <3> HIDE DEF e
      <3>3. call' \in [Threads -> Calls(Len(disk'))] /\ \A u \in Threads : CallKnows(call[u])'
        BY <2>2, <3>1, <3>2, CallMovesOnly
      <3> QED BY <2>2, <3>1, <3>3
    <2>4. CASE ~(logged[i].lsn > saved)
      <3>1. Acknowledge(i) /\ call' = call
        BY <2>1, <2>4 DEF FlushCall
      <3>2. acked' \in 0 .. Len(logged)
        BY <1>1, <3>1 DEF Acknowledge
      <3>3. call' \in [Threads -> Calls(Len(disk'))] /\ \A u \in Threads : CallKnows(call[u])'
        BY <1>1, <2>2, <3>1, CallsKept
      <3> QED BY <2>2, <3>2, <3>3
    <2> QED BY <2>3, <2>4
  <1>3. CASE FlushCapture(t)
    <2>1. /\ c.pc = "capture" /\ call' = [call EXCEPT ![t].pc = "write", ![t].blk = cur]
          /\ UNCHANGED <<phase, header, disk, page, cur, latest, saved, logged, acked, used>>
      BY <1>3 DEF FlushCapture
    <2>0. PICK e : e = [c EXCEPT !.pc = "write", !.blk = cur]
      OBVIOUS
    <2>2. call' = [call EXCEPT ![t] = e]
      BY <2>0, <2>1
    <2>3. e \in Calls(Len(disk)) /\ e.pc = "write" /\ e.id = c.id
      BY <1>1, <2>0 DEF Calls, FlushPCs
    <2>4. CallKnows(e)'
      BY <1>1, <2>1, <2>3 DEF CallKnows, AppendPCs, FlushPCs
    <2>5. call' \in [Threads -> Calls(Len(disk'))] /\ \A u \in Threads : CallKnows(call[u])'
      BY <2>1, <2>2, <2>3, <2>4, CallMovesOnly
    <2> QED BY <2>1, <2>5
  <1>4. CASE FlushWrite(t)
    <2>1. /\ c.pc = "write" /\ disk' = [disk EXCEPT ![c.blk] = page] /\ Goto(t, "save")
          /\ UNCHANGED <<phase, header, page, cur, latest, saved, logged, acked, used>>
      BY <1>4 DEF FlushWrite, WritePage
    <2>2. disk' \in Seq(GoodBlock) /\ Len(disk') = Len(disk)
      BY <2>1, FileType
    <2>3. PICK e \in Calls(Len(disk)) :
              call' = [call EXCEPT ![t] = e] /\ e.pc = "save" /\ e.id = c.id
      BY <2>1, GotoCall DEF FlushPCs
    <2>4. CallKnows(e)'
      BY <1>1, <2>1, <2>3 DEF CallKnows, AppendPCs, FlushPCs
    <2>5. call' \in [Threads -> Calls(Len(disk'))] /\ \A u \in Threads : CallKnows(call[u])'
      <3>1. logged' = logged
        BY <2>1
      <3> QED BY <2>2, <2>3, <2>4, <3>1, CallMovesOnly
    <2> QED BY <2>1, <2>2, <2>5
  <1>5. CASE FlushSave(t)
    <2>1. /\ c.pc = "save" /\ saved' = latest /\ Acknowledge(c.id)
          /\ call' = [call EXCEPT ![t] = Idle]
          /\ UNCHANGED <<phase, header, disk, page, cur, latest, logged, used>>
      BY <1>5 DEF FlushSave
    <2>2. acked' \in 0 .. Len(logged)
      BY <1>1, <2>1 DEF Acknowledge, CallKnows, FlushPCs
    <2>3. Idle \in Calls(Len(disk)) /\ CallKnows(Idle)'
      BY <1>1, Fresh DEF CallKnows, Idle, AppendPCs, FlushPCs
    <2>4. call' \in [Threads -> Calls(Len(disk'))] /\ \A u \in Threads : CallKnows(call[u])'
      BY <2>1, <2>3, CallMovesOnly
    <2> QED BY <2>1, <2>2, <2>4
  <1> QED BY <1>2, <1>3, <1>4, <1>5

\* A checkpoint's LSN is written, or the system crashes.
LEMMA OtherTypes ==
    ASSUME LogTypes, (\E i \in DOMAIN logged : WriteCheckpoint(i)) \/ Crash
    PROVE  LogTypes'
  <1> USE DEF LogTypes
  <1>1. CASE \E i \in DOMAIN logged : WriteCheckpoint(i)
    <2>1. PICK i \in DOMAIN logged : WriteCheckpoint(i)
      BY <1>1
    <2>2. header' = logged[i].lsn /\ UNCHANGED <<phase, disk, memory, logged, acked, used>>
      BY <2>1 DEF WriteCheckpoint
    <2>3. logged[i] \in ReadRecords
      BY <2>1
    <2>4. header' \in Int
      BY <2>2, <2>3 DEF ReadRecords
    <2>5. UNCHANGED <<page, cur, latest, saved, call>>
      BY <2>2 DEF memory
    <2>6. call' \in [Threads -> Calls(Len(disk'))] /\ \A u \in Threads : CallKnows(call[u])'
      BY <2>2, <2>5, CallsKept
    <2> QED BY <2>2, <2>4, <2>5, <2>6
  <1>2. CASE Crash
    <2>1. /\ used.crashes < MaxCrash /\ used' = [used EXCEPT !.crashes = @ + 1]
          /\ phase' = "down" /\ page' = ZeroBlock /\ cur' = 0 /\ latest' = 0 /\ saved' = 0
          /\ call' = [t \in Threads |-> Idle]
          /\ logged' = Scan(disk, FirstLSN) /\ acked' = Len(logged')
          /\ UNCHANGED <<header, disk>>
      BY <1>2 DEF Crash
    <2>2. used' \in [recs : 0 .. MaxRec, crashes : 0 .. MaxCrash]
      <3>1. used \in [recs : 0 .. MaxRec, crashes : 0 .. MaxCrash]
        OBVIOUS
      <3> HIDE DEF LogTypes
      <3> QED BY <2>1, <3>1, LogBoundAssumption
    <2>3. logged' \in Seq(ReadRecords) /\ acked' \in 0 .. Len(logged')
      <3>1. logged' \in Seq(ReadRecords)
        BY <2>1, ScanFirst
      <3> QED BY <2>1, <3>1
    <2>4. page' \in GoodBlock /\ call' \in [Threads -> Calls(Len(disk'))]
      <3>1. Len(disk) \in Nat
        OBVIOUS
      <3> HIDE DEF LogTypes
      <3> QED BY <2>1, <3>1, Fresh
    <2>5. \A u \in Threads : CallKnows(call[u])'
      BY <2>1 DEF CallKnows, Idle, AppendPCs, FlushPCs
    <2> QED BY <2>1, <2>2, <2>3, <2>4, <2>5
  <1> QED BY <1>1, <1>2

\* Every step keeps the types.
LEMMA TypesNext ==
    ASSUME LogTypes, [Next]_vars
    PROVE  LogTypes'
  <1>1. CASE Start
    BY <1>1, StartTypes
  <1>2. ASSUME NEW t \in Threads, Step(t) PROVE LogTypes'
    BY <1>2, AppendCallTypes, PutTypes, PublishTypes, RollTypes, FlushTypes DEF Step
  <1>3. CASE (\E i \in DOMAIN logged : WriteCheckpoint(i)) \/ Crash
    BY <1>3, OtherTypes
  <1>4. CASE UNCHANGED vars
    BY <1>4 DEF vars, LogTypes, CallKnows
  <1> QED BY <1>1, <1>2, <1>3, <1>4 DEF Next, Rest

\* The types of the log manager, whatever is appended, flushed or lost, with every scan of a
\* restart coming to its end (log.go:119, 396, 410).
THEOREM LogInvariant == Spec => []LogTypes
  <1>1. Init => LogTypes
    <2> SUFFICES ASSUME Init PROVE LogTypes
      OBVIOUS
    <2>1. page \in GoodBlock /\ call \in [Threads -> Calls(0)] /\ disk = <<>> /\ logged = <<>>
      BY Fresh DEF Init
    <2>2. \A t \in Threads : CallKnows(call[t])
      BY Fresh DEF Init
    <2>3. header \in Int /\ used \in [recs : 0 .. MaxRec, crashes : 0 .. MaxCrash]
      BY LogBoundAssumption DEF Init, Absent
    <2> QED BY <2>1, <2>2, <2>3 DEF Init, LogTypes
  <1>2. LogTypes /\ [Next]_vars => LogTypes'
    BY TypesNext
  <1> QED BY <1>1, <1>2, PTL DEF Spec

\* Type correctness of the log manager.
THEOREM LogTypesKept == Spec => []TypeOK
  <1>1. LogTypes => TypeOK
    <2> SUFFICES ASSUME LogTypes PROVE TypeOK
      OBVIOUS
    <2>1. GoodBlock \subseteq Block
      BY DEF GoodBlock, Block, GoodPiece, PhysicalRecord
    <2>2. \A b \in DOMAIN disk : disk[b] \in Block
      BY <2>1 DEF LogTypes
    <2> QED BY <2>1, <2>2 DEF LogTypes, TypeOK, Calls
  <1> QED BY <1>1, LogInvariant, PTL

-----------------------------------------------------------------------------
(* What the file says, while no Flush overlaps an Append and no crash      *)
(* leaves a record in parts.  Records are found by where they start and    *)
(* where they end; the ends of all of them are a function e, with the      *)
(* start of the file at 0.                                                 *)

Spots == [blk : Nat \ {0}, pos : 0 .. Cap]
Starts == [blk : Nat \ {0}, pos : 0 .. Cap - 1]
Before(a, b) == a.blk < b.blk \/ (a.blk = b.blk /\ a.pos < b.pos)

\* An iterator that has come to a goes on at s.
Joined(d, a, s) ==
    \/ s = a /\ a.blk \in 1 .. Len(d) /\ a.pos < d[a.blk].boundary
    \/ /\ a.blk \in 1 .. Len(d) - 1 /\ d[a.blk].boundary <= a.pos
       /\ s = [blk |-> a.blk + 1, pos |-> 0]

\* The first fragment of a record is at s, and the blocks up to k are full of the next ones.
InFrags(s, k) == Cap - s.pos + (k - s.blk) * Cap
Frags(d, s, k, id, total) ==
    /\ k \in s.blk .. Len(d) /\ total > Cap
    /\ d[s.blk].boundary = Cap
    /\ d[s.blk].cells[s.pos] = Piece("first", id, Cap - s.pos, total)
    /\ \A b \in s.blk + 1 .. k :
          d[b].boundary = Cap /\ d[b].cells[0] = Piece("cont", id, Cap, total)

\* Record id is at s and ends at b, in one piece or in fragments.
Normal(d, s, b, id) ==
    /\ d[s.blk].cells[s.pos].kind = "normal" /\ d[s.blk].cells[s.pos].id = id
    /\ b.blk = s.blk /\ b.pos = s.pos + d[s.blk].cells[s.pos].size /\ s.pos < b.pos
Chained(d, s, b, id) ==
    \E total \in Nat :
       /\ Frags(d, s, b.blk - 1, id, total)
       /\ b.pos > 0 /\ d[b.blk].cells[0] = Piece("last", id, b.pos, total)
       /\ total = InFrags(s, b.blk - 1) + b.pos
Within(d, b) == b.blk \in 1 .. Len(d) /\ b.pos <= d[b.blk].boundary
Whole(d, s, b, id) == Within(d, b) /\ (Normal(d, s, b, id) \/ Chained(d, s, b, id))

\* Behind a comes record r, which ends at b.
RecordIs(d, a, s, b, id) == Joined(d, a, s) /\ Whole(d, s, b, id)
RecordAt(d, a, r, b) == \E s \in Starts : r.lsn = LSN(s) /\ RecordIs(d, a, s, b, r.id)

\* The file d has the records of lg, record i up to e[i].
Laid(d, lg, e) ==
    /\ e \in [0 .. Len(lg) -> Spots] /\ e[0] = [blk |-> 1, pos |-> 0]
    /\ \A i \in 1 .. Len(lg) : RecordAt(d, e[i - 1], lg[i], e[i])
    /\ \A i, j \in 0 .. Len(lg) : i < j => Before(e[i], e[j])

AtEnd(d, a) == a.blk = Len(d) /\ a.pos = d[Len(d)].boundary

\* d may have become f: blocks are appended, the last one is filled up.
Grown(d, f) ==
    /\ d \in Seq(GoodBlock) /\ f \in Seq(GoodBlock) /\ Len(d) <= Len(f)
    /\ \A b \in 1 .. Len(d) :
          /\ d[b].boundary <= f[b].boundary
          /\ b < Len(d) => d[b].boundary = f[b].boundary
          /\ \A p \in 0 .. Cap - 1 :
                p < d[b].boundary => f[b].cells[p] = d[b].cells[p]

\* What there is to know of a record that is on the blocks d.
LEMMA RecordFacts ==
    ASSUME NEW d \in Seq(GoodBlock), NEW a \in Spots, NEW s \in Starts, NEW b \in Spots,
           NEW id, RecordIs(d, a, s, b, id)
    PROVE  /\ s.blk \in 1 .. Len(d) /\ b.blk \in 1 .. Len(d) /\ a.blk \in 1 .. Len(d)
           /\ a.blk <= s.blk /\ s.blk <= b.blk
           /\ s.blk = b.blk => s.pos < b.pos /\ Normal(d, s, b, id)
           /\ s.blk = a.blk => s = a
           /\ Before(a, b)
           /\ s.pos < d[s.blk].boundary /\ d[s.blk].cells[s.pos].id = id
           /\ d[s.blk].cells[s.pos].kind = "normal" => Normal(d, s, b, id)
           /\ s.blk # b.blk => d[s.blk].cells[s.pos].kind = "first"
  <1> USE DEF RecordIs, Whole, Spots, Starts
  <1>1. /\ a.blk \in Nat \ {0} /\ a.pos \in 0 .. Cap /\ s.blk \in Nat \ {0}
        /\ s.pos \in 0 .. Cap - 1 /\ b.blk \in Nat \ {0} /\ b.pos \in 0 .. Cap
        /\ Len(d) \in Nat /\ Cap \in Nat \ {0}
    BY CapAssumption
  <1>2. \/ s = a /\ a.blk \in 1 .. Len(d) /\ s.blk = a.blk /\ s.pos = a.pos
        \/ a.blk \in 1 .. Len(d) - 1 /\ s.blk = a.blk + 1 /\ s.pos = 0
    BY DEF Joined
  <1>3. s.blk \in 1 .. Len(d) /\ a.blk <= s.blk /\ (s.blk = a.blk => s = a)
    BY <1>1, <1>2
  <1>4. b.blk \in 1 .. Len(d) /\ b.pos <= d[b.blk].boundary
    BY DEF Within
  <1>5. CASE Normal(d, s, b, id)
    <2>1. /\ s.blk = b.blk /\ s.pos < b.pos /\ d[s.blk].cells[s.pos].id = id
          /\ d[s.blk].cells[s.pos].kind = "normal"
      BY <1>5 DEF Normal
    <2>2. s.pos < d[s.blk].boundary
      <3>1. d[b.blk] \in GoodBlock
        BY <1>4
      <3>2. d[b.blk].boundary \in Int
        BY <3>1, <1>1 DEF GoodBlock
      <3> QED BY <1>1, <1>4, <2>1, <3>2
    <2>3. Before(a, b)
      BY <1>1, <1>2, <2>1 DEF Before
    <2> QED BY <1>2, <1>3, <1>4, <1>5, <2>1, <2>2, <2>3
  <1>6. CASE Chained(d, s, b, id)
    <2>1. PICK total \in Nat : Frags(d, s, b.blk - 1, id, total)
      BY <1>6 DEF Chained
    <2>2. /\ s.blk <= b.blk - 1 /\ d[s.blk].boundary = Cap
          /\ d[s.blk].cells[s.pos] = Piece("first", id, Cap - s.pos, total)
      BY <2>1 DEF Frags
    <2>3. d[s.blk].cells[s.pos].id = id /\ d[s.blk].cells[s.pos].kind = "first"
      BY <2>2 DEF Piece
    <2>4. s.blk < b.blk /\ Before(a, b)
      BY <1>1, <1>3, <2>2 DEF Before
    <2> QED BY <1>1, <1>2, <1>3, <1>4, <2>2, <2>3, <2>4
  <1> QED BY <1>5, <1>6

\* Nothing is lost when the file grows (log.go:320, 354).
LEMMA GrownKeeps ==
    ASSUME NEW d, NEW f, Grown(d, f)
    PROVE  /\ \A a \in Spots, s \in Starts : Joined(d, a, s) => Joined(f, a, s)
           /\ \A s \in Starts, k \in Nat : \A id, total :
                Frags(d, s, k, id, total) => Frags(f, s, k, id, total)
           /\ \A b \in Spots : Within(d, b) => Within(f, b)
  <1>1. d \in Seq(GoodBlock) /\ f \in Seq(GoodBlock) /\ Len(d) \in Nat /\ Len(f) \in Nat
        /\ Len(d) <= Len(f) /\ Cap \in Nat \ {0}
    BY CapAssumption DEF Grown
  <1>2. \A b \in 1 .. Len(d) :
          /\ b \in 1 .. Len(f) /\ d[b].boundary <= f[b].boundary
          /\ b < Len(d) => d[b].boundary = f[b].boundary
          /\ d[b].boundary \in -1 .. Cap /\ f[b].boundary \in -1 .. Cap
    <2>1. \A b \in 1 .. Len(d) : d[b] \in GoodBlock
      BY <1>1
    <2>2. \A b \in 1 .. Len(f) : f[b] \in GoodBlock
      BY <1>1
    <2> QED BY <1>1, <2>1, <2>2 DEF Grown, GoodBlock
  <1>3. ASSUME NEW a \in Spots, NEW s \in Starts, Joined(d, a, s)
        PROVE  Joined(f, a, s)
    <2>1. a.blk \in Nat \ {0} /\ a.pos \in 0 .. Cap
      BY DEF Spots
    <2>2. CASE s = a /\ a.blk \in 1 .. Len(d) /\ a.pos < d[a.blk].boundary
      BY <1>1, <1>2, <2>1, <2>2 DEF Joined
    <2>3. CASE /\ a.blk \in 1 .. Len(d) - 1 /\ d[a.blk].boundary <= a.pos
               /\ s = [blk |-> a.blk + 1, pos |-> 0]
      <3>1. a.blk \in 1 .. Len(d) /\ a.blk < Len(d) /\ a.blk \in 1 .. Len(f) - 1
        BY <1>1, <2>1, <2>3
      <3>2. f[a.blk].boundary <= a.pos
        BY <1>2, <2>3, <3>1
      <3> QED BY <2>3, <3>1, <3>2 DEF Joined
    <2> QED BY <1>3, <2>2, <2>3 DEF Joined
  <1>4. \A b \in 1 .. Len(d) : \A p \in 0 .. Cap - 1 :
           d[b].boundary = Cap => f[b].boundary = Cap /\ f[b].cells[p] = d[b].cells[p]
    BY <1>1, <1>2 DEF Grown
  <1>5. ASSUME NEW s \in Starts, NEW k \in Nat, NEW id, NEW total, Frags(d, s, k, id, total)
        PROVE  Frags(f, s, k, id, total)
    <2>1. s.blk \in Nat \ {0} /\ s.pos \in 0 .. Cap - 1
      BY DEF Starts
    <2>2. /\ k \in s.blk .. Len(d) /\ total > Cap /\ d[s.blk].boundary = Cap
          /\ d[s.blk].cells[s.pos] = Piece("first", id, Cap - s.pos, total)
          /\ \A b \in s.blk + 1 .. k :
                d[b].boundary = Cap /\ d[b].cells[0] = Piece("cont", id, Cap, total)
      BY <1>5 DEF Frags
    <2>3. s.blk \in 1 .. Len(d) /\ k \in s.blk .. Len(f) /\ 0 \in 0 .. Cap - 1
          /\ \A b \in s.blk + 1 .. k : b \in 1 .. Len(d)
      BY <1>1, <2>1, <2>2
    <2>4. \A b \in s.blk + 1 .. k :
                f[b].boundary = Cap /\ f[b].cells[0] = Piece("cont", id, Cap, total)
      BY <1>4, <2>2, <2>3
    <2>5. f[s.blk].boundary = Cap /\ f[s.blk].cells[s.pos] = d[s.blk].cells[s.pos]
      BY <1>4, <2>1, <2>2, <2>3
    <2> QED BY <2>2, <2>3, <2>4, <2>5 DEF Frags
  <1>6. ASSUME NEW b \in Spots, Within(d, b) PROVE Within(f, b)
    <2>1. b.pos \in 0 .. Cap /\ b.blk \in 1 .. Len(d) /\ b.pos <= d[b.blk].boundary
      BY <1>6 DEF Spots, Within
    <2> QED BY <1>1, <1>2, <2>1 DEF Within
  <1> QED BY <1>3, <1>5, <1>6

\* So the records stay where they were.
LEMMA GrownRecord ==
    ASSUME NEW d, NEW f, Grown(d, f), NEW a \in Spots, NEW s \in Starts, NEW b \in Spots,
           NEW id, RecordIs(d, a, s, b, id)
    PROVE  RecordIs(f, a, s, b, id)
  <1>1. d \in Seq(GoodBlock) /\ f \in Seq(GoodBlock) /\ Len(d) \in Nat
    BY DEF Grown
  <1>2. /\ s.blk \in 1 .. Len(d) /\ b.blk \in 1 .. Len(d)
        /\ s.blk = b.blk => s.pos < b.pos /\ Normal(d, s, b, id)
        /\ s.pos < d[s.blk].boundary
    BY <1>1, RecordFacts
  <1>3. Joined(f, a, s) /\ Within(f, b)
    BY GrownKeeps DEF RecordIs, Whole
  <1>4. s.pos \in 0 .. Cap - 1 /\ b.pos \in 0 .. Cap /\ s.blk \in Nat \ {0} /\ b.blk \in Nat \ {0}
        /\ Cap \in Nat \ {0}
    BY CapAssumption DEF Starts, Spots
  <1>5. CASE Normal(d, s, b, id)
    <2>1. f[s.blk].cells[s.pos] = d[s.blk].cells[s.pos]
      BY <1>2, <1>4 DEF Grown
    <2>2. Normal(f, s, b, id)
      BY <1>5, <2>1 DEF Normal
    <2> QED BY <1>3, <2>2 DEF RecordIs, Whole
  <1>6. CASE Chained(d, s, b, id)
    <2>1. PICK total \in Nat :
             /\ Frags(d, s, b.blk - 1, id, total)
             /\ b.pos > 0 /\ d[b.blk].cells[0] = Piece("last", id, b.pos, total)
             /\ total = InFrags(s, b.blk - 1) + b.pos
      BY <1>6 DEF Chained
    <2>2. Frags(f, s, b.blk - 1, id, total)
      <3>1. b.blk - 1 \in Nat
        BY <1>4
      <3> QED BY <2>1, <3>1, GrownKeeps
    <2>3. f[b.blk].cells[0] = d[b.blk].cells[0]
      <3>1. b.pos <= d[b.blk].boundary /\ d[b.blk].boundary \in Int
        <4>1. d[b.blk] \in GoodBlock
          BY <1>1, <1>2
        <4> QED BY <4>1, CapAssumption DEF RecordIs, Whole, Within, GoodBlock
      <3>2. 0 < d[b.blk].boundary /\ 0 \in 0 .. Cap - 1
        BY <1>4, <2>1, <3>1
      <3> QED BY <1>2, <3>2 DEF Grown
    <2>4. Chained(f, s, b, id)
      BY <2>1, <2>2, <2>3 DEF Chained
    <2> QED BY <1>3, <2>4 DEF RecordIs, Whole
  <1> QED BY <1>5, <1>6 DEF RecordIs, Whole

\* A record that ends within the file as it was is on it (log.go:130).
LEMMA GrownHad ==
    ASSUME NEW d, NEW f, Grown(d, f), Len(d) = Len(f), NEW a \in Spots, NEW s \in Starts,
           NEW b \in Spots, NEW id, RecordIs(f, a, s, b, id), Within(d, b)
    PROVE  RecordIs(d, a, s, b, id)
  <1>1. d \in Seq(GoodBlock) /\ f \in Seq(GoodBlock) /\ Len(d) \in Nat /\ Cap \in Nat \ {0}
    BY CapAssumption DEF Grown
  <1>2. /\ s.blk \in 1 .. Len(d) /\ b.blk \in 1 .. Len(d) /\ a.blk \in 1 .. Len(d)
        /\ a.blk <= s.blk /\ s.blk <= b.blk
        /\ s.blk = b.blk => s.pos < b.pos /\ Normal(f, s, b, id)
        /\ s.pos < f[s.blk].boundary
    BY <1>1, RecordFacts
  <1>3. /\ a.blk \in Nat \ {0} /\ a.pos \in 0 .. Cap /\ s.blk \in Nat \ {0}
        /\ s.pos \in 0 .. Cap - 1 /\ b.blk \in Nat \ {0} /\ b.pos \in 0 .. Cap
    BY DEF Spots, Starts
  <1>4. \A i \in 1 .. Len(d) :
          /\ i < Len(d) => d[i].boundary = f[i].boundary
          /\ d[i].boundary \in -1 .. Cap /\ f[i].boundary \in -1 .. Cap
    <2>1. \A i \in 1 .. Len(d) : d[i] \in GoodBlock /\ f[i] \in GoodBlock
      BY <1>1
    <2> QED BY <2>1 DEF Grown, GoodBlock
  <1>5. b.pos <= d[b.blk].boundary
    BY DEF Within
  <1>6. s.pos < d[s.blk].boundary
    <2>1. CASE s.blk = b.blk
      BY <1>2, <1>3, <1>4, <1>5, <2>1
    <2>2. CASE s.blk # b.blk
      <3>1. s.blk < Len(d)
        BY <1>1, <1>2, <1>3, <2>2
      <3>2. d[s.blk].boundary = f[s.blk].boundary
        BY <1>2, <1>4, <3>1
      <3> QED BY <1>2, <3>2
    <2> QED BY <2>1, <2>2
  <1>7. Joined(d, a, s)
    <2>1. CASE s = a /\ a.pos < f[a.blk].boundary
      BY <1>2, <1>6, <2>1 DEF Joined
    <2>2. CASE /\ a.blk \in 1 .. Len(f) - 1 /\ f[a.blk].boundary <= a.pos
               /\ s = [blk |-> a.blk + 1, pos |-> 0]
      <3>1. a.blk < Len(d) /\ a.blk \in 1 .. Len(d) - 1
        BY <1>1, <1>3, <2>2
      <3>2. d[a.blk].boundary <= a.pos
        BY <1>2, <1>4, <2>2, <3>1
      <3> QED BY <2>2, <3>1, <3>2 DEF Joined
    <2> QED BY <2>1, <2>2 DEF RecordIs, Joined
  <1>8. CASE Normal(f, s, b, id)
    <2>1. f[s.blk].cells[s.pos] = d[s.blk].cells[s.pos]
      BY <1>2, <1>3, <1>6 DEF Grown
    <2>2. Normal(d, s, b, id)
      BY <1>8, <2>1 DEF Normal
    <2> QED BY <1>7, <2>2 DEF RecordIs, Whole
  <1>9. CASE Chained(f, s, b, id)
    <2>1. PICK total \in Nat :
             /\ Frags(f, s, b.blk - 1, id, total)
             /\ b.pos > 0 /\ f[b.blk].cells[0] = Piece("last", id, b.pos, total)
             /\ total = InFrags(s, b.blk - 1) + b.pos
      BY <1>9 DEF Chained
    <2>2. Frags(d, s, b.blk - 1, id, total)
      <3>1. /\ b.blk - 1 \in s.blk .. Len(f) /\ total > Cap
            /\ f[s.blk].boundary = Cap
            /\ f[s.blk].cells[s.pos] = Piece("first", id, Cap - s.pos, total)
            /\ \A i \in s.blk + 1 .. b.blk - 1 :
                  f[i].boundary = Cap /\ f[i].cells[0] = Piece("cont", id, Cap, total)
        BY <2>1 DEF Frags
      <3>2. \A i \in 1 .. Len(d) : \A p \in 0 .. Cap - 1 :
               i < Len(d) /\ f[i].boundary = Cap
                  => d[i].boundary = Cap /\ f[i].cells[p] = d[i].cells[p]
        BY <1>1, <1>4 DEF Grown
      <3>3. s.blk < Len(d) /\ 0 \in 0 .. Cap - 1 /\ b.blk - 1 \in s.blk .. Len(d)
            /\ \A i \in s.blk + 1 .. b.blk - 1 : i \in 1 .. Len(d) /\ i < Len(d)
        <4>1. PICK x \in Nat, y \in Nat, k \in Nat : x = s.blk /\ y = b.blk /\ k = Len(d)
          BY <1>1, <1>3
        <4>2. 0 < x /\ x <= y - 1 /\ y <= k
          BY <1>2, <1>3, <3>1, <4>1
        <4>3. x < k /\ y - 1 \in x .. k /\ \A i \in x + 1 .. y - 1 : i \in 1 .. k /\ i < k
          BY <4>2
        <4> QED BY <1>1, <4>1, <4>3
      <3>4. \A i \in s.blk + 1 .. b.blk - 1 :
                  d[i].boundary = Cap /\ d[i].cells[0] = Piece("cont", id, Cap, total)
        BY <3>1, <3>2, <3>3
      <3>5. d[s.blk].boundary = Cap /\ d[s.blk].cells[s.pos] = f[s.blk].cells[s.pos]
        BY <1>2, <1>3, <3>1, <3>2, <3>3
      <3> QED BY <3>1, <3>3, <3>4, <3>5 DEF Frags
    <2>3. f[b.blk].cells[0] = d[b.blk].cells[0]
      <3>2. 0 < d[b.blk].boundary /\ 0 \in 0 .. Cap - 1
        BY <1>1, <1>2, <1>3, <1>4, <1>5, <2>1
      <3> QED BY <1>2, <3>2 DEF Grown
    <2>4. Chained(d, s, b, id)
      BY <2>1, <2>2, <2>3 DEF Chained
    <2> QED BY <1>7, <2>4 DEF RecordIs, Whole
  <1> QED BY <1>8, <1>9 DEF RecordIs, Whole

\* The cells of a record in fragments, block by block.
LEMMA InFragsGrow ==
    ASSUME NEW s \in Starts, NEW k \in Nat, k >= s.blk
    PROVE  /\ InFrags(s, k) \in Nat \ {0} /\ InFrags(s, k + 1) = InFrags(s, k) + Cap
           /\ InFrags(s, s.blk) = Cap - s.pos
  <1>1. Cap \in Nat \ {0} /\ s.pos \in 0 .. Cap - 1 /\ s.blk \in Nat
    BY CapAssumption DEF Starts
  <1>2. PICK j : j = k - s.blk
    OBVIOUS
  <1>3. j \in Nat /\ k + 1 - s.blk = j + 1 /\ s.blk - s.blk = 0
    BY <1>1, <1>2
  <1>4. j * Cap \in Nat /\ (j + 1) * Cap = j * Cap + Cap /\ 0 * Cap = 0
    BY <1>1, <1>3
  <1>5. /\ InFrags(s, k) = Cap - s.pos + j * Cap
        /\ InFrags(s, k + 1) = Cap - s.pos + (j + 1) * Cap
        /\ InFrags(s, s.blk) = Cap - s.pos + 0 * Cap
    <2>1. (k + 1) - s.blk = j + 1 /\ k - s.blk = j /\ s.blk - s.blk = 0
      BY <1>1, <1>2
    <2> QED BY <2>1 DEF InFrags
  <1>6. PICK m, n : m = j * Cap /\ n = (j + 1) * Cap
    OBVIOUS
  <1>7. m \in Nat /\ n = m + Cap
    BY <1>4, <1>6
  <1>8. /\ InFrags(s, k) = Cap - s.pos + m /\ InFrags(s, k + 1) = Cap - s.pos + n
        /\ InFrags(s, s.blk) = Cap - s.pos
    BY <1>1, <1>4, <1>5, <1>6
  <1> QED BY <1>1, <1>7, <1>8

\* reconstructFragmentChain (log.go:449) puts a record in fragments together.
LEMMA ChainOfRecord ==
    ASSUME NEW d \in Seq(GoodBlock), NEW s \in Starts, NEW b \in Spots, NEW id, NEW total \in Nat,
           Within(d, b), Frags(d, s, b.blk - 1, id, total), b.pos > 0,
           d[b.blk].cells[0] = Piece("last", id, b.pos, total),
           total = InFrags(s, b.blk - 1) + b.pos
    PROVE  /\ [blk |-> s.blk, pos |-> Cap] \in Places(d)
           /\ Chain(d)[<<[blk |-> s.blk, pos |-> Cap], total - (Cap - s.pos)>>]
                 = [ok |-> TRUE, id |-> id, at |-> b]
  <1>1. /\ Cap \in Nat \ {0} /\ s.pos \in 0 .. Cap - 1 /\ s.blk \in Nat \ {0} /\ Len(d) \in Nat
        /\ b.blk \in 1 .. Len(d) /\ b.pos \in 1 .. Cap /\ b = [blk |-> b.blk, pos |-> b.pos]
    BY CapAssumption DEF Starts, Spots, Within
  <1>2. /\ b.blk - 1 \in s.blk .. Len(d) /\ d[s.blk].boundary = Cap
        /\ \A i \in s.blk + 1 .. b.blk - 1 :
              d[i].boundary = Cap /\ d[i].cells[0] = Piece("cont", id, Cap, total)
    BY DEF Frags
  <1> DEFINE K == s.blk .. b.blk - 1
             mu == [k \in K |-> b.blk - 1 - k]
             At(k) == [blk |-> k, pos |-> Cap]
             Left(k) == total - InFrags(s, k)
             Q == {k \in K : /\ Left(k) > 0
                             /\ Chain(d)[<<At(k), Left(k)>>] = [ok |-> TRUE, id |-> id, at |-> b]}
  <1>3. mu \in [K -> Nat]
    BY <1>1, <1>2
  <1>4. ASSUME NEW k \in K
        PROVE  /\ k \in Nat /\ k + 1 \in 1 .. Len(d) /\ d[k].boundary = Cap /\ At(k) \in Places(d)
               /\ k < Len(d) /\ Left(k) \in Int /\ InFrags(s, k + 1) = InFrags(s, k) + Cap
               /\ InFrags(s, k) \in Nat
               /\ EnsureCurrent(d, At(k)) = [blk |-> k + 1, pos |-> 0]
               /\ PieceAt(d, [blk |-> k + 1, pos |-> 0]) = d[k + 1].cells[0]
    <2>1. k \in Nat /\ k >= s.blk /\ k \in 1 .. Len(d) /\ k + 1 \in 1 .. Len(d) /\ k < Len(d)
          /\ d[k].boundary = Cap /\ (k = s.blk \/ k \in s.blk + 1 .. b.blk - 1)
      <3>1. k \in s.blk .. b.blk - 1 /\ s.blk \in Nat /\ s.blk > 0 /\ b.blk \in Nat /\ b.blk <= Len(d)
        BY <1>1
      <3>2. k \in Nat /\ k >= s.blk /\ k > 0 /\ k < b.blk /\ k < Len(d)
        BY <1>1, <3>1
      <3>3. k \in 1 .. Len(d) /\ k + 1 \in 1 .. Len(d)
        BY <1>1, <3>2
      <3>4. k = s.blk \/ k \in s.blk + 1 .. b.blk - 1
        BY <3>1, <3>2
      <3>5. d[k].boundary = Cap
        BY <1>2, <3>4
      <3> QED BY <3>2, <3>3, <3>4, <3>5
    <2>2. InFrags(s, k) \in Nat /\ InFrags(s, k + 1) = InFrags(s, k) + Cap
      BY <2>1, InFragsGrow
    <2>3. At(k) \in Places(d) /\ At(k).blk = k /\ At(k).pos = Cap
      BY <1>1, <2>1 DEF Places
    <2>4. EnsureCurrent(d, At(k)) = [blk |-> k + 1, pos |-> 0]
      BY <1>1, <2>1, <2>3 DEF EnsureCurrent
    <2>5. PieceAt(d, [blk |-> k + 1, pos |-> 0]) = d[k + 1].cells[0]
      BY <1>1 DEF PieceAt
    <2> QED BY <2>1, <2>2, <2>3, <2>4, <2>5
  <1>5. ASSUME NEW k \in K, \A y \in K : mu[y] < mu[k] => y \in Q PROVE k \in Q
    <2>1. PICK l : l = Left(k)
      OBVIOUS
    <2>2. l \in Int /\ <<At(k), l>> \in Places(d) \X Int
      BY <1>4, <2>1
    <2>3. d # <<>>
      BY <1>1
    <2>4. PICK p : p = d[k + 1].cells[0]
      OBVIOUS
    <2>5. Chain(d)[<<At(k), l>>] =
             ChainBody(d, <<At(k), l>>, Chain(d)[ChainNext(d, <<At(k), l>>)])
      <3>1. IsChain(d, Chain(d))
        BY <2>3, ChainEnds
      <3> HIDE DEF At
      <3> QED BY <2>2, <3>1 DEF IsChain
    <2>6. /\ ChainNext(d, <<At(k), l>>) = <<[blk |-> k + 1, pos |-> p.size], l - p.size>>
          /\ \A y : ChainBody(d, <<At(k), l>>, y) =
                IF l <= 0 THEN Broken(At(k))
                ELSE IF p.kind \notin {"first", "cont", "last"}
                     THEN Broken([blk |-> k + 1, pos |-> 0])
                ELSE IF p.kind = "first" THEN Broken(Behind([blk |-> k + 1, pos |-> 0], p))
                ELSE IF p.kind = "last" /\ l = p.size
                THEN [ok |-> TRUE, id |-> p.id, at |-> [blk |-> k + 1, pos |-> p.size]]
                ELSE y
      <3>1. EnsureCurrent(d, At(k)) = [blk |-> k + 1, pos |-> 0]
            /\ PieceAt(d, [blk |-> k + 1, pos |-> 0]) = p
        BY <1>4, <2>4
      <3>2. p.size \in Int
        <4>1. d[k + 1] \in GoodBlock /\ 0 \in 0 .. Cap - 1
          BY <1>1, <1>4
        <4>2. p \in GoodPiece
          BY <2>4, <4>1 DEF GoodBlock
        <4> QED BY <4>2 DEF GoodPiece
      <3>3. Behind([blk |-> k + 1, pos |-> 0], p) = [blk |-> k + 1, pos |-> p.size]
        BY <3>2 DEF Behind
      <3> HIDE DEF At
      <3> QED BY <3>1, <3>3 DEF ChainNext, ChainBody
    <2>7. CASE k = b.blk - 1
      <3>1. p = Piece("last", id, b.pos, total) /\ l = b.pos /\ k + 1 = b.blk
        <4>1. InFrags(s, b.blk - 1) \in Nat /\ k + 1 = b.blk
          <5>1. InFrags(s, k) \in Nat
            BY <1>4
          <5> QED BY <1>1, <2>7, <5>1
        <4>2. l = total - InFrags(s, b.blk - 1)
          BY <2>1, <2>7
        <4> QED BY <1>1, <2>4, <4>1, <4>2
      <3>2. p.kind = "last" /\ p.id = id /\ p.size = b.pos
        BY <3>1 DEF Piece
      <3>3. Chain(d)[<<At(k), l>>] = [ok |-> TRUE, id |-> id, at |-> b]
        <4>1. [blk |-> k + 1, pos |-> p.size] = b /\ l > 0
          BY <1>1, <3>1, <3>2
        <4> HIDE DEF At, Left
        <4>2. \A y : ChainBody(d, <<At(k), l>>, y) = [ok |-> TRUE, id |-> id, at |-> b]
          <5>1. ~(l <= 0) /\ l = p.size
            BY <2>2, <3>1, <3>2, <4>1
          <5> QED BY <2>6, <3>2, <4>1, <5>1
        <4> QED BY <2>5, <4>2
      <3> QED BY <1>1, <2>1, <3>1, <3>3
    <2>8. CASE k # b.blk - 1
      <3>1. k + 1 \in K /\ k + 1 \in s.blk + 1 .. b.blk - 1 /\ mu[k + 1] < mu[k]
        <4>1. PICK x \in Nat, y \in Nat : x = s.blk /\ y = b.blk
          BY <1>1
        <4>2. k \in x .. y - 1 /\ k # y - 1
          BY <2>8, <4>1
        <4>3. k + 1 \in x .. y - 1 /\ k + 1 \in x + 1 .. y - 1 /\ y - 1 - (k + 1) < y - 1 - k
          BY <4>2
        <4> QED BY <4>1, <4>2, <4>3
      <3>2. p = Piece("cont", id, Cap, total)
        BY <1>2, <2>4, <3>1
      <3>3. p.kind = "cont" /\ p.size = Cap
        BY <3>2 DEF Piece
      <3>4. k + 1 \in Q
        BY <1>5, <3>1
      <3>5. Left(k + 1) = l - Cap /\ Left(k + 1) > 0 /\ l > 0
        <4>1. Left(k + 1) > 0 /\ Left(k + 1) = total - InFrags(s, k + 1)
          BY <3>4
        <4>2. InFrags(s, k + 1) = InFrags(s, k) + Cap /\ InFrags(s, k) \in Nat
              /\ l = total - InFrags(s, k)
          BY <1>4, <2>1
        <4> HIDE DEF Left
        <4> QED BY <1>1, <4>1, <4>2
      <3>6. Chain(d)[<<At(k), l>>] = Chain(d)[<<At(k + 1), Left(k + 1)>>]
        <4>1. ChainNext(d, <<At(k), l>>) = <<At(k + 1), Left(k + 1)>>
          BY <2>6, <3>3, <3>5
        <4>2. \A y : ChainBody(d, <<At(k), l>>, y) = y
          <5> HIDE DEF At, Left
          <5>1. ~(l <= 0)
            BY <2>2, <3>5
          <5> QED BY <2>6, <3>3, <5>1
        <4> HIDE DEF At, Left
        <4> QED BY <2>5, <4>1, <4>2
      <3> QED BY <2>1, <3>4, <3>5, <3>6
    <2> QED BY <2>7, <2>8
  <1>6. K \subseteq Q
    <2> HIDE DEF K, mu, Q
    <2> QED BY <1>3, <1>5, MeasureInduction
  <1>7. s.blk \in K
    BY <1>1, <1>2
  <1>8. InFrags(s, s.blk) = Cap - s.pos
    BY <1>1, InFragsGrow
  <1> QED BY <1>4, <1>6, <1>7, <1>8

\* Next (log.go:410) returns a record that is on the file, and comes to its end.
LEMMA NextOfRecord ==
    ASSUME NEW d \in Seq(GoodBlock), NEW a \in Spots, NEW s \in Starts, NEW b \in Spots,
           NEW id, RecordIs(d, a, s, b, id)
    PROVE  /\ a \in Places(d) /\ b \in Places(d) /\ HasNext(d, a)
           /\ NextRecord(d)[a] = [id |-> id, lsn |-> LSN(s), at |-> b]
  <1>1. /\ Cap \in Nat \ {0} /\ s.pos \in 0 .. Cap - 1 /\ s.blk \in Nat \ {0} /\ Len(d) \in Nat
        /\ b.pos \in 0 .. Cap /\ b = [blk |-> b.blk, pos |-> b.pos]
        /\ s = [blk |-> s.blk, pos |-> s.pos] /\ a = [blk |-> a.blk, pos |-> a.pos]
        /\ a.pos \in Nat
    BY CapAssumption DEF Starts, Spots
  <1>2. /\ s.blk \in 1 .. Len(d) /\ b.blk \in 1 .. Len(d) /\ a.blk \in 1 .. Len(d)
        /\ s.pos < d[s.blk].boundary /\ Within(d, b) /\ d # <<>>
    <2>1. Within(d, b)
      BY DEF RecordIs, Whole
    <2> QED BY <1>1, <2>1, RecordFacts
  <1>3. a \in Places(d) /\ b \in Places(d)
    BY <1>1, <1>2 DEF Places
  <1>4. \A i \in 1 .. Len(d) :
           d[i].boundary \in -1 .. Cap /\ d[i].cells \in [0 .. Cap - 1 -> GoodPiece]
    <2>1. \A i \in 1 .. Len(d) : d[i] \in GoodBlock
      OBVIOUS
    <2> QED BY <2>1 DEF GoodBlock
  <1>5. EnsureCurrent(d, a) = s /\ HasNext(d, a)
    <2>1. CASE s = a /\ a.blk \in 1 .. Len(d) /\ a.pos < d[a.blk].boundary
      <3>1. ~(a.pos >= d[a.blk].boundary)
        BY <1>1, <1>4, <2>1
      <3> QED BY <1>1, <2>1, <3>1 DEF EnsureCurrent, HasNext
    <2>2. CASE /\ a.blk \in 1 .. Len(d) - 1 /\ d[a.blk].boundary <= a.pos
               /\ s = [blk |-> a.blk + 1, pos |-> 0]
      <3>1. a.blk < Len(d) /\ a.pos >= d[a.blk].boundary
        BY <1>1, <1>2, <1>4, <2>2
      <3> QED BY <2>2, <3>1 DEF EnsureCurrent, HasNext
    <2> QED BY <2>1, <2>2 DEF RecordIs, Joined
  <1>6. PICK p : p = d[s.blk].cells[s.pos]
    OBVIOUS
  <1>7. PieceAt(d, s) = p /\ p \in GoodPiece /\ p.size \in Nat
    <2>1. p \in GoodPiece
      BY <1>1, <1>2, <1>4, <1>6
    <2> QED BY <1>1, <1>6, <2>1 DEF PieceAt, GoodPiece
  <1>8. Behind(s, p) = [blk |-> s.blk, pos |-> s.pos + p.size]
    BY <1>1 DEF Behind
  <1>9. NextRecord(d)[a] = NextBody(d, a, NextRecord(d)[NextPlace(d, a)])
    <2>1. IsNext(d, NextRecord(d))
      BY <1>2, NextEnds
    <2> QED BY <1>3, <2>1 DEF IsNext
  <1>10. CASE Normal(d, s, b, id)
    <2>1. p.kind = "normal" /\ p.id = id /\ Behind(s, p) = b
      BY <1>1, <1>6, <1>8, <1>10 DEF Normal
    <2> QED BY <1>3, <1>5, <1>7, <1>9, <2>1 DEF NextBody
  <1>11. CASE Chained(d, s, b, id)
    <2>1. PICK total \in Nat :
             /\ Frags(d, s, b.blk - 1, id, total)
             /\ b.pos > 0 /\ d[b.blk].cells[0] = Piece("last", id, b.pos, total)
             /\ total = InFrags(s, b.blk - 1) + b.pos
      BY <1>11 DEF Chained
    <2>2. p = Piece("first", id, Cap - s.pos, total)
      BY <1>6, <2>1 DEF Frags
    <2>3. p.kind = "first" /\ p.id = id /\ p.size = Cap - s.pos /\ p.total = total
      BY <2>2 DEF Piece
    <2>4. Behind(s, p) = [blk |-> s.blk, pos |-> Cap]
      <3>1. s.pos + (Cap - s.pos) = Cap
        BY <1>1
      <3> QED BY <1>8, <2>3, <3>1
    <2>5. PICK c : c = Chain(d)[<<Behind(s, p), p.total - p.size>>]
      OBVIOUS
    <2>6. c = [ok |-> TRUE, id |-> id, at |-> b]
      BY <1>2, <2>1, <2>3, <2>4, <2>5, ChainOfRecord
    <2>7. c.ok /\ c.id = p.id /\ c.at = b
      BY <2>3, <2>6
    <2>8. NextBody(d, a, NextRecord(d)[NextPlace(d, a)]) = [id |-> id, lsn |-> LSN(s), at |-> b]
      BY <1>5, <1>7, <2>3, <2>5, <2>7 DEF NextBody
    <2> QED BY <1>3, <1>5, <1>9, <2>8
  <1> QED BY <1>3, <1>5, <1>10, <1>11 DEF RecordIs, Whole

\* What is read behind a is r and what is read behind it.
LEMMA ScanRecord ==
    ASSUME NEW d \in Seq(GoodBlock), NEW a \in Spots, NEW b \in Spots, NEW r \in ReadRecords,
           RecordAt(d, a, r, b)
    PROVE  Scanner(d)[a] = <<r>> \o Scanner(d)[b]
  <1>1. PICK s \in Starts : r.lsn = LSN(s) /\ RecordIs(d, a, s, b, r.id)
    BY DEF RecordAt
  <1>2. /\ a \in Places(d) /\ b \in Places(d) /\ HasNext(d, a) /\ d # <<>>
        /\ NextRecord(d)[a] = [id |-> r.id, lsn |-> r.lsn, at |-> b]
    <2>1. b \in Places(d)
      BY <1>1, NextOfRecord
    <2> QED BY <1>1, <2>1, NextOfRecord DEF Places
  <1>3. r.id # Panic /\ r = [lsn |-> r.lsn, id |-> r.id]
    <2>1. s.blk \in 1 .. Len(d) /\ s.pos \in 0 .. Cap - 1 /\ d[s.blk].cells[s.pos].id = r.id
      BY <1>1, RecordFacts DEF Starts
    <2>2. d[s.blk].cells[s.pos] \in GoodPiece
      <3>1. d[s.blk] \in GoodBlock
        BY <2>1
      <3> QED BY <2>1, <3>1 DEF GoodBlock
    <2> QED BY <2>1, <2>2, LogBoundAssumption DEF GoodPiece, Panic, ReadRecords
  <1>4. Scanner(d)[a] = ScanBody(d, a, Scanner(d)[b])
    BY <1>2, ScanEnds
  <1>5. ScanBody(d, a, Scanner(d)[b]) = <<r>> \o Scanner(d)[b]
    BY <1>2, <1>3 DEF ScanBody
  <1> QED BY <1>4, <1>5

\* A loop over the iterator reads what the file has, if the last record ends at its end.
LEMMA ScanLaid ==
    ASSUME NEW d \in Seq(GoodBlock), d # <<>>, NEW lg \in Seq(ReadRecords), NEW e,
           Laid(d, lg, e), AtEnd(d, e[Len(lg)])
    PROVE  Scan(d, FirstLSN) = lg
  <1>1. /\ e \in [0 .. Len(lg) -> Spots] /\ e[0] = [blk |-> 1, pos |-> 0] /\ Len(lg) \in Nat
        /\ \A i \in 1 .. Len(lg) : RecordAt(d, e[i - 1], lg[i], e[i])
    BY DEF Laid
  <1> DEFINE N == Len(lg)
             K == 0 .. N
             mu == [k \in K |-> N - k]
             R(k) == Scanner(d)[e[k]]
             Q == {k \in K : /\ R(k) \in Seq(ReadRecords) /\ Len(R(k)) = N - k
                             /\ \A j \in 1 .. N - k : R(k)[j] = lg[k + j]}
  <1>2. mu \in [K -> Nat]
    BY <1>1
  <1>3. ASSUME NEW k \in K, \A y \in K : mu[y] < mu[k] => y \in Q PROVE k \in Q
    <2>1. CASE k = N
      <3>1. e[N] \in Places(d) /\ ~HasNext(d, e[N])
        <4>1. e[N] \in Spots /\ e[N].blk = Len(d) /\ e[N].pos = d[Len(d)].boundary
          <5>1. N \in 0 .. N /\ AtEnd(d, e[N])
            BY <1>1
          <5>2. e[N] \in Spots
            BY <1>1, <5>1
          <5> QED BY <5>1, <5>2 DEF AtEnd
        <4>2. Len(d) \in Nat /\ Len(d) \in 1 .. Len(d) /\ d[Len(d)].boundary \in Int
          <5>1. Len(d) \in 1 .. Len(d)
            OBVIOUS
          <5>2. d[Len(d)] \in GoodBlock
            BY <5>1
          <5> QED BY <5>1, <5>2, CapAssumption DEF GoodBlock
        <4>3. e[N] = [blk |-> e[N].blk, pos |-> e[N].pos] /\ e[N].pos \in Nat
          BY <4>1, CapAssumption DEF Spots
        <4> HIDE DEF N
        <4> QED BY <4>1, <4>2, <4>3 DEF Places, HasNext
      <3>2. R(N) = <<>>
        <4>1. R(N) = ScanBody(d, e[N], Scanner(d)[NextRecord(d)[e[N]].at])
          BY <3>1, ScanEnds
        <4> QED BY <3>1, <4>1 DEF ScanBody
      <3> HIDE DEF R
      <3>3. R(k) = <<>> /\ N - k = 0
        BY <1>1, <2>1, <3>2
      <3> QED BY <3>3
    <2>2. CASE k # N
      <3>1. k + 1 \in K /\ mu[k + 1] < mu[k] /\ k + 1 \in 1 .. N /\ (k + 1) - 1 = k
        BY <1>1, <2>2
      <3>2. k + 1 \in Q
        BY <1>3, <3>1
      <3>3. lg[k + 1] \in ReadRecords /\ RecordAt(d, e[k], lg[k + 1], e[k + 1])
            /\ e[k] \in Spots /\ e[k + 1] \in Spots
        <4>1. RecordAt(d, e[(k + 1) - 1], lg[k + 1], e[k + 1])
          BY <1>1, <3>1
        <4>2. lg[k + 1] \in ReadRecords
          BY <3>1
        <4>3. e[k] \in Spots /\ e[k + 1] \in Spots
          BY <1>1, <3>1
        <4> QED BY <3>1, <4>1, <4>2, <4>3
      <3>4. R(k) = <<lg[k + 1]>> \o R(k + 1)
        <4>1. PICK u \in Spots, v \in Spots, r \in ReadRecords :
                 u = e[k] /\ v = e[k + 1] /\ r = lg[k + 1]
          BY <3>3
        <4>2. RecordAt(d, u, r, v)
          BY <3>3, <4>1
        <4>3. Scanner(d)[u] = <<r>> \o Scanner(d)[v]
          BY <4>2, ScanRecord
        <4> QED BY <4>1, <4>3
      <3>5. PICK q \in Seq(ReadRecords) : q = R(k + 1) /\ Len(q) = N - (k + 1)
                                   /\ \A j \in 1 .. N - (k + 1) : q[j] = lg[(k + 1) + j]
        BY <3>2
      <3>6. PICK x \in ReadRecords : x = lg[k + 1]
        BY <3>3
      <3>7. R(k) = <<x>> \o q
        BY <3>4, <3>5, <3>6
      <3> HIDE DEF R
      <3>8. R(k) \in Seq(ReadRecords) /\ Len(R(k)) = N - k
        BY <1>1, <3>1, <3>5, <3>7
      <3>9. ASSUME NEW j \in 1 .. N - k PROVE R(k)[j] = lg[k + j]
        <4>1. CASE j = 1
          BY <3>6, <3>7, <4>1
        <4>2. CASE j # 1
          <5>1. j - 1 \in 1 .. N - (k + 1) /\ (k + 1) + (j - 1) = k + j
            BY <1>1, <3>1, <4>2
          <5>2. (<<x>> \o q)[j] = q[j - 1]
            BY <3>5, <4>2, <5>1
          <5> QED BY <3>5, <3>7, <5>1, <5>2
        <4> QED BY <4>1, <4>2
      <3> QED BY <3>8, <3>9
    <2> QED BY <2>1, <2>2
  <1>4. K \subseteq Q
    <2> HIDE DEF K, mu, Q
    <2> QED BY <1>2, <1>3, MeasureInduction
  <1>5. 0 \in Q
    BY <1>1, <1>4
  <1>6. Scan(d, FirstLSN) = R(0)
    BY <1>1, ScanFirst
  <1>7. R(0) \in Seq(ReadRecords) /\ Len(R(0)) = Len(lg)
        /\ \A j \in 1 .. Len(lg) : R(0)[j] = lg[j]
    <2> HIDE DEF R
    <2>1. /\ R(0) \in Seq(ReadRecords) /\ Len(R(0)) = N - 0
          /\ \A j \in 1 .. N - 0 : R(0)[j] = lg[0 + j]
      BY <1>5
    <2> QED BY <1>1, <2>1
  <1> HIDE DEF R
  <1>8. R(0) = lg
    BY <1>7
  <1> QED BY <1>6, <1>8

\* An LSN is a place (log.go:365).
LEMMA LSNPlace ==
    ASSUME NEW s \in Starts
    PROVE  /\ AtLSN(LSN(s)) = s /\ LSN(s) \in Nat
           /\ \A n \in Nat : s.blk < n => LSN(s) < n * Cap
           /\ s.blk * Cap <= LSN(s)
  <1>1. s.blk \in Nat \ {0} /\ s.pos \in 0 .. Cap - 1 /\ Cap \in Nat \ {0}
        /\ s = [blk |-> s.blk, pos |-> s.pos]
    BY CapAssumption DEF Starts
  <1>2. \A b, p : b \in Nat /\ p \in 0 .. Cap - 1 =>
           (b * Cap + p) \div Cap = b /\ (b * Cap + p) % Cap = p
    <2> SUFFICES ASSUME NEW b \in Nat, NEW p \in 0 .. Cap - 1
                 PROVE  (b * Cap + p) \div Cap = b /\ (b * Cap + p) % Cap = p
      OBVIOUS
    <2>1. PICK c \in Nat \ {0} : c = Cap
      BY <1>1
    <2>2. PICK x \in Nat : x = b * c + p
      BY <2>1
    <2>3. PICK q \in Int, r \in Int : q = x \div c /\ r = x % c
      BY <2>1, <2>2
    <2>4. x = q * c + r /\ r \in 0 .. c - 1 /\ q \in Nat
      BY <2>1, <2>2, <2>3
    <2>5. ~(q < b)
      <3>1. SUFFICES ASSUME q < b PROVE FALSE
        OBVIOUS
      <3>2. PICK k \in Nat : b = q + 1 + k
        <4>1. b - q - 1 \in Nat /\ b = q + 1 + (b - q - 1)
          BY <2>4, <3>1
        <4> QED BY <4>1
      <3>3. PICK u \in Nat, v \in Nat : u = q * c /\ v = k * c
        BY <2>1, <2>4
      <3>4. b * c = u + c + v
        BY <2>1, <2>4, <3>2, <3>3
      <3> QED BY <2>1, <2>2, <2>4, <3>3, <3>4
    <2>6. ~(b < q)
      <3>1. SUFFICES ASSUME b < q PROVE FALSE
        OBVIOUS
      <3>2. PICK k \in Nat : q = b + 1 + k
        <4>1. q - b - 1 \in Nat /\ q = b + 1 + (q - b - 1)
          BY <2>4, <3>1
        <4> QED BY <4>1
      <3>3. PICK u \in Nat, v \in Nat : u = b * c /\ v = k * c
        BY <2>1
      <3>4. q * c = u + c + v
        BY <2>1, <2>4, <3>2, <3>3
      <3> QED BY <2>1, <2>2, <2>4, <3>3, <3>4
    <2>7. q = b /\ r = p
      <3>1. q = b
        BY <2>4, <2>5, <2>6
      <3>2. PICK u \in Nat : u = b * c
        BY <2>1
      <3> QED BY <2>1, <2>2, <2>4, <3>1, <3>2
    <2> QED BY <2>1, <2>2, <2>3, <2>7
  <1>3. LSN(s) = s.blk * Cap + s.pos /\ s.blk * Cap \in Nat
    BY <1>1 DEF LSN
  <1>4. AtLSN(LSN(s)) = s
    BY <1>1, <1>2, <1>3 DEF AtLSN
  <1>5. ASSUME NEW n \in Nat, s.blk < n PROVE LSN(s) < n * Cap
    <2>1. PICK j \in Nat : n = s.blk + 1 + j
      <3>1. n - s.blk - 1 \in Nat /\ n = s.blk + 1 + (n - s.blk - 1)
        BY <1>1, <1>5
      <3> QED BY <3>1
    <2>2. n * Cap = s.blk * Cap + Cap + j * Cap /\ j * Cap \in Nat
      BY <1>1, <2>1
    <2>3. PICK x, y, z : x = n * Cap /\ y = s.blk * Cap /\ z = j * Cap
      OBVIOUS
    <2>4. x = y + Cap + z /\ y \in Nat /\ z \in Nat /\ LSN(s) = y + s.pos
      BY <1>3, <2>2, <2>3
    <2>5. LSN(s) < x
      BY <1>1, <2>4
    <2> QED BY <2>3, <2>5
  <1> QED BY <1>1, <1>3, <1>4, <1>5

-----------------------------------------------------------------------------
(* How memory and the file stand to each other at every step.              *)

\* The file with the last block as it is in memory.
FileOf(ph, d, pg) == IF ph = "up" THEN [d EXCEPT ![Len(d)] = pg] ELSE d
File == FileOf(phase, disk, page)

\* A record that ends in the last block before the limit is one of the log.
LastEnds(d, n, e, limit) ==
    \A p \in 0 .. Cap - 1 :
       p < limit /\ d[Len(d)].cells[p].kind \in {"normal", "last"} =>
          \E i \in 1 .. n :
             /\ e[i] = [blk |-> Len(d), pos |-> p + d[Len(d)].cells[p].size]
             /\ e[i - 1].blk < Len(d) \/ e[i - 1].pos <= p

\* The last block is new; or it is, and a is at the end of the block before.
Rolled(d) == Len(d) >= 2 /\ d[Len(d)].boundary = 0
AfterRoll(d, a) == Rolled(d) /\ a.blk = Len(d) - 1 /\ d[a.blk].boundary <= a.pos

\* The append c has put nothing on the page yet.
NotBegun(c, d, a) ==
    /\ c.pc \in {"put", "roll", "switch"} /\ c.left = c.total
    /\ c.pc = "roll" => AtEnd(d, a)
    /\ c.pc = "switch" => AfterRoll(d, a)
    /\ AtEnd(d, a) \/ AfterRoll(d, a)

\* It has written fragments from s up to block k, and some are missing.
Begun(c, d, s, k) ==
    /\ c.left \in 1 .. c.total - 1
    /\ Frags(d, s, k, c.id, c.total) /\ c.total - c.left = InFrags(s, k)
    /\ c.pc \in {"roll", "publish"} => k = Len(d)
    /\ c.pc = "switch" => k = Len(d) - 1
    /\ k = Len(d) \/ (k = Len(d) - 1 /\ Rolled(d))

\* Its record is on the page to the end and not yet published.
Ended(c, d, s) ==
    /\ c.pc = "publish" /\ c.left = 0
    /\ Whole(d, s, [blk |-> Len(d), pos |-> d[Len(d)].boundary], c.id)

\* Where the append of c stands, behind records that end at a.  The last block on disk
\* ends at low, and lastSavedLSN is sv.
Started(c, d, a, s, low, sv) ==
    /\ c.lsn = LSN(s) /\ Joined(d, a, s)
    /\ Ended(c, d, s) \/ \E k \in 1 .. Len(d) : Begun(c, d, s, k)
    /\ s.blk < Len(d) /\ c.pc # "roll" => low <= 0
    /\ s.blk = Len(d) => sv < c.lsn
Pending(c, d, a, low, sv) ==
    NotBegun(c, d, a) \/ \E s \in Starts : Started(c, d, a, s, low, sv)

\* The piece that is to be published is the last one on the page.
Publishing(pg, c) ==
    LET p == pg.cells[c.pos]
    IN  /\ pg.boundary = c.pos + p.size
        /\ \A q \in c.pos + 1 .. pg.boundary - 1 : pg.cells[q] = Inside
        /\ p.kind \in IF c.left = 0 THEN {"normal", "last"} ELSE {"first", "cont"}

\* Record r, which ends at b, is on disk; or its end is missing, and so is all of the last block.
Kept(d, r, b) ==
    Within(d, b) \/ (Len(d) >= 2 /\ d[Len(d)].boundary <= 0 /\ r.lsn < Len(d) * Cap)

Phases ==
    /\ (header < 0 \/ phase \in {"header", "block", "failed"}) => disk = <<>>
    /\ phase \in {"block", "first", "up"} => header >= 0
    /\ phase = "first" => disk = <<ZeroBlock>>
    /\ phase # "up" => saved = 0 /\ latest = 0 /\ \A t \in Threads : call[t] = Idle
    /\ (disk = <<>> \/ phase = "first") => logged = <<>>
    /\ phase = "up" => disk # <<>> /\ page.boundary >= 0
    /\ phase = "down" /\ disk # <<>> => disk[Len(disk)].boundary >= 0

\* Who may be where beside whom.
Callers ==
    /\ \A t, u \in Threads :
          call[t].pc \in AppendPCs /\ call[u].pc \in AppendPCs \cup FlushPCs => t = u
    /\ phase = "up" /\ (\A t \in Threads : call[t].pc # "switch") => cur = Len(disk)
    /\ \A t \in Threads :
          /\ call[t].pc = "write" => call[t].blk = Len(disk)
          /\ call[t].pc \in {"save", "roll"} => disk[Len(disk)] = page
          /\ call[t].pc = "publish" => Publishing(page, call[t])

\* l is where the published pieces of the last block end.
Limit(l) ==
    /\ phase = "up" =>
          /\ \A t \in Threads : call[t].pc = "publish" => call[t].pos = l
          /\ (\A t \in Threads : call[t].pc # "publish") => l = page.boundary
    /\ phase # "up" /\ disk # <<>> => l = disk[Len(disk)].boundary

\* The last block of d is the beginning of the page pg; LSNs are behind neither.
Near(d, pg, sv, lt, l) ==
    /\ sv <= lt /\ lt < Len(d) * Cap + l
    /\ d[Len(d)].boundary <= l /\ l <= pg.boundary
    /\ \A p \in 0 .. Cap - 1 : p < d[Len(d)].boundary => d[Len(d)].cells[p] = pg.cells[p]
InStep == MutexFree => saved < latest \/ disk[Len(disk)].boundary = page.boundary

Safe(e) ==
    \A i \in 1 .. Len(logged) :
       (i <= acked \/ logged[i].lsn <= saved) => Kept(disk, logged[i], e[i])

Contents(e, l) ==
    /\ Limit(l) /\ (phase = "up" => Near(disk, page, saved, latest, l) /\ InStep)
    /\ Laid(File, logged, e)
    /\ disk # <<>> => LastEnds(File, Len(logged), e, l)
    /\ disk # <<>> /\ (phase = "down" \/ (phase = "up" /\ MutexFree)) =>
          AtEnd(File, e[Len(logged)])
    /\ \A t \in Threads : call[t].pc \in AppendPCs =>
          Pending(call[t], File, e[Len(logged)], disk[Len(disk)].boundary, saved)
    /\ Safe(e)

ContentInv == Phases /\ Callers /\ \E e, l : Contents(e, l)

\* Before is an order.
LEMMA BeforeOrder ==
    ASSUME NEW a \in Spots, NEW b \in Spots, NEW c \in Spots
    PROVE  /\ Before(a, b) /\ Before(b, c) => Before(a, c)
           /\ ~(Before(a, b) /\ Before(b, a)) /\ ~Before(a, a)
  BY CapAssumption DEF Before, Spots

\* The file in memory is that on disk but for the last block.
FileFacts(ph, d, pg, F) ==
    /\ F \in Seq(GoodBlock) /\ Len(F) = Len(d) /\ Len(d) \in Nat \ {0}
    /\ \A b \in 1 .. Len(d) : b < Len(d) => F[b] = d[b]
    /\ ph = "up" => F[Len(d)] = pg
    /\ ph # "up" => F = d
    /\ ph = "up" /\ d[Len(d)] = pg => F = d
    /\ \A b \in 1 .. Len(d) : d[b] \in GoodBlock /\ F[b] \in GoodBlock
    /\ \A b \in 1 .. Len(d) : d[b].boundary \in -1 .. Cap
    /\ d[Len(d)].boundary \in -1 .. Cap /\ pg.boundary \in -1 .. Cap

\* FileOf has these facts for any disk and page: only the last block may differ.
LEMMA FileIs ==
    ASSUME NEW ph, NEW d \in Seq(GoodBlock), NEW pg \in GoodBlock, d # <<>>
    PROVE  FileFacts(ph, d, pg, FileOf(ph, d, pg))
  <1> DEFINE F == FileOf(ph, d, pg)
  <1>1. F \in Seq(GoodBlock) /\ Len(F) = Len(d)
    <2>1. CASE ph = "up"
      BY <2>1, FileType DEF FileOf
    <2>2. CASE ph # "up"
      BY <2>2 DEF FileOf
    <2> QED BY <2>1, <2>2
  <1>2. Len(d) \in Nat \ {0} /\ Len(d) \in 1 .. Len(d)
    OBVIOUS
  <1>3. \A b \in 1 .. Len(d) : d[b] \in GoodBlock /\ F[b] \in GoodBlock
    <2> HIDE DEF F
    <2> QED BY <1>1
  <1>4. /\ \A b \in 1 .. Len(d) : b < Len(d) => F[b] = d[b]
        /\ ph = "up" => F[Len(d)] = pg
        /\ ph # "up" => F = d
        /\ ph = "up" /\ d[Len(d)] = pg => F = d
    <2>1. CASE ph = "up"
      <3>1. PICK n : n = Len(d)
        OBVIOUS
      <3>2. n \in Nat \ {0} /\ d \in [1 .. n -> GoodBlock] /\ F = [d EXCEPT ![n] = pg]
        BY <1>2, <2>1, <3>1 DEF FileOf
      <3>3. F[n] = pg /\ (\A b \in 1 .. n : b < n => F[b] = d[b]) /\ (d[n] = pg => F = d)
        BY <3>2
      <3> QED BY <2>1, <3>1, <3>3
    <2>2. CASE ph # "up"
      BY <2>2 DEF FileOf
    <2> QED BY <2>1, <2>2
  <1>5. /\ \A b \in 1 .. Len(d) : d[b].boundary \in -1 .. Cap
        /\ d[Len(d)].boundary \in -1 .. Cap /\ pg.boundary \in -1 .. Cap
    BY <1>2, <1>3 DEF GoodBlock
  <1> QED BY <1>1, <1>2, <1>3, <1>4, <1>5 DEF FileFacts

\* The file on disk has become the file in memory (log.go:320).
LEMMA DiskGrown ==
    ASSUME NEW d \in Seq(GoodBlock), NEW pg \in GoodBlock, d # <<>>, NEW sv, NEW lt, NEW l \in Int,
           Near(d, pg, sv, lt, l)
    PROVE  Grown(d, FileOf("up", d, pg))
  <1>0. PICK F : F = FileOf("up", d, pg)
    OBVIOUS
  <1>1. /\ F \in Seq(GoodBlock) /\ Len(F) = Len(d) /\ Len(d) \in Nat \ {0}
        /\ \A b \in 1 .. Len(d) : b < Len(d) => F[b] = d[b]
        /\ F[Len(d)] = pg
        /\ d[Len(d)].boundary \in -1 .. Cap /\ pg.boundary \in -1 .. Cap
        /\ \A b \in 1 .. Len(d) : d[b].boundary \in -1 .. Cap
    <2>1. FileFacts("up", d, pg, F)
      BY <1>0, FileIs
    <2> QED BY <2>1 DEF FileFacts
  <1>2. /\ d[Len(d)].boundary <= pg.boundary
        /\ \A p \in 0 .. Cap - 1 :
              p < d[Len(d)].boundary => pg.cells[p] = d[Len(d)].cells[p]
    BY <1>1, CapAssumption DEF Near
  <1>3. ASSUME NEW b \in 1 .. Len(d)
        PROVE  /\ d[b].boundary <= F[b].boundary
               /\ b < Len(d) => d[b].boundary = F[b].boundary
               /\ \A p \in 0 .. Cap - 1 :
                     p < d[b].boundary => F[b].cells[p] = d[b].cells[p]
    <2>1. CASE b < Len(d)
      BY <1>1, <2>1, CapAssumption
    <2>2. CASE b = Len(d)
      BY <1>1, <1>2, <2>2
    <2> QED BY <1>1, <2>1, <2>2
  <1> QED BY <1>0, <1>1, <1>3 DEF Grown

\* A file has grown if blocks are the same.
LEMMA GrownSelf ==
    ASSUME NEW d \in Seq(GoodBlock)
    PROVE  Grown(d, d) /\ \A b \in GoodBlock : Grown(d, Append(d, b))
  <1>1. Len(d) \in Nat /\ \A i \in 1 .. Len(d) : d[i].boundary \in Int
    <2>1. \A i \in 1 .. Len(d) : d[i] \in GoodBlock
      OBVIOUS
    <2> QED BY <2>1, CapAssumption DEF GoodBlock
  <1>2. \A i \in 1 .. Len(d) : d[i].boundary <= d[i].boundary
    BY <1>1
  <1>3. ASSUME NEW b \in GoodBlock PROVE Grown(d, Append(d, b))
    <2>1. Append(d, b) \in Seq(GoodBlock) /\ Len(Append(d, b)) = Len(d) + 1
          /\ \A i \in 1 .. Len(d) : Append(d, b)[i] = d[i]
      OBVIOUS
    <2> QED BY <1>1, <1>2, <2>1 DEF Grown
  <1> QED BY <1>1, <1>2, <1>3 DEF Grown

\* Nothing that is in the log is lost when the file grows.
LEMMA GrownLaid ==
    ASSUME NEW d, NEW f, Grown(d, f), NEW lg \in Seq(ReadRecords), NEW e, Laid(d, lg, e)
    PROVE  Laid(f, lg, e)
  <1>1. /\ e \in [0 .. Len(lg) -> Spots] /\ e[0] = [blk |-> 1, pos |-> 0]
        /\ \A i \in 1 .. Len(lg) : RecordAt(d, e[i - 1], lg[i], e[i])
        /\ \A i, j \in 0 .. Len(lg) : i < j => Before(e[i], e[j])
    BY DEF Laid
  <1>2. ASSUME NEW i \in 1 .. Len(lg) PROVE RecordAt(f, e[i - 1], lg[i], e[i])
    <2>1. e[i - 1] \in Spots /\ e[i] \in Spots
      <3>1. i - 1 \in 0 .. Len(lg) /\ i \in 0 .. Len(lg)
        OBVIOUS
      <3> QED BY <1>1, <3>1
    <2>2. PICK s \in Starts : lg[i].lsn = LSN(s) /\ RecordIs(d, e[i - 1], s, e[i], lg[i].id)
      BY <1>1 DEF RecordAt
    <2>3. RecordIs(f, e[i - 1], s, e[i], lg[i].id)
      BY <2>1, <2>2, GrownRecord
    <2> QED BY <2>2, <2>3 DEF RecordAt
  <1> QED BY <1>1, <1>2 DEF Laid

\* The records end within the file, one behind the other.
LEMMA LaidFacts ==
    ASSUME NEW d \in Seq(GoodBlock), NEW lg \in Seq(ReadRecords), NEW e, Laid(d, lg, e),
           NEW i \in 1 .. Len(lg)
    PROVE  /\ e[i - 1] \in Spots /\ e[i] \in Spots /\ e[Len(lg)] \in Spots /\ Within(d, e[i])
           /\ i < Len(lg) => Before(e[i], e[Len(lg)])
           /\ \A j \in 1 .. Len(lg) : j < i => Before(e[j], e[i])
           /\ \E s \in Starts :
                lg[i].lsn = LSN(s) /\ RecordIs(d, e[i - 1], s, e[i], lg[i].id)
  <1>1. i - 1 \in 0 .. Len(lg) /\ i \in 0 .. Len(lg) /\ Len(lg) \in 0 .. Len(lg)
        /\ \A j \in 1 .. Len(lg) : j \in 0 .. Len(lg)
    OBVIOUS
  <1>2. RecordAt(d, e[i - 1], lg[i], e[i])
    BY DEF Laid
  <1>3. Within(d, e[i])
    BY <1>2 DEF RecordAt, RecordIs, Whole
  <1>4. e[i - 1] \in Spots /\ e[i] \in Spots /\ e[Len(lg)] \in Spots
    BY <1>1 DEF Laid
  <1>5. i < Len(lg) => Before(e[i], e[Len(lg)])
    BY <1>1 DEF Laid
  <1>6. \A j \in 1 .. Len(lg) : j < i => Before(e[j], e[i])
    BY <1>1 DEF Laid
  <1> QED BY <1>2, <1>3, <1>4, <1>5, <1>6 DEF RecordAt

\* What ends before something that is on disk is on disk.
LEMMA WithinDown ==
    ASSUME NEW d, NEW f, Grown(d, f), Len(d) = Len(f), NEW a \in Spots, NEW b \in Spots,
           Within(f, a), Within(d, b), Before(a, b)
    PROVE  Within(d, a)
  <1>1. /\ a.blk \in Nat \ {0} /\ a.pos \in 0 .. Cap /\ b.blk \in Nat \ {0} /\ b.pos \in 0 .. Cap
        /\ Len(d) \in Nat /\ Cap \in Nat
    BY CapAssumption DEF Spots, Grown
  <1>2. a.blk \in 1 .. Len(d) /\ a.pos <= f[a.blk].boundary
        /\ b.blk \in 1 .. Len(d) /\ b.pos <= d[b.blk].boundary
    BY DEF Within
  <1>3. d[b.blk].boundary \in Int
    <2>1. d[b.blk] \in GoodBlock
      BY <1>2 DEF Grown
    <2> QED BY <1>1, <2>1 DEF GoodBlock
  <1>4. CASE a.blk < b.blk
    <2>1. a.blk < Len(d)
      BY <1>1, <1>2, <1>4
    <2> QED BY <1>2, <2>1 DEF Grown, Within
  <1>5. CASE a.blk = b.blk /\ a.pos < b.pos
    BY <1>1, <1>2, <1>3, <1>5 DEF Within
  <1> QED BY <1>4, <1>5 DEF Before

\* The records up to one that is on disk are on disk, and are a log of their own.
LEMMA LaidHad ==
    ASSUME NEW d, NEW f, Grown(d, f), Len(d) = Len(f), NEW lg \in Seq(ReadRecords), NEW e,
           Laid(f, lg, e), NEW m \in 0 .. Len(lg), m > 0 => Within(d, e[m])
    PROVE  /\ Laid(d, SubSeq(lg, 1, m), [k \in 0 .. m |-> e[k]])
           /\ SubSeq(lg, 1, m) \in Seq(ReadRecords) /\ Len(SubSeq(lg, 1, m)) = m
  <1>1. SubSeq(lg, 1, m) \in Seq(ReadRecords) /\ Len(SubSeq(lg, 1, m)) = m
        /\ \A i \in 1 .. m : SubSeq(lg, 1, m)[i] = lg[i]
    OBVIOUS
  <1>2. PICK q : q = SubSeq(lg, 1, m)
    OBVIOUS
  <1>3. PICK g : g = [k \in 0 .. m |-> e[k]]
    OBVIOUS
  <1>4. f \in Seq(GoodBlock) /\ Len(lg) \in Nat /\ 0 .. m \subseteq 0 .. Len(lg)
        /\ 1 .. m \subseteq 1 .. Len(lg) /\ \A i \in 1 .. m : i - 1 \in 0 .. m /\ i \in 0 .. m
    BY DEF Grown
  <1>5. g \in [0 .. m -> Spots] /\ g[0] = [blk |-> 1, pos |-> 0] /\ \A k \in 0 .. m : g[k] = e[k]
    <2>1. e \in [0 .. Len(lg) -> Spots] /\ e[0] = [blk |-> 1, pos |-> 0]
      BY DEF Laid
    <2> QED BY <1>3, <1>4, <2>1
  <1>6. \A i, j \in 0 .. m : i < j => Before(g[i], g[j])
    BY <1>4, <1>5 DEF Laid
  <1>7. ASSUME NEW i \in 1 .. m PROVE RecordAt(d, g[i - 1], q[i], g[i])
    <2>1. i \in 1 .. Len(lg) /\ m \in 1 .. Len(lg)
      BY <1>4
    <2>2. e[i - 1] \in Spots /\ e[i] \in Spots /\ e[m] \in Spots /\ Within(f, e[i])
          /\ (i < m => Before(e[i], e[m]))
      BY <1>4, <2>1, LaidFacts
    <2>3. Within(d, e[i])
      <3>1. CASE i = m
        BY <3>1
      <3>2. CASE i < m
        <4>1. Within(d, e[m])
          BY <2>1
        <4> QED BY <2>2, <3>2, <4>1, WithinDown
      <3> QED BY <3>1, <3>2
    <2>4. PICK s \in Starts : lg[i].lsn = LSN(s) /\ RecordIs(f, e[i - 1], s, e[i], lg[i].id)
      BY <1>4, <2>1, LaidFacts
    <2>5. RecordIs(d, e[i - 1], s, e[i], lg[i].id)
      BY <2>2, <2>3, <2>4, GrownHad
    <2>6. g[i - 1] = e[i - 1] /\ g[i] = e[i] /\ q[i] = lg[i]
      BY <1>1, <1>2, <1>4, <1>5
    <2> QED BY <2>4, <2>5, <2>6 DEF RecordAt
  <1>8. Laid(d, q, g)
    BY <1>1, <1>2, <1>5, <1>6, <1>7 DEF Laid
  <1> QED BY <1>1, <1>2, <1>3, <1>8

\* One record more is in the log.
LEMMA LaidAppend ==
    ASSUME NEW d \in Seq(GoodBlock), NEW lg \in Seq(ReadRecords), NEW e, Laid(d, lg, e),
           NEW b \in Spots, NEW r \in ReadRecords, RecordAt(d, e[Len(lg)], r, b)
    PROVE  Laid(d, Append(lg, r),
                [k \in 0 .. Len(lg) + 1 |-> IF k = Len(lg) + 1 THEN b ELSE e[k]])
  <1>1. PICK n \in Nat : n = Len(lg)
    OBVIOUS
  <1>2. PICK g : g = [k \in 0 .. n + 1 |-> IF k = n + 1 THEN b ELSE e[k]]
    OBVIOUS
  <1>3. PICK q : q = Append(lg, r)
    OBVIOUS
  <1>4. Len(q) = n + 1 /\ q[n + 1] = r /\ \A i \in 1 .. n : q[i] = lg[i]
    BY <1>1, <1>3
  <1>5. e \in [0 .. n -> Spots] /\ e[0] = [blk |-> 1, pos |-> 0]
    BY <1>1 DEF Laid
  <1>6. g \in [0 .. n + 1 -> Spots] /\ g[n + 1] = b /\ (\A k \in 0 .. n : g[k] = e[k])
        /\ g[0] = [blk |-> 1, pos |-> 0]
    BY <1>2, <1>5
  <1>7. ASSUME NEW i \in 1 .. n + 1 PROVE RecordAt(d, g[i - 1], q[i], g[i])
    <2>1. CASE i = n + 1
      <3>1. g[i - 1] = e[n] /\ g[i] = b /\ q[i] = r
        BY <1>4, <1>6, <2>1
      <3> QED BY <1>1, <3>1
    <2>2. CASE i # n + 1
      <3>1. i \in 1 .. n /\ i - 1 \in 0 .. n /\ i \in 0 .. n
        BY <2>2
      <3>2. g[i - 1] = e[i - 1] /\ g[i] = e[i] /\ q[i] = lg[i]
        BY <1>4, <1>6, <3>1
      <3> QED BY <1>1, <3>1, <3>2 DEF Laid
    <2> QED BY <2>1, <2>2
  <1>8. Before(e[n], b)
    <2>1. e[n] \in Spots
      BY <1>5
    <2> QED BY <1>1, <2>1, RecordFacts DEF RecordAt
  <1>9. ASSUME NEW i \in 0 .. n + 1, NEW j \in 0 .. n + 1, i < j PROVE Before(g[i], g[j])
    <2>1. i \in 0 .. n /\ g[i] = e[i] /\ e[i] \in Spots /\ e[n] \in Spots
      BY <1>5, <1>6, <1>9
    <2>2. CASE j = n + 1
      <3>1. i = n \/ Before(e[i], e[n])
        BY <1>1, <2>1 DEF Laid
      <3> QED BY <1>6, <1>8, <2>1, <2>2, <3>1, BeforeOrder
    <2>3. CASE j # n + 1
      <3>1. j \in 0 .. n /\ g[j] = e[j]
        BY <1>6, <2>3
      <3> QED BY <1>1, <1>9, <2>1, <3>1 DEF Laid
    <2> QED BY <2>2, <2>3
  <1>10. Laid(d, q, g)
    BY <1>4, <1>6, <1>7, <1>9 DEF Laid
  <1> QED BY <1>1, <1>2, <1>3, <1>10

\* The log is empty.
NoEnds == [k \in 0 .. 0 |-> [blk |-> 1, pos |-> 0]]
\* The empty log is laid in every file.
LEMMA LaidEmpty ==
    ASSUME NEW d
    PROVE  Laid(d, <<>>, NoEnds) /\ NoEnds[0] = [blk |-> 1, pos |-> 0]
  <1>1. NoEnds \in [0 .. 0 -> Spots] /\ NoEnds[0] = [blk |-> 1, pos |-> 0]
    BY CapAssumption DEF NoEnds, Spots
  <1>2. Len(<<>>) = 0 /\ 1 .. 0 = {} /\ \A i, j \in 0 .. 0 : ~(i < j)
    OBVIOUS
  <1> QED BY <1>1, <1>2 DEF Laid

\* NewLogMgr (log.go:74, 119) keeps what the file says.
LEMMA StartContents ==
    ASSUME LogTypes, LogTypes', ContentInv, Start
    PROVE  ContentInv'
  <1>1. PICK e, l : Contents(e, l)
    BY DEF ContentInv
  <1>2. Phases /\ phase # "up"
    BY DEF ContentInv, Start, AppendHeader, WriteHeader, BadHeader, NoBlock, FirstAppend,
           FirstWrite, LoadLast
  <1>3. saved = 0 /\ latest = 0 /\ (\A t \in Threads : call[t] = Idle) /\ call' = call
        /\ latest' = latest /\ saved' = saved /\ acked' = acked /\ logged' = logged
    BY <1>2 DEF Phases, Start, AppendHeader, WriteHeader, BadHeader, NoBlock, FirstAppend,
           FirstWrite, LoadLast, memory
  <1>0. header \in Int
    BY DEF LogTypes
  <1>4. \A t \in Threads : call'[t].pc = "idle"
    BY <1>3 DEF Idle
  <1>5. \A t \in Threads : call'[t].pc \notin AppendPCs \cup FlushPCs
                           /\ call'[t].pc \notin {"publish", "switch", "write", "save", "roll"}
    BY <1>4 DEF AppendPCs, FlushPCs
  <1>6. CASE AppendHeader \/ WriteHeader \/ BadHeader \/ NoBlock
    <2>1. disk = <<>> /\ disk' = <<>>
      BY <1>2, <1>6 DEF Phases, AppendHeader, WriteHeader, BadHeader, NoBlock, Absent, Zeroed
    <2>2. /\ phase' \in {"header", "block", "failed"}
          /\ phase' = "block" => header' >= 0
      BY <1>6, CapAssumption DEF AppendHeader, WriteHeader, BadHeader, NoBlock, FirstLSN
    <2>3. logged' = <<>>
      BY <1>2, <1>3, <2>1 DEF Phases
    <2>4. Phases'
      BY <1>3, <2>1, <2>2, <2>3 DEF Phases
    <2>5. Callers'
      BY <1>5, <2>2 DEF Callers
    <2>6. Laid(File', logged', NoEnds)
      BY <2>3, LaidEmpty
    <2>7. Safe(NoEnds)'
      BY <2>3 DEF Safe
    <2>8. Contents(NoEnds, 0)'
      BY <1>5, <2>1, <2>2, <2>6, <2>7 DEF Contents, Limit
    <2> QED BY <2>4, <2>5, <2>8 DEF ContentInv
  <1>7. CASE FirstAppend
    <2>1. disk = <<>> /\ disk' = <<ZeroBlock>> /\ phase' = "first" /\ header' = header
          /\ header >= 0 /\ Len(disk') = 1 /\ disk'[1].boundary = -1
      <3>1. phase = "block" /\ disk' = Append(disk, ZeroBlock) /\ phase' = "first"
            /\ header' = header
        BY <1>7 DEF FirstAppend
      <3>2. disk = <<>> /\ header >= 0
        BY <1>2, <3>1 DEF Phases
      <3>3. disk' = <<ZeroBlock>>
        BY <3>1, <3>2
      <3> QED BY <3>1, <3>2, <3>3 DEF ZeroBlock
    <2>2. logged' = <<>>
      BY <1>2, <1>3, <2>1 DEF Phases
    <2>3. Phases'
      BY <1>0, <1>3, <2>1, <2>2 DEF Phases
    <2>4. Callers'
      BY <1>5, <2>1 DEF Callers
    <2>5. Laid(File', logged', NoEnds)
      BY <2>2, LaidEmpty
    <2>6. Safe(NoEnds)'
      BY <2>2 DEF Safe
    <2>7. LastEnds(File', Len(logged'), NoEnds, -1)
      BY CapAssumption DEF LastEnds
    <2>8. Contents(NoEnds, -1)'
      BY <1>5, <2>1, <2>5, <2>6, <2>7 DEF Contents, Limit
    <2> QED BY <2>3, <2>4, <2>8 DEF ContentInv
  <1>8. CASE FirstWrite
    <2>1. disk = <<ZeroBlock>> /\ disk' = [disk EXCEPT ![Len(disk)] = page'] /\ phase' = "up"
          /\ header' = header /\ page' = Reset(page) /\ cur' = Len(disk) /\ header >= 0
          /\ logged' = <<>>
      BY <1>2, <1>3, <1>8 DEF Phases, FirstWrite
    <2>2. Len(disk) = 1 /\ Len(disk') = 1 /\ disk'[1] = page' /\ disk' # <<>>
      BY <2>1
    <2>3. page'.boundary = 0
      BY <2>1 DEF Reset, LogTypes, GoodBlock
    <2>4. File' = disk'
      <3>1. disk' \in Seq(GoodBlock) /\ page' \in GoodBlock
        BY DEF LogTypes
      <3>2. FileFacts(phase', disk', page', FileOf(phase', disk', page'))
        BY <2>2, <3>1, FileIs
      <3> QED BY <2>1, <2>2, <3>2 DEF File, FileFacts
    <2>5. Phases'
      BY <1>0, <2>1, <2>2, <2>3 DEF Phases
    <2>6. Callers'
      BY <1>5, <2>1, <2>2 DEF Callers
    <2>7. Laid(File', logged', NoEnds) /\ NoEnds[0] = [blk |-> 1, pos |-> 0]
      BY <2>1, LaidEmpty
    <2>8. Safe(NoEnds)'
      BY <2>1 DEF Safe
    <2>9. LastEnds(File', Len(logged'), NoEnds, 0)
      BY CapAssumption DEF LastEnds
    <2>10. Near(disk', page', saved', latest', 0) /\ InStep'
      BY <1>3, <2>2, <2>3, CapAssumption DEF Near, InStep
    <2>11. AtEnd(File', NoEnds[Len(logged')])
      BY <2>1, <2>2, <2>3, <2>4, <2>7 DEF AtEnd
    <2>12. Contents(NoEnds, 0)'
      BY <1>5, <2>1, <2>3, <2>7, <2>8, <2>9, <2>10, <2>11 DEF Contents, Limit
    <2> QED BY <2>5, <2>6, <2>12 DEF ContentInv
  <1>9. CASE LoadLast
    <2>1. disk # <<>> /\ disk' = disk /\ phase' = "up" /\ phase = "down"
          /\ header' = header /\ page' = disk[Len(disk)] /\ cur' = Len(disk) /\ header >= 0
      BY <1>9 DEF LoadLast
    <2>2. disk[Len(disk)].boundary >= 0
      BY <1>2, <2>1 DEF Phases
    <2>3. File' = disk /\ File = disk /\ Len(disk) \in Nat \ {0}
          /\ disk[Len(disk)].boundary \in -1 .. Cap
      <3>1. disk \in Seq(GoodBlock) /\ page' \in GoodBlock /\ page \in GoodBlock
        BY DEF LogTypes
      <3>2. FileFacts("up", disk, page', FileOf("up", disk, page'))
        BY <2>1, <3>1, FileIs
      <3> QED BY <2>1, <3>2 DEF File, FileOf, FileFacts
    <2>4. Phases'
      BY <1>0, <2>1, <2>2 DEF Phases
    <2>5. Callers'
      BY <1>5, <2>1 DEF Callers
    <2>6. /\ Laid(disk, logged, e) /\ LastEnds(disk, Len(logged), e, l) /\ Safe(e)
          /\ AtEnd(disk, e[Len(logged)]) /\ l = disk[Len(disk)].boundary
      BY <1>1, <2>1, <2>3 DEF Contents, Limit
    <2>7. Safe(e)'
      BY <1>3, <2>1, <2>6 DEF Safe
    <2>8. Near(disk', page', saved', latest', l) /\ InStep'
      <3>1. Len(disk) * Cap \in Nat \ {0}
        BY <2>3, CapAssumption
      <3>2. PICK m : m = Len(disk) * Cap
        OBVIOUS
      <3> QED BY <1>3, <2>1, <2>2, <2>3, <2>6, <3>1, <3>2, CapAssumption DEF Near, InStep
    <2>9. Contents(e, l)'
      BY <1>3, <1>5, <2>1, <2>3, <2>6, <2>7, <2>8 DEF Contents, Limit
    <2> QED BY <2>4, <2>5, <2>9 DEF ContentInv
  <1> QED BY <1>6, <1>7, <1>8, <1>9 DEF Start

\* What holds while the log manager is up.
UpFacts(e, l) ==
    /\ Phases /\ Callers /\ Contents(e, l)
    /\ header >= 0 /\ disk # <<>> /\ page.boundary \in 0 .. Cap /\ l \in 0 .. Cap
    /\ Len(disk) \in Nat \ {0} /\ Cap \in Nat \ {0}
    /\ FileFacts("up", disk, page, File) /\ Near(disk, page, saved, latest, l)
    /\ Grown(disk, File) /\ Laid(File, logged, e) /\ LastEnds(File, Len(logged), e, l)
    /\ e[Len(logged)] \in Spots /\ Safe(e)

\* While the manager is up its state has these facts, for some places and some last record.
LEMMA WhenUp ==
    ASSUME LogTypes, ContentInv, phase = "up"
    PROVE  \E e, l : UpFacts(e, l)
  <1>1. Phases /\ Callers
    BY DEF ContentInv
  <1>2. PICK e, l : Contents(e, l)
    BY DEF ContentInv
  <1>3. disk \in Seq(GoodBlock) /\ page \in GoodBlock /\ call \in [Threads -> Calls(Len(disk))]
        /\ logged \in Seq(ReadRecords) /\ Cap \in Nat \ {0}
    BY CapAssumption DEF LogTypes
  <1>4. header >= 0 /\ disk # <<>> /\ page.boundary \in 0 .. Cap
    BY <1>1, <1>3 DEF Phases, GoodBlock
  <1>5. l \in 0 .. Cap
    <2>1. CASE \E t \in Threads : call[t].pc = "publish"
      <3>1. PICK t \in Threads : call[t].pc = "publish"
        BY <2>1
      <3>2. call[t].pos = l /\ call[t].pos \in 0 .. Cap - 1
        BY <1>2, <1>3, <3>1 DEF Contents, Limit, Calls
      <3> QED BY <1>3, <3>2
    <2>2. CASE \A t \in Threads : call[t].pc # "publish"
      BY <1>2, <1>4, <2>2 DEF Contents, Limit
    <2> QED BY <2>1, <2>2
  <1>6. FileFacts("up", disk, page, File)
    BY <1>3, <1>4, FileIs DEF File
  <1>7. /\ Near(disk, page, saved, latest, l) /\ Laid(File, logged, e)
        /\ LastEnds(File, Len(logged), e, l) /\ Safe(e)
    BY <1>2, <1>4 DEF Contents
  <1>8. Grown(disk, File)
    BY <1>3, <1>4, <1>5, <1>7, DiskGrown DEF File
  <1>9. Len(logged) \in 0 .. Len(logged) /\ Len(disk) \in Nat \ {0}
    BY <1>3, <1>4
  <1>10. e[Len(logged)] \in Spots
    BY <1>7, <1>9 DEF Laid
  <1> QED BY <1>1, <1>2, <1>3, <1>4, <1>5, <1>6, <1>7, <1>8, <1>9, <1>10 DEF UpFacts

\* The mutex and FlushAlone keep everybody else away (log.go:149).
LEMMA Alone ==
    ASSUME LogTypes, ContentInv, NEW t \in Threads, call[t].pc \in AppendPCs
    PROVE  phase = "up" /\ ~MutexFree /\ \A u \in Threads : u # t => call[u].pc = "idle"
  <1>1. Phases /\ Callers
    BY DEF ContentInv
  <1>2. phase = "up"
    BY <1>1 DEF Phases, Idle, AppendPCs
  <1>3. \A u \in Threads : u # t => call[u].pc = "idle"
    <2>1. \A u \in Threads : call[u].pc \in {"idle"} \cup AppendPCs \cup FlushPCs
      BY DEF LogTypes, Calls
    <2> QED BY <1>1, <2>1 DEF Callers
  <1> QED BY <1>2, <1>3 DEF MutexFree

\* An append has gone on, the call being c now.
GoesOn(t, c) ==
    /\ phase = "up" /\ phase' = "up" /\ header' = header
    /\ call' = [call EXCEPT ![t] = c] /\ \A u \in Threads : u # t => call[u].pc = "idle"
    /\ c.pc \in AppendPCs /\ disk' # <<>> /\ page'.boundary >= 0
    /\ c.pc # "switch" => cur' = Len(disk')
    /\ c.pc = "roll" => disk'[Len(disk')] = page'
    /\ c.pc = "publish" => Publishing(page', c)

\* A step of Append that leaves all this in place keeps the invariant (log.go, Append).
LEMMA AppendGoesOn ==
    ASSUME LogTypes, ContentInv, NEW t \in Threads, NEW c, GoesOn(t, c),
           NEW e, NEW l, IF c.pc = "publish" THEN c.pos = l ELSE l = page'.boundary,
           Near(disk', page', saved', latest', l), Laid(File', logged', e),
           LastEnds(File', Len(logged'), e, l),
           Pending(c, File', e[Len(logged')], disk'[Len(disk')].boundary, saved'), Safe(e)'
    PROVE  ContentInv'
  <1>1. header \in Int /\ header >= 0
    BY DEF LogTypes, ContentInv, Phases, GoesOn
  <1>2. call'[t] = c /\ \A u \in Threads : u # t => call'[u].pc = "idle"
    BY DEF LogTypes, GoesOn
  <1>3. \A u \in Threads : u # t => call'[u].pc \notin AppendPCs \cup FlushPCs
                              /\ call'[u].pc \notin {"publish", "switch", "write", "save", "roll"}
    BY <1>2 DEF AppendPCs, FlushPCs
  <1>4. c.pc \notin {"write", "save"} /\ c.pc \in AppendPCs
    BY DEF GoesOn, AppendPCs
  <1>5. Phases'
    BY <1>1 DEF GoesOn, Phases
  <1>6. Callers'
    <2>1. \A u, v \in Threads :
             call'[u].pc \in AppendPCs /\ call'[v].pc \in AppendPCs \cup FlushPCs => u = v
      BY <1>2, <1>3
    <2>2. (\A u \in Threads : call'[u].pc # "switch") => cur' = Len(disk')
      BY <1>2 DEF GoesOn
    <2>3. \A u \in Threads :
             /\ call'[u].pc = "write" => call'[u].blk = Len(disk')
             /\ call'[u].pc \in {"save", "roll"} => disk'[Len(disk')] = page'
             /\ call'[u].pc = "publish" => Publishing(page', call'[u])
      <3>1. ASSUME NEW u \in Threads
            PROVE  /\ call'[u].pc = "write" => call'[u].blk = Len(disk')
                   /\ call'[u].pc \in {"save", "roll"} => disk'[Len(disk')] = page'
                   /\ call'[u].pc = "publish" => Publishing(page', call'[u])
        <4>1. CASE u = t
          BY <1>2, <1>4, <4>1 DEF GoesOn
        <4>2. CASE u # t
          BY <1>3, <4>2
        <4> QED BY <4>1, <4>2
      <3> QED BY <3>1
    <2> QED BY <2>1, <2>2, <2>3 DEF Callers
  <1>7. ~MutexFree'
    BY <1>2, <1>4 DEF MutexFree
  <1>8. Limit(l)'
    <2>1. phase' = "up"
      BY DEF GoesOn
    <2>2. \A u \in Threads : call'[u].pc = "publish" => call'[u].pos = l
      BY <1>2, <1>3
    <2>3. (\A u \in Threads : call'[u].pc # "publish") => l = page'.boundary
      BY <1>2
    <2> QED BY <2>1, <2>2, <2>3 DEF Limit
  <1>9. \A u \in Threads : call'[u].pc \in AppendPCs =>
          Pending(call'[u], File', e[Len(logged')], disk'[Len(disk')].boundary, saved')
    BY <1>2, <1>3
  <1>10. phase' = "up"
    BY DEF GoesOn
  <1>11. Contents(e, l)'
    BY <1>7, <1>8, <1>9, <1>10 DEF Contents, InStep
  <1> QED BY <1>5, <1>6, <1>11 DEF ContentInv

\* Append is called (log.go:148).
LEMMA AppendCallContents ==
    ASSUME LogTypes, LogTypes', ContentInv, FlushAlone, NEW t \in Threads, NEW n \in Sizes,
           AppendCall(t, n)
    PROVE  ContentInv'
  <1>1. /\ phase = "up" /\ MutexFree /\ NoFlush
        /\ UNCHANGED <<phase, header, disk, page, cur, latest, saved, logged, acked>>
    BY DEF AppendCall
  <1>2. PICK e, l : UpFacts(e, l)
    BY <1>1, WhenUp
  <1>3. \A u \in Threads : call[u].pc = "idle"
    <2>1. \A u \in Threads : call[u].pc \in {"idle"} \cup AppendPCs \cup FlushPCs
      BY DEF LogTypes, Calls
    <2> QED BY <1>1, <2>1 DEF MutexFree, NoFlush
  <1>4. PICK c : c = [Idle EXCEPT !.pc = "put", !.id = used'.recs, !.total = n, !.left = n]
    OBVIOUS
  <1>5. c.pc = "put" /\ c.left = c.total
    BY <1>4 DEF Idle
  <1>6. call' = [call EXCEPT ![t] = c]
    BY <1>4 DEF AppendCall
  <1>7. l = page.boundary /\ AtEnd(File, e[Len(logged)])
    BY <1>1, <1>2, <1>3 DEF UpFacts, Contents, Limit
  <1>8. GoesOn(t, c)
    BY <1>1, <1>2, <1>3, <1>5, <1>6 DEF GoesOn, UpFacts, Callers, AppendPCs
  <1>9. Pending(c, File, e[Len(logged)], disk[Len(disk)].boundary, saved)
    BY <1>5, <1>7 DEF Pending, NotBegun
  <1>10. File' = File
    BY <1>1 DEF File
  <1>11. Safe(e)'
    BY <1>1, <1>2 DEF UpFacts, Safe
  <1>12. /\ Near(disk, page, saved, latest, l) /\ Laid(File, logged, e)
         /\ LastEnds(File, Len(logged), e, l)
    BY <1>2 DEF UpFacts
  <1>13. /\ Near(disk', page', saved', latest', l) /\ Laid(File', logged', e)
         /\ LastEnds(File', Len(logged'), e, l)
         /\ Pending(c, File', e[Len(logged')], disk'[Len(disk')].boundary, saved')
         /\ IF c.pc = "publish" THEN c.pos = l ELSE l = page'.boundary
    BY <1>1, <1>5, <1>7, <1>9, <1>10, <1>12
  <1> QED BY <1>8, <1>11, <1>13, AppendGoesOn

\* What SetBytes leaves on a page (page.go:55).
LEMMA WrittenIs ==
    ASSUME NEW pg \in GoodBlock, pg.boundary \in 0 .. Cap, NEW p \in GoodPiece,
           p.size <= Room(pg), NEW new, new = Written(pg, p)
    PROVE  /\ Room(pg) = Cap - pg.boundary /\ Cap - Room(pg) = pg.boundary
           /\ pg.boundary \in 0 .. Cap - 1 /\ p.size \in Nat \ {0}
           /\ new.boundary = pg.boundary + p.size /\ new.boundary \in 0 .. Cap
           /\ \A q \in 0 .. Cap - 1 : q < pg.boundary => new.cells[q] = pg.cells[q]
           /\ new.cells[pg.boundary] = p
           /\ \A q \in pg.boundary + 1 .. new.boundary - 1 : new.cells[q] = Inside
  <1>1. PICK b \in 0 .. Cap : b = pg.boundary
    OBVIOUS
  <1>2. Room(pg) = Cap - b /\ Cap \in Nat \ {0}
    BY <1>1, CapAssumption DEF Room
  <1>3. p.size \in Nat \ {0}
    BY DEF GoodPiece
  <1>4. Cap - Room(pg) = b /\ b \in 0 .. Cap - 1 /\ b + p.size \in 0 .. Cap
    BY <1>1, <1>2, <1>3
  <1>5. ~(pg.boundary < 0)
    BY <1>1
  <1>6. new = [boundary |-> b + p.size,
               cells |-> [q \in 0 .. Cap - 1 |->
                             IF q = b THEN p
                             ELSE IF q \in b + 1 .. b + p.size - 1 THEN Inside
                             ELSE pg.cells[q]]]
    BY <1>4, <1>5 DEF Written
  <1>7. \A q \in b + 1 .. b + p.size - 1 : q \in 0 .. Cap - 1 /\ q # b
    BY <1>2, <1>3, <1>4
  <1>8. \A q \in 0 .. Cap - 1 : q < b => q # b /\ q \notin b + 1 .. b + p.size - 1
    BY <1>1
  <1>9. new.boundary = b + p.size /\ new.cells[b] = p
    BY <1>4, <1>6
  <1>10. \A q \in b + 1 .. b + p.size - 1 : new.cells[q] = Inside
    BY <1>6, <1>7
  <1>11. \A q \in 0 .. Cap - 1 : q < b => new.cells[q] = pg.cells[q]
    BY <1>6, <1>8
  <1> QED BY <1>1, <1>2, <1>3, <1>4, <1>9, <1>10, <1>11

\* The last block of the file is filled up.
LEMMA GrownLast ==
    ASSUME NEW d, NEW f \in Seq(GoodBlock), d \in Seq(GoodBlock), Len(f) = Len(d),
           \A b \in 1 .. Len(d) : b < Len(d) => f[b] = d[b],
           d # <<>>, d[Len(d)].boundary <= f[Len(d)].boundary,
           \A q \in 0 .. Cap - 1 :
              q < d[Len(d)].boundary => f[Len(d)].cells[q] = d[Len(d)].cells[q]
    PROVE  Grown(d, f)
  <1>1. Len(d) \in Nat \ {0} /\ \A b \in 1 .. Len(d) : d[b].boundary \in Int
    <2>1. \A b \in 1 .. Len(d) : d[b] \in GoodBlock
      OBVIOUS
    <2> QED BY <2>1, CapAssumption DEF GoodBlock
  <1>2. ASSUME NEW b \in 1 .. Len(d)
        PROVE  /\ d[b].boundary <= f[b].boundary
               /\ b < Len(d) => d[b].boundary = f[b].boundary
               /\ \A p \in 0 .. Cap - 1 :
                     p < d[b].boundary => f[b].cells[p] = d[b].cells[p]
    <2>1. CASE b < Len(d)
      BY <1>1, <2>1
    <2>2. CASE b = Len(d)
      BY <1>1, <2>2
    <2> QED BY <1>1, <2>1, <2>2
  <1> QED BY <1>1, <1>2 DEF Grown

\* Call c has become e by putting piece p behind b in the last block of d, which is f now.
HasPut(d, f, c, e, p, b) ==
    /\ Grown(d, f) /\ d # <<>> /\ Len(f) = Len(d)
    /\ b \in 0 .. Cap - 1 /\ d[Len(d)].boundary = b /\ f[Len(d)].boundary = b + p.size
    /\ f[Len(d)].cells[b] = p /\ p \in GoodPiece
    /\ c.pc = "put" /\ c.left \in 1 .. c.total /\ c.total \in Nat
    /\ Single(c) => c.left = c.total /\ c.total <= Cap - b
    /\ LET n == IF c.left < Cap - b THEN c.left ELSE Cap - b
       IN  p = IF Single(c) THEN Piece("normal", c.id, c.total, c.total)
               ELSE IF c.left = c.total THEN Piece("first", c.id, n, c.total)
               ELSE Piece(IF n = c.left THEN "last" ELSE "cont", c.id, n, c.total)
    /\ e.pc = "publish" /\ e.id = c.id /\ e.total = c.total /\ e.left = c.left - p.size
    /\ e.lsn = IF c.left = c.total THEN LSN([blk |-> Len(d), pos |-> b]) ELSE c.lsn

\* The first piece of a record is put behind the last record.
LEMMA PutFirst ==
    ASSUME NEW d, NEW f, NEW c, NEW e, NEW p, NEW b, HasPut(d, f, c, e, p, b),
           NEW a \in Spots, NotBegun(c, d, a), NEW low, NEW sv \in Nat, sv < Len(d) * Cap + b
    PROVE  Pending(e, f, a, low, sv)
  <1> USE DEF HasPut
  <1>1. /\ d \in Seq(GoodBlock) /\ f \in Seq(GoodBlock) /\ Len(d) \in Nat \ {0}
        /\ Cap \in Nat \ {0} /\ a.blk \in Nat \ {0} /\ a.pos \in 0 .. Cap
    BY CapAssumption DEF Grown, Spots
  <1>2. PICK s : s = [blk |-> Len(d), pos |-> b]
    OBVIOUS
  <1>3. s \in Starts /\ s.blk = Len(d) /\ s.pos = b
    BY <1>1, <1>2 DEF Starts
  <1>4. p.size \in Nat \ {0} /\ c.left = c.total /\ e.lsn = LSN(s)
    BY <1>2 DEF NotBegun, GoodPiece
  <1>5. Joined(f, a, s)
    <2>1. CASE AtEnd(d, a)
      <3>1. a.blk = Len(d) /\ a.pos = b
        BY <2>1 DEF AtEnd
      <3>2. s = a
        BY <1>1, <1>2, <3>1 DEF Spots
      <3>3. a.blk \in 1 .. Len(f) /\ a.pos < f[a.blk].boundary
        BY <1>1, <1>4, <3>1
      <3> QED BY <3>2, <3>3 DEF Joined
    <2>2. CASE AfterRoll(d, a)
      <3>1. Len(d) >= 2 /\ b = 0 /\ a.blk = Len(d) - 1 /\ d[a.blk].boundary <= a.pos
        BY <2>2 DEF AfterRoll, Rolled
      <3>2. a.blk \in 1 .. Len(d) /\ a.blk < Len(d) /\ a.blk \in 1 .. Len(f) - 1
        BY <1>1, <3>1
      <3>3. f[a.blk].boundary = d[a.blk].boundary
        BY <3>2 DEF Grown
      <3>4. s = [blk |-> a.blk + 1, pos |-> 0]
        BY <1>1, <1>2, <3>1
      <3> QED BY <3>1, <3>2, <3>3, <3>4 DEF Joined
    <2> QED BY <2>1, <2>2 DEF NotBegun
  <1>6. LSN(s) = Len(d) * Cap + b
    BY <1>3 DEF LSN
  <1>7. Ended(e, f, s) \/ \E k \in 1 .. Len(f) : Begun(e, f, s, k)
    <2>1. CASE Single(c)
      <3>1. p = Piece("normal", c.id, c.total, c.total)
        BY <2>1
      <3>2. p.kind = "normal" /\ p.id = c.id /\ p.size = c.total
        BY <3>1 DEF Piece
      <3>3. e.left = 0
        BY <1>4, <3>2
      <3>4. PICK x : x = [blk |-> Len(f), pos |-> f[Len(f)].boundary]
        OBVIOUS
      <3>5. x.blk = Len(d) /\ x.pos = b + p.size
        BY <3>4
      <3>6. Normal(f, s, x, e.id)
        BY <1>1, <1>3, <1>4, <3>2, <3>5 DEF Normal
      <3>7. Within(f, x)
        BY <1>1, <1>4, <3>5 DEF Within
      <3> QED BY <3>3, <3>4, <3>6, <3>7 DEF Ended, Whole
    <2>2. CASE ~Single(c)
      <3>1. c.total > Cap /\ ~(c.left < Cap - b)
        BY <1>1, <1>4, <2>2 DEF Single
      <3>2. p = Piece("first", c.id, Cap - b, c.total)
        BY <1>4, <2>2, <3>1
      <3>3. p.size = Cap - b
        BY <3>2 DEF Piece
      <3>4. e.left = c.total - (Cap - b) /\ e.left \in 1 .. e.total - 1
            /\ e.total - e.left = Cap - b
        <4>1. PICK x \in Nat, y \in Nat : x = c.total /\ y = b
          OBVIOUS
        <4>2. e.left = x - (Cap - y) /\ e.total = x
          BY <1>4, <3>3, <4>1
        <4>3. x > Cap /\ y \in 0 .. Cap - 1
          BY <3>1, <4>1
        <4>4. x - (Cap - y) \in 1 .. x - 1 /\ x - (x - (Cap - y)) = Cap - y
          BY <1>1, <4>3
        <4> QED BY <4>1, <4>2, <4>4
      <3>5. f[s.blk].boundary = Cap /\ f[s.blk].cells[s.pos] = p
        <4>1. PICK y \in Nat : y = b
          OBVIOUS
        <4>2. y + (Cap - y) = Cap
          BY <1>1
        <4> QED BY <1>3, <3>3, <4>1, <4>2
      <3>6. Frags(f, s, Len(f), e.id, e.total)
        <4>1. Len(f) \in s.blk .. Len(f) /\ s.blk + 1 .. Len(f) = {}
          BY <1>1, <1>3
        <4> QED BY <1>3, <3>1, <3>2, <3>5, <4>1 DEF Frags
      <3>7. InFrags(s, Len(f)) = Cap - b
        BY <1>1, <1>3, InFragsGrow
      <3>8. Begun(e, f, s, Len(f))
        BY <3>4, <3>6, <3>7 DEF Begun
      <3> QED BY <1>1, <3>8
    <2> QED BY <2>1, <2>2
  <1>8. ~(s.blk < Len(f)) /\ sv < e.lsn
    BY <1>1, <1>3, <1>4, <1>6
  <1>9. Started(e, f, a, s, low, sv)
    BY <1>4, <1>5, <1>7, <1>8 DEF Started
  <1> QED BY <1>3, <1>9 DEF Pending

\* A further fragment is put at the beginning of a new block.
LEMMA PutNext ==
    ASSUME NEW d, NEW f, NEW c, NEW e, NEW p, NEW b, HasPut(d, f, c, e, p, b),
           NEW a \in Spots, NEW low, NEW sv, NEW s \in Starts, Started(c, d, a, s, low, sv)
    PROVE  Pending(e, f, a, low, sv)
  <1> USE DEF HasPut
  <1>1. /\ d \in Seq(GoodBlock) /\ f \in Seq(GoodBlock) /\ Len(d) \in Nat \ {0}
        /\ Cap \in Nat \ {0} /\ s.blk \in Nat \ {0} /\ s.pos \in 0 .. Cap - 1
    BY CapAssumption DEF Grown, Starts
  <1>2. PICK k \in 1 .. Len(d) : Begun(c, d, s, k)
    BY DEF Started, Ended
  <1>3. /\ c.left \in 1 .. c.total - 1 /\ Frags(d, s, k, c.id, c.total)
        /\ c.total - c.left = InFrags(s, k)
        /\ k = Len(d) \/ (k = Len(d) - 1 /\ Rolled(d))
    BY <1>2 DEF Begun
  <1>4. c.total > Cap /\ k >= s.blk /\ ~Single(c)
    BY <1>1, <1>3 DEF Frags, Single
  <1>5. k = Len(d) - 1 /\ b = 0
    <2>1. k # Len(d)
      <3>1. d[k].boundary = Cap
        <4>1. k = s.blk \/ k \in s.blk + 1 .. k
          BY <1>1, <1>4
        <4> QED BY <1>3, <4>1 DEF Frags
      <3> QED BY <1>1, <3>1
    <2> QED BY <1>3, <2>1 DEF Rolled
  <1>6. PICK n : n = IF c.left < Cap THEN c.left ELSE Cap
    OBVIOUS
  <1>7. p = Piece(IF n = c.left THEN "last" ELSE "cont", c.id, n, c.total)
    <2>1. Cap - b = Cap /\ c.left # c.total
      BY <1>1, <1>3, <1>5
    <2> QED BY <1>4, <1>6, <2>1
  <1>8. p.size = n /\ n \in 1 .. Cap /\ n <= c.left
    BY <1>1, <1>3, <1>6, <1>7 DEF Piece
  <1>9. Frags(f, s, k, c.id, c.total)
    BY <1>3, GrownKeeps
  <1>10. Joined(f, a, s) /\ e.lsn = LSN(s)
    <2>1. c.left # c.total
      BY <1>3
    <2> QED BY <2>1, GrownKeeps DEF Started
  <1>11. Len(f) = k + 1 /\ k + 1 \in Nat /\ k \in Nat /\ f[k + 1].cells[0] = p
         /\ f[k + 1].boundary = n
    BY <1>1, <1>5, <1>8
  <1>12. Ended(e, f, s) \/ \E j \in 1 .. Len(f) : Begun(e, f, s, j)
    <2>1. CASE n = c.left
      <3>1. p = Piece("last", c.id, n, c.total) /\ e.left = 0
        BY <1>3, <1>7, <1>8, <2>1
      <3>2. PICK x : x = [blk |-> Len(f), pos |-> f[Len(f)].boundary]
        OBVIOUS
      <3>3. x.blk = k + 1 /\ x.pos = n /\ x.blk - 1 = k
        BY <1>11, <3>2
      <3>4. c.total = InFrags(s, k) + n
        BY <1>3, <1>4, <1>11, <2>1, InFragsGrow
      <3>5. Chained(f, s, x, e.id)
        BY <1>8, <1>9, <1>11, <3>1, <3>3, <3>4 DEF Chained
      <3>6. Within(f, x)
        BY <1>1, <1>8, <1>11, <3>3 DEF Within
      <3> QED BY <3>1, <3>2, <3>5, <3>6 DEF Ended, Whole
    <2>2. CASE n # c.left
      <3>1. n = Cap /\ p = Piece("cont", c.id, Cap, c.total)
        BY <1>6, <1>7, <2>2
      <3>2. e.left = c.left - Cap /\ e.left \in 1 .. e.total - 1
        <4>1. PICK x \in Nat, y \in Nat : x = c.left /\ y = c.total
          BY <1>1
        <4>2. /\ e.left = x - Cap /\ e.total = y
              /\ x \in 1 .. y - 1 /\ Cap <= x /\ Cap # x
          BY <1>3, <1>8, <2>2, <3>1, <4>1
        <4>3. x - Cap \in 1 .. y - 1
          BY <1>1, <4>2
        <4> QED BY <4>1, <4>2, <4>3
      <3>3. Frags(f, s, k + 1, e.id, e.total)
        <4>1. /\ c.total > Cap /\ f[s.blk].boundary = Cap
              /\ f[s.blk].cells[s.pos] = Piece("first", c.id, Cap - s.pos, c.total)
              /\ \A i \in s.blk + 1 .. k :
                    f[i].boundary = Cap /\ f[i].cells[0] = Piece("cont", c.id, Cap, c.total)
          BY <1>9 DEF Frags
        <4>2. \A i \in s.blk + 1 .. k + 1 : i = k + 1 \/ i \in s.blk + 1 .. k
          BY <1>1, <1>11
        <4>3. \A i \in s.blk + 1 .. k + 1 :
                    f[i].boundary = Cap /\ f[i].cells[0] = Piece("cont", c.id, Cap, c.total)
          BY <1>11, <3>1, <4>1, <4>2
        <4>4. k + 1 \in s.blk .. Len(f)
          BY <1>1, <1>4, <1>11
        <4> QED BY <4>1, <4>3, <4>4 DEF Frags
      <3>4. e.total - e.left = InFrags(s, k + 1)
        <4>1. InFrags(s, k + 1) = InFrags(s, k) + Cap
          BY <1>4, <1>11, InFragsGrow
        <4>2. PICK x \in Nat, y \in Nat : x = c.left /\ y = c.total
          BY <1>1
        <4>3. InFrags(s, k + 1) = (y - x) + Cap /\ e.left = x - Cap /\ e.total = y
          BY <1>3, <3>2, <4>1, <4>2
        <4>4. y - (x - Cap) = (y - x) + Cap
          BY <1>1
        <4> QED BY <4>3, <4>4
      <3>5. Begun(e, f, s, k + 1)
        BY <1>11, <3>2, <3>3, <3>4 DEF Begun
      <3> QED BY <1>11, <3>5
    <2> QED BY <2>1, <2>2
  <1>13. low <= 0 /\ s.blk < Len(f)
    <2>1. s.blk < Len(d)
      BY <1>1, <1>4, <1>5
    <2> QED BY <2>1 DEF Started
  <1>14. Started(e, f, a, s, low, sv)
    BY <1>1, <1>10, <1>12, <1>13 DEF Started
  <1> QED BY <1>14 DEF Pending

\* A piece is put on the page (log.go:353).
LEMMA PutContents ==
    ASSUME LogTypes, LogTypes', ContentInv, NEW t \in Threads, Put(t)
    PROVE  ContentInv'
  <1>1. PICK c : c = call[t]
    OBVIOUS
  <1>2. PICK p : p = NextPiece(c)
    OBVIOUS
  <1>3. /\ c.pc = "put" /\ ~MustRoll(c) /\ page' = Written(page, p)
        /\ UNCHANGED <<phase, header, disk, cur, latest, saved, logged, acked, used>>
    BY <1>1, <1>2 DEF Put
  <1>4. phase = "up" /\ \A u \in Threads : u # t => call[u].pc = "idle"
    BY <1>1, <1>3, Alone DEF AppendPCs
  <1>5. PICK e, l : UpFacts(e, l)
    BY <1>4, WhenUp
  <1>6. /\ p \in GoodPiece /\ p.size \in 1 .. Room(page) /\ Room(page) \in 1 .. Cap
        /\ p.kind \in {"normal", "first", "last", "cont"}
    BY <1>1, <1>2, <1>3, PieceFits
  <1>7. PICK b : b = page.boundary
    OBVIOUS
  <1>8. page \in GoodBlock /\ page' \in GoodBlock /\ disk \in Seq(GoodBlock) /\ disk # <<>>
        /\ page.boundary \in 0 .. Cap /\ Len(disk) \in Nat \ {0} /\ latest \in Nat /\ saved \in Nat
    BY <1>5 DEF LogTypes, UpFacts
  <1>9. /\ Room(page) = Cap - b /\ Cap - Room(page) = b
        /\ b \in 0 .. Cap - 1 /\ p.size \in Nat \ {0}
        /\ page'.boundary = b + p.size /\ page'.boundary \in 0 .. Cap
        /\ \A q \in 0 .. Cap - 1 : q < b => page'.cells[q] = page.cells[q]
        /\ page'.cells[b] = p
        /\ \A q \in b + 1 .. page'.boundary - 1 : page'.cells[q] = Inside
    <2>1. p.size <= Room(page)
      BY <1>6
    <2>2. PICK new : new = page'
      OBVIOUS
    <2>3. new = Written(page, p) /\ page.boundary \in 0 .. Cap /\ page \in GoodBlock
      BY <1>3, <1>8, <2>2
    <2>4. /\ Room(page) = Cap - page.boundary /\ Cap - Room(page) = page.boundary
          /\ page.boundary \in 0 .. Cap - 1 /\ p.size \in Nat \ {0}
          /\ new.boundary = page.boundary + p.size /\ new.boundary \in 0 .. Cap
          /\ \A q \in 0 .. Cap - 1 : q < page.boundary => new.cells[q] = page.cells[q]
          /\ new.cells[page.boundary] = p
          /\ \A q \in page.boundary + 1 .. new.boundary - 1 : new.cells[q] = Inside
      BY <1>6, <2>1, <2>3, WrittenIs
    <2> QED BY <1>7, <2>2, <2>4
  <1>10. \A u \in Threads : call[u].pc # "publish" /\ call[u].pc # "switch"
    BY <1>1, <1>3, <1>4
  <1>11. l = b /\ cur = Len(disk)
    BY <1>4, <1>5, <1>7, <1>10 DEF UpFacts, Contents, Limit, Callers
  <1>12. PICK x : /\ call' = [call EXCEPT ![t] = x] /\ x.pc = "publish" /\ x.id = c.id
                  /\ x.total = c.total /\ x.left = c.left - p.size /\ x.pos = b
                  /\ x.lsn = IF c.left = c.total
                             THEN LSN([blk |-> Len(disk), pos |-> b]) ELSE c.lsn
    <2>1. PICK x, n :
             /\ n = IF c.left = c.total THEN LSN([blk |-> cur, pos |-> Cap - Room(page)])
                    ELSE c.lsn
             /\ x = [pc |-> "publish", id |-> c.id, total |-> c.total, left |-> c.left - p.size,
                     lsn |-> n, blk |-> c.blk, pos |-> Cap - Room(page)]
             /\ call' = [call EXCEPT ![t] = x]
      BY <1>1, <1>2, PutCall
    <2>2. /\ x.pc = "publish" /\ x.id = c.id /\ x.total = c.total /\ x.left = c.left - p.size
          /\ x.pos = b /\ x.lsn = n
      BY <1>9, <2>1
    <2> QED BY <1>9, <1>11, <2>1, <2>2
  <1>13. /\ c.left \in 1 .. c.total /\ c.total \in Nat /\ c.id \in Nat
         /\ Single(c) => c.left = c.total /\ c.total <= Cap - b
    <2>1. c \in Calls(Len(disk)) /\ CallKnows(c)
      BY <1>1 DEF LogTypes
    <2>2. /\ c.left \in Nat /\ c.total \in Nat /\ c.left > 0 /\ c.left <= c.total /\ c.id \in Nat
          /\ (Single(c) => c.left = c.total)
      BY <1>3, <2>1 DEF CallKnows, Calls, AppendPCs
    <2>3. Single(c) => c.total <= Cap - b
      BY <1>3, <1>9, <2>2, CapAssumption DEF MustRoll
    <2> QED BY <2>2, <2>3
  <1>14. PICK F, G : F = File /\ G = File'
    OBVIOUS
  <1>15. FileFacts("up", disk, page, F) /\ FileFacts("up", disk, page', G)
    <2>1. FileFacts("up", disk, page', FileOf("up", disk, page'))
      BY <1>8, FileIs
    <2>2. File' = FileOf("up", disk, page')
      BY <1>3, <1>4 DEF File
    <2> QED BY <1>5, <1>14, <2>1, <2>2 DEF UpFacts
  <1>16. /\ F \in Seq(GoodBlock) /\ G \in Seq(GoodBlock) /\ Len(F) = Len(disk) /\ Len(G) = Len(disk)
         /\ F[Len(F)] = page /\ G[Len(F)] = page' /\ F # <<>>
         /\ \A i \in 1 .. Len(F) : i < Len(F) => G[i] = F[i]
    BY <1>8, <1>15 DEF FileFacts
  <1>17. Grown(F, G)
    <2>1. F[Len(F)].boundary <= G[Len(F)].boundary
      BY <1>7, <1>9, <1>16
    <2>2. \A q \in 0 .. Cap - 1 :
             q < F[Len(F)].boundary => G[Len(F)].cells[q] = F[Len(F)].cells[q]
      BY <1>7, <1>9, <1>16
    <2> QED BY <1>16, <2>1, <2>2, GrownLast
  <1>18. Laid(G, logged, e)
    BY <1>5, <1>14, <1>17, GrownLaid DEF UpFacts, LogTypes
  <1>19. HasPut(F, G, c, x, p, b)
    <2>1. LET n == IF c.left < Cap - b THEN c.left ELSE Cap - b
          IN  p = IF Single(c) THEN Piece("normal", c.id, c.total, c.total)
                  ELSE IF c.left = c.total THEN Piece("first", c.id, n, c.total)
                  ELSE Piece(IF n = c.left THEN "last" ELSE "cont", c.id, n, c.total)
      BY <1>2, <1>9 DEF NextPiece
    <2> QED BY <1>3, <1>6, <1>7, <1>9, <1>12, <1>13, <1>16, <1>17, <2>1 DEF HasPut
  <1>20. saved < Len(F) * Cap + b
    <2>1. saved <= latest /\ latest < Len(disk) * Cap + l
      BY <1>5 DEF UpFacts, Near
    <2>2. PICK m : m = Len(disk) * Cap
      OBVIOUS
    <2>3. m \in Nat
      BY <1>8, <2>2, CapAssumption
    <2> QED BY <1>8, <1>9, <1>11, <1>16, <2>1, <2>2, <2>3
  <1>21. Pending(x, G, e[Len(logged)], disk[Len(disk)].boundary, saved)
    <2>1. Pending(c, F, e[Len(logged)], disk[Len(disk)].boundary, saved)
      BY <1>1, <1>3, <1>5, <1>14 DEF UpFacts, Contents, AppendPCs
    <2>2. e[Len(logged)] \in Spots
      BY <1>5 DEF UpFacts
    <2>3. CASE NotBegun(c, F, e[Len(logged)])
      BY <1>8, <1>19, <1>20, <2>2, <2>3, PutFirst
    <2>4. CASE \E s \in Starts :
                  Started(c, F, e[Len(logged)], s, disk[Len(disk)].boundary, saved)
      BY <1>19, <2>2, <2>4, PutNext
    <2> QED BY <2>1, <2>3, <2>4 DEF Pending
  <1>22. LastEnds(G, Len(logged), e, l)
    <2>1. LastEnds(F, Len(logged), e, l)
      BY <1>5, <1>14 DEF UpFacts
    <2>2. \A q \in 0 .. Cap - 1 : q < l => G[Len(G)].cells[q] = F[Len(F)].cells[q]
      BY <1>9, <1>11, <1>16
    <2>3. Len(G) = Len(F)
      BY <1>16
    <2> QED BY <2>1, <2>2, <2>3 DEF LastEnds
  <1>23. Near(disk, page', saved, latest, l)
    <2>1. Near(disk, page, saved, latest, l)
      BY <1>5 DEF UpFacts
    <2>2. disk[Len(disk)].boundary \in Int
      BY <1>15 DEF FileFacts
    <2>3. \A q \in 0 .. Cap - 1 : q < disk[Len(disk)].boundary => q < b
      BY <1>9, <1>11, <2>1, <2>2 DEF Near
    <2> QED BY <1>9, <1>11, <2>1, <2>3 DEF Near
  <1>24. Publishing(page', x)
    <2>1. page'.cells[x.pos] = p /\ page'.boundary = x.pos + p.size
          /\ \A q \in x.pos + 1 .. page'.boundary - 1 : page'.cells[q] = Inside
      BY <1>9, <1>12
    <2>2. p.kind \in IF x.left = 0 THEN {"normal", "last"} ELSE {"first", "cont"}
      <3>1. CASE Single(c)
        <4>1. p = Piece("normal", c.id, c.total, c.total)
          BY <1>2, <3>1 DEF NextPiece
        <4>2. p.kind = "normal" /\ p.size = c.total
          BY <4>1 DEF Piece
        <4> QED BY <1>12, <1>13, <3>1, <4>2
      <3>2. CASE ~Single(c)
        <4>1. PICK n : n = IF c.left < Cap - b THEN c.left ELSE Cap - b
          OBVIOUS
        <4>2. p = IF c.left = c.total THEN Piece("first", c.id, n, c.total)
                  ELSE Piece(IF n = c.left THEN "last" ELSE "cont", c.id, n, c.total)
          BY <1>2, <1>9, <3>2, <4>1 DEF NextPiece
        <4>3. /\ p.size = n
              /\ p.kind = IF c.left = c.total THEN "first"
                          ELSE IF n = c.left THEN "last" ELSE "cont"
          BY <4>2 DEF Piece
        <4>4. c.total > Cap /\ n \in Nat
          BY <1>9, <1>13, <3>2, <4>1, CapAssumption DEF Single
        <4>5. (x.left = 0 <=> n = c.left) /\ (n = c.left => c.left # c.total)
          BY <1>9, <1>12, <1>13, <4>1, <4>3, <4>4, CapAssumption
        <4> QED BY <4>3, <4>5
      <3> QED BY <3>1, <3>2
    <2> QED BY <2>1, <2>2 DEF Publishing
  <1>25. GoesOn(t, x)
    BY <1>3, <1>4, <1>8, <1>9, <1>11, <1>12, <1>24 DEF GoesOn, AppendPCs
  <1>26. Safe(e)'
    BY <1>3, <1>5 DEF UpFacts, Safe
  <1>27. /\ Near(disk', page', saved', latest', l) /\ Laid(File', logged', e)
         /\ LastEnds(File', Len(logged'), e, l)
         /\ Pending(x, File', e[Len(logged')], disk'[Len(disk')].boundary, saved')
         /\ IF x.pc = "publish" THEN x.pos = l ELSE l = page'.boundary
    BY <1>3, <1>11, <1>12, <1>14, <1>18, <1>21, <1>22, <1>23
  <1> QED BY <1>25, <1>26, <1>27, AppendGoesOn

\* What is known when a piece is to be published.
LEMMA PublishFacts ==
    ASSUME LogTypes, ContentInv, NEW t \in Threads, Publish(t)
    PROVE  \E e, l, s :
              /\ UpFacts(e, l) /\ phase = "up" /\ cur = Len(disk) /\ call[t].pos = l
              /\ s \in Starts /\ l \in 0 .. Cap - 1
              /\ Started(call[t], File, e[Len(logged)], s, disk[Len(disk)].boundary, saved)
              /\ Publishing(page, call[t])
              /\ page.cells[l].size \in Nat \ {0} /\ page.boundary = l + page.cells[l].size
              /\ Near(disk, page, saved, latest', page.boundary)
              /\ saved < latest'
  <1>1. call[t].pc = "publish" /\ latest' = LSN([blk |-> cur, pos |-> call[t].pos])
    BY DEF Publish
  <1>2. phase = "up" /\ \A u \in Threads : u # t => call[u].pc = "idle"
    BY <1>1, Alone DEF AppendPCs
  <1>3. PICK e, l : UpFacts(e, l)
    BY <1>2, WhenUp
  <1>4. call[t].pos = l /\ cur = Len(disk) /\ Publishing(page, call[t])
    BY <1>1, <1>2, <1>3 DEF UpFacts, Contents, Limit, Callers
  <1>5. l \in 0 .. Cap - 1 /\ page \in GoodBlock /\ Len(disk) \in Nat \ {0} /\ Cap \in Nat \ {0}
        /\ latest \in Nat /\ saved \in Nat /\ page.boundary \in 0 .. Cap
        /\ disk[Len(disk)].boundary \in -1 .. Cap
    <2>1. call[t] \in Calls(Len(disk))
      BY DEF LogTypes
    <2> QED BY <1>3, <1>4, <2>1 DEF LogTypes, Calls, UpFacts, FileFacts
  <1>6. page.cells[l].size \in Nat \ {0} /\ page.boundary = l + page.cells[l].size
    BY <1>4, <1>5 DEF Publishing, GoodBlock, GoodPiece
  <1>7. PICK m : m = Len(disk) * Cap
    OBVIOUS
  <1>8. m \in Nat /\ latest' = m + l
    BY <1>1, <1>4, <1>5, <1>7 DEF LSN
  <1>9. /\ saved <= latest /\ latest < m + l
        /\ disk[Len(disk)].boundary <= l /\ l <= page.boundary
        /\ \A p \in 0 .. Cap - 1 :
              p < disk[Len(disk)].boundary => disk[Len(disk)].cells[p] = page.cells[p]
    BY <1>3, <1>7 DEF UpFacts, Near
  <1>10. saved < latest' /\ saved <= latest' /\ latest' < m + page.boundary
         /\ disk[Len(disk)].boundary <= page.boundary
    <2>1. PICK db, pb, sz : /\ db = disk[Len(disk)].boundary /\ pb = page.boundary
                            /\ sz = page.cells[l].size
      OBVIOUS
    <2>2. sz \in Nat \ {0} /\ pb = l + sz /\ db \in -1 .. Cap /\ db <= l /\ l \in 0 .. Cap - 1
      BY <1>5, <1>6, <1>9, <2>1
    <2>3. db <= pb /\ l < pb /\ saved < m + l /\ m + l < m + pb
      BY <1>5, <1>8, <1>9, <2>2
    <2> QED BY <1>5, <1>8, <2>1, <2>3
  <1>11. Near(disk, page, saved, latest', page.boundary)
    BY <1>5, <1>7, <1>9, <1>10 DEF Near
  <1>12. Pending(call[t], File, e[Len(logged)], disk[Len(disk)].boundary, saved)
    BY <1>1, <1>3 DEF UpFacts, Contents, AppendPCs
  <1>13. PICK s \in Starts :
            Started(call[t], File, e[Len(logged)], s, disk[Len(disk)].boundary, saved)
    BY <1>1, <1>12 DEF Pending, NotBegun
  <1> QED BY <1>2, <1>3, <1>4, <1>5, <1>6, <1>10, <1>11, <1>13

\* A fragment is published, and the record goes on (log.go:203, 365).
LEMMA PublishPart ==
    ASSUME LogTypes, LogTypes', ContentInv, NEW t \in Threads, Publish(t), call[t].left > 0
    PROVE  ContentInv'
  <1>1. PICK c : c = call[t]
    OBVIOUS
  <1>2. PICK e, l, s :
              /\ UpFacts(e, l) /\ phase = "up" /\ cur = Len(disk) /\ c.pos = l
              /\ s \in Starts /\ l \in 0 .. Cap - 1
              /\ Started(c, File, e[Len(logged)], s, disk[Len(disk)].boundary, saved)
              /\ Publishing(page, c)
              /\ page.cells[l].size \in Nat \ {0} /\ page.boundary = l + page.cells[l].size
              /\ Near(disk, page, saved, latest', page.boundary)
    BY <1>1, PublishFacts
  <1>3. /\ c.pc = "publish" /\ Goto(t, "put")
        /\ UNCHANGED <<phase, header, disk, page, cur, saved, logged, acked, used>>
    BY <1>1 DEF Publish
  <1>4. PICK x \in Calls(Len(disk)) :
              /\ call' = [call EXCEPT ![t] = x] /\ x.pc = "put"
              /\ x.id = c.id /\ x.total = c.total /\ x.left = c.left
              /\ x.lsn = c.lsn
    BY <1>1, <1>3, GotoCall DEF AppendPCs
  <1>5. \A u \in Threads : u # t => call[u].pc = "idle"
    BY <1>1, <1>3, Alone DEF AppendPCs
  <1>6. c.left > 0 /\ c.left # 0
    BY <1>1
  <1>7. PICK k \in 1 .. Len(File) : Begun(c, File, s, k)
    BY <1>2, <1>6 DEF Started, Ended
  <1>8. Begun(x, File, s, k)
    BY <1>3, <1>4, <1>7 DEF Begun
  <1>9. Started(x, File, e[Len(logged)], s, disk[Len(disk)].boundary, saved)
    BY <1>2, <1>3, <1>4, <1>8 DEF Started
  <1>10. Pending(x, File, e[Len(logged)], disk[Len(disk)].boundary, saved)
    BY <1>2, <1>9 DEF Pending
  <1>11. LastEnds(File, Len(logged), e, page.boundary)
    <2>1. LastEnds(File, Len(logged), e, l) /\ File[Len(disk)] = page /\ Len(File) = Len(disk)
      BY <1>2 DEF UpFacts, FileFacts
    <2>2. ASSUME NEW q \in 0 .. Cap - 1, q < page.boundary,
                 page.cells[q].kind \in {"normal", "last"}
          PROVE  q < l
      <3>1. page.cells[l].kind \in {"first", "cont"}
            /\ \A p \in l + 1 .. page.boundary - 1 : page.cells[p] = Inside
        BY <1>2, <1>6 DEF Publishing
      <3>2. q # l
        BY <2>2, <3>1
      <3>3. q \notin l + 1 .. page.boundary - 1
        BY <2>2, <3>1 DEF Inside, Piece
      <3> QED BY <1>2, <2>2, <3>2, <3>3 DEF UpFacts
    <2> QED BY <2>1, <2>2 DEF LastEnds
  <1>12. GoesOn(t, x)
    BY <1>2, <1>3, <1>4, <1>5 DEF GoesOn, AppendPCs, UpFacts
  <1>13. Safe(e)'
    BY <1>2, <1>3 DEF UpFacts, Safe
  <1>14. File' = File /\ Laid(File, logged, e)
    BY <1>2, <1>3 DEF File, UpFacts
  <1>15. PICK m : m = page.boundary
    OBVIOUS
  <1>16. /\ Near(disk', page', saved', latest', m) /\ Laid(File', logged', e)
         /\ LastEnds(File', Len(logged'), e, m)
         /\ Pending(x, File', e[Len(logged')], disk'[Len(disk')].boundary, saved')
         /\ IF x.pc = "publish" THEN x.pos = m ELSE m = page'.boundary
    BY <1>2, <1>3, <1>4, <1>10, <1>11, <1>14, <1>15
  <1> QED BY <1>12, <1>13, <1>16, AppendGoesOn

\* The record that is published ends where the page ends, at piece l or with it.
LEMMA LastEndsAppend ==
    ASSUME NEW d \in Seq(GoodBlock), d # <<>>, NEW n \in Nat, NEW e, NEW l \in 0 .. Cap - 1,
           LastEnds(d, n, e, l), NEW s \in Starts, NEW b \in Spots, NEW id,
           e[n] \in Spots, RecordIs(d, e[n], s, b, id), b.blk = Len(d), NEW m \in 0 .. Cap,
           b = [blk |-> Len(d), pos |-> m],
           m = l + d[Len(d)].cells[l].size,
           \A q \in l + 1 .. m - 1 : d[Len(d)].cells[q] = Inside,
           NEW g, g[n + 1] = b, \A k \in 0 .. n : g[k] = e[k]
    PROVE  LastEnds(d, n + 1, g, m)
  <1>1. PICK a \in Spots : a = e[n]
    OBVIOUS
  <1>2. /\ a.blk <= s.blk /\ s.blk <= b.blk /\ (s.blk = a.blk => s = a)
        /\ s.blk = b.blk => s.pos < b.pos /\ Normal(d, s, b, id)
    <2>1. RecordIs(d, a, s, b, id)
      BY <1>1
    <2> QED BY <2>1, RecordFacts
  <1>3. Len(d) \in Nat \ {0} /\ Cap \in Nat \ {0}
    BY CapAssumption
  <1>4. e[n].blk < Len(d) \/ e[n].pos <= l
    <2>1. CASE s.blk = b.blk
      <3>1. s.pos < m /\ d[Len(d)].cells[s.pos].kind = "normal" /\ (s.blk = e[n].blk => s = e[n])
            /\ e[n].blk <= s.blk
        <4>1. b.blk = Len(d) /\ b.pos = m /\ s.blk = Len(d)
          BY <2>1
        <4>2. s.pos < b.pos /\ d[s.blk].cells[s.pos].kind = "normal"
          BY <1>2, <2>1 DEF Normal
        <4>3. (s.blk = e[n].blk => s = e[n]) /\ e[n].blk <= s.blk
          BY <1>1, <1>2
        <4> QED BY <4>1, <4>2, <4>3
      <3>2. s.pos \notin l + 1 .. m - 1
        BY <3>1 DEF Inside, Piece
      <3>3. s.pos <= l
        BY <3>1, <3>2 DEF Starts
      <3>4. e[n].blk \in Nat
        BY DEF Spots
      <3> QED BY <1>3, <2>1, <3>1, <3>3, <3>4
    <2>2. CASE s.blk # b.blk
      <3>1. e[n].blk <= s.blk /\ s.blk <= b.blk
        BY <1>1, <1>2
      <3>2. e[n].blk \in Nat /\ s.blk \in Nat
        BY DEF Spots, Starts
      <3> QED BY <1>3, <2>2, <3>1, <3>2
    <2> QED BY <2>1, <2>2
  <1>5. ASSUME NEW p \in 0 .. Cap - 1, p < m, d[Len(d)].cells[p].kind \in {"normal", "last"}
        PROVE  \E i \in 1 .. n + 1 :
                  /\ g[i] = [blk |-> Len(d), pos |-> p + d[Len(d)].cells[p].size]
                  /\ g[i - 1].blk < Len(d) \/ g[i - 1].pos <= p
    <2>1. p \notin l + 1 .. m - 1
      BY <1>5 DEF Inside, Piece
    <2>2. CASE p = l
      <3>1. g[n + 1] = [blk |-> Len(d), pos |-> p + d[Len(d)].cells[p].size]
        BY <2>2
      <3>2. (n + 1) - 1 = n /\ n + 1 \in 1 .. n + 1 /\ g[n] = e[n]
        OBVIOUS
      <3> QED BY <1>4, <2>2, <3>1, <3>2
    <2>3. CASE p < l
      <3>1. PICK i \in 1 .. n :
                  /\ e[i] = [blk |-> Len(d), pos |-> p + d[Len(d)].cells[p].size]
                  /\ e[i - 1].blk < Len(d) \/ e[i - 1].pos <= p
        BY <1>5, <2>3 DEF LastEnds
      <3>2. i \in 0 .. n /\ i - 1 \in 0 .. n /\ i \in 1 .. n + 1
        OBVIOUS
      <3> QED BY <3>1, <3>2
    <2>4. p = l \/ p < l
      BY <1>5, <2>1
    <2> QED BY <2>2, <2>3, <2>4
  <1> QED BY <1>5 DEF LastEnds

\* The last piece is published, and the record is in the log (log.go:148).
LEMMA PublishLast ==
    ASSUME LogTypes, LogTypes', ContentInv, NEW t \in Threads, Publish(t), ~(call[t].left > 0)
    PROVE  ContentInv'
  <1>1. PICK c : c = call[t]
    OBVIOUS
  <1>2. PICK e, l, s :
              /\ UpFacts(e, l) /\ phase = "up" /\ cur = Len(disk) /\ c.pos = l
              /\ s \in Starts /\ l \in 0 .. Cap - 1
              /\ Started(c, File, e[Len(logged)], s, disk[Len(disk)].boundary, saved)
              /\ Publishing(page, c)
              /\ page.cells[l].size \in Nat \ {0} /\ page.boundary = l + page.cells[l].size
              /\ Near(disk, page, saved, latest', page.boundary) /\ saved < latest'
    BY <1>1, PublishFacts
  <1>3. PICK r : r = [lsn |-> c.lsn, id |-> c.id]
    OBVIOUS
  <1>4. /\ c.pc = "publish" /\ call' = [call EXCEPT ![t] = Idle]
        /\ logged' = Append(logged, r)
        /\ UNCHANGED <<phase, header, disk, page, cur, saved, acked, used>>
    BY <1>1, <1>3 DEF Publish
  <1>5. \A u \in Threads : u # t => call[u].pc = "idle"
    BY <1>1, <1>4, Alone DEF AppendPCs
  <1>6. \A u \in Threads : call'[u].pc = "idle"
    BY <1>4, <1>5 DEF LogTypes, Idle
  <1>7. \A u \in Threads : call'[u].pc \notin AppendPCs \cup FlushPCs
                           /\ call'[u].pc \notin {"publish", "switch", "write", "save", "roll"}
    BY <1>6 DEF AppendPCs, FlushPCs
  <1>8. /\ r \in ReadRecords /\ logged \in Seq(ReadRecords) /\ Len(logged) \in Nat
        /\ header \in Int /\ acked \in 0 .. Len(logged) /\ r.lsn = c.lsn /\ r.id = c.id
        /\ c.left = 0
    <2>1. c.lsn \in Nat /\ c.id \in Nat /\ c.left \in Nat /\ ~(c.left > 0)
      <3>1. call[t] \in Calls(Len(disk))
        BY DEF LogTypes
      <3> QED BY <1>1, <3>1 DEF Calls
    <2>2. r.lsn = c.lsn /\ r.id = c.id /\ r \in ReadRecords
      BY <1>3, <2>1 DEF ReadRecords
    <2>3. logged \in Seq(ReadRecords) /\ header \in Int /\ acked \in 0 .. Len(logged)
      BY DEF LogTypes
    <2> QED BY <2>1, <2>2, <2>3
  <1>9. PICK n : n = Len(logged)
    OBVIOUS
  <1>10. n \in Nat /\ Len(logged') = n + 1 /\ logged'[n + 1] = r
         /\ \A i \in 1 .. n : logged'[i] = logged[i]
    BY <1>4, <1>8, <1>9
  <1>11. PICK m, L : m = page.boundary /\ L = Len(disk)
    OBVIOUS
  <1>12. PICK b : b = [blk |-> L, pos |-> m]
    OBVIOUS
  <1>13. /\ m \in 0 .. Cap /\ L \in Nat \ {0} /\ b \in Spots /\ b.blk = L /\ b.pos = m
         /\ File \in Seq(GoodBlock) /\ File # <<>> /\ Len(File) = L /\ File[L] = page
         /\ e[n] \in Spots /\ Laid(File, logged, e) /\ LastEnds(File, n, e, l)
         /\ Phases /\ Callers /\ Safe(e)
    BY <1>2, <1>9, <1>11, <1>12 DEF UpFacts, FileFacts, Spots
  <1>14. ~\E k \in 1 .. Len(File) : Begun(c, File, s, k)
    BY <1>8 DEF Begun
  <1>15. RecordIs(File, e[n], s, b, r.id) /\ c.lsn = LSN(s)
         /\ (s.blk < Len(File) => disk[Len(disk)].boundary <= 0)
         /\ (s.blk = Len(File) => saved < c.lsn)
    <2>1. Ended(c, File, s)
      BY <1>2, <1>14 DEF Started
    <2>2. Whole(File, s, b, c.id)
      BY <1>11, <1>12, <1>13, <2>1 DEF Ended
    <2> QED BY <1>2, <1>4, <1>8, <1>9, <2>2 DEF Started, RecordIs
  <1>16. PICK g : g = [k \in 0 .. n + 1 |-> IF k = n + 1 THEN b ELSE e[k]]
    OBVIOUS
  <1>17. g[n + 1] = b /\ \A k \in 0 .. n : g[k] = e[k]
    BY <1>10, <1>16
  <1>18. Laid(File, logged', g)
    <2>1. RecordAt(File, e[Len(logged)], r, b)
      BY <1>2, <1>8, <1>9, <1>15 DEF RecordAt
    <2> QED BY <1>4, <1>8, <1>9, <1>13, <1>16, <2>1, LaidAppend
  <1>19. LastEnds(File, n + 1, g, m)
    <2>1. m = l + File[Len(File)].cells[l].size
      BY <1>2, <1>11, <1>13
    <2>2. \A q \in l + 1 .. m - 1 : File[Len(File)].cells[q] = Inside
      BY <1>2, <1>11, <1>13 DEF Publishing
    <2>3. b.blk = Len(File) /\ b = [blk |-> Len(File), pos |-> m]
      BY <1>12, <1>13
    <2>4. PICK f \in Seq(GoodBlock) : f = File
      BY <1>13
    <2>5. /\ f # <<>> /\ b = [blk |-> Len(f), pos |-> m] /\ b.blk = Len(f)
          /\ LastEnds(f, n, e, l) /\ RecordIs(f, e[n], s, b, r.id)
          /\ m = l + f[Len(f)].cells[l].size
          /\ \A q \in l + 1 .. m - 1 : f[Len(f)].cells[q] = Inside
      BY <1>13, <1>15, <2>1, <2>2, <2>3, <2>4
    <2>6. n \in Nat /\ l \in 0 .. Cap - 1 /\ s \in Starts /\ b \in Spots /\ m \in 0 .. Cap
          /\ e[n] \in Spots
      BY <1>2, <1>10, <1>13
    <2>7. LastEnds(f, n + 1, g, m)
      <3> HIDE DEF File
      <3> QED BY <1>17, <2>5, <2>6, LastEndsAppend
    <2> QED BY <2>4, <2>7
  <1>20. AtEnd(File, g[n + 1])
    BY <1>11, <1>13, <1>17 DEF AtEnd
  <1>21. Safe(g)'
    <2>1. ASSUME NEW i \in 1 .. n + 1, i <= acked \/ logged'[i].lsn <= saved
          PROVE  Kept(disk, logged'[i], g[i])
      <3>1. CASE i = n + 1
        <4>1. ~(i <= acked)
          BY <1>8, <1>9, <1>10, <3>1
        <4>2. c.lsn <= saved
          BY <1>8, <1>10, <2>1, <3>1, <4>1
        <4>3. c.lsn \in Nat /\ saved \in Nat
          BY <1>1 DEF LogTypes, Calls
        <4>4. s.blk # L
          BY <1>13, <1>15, <4>2, <4>3
        <4>5. s.blk <= b.blk /\ s.blk \in 1 .. Len(File)
          <5>1. PICK a \in Spots : a = e[n]
            BY <1>13
          <5>2. RecordIs(File, a, s, b, r.id)
            BY <1>15, <5>1
          <5> QED BY <1>2, <1>13, <5>2, RecordFacts
        <4>6. s.blk < L /\ L >= 2
          BY <1>13, <4>4, <4>5
        <4>7. LSN(s) < L * Cap
          BY <1>2, <1>13, <4>6, LSNPlace
        <4>8. Kept(disk, r, g[i])
          BY <1>8, <1>11, <1>13, <1>15, <4>6, <4>7 DEF Kept
        <4> QED BY <1>10, <3>1, <4>8
      <3>2. CASE i # n + 1
        <4>1. i \in 1 .. n /\ logged'[i] = logged[i] /\ g[i] = e[i]
          BY <1>10, <1>17, <3>2
        <4> QED BY <1>9, <1>13, <2>1, <4>1 DEF Safe
      <3> QED BY <3>1, <3>2
    <2> QED BY <1>4, <1>10, <2>1 DEF Safe
  <1>22. File' = File
    BY <1>4 DEF File
  <1>23. Limit(m)'
    BY <1>2, <1>4, <1>7, <1>11 DEF Limit
  <1>24. InStep'
    BY <1>2, <1>4 DEF InStep
  <1>25. Contents(g, m)'
    <2>1. Near(disk', page', saved', latest', m)
      BY <1>2, <1>4, <1>11
    <2>2. phase' = "up" /\ Laid(File', logged', g) /\ LastEnds(File', Len(logged'), g, m)
          /\ AtEnd(File', g[Len(logged')])
      BY <1>2, <1>4, <1>10, <1>18, <1>19, <1>20, <1>22
    <2> QED BY <1>7, <1>21, <1>23, <1>24, <2>1, <2>2 DEF Contents
  <1>26. Phases'
    BY <1>2, <1>4, <1>8, <1>13 DEF Phases
  <1>27. Callers'
    BY <1>2, <1>4, <1>7 DEF Callers
  <1> QED BY <1>25, <1>26, <1>27 DEF ContentInv

\* When all records are on disk, so are those that must be.
LEMMA SafeAll ==
    ASSUME NEW d \in Seq(GoodBlock), NEW lg \in Seq(ReadRecords), NEW e, Laid(d, lg, e)
    PROVE  \A i \in 1 .. Len(lg) : Kept(d, lg[i], e[i])
  <1>1. \A i \in 1 .. Len(lg) : Within(d, e[i])
    BY LaidFacts
  <1> QED BY <1>1 DEF Kept

\* The page is written to the last block (log.go:314, 322).
LEMMA DiskWritten ==
    ASSUME LogTypes, LogTypes', NEW e, NEW l, UpFacts(e, l), l = page.boundary, phase = "up",
           disk' = [disk EXCEPT ![Len(disk)] = page],
           UNCHANGED <<phase, page, latest, saved, logged>>
    PROVE  /\ File' = File /\ disk' = File /\ disk' # <<>> /\ Len(disk') = Len(disk)
           /\ disk'[Len(disk')] = page' /\ Near(disk', page', saved', latest', l) /\ Safe(e)'
           /\ Laid(File', logged', e) /\ LastEnds(File', Len(logged'), e, l)
  <1>1. PICK L, pg : L = Len(disk) /\ pg = page
    OBVIOUS
  <1>2. PICK d, f : d = disk /\ f = disk'
    OBVIOUS
  <1>3. /\ d \in [1 .. L -> GoodBlock] /\ L \in Nat \ {0} /\ L \in 1 .. L /\ pg \in GoodBlock
        /\ f = [d EXCEPT ![L] = pg] /\ d \in Seq(GoodBlock)
    BY <1>1, <1>2 DEF UpFacts, LogTypes
  <1>4. f[L] = pg /\ [f EXCEPT ![L] = pg] = f
    BY <1>3
  <1>5. Len(f) = L /\ f # <<>> /\ f \in Seq(GoodBlock)
    BY <1>3, FileType
  <1>6. File = f /\ File' = f
    BY <1>1, <1>2, <1>3, <1>4, <1>5 DEF File, FileOf
  <1>7. Laid(File, logged, e) /\ LastEnds(File, Len(logged), e, l)
        /\ saved <= latest /\ latest < L * Cap + l /\ page.boundary \in 0 .. Cap
    BY <1>1 DEF UpFacts, Near
  <1>8. Near(f, pg, saved, latest, l)
    BY <1>1, <1>4, <1>5, <1>7 DEF Near
  <1>9. logged \in Seq(ReadRecords)
    BY DEF LogTypes
  <1>10. \A i \in 1 .. Len(logged) : Kept(f, logged[i], e[i])
    BY <1>5, <1>6, <1>7, <1>9, SafeAll
  <1>11. Safe(e)'
    BY <1>2, <1>10 DEF Safe
  <1> QED BY <1>1, <1>2, <1>4, <1>5, <1>6, <1>7, <1>8, <1>11

\* The block is full, and is written before the next one is appended (log.go:335).
LEMMA RollWriteContents ==
    ASSUME LogTypes, LogTypes', ContentInv, NEW t \in Threads, RollWrite(t)
    PROVE  ContentInv'
  <1>1. PICK c : c = call[t]
    OBVIOUS
  <1>2. /\ c.pc = "put" /\ MustRoll(c) /\ disk' = [disk EXCEPT ![cur] = page] /\ Goto(t, "roll")
        /\ UNCHANGED <<phase, header, page, cur, latest, saved, logged, acked, used>>
    BY <1>1 DEF RollWrite, WritePage
  <1>3. phase = "up" /\ \A u \in Threads : u # t => call[u].pc = "idle"
    BY <1>1, <1>2, Alone DEF AppendPCs
  <1>4. PICK e, l : UpFacts(e, l)
    BY <1>3, WhenUp
  <1>5. \A u \in Threads : call[u].pc # "publish" /\ call[u].pc # "switch"
    BY <1>1, <1>2, <1>3
  <1>6. l = page.boundary /\ cur = Len(disk)
    BY <1>3, <1>4, <1>5 DEF UpFacts, Contents, Limit, Callers
  <1>7. /\ File' = File /\ disk' = File /\ disk' # <<>> /\ Len(disk') = Len(disk)
        /\ disk'[Len(disk')] = page' /\ Near(disk', page', saved', latest', l) /\ Safe(e)'
        /\ Laid(File', logged', e) /\ LastEnds(File', Len(logged'), e, l)
    BY <1>2, <1>3, <1>4, <1>6, DiskWritten
  <1>8. PICK x \in Calls(Len(disk)) :
              /\ call' = [call EXCEPT ![t] = x] /\ x.pc = "roll"
              /\ x.id = c.id /\ x.total = c.total /\ x.left = c.left
              /\ x.lsn = c.lsn
    BY <1>1, <1>2, GotoCall DEF AppendPCs
  <1>9. /\ Len(disk) \in Nat \ {0} /\ Cap \in Nat \ {0} /\ page.boundary \in 0 .. Cap
        /\ Len(File) = Len(disk) /\ File[Len(File)] = page
    BY <1>4 DEF UpFacts, FileFacts
  <1>10. (Single(c) => c.total > Cap - page.boundary) /\ (~Single(c) => page.boundary = Cap)
    BY <1>2, <1>9 DEF MustRoll, Room
  <1>11. PICK a, low, n : /\ a = e[Len(logged)] /\ low = disk[Len(disk)].boundary
                          /\ n = disk'[Len(disk')].boundary
    OBVIOUS
  <1>12. Pending(c, File, a, low, saved)
    BY <1>1, <1>2, <1>3, <1>4, <1>11 DEF UpFacts, Contents, AppendPCs
  <1>13. Pending(x, File, a, n, saved)
    <2>1. CASE NotBegun(c, File, a)
      <3>1. ~AfterRoll(File, a)
        <4>1. SUFFICES ASSUME page.boundary = 0 PROVE FALSE
          BY <1>9 DEF AfterRoll, Rolled
        <4>2. c.total \in Nat
          BY <1>1 DEF LogTypes, Calls
        <4> QED BY <1>9, <1>10, <4>1, <4>2 DEF Single
      <3>2. NotBegun(x, File, a)
        BY <1>2, <1>8, <2>1, <3>1 DEF NotBegun
      <3> QED BY <3>2 DEF Pending
    <2>2. CASE \E s \in Starts : Started(c, File, a, s, low, saved)
      <3>1. PICK s \in Starts : Started(c, File, a, s, low, saved)
        BY <2>2
      <3>2. PICK k \in 1 .. Len(File) : Begun(c, File, s, k)
        BY <1>2, <3>1 DEF Started, Ended
      <3>3. k = Len(File)
        <4>1. ~Single(c)
          <5>1. c.total > Cap
            BY <3>2 DEF Begun, Frags
          <5>2. c.total \in Nat
            BY <1>1 DEF LogTypes, Calls
          <5> QED BY <1>9, <5>1, <5>2 DEF Single
        <4>2. ~Rolled(File)
          BY <1>9, <1>10, <4>1 DEF Rolled
        <4> QED BY <3>2, <4>2 DEF Begun
      <3>4. Begun(x, File, s, k)
        BY <1>8, <3>2, <3>3 DEF Begun
      <3>5. Started(x, File, a, s, n, saved)
        BY <1>8, <3>1, <3>4 DEF Started
      <3> QED BY <3>5 DEF Pending
    <2> QED BY <1>12, <2>1, <2>2 DEF Pending
  <1>14. GoesOn(t, x)
    BY <1>2, <1>3, <1>6, <1>7, <1>8, <1>9 DEF GoesOn, AppendPCs
  <1>15. /\ Pending(x, File', e[Len(logged')], disk'[Len(disk')].boundary, saved')
         /\ IF x.pc = "publish" THEN x.pos = l ELSE l = page'.boundary
    BY <1>2, <1>6, <1>7, <1>8, <1>11, <1>13
  <1> QED BY <1>7, <1>14, <1>15, AppendGoesOn

\* The new block is written, and becomes the current one (log.go:314, 342).
LEMMA RollSwitchContents ==
    ASSUME LogTypes, LogTypes', ContentInv, NEW t \in Threads, RollSwitch(t)
    PROVE  ContentInv'
  <1>1. PICK c : c = call[t]
    OBVIOUS
  <1>2. /\ c.pc = "switch" /\ disk' = [disk EXCEPT ![Len(disk)] = page] /\ Goto(t, "put")
        /\ cur' = Len(disk)
        /\ UNCHANGED <<phase, header, page, latest, saved, logged, acked, used>>
    BY <1>1 DEF RollSwitch, WritePage, NewBlock
  <1>3. phase = "up" /\ \A u \in Threads : u # t => call[u].pc = "idle"
    BY <1>1, <1>2, Alone DEF AppendPCs
  <1>4. PICK e, l : UpFacts(e, l)
    BY <1>3, WhenUp
  <1>5. \A u \in Threads : call[u].pc # "publish"
    BY <1>1, <1>2, <1>3
  <1>6. l = page.boundary
    BY <1>3, <1>4, <1>5 DEF UpFacts, Contents, Limit
  <1>7. /\ File' = File /\ disk' = File /\ disk' # <<>> /\ Len(disk') = Len(disk)
        /\ disk'[Len(disk')] = page' /\ Near(disk', page', saved', latest', l) /\ Safe(e)'
        /\ Laid(File', logged', e) /\ LastEnds(File', Len(logged'), e, l)
    BY <1>2, <1>3, <1>4, <1>6, DiskWritten
  <1>8. PICK x \in Calls(Len(disk)) :
              /\ call' = [call EXCEPT ![t] = x] /\ x.pc = "put"
              /\ x.id = c.id /\ x.total = c.total /\ x.left = c.left
              /\ x.lsn = c.lsn
    BY <1>1, <1>2, GotoCall DEF AppendPCs
  <1>9. /\ Len(disk) \in Nat \ {0} /\ Cap \in Nat \ {0} /\ page.boundary \in 0 .. Cap
        /\ Len(File) = Len(disk) /\ File[Len(File)] = page
    BY <1>4 DEF UpFacts, FileFacts
  <1>10. PICK a, low, n : /\ a = e[Len(logged)] /\ low = disk[Len(disk)].boundary
                          /\ n = disk'[Len(disk')].boundary
    OBVIOUS
  <1>11. Pending(c, File, a, low, saved)
    BY <1>1, <1>2, <1>3, <1>4, <1>10 DEF UpFacts, Contents, AppendPCs
  <1>12. Pending(x, File, a, n, saved)
    <2>1. CASE NotBegun(c, File, a)
      <3>1. NotBegun(x, File, a)
        BY <1>2, <1>8, <2>1 DEF NotBegun
      <3> QED BY <3>1 DEF Pending
    <2>2. CASE \E s \in Starts : Started(c, File, a, s, low, saved)
      <3>1. PICK s \in Starts : Started(c, File, a, s, low, saved)
        BY <2>2
      <3>2. PICK k \in 1 .. Len(File) : Begun(c, File, s, k)
        BY <1>2, <3>1 DEF Started, Ended
      <3>3. k = Len(File) - 1 /\ Rolled(File)
        BY <1>2, <1>9, <3>2 DEF Begun
      <3>4. Begun(x, File, s, k)
        BY <1>8, <3>2, <3>3 DEF Begun
      <3>5. n <= 0
        BY <1>7, <1>10, <3>3 DEF Rolled
      <3>6. Started(x, File, a, s, n, saved)
        BY <1>8, <3>1, <3>4, <3>5 DEF Started
      <3> QED BY <3>6 DEF Pending
    <2> QED BY <1>11, <2>1, <2>2 DEF Pending
  <1>13. GoesOn(t, x)
    BY <1>2, <1>3, <1>7, <1>8, <1>9 DEF GoesOn, AppendPCs
  <1>14. /\ Pending(x, File', e[Len(logged')], disk'[Len(disk')].boundary, saved')
         /\ IF x.pc = "publish" THEN x.pos = l ELSE l = page'.boundary
    BY <1>2, <1>6, <1>7, <1>8, <1>10, <1>12
  <1> QED BY <1>7, <1>13, <1>14, AppendGoesOn

\* A new block is behind the last one, and the page is empty (log.go:307, 311).
LEMMA RollAppendContents ==
    ASSUME LogTypes, LogTypes', ContentInv, NEW t \in Threads, RollAppend(t)
    PROVE  ContentInv'
  <1>1. PICK c : c = call[t]
    OBVIOUS
  <1>2. /\ c.pc = "roll" /\ saved' = latest /\ disk' = Append(disk, ZeroBlock)
        /\ page' = Reset(page) /\ Goto(t, "switch")
        /\ UNCHANGED <<phase, header, cur, latest, logged, acked, used>>
    BY <1>1 DEF RollAppend
  <1>3. phase = "up" /\ \A u \in Threads : u # t => call[u].pc = "idle"
    BY <1>1, <1>2, Alone DEF AppendPCs
  <1>4. PICK e, l : UpFacts(e, l)
    BY <1>3, WhenUp
  <1>5. \A u \in Threads : call[u].pc # "publish"
    BY <1>1, <1>2, <1>3
  <1>6. l = page.boundary /\ disk[Len(disk)] = page
    BY <1>1, <1>2, <1>3, <1>4, <1>5 DEF UpFacts, Contents, Limit, Callers
  <1>7. PICK x \in Calls(Len(disk)) :
              /\ call' = [call EXCEPT ![t] = x] /\ x.pc = "switch"
              /\ x.id = c.id /\ x.total = c.total /\ x.left = c.left
              /\ x.lsn = c.lsn
    BY <1>1, <1>2, GotoCall DEF AppendPCs
  <1>8. PICK L, d, f, G : L = Len(disk) /\ d = disk /\ f = disk' /\ G = File'
    OBVIOUS
  <1>9. /\ L \in Nat \ {0} /\ Cap \in Nat \ {0} /\ page.boundary \in 0 .. Cap
        /\ File = d /\ d \in Seq(GoodBlock) /\ Laid(d, logged, e) /\ page \in GoodBlock
        /\ saved <= latest /\ latest < L * Cap + l /\ latest \in Nat
        /\ logged \in Seq(ReadRecords) /\ Len(logged) \in Nat
    BY <1>4, <1>6, <1>8 DEF UpFacts, FileFacts, LogTypes, Near
  <1>10. /\ f = Append(d, ZeroBlock) /\ Len(f) = L + 1 /\ f[L + 1] = ZeroBlock /\ f # <<>>
         /\ f \in Seq(GoodBlock) /\ \A b \in 1 .. L : f[b] = d[b]
    <2>1. ZeroBlock \in GoodBlock
      BY Fresh
    <2> QED BY <1>2, <1>8, <1>9, <2>1
  <1>11. page' \in GoodBlock /\ page'.boundary = 0
    BY <1>2, <1>9 DEF Reset, GoodBlock, LogTypes
  <1>12. /\ G \in Seq(GoodBlock) /\ Len(G) = L + 1 /\ G[L + 1] = page'
         /\ \A b \in 1 .. L : G[b] = d[b]
    <2>1. FileFacts("up", f, page', FileOf("up", f, page'))
      BY <1>10, <1>11, FileIs
    <2>2. G = FileOf("up", f, page')
      BY <1>2, <1>3, <1>8 DEF File
    <2>3. /\ G \in Seq(GoodBlock) /\ Len(G) = L + 1 /\ G[L + 1] = page'
          /\ \A b \in 1 .. L + 1 : b < L + 1 => G[b] = f[b]
      BY <1>10, <2>1, <2>2 DEF FileFacts
    <2>4. \A b \in 1 .. L : b \in 1 .. L + 1 /\ b < L + 1
      BY <1>9
    <2> QED BY <1>10, <2>3, <2>4
  <1>13. Grown(d, G)
    <2>1. ASSUME NEW b \in 1 .. L
          PROVE  /\ d[b].boundary <= G[b].boundary /\ d[b].boundary = G[b].boundary
                 /\ \A p \in 0 .. Cap - 1 : G[b].cells[p] = d[b].cells[p]
      <3>1. d[b] \in GoodBlock /\ G[b] = d[b]
        BY <1>8, <1>9, <1>12
      <3>2. d[b].boundary \in Int
        BY <3>1, CapAssumption DEF GoodBlock
      <3> QED BY <3>1, <3>2
    <2> QED BY <1>8, <1>9, <1>12, <2>1 DEF Grown
  <1>14. Laid(G, logged, e)
    BY <1>9, <1>13, GrownLaid
  <1>15. LastEnds(G, Len(logged), e, 0)
    BY <1>9 DEF LastEnds
  <1>16. f[L + 1].boundary = -1
    BY <1>10 DEF ZeroBlock
  <1>17. Near(f, page', latest, latest, 0)
    <2>1. PICK m : m = L * Cap
      OBVIOUS
    <2>2. m \in Nat /\ (L + 1) * Cap = m + Cap
      BY <1>9, <2>1
    <2>3. latest < (L + 1) * Cap + 0
      BY <1>6, <1>9, <2>1, <2>2
    <2>4. \A p \in 0 .. Cap - 1 : ~(p < -1)
      BY <1>9
    <2> QED BY <1>9, <1>10, <1>11, <1>16, <2>3, <2>4 DEF Near
  <1>18. PICK a, low : a = e[Len(logged)] /\ low = disk[Len(disk)].boundary
    OBVIOUS
  <1>19. Pending(c, d, a, low, saved) /\ a \in Spots
    BY <1>1, <1>2, <1>3, <1>4, <1>9, <1>18 DEF UpFacts, Contents, AppendPCs
  <1>20. Rolled(G)
    BY <1>9, <1>11, <1>12 DEF Rolled
  <1>21. Pending(x, G, a, -1, latest)
    <2>1. CASE NotBegun(c, d, a)
      <3>1. a.blk = L /\ a.pos = d[L].boundary
        BY <1>2, <1>8, <2>1 DEF NotBegun, AtEnd
      <3>2. a.blk = Len(G) - 1 /\ G[a.blk].boundary <= a.pos
        <4>1. G[L] = d[L]
          BY <1>9, <1>12
        <4>2. a.pos \in Int
          BY <1>9, <1>19 DEF Spots
        <4> QED BY <1>9, <1>12, <3>1, <4>1, <4>2
      <3>3. AfterRoll(G, a)
        BY <1>20, <3>2 DEF AfterRoll
      <3>4. NotBegun(x, G, a)
        BY <1>7, <2>1, <3>3 DEF NotBegun
      <3> QED BY <3>4 DEF Pending
    <2>2. CASE \E s \in Starts : Started(c, d, a, s, low, saved)
      <3>1. PICK s \in Starts : Started(c, d, a, s, low, saved)
        BY <2>2
      <3>2. PICK k \in 1 .. Len(d) : Begun(c, d, s, k)
        BY <1>2, <3>1 DEF Started, Ended
      <3>3. k = L /\ k \in 1 .. Len(G) /\ k = Len(G) - 1 /\ k \in Nat
        BY <1>2, <1>8, <1>9, <1>12, <3>2 DEF Begun
      <3>4. Frags(d, s, k, c.id, c.total) /\ s.blk <= k /\ s.blk \in Nat
        BY <1>9, <3>2, <3>3 DEF Begun, Frags, Starts
      <3>5. Frags(G, s, k, c.id, c.total)
        BY <1>13, <3>3, <3>4, GrownKeeps
      <3>6. Begun(x, G, s, k)
        BY <1>7, <1>20, <3>2, <3>3, <3>5 DEF Begun
      <3>7. Joined(G, a, s)
        BY <1>13, <1>19, <3>1, GrownKeeps DEF Started
      <3>8. s.blk # Len(G)
        BY <1>9, <1>12, <3>3, <3>4
      <3>9. Started(x, G, a, s, -1, latest)
        BY <1>7, <3>1, <3>3, <3>6, <3>7, <3>8 DEF Started
      <3> QED BY <3>9 DEF Pending
    <2> QED BY <1>19, <2>1, <2>2 DEF Pending
  <1>22. GoesOn(t, x)
    BY <1>2, <1>3, <1>4, <1>7, <1>8, <1>10, <1>11 DEF GoesOn, AppendPCs, UpFacts
  <1>23. Safe(e)'
    <2>1. \A i \in 1 .. Len(logged) : Within(d, e[i])
      BY <1>9, LaidFacts
    <2>2. \A i \in 1 .. Len(logged) : e[i] \in Spots
      BY <1>9, LaidFacts
    <2>3. Grown(d, f)
      BY <1>9, <1>10, GrownSelf, Fresh
    <2>4. \A i \in 1 .. Len(logged) : Within(f, e[i])
      BY <2>1, <2>2, <2>3, GrownKeeps
    <2> QED BY <1>2, <1>8, <2>4 DEF Safe, Kept
  <1>24. /\ Near(disk', page', saved', latest', 0) /\ Laid(File', logged', e)
         /\ LastEnds(File', Len(logged'), e, 0)
         /\ Pending(x, File', e[Len(logged')], disk'[Len(disk')].boundary, saved')
         /\ IF x.pc = "publish" THEN x.pos = 0 ELSE 0 = page'.boundary
    BY <1>2, <1>7, <1>8, <1>10, <1>11, <1>14, <1>15, <1>16, <1>17, <1>18, <1>21
  <1> QED BY <1>22, <1>23, <1>24, AppendGoesOn

\* Flush needs only the last of the records it covers.
LEMMA KeptDown ==
    ASSUME NEW d, NEW f, Grown(d, f), Len(d) = Len(f), NEW lg \in Seq(ReadRecords), NEW e,
           Laid(f, lg, e), NEW i \in 1 .. Len(lg), NEW j \in 1 .. i, Kept(d, lg[i], e[i])
    PROVE  Kept(d, lg[j], e[j])
  <1>1. d \in Seq(GoodBlock) /\ f \in Seq(GoodBlock) /\ Len(d) \in Nat /\ Cap \in Nat \ {0}
        /\ j \in 1 .. Len(lg)
    BY CapAssumption DEF Grown
  <1>2. SUFFICES ASSUME j # i PROVE Kept(d, lg[j], e[j])
    OBVIOUS
  <1>3. /\ e[i - 1] \in Spots /\ e[i] \in Spots /\ e[j] \in Spots /\ Within(f, e[j])
        /\ Before(e[j], e[i])
    BY <1>1, <1>2, LaidFacts
  <1>4. CASE Within(d, e[i])
    BY <1>3, <1>4, WithinDown DEF Kept
  <1>5. CASE Len(d) >= 2 /\ d[Len(d)].boundary <= 0 /\ lg[i].lsn < Len(d) * Cap
    <2>1. PICK s \in Starts : lg[i].lsn = LSN(s) /\ RecordIs(f, e[i - 1], s, e[i], lg[i].id)
      BY <1>1, LaidFacts
    <2>2. PICK z \in Starts : lg[j].lsn = LSN(z) /\ RecordIs(f, e[j - 1], z, e[j], lg[j].id)
      BY <1>1, LaidFacts
    <2>3. e[i - 1].blk <= s.blk
      BY <1>1, <1>3, <2>1, RecordFacts
    <2>4. z.blk <= e[j].blk
      <3>1. e[j - 1] \in Spots
        BY <1>1, LaidFacts
      <3> QED BY <1>1, <1>3, <2>2, <3>1, RecordFacts
    <2>5. e[j].blk <= e[i - 1].blk
      <3>1. CASE j = i - 1
        <4>1. e[j] = e[i - 1]
          BY <3>1
        <4> QED BY <1>3, <4>1 DEF Spots
      <3>2. CASE j # i - 1
        <4>1. i - 1 \in 1 .. Len(lg) /\ j < i - 1
          BY <1>1, <1>2, <3>2
        <4>2. Before(e[j], e[i - 1])
          BY <1>1, <4>1, LaidFacts
        <4> QED BY <1>3, <4>2 DEF Before, Spots
      <3> QED BY <3>1, <3>2
    <2>6. s.blk * Cap < Len(d) * Cap
      <3>1. LSN(s) < Len(d) * Cap
        BY <1>5, <2>1
      <3>2. s.blk * Cap <= LSN(s) /\ LSN(s) \in Nat
        BY LSNPlace
      <3>3. PICK m, n : m = s.blk * Cap /\ n = Len(d) * Cap
        OBVIOUS
      <3>4. m \in Int /\ n \in Int
        BY <1>1, <3>3 DEF Starts
      <3> QED BY <3>1, <3>2, <3>3, <3>4
    <2>7. s.blk < Len(d)
      <3>1. SUFFICES ASSUME Len(d) <= s.blk PROVE FALSE
        BY <1>1 DEF Starts
      <3>2. PICK q \in Nat : s.blk = Len(d) + q
        <4>1. s.blk - Len(d) \in Nat /\ s.blk = Len(d) + (s.blk - Len(d))
          BY <1>1, <3>1 DEF Starts
        <4> QED BY <4>1
      <3>3. s.blk * Cap = Len(d) * Cap + q * Cap /\ q * Cap \in Nat /\ Len(d) * Cap \in Nat
        BY <1>1, <3>2
      <3>4. PICK m, n : m = q * Cap /\ n = Len(d) * Cap
        OBVIOUS
      <3> QED BY <2>6, <3>3, <3>4
    <2>8. z.blk < Len(d)
      <3>1. PICK x1 \in Nat, x2 \in Nat, x3 \in Nat, x4 \in Nat :
               x1 = z.blk /\ x2 = e[j].blk /\ x3 = e[i - 1].blk /\ x4 = s.blk
        BY <1>3 DEF Starts, Spots
      <3>2. x1 <= x2 /\ x2 <= x3 /\ x3 <= x4 /\ x4 < Len(d)
        BY <2>3, <2>4, <2>5, <2>7, <3>1
      <3>3. PICK k \in Nat : k = Len(d)
        BY <1>1
      <3>4. x1 < k
        BY <3>2, <3>3
      <3> QED BY <3>1, <3>3, <3>4
    <2>9. LSN(z) < Len(d) * Cap
      BY <1>1, <2>8, LSNPlace
    <2> QED BY <1>5, <2>2, <2>9 DEF Kept
  <1> QED BY <1>4, <1>5 DEF Kept

\* A step beside which nobody appends.
LEMMA FlushGoesOn ==
    ASSUME LogTypes, ContentInv, NEW e, NEW l, UpFacts(e, l), phase = "up", MutexFree,
           header' \in Int, header' >= 0, disk' # <<>>, Len(disk') = Len(disk),
           UNCHANGED <<phase, page, cur, logged>>, File' = File,
           Near(disk', page', saved', latest', l), InStep', Safe(e)',
           \A u \in Threads :
              /\ call'[u].pc \notin AppendPCs
              /\ call'[u].pc = "write" => call'[u].blk = Len(disk')
              /\ call'[u].pc = "save" => disk'[Len(disk')] = page'
    PROVE  ContentInv'
  <1>1. \A u \in Threads : call[u].pc \notin AppendPCs /\ call'[u].pc \notin AppendPCs
    BY DEF MutexFree
  <1>2. \A u \in Threads : /\ call[u].pc \notin {"publish", "switch", "roll"}
                           /\ call'[u].pc \notin {"publish", "switch", "roll"}
    BY <1>1 DEF AppendPCs
  <1>3. l = page.boundary /\ AtEnd(File, e[Len(logged)]) /\ cur = Len(disk) /\ page.boundary >= 0
    BY <1>2 DEF UpFacts, Contents, Limit, Callers, Phases
  <1>4. Laid(File, logged, e) /\ LastEnds(File, Len(logged), e, l)
    BY DEF UpFacts
  <1>5. Phases'
    BY <1>3 DEF Phases
  <1>6. Callers'
    BY <1>1, <1>2, <1>3 DEF Callers
  <1>7. Limit(l)'
    BY <1>2, <1>3 DEF Limit
  <1>8. Contents(e, l)'
    BY <1>1, <1>3, <1>4, <1>7 DEF Contents
  <1> QED BY <1>5, <1>6, <1>8 DEF ContentInv

\* Nobody appends beside a Flush (FlushAlone).
LEMMA FlushersOnly ==
    ASSUME LogTypes, ContentInv, NEW t \in Threads, call[t].pc \in FlushPCs
    PROVE  /\ phase = "up" /\ MutexFree
           /\ \A u \in Threads :
                 /\ call[u].pc \notin AppendPCs
                 /\ call[u].pc = "write" => call[u].blk = Len(disk)
                 /\ call[u].pc = "save" => disk[Len(disk)] = page
  <1>1. Phases /\ Callers
    BY DEF ContentInv
  <1>2. phase = "up"
    BY <1>1 DEF Phases, Idle, FlushPCs
  <1>3. \A u \in Threads : call[u].pc \notin AppendPCs
    <2>1. call[t].pc \notin AppendPCs
      BY DEF AppendPCs, FlushPCs
    <2> QED BY <1>1, <2>1 DEF Callers
  <1> QED BY <1>1, <1>2, <1>3 DEF MutexFree, Callers

\* All callers are elsewhere than in an append when one of them has come to c.
LEMMA CallersNow ==
    ASSUME LogTypes, NEW t \in Threads, NEW c, call' = [call EXCEPT ![t] = c],
           c.pc \notin AppendPCs, c.pc = "write" => c.blk = Len(disk'),
           c.pc = "save" => disk'[Len(disk')] = page', Len(disk') = Len(disk),
           (disk' = disk /\ page' = page) \/ disk'[Len(disk')] = page',
           \A u \in Threads :
              /\ call[u].pc \notin AppendPCs
              /\ call[u].pc = "write" => call[u].blk = Len(disk)
              /\ call[u].pc = "save" => disk[Len(disk)] = page
    PROVE  \A u \in Threads :
              /\ call'[u].pc \notin AppendPCs
              /\ call'[u].pc = "write" => call'[u].blk = Len(disk')
              /\ call'[u].pc = "save" => disk'[Len(disk')] = page'
  <1>1. \A u \in Threads : call'[u] = IF u = t THEN c ELSE call[u]
    BY DEF LogTypes
  <1> QED BY <1>1

\* Flush is called (log.go:130): it begins, or all is saved.
LEMMA FlushCallContents ==
    ASSUME LogTypes, LogTypes', ContentInv, FlushAlone, NEW t \in Threads,
           NEW i \in DOMAIN logged, FlushCall(t, i)
    PROVE  ContentInv'
  <1>1. /\ phase = "up" /\ MutexFree
        /\ UNCHANGED <<phase, header, disk, page, cur, latest, saved, logged, used>>
    BY DEF FlushCall
  <1>2. PICK e, l : UpFacts(e, l)
    BY <1>1, WhenUp
  <1>3. /\ Callers /\ header \in Int /\ header >= 0 /\ disk # <<>> /\ Safe(e)
        /\ Near(disk, page, saved, latest, l) /\ InStep
        /\ disk \in Seq(GoodBlock) /\ logged \in Seq(ReadRecords)
    BY <1>1, <1>2 DEF UpFacts, Contents, LogTypes
  <1>4. File' = File /\ Near(disk', page', saved', latest', l)
    BY <1>1, <1>3 DEF File
  <1>5. disk[Len(disk)].boundary = page.boundary \/ saved < latest
    BY <1>1, <1>3 DEF InStep
  <1>6. InStep'
    BY <1>1, <1>5 DEF InStep
  <1>7. \A u \in Threads :
           /\ call[u].pc \notin AppendPCs
           /\ call[u].pc = "write" => call[u].blk = Len(disk)
           /\ call[u].pc = "save" => disk[Len(disk)] = page
    BY <1>1, <1>3 DEF MutexFree, Callers
  <1>8. CASE logged[i].lsn > saved
    <2>1. PICK c : c = [Idle EXCEPT !.pc = "capture", !.id = i]
      OBVIOUS
    <2>2. c.pc = "capture"
      BY <2>1 DEF Idle
    <2>3. call' = [call EXCEPT ![t] = c] /\ acked' = acked
      BY <1>8, <2>1 DEF FlushCall
    <2>4. c.pc \notin AppendPCs /\ c.pc # "write" /\ c.pc # "save"
      BY <2>2 DEF AppendPCs
    <2>5. \A u \in Threads :
             /\ call'[u].pc \notin AppendPCs
             /\ call'[u].pc = "write" => call'[u].blk = Len(disk')
             /\ call'[u].pc = "save" => disk'[Len(disk')] = page'
      BY <1>1, <1>7, <2>3, <2>4, CallersNow
    <2>6. Safe(e)'
      BY <1>1, <1>3, <2>3 DEF Safe
    <2> QED BY <1>1, <1>2, <1>3, <1>4, <1>6, <2>5, <2>6, FlushGoesOn
  <1>9. CASE ~(logged[i].lsn > saved)
    <2>1. acked' = (IF i > acked THEN i ELSE acked) /\ call' = call
      BY <1>9 DEF FlushCall, Acknowledge
    <2>2. logged[i].lsn <= saved /\ i \in 1 .. Len(logged) /\ acked \in Nat
      <3>1. logged[i] \in ReadRecords /\ saved \in Nat /\ acked \in 0 .. Len(logged)
        <4>1. /\ logged \in Seq(ReadRecords) /\ saved \in Nat /\ acked \in 0 .. Len(logged)
              /\ i \in 1 .. Len(logged)
          <5>1. saved \in Nat /\ acked \in 0 .. Len(logged) /\ logged \in Seq(ReadRecords)
            BY DEF LogTypes
          <5>2. i \in 1 .. Len(logged)
            BY <5>1
          <5> QED BY <5>1, <5>2
        <4> QED BY <4>1
      <3> QED BY <1>3, <1>9, <3>1 DEF ReadRecords
    <2>3. Kept(disk, logged[i], e[i])
      BY <1>3, <2>2 DEF Safe
    <2>4. Grown(disk, File) /\ Len(disk) = Len(File) /\ Laid(File, logged, e)
      BY <1>2 DEF UpFacts, FileFacts
    <2>5. ASSUME NEW j \in 1 .. Len(logged), j <= acked' \/ logged[j].lsn <= saved
          PROVE  Kept(disk, logged[j], e[j])
      <3>1. CASE j <= acked \/ logged[j].lsn <= saved
        BY <1>3, <3>1 DEF Safe
      <3>2. CASE ~(j <= acked \/ logged[j].lsn <= saved)
        <4>1. j \in 1 .. i
          BY <2>1, <2>2, <2>5, <3>2
        <4> QED BY <1>3, <2>2, <2>3, <2>4, <4>1, KeptDown
      <3> QED BY <3>1, <3>2
    <2>6. Safe(e)'
      BY <1>1, <2>5 DEF Safe
    <2> QED BY <1>1, <1>2, <1>3, <1>4, <1>6, <1>7, <2>1, <2>6, FlushGoesOn
  <1> QED BY <1>8, <1>9

\* The current block is read before it is written (log.go:321).
LEMMA FlushCaptureContents ==
    ASSUME LogTypes, LogTypes', ContentInv, NEW t \in Threads, FlushCapture(t)
    PROVE  ContentInv'
  <1>1. /\ call[t].pc = "capture" /\ call' = [call EXCEPT ![t].pc = "write", ![t].blk = cur]
        /\ UNCHANGED <<phase, header, disk, page, cur, latest, saved, logged, acked, used>>
    BY DEF FlushCapture
  <1>2. /\ phase = "up" /\ MutexFree
        /\ \A u \in Threads :
              /\ call[u].pc \notin AppendPCs
              /\ call[u].pc = "write" => call[u].blk = Len(disk)
              /\ call[u].pc = "save" => disk[Len(disk)] = page
    BY <1>1, FlushersOnly DEF FlushPCs
  <1>3. PICK e, l : UpFacts(e, l)
    BY <1>2, WhenUp
  <1>4. /\ Callers /\ header \in Int /\ header >= 0 /\ disk # <<>> /\ Safe(e)
        /\ Near(disk, page, saved, latest, l) /\ InStep
    BY <1>2, <1>3 DEF UpFacts, Contents, LogTypes
  <1>5. cur = Len(disk)
    <2>1. \A u \in Threads : call[u].pc # "switch"
      BY <1>2 DEF AppendPCs
    <2> QED BY <1>2, <1>4, <2>1 DEF Callers
  <1>6. PICK c : c = [call[t] EXCEPT !.pc = "write", !.blk = cur]
    OBVIOUS
  <1>7. call' = [call EXCEPT ![t] = c]
    BY <1>1, <1>6
  <1>8. c.pc = "write" /\ c.blk = Len(disk)
    <2>1. call[t] \in Calls(Len(disk))
      BY DEF LogTypes
    <2> QED BY <1>5, <1>6, <2>1 DEF Calls
  <1>9. \A u \in Threads :
           /\ call'[u].pc \notin AppendPCs
           /\ call'[u].pc = "write" => call'[u].blk = Len(disk')
           /\ call'[u].pc = "save" => disk'[Len(disk')] = page'
    <2>1. c.pc \notin AppendPCs /\ c.pc # "save"
      BY <1>8 DEF AppendPCs
    <2> QED BY <1>1, <1>2, <1>7, <1>8, <2>1, CallersNow
  <1>10. InStep'
    BY <1>1, <1>2, <1>4 DEF InStep
  <1>11. File' = File /\ Near(disk', page', saved', latest', l) /\ Safe(e)'
    BY <1>1, <1>4 DEF File, Safe
  <1> QED BY <1>1, <1>2, <1>3, <1>4, <1>9, <1>10, <1>11, FlushGoesOn

\* The page is written (log.go:322).
LEMMA FlushWriteContents ==
    ASSUME LogTypes, LogTypes', ContentInv, NEW t \in Threads, FlushWrite(t)
    PROVE  ContentInv'
  <1>1. /\ call[t].pc = "write" /\ disk' = [disk EXCEPT ![call[t].blk] = page] /\ Goto(t, "save")
        /\ UNCHANGED <<phase, header, page, cur, latest, saved, logged, acked, used>>
    BY DEF FlushWrite, WritePage
  <1>2. /\ phase = "up" /\ MutexFree /\ call[t].blk = Len(disk)
        /\ \A u \in Threads :
              /\ call[u].pc \notin AppendPCs
              /\ call[u].pc = "write" => call[u].blk = Len(disk)
              /\ call[u].pc = "save" => disk[Len(disk)] = page
    BY <1>1, FlushersOnly DEF FlushPCs
  <1>3. PICK e, l : UpFacts(e, l)
    BY <1>2, WhenUp
  <1>4. header \in Int /\ header >= 0
    BY <1>3 DEF UpFacts, LogTypes
  <1>5. l = page.boundary
    <2>1. \A u \in Threads : call[u].pc # "publish"
      BY <1>2 DEF AppendPCs
    <2> QED BY <1>2, <1>3, <2>1 DEF UpFacts, Contents, Limit
  <1>6. /\ File' = File /\ disk' # <<>> /\ Len(disk') = Len(disk)
        /\ disk'[Len(disk')] = page' /\ Near(disk', page', saved', latest', l) /\ Safe(e)'
    BY <1>1, <1>2, <1>3, <1>5, DiskWritten
  <1>7. PICK c \in Calls(Len(disk)) : call' = [call EXCEPT ![t] = c] /\ c.pc = "save"
    BY <1>1, GotoCall DEF FlushPCs
  <1>8. \A u \in Threads :
           /\ call'[u].pc \notin AppendPCs
           /\ call'[u].pc = "write" => call'[u].blk = Len(disk')
           /\ call'[u].pc = "save" => disk'[Len(disk')] = page'
    <2>1. c.pc \notin AppendPCs /\ c.pc # "write"
      BY <1>7 DEF AppendPCs
    <2> QED BY <1>1, <1>2, <1>6, <1>7, <2>1, CallersNow
  <1>9. InStep'
    BY <1>6 DEF InStep
  <1> QED BY <1>1, <1>2, <1>3, <1>4, <1>6, <1>8, <1>9, FlushGoesOn

\* All that is on the page is saved, and Flush returns (log.go:325).
LEMMA FlushSaveContents ==
    ASSUME LogTypes, LogTypes', ContentInv, NEW t \in Threads, FlushSave(t)
    PROVE  ContentInv'
  <1>1. /\ call[t].pc = "save" /\ saved' = latest /\ call' = [call EXCEPT ![t] = Idle]
        /\ UNCHANGED <<phase, header, disk, page, cur, latest, logged, used>>
    BY DEF FlushSave
  <1>2. /\ phase = "up" /\ MutexFree /\ disk[Len(disk)] = page
        /\ \A u \in Threads :
              /\ call[u].pc \notin AppendPCs
              /\ call[u].pc = "write" => call[u].blk = Len(disk)
              /\ call[u].pc = "save" => disk[Len(disk)] = page
    BY <1>1, FlushersOnly DEF FlushPCs
  <1>3. PICK e, l : UpFacts(e, l)
    BY <1>2, WhenUp
  <1>4. /\ header \in Int /\ header >= 0 /\ disk # <<>> /\ latest \in Nat
        /\ Near(disk, page, saved, latest, l) /\ Laid(File, logged, e) /\ File = disk
        /\ disk \in Seq(GoodBlock) /\ logged \in Seq(ReadRecords)
    BY <1>2, <1>3 DEF UpFacts, LogTypes, FileFacts
  <1>5. \A u \in Threads :
           /\ call'[u].pc \notin AppendPCs
           /\ call'[u].pc = "write" => call'[u].blk = Len(disk')
           /\ call'[u].pc = "save" => disk'[Len(disk')] = page'
    <2>1. Idle.pc \notin AppendPCs /\ Idle.pc # "write" /\ Idle.pc # "save"
      BY DEF AppendPCs, Idle
    <2> QED BY <1>1, <1>2, <2>1, CallersNow
  <1>6. Near(disk', page', saved', latest', l)
    BY <1>1, <1>4 DEF Near
  <1>7. Safe(e)'
    <2>1. \A i \in 1 .. Len(logged) : Kept(disk, logged[i], e[i])
      BY <1>4, SafeAll
    <2> QED BY <1>1, <2>1 DEF Safe
  <1>8. InStep' /\ File' = File
    BY <1>1, <1>2 DEF InStep, File
  <1> QED BY <1>1, <1>2, <1>3, <1>4, <1>5, <1>6, <1>7, <1>8, FlushGoesOn

\* The LSN of a checkpoint is written into block 0 (log.go:624).
LEMMA CheckpointContents ==
    ASSUME LogTypes, LogTypes', ContentInv, NEW i \in DOMAIN logged, WriteCheckpoint(i)
    PROVE  ContentInv'
  <1>1. /\ phase = "up" /\ MutexFree /\ header' = logged[i].lsn
        /\ UNCHANGED <<phase, disk, page, cur, latest, saved, call, logged, acked, used>>
    BY DEF WriteCheckpoint, memory
  <1>2. PICK e, l : UpFacts(e, l)
    BY <1>1, WhenUp
  <1>3. /\ Callers /\ disk # <<>> /\ Safe(e)
        /\ Near(disk, page, saved, latest, l) /\ InStep /\ logged \in Seq(ReadRecords)
    BY <1>1, <1>2 DEF UpFacts, Contents, LogTypes
  <1>4. header' \in Int /\ header' >= 0
    <2>1. logged[i] \in ReadRecords
      BY <1>3
    <2> QED BY <1>1, <2>1 DEF ReadRecords
  <1>5. \A u \in Threads :
           /\ call'[u].pc \notin AppendPCs
           /\ call'[u].pc = "write" => call'[u].blk = Len(disk')
           /\ call'[u].pc = "save" => disk'[Len(disk')] = page'
    BY <1>1, <1>3 DEF MutexFree, Callers
  <1>6. InStep'
    BY <1>1, <1>3 DEF InStep
  <1>7. File' = File /\ Near(disk', page', saved', latest', l) /\ Safe(e)'
    BY <1>1, <1>3 DEF File, Safe
  <1> QED BY <1>1, <1>2, <1>3, <1>4, <1>5, <1>6, <1>7, FlushGoesOn

\* The last block ends where record m ends: a restart finds the records up to m.
LEMMA CutContents ==
    ASSUME NEW d \in Seq(GoodBlock), NEW f, d # <<>>, Grown(d, f), Len(f) = Len(d),
           NEW lg \in Seq(ReadRecords), NEW e, Laid(f, lg, e), NEW l, LastEnds(f, Len(lg), e, l),
           NEW m \in 0 .. Len(lg), AtEnd(d, e[m]), d[Len(d)].boundary <= l, l \in Int,
           \A p \in 0 .. Cap - 1 : p < d[Len(d)].boundary => d[Len(d)].cells[p] = f[Len(d)].cells[p]
    PROVE  \E g : /\ Laid(d, SubSeq(lg, 1, m), g) /\ AtEnd(d, g[m]) /\ Len(SubSeq(lg, 1, m)) = m
                  /\ LastEnds(d, m, g, d[Len(d)].boundary)
                  /\ Scan(d, FirstLSN) = SubSeq(lg, 1, m)
  <1>1. PICK q : q = SubSeq(lg, 1, m)
    OBVIOUS
  <1>2. PICK g : g = [k \in 0 .. m |-> e[k]]
    OBVIOUS
  <1>3. PICK L, B : L = Len(d) /\ B = d[Len(d)].boundary
    OBVIOUS
  <1>4. /\ L \in Nat \ {0} /\ B \in Int /\ Cap \in Nat \ {0} /\ e[m].blk = L /\ e[m].pos = B
        /\ Len(lg) \in Nat
    <2>1. Len(d) \in 1 .. Len(d)
      OBVIOUS
    <2>2. d[Len(d)] \in GoodBlock
      BY <2>1
    <2> QED BY <1>3, <2>1, <2>2, CapAssumption DEF AtEnd, GoodBlock
  <1>5. m > 0 => Within(d, e[m])
    BY <1>3, <1>4 DEF Within
  <1>6. Laid(d, q, g) /\ q \in Seq(ReadRecords) /\ Len(q) = m
    BY <1>1, <1>2, <1>5, LaidHad
  <1>7. \A k \in 0 .. m : g[k] = e[k]
    BY <1>2
  <1>8. AtEnd(d, g[m])
    <2>1. g[m] = e[m]
      BY <1>4, <1>7
    <2> QED BY <2>1
  <1>9. Scan(d, FirstLSN) = q
    BY <1>6, <1>8, ScanLaid
  <1>10. ASSUME NEW p \in 0 .. Cap - 1, p < B, d[L].cells[p].kind \in {"normal", "last"}
         PROVE  \E i \in 1 .. m :
                   /\ g[i] = [blk |-> L, pos |-> p + d[L].cells[p].size]
                   /\ g[i - 1].blk < L \/ g[i - 1].pos <= p
    <2>1. f[L].cells[p] = d[L].cells[p] /\ p < l
      BY <1>3, <1>4, <1>10
    <2>2. PICK i \in 1 .. Len(lg) :
             /\ e[i] = [blk |-> L, pos |-> p + d[L].cells[p].size]
             /\ e[i - 1].blk < L \/ e[i - 1].pos <= p
      BY <1>3, <1>10, <2>1 DEF LastEnds
    <2>3. i <= m
      <3>1. SUFFICES ASSUME i > m PROVE FALSE
        BY <1>4
      <3>2. CASE i - 1 = m
        <4>1. e[i - 1] = e[m]
          BY <3>2
        <4> QED BY <1>4, <1>10, <2>2, <4>1
      <3>3. CASE i - 1 # m
        <4>1. i - 1 \in 1 .. Len(lg) /\ m \in 0 .. Len(lg) /\ i - 1 \in 0 .. Len(lg) /\ m < i - 1
          BY <1>4, <3>1, <3>3
        <4>2. PICK x \in Spots : x = e[i - 1]
          BY <4>1 DEF Laid
        <4>3. Before(e[m], x)
          BY <4>1, <4>2 DEF Laid
        <4>4. Within(f, x)
          <5>1. f \in Seq(GoodBlock)
            BY DEF Grown
          <5>2. Within(f, e[i - 1])
            BY <4>1, <5>1, LaidFacts
          <5> QED BY <4>2, <5>2
        <4>5. x.blk \in Nat /\ x.pos \in Nat /\ x.blk <= L
          BY <1>3, <1>4, <4>2, <4>4 DEF Within, Spots
        <4>6. x.blk < L \/ x.pos <= p
          BY <2>2, <4>2
        <4> QED BY <1>4, <1>10, <4>3, <4>5, <4>6 DEF Before
      <3> QED BY <3>2, <3>3
    <2>4. i \in 1 .. m /\ g[i] = e[i] /\ g[i - 1] = e[i - 1]
      BY <1>4, <1>7, <2>3
    <2> QED BY <2>2, <2>4
  <1>11. LastEnds(d, m, g, B)
    BY <1>3, <1>10 DEF LastEnds
  <1> QED BY <1>1, <1>3, <1>6, <1>8, <1>9, <1>11

\* The last block on disk ends with a record of the log, or the log is empty.
LEMMA UsableCut ==
    ASSUME LogTypes, NEW e, NEW l, UpFacts(e, l), FileUsable
    PROVE  \E m \in acked .. Len(logged) :
              AtEnd(disk, e[m]) /\ disk[Len(disk)].boundary >= 0
  <1>1. PICK L, B, n : L = Len(disk) /\ B = disk[L].boundary /\ n = Len(logged)
    OBVIOUS
  <1>2. /\ L \in Nat \ {0} /\ Cap \in Nat \ {0} /\ disk # <<>> /\ B \in -1 .. Cap /\ l \in 0 .. Cap
        /\ Len(File) = L /\ File \in Seq(GoodBlock) /\ LastEnds(File, n, e, l) /\ B <= l
        /\ Laid(File, logged, e) /\ logged \in Seq(ReadRecords) /\ n \in Nat /\ acked \in 0 .. n
        /\ Safe(e) /\ File[L] = page /\ disk[L] \in GoodBlock
        /\ \A p \in 0 .. Cap - 1 : p < B => disk[L].cells[p] = page.cells[p]
    <2>1. /\ L \in Nat \ {0} /\ Cap \in Nat \ {0} /\ disk # <<>> /\ l \in 0 .. Cap
          /\ LastEnds(File, n, e, l) /\ Laid(File, logged, e) /\ Safe(e)
      BY <1>1 DEF UpFacts
    <2>2. FileFacts("up", disk, page, File) /\ Near(disk, page, saved, latest, l)
      BY DEF UpFacts
    <2>3. /\ B \in -1 .. Cap /\ Len(File) = L /\ File \in Seq(GoodBlock) /\ File[L] = page
      BY <1>1, <2>2 DEF FileFacts
    <2>4. disk[L] \in GoodBlock
      <3>1. L \in 1 .. Len(disk)
        BY <1>1, <2>1
      <3> QED BY <2>2, <3>1 DEF FileFacts
    <2>5. B <= l /\ \A p \in 0 .. Cap - 1 : p < B => disk[L].cells[p] = page.cells[p]
      BY <1>1, <2>2 DEF Near
    <2>6. logged \in Seq(ReadRecords) /\ n \in Nat /\ acked \in 0 .. n
      BY <1>1 DEF LogTypes
    <2> QED BY <2>1, <2>3, <2>4, <2>5, <2>6
  <1>3. PICK m \in 0 .. n :
           AtEnd(disk, e[m]) /\ B >= 0 /\ (L = 1 \/ B > 0)
    <2>1. CASE EndsWithRecord(disk[L])
      <3>1. PICK p \in 0 .. B - 1 : /\ disk[L].cells[p].kind \in {"normal", "last"}
                                    /\ p + disk[L].cells[p].size = B
        BY <1>1, <2>1 DEF EndsWithRecord
      <3>2. p \in 0 .. Cap - 1 /\ p < B /\ p < l /\ B > 0
        BY <1>2, <3>1
      <3>3. File[L].cells[p] = disk[L].cells[p]
        BY <1>2, <3>2
      <3>4. PICK i \in 1 .. n : e[i] = [blk |-> L, pos |-> p + File[L].cells[p].size]
        BY <1>2, <3>1, <3>2, <3>3 DEF LastEnds
      <3>5. e[i] = [blk |-> L, pos |-> B]
        BY <3>1, <3>3, <3>4
      <3>6. AtEnd(disk, e[i]) /\ i \in 0 .. n
        BY <1>1, <1>2, <3>5 DEF AtEnd
      <3> QED BY <1>2, <3>2, <3>6
    <2>2. CASE L = 1 /\ B = 0
      <3>1. e[0] = [blk |-> 1, pos |-> 0]
        BY <1>2 DEF Laid
      <3>2. AtEnd(disk, e[0]) /\ 0 \in 0 .. n
        BY <1>1, <1>2, <2>2, <3>1 DEF AtEnd
      <3> QED BY <2>2, <3>2
    <2> QED BY <1>1, <1>2, <2>1, <2>2 DEF FileUsable
  <1>4. acked <= m
    <2>1. SUFFICES ASSUME acked > m PROVE FALSE
      BY <1>2
    <2>2. acked \in 1 .. n /\ m \in 0 .. n /\ acked \in 0 .. n /\ acked <= acked
      BY <1>2, <2>1
    <2>3. Kept(disk, logged[acked], e[acked])
      BY <1>1, <1>2, <2>2 DEF Safe
    <2>4. Within(disk, e[acked])
      BY <1>1, <1>2, <1>3, <2>3 DEF Kept
    <2>5. PICK x \in Spots : x = e[acked]
      BY <1>1, <1>2, <2>2 DEF Laid
    <2>6. Before(e[m], x)
      BY <1>1, <1>2, <2>1, <2>2, <2>5 DEF Laid
    <2>7. e[m].blk = L /\ e[m].pos = B
      BY <1>1, <1>3 DEF AtEnd
    <2>8. x.blk \in 1 .. L /\ x.pos <= disk[x.blk].boundary /\ x.pos \in Nat
      BY <1>1, <1>2, <2>4, <2>5 DEF Within, Spots
    <2> QED BY <1>1, <1>2, <2>6, <2>7, <2>8 DEF Before
  <1>5. m \in acked .. Len(logged)
    BY <1>1, <1>2, <1>4
  <1> QED BY <1>1, <1>3, <1>5

\* A crash while the file is usable: the restart finds all that was acknowledged.
LEMMA CrashContents ==
    ASSUME LogTypes, LogTypes', ContentInv, ~CrashAnywhere, Crash
    PROVE  /\ ContentInv'
           /\ \E m \in acked .. Len(logged) : logged' = SubSeq(logged, 1, m) /\ acked' = m
  <1>1. /\ phase \notin {"down", "failed"} /\ FileUsable
        /\ phase' = "down" /\ page' = ZeroBlock
        /\ cur' = 0 /\ latest' = 0 /\ saved' = 0 /\ call' = [t \in Threads |-> Idle]
        /\ logged' = Scan(disk, FirstLSN) /\ acked' = Len(logged')
        /\ header' = header /\ disk' = disk
    BY DEF Crash
  <1>2. /\ Phases /\ header \in Int /\ disk \in Seq(GoodBlock) /\ logged \in Seq(ReadRecords)
        /\ acked \in 0 .. Len(logged)
        /\ phase \in {"down", "header", "block", "first", "up", "failed"}
    BY DEF ContentInv, LogTypes
  <1>3. \A t \in Threads : call'[t] = Idle
    BY <1>1
  <1>4. \A t \in Threads : call'[t].pc \notin AppendPCs \cup FlushPCs
                           /\ call'[t].pc \notin {"publish", "switch", "write", "save", "roll"}
    BY <1>3 DEF Idle, AppendPCs, FlushPCs
  <1>5. Callers'
    BY <1>1, <1>4 DEF Callers
  <1>6. File' = disk
    BY <1>1 DEF File, FileOf
  <1>7. CASE disk = <<>>
    <2>1. logged = <<>> /\ acked = 0 /\ logged' = <<>> /\ acked' = 0
      <3>1. logged = <<>> /\ Scan(disk, FirstLSN) = <<>>
        BY <1>2, <1>7, ScanFirst DEF Phases
      <3> QED BY <1>1, <1>2, <3>1
    <2>2. Phases'
      BY <1>1, <1>3, <1>7, <2>1 DEF Phases
    <2>3. Contents(NoEnds, 0)'
      <3>1. Laid(File', logged', NoEnds)
        BY <2>1, LaidEmpty
      <3>2. Safe(NoEnds)'
        BY <2>1 DEF Safe
      <3>3. Limit(0)'
        BY <1>1, <1>7 DEF Limit
      <3> QED BY <1>1, <1>4, <1>7, <3>1, <3>2, <3>3 DEF Contents
    <2>4. 0 \in acked .. Len(logged) /\ logged' = SubSeq(logged, 1, 0)
      BY <2>1
    <2> QED BY <1>5, <2>1, <2>2, <2>3, <2>4 DEF ContentInv
  <1>8. CASE phase = "first"
    <2>1. disk = <<ZeroBlock>>
      BY <1>2, <1>8 DEF Phases
    <2>2. disk[Len(disk)] = ZeroBlock /\ disk[1] = ZeroBlock /\ ZeroBlock.boundary = -1
      BY <2>1 DEF ZeroBlock
    <2> QED BY <1>1, <2>1, <2>2 DEF FileUsable, EndsWithRecord
  <1>9. CASE phase = "up" /\ disk # <<>>
    <2>1. PICK e, l : UpFacts(e, l)
      BY <1>9, WhenUp
    <2>2. PICK m \in acked .. Len(logged) :
              AtEnd(disk, e[m]) /\ disk[Len(disk)].boundary >= 0
      BY <1>1, <2>1, UsableCut
    <2>3. PICK B : B = disk[Len(disk)].boundary
      OBVIOUS
    <2>4. m \in 0 .. Len(logged)
      BY <1>2
    <2>5. /\ Grown(disk, File) /\ Len(File) = Len(disk) /\ Laid(File, logged, e)
          /\ LastEnds(File, Len(logged), e, l) /\ B <= l /\ l \in Int
          /\ \A p \in 0 .. Cap - 1 : p < B =>
                disk[Len(disk)].cells[p] = File[Len(disk)].cells[p]
      BY <1>9, <2>1, <2>3 DEF UpFacts, FileFacts, Near
    <2>6. PICK g :
              /\ Laid(disk, SubSeq(logged, 1, m), g) /\ AtEnd(disk, g[m])
              /\ Len(SubSeq(logged, 1, m)) = m
              /\ LastEnds(disk, m, g, B)
              /\ Scan(disk, FirstLSN) = SubSeq(logged, 1, m)
      BY <1>2, <1>9, <2>2, <2>3, <2>4, <2>5, CutContents
    <2>7. logged' = SubSeq(logged, 1, m) /\ Len(logged') = m /\ acked' = m
          /\ Laid(disk, logged', g) /\ logged' \in Seq(ReadRecords)
      BY <1>1, <2>6 DEF LogTypes
    <2>8. header >= 0
      BY <1>2, <1>9 DEF Phases
    <2>9. Phases'
      BY <1>1, <1>2, <1>3, <1>9, <2>2, <2>8 DEF Phases
    <2>10. Safe(g)'
      <3>1. \A i \in 1 .. Len(logged') : Kept(disk, logged'[i], g[i])
        BY <1>2, <2>7, SafeAll
      <3> QED BY <1>1, <3>1 DEF Safe
    <2>11. Limit(B)'
      BY <1>1, <2>3 DEF Limit
    <2>12. Contents(g, B)'
      <3>1. /\ Laid(File', logged', g) /\ LastEnds(File', Len(logged'), g, B)
            /\ AtEnd(File', g[Len(logged')])
        BY <1>6, <2>6, <2>7
      <3> QED BY <1>1, <1>4, <2>10, <2>11, <3>1 DEF Contents
    <2> QED BY <1>5, <2>7, <2>9, <2>12 DEF ContentInv
  <1>10. phase \in {"header", "block"} => disk = <<>>
    BY <1>2, <1>1 DEF FileUsable, Phases
  <1> QED BY <1>1, <1>2, <1>7, <1>8, <1>9, <1>10

\* A step keeps what the file says, while no Flush overlaps an Append and no crash leaves
\* a record in parts (log.go:130, 148).
LEMMA NextContents ==
    ASSUME LogTypes, LogTypes', ContentInv, FlushAlone, ~CrashAnywhere, [Next]_vars
    PROVE  ContentInv'
  <1>1. CASE Start
    BY <1>1, StartContents
  <1>2. ASSUME NEW t \in Threads, Step(t) PROVE ContentInv'
    <2>1. CASE \E n \in Sizes : AppendCall(t, n)
      BY <2>1, AppendCallContents
    <2>2. CASE Put(t)
      BY <2>2, PutContents
    <2>3. CASE Publish(t)
      BY <2>3, PublishPart, PublishLast
    <2>4. CASE RollWrite(t)
      BY <2>4, RollWriteContents
    <2>5. CASE RollAppend(t)
      BY <2>5, RollAppendContents
    <2>6. CASE RollSwitch(t)
      BY <2>6, RollSwitchContents
    <2>7. CASE \E i \in DOMAIN logged : FlushCall(t, i)
      BY <2>7, FlushCallContents
    <2>8. CASE FlushCapture(t)
      BY <2>8, FlushCaptureContents
    <2>9. CASE FlushWrite(t)
      BY <2>9, FlushWriteContents
    <2>10. CASE FlushSave(t)
      BY <2>10, FlushSaveContents
    <2> QED BY <1>2, <2>1, <2>2, <2>3, <2>4, <2>5, <2>6, <2>7, <2>8, <2>9, <2>10 DEF Step
  <1>3. CASE \E i \in DOMAIN logged : WriteCheckpoint(i)
    BY <1>3, CheckpointContents
  <1>4. CASE Crash
    BY <1>4, CrashContents
  <1>5. CASE UNCHANGED vars
    <2>1. UNCHANGED <<phase, header, disk, page, cur, latest, saved, call, logged, acked>>
      BY <1>5 DEF vars
    <2>2. PICK e, l : Contents(e, l)
      BY DEF ContentInv
    <2>3. File' = File /\ (MutexFree' <=> MutexFree)
      BY <2>1 DEF File, MutexFree
    <2>4. Limit(l)' /\ Safe(e)' /\ (InStep => InStep')
      <3>1. Limit(l) /\ Safe(e)
        BY <2>2 DEF Contents
      <3> QED BY <2>1, <2>3, <3>1 DEF Limit, Safe, InStep
    <2>5. Contents(e, l)'
      BY <2>1, <2>2, <2>3, <2>4 DEF Contents
    <2>6. Phases' /\ Callers'
      <3>1. Phases /\ Callers
        BY DEF ContentInv
      <3> QED BY <2>1, <3>1 DEF Phases, Callers
    <2> QED BY <2>5, <2>6 DEF ContentInv
  <1> QED BY <1>1, <1>2, <1>3, <1>4, <1>5 DEF Next, Rest

\* The file and the page hold exactly the records Append has returned for, each behind the
\* one before; whatever Flush has acknowledged is on disk (log.go:130, 148, 334).
THEOREM LogContents ==
    ASSUME FlushAlone, ~CrashAnywhere PROVE Spec => [](LogTypes /\ ContentInv)
  <1>1. Init => ContentInv
    <2> SUFFICES ASSUME Init PROVE ContentInv
      OBVIOUS
    <2>1. /\ phase = "down" /\ header = Absent /\ disk = <<>> /\ saved = 0 /\ latest = 0
          /\ call = [t \in Threads |-> Idle] /\ logged = <<>> /\ acked = 0
      BY DEF Init
    <2>2. \A t \in Threads : call[t] = Idle /\ call[t].pc \notin AppendPCs \cup FlushPCs
                             /\ call[t].pc \notin {"publish", "switch", "write", "save", "roll"}
      BY <2>1 DEF Idle, AppendPCs, FlushPCs
    <2>3. Phases /\ Callers
      BY <2>1, <2>2 DEF Phases, Callers
    <2>4. Laid(File, logged, NoEnds)
      BY <2>1, LaidEmpty
    <2>5. Contents(NoEnds, 0)
      BY <2>1, <2>2, <2>4 DEF Contents, Limit, Safe
    <2> QED BY <2>3, <2>5 DEF ContentInv
  <1>2. LogTypes /\ LogTypes' /\ ContentInv /\ [Next]_vars => ContentInv'
    BY NextContents
  <1> QED BY <1>1, <1>2, LogInvariant, PTL DEF Spec

\* With all saved and nobody at work, the iterator reads from disk exactly the records Append
\* has returned for, in order, fragments included (log.go:325, 410).
THEOREM AllIsSaved == ASSUME FlushAlone, ~CrashAnywhere PROVE Spec => []SavedIsOnDisk
  <1>1. LogTypes /\ ContentInv => SavedIsOnDisk
    <2> SUFFICES ASSUME LogTypes, ContentInv, phase = "up", MutexFree, NoFlush, saved = latest
                 PROVE  Scan(disk, FirstLSN) = logged
      BY DEF SavedIsOnDisk
    <2>1. PICK e, l : UpFacts(e, l)
      BY WhenUp
    <2>2. /\ Grown(disk, File) /\ Len(File) = Len(disk) /\ Laid(File, logged, e)
          /\ LastEnds(File, Len(logged), e, l) /\ disk # <<>> /\ l \in Int
          /\ File[Len(disk)] = page /\ Near(disk, page, saved, latest, l)
      BY <2>1 DEF UpFacts, FileFacts
    <2>3. AtEnd(File, e[Len(logged)]) /\ InStep
      BY <2>1, <2>2 DEF UpFacts, Contents
    <2>4. disk[Len(disk)].boundary = page.boundary
      <3>1. ~(saved < latest)
        BY DEF LogTypes
      <3> QED BY <2>3, <3>1 DEF InStep
    <2>5. AtEnd(disk, e[Len(logged)])
      BY <2>2, <2>3, <2>4 DEF AtEnd
    <2>6. /\ disk \in Seq(GoodBlock) /\ logged \in Seq(ReadRecords)
          /\ Len(logged) \in 0 .. Len(logged)
          /\ SubSeq(logged, 1, Len(logged)) = logged
      BY DEF LogTypes
    <2> QED BY <2>2, <2>5, <2>6, CutContents DEF Near
  <1> QED BY <1>1, LogContents, PTL

\* Reading at the LSN of a record that is there gives this record.
LEMMA ReadOfRecord ==
    ASSUME NEW d \in Seq(GoodBlock), NEW a \in Spots, NEW s \in Starts, NEW b \in Spots,
           NEW id, RecordIs(d, a, s, b, id)
    PROVE  ReadRecordAt(d, LSN(s)) = id
  <1>1. s.blk \in 1 .. Len(d) /\ s.pos < d[s.blk].boundary
    BY RecordFacts
  <1>2. s \in Spots /\ AtLSN(LSN(s)) = s
    BY CapAssumption, LSNPlace DEF Starts, Spots
  <1>3. RecordIs(d, s, s, b, id)
    BY <1>1 DEF RecordIs, Joined
  <1>4. HasNext(d, s)
    BY <1>1 DEF HasNext
  <1>5. NextRecord(d)[s].id = id
    <2>1. PICK x \in Spots : x = s
      BY <1>2
    <2>2. RecordIs(d, x, s, b, id)
      BY <1>3, <2>1
    <2>3. NextRecord(d)[x] = [id |-> id, lsn |-> LSN(s), at |-> b]
      BY <2>2, NextOfRecord
    <2> QED BY <2>1, <2>3
  <1> QED BY <1>1, <1>2, <1>4, <1>5 DEF ReadRecordAt

\* A record that is kept has its first piece on disk, and is read there if it has no other.
LEMMA KeptIsRead ==
    ASSUME NEW d, NEW f, Grown(d, f), Len(d) = Len(f), NEW a \in Spots, NEW b \in Spots,
           NEW r, NEW s \in Starts, r.lsn = LSN(s), RecordIs(f, a, s, b, r.id), Kept(d, r, b)
    PROVE  /\ s.blk \in 1 .. Len(d) /\ s.pos < d[s.blk].boundary
           /\ d[s.blk].cells[s.pos].id = r.id
           /\ d[s.blk].cells[s.pos].kind = "normal" => ReadRecordAt(d, LSN(s)) = r.id
  <1>1. d \in Seq(GoodBlock) /\ f \in Seq(GoodBlock) /\ Len(d) \in Nat /\ Cap \in Nat \ {0}
    BY CapAssumption DEF Grown
  <1>2. CASE Within(d, b)
    <2>1. RecordIs(d, a, s, b, r.id)
      BY <1>2, GrownHad
    <2> QED BY <1>1, <2>1, RecordFacts, ReadOfRecord
  <1>3. CASE r.lsn < Len(d) * Cap /\ ~Within(d, b)
    <2>1. s.blk \in 1 .. Len(f) /\ s.pos < f[s.blk].boundary /\ f[s.blk].cells[s.pos].id = r.id
          /\ (f[s.blk].cells[s.pos].kind = "normal" => Normal(f, s, b, r.id))
      BY <1>1, RecordFacts
    <2>2. s.blk # Len(d)
      <3>1. SUFFICES ASSUME s.blk = Len(d) PROVE FALSE
        OBVIOUS
      <3>2. s.blk * Cap <= LSN(s) /\ LSN(s) \in Nat
        BY LSNPlace
      <3>3. PICK m : m = Len(d) * Cap
        OBVIOUS
      <3>4. m \in Nat /\ m <= LSN(s) /\ LSN(s) < m
        BY <1>1, <1>3, <3>1, <3>2, <3>3
      <3> QED BY <3>2, <3>4
    <2>3. s.blk \in 1 .. Len(d) /\ s.blk < Len(d)
      BY <1>1, <2>1, <2>2
    <2>4. d[s.blk].boundary = f[s.blk].boundary
      BY <2>3 DEF Grown
    <2>5. f[s.blk].cells[s.pos] = d[s.blk].cells[s.pos]
      BY <2>1, <2>3, <2>4 DEF Grown, Starts
    <2>6. d[s.blk].cells[s.pos].kind # "normal"
      <3>1. SUFFICES ASSUME d[s.blk].cells[s.pos].kind = "normal" PROVE FALSE
        OBVIOUS
      <3>2. b.blk = s.blk
        BY <2>1, <2>5, <3>1 DEF Normal
      <3>3. Within(f, b)
        BY DEF RecordIs, Whole
      <3>4. Within(d, b)
        BY <2>3, <2>4, <3>2, <3>3 DEF Within
      <3> QED BY <1>3, <3>4
    <2> QED BY <2>1, <2>3, <2>4, <2>5, <2>6
  <1> QED BY <1>2, <1>3 DEF Kept

\* What Flush has acknowledged is on disk at every moment, of an append and of a new block too
\* (log.go:130).
THEOREM AcknowledgedIsOnDisk == ASSUME FlushAlone, ~CrashAnywhere PROVE Spec => []AckedOnDisk
  <1>1. LogTypes /\ ContentInv => AckedOnDisk
    <2> SUFFICES ASSUME LogTypes, ContentInv, NEW i \in 1 .. acked
                 PROVE  LET at == AtLSN(logged[i].lsn)
                        IN  /\ at.blk \in DOMAIN disk /\ at.pos < disk[at.blk].boundary
                            /\ PieceAt(disk, at).id = logged[i].id
                            /\ PieceAt(disk, at).kind = "normal" =>
                                  ReadRecordAt(disk, logged[i].lsn) = logged[i].id
      BY DEF AckedOnDisk
    <2>1. /\ disk \in Seq(GoodBlock) /\ logged \in Seq(ReadRecords) /\ i \in 1 .. Len(logged)
          /\ i <= acked /\ DOMAIN disk = 1 .. Len(disk)
      BY DEF LogTypes
    <2>2. PICK e : /\ Grown(disk, File) /\ Len(disk) = Len(File) /\ Laid(File, logged, e)
                   /\ Safe(e)
      <3>1. CASE phase = "up"
        BY <3>1, WhenUp DEF UpFacts, FileFacts
      <3>2. CASE phase # "up"
        BY <2>1, <3>2, GrownSelf DEF ContentInv, Contents, File, FileOf
      <3> QED BY <3>1, <3>2
    <2>3. Kept(disk, logged[i], e[i])
      BY <2>1, <2>2 DEF Safe
    <2>4. PICK s \in Starts : /\ e[i - 1] \in Spots /\ e[i] \in Spots /\ logged[i].lsn = LSN(s)
                              /\ RecordIs(File, e[i - 1], s, e[i], logged[i].id)
      <3>1. File \in Seq(GoodBlock)
        BY <2>2 DEF Grown
      <3> QED BY <2>1, <2>2, <3>1, LaidFacts
    <2>5. /\ s.blk \in 1 .. Len(disk) /\ s.pos < disk[s.blk].boundary
          /\ disk[s.blk].cells[s.pos].id = logged[i].id
          /\ disk[s.blk].cells[s.pos].kind = "normal" => ReadRecordAt(disk, LSN(s)) = logged[i].id
      BY <2>2, <2>3, <2>4, KeptIsRead
    <2>6. PieceAt(disk, s) = disk[s.blk].cells[s.pos] /\ AtLSN(LSN(s)) = s
      BY CapAssumption, LSNPlace DEF PieceAt, Starts
    <2> QED BY <2>1, <2>4, <2>5, <2>6
  <1> QED BY <1>1, LogContents, PTL

\* Every step of the log manager is one of the durable log, or none.
LEMMA PromiseStep ==
    ASSUME LogTypes, LogTypes', ContentInv, ~CrashAnywhere, [Next]_vars
    PROVE  [Promise!Next]_(Promise!vars)
  <1>1. logged \in Seq(ReadRecords) /\ acked \in 0 .. Len(logged) /\ acked' \in 0 .. Len(logged')
    BY DEF LogTypes
  <1>2. CASE UNCHANGED <<logged, acked>>
    BY <1>2 DEF Promise!vars
  <1>3. ASSUME NEW t \in Threads, Publish(t), ~(call[t].left > 0) PROVE Promise!Next
    <2>1. PICK r : r = [lsn |-> call[t].lsn, id |-> call[t].id]
      OBVIOUS
    <2>2. logged' = Append(logged, r) /\ acked' = acked
      BY <1>3, <2>1 DEF Publish
    <2>3. Len(logged') = Len(logged) + 1 /\ SubSeq(logged', 1, Len(logged)) = logged
      <3>1. r \in ReadRecords
        <4>1. call[t] \in Calls(Len(disk))
          BY DEF LogTypes
        <4> QED BY <2>1, <4>1 DEF Calls, ReadRecords
      <3>2. PICK lg, n : lg = logged /\ n = Len(logged)
        OBVIOUS
      <3>3. lg \in Seq(ReadRecords) /\ Len(Append(lg, r)) = n + 1 /\ n \in Nat
        BY <1>1, <3>1, <3>2
      <3>4. /\ SubSeq(Append(lg, r), 1, n) \in Seq(ReadRecords)
            /\ Len(SubSeq(Append(lg, r), 1, n)) = n
            /\ \A i \in 1 .. n : SubSeq(Append(lg, r), 1, n)[i] = lg[i]
        BY <3>1, <3>2, <3>3
      <3>5. SubSeq(Append(lg, r), 1, n) = lg
        BY <3>2, <3>3, <3>4
      <3> QED BY <2>2, <3>2, <3>3, <3>5
    <2> QED BY <2>2, <2>3 DEF Promise!Next, Promise!Extend
  <1>4. ASSUME NEW i, Acknowledge(i), logged' = logged PROVE [Promise!Next]_(Promise!vars)
    <2>1. CASE acked' = acked
      BY <1>2, <1>4, <2>1
    <2>2. CASE acked' # acked
      <3>1. acked' = i /\ i > acked
        BY <1>4, <2>2 DEF Acknowledge
      <3>2. acked' \in (acked + 1) .. Len(logged)
        BY <1>1, <1>4, <3>1
      <3> QED BY <1>4, <3>2 DEF Promise!Next, Promise!Sync
    <2> QED BY <2>1, <2>2
  <1>5. CASE Crash
    <2>1. PICK m \in acked .. Len(logged) : logged' = SubSeq(logged, 1, m) /\ acked' = m
      BY <1>5, CrashContents
    <2> QED BY <2>1 DEF Promise!Next, Promise!Crash
  <1>6. ASSUME NEW t \in Threads, Step(t) PROVE [Promise!Next]_(Promise!vars)
    <2>1. CASE Publish(t)
      <3>1. CASE call[t].left > 0
        BY <1>2, <2>1, <3>1 DEF Publish
      <3> QED BY <1>3, <2>1, <3>1
    <2>2. CASE \E i \in DOMAIN logged : FlushCall(t, i)
      <3>1. PICK i \in DOMAIN logged : FlushCall(t, i)
        BY <2>2
      <3> QED BY <1>2, <1>4, <3>1 DEF FlushCall
    <2>3. CASE FlushSave(t)
      BY <1>4, <2>3 DEF FlushSave
    <2>4. CASE (\E n \in Sizes : AppendCall(t, n)) \/ Put(t)
      BY <1>2, <2>4 DEF AppendCall, Put
    <2>5. CASE RollWrite(t) \/ RollAppend(t) \/ RollSwitch(t)
      BY <1>2, <2>5 DEF RollWrite, RollAppend, RollSwitch
    <2>6. CASE FlushCapture(t) \/ FlushWrite(t)
      BY <1>2, <2>6 DEF FlushCapture, FlushWrite
    <2> QED BY <1>6, <2>1, <2>2, <2>3, <2>4, <2>5, <2>6 DEF Step
  <1>7. CASE Start
    BY <1>2, <1>7 DEF Start, AppendHeader, WriteHeader, BadHeader, NoBlock, FirstAppend,
           FirstWrite, LoadLast
  <1>8. CASE (\E i \in DOMAIN logged : WriteCheckpoint(i)) \/ UNCHANGED vars
    BY <1>2, <1>8 DEF WriteCheckpoint, vars
  <1> QED BY <1>5, <1>6, <1>7, <1>8 DEF Next, Rest

\* The log manager implements DurableLog: a crash takes away records from the end only, and
\* none that Flush has acknowledged (log.go:119, 130, 148).
THEOREM ImplementsDurableLog ==
    ASSUME FlushAlone, ~CrashAnywhere PROVE Spec => RefinesDurableLog
  <1>1. Init => Promise!Init
    BY DEF Init, Promise!Init
  <1>2. LogTypes /\ LogTypes' /\ ContentInv /\ [Next]_vars => [Promise!Next]_(Promise!vars)
    BY PromiseStep
  <1> QED BY <1>1, <1>2, LogContents, PTL DEF Spec, RefinesDurableLog, Promise!Spec
=============================================================================
