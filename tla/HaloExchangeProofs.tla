-------------------------- MODULE HaloExchangeProofs --------------------------
(***************************************************************************)
(* Proofs about the halo exchanges of the two backends, for every mesh and *)
(* every sequence of requests.                                             *)
(*                                                                         *)
(* Native comes first.  A turn is a round of an exchange.  What a rank     *)
(* must send and receive in a turn is fixed beforehand, and both ends      *)
(* agree on it: the lists of cells are the same up to periodicity, so that *)
(* the buffers have the same length and, number by number, the same        *)
(* contents (SlotsAgree).                                                  *)
(*                                                                         *)
(* Whether a rank takes part in the traffic from another one in a turn     *)
(* depends on whether they had cells in common in this turn or an earlier  *)
(* one (Knows).  The messages on their way are those of the turns that the *)
(* one end has sent and the other has not got, in the order of the turns,  *)
(* so that the oldest is always the one the receive was posted for.        *)
(*                                                                         *)
(* Cubism follows (from RemainderIs on).  Its exchanges are numbered; what *)
(* a rank has begun and completed follows from its stage and its phase,    *)
(* and the messages on their way are those of the exchanges that the one   *)
(* end has begun and the other has not completed (MessagesSent).  A rank   *)
(* never completes an exchange that a neighbour has not begun.  Tags occur *)
(* more than once, but the receives are posted for the faces before the    *)
(* edges and the corners, in the order of the sends, and among the         *)
(* directions of a kind a tag is unique, so that each receive matches the  *)
(* message of its direction (MatchIs).                                     *)
(***************************************************************************)
EXTENDS HaloExchange, CubismExchange, HaloCellsProofs, SequenceTheorems

-----------------------------------------------------------------------------
(***************************************************************************)
(* Lists that are put in a row.                                            *)
(***************************************************************************)
IsList(x, n) == n \in Nat /\ x = [k \in 1 .. n |-> x[k]]

\* What FlattenSeq computes, step by step.
Joins(f, seqs, n) == f = [i \in 1 .. n |-> IF i = 1 THEN seqs[i] ELSE f[i - 1] \o seqs[i]]

\* There is such a function.
LEMMA JoinExists ==
  ASSUME NEW m \in Nat \ {0}, NEW seqs
  PROVE  \E f : Joins(f, seqs, m)
  <1> DEFINE Good == {n \in 0 .. m : \E f : Joins(f, seqs, n)}
  <1>1. 0 \in Good
    <2>1. Joins([i \in 1 .. 0 |-> 0], seqs, 0)
      BY DEF Joins
    <2>. QED
      BY <2>1
  <1>2. ASSUME NEW n \in 1 .. m, n - 1 \in Good PROVE n \in Good
    <2>1. PICK f : Joins(f, seqs, n - 1)
      BY <1>2
    <2> DEFINE g == [i \in 1 .. n |->
                       IF i = n THEN IF i = 1 THEN seqs[i] ELSE f[i - 1] \o seqs[i] ELSE f[i]]
    <2>2. \A i \in 1 .. n - 1 : f[i] = IF i = 1 THEN seqs[i] ELSE f[i - 1] \o seqs[i]
      BY <2>1 DEF Joins
    <2>3. \A i \in 1 .. n : g[i] = IF i = 1 THEN seqs[i] ELSE g[i - 1] \o seqs[i]
      <3>. SUFFICES ASSUME NEW i \in 1 .. n
           PROVE  g[i] = IF i = 1 THEN seqs[i] ELSE g[i - 1] \o seqs[i]
        OBVIOUS
      <3>1. i # 1 => i - 1 \in 1 .. n /\ i - 1 # n /\ g[i - 1] = f[i - 1]
        OBVIOUS
      <3>2. CASE i = n
        BY <3>1, <3>2
      <3>3. CASE i # n
        BY <3>1, <3>3, <2>2
      <3>. QED
        BY <3>2, <3>3
    <2>4. Joins(g, seqs, n)
      <3>1. g = [i \in 1 .. n |-> g[i]]
        OBVIOUS
      <3>. HIDE DEF g
      <3>2. [i \in 1 .. n |-> g[i]] = [i \in 1 .. n |-> IF i = 1 THEN seqs[i] ELSE g[i - 1] \o seqs[i]]
        BY <2>3
      <3>. QED
        BY <3>1, <3>2 DEF Joins
    <2>. QED
      BY <2>4
  <1>3. m \in Good
    <2>. HIDE DEF Good
    <2>1. \A n \in 0 .. m : n \in Good
      BY <1>1, <1>2, IntervalInduction
    <2>. QED
      BY <2>1
  <1>. QED
    BY <1>3

\* A list that is joined to another.
IsJoin(u, s, t, m, n) ==
  /\ IsList(u, m + n)
  /\ \A x \in 1 .. m : u[x] = s[x]
  /\ \A k \in 1 .. n : u[m + k] = t[k]

LEMMA JoinedIs ==
  ASSUME NEW s, NEW t, NEW m, NEW n, IsList(s, m), IsList(t, n)
  PROVE  IsJoin(s \o t, s, t, m, n)
  <1> DEFINE T == {s[k] : k \in 1 .. m} \cup {t[k] : k \in 1 .. n}
             u == s \o t
  <1>1. s \in [1 .. m -> T] /\ t \in [1 .. n -> T] /\ m \in Nat /\ n \in Nat
    BY DEF IsList
  <1>. HIDE DEF T
  <1>2. s \in Seq(T) /\ t \in Seq(T) /\ Len(s) = m /\ Len(t) = n
    BY <1>1
  <1>3. u \in Seq(T) /\ Len(u) = m + n
    BY <1>2
  <1>4. /\ \A x \in 1 .. m : u[x] = s[x]
        /\ \A k \in 1 .. n : u[m + k] = t[k]
    BY <1>1, <1>2
  <1>. HIDE DEF u
  <1>5. u \in [1 .. m + n -> T]
    BY <1>3, LenProperties
  <1>6. IsList(u, m + n)
    BY <1>1, <1>5 DEF IsList
  <1>. QED
    BY <1>4, <1>6 DEF IsJoin, u

\* Two rows of lists of the same lengths, whose elements are pairwise related,
\* become two lists of the same length, whose elements are related.
Related(x, y, n, Pairs) ==
  IsList(x, n) /\ IsList(y, n) /\ \A k \in 1 .. n : <<x[k], y[k]>> \in Pairs

LEMMA Flattened ==
  ASSUME NEW m \in Nat, NEW p, NEW q, IsList(p, m), IsList(q, m), NEW Pairs,
         NEW n, \A i \in 1 .. m : Related(p[i], q[i], n[i], Pairs),
         NEW f \in [0 .. m -> Int], f[0] = 0, \A i \in 1 .. m : f[i] = f[i - 1] + n[i]
  PROVE  Related(FlattenSeq(p), FlattenSeq(q), f[m], Pairs)
  <1>1. CASE m = 0
    <2>1. Len(p) = 0 /\ Len(q) = 0
      BY <1>1 DEF IsList
    <2>2. FlattenSeq(p) = p /\ FlattenSeq(q) = q
      BY <2>1 DEF FlattenSeq
    <2>3. \A k \in 1 .. 0 : FALSE
      OBVIOUS
    <2>. QED
      BY <1>1, <2>2, <2>3 DEF Related
  <1>2. CASE m # 0
    <2> DEFINE F == CHOOSE g : Joins(g, p, m)
               G == CHOOSE g : Joins(g, q, m)
               Good == {l \in 0 .. m : l # 0 => Related(F[l], G[l], f[l], Pairs)}
    <2>1. Joins(F, p, m) /\ Joins(G, q, m)
      BY <1>2, JoinExists
    <2>2. Len(p) = m /\ Len(q) = m
      BY DEF IsList
    <2>3. FlattenSeq(p) = F[m] /\ FlattenSeq(q) = G[m]
      BY <1>2, <2>2 DEF FlattenSeq, Joins
    <2>. HIDE DEF F, G
    <2>4. ASSUME NEW l \in 1 .. m
          PROVE  /\ F[l] = IF l = 1 THEN p[l] ELSE F[l - 1] \o p[l]
                 /\ G[l] = IF l = 1 THEN q[l] ELSE G[l - 1] \o q[l]
      BY <2>1 DEF Joins
    <2>5. ASSUME NEW l \in 1 .. m, l - 1 \in Good PROVE l \in Good
      <3>1. Related(p[l], q[l], n[l], Pairs) /\ f[l] = f[l - 1] + n[l]
        OBVIOUS
      <3>2. CASE l = 1
        <4>1. F[l] = p[l] /\ G[l] = q[l]
          BY <2>4, <3>2
        <4>2. n[l] \in Nat
          BY <3>1 DEF Related, IsList
        <4>3. f[l] = n[l]
          BY <3>1, <3>2, <4>2
        <4>. QED
          BY <3>1, <4>1, <4>3
      <3>3. CASE l # 1
        <4>1. F[l] = F[l - 1] \o p[l] /\ G[l] = G[l - 1] \o q[l]
          BY <2>4, <3>3
        <4>2. Related(F[l - 1], G[l - 1], f[l - 1], Pairs)
          BY <2>5, <3>3
        <4>3. IsList(F[l - 1], f[l - 1]) /\ IsList(G[l - 1], f[l - 1]) /\ IsList(p[l], n[l]) /\ IsList(q[l], n[l])
          BY <3>1, <4>2 DEF Related
        <4> DEFINE a == f[l - 1]
                   b == n[l]
        <4>4. /\ IsList(F[l], a + b)
              /\ \A x \in 1 .. a : F[l][x] = F[l - 1][x]
              /\ \A k \in 1 .. b : F[l][a + k] = p[l][k]
          <5> DEFINE s == F[l - 1]
                     t == p[l]
          <5>1. IsList(s, a) /\ IsList(t, b) /\ F[l] = s \o t
            BY <4>1, <4>3
          <5>. HIDE DEF a, b, s, t
          <5>2. IsJoin(s \o t, s, t, a, b)
            BY <5>1, JoinedIs
          <5>3. IsJoin(F[l], s, t, a, b)
            BY <5>1, <5>2
          <5>. QED
            BY <5>3 DEF IsJoin, s, t
        <4>5. /\ IsList(G[l], a + b)
              /\ \A x \in 1 .. a : G[l][x] = G[l - 1][x]
              /\ \A k \in 1 .. b : G[l][a + k] = q[l][k]
          <5> DEFINE s == G[l - 1]
                     t == q[l]
          <5>1. IsList(s, a) /\ IsList(t, b) /\ G[l] = s \o t
            BY <4>1, <4>3
          <5>. HIDE DEF a, b, s, t
          <5>2. IsJoin(s \o t, s, t, a, b)
            BY <5>1, JoinedIs
          <5>3. IsJoin(G[l], s, t, a, b)
            BY <5>1, <5>2
          <5>. QED
            BY <5>3 DEF IsJoin, s, t
        <4>6. /\ \A x \in 1 .. a : <<F[l - 1][x], G[l - 1][x]>> \in Pairs
              /\ \A k \in 1 .. b : <<p[l][k], q[l][k]>> \in Pairs
          BY <3>1, <4>2 DEF Related
        <4>7. a \in Nat /\ b \in Nat
          BY <4>3 DEF IsList
        <4>8. f[l] = a + b
          BY <3>1
        <4>. HIDE DEF a, b
        <4>9. ASSUME NEW k \in 1 .. a + b PROVE <<F[l][k], G[l][k]>> \in Pairs
          <5>1. CASE k <= a
            <6>1. k \in 1 .. a
              BY <4>7, <5>1
            <6>. QED
              BY <4>4, <4>5, <4>6, <6>1
          <5>2. CASE ~(k <= a)
            <6>1. PICK x \in 1 .. b : k = a + x
              <7>1. k - a \in 1 .. b /\ k = a + (k - a)
                BY <4>7, <5>2
              <7>. QED
                BY <7>1
            <6>. QED
              BY <4>4, <4>5, <4>6, <6>1
          <5>. QED
            BY <5>1, <5>2
        <4>. QED
          BY <4>4, <4>5, <4>8, <4>9 DEF Related
      <3>. QED
        BY <3>2, <3>3
    <2>6. 0 \in Good
      OBVIOUS
    <2>7. m \in Good
      <3>. HIDE DEF Good
      <3>1. \A l \in 0 .. m : l \in Good
        BY <2>5, <2>6, IntervalInduction
      <3>. QED
        BY <3>1
    <2>. QED
      BY <1>2, <2>3, <2>7
  <1>. QED
    BY <1>1, <1>2

-----------------------------------------------------------------------------
(***************************************************************************)
(* The lists of cells.  The shared mesh is a mesh of one block per rank.   *)
(***************************************************************************)
SharedMesh == INSTANCE HaloCellsProofs WITH
  nblocks <- [d \in Axis |-> 1], blocksize <- Times(nblocks, blocksize)

\* It is a mesh.
LEMMA SharedIsMesh ==
  /\ SharedMesh!dim \in Nat \ {0} /\ SharedMesh!IsSize(nprocs)
  /\ SharedMesh!IsSize([d \in Axis |-> 1])
  /\ SharedMesh!IsSize(Times(nblocks, blocksize))
  <1>1. \A d \in Axis : nblocks[d] * blocksize[d] \in Nat \ {0}
    <2>1. \A d \in Axis : nblocks[d] \in Nat \ {0} /\ blocksize[d] \in Nat \ {0}
      BY SizesArePositive DEF Sized
    <2>. QED
      BY <2>1
  <1>. QED
    BY <1>1, DomainAssumption DEF SharedMesh!IsSize, SharedMesh!dim, IsSize, dim, Times, Axis

\* It has the ranks of the other mesh.
LEMMA SharedRanks == SharedMesh!Rank = Rank /\ SharedMesh!Axis = Axis
  <1>1. ASSUME NEW v, NEW size PROVE SharedMesh!RowMajor(v, size) = RowMajor(v, size)
    BY DEF RowMajor, SharedMesh!RowMajor, dim, SharedMesh!dim
  <1>2. SharedMesh!Axis = Axis
    BY DEF SharedMesh!Axis, Axis, SharedMesh!dim, dim
  <1>. QED
    BY <1>1, <1>2 DEF Rank, SharedMesh!Rank

\* The lists are those of module HaloExchange.
LEMMA SharedLists ==
  ASSUME NEW r, NEW stencil
  PROVE  Shared!GetRecvCells(r, stencil) = SharedMesh!GetRecvCells(r, stencil)
  <1>1. SharedMesh!dim = Shared!dim
    BY DEF SharedMesh!dim, Shared!dim
  <1>2. SharedMesh!Axis = Shared!Axis
    BY <1>1 DEF SharedMesh!Axis, Shared!Axis
  <1>3. ASSUME NEW v, NEW size PROVE SharedMesh!RowMajor(v, size) = Shared!RowMajor(v, size)
    BY DEF Shared!RowMajor, SharedMesh!RowMajor, Shared!dim, SharedMesh!dim
  <1>4. ASSUME NEW S PROVE SharedMesh!Cardinality(S) = Shared!Cardinality(S)
    BY DEF SharedMesh!Cardinality, Shared!Cardinality
  <1>5. ASSUME NEW S PROVE SharedMesh!Max(S) = Shared!Max(S)
    BY DEF SharedMesh!Max, Shared!Max
  <1>6. ASSUME NEW size PROVE SharedMesh!Box(size) = Shared!Box(size)
    BY <1>2, <1>5 DEF SharedMesh!Box, Shared!Box
  <1>7. SharedMesh!Rank = Shared!Rank /\ SharedMesh!Block = Shared!Block
    BY <1>2, <1>3 DEF SharedMesh!Rank, Shared!Rank, SharedMesh!Block, Shared!Block
  <1>8. ASSUME NEW q PROVE SharedMesh!ProcOf(q) = Shared!ProcOf(q) /\ SharedMesh!BlockOf(q) = Shared!BlockOf(q)
    BY <1>3, <1>6 DEF SharedMesh!ProcOf, Shared!ProcOf, SharedMesh!BlockOf, Shared!BlockOf
  <1>9. ASSUME NEW v, NEW w
        PROVE  SharedMesh!Times(v, w) = Shared!Times(v, w) /\ SharedMesh!Plus(v, w) = Shared!Plus(v, w)
    BY <1>2 DEF SharedMesh!Times, Shared!Times, SharedMesh!Plus, Shared!Plus
  <1>10. ASSUME NEW q, NEW ib PROVE SharedMesh!Begin(q, ib) = Shared!Begin(q, ib)
    BY <1>8, <1>9 DEF SharedMesh!Begin, Shared!Begin
  <1>11. SharedMesh!InCells = Shared!InCells
    BY <1>6, <1>7, <1>9, <1>10 DEF SharedMesh!InCells, Shared!InCells
  <1>12. SharedMesh!Offsets(stencil) = Shared!Offsets(stencil)
    BY <1>2, <1>4 DEF SharedMesh!Offsets, Shared!Offsets, SharedMesh!nnz, Shared!nnz
  <1>13. ASSUME NEW ib PROVE SharedMesh!SeenCells(r, ib, stencil) = Shared!SeenCells(r, ib, stencil)
    BY <1>9, <1>11, <1>12 DEF SharedMesh!SeenCells, Shared!SeenCells
  <1>14. SharedMesh!RecvSet(r, stencil) = Shared!RecvSet(r, stencil)
    BY <1>7, <1>13 DEF SharedMesh!RecvSet, Shared!RecvSet
  <1>15. ASSUME NEW b, NEW c PROVE SharedMesh!LocalLess(b, c) = Shared!LocalLess(b, c)
    BY <1>1, <1>2 DEF SharedMesh!LocalLess, Shared!LocalLess, SharedMesh!IndexLess, Shared!IndexLess
  <1>16. ASSUME NEW cells PROVE SharedMesh!InOrder(cells) = Shared!InOrder(cells)
    <2>1. ASSUME NEW c
          PROVE  SharedMesh!Cardinality({b \in cells : SharedMesh!LocalLess(b, c)})
                   = Shared!Cardinality({b \in cells : Shared!LocalLess(b, c)})
      <3>1. {b \in cells : SharedMesh!LocalLess(b, c)} = {b \in cells : Shared!LocalLess(b, c)}
        BY <1>15
      <3>. QED
        BY <3>1, <1>4, Zenon
    <2> DEFINE A(c) == SharedMesh!Cardinality({b \in cells : SharedMesh!LocalLess(b, c)})
               B(c) == Shared!Cardinality({b \in cells : Shared!LocalLess(b, c)})
    <2>2. ASSUME NEW c PROVE A(c) = B(c)
      BY <2>1
    <2>3. /\ SharedMesh!InOrder(cells) = [k \in 1 .. SharedMesh!Cardinality(cells) |-> CHOOSE c \in cells : A(c) = k - 1]
          /\ Shared!InOrder(cells) = [k \in 1 .. Shared!Cardinality(cells) |-> CHOOSE c \in cells : B(c) = k - 1]
      BY DEF SharedMesh!InOrder, Shared!InOrder
    <2>. HIDE DEF A, B
    <2>4. ASSUME NEW k PROVE (CHOOSE c \in cells : A(c) = k) = CHOOSE c \in cells : B(c) = k
      BY <2>2
    <2> DEFINE C(k) == CHOOSE c \in cells : A(c) = k
               D(k) == CHOOSE c \in cells : B(c) = k
               n == Shared!Cardinality(cells)
    <2>5. SharedMesh!InOrder(cells) = [k \in 1 .. n |-> C(k - 1)]
      BY <1>4, <2>3, Zenon
    <2>6. Shared!InOrder(cells) = [k \in 1 .. n |-> D(k - 1)]
      BY <2>3, Zenon
    <2>7. ASSUME NEW k PROVE C(k) = D(k)
      BY <2>4
    <2>. HIDE DEF C, D, n
    <2>8. [k \in 1 .. n |-> C(k - 1)] = [k \in 1 .. n |-> D(k - 1)]
      BY <2>7
    <2>. QED
      BY <2>5, <2>6, <2>8
  <1>17. ASSUME NEW w PROVE SharedMesh!cell_to_rank(w) = Shared!cell_to_rank(w)
    BY <1>2, <1>3 DEF SharedMesh!cell_to_rank, Shared!cell_to_rank, SharedMesh!Divide, Shared!Divide
  <1>18. ASSUME NEW w PROVE SharedMesh!GetPeriodic(w) = Shared!GetPeriodic(w)
    BY <1>2, <1>9 DEF SharedMesh!GetPeriodic, Shared!GetPeriodic, SharedMesh!globalsize, Shared!globalsize
  <1>. QED
    BY <1>14, <1>16, <1>17, <1>18 DEF SharedMesh!GetRecvCells, Shared!GetRecvCells

\* The list of one rank for another one names cells.
LEMMA RecvIs ==
  ASSUME NEW mesh \in Mesh, NEW t \in DOMAIN Stencils, NEW r \in Rank, NEW s \in DOMAIN recv[mesh][t][r]
  PROVE  LET list == recv[mesh][t][r][s]
         IN /\ s \in Rank
            /\ \E n : IsList(list, n)
            /\ \A k \in DOMAIN list : list[k].cell \in [Axis -> Int]
  <1> DEFINE list == recv[mesh][t][r][s]
  <1>1. Stencils[t].halos \in Nat
    BY DEF Stencils
  <1>2. CASE mesh = "shared"
    <2>1. recv[mesh][t][r] = SharedMesh!GetRecvCells(r, Stencils[t])
      BY <1>2, SharedLists DEF recv
    <2> DEFINE lists == SharedMesh!GetRecvCells(r, Stencils[t])
    <2>2. /\ s \in SharedMesh!Rank
          /\ \E n \in Nat : lists[s] = [k \in 1 .. n |-> lists[s][k]]
          /\ \A k \in DOMAIN lists[s] : lists[s][k].cell \in [SharedMesh!Axis -> Int]
      BY <1>1, <2>1, SharedIsMesh, SharedRanks, SharedMesh!ListsAre
    <2>. HIDE DEF lists
    <2>. QED
      BY <2>1, <2>2, SharedRanks DEF IsList, lists
  <1>3. CASE mesh = "blocks"
    <2>1. recv[mesh][t][r] = GetRecvCells(r, Stencils[t])
      BY <1>3 DEF recv
    <2> DEFINE lists == GetRecvCells(r, Stencils[t])
    <2>2. /\ s \in Rank
          /\ \E n \in Nat : lists[s] = [k \in 1 .. n |-> lists[s][k]]
          /\ \A k \in DOMAIN lists[s] : lists[s][k].cell \in [Axis -> Int]
      BY <1>1, <2>1, ListsAre
    <2>. HIDE DEF lists
    <2>. QED
      BY <2>1, <2>2 DEF IsList, lists
  <1>. QED
    BY <1>2, <1>3 DEF Mesh

-----------------------------------------------------------------------------
(***************************************************************************)
(* Buffers.                                                                *)
(***************************************************************************)
\* The rounds of an exchange.
LEMMA RoundsAre ==
  /\ Len(Stencils) = 4 /\ DOMAIN Stencils = 1 .. 4
  /\ \A e \in DOMAIN Exchanges : LastRound(e) \in 1 .. 8 /\ Rounds(e) \subseteq 1 .. 8
  /\ \A j \in 1 .. 8 : MeshOf(j) \in Mesh /\ StencilOf(j) \in 1 .. 4
  <1>1. Len(Stencils) = 4 /\ DOMAIN Stencils = 1 .. 4
    BY DEF Stencils
  <1>2. \A e \in DOMAIN Exchanges : LastRound(e) \in 1 .. 8
    BY <1>1 DEF LastRound
  <1>3. \A e \in DOMAIN Exchanges : Rounds(e) \subseteq 1 .. 8
    BY <1>2 DEF Rounds
  <1>4. ASSUME NEW j \in 1 .. 8 PROVE MeshOf(j) \in Mesh /\ StencilOf(j) \in 1 .. 4
    BY <1>1 DEF MeshOf, Mesh, StencilOf
  <1>. QED
    BY <1>1, <1>2, <1>3, <1>4

\* The components of the requests that are transferred in a round.
Count(e, j, i) == Cardinality(Selected(e, j)[i].parts)

LEMMA SelectedAre ==
  ASSUME NEW e \in DOMAIN Exchanges, NEW j \in 1 .. 8
  PROVE  /\ IsList(Selected(e, j), Len(Selected(e, j)))
         /\ \A i \in 1 .. Len(Selected(e, j)) : Count(e, j, i) \in Nat
  <1> DEFINE requests == Exchanges[e][MeshOf(j)]
             n == Len(requests)
             selected == Selected(e, j)
  <1>1. /\ n \in Nat /\ DOMAIN requests = 1 .. n
        /\ \A i \in 1 .. n : IsFiniteSet(requests[i].parts)
    BY RoundsAre, ExchangesAssumption
  <1>2. selected = [i \in 1 .. n |->
          [field |-> requests[i].field,
           parts |-> IF requests[i].stencil = Stencils[StencilOf(j)] THEN requests[i].parts ELSE {}]]
    BY <1>1 DEF Selected
  <1>. HIDE DEF n, requests, selected
  <1>3. Len(selected) = n /\ IsList(selected, n)
    BY <1>1, <1>2 DEF IsList
  <1>4. ASSUME NEW i \in 1 .. n PROVE Count(e, j, i) \in Nat
    <2>1. selected[i].parts = requests[i].parts \/ selected[i].parts = {}
      BY <1>2
    <2>2. IsFiniteSet(selected[i].parts)
      BY <1>1, <2>1, FS_EmptySet
    <2>. QED
      BY <2>2, FS_CardinalityType DEF Count, selected
  <1>. QED
    BY <1>3, <1>4 DEF selected

\* nscal is their number.
LEMMA NscalIs ==
  ASSUME NEW e \in DOMAIN Exchanges, NEW j \in 1 .. 8
  PROVE  LET m == Len(Selected(e, j))
         IN \E f \in [0 .. m -> Int] :
              f[0] = 0 /\ f[m] = nscal(e, j) /\ \A i \in 1 .. m : f[i] = f[i - 1] + Count(e, j, i)
  <1> DEFINE m == Len(Selected(e, j))
             a == [i \in 1 .. m |-> 1]
             b == [i \in 1 .. m |-> Count(e, j, i)]
             Solves(f) == f = [i \in 0 .. m |-> IF i = 0 THEN 0 ELSE f[i - 1] + Count(e, j, i)]
             n == CHOOSE f : Solves(f)
  <1>1. m \in Nat /\ \A i \in 1 .. m : Count(e, j, i) \in Nat
    BY SelectedAre DEF IsList
  <1>2. nscal(e, j) = n[m]
    BY DEF nscal, Count
  <1>. HIDE DEF m
  <1>3. a \in [1 .. m -> Int] /\ b \in [1 .. m -> Int]
    BY <1>1
  <1>4. PICK f \in [0 .. m -> Int] : f[0] = 0 /\ \A k \in 1 .. m : f[k] = f[k - 1] * a[k] + b[k]
    <2>1. m \in Nat /\ 0 \in Int
      BY <1>1
    <2>. HIDE DEF a, b, Solves, n
    <2>2. PICK f \in [0 .. m -> Int] : Recurs(f, m, a, b, 0)
      BY <2>1, <1>3, RecursionExists
    <2>. QED
      BY <2>2 DEF Recurs
  <1>5. \A k \in 1 .. m : f[k] = f[k - 1] + Count(e, j, k)
    <2>. SUFFICES ASSUME NEW k \in 1 .. m PROVE f[k] = f[k - 1] + Count(e, j, k)
      OBVIOUS
    <2>1. f[k - 1] \in Int
      BY <1>1
    <2>. QED
      BY <2>1, <1>4
  <1>6. Solves(f)
    <2>1. \A i \in 0 .. m : f[i] = IF i = 0 THEN 0 ELSE f[i - 1] + Count(e, j, i)
      BY <1>4, <1>5
    <2>. QED
      BY <2>1
  <1>7. Solves(n)
    <2>. HIDE DEF Solves
    <2>. QED
      BY <1>6
  <1>8. n = [i \in 0 .. m |-> n[i]] /\ \A i \in 0 .. m : n[i] = IF i = 0 THEN 0 ELSE n[i - 1] + Count(e, j, i)
    BY <1>7
  <1>. HIDE DEF n, Solves
  <1> DEFINE Same == {i \in 0 .. m : n[i] = f[i]}
  <1>9. 0 \in Same
    <2>1. 0 \in 0 .. m
      BY <1>1
    <2>2. n[0] = 0
      BY <1>8, <2>1
    <2>. QED
      BY <2>1, <2>2, <1>4
  <1>10. ASSUME NEW i \in 1 .. m, i - 1 \in Same PROVE i \in Same
    <2>1. n[i - 1] = f[i - 1] /\ i \in 0 .. m /\ i # 0
      BY <1>1, <1>10
    <2>2. n[i] = n[i - 1] + Count(e, j, i)
      BY <1>8, <2>1
    <2>. QED
      BY <1>5, <2>1, <2>2
  <1>11. n[m] = f[m]
    <2>. HIDE DEF Same
    <2>1. \A i \in 0 .. m : i \in Same
      BY <1>1, <1>9, <1>10, IntervalInduction
    <2>. QED
      BY <1>1, <2>1 DEF Same
  <1>. QED
    BY <1>2, <1>4, <1>5, <1>11 DEF m

\* The number at the same position of two buffers for lists of the same length.
Slot(e, j, i, d, c) ==
  [mesh  |-> MeshOf(j), field |-> Selected(e, j)[i].field,
   part  |-> CHOOSE p \in Selected(e, j)[i].parts :
               Cardinality({q \in Selected(e, j)[i].parts : q < p}) = d - 1,
   block |-> c.block, cell |-> c.cell]

SlotPairs(e, j, p, q, n) ==
  {<<Slot(e, j, z[1], z[3], p[z[2]]), Slot(e, j, z[1], z[3], q[z[2]])>> :
     z \in (1 .. Len(Selected(e, j))) \X (1 .. n) \X Nat}

LEMMA SlotsAre ==
  ASSUME NEW e \in DOMAIN Exchanges, NEW j \in 1 .. 8,
         NEW p, NEW q, NEW n, IsList(p, n), IsList(q, n)
  PROVE  Related(Slots(p, e, j), Slots(q, e, j), n * nscal(e, j), SlotPairs(e, j, p, q, n))
  <1> DEFINE m == Len(Selected(e, j))
             part(i, cells) == FlattenSeq([k \in 1 .. n |-> [d \in 1 .. Count(e, j, i) |-> Slot(e, j, i, d, cells[k])]])
             all(cells) == [i \in 1 .. m |-> part(i, cells)]
             Pairs == SlotPairs(e, j, p, q, n)
  <1>1. /\ m \in Nat /\ n \in Nat /\ DOMAIN Selected(e, j) = 1 .. m
        /\ \A i \in 1 .. m : Count(e, j, i) \in Nat
    BY SelectedAre DEF IsList
  <1>2. Slots(p, e, j) = FlattenSeq(all(p)) /\ Slots(q, e, j) = FlattenSeq(all(q))
    <2>1. DOMAIN p = 1 .. n /\ DOMAIN q = 1 .. n
      BY DEF IsList
    <2>. QED
      BY <1>1, <2>1 DEF Slots, Slot, Count
  <1>3. PICK g \in [0 .. m -> Int] :
          g[0] = 0 /\ g[m] = nscal(e, j) /\ \A i \in 1 .. m : g[i] = g[i - 1] + Count(e, j, i)
    BY NscalIs
  <1>. HIDE DEF m, Pairs
  <1>4. ASSUME NEW i \in 1 .. m
        PROVE  Related(part(i, p), part(i, q), n * Count(e, j, i), Pairs)
    <2> DEFINE c == Count(e, j, i)
               x == [k \in 1 .. n |-> [d \in 1 .. c |-> Slot(e, j, i, d, p[k])]]
               y == [k \in 1 .. n |-> [d \in 1 .. c |-> Slot(e, j, i, d, q[k])]]
               f == [k \in 0 .. n |-> k * c]
               l == [k \in 1 .. n |-> c]
    <2>1. c \in Nat
      BY <1>1
    <2>2. ASSUME NEW k \in 1 .. n PROVE Related(x[k], y[k], c, Pairs)
      <3>1. IsList(x[k], c) /\ IsList(y[k], c)
        BY <2>1 DEF IsList
      <3>2. ASSUME NEW d \in 1 .. c PROVE <<x[k][d], y[k][d]>> \in Pairs
        <4>1. <<i, k, d>> \in (1 .. m) \X (1 .. n) \X Nat
          BY <2>1
        <4>2. x[k][d] = Slot(e, j, i, d, p[k]) /\ y[k][d] = Slot(e, j, i, d, q[k])
          OBVIOUS
        <4>. QED
          BY <4>1, <4>2 DEF Pairs, SlotPairs, m
      <3>. QED
        BY <3>1, <3>2 DEF Related
    <2>. HIDE DEF c
    <2>3. f \in [0 .. n -> Int] /\ f[0] = 0 /\ \A k \in 1 .. n : f[k] = f[k - 1] + l[k]
      <3>1. ASSUME NEW k \in 0 .. n PROVE k * c \in Int
        BY <1>1, <2>1
      <3>2. ASSUME NEW k \in 1 .. n PROVE k * c = (k - 1) * c + c
        BY <1>1, <2>1
      <3>3. 0 * c = 0
        BY <2>1
      <3>. QED
        BY <1>1, <3>1, <3>2, <3>3
    <2>4. IsList(x, n) /\ IsList(y, n) /\ \A k \in 1 .. n : Related(x[k], y[k], l[k], Pairs)
      <3>. HIDE DEF Related
      <3>1. \A k \in 1 .. n : l[k] = c
        OBVIOUS
      <3>2. IsList(x, n) /\ IsList(y, n)
        BY <1>1 DEF IsList
      <3>. HIDE DEF x, y, l
      <3>. QED
        BY <2>2, <3>1, <3>2
    <2>5. f[n] = n * c
      BY <1>1
    <2>. HIDE DEF x, y, f, l
    <2>6. Related(FlattenSeq(x), FlattenSeq(y), f[n], Pairs)
      BY <1>1, <2>3, <2>4, Flattened
    <2>. QED
      BY <2>5, <2>6 DEF x, y, c
  <1> DEFINE f == [i \in 0 .. m |-> n * g[i]]
             l == [i \in 1 .. m |-> n * Count(e, j, i)]
  <1>5. f \in [0 .. m -> Int] /\ f[0] = 0 /\ f[m] = n * nscal(e, j) /\ \A i \in 1 .. m : f[i] = f[i - 1] + l[i]
    <2>1. ASSUME NEW i \in 0 .. m PROVE n * g[i] \in Int
      <3>1. g[i] \in Int
        OBVIOUS
      <3>. QED
        BY <3>1, <1>1
    <2>2. ASSUME NEW i \in 1 .. m PROVE n * g[i] = n * g[i - 1] + n * Count(e, j, i)
      <3>1. g[i - 1] \in Int /\ Count(e, j, i) \in Int /\ g[i] = g[i - 1] + Count(e, j, i)
        BY <1>1, <1>3
      <3>. QED
        BY <3>1, <1>1
    <2>3. n * g[0] = 0 /\ n * g[m] = n * nscal(e, j)
      BY <1>1, <1>3
    <2>. QED
      BY <1>1, <2>1, <2>2, <2>3
  <1>6. /\ IsList(all(p), m) /\ IsList(all(q), m)
        /\ \A i \in 1 .. m : Related(all(p)[i], all(q)[i], l[i], Pairs)
    <2>1. IsList(all(p), m) /\ IsList(all(q), m)
      <3>. HIDE DEF part
      <3>. QED
        BY <1>1 DEF IsList
    <2>2. ASSUME NEW i \in 1 .. m
          PROVE  all(p)[i] = part(i, p) /\ all(q)[i] = part(i, q) /\ l[i] = n * Count(e, j, i)
      <3>. HIDE DEF part
      <3>. QED
        OBVIOUS
    <2>. HIDE DEF all, l, part
    <2>. QED
      BY <1>4, <2>1, <2>2
  <1>. HIDE DEF all, f, l
  <1>7. Related(FlattenSeq(all(p)), FlattenSeq(all(q)), f[m], Pairs)
    BY <1>1, <1>5, <1>6, Flattened
  <1>. QED
    BY <1>2, <1>5, <1>7 DEF Pairs

-----------------------------------------------------------------------------
(***************************************************************************)
(* Turns, and the messages of a turn.                                      *)
(***************************************************************************)
Turns == {a \in Nat \X Nat : a[1] \in DOMAIN Exchanges /\ a[2] \in Rounds(a[1])}

\* The ranks that rank r receives cells from in a turn.
Partners(r, a) == DOMAIN recv[MeshOf(a[2])][StencilOf(a[2])][r]

Sending(s, r, a) == SendSlots[a[1]][a[2]][s][r]
Receiving(r, s, a) == RecvSlots[a[1]][a[2]][r][s]
Size(r, s, a) == cnt[a[1]][a[2]][r][s]

\* What s sends to r in a turn.
Message(s, r, a) == [k \in DOMAIN Sending(s, r, a) |-> Value(Sending(s, r, a)[k], a[1])]

LEMMA TurnsAre ==
  ASSUME NEW a \in Turns
  PROVE  /\ a[1] \in 1 .. Len(Exchanges) /\ a[1] \in DOMAIN Exchanges /\ a = <<a[1], a[2]>>
         /\ a[2] \in 1 .. LastRound(a[1]) /\ a[2] \in Rounds(a[1]) /\ a[2] \in 1 .. 8
         /\ MeshOf(a[2]) \in Mesh /\ StencilOf(a[2]) \in DOMAIN Stencils
  <1>1. /\ a \in Nat \X Nat /\ a[1] \in DOMAIN Exchanges /\ a[2] \in Rounds(a[1])
    BY DEF Turns
  <1>2. a[1] \in 1 .. Len(Exchanges) /\ a[2] \in 1 .. LastRound(a[1]) /\ a[2] \in 1 .. 8
    BY <1>1, ExchangesAssumption, RoundsAre DEF Rounds
  <1>3. a = <<a[1], a[2]>>
    BY <1>1
  <1>. QED
    BY <1>1, <1>2, <1>3, RoundsAre

\* A cell is at one place of the mesh.
LEMMA PeriodicTwice ==
  ASSUME NEW w \in [Axis -> Int]
  PROVE  GetPeriodic(GetPeriodic(w)) = GetPeriodic(w)
  <1> DEFINE v == GetPeriodic(w)
  <1>1. OfMesh(v)
    BY PeriodicOfMesh
  <1>2. v = [d \in Axis |-> v[d]] /\ GetPeriodic(v) = [d \in Axis |-> v[d] % globalsize[d]]
    BY DEF GetPeriodic
  <1>. HIDE DEF v
  <1>3. ASSUME NEW d \in Axis PROVE v[d] % globalsize[d] = v[d]
    <2>1. v[d] \in Nat /\ globalsize[d] \in Nat /\ v[d] < globalsize[d]
      BY <1>1, SizesOfMesh DEF OfMesh
    <2>. QED
      BY <2>1
  <1>4. GetPeriodic(v) = v
    BY <1>2, <1>3
  <1>. QED
    BY <1>4 DEF v

\* Two positions that differ by their cells only.
LEMMA SlotsDiffer ==
  ASSUME NEW e, NEW j, NEW i, NEW d, NEW b, NEW c
  PROVE  LET u == Slot(e, j, i, d, b)
             v == Slot(e, j, i, d, c)
         IN /\ u.mesh = v.mesh /\ u.field = v.field /\ u.part = v.part
            /\ u.cell = b.cell /\ v.cell = c.cell
  <1> DEFINE part == CHOOSE p \in Selected(e, j)[i].parts :
                       Cardinality({q \in Selected(e, j)[i].parts : q < p}) = d - 1
             f == Selected(e, j)[i].field
  <1>1. ASSUME NEW z
        PROVE  Slot(e, j, i, d, z) = [mesh |-> MeshOf(j), field |-> f, part |-> part, block |-> z.block, cell |-> z.cell]
    BY DEF Slot
  <1>. HIDE DEF part, f
  <1>. QED
    BY <1>1

\* Both ends of a turn agree on the length and the contents of their message;
\* between ranks that have no cells in common it is empty.
LEMMA SlotsAgree ==
  ASSUME NEW a \in Turns, NEW r \in Rank, NEW s \in Rank
  PROVE  /\ IsList(Receiving(r, s, a), Size(r, s, a))
         /\ Message(s, r, a) = [k \in 1 .. Size(r, s, a) |-> Value(Receiving(r, s, a)[k], a[1])]
         /\ s \notin Partners(r, a) => Size(r, s, a) = 0
  <1> DEFINE e == a[1]
             j == a[2]
             mesh == MeshOf(j)
             t == StencilOf(j)
             q == Cells(recv[mesh][t][r], s)
             p == Cells(send[mesh][t][s], r)
             n == Len(q)
  <1>1. e \in DOMAIN Exchanges /\ j \in Rounds(e) /\ j \in 1 .. 8 /\ mesh \in Mesh /\ t \in DOMAIN Stencils
    BY TurnsAre
  <1>2. /\ Receiving(r, s, a) = Slots(q, e, j)
        /\ Sending(s, r, a) = Slots(p, e, j)
        /\ Size(r, s, a) = n * nscal(e, j)
    BY <1>1 DEF Receiving, Sending, Size, RecvSlots, SendSlots, cnt
  <1>3. /\ DOMAIN send[mesh][t][s] = {o \in Rank : s \in DOMAIN recv[mesh][t][o]}
        /\ \A o \in Rank : s \in DOMAIN recv[mesh][t][o] =>
             send[mesh][t][s][o] = [i \in DOMAIN recv[mesh][t][o][s] |->
                                      Inner(mesh, s, GetPeriodic(recv[mesh][t][o][s][i].cell))]
    BY <1>1 DEF send
  <1>. HIDE DEF mesh, t
  <1>4. /\ IsList(q, n) /\ IsList(p, n)
        /\ \A k \in 1 .. n : GetPeriodic(p[k].cell) = GetPeriodic(q[k].cell)
        /\ s \notin Partners(r, a) => n = 0
    <2>1. CASE s \in DOMAIN recv[mesh][t][r]
      <3> DEFINE list == recv[mesh][t][r][s]
      <3>1. q = list
        BY <2>1 DEF Cells
      <3>2. p = [i \in DOMAIN list |-> Inner(mesh, s, GetPeriodic(list[i].cell))]
        BY <1>3, <2>1 DEF Cells
      <3>3. (\E x : IsList(list, x)) /\ \A k \in DOMAIN list : list[k].cell \in [Axis -> Int]
        BY <1>1, <2>1, RecvIs
      <3>. HIDE DEF list, p, q
      <3>4. PICK x : IsList(list, x)
        BY <3>3
      <3>5. DOMAIN list = 1 .. x /\ x \in Nat
        BY <3>4 DEF IsList
      <3>6. Len(list) = x
        BY <3>5
      <3>7. IsList(q, n) /\ n = x
        BY <3>1, <3>4, <3>6
      <3>8. IsList(p, n)
        BY <3>2, <3>5, <3>7 DEF IsList
      <3>9. ASSUME NEW k \in 1 .. n PROVE GetPeriodic(p[k].cell) = GetPeriodic(q[k].cell)
        <4>1. p[k].cell = GetPeriodic(list[k].cell) /\ list[k].cell \in [Axis -> Int]
          BY <3>2, <3>3, <3>5, <3>7 DEF Inner
        <4>. QED
          BY <4>1, <3>1, PeriodicTwice
      <3>10. s \in Partners(r, a)
        BY <2>1 DEF Partners, mesh, t
      <3>. QED
        BY <3>7, <3>8, <3>9, <3>10
    <2>2. CASE s \notin DOMAIN recv[mesh][t][r]
      <3>1. p = <<>> /\ q = <<>>
        BY <1>3, <2>2 DEF Cells
      <3>. HIDE DEF p, q
      <3>2. n = 0 /\ IsList(<<>>, 0)
        BY <3>1 DEF IsList
      <3>. QED
        BY <3>1, <3>2
    <2>. QED
      BY <2>1, <2>2
  <1>. HIDE DEF p, q, n, e, j
  <1> DEFINE size == n * nscal(e, j)
  <1>5. Related(Slots(p, e, j), Slots(q, e, j), size, SlotPairs(e, j, p, q, n))
    BY <1>1, <1>4, SlotsAre
  <1>6. IsList(Sending(s, r, a), size) /\ IsList(Receiving(r, s, a), size)
    BY <1>2, <1>5 DEF Related
  <1>7. ASSUME NEW k \in 1 .. size
        PROVE  Value(Sending(s, r, a)[k], e) = Value(Receiving(r, s, a)[k], e)
    <2>1. <<Sending(s, r, a)[k], Receiving(r, s, a)[k]>> \in SlotPairs(e, j, p, q, n)
      BY <1>2, <1>5 DEF Related
    <2>2. PICK z \in (1 .. Len(Selected(e, j))) \X (1 .. n) \X Nat :
            /\ Sending(s, r, a)[k] = Slot(e, j, z[1], z[3], p[z[2]])
            /\ Receiving(r, s, a)[k] = Slot(e, j, z[1], z[3], q[z[2]])
      BY <2>1 DEF SlotPairs
    <2>3. GetPeriodic(p[z[2]].cell) = GetPeriodic(q[z[2]].cell)
      BY <1>4
    <2> DEFINE u == Slot(e, j, z[1], z[3], p[z[2]])
               v == Slot(e, j, z[1], z[3], q[z[2]])
    <2>4. /\ u.mesh = v.mesh /\ u.field = v.field /\ u.part = v.part
          /\ u.cell = p[z[2]].cell /\ v.cell = q[z[2]].cell
      BY SlotsDiffer
    <2>. HIDE DEF u, v
    <2>5. Value(u, e) = Value(v, e)
      BY <2>3, <2>4 DEF Value
    <2>. QED
      BY <2>2, <2>5 DEF u, v
  <1>8. DOMAIN Sending(s, r, a) = 1 .. size
    BY <1>6 DEF IsList
  <1>9. Message(s, r, a) = [k \in 1 .. size |-> Value(Receiving(r, s, a)[k], e)]
    BY <1>7, <1>8 DEF Message, e
  <1>10. s \notin Partners(r, a) => size = 0
    <2>1. ASSUME s \notin Partners(r, a) PROVE size = 0
      <3>1. Len(Selected(e, j)) \in Nat
        BY <1>1, SelectedAre DEF IsList
      <3>2. nscal(e, j) \in Int
        <4>1. PICK f \in [0 .. Len(Selected(e, j)) -> Int] : f[Len(Selected(e, j))] = nscal(e, j)
          BY <1>1, NscalIs
        <4>. QED
          BY <4>1, <3>1
      <3>. QED
        BY <3>2, <1>4, <2>1
    <2>. QED
      BY <2>1
  <1>. QED
    BY <1>2, <1>6, <1>9, <1>10 DEF e

-----------------------------------------------------------------------------
(***************************************************************************)
(* The order of the turns.  A rank that has finished is at the place after *)
(* the last turn.                                                          *)
(***************************************************************************)
Places == Turns \cup {<<Len(Exchanges) + 1, 1>>}

Before(a, b) == a[1] < b[1] \/ (a[1] = b[1] /\ a[2] < b[2])

Succ(a) == IF a[2] < LastRound(a[1]) THEN <<a[1], a[2] + 1>> ELSE <<a[1] + 1, 1>>

LEMMA PlacesAre ==
  ASSUME NEW a \in Places
  PROVE  a[1] \in 1 .. Len(Exchanges) + 1 /\ a[2] \in 1 .. 8 /\ a = <<a[1], a[2]>>
  <1>1. CASE a \in Turns
    <2>1. a[1] \in 1 .. Len(Exchanges) /\ a[2] \in 1 .. 8 /\ a = <<a[1], a[2]>>
      BY <1>1, TurnsAre
    <2>. QED
      BY <2>1, ExchangesAssumption
  <1>2. CASE a = <<Len(Exchanges) + 1, 1>>
    BY <1>2, ExchangesAssumption
  <1>. QED
    BY <1>1, <1>2 DEF Places

\* The order is total.
LEMMA PlaceOrder ==
  /\ \A a \in Places : ~Before(a, a)
  /\ \A a, b \in Places : a = b \/ Before(a, b) \/ Before(b, a)
  /\ \A a, b, c \in Places : Before(a, b) /\ Before(b, c) => Before(a, c)
  <1>1. \A a \in Places : a[1] \in Int /\ a[2] \in Int
    BY PlacesAre, ExchangesAssumption
  <1>2. ASSUME NEW a \in Places, NEW b \in Places, a[1] = b[1], a[2] = b[2] PROVE a = b
    BY <1>2, PlacesAre
  <1>3. ASSUME NEW a \in Places, NEW b \in Places PROVE a = b \/ Before(a, b) \/ Before(b, a)
    BY <1>1, <1>2 DEF Before
  <1>4. ASSUME NEW a \in Places, NEW b \in Places, NEW c \in Places, Before(a, b), Before(b, c)
        PROVE  Before(a, c)
    BY <1>1, <1>4 DEF Before
  <1>5. ASSUME NEW a \in Places PROVE ~Before(a, a)
    BY <1>1 DEF Before
  <1>. QED
    BY <1>3, <1>4, <1>5

\* Every turn comes right before the place after it.
LEMMA SuccIs ==
  ASSUME NEW a \in Turns
  PROVE  /\ Succ(a) \in Places
         /\ \A b \in Turns : Before(b, Succ(a)) <=> b = a \/ Before(b, a)
  <1>1. a[1] \in 1 .. Len(Exchanges) /\ a[2] \in 1 .. LastRound(a[1]) /\ a = <<a[1], a[2]>>
    BY TurnsAre
  <1>2. \A e \in 1 .. Len(Exchanges) : LastRound(e) \in 1 .. 8 /\ e \in DOMAIN Exchanges
    BY RoundsAre, ExchangesAssumption
  <1>3. Len(Exchanges) \in Nat
    BY ExchangesAssumption
  <1>4. ASSUME NEW e \in 1 .. Len(Exchanges), NEW j \in 1 .. LastRound(e) PROVE <<e, j>> \in Turns
    BY <1>2, <1>3, <1>4 DEF Turns, Rounds
  <1>5. CASE a[2] < LastRound(a[1])
    <2>1. Succ(a) = <<a[1], a[2] + 1>>
      BY <1>5 DEF Succ
    <2>2. a[2] + 1 \in 1 .. LastRound(a[1])
      BY <1>1, <1>2, <1>5
    <2>3. Succ(a) \in Turns
      BY <1>1, <1>4, <2>1, <2>2
    <2>4. ASSUME NEW b \in Turns PROVE Before(b, Succ(a)) <=> b = a \/ Before(b, a)
      <3>1. b[1] \in Nat /\ b[2] \in Nat /\ b = <<b[1], b[2]>>
        BY TurnsAre, <1>3
      <3>2. a[1] \in Nat /\ a[2] \in Nat
        BY TurnsAre, <1>3
      <3>3. b = a <=> b[1] = a[1] /\ b[2] = a[2]
        BY <1>1, <3>1
      <3>. QED
        BY <2>1, <3>1, <3>2, <3>3 DEF Before
    <2>. QED
      BY <2>3, <2>4 DEF Places
  <1>6. CASE ~(a[2] < LastRound(a[1]))
    <2>1. Succ(a) = <<a[1] + 1, 1>>
      BY <1>6 DEF Succ
    <2>2. Succ(a) \in Places
      <3>1. CASE a[1] = Len(Exchanges)
        BY <2>1, <3>1 DEF Places
      <3>2. CASE a[1] # Len(Exchanges)
        <4>1. a[1] + 1 \in 1 .. Len(Exchanges)
          BY <1>1, <1>3, <3>2
        <4>2. 1 \in 1 .. LastRound(a[1] + 1)
          BY <1>2, <4>1
        <4>. QED
          BY <1>4, <2>1, <4>1, <4>2 DEF Places
      <3>. QED
        BY <3>1, <3>2
    <2>3. ASSUME NEW b \in Turns PROVE Before(b, Succ(a)) <=> b = a \/ Before(b, a)
      <3>1. b[1] \in Nat /\ b[2] \in 1 .. LastRound(b[1]) /\ b = <<b[1], b[2]>>
        BY TurnsAre, <1>3
      <3>2. a[1] \in Nat /\ a[2] \in Nat /\ LastRound(a[1]) \in Nat
        BY <1>1, <1>2, <1>3
      <3>3. b = a <=> b[1] = a[1] /\ b[2] = a[2]
        BY <1>1, <3>1
      <3>4. a[2] = LastRound(a[1])
        BY <1>1, <1>2, <1>6
      <3>5. b[1] = a[1] => b[2] \in Nat /\ b[2] <= a[2]
        BY <3>1, <3>2, <3>4
      <3>6. Before(b, Succ(a)) <=> b[1] <= a[1]
        <4>1. Before(b, Succ(a)) <=> b[1] < a[1] + 1 \/ (b[1] = a[1] + 1 /\ b[2] < 1)
          BY <2>1 DEF Before
        <4>2. ~(b[2] < 1)
          <5>1. LastRound(b[1]) \in Nat
            BY <1>2, TurnsAre
          <5>. QED
            BY <3>1, <5>1
        <4>. QED
          BY <3>1, <3>2, <4>1, <4>2
      <3>7. Before(b, a) <=> b[1] < a[1] \/ (b[1] = a[1] /\ b[2] < a[2])
        BY DEF Before
      <3>. QED
        BY <3>1, <3>2, <3>3, <3>5, <3>6, <3>7
    <2>. QED
      BY <2>2, <2>3
  <1>. QED
    BY <1>5, <1>6

-----------------------------------------------------------------------------
(***************************************************************************)
(* Messages on their way from s to r: those of the turns in Due, in the    *)
(* order of the turns.                                                     *)
(***************************************************************************)
Labels(lab, Due) ==
  /\ lab \in Seq(Turns)
  /\ \A i, k \in 1 .. Len(lab) : i < k => Before(lab[i], lab[k])
  /\ \A a \in Turns : a \in Due <=> \E k \in 1 .. Len(lab) : lab[k] = a

Carries(c, lab, s, r) == c = [k \in 1 .. Len(lab) |-> Message(s, r, lab[k])]

InFlight(c, s, r, Due) ==
  Due \subseteq Turns /\ \E lab : Labels(lab, Due) /\ Carries(c, lab, s, r)

LEMMA NoFlight ==
  ASSUME NEW s, NEW r
  PROVE  InFlight(<<>>, s, r, {})
  <1>1. Labels(<<>>, {})
    BY DEF Labels
  <1>2. Carries(<<>>, <<>>, s, r)
    BY DEF Carries
  <1>. QED
    BY <1>1, <1>2 DEF InFlight

\* A message of a later turn is added at the end.
LEMMA FlightAppend ==
  ASSUME NEW c, NEW s, NEW r, NEW Due, InFlight(c, s, r, Due),
         NEW a \in Turns, \A b \in Due : Before(b, a)
  PROVE  InFlight(Append(c, Message(s, r, a)), s, r, Due \cup {a})
  <1>1. PICK lab : Labels(lab, Due) /\ Carries(c, lab, s, r)
    BY DEF InFlight
  <1> DEFINE n == Len(lab)
             new == Append(lab, a)
  <1>2. lab \in Seq(Turns) /\ n \in Nat
    BY <1>1 DEF Labels
  <1>3. /\ new \in Seq(Turns) /\ Len(new) = n + 1 /\ new[n + 1] = a
        /\ \A k \in 1 .. n : new[k] = lab[k]
    BY <1>2
  <1>4. ASSUME NEW i \in 1 .. n + 1, NEW k \in 1 .. n + 1, i < k PROVE Before(new[i], new[k])
    <2>1. i \in 1 .. n
      BY <1>2, <1>4
    <2>2. CASE k = n + 1
      <3>1. lab[i] \in Turns
        BY <1>2, <2>1
      <3>2. lab[i] \in Due
        BY <1>1, <2>1, <3>1 DEF Labels
      <3>. QED
        BY <1>3, <2>1, <2>2, <3>2
    <2>3. CASE k # n + 1
      <3>1. k \in 1 .. n
        BY <1>2, <2>3
      <3>. QED
        BY <1>1, <1>3, <1>4, <2>1, <3>1 DEF Labels
    <2>. QED
      BY <2>2, <2>3
  <1>5. ASSUME NEW b \in Turns PROVE b \in Due \cup {a} <=> \E k \in 1 .. n + 1 : new[k] = b
    <2>1. ASSUME b \in Due PROVE \E k \in 1 .. n + 1 : new[k] = b
      <3>1. PICK k \in 1 .. n : lab[k] = b
        BY <1>1, <2>1 DEF Labels
      <3>2. k \in 1 .. n + 1
        BY <1>2
      <3>. QED
        BY <1>3, <3>1, <3>2
    <2>2. b = a => \E k \in 1 .. n + 1 : new[k] = b
      <3>1. n + 1 \in 1 .. n + 1
        BY <1>2
      <3>. QED
        BY <1>3, <3>1
    <2>3. ASSUME NEW k \in 1 .. n + 1, new[k] = b, b # a PROVE b \in Due
      <3>1. k # n + 1
        BY <1>3, <2>3
      <3>2. k \in 1 .. n
        BY <1>2, <3>1
      <3>3. lab[k] = b
        BY <1>3, <2>3, <3>2
      <3>. QED
        BY <1>1, <3>2, <3>3 DEF Labels
    <2>. QED
      BY <2>1, <2>2, <2>3
  <1>6. Labels(new, Due \cup {a})
    <2>. HIDE DEF new, n
    <2>. QED
      BY <1>3, <1>4, <1>5 DEF Labels
  <1>7. Carries(Append(c, Message(s, r, a)), new, s, r)
    <2> DEFINE f == [k \in 1 .. n |-> Message(s, r, lab[k])]
               T == {Message(s, r, b) : b \in Turns}
    <2>1. c = f
      BY <1>1 DEF Carries
    <2>2. f \in Seq(T) /\ Len(f) = n /\ Message(s, r, a) \in T
      <3>1. \A k \in 1 .. n : Message(s, r, lab[k]) \in T
        BY <1>2
      <3>. HIDE DEF T
      <3>2. f \in [1 .. n -> T]
        BY <3>1
      <3>. QED
        BY <1>2, <3>2 DEF T
    <2> DEFINE g == Append(f, Message(s, r, a))
    <2>. HIDE DEF T, f
    <2>3. /\ g \in Seq(T) /\ Len(g) = n + 1 /\ g[n + 1] = Message(s, r, a)
          /\ \A k \in 1 .. n : g[k] = f[k]
      BY <2>2
    <2>. HIDE DEF g
    <2>4. g \in [1 .. n + 1 -> T]
      BY <2>3, LenProperties
    <2>5. ASSUME NEW k \in 1 .. n + 1 PROVE g[k] = Message(s, r, new[k])
      <3>1. CASE k = n + 1
        BY <1>3, <2>3, <3>1
      <3>2. CASE k # n + 1
        <4>1. k \in 1 .. n
          BY <1>2, <3>2
        <4>. QED
          BY <1>3, <2>3, <4>1 DEF f
      <3>. QED
        BY <3>1, <3>2
    <2>6. g = [k \in 1 .. n + 1 |-> Message(s, r, new[k])]
      BY <2>4, <2>5
    <2>. QED
      BY <1>3, <2>1, <2>6 DEF Carries, g
  <1>8. Due \cup {a} \subseteq Turns
    BY DEF InFlight
  <1>. QED
    BY <1>6, <1>7, <1>8 DEF InFlight

\* The oldest message is that of the first turn, and goes first.
LEMMA FlightTail ==
  ASSUME NEW c, NEW s, NEW r, NEW Due, InFlight(c, s, r, Due), c # <<>>
  PROVE  \E a \in Due : /\ \A b \in Due : b = a \/ Before(a, b)
                        /\ Head(c) = Message(s, r, a)
                        /\ InFlight(Tail(c), s, r, Due \ {a})
  <1>1. PICK lab : Labels(lab, Due) /\ Carries(c, lab, s, r)
    BY DEF InFlight
  <1> DEFINE n == Len(lab)
             new == Tail(lab)
             f == [k \in 1 .. n |-> Message(s, r, lab[k])]
             T == {Message(s, r, b) : b \in Turns}
             a == lab[1]
  <1>2. lab \in Seq(Turns) /\ n \in Nat
    BY <1>1 DEF Labels
  <1>3. c = f
    BY <1>1 DEF Carries
  <1>4. f \in Seq(T) /\ Len(f) = n
    <2>1. \A k \in 1 .. n : Message(s, r, lab[k]) \in T
      BY <1>2
    <2>. HIDE DEF T
    <2>2. f \in [1 .. n -> T]
      BY <2>1
    <2>. QED
      BY <1>2, <2>2
  <1>5. n # 0
    <2>. HIDE DEF f, T
    <2>. QED
      BY <1>3, <1>4
  <1>6. /\ new \in Seq(Turns) /\ Len(new) = n - 1
        /\ \A k \in 1 .. n - 1 : new[k] = lab[k + 1]
    BY <1>2, <1>5
  <1>7. 1 \in 1 .. n
    BY <1>2, <1>5
  <1>8. a \in Turns /\ a \in Due
    <2>1. a \in Turns
      BY <1>2, <1>7
    <2>. QED
      BY <1>1, <1>7, <2>1 DEF Labels
  <1>9. Due \subseteq Turns
    BY DEF InFlight
  <1>10. ASSUME NEW b \in Due, b # a PROVE Before(a, b) /\ \E k \in 1 .. n - 1 : new[k] = b
    <2>1. PICK k \in 1 .. n : lab[k] = b
      BY <1>1, <1>9 DEF Labels
    <2>2. k # 1
      BY <1>10, <2>1
    <2>3. 1 < k /\ k - 1 \in 1 .. n - 1 /\ (k - 1) + 1 = k
      BY <1>2, <2>2
    <2>4. Before(a, b)
      BY <1>1, <1>7, <2>1, <2>3 DEF Labels
    <2>5. new[k - 1] = b
      BY <1>6, <2>1, <2>3
    <2>. QED
      BY <2>3, <2>4, <2>5
  <1>11. ASSUME NEW k \in 1 .. n - 1 PROVE new[k] \in Due /\ new[k] # a
    <2>1. k + 1 \in 1 .. n /\ 1 < k + 1
      BY <1>2
    <2>2. new[k] = lab[k + 1] /\ lab[k + 1] \in Turns
      BY <1>2, <1>6, <2>1
    <2>3. Before(a, lab[k + 1])
      BY <1>1, <1>7, <2>1 DEF Labels
    <2>4. a # lab[k + 1]
      BY <1>8, <2>3, PlaceOrder DEF Places
    <2>. QED
      BY <1>1, <2>1, <2>2, <2>4 DEF Labels
  <1>12. ASSUME NEW i \in 1 .. n - 1, NEW k \in 1 .. n - 1, i < k PROVE Before(new[i], new[k])
    <2>1. i + 1 \in 1 .. n /\ k + 1 \in 1 .. n /\ i + 1 < k + 1
      BY <1>2, <1>12
    <2>. QED
      BY <1>1, <1>6, <2>1 DEF Labels
  <1>13. Labels(new, Due \ {a})
    <2>1. ASSUME NEW b \in Turns PROVE b \in Due \ {a} <=> \E k \in 1 .. n - 1 : new[k] = b
      <3>. HIDE DEF new, a
      <3>. QED
        BY <1>10, <1>11
    <2>. HIDE DEF new, a, n
    <2>. QED
      BY <1>6, <1>12, <2>1 DEF Labels
  <1>14. Head(c) = Message(s, r, a)
    <2>1. Head(c) = c[1]
      BY <1>3
    <2>. QED
      BY <1>3, <1>7, <2>1
  <1>15. Carries(Tail(c), new, s, r)
    <2> DEFINE g == Tail(f)
    <2>1. /\ g \in Seq(T) /\ Len(g) = n - 1
          /\ \A k \in 1 .. n - 1 : g[k] = f[k + 1]
      <3>. HIDE DEF f, T, n
      <3>1. f # <<>>
        BY <1>2, <1>4, <1>5
      <3>. QED
        BY <1>2, <1>4, <3>1
    <2>. HIDE DEF g, T
    <2>2. g \in [1 .. n - 1 -> T]
      BY <2>1, LenProperties
    <2>3. ASSUME NEW k \in 1 .. n - 1 PROVE g[k] = Message(s, r, new[k])
      <3>1. k + 1 \in 1 .. n
        BY <1>2
      <3>. QED
        BY <1>6, <2>1, <3>1
    <2>4. g = [k \in 1 .. n - 1 |-> Message(s, r, new[k])]
      BY <2>2, <2>3
    <2>. QED
      BY <1>3, <1>6, <2>4 DEF Carries, g
  <1>16. InFlight(Tail(c), s, r, Due \ {a})
    <2>. HIDE DEF new, a
    <2>. QED
      BY <1>9, <1>13, <1>15 DEF InFlight
  <1>. HIDE DEF a
  <1>. QED
    BY <1>8, <1>10, <1>14, <1>16

-----------------------------------------------------------------------------
(***************************************************************************)
(* The invariant.                                                          *)
(***************************************************************************)
Now(r) == <<exchange[r], round[r]>>

\* Rank r has posted the receives of turn a; it has sent its messages; it has
\* what it gets from s.
Posted(r, a) == Before(a, Now(r)) \/ (a = Now(r) /\ pc[r] # "post")
Sent(s, a) == Before(a, Now(s)) \/ (a = Now(s) /\ pc[s] = "wait")
Got(r, s, a) == Before(a, Now(r)) \/ (a = Now(r) /\ pc[r] # "post" /\ s \in DOMAIN buf[r])

\* In turn a there is a message from s to r.
Knows(r, s, a) == \E b \in Turns : (b = a \/ Before(b, a)) /\ s \in Partners(r, b)

Due(s, r) == {a \in Turns : Knows(r, s, a) /\ Sent(s, a) /\ ~Got(r, s, a)}

Shapes ==
  /\ DOMAIN buf = Rank /\ DOMAIN halo = Rank
  /\ DOMAIN chan = Rank /\ \A s \in Rank : DOMAIN chan[s] = Rank

NoAbort == \A r \in Rank : pc[r] # "aborted"

Placed == \A r \in Rank : Now(r) \in Turns \/ (Now(r) \in Places /\ pc[r] = "post")

\* tmp_recv_ and tmp_send_ hold the partners so far.
Receivers ==
  \A r \in Rank : tmp_recv[r] = {s \in Rank : \E a \in Turns : Posted(r, a) /\ s \in Partners(r, a)}
Senders ==
  \A s \in Rank : tmp_send[s] = {r \in Rank : \E a \in Turns : Sent(s, a) /\ s \in Partners(r, a)}

\* Nothing is received before it is sent.
NotAhead ==
  \A s, r \in Rank : \A a \in Turns : Knows(r, s, a) /\ Got(r, s, a) => Sent(s, a)

Flights == \A s, r \in Rank : InFlight(chan[s][r], s, r, Due(s, r))

Buffers ==
  \A r \in Rank : pc[r] # "post" => \A s \in DOMAIN buf[r] : buf[r][s] = Message(s, r, Now(r))

\* The exchanges up to now that have brought a halo cell of r.
Reached(r, slot) ==
  {e \in DOMAIN Exchanges :
     \E a \in Turns : /\ a[1] = e /\ Before(a, Now(r))
                      /\ \E s \in Rank : slot \in Range(Receiving(r, s, a))}

Halos ==
  \A r \in Rank : \A slot \in DOMAIN halo[r] :
    halo[r][slot] = IF Reached(r, slot) = {} THEN NoData ELSE Value(slot, Max(Reached(r, slot)))

IInv ==
  /\ TypeOK /\ Shapes /\ NoAbort /\ Placed /\ Receivers /\ Senders
  /\ NotAhead /\ Flights /\ Buffers /\ Halos

\* Partners are ranks.
LEMMA PartnersAre ==
  ASSUME NEW r \in Rank, NEW a \in Turns
  PROVE  Partners(r, a) \subseteq Rank
  BY TurnsAre, RecvIs DEF Partners

\* Where a rank that works is.
LEMMA NowIs ==
  ASSUME Placed, NEW r \in Rank
  PROVE  /\ Now(r) \in Places
         /\ Now(r)[1] = exchange[r] /\ Now(r)[2] = round[r]
         /\ Working(r) => Now(r) \in Turns
         /\ pc[r] # "post" => Now(r) \in Turns
  <1>1. Now(r) \in Places /\ (pc[r] # "post" => Now(r) \in Turns)
    BY DEF Placed, Places
  <1>2. Now(r)[1] = exchange[r] /\ Now(r)[2] = round[r]
    BY DEF Now
  <1>3. ASSUME Working(r), Now(r) \notin Turns PROVE FALSE
    <2>1. exchange[r] = Len(Exchanges) + 1
      BY <1>1, <1>2, <1>3 DEF Places
    <2>. QED
      BY <1>3, <2>1, ExchangesAssumption DEF Working
  <1>. QED
    BY <1>1, <1>2, <1>3

\* A rank knows whom it will hear from in the turn whose receives it has posted,
\* and whom it has to send to in the turn it has sent.
LEMMA PostedKnows ==
  ASSUME Placed, Receivers, NEW r \in Rank, pc[r] # "post", NEW s \in Rank
  PROVE  s \in tmp_recv[r] <=> Knows(r, s, Now(r))
  <1>1. \A a \in Turns : Posted(r, a) <=> a = Now(r) \/ Before(a, Now(r))
    BY DEF Posted
  <1>. QED
    BY <1>1 DEF Receivers, Knows

LEMMA InitInv == Init => IInv
  <1> SUFFICES ASSUME Init PROVE IInv
    OBVIOUS
  <1>1. \A r \in Rank : Now(r) = <<1, 1>> /\ pc[r] = "post"
    BY DEF Init, Now
  <1>2. <<1, 1>> \in Places
    <2>1. CASE Len(Exchanges) = 0
      BY <2>1 DEF Places
    <2>2. CASE Len(Exchanges) # 0
      <3>1. 1 \in DOMAIN Exchanges
        BY <2>2, ExchangesAssumption
      <3>2. 1 \in Rounds(1)
        BY <3>1, RoundsAre DEF Rounds
      <3>. QED
        BY <3>1, <3>2 DEF Turns, Places
    <2>. QED
      BY <2>1, <2>2
  <1>3. ASSUME NEW a \in Turns PROVE ~Before(a, <<1, 1>>)
    <2>1. a[1] \in 1 .. Len(Exchanges) /\ a[2] \in 1 .. 8
      BY TurnsAre
    <2>. QED
      BY <2>1, ExchangesAssumption DEF Before
  <1>4. ASSUME NEW r \in Rank, NEW s \in Rank, NEW a \in Turns
        PROVE  ~Posted(r, a) /\ ~Sent(r, a) /\ ~Got(r, s, a)
    BY <1>1, <1>3 DEF Posted, Sent, Got
  <1>5. TypeOK
    <2>1. 1 \in 1 .. Len(Exchanges) + 1 /\ 1 \in 1 .. 2 * Len(Stencils)
      BY ExchangesAssumption, RoundsAre
    <2>2. \A r \in Rank : DOMAIN buf[r] = {}
      BY DEF Init
    <2>. QED
      BY <2>1, <2>2 DEF Init, TypeOK
  <1>6. Shapes /\ NoAbort
    BY DEF Init, Shapes, NoAbort
  <1>7. Placed
    BY <1>1, <1>2 DEF Placed
  <1>8. Receivers /\ Senders /\ NotAhead
    <2>1. \A r \in Rank : tmp_recv[r] = {} /\ tmp_send[r] = {}
      BY DEF Init
    <2>. QED
      BY <1>4, <2>1 DEF Receivers, Senders, NotAhead
  <1>9. Flights
    <2> SUFFICES ASSUME NEW s \in Rank, NEW r \in Rank PROVE InFlight(chan[s][r], s, r, Due(s, r))
      BY DEF Flights
    <2>1. chan[s][r] = <<>>
      BY DEF Init
    <2>2. Due(s, r) = {}
      BY <1>4 DEF Due
    <2>. QED
      BY <2>1, <2>2, NoFlight
  <1>10. Buffers
    BY <1>1 DEF Buffers
  <1>11. Halos
    <2> SUFFICES ASSUME NEW r \in Rank, NEW slot \in DOMAIN halo[r]
                 PROVE  Reached(r, slot) = {} /\ halo[r][slot] = NoData
      BY DEF Halos
    <2>1. halo[r][slot] = NoData
      BY DEF Init
    <2>2. Reached(r, slot) = {}
      BY <1>1, <1>3 DEF Reached
    <2>. QED
      BY <2>1, <2>2
  <1>. QED
    BY <1>5, <1>6, <1>7, <1>8, <1>9, <1>10, <1>11 DEF IInv

\* Posting receives makes the partners of the turn known.
LEMMA PostReceivesInv ==
  ASSUME IInv, NEW r \in Rank, PostReceives(r)
  PROVE  IInv'
  <1>1. /\ TypeOK /\ Shapes /\ NoAbort /\ Placed /\ Receivers /\ Senders
        /\ NotAhead /\ Flights /\ Buffers /\ Halos
    BY DEF IInv
  <1>2. /\ pc[r] = "post" /\ pc' = [pc EXCEPT ![r] = "send"] /\ Working(r)
        /\ tmp_recv' = [tmp_recv EXCEPT ![r] = @ \cup Task(recv, r)]
        /\ buf' = [buf EXCEPT ![r] = <<>>]
        /\ UNCHANGED <<exchange, round, tmp_send, chan, halo, eager>>
    BY DEF PostReceives, Goto, Known
  <1>3. pc'[r] = "send" /\ \A q \in Rank \ {r} : pc'[q] = pc[q]
    BY <1>1, <1>2 DEF TypeOK
  <1>4. DOMAIN buf'[r] = {} /\ \A q \in Rank \ {r} : buf'[q] = buf[q]
    BY <1>1, <1>2 DEF Shapes
  <1>5. \A q \in Rank : Now(q)' = Now(q)
    BY <1>2 DEF Now
  <1>6. Now(r) \in Turns
    BY <1>1, <1>2, NowIs
  <1>7. \A q \in Rank, a \in Turns : Sent(q, a)' <=> Sent(q, a)
    BY <1>2, <1>3, <1>5 DEF Sent
  <1>8. \A q, s \in Rank, a \in Turns : Got(q, s, a)' <=> Got(q, s, a)
    BY <1>2, <1>3, <1>4, <1>5 DEF Got
  <1>9. \A s, q \in Rank : Due(s, q)' = Due(s, q)
    BY <1>7, <1>8 DEF Due
  <1>10. \A a \in Turns : Posted(r, a)' <=> Posted(r, a) \/ a = Now(r)
    BY <1>2, <1>3, <1>5 DEF Posted
  <1>11. \A q \in Rank \ {r}, a \in Turns : Posted(q, a)' <=> Posted(q, a)
    BY <1>3, <1>5 DEF Posted
  <1>12. Task(recv, r) = Partners(r, Now(r))
    BY DEF Task, Partners, Now
  <1>13. tmp_recv'[r] = tmp_recv[r] \cup Partners(r, Now(r)) /\ \A q \in Rank \ {r} : tmp_recv'[q] = tmp_recv[q]
    BY <1>1, <1>2, <1>12 DEF TypeOK
  <1>14. Partners(r, Now(r)) \subseteq Rank
    BY <1>6, PartnersAre
  <1>15. TypeOK'
    <2>1. pc' \in [Rank -> {"post", "send", "wait", "aborted"}]
      BY <1>1, <1>2 DEF TypeOK
    <2>2. tmp_recv' \in [Rank -> SUBSET Rank]
      BY <1>1, <1>2, <1>12, <1>14 DEF TypeOK
    <2>3. \A q \in Rank : DOMAIN buf'[q] \subseteq tmp_recv'[q]
      BY <1>1, <1>4, <1>13 DEF TypeOK
    <2>. QED
      BY <1>1, <1>2, <2>1, <2>2, <2>3 DEF TypeOK
  <1>16. Shapes'
    BY <1>1, <1>2 DEF Shapes
  <1>17. NoAbort'
    BY <1>1, <1>3 DEF NoAbort
  <1>18. Placed'
    BY <1>1, <1>3, <1>5, <1>6 DEF Placed
  <1>19. Receivers'
    <2> SUFFICES ASSUME NEW q \in Rank
                 PROVE  tmp_recv'[q] = {s \in Rank : \E a \in Turns : Posted(q, a)' /\ s \in Partners(q, a)}
      BY DEF Receivers
    <2>1. tmp_recv[q] = {s \in Rank : \E a \in Turns : Posted(q, a) /\ s \in Partners(q, a)}
      BY <1>1 DEF Receivers
    <2>2. CASE q = r
      BY <2>1, <2>2, <1>6, <1>10, <1>13, <1>14
    <2>3. CASE q # r
      BY <2>1, <2>3, <1>11, <1>13
    <2>. QED
      BY <2>2, <2>3
  <1>20. Senders'
    BY <1>1, <1>2, <1>7 DEF Senders
  <1>21. NotAhead'
    BY <1>1, <1>7, <1>8 DEF NotAhead
  <1>22. Flights'
    BY <1>1, <1>2, <1>9 DEF Flights
  <1>23. Buffers'
    BY <1>1, <1>3, <1>4, <1>5 DEF Buffers
  <1>24. Halos'
    <2>1. \A q \in Rank : \A slot : Reached(q, slot)' = Reached(q, slot)
      BY <1>5 DEF Reached
    <2>. QED
      BY <1>1, <1>2, <2>1 DEF Halos
  <1>. QED
    BY <1>15, <1>16, <1>17, <1>18, <1>19, <1>20, <1>21, <1>22, <1>23, <1>24 DEF IInv

\* Sending adds the message of this turn to those for the ranks that know of it.
LEMMA SendInv ==
  ASSUME IInv, NEW s \in Rank, Send(s)
  PROVE  IInv'
  <1> DEFINE now == Now(s)
  <1>1. /\ TypeOK /\ Shapes /\ NoAbort /\ Placed /\ Receivers /\ Senders
        /\ NotAhead /\ Flights /\ Buffers /\ Halos
    BY DEF IInv
  <1>2. /\ pc[s] = "send" /\ pc' = [pc EXCEPT ![s] = "wait"]
        /\ tmp_send' = [tmp_send EXCEPT ![s] = @ \cup Task(send, s)]
        /\ chan' = [chan EXCEPT ![s] = [q \in Rank |->
                      IF q \in tmp_send'[s] THEN Append(chan[s][q], Packed(s, q)) ELSE chan[s][q]]]
        /\ UNCHANGED <<exchange, round, tmp_recv, buf, halo, eager>>
    BY DEF Send, Goto, Known
  <1>3. pc'[s] = "wait" /\ \A q \in Rank \ {s} : pc'[q] = pc[q]
    BY <1>1, <1>2 DEF TypeOK
  <1>4. \A q \in Rank : Now(q)' = Now(q)
    BY <1>2 DEF Now
  <1>5. now \in Turns /\ now[1] = exchange[s] /\ now[2] = round[s]
    BY <1>1, <1>2, NowIs
  <1>6. \A a \in Turns : Sent(s, a)' <=> Sent(s, a) \/ a = now
    BY <1>2, <1>3, <1>4 DEF Sent
  <1>7. \A q \in Rank \ {s}, a \in Turns : Sent(q, a)' <=> Sent(q, a)
    BY <1>3, <1>4 DEF Sent
  <1>8. \A q \in Rank, a \in Turns : Posted(q, a)' <=> Posted(q, a)
    BY <1>2, <1>3, <1>4 DEF Posted
  <1>9. \A q, o \in Rank, a \in Turns : Got(q, o, a)' <=> Got(q, o, a)
    BY <1>2, <1>3, <1>4 DEF Got
  <1>10. Task(send, s) = {q \in Rank : s \in Partners(q, now)}
    BY <1>5, TurnsAre DEF Task, send, Partners
  <1>11. /\ tmp_send'[s] = tmp_send[s] \cup {q \in Rank : s \in Partners(q, now)}
         /\ \A q \in Rank \ {s} : tmp_send'[q] = tmp_send[q]
    BY <1>1, <1>2, <1>10 DEF TypeOK
  <1>12. \A q \in Rank : q \in tmp_send'[s] <=> Knows(q, s, now)
    <2>1. \A q \in Rank : q \in tmp_send[s] <=> \E a \in Turns : Before(a, now) /\ s \in Partners(q, a)
      <3>1. \A a \in Turns : Sent(s, a) <=> Before(a, now)
        BY <1>2 DEF Sent
      <3>. QED
        BY <1>1, <3>1 DEF Senders
    <2>. HIDE DEF now
    <2>. QED
      BY <1>5, <1>11, <2>1 DEF Knows
  <1>13. ASSUME NEW q \in Rank PROVE Packed(s, q) = Message(s, q, now)
    BY <1>5 DEF Packed, Message, Sending
  <1>14. \A q \in Rank : chan'[s][q] = IF Knows(q, s, now) THEN Append(chan[s][q], Message(s, q, now))
                                       ELSE chan[s][q]
    BY <1>1, <1>2, <1>12, <1>13 DEF Shapes
  <1>15. \A o \in Rank \ {s} : chan'[o] = chan[o]
    BY <1>1, <1>2 DEF Shapes
  <1>16. ~Sent(s, now)
    BY <1>2, <1>5, PlaceOrder DEF Sent, Places
  <1>17. ASSUME NEW q \in Rank
         PROVE  Due(s, q)' = IF Knows(q, s, now) THEN Due(s, q) \cup {now} ELSE Due(s, q)
    <2>1. Knows(q, s, now) => ~Got(q, s, now)
      BY <1>1, <1>5, <1>16 DEF NotAhead
    <2>. HIDE DEF now
    <2>2. Due(s, q)' = {a \in Turns : Knows(q, s, a) /\ Sent(s, a)' /\ ~Got(q, s, a)'}
      BY DEF Due
    <2>3. ASSUME NEW a \in Turns
          PROVE  a \in Due(s, q)' <=> a \in Due(s, q) \/ (a = now /\ Knows(q, s, now))
      BY <1>6, <1>9, <2>1, <2>2 DEF Due
    <2>4. Due(s, q)' \subseteq Turns /\ Due(s, q) \subseteq Turns
      BY <2>2 DEF Due
    <2>. QED
      BY <1>5, <2>3, <2>4
  <1>18. \A o \in Rank \ {s}, q \in Rank : Due(o, q)' = Due(o, q)
    BY <1>7, <1>9 DEF Due
  <1>19. TypeOK'
    <2>1. pc' \in [Rank -> {"post", "send", "wait", "aborted"}]
      BY <1>1, <1>2 DEF TypeOK
    <2>2. tmp_send' \in [Rank -> SUBSET Rank]
      BY <1>1, <1>2, <1>10 DEF TypeOK
    <2>. QED
      BY <1>1, <1>2, <2>1, <2>2 DEF TypeOK
  <1>20. Shapes'
    BY <1>1, <1>2 DEF Shapes
  <1>21. NoAbort'
    BY <1>1, <1>3 DEF NoAbort
  <1>22. Placed'
    BY <1>1, <1>3, <1>4, <1>5 DEF Placed
  <1>23. Receivers'
    BY <1>1, <1>2, <1>8 DEF Receivers
  <1>24. Senders'
    <2> SUFFICES ASSUME NEW q \in Rank
                 PROVE  tmp_send'[q] = {r \in Rank : \E a \in Turns : Sent(q, a)' /\ q \in Partners(r, a)}
      BY DEF Senders
    <2>1. tmp_send[q] = {r \in Rank : \E a \in Turns : Sent(q, a) /\ q \in Partners(r, a)}
      BY <1>1 DEF Senders
    <2>. HIDE DEF now
    <2>2. CASE q = s
      BY <2>1, <2>2, <1>5, <1>6, <1>11
    <2>3. CASE q # s
      BY <2>1, <2>3, <1>7, <1>11
    <2>. QED
      BY <2>2, <2>3
  <1>25. NotAhead'
    BY <1>1, <1>6, <1>7, <1>9 DEF NotAhead
  <1>26. Flights'
    <2> SUFFICES ASSUME NEW o \in Rank, NEW q \in Rank
                 PROVE  InFlight(chan'[o][q], o, q, Due(o, q)')
      BY DEF Flights
    <2>1. InFlight(chan[o][q], o, q, Due(o, q))
      BY <1>1 DEF Flights
    <2>2. CASE o # s
      BY <1>15, <1>18, <2>1, <2>2
    <2>3. CASE o = s /\ ~Knows(q, s, now)
      BY <1>14, <1>17, <2>1, <2>3
    <2>4. CASE o = s /\ Knows(q, s, now)
      <3>1. \A b \in Due(s, q) : Before(b, now)
        BY <1>2 DEF Due, Sent
      <3>. HIDE DEF now
      <3>2. InFlight(Append(chan[s][q], Message(s, q, now)), s, q, Due(s, q) \cup {now})
        BY <1>5, <2>1, <2>4, <3>1, FlightAppend
      <3>3. chan'[s][q] = Append(chan[s][q], Message(s, q, now)) /\ Due(s, q)' = Due(s, q) \cup {now}
        BY <1>14, <1>17, <2>4
      <3>. QED
        BY <2>4, <3>2, <3>3
    <2>. QED
      BY <2>2, <2>3, <2>4
  <1>27. Buffers'
    BY <1>1, <1>2, <1>3, <1>4 DEF Buffers
  <1>28. Halos'
    <2>1. \A q \in Rank : \A slot : Reached(q, slot)' = Reached(q, slot)
      BY <1>4 DEF Reached
    <2>. QED
      BY <1>1, <1>2, <2>1 DEF Halos
  <1>. QED
    BY <1>19, <1>20, <1>21, <1>22, <1>23, <1>24, <1>25, <1>26, <1>27, <1>28 DEF IInv

\* What arrives first is the message of the turn whose receive is posted.
LEMMA DeliverInv ==
  ASSUME IInv, NEW s \in Rank, NEW r \in Rank, Deliver(s, r)
  PROVE  IInv'
  <1> DEFINE now == Now(r)
  <1>1. /\ TypeOK /\ Shapes /\ NoAbort /\ Placed /\ Receivers /\ Senders
        /\ NotAhead /\ Flights /\ Buffers /\ Halos
    BY DEF IInv
  <1>2. /\ pc[r] \in {"send", "wait"} /\ s \in tmp_recv[r] /\ s \notin DOMAIN buf[r] /\ chan[s][r] # <<>>
        /\ buf' = [buf EXCEPT ![r] =
                     [q \in DOMAIN buf[r] \cup {s} |-> IF q = s THEN Head(chan[s][r]) ELSE buf[r][q]]]
        /\ chan' = [chan EXCEPT ![s][r] = Tail(@)]
        /\ pc' = IF Len(Head(chan[s][r])) > cnt[exchange[r]][round[r]][r][s]
                 THEN [pc EXCEPT ![r] = "aborted"] ELSE pc
        /\ UNCHANGED <<exchange, round, tmp_recv, tmp_send, halo, eager>>
    BY DEF Deliver
  <1>3. now \in Turns /\ now[1] = exchange[r] /\ now[2] = round[r]
    BY <1>1, <1>2, NowIs
  <1>4. Knows(r, s, now)
    BY <1>1, <1>2, PostedKnows
  <1>5. /\ Head(chan[s][r]) = Message(s, r, now)
        /\ InFlight(Tail(chan[s][r]), s, r, Due(s, r) \ {now})
        /\ now \in Due(s, r)
    <2>1. InFlight(chan[s][r], s, r, Due(s, r))
      BY <1>1 DEF Flights
    <2>2. PICK a \in Due(s, r) : /\ \A b \in Due(s, r) : b = a \/ Before(a, b)
                                 /\ Head(chan[s][r]) = Message(s, r, a)
                                 /\ InFlight(Tail(chan[s][r]), s, r, Due(s, r) \ {a})
      BY <1>2, <2>1, FlightTail
    <2>3. a \in Turns /\ Sent(s, a) /\ ~Got(r, s, a)
      BY <2>2 DEF Due
    <2>4. a = now \/ Before(now, a)
      <3>1. ~Before(a, now)
        BY <2>3 DEF Got
      <3>. QED
        BY <1>3, <2>3, <3>1, PlaceOrder DEF Places
    <2>5. Sent(s, now)
      <3>1. Now(s) \in Places
        BY <1>1, NowIs
      <3>. HIDE DEF now
      <3>2. CASE a = now
        BY <2>3, <3>2
      <3>3. CASE Before(now, a) /\ Before(a, Now(s))
        BY <1>3, <2>3, <3>1, <3>3, PlaceOrder DEF Places, Sent
      <3>4. CASE Before(now, a) /\ a = Now(s)
        BY <3>4 DEF Sent
      <3>. QED
        BY <2>3, <2>4, <3>2, <3>3, <3>4 DEF Sent
    <2>6. ~Got(r, s, now)
      BY <1>2, <1>3, PlaceOrder DEF Got, Places
    <2>7. now \in Due(s, r)
      <3>. HIDE DEF now
      <3>. QED
        BY <1>3, <1>4, <2>5, <2>6 DEF Due
    <2>8. a = now
      <3>. HIDE DEF now
      <3>. QED
        BY <1>3, <2>2, <2>3, <2>4, <2>7, PlaceOrder DEF Places
    <2>. QED
      BY <2>2, <2>7, <2>8
  <1>6. pc' = pc
    <2> DEFINE m == Message(s, r, now)
               n == Size(r, s, now)
    <2>1. m = [k \in 1 .. n |-> Value(Receiving(r, s, now)[k], now[1])] /\ n \in Nat
      BY <1>3, SlotsAgree DEF IsList
    <2>2. n = cnt[exchange[r]][round[r]][r][s]
      BY <1>3 DEF Size
    <2>. HIDE DEF m, n
    <2>3. Len(m) = n
      BY <2>1
    <2>4. ~(Len(m) > n)
      BY <2>1, <2>3
    <2>. QED
      BY <1>2, <1>5, <2>2, <2>4 DEF m
  <1>7. \A q \in Rank : Now(q)' = Now(q)
    BY <1>2 DEF Now
  <1>8. /\ DOMAIN buf'[r] = DOMAIN buf[r] \cup {s} /\ buf'[r][s] = Message(s, r, now)
        /\ \A q \in DOMAIN buf[r] : buf'[r][q] = buf[r][q]
        /\ \A q \in Rank \ {r} : buf'[q] = buf[q]
    <2>1. buf'[r] = [q \in DOMAIN buf[r] \cup {s} |-> IF q = s THEN Head(chan[s][r]) ELSE buf[r][q]]
      BY <1>1, <1>2 DEF Shapes
    <2>2. \A q \in Rank \ {r} : buf'[q] = buf[q]
      BY <1>1, <1>2 DEF Shapes
    <2>. QED
      BY <1>2, <1>5, <2>1, <2>2
  <1>9. /\ chan'[s][r] = Tail(chan[s][r])
        /\ \A o, q \in Rank : o # s \/ q # r => chan'[o][q] = chan[o][q]
    BY <1>1, <1>2 DEF Shapes
  <1>10. \A q \in Rank, a \in Turns : (Sent(q, a)' <=> Sent(q, a)) /\ (Posted(q, a)' <=> Posted(q, a))
    BY <1>6, <1>7 DEF Sent, Posted
  <1>11. \A a \in Turns : Got(r, s, a)' <=> Got(r, s, a) \/ a = now
    BY <1>2, <1>6, <1>7, <1>8 DEF Got
  <1>12. \A q, o \in Rank, a \in Turns : o # s \/ q # r => (Got(q, o, a)' <=> Got(q, o, a))
    BY <1>2, <1>6, <1>7, <1>8 DEF Got
  <1>13. Due(s, r)' = Due(s, r) \ {now}
    <2>. HIDE DEF now
    <2>1. Due(s, r)' = {a \in Turns : Knows(r, s, a) /\ Sent(s, a)' /\ ~Got(r, s, a)'}
      BY DEF Due
    <2>. QED
      BY <1>10, <1>11, <2>1 DEF Due
  <1>14. \A o, q \in Rank : o # s \/ q # r => Due(o, q)' = Due(o, q)
    BY <1>10, <1>12 DEF Due
  <1>15. TypeOK'
    <2>1. \A q \in Rank : DOMAIN buf'[q] \subseteq tmp_recv'[q]
      BY <1>1, <1>2, <1>8 DEF TypeOK
    <2>. QED
      BY <1>1, <1>2, <1>6, <2>1 DEF TypeOK
  <1>16. Shapes'
    BY <1>1, <1>2 DEF Shapes
  <1>17. NoAbort' /\ Placed'
    BY <1>1, <1>6, <1>7 DEF NoAbort, Placed
  <1>18. Receivers' /\ Senders'
    BY <1>1, <1>2, <1>10 DEF Receivers, Senders
  <1>19. NotAhead'
    <2>1. Sent(s, now)
      BY <1>5 DEF Due
    <2>. HIDE DEF now
    <2> SUFFICES ASSUME NEW o \in Rank, NEW q \in Rank, NEW a \in Turns, Knows(q, o, a), Got(q, o, a)'
                 PROVE  Sent(o, a)'
      BY DEF NotAhead
    <2>2. CASE o = s /\ q = r /\ a = now
      BY <1>10, <2>1, <2>2
    <2>3. CASE ~(o = s /\ q = r /\ a = now)
      <3>1. Got(q, o, a)
        BY <1>11, <1>12, <2>3
      <3>. QED
        BY <1>1, <1>10, <3>1 DEF NotAhead
    <2>. QED
      BY <2>2, <2>3
  <1>20. Flights'
    <2> SUFFICES ASSUME NEW o \in Rank, NEW q \in Rank
                 PROVE  InFlight(chan'[o][q], o, q, Due(o, q)')
      BY DEF Flights
    <2>. HIDE DEF now
    <2>1. CASE o = s /\ q = r
      BY <1>5, <1>9, <1>13, <2>1
    <2>2. CASE o # s \/ q # r
      BY <1>1, <1>9, <1>14, <2>2 DEF Flights
    <2>. QED
      BY <2>1, <2>2
  <1>21. Buffers'
    <2> SUFFICES ASSUME NEW q \in Rank, pc[q] # "post", NEW o \in DOMAIN buf'[q]
                 PROVE  buf'[q][o] = Message(o, q, Now(q))
      BY <1>6, <1>7 DEF Buffers
    <2>1. \A p \in DOMAIN buf[q] : buf[q][p] = Message(p, q, Now(q))
      BY <1>1 DEF Buffers
    <2>. QED
      BY <1>8, <2>1
  <1>22. Halos'
    <2>1. \A q \in Rank : \A slot : Reached(q, slot)' = Reached(q, slot)
      BY <1>7 DEF Reached
    <2>. QED
      BY <1>1, <1>2, <2>1 DEF Halos
  <1>. QED
    BY <1>15, <1>16, <1>17, <1>18, <1>19, <1>20, <1>21, <1>22 DEF IInv

\* The greatest of a set of numbers.
LEMMA MaxIs ==
  ASSUME NEW S \in SUBSET Int, NEW e \in S, \A x \in S : x <= e
  PROVE  Max(S) = e
  <1>1. \A x \in S : (\A y \in S : x >= y) => x = e
    OBVIOUS
  <1>2. \A y \in S : e >= y
    OBVIOUS
  <1>. QED
    BY <1>1, <1>2 DEF Max

\* What Unpack leaves in the halo cells of a rank that has what it waits for.
LEMMA UnpackedIs ==
  ASSUME IInv, NEW r \in Rank, pc[r] = "wait", DOMAIN buf[r] = tmp_recv[r], NEW slot \in DOMAIN halo[r]
  PROVE  Unpacked(r)[slot] = IF \E s \in Rank : slot \in Range(Receiving(r, s, Now(r)))
                             THEN Value(slot, exchange[r]) ELSE halo[r][slot]
  <1> DEFINE now == Now(r)
             slots == RecvSlots[exchange[r]][round[r]][r]
             Sources == {s \in DOMAIN buf[r] : slot \in Range(slots[s])}
             At(s) == CHOOSE k \in DOMAIN slots[s] : slots[s][k] = slot
             s0 == CHOOSE s \in Sources : TRUE
  <1>1. TypeOK /\ Placed /\ Receivers /\ Buffers
    BY DEF IInv
  <1>2. now \in Turns /\ now[1] = exchange[r] /\ now[2] = round[r]
    BY <1>1, NowIs
  <1>3. ASSUME NEW s PROVE slots[s] = Receiving(r, s, now)
    BY <1>2 DEF Receiving
  <1>4. Unpacked(r)[slot] = IF Sources = {} THEN halo[r][slot] ELSE buf[r][s0][At(s0)]
    BY DEF Unpacked
  <1>5. tmp_recv[r] \subseteq Rank
    BY <1>1 DEF TypeOK
  <1>6. ASSUME NEW s \in Rank, slot \in Range(Receiving(r, s, now)) PROVE s \in Sources
    <2>1. IsList(Receiving(r, s, now), Size(r, s, now))
      BY <1>2, SlotsAgree
    <2>2. PICK k \in DOMAIN Receiving(r, s, now) : Receiving(r, s, now)[k] = slot
      BY <1>6 DEF Range
    <2>3. Size(r, s, now) # 0
      BY <2>1, <2>2 DEF IsList
    <2>4. s \in Partners(r, now)
      BY <1>2, <2>3, SlotsAgree
    <2>5. Knows(r, s, now)
      BY <1>2, <2>4 DEF Knows
    <2>6. s \in tmp_recv[r]
      BY <1>1, <2>5, PostedKnows
    <2>. QED
      BY <1>3, <1>6, <2>6
  <1>7. ASSUME NEW s \in Sources PROVE s \in Rank /\ slot \in Range(Receiving(r, s, now))
    BY <1>3, <1>5
  <1>8. ASSUME NEW s \in Sources PROVE buf[r][s][At(s)] = Value(slot, exchange[r])
    <2>1. s \in Rank /\ slot \in Range(Receiving(r, s, now)) /\ s \in DOMAIN buf[r]
      BY <1>7
    <2>2. PICK k \in DOMAIN Receiving(r, s, now) : Receiving(r, s, now)[k] = slot
      BY <2>1 DEF Range
    <2>3. \E l \in DOMAIN slots[s] : slots[s][l] = slot
      BY <1>3, <2>2
    <2>4. At(s) \in DOMAIN Receiving(r, s, now) /\ Receiving(r, s, now)[At(s)] = slot
      <3>1. At(s) \in DOMAIN slots[s] /\ slots[s][At(s)] = slot
        <4>. HIDE DEF slots
        <4>. QED
          BY <2>3
      <3>. QED
        BY <1>3, <3>1
    <2>5. buf[r][s] = Message(s, r, now)
      BY <1>1, <2>1 DEF Buffers
    <2>6. /\ DOMAIN Receiving(r, s, now) = 1 .. Size(r, s, now)
          /\ Message(s, r, now) = [l \in 1 .. Size(r, s, now) |-> Value(Receiving(r, s, now)[l], now[1])]
      BY <1>2, <2>1, SlotsAgree DEF IsList
    <2>. HIDE DEF At, now
    <2>. QED
      BY <1>2, <2>4, <2>5, <2>6
  <1>. HIDE DEF Sources, At, now
  <1>9. CASE \E s \in Rank : slot \in Range(Receiving(r, s, now))
    <2>1. Sources # {}
      BY <1>6, <1>9
    <2>2. s0 \in Sources
      BY <2>1
    <2>. HIDE DEF s0
    <2>3. Unpacked(r)[slot] = Value(slot, exchange[r])
      BY <1>4, <1>8, <2>1, <2>2
    <2>. QED
      BY <1>9, <2>3 DEF now
  <1>10. CASE ~(\E s \in Rank : slot \in Range(Receiving(r, s, now)))
    <2>1. Sources = {}
      BY <1>7, <1>10
    <2>. QED
      BY <1>4, <1>10, <2>1 DEF now
  <1>. QED
    BY <1>9, <1>10

\* Unpacking brings the halo cells up to date and ends the turn.
LEMMA UnpackInv ==
  ASSUME IInv, NEW r \in Rank, Unpack(r)
  PROVE  IInv'
  <1> DEFINE now == Now(r)
  <1>1. /\ TypeOK /\ Shapes /\ NoAbort /\ Placed /\ Receivers /\ Senders
        /\ NotAhead /\ Flights /\ Buffers /\ Halos
    BY DEF IInv
  <1>2. /\ pc[r] = "wait" /\ pc' = [pc EXCEPT ![r] = "post"]
        /\ DOMAIN buf[r] = tmp_recv[r]
        /\ halo' = [halo EXCEPT ![r] = Unpacked(r)]
        /\ UNCHANGED <<tmp_recv, tmp_send, buf, chan, eager>>
    BY DEF Unpack, Goto
  <1>3. pc'[r] = "post" /\ \A q \in Rank \ {r} : pc'[q] = pc[q]
    BY <1>1, <1>2 DEF TypeOK
  <1>4. now \in Turns /\ now[1] = exchange[r] /\ now[2] = round[r]
    BY <1>1, <1>2, NowIs
  <1>5. /\ Now(r)' = Succ(now)
        /\ \A q \in Rank \ {r} : Now(q)' = Now(q)
        /\ \E x, y : exchange' = [exchange EXCEPT ![r] = x] /\ round' = [round EXCEPT ![r] = y]
    <2>1. CASE round[r] < LastRound(exchange[r])
      <3>1. /\ round' = [round EXCEPT ![r] = round[r] + 1] /\ exchange' = exchange
        BY <2>1 DEF Unpack
      <3>2. exchange' = [exchange EXCEPT ![r] = exchange[r]]
        BY <1>1, <3>1 DEF TypeOK
      <3>3. Succ(now) = <<exchange[r], round[r] + 1>>
        BY <1>4, <2>1 DEF Succ
      <3>. QED
        BY <1>1, <3>1, <3>2, <3>3 DEF TypeOK, Now
    <2>2. CASE ~(round[r] < LastRound(exchange[r]))
      <3>1. round' = [round EXCEPT ![r] = 1] /\ exchange' = [exchange EXCEPT ![r] = exchange[r] + 1]
        BY <2>2 DEF Unpack
      <3>2. Succ(now) = <<exchange[r] + 1, 1>>
        BY <1>4, <2>2 DEF Succ
      <3>. QED
        BY <1>1, <3>1, <3>2 DEF TypeOK, Now
    <2>. QED
      BY <2>1, <2>2
  <1>6. Succ(now) \in Places /\ \A a \in Turns : Before(a, Succ(now)) <=> a = now \/ Before(a, now)
    BY <1>4, SuccIs
  <1>7. \A a \in Turns : a # Succ(now) \/ pc'[r] = "post"
    BY <1>3
  <1>8. \A q \in Rank, a \in Turns : (Sent(q, a)' <=> Sent(q, a)) /\ (Posted(q, a)' <=> Posted(q, a))
    <2> SUFFICES ASSUME NEW q \in Rank, NEW a \in Turns
                 PROVE  (Sent(q, a)' <=> Sent(q, a)) /\ (Posted(q, a)' <=> Posted(q, a))
      OBVIOUS
    <2>1. CASE q = r
      <3>1. (Sent(r, a)' <=> Before(a, Succ(now))) /\ (Posted(r, a)' <=> Before(a, Succ(now)))
        BY <1>3, <1>5 DEF Sent, Posted
      <3>2. (Sent(r, a) <=> a = now \/ Before(a, now)) /\ (Posted(r, a) <=> a = now \/ Before(a, now))
        BY <1>2 DEF Sent, Posted
      <3>. HIDE DEF now
      <3>. QED
        BY <1>6, <2>1, <3>1, <3>2
    <2>2. CASE q # r
      BY <1>3, <1>5, <2>2 DEF Sent, Posted
    <2>. QED
      BY <2>1, <2>2
  <1>9. ASSUME NEW q \in Rank, NEW s \in Rank, NEW a \in Turns, Knows(q, s, a)
        PROVE  Got(q, s, a)' <=> Got(q, s, a)
    <2>1. CASE q = r
      <3>1. Got(r, s, a)' <=> Before(a, Succ(now))
        BY <1>3, <1>5 DEF Got
      <3>2. a = now => s \in DOMAIN buf[r]
        BY <1>1, <1>2, <1>9, <2>1, PostedKnows
      <3>3. Got(r, s, a) <=> a = now \/ Before(a, now)
        BY <1>2, <3>2 DEF Got
      <3>. HIDE DEF now
      <3>. QED
        BY <1>6, <2>1, <3>1, <3>3
    <2>2. CASE q # r
      BY <1>2, <1>3, <1>5, <2>2 DEF Got
    <2>. QED
      BY <2>1, <2>2
  <1>10. \A s, q \in Rank : Due(s, q)' = Due(s, q)
    BY <1>8, <1>9 DEF Due
  <1>11. TypeOK' /\ Placed'
    <2>1. Now(r)' = <<exchange'[r], round'[r]>>
      BY DEF Now
    <2>2. /\ exchange'[r] \in 1 .. Len(Exchanges) + 1 /\ round'[r] \in 1 .. 2 * Len(Stencils)
      <3>1. Succ(now)[1] \in 1 .. Len(Exchanges) + 1 /\ Succ(now)[2] \in 1 .. 8
        BY <1>6, PlacesAre
      <3>2. 2 * Len(Stencils) = 8
        BY RoundsAre
      <3>. HIDE DEF now
      <3>. QED
        BY <1>5, <2>1, <3>1, <3>2
    <2>3. exchange' \in [Rank -> 1 .. Len(Exchanges) + 1] /\ round' \in [Rank -> 1 .. 2 * Len(Stencils)]
      BY <1>1, <1>5, <2>2 DEF TypeOK
    <2>4. pc' \in [Rank -> {"post", "send", "wait", "aborted"}]
      BY <1>1, <1>2 DEF TypeOK
    <2>5. TypeOK'
      BY <1>1, <1>2, <2>3, <2>4 DEF TypeOK
    <2>. HIDE DEF now
    <2>6. Placed'
      BY <1>1, <1>3, <1>5, <1>6 DEF Placed
    <2>. QED
      BY <2>5, <2>6
  <1>12. Shapes'
    BY <1>1, <1>2 DEF Shapes
  <1>13. NoAbort'
    BY <1>1, <1>3 DEF NoAbort
  <1>14. Receivers' /\ Senders'
    BY <1>1, <1>2, <1>8 DEF Receivers, Senders
  <1>15. NotAhead'
    BY <1>1, <1>8, <1>9 DEF NotAhead
  <1>16. Flights'
    BY <1>1, <1>2, <1>10 DEF Flights
  <1>17. Buffers'
    BY <1>1, <1>2, <1>3, <1>5 DEF Buffers
  <1>18. Halos'
    <2> SUFFICES ASSUME NEW q \in Rank, NEW slot \in DOMAIN halo'[q]
                 PROVE  halo'[q][slot] = IF Reached(q, slot)' = {} THEN NoData
                                         ELSE Value(slot, Max(Reached(q, slot)'))
      BY DEF Halos
    <2>1. CASE q # r
      <3>1. halo'[q] = halo[q]
        BY <1>1, <1>2, <2>1 DEF Shapes
      <3>2. Reached(q, slot)' = Reached(q, slot)
        BY <1>5, <2>1 DEF Reached
      <3>. QED
        BY <1>1, <3>1, <3>2 DEF Halos
    <2>2. CASE q = r
      <3> DEFINE Hit == \E s \in Rank : slot \in Range(Receiving(r, s, now))
                 old == Reached(r, slot)
                 new == Reached(r, slot)'
      <3>1. halo'[r] = Unpacked(r)
        BY <1>1, <1>2 DEF Shapes
      <3>2. DOMAIN Unpacked(r) = DOMAIN halo[r]
        BY DEF Unpacked
      <3>3. slot \in DOMAIN halo[r]
        BY <2>2, <3>1, <3>2
      <3>4. halo'[r][slot] = IF Hit THEN Value(slot, exchange[r]) ELSE halo[r][slot]
        BY <1>2, <3>1, <3>3, UnpackedIs
      <3>5. halo[r][slot] = IF old = {} THEN NoData ELSE Value(slot, Max(old))
        BY <1>1, <3>3 DEF Halos
      <3>6. new = {e \in DOMAIN Exchanges :
                     \E a \in Turns : /\ a[1] = e /\ Before(a, Succ(now))
                                      /\ \E s \in Rank : slot \in Range(Receiving(r, s, a))}
        BY <1>5 DEF Reached
      <3>7. old = {e \in DOMAIN Exchanges :
                     \E a \in Turns : /\ a[1] = e /\ Before(a, now)
                                      /\ \E s \in Rank : slot \in Range(Receiving(r, s, a))}
        BY DEF Reached
      <3>8. CASE Hit
        <4>1. exchange[r] \in new
          <5>1. exchange[r] \in DOMAIN Exchanges
            BY <1>4, TurnsAre
          <5>2. Before(now, Succ(now))
            BY <1>4, <1>6
          <5>. HIDE DEF now
          <5>. QED
            BY <1>4, <3>6, <3>8, <5>1, <5>2
        <4>2. ASSUME NEW e \in new PROVE e \in Int /\ e <= exchange[r]
          <5>1. PICK a \in Turns : a[1] = e /\ Before(a, Succ(now))
            BY <3>6
          <5>2. a[1] \in 1 .. Len(Exchanges) /\ now[1] \in 1 .. Len(Exchanges)
            BY <1>4, TurnsAre
          <5>3. a = now \/ Before(a, now)
            BY <1>6, <5>1
          <5>. HIDE DEF now
          <5>4. a[1] <= now[1]
            BY <5>2, <5>3, ExchangesAssumption DEF Before
          <5>. QED
            BY <1>4, <5>1, <5>2, <5>4
        <4>. HIDE DEF new
        <4>3. Max(new) = exchange[r]
          BY <4>1, <4>2, MaxIs
        <4>4. new # {}
          BY <4>1
        <4>5. halo'[r][slot] = IF new = {} THEN NoData ELSE Value(slot, Max(new))
          BY <3>4, <3>8, <4>3, <4>4
        <4>. QED
          BY <2>2, <4>5 DEF new
      <3>9. CASE ~Hit
        <4>1. ASSUME NEW a \in Turns, \E s \in Rank : slot \in Range(Receiving(r, s, a))
              PROVE  Before(a, Succ(now)) <=> Before(a, now)
          <5>1. a # now
            BY <3>9, <4>1
          <5>. HIDE DEF now
          <5>. QED
            BY <1>6, <5>1
        <4>. HIDE DEF now
        <4>2. new = old
          <5>. HIDE DEF new, old
          <5>. QED
            BY <3>6, <3>7, <4>1
        <4>. HIDE DEF new, old
        <4>3. halo'[r][slot] = IF new = {} THEN NoData ELSE Value(slot, Max(new))
          BY <3>4, <3>5, <3>9, <4>2
        <4>. QED
          BY <2>2, <4>3 DEF new
      <3>. QED
        BY <3>8, <3>9
    <2>. QED
      BY <2>1, <2>2
  <1>. QED
    BY <1>11, <1>12, <1>13, <1>14, <1>15, <1>16, <1>17, <1>18 DEF IInv

\* A step that changes nothing.
LEMMA StutterInv ==
  ASSUME IInv, UNCHANGED vars
  PROVE  IInv'
  <1>1. /\ pc' = pc /\ exchange' = exchange /\ round' = round /\ tmp_recv' = tmp_recv
        /\ tmp_send' = tmp_send /\ buf' = buf /\ chan' = chan /\ halo' = halo /\ eager' = eager
    BY DEF vars
  <1>2. \A r, s \in Rank : \A a :
          /\ Now(r)' = Now(r) /\ (Posted(r, a)' <=> Posted(r, a)) /\ (Sent(r, a)' <=> Sent(r, a))
          /\ (Got(r, s, a)' <=> Got(r, s, a))
    BY <1>1 DEF Now, Posted, Sent, Got
  <1>3. \A r, s \in Rank : Due(s, r)' = Due(s, r)
    BY <1>2 DEF Due
  <1>4. \A r \in Rank : \A slot : Reached(r, slot)' = Reached(r, slot)
    BY <1>2 DEF Reached
  <1>5. TypeOK'
    BY <1>1 DEF IInv, TypeOK
  <1>12. Shapes'
    BY <1>1 DEF IInv, Shapes
  <1>10. NoAbort'
    BY <1>1 DEF IInv, NoAbort
  <1>11. Placed'
    BY <1>1, <1>2 DEF IInv, Placed
  <1>6. Receivers' /\ Senders' /\ NotAhead'
    BY <1>1, <1>2 DEF IInv, Receivers, Senders, NotAhead
  <1>7. Flights'
    BY <1>1, <1>3 DEF IInv, Flights
  <1>8. Buffers'
    BY <1>1, <1>2 DEF IInv, Buffers
  <1>9. Halos'
    BY <1>1, <1>4 DEF IInv, Halos
  <1>. QED
    BY <1>5, <1>6, <1>7, <1>8, <1>9, <1>10, <1>11, <1>12 DEF IInv

\* The invariant holds in every state.
THEOREM Invariant == Spec => []IInv
  <1>1. IInv /\ [Next]_vars => IInv'
    <2> SUFFICES ASSUME IInv, [Next]_vars PROVE IInv'
      OBVIOUS
    <2>1. ASSUME NEW r \in Rank, Step(r) PROVE IInv'
      <3>1. CASE PostReceives(r)
        BY <3>1, PostReceivesInv
      <3>2. CASE Send(r)
        BY <3>2, SendInv
      <3>3. CASE \E s \in Rank : Deliver(s, r)
        BY <3>3, DeliverInv
      <3>4. CASE Unpack(r)
        BY <3>4, UnpackInv
      <3>. QED
        BY <2>1, <3>1, <3>2, <3>3, <3>4 DEF Step
    <2>2. CASE UNCHANGED vars
      BY <2>2, StutterInv
    <2>. QED
      BY <2>1, <2>2 DEF Next, Halted
  <1>. QED
    BY <1>1, InitInv, PTL DEF Spec

\* Every rank is in one round of one exchange and talks to ranks only.
THEOREM TypeCorrect == Spec => []TypeOK
  <1>1. IInv => TypeOK
    BY DEF IInv
  <1>. QED
    BY <1>1, Invariant, PTL

(***************************************************************************)
(* No message is longer than the buffer it is received in: the library     *)
(* never ends the program (native.ipp, MPI_Irecv of TransferHalos).        *)
(***************************************************************************)
THEOREM BuffersSuffice == Spec => []NoAbort
  <1>1. IInv => NoAbort
    BY DEF IInv
  <1>. QED
    BY <1>1, Invariant, PTL

(***************************************************************************)
(* Between two exchanges every halo cell has the value that its owner had  *)
(* in the last exchange with a request that reaches the cell, though       *)
(* nothing but the order of the messages tells the rounds apart.           *)
(***************************************************************************)
THEOREM HalosAreCurrent == Spec => []HalosCurrent
  <1>1. ASSUME IInv PROVE HalosCurrent
    <2> SUFFICES ASSUME NEW r \in Rank, pc[r] = "post", round[r] = 1, NEW slot \in DOMAIN halo[r]
                 PROVE  LET reached == {e \in 1 .. exchange[r] - 1 : slot \in Requested(e, r)}
                        IN halo[r][slot] = IF reached = {} THEN NoData ELSE Value(slot, Max(reached))
      BY DEF HalosCurrent
    <2> DEFINE reached == {e \in 1 .. exchange[r] - 1 : slot \in Requested(e, r)}
    <2>1. Placed /\ Halos
      BY <1>1 DEF IInv
    <2>2. Now(r) \in Places /\ Now(r)[1] = exchange[r] /\ Now(r)[2] = 1
      BY <2>1, NowIs
    <2>3. exchange[r] \in 1 .. Len(Exchanges) + 1 /\ Len(Exchanges) \in Nat
      BY <2>2, PlacesAre, ExchangesAssumption
    <2>4. ASSUME NEW e \in Reached(r, slot) PROVE e \in reached
      <3>1. PICK a \in Turns : a[1] = e /\ Before(a, Now(r)) /\ \E s \in Rank : slot \in Range(Receiving(r, s, a))
        BY DEF Reached
      <3>2. a[1] \in 1 .. Len(Exchanges) /\ a[2] \in 1 .. 8 /\ a[2] \in Rounds(a[1])
        BY TurnsAre
      <3>3. a[1] < exchange[r]
        BY <2>2, <2>3, <3>1, <3>2 DEF Before
      <3>4. slot \in Requested(e, r)
        BY <3>1, <3>2 DEF Requested, Receiving
      <3>. QED
        BY <2>3, <3>1, <3>2, <3>3, <3>4
    <2>5. ASSUME NEW e \in reached PROVE e \in Reached(r, slot)
      <3>1. e \in 1 .. exchange[r] - 1 /\ slot \in Requested(e, r)
        OBVIOUS
      <3>2. e \in DOMAIN Exchanges /\ e < exchange[r] /\ e \in Nat
        BY <2>3, <3>1, ExchangesAssumption
      <3>3. PICK j \in Rounds(e) : \E s \in Rank : slot \in Range(RecvSlots[e][j][r][s])
        BY <3>1 DEF Requested
      <3> DEFINE a == <<e, j>>
      <3>4. a \in Turns /\ a[1] = e /\ a[2] = j
        BY <3>2, <3>3, RoundsAre DEF Turns
      <3>5. Before(a, Now(r))
        BY <2>2, <3>2, <3>4 DEF Before
      <3>6. \E s \in Rank : slot \in Range(Receiving(r, s, a))
        BY <3>3 DEF Receiving
      <3>. HIDE DEF a
      <3>. QED
        BY <3>2, <3>4, <3>5, <3>6 DEF Reached
    <2>6. reached = Reached(r, slot)
      <3>. HIDE DEF reached
      <3>. QED
        BY <2>4, <2>5
    <2>. HIDE DEF reached
    <2>7. halo[r][slot] = IF reached = {} THEN NoData ELSE Value(slot, Max(reached))
      BY <2>1, <2>6 DEF Halos
    <2>. QED
      BY <2>7 DEF reached
  <1>. QED
    BY <1>1, Invariant, PTL

-----------------------------------------------------------------------------
(***************************************************************************)
(* Cubism: coordinates that are periodic.                                  *)
(***************************************************************************)
\* A remainder is known if the number is known up to a multiple.
LEMMA RemainderIs ==
  ASSUME NEW m \in Nat \ {0}, NEW x \in Int, NEW v \in 0 .. m - 1, NEW k \in Int, x = v + k * m
  PROVE  x % m = v
  <1> DEFINE q == x \div m
             s == x % m
             e == q - k
  <1>1. q \in Int /\ s \in 0 .. m - 1 /\ x = m * q + s
    OBVIOUS
  <1>. HIDE DEF q, s
  <1>2. e \in Int /\ m * e = m * q - m * k /\ m * k = k * m
    BY <1>1
  <1>3. m * e + s = v
    <2>1. m * q \in Int /\ k * m \in Int
      BY <1>1
    <2>. HIDE DEF e
    <2>. QED
      BY <1>1, <1>2, <2>1
  <1>. HIDE DEF e
  <1>4. ~(e >= 1)
    <2>. SUFFICES ASSUME e >= 1 PROVE FALSE
      OBVIOUS
    <2>1. m * e >= m * 1 /\ m * e \in Int
      BY <1>2
    <2>2. m * 1 = m
      OBVIOUS
    <2> DEFINE f == m * e
    <2>3. f \in Int /\ f >= m /\ f + s = v
      BY <1>3, <2>1, <2>2
    <2>. HIDE DEF f
    <2>. QED
      BY <1>1, <2>3
  <1>5. ~(e <= -1)
    <2>. SUFFICES ASSUME e <= -1 PROVE FALSE
      OBVIOUS
    <2>1. m * e <= m * (-1) /\ m * e \in Int
      BY <1>2
    <2>2. m * (-1) = -m
      OBVIOUS
    <2> DEFINE f == m * e
    <2>3. f \in Int /\ f <= -m /\ f + s = v
      BY <1>3, <2>1, <2>2
    <2>. HIDE DEF f
    <2>. QED
      BY <1>1, <2>3
  <1>6. e = 0
    BY <1>2, <1>4, <1>5
  <1>. QED
    BY <1>1, <1>3, <1>6 DEF s

\* A step in a ring of n places.
RingStep(n, x, c) == (x + c) % n

LEMMA StepInRing ==
  ASSUME NEW n \in Nat \ {0}, NEW x \in 0 .. n - 1, NEW c \in -1 .. 1
  PROVE  /\ RingStep(n, x, c) \in 0 .. n - 1
         /\ RingStep(n, x, c) = IF x + c = n THEN 0 ELSE IF x + c = -1 THEN n - 1 ELSE x + c
  <1>1. CASE x + c = n
    <2>1. n = 0 + 1 * n /\ 0 \in 0 .. n - 1
      OBVIOUS
    <2>. QED
      BY <1>1, <2>1, RemainderIs DEF RingStep
  <1>2. CASE x + c = -1
    <2>1. -1 = (n - 1) + (-1) * n /\ n - 1 \in 0 .. n - 1 /\ -1 # n
      OBVIOUS
    <2>2. (-1) % n = n - 1
      BY <2>1, RemainderIs
    <2>. QED
      BY <1>2, <2>1, <2>2 DEF RingStep
  <1>3. CASE x + c # n /\ x + c # -1
    <2>1. x + c = (x + c) + 0 * n /\ x + c \in 0 .. n - 1
      BY <1>3
    <2>2. (x + c) % n = x + c
      BY <2>1, RemainderIs
    <2>. QED
      BY <1>3, <2>1, <2>2 DEF RingStep
  <1>. QED
    BY <1>1, <1>2, <1>3

\* The way back.
LEMMA StepBack ==
  ASSUME NEW n \in Nat \ {0}, NEW x \in 0 .. n - 1, NEW c \in -1 .. 1
  PROVE  RingStep(n, RingStep(n, x, c), -c) = x
  <1> DEFINE y == RingStep(n, x, c)
  <1>1. y \in 0 .. n - 1 /\ y = IF x + c = n THEN 0 ELSE IF x + c = -1 THEN n - 1 ELSE x + c
    BY StepInRing
  <1>. HIDE DEF y
  <1> DEFINE e == -c
  <1>2. e \in -1 .. 1 /\ e = -c
    OBVIOUS
  <1>. HIDE DEF e
  <1>3. RingStep(n, y, e) = IF y + e = n THEN 0 ELSE IF y + e = -1 THEN n - 1 ELSE y + e
    BY <1>1, <1>2, StepInRing
  <1>4. RingStep(n, y, e) = x
    BY <1>1, <1>2, <1>3
  <1>. QED
    BY <1>4 DEF y, e

\* A step in a mesh of p subdomains of n blocks each: it leaves the subdomain only
\* from a block at its side, and arrives at the other side of the next one.
Leaves(n, b, c, o) ==
  \/ o = 0 /\ b + c \in 0 .. n - 1
  \/ o = 1 /\ b + c = n
  \/ o = -1 /\ b + c = -1

StepsTo(p, n, r, b, c, o) ==
  /\ (r * n + b + c) % (p * n) = RingStep(p, r, o) * n + RingStep(n, b, c)
  /\ o = 1 => RingStep(n, b, c) = 0
  /\ o = -1 => RingStep(n, b, c) = n - 1

LEMMA StepInMesh ==
  ASSUME NEW p \in Nat \ {0}, NEW n \in Nat \ {0}, NEW r \in 0 .. p - 1, NEW b \in 0 .. n - 1,
         NEW c \in -1 .. 1, NEW o \in -1 .. 1,
         Leaves(n, b, c, o)
  PROVE  StepsTo(p, n, r, b, c, o)
  <1> DEFINE m == p * n
             s == RingStep(p, r, o)
             a == RingStep(n, b, c)
             rn == r * n
             sn == s * n
  <1>2. s \in 0 .. p - 1 /\ s = IF r + o = p THEN 0 ELSE IF r + o = -1 THEN p - 1 ELSE r + o
    BY StepInRing
  <1>3. a \in 0 .. n - 1 /\ a = IF b + c = n THEN 0 ELSE IF b + c = -1 THEN n - 1 ELSE b + c
    BY StepInRing, SMTT(30)
  <1>4. m \in Nat \ {0} /\ rn \in Nat /\ sn \in Int
    BY <1>2
  <1>. HIDE DEF s, a
  <1>5. sn + a \in 0 .. m - 1
    <2>1. s \in Nat /\ a \in Nat /\ s < p /\ a < n
      BY <1>2, <1>3
    <2>2. a + s * n \in Nat /\ a + s * n < n * p
      BY <2>1, DigitBound
    <2>3. n * p = m
      OBVIOUS
    <2>. QED
      BY <1>4, <2>1, <2>2, <2>3
  <1>6. \E k \in Int : rn + b + c = (sn + a) + k * m
    <2>1. CASE o = 0
      <3>1. s = r /\ sn = rn /\ a = b + c /\ 0 * m = 0
        BY <1>2, <1>3, <1>4, <2>1 DEF Leaves
      <3>. HIDE DEF m, rn, sn
      <3>2. rn + b + c = (sn + a) + 0 * m
        BY <1>4, <3>1
      <3>. QED
        BY <3>2
    <2>2. CASE o = 1
      <3>1. b + c = n /\ a = 0
        BY <1>3, <2>2 DEF Leaves
      <3>2. CASE r + 1 = p
        <4>1. s = 0 /\ r = p - 1
          BY <1>2, <2>2, <3>2
        <4>2. rn = m - n /\ sn = 0 /\ 1 * m = m
          BY <1>4, <4>1
        <4>. HIDE DEF m, rn, sn
        <4>3. rn + b + c = (sn + a) + 1 * m
          BY <1>4, <3>1, <4>2
        <4>. QED
          BY <4>3
      <3>3. CASE r + 1 # p
        <4>1. s = r + 1
          BY <1>2, <2>2, <3>3
        <4>2. sn = rn + n /\ 0 * m = 0
          BY <1>4, <4>1
        <4>. HIDE DEF m, rn, sn
        <4>3. rn + b + c = (sn + a) + 0 * m
          BY <1>4, <3>1, <4>2
        <4>. QED
          BY <4>3
      <3>. QED
        BY <3>2, <3>3
    <2>3. CASE o = -1
      <3>1. b + c = -1 /\ a = n - 1
        BY <1>3, <2>3 DEF Leaves
      <3>2. CASE r = 0
        <4>1. s = p - 1 /\ rn = 0
          BY <1>2, <2>3, <3>2
        <4>2. sn = m - n /\ (-1) * m = -m
          BY <1>4, <4>1
        <4>. HIDE DEF m, rn, sn
        <4>3. rn + b + c = (sn + a) + (-1) * m
          BY <1>4, <3>1, <4>1, <4>2
        <4>. QED
          BY <4>3
      <3>3. CASE r # 0
        <4>1. s = r - 1
          BY <1>2, <2>3, <3>3
        <4>2. sn = rn - n /\ 0 * m = 0
          BY <1>4, <4>1
        <4>. HIDE DEF m, rn, sn
        <4>3. rn + b + c = (sn + a) + 0 * m
          BY <1>4, <3>1, <4>2
        <4>. QED
          BY <4>3
      <3>. QED
        BY <3>2, <3>3
    <2>. QED
      BY <2>1, <2>2, <2>3 DEF Leaves
  <1>7. (rn + b + c) % m = sn + a
    <2>1. rn + b + c \in Int
      BY <1>4
    <2>2. PICK k \in Int : rn + b + c = (sn + a) + k * m
      BY <1>6
    <2> DEFINE x == rn + b + c
               v == sn + a
    <2>3. x \in Int /\ v \in 0 .. m - 1 /\ m \in Nat \ {0} /\ x = v + k * m
      BY <1>4, <1>5, <2>1, <2>2
    <2>. HIDE DEF m, rn, sn, x, v
    <2>4. x % m = v
      BY <2>3, RemainderIs
    <2>. QED
      BY <2>4 DEF x, v
  <1>8. (o = 1 => a = 0) /\ (o = -1 => a = n - 1)
    BY <1>3 DEF Leaves
  <1>. QED
    BY <1>7, <1>8 DEF s, a, StepsTo

-----------------------------------------------------------------------------
(***************************************************************************)
(* Ranks and directions.                                                   *)
(***************************************************************************)
\* Ranks and blocks by their coordinates.
LEMMA ProcIs ==
  /\ Proc = {r \in [Axis -> Nat] : \A d \in Axis : r[d] < nprocs[d]}
  /\ LocalBlock = {b \in [Axis -> Nat] : \A d \in Axis : b[d] < nblocks[d]}
  /\ \A d \in Axis : nprocs[d] \in Nat \ {0} /\ nblocks[d] \in Nat \ {0}
  BY BoxIs, SizesArePositive DEF Within, Sized, Proc, LocalBlock

\* The number of axes along which a direction points.
Points(x) == IF x = 0 THEN 0 ELSE 1

LEMMA NnzIs ==
  ASSUME dim = 3, NEW c \in [Axis -> -1 .. 1]
  PROVE  /\ nnz(c) = Points(c[1]) + Points(c[2]) + Points(c[3])
         /\ c[1] \in -1 .. 1 /\ c[2] \in -1 .. 1 /\ c[3] \in -1 .. 1
  <1> DEFINE A == IF c[1] # 0 THEN {1} ELSE {}
             B == IF c[2] # 0 THEN A \cup {2} ELSE A
             C == IF c[3] # 0 THEN B \cup {3} ELSE B
  <1>1. Axis = {1, 2, 3}
    BY DEF Axis
  <1>2. {d \in Axis : c[d] # 0} = C
    BY <1>1
  <1>3. IsFiniteSet(A) /\ Cardinality(A) = Points(c[1]) /\ A \subseteq {1}
    BY FS_EmptySet, FS_Singleton DEF Points
  <1>. HIDE DEF A
  <1>4. IsFiniteSet(B) /\ Cardinality(B) = Points(c[1]) + Points(c[2]) /\ B \subseteq {1, 2}
    <2>1. 2 \notin A
      BY <1>3
    <2>2. IsFiniteSet(A \cup {2}) /\ Cardinality(A \cup {2}) = Cardinality(A) + 1
      BY <1>3, <2>1, FS_AddElement
    <2>3. Points(c[1]) \in Int
      BY DEF Points
    <2>. QED
      BY <1>3, <2>2, <2>3 DEF Points
  <1>. HIDE DEF B
  <1>5. Cardinality(C) = Points(c[1]) + Points(c[2]) + Points(c[3])
    <2>1. 3 \notin B
      BY <1>4
    <2>2. Cardinality(B \cup {3}) = Cardinality(B) + 1
      BY <1>4, <2>1, FS_AddElement
    <2>3. Points(c[1]) + Points(c[2]) \in Int
      BY DEF Points
    <2>. QED
      BY <1>4, <2>2, <2>3 DEF Points
  <1>. HIDE DEF C
  <1>. QED
    BY <1>1, <1>2, <1>5 DEF nnz

\* The direction back.
LEMMA OppositeIs ==
  ASSUME NEW c \in Dir
  PROVE  Opposite(c) \in Dir /\ Opposite(Opposite(c)) = c /\ nnz(Opposite(c)) = nnz(c)
  <1>1. c \in [Axis -> -1 .. 1] /\ nnz(c) > 0
    BY DEF Dir
  <1>2. \A d \in Axis : c[d] \in -1 .. 1 /\ Opposite(c)[d] = -c[d]
    BY <1>1 DEF Opposite
  <1>3. Opposite(c) \in [Axis -> -1 .. 1]
    <2>1. \A d \in Axis : -c[d] \in -1 .. 1
      BY <1>2
    <2>. QED
      BY <2>1 DEF Opposite
  <1>4. {d \in Axis : Opposite(c)[d] # 0} = {d \in Axis : c[d] # 0}
    <2>1. ASSUME NEW d \in Axis PROVE Opposite(c)[d] # 0 <=> c[d] # 0
      BY <1>2
    <2>. QED
      BY <2>1
  <1>5. nnz(Opposite(c)) = nnz(c)
    BY <1>4 DEF nnz
  <1>6. Opposite(Opposite(c)) = c
    <2>1. \A d \in Axis : -Opposite(c)[d] = c[d]
      BY <1>2
    <2>2. Opposite(Opposite(c)) = [d \in Axis |-> -Opposite(c)[d]]
      BY DEF Opposite
    <2>. QED
      BY <1>1, <2>1, <2>2
  <1>. QED
    BY <1>1, <1>3, <1>5, <1>6 DEF Dir

\* A neighbour is a rank, and the way back leads back.
LEMMA NeighborIs ==
  ASSUME NEW r \in Proc, NEW c \in [Axis -> -1 .. 1]
  PROVE  /\ Neighbor(r, c) \in Proc
         /\ \A d \in Axis : Neighbor(r, c)[d] = RingStep(nprocs[d], r[d], c[d])
         /\ Neighbor(Neighbor(r, c), Opposite(c)) = r
  <1> DEFINE s == Neighbor(r, c)
  <1>1. s = [d \in Axis |-> RingStep(nprocs[d], r[d], c[d])]
    BY DEF Neighbor, RingStep
  <1>2. \A d \in Axis : /\ nprocs[d] \in Nat \ {0} /\ r[d] \in 0 .. nprocs[d] - 1
                        /\ c[d] \in -1 .. 1
    BY ProcIs
  <1>3. ASSUME NEW d \in Axis
        PROVE  /\ RingStep(nprocs[d], r[d], c[d]) \in 0 .. nprocs[d] - 1
               /\ RingStep(nprocs[d], RingStep(nprocs[d], r[d], c[d]), -c[d]) = r[d]
    BY <1>2, StepInRing, StepBack
  <1>4. s \in Proc
    BY <1>1, <1>2, <1>3, ProcIs
  <1>5. Neighbor(s, Opposite(c)) = r
    <2>1. Neighbor(s, Opposite(c)) = [d \in Axis |-> RingStep(nprocs[d], s[d], Opposite(c)[d])]
      BY DEF Neighbor, RingStep
    <2>2. \A d \in Axis : s[d] = RingStep(nprocs[d], r[d], c[d]) /\ Opposite(c)[d] = -c[d]
      BY <1>1 DEF Opposite
    <2>3. r = [d \in Axis |-> r[d]]
      BY ProcIs
    <2>. HIDE DEF s
    <2>. QED
      BY <1>3, <2>1, <2>2, <2>3
  <1>. QED
    BY <1>1, <1>4, <1>5

\* Another rank lies on the way back from another rank.
LEMMA RemoteBack ==
  ASSUME NEW r \in Proc, NEW c \in Remote[r]
  PROVE  /\ c \in Dir /\ Neighbor(r, c) \in Proc /\ Neighbor(r, c) # r
         /\ Opposite(c) \in Remote[Neighbor(r, c)]
         /\ Neighbor(Neighbor(r, c), Opposite(c)) = r
  <1>1. c \in Dir /\ c \in [Axis -> -1 .. 1] /\ Neighbor(r, c) # r
    BY DEF Remote, Dir
  <1>2. Neighbor(r, c) \in Proc /\ Neighbor(Neighbor(r, c), Opposite(c)) = r
    BY <1>1, NeighborIs
  <1>3. Opposite(c) \in Dir
    BY <1>1, OppositeIs
  <1>. QED
    BY <1>1, <1>2, <1>3 DEF Remote

\* The cell next to a block: which block of which rank it is.
Beyond(b, c) == [d \in Axis |-> (b[d] + c[d]) % nblocks[d]]

LEMMA OutwardIs ==
  ASSUME CubismMesh, NEW r \in Proc, NEW b \in LocalBlock, NEW c \in Dir
  PROVE  /\ Outward(b, c) \in [Axis -> -1 .. 1]
         /\ Beyond(b, c) \in LocalBlock
         /\ GetPeriodic(Plus(Global(r, b), c)) = Global(Neighbor(r, Outward(b, c)), Beyond(b, c))
         /\ Outward(b, c) \in Remote[r] =>
              b \in Side[Outward(b, c)] /\ Beyond(b, c) \in Side[Opposite(Outward(b, c))]
         /\ Outward(b, c) \notin Remote[r] => Neighbor(r, Outward(b, c)) = r
  <1> DEFINE out == Outward(b, c)
             to == Beyond(b, c)
  <1>1. \A d \in Axis : /\ nprocs[d] \in Nat \ {0} /\ nblocks[d] \in Nat \ {0}
                        /\ r[d] \in 0 .. nprocs[d] - 1 /\ b[d] \in 0 .. nblocks[d] - 1
                        /\ c[d] \in -1 .. 1
    BY ProcIs DEF Dir
  <1>2. /\ out = [d \in Axis |-> IF c[d] # 0 /\ AtSide(b, d, c[d]) THEN c[d] ELSE 0]
        /\ to = [d \in Axis |-> RingStep(nblocks[d], b[d], c[d])]
    BY DEF Outward, Beyond, RingStep
  <1>. HIDE DEF out, to
  <1>3. ASSUME NEW d \in Axis
        PROVE  /\ out[d] \in -1 .. 1
               /\ \/ out[d] = 0 /\ b[d] + c[d] \in 0 .. nblocks[d] - 1
                  \/ out[d] = 1 /\ b[d] + c[d] = nblocks[d] /\ b[d] = nblocks[d] - 1
                  \/ out[d] = -1 /\ b[d] + c[d] = -1 /\ b[d] = 0
    <2>1. out[d] = IF c[d] # 0 /\ b[d] = (IF c[d] = -1 THEN 0 ELSE nblocks[d] - 1) THEN c[d] ELSE 0
      BY <1>2 DEF AtSide
    <2>. QED
      BY <1>1, <2>1
  <1>4. out \in [Axis -> -1 .. 1]
    BY <1>2, <1>3
  <1>5. ASSUME NEW d \in Axis
        PROVE  /\ (r[d] * nblocks[d] + b[d] + c[d]) % (nprocs[d] * nblocks[d])
                    = RingStep(nprocs[d], r[d], out[d]) * nblocks[d] + RingStep(nblocks[d], b[d], c[d])
               /\ out[d] = 1 => RingStep(nblocks[d], b[d], c[d]) = 0
               /\ out[d] = -1 => RingStep(nblocks[d], b[d], c[d]) = nblocks[d] - 1
    <2> DEFINE p == nprocs[d]
               n == nblocks[d]
               x == r[d]
               y == b[d]
               e == c[d]
               o == out[d]
    <2>1. /\ p \in Nat \ {0} /\ n \in Nat \ {0} /\ x \in 0 .. p - 1 /\ y \in 0 .. n - 1
          /\ e \in -1 .. 1 /\ o \in -1 .. 1
          /\ Leaves(n, y, e, o)
      BY <1>1, <1>3 DEF Leaves
    <2>. HIDE DEF p, n, x, y, e, o
    <2>2. StepsTo(p, n, x, y, e, o)
      BY <2>1, StepInMesh
    <2>. QED
      BY <2>2 DEF p, n, x, y, e, o, StepsTo
  <1>10. \A d \in Axis : /\ out[d] = 1 => RingStep(nblocks[d], b[d], c[d]) = 0
                         /\ out[d] = -1 => RingStep(nblocks[d], b[d], c[d]) = nblocks[d] - 1
    BY <1>5
  <1>6. to \in LocalBlock
    <2>1. \A d \in Axis : RingStep(nblocks[d], b[d], c[d]) \in 0 .. nblocks[d] - 1
      BY <1>1, StepInRing
    <2>. QED
      BY <1>1, <1>2, <2>1, ProcIs
  <1>7. GetPeriodic(Plus(Global(r, b), c)) = Global(Neighbor(r, out), to)
    <2> DEFINE s == Neighbor(r, out)
    <2>1. s \in Proc /\ \A d \in Axis : s[d] = RingStep(nprocs[d], r[d], out[d])
      BY <1>4, NeighborIs
    <2>2. \A d \in Axis : globalsize[d] = nprocs[d] * nblocks[d]
      <3>1. ASSUME NEW d \in Axis PROVE globalsize[d] = nprocs[d] * nblocks[d]
        <4>1. globalsize[d] = (nprocs[d] * nblocks[d]) * 1
          BY DEF globalsize, Times, CubismMesh
        <4>. QED
          BY <1>1, <4>1
      <3>. QED
        BY <3>1
    <2>3. GetPeriodic(Plus(Global(r, b), c)) =
            [d \in Axis |-> (r[d] * nblocks[d] + b[d] + c[d]) % globalsize[d]]
      BY DEF GetPeriodic, Plus, Global, Times
    <2>4. Global(s, to) = [d \in Axis |-> s[d] * nblocks[d] + to[d]]
      BY DEF Global, Plus, Times
    <2>5. \A d \in Axis : to[d] = RingStep(nblocks[d], b[d], c[d])
      BY <1>2
    <2>. HIDE DEF s
    <2>. QED
      BY <1>5, <2>1, <2>2, <2>3, <2>4, <2>5 DEF s
  <1>8. ASSUME out \in Remote[r]
        PROVE  b \in Side[out] /\ to \in Side[Opposite(out)]
    <2>1. out \in Dir /\ Opposite(out) \in Dir
      BY <1>8, OppositeIs DEF Remote
    <2>2. ASSUME NEW d \in Axis, out[d] # 0
          PROVE  AtSide(b, d, out[d]) /\ AtSide(to, d, Opposite(out)[d])
      <3>1. to[d] = RingStep(nblocks[d], b[d], c[d]) /\ Opposite(out)[d] = -out[d]
        BY <1>2 DEF Opposite
      <3>2. CASE out[d] = 1
        <4>1. b[d] = nblocks[d] - 1 /\ to[d] = 0 /\ Opposite(out)[d] = -1 /\ out[d] # -1
          BY <1>3, <1>10, <3>1, <3>2
        <4>. QED
          BY <4>1 DEF AtSide
      <3>3. CASE out[d] = -1
        <4>1. b[d] = 0
          BY <1>3, <3>3
        <4>4. to[d] = nblocks[d] - 1
          BY <1>10, <3>1, <3>3
        <4>2. Opposite(out)[d] = 1
          <5>1. \A k \in Int : -k = 1 <=> k = -1
            OBVIOUS
          <5>2. out[d] \in Int
            BY <1>3
          <5>. QED
            BY <3>1, <3>3, <5>1, <5>2
        <4>3. Opposite(out)[d] # -1
          BY <4>2
        <4>. QED
          BY <3>3, <4>1, <4>3, <4>4 DEF AtSide
      <3>. QED
        BY <1>3, <2>2, <3>2, <3>3
    <2>3. \A d \in Axis : Opposite(out)[d] # 0 => out[d] # 0
      <3>1. ASSUME NEW d \in Axis PROVE Opposite(out)[d] # 0 => out[d] # 0
        BY <1>3 DEF Opposite
      <3>. QED
        BY <3>1
    <2>. QED
      BY <1>6, <2>1, <2>2, <2>3 DEF Side
  <1>9. ASSUME out \notin Remote[r] PROVE Neighbor(r, out) = r
    <2>1. CASE out \in Dir
      BY <1>9, <2>1 DEF Remote
    <2>2. CASE out \notin Dir
      <3>1. nnz(out) = Points(out[1]) + Points(out[2]) + Points(out[3]) /\ ~(nnz(out) > 0)
        BY <1>4, <2>2, NnzIs DEF Dir, CubismMesh
      <3>2. out[1] = 0 /\ out[2] = 0 /\ out[3] = 0
        BY <3>1 DEF Points
      <3>3. \A d \in Axis : out[d] = 0
        BY <3>2 DEF Axis, CubismMesh
      <3>4. \A d \in Axis : RingStep(nprocs[d], r[d], out[d]) = r[d]
        <4>1. ASSUME NEW d \in Axis PROVE RingStep(nprocs[d], r[d], 0) = r[d]
          <5>1. 0 \in -1 .. 1 /\ r[d] + 0 = r[d] /\ r[d] # nprocs[d] /\ r[d] # -1
            BY <1>1
          <5>. QED
            BY <1>1, <5>1, StepInRing
        <4>. QED
          BY <3>3, <4>1
      <3>5. Neighbor(r, out) = [d \in Axis |-> RingStep(nprocs[d], r[d], out[d])]
        BY DEF Neighbor, RingStep
      <3>6. r = [d \in Axis |-> r[d]]
        BY ProcIs
      <3>. QED
        BY <3>4, <3>5, <3>6
    <2>. QED
      BY <2>1, <2>2
  <1>. QED
    BY <1>4, <1>6, <1>7, <1>8, <1>9 DEF out, to

-----------------------------------------------------------------------------
(***************************************************************************)
(* Tags.                                                                   *)
(***************************************************************************)
\* Whether a direction points up.
Up(x) == IF x = 1 THEN 1 ELSE 0

\* The number of a direction among those that point along as many axes.
FaceTag(x, y, z) == IF x # 0 THEN Up(x) ELSE IF y # 0 THEN 2 + Up(y) ELSE 4 + Up(z)
EdgeTag(x, y, z) ==
  IF x = 0 THEN 2 * Up(z) + Up(y)
  ELSE IF y = 0 THEN 4 + 2 * Up(x) + Up(z) ELSE 8 + 2 * Up(y) + Up(x)
CornerTag(x, y, z) == 4 * Up(z) + 2 * Up(y) + Up(x)

LEMMA TagIs ==
  ASSUME dim = 3, NEW c \in Dir, NEW t \in Int
  PROVE  /\ nnz(c) \in 1 .. 3
         /\ nnz(c) = 1 => Tag(t, c) = 6 * t + FaceTag(c[1], c[2], c[3])
         /\ nnz(c) = 2 => Tag(t, c) = 12 * t + EdgeTag(c[1], c[2], c[3])
         /\ nnz(c) = 3 => Tag(t, c) = 8 * t + CornerTag(c[1], c[2], c[3])
  <1>1. /\ nnz(c) = Points(c[1]) + Points(c[2]) + Points(c[3]) /\ nnz(c) > 0
        /\ c[1] \in -1 .. 1 /\ c[2] \in -1 .. 1 /\ c[3] \in -1 .. 1
    BY NnzIs DEF Dir
  <1>2. nnz(c) \in 1 .. 3
    BY <1>1 DEF Points
  <1>3. /\ Bit(c, 0) = Up(c[1]) /\ Bit(c, 1) = Up(c[2]) /\ Bit(c, 2) = Up(c[3])
        /\ Bit(c, 3) = Up(c[1]) /\ Bit(c, 4) = Up(c[2])
    <2>1. 0 % 3 = 0 /\ 1 % 3 = 1 /\ 2 % 3 = 2 /\ 3 % 3 = 0 /\ 4 % 3 = 1
      OBVIOUS
    <2>2. 1 + 0 = 1 /\ 1 + 1 = 2 /\ 1 + 2 = 3
      OBVIOUS
    <2>3. \A x \in -1 .. 1 : (x + 1) \div 2 = Up(x)
      BY DEF Up
    <2>4. (c[1] + 1) \div 2 = Up(c[1]) /\ (c[2] + 1) \div 2 = Up(c[2]) /\ (c[3] + 1) \div 2 = Up(c[3])
      BY <1>1, <2>3
    <2>. QED
      BY <2>1, <2>2, <2>4 DEF Bit
  <1>4. ASSUME nnz(c) = 1 PROVE Tag(t, c) = 6 * t + FaceTag(c[1], c[2], c[3])
    <2> DEFINE d == CHOOSE e \in 0 .. 2 : c[e + 1] # 0
    <2>1. Tag(t, c) = 6 * t + 2 * d + Bit(c, d)
      BY <1>4 DEF Tag
    <2>2. \E e \in 0 .. 2 : c[e + 1] # 0
      <3>1. c[0 + 1] # 0 \/ c[1 + 1] # 0 \/ c[2 + 1] # 0
        BY <1>1, <1>4 DEF Points
      <3>2. 0 \in 0 .. 2 /\ 1 \in 0 .. 2 /\ 2 \in 0 .. 2
        OBVIOUS
      <3>. QED
        BY <3>1, <3>2
    <2>3. d \in 0 .. 2 /\ c[d + 1] # 0
      BY <2>2
    <2>. HIDE DEF d
    <2>4. 2 * d + Bit(c, d) = FaceTag(c[1], c[2], c[3]) /\ Bit(c, d) \in Int
      <3>1. Up(c[1]) \in Int /\ Up(c[2]) \in Int /\ Up(c[3]) \in Int
        BY <1>1 DEF Up
      <3>2. CASE d = 0
        BY <1>3, <2>3, <3>1, <3>2 DEF FaceTag
      <3>3. CASE d = 1
        <4>1. c[2] # 0 /\ c[1] = 0
          BY <1>1, <1>4, <2>3, <3>3 DEF Points
        <4>. QED
          BY <1>3, <3>1, <3>3, <4>1 DEF FaceTag
      <3>4. CASE d = 2
        <4>1. c[3] # 0 /\ c[1] = 0 /\ c[2] = 0
          BY <1>1, <1>4, <2>3, <3>4 DEF Points
        <4>. QED
          BY <1>3, <3>1, <3>4, <4>1 DEF FaceTag
      <3>. QED
        BY <2>3, <3>2, <3>3, <3>4
    <2>. QED
      BY <2>1, <2>3, <2>4
  <1>5. ASSUME nnz(c) = 2 PROVE Tag(t, c) = 12 * t + EdgeTag(c[1], c[2], c[3])
    <2> DEFINE d == CHOOSE e \in 0 .. 2 : c[e + 1] = 0
    <2>1. Tag(t, c) = 12 * t + 4 * d + 2 * Bit(c, d + 2) + Bit(c, d + 1)
      BY <1>5 DEF Tag
    <2>2. \E e \in 0 .. 2 : c[e + 1] = 0
      <3>1. c[0 + 1] = 0 \/ c[1 + 1] = 0 \/ c[2 + 1] = 0
        BY <1>1, <1>5 DEF Points
      <3>2. 0 \in 0 .. 2 /\ 1 \in 0 .. 2 /\ 2 \in 0 .. 2
        OBVIOUS
      <3>. QED
        BY <3>1, <3>2
    <2>3. d \in 0 .. 2 /\ c[d + 1] = 0
      BY <2>2
    <2>. HIDE DEF d
    <2>4. /\ 4 * d + 2 * Bit(c, d + 2) + Bit(c, d + 1) = EdgeTag(c[1], c[2], c[3])
          /\ Bit(c, d + 2) \in Int /\ Bit(c, d + 1) \in Int
      <3>1. Up(c[1]) \in Int /\ Up(c[2]) \in Int /\ Up(c[3]) \in Int
        BY <1>1 DEF Up
      <3>2. CASE d = 0
        <4>1. c[1] = 0 /\ Bit(c, d + 2) = Up(c[3]) /\ Bit(c, d + 1) = Up(c[2])
          BY <1>3, <2>3, <3>2
        <4>. QED
          BY <3>1, <3>2, <4>1 DEF EdgeTag
      <3>3. CASE d = 1
        <4>1. c[2] = 0 /\ c[1] # 0
          BY <1>1, <1>5, <2>3, <3>3 DEF Points
        <4>2. Bit(c, d + 2) = Up(c[1]) /\ Bit(c, d + 1) = Up(c[3])
          BY <1>3, <3>3
        <4>. QED
          BY <3>1, <3>3, <4>1, <4>2 DEF EdgeTag
      <3>4. CASE d = 2
        <4>1. c[3] = 0 /\ c[1] # 0 /\ c[2] # 0
          BY <1>1, <1>5, <2>3, <3>4 DEF Points
        <4>2. Bit(c, d + 2) = Up(c[2]) /\ Bit(c, d + 1) = Up(c[1])
          BY <1>3, <3>4
        <4>. QED
          BY <3>1, <3>4, <4>1, <4>2 DEF EdgeTag
      <3>. QED
        BY <2>3, <3>2, <3>3, <3>4
    <2>. QED
      BY <2>1, <2>3, <2>4
  <1>6. ASSUME nnz(c) = 3 PROVE Tag(t, c) = 8 * t + CornerTag(c[1], c[2], c[3])
    <2>1. Tag(t, c) = 8 * t + 4 * Bit(c, 2) + 2 * Bit(c, 1) + Bit(c, 0)
      BY <1>6 DEF Tag
    <2>2. Up(c[1]) \in Int /\ Up(c[2]) \in Int /\ Up(c[3]) \in Int
      BY <1>1 DEF Up
    <2>. QED
      BY <1>3, <2>1, <2>2 DEF CornerTag
  <1>. QED
    BY <1>2, <1>4, <1>5, <1>6

\* A direction is known by its tag and the number of axes along which it points.
LEMMA TagsDiffer ==
  ASSUME NEW x \in -1 .. 1, NEW y \in -1 .. 1, NEW z \in -1 .. 1,
         NEW u \in -1 .. 1, NEW v \in -1 .. 1, NEW w \in -1 .. 1,
         Points(x) + Points(y) + Points(z) = Points(u) + Points(v) + Points(w)
  PROVE  LET same == x = u /\ y = v /\ z = w
             axes == Points(x) + Points(y) + Points(z)
         IN /\ axes = 1 /\ FaceTag(x, y, z) = FaceTag(u, v, w) => same
            /\ axes = 2 /\ EdgeTag(x, y, z) = EdgeTag(u, v, w) => same
            /\ axes = 3 /\ CornerTag(x, y, z) = CornerTag(u, v, w) => same
  <1> DEFINE axes == Points(x) + Points(y) + Points(z)
  <1>2. ASSUME axes = 1, FaceTag(x, y, z) = FaceTag(u, v, w) PROVE x = u /\ y = v /\ z = w
    <2>1. CASE x # 0
      BY <1>2, <2>1 DEF FaceTag, Points, Up
    <2>2. CASE y # 0
      BY <1>2, <2>2 DEF FaceTag, Points, Up
    <2>3. CASE x = 0 /\ y = 0
      BY <1>2, <2>3 DEF FaceTag, Points, Up
    <2>. QED
      BY <2>1, <2>2, <2>3
  <1>3. ASSUME axes = 2, EdgeTag(x, y, z) = EdgeTag(u, v, w) PROVE x = u /\ y = v /\ z = w
    <2>1. CASE x = 0
      BY <1>3, <2>1 DEF EdgeTag, Points, Up
    <2>2. CASE y = 0
      BY <1>3, <2>2 DEF EdgeTag, Points, Up
    <2>3. CASE x # 0 /\ y # 0
      BY <1>3, <2>3 DEF EdgeTag, Points, Up
    <2>. QED
      BY <2>1, <2>2, <2>3
  <1>4. ASSUME axes = 3, CornerTag(x, y, z) = CornerTag(u, v, w) PROVE x = u /\ y = v /\ z = w
    BY <1>4 DEF CornerTag, Points, Up
  <1>. QED
    BY <1>2, <1>3, <1>4

\* Messages of one exchange in directions that point along as many axes have tags of
\* their own.
LEMMA TagUnique ==
  ASSUME dim = 3, NEW t \in Int, NEW c \in Dir, NEW e \in Dir,
         nnz(c) = nnz(e), Tag(t, c) = Tag(t, e)
  PROVE  c = e
  <1>1. /\ nnz(c) = Points(c[1]) + Points(c[2]) + Points(c[3]) /\ nnz(c) \in 1 .. 3
        /\ c[1] \in -1 .. 1 /\ c[2] \in -1 .. 1 /\ c[3] \in -1 .. 1
    BY NnzIs, TagIs DEF Dir
  <1>2. /\ nnz(e) = Points(e[1]) + Points(e[2]) + Points(e[3])
        /\ e[1] \in -1 .. 1 /\ e[2] \in -1 .. 1 /\ e[3] \in -1 .. 1
    BY NnzIs DEF Dir
  <1>3. \A x, y, z \in -1 .. 1 : /\ FaceTag(x, y, z) \in Int /\ EdgeTag(x, y, z) \in Int
                                 /\ CornerTag(x, y, z) \in Int
    BY DEF FaceTag, EdgeTag, CornerTag, Up
  <1>4. /\ nnz(c) = 1 => FaceTag(c[1], c[2], c[3]) = FaceTag(e[1], e[2], e[3])
        /\ nnz(c) = 2 => EdgeTag(c[1], c[2], c[3]) = EdgeTag(e[1], e[2], e[3])
        /\ nnz(c) = 3 => CornerTag(c[1], c[2], c[3]) = CornerTag(e[1], e[2], e[3])
    <2>1. CASE nnz(c) = 1
      <3>1. 6 * t + FaceTag(c[1], c[2], c[3]) = 6 * t + FaceTag(e[1], e[2], e[3])
        BY <2>1, TagIs
      <3>2. FaceTag(c[1], c[2], c[3]) \in Int /\ FaceTag(e[1], e[2], e[3]) \in Int
        BY <1>1, <1>2, <1>3
      <3>. QED
        BY <2>1, <3>1, <3>2
    <2>2. CASE nnz(c) = 2
      <3>1. 12 * t + EdgeTag(c[1], c[2], c[3]) = 12 * t + EdgeTag(e[1], e[2], e[3])
        BY <2>2, TagIs
      <3>2. EdgeTag(c[1], c[2], c[3]) \in Int /\ EdgeTag(e[1], e[2], e[3]) \in Int
        BY <1>1, <1>2, <1>3
      <3>. QED
        BY <2>2, <3>1, <3>2
    <2>3. CASE nnz(c) = 3
      <3>1. 8 * t + CornerTag(c[1], c[2], c[3]) = 8 * t + CornerTag(e[1], e[2], e[3])
        BY <2>3, TagIs
      <3>2. CornerTag(c[1], c[2], c[3]) \in Int /\ CornerTag(e[1], e[2], e[3]) \in Int
        BY <1>1, <1>2, <1>3
      <3>. QED
        BY <2>3, <3>1, <3>2
    <2>. QED
      BY <1>1, <2>1, <2>2, <2>3
  <1>5. c[1] = e[1] /\ c[2] = e[2] /\ c[3] = e[3]
    <2> DEFINE x == c[1]
               y == c[2]
               z == c[3]
               u == e[1]
               v == e[2]
               w == e[3]
    <2>1. /\ x \in -1 .. 1 /\ y \in -1 .. 1 /\ z \in -1 .. 1
          /\ u \in -1 .. 1 /\ v \in -1 .. 1 /\ w \in -1 .. 1
          /\ Points(x) + Points(y) + Points(z) = Points(u) + Points(v) + Points(w)
          /\ nnz(c) = Points(x) + Points(y) + Points(z)
      BY <1>1, <1>2
    <2>2. /\ nnz(c) = 1 => FaceTag(x, y, z) = FaceTag(u, v, w)
          /\ nnz(c) = 2 => EdgeTag(x, y, z) = EdgeTag(u, v, w)
          /\ nnz(c) = 3 => CornerTag(x, y, z) = CornerTag(u, v, w)
      BY <1>4
    <2>. HIDE DEF x, y, z, u, v, w
    <2>3. x = u /\ y = v /\ z = w
      BY <1>1, <2>1, <2>2, TagsDiffer
    <2>. QED
      BY <2>3 DEF x, y, z, u, v, w
  <1>. QED
    <2>1. c \in [Axis -> -1 .. 1] /\ e \in [Axis -> -1 .. 1] /\ Axis = {1, 2, 3}
      BY DEF Dir, Axis
    <2>. QED
      BY <1>5, <2>1

-----------------------------------------------------------------------------
(***************************************************************************)
(* The program.                                                            *)
(***************************************************************************)
\* The first k stages that ask for an exchange, and their number.
Asking(k) == {i \in 1 .. k : Comm(i) # {}}
Exchanged(k) == Cardinality(Asking(k))

LEMMA ExchangedIs ==
  ASSUME NEW k \in Int
  PROVE  /\ IsFiniteSet(Asking(k)) /\ Exchanged(k) \in Nat
         /\ k <= 0 => Exchanged(k) = 0
         /\ k >= 0 => Exchanged(k) <= k
  <1>1. IsFiniteSet(1 .. k) /\ Cardinality(1 .. k) = IF 1 > k THEN 0 ELSE k - 1 + 1
    BY FS_Interval
  <1>2. Asking(k) \subseteq 1 .. k
    BY DEF Asking
  <1>3. /\ IsFiniteSet(Asking(k)) /\ Cardinality(Asking(k)) \in Nat
        /\ Cardinality(Asking(k)) <= Cardinality(1 .. k)
    BY <1>1, <1>2, FS_Subset, FS_CardinalityType
  <1>4. k <= 0 => Cardinality(1 .. k) = 0
    BY <1>1
  <1>5. k >= 0 => Cardinality(1 .. k) = k
    BY <1>1
  <1>. QED
    BY <1>3, <1>4, <1>5 DEF Exchanged

\* One stage more.
LEMMA ExchangedNext ==
  ASSUME NEW k \in Int, k >= 0
  PROVE  Exchanged(k) = IF Comm(k) # {} THEN Exchanged(k - 1) + 1 ELSE Exchanged(k - 1)
  <1>1. CASE Comm(k) = {}
    <2>1. Asking(k) = Asking(k - 1)
      <3>1. ASSUME NEW i PROVE i \in Asking(k) <=> i \in Asking(k - 1)
        <4>1. i \in 1 .. k /\ i # k <=> i \in 1 .. k - 1
          OBVIOUS
        <4>. QED
          BY <1>1, <4>1 DEF Asking
      <3>. QED
        BY <3>1
    <2>. QED
      BY <1>1, <2>1 DEF Exchanged
  <1>2. CASE Comm(k) # {}
    <2>1. k \in 1 .. k
      BY <1>2 DEF Comm
    <2>2. Asking(k) = Asking(k - 1) \cup {k} /\ k \notin Asking(k - 1)
      <3>1. ASSUME NEW i PROVE i \in Asking(k) <=> i \in Asking(k - 1) \/ i = k
        <4>1. i \in 1 .. k <=> i \in 1 .. k - 1 \/ i = k
          BY <2>1
        <4>. QED
          BY <1>2, <4>1 DEF Asking
      <3>2. k \notin 1 .. k - 1
        OBVIOUS
      <3>. QED
        BY <3>1, <3>2 DEF Asking
    <2>3. IsFiniteSet(Asking(k - 1)) /\ k - 1 \in Int
      BY ExchangedIs
    <2>4. Cardinality(Asking(k - 1) \cup {k}) = Cardinality(Asking(k - 1)) + 1
      BY <2>2, <2>3, FS_AddElement
    <2>. QED
      BY <1>2, <2>2, <2>4 DEF Exchanged
  <1>. QED
    BY <1>1, <1>2

\* More stages.
LEMMA ExchangedGrows ==
  ASSUME NEW j \in Int, NEW k \in Int, j <= k
  PROVE  Exchanged(j) <= Exchanged(k)
  <1>1. Asking(j) \subseteq Asking(k)
    <2>1. \A i \in 1 .. j : i \in 1 .. k
      OBVIOUS
    <2>. QED
      BY <2>1 DEF Asking
  <1>. QED
    BY <1>1, ExchangedIs, FS_Subset DEF Exchanged

\* The exchanges of different stages have different numbers.
LEMMA ExchangedOrder ==
  ASSUME NEW i \in Nat, NEW j \in Nat, i < j, Comm(i) # {}
  PROVE  Exchanged(i - 1) + 1 <= Exchanged(j - 1)
  <1>1. Exchanged(i) = Exchanged(i - 1) + 1
    BY ExchangedNext
  <1>2. Exchanged(i) <= Exchanged(j - 1)
    <2>1. j - 1 \in Int /\ i <= j - 1
      OBVIOUS
    <2>. QED
      BY <2>1, ExchangedGrows
  <1>. QED
    BY <1>1, <1>2

\* What a field holds after the first k stages.
Touched(f, k) == {j \in 1 .. k : f \in Stages[j].writes \cup Stages[j].frees}

Held(f, k) ==
  IF Touched(f, k) = {} THEN 0
  ELSE IF f \in Stages[Max(Touched(f, k))].frees THEN Freed ELSE Max(Touched(f, k))

LEMMA TouchedIs ==
  ASSUME NEW f, NEW k \in Int, Touched(f, k) # {}
  PROVE  /\ Max(Touched(f, k)) \in Touched(f, k) /\ Max(Touched(f, k)) \in 1 .. k
         /\ \A j \in Touched(f, k) : j <= Max(Touched(f, k))
  <1>1. IsFiniteSet(1 .. k)
    BY FS_Interval
  <1>2. Touched(f, k) \subseteq 1 .. k
    BY DEF Touched
  <1>3. IsFiniteSet(Touched(f, k)) /\ Touched(f, k) \in SUBSET Nat
    BY <1>1, <1>2, FS_Subset
  <1>. QED
    BY <1>2, <1>3, MaxIsGreatest

LEMMA HeldIs ==
  ASSUME NEW f, NEW k \in Int
  PROVE  Held(f, k) \in 0 .. k \cup {0, Freed}
  BY TouchedIs DEF Held

\* One stage more.
LEMMA HeldNext ==
  ASSUME NEW f, NEW k \in DOMAIN Stages
  PROVE  Held(f, k) = IF f \in Stages[k].frees THEN Freed
                      ELSE IF f \in Stages[k].writes THEN k ELSE Held(f, k - 1)
  <1>1. k \in Nat \ {0} /\ k \in 1 .. k
    BY StagesAssumption
  <1>2. CASE f \in Stages[k].writes \cup Stages[k].frees
    <2>1. k \in Touched(f, k)
      BY <1>1, <1>2 DEF Touched
    <2>2. Max(Touched(f, k)) \in 1 .. k /\ k <= Max(Touched(f, k))
      BY <1>1, <2>1, TouchedIs
    <2>3. Max(Touched(f, k)) = k
      BY <1>1, <2>2
    <2>. QED
      BY <1>2, <2>1, <2>3 DEF Held
  <1>3. CASE f \notin Stages[k].writes \cup Stages[k].frees
    <2>1. Touched(f, k) = Touched(f, k - 1)
      <3>1. ASSUME NEW i PROVE i \in Touched(f, k) <=> i \in Touched(f, k - 1)
        <4>1. i \in 1 .. k /\ i # k <=> i \in 1 .. k - 1
          BY <1>1
        <4>. QED
          BY <1>3, <4>1 DEF Touched
      <3>. QED
        BY <3>1
    <2>2. Held(f, k) = Held(f, k - 1)
      BY <2>1 DEF Held
    <2>. QED
      BY <1>3, <2>2
  <1>. QED
    BY <1>2, <1>3

\* What is asked for holds what was written last.
LEMMA HeldWritten ==
  ASSUME Present, NEW k \in DOMAIN Stages, NEW f \in Stages[k].comm
  PROVE  Held(f, k) = Written(f, k)
  <1> DEFINE W == {0} \cup {j \in 1 .. k : f \in Stages[j].writes}
  <1>1. k \in Nat \ {0}
    BY StagesAssumption
  <1>2. Written(f, k) = Max(W) /\ W \in SUBSET Nat /\ W # {}
    BY DEF Written
  <1>3. IsFiniteSet(W)
    <2>1. IsFiniteSet(0 .. k)
      <3>1. 0 \in Int /\ k \in Int
        BY <1>1
      <3>. QED
        BY <3>1, FS_Interval
    <2>2. W \subseteq 0 .. k
      BY <1>1
    <2>. HIDE DEF W
    <2>. QED
      BY <2>1, <2>2, FS_Subset
  <1>4. \A j \in 1 .. k : f \in Stages[j].writes => j \in W
    OBVIOUS
  <1>5. \A j \in W : j = 0 \/ (j \in 1 .. k /\ f \in Stages[j].writes)
    OBVIOUS
  <1>6. 0 \in W
    OBVIOUS
  <1>. HIDE DEF W
  <1>7. Max(W) \in W /\ \A j \in W : j <= Max(W)
    BY <1>2, <1>3, MaxIsGreatest
  <1>8. CASE Touched(f, k) = {}
    <2>1. Max(W) = 0
      BY <1>5, <1>7, <1>8 DEF Touched
    <2>. QED
      BY <1>2, <1>8, <2>1 DEF Held
  <1>9. CASE Touched(f, k) # {}
    <2> DEFINE j == Max(Touched(f, k))
    <2>1. j \in Touched(f, k) /\ j \in 1 .. k /\ \A i \in Touched(f, k) : i <= j
      BY <1>1, <1>9, TouchedIs
    <2>2. Held(f, k) = IF f \in Stages[j].frees THEN Freed ELSE j
      BY <1>9 DEF Held
    <2>. HIDE DEF j
    <2>3. f \notin Stages[j].frees
      <3>. SUFFICES ASSUME f \in Stages[j].frees PROVE FALSE
        OBVIOUS
      <3>1. PICK i \in j + 1 .. k : f \in Stages[i].writes
        BY <2>1 DEF Present
      <3>2. i \in 1 .. k
        BY <2>1
      <3>3. i <= j
        BY <2>1, <3>1, <3>2 DEF Touched
      <3>. QED
        BY <2>1, <3>1, <3>3
    <2>4. f \in Stages[j].writes /\ j \in W
      BY <1>4, <2>1, <2>3 DEF Touched
    <2>5. Max(W) \in Touched(f, k)
      <3>1. j <= Max(W)
        BY <1>7, <2>4
      <3>2. Max(W) # 0
        BY <2>1, <3>1
      <3>. QED
        BY <1>5, <1>7, <3>2 DEF Touched
    <2>6. Max(W) <= j /\ j <= Max(W) /\ Max(W) \in Nat
      BY <1>2, <1>7, <2>1, <2>4, <2>5
    <2>7. Max(W) = j
      BY <2>1, <2>6
    <2>. QED
      BY <1>2, <2>2, <2>3, <2>7
  <1>. QED
    BY <1>8, <1>9

-----------------------------------------------------------------------------
(***************************************************************************)
(* The invariant.                                                          *)
(***************************************************************************)
\* The last stage whose exchange a rank has begun, and the last one it has completed.
Begun(r) == IF phase[r] = "begin" THEN stage[r] - 2 ELSE stage[r] - 1
Completed(r) == IF phase[r] = "halo" THEN stage[r] - 1 ELSE stage[r] - 2

\* What rank s sends in direction c in the exchange of stage i.
HaloMessage(s, i, c) ==
  [tag |-> SendTag(Exchanged(i - 1) % Timestamps, c), at |-> 4 * Exchanged(i - 1) + nnz(c),
   dir |-> c, sync |-> Synchronizer(Comm(i)),
   data |-> [f \in Comm(i) |-> [b \in Side[c] |-> [block |-> Global(s, b), written |-> Held(f, i)]]]]

\* The stages whose messages are on their way from s to r, and their directions.
OnTheWay(s, r) == {i \in DOMAIN Stages : Comm(i) # {} /\ Completed(r) < i /\ i <= Begun(s)}
Towards(s, r) == {c \in Remote[s] : Neighbor(s, c) = r}

RankShapes ==
  /\ phase \in [Proc -> {"begin", "inner", "wait", "halo"}]
  /\ stage \in [Proc -> 1 .. Len(Stages) + 1]
  /\ syncs = [r \in Proc |-> syncs[r]]
  /\ field = [r \in Proc |-> field[r]]
  /\ ghost = [r \in Proc |-> ghost[r]]
  /\ sent = [s \in Proc |-> [r \in Proc |-> sent[s][r]]]

\* A rank that is between the two halves of an iteration exchanges something.
InExchange ==
  \A r \in Proc : phase[r] # "begin" => stage[r] \in DOMAIN Stages /\ Comm(stage[r] - 1) # {}

Counted == \A r \in Proc : syncs[r] = Exchanged(Begun(r))

\* The stages that a block has run.
Ran(r, b) == IF phase[r] \in {"wait", "halo"} /\ b \in InnerBlocks[r] THEN stage[r] ELSE stage[r] - 1

FieldsHeld ==
  \A r \in Proc, f \in Field, b \in LocalBlock : field[r][f][b] = Held(f, Ran(r, b))

\* The messages on their way are those of the exchanges that the one end has begun and
\* the other has not completed.
MessagesSent ==
  \A s, r \in Proc :
    sent[s][r] = {HaloMessage(s, i, c) : i \in OnTheWay(s, r), c \in Towards(s, r)}

\* No rank completes an exchange that a neighbour has not begun.
NeighborsBegun ==
  \A r \in Proc : \A c \in Remote[r] : \A i \in DOMAIN Stages :
    Comm(i) # {} /\ i <= Completed(r) => i <= Begun(Neighbor(r, c))

CubismInv ==
  /\ RankShapes /\ InExchange /\ Counted /\ FieldsHeld /\ MessagesSent /\ NeighborsBegun

-----------------------------------------------------------------------------
(***************************************************************************)
(* Consequences of the invariant.                                          *)
(***************************************************************************)
\* Where a rank is.
LEMMA PlaceIs ==
  ASSUME RankShapes, NEW r \in Proc
  PROVE  /\ phase[r] \in {"begin", "inner", "wait", "halo"}
         /\ stage[r] \in Nat \ {0} /\ stage[r] <= Len(Stages) + 1 /\ Len(Stages) \in Nat
         /\ Begun(r) \in Int /\ Completed(r) \in Int
         /\ Completed(r) <= Begun(r) /\ Begun(r) <= Len(Stages)
  BY StagesAssumption DEF RankShapes, Begun, Completed

\* The stage before a rank's stage is one of the program if it asks for anything.
LEMMA AskedBy ==
  ASSUME RankShapes, NEW r \in Proc, Comm(stage[r] - 1) # {}
  PROVE  /\ stage[r] - 1 \in DOMAIN Stages /\ Comm(stage[r] - 1) = Stages[stage[r] - 1].comm
         /\ Comm(stage[r] - 1) \subseteq Field
  <1>1. stage[r] \in 1 .. Len(Stages) + 1 /\ stage[r] - 1 # 0
    BY DEF RankShapes, Comm
  <1>2. stage[r] - 1 \in DOMAIN Stages
    BY <1>1, StagesAssumption
  <1>. QED
    BY <1>1, <1>2, StagesAssumption DEF Comm

\* There are finitely many directions.
LEMMA DirFinite == IsFiniteSet(Dir)
  <1>1. IsFiniteSet(Axis) /\ IsFiniteSet(-1 .. 1)
    <2>1. -1 \in Int /\ 1 \in Int /\ dim \in Int
      BY DomainAssumption
    <2>. QED
      BY <2>1, FS_Interval DEF Axis
  <1>2. IsFiniteSet([Axis -> -1 .. 1])
    BY <1>1, FiniteFunctions
  <1>3. Dir \in SUBSET [Axis -> -1 .. 1]
    BY DEF Dir
  <1>. QED
    BY <1>2, <1>3, FS_Subset

\* A rank has finitely many messages on their way.
LEMMA SentFinite ==
  ASSUME MessagesSent, NEW s \in Proc, NEW r \in Proc
  PROVE  IsFiniteSet(sent[s][r])
  <1> DEFINE S == OnTheWay(s, r) \X Towards(s, r)
             f == [x \in S |-> HaloMessage(s, x[1], x[2])]
  <1>1. IsFiniteSet(OnTheWay(s, r))
    <2>1. IsFiniteSet(1 .. Len(Stages))
      <3>1. 1 \in Int /\ Len(Stages) \in Int
        BY StagesAssumption
      <3>. QED
        BY <3>1, FS_Interval
    <2>2. OnTheWay(s, r) \in SUBSET (1 .. Len(Stages))
      BY StagesAssumption DEF OnTheWay
    <2>. QED
      BY <2>1, <2>2, FS_Subset
  <1>2. IsFiniteSet(Towards(s, r))
    <2>1. Towards(s, r) \in SUBSET Dir
      BY DEF Towards, Remote
    <2>. QED
      BY <2>1, DirFinite, FS_Subset
  <1>3. IsFiniteSet(S)
    BY <1>1, <1>2, FS_Product
  <1>4. sent[s][r] = {f[x] : x \in S}
    <2>1. sent[s][r] = {HaloMessage(s, i, c) : i \in OnTheWay(s, r), c \in Towards(s, r)}
      BY DEF MessagesSent
    <2>2. ASSUME NEW i \in OnTheWay(s, r), NEW c \in Towards(s, r)
          PROVE  <<i, c>> \in S /\ f[<<i, c>>] = HaloMessage(s, i, c)
      OBVIOUS
    <2>3. \A x \in S : x[1] \in OnTheWay(s, r) /\ x[2] \in Towards(s, r) /\ f[x] = HaloMessage(s, x[1], x[2])
      OBVIOUS
    <2>. HIDE DEF f, S
    <2>4. ASSUME NEW m \in sent[s][r] PROVE m \in {f[x] : x \in S}
      <3>1. PICK i \in OnTheWay(s, r), c \in Towards(s, r) : m = HaloMessage(s, i, c)
        BY <2>1
      <3>2. <<i, c>> \in S /\ f[<<i, c>>] = m
        BY <2>2, <3>1
      <3>. QED
        BY <3>2
    <2>5. ASSUME NEW x \in S PROVE f[x] \in sent[s][r]
      BY <2>1, <2>3
    <2>. QED
      BY <2>4, <2>5
  <1>. HIDE DEF f, S
  <1>. QED
    BY <1>3, <1>4, FiniteImage

\* Messages of different exchanges or in different directions are apart.
LEMMA HaloMessageIs ==
  ASSUME CubismMesh, NEW s \in Proc, NEW i \in DOMAIN Stages, NEW c \in Dir
  PROVE  /\ HaloMessage(s, i, c).at = 4 * Exchanged(i - 1) + nnz(c)
         /\ HaloMessage(s, i, c).tag = Tag(Exchanged(i - 1) % Timestamps, Opposite(c))
         /\ HaloMessage(s, i, c).dir = c
         /\ nnz(c) \in 1 .. 3 /\ Exchanged(i - 1) \in Nat
  <1>1. i \in Nat
    BY StagesAssumption
  <1>2. Exchanged(i - 1) \in Nat
    BY <1>1, ExchangedIs
  <1>3. nnz(c) \in 1 .. 3
    <2>1. 0 \in Int
      OBVIOUS
    <2>. QED
      BY <2>1, TagIs DEF CubismMesh
  <1>. QED
    BY <1>2, <1>3 DEF HaloMessage, SendTag

\* A message of a later exchange is behind those of the one before.
LEMMA HaloMessageLater ==
  ASSUME CubismMesh, NEW s \in Proc, NEW i \in DOMAIN Stages, NEW j \in DOMAIN Stages,
         NEW c \in Dir, NEW e \in Dir, i < j, Comm(i) # {}
  PROVE  4 * Exchanged(i - 1) + 4 < HaloMessage(s, j, e).at /\ HaloMessage(s, i, c).at < HaloMessage(s, j, e).at
  <1>1. i \in Nat /\ j \in Nat
    BY StagesAssumption
  <1>2. Exchanged(i - 1) + 1 <= Exchanged(j - 1)
    BY <1>1, ExchangedOrder
  <1>3. /\ HaloMessage(s, i, c).at = 4 * Exchanged(i - 1) + nnz(c) /\ nnz(c) \in 1 .. 3
        /\ Exchanged(i - 1) \in Nat
    BY HaloMessageIs
  <1>4. /\ HaloMessage(s, j, e).at = 4 * Exchanged(j - 1) + nnz(e) /\ nnz(e) \in 1 .. 3
        /\ Exchanged(j - 1) \in Nat
    BY HaloMessageIs
  <1>. QED
    BY <1>2, <1>3, <1>4

\* The receives that were posted for an exchange match the messages of that exchange,
\* each the one from its direction, although tags occur more than once.
LEMMA MatchIs ==
  ASSUME CubismMesh, CubismInv, NEW r \in Proc, phase[r] = "wait", NEW c \in Remote[r],
         Matches(r, c) # {}
  PROVE  /\ stage[r] - 1 <= Begun(Neighbor(r, c))
         /\ Matches(r, c) = {HaloMessage(Neighbor(r, c), stage[r] - 1, Opposite(c))}
  <1> DEFINE i == stage[r] - 1
             s == Neighbor(r, c)
             E == Exchanged(i - 1)
             time == E % Timestamps
             T == Tag(time, c)
             queue == {m \in sent[s][r] : m.tag = T}
             earlier == {e \in Remote[r] : Neighbor(r, e) = s /\ Tag(time, e) = T /\ nnz(e) < nnz(c)}
             before == [m \in queue |-> {o \in queue : o.at < m.at}]
             m0 == HaloMessage(s, i, Opposite(c))
  <1>1. /\ Comm(i) # {} /\ i \in DOMAIN Stages /\ i \in Nat
        /\ Completed(r) = i - 1 /\ syncs[r] = E + 1 /\ E \in Nat
    <2>1. Comm(i) # {} /\ stage[r] \in Nat
      <3>1. phase[r] # "begin"
        OBVIOUS
      <3>. QED
        BY <3>1, PlaceIs DEF CubismInv, InExchange
    <2>2. i \in DOMAIN Stages /\ i \in Nat
      <3>1. RankShapes
        BY DEF CubismInv
      <3>2. i \in DOMAIN Stages
        BY <2>1, <3>1, AskedBy
      <3>. QED
        BY <3>2, StagesAssumption
    <2>3. Completed(r) = i - 1 /\ Begun(r) = i
      BY <2>1 DEF Completed, Begun
    <2>4. Exchanged(i) = E + 1 /\ E \in Nat
      BY <2>1, <2>2, ExchangedNext, ExchangedIs
    <2>. QED
      BY <2>1, <2>2, <2>3, <2>4 DEF CubismInv, Counted
  <1>2. Matches(r, c) = {m \in queue : Cardinality({o \in queue : o.at < m.at}) = Cardinality(earlier)}
    <2>1. (syncs[r] - 1) % Timestamps = time
      BY <1>1
    <2>. QED
      BY <2>1 DEF Matches
  <1>3. /\ s \in Proc /\ c \in Dir /\ Opposite(c) \in Dir /\ Opposite(c) \in Towards(s, r)
        /\ Opposite(Opposite(c)) = c /\ nnz(Opposite(c)) = nnz(c)
    BY RemoteBack, OppositeIs DEF Towards
  <1>. HIDE DEF i, s
  <1>4. \A m : m \in sent[s][r] <=> \E j \in OnTheWay(s, r) : \E e \in Towards(s, r) : m = HaloMessage(s, j, e)
    BY <1>3 DEF CubismInv, MessagesSent
  <1>5. ASSUME NEW j \in OnTheWay(s, r)
        PROVE  j \in DOMAIN Stages /\ j \in Nat /\ Comm(j) # {} /\ i <= j /\ j <= Begun(s)
    BY <1>1, StagesAssumption DEF OnTheWay
  <1>6. ASSUME NEW e \in Towards(s, r)
        PROVE  /\ e \in Dir /\ Opposite(e) \in Remote[r] /\ Opposite(e) \in Dir
               /\ Neighbor(r, Opposite(e)) = s
               /\ Opposite(Opposite(e)) = e /\ nnz(Opposite(e)) = nnz(e)
    <2>1. e \in Remote[s] /\ Neighbor(s, e) = r
      BY DEF Towards
    <2>. QED
      BY <1>3, <2>1, RemoteBack, OppositeIs
  <1>7. PICK j \in OnTheWay(s, r) : TRUE
    <2>1. queue # {}
      BY <1>2
    <2>. QED
      BY <1>4, <2>1
  <1>8. i <= Begun(s) /\ i \in OnTheWay(s, r)
    <2>1. i <= Begun(s)
      <3>1. i <= j /\ j <= Begun(s) /\ j \in Nat
        BY <1>5
      <3>2. Begun(s) \in Int
        BY <1>3, PlaceIs DEF CubismInv
      <3>. QED
        BY <1>1, <3>1, <3>2
    <2>. QED
      BY <1>1, <2>1 DEF OnTheWay
  <1>9. m0 \in queue /\ m0.at = 4 * E + nnz(c) /\ nnz(c) \in 1 .. 3
    <2>1. m0 \in sent[s][r]
      BY <1>3, <1>4, <1>8
    <2>2. m0.tag = T /\ m0.at = 4 * E + nnz(c) /\ nnz(c) \in 1 .. 3
      BY <1>1, <1>3, HaloMessageIs
    <2>. HIDE DEF m0, T
    <2>. QED
      BY <2>1, <2>2
  <1>. HIDE DEF E, m0
  \* A message that is not behind m0 is one of the same exchange.
  <1>10. ASSUME NEW m \in queue, m.at <= m0.at
         PROVE  \E e \in Towards(s, r) :
                  m = HaloMessage(s, i, e) /\ m.at = 4 * E + nnz(e) /\ Tag(time, Opposite(e)) = T
    <2>1. PICK k \in OnTheWay(s, r), e \in Towards(s, r) : m = HaloMessage(s, k, e)
      BY <1>4
    <2>2. k \in DOMAIN Stages /\ k \in Nat /\ i <= k /\ e \in Dir
      BY <1>5, <1>6
    <2>3. k = i
      <3>. SUFFICES ASSUME i < k PROVE FALSE
        BY <1>1, <2>2
      <3>1. m0.at < m.at
        BY <1>1, <1>3, <2>1, <2>2, HaloMessageLater DEF m0
      <3>2. m.at \in Int /\ m0.at \in Int
        <4>1. m.at = 4 * Exchanged(k - 1) + nnz(e) /\ nnz(e) \in 1 .. 3 /\ Exchanged(k - 1) \in Nat
          BY <1>3, <2>1, <2>2, HaloMessageIs
        <4>2. m.at \in Int
          BY <4>1
        <4>. QED
          BY <1>1, <1>9, <4>2
      <3>. QED
        BY <1>10, <3>1, <3>2
    <2>4. m.at = 4 * E + nnz(e) /\ m.tag = Tag(time, Opposite(e))
      BY <1>1, <1>3, <2>1, <2>2, <2>3, HaloMessageIs DEF E
    <2>5. m.tag = T
      OBVIOUS
    <2>. QED
      BY <2>1, <2>3, <2>4, <2>5
  <1>. HIDE DEF time, T
  <1>11. IsFiniteSet(queue)
    <2>1. IsFiniteSet(sent[s][r])
      BY <1>3, SentFinite DEF CubismInv
    <2>. QED
      BY <2>1, FS_Subset
  <1>12. \A m \in queue : m.at \in Int
    <2>. SUFFICES ASSUME NEW m \in queue PROVE m.at \in Int
      OBVIOUS
    <2>1. PICK k \in OnTheWay(s, r), e \in Towards(s, r) : m = HaloMessage(s, k, e)
      BY <1>4
    <2>2. k \in DOMAIN Stages /\ e \in Dir
      BY <1>5, <1>6
    <2>3. m.at = 4 * Exchanged(k - 1) + nnz(e) /\ nnz(e) \in 1 .. 3 /\ Exchanged(k - 1) \in Nat
      BY <1>3, <2>1, <2>2, HaloMessageIs
    <2>. QED
      BY <2>3
  <1>13. Cardinality(before[m0]) = Cardinality(earlier)
    <2> DEFINE f == [e \in earlier |-> HaloMessage(s, i, Opposite(e))]
    <2>1. ASSUME NEW e \in earlier
          PROVE  /\ Opposite(e) \in Towards(s, r) /\ Opposite(Opposite(e)) = e
                 /\ f[e] \in before[m0] /\ f[e].dir = Opposite(e)
      <3>1. e \in Remote[r] /\ Neighbor(r, e) = s /\ Tag(time, e) = T /\ nnz(e) < nnz(c)
        OBVIOUS
      <3>2. /\ Opposite(e) \in Towards(s, r) /\ Opposite(e) \in Dir
            /\ Opposite(Opposite(e)) = e /\ nnz(Opposite(e)) = nnz(e)
        BY <3>1, RemoteBack, OppositeIs DEF Towards
      <3>3. /\ f[e].at = 4 * E + nnz(e) /\ f[e].tag = Tag(time, e) /\ f[e].dir = Opposite(e)
            /\ nnz(e) \in 1 .. 3
        BY <1>1, <1>3, <3>2, HaloMessageIs DEF E, time
      <3>4. f[e] \in sent[s][r]
        BY <1>4, <1>8, <3>2
      <3>5. f[e].at < m0.at
        <4>1. nnz(e) < nnz(c)
          BY <3>1
        <4>. HIDE DEF f
        <4>. QED
          BY <1>1, <1>9, <3>3, <4>1
      <3>. HIDE DEF f
      <3>6. f[e] \in queue
        BY <3>1, <3>3, <3>4
      <3>. QED
        BY <1>9, <3>2, <3>3, <3>5, <3>6
    <2>2. ASSUME NEW m \in before[m0] PROVE \E e \in earlier : f[e] = m
      <3>1. m \in queue /\ m.at < m0.at
        BY <1>9
      <3>2. m.at \in Int /\ m0.at \in Int
        BY <1>9, <1>12, <3>1
      <3>3. PICK e \in Towards(s, r) :
              m = HaloMessage(s, i, e) /\ m.at = 4 * E + nnz(e) /\ Tag(time, Opposite(e)) = T
        BY <1>10, <3>1, <3>2
      <3>4. /\ Opposite(e) \in Remote[r] /\ Neighbor(r, Opposite(e)) = s
            /\ Opposite(Opposite(e)) = e /\ nnz(Opposite(e)) = nnz(e) /\ e \in Dir
        BY <1>6
      <3>5. nnz(e) < nnz(c)
        <4>1. nnz(e) \in 1 .. 3
          BY <1>1, <1>3, <3>4, HaloMessageIs
        <4>2. 4 * E + nnz(e) < 4 * E + nnz(c)
          BY <1>9, <3>1, <3>3
        <4>. QED
          BY <1>1, <1>9, <4>1, <4>2
      <3>6. Opposite(e) \in earlier
        BY <3>3, <3>4, <3>5
      <3>. QED
        BY <3>3, <3>4, <3>6
    <2>3. IsFiniteSet(earlier)
      <3>1. earlier \in SUBSET Dir
        BY DEF Remote
      <3>. QED
        BY <3>1, DirFinite, FS_Subset
    <2>. HIDE DEF earlier, before
    <2>4. f \in [earlier -> before[m0]]
      BY <2>1
    <2>5. \A e, d \in earlier : f[e] = f[d] => e = d
      <3>. SUFFICES ASSUME NEW e \in earlier, NEW d \in earlier, f[e] = f[d] PROVE e = d
        OBVIOUS
      <3>1. Opposite(e) = Opposite(d)
        <4>1. f[e].dir = Opposite(e) /\ f[d].dir = Opposite(d)
          BY <2>1
        <4>. HIDE DEF f
        <4>. QED
          BY <4>1
      <3>. QED
        BY <2>1, <3>1
    <2>. HIDE DEF f
    <2>6. f \in Bijection(earlier, before[m0])
      BY <2>2, <2>4, <2>5 DEF Bijection, Injection, Surjection, IsInjective
    <2>7. ExistsBijection(earlier, before[m0])
      BY <2>6 DEF ExistsBijection
    <2>. QED
      BY <2>3, <2>7, FS_Bijection
  <1>14. ASSUME NEW m \in queue, NEW o \in queue, o.at < m.at
         PROVE  Cardinality(before[o]) < Cardinality(before[m])
    <2>1. before[o] \subseteq before[m]
      <3>1. ASSUME NEW x \in queue, x.at < o.at PROVE x.at < m.at
        BY <1>12, <1>14, <3>1
      <3>. QED
        BY <3>1
    <2>2. o \in before[m] /\ o \notin before[o]
      BY <1>12, <1>14
    <2>3. IsFiniteSet(before[m])
      <3>1. before[m] \in SUBSET queue
        OBVIOUS
      <3>. QED
        BY <1>11, <3>1, FS_Subset
    <2>. HIDE DEF before
    <2>4. /\ Cardinality(before[o]) <= Cardinality(before[m])
          /\ Cardinality(before[o]) # Cardinality(before[m])
      BY <2>1, <2>2, <2>3, FS_Subset
    <2>5. Cardinality(before[o]) \in Nat /\ Cardinality(before[m]) \in Nat
      BY <2>1, <2>3, FS_Subset, FS_CardinalityType
    <2>. QED
      BY <2>4, <2>5
  <1>15. ASSUME NEW m \in queue, m.at = m0.at PROVE m = m0
    <2>1. m.at <= m0.at
      BY <1>12, <1>15
    <2>2. PICK e \in Towards(s, r) :
            m = HaloMessage(s, i, e) /\ m.at = 4 * E + nnz(e) /\ Tag(time, Opposite(e)) = T
      BY <1>10, <2>1
    <2>3. e \in Dir /\ Opposite(e) \in Dir /\ Opposite(Opposite(e)) = e /\ nnz(Opposite(e)) = nnz(e)
      BY <1>6
    <2>4. nnz(e) = nnz(c)
      <3>1. nnz(e) \in 1 .. 3
        BY <1>1, <1>3, <2>3, HaloMessageIs
      <3>2. 4 * E + nnz(e) = 4 * E + nnz(c)
        BY <1>9, <1>15, <2>2
      <3>. QED
        BY <1>1, <1>9, <3>1, <3>2
    <2>5. time \in Int
      BY <1>1, StagesAssumption DEF time
    <2>6. Opposite(e) = c
      BY <1>3, <2>2, <2>3, <2>4, <2>5, TagUnique DEF CubismMesh, T
    <2>. QED
      BY <2>2, <2>3, <2>6 DEF m0
  <1>16. ASSUME NEW m \in queue PROVE Cardinality(before[m]) = Cardinality(earlier) <=> m = m0
    <2>0. \A o \in queue : Cardinality(before[o]) \in Nat
      <3>. SUFFICES ASSUME NEW o \in queue PROVE Cardinality(before[o]) \in Nat
        OBVIOUS
      <3>1. before[o] \in SUBSET queue
        OBVIOUS
      <3>. HIDE DEF before
      <3>. QED
        BY <1>11, <3>1, FS_Subset, FS_CardinalityType
    <2>1. CASE m.at < m0.at
      <3>1. Cardinality(before[m]) < Cardinality(before[m0])
        BY <1>9, <1>14, <2>1
      <3>2. m0.at \in Int /\ Cardinality(before[m]) \in Nat /\ Cardinality(before[m0]) \in Nat
        BY <1>9, <1>12, <2>0
      <3>. HIDE DEF before
      <3>3. m # m0
        BY <2>1, <3>2
      <3>. QED
        BY <1>13, <3>1, <3>2, <3>3
    <2>2. CASE m0.at < m.at
      <3>1. Cardinality(before[m0]) < Cardinality(before[m])
        BY <1>9, <1>14, <2>2
      <3>2. m0.at \in Int /\ Cardinality(before[m]) \in Nat /\ Cardinality(before[m0]) \in Nat
        BY <1>9, <1>12, <2>0
      <3>. HIDE DEF before
      <3>3. m # m0
        BY <2>2, <3>2
      <3>. QED
        BY <1>13, <3>1, <3>2, <3>3
    <2>3. CASE m.at = m0.at
      BY <1>13, <1>15, <2>3
    <2>4. m.at \in Int /\ m0.at \in Int
      BY <1>9, <1>12
    <2>. QED
      BY <2>1, <2>2, <2>3, <2>4
  <1>17. Matches(r, c) = {m0}
    <2>1. \A m \in queue : before[m] = {o \in queue : o.at < m.at}
      OBVIOUS
    <2>2. Matches(r, c) = {m \in queue : Cardinality(before[m]) = Cardinality(earlier)}
      BY <1>2, <2>1
    <2>. HIDE DEF queue, before, earlier
    <2>. QED
      BY <1>9, <1>16, <2>2
  <1>. QED
    BY <1>8, <1>17 DEF i, s, m0

-----------------------------------------------------------------------------
(***************************************************************************)
(* The invariant holds at the beginning and is kept by every step.         *)
(***************************************************************************)
LEMMA CubismInitial == CubismInit => CubismInv
  <1>. SUFFICES ASSUME CubismInit PROVE CubismInv
    OBVIOUS
  <1>1. ASSUME NEW r \in Proc
        PROVE  /\ phase[r] = "begin" /\ stage[r] = 1 /\ syncs[r] = 0
               /\ Begun(r) = -1 /\ Completed(r) = -1
    <2>1. phase[r] = "begin" /\ stage[r] = 1 /\ syncs[r] = 0
      BY DEF CubismInit
    <2>. QED
      BY <2>1 DEF Begun, Completed
  <1>2. RankShapes
    <2>1. 1 \in 1 .. Len(Stages) + 1
      BY StagesAssumption
    <2>. QED
      BY <2>1 DEF CubismInit, RankShapes
  <1>3. InExchange
    BY <1>1 DEF InExchange
  <1>4. Counted
    <2>1. Exchanged(-1) = 0
      <3>1. -1 \in Int /\ -1 <= 0
        OBVIOUS
      <3>. QED
        BY <3>1, ExchangedIs
    <2>. QED
      BY <1>1, <2>1 DEF Counted
  <1>5. FieldsHeld
    <2>. SUFFICES ASSUME NEW r \in Proc, NEW f \in Field, NEW b \in LocalBlock
                  PROVE  field[r][f][b] = Held(f, Ran(r, b))
      BY DEF FieldsHeld
    <2>1. Ran(r, b) = 0
      BY <1>1 DEF Ran
    <2>2. Held(f, 0) = 0
      <3>1. Touched(f, 0) = {}
        BY DEF Touched
      <3>. QED
        BY <3>1 DEF Held
    <2>3. field[r][f][b] = 0
      BY DEF CubismInit
    <2>. QED
      BY <2>1, <2>2, <2>3
  <1>6. MessagesSent
    <2>. SUFFICES ASSUME NEW s \in Proc, NEW r \in Proc
                  PROVE  sent[s][r] = {HaloMessage(s, i, c) : i \in OnTheWay(s, r), c \in Towards(s, r)}
      BY DEF MessagesSent
    <2>1. OnTheWay(s, r) = {}
      BY <1>1, StagesAssumption DEF OnTheWay
    <2>2. sent[s][r] = {}
      BY DEF CubismInit
    <2>. QED
      BY <2>1, <2>2
  <1>7. NeighborsBegun
    BY <1>1, StagesAssumption DEF NeighborsBegun
  <1>. QED
    BY <1>2, <1>3, <1>4, <1>5, <1>6, <1>7 DEF CubismInv

LEMMA CubismStutters == CubismInv /\ UNCHANGED cubismVars => CubismInv'
  <1>. SUFFICES ASSUME CubismInv, UNCHANGED cubismVars PROVE CubismInv'
    OBVIOUS
  <1>1. \A r : Begun(r)' = Begun(r) /\ Completed(r)' = Completed(r)
    BY DEF cubismVars, Begun, Completed
  <1>2. \A s, r : OnTheWay(s, r)' = OnTheWay(s, r)
    BY <1>1 DEF OnTheWay
  <1>3. \A r, b : Ran(r, b)' = Ran(r, b)
    BY DEF cubismVars, Ran
  <1>4. RankShapes'
    BY DEF cubismVars, CubismInv, RankShapes
  <1>5. InExchange'
    BY DEF cubismVars, CubismInv, InExchange
  <1>6. Counted'
    BY <1>1 DEF cubismVars, CubismInv, Counted
  <1>7. FieldsHeld'
    BY <1>3 DEF cubismVars, CubismInv, FieldsHeld
  <1>8. MessagesSent'
    BY <1>2 DEF cubismVars, CubismInv, MessagesSent
  <1>9. NeighborsBegun'
    BY <1>1 DEF CubismInv, NeighborsBegun
  <1>. QED
    BY <1>4, <1>5, <1>6, <1>7, <1>8, <1>9 DEF CubismInv

\* A step that begins and completes no exchange.
LEMMA NoExchange ==
  ASSUME MessagesSent, NeighborsBegun, sent' = sent,
         \A q \in Proc : \A i \in DOMAIN Stages : Comm(i) # {} =>
           /\ i <= Begun(q)' <=> i <= Begun(q)
           /\ Completed(q)' < i <=> Completed(q) < i
           /\ i <= Completed(q)' <=> i <= Completed(q)
  PROVE  MessagesSent' /\ NeighborsBegun'
  <1>1. ASSUME NEW s \in Proc, NEW r \in Proc PROVE OnTheWay(s, r)' = OnTheWay(s, r)
    BY DEF OnTheWay
  <1>2. MessagesSent'
    BY <1>1 DEF MessagesSent
  <1>3. NeighborsBegun'
    <2>. SUFFICES ASSUME NEW r \in Proc, NEW c \in Remote[r], NEW i \in DOMAIN Stages,
                         Comm(i) # {}, i <= Completed(r)'
                  PROVE  i <= Begun(Neighbor(r, c))'
      BY DEF NeighborsBegun
    <2>1. i <= Completed(r) /\ Neighbor(r, c) \in Proc
      BY RemoteBack
    <2>2. i <= Begun(Neighbor(r, c))
      BY <2>1 DEF NeighborsBegun
    <2>. QED
      BY <2>1, <2>2
  <1>. QED
    BY <1>2, <1>3

\* The blocks that run a stage hold what the stage leaves.
LEMMA RunIs ==
  ASSUME NEW r \in Proc, stage[r] \in DOMAIN Stages, NEW blocks \in SUBSET LocalBlock,
         NEW f \in Field, NEW b \in LocalBlock,
         b \in blocks => field[r][f][b] = Held(f, stage[r] - 1)
  PROVE  Run(r, blocks)[f][b] = IF b \in blocks THEN Held(f, stage[r]) ELSE field[r][f][b]
  <1>1. Held(f, stage[r]) = IF f \in Stages[stage[r]].frees THEN Freed
                            ELSE IF f \in Stages[stage[r]].writes THEN stage[r]
                            ELSE Held(f, stage[r] - 1)
    BY HeldNext
  <1>. QED
    BY <1>1 DEF Run

\* Where the ranks are after a step of rank r that begins an exchange.
LEMMA SyncPlace ==
  ASSUME CubismInv, NEW r \in Proc, Sync(r)
  PROVE  /\ phase[r] = "begin" /\ phase'[r] = "inner" /\ stage' = stage /\ field' = field
         /\ stage[r] \in DOMAIN Stages /\ stage[r] - 1 \in DOMAIN Stages
         /\ Comm(stage[r] - 1) # {} /\ Comm(stage[r] - 1) \subseteq Field
         /\ Begun(r) = stage[r] - 2 /\ Begun(r)' = stage[r] - 1
         /\ \A q \in Proc : q # r => phase'[q] = phase[q] /\ Begun(q)' = Begun(q)
         /\ \A q \in Proc : Completed(q)' = Completed(q)
         /\ \A q \in Proc, b \in LocalBlock : Ran(q, b)' = Ran(q, b)
  <1>1. /\ phase[r] = "begin" /\ phase' = [phase EXCEPT ![r] = "inner"]
        /\ stage' = stage /\ field' = field /\ Comm(stage[r] - 1) # {} /\ stage[r] \in DOMAIN Stages
    BY DEF Sync, Moves, Running
  <1>2. /\ phase'[r] = "inner" /\ \A q \in Proc : q # r => phase'[q] = phase[q]
    BY <1>1 DEF CubismInv, RankShapes
  <1>3. stage[r] - 1 \in DOMAIN Stages /\ Comm(stage[r] - 1) \subseteq Field
    BY <1>1, AskedBy DEF CubismInv
  <1>4. Begun(r) = stage[r] - 2 /\ Begun(r)' = stage[r] - 1
    BY <1>1, <1>2 DEF Begun
  <1>5. \A q \in Proc : q # r => Begun(q)' = Begun(q)
    BY <1>1, <1>2 DEF Begun
  <1>6. \A q \in Proc : Completed(q)' = Completed(q)
    BY <1>1, <1>2 DEF Completed
  <1>7. \A q \in Proc, b \in LocalBlock : Ran(q, b)' = Ran(q, b)
    BY <1>1, <1>2 DEF Ran
  <1>. QED
    BY <1>1, <1>2, <1>3, <1>4, <1>5, <1>6, <1>7

\* What the synchronizer packs is the message of the exchange.
LEMMA PackIs ==
  ASSUME CubismInv, NEW r \in Proc, phase[r] = "begin", Comm(stage[r] - 1) # {}, NEW c \in Dir
  PROVE  HaloMessage(r, stage[r] - 1, c) =
           [tag |-> SendTag(timestamp(r), c), at |-> 4 * syncs[r] + nnz(c), dir |-> c,
            sync |-> Synchronizer(Comm(stage[r] - 1)), data |-> Pack(r, c)]
  <1>1. /\ stage[r] - 1 \in DOMAIN Stages /\ Comm(stage[r] - 1) \subseteq Field
        /\ stage[r] \in Nat /\ (stage[r] - 1) - 1 = stage[r] - 2
    <2>1. RankShapes
      BY DEF CubismInv
    <2>2. stage[r] \in Nat
      BY <2>1, PlaceIs
    <2>3. (stage[r] - 1) - 1 = stage[r] - 2
      BY <2>2
    <2>. QED
      BY <2>1, <2>2, <2>3, AskedBy
  <1>2. syncs[r] = Exchanged((stage[r] - 1) - 1)
    BY <1>1 DEF CubismInv, Counted, Begun
  <1>3. \A f \in Comm(stage[r] - 1), b \in Side[c] :
          Datum(r, f, b) = [block |-> Global(r, b), written |-> Held(f, stage[r] - 1)]
    <2>. SUFFICES ASSUME NEW f \in Comm(stage[r] - 1), NEW b \in Side[c]
                  PROVE  field[r][f][b] = Held(f, stage[r] - 1)
      BY DEF Datum
    <2>1. f \in Field /\ b \in LocalBlock
      BY <1>1 DEF Side
    <2>2. Ran(r, b) = stage[r] - 1
      BY DEF Ran
    <2>. QED
      BY <2>1, <2>2 DEF CubismInv, FieldsHeld
  <1>4. Pack(r, c) = [f \in Comm(stage[r] - 1) |-> [b \in Side[c] |->
                        [block |-> Global(r, b), written |-> Held(f, stage[r] - 1)]]]
    BY <1>3 DEF Pack
  <1>. QED
    BY <1>2, <1>4 DEF HaloMessage, timestamp

\* Nothing is overwritten: the sends that read the buffer are complete.
LEMMA NotOverwritten ==
  ASSUME NEW r \in Proc, NEW s \in Proc, SendsComplete(r)
  PROVE  Overwritten(r, sent[r][s]) = sent[r][s]
  <1>1. \A m \in sent[r][s] : ~(m.sync = Synchronizer(Comm(stage[r] - 1)) /\ ~buffered)
    BY DEF SendsComplete
  <1>. QED
    BY <1>1 DEF Overwritten

LEMMA SyncMessages ==
  ASSUME CubismMesh, CubismInv, NEW r \in Proc, Sync(r)
  PROVE  MessagesSent'
  <1> DEFINE i == stage[r] - 1
             New(s) == {HaloMessage(r, i, c) : c \in Towards(r, s)}
  <1>1. SendsComplete(r) /\ sent = [s \in Proc |-> [q \in Proc |-> sent[s][q]]]
    BY DEF Sync, CubismInv, RankShapes
  <1>2. \A s \in Proc : s # r => sent'[s] = sent[s]
    BY <1>1 DEF Sync
  <1>3. ASSUME NEW s \in Proc
        PROVE  sent'[r][s] = sent[r][s] \cup New(s)
    <2>1. sent'[r][s] =
            Overwritten(r, sent[r][s]) \cup
              {[tag |-> SendTag(timestamp(r), c), at |-> 4 * syncs[r] + nnz(c), dir |-> c,
                sync |-> Synchronizer(Comm(stage[r] - 1)), data |-> Pack(r, c)] :
                 c \in {e \in Remote[r] : Neighbor(r, e) = s}}
      BY <1>1 DEF Sync
    <2>2. \A c \in Towards(r, s) :
            HaloMessage(r, i, c) =
              [tag |-> SendTag(timestamp(r), c), at |-> 4 * syncs[r] + nnz(c), dir |-> c,
               sync |-> Synchronizer(Comm(stage[r] - 1)), data |-> Pack(r, c)]
      <3>. SUFFICES ASSUME NEW c \in Towards(r, s)
                    PROVE  HaloMessage(r, i, c) =
                             [tag |-> SendTag(timestamp(r), c), at |-> 4 * syncs[r] + nnz(c),
                              dir |-> c, sync |-> Synchronizer(Comm(stage[r] - 1)),
                              data |-> Pack(r, c)]
        OBVIOUS
      <3>1. c \in Dir
        BY DEF Towards, Remote
      <3>2. phase[r] = "begin" /\ Comm(stage[r] - 1) # {}
        BY SyncPlace
      <3>. QED
        BY <3>1, <3>2, PackIs
    <2>3. Towards(r, s) = {e \in Remote[r] : Neighbor(r, e) = s}
      BY DEF Towards
    <2>4. Overwritten(r, sent[r][s]) = sent[r][s]
      BY <1>1, NotOverwritten
    <2>5. {[tag |-> SendTag(timestamp(r), c), at |-> 4 * syncs[r] + nnz(c), dir |-> c,
            sync |-> Synchronizer(Comm(stage[r] - 1)), data |-> Pack(r, c)] : c \in Towards(r, s)} = New(s)
      BY <2>2
    <2>. HIDE DEF New
    <2>. QED
      BY <2>1, <2>3, <2>4, <2>5
  <1>4. /\ i \in DOMAIN Stages /\ Comm(i) # {} /\ i \in Nat
        /\ Begun(r) = i - 1 /\ Begun(r)' = i
        /\ \A q \in Proc : q # r => Begun(q)' = Begun(q)
        /\ \A q \in Proc : Completed(q)' = Completed(q)
    <2>1. stage[r] - 1 \in DOMAIN Stages /\ stage[r] \in Nat
      BY SyncPlace, PlaceIs DEF CubismInv
    <2>. QED
      BY <2>1, SyncPlace, StagesAssumption
  <1>. HIDE DEF i
  <1>5. ASSUME NEW s \in Proc, NEW q \in Proc, s # r PROVE OnTheWay(s, q)' = OnTheWay(s, q)
    BY <1>4, <1>5 DEF OnTheWay
  <1>6. ASSUME NEW q \in Proc, Towards(r, q) # {}
        PROVE  \A j : j \in OnTheWay(r, q)' <=> j \in OnTheWay(r, q) \/ j = i
    <2>1. PICK c \in Remote[r] : Neighbor(r, c) = q
      BY <1>6 DEF Towards
    <2>2. Opposite(c) \in Remote[q] /\ Neighbor(q, Opposite(c)) = r
      BY <2>1, RemoteBack
    <2>3. Completed(q) \in Int /\ Begun(r) \in Int
      BY PlaceIs DEF CubismInv
    <2>4. Completed(q) < i
      <3>. SUFFICES ASSUME i <= Completed(q) PROVE FALSE
        BY <1>4, <2>3
      <3>1. i <= Begun(r)
        BY <1>4, <2>2 DEF CubismInv, NeighborsBegun
      <3>. QED
        BY <1>4, <3>1
    <2>5. \A j \in DOMAIN Stages : j <= i <=> j <= i - 1 \/ j = i
      BY <1>4, StagesAssumption
    <2>. QED
      BY <1>4, <2>4, <2>5 DEF OnTheWay
  <1>. SUFFICES ASSUME NEW s \in Proc, NEW q \in Proc
                PROVE  sent'[s][q] = {HaloMessage(s, j, c) : j \in OnTheWay(s, q)', c \in Towards(s, q)}
    BY DEF MessagesSent
  <1>7. sent[s][q] = {HaloMessage(s, j, c) : j \in OnTheWay(s, q), c \in Towards(s, q)}
    BY DEF CubismInv, MessagesSent
  <1>8. CASE s # r
    BY <1>2, <1>5, <1>7, <1>8
  <1>9. CASE s = r /\ Towards(r, q) = {}
    <2>1. New(q) = {}
      BY <1>9
    <2>. HIDE DEF New
    <2>. QED
      BY <1>3, <1>7, <1>9, <2>1
  <1>10. CASE s = r /\ Towards(r, q) # {}
    <2>1. sent'[r][q] = sent[r][q] \cup New(q)
      BY <1>3
    <2>2. \A m : m \in New(q) <=> \E c \in Towards(r, q) : m = HaloMessage(r, i, c)
      OBVIOUS
    <2>. HIDE DEF New
    <2>3. ASSUME NEW m
          PROVE  m \in sent'[r][q] <=>
                   \E j \in OnTheWay(r, q)' : \E c \in Towards(r, q) : m = HaloMessage(r, j, c)
      <3>1. m \in sent[r][q] <=> \E j \in OnTheWay(r, q) : \E c \in Towards(r, q) : m = HaloMessage(r, j, c)
        BY <1>7, <1>10
      <3>. QED
        BY <1>6, <1>10, <2>1, <2>2, <3>1
    <2>. QED
      BY <1>10, <2>3
  <1>. QED
    BY <1>8, <1>9, <1>10

LEMMA SyncKeeps ==
  ASSUME CubismMesh, CubismInv, NEW r \in Proc, Sync(r)
  PROVE  CubismInv'
  <1>0. /\ phase[r] = "begin" /\ phase'[r] = "inner" /\ stage' = stage /\ field' = field
        /\ stage[r] \in DOMAIN Stages /\ Comm(stage[r] - 1) # {}
        /\ Begun(r) = stage[r] - 2 /\ Begun(r)' = stage[r] - 1
        /\ \A q \in Proc : q # r => phase'[q] = phase[q] /\ Begun(q)' = Begun(q)
        /\ \A q \in Proc : Completed(q)' = Completed(q)
        /\ \A q \in Proc, b \in LocalBlock : Ran(q, b)' = Ran(q, b)
    BY SyncPlace
  <1>1. RankShapes'
    <2>1. phase' = [phase EXCEPT ![r] = "inner"]
      BY DEF Sync, Moves
    <2>2. phase' \in [Proc -> {"begin", "inner", "wait", "halo"}]
      BY <2>1 DEF CubismInv, RankShapes
    <2>3. syncs' = [q \in Proc |-> syncs'[q]] /\ ghost' = [q \in Proc |-> ghost'[q]]
      BY DEF Sync, CubismInv, RankShapes
    <2>4. sent' = [s \in Proc |-> [q \in Proc |-> sent'[s][q]]]
      <3>1. sent = [s \in Proc |-> [q \in Proc |-> sent[s][q]]]
        BY DEF CubismInv, RankShapes
      <3>. QED
        BY <3>1 DEF Sync
    <2>5. stage' \in [Proc -> 1 .. Len(Stages) + 1] /\ field' = [q \in Proc |-> field'[q]]
      BY <1>0 DEF CubismInv, RankShapes
    <2>. QED
      BY <2>2, <2>3, <2>4, <2>5 DEF RankShapes
  <1>2. InExchange'
    BY <1>0 DEF CubismInv, InExchange
  <1>3. Counted'
    <2>. SUFFICES ASSUME NEW q \in Proc PROVE syncs'[q] = Exchanged(Begun(q)')
      BY DEF Counted
    <2>1. syncs' = [syncs EXCEPT ![r] = @ + 1] /\ syncs = [s \in Proc |-> syncs[s]]
      BY DEF Sync, CubismInv, RankShapes
    <2>2. syncs[q] = Exchanged(Begun(q))
      BY DEF CubismInv, Counted
    <2>3. CASE q # r
      BY <1>0, <2>1, <2>2, <2>3
    <2>4. CASE q = r
      <3>1. stage[r] \in Nat \ {0} /\ stage[r] - 1 \in Int /\ stage[r] - 1 >= 0
            /\ (stage[r] - 1) - 1 = stage[r] - 2
        <4>1. stage[r] \in Nat \ {0}
          BY PlaceIs DEF CubismInv
        <4>. QED
          BY <4>1
      <3>2. Exchanged(stage[r] - 1) = Exchanged(stage[r] - 2) + 1
        BY <1>0, <3>1, ExchangedNext
      <3>. QED
        BY <1>0, <2>1, <2>2, <2>4, <3>2
    <2>. QED
      BY <2>3, <2>4
  <1>4. FieldsHeld'
    BY <1>0 DEF CubismInv, FieldsHeld
  <1>5. MessagesSent'
    BY SyncMessages
  <1>6. NeighborsBegun'
    <2>. SUFFICES ASSUME NEW q \in Proc, NEW c \in Remote[q], NEW j \in DOMAIN Stages,
                         Comm(j) # {}, j <= Completed(q)'
                  PROVE  j <= Begun(Neighbor(q, c))'
      BY DEF NeighborsBegun
    <2>1. j <= Completed(q) /\ Neighbor(q, c) \in Proc
      BY <1>0, RemoteBack
    <2>2. j <= Begun(Neighbor(q, c))
      BY <2>1 DEF CubismInv, NeighborsBegun
    <2>3. CASE Neighbor(q, c) = r
      <3>1. j \in Nat /\ stage[r] \in Nat
        BY PlaceIs, StagesAssumption DEF CubismInv
      <3>2. j <= stage[r] - 2
        BY <1>0, <2>2, <2>3
      <3>. QED
        BY <1>0, <2>3, <3>1, <3>2
    <2>4. CASE Neighbor(q, c) # r
      BY <1>0, <2>1, <2>2, <2>4
    <2>. QED
      BY <2>3, <2>4
  <1>. QED
    BY <1>1, <1>2, <1>3, <1>4, <1>5, <1>6 DEF CubismInv

LEMMA RunKeepsFields ==
  ASSUME RankShapes, FieldsHeld, NEW r \in Proc, stage[r] \in DOMAIN Stages,
         NEW blocks \in SUBSET LocalBlock, field' = [field EXCEPT ![r] = Run(r, blocks)],
         \A b \in blocks : Ran(r, b) = stage[r] - 1 /\ Ran(r, b)' = stage[r],
         \A b \in LocalBlock : b \notin blocks => Ran(r, b)' = Ran(r, b),
         \A q \in Proc, b \in LocalBlock : q # r => Ran(q, b)' = Ran(q, b)
  PROVE  FieldsHeld'
  <1>. SUFFICES ASSUME NEW q \in Proc, NEW f \in Field, NEW b \in LocalBlock
                PROVE  field'[q][f][b] = Held(f, Ran(q, b)')
    BY DEF FieldsHeld
  <1>1. field[q][f][b] = Held(f, Ran(q, b))
    BY DEF FieldsHeld
  <1>2. CASE q # r
    <2>1. field'[q] = field[q]
      BY <1>2 DEF RankShapes
    <2>. QED
      BY <1>1, <1>2, <2>1
  <1>3. CASE q = r
    <2>1. field'[r] = Run(r, blocks)
      BY DEF RankShapes
    <2>2. b \in blocks => field[r][f][b] = Held(f, stage[r] - 1)
      BY <1>1, <1>3
    <2>3. Run(r, blocks)[f][b] = IF b \in blocks THEN Held(f, stage[r]) ELSE field[r][f][b]
      BY <2>2, RunIs
    <2>. QED
      BY <1>1, <1>3, <2>1, <2>3
  <1>. QED
    BY <1>2, <1>3

LEMMA InnerKeeps ==
  ASSUME CubismInv, NEW r \in Proc, RunInner(r)
  PROVE  CubismInv'
  <1>0. /\ phase[r] = "inner" /\ phase' = [phase EXCEPT ![r] = "wait"]
        /\ stage' = stage /\ syncs' = syncs /\ ghost' = ghost /\ sent' = sent
        /\ field' = [field EXCEPT ![r] = Run(r, InnerBlocks[r])]
    BY DEF RunInner, Moves
  <1>1. /\ phase'[r] = "wait" /\ \A q \in Proc : q # r => phase'[q] = phase[q]
        /\ phase' \in [Proc -> {"begin", "inner", "wait", "halo"}]
    BY <1>0 DEF CubismInv, RankShapes
  <1>2. stage[r] \in DOMAIN Stages /\ Comm(stage[r] - 1) # {}
    <2>1. phase[r] # "begin"
      BY <1>0
    <2>. QED
      BY <2>1 DEF CubismInv, InExchange
  <1>3. \A q \in Proc : Begun(q)' = Begun(q) /\ Completed(q)' = Completed(q)
    BY <1>0, <1>1 DEF Begun, Completed
  <1>4. RankShapes'
    <2>1. field' = [q \in Proc |-> field'[q]]
      BY <1>0 DEF CubismInv, RankShapes
    <2>. QED
      BY <1>0, <1>1, <2>1 DEF CubismInv, RankShapes
  <1>5. InExchange'
    BY <1>0, <1>1, <1>2 DEF CubismInv, InExchange
  <1>6. Counted'
    BY <1>0, <1>3 DEF CubismInv, Counted
  <1>7. FieldsHeld'
    <2>1. InnerBlocks[r] \in SUBSET LocalBlock
      BY DEF InnerBlocks
    <2>2. \A b \in InnerBlocks[r] : Ran(r, b) = stage[r] - 1 /\ Ran(r, b)' = stage[r]
      BY <1>0, <1>1 DEF Ran
    <2>3. \A b \in LocalBlock : b \notin InnerBlocks[r] => Ran(r, b)' = Ran(r, b)
      BY <1>0, <1>1 DEF Ran
    <2>4. \A q \in Proc, b \in LocalBlock : q # r => Ran(q, b)' = Ran(q, b)
      BY <1>0, <1>1 DEF Ran
    <2>5. RankShapes /\ FieldsHeld
      BY DEF CubismInv
    <2>. QED
      BY <1>0, <1>2, <2>1, <2>2, <2>3, <2>4, <2>5, RunKeepsFields
  <1>8. MessagesSent' /\ NeighborsBegun'
    <2>1. MessagesSent /\ NeighborsBegun
      BY DEF CubismInv
    <2>. QED
      BY <1>0, <1>3, <2>1, NoExchange
  <1>. QED
    BY <1>4, <1>5, <1>6, <1>7, <1>8 DEF CubismInv

LEMMA HaloKeeps ==
  ASSUME CubismInv, NEW r \in Proc, RunHalo(r)
  PROVE  CubismInv'
  <1> DEFINE blocks == LocalBlock \ InnerBlocks[r]
  <1>0. /\ phase[r] = "halo" /\ phase' = [phase EXCEPT ![r] = "begin"]
        /\ stage' = [stage EXCEPT ![r] = @ + 1] /\ syncs' = syncs /\ ghost' = ghost /\ sent' = sent
        /\ field' = [field EXCEPT ![r] = Run(r, blocks)]
    BY DEF RunHalo, Moves
  <1>1. /\ phase'[r] = "begin" /\ \A q \in Proc : q # r => phase'[q] = phase[q]
        /\ phase' \in [Proc -> {"begin", "inner", "wait", "halo"}]
    BY <1>0 DEF CubismInv, RankShapes
  <1>2. stage[r] \in DOMAIN Stages
    <2>1. phase[r] # "begin"
      BY <1>0
    <2>. QED
      BY <2>1 DEF CubismInv, InExchange
  <1>3. /\ stage[r] \in Nat /\ stage[r] + 1 \in 1 .. Len(Stages) + 1
        /\ (stage[r] + 1) - 2 = stage[r] - 1 /\ (stage[r] + 1) - 1 = stage[r]
    BY <1>2, StagesAssumption
  <1>4. stage'[r] = stage[r] + 1 /\ \A q \in Proc : q # r => stage'[q] = stage[q]
    BY <1>0 DEF CubismInv, RankShapes
  <1>5. \A q \in Proc : Begun(q)' = Begun(q) /\ Completed(q)' = Completed(q)
    <2>. SUFFICES ASSUME NEW q \in Proc PROVE Begun(q)' = Begun(q) /\ Completed(q)' = Completed(q)
      OBVIOUS
    <2>1. CASE q # r
      BY <1>1, <1>4, <2>1 DEF Begun, Completed
    <2>2. CASE q = r
      <3>1. Begun(r)' = stage[r] - 1 /\ Completed(r)' = stage[r] - 1
        BY <1>1, <1>3, <1>4 DEF Begun, Completed
      <3>2. Begun(r) = stage[r] - 1 /\ Completed(r) = stage[r] - 1
        BY <1>0 DEF Begun, Completed
      <3>. QED
        BY <2>2, <3>1, <3>2
    <2>. QED
      BY <2>1, <2>2
  <1>6. RankShapes'
    <2>1. field' = [q \in Proc |-> field'[q]] /\ stage' \in [Proc -> 1 .. Len(Stages) + 1]
      BY <1>0, <1>3 DEF CubismInv, RankShapes
    <2>. QED
      BY <1>0, <1>1, <2>1 DEF CubismInv, RankShapes
  <1>7. InExchange'
    BY <1>1, <1>4 DEF CubismInv, InExchange
  <1>8. Counted'
    BY <1>0, <1>5 DEF CubismInv, Counted
  <1>9. FieldsHeld'
    <2>1. blocks \in SUBSET LocalBlock
      OBVIOUS
    <2>2. \A b \in blocks : Ran(r, b) = stage[r] - 1 /\ Ran(r, b)' = stage[r]
      BY <1>0, <1>1, <1>3, <1>4 DEF Ran
    <2>3. \A b \in LocalBlock : b \notin blocks => Ran(r, b)' = Ran(r, b)
      BY <1>0, <1>1, <1>3, <1>4 DEF Ran
    <2>4. \A q \in Proc, b \in LocalBlock : q # r => Ran(q, b)' = Ran(q, b)
      BY <1>0, <1>1, <1>4 DEF Ran
    <2>5. RankShapes /\ FieldsHeld
      BY DEF CubismInv
    <2>. HIDE DEF blocks
    <2>. QED
      BY <1>0, <1>2, <2>1, <2>2, <2>3, <2>4, <2>5, RunKeepsFields
  <1>10. MessagesSent' /\ NeighborsBegun'
    <2>1. MessagesSent /\ NeighborsBegun
      BY DEF CubismInv
    <2>. QED
      BY <1>0, <1>5, <2>1, NoExchange
  <1>. QED
    BY <1>6, <1>7, <1>8, <1>9, <1>10 DEF CubismInv

LEMMA AllKeeps ==
  ASSUME CubismInv, NEW r \in Proc, RunAll(r)
  PROVE  CubismInv'
  <1>0. /\ phase[r] = "begin" /\ phase' = phase /\ stage[r] \in DOMAIN Stages
        /\ stage' = [stage EXCEPT ![r] = @ + 1] /\ syncs' = syncs /\ ghost' = ghost /\ sent' = sent
        /\ field' = [field EXCEPT ![r] = Run(r, LocalBlock)] /\ Comm(stage[r] - 1) = {}
    BY DEF RunAll, Running
  <1>1. /\ stage[r] \in Nat \ {0} /\ stage[r] + 1 \in 1 .. Len(Stages) + 1
        /\ (stage[r] + 1) - 2 = stage[r] - 1 /\ (stage[r] + 1) - 1 = stage[r]
        /\ (stage[r] - 1) - 1 = stage[r] - 2 /\ stage[r] - 1 >= 0
    <2>1. stage[r] \in 1 .. Len(Stages) /\ Len(Stages) \in Nat
      BY <1>0, StagesAssumption
    <2>. QED
      BY <2>1
  <1>2. stage'[r] = stage[r] + 1 /\ \A q \in Proc : q # r => stage'[q] = stage[q]
    BY <1>0 DEF CubismInv, RankShapes
  <1>3. /\ Begun(r) = stage[r] - 2 /\ Begun(r)' = stage[r] - 1
        /\ Completed(r) = stage[r] - 2 /\ Completed(r)' = stage[r] - 1
    BY <1>0, <1>1, <1>2 DEF Begun, Completed
  <1>4. \A q \in Proc : q # r => Begun(q)' = Begun(q) /\ Completed(q)' = Completed(q)
    BY <1>0, <1>2 DEF Begun, Completed
  <1>5. RankShapes'
    <2>1. field' = [q \in Proc |-> field'[q]] /\ stage' \in [Proc -> 1 .. Len(Stages) + 1]
      BY <1>0, <1>1 DEF CubismInv, RankShapes
    <2>. QED
      BY <1>0, <2>1 DEF CubismInv, RankShapes
  <1>6. InExchange'
    BY <1>0, <1>2 DEF CubismInv, InExchange
  <1>7. Counted'
    <2>. SUFFICES ASSUME NEW q \in Proc PROVE syncs'[q] = Exchanged(Begun(q)')
      BY DEF Counted
    <2>1. syncs[q] = Exchanged(Begun(q))
      BY DEF CubismInv, Counted
    <2>2. Exchanged(stage[r] - 1) = Exchanged(stage[r] - 2)
      <3>1. Exchanged(stage[r] - 1) = Exchanged((stage[r] - 1) - 1)
        <4>1. stage[r] - 1 \in Int
          BY <1>1
        <4>. QED
          BY <1>0, <1>1, <4>1, ExchangedNext
      <3>. QED
        BY <1>1, <3>1
    <2>. QED
      BY <1>0, <1>3, <1>4, <2>1, <2>2
  <1>8. FieldsHeld'
    <2>1. \A b \in LocalBlock : Ran(r, b) = stage[r] - 1 /\ Ran(r, b)' = stage[r]
      BY <1>0, <1>1, <1>2 DEF Ran
    <2>2. \A q \in Proc, b \in LocalBlock : q # r => Ran(q, b)' = Ran(q, b)
      BY <1>0, <1>2 DEF Ran
    <2>3. RankShapes /\ FieldsHeld
      BY DEF CubismInv
    <2>. QED
      BY <1>0, <2>1, <2>2, <2>3, RunKeepsFields
  <1>9. MessagesSent' /\ NeighborsBegun'
    <2>1. MessagesSent /\ NeighborsBegun
      BY DEF CubismInv
    <2>2. ASSUME NEW q \in Proc, NEW i \in DOMAIN Stages, Comm(i) # {}
          PROVE  /\ i <= Begun(q)' <=> i <= Begun(q)
                 /\ Completed(q)' < i <=> Completed(q) < i
                 /\ i <= Completed(q)' <=> i <= Completed(q)
      <3>1. i # stage[r] - 1 /\ i \in Nat
        BY <1>0, <2>2, StagesAssumption
      <3>2. /\ i <= stage[r] - 1 <=> i <= stage[r] - 2
            /\ stage[r] - 1 < i <=> stage[r] - 2 < i
        <4>1. ASSUME NEW n \in Nat, NEW j \in Nat, j # n - 1
              PROVE  (j <= n - 1 <=> j <= n - 2) /\ (n - 1 < j <=> n - 2 < j)
          BY <4>1
        <4>2. stage[r] \in Nat
          BY <1>1
        <4>. QED
          BY <3>1, <4>1, <4>2
      <3>. QED
        BY <1>3, <1>4, <3>2
    <2>. QED
      BY <1>0, <2>1, <2>2, NoExchange
  <1>. QED
    BY <1>5, <1>6, <1>7, <1>8, <1>9 DEF CubismInv

\* Where the ranks are after a step of rank r that completes an exchange.
LEMMA AvailPlace ==
  ASSUME CubismInv, NEW r \in Proc, AvailHalo(r)
  PROVE  /\ phase[r] = "wait" /\ phase'[r] = "halo" /\ stage' = stage /\ field' = field
         /\ stage[r] \in DOMAIN Stages /\ stage[r] - 1 \in DOMAIN Stages
         /\ Comm(stage[r] - 1) # {} /\ Comm(stage[r] - 1) \subseteq Field
         /\ Completed(r) = stage[r] - 2 /\ Completed(r)' = stage[r] - 1
         /\ \A q \in Proc : q # r => phase'[q] = phase[q] /\ Completed(q)' = Completed(q)
         /\ \A q \in Proc : Begun(q)' = Begun(q)
         /\ \A q \in Proc, b \in LocalBlock : Ran(q, b)' = Ran(q, b)
  <1>1. /\ phase[r] = "wait" /\ phase' = [phase EXCEPT ![r] = "halo"]
        /\ stage' = stage /\ field' = field
    BY DEF AvailHalo, Moves
  <1>2. /\ phase'[r] = "halo" /\ \A q \in Proc : q # r => phase'[q] = phase[q]
    BY <1>1 DEF CubismInv, RankShapes
  <1>3. stage[r] \in DOMAIN Stages /\ Comm(stage[r] - 1) # {}
    <2>1. phase[r] # "begin"
      BY <1>1
    <2>. QED
      BY <2>1 DEF CubismInv, InExchange
  <1>4. stage[r] - 1 \in DOMAIN Stages /\ Comm(stage[r] - 1) \subseteq Field
    BY <1>3, AskedBy DEF CubismInv
  <1>5. Completed(r) = stage[r] - 2 /\ Completed(r)' = stage[r] - 1
    BY <1>1, <1>2 DEF Completed
  <1>6. \A q \in Proc : q # r => Completed(q)' = Completed(q)
    BY <1>1, <1>2 DEF Completed
  <1>7. \A q \in Proc : Begun(q)' = Begun(q)
    BY <1>1, <1>2 DEF Begun
  <1>8. \A q \in Proc, b \in LocalBlock : Ran(q, b)' = Ran(q, b)
    BY <1>1, <1>2 DEF Ran
  <1>. QED
    BY <1>1, <1>2, <1>3, <1>4, <1>5, <1>6, <1>7, <1>8

\* The receives of an exchange match all its messages from a neighbour.
LEMMA MatchedIs ==
  ASSUME CubismMesh, CubismInv, NEW r \in Proc, AvailHalo(r), NEW s \in Proc
  PROVE  Matched(r, s) = {HaloMessage(s, stage[r] - 1, d) : d \in Towards(s, r)}
  <1> DEFINE i == stage[r] - 1
             From == {e \in Remote[r] : Neighbor(r, e) = s}
  <1>1. ASSUME NEW c \in From PROVE Matches(r, c) = {HaloMessage(s, i, Opposite(c))}
    <2>1. c \in Remote[r] /\ Neighbor(r, c) = s
      OBVIOUS
    <2>2. phase[r] = "wait" /\ Matches(r, c) # {}
      BY <2>1 DEF AvailHalo, Moves
    <2>. QED
      BY <2>1, <2>2, MatchIs
  <1>2. ASSUME NEW c \in From PROVE Opposite(c) \in Towards(s, r)
    <2>1. c \in Remote[r] /\ Neighbor(r, c) = s
      OBVIOUS
    <2>. QED
      BY <2>1, RemoteBack DEF Towards
  <1>3. ASSUME NEW d \in Towards(s, r) PROVE Opposite(d) \in From /\ Opposite(Opposite(d)) = d
    <2>1. d \in Remote[s] /\ Neighbor(s, d) = r
      BY DEF Towards
    <2>. QED
      BY <2>1, RemoteBack, OppositeIs
  <1>4. Matched(r, s) = UNION {Matches(r, c) : c \in From}
    BY DEF Matched
  <1>. HIDE DEF From, i
  <1>5. ASSUME NEW m \in Matched(r, s) PROVE \E d \in Towards(s, r) : m = HaloMessage(s, i, d)
    <2>1. PICK c \in From : m \in Matches(r, c)
      BY <1>4
    <2>. QED
      BY <1>1, <1>2, <2>1
  <1>6. ASSUME NEW d \in Towards(s, r) PROVE HaloMessage(s, i, d) \in Matched(r, s)
    <2>1. HaloMessage(s, i, d) \in Matches(r, Opposite(d)) /\ Opposite(d) \in From
      BY <1>1, <1>3
    <2>. QED
      BY <1>4, <2>1
  <1>. QED
    BY <1>5, <1>6 DEF i

LEMMA AvailMessages ==
  ASSUME CubismMesh, CubismInv, NEW r \in Proc, AvailHalo(r)
  PROVE  MessagesSent'
  <1> DEFINE i == stage[r] - 1
  <1>1. sent = [s \in Proc |-> [q \in Proc |-> sent[s][q]]]
    BY DEF CubismInv, RankShapes
  <1>2. \A s \in Proc : sent'[s][r] = sent[s][r] \ Matched(r, s)
    BY <1>1 DEF AvailHalo
  <1>3. \A s, q \in Proc : q # r => sent'[s][q] = sent[s][q]
    BY <1>1 DEF AvailHalo
  <1>4. /\ i \in DOMAIN Stages /\ Comm(i) # {} /\ i \in Nat
        /\ Completed(r) = i - 1 /\ Completed(r)' = i
        /\ \A q \in Proc : q # r => Completed(q)' = Completed(q)
        /\ \A q \in Proc : Begun(q)' = Begun(q)
    <2>1. stage[r] - 1 \in DOMAIN Stages /\ stage[r] \in Nat
      BY AvailPlace, PlaceIs DEF CubismInv
    <2>. QED
      BY <2>1, AvailPlace, StagesAssumption
  <1>5. \A s \in Proc : Matched(r, s) = {HaloMessage(s, i, d) : d \in Towards(s, r)}
    BY MatchedIs
  <1>. HIDE DEF i
  <1>. SUFFICES ASSUME NEW s \in Proc, NEW q \in Proc
                PROVE  sent'[s][q] = {HaloMessage(s, j, c) : j \in OnTheWay(s, q)', c \in Towards(s, q)}
    BY DEF MessagesSent
  <1>6. sent[s][q] = {HaloMessage(s, j, c) : j \in OnTheWay(s, q), c \in Towards(s, q)}
    BY DEF CubismInv, MessagesSent
  <1>7. CASE q # r
    <2>1. OnTheWay(s, q)' = OnTheWay(s, q)
      BY <1>4, <1>7 DEF OnTheWay
    <2>. QED
      BY <1>3, <1>6, <1>7, <2>1
  <1>8. CASE q = r
    <2>1. \A j : j \in OnTheWay(s, r)' <=> j \in OnTheWay(s, r) /\ j # i
      <3>1. \A j \in DOMAIN Stages : i < j <=> i - 1 < j /\ j # i
        BY <1>4, StagesAssumption
      <3>. QED
        BY <1>4, <3>1 DEF OnTheWay
    <2>2. ASSUME NEW j \in OnTheWay(s, r), j # i, NEW c \in Towards(s, r)
          PROVE  HaloMessage(s, j, c) \notin Matched(r, s)
      <3>. SUFFICES ASSUME NEW d \in Towards(s, r), HaloMessage(s, j, c) = HaloMessage(s, i, d)
                    PROVE  FALSE
        BY <1>5
      <3>1. j \in DOMAIN Stages /\ i < j /\ j \in Nat
        <4>1. j \in DOMAIN Stages /\ i - 1 < j
          BY <1>4 DEF OnTheWay
        <4>. QED
          BY <1>4, <2>2, <4>1, StagesAssumption
      <3>2. c \in Dir /\ d \in Dir
        BY DEF Towards, Remote
      <3>3. HaloMessage(s, i, d).at < HaloMessage(s, j, c).at
        BY <1>4, <3>1, <3>2, HaloMessageLater
      <3>4. HaloMessage(s, i, d).at \in Int
        <4>1. /\ HaloMessage(s, i, d).at = 4 * Exchanged(i - 1) + nnz(d)
              /\ nnz(d) \in 1 .. 3 /\ Exchanged(i - 1) \in Nat
          BY <1>4, <3>2, HaloMessageIs
        <4>. QED
          BY <4>1
      <3>. QED
        BY <3>3, <3>4
    <2>3. ASSUME NEW m
          PROVE  m \in sent'[s][r] <=>
                   \E j \in OnTheWay(s, r)' : \E c \in Towards(s, r) : m = HaloMessage(s, j, c)
      <3>1. m \in sent[s][r] <=> \E j \in OnTheWay(s, r) : \E c \in Towards(s, r) : m = HaloMessage(s, j, c)
        BY <1>6, <1>8
      <3>2. m \in Matched(r, s) <=> \E d \in Towards(s, r) : m = HaloMessage(s, i, d)
        BY <1>5
      <3>3. m \in sent'[s][r] <=> m \in sent[s][r] /\ m \notin Matched(r, s)
        BY <1>2
      <3>. QED
        BY <2>1, <2>2, <3>1, <3>2, <3>3
    <2>. QED
      BY <1>8, <2>3
  <1>. QED
    BY <1>7, <1>8

LEMMA AvailKeeps ==
  ASSUME CubismMesh, CubismInv, NEW r \in Proc, AvailHalo(r)
  PROVE  CubismInv'
  <1>0. /\ phase[r] = "wait" /\ phase'[r] = "halo" /\ stage' = stage /\ field' = field
        /\ stage[r] \in DOMAIN Stages /\ Comm(stage[r] - 1) # {}
        /\ Completed(r) = stage[r] - 2 /\ Completed(r)' = stage[r] - 1
        /\ \A q \in Proc : q # r => phase'[q] = phase[q] /\ Completed(q)' = Completed(q)
        /\ \A q \in Proc : Begun(q)' = Begun(q)
        /\ \A q \in Proc, b \in LocalBlock : Ran(q, b)' = Ran(q, b)
    BY AvailPlace
  <1>1. RankShapes'
    <2>1. phase' = [phase EXCEPT ![r] = "halo"] /\ syncs' = syncs
      BY DEF AvailHalo, Moves
    <2>2. phase' \in [Proc -> {"begin", "inner", "wait", "halo"}]
      BY <2>1 DEF CubismInv, RankShapes
    <2>3. ghost' = [q \in Proc |-> ghost'[q]]
      BY DEF AvailHalo, CubismInv, RankShapes
    <2>4. sent' = [s \in Proc |-> [q \in Proc |-> sent'[s][q]]]
      <3>1. sent = [s \in Proc |-> [q \in Proc |-> sent[s][q]]]
        BY DEF CubismInv, RankShapes
      <3>. QED
        BY <3>1 DEF AvailHalo
    <2>5. /\ stage' \in [Proc -> 1 .. Len(Stages) + 1] /\ field' = [q \in Proc |-> field'[q]]
          /\ syncs' = [q \in Proc |-> syncs'[q]]
      BY <1>0, <2>1 DEF CubismInv, RankShapes
    <2>. QED
      BY <2>2, <2>3, <2>4, <2>5 DEF RankShapes
  <1>2. InExchange'
    BY <1>0 DEF CubismInv, InExchange
  <1>3. Counted'
    BY <1>0 DEF AvailHalo, CubismInv, Counted
  <1>4. FieldsHeld'
    BY <1>0 DEF CubismInv, FieldsHeld
  <1>5. MessagesSent'
    BY AvailMessages
  <1>6. NeighborsBegun'
    <2>. SUFFICES ASSUME NEW q \in Proc, NEW c \in Remote[q], NEW j \in DOMAIN Stages,
                         Comm(j) # {}, j <= Completed(q)'
                  PROVE  j <= Begun(Neighbor(q, c))
      BY <1>0, RemoteBack DEF NeighborsBegun
    <2>1. CASE j <= Completed(q)
      BY <2>1 DEF CubismInv, NeighborsBegun
    <2>2. CASE q = r /\ j = stage[r] - 1
      <3>1. Matches(r, c) # {}
        BY <2>2 DEF AvailHalo
      <3>. QED
        BY <1>0, <2>2, <3>1, MatchIs
    <2>3. j <= Completed(q) \/ (q = r /\ j = stage[r] - 1)
      <3>1. j \in Nat /\ stage[r] \in Nat
        BY PlaceIs, StagesAssumption DEF CubismInv
      <3>2. CASE q # r
        BY <1>0, <3>2
      <3>3. CASE q = r
        BY <1>0, <3>1, <3>3
      <3>. QED
        BY <3>2, <3>3
    <2>. QED
      BY <2>1, <2>2, <2>3
  <1>. QED
    BY <1>1, <1>2, <1>3, <1>4, <1>5, <1>6 DEF CubismInv

\* Every step keeps the invariant.
LEMMA CubismKept ==
  ASSUME CubismMesh, CubismInv, [CubismNext]_cubismVars
  PROVE  CubismInv'
  <1>1. ASSUME NEW r \in Proc, CubismStep(r) PROVE CubismInv'
    <2>1. CASE Sync(r)
      BY <2>1, SyncKeeps
    <2>2. CASE RunInner(r)
      BY <2>2, InnerKeeps
    <2>3. CASE AvailHalo(r)
      BY <2>3, AvailKeeps
    <2>4. CASE RunHalo(r)
      BY <2>4, HaloKeeps
    <2>5. CASE RunAll(r)
      BY <2>5, AllKeeps
    <2>. QED
      BY <1>1, <2>1, <2>2, <2>3, <2>4, <2>5 DEF CubismStep
  <1>2. CASE AllFinished \/ UNCHANGED cubismVars
    BY <1>2, CubismStutters DEF AllFinished
  <1>. QED
    BY <1>1, <1>2 DEF CubismNext

-----------------------------------------------------------------------------
(***************************************************************************)
(* What the labs hold.                                                     *)
(***************************************************************************)
\* What is asked for is there, and no stage changes what the other blocks of the rank
\* still load for it.
LEMMA StillHeld ==
  ASSUME Separate, Present, CubismInv, NEW r \in Proc, stage[r] \in DOMAIN Stages,
         NEW f \in Comm(stage[r] - 1), NEW b \in LocalBlock
  PROVE  /\ Held(f, stage[r] - 1) = Written(f, stage[r] - 1)
         /\ field[r][f][b] = Written(f, stage[r] - 1)
  <1> DEFINE k == stage[r] - 1
  <1>1. k \in DOMAIN Stages /\ Comm(k) = Stages[k].comm /\ f \in Field
    <2>1. RankShapes /\ Comm(stage[r] - 1) # {}
      BY DEF CubismInv
    <2>. QED
      BY <2>1, AskedBy
  <1>2. Held(f, k) = Written(f, k)
    BY <1>1, HeldWritten
  <1>3. Held(f, stage[r]) = Held(f, k)
    <2>1. k \in 1 .. Len(Stages) - 1 /\ k + 1 = stage[r]
      <3>1. stage[r] \in 1 .. Len(Stages) /\ k \in 1 .. Len(Stages) /\ Len(Stages) \in Nat
        BY <1>1, StagesAssumption
      <3>. QED
        BY <3>1
    <2>. HIDE DEF k
    <2>2. f \notin Stages[stage[r]].writes /\ f \notin Stages[stage[r]].frees
      BY <1>1, <2>1 DEF Separate
    <2>. QED
      BY <2>2, HeldNext DEF k
  <1>4. field[r][f][b] = Held(f, Ran(r, b))
    BY <1>1 DEF CubismInv, FieldsHeld
  <1>5. Ran(r, b) = stage[r] \/ Ran(r, b) = k
    BY DEF Ran
  <1>. QED
    BY <1>2, <1>3, <1>4, <1>5

\* What a block loads from the rank.
LEMMA LocalFresh ==
  ASSUME CubismMesh, Separate, Present, CubismInv, NEW r \in Proc, stage[r] \in DOMAIN Stages,
         NEW f \in Comm(stage[r] - 1), NEW b \in LocalBlock, NEW c \in Dir,
         Outward(b, c) \notin Remote[r]
  PROVE  Local(r, f, b, c) =
           [block |-> GetPeriodic(Plus(Global(r, b), c)), written |-> Written(f, stage[r] - 1)]
  <1>1. Beyond(b, c) \in LocalBlock /\ Neighbor(r, Outward(b, c)) = r
    BY OutwardIs
  <1>2. GetPeriodic(Plus(Global(r, b), c)) = Global(r, Beyond(b, c))
    BY <1>1, OutwardIs
  <1>3. field[r][f][Beyond(b, c)] = Written(f, stage[r] - 1)
    BY <1>1, StillHeld
  <1>4. Local(r, f, b, c) = Datum(r, f, Beyond(b, c))
    BY DEF Local, Beyond
  <1>. QED
    BY <1>2, <1>3, <1>4 DEF Datum

\* What a block loads from a message.
LEMMA RemoteFresh ==
  ASSUME CubismMesh, Separate, Present, CubismInv, NEW r \in Proc, AvailHalo(r),
         NEW f \in Comm(stage[r] - 1), NEW b \in LocalBlock, NEW c \in Dir,
         Outward(b, c) \in Remote[r]
  PROVE  LET m == CHOOSE m \in Matches(r, Outward(b, c)) : TRUE
         IN /\ f \in DOMAIN m.data
            /\ m.data[f][Beyond(b, c)] =
                 [block |-> GetPeriodic(Plus(Global(r, b), c)), written |-> Written(f, stage[r] - 1)]
  <1> DEFINE out == Outward(b, c)
             s == Neighbor(r, out)
             i == stage[r] - 1
             m == CHOOSE m \in Matches(r, out) : TRUE
  <1>1. m = HaloMessage(s, i, Opposite(out))
    <2>1. phase[r] = "wait" /\ Matches(r, out) # {}
      BY DEF AvailHalo, Moves
    <2>2. Matches(r, out) = {HaloMessage(s, i, Opposite(out))}
      BY <2>1, MatchIs
    <2>. HIDE DEF out, s, i
    <2>. QED
      BY <2>2
  <1>2. /\ Beyond(b, c) \in Side[Opposite(out)]
        /\ GetPeriodic(Plus(Global(r, b), c)) = Global(s, Beyond(b, c))
    BY OutwardIs
  <1>3. Held(f, i) = Written(f, i)
    <2>1. stage[r] \in DOMAIN Stages
      BY AvailPlace
    <2>. QED
      BY <2>1, StillHeld, OutwardIs
  <1>. HIDE DEF out, s, i, m
  <1>4. f \in Comm(i)
    BY DEF i
  <1>5. m.data = [g \in Comm(i) |-> [a \in Side[Opposite(out)] |->
                    [block |-> Global(s, a), written |-> Held(g, i)]]]
    BY <1>1 DEF HaloMessage
  <1>6. f \in DOMAIN m.data
    BY <1>4, <1>5
  <1>7. m.data[f][Beyond(b, c)] = [block |-> Global(s, Beyond(b, c)), written |-> Held(f, i)]
    BY <1>2, <1>4, <1>5
  <1>8. m.data[f][Beyond(b, c)] =
          [block |-> GetPeriodic(Plus(Global(r, b), c)), written |-> Written(f, i)]
    BY <1>2, <1>3, <1>7
  <1>. QED
    BY <1>6, <1>8 DEF out, i, m

\* A rank that keeps its place and its labs.
LEMMA LabsKept ==
  ASSUME NEW q \in Proc, phase'[q] = phase[q], stage'[q] = stage[q], ghost'[q] = ghost[q]
  PROVE  /\ Fresh(q, InnerBlocks[q])' <=> Fresh(q, InnerBlocks[q])
         /\ Fresh(q, LocalBlock \ InnerBlocks[q])' <=> Fresh(q, LocalBlock \ InnerBlocks[q])
  BY DEF Fresh

LEMMA LabsAfterSync ==
  ASSUME CubismMesh, Separate, Present, CubismInv, NEW r \in Proc, Sync(r)
  PROVE  Fresh(r, InnerBlocks[r])'
  <1>1. stage' = stage /\ stage[r] \in DOMAIN Stages
    BY SyncPlace
  <1>2. ghost'[r] = Loaded(r, InnerBlocks[r], <<>>)
    BY DEF Sync, CubismInv, RankShapes
  <1>. SUFFICES ASSUME NEW f \in Comm(stage[r] - 1), NEW b \in InnerBlocks[r], NEW c \in Dir
                PROVE  ghost'[r][f][b][c] =
                         [block |-> GetPeriodic(Plus(Global(r, b), c)),
                          written |-> Written(f, stage[r] - 1)]
    BY <1>1 DEF Fresh
  <1>3. b \in LocalBlock /\ Needs(r, b) = {} /\ f \in Field
    <2>1. Comm(stage[r] - 1) \subseteq Field
      BY SyncPlace
    <2>. QED
      BY <2>1 DEF InnerBlocks
  <1>4. Outward(b, c) \notin Remote[r]
    BY <1>3, OutwardIs DEF Needs
  <1>5. ghost'[r][f][b][c] = Received(r, f, b, c, <<>>)
    BY <1>2, <1>3 DEF Loaded
  <1>6. Received(r, f, b, c, <<>>) = Local(r, f, b, c)
    BY <1>4 DEF Received
  <1>. QED
    BY <1>1, <1>3, <1>4, <1>5, <1>6, LocalFresh

LEMMA LabsAfterAvail ==
  ASSUME CubismMesh, Separate, Present, CubismInv, NEW r \in Proc, AvailHalo(r)
  PROVE  Fresh(r, LocalBlock \ InnerBlocks[r])'
  <1> DEFINE blocks == LocalBlock \ InnerBlocks[r]
             messages == [e \in Remote[r] |-> (CHOOSE m \in Matches(r, e) : TRUE).data]
  <1>1. stage' = stage /\ stage[r] \in DOMAIN Stages
    BY AvailPlace
  <1>2. ghost'[r] = Loaded(r, blocks, messages)
    BY DEF AvailHalo, CubismInv, RankShapes
  <1>. SUFFICES ASSUME NEW f \in Comm(stage[r] - 1), NEW b \in blocks, NEW c \in Dir
                PROVE  ghost'[r][f][b][c] =
                         [block |-> GetPeriodic(Plus(Global(r, b), c)),
                          written |-> Written(f, stage[r] - 1)]
    BY <1>1 DEF Fresh
  <1>3. b \in LocalBlock /\ f \in Field
    <2>1. Comm(stage[r] - 1) \subseteq Field
      BY AvailPlace
    <2>. QED
      BY <2>1
  <1>4. ghost'[r][f][b][c] = Received(r, f, b, c, messages)
    <2>. HIDE DEF messages
    <2>. QED
      BY <1>2, <1>3 DEF Loaded
  <1>5. CASE Outward(b, c) \notin Remote[r]
    <2>. HIDE DEF messages
    <2>1. Received(r, f, b, c, messages) = Local(r, f, b, c)
      BY <1>5 DEF Received
    <2>. QED
      BY <1>1, <1>3, <1>4, <1>5, <2>1, LocalFresh
  <1>6. CASE Outward(b, c) \in Remote[r]
    <2> DEFINE m == CHOOSE m \in Matches(r, Outward(b, c)) : TRUE
               out == Outward(b, c)
    <2>1. /\ f \in DOMAIN m.data
          /\ m.data[f][Beyond(b, c)] =
               [block |-> GetPeriodic(Plus(Global(r, b), c)), written |-> Written(f, stage[r] - 1)]
      BY <1>3, <1>6, RemoteFresh
    <2>2. out \in DOMAIN messages /\ messages[out] = m.data
      BY <1>6
    <2>3. Received(r, f, b, c, messages) =
            IF out \notin Remote[r] THEN Local(r, f, b, c)
            ELSE IF out \notin DOMAIN messages \/ f \notin DOMAIN messages[out] THEN NotLoaded
            ELSE messages[out][f][Beyond(b, c)]
      BY DEF Received, Beyond
    <2>. HIDE DEF messages, m, out
    <2>4. out \in Remote[r]
      BY <1>6 DEF out
    <2>. QED
      BY <1>4, <2>1, <2>2, <2>3, <2>4
  <1>. QED
    BY <1>5, <1>6

LEMMA LabsStep ==
  ASSUME CubismMesh, Separate, Present, CubismInv, LabsCurrent, [CubismNext]_cubismVars
  PROVE  LabsCurrent'
  <1>. SUFFICES ASSUME NEW q \in Proc
                PROVE  /\ phase'[q] = "inner" => Fresh(q, InnerBlocks[q])'
                       /\ phase'[q] = "halo" => Fresh(q, LocalBlock \ InnerBlocks[q])'
    BY DEF LabsCurrent
  <1>0. /\ phase[q] = "inner" => Fresh(q, InnerBlocks[q])
        /\ phase[q] = "halo" => Fresh(q, LocalBlock \ InnerBlocks[q])
    BY DEF LabsCurrent
  <1>1. CASE phase'[q] = phase[q] /\ stage'[q] = stage[q] /\ ghost'[q] = ghost[q]
    BY <1>0, <1>1, LabsKept
  <1>2. ASSUME NEW r \in Proc, CubismStep(r), q # r
        PROVE  phase'[q] = phase[q] /\ stage'[q] = stage[q] /\ ghost'[q] = ghost[q]
    BY <1>2 DEF CubismInv, RankShapes, CubismStep, Sync, RunInner, AvailHalo, RunHalo, RunAll, Moves
  <1>3. CASE CubismStep(q)
    <2>1. CASE Sync(q)
      BY <2>1, SyncPlace, LabsAfterSync
    <2>2. CASE RunInner(q)
      <3>1. phase'[q] = "wait"
        BY <2>2 DEF RunInner, Moves, CubismInv, RankShapes
      <3>. QED
        BY <3>1
    <2>3. CASE AvailHalo(q)
      BY <2>3, AvailPlace, LabsAfterAvail
    <2>4. CASE RunHalo(q)
      <3>1. phase'[q] = "begin"
        BY <2>4 DEF RunHalo, Moves, CubismInv, RankShapes
      <3>. QED
        BY <3>1
    <2>5. CASE RunAll(q)
      <3>1. phase'[q] = "begin"
        BY <2>5 DEF RunAll
      <3>. QED
        BY <3>1
    <2>. QED
      BY <1>3, <2>1, <2>2, <2>3, <2>4, <2>5 DEF CubismStep
  <1>4. CASE AllFinished \/ UNCHANGED cubismVars
    BY <1>1, <1>4 DEF AllFinished, cubismVars
  <1>. QED
    BY <1>1, <1>2, <1>3, <1>4 DEF CubismNext

-----------------------------------------------------------------------------
LEMMA CubismInvIsInvariant ==
  ASSUME CubismMesh
  PROVE  CubismSpec => []CubismInv
  <1>1. CubismInit => CubismInv
    BY CubismInitial
  <1>2. CubismInv /\ [CubismNext]_cubismVars => CubismInv'
    BY CubismKept
  <1>. QED
    BY <1>1, <1>2, PTL DEF CubismSpec

\* The ranks are in step: each is in one stage and has begun no more exchanges than it
\* has finished stages, and its fields hold the numbers of stages.
THEOREM CubismTypeCorrect ==
  ASSUME CubismMesh
  PROVE  CubismSpec => []CubismTypeOK
  <1>1. CubismInv => CubismTypeOK
    <2>. SUFFICES ASSUME CubismInv PROVE CubismTypeOK
      OBVIOUS
    <2>1. ASSUME NEW r \in Proc PROVE syncs[r] < stage[r]
      <3>1. syncs[r] = Exchanged(Begun(r))
        BY DEF CubismInv, Counted
      <3>2. stage[r] \in Nat \ {0} /\ Begun(r) \in Int /\ Begun(r) <= stage[r] - 1
        <4>1. stage[r] \in Nat \ {0}
          BY PlaceIs DEF CubismInv
        <4>. QED
          BY <4>1 DEF Begun
      <3>3. /\ Exchanged(Begun(r)) \in Nat
            /\ Begun(r) <= 0 => Exchanged(Begun(r)) = 0
            /\ Begun(r) >= 0 => Exchanged(Begun(r)) <= Begun(r)
        BY <3>2, ExchangedIs
      <3>. QED
        BY <3>1, <3>2, <3>3
    <2>2. ASSUME NEW r \in Proc, NEW f \in Field, NEW b \in LocalBlock
          PROVE  field[r][f][b] \in 0 .. Len(Stages) \cup {Freed}
      <3>1. Ran(r, b) \in 0 .. Len(Stages)
        <4>1. stage[r] \in 1 .. Len(Stages) + 1 /\ Len(Stages) \in Nat
          BY StagesAssumption DEF CubismInv, RankShapes
        <4>2. phase[r] \in {"wait", "halo"} => stage[r] \in 1 .. Len(Stages)
          BY StagesAssumption DEF CubismInv, InExchange
        <4>. QED
          BY <4>1, <4>2 DEF Ran
      <3>2. Held(f, Ran(r, b)) \in 0 .. Ran(r, b) \cup {0, Freed}
        BY <3>1, HeldIs
      <3>3. 0 .. Ran(r, b) \cup {0} \subseteq 0 .. Len(Stages)
        BY <3>1, StagesAssumption
      <3>4. field[r][f][b] = Held(f, Ran(r, b))
        BY DEF CubismInv, FieldsHeld
      <3>. QED
        BY <3>2, <3>3, <3>4
    <2>. QED
      BY <2>1, <2>2 DEF CubismTypeOK, CubismInv, RankShapes
  <1>. QED
    BY <1>1, CubismInvIsInvariant, PTL

\* A rank that has everything it waited for leaves no message of that exchange behind:
\* MPI cannot match one with a receive of the next exchange, whose tags may be the same.
THEOREM NoMessageLeft ==
  ASSUME CubismMesh
  PROVE  CubismSpec => []NothingLeft
  <1>1. CubismInv => NothingLeft
    <2>. SUFFICES ASSUME CubismInv, NEW s \in Proc, NEW r \in Proc,
                         phase[r] = "halo", NEW m \in sent[s][r]
                  PROVE  m.at > 4 * syncs[r]
      BY DEF NothingLeft
    <2> DEFINE i == stage[r] - 1
    <2>1. i \in DOMAIN Stages /\ Comm(i) # {}
      <3>1. phase[r] # "begin"
        OBVIOUS
      <3>2. Comm(i) # {} /\ RankShapes
        BY <3>1 DEF CubismInv, InExchange
      <3>. QED
        BY <3>2, AskedBy
    <2>2. Begun(r) = i /\ Completed(r) = i
      BY DEF Begun, Completed
    <2>. HIDE DEF i
    <2>3. syncs[r] = Exchanged(i)
      BY <2>2 DEF CubismInv, Counted
    <2>4. i \in Nat /\ Exchanged(i) = Exchanged(i - 1) + 1 /\ Exchanged(i - 1) \in Nat
      <3>1. i \in Nat
        BY <2>1, StagesAssumption
      <3>. QED
        BY <2>1, <3>1, ExchangedNext, ExchangedIs
    <2>5. PICK j \in OnTheWay(s, r), c \in Towards(s, r) : m = HaloMessage(s, j, c)
      BY DEF CubismInv, MessagesSent
    <2>6. j \in DOMAIN Stages /\ i < j /\ c \in Dir
      BY <2>2 DEF OnTheWay, Towards, Remote
    <2>7. 4 * Exchanged(i - 1) + 4 < m.at
      BY <2>1, <2>5, <2>6, HaloMessageLater
    <2>8. m.at \in Int
      <3>1. m.at = 4 * Exchanged(j - 1) + nnz(c) /\ nnz(c) \in 1 .. 3 /\ Exchanged(j - 1) \in Nat
        BY <2>5, <2>6, HaloMessageIs
      <3>. QED
        BY <3>1
    <2>. QED
      BY <2>3, <2>4, <2>7, <2>8
  <1>. QED
    BY <1>1, CubismInvIsInvariant, PTL

\* What each block loads before it runs a stage is what its neighbours, in the rank or
\* beyond, held at the end of the stage before: also where some blocks of a rank have
\* already run the stage, and whether or not the library buffers the messages.
THEOREM LabsAreCurrent ==
  ASSUME CubismMesh, Separate, Present
  PROVE  CubismSpec => []LabsCurrent
  <1>1. CubismInit => LabsCurrent
    BY DEF CubismInit, LabsCurrent
  <1>2. CubismInv /\ LabsCurrent /\ [CubismNext]_cubismVars => LabsCurrent'
    BY LabsStep
  <1>. QED
    BY <1>1, <1>2, CubismInvIsInvariant, PTL DEF CubismSpec
=============================================================================
