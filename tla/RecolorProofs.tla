---------------------------- MODULE RecolorProofs ----------------------------
(***************************************************************************)
(* Proofs about the labelling of components, for every mesh, every division *)
(* into blocks and all arguments.                                          *)
(***************************************************************************)
EXTENDS Recolor, FiniteSetTheorems, WellFoundedInduction, TLAPS

(***************************************************************************)
(* Least and greatest elements.                                            *)
(***************************************************************************)

\* Min finds the least element of a set of numbers.
LEMMA MinIsLeast ==
  ASSUME NEW S \in SUBSET Nat, S # {}
  PROVE  /\ Min(S) \in S
         /\ \A y \in S : Min(S) <= y
  <1> DEFINE Less == {ss \in Nat \X Nat : ss[1] < ss[2]}
  <1>1. IsWellFoundedOn(Less, Nat)
    BY NatLessThanWellFounded, SMT DEF OpToRel
  <1>. HIDE DEF Less
  <1>2. PICK x \in S : \A y \in S : <<y, x>> \notin Less
    BY <1>1, WFMin
  <1>3. ASSUME NEW y \in S, y < x PROVE FALSE
    <2>1. <<y, x>> \in Nat \X Nat /\ <<y, x>>[1] < <<y, x>>[2]
      BY <1>3
    <2>. QED
      BY <2>1, <1>2, Zenon DEF Less
  <1>4. \A y \in S : x <= y
    BY <1>3
  <1>. QED
    BY <1>4 DEF Min

\* A finite set has an element with the greatest value.
LEMMA FiniteHasGreatest ==
  ASSUME NEW S, IsFiniteSet(S), S # {}, NEW f, \A x \in S : f[x] \in Int
  PROVE  \E x \in S : \A y \in S : f[y] <= f[x]
  <1> DEFINE Greatest(U) == \E x \in U : \A y \in U : f[y] <= f[x]
             Sizes == {k \in Nat : \E U \in SUBSET S : U # {} /\ Cardinality(U) = k /\ ~Greatest(U)}
  <1> SUFFICES ASSUME ~Greatest(S) PROVE FALSE
    OBVIOUS
  <1>1. Cardinality(S) \in Sizes
    BY FS_CardinalityType
  <1>2. PICK k \in Sizes : \A l \in Sizes : k <= l
    <2>1. Sizes \in SUBSET Nat /\ Sizes # {}
      BY <1>1
    <2>. HIDE DEF Sizes
    <2>. QED
      BY <2>1, MinIsLeast
  <1>3. PICK U \in SUBSET S : U # {} /\ Cardinality(U) = k /\ ~Greatest(U)
    BY <1>2
  <1>4. PICK u \in U : TRUE
    BY <1>3
  <1>5. IsFiniteSet(U)
    BY FS_Subset
  <1> DEFINE V == U \ {u}
  <1>6. Cardinality(V) = k - 1 /\ k \in Nat
    BY <1>3, <1>4, <1>5, FS_RemoveElement
  <1>7. IsFiniteSet(V)
    BY <1>5, FS_RemoveElement
  <1>8. Cardinality(V) \in Nat
    BY <1>7, FS_CardinalityType
  <1>9. CASE V = {}
    <2>1. \A y \in U : y = u
      BY <1>9
    <2>2. f[u] <= f[u]
      BY <1>4
    <2>. QED
      BY <1>3, <1>4, <2>1, <2>2
  <1>10. CASE V # {}
    <2>1. k - 1 \notin Sizes
      BY <1>2, <1>6
    <2>2. Greatest(V)
      BY <2>1, <1>6, <1>8, <1>10, <1>3
    <2>3. PICK v \in V : \A y \in V : f[y] <= f[v]
      BY <2>2
    <2>4. f[u] \in Int /\ f[v] \in Int /\ \A y \in V : f[y] \in Int
      BY <1>3, <1>4, <2>3
    <2>5. CASE f[u] <= f[v]
      <3>1. \A y \in U : f[y] <= f[v]
        BY <2>3, <2>5
      <3>. QED
        BY <3>1, <2>3, <1>3
    <2>6. CASE f[v] <= f[u]
      <3>1. \A y \in V : f[y] <= f[u]
        BY <2>3, <2>4, <2>6
      <3>2. \A y \in U : f[y] <= f[u]
        BY <3>1, <2>4
      <3>. QED
        BY <3>2, <1>4, <1>3
    <2>. QED
      BY <2>4, <2>5, <2>6
  <1>. QED
    BY <1>9, <1>10

\* Max finds the greatest element of a finite set of numbers.
LEMMA MaxIsGreatest ==
  ASSUME NEW S \in SUBSET Nat, IsFiniteSet(S), S # {}
  PROVE  /\ Max(S) \in S
         /\ \A y \in S : y <= Max(S)
  <1>1. \A x \in S : [y \in S |-> y][x] \in Int
    OBVIOUS
  <1>2. PICK x \in S : \A y \in S : [z \in S |-> z][y] <= [z \in S |-> z][x]
    BY <1>1, FiniteHasGreatest
  <1>3. \A y \in S : x >= y
    BY <1>2
  <1>. QED
    BY <1>3 DEF Max

-----------------------------------------------------------------------------
(***************************************************************************)
(* The mesh.                                                               *)
(***************************************************************************)
\* The arguments and what is computed from them at the start.
Given ==
  /\ arg \in Inputs
  /\ near = Neighbors(arg.old)
  /\ id = InitUniqueColors(arg)

LEMMA PointsAreFinite == IsFiniteSet(Point)
  <1>1. IsFiniteSet(Cell) /\ IsFiniteSet(Layer)
    BY MeshAssumption, FS_Interval DEF Cell, Layer
  <1>. QED
    BY <1>1, FS_Product DEF Point

\* The points of a block are the colored ones it stores, and each is its own neighbour.
LEMMA NearPoints ==
  ASSUME Given, NEW b \in Block
  PROVE  /\ Points(b) = Stored(b) \cap Colored(arg.old)
         /\ Points(b) \subseteq Point
         /\ \A p \in Points(b) : near[b][p] \subseteq Points(b) /\ p \in near[b][p]
  <1>1. Points(b) = Stored(b) \cap Colored(arg.old)
    BY DEF Given, Neighbors, Points
  <1>2. near[b] = [p \in Stored(b) \cap Colored(arg.old) |->
                     {p} \cup {q \in Stored(b) : Joins(arg.old, p, q) /\ b \in {Of(p), Of(q)}}]
    BY DEF Given, Neighbors
  <1>3. ASSUME NEW p \in Points(b)
        PROVE  near[b][p] \subseteq Points(b) /\ p \in near[b][p]
    BY <1>1, <1>2 DEF Joins, Colored, Stored
  <1>. QED
    BY <1>1, <1>3 DEF Stored

\* A colored point is a point of its block.
LEMMA OwnPoint ==
  ASSUME Given, NEW p \in Colored(arg.old)
  PROVE  Of(p) \in Block /\ p \in Points(Of(p)) /\ p[1] \in Cell /\ p \in Point
  <1>1. p \in Point /\ p[1] \in Cell
    BY DEF Colored, Point
  <1>2. Of(p) \in Block /\ p \in Stored(Of(p))
    BY <1>1, MeshAssumption DEF Of, Stored
  <1>. QED
    BY <1>1, <1>2, NearPoints

\* Neighbours are neighbours in both directions, and in the blocks of both.
LEMMA NearBoth ==
  ASSUME Given, NEW b \in Block, NEW p \in Points(b), NEW q \in near[b][p]
  PROVE  /\ p \in Colored(arg.old) /\ q \in Colored(arg.old)
         /\ p \in near[b][q]
         /\ q \in near[Of(p)][p] /\ p \in near[Of(q)][q]
         /\ q = p \/ Joins(arg.old, p, q)
  <1>1. p \in Colored(arg.old) /\ q \in Colored(arg.old) /\ p \in Stored(b) /\ q \in Stored(b)
    BY NearPoints
  <1>2. /\ Of(p) \in Block /\ p \in Points(Of(p)) /\ p[1] \in Cell /\ p \in Point
        /\ Of(q) \in Block /\ q \in Points(Of(q)) /\ q[1] \in Cell /\ q \in Point
    BY <1>1, OwnPoint
  <1>3. CASE q = p
    BY <1>1, <1>2, <1>3, NearPoints
  <1>4. CASE q # p
    <2>1. Joins(arg.old, p, q) /\ b \in {Of(p), Of(q)}
      BY <1>4, NearPoints DEF Given, Neighbors
    <2>2. Joins(arg.old, q, p)
      BY <2>1, <1>2, MeshAssumption DEF Joins
    <2>3. q \in Stored(Of(p)) /\ p \in Stored(Of(q))
      BY <2>1, <2>2, <1>2 DEF Stored, Joins, Of
    <2>4. p \in near[b][q]
      BY <2>1, <2>2, <1>1 DEF Given, Neighbors
    <2>5. near[Of(p)][p] = {p} \cup {r \in Stored(Of(p)) : Joins(arg.old, p, r) /\ Of(p) \in {Of(p), Of(r)}}
      BY <1>1, <1>2 DEF Given, Neighbors, Points
    <2>6. near[Of(q)][q] = {q} \cup {r \in Stored(Of(q)) : Joins(arg.old, q, r) /\ Of(q) \in {Of(q), Of(r)}}
      BY <1>1, <1>2 DEF Given, Neighbors, Points
    <2>. QED
      BY <2>1, <2>2, <2>3, <2>4, <2>5, <2>6, <1>1
  <1>. QED
    BY <1>3, <1>4
-----------------------------------------------------------------------------
(***************************************************************************)
(* Type correctness.                                                       *)
(***************************************************************************)
\* The sparse grid is used only if the call asks for it.
GridStages == pc \in {"local", "reduce"} => arg.grid

TInv == Given /\ TypeOK /\ GridStages

\* The numbers given to the points are natural.
LEMMA OwnColorType ==
  ASSUME NEW i \in Inputs, NEW p \in Colored(i.old)
  PROVE  OwnColor(i, p) \in Nat
  <1>1. p \in Point /\ Of(p) \in Nat
    BY MeshAssumption DEF Colored, Point, Of, Block
  <1>2. ASSUME NEW S \in SUBSET Point PROVE Cardinality(S) \in Nat
    BY PointsAreFinite, FS_Subset, FS_CardinalityType
  <1>3. Cardinality(Inner(Of(p))) \in Nat
    BY <1>2 DEF Inner
  <1> DEFINE counted == {q \in Inner(Of(p)) \cap Colored(i.old) : Before(q, p)}
  <1>4. Cardinality(counted) \in Nat
    BY <1>2 DEF Inner
  <1>. HIDE DEF counted
  <1>5. Of(p) * Cardinality(Inner(Of(p))) + Cardinality(counted) \in Nat
    BY <1>1, <1>3, <1>4
  <1>. QED
    BY <1>5 DEF OwnColor, counted

LEMMA UniqueColorsType ==
  ASSUME NEW i \in Inputs
  PROVE  InitUniqueColors(i) \in [Colored(i.old) -> Nat]
  <1> SUFFICES ASSUME NEW p \in Colored(i.old)
               PROVE  (IF p[1] \in i.dense
                       THEN Min({OwnColor(i, q) : q \in {q \in Colored(i.old) : q[1] = p[1]}})
                       ELSE OwnColor(i, p)) \in Nat
    BY DEF InitUniqueColors
  <1> DEFINE S == {OwnColor(i, q) : q \in {q \in Colored(i.old) : q[1] = p[1]}}
  <1>1. S \in SUBSET Nat /\ S # {}
    BY OwnColorType
  <1>2. Min(S) \in Nat
    BY <1>1, MinIsLeast
  <1>. QED
    BY <1>2, OwnColorType

\* Of two points of a block one comes before the other, and more points are counted up to
\* the later one.
LEMMA LaterCountsMore ==
  ASSUME NEW i \in Inputs, NEW p \in Colored(i.old), NEW q \in Colored(i.old),
         p # q, Of(p) = Of(q), Before(p, q)
  PROVE  Cardinality({r \in Inner(Of(p)) \cap Colored(i.old) : Before(r, p)})
           < Cardinality({r \in Inner(Of(q)) \cap Colored(i.old) : Before(r, q)})
  <1> DEFINE S == {r \in Inner(Of(p)) \cap Colored(i.old) : Before(r, p)}
             T == {r \in Inner(Of(q)) \cap Colored(i.old) : Before(r, q)}
  <1>1. \A r \in Point : r = <<r[1], r[2]>> /\ r[1] \in Int /\ r[2] \in Int
    BY DEF Point, Cell, Layer
  <1>2. p \in Point /\ q \in Point
    BY DEF Colored
  <1>3. S \in SUBSET T
    BY <1>1, <1>2 DEF Before, Inner
  <1>4. q \in T
    BY <1>1, <1>2 DEF Before, Inner
  <1>5. q \notin S
    BY <1>1, <1>2 DEF Before
  <1>6. T \in SUBSET Point
    BY DEF Inner
  <1>7. IsFiniteSet(T) /\ IsFiniteSet(S)
    BY <1>3, <1>6, PointsAreFinite, FS_Subset
  <1>. HIDE DEF S, T
  <1>8. Cardinality(S) <= Cardinality(T) /\ Cardinality(S) # Cardinality(T)
    BY <1>3, <1>4, <1>5, <1>7, FS_Subset
  <1>9. Cardinality(S) \in Nat /\ Cardinality(T) \in Nat
    BY <1>7, FS_CardinalityType
  <1>10. Cardinality(S) < Cardinality(T)
    BY <1>8, <1>9
  <1>. QED
    BY <1>10 DEF S, T

\* A block counts its points from 1, up to their number at most.
LEMMA CountIsBounded ==
  ASSUME NEW i \in Inputs, NEW p \in Colored(i.old)
  PROVE  LET n == Cardinality({r \in Inner(Of(p)) \cap Colored(i.old) : Before(r, p)})
         IN n \in Nat /\ 1 <= n /\ n <= Cardinality(Inner(Of(p)))
  <1> DEFINE S == {r \in Inner(Of(p)) \cap Colored(i.old) : Before(r, p)}
  <1>1. p \in Point /\ p[1] \in Int
    BY DEF Colored, Point, Cell
  <1>2. p \in S
    BY <1>1 DEF Before, Inner
  <1>3. S \in SUBSET Inner(Of(p)) /\ Inner(Of(p)) \in SUBSET Point
    BY DEF Inner
  <1>4. IsFiniteSet(Inner(Of(p))) /\ IsFiniteSet(S)
    BY <1>3, PointsAreFinite, FS_Subset
  <1>. HIDE DEF S
  <1>5. Cardinality(S) <= Cardinality(Inner(Of(p)))
    BY <1>3, <1>4, FS_Subset
  <1>6. Cardinality(S) \in Nat /\ Cardinality(S) # 0
    BY <1>2, <1>4, FS_CardinalityType, FS_EmptySet
  <1>7. 1 <= Cardinality(S)
    BY <1>6
  <1>. QED
    BY <1>5, <1>6, <1>7 DEF S

\* Ranges of equal length do not overlap.
LEMMA RangesApart ==
  ASSUME NEW a \in Nat, NEW b \in Nat, a < b, NEW n \in Nat, NEW k \in Nat, NEW l \in Nat,
         k <= n, 1 <= l
  PROVE  a * n + k < b * n + l
  <1>1. PICK d \in Nat : b = a + 1 + d
    <2>1. b - a - 1 \in Nat /\ b = a + 1 + (b - a - 1)
      OBVIOUS
    <2>. QED
      BY <2>1
  <1>2. b * n = a * n + n + d * n
    BY <1>1
  <1>3. a * n \in Nat /\ d * n \in Nat
    OBVIOUS
  <1>. QED
    BY <1>2, <1>3

\* Blocks give different numbers to all points but those of the fixed color.
LEMMA OwnColorsDiffer ==
  ASSUME NEW i \in Inputs, NEW p \in Colored(i.old), NEW q \in Colored(i.old), p # q,
         ~(p[1] \in i.fixed /\ q[1] \in i.fixed)
  PROVE  OwnColor(i, p) # OwnColor(i, q)
  <1> DEFINE Count(r) == Cardinality({s \in Inner(Of(r)) \cap Colored(i.old) : Before(s, r)})
             Size(r) == Cardinality(Inner(Of(r)))
  <1>1. p \in Point /\ q \in Point /\ Of(p) \in Block /\ Of(q) \in Block
    BY MeshAssumption DEF Colored, Point, Of
  <1>2. Of(p) \in Nat /\ Of(q) \in Nat
    BY <1>1, MeshAssumption DEF Block
  <1>3. /\ Count(p) \in Nat /\ 1 <= Count(p) /\ Count(p) <= Size(p)
        /\ Count(q) \in Nat /\ 1 <= Count(q) /\ Count(q) <= Size(q)
    BY CountIsBounded
  <1>4. Size(p) = Size(q)
    BY <1>1, MeshAssumption
  <1>5. Size(p) \in Nat /\ Size(q) \in Nat
    BY PointsAreFinite, FS_Subset, FS_CardinalityType DEF Inner
  <1>6. /\ p[1] \notin i.fixed => OwnColor(i, p) = Of(p) * Size(p) + Count(p)
        /\ q[1] \notin i.fixed => OwnColor(i, q) = Of(q) * Size(q) + Count(q)
        /\ p[1] \in i.fixed => OwnColor(i, p) = 0
        /\ q[1] \in i.fixed => OwnColor(i, q) = 0
    BY DEF OwnColor
  <1>7. Of(p) = Of(q) => Count(p) # Count(q)
    <2>1. ASSUME Of(p) = Of(q) PROVE Before(p, q) \/ Before(q, p)
      BY <1>1 DEF Before, Point, Cell, Layer
    <2>2. ASSUME Of(p) = Of(q), Before(p, q) PROVE Count(p) < Count(q)
      BY <2>2, LaterCountsMore
    <2>3. ASSUME Of(p) = Of(q), Before(q, p) PROVE Count(q) < Count(p)
      BY <2>3, LaterCountsMore
    <2>. HIDE DEF Count
    <2>. QED
      BY <2>1, <2>2, <2>3, <1>3
  <1>. HIDE DEF Count, Size
  <1>8. Of(p) * Size(p) \in Nat /\ Of(q) * Size(q) \in Nat
    BY <1>2, <1>5
  <1>9. Of(p) * Size(p) + Count(p) # Of(q) * Size(q) + Count(q)
    <2>1. CASE Of(p) = Of(q)
      BY <2>1, <1>3, <1>4, <1>7, <1>8
    <2>2. CASE Of(p) < Of(q)
      <3>1. Of(p) * Size(p) + Count(p) < Of(q) * Size(p) + Count(q)
        BY <2>2, <1>2, <1>3, <1>5, RangesApart
      <3>. QED
        BY <3>1, <1>3, <1>4, <1>8
    <2>3. CASE Of(q) < Of(p)
      <3>1. Of(q) * Size(q) + Count(q) < Of(p) * Size(q) + Count(p)
        BY <2>3, <1>2, <1>3, <1>5, RangesApart
      <3>. QED
        BY <3>1, <1>3, <1>4, <1>8
    <2>. QED
      BY <2>1, <2>2, <2>3, <1>2
  <1>. QED
    BY <1>3, <1>6, <1>8, <1>9

\* The first label of a point is the number of a point of its component: of another layer
\* of its cell only if they are merged.
LEMMA FirstLabelIs ==
  ASSUME Given, NEW p \in Colored(arg.old)
  PROVE  \E r \in Colored(arg.old) : /\ id[p] = OwnColor(arg, r)
                                     /\ r[1] = p[1]
                                     /\ r = p \/ p[1] \in arg.dense
  <1>1. arg \in Inputs /\ id[p] = IF p[1] \in arg.dense
           THEN Min({OwnColor(arg, q) : q \in {q \in Colored(arg.old) : q[1] = p[1]}})
           ELSE OwnColor(arg, p)
    BY DEF Given, InitUniqueColors
  <1> DEFINE S == {OwnColor(arg, q) : q \in {q \in Colored(arg.old) : q[1] = p[1]}}
  <1>2. S \in SUBSET Nat /\ S # {}
    BY <1>1, OwnColorType
  <1>3. Min(S) \in S
    BY <1>2, MinIsLeast
  <1>. QED
    BY <1>1, <1>3

\* Components that share no fixed or merged label have different labels at first.
LEMMA ApartIsDistinct ==
  ASSUME Given, Apart, NEW S \in arg.components, NEW T \in arg.components, S # T,
         NEW p \in S, NEW q \in T
  PROVE  id[p] # id[q]
  <1>1. arg \in Inputs /\ UNION arg.components = Colored(arg.old) /\ S \cap T = {}
    BY InputAssumption DEF Given
  <1>2. p \in Colored(arg.old) /\ q \in Colored(arg.old)
    BY <1>1
  <1>3. PICK r \in Colored(arg.old) : /\ id[p] = OwnColor(arg, r)
                                      /\ r[1] = p[1]
                                      /\ r = p \/ p[1] \in arg.dense
    BY <1>2, FirstLabelIs
  <1>4. PICK s \in Colored(arg.old) : /\ id[q] = OwnColor(arg, s)
                                      /\ s[1] = q[1]
                                      /\ s = q \/ q[1] \in arg.dense
    BY <1>2, FirstLabelIs
  <1>5. ~(p[1] \in arg.fixed /\ q[1] \in arg.fixed) /\ ~(p[1] = q[1] /\ p[1] \in arg.dense)
    BY Zenon DEF Apart
  <1>6. ~(r[1] \in arg.fixed /\ s[1] \in arg.fixed)
    BY <1>3, <1>4, <1>5
  <1>7. r # s
    <2>1. p # q
      BY <1>1
    <2>2. ASSUME r = s PROVE FALSE
      <3>1. p[1] = q[1]
        BY <1>3, <1>4, <2>2
      <3>2. r = p /\ s = q
        BY <1>3, <1>4, <1>5, <3>1
      <3>. QED
        BY <2>1, <2>2, <3>2
    <2>. QED
      BY <2>2
  <1>8. OwnColor(arg, r) # OwnColor(arg, s)
    BY <1>1, <1>6, <1>7, OwnColorsDiffer
  <1>. QED
    BY <1>3, <1>4, <1>8

\* The least label around a point is one of the labels there.
LEMMA LeastIsLeast ==
  ASSUME TInv, NEW b \in Block, NEW p \in Points(b)
  PROVE  /\ Least(b, p) \in {label[b][q] : q \in near[b][p]}
         /\ Least(b, p) \in Nat
         /\ \A q \in near[b][p] : Least(b, p) <= label[b][q]
  <1> DEFINE S == {label[b][q] : q \in near[b][p]}
  <1>1. near[b][p] \subseteq Points(b) /\ p \in near[b][p]
    BY NearPoints DEF TInv
  <1>2. S \in SUBSET Nat /\ S # {}
    BY <1>1 DEF TInv, TypeOK
  <1>3. Min(S) \in S /\ \A y \in S : Min(S) <= y
    BY <1>2, MinIsLeast
  <1>. QED
    BY <1>2, <1>3 DEF Least

LEMMA OwnLabel ==
  ASSUME TInv, NEW p \in Colored(arg.old)
  PROVE  Label(p) \in Nat
  BY OwnPoint DEF TInv, TypeOK, Label

\* A pair of labels: two natural numbers, the second one less.
LEMMA PairType ==
  ASSUME TInv, NEW t \in Pairs
  PROVE  /\ t[1] \in Block
         /\ Here(t) \in Points(t[1]) /\ There(t) \in Points(t[1])
         /\ There(t) \in near[t[1]][Here(t)]
         /\ Higher(t) \in {label[t[1]][Here(t)], label[t[1]][There(t)]}
         /\ Lower(t) \in {label[t[1]][Here(t)], label[t[1]][There(t)]}
         /\ Higher(t) \in Nat /\ Lower(t) \in Nat /\ Lower(t) < Higher(t)
  <1>1. /\ t[1] \in Block /\ Here(t) \in Points(t[1])
        /\ There(t) \in near[t[1]][Here(t)]
        /\ label[t[1]][Here(t)] # label[t[1]][There(t)]
    BY DEF Pairs
  <1>2. There(t) \in Points(t[1])
    BY <1>1, NearPoints DEF TInv
  <1>3. label[t[1]][Here(t)] \in Nat /\ label[t[1]][There(t)] \in Nat
    BY <1>1, <1>2 DEF TInv, TypeOK
  <1>4. ASSUME NEW x \in Nat, NEW y \in Nat, x # y
        PROVE  /\ Max({x, y}) \in {x, y} /\ Min({x, y}) \in {x, y}
               /\ Min({x, y}) < Max({x, y})
    <2>1. Min({x, y}) \in {x, y} /\ \A z \in {x, y} : Min({x, y}) <= z
      BY MinIsLeast
    <2>2. IsFiniteSet({x, y})
      <3>1. IsFiniteSet({x} \cup {y})
        BY FS_Singleton, FS_AddElement
      <3>2. {x, y} = {x} \cup {y}
        OBVIOUS
      <3>. QED
        BY <3>1, <3>2
    <2>3. Max({x, y}) \in {x, y} /\ \A z \in {x, y} : z <= Max({x, y})
      BY <2>2, MaxIsGreatest
    <2>. QED
      BY <1>4, <2>1, <2>3
  <1>. QED
    BY <1>1, <1>2, <1>3, <1>4 DEF Higher, Lower
\* The image of a finite set is finite.
LEMMA ImageIsFinite ==
  ASSUME NEW S, IsFiniteSet(S), NEW T, NEW f \in [S -> T], \A y \in T : \E x \in S : f[x] = y
  PROVE  IsFiniteSet(T)
  <1>1. f \in Surjection(S, T)
    BY DEF Surjection
  <1>. QED
    BY <1>1, FS_Surjection

LEMMA PairsAreFinite == IsFiniteSet(Pairs)
  <1> DEFINE S == (Block \X Layer) \X ((0 .. 2) \X Layer)
             f == [x \in S |-> <<x[1][1], x[1][2], x[2][1], x[2][2]>>]
             T == {f[x] : x \in S}
  <1>1. IsFiniteSet(Block) /\ IsFiniteSet(Layer) /\ IsFiniteSet(0 .. 2)
    <2>1. nblocks - 1 \in Int /\ nlayers - 1 \in Int /\ 0 \in Int /\ 2 \in Int
      BY MeshAssumption
    <2>. QED
      BY <2>1, FS_Interval DEF Block, Layer
  <1>2. IsFiniteSet(S)
    <2>1. IsFiniteSet(Block \X Layer) /\ IsFiniteSet((0 .. 2) \X Layer)
      BY <1>1, FS_Product
    <2>. QED
      BY <2>1, FS_Product
  <1>3. IsFiniteSet(T)
    <2>1. f \in [S -> T] /\ \A y \in T : \E x \in S : f[x] = y
      OBVIOUS
    <2>. HIDE DEF S, f, T
    <2>. QED
      BY <1>2, <2>1, ImageIsFinite
  <1>4. ASSUME NEW t \in Pairs PROVE t \in T
    <2>1. t \in Block \X Layer \X (0 .. 2) \X Layer
      BY DEF Pairs
    <2>2. <<<<t[1], t[2]>>, <<t[3], t[4]>>>> \in S
      BY <2>1
    <2>3. f[<<<<t[1], t[2]>>, <<t[3], t[4]>>>>] = t
      BY <2>1, <2>2
    <2>. QED
      BY <2>2, <2>3
  <1>. QED
    BY <1>3, <1>4, FS_Subset

LEMMA KnownIsFinite ==
  ASSUME Given
  PROVE  IsFiniteSet(Known)
  <1> DEFINE S == Block \X Point
             f == [x \in S |-> <<x[1], x[2][1], x[2][2]>>]
             T == {f[x] : x \in S}
  <1>1. IsFiniteSet(Block)
    BY MeshAssumption, FS_Interval DEF Block
  <1>2. IsFiniteSet(S)
    BY <1>1, PointsAreFinite, FS_Product
  <1>3. IsFiniteSet(T)
    <2>1. f \in [S -> T] /\ \A y \in T : \E x \in S : f[x] = y
      OBVIOUS
    <2>. HIDE DEF S, f, T
    <2>. QED
      BY <1>2, <2>1, ImageIsFinite
  <1>4. ASSUME NEW t \in Known PROVE t \in T
    <2>1. PICK b \in Block : \E p \in Points(b) : t = <<b, p[1], p[2]>>
      BY DEF Known
    <2>2. PICK p \in Points(b) : t = <<b, p[1], p[2]>>
      BY <2>1
    <2>3. <<b, p>> \in S
      BY NearPoints
    <2>4. f[<<b, p>>] = t
      BY <2>2, <2>3
    <2>. QED
      BY <2>3, <2>4
  <1>. QED
    BY <1>3, <1>4, FS_Subset

\* The pair that is put into the map for a label has this label.
LEMMA LastPairIsPair ==
  ASSUME TInv, NEW l \in {Higher(t) : t \in Pairs}
  PROVE  LastPair(l) \in Pairs /\ Higher(LastPair(l)) = l
  <1> DEFINE S == {u \in Pairs : Higher(u) = l}
             f == [u \in S |-> Position(u)]
  <1>1. IsFiniteSet(S) /\ S # {}
    BY PairsAreFinite, FS_Subset
  <1>2. ASSUME NEW u \in S PROVE f[u] \in Int
    <2>1. u \in Block \X Layer \X (0 .. 2) \X Layer
      BY DEF Pairs
    <2>2. u[1] \in Int /\ u[2] \in Int /\ u[3] \in Int /\ u[4] \in Int /\ nlayers \in Int
      BY <2>1, MeshAssumption DEF Block, Layer
    <2>3. u[1] * nlayers + u[2] \in Int
      BY <2>2
    <2>4. (u[1] * nlayers + u[2]) * 3 + u[3] \in Int
      BY <2>2, <2>3
    <2>5. ((u[1] * nlayers + u[2]) * 3 + u[3]) * nlayers + u[4] \in Int
      BY <2>2, <2>4
    <2>. QED
      BY <2>5 DEF Position
  <1>3. \E t \in S : \A u \in S : f[u] <= f[t]
    BY <1>1, <1>2, FiniteHasGreatest
  <1>4. \E t \in S : \A u \in S : Position(u) <= Position(t)
    BY <1>3
  <1>. QED
    BY <1>4 DEF LastPair

\* A known color: that of a point with the label, in a block that has it.
LEMMA KnownAtIsKnown ==
  ASSUME TInv, NEW l \in {LabelAt(t) : t \in Known}
  PROVE  /\ KnownAt(l) \in Known /\ LabelAt(KnownAt(l)) = l
         /\ <<KnownAt(l)[2], KnownAt(l)[3]>> \in Point
         /\ arg.stable[<<KnownAt(l)[2], KnownAt(l)[3]>>] \in Nat
         /\ \E b \in Block : \E p \in Points(b) : l = label[b][p]
  <1> DEFINE S == {u \in Known : LabelAt(u) = l}
             f == [u \in S |-> Priority(u)]
  <1>1. IsFiniteSet(S) /\ S # {}
    BY KnownIsFinite, FS_Subset DEF TInv
  <1>2. ASSUME NEW u \in Known
        PROVE  /\ u[1] \in Block /\ <<u[2], u[3]>> \in Points(u[1]) /\ <<u[2], u[3]>> \in Point
               /\ u[2] \in Cell /\ u[3] \in Layer
               /\ arg.stable[<<u[2], u[3]>>] # None
    <2>1. PICK b \in Block : \E p \in Points(b) : u = <<b, p[1], p[2]>> /\ arg.stable[p] # None
      BY DEF Known
    <2>2. PICK p \in Points(b) : u = <<b, p[1], p[2]>> /\ arg.stable[p] # None
      BY <2>1
    <2>3. p \in Point
      BY NearPoints DEF TInv
    <2>4. p = <<p[1], p[2]>> /\ p[1] \in Cell /\ p[2] \in Layer
      BY <2>3 DEF Point
    <2>5. u[1] = b /\ u[2] = p[1] /\ u[3] = p[2]
      BY <2>2
    <2>6. <<u[2], u[3]>> = p
      BY <2>4, <2>5
    <2>. QED
      BY <2>2, <2>3, <2>4, <2>5, <2>6
  <1>3. ASSUME NEW u \in S PROVE f[u] \in Int
    <2>1. u[1] \in Int /\ u[2] \in Int /\ u[3] \in Int /\ nlayers \in Int /\ ncells \in Int
      <3>1. u \in Known
        OBVIOUS
      <3>2. u[1] \in Block /\ u[2] \in Cell /\ u[3] \in Layer
        BY <1>2, <3>1
      <3>3. nlayers \in Int /\ ncells \in Int /\ Block \subseteq Int /\ Cell \subseteq Int /\ Layer \subseteq Int
        BY MeshAssumption DEF Block, Layer, Cell
      <3>. QED
        BY <3>2, <3>3
    <2>2. ncells * nlayers \in Int /\ u[2] * nlayers + u[3] \in Int
      BY <2>1
    <2>3. u[1] * (ncells * nlayers) \in Int
      BY <2>1, <2>2
    <2>. QED
      BY <2>2, <2>3 DEF Priority
  <1>4. \E t \in S : \A u \in S : f[u] <= f[t]
    BY <1>1, <1>3, FiniteHasGreatest
  <1>5. \E t \in S : \A u \in S : Priority(u) <= Priority(t)
    BY <1>4
  <1>6. KnownAt(l) \in Known /\ LabelAt(KnownAt(l)) = l
    BY <1>5 DEF KnownAt
  <1>7. arg.stable \in [Point -> Nat \cup {None}]
    BY InputAssumption DEF TInv, Given
  <1>8. arg.stable[<<KnownAt(l)[2], KnownAt(l)[3]>>] \in Nat
    BY <1>2, <1>6, <1>7
  <1>. QED
    BY <1>2, <1>6, <1>8 DEF LabelAt
\* The map of known colors, and the number that new colors start from.
LEMMA KnownColors ==
  ASSUME TInv
  PROVE  /\ PairToMap \in [DOMAIN PairToMap -> Nat]
         /\ \A l \in DOMAIN PairToMap :
              l \in Nat /\ \E b \in Block : \E p \in Points(b) : l = label[b][p]
         /\ Max({0} \cup Range(PairToMap)) \in Nat
         /\ \A l \in DOMAIN PairToMap : PairToMap[l] <= Max({0} \cup Range(PairToMap))
  <1> DEFINE D == {LabelAt(t) : t \in Known}
             R == {0} \cup Range(PairToMap)
             f == [t \in Known |-> LabelAt(t)]
  <1>1. DOMAIN PairToMap = D
    BY DEF PairToMap
  <1>2. ASSUME NEW l \in D PROVE PairToMap[l] \in Nat
    <2>1. PairToMap[l] = arg.stable[<<KnownAt(l)[2], KnownAt(l)[3]>>]
      BY DEF PairToMap
    <2>. QED
      BY <2>1, KnownAtIsKnown
  <1>3. PairToMap = [l \in D |-> PairToMap[l]]
    BY DEF PairToMap
  <1>4. IsFiniteSet(D)
    <2>1. f \in [Known -> D] /\ \A y \in D : \E t \in Known : f[t] = y
      OBVIOUS
    <2>2. IsFiniteSet(Known)
      BY KnownIsFinite DEF TInv
    <2>. HIDE DEF f, D
    <2>. QED
      BY <2>1, <2>2, ImageIsFinite
  <1>5. IsFiniteSet(Range(PairToMap))
    <2>1. PairToMap \in [D -> Range(PairToMap)]
      BY <1>1, <1>3 DEF Range
    <2>2. \A y \in Range(PairToMap) : \E l \in D : PairToMap[l] = y
      BY <1>1 DEF Range
    <2>. HIDE DEF D
    <2>. QED
      BY <2>1, <2>2, <1>4, ImageIsFinite
  <1>6. Range(PairToMap) \in SUBSET Nat
    BY <1>1, <1>2 DEF Range
  <1>7. IsFiniteSet(R) /\ R \in SUBSET Nat /\ R # {}
    <2>1. IsFiniteSet(Range(PairToMap) \cup {0}) /\ R = Range(PairToMap) \cup {0}
      BY <1>5, FS_AddElement
    <2>. QED
      BY <2>1, <1>6
  <1>8. Max(R) \in R /\ \A y \in R : y <= Max(R)
    BY <1>7, MaxIsGreatest
  <1>9. \A l \in DOMAIN PairToMap : PairToMap[l] \in R
    BY DEF Range
  <1>10. ASSUME NEW l \in D
         PROVE  l \in Nat /\ \E b \in Block : \E p \in Points(b) : l = label[b][p]
    <2>1. PICK b \in Block : \E p \in Points(b) : l = label[b][p]
      BY KnownAtIsKnown
    <2>2. PICK p \in Points(b) : l = label[b][p]
      BY <2>1
    <2>3. label[b] \in [Points(b) -> Nat]
      BY DEF TInv, TypeOK
    <2>. QED
      BY <2>2, <2>3
  <1>11. PairToMap \in [DOMAIN PairToMap -> Nat]
    BY <1>1, <1>2, <1>3
  <1>12. Max(R) \in Nat /\ \A l \in DOMAIN PairToMap : PairToMap[l] <= Max(R)
    BY <1>7, <1>8, <1>9
  <1>. QED
    BY <1>1, <1>10, <1>11, <1>12

\* The loop over the labels looks at a label of a block that has no color yet.
LEMMA NextLabelIsPending ==
  ASSUME TInv, ~Finished
  PROVE  /\ NextLabel \in Nat /\ NextLabel \notin DOMAIN color_map
         /\ \E b \in Block : \E p \in Points(b) : NextLabel = label[b][p]
  <1> DEFINE S == {b \in Block : Pending(b) # {}}
  <1>1. S \in SUBSET Nat /\ S # {}
    BY MeshAssumption DEF Finished, Block
  <1>2. Min(S) \in S
    BY <1>1, MinIsLeast
  <1>3. Pending(Min(S)) \in SUBSET Nat /\ Pending(Min(S)) # {}
    BY <1>2 DEF Pending, Labels, TInv, TypeOK
  <1>4. NextLabel \in Pending(Min(S))
    BY <1>3, MinIsLeast DEF NextLabel
  <1>. QED
    BY <1>2, <1>3, <1>4 DEF Pending, Labels

LEMMA InitTInv == Init => TInv
  <1> SUFFICES ASSUME Init PROVE TInv
    OBVIOUS
  <1>1. Given
    BY DEF Init, Given
  <1>2. id \in [Colored(arg.old) -> Nat]
    BY <1>1, UniqueColorsType DEF Given
  <1>3. DOMAIN near = Block /\ DOMAIN label = Block
    BY DEF Init, Neighbors
  <1>4. \A b \in Block : label[b] \in [Points(b) -> Nat]
    BY <1>1, <1>2, NearPoints DEF Init
  <1>5. arg.grid \in BOOLEAN
    BY <1>1, InputAssumption DEF Given
  <1>6. changed \in SUBSET Block /\ pc \in Stages /\ GridStages
    BY <1>5 DEF Init, LoopBegin, Stages, GridStages
  <1>7. merge = Empty /\ stable_map = Empty /\ color_map = Empty /\ cl_next = 0
    BY DEF Init
  <1>8. Empty \in [DOMAIN Empty -> Nat] /\ DOMAIN Empty \in SUBSET Nat
    BY DEF Empty
  <1>. QED
    BY <1>1, <1>2, <1>3, <1>4, <1>6, <1>7, <1>8 DEF TInv, TypeOK

\* The arguments do not change.
LEMMA GivenStays ==
  ASSUME Given, [Next]_vars
  PROVE  Given' /\ arg' = arg /\ near' = near /\ id' = id
  BY DEF Given, Next, vars, Gather, Resolve, ApplySparse, Pass, Exchange, Again, LoopBreak,
         Keep, Renew, ApplyColors, Done
\* Every action keeps the types.
LEMMA NextTInv ==
  ASSUME TInv, [Next]_vars
  PROVE  TInv'
  <1>1. Given' /\ arg' = arg /\ near' = near /\ id' = id
    BY GivenStays DEF TInv
  <1>2. \A b \in Block : Points(b)' = Points(b)
    BY <1>1 DEF Points
  <1>3. id' \in [Colored(arg'.old) -> Nat] /\ DOMAIN near' = Block
    BY <1>1 DEF TInv, TypeOK
  <1> SUFFICES /\ DOMAIN label' = Block
               /\ \A b \in Block : label'[b] \in [Points(b) -> Nat]
               /\ changed' \in SUBSET Block
               /\ pc' \in Stages
               /\ merge' \in [DOMAIN merge' -> Nat] /\ DOMAIN merge' \in SUBSET Nat
               /\ stable_map' \in [DOMAIN stable_map' -> Nat] /\ DOMAIN stable_map' \in SUBSET Nat
               /\ color_map' \in [DOMAIN color_map' -> Nat] /\ DOMAIN color_map' \in SUBSET Nat
               /\ cl_next' \in Nat
               /\ GridStages'
    BY <1>1, <1>2, <1>3 DEF TInv, TypeOK
  <1>4. CASE Gather
    <2> DEFINE D == {Higher(t) : t \in Pairs}
    <2>1. \A l \in D : l \in Nat /\ Lower(LastPair(l)) \in Nat
      BY PairType, LastPairIsPair
    <2>2. merge' = [l \in D |-> Lower(LastPair(l))]
      BY <1>4 DEF Gather
    <2>3. merge' \in [DOMAIN merge' -> Nat] /\ DOMAIN merge' \in SUBSET Nat
      BY <2>1, <2>2
    <2>. QED
      BY <1>4, <2>3 DEF Gather, TInv, TypeOK, Stages, GridStages
  <1>5. CASE Resolve
    <2>1. \A k \in DOMAIN merge : (IF k \in Unresolved THEN merge[merge[k]] ELSE merge[k]) \in Nat
      BY DEF Unresolved, TInv, TypeOK
    <2>2. merge' \in [DOMAIN merge' -> Nat] /\ DOMAIN merge' \in SUBSET Nat
      BY <1>5, <2>1 DEF Resolve, TInv, TypeOK
    <2>. QED
      BY <1>5, <2>2 DEF Resolve, TInv, TypeOK, GridStages
  <1>6. CASE ApplySparse
    <2>1. \A b \in Block : \A p \in Points(b) :
            (IF OverFace(b, p) THEN Replaced(label[b][p]) ELSE label[b][p]) \in Nat
      BY DEF Replaced, TInv, TypeOK
    <2>2. DOMAIN label' = Block /\ \A b \in Block : label'[b] \in [Points(b) -> Nat]
      BY <1>6, <2>1 DEF ApplySparse
    <2>3. merge' \in [DOMAIN merge' -> Nat] /\ DOMAIN merge' \in SUBSET Nat
      BY <1>6 DEF ApplySparse, Empty
    <2>. QED
      BY <1>6, <2>2, <2>3 DEF ApplySparse, TInv, TypeOK, Stages, GridStages
  <1>7. CASE Pass
    <2>1. \A b \in Block : \A p \in Points(b) :
            (IF Of(p) = b \/ arg.unionfind THEN Least(b, p) ELSE label[b][p]) \in Nat
      BY LeastIsLeast DEF TInv, TypeOK
    <2>2. label' = Lowered /\ changed' \in SUBSET Block
      BY <1>7 DEF Pass, TInv, TypeOK
    <2>3. DOMAIN label' = Block /\ \A b \in Block : label'[b] \in [Points(b) -> Nat]
      BY <2>1, <2>2 DEF Lowered
    <2>. QED
      BY <1>7, <2>2, <2>3 DEF Pass, TInv, TypeOK, GridStages
  <1>8. CASE Exchange
    <2>1. \A b \in Block : \A p \in Points(b) : Label(p) \in Nat
      BY OwnLabel, NearPoints DEF TInv
    <2>2. DOMAIN label' = Block /\ \A b \in Block : label'[b] \in [Points(b) -> Nat]
      BY <1>8, <2>1 DEF Exchange, Exchanged
    <2>. QED
      BY <1>8, <2>2 DEF Exchange, TInv, TypeOK, Stages, GridStages
  <1>9. CASE Again
    <2>1. arg.grid \in BOOLEAN
      BY InputAssumption DEF TInv, Given
    <2>. QED
      BY <1>9, <2>1, <1>1 DEF Again, LoopBegin, TInv, TypeOK, Stages, GridStages
  <1>10. CASE LoopBreak
    <2>1. stable_map' \in [DOMAIN stable_map' -> Nat] /\ DOMAIN stable_map' \in SUBSET Nat
      BY <1>10, KnownColors DEF LoopBreak
    <2>2. color_map' \in [DOMAIN color_map' -> Nat] /\ DOMAIN color_map' \in SUBSET Nat
      BY <1>10 DEF LoopBreak, Empty, With
    <2>3. cl_next' \in Nat
      BY <1>10, KnownColors DEF LoopBreak
    <2>. QED
      BY <1>10, <2>1, <2>2, <2>3 DEF LoopBreak, TInv, TypeOK, Stages, GridStages
  <1>11. ASSUME NEW v \in Nat, pc = "colors", ~Finished
         PROVE  /\ With(color_map, NextLabel, v) \in [DOMAIN With(color_map, NextLabel, v) -> Nat]
                /\ DOMAIN With(color_map, NextLabel, v) \in SUBSET Nat
    BY <1>11, NextLabelIsPending DEF With, TInv, TypeOK
  <1>12. CASE Keep
    <2>1. stable_map[NextLabel] \in Nat
      BY <1>12 DEF Keep, Keeps, TInv, TypeOK
    <2>. QED
      BY <1>12, <2>1, <1>11 DEF Keep, TInv, TypeOK, GridStages
  <1>13. CASE Renew
    BY <1>13, <1>11 DEF Renew, TInv, TypeOK, GridStages
  <1>14. CASE ApplyColors
    <2>1. \A b \in Block : \A p \in Points(b) : color_map[label[b][p]] \in Nat
      BY <1>14 DEF ApplyColors, Finished, Pending, Labels, TInv, TypeOK
    <2>2. DOMAIN label' = Block /\ \A b \in Block : label'[b] \in [Points(b) -> Nat]
      BY <1>14, <2>1 DEF ApplyColors
    <2>. QED
      BY <1>14, <2>2 DEF ApplyColors, TInv, TypeOK, Stages, GridStages
  <1>15. CASE UNCHANGED vars
    BY <1>15 DEF vars, TInv, TypeOK, GridStages
  <1>. QED
    BY <1>4, <1>5, <1>6, <1>7, <1>8, <1>9, <1>10, <1>12, <1>13, <1>14, <1>15 DEF Next, Done

\* In every state the labels, maps and stages are of their types: in particular every
\* minimum and maximum is taken of a set that is not empty, and every color that is
\* looked up is there.
THEOREM TypeCorrect == Spec => []TypeOK
  <1>1. TInv /\ [Next]_vars => TInv'
    BY NextTInv
  <1>2. TInv => TypeOK
    BY DEF TInv
  <1>. QED
    BY InitTInv, <1>1, <1>2, PTL DEF Spec
-----------------------------------------------------------------------------
(***************************************************************************)
(* Labels stay in their component.                                         *)
(***************************************************************************)
\* A point of S had the label at first.
From(S, l) == \E q \in S : l = id[q]

\* The map of the sparse grid leads from labels to labels of the same component.
MergeStays ==
  Apart =>
    \A k \in DOMAIN merge : \A S \in arg.components : From(S, k) => From(S, merge[k])

SInv == TInv /\ LabelsStay /\ MergeStays

\* Neighbours are in the same component.
LEMMA SameComponent ==
  ASSUME Given, NEW b \in Block, NEW p \in Points(b), NEW q \in near[b][p],
         NEW S \in arg.components, p \in S
  PROVE  q \in S
  <1>1. q = p \/ Joins(arg.old, p, q)
    BY NearBoth
  <1>2. q \in Point
    BY NearPoints
  <1>3. q = <<q[1], q[2]>> /\ q[2] \in Layer
    BY <1>2 DEF Point
  <1>4. ASSUME Joins(arg.old, p, q) PROVE q \in S
    <2>1. q[1] \in Stencil[p[1]]
      BY <1>4 DEF Joins
    <2>2. \A c \in Stencil[p[1]] : \A l \in Layer : Joins(arg.old, p, <<c, l>>) => <<c, l>> \in S
      BY InputAssumption DEF Given
    <2>. QED
      BY <1>3, <1>4, <2>1, <2>2
  <1>. QED
    BY <1>1, <1>4

\* Every point of a block is in a component.
LEMMA InComponent ==
  ASSUME Given, NEW b \in Block, NEW p \in Points(b)
  PROVE  \E S \in arg.components : p \in S
  <1>1. p \in Colored(arg.old)
    BY NearPoints
  <1>2. UNION arg.components = Colored(arg.old)
    BY InputAssumption DEF Given
  <1>. QED
    BY <1>1, <1>2

\* A pair of labels comes from one component.
LEMMA PairStays ==
  ASSUME SInv, pc = "local", Apart, NEW t \in Pairs,
         NEW S \in arg.components, From(S, Higher(t))
  PROVE  From(S, Lower(t))
  <1>1. /\ t[1] \in Block /\ Here(t) \in Points(t[1]) /\ There(t) \in Points(t[1])
        /\ There(t) \in near[t[1]][Here(t)]
        /\ Higher(t) \in {label[t[1]][Here(t)], label[t[1]][There(t)]}
        /\ Lower(t) \in {label[t[1]][Here(t)], label[t[1]][There(t)]}
    BY PairType DEF SInv
  <1>2. PICK T \in arg.components : Here(t) \in T
    BY <1>1, InComponent DEF SInv, TInv
  <1>3. There(t) \in T
    BY <1>1, <1>2, SameComponent DEF SInv, TInv
  <1>4. From(T, label[t[1]][Here(t)]) /\ From(T, label[t[1]][There(t)])
    BY <1>1, <1>2, <1>3 DEF SInv, LabelsStay, From
  <1>5. From(T, Higher(t)) /\ From(T, Lower(t))
    BY <1>1, <1>4
  <1>6. S = T
    BY <1>5, ApartIsDistinct DEF SInv, TInv, From
  <1>. QED
    BY <1>5, <1>6

LEMMA InitSInv == Init => SInv
  <1> SUFFICES ASSUME Init PROVE SInv
    OBVIOUS
  <1>1. TInv
    BY InitTInv
  <1>2. \A b \in Block : \A p \in Points(b) : label[b][p] = id[p]
    BY DEF Init
  <1>3. LabelsStay
    BY <1>2 DEF LabelsStay
  <1>4. MergeStays
    BY DEF Init, Empty, MergeStays
  <1>. QED
    BY <1>1, <1>3, <1>4 DEF SInv

LEMMA NextSInv ==
  ASSUME SInv, [Next]_vars
  PROVE  SInv'
  <1>1. TInv' /\ arg' = arg /\ near' = near /\ id' = id
    BY NextTInv, GivenStays DEF SInv, TInv
  <1>2. \A b \in Block : Points(b)' = Points(b)
    BY <1>1 DEF Points
  <1>3. /\ Apart' <=> Apart
        /\ \A S, l : From(S, l)' <=> From(S, l)
    BY <1>1 DEF Apart, From
  <1>4. SUFFICES
          /\ MergeStays'
          /\ pc' # "done" /\ (arg.grid => Apart) =>
               \A b \in Block : \A S \in arg.components : \A p \in S \cap Points(b) :
                 From(S, label'[b][p])
    <2>1. LabelsStay'
      BY <1>1, <1>2, <1>3, <1>4 DEF LabelsStay, From
    <2>. QED
      BY <1>1, <1>4, <2>1 DEF SInv
  <1>5. ASSUME pc # "done", arg.grid => Apart, NEW b \in Block,
               NEW S \in arg.components, NEW p \in S \cap Points(b)
        PROVE  From(S, label[b][p])
    BY <1>5 DEF SInv, LabelsStay, From
  <1>6. ASSUME merge' = merge PROVE MergeStays'
    BY <1>1, <1>3, <1>6 DEF SInv, MergeStays
  <1>7. CASE Gather
    <2>1. ASSUME Apart, NEW k \in DOMAIN merge', NEW S \in arg.components, From(S, k)
          PROVE  From(S, merge'[k])
      <3>1. k \in {Higher(t) : t \in Pairs} /\ merge'[k] = Lower(LastPair(k)) /\ pc = "local"
        BY <1>7, <2>1 DEF Gather
      <3>2. LastPair(k) \in Pairs /\ Higher(LastPair(k)) = k
        BY <3>1, LastPairIsPair DEF SInv
      <3>. QED
        BY <2>1, <3>1, <3>2, PairStays
    <2>2. MergeStays'
      BY <1>1, <1>3, <2>1 DEF MergeStays
    <2>3. label' = label /\ pc # "done"
      BY <1>7 DEF Gather
    <2>. QED
      BY <1>5, <2>2, <2>3
  <1>8. CASE Resolve
    <2>1. ASSUME Apart, NEW k \in DOMAIN merge', NEW S \in arg.components, From(S, k)
          PROVE  From(S, merge'[k])
      BY <1>8, <2>1 DEF Resolve, Unresolved, SInv, MergeStays
    <2>2. MergeStays'
      BY <1>1, <1>3, <2>1 DEF MergeStays
    <2>3. label' = label /\ pc # "done"
      BY <1>8 DEF Resolve
    <2>. QED
      BY <1>5, <2>2, <2>3
  <1>9. CASE ApplySparse
    <2>1. MergeStays'
      BY <1>9 DEF ApplySparse, Empty, MergeStays
    <2>2. ASSUME pc' # "done", arg.grid => Apart, NEW b \in Block,
                 NEW S \in arg.components, NEW p \in S \cap Points(b)
          PROVE  From(S, label'[b][p])
      <3>1. From(S, label[b][p]) /\ Apart
        BY <1>5, <1>9, <2>2 DEF ApplySparse, SInv, TInv, GridStages
      <3>2. From(S, Replaced(label[b][p]))
        BY <3>1 DEF Replaced, SInv, MergeStays
      <3>3. label'[b][p] = IF OverFace(b, p) THEN Replaced(label[b][p]) ELSE label[b][p]
        BY <1>9 DEF ApplySparse
      <3>. QED
        BY <3>1, <3>2, <3>3
    <2>. QED
      BY <2>1, <2>2
  <1>10. CASE Pass
    <2>1. MergeStays' /\ pc # "done" /\ label' = Lowered
      BY <1>6, <1>10 DEF Pass
    <2>2. ASSUME pc' # "done", arg.grid => Apart, NEW b \in Block,
                 NEW S \in arg.components, NEW p \in S \cap Points(b)
          PROVE  From(S, label'[b][p])
      <3>1. PICK q \in near[b][p] : Least(b, p) = label[b][q]
        BY LeastIsLeast DEF SInv
      <3>2. q \in S \cap Points(b)
        BY <3>1, SameComponent, NearPoints DEF SInv, TInv
      <3>3. From(S, Least(b, p)) /\ From(S, label[b][p])
        BY <1>5, <2>1, <2>2, <3>1, <3>2
      <3>4. label'[b][p] \in {Least(b, p), label[b][p]}
        BY <2>1 DEF Lowered
      <3>. QED
        BY <3>3, <3>4
    <2>. QED
      BY <2>1, <2>2
  <1>11. CASE Exchange
    <2>1. MergeStays' /\ pc # "done" /\ label' = Exchanged
      BY <1>6, <1>11 DEF Exchange
    <2>2. ASSUME pc' # "done", arg.grid => Apart, NEW b \in Block,
                 NEW S \in arg.components, NEW p \in S \cap Points(b)
          PROVE  From(S, label'[b][p])
      <3>1. p \in Colored(arg.old)
        BY NearPoints DEF SInv, TInv
      <3>2. Of(p) \in Block /\ p \in Points(Of(p))
        BY <3>1, OwnPoint DEF SInv, TInv
      <3>3. From(S, label[Of(p)][p])
        BY <1>5, <2>1, <2>2, <3>2
      <3>. QED
        BY <2>1, <3>3 DEF Exchanged, Label
    <2>. QED
      BY <2>1, <2>2
  <1>12. CASE Again
    BY <1>5, <1>6, <1>12 DEF Again
  <1>13. CASE LoopBreak
    BY <1>5, <1>6, <1>13 DEF LoopBreak
  <1>14. CASE Keep
    BY <1>5, <1>6, <1>14 DEF Keep
  <1>15. CASE Renew
    BY <1>5, <1>6, <1>15 DEF Renew
  <1>16. CASE ApplyColors
    BY <1>6, <1>16 DEF ApplyColors
  <1>17. CASE UNCHANGED vars
    BY <1>5, <1>6, <1>17 DEF vars
  <1>. QED
    BY <1>7, <1>8, <1>9, <1>10, <1>11, <1>12, <1>13, <1>14, <1>15, <1>16, <1>17 DEF Next, Done

\* No label leaves its component, in inner and halo cells of every block: with the
\* sparse grid if components share no fixed or merged label, without it always.
THEOREM LabelsStayInComponents == Spec => []LabelsStay
  <1>1. SInv /\ [Next]_vars => SInv'
    BY NextSInv
  <1>2. SInv => LabelsStay
    BY DEF SInv
  <1>. QED
    BY InitSInv, <1>1, <1>2, PTL DEF Spec
-----------------------------------------------------------------------------
(***************************************************************************)
(* Labels fall, and the loop does not end before neighbours agree.         *)
(***************************************************************************)
MergeFalls == \A k \in DOMAIN merge : merge[k] < k

LabelsOfBlocks == label = [b \in Block |-> label[b]]

\* The halo cells have the labels of their owners, as long as nothing has changed.
Fresh ==
  pc \in {"local", "reduce", "check"} \/ (pc = "min" /\ changed = {} /\ ~arg.grid) =>
    \A b \in Block : \A p \in Points(b) : label[b][p] = Label(p)

\* The sparse grid may leave them behind, but only above.
Above ==
  pc = "min" /\ changed = {} =>
    \A b \in Block : \A p \in Points(b) : Label(p) <= label[b][p]

Agree == \A b \in Block : \A p \in Points(b) : \A q \in near[b][p] : Label(p) = Label(q)

Agreed == pc = "check" /\ changed = {} /\ (arg.grid => arg.unionfind) => Agree

LInv == TInv /\ MergeFalls /\ LabelsOfBlocks /\ Fresh /\ Above /\ Agreed /\ Settled

LEMMA ReplacedFalls ==
  ASSUME LInv, NEW l \in Nat
  PROVE  Replaced(l) \in Nat /\ Replaced(l) <= l
  BY DEF LInv, TInv, TypeOK, MergeFalls, Replaced

\* A point whose block has nothing left to lower agrees with its neighbours in one
\* direction: union-find from above, since the halo cells are not below their owners,
\* the iterative variant from below.
LEMMA OneDirection ==
  ASSUME LInv, pc = "min", Lowered = label, changed = {}, arg.grid => arg.unionfind,
         NEW p \in Colored(arg.old), NEW q \in near[Of(p)][p]
  PROVE  IF arg.unionfind THEN Label(q) <= Label(p) ELSE Label(p) <= Label(q)
  <1> DEFINE b == Of(p)
  <1>1. b \in Block /\ p \in Points(b) /\ q \in Points(b)
    BY OwnPoint, NearPoints DEF LInv, TInv
  <1>2. p \in near[b][q] /\ q \in Colored(arg.old)
    BY <1>1, NearBoth DEF LInv, TInv
  <1>3. label[b][p] = Least(b, p)
    BY <1>1 DEF Lowered
  <1>4. label[b][p] <= label[b][q]
    BY <1>1, <1>3, LeastIsLeast DEF LInv
  <1>5. label[b][p] \in Nat /\ label[b][q] \in Nat /\ Label(p) = label[b][p] /\ Label(q) \in Nat
    BY <1>1, <1>2, OwnLabel DEF LInv, TInv, TypeOK, Label
  <1>6. CASE arg.unionfind
    <2>1. label[b][q] = Least(b, q)
      BY <1>1, <1>6 DEF Lowered
    <2>2. label[b][q] <= label[b][p]
      BY <1>1, <1>2, <2>1, LeastIsLeast DEF LInv
    <2>3. Label(q) <= label[b][q]
      BY <1>1 DEF LInv, Above
    <2>. QED
      BY <1>5, <1>6, <2>2, <2>3
  <1>7. CASE ~arg.unionfind
    <2>1. label[b][q] = Label(q)
      BY <1>1, <1>7 DEF LInv, Fresh
    <2>. QED
      BY <1>4, <1>5, <1>7, <2>1
  <1>. QED
    BY <1>6, <1>7

LEMMA AgreeWhenLowered ==
  ASSUME LInv, pc = "min", Lowered = label, changed = {}, arg.grid => arg.unionfind
  PROVE  Agree
  <1> SUFFICES ASSUME NEW b \in Block, NEW p \in Points(b), NEW q \in near[b][p]
               PROVE  Label(p) = Label(q)
    BY DEF Agree
  <1>1. /\ p \in Colored(arg.old) /\ q \in Colored(arg.old)
        /\ q \in near[Of(p)][p] /\ p \in near[Of(q)][q]
    BY NearBoth DEF LInv, TInv
  <1>2. /\ IF arg.unionfind THEN Label(q) <= Label(p) ELSE Label(p) <= Label(q)
        /\ IF arg.unionfind THEN Label(p) <= Label(q) ELSE Label(q) <= Label(p)
    BY <1>1, OneDirection
  <1>3. Label(p) \in Nat /\ Label(q) \in Nat
    BY <1>1, OwnLabel DEF LInv
  <1>. QED
    BY <1>2, <1>3

LEMMA InitLInv == Init => LInv
  <1> SUFFICES ASSUME Init PROVE LInv
    OBVIOUS
  <1>1. TInv
    BY InitTInv
  <1>2. \A b \in Block : \A p \in Points(b) : label[b][p] = id[p]
    BY DEF Init
  <1>3. \A b \in Block : \A p \in Points(b) :
          Of(p) \in Block /\ p \in Points(Of(p)) /\ id[p] \in Nat
    BY <1>1, OwnPoint, NearPoints DEF TInv, TypeOK
  <1>4. \A b \in Block : \A p \in Points(b) : Label(p) = label[b][p] /\ label[b][p] \in Nat
    BY <1>2, <1>3 DEF Label
  <1>5. Fresh /\ Above
    BY <1>4 DEF Fresh, Above
  <1>6. pc \in {"local", "min"} /\ merge = Empty
    BY DEF Init, LoopBegin
  <1>7. Agreed /\ Settled
    BY <1>6 DEF Agreed, Settled
  <1>8. MergeFalls
    BY <1>6 DEF MergeFalls, Empty
  <1>9. LabelsOfBlocks
    BY DEF Init, LabelsOfBlocks
  <1>. QED
    BY <1>1, <1>5, <1>7, <1>8, <1>9 DEF LInv
\* Applying the sparse map lowers labels, those of inner cells always.
LEMMA SparseLowers ==
  ASSUME LInv, ApplySparse, NEW b \in Block, NEW p \in Points(b)
  PROVE  /\ label'[b][p] \in {label[b][p], Replaced(label[b][p])}
         /\ Of(p) = b => label'[b][p] = Replaced(label[b][p])
         /\ label[b][p] \in Nat
  BY DEF LInv, TInv, TypeOK, ApplySparse, OverFace

LEMMA NextLInv ==
  ASSUME LInv, [Next]_vars
  PROVE  LInv'
  <1>1. TInv' /\ arg' = arg /\ near' = near /\ id' = id
    BY NextTInv, GivenStays DEF LInv, TInv
  <1>2. \A b \in Block : Points(b)' = Points(b)
    BY <1>1 DEF Points
  <1>3. ASSUME label' = label
        PROVE  LabelsOfBlocks' /\ (Agree' <=> Agree) /\ \A p : Label(p)' = Label(p)
    <2>1. LabelsOfBlocks'
      BY <1>1, <1>2, <1>3 DEF LInv, LabelsOfBlocks
    <2>2. \A p : Label(p)' = Label(p)
      BY <1>3 DEF Label
    <2>3. Agree' <=> Agree
      BY <1>1, <1>3 DEF Agree, Label, Points
    <2>. QED
      BY <2>1, <2>2, <2>3
  <1>4. CASE Gather
    <2>1. MergeFalls'
      BY <1>4, LastPairIsPair, PairType DEF Gather, MergeFalls, LInv
    <2>2. Fresh' /\ Above' /\ Agreed' /\ Settled'
      BY <1>4 DEF Gather, Fresh, Above, Agreed, Settled, LInv, Label, Points
    <2>. QED
      BY <1>1, <1>3, <1>4, <2>1, <2>2 DEF Gather, LInv
  <1>5. CASE Resolve
    <2>1. ASSUME NEW k \in DOMAIN merge' PROVE merge'[k] < k
      <3>1. k \in DOMAIN merge /\ merge[k] \in Nat /\ k \in Nat /\ merge[k] < k
        BY <1>5 DEF Resolve, LInv, TInv, TypeOK, MergeFalls
      <3>2. k \in Unresolved => merge[merge[k]] < merge[k] /\ merge[merge[k]] \in Nat
        BY DEF Unresolved, LInv, TInv, TypeOK, MergeFalls
      <3>3. merge'[k] = IF k \in Unresolved THEN merge[merge[k]] ELSE merge[k]
        BY <1>5, <3>1 DEF Resolve
      <3>. QED
        BY <3>1, <3>2, <3>3
    <2>2. Fresh' /\ Above' /\ Agreed' /\ Settled'
      BY <1>5 DEF Resolve, Fresh, Above, Agreed, Settled, LInv, Label, Points
    <2>. QED
      BY <1>1, <1>3, <1>5, <2>1, <2>2 DEF Resolve, LInv, MergeFalls
  <1>6. CASE ApplySparse
    <2>1. pc' = "min" /\ arg.grid
      BY <1>6 DEF ApplySparse, LInv, TInv, GridStages
    <2>2. ASSUME NEW b \in Block, NEW p \in Points(b)
          PROVE  label'[Of(p)][p] <= label'[b][p]
      <3>1. Of(p) \in Block /\ p \in Points(Of(p))
        BY OwnPoint, NearPoints DEF LInv, TInv
      <3>2. label[b][p] = label[Of(p)][p]
        BY <1>6 DEF ApplySparse, LInv, Fresh, Label
      <3>3. label'[Of(p)][p] = Replaced(label[Of(p)][p])
        BY <1>6, <3>1, SparseLowers
      <3>4. label'[b][p] \in {label[b][p], Replaced(label[b][p])} /\ label[b][p] \in Nat
        BY <1>6, SparseLowers
      <3>. QED
        BY <3>2, <3>3, <3>4, ReplacedFalls
    <2>3. Above'
      BY <1>2, <2>2 DEF Above, Label
    <2>4. Fresh' /\ Agreed' /\ Settled'
      BY <1>1, <2>1 DEF Fresh, Agreed, Settled
    <2>5. MergeFalls' /\ LabelsOfBlocks'
      BY <1>6 DEF ApplySparse, MergeFalls, Empty, LabelsOfBlocks
    <2>. QED
      BY <1>1, <2>3, <2>4, <2>5 DEF LInv
  <1>7. CASE Pass
    <2>1. label' = Lowered /\ label' # label /\ pc' = "min"
          /\ changed' = changed \cup {b \in Block : label'[b] # label[b]}
      BY <1>7 DEF Pass
    <2>2. LabelsOfBlocks'
      BY <2>1 DEF Lowered, LabelsOfBlocks
    <2>3. label' = [b \in Block |-> label'[b]] /\ label = [b \in Block |-> label[b]]
      BY <2>2 DEF LInv, LabelsOfBlocks
    <2>4. \E b \in Block : label'[b] # label[b]
      BY <2>1, <2>3
    <2>5. changed' # {}
      BY <2>1, <2>4
    <2>6. Fresh' /\ Above' /\ Agreed' /\ Settled'
      BY <2>1, <2>5 DEF Fresh, Above, Agreed, Settled
    <2>7. MergeFalls'
      BY <1>7 DEF Pass, MergeFalls, LInv
    <2>. QED
      BY <1>1, <2>2, <2>6, <2>7 DEF LInv
  <1>8. CASE Exchange
    <2>1. label' = Exchanged /\ pc' = "check" /\ changed' = changed /\ merge' = merge
          /\ pc = "min" /\ Lowered = label
      BY <1>8 DEF Exchange
    <2>2. ASSUME NEW p \in Colored(arg.old) PROVE Label(p)' = Label(p)
      BY <2>1, OwnPoint DEF Exchanged, Label, LInv, TInv
    <2>3. ASSUME NEW b \in Block, NEW p \in Points(b) PROVE label'[b][p] = Label(p)'
      <3>1. p \in Colored(arg.old)
        BY NearPoints DEF LInv, TInv
      <3>. QED
        BY <2>1, <2>2, <3>1 DEF Exchanged
    <2>4. Fresh'
      BY <1>2, <2>3 DEF Fresh
    <2>5. ASSUME changed = {}, arg.grid => arg.unionfind PROVE Agree'
      <3>1. Agree
        BY <2>1, <2>5, AgreeWhenLowered
      <3>2. \A b \in Block : \A p \in Points(b) : \A q \in near[b][p] :
              p \in Colored(arg.old) /\ q \in Colored(arg.old)
        BY NearBoth DEF LInv, TInv
      <3>3. \A b \in Block : \A p \in Points(b) : \A q \in near[b][p] : Label(p)' = Label(q)'
        BY <3>1, <3>2, <2>2 DEF Agree
      <3>. QED
        BY <1>1, <1>2, <3>3 DEF Agree
    <2>6. Agreed' /\ Above' /\ Settled'
      BY <1>1, <2>1, <2>5 DEF Agreed, Above, Settled
    <2>7. MergeFalls' /\ LabelsOfBlocks'
      BY <2>1 DEF MergeFalls, LabelsOfBlocks, Exchanged, LInv
    <2>. QED
      BY <1>1, <2>4, <2>6, <2>7 DEF LInv
  <1>9. CASE Again
    <2>1. label' = label /\ merge' = merge /\ pc = "check" /\ pc' \in {"local", "min"}
      BY <1>9 DEF Again, LoopBegin
    <2>2. ASSUME NEW b \in Block, NEW p \in Points(b)
          PROVE  label'[b][p] = Label(p)' /\ Label(p)' <= label'[b][p]
      <3>1. label[b][p] = Label(p) /\ label[b][p] \in Nat
        BY <2>1 DEF LInv, Fresh, TInv, TypeOK
      <3>. QED
        BY <1>3, <2>1, <3>1
    <2>3. Fresh' /\ Above'
      BY <1>2, <2>2 DEF Fresh, Above
    <2>4. Agreed' /\ Settled'
      BY <2>1 DEF Agreed, Settled
    <2>5. MergeFalls'
      BY <2>1 DEF MergeFalls, LInv
    <2>. QED
      BY <1>1, <1>3, <2>1, <2>3, <2>4, <2>5 DEF LInv
  <1>10. CASE LoopBreak \/ Keep \/ Renew
    <2>1. label' = label /\ merge' = merge /\ pc' = "colors" /\ changed' = changed
      BY <1>10 DEF LoopBreak, Keep, Renew
    <2>3. (arg.grid => arg.unionfind) => Agree
      BY <1>10 DEF LoopBreak, Keep, Renew, LInv, Agreed, Settled, Agree
    <2>4. (arg.grid => arg.unionfind) => Agree'
      BY <1>3, <2>1, <2>3
    <2>5. Settled'
      BY <1>1, <2>4 DEF Settled, Agree
    <2>6. Fresh' /\ Above' /\ Agreed'
      BY <2>1 DEF Fresh, Above, Agreed
    <2>7. MergeFalls'
      BY <2>1 DEF MergeFalls, LInv
    <2>. QED
      BY <1>1, <1>3, <2>1, <2>5, <2>6, <2>7 DEF LInv
  <1>11. CASE ApplyColors
    <2>1. pc = "colors" /\ pc' = "done" /\ merge' = merge
          /\ label' = [b \in Block |-> [p \in Points(b) |-> color_map[label[b][p]]]]
      BY <1>11 DEF ApplyColors
    <2>2. ASSUME NEW p \in Colored(arg.old) PROVE Label(p)' = color_map[Label(p)]
      BY <2>1, OwnPoint DEF Label, LInv, TInv
    <2>3. ASSUME arg.grid => arg.unionfind, NEW b \in Block, NEW p \in Points(b), NEW q \in near[b][p]
          PROVE  Label(p)' = Label(q)'
      <3>1. Label(p) = Label(q)
        BY <2>1, <2>3 DEF LInv, Settled
      <3>2. p \in Colored(arg.old) /\ q \in Colored(arg.old)
        BY NearBoth DEF LInv, TInv
      <3>. QED
        BY <2>2, <3>1, <3>2
    <2>4. Settled'
      BY <1>1, <1>2, <2>3 DEF Settled
    <2>5. Fresh' /\ Above' /\ Agreed'
      BY <2>1 DEF Fresh, Above, Agreed
    <2>6. MergeFalls' /\ LabelsOfBlocks'
      BY <2>1 DEF MergeFalls, LabelsOfBlocks, LInv
    <2>. QED
      BY <1>1, <2>4, <2>5, <2>6 DEF LInv
  <1>12. CASE UNCHANGED vars
    <2>1. Fresh' /\ Above' /\ Agreed' /\ Settled' /\ MergeFalls'
      BY <1>12 DEF vars, Fresh, Above, Agreed, Settled, MergeFalls, LInv, Agree, Label, Points
    <2>. QED
      BY <1>1, <1>3, <1>12, <2>1 DEF vars, LInv
  <1>. QED
    BY <1>4, <1>5, <1>6, <1>7, <1>8, <1>9, <1>10, <1>11, <1>12 DEF Next, Done

\* When the loop has ended, connected points agree, also across blocks: a round in
\* which no block lowers a label is enough, although it begins with stale halo cells
\* when the sparse grid and union-find are used together.
THEOREM LoopEndsSettled == Spec => []Settled
  <1>1. LInv /\ [Next]_vars => LInv'
    BY NextLInv
  <1>2. LInv => Settled
    BY DEF LInv
  <1>. QED
    BY InitLInv, <1>1, <1>2, PTL DEF Spec

\* The label of a point in its block falls: also when halo cells are overwritten.
LEMMA StepFalls ==
  ASSUME LInv, [Next]_vars, pc # "colors", NEW p \in DOMAIN id
  PROVE  label'[Of(p)][p] <= Label(p)
  <1> DEFINE b == Of(p)
  <1>1. p \in Colored(arg.old) /\ b \in Block /\ p \in Points(b)
    BY OwnPoint DEF LInv, TInv, TypeOK
  <1>2. Label(p) = label[b][p] /\ Label(p) \in Nat
    BY <1>1, OwnLabel DEF LInv, Label
  <1>3. CASE ApplySparse
    BY <1>1, <1>2, <1>3, SparseLowers, ReplacedFalls
  <1>4. CASE Pass
    <2>1. label'[b][p] = Least(b, p)
      BY <1>1, <1>4 DEF Pass, Lowered
    <2>2. p \in near[b][p]
      BY <1>1, NearPoints DEF LInv, TInv
    <2>. QED
      BY <1>1, <1>2, <2>1, <2>2, LeastIsLeast DEF LInv
  <1>5. CASE Exchange
    BY <1>1, <1>2, <1>5 DEF Exchange, Exchanged
  <1>6. CASE label' = label
    BY <1>2, <1>6
  <1>. QED
    BY <1>3, <1>4, <1>5, <1>6 DEF Next, Done, vars, Gather, Resolve, Again, LoopBreak, Keep, Renew,
       ApplyColors

\* Until the colors are reduced no action raises the label of a point in its block,
\* the replacement by the sparse map and the exchange of halo cells included.
THEOREM LabelsOnlyFall == Spec => LabelsFall
  <1>1. LInv /\ [Next]_vars => LInv'
    BY NextLInv
  <1>2. LInv /\ [Next]_vars =>
          [pc # "colors" => \A p \in DOMAIN id : label'[Of(p)][p] <= Label(p)]_vars
    BY StepFalls
  <1>. QED
    BY InitLInv, <1>1, <1>2, PTL DEF Spec, LabelsFall
-----------------------------------------------------------------------------
(***************************************************************************)
(* The colors of ReduceColor.                                              *)
(***************************************************************************)
\* A color is the fixed one, the known one of its label, or above all known ones.
KindOf(k) ==
  \/ arg.fixed # {} /\ k = 0 /\ color_map[k] = 0
  \/ k \in DOMAIN stable_map /\ color_map[k] = stable_map[k]
  \/ \A l \in DOMAIN stable_map : stable_map[l] < color_map[k]

\* The label 0 has the fixed color, or the known color of the label is in use.
Served(k) ==
  (arg.fixed # {} /\ k = 0) \/ \E j \in DOMAIN color_map : color_map[j] = stable_map[k]

OneToOne ==
  \A k, l \in DOMAIN color_map : color_map[k] = color_map[l] => k = l

\* While the root gives colors, it gives each one once, and there are more.
Colors ==
  /\ OneToOne
  /\ \A k \in DOMAIN color_map : color_map[k] < cl_next /\ KindOf(k)
  /\ \A l \in DOMAIN stable_map :
       /\ stable_map[l] < cl_next
       /\ \E b \in Block : \E p \in Points(b) : l = label[b][p]
       /\ l \in DOMAIN color_map => Served(l)

CInv == SInv /\ (pc = "colors" => Colors) /\ Separate /\ KnownColorsKept

\* Another color for the next label.
LEMMA OneMore ==
  ASSUME CInv, pc = "colors", ~Finished, NEW v \in Nat, NEW k, k = NextLabel,
         arg' = arg, near' = near, label' = label, stable_map' = stable_map,
         color_map' = With(color_map, k, v), cl_next' \in Nat,
         cl_next <= cl_next', v < cl_next',
         v \notin Range(color_map), KindOf(k)', k \in DOMAIN stable_map => Served(k)'
  PROVE  Colors'
  <1>1. k \in Nat /\ k \notin DOMAIN color_map
    BY NextLabelIsPending DEF CInv, SInv
  <1>2. color_map' = [l \in DOMAIN color_map \cup {k} |-> IF l = k THEN v ELSE color_map[l]]
    BY DEF With
  <1>3. /\ DOMAIN color_map' = DOMAIN color_map \cup {k}
        /\ color_map'[k] = v
        /\ \A l \in DOMAIN color_map : color_map'[l] = color_map[l]
    BY <1>1, <1>2
  <1>4. /\ Colors /\ cl_next \in Nat
        /\ \A l \in DOMAIN color_map : color_map[l] \in Nat
        /\ \A l \in DOMAIN stable_map : stable_map[l] \in Nat
    BY DEF CInv, SInv, TInv, TypeOK
  <1>5. \A l \in DOMAIN color_map : color_map[l] # v
    BY DEF Range
  <1>6. OneToOne'
    BY <1>3, <1>4, <1>5 DEF OneToOne, Colors
  <1>7. ASSUME NEW l \in DOMAIN color_map' PROVE color_map'[l] < cl_next' /\ KindOf(l)'
    <2>1. CASE l = k
      BY <1>2, <1>3, <2>1
    <2>2. CASE l \in DOMAIN color_map
      <3>1. color_map[l] < cl_next /\ KindOf(l) /\ color_map'[l] = color_map[l] /\ color_map[l] \in Nat
        BY <1>3, <1>4, <2>2 DEF Colors
      <3>2. color_map'[l] < cl_next'
        BY <3>1, <1>4
      <3>. QED
        BY <3>1, <3>2 DEF KindOf
    <2>. QED
      BY <1>3, <2>1, <2>2
  <1>8. ASSUME NEW l \in DOMAIN stable_map'
        PROVE  /\ stable_map'[l] < cl_next'
               /\ (\E b \in Block : \E p \in Points(b) : l = label[b][p])'
               /\ l \in DOMAIN color_map' => Served(l)'
    <2>1. /\ stable_map[l] < cl_next /\ stable_map[l] \in Nat
          /\ \E b \in Block : \E p \in Points(b) : l = label[b][p]
          /\ l \in DOMAIN color_map => Served(l)
      BY <1>4 DEF Colors
    <2>2. stable_map'[l] < cl_next'
      BY <2>1, <1>4
    <2>3. (\E b \in Block : \E p \in Points(b) : l = label[b][p])'
      BY <2>1 DEF Points
    <2>4. l \in DOMAIN color_map => Served(l)'
      BY <1>3, <2>1 DEF Served
    <2>. QED
      BY <1>2, <1>3, <2>2, <2>3, <2>4
  <1>. QED
    BY <1>6, <1>7, <1>8 DEF Colors

LEMMA InitCInv == Init => CInv
  <1> SUFFICES ASSUME Init PROVE CInv
    OBVIOUS
  <1>1. pc \in {"local", "min"}
    BY DEF Init, LoopBegin
  <1>. QED
    BY <1>1, InitSInv DEF CInv, Separate, KnownColorsKept

LEMMA NextCInv ==
  ASSUME CInv, [Next]_vars
  PROVE  CInv'
  <1>1. SInv' /\ arg' = arg /\ near' = near /\ id' = id
    BY NextSInv, GivenStays DEF CInv, SInv, TInv
  <1>2. CASE Gather \/ Resolve \/ ApplySparse \/ Pass \/ Exchange \/ Again
    <2>1. pc' \notin {"colors", "done"}
      BY <1>2 DEF Gather, Resolve, ApplySparse, Pass, Exchange, Again, LoopBegin
    <2>. QED
      BY <1>1, <2>1 DEF CInv, Separate, KnownColorsKept
  <1>3. CASE LoopBreak
    <2>1. /\ pc' = "colors" /\ stable_map' = PairToMap /\ label' = label
          /\ color_map' = IF arg.fixed # {} THEN With(Empty, 0, 0) ELSE Empty
          /\ cl_next' = Max({0} \cup Range(PairToMap)) + 1
      BY <1>3 DEF LoopBreak
    <2>2. \A k \in DOMAIN color_map' : arg.fixed # {} /\ k = 0 /\ color_map'[k] = 0
      BY <2>1 DEF With, Empty
    <2>3. cl_next' \in Nat /\ 0 < cl_next'
      BY <2>1, KnownColors DEF CInv, SInv
    <2>4. ASSUME NEW l \in DOMAIN PairToMap
          PROVE  /\ PairToMap[l] < cl_next'
                 /\ \E b \in Block : \E p \in Points(b) : l = label[b][p]
      <3>1. /\ PairToMap[l] \in Nat /\ Max({0} \cup Range(PairToMap)) \in Nat
            /\ PairToMap[l] <= Max({0} \cup Range(PairToMap))
            /\ \E b \in Block : \E p \in Points(b) : l = label[b][p]
        BY KnownColors DEF CInv, SInv
      <3>. QED
        BY <2>1, <3>1
    <2>5. OneToOne'
      BY <2>2 DEF OneToOne
    <2>6. \A k \in DOMAIN color_map' : color_map'[k] < cl_next' /\ KindOf(k)'
      BY <1>1, <2>2, <2>3 DEF KindOf
    <2>7. ASSUME NEW l \in DOMAIN stable_map'
          PROVE  /\ stable_map'[l] < cl_next'
                 /\ (\E b \in Block : \E p \in Points(b) : l = label[b][p])'
                 /\ l \in DOMAIN color_map' => Served(l)'
      <3>1. stable_map'[l] < cl_next' /\ \E b \in Block : \E p \in Points(b) : l = label[b][p]
        BY <2>1, <2>4
      <3>2. (\E b \in Block : \E p \in Points(b) : l = label[b][p])'
        BY <1>1, <2>1, <3>1 DEF Points
      <3>3. l \in DOMAIN color_map' => Served(l)'
        BY <1>1, <2>2 DEF Served
      <3>. QED
        BY <3>1, <3>2, <3>3
    <2>8. Colors'
      BY <2>5, <2>6, <2>7 DEF Colors
    <2>. QED
      BY <1>1, <2>1, <2>8 DEF CInv, Separate, KnownColorsKept
  <1>4. CASE Keep
    <2>1. PICK k \in Nat : k = NextLabel
      BY <1>4, NextLabelIsPending DEF Keep, CInv, SInv
    <2>2. PICK v \in Nat : v = stable_map[k]
      BY <1>4, <2>1 DEF Keep, Keeps, CInv, SInv, TInv, TypeOK
    <2>3. /\ pc = "colors" /\ pc' = "colors" /\ ~Finished /\ label' = label
          /\ stable_map' = stable_map /\ cl_next' = cl_next
          /\ color_map' = With(color_map, k, v)
          /\ k \in DOMAIN stable_map /\ v \notin Range(color_map)
      BY <1>4, <2>1, <2>2 DEF Keep, Keeps
    <2>4. cl_next \in Nat /\ v < cl_next
      BY <2>2, <2>3 DEF CInv, SInv, TInv, TypeOK, Colors
    <2>5. k \in DOMAIN color_map' /\ color_map'[k] = v
      BY <2>3 DEF With
    <2>6. KindOf(k)' /\ Served(k)'
      BY <2>2, <2>3, <2>5 DEF KindOf, Served
    <2>7. Colors'
      BY <1>1, <2>1, <2>3, <2>4, <2>6, OneMore
    <2>. QED
      BY <1>1, <2>3, <2>7 DEF CInv, Separate, KnownColorsKept
  <1>5. CASE Renew
    <2>1. PICK k \in Nat : k = NextLabel
      BY <1>5, NextLabelIsPending DEF Renew, CInv, SInv
    <2>2. PICK v \in Nat : v = cl_next
      BY DEF CInv, SInv, TInv, TypeOK
    <2>3. /\ pc = "colors" /\ pc' = "colors" /\ ~Finished /\ label' = label
          /\ stable_map' = stable_map /\ cl_next' = v + 1
          /\ color_map' = With(color_map, k, v)
          /\ k \in DOMAIN stable_map => stable_map[k] \in Range(color_map)
      BY <1>5, <2>1, <2>2 DEF Renew, Keeps
    <2>4. /\ \A l \in DOMAIN color_map : color_map[l] < v /\ color_map[l] \in Nat
          /\ \A l \in DOMAIN stable_map : stable_map[l] < v
      BY <2>2, <2>3 DEF CInv, SInv, TInv, TypeOK, Colors
    <2>5. v \notin Range(color_map)
      BY <2>4 DEF Range
    <2>6. /\ k \in DOMAIN color_map' /\ color_map'[k] = v
          /\ \A l \in DOMAIN color_map : l \in DOMAIN color_map' /\ (l # k => color_map'[l] = color_map[l])
      BY <2>3 DEF With
    <2>7. KindOf(k)'
      BY <2>3, <2>4, <2>6 DEF KindOf
    <2>8. ASSUME k \in DOMAIN stable_map PROVE Served(k)'
      <3>1. PICK j \in DOMAIN color_map : color_map[j] = stable_map[k]
        BY <2>3, <2>8 DEF Range
      <3>2. j # k
        BY <2>1, <2>3, NextLabelIsPending DEF CInv, SInv
      <3>3. j \in DOMAIN color_map' /\ color_map'[j] = stable_map'[k]
        BY <2>3, <2>6, <3>1, <3>2
      <3>. QED
        BY <3>3 DEF Served
    <2>9. v + 1 \in Nat /\ v <= v + 1 /\ v < v + 1
      OBVIOUS
    <2>10. Colors'
      BY <1>1, <2>1, <2>2, <2>3, <2>5, <2>7, <2>8, <2>9, OneMore
    <2>. QED
      BY <1>1, <2>3, <2>10 DEF CInv, Separate, KnownColorsKept
  <1>6. CASE ApplyColors
    <2>1. /\ pc = "colors" /\ pc' = "done" /\ Finished /\ Colors
          /\ label' = [b \in Block |-> [p \in Points(b) |-> color_map[label[b][p]]]]
          /\ stable_map' = stable_map /\ color_map' = color_map
      BY <1>6 DEF ApplyColors, CInv
    <2>2. \A b \in Block : \A p \in Points(b) : label[b][p] \in DOMAIN color_map
      BY <2>1 DEF Finished, Pending, Labels
    <2>3. ASSUME Apart, NEW S \in arg.components, NEW T \in arg.components, S # T,
                 NEW p \in S, NEW q \in T
          PROVE  Label(p)' # Label(q)'
      <3>1. p \in Colored(arg.old) /\ q \in Colored(arg.old)
        <4>1. UNION arg.components = Colored(arg.old)
          BY InputAssumption DEF CInv, SInv, TInv, Given
        <4>. QED
          BY <2>3, <4>1
      <3>2. /\ Of(p) \in Block /\ p \in Points(Of(p))
            /\ Of(q) \in Block /\ q \in Points(Of(q))
        BY <3>1, OwnPoint DEF CInv, SInv, TInv
      <3>3. From(S, label[Of(p)][p]) /\ From(T, label[Of(q)][q])
        BY <2>1, <2>3, <3>2 DEF CInv, SInv, LabelsStay, From
      <3>4. label[Of(p)][p] # label[Of(q)][q]
        BY <2>3, <3>3, ApartIsDistinct DEF CInv, SInv, TInv, From
      <3>5. Label(p)' = color_map[label[Of(p)][p]] /\ Label(q)' = color_map[label[Of(q)][q]]
        BY <2>1, <3>2 DEF Label
      <3>. QED
        BY <2>1, <2>2, <3>2, <3>4, <3>5 DEF Colors, OneToOne
    <2>4. Separate'
      BY <1>1, <2>3 DEF Separate, Apart
    <2>5. ASSUME NEW l \in DOMAIN stable_map, arg.fixed # {} => l # 0 /\ stable_map[l] # 0
          PROVE  \E k \in DOMAIN stable_map : stable_map[k] = stable_map[l] /\ color_map[k] = stable_map[l]
      <3>1. l \in DOMAIN color_map
        BY <2>1, <2>2 DEF Colors
      <3>2. PICK j \in DOMAIN color_map : color_map[j] = stable_map[l]
        BY <2>1, <2>5, <3>1 DEF Colors, Served
      <3>3. KindOf(j) /\ stable_map[l] \in Nat
        BY <2>1, <3>2 DEF Colors, CInv, SInv, TInv, TypeOK
      <3>4. ~(stable_map[l] < color_map[j])
        BY <3>2, <3>3
      <3>5. j \in DOMAIN stable_map /\ color_map[j] = stable_map[j]
        BY <2>5, <3>2, <3>3, <3>4 DEF KindOf
      <3>. QED
        BY <3>2, <3>5
    <2>6. KnownColorsKept'
      BY <1>1, <2>1, <2>5 DEF KnownColorsKept
    <2>. QED
      BY <1>1, <2>1, <2>4, <2>6 DEF CInv
  <1>7. CASE UNCHANGED vars
    BY <1>1, <1>7 DEF vars, CInv, Colors, OneToOne, KindOf, Served, Points, Separate, Apart,
                      Label, KnownColorsKept
  <1>. QED
    BY <1>2, <1>3, <1>4, <1>5, <1>6, <1>7 DEF Next, Done

\* Components that share no fixed or merged label have different colors at the end,
\* whatever colors were known before and whether components have split or merged.
THEOREM ColorsSeparate == Spec => []Separate
  <1>1. CInv /\ [Next]_vars => CInv'
    BY NextCInv
  <1>2. CInv => Separate
    BY DEF CInv
  <1>. QED
    BY InitCInv, <1>1, <1>2, PTL DEF Spec

\* Every known color goes to a component that had it, the fixed color excepted: a color
\* that is refused to a label is in use for another label that asked for the same one.
THEOREM ColorsKept == Spec => []KnownColorsKept
  <1>1. CInv /\ [Next]_vars => CInv'
    BY NextCInv
  <1>2. CInv => KnownColorsKept
    BY DEF CInv
  <1>. QED
    BY InitCInv, <1>1, <1>2, PTL DEF Spec
=============================================================================
