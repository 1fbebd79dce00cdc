--------------------------- MODULE HaloCellsProofs ---------------------------
(***************************************************************************)
(* Proofs about the geometry of the halo exchange, for every mesh and      *)
(* every stencil.                                                          *)
(*                                                                         *)
(* RowMajor numbers the vectors of a box through, from 0 on: the sums and  *)
(* weights it is made of are a recurrence, and a sum is a number written   *)
(* with one digit per direction.  With the quotients and remainders of     *)
(* cell_to_rank this gives every cell of the mesh one owner.  A set of     *)
(* cells that is put in order is a list of each cell once, since the order *)
(* is total.  What GetRecvCells lists, and what GetSendCells asserts of    *)
(* the requests, follow.                                                   *)
(***************************************************************************)
EXTENDS HaloCells, FiniteSetTheorems, WellFoundedInduction, TLAPS

(***************************************************************************)
(* Least and greatest elements, and induction over an interval.            *)
(***************************************************************************)

\* Min finds the least element of a set of numbers.
LEMMA MinIsLeast ==
  ASSUME NEW S \in SUBSET Nat, S # {}
  PROVE  /\ Min(S) \in S
         /\ \A y \in S : Min(S) <= y
  <1> DEFINE Less == {ss \in Nat \X Nat : ss[1] < ss[2]}
  <1>1. IsWellFoundedOn(Less, Nat)
    BY NatLessThanWellFounded, SMT DEF OpToRel
  <1>. HIDE DEF Less
  <1>2. PICK x \in S : \A y \in S : <<y, x>> \notin Less
    BY <1>1, WFMin
  <1>3. ASSUME NEW y \in S, y < x PROVE FALSE
    <2>1. <<y, x>> \in Nat \X Nat /\ <<y, x>>[1] < <<y, x>>[2]
      BY <1>3
    <2>. QED
      BY <2>1, <1>2, Zenon DEF Less
  <1>4. \A y \in S : x <= y
    BY <1>3
  <1>. QED
    BY <1>4 DEF Min

\* A finite set has an element with the greatest value.
LEMMA FiniteHasGreatest ==
  ASSUME NEW S, IsFiniteSet(S), S # {}, NEW f, \A x \in S : f[x] \in Int
  PROVE  \E x \in S : \A y \in S : f[y] <= f[x]
  <1> DEFINE Greatest(U) == \E x \in U : \A y \in U : f[y] <= f[x]
             Sizes == {k \in Nat : \E U \in SUBSET S : U # {} /\ Cardinality(U) = k /\ ~Greatest(U)}
  <1> SUFFICES ASSUME ~Greatest(S) PROVE FALSE
    OBVIOUS
  <1>1. Cardinality(S) \in Sizes
    BY FS_CardinalityType
  <1>2. PICK k \in Sizes : \A l \in Sizes : k <= l
    <2>1. Sizes \in SUBSET Nat /\ Sizes # {}
      BY <1>1
    <2>. HIDE DEF Sizes
    <2>. QED
      BY <2>1, MinIsLeast
  <1>3. PICK U \in SUBSET S : U # {} /\ Cardinality(U) = k /\ ~Greatest(U)
    BY <1>2
  <1>4. PICK u \in U : TRUE
    BY <1>3
  <1>5. IsFiniteSet(U)
    BY FS_Subset
  <1> DEFINE V == U \ {u}
  <1>6. Cardinality(V) = k - 1 /\ k \in Nat
    BY <1>3, <1>4, <1>5, FS_RemoveElement
  <1>7. IsFiniteSet(V)
    BY <1>5, FS_RemoveElement
  <1>8. Cardinality(V) \in Nat
    BY <1>7, FS_CardinalityType
  <1>9. CASE V = {}
    <2>1. \A y \in U : y = u
      BY <1>9
    <2>2. f[u] <= f[u]
      BY <1>4
    <2>. QED
      BY <1>3, <1>4, <2>1, <2>2
  <1>10. CASE V # {}
    <2>1. k - 1 \notin Sizes
      BY <1>2, <1>6
    <2>2. Greatest(V)
      BY <2>1, <1>6, <1>8, <1>10, <1>3
    <2>3. PICK v \in V : \A y \in V : f[y] <= f[v]
      BY <2>2
    <2>4. f[u] \in Int /\ f[v] \in Int /\ \A y \in V : f[y] \in Int
      BY <1>3, <1>4, <2>3
    <2>5. CASE f[u] <= f[v]
      <3>1. \A y \in U : f[y] <= f[v]
        BY <2>3, <2>5
      <3>. QED
        BY <3>1, <2>3, <1>3
    <2>6. CASE f[v] <= f[u]
      <3>1. \A y \in V : f[y] <= f[u]
        BY <2>3, <2>4, <2>6
      <3>2. \A y \in U : f[y] <= f[u]
        BY <3>1, <2>4
      <3>. QED
        BY <3>2, <1>4, <1>3
    <2>. QED
      BY <2>4, <2>5, <2>6
  <1>. QED
    BY <1>9, <1>10

\* Max finds the greatest element of a finite set of numbers.
LEMMA MaxIsGreatest ==
  ASSUME NEW S \in SUBSET Nat, IsFiniteSet(S), S # {}
  PROVE  /\ Max(S) \in S
         /\ \A y \in S : y <= Max(S)
  <1>1. \A x \in S : [y \in S |-> y][x] \in Int
    OBVIOUS
  <1>2. PICK x \in S : \A y \in S : [z \in S |-> z][y] <= [z \in S |-> z][x]
    BY <1>1, FiniteHasGreatest
  <1>3. \A y \in S : x >= y
    BY <1>2
  <1>. QED
    BY <1>3 DEF Max

\* Induction over an interval, for a set in place of a predicate.
LEMMA IntervalInduction ==
  ASSUME NEW n \in Nat, NEW Good, 0 \in Good,
         \A k \in 1 .. n : k - 1 \in Good => k \in Good
  PROVE  \A k \in 0 .. n : k \in Good
  <1> DEFINE Bad == {k \in 0 .. n : k \notin Good}
  <1> SUFFICES ASSUME Bad # {} PROVE FALSE
    OBVIOUS
  <1>1. Bad \in SUBSET Nat
    OBVIOUS
  <1>2. \A k \in Bad : k \in 0 .. n /\ k \notin Good
    OBVIOUS
  <1>3. \A k \in 0 .. n : k \notin Bad => k \in Good
    OBVIOUS
  <1>. HIDE DEF Bad
  <1>4. PICK k \in Bad : \A l \in Bad : k <= l
    BY <1>1, MinIsLeast
  <1>5. k \in 1 .. n
    BY <1>2
  <1>6. k - 1 \in Good
    BY <1>3, <1>4, <1>5
  <1>. QED
    BY <1>2, <1>5, <1>6

-----------------------------------------------------------------------------
(***************************************************************************)
(* Numbers of several digits.                                              *)
(***************************************************************************)
\* f starts with c and goes on by the factors a and the terms b.
Recurs(f, n, a, b, c) == f[0] = c /\ \A k \in 1 .. n : f[k] = f[k - 1] * a[k] + b[k]

\* A recurrence over an interval has a solution.
LEMMA RecursionExists ==
  ASSUME NEW n \in Nat, NEW a \in [1 .. n -> Int], NEW b \in [1 .. n -> Int], NEW c \in Int
  PROVE  \E f \in [0 .. n -> Int] : Recurs(f, n, a, b, c)
  <1> DEFINE Solves(f, m) == f[0] = c /\ \A k \in 1 .. m : f[k] = f[k - 1] * a[k] + b[k]
             Solved == {m \in 0 .. n : \E f \in [0 .. m -> Int] : Solves(f, m)}
  <1>1. 0 \in Solved
    <2>1. [x \in 0 .. 0 |-> c] \in [0 .. 0 -> Int] /\ Solves([x \in 0 .. 0 |-> c], 0)
      OBVIOUS
    <2>2. \E f \in [0 .. 0 -> Int] : Solves(f, 0)
      <3>. HIDE DEF Solves
      <3>. QED
        BY <2>1, Zenon
    <2>. HIDE DEF Solves
    <2>. QED
      BY <2>2
  <1>2. ASSUME NEW m \in 1 .. n, m - 1 \in Solved PROVE m \in Solved
    <2>1. PICK f \in [0 .. m - 1 -> Int] : Solves(f, m - 1)
      BY <1>2
    <2> DEFINE next == f[m - 1] * a[m] + b[m]
               g == [k \in 0 .. m |-> IF k = m THEN next ELSE f[k]]
    <2>2. next \in Int
      <3>1. f[m - 1] \in Int /\ a[m] \in Int /\ b[m] \in Int
        OBVIOUS
      <3>. QED
        BY <3>1
    <2>3. g \in [0 .. m -> Int]
      BY <2>2
    <2>4. g[0] = c
      BY <2>1
    <2>5. ASSUME NEW k \in 1 .. m PROVE g[k] = g[k - 1] * a[k] + b[k]
      <3>1. CASE k = m
        BY <3>1
      <3>2. CASE k # m
        <4>1. k \in 1 .. m - 1 /\ g[k] = f[k] /\ g[k - 1] = f[k - 1]
          BY <3>2
        <4>. QED
          BY <4>1, <2>1
      <3>. QED
        BY <3>1, <3>2
    <2>. HIDE DEF g
    <2>6. Solves(g, m)
      BY <2>4, <2>5
    <2>. HIDE DEF Solves
    <2>7. \E h \in [0 .. m -> Int] : Solves(h, m)
      BY <2>3, <2>6, Zenon
    <2>. QED
      BY <2>7
  <1>3. \A m \in 0 .. n : m \in Solved
    <2>. HIDE DEF Solved
    <2>. QED
      BY <1>1, <1>2, IntervalInduction
  <1>4. n \in Solved
    <2>. HIDE DEF Solved
    <2>. QED
      BY <1>3
  <1>. QED
    <2>. HIDE DEF Solves
    <2>1. \E f \in [0 .. n -> Int] : Solves(f, n)
      BY <1>4
    <2>. QED
      BY <2>1 DEF Solves, Recurs

\* The weights and the partial sums of RowMajor.
Weights(size) ==
  LET weight[d \in 1 .. dim + 1] == IF d = 1 THEN 1 ELSE weight[d - 1] * size[d - 1]
  IN weight

Sums(v, size) ==
  LET sum[d \in 0 .. dim] == IF d = 0 THEN 0 ELSE sum[d - 1] + v[d] * Weights(size)[d]
  IN sum

\* RowMajor is the last of the partial sums.
LEMMA RowMajorSums ==
  ASSUME NEW v, NEW size
  PROVE  RowMajor(v, size) = Sums(v, size)[dim]
  BY DEF RowMajor, Sums, Weights

\* A vector of positive sizes.
Sized(size) == \A d \in Axis : size[d] \in Nat \ {0}

\* The weight of a direction is the product of the sizes before it.
LEMMA WeightsAre ==
  ASSUME NEW size, Sized(size)
  PROVE  /\ \A d \in 1 .. dim + 1 : Weights(size)[d] \in Nat \ {0}
         /\ Weights(size)[1] = 1
         /\ \A d \in Axis : Weights(size)[d + 1] = Weights(size)[d] * size[d]
  <1> DEFINE Step(w) == [d \in 1 .. dim + 1 |-> IF d = 1 THEN 1 ELSE w[d - 1] * size[d - 1]]
             a == [d \in 1 .. dim |-> size[d]]
             b == [d \in 1 .. dim |-> 0]
             W == Weights(size)
  <1>1. PICK f \in [0 .. dim -> Int] : f[0] = 1 /\ \A k \in 1 .. dim : f[k] = f[k - 1] * a[k] + b[k]
    <2>1. a \in [1 .. dim -> Int] /\ b \in [1 .. dim -> Int] /\ 1 \in Int
      BY DEF Sized, Axis
    <2>. HIDE DEF a, b
    <2>2. PICK f \in [0 .. dim -> Int] : Recurs(f, dim, a, b, 1)
      BY <2>1, RecursionExists, DomainAssumption
    <2>. QED
      BY <2>2 DEF Recurs
  <1> DEFINE w == [d \in 1 .. dim + 1 |-> f[d - 1]]
  <1>2. \A d \in 1 .. dim + 1 : d # 1 => f[d - 1] = f[d - 2] * size[d - 1]
    <2> SUFFICES ASSUME NEW d \in 1 .. dim + 1, d # 1 PROVE f[d - 1] = f[d - 2] * size[d - 1]
      OBVIOUS
    <2>1. d - 1 \in 1 .. dim /\ d - 1 - 1 = d - 2 /\ d - 2 \in 0 .. dim
      BY DomainAssumption
    <2>2. f[d - 2] \in Int /\ size[d - 1] \in Int
      BY <2>1 DEF Sized, Axis
    <2>3. f[d - 1] = f[d - 2] * size[d - 1] + 0
      BY <1>1, <2>1
    <2>. QED
      BY <2>2, <2>3
  <1>3. w = Step(w)
    BY <1>1, <1>2, DomainAssumption
  <1>4. W = Step(W)
    <2> HIDE DEF w
    <2>. QED
      BY <1>3, Zenon DEF Weights
  <1>5. \A d \in 1 .. dim + 1 : W[d] = IF d = 1 THEN 1 ELSE W[d - 1] * size[d - 1]
    BY <1>4
  <1>. HIDE DEF W
  <1>6. W[1] = 1
    BY <1>5, DomainAssumption
  <1>7. ASSUME NEW d \in Axis PROVE W[d + 1] = W[d] * size[d]
    <2>1. d + 1 \in 1 .. dim + 1 /\ d + 1 # 1 /\ d + 1 - 1 = d
      BY DomainAssumption DEF Axis
    <2>2. PICK e \in 1 .. dim + 1 : e = d + 1 /\ e - 1 = d
      BY <2>1, DomainAssumption DEF Axis
    <2>3. W[e] = W[e - 1] * size[e - 1]
      BY <1>5, <2>1, <2>2
    <2>. QED
      BY <2>1, <2>2, <2>3
  <1> DEFINE Good == {k \in Nat : W[k + 1] \in Nat \ {0}}
  <1>8. 0 \in Good
    BY <1>6
  <1>9. ASSUME NEW k \in 1 .. dim, k - 1 \in Good PROVE k \in Good
    <2>1. k \in Axis /\ size[k] \in Nat \ {0} /\ k - 1 + 1 = k
      BY DEF Axis, Sized
    <2>2. W[k] \in Nat \ {0}
      BY <1>9, <2>1
    <2>3. W[k + 1] = W[k] * size[k]
      BY <1>7, <2>1
    <2>4. W[k] * size[k] \in Nat \ {0}
      BY <2>1, <2>2
    <2>. QED
      BY <2>3, <2>4
  <1>10. \A k \in 0 .. dim : k \in Good
    <2>. HIDE DEF Good
    <2>. QED
      BY <1>8, <1>9, IntervalInduction, DomainAssumption
  <1>11. ASSUME NEW d \in 1 .. dim + 1 PROVE W[d] \in Nat \ {0}
    <2>1. d - 1 \in 0 .. dim /\ d - 1 + 1 = d
      BY DomainAssumption
    <2>. QED
      BY <1>10, <2>1
  <1>. QED
    BY <1>6, <1>7, <1>11 DEF W

\* The partial sums of a vector are integers, each got from the one before.
LEMMA SumsAre ==
  ASSUME NEW size, Sized(size), NEW v, \A d \in Axis : v[d] \in Int
  PROVE  /\ \A d \in 0 .. dim : Sums(v, size)[d] \in Int
         /\ Sums(v, size)[0] = 0
         /\ \A d \in Axis : Sums(v, size)[d] = Sums(v, size)[d - 1] + v[d] * Weights(size)[d]
  <1> DEFINE W == Weights(size)
             Step(s) == [d \in 0 .. dim |-> IF d = 0 THEN 0 ELSE s[d - 1] + v[d] * W[d]]
             a == [d \in 1 .. dim |-> 1]
             b == [d \in 1 .. dim |-> v[d] * W[d]]
             S == Sums(v, size)
  <1>1. \A d \in 1 .. dim : v[d] * W[d] \in Int
    <2>1. \A d \in 1 .. dim : W[d] \in Nat \ {0}
      BY WeightsAre, DomainAssumption
    <2>. HIDE DEF W
    <2>. QED
      BY <2>1 DEF Axis
  <1>2. PICK f \in [0 .. dim -> Int] : f[0] = 0 /\ \A k \in 1 .. dim : f[k] = f[k - 1] * a[k] + b[k]
    <2>1. a \in [1 .. dim -> Int] /\ b \in [1 .. dim -> Int] /\ 0 \in Int
      BY <1>1
    <2>. HIDE DEF a, b
    <2>2. PICK f \in [0 .. dim -> Int] : Recurs(f, dim, a, b, 0)
      BY <2>1, RecursionExists, DomainAssumption
    <2>. QED
      BY <2>2 DEF Recurs
  <1>3. \A d \in 1 .. dim : f[d] = f[d - 1] + v[d] * W[d]
    <2> SUFFICES ASSUME NEW d \in 1 .. dim PROVE f[d] = f[d - 1] + v[d] * W[d]
      OBVIOUS
    <2>1. f[d - 1] \in Int
      BY DomainAssumption
    <2>2. f[d] = f[d - 1] * 1 + v[d] * W[d]
      BY <1>2
    <2>. QED
      BY <2>1, <2>2, <1>1
  <1>4. f = Step(f)
    BY <1>2, <1>3, DomainAssumption
  <1>5. S = Step(S)
    BY <1>4, Zenon DEF Sums
  <1>6. \A d \in 0 .. dim : S[d] = IF d = 0 THEN 0 ELSE S[d - 1] + v[d] * W[d]
    BY <1>5
  <1>. HIDE DEF S, W
  <1>7. S[0] = 0
    BY <1>6, DomainAssumption
  <1>8. ASSUME NEW d \in Axis PROVE S[d] = S[d - 1] + v[d] * W[d]
    BY <1>6, DomainAssumption DEF Axis
  <1> DEFINE Good == {k \in Nat : S[k] \in Int}
  <1>9. 0 \in Good
    BY <1>7
  <1>10. ASSUME NEW k \in 1 .. dim, k - 1 \in Good PROVE k \in Good
    BY <1>8, <1>10, <1>1 DEF Axis
  <1>11. \A k \in 0 .. dim : k \in Good
    <2>. HIDE DEF Good
    <2>. QED
      BY <1>9, <1>10, IntervalInduction, DomainAssumption
  <1>. QED
    BY <1>7, <1>8, <1>11 DEF S, W

\* The sums are determined by the components that have been added.
LEMMA SumsAgree ==
  ASSUME NEW size, Sized(size), NEW v, NEW w, NEW n \in 0 .. dim,
         \A d \in Axis : v[d] \in Int /\ w[d] \in Int,
         \A d \in 1 .. n : v[d] = w[d]
  PROVE  Sums(v, size)[n] = Sums(w, size)[n]
  <1> DEFINE S == Sums(v, size)
             T == Sums(w, size)
             W == Weights(size)
             Good == {k \in Nat : S[k] = T[k]}
  <1>1. /\ S[0] = 0 /\ T[0] = 0
        /\ \A d \in Axis : S[d] = S[d - 1] + v[d] * W[d] /\ T[d] = T[d - 1] + w[d] * W[d]
    BY SumsAre
  <1>. HIDE DEF S, T, W
  <1>2. 0 \in Good
    BY <1>1
  <1>3. ASSUME NEW k \in 1 .. n, k - 1 \in Good PROVE k \in Good
    BY <1>1, <1>3, DomainAssumption DEF Axis
  <1>4. \A k \in 0 .. n : k \in Good
    <2>1. n \in Nat
      BY DomainAssumption
    <2>. HIDE DEF Good
    <2>. QED
      BY <1>2, <1>3, <2>1, IntervalInduction
  <1>5. S[n] = T[n]
    BY <1>4, DomainAssumption
  <1>. QED
    BY <1>5 DEF S, T

\* A vector within a box.
Within(v, size) == \A d \in Axis : v[d] \in Nat /\ v[d] < size[d]

\* A product is bounded by its factors.
LEMMA DigitBound ==
  ASSUME NEW s \in Nat, NEW m \in Nat \ {0}, NEW x \in Nat, NEW n \in Nat \ {0}, s < m, x < n
  PROVE  s + x * m \in Nat /\ s + x * m < m * n
  <1>1. x + 1 <= n /\ x * m \in Nat
    OBVIOUS
  <1>2. (x + 1) * m <= n * m
    BY <1>1
  <1>3. (x + 1) * m = x * m + m /\ n * m = m * n /\ m * n \in Nat
    OBVIOUS
  <1>. QED
    BY <1>1, <1>2, <1>3

\* Quotient and remainder of a number are unique.
LEMMA DigitUnique ==
  ASSUME NEW s \in Nat, NEW t \in Nat, NEW m \in Nat \ {0}, NEW x \in Nat, NEW y \in Nat,
         s < m, t < m, s + x * m = t + y * m
  PROVE  x = y /\ s = t
  <1>1. ASSUME NEW a \in Nat, NEW b \in Nat, NEW p \in Nat, NEW q \in Nat,
               p < m, q < m, p + a * m = q + b * m, a < b
        PROVE  FALSE
    <2>1. a + 1 <= b /\ a * m \in Nat /\ b * m \in Nat
      BY <1>1
    <2>2. (a + 1) * m <= b * m
      BY <2>1
    <2>3. (a + 1) * m = a * m + m
      OBVIOUS
    <2>. QED
      BY <1>1, <2>1, <2>2, <2>3
  <1>2. x = y
    BY <1>1
  <1>3. x * m \in Nat
    OBVIOUS
  <1>. QED
    BY <1>2, <1>3

\* The sum of the first d components of a vector of a box is below the weight of d + 1.
LEMMA SumsBounded ==
  ASSUME NEW size, Sized(size), NEW v, Within(v, size)
  PROVE  \A k \in 0 .. dim : /\ Sums(v, size)[k] \in Nat
                             /\ Sums(v, size)[k] < Weights(size)[k + 1]
  <1> DEFINE S == Sums(v, size)
             W == Weights(size)
             Good == {k \in Nat : S[k] \in Nat /\ S[k] < W[k + 1]}
  <1>1. S[0] = 0 /\ \A d \in Axis : S[d] = S[d - 1] + v[d] * W[d]
    BY SumsAre DEF Within
  <1>2. /\ \A d \in 1 .. dim + 1 : W[d] \in Nat \ {0}
        /\ W[1] = 1
        /\ \A d \in Axis : W[d + 1] = W[d] * size[d]
    BY WeightsAre
  <1>. HIDE DEF S, W
  <1>3. 0 \in Good
    BY <1>1, <1>2
  <1>4. ASSUME NEW k \in 1 .. dim, k - 1 \in Good PROVE k \in Good
    <2>1. k \in Axis /\ k \in 1 .. dim + 1 /\ k - 1 + 1 = k
      BY DomainAssumption DEF Axis
    <2>2. S[k - 1] \in Nat /\ S[k - 1] < W[k]
      BY <1>4, <2>1
    <2>3. W[k] \in Nat \ {0} /\ v[k] \in Nat /\ size[k] \in Nat \ {0} /\ v[k] < size[k]
      BY <1>2, <2>1 DEF Within, Sized
    <2>4. S[k - 1] + v[k] * W[k] \in Nat /\ S[k - 1] + v[k] * W[k] < W[k] * size[k]
      BY <2>2, <2>3, DigitBound
    <2>. QED
      BY <2>1, <2>4, <1>1, <1>2
  <1>5. \A k \in 0 .. dim : k \in Good
    <2>. HIDE DEF Good
    <2>. QED
      BY <1>3, <1>4, IntervalInduction, DomainAssumption
  <1>6. \A k \in 0 .. dim : S[k] \in Nat /\ S[k] < W[k + 1]
    BY <1>5
  <1>. QED
    BY <1>6 DEF S, W

\* Two vectors of a box with the same sum are equal.
LEMMA SumsInjective ==
  ASSUME NEW size, Sized(size), NEW v, NEW w, Within(v, size), Within(w, size),
         Sums(v, size)[dim] = Sums(w, size)[dim]
  PROVE  \A d \in Axis : v[d] = w[d]
  <1> DEFINE S == Sums(v, size)
             T == Sums(w, size)
             W == Weights(size)
             Good == {k \in Nat : S[k] = T[k] => \A d \in 1 .. k : v[d] = w[d]}
  <1>1. /\ S[0] = 0 /\ T[0] = 0
        /\ \A d \in Axis : S[d] = S[d - 1] + v[d] * W[d] /\ T[d] = T[d - 1] + w[d] * W[d]
    BY SumsAre DEF Within
  <1>2. \A k \in 0 .. dim : S[k] \in Nat /\ S[k] < W[k + 1] /\ T[k] \in Nat /\ T[k] < W[k + 1]
    BY SumsBounded
  <1>3. \A d \in 1 .. dim + 1 : W[d] \in Nat \ {0}
    BY WeightsAre
  <1>4. S[dim] = T[dim]
    OBVIOUS
  <1>. HIDE DEF S, T, W
  <1>5. 0 \in Good
    OBVIOUS
  <1>6. ASSUME NEW k \in 1 .. dim, k - 1 \in Good, S[k] = T[k]
        PROVE  \A d \in 1 .. k : v[d] = w[d]
    <2>1. k \in Axis /\ k \in 1 .. dim + 1 /\ k - 1 \in 0 .. dim /\ k - 1 + 1 = k
      BY DomainAssumption DEF Axis
    <2>2. S[k - 1] \in Nat /\ T[k - 1] \in Nat /\ S[k - 1] < W[k] /\ T[k - 1] < W[k]
      BY <1>2, <2>1
    <2>3. v[k] \in Nat /\ w[k] \in Nat /\ W[k] \in Nat \ {0}
      BY <1>3, <2>1 DEF Within
    <2>4. S[k - 1] + v[k] * W[k] = T[k - 1] + w[k] * W[k]
      BY <1>1, <1>6, <2>1
    <2>5. v[k] = w[k] /\ S[k - 1] = T[k - 1]
      <3> DEFINE s == S[k - 1]
                 t == T[k - 1]
                 x == v[k]
                 y == w[k]
                 m == W[k]
      <3>1. /\ s \in Nat /\ t \in Nat /\ m \in Nat \ {0} /\ x \in Nat /\ y \in Nat
            /\ s < m /\ t < m /\ s + x * m = t + y * m
        BY <2>2, <2>3, <2>4
      <3>. HIDE DEF s, t, x, y, m
      <3>2. x = y /\ s = t
        BY <3>1, DigitUnique
      <3>. QED
        BY <3>2 DEF s, t, x, y
    <2>6. \A d \in 1 .. k - 1 : v[d] = w[d]
      BY <1>6, <2>5
    <2>. QED
      BY <2>5, <2>6
  <1>7. \A k \in 1 .. dim : k - 1 \in Good => k \in Good
    BY <1>6
  <1>8. \A k \in 0 .. dim : k \in Good
    <2>. HIDE DEF Good
    <2>. QED
      BY <1>5, <1>7, IntervalInduction, DomainAssumption
  <1>. QED
    BY <1>4, <1>8, DomainAssumption DEF Axis

\* Every number below the last weight is the sum of a vector of the box.
LEMMA SumsSurjective ==
  ASSUME NEW size, Sized(size), NEW n \in Nat, n < Weights(size)[dim + 1]
  PROVE  \E v \in [Axis -> Nat] : Within(v, size) /\ Sums(v, size)[dim] = n
  <1> DEFINE W == Weights(size)
             Reached(k, x) == \E v \in [Axis -> Nat] : Within(v, size) /\ Sums(v, size)[k] = x
             Good == {k \in Nat : \A x \in Nat : x < W[k + 1] => Reached(k, x)}
  <1>1. /\ \A d \in 1 .. dim + 1 : W[d] \in Nat \ {0}
        /\ W[1] = 1
        /\ \A d \in Axis : W[d + 1] = W[d] * size[d]
    BY WeightsAre
  <1>2. n < W[dim + 1]
    OBVIOUS
  <1>3. Reached(0, 0)
    <2> DEFINE v == [d \in Axis |-> 0]
    <2>1. v \in [Axis -> Nat] /\ Within(v, size) /\ \A d \in Axis : v[d] \in Int
      BY DEF Within, Sized
    <2>. HIDE DEF v
    <2>2. Sums(v, size)[0] = 0
      BY <2>1, SumsAre
    <2>. QED
      BY <2>1, <2>2
  <1>. HIDE DEF W
  <1>4. 0 \in Good
    <2>1. \A x \in Nat : x < W[1] => x = 0
      BY <1>1
    <2>. HIDE DEF Reached
    <2>. QED
      BY <1>3, <2>1
  <1>5. ASSUME NEW k \in 1 .. dim, k - 1 \in Good, NEW x \in Nat, x < W[k + 1]
        PROVE  Reached(k, x)
    <2> DEFINE q == x \div W[k]
               r == x % W[k]
    <2>1. /\ k \in Axis /\ k \in 1 .. dim + 1 /\ k - 1 \in 0 .. dim /\ k - 1 + 1 = k
      BY DomainAssumption DEF Axis
    <2>2. W[k] \in Nat \ {0} /\ size[k] \in Nat \ {0} /\ x < W[k] * size[k]
      BY <1>1, <1>5, <2>1 DEF Sized
    <2>3. r \in Nat /\ r < W[k] /\ q \in Nat /\ x = r + q * W[k]
      <3>. HIDE <1>1, <1>2, <1>3, <1>4, <1>5
      <3>1. r \in 0 .. W[k] - 1 /\ q \in Int /\ x = W[k] * q + r
        BY <2>2
      <3>2. q \in Nat
        BY <2>2
      <3>3. W[k] * q = q * W[k]
        BY <2>2, <3>1
      <3>4. W[k] \in Nat
        BY <2>2
      <3>. HIDE <2>1, <2>2 DEF q, r
      <3>. QED
        BY <3>1, <3>2, <3>3, <3>4
    <2>. HIDE DEF q, r
    <2>4. q < size[k]
      <3> SUFFICES ASSUME size[k] <= q PROVE FALSE
        BY <2>2, <2>3
      <3>1. size[k] * W[k] <= q * W[k]
        BY <2>2, <2>3
      <3>2. size[k] * W[k] = W[k] * size[k] /\ q * W[k] \in Nat
        BY <2>2, <2>3
      <3>. QED
        BY <2>2, <2>3, <3>1, <3>2
    <2>5. Reached(k - 1, r)
      BY <1>5, <2>1, <2>3
    <2>6. PICK v \in [Axis -> Nat] : Within(v, size) /\ Sums(v, size)[k - 1] = r
      BY <2>5
    <2> DEFINE w == [v EXCEPT ![k] = q]
    <2>7. /\ w \in [Axis -> Nat] /\ Within(w, size) /\ w[k] = q
          /\ \A d \in Axis : w[d] \in Int /\ v[d] \in Int
          /\ \A d \in 1 .. k - 1 : w[d] = v[d]
      BY <2>1, <2>3, <2>4, <2>6 DEF Within, Axis
    <2>. HIDE DEF w
    <2>8. Sums(w, size)[k - 1] = Sums(v, size)[k - 1]
      BY <2>1, <2>7, SumsAgree
    <2>9. Sums(w, size)[k] = Sums(w, size)[k - 1] + w[k] * W[k]
      BY <2>1, <2>7, SumsAre DEF W
    <2>10. Sums(w, size)[k] = x
      BY <2>3, <2>6, <2>7, <2>8, <2>9
    <2>. QED
      BY <2>7, <2>10
  <1>6. \A k \in 1 .. dim : k - 1 \in Good => k \in Good
    <2>. HIDE DEF Reached
    <2>. QED
      BY <1>5
  <1>7. \A k \in 0 .. dim : k \in Good
    <2>. HIDE DEF Good
    <2>. QED
      BY <1>4, <1>6, IntervalInduction, DomainAssumption
  <1>8. Reached(dim, n)
    <2>. HIDE DEF Reached
    <2>. QED
      BY <1>2, <1>7, DomainAssumption
  <1>. QED
    BY <1>8

\* The vector of the greatest components has the greatest sum.
LEMMA LastSum ==
  ASSUME NEW size, Sized(size)
  PROVE  RowMajor([d \in Axis |-> size[d] - 1], size) = Weights(size)[dim + 1] - 1
  <1> DEFINE v == [d \in Axis |-> size[d] - 1]
             S == Sums(v, size)
             W == Weights(size)
             Good == {k \in Nat : S[k] = W[k + 1] - 1}
  <1>1. \A d \in Axis : v[d] \in Int /\ v[d] = size[d] - 1
    BY DEF Sized
  <1>2. RowMajor(v, size) = S[dim]
    BY RowMajorSums
  <1>. HIDE DEF v
  <1>3. /\ S[0] = 0 /\ \A d \in Axis : S[d] = S[d - 1] + v[d] * W[d]
    BY <1>1, SumsAre
  <1>4. /\ \A d \in 1 .. dim + 1 : W[d] \in Nat \ {0}
        /\ W[1] = 1
        /\ \A d \in Axis : W[d + 1] = W[d] * size[d]
    BY WeightsAre
  <1>. HIDE DEF S, W
  <1>5. 0 \in Good
    BY <1>3, <1>4
  <1>6. ASSUME NEW k \in 1 .. dim, k - 1 \in Good PROVE k \in Good
    <2>1. k \in Axis /\ k \in 1 .. dim + 1 /\ k - 1 + 1 = k
      BY DomainAssumption DEF Axis
    <2>2. W[k] \in Nat \ {0} /\ size[k] \in Nat \ {0} /\ v[k] = size[k] - 1
      BY <1>1, <1>4, <2>1 DEF Sized
    <2>3. S[k - 1] = W[k] - 1
      BY <1>6, <2>1
    <2>4. W[k] - 1 + (size[k] - 1) * W[k] = W[k] * size[k] - 1
      BY <2>2
    <2>. QED
      BY <1>3, <1>4, <2>1, <2>2, <2>3, <2>4
  <1>7. \A k \in 0 .. dim : k \in Good
    <2>. HIDE DEF Good
    <2>. QED
      BY <1>5, <1>6, IntervalInduction, DomainAssumption
  <1>8. S[dim] = W[dim + 1] - 1
    BY <1>7, DomainAssumption
  <1>. QED
    BY <1>2, <1>8 DEF v, W

\* The vectors of a box are those within its size.
LEMMA BoxIs ==
  ASSUME NEW size, Sized(size)
  PROVE  Box(size) = {v \in [Axis -> Nat] : Within(v, size)}
  <1> DEFINE Sizes == {size[d] : d \in Axis}
  <1>1. \A d \in Axis : size[d] <= Max(Sizes) /\ Max(Sizes) \in Nat
    <2> SUFFICES ASSUME NEW d \in Axis PROVE size[d] <= Max(Sizes) /\ Max(Sizes) \in Nat
      OBVIOUS
    <2>1. Sizes \in SUBSET Nat /\ size[d] \in Sizes
      BY DEF Sized
    <2>2. IsFiniteSet(Sizes)
      <3>1. IsFiniteSet(Axis)
        BY DomainAssumption, FS_Interval DEF Axis
      <3>2. [e \in Axis |-> size[e]] \in Surjection(Axis, Sizes)
        BY DEF Surjection
      <3>. QED
        BY <3>1, <3>2, FS_Surjection
    <2>. HIDE DEF Sizes
    <2>. QED
      BY <2>1, <2>2, MaxIsGreatest
  <1>2. Box(size) = {v \in [Axis -> 0 .. Max(Sizes) - 1] : \A d \in Axis : v[d] < size[d]}
    BY DEF Box
  <1>. HIDE DEF Sizes
  <1>3. ASSUME NEW v \in Box(size) PROVE v \in [Axis -> Nat] /\ Within(v, size)
    BY <1>1, <1>2 DEF Within
  <1>4. ASSUME NEW v \in [Axis -> Nat], Within(v, size) PROVE v \in Box(size)
    <2>1. ASSUME NEW d \in Axis PROVE v[d] \in 0 .. Max(Sizes) - 1
      BY <1>1, <1>4 DEF Within, Sized
    <2>. QED
      BY <1>2, <1>4, <2>1 DEF Within
  <1>. QED
    BY <1>3, <1>4

\* RowMajor numbers the vectors of a box through.
LEMMA RowMajorNumbers ==
  ASSUME NEW size, Sized(size)
  PROVE  LET last == RowMajor([d \in Axis |-> size[d] - 1], size)
         IN /\ last \in Nat
            /\ \A v \in Box(size) : RowMajor(v, size) \in 0 .. last
            /\ \A v, w \in Box(size) : RowMajor(v, size) = RowMajor(w, size) => v = w
            /\ \A n \in 0 .. last : \E v \in Box(size) : RowMajor(v, size) = n
  <1> DEFINE last == RowMajor([d \in Axis |-> size[d] - 1], size)
             W == Weights(size)[dim + 1]
  <1>1. W \in Nat \ {0}
    BY WeightsAre, DomainAssumption
  <1>2. last = W - 1
    BY LastSum
  <1>3. ASSUME NEW v \in Box(size) PROVE RowMajor(v, size) \in 0 .. last
    <2>1. Within(v, size)
      BY BoxIs
    <2>2. Sums(v, size)[dim] \in Nat /\ Sums(v, size)[dim] < W
      BY <2>1, SumsBounded, DomainAssumption
    <2>. HIDE DEF W, last
    <2>. QED
      BY <1>1, <1>2, <2>2, RowMajorSums
  <1>4. ASSUME NEW v \in Box(size), NEW w \in Box(size), RowMajor(v, size) = RowMajor(w, size)
        PROVE  v = w
    <2>1. Within(v, size) /\ Within(w, size) /\ v \in [Axis -> Nat] /\ w \in [Axis -> Nat]
      BY BoxIs
    <2>2. Sums(v, size)[dim] = Sums(w, size)[dim]
      BY <1>4, RowMajorSums
    <2>3. \A d \in Axis : v[d] = w[d]
      BY <2>1, <2>2, SumsInjective
    <2>. QED
      BY <2>1, <2>3
  <1>5. ASSUME NEW n \in 0 .. last PROVE \E v \in Box(size) : RowMajor(v, size) = n
    <2>1. n \in Nat /\ n < W
      <3>. HIDE DEF W, last
      <3>. QED
        BY <1>1, <1>2
    <2>2. PICK v \in [Axis -> Nat] : Within(v, size) /\ Sums(v, size)[dim] = n
      BY <2>1, SumsSurjective
    <2>. QED
      BY <2>2, BoxIs, RowMajorSums
  <1>6. last \in Nat
    <2>. HIDE DEF W, last
    <2>. QED
      BY <1>1, <1>2
  <1>. QED
    <2>. HIDE DEF last
    <2>1. /\ last \in Nat
          /\ \A v \in Box(size) : RowMajor(v, size) \in 0 .. last
          /\ \A v, w \in Box(size) : RowMajor(v, size) = RowMajor(w, size) => v = w
          /\ \A n \in 0 .. last : \E v \in Box(size) : RowMajor(v, size) = n
      BY <1>3, <1>4, <1>5, <1>6
    <2>. QED
      BY <2>1 DEF last

\* What DomainAssumption says of the three sizes of the mesh.
LEMMA SizesArePositive == Sized(nprocs) /\ Sized(nblocks) /\ Sized(blocksize)
  BY DomainAssumption DEF IsSize, Sized, Axis, dim

\* A mesh has finitely many ranks, and a rank finitely many blocks.
LEMMA RanksAreFinite == IsFiniteSet(Rank) /\ IsFiniteSet(Block)
  <1> DEFINE p == RowMajor([d \in Axis |-> nprocs[d] - 1], nprocs)
             b == RowMajor([d \in Axis |-> nblocks[d] - 1], nblocks)
  <1>1. p \in Nat /\ b \in Nat
    BY RowMajorNumbers, SizesArePositive
  <1>2. Rank = 0 .. p /\ Block = 0 .. b
    BY DEF Rank, Block
  <1>. HIDE DEF p, b
  <1>. QED
    BY <1>1, <1>2, FS_Interval

\* Where a rank and a block are.
LEMMA ProcOfIs ==
  ASSUME NEW p \in Box(nprocs)
  PROVE  RowMajor(p, nprocs) \in Rank /\ ProcOf(RowMajor(p, nprocs)) = p
  <1>1. RowMajor(p, nprocs) \in Rank
    BY RowMajorNumbers, SizesArePositive DEF Rank
  <1>. QED
    BY <1>1, RowMajorNumbers, SizesArePositive DEF ProcOf

\* Every block of a rank has its place among them, and every place its block.
LEMMA BlockOfIs ==
  /\ \A ib \in Block : BlockOf(ib) \in Box(nblocks) /\ RowMajor(BlockOf(ib), nblocks) = ib
  /\ \A b \in Box(nblocks) : RowMajor(b, nblocks) \in Block /\ BlockOf(RowMajor(b, nblocks)) = b
  <1>1. ASSUME NEW ib \in Block
        PROVE  BlockOf(ib) \in Box(nblocks) /\ RowMajor(BlockOf(ib), nblocks) = ib
    <2>1. \E b \in Box(nblocks) : RowMajor(b, nblocks) = ib
      BY RowMajorNumbers, SizesArePositive DEF Block
    <2>. QED
      BY <2>1 DEF BlockOf
  <1>2. ASSUME NEW b \in Box(nblocks)
        PROVE  RowMajor(b, nblocks) \in Block /\ BlockOf(RowMajor(b, nblocks)) = b
    <2>1. RowMajor(b, nblocks) \in Block
      BY RowMajorNumbers, SizesArePositive DEF Block
    <2>. QED
      BY <2>1, RowMajorNumbers, SizesArePositive DEF BlockOf
  <1>. QED
    BY <1>1, <1>2

\* Quotient and remainder.
LEMMA Quotients ==
  ASSUME NEW x \in Nat, NEW m \in Nat \ {0}
  PROVE  /\ x \div m \in Nat /\ x % m \in Nat /\ x % m < m
         /\ x = (x \div m) * m + (x % m)
  <1>1. x \div m \in Int /\ x % m \in 0 .. m - 1 /\ x = m * (x \div m) + (x % m)
    OBVIOUS
  <1>2. x \div m \in Nat
    OBVIOUS
  <1>3. m * (x \div m) = (x \div m) * m
    BY <1>2
  <1>. QED
    BY <1>1, <1>2, <1>3

\* The quotient of a number below a product is below the other factor.
LEMMA QuotientBound ==
  ASSUME NEW x \in Nat, NEW n \in Nat, NEW m \in Nat \ {0}, x < n * m
  PROVE  x \div m < n
  <1> DEFINE q == x \div m
             r == x % m
  <1>1. q \in Nat /\ r \in Nat /\ x = q * m + r
    BY Quotients
  <1>. HIDE DEF q, r
  <1> SUFFICES ASSUME n <= q PROVE FALSE
    BY <1>1 DEF q
  <1>2. n * m <= q * m /\ n * m \in Nat /\ q * m \in Nat
    BY <1>1
  <1>. QED
    BY <1>1, <1>2

\* A coordinate of the mesh splits into those of a rank, of a block and within the block.
LEMMA Digits ==
  ASSUME NEW x \in Nat, NEW l \in Nat \ {0}, NEW m \in Nat \ {0}, NEW n \in Nat \ {0},
         x < (n * m) * l
  PROVE  /\ (x \div l) \div m \in Nat /\ (x \div l) \div m < n
         /\ (x \div l) % m \in Nat /\ (x \div l) % m < m
         /\ x % l \in Nat /\ x % l < l
         /\ x = (m * ((x \div l) \div m) + ((x \div l) % m)) * l + (x % l)
  <1> DEFINE y == x \div l
  <1>1. y \in Nat /\ x % l \in Nat /\ x % l < l /\ x = y * l + (x % l)
    BY Quotients
  <1>2. y < n * m
    <2>1. n * m \in Nat
      OBVIOUS
    <2>. QED
      BY <2>1, QuotientBound
  <1>. HIDE DEF y
  <1>3. y \div m \in Nat /\ y % m \in Nat /\ y % m < m /\ y = (y \div m) * m + (y % m)
    BY <1>1, Quotients
  <1>4. y \div m < n
    BY <1>1, <1>2, QuotientBound
  <1>5. (y \div m) * m = m * (y \div m)
    BY <1>3
  <1>. QED
    BY <1>1, <1>3, <1>4, <1>5 DEF y

\* The split of a coordinate is unique.
LEMMA PlaceUnique ==
  ASSUME NEW m \in Nat \ {0}, NEW l \in Nat \ {0}, NEW p \in Nat,
         NEW b \in Nat, NEW c \in Nat, NEW x \in Nat, NEW y \in Nat, x < l, y < l,
         (m * p + b) * l + x = (m * p + c) * l + y
  PROVE  b = c
  <1>1. m * p \in Nat
    OBVIOUS
  <1>2. m * p + b \in Nat /\ m * p + c \in Nat
    BY <1>1
  <1>3. x + (m * p + b) * l = y + (m * p + c) * l
    <2>1. (m * p + b) * l \in Nat /\ (m * p + c) * l \in Nat
      BY <1>2
    <2>. QED
      BY <2>1
  <1>4. m * p + b = m * p + c
    <2> DEFINE s == m * p + b
               t == m * p + c
    <2>1. s \in Nat /\ t \in Nat /\ x + s * l = y + t * l
      BY <1>2, <1>3
    <2>. HIDE DEF s, t
    <2>2. s = t
      BY <2>1, DigitUnique
    <2>. QED
      BY <2>2 DEF s, t
  <1>. QED
    BY <1>1, <1>4

\* A cell of the global mesh.
OfMesh(w) == w \in [Axis -> Nat] /\ \A d \in Axis : w[d] < globalsize[d]

\* Every cell of the mesh has a rank, a block of it and a place within the block.
LEMMA CellHasPlace ==
  ASSUME NEW w, OfMesh(w)
  PROVE  LET p == Divide(Divide(w, blocksize), nblocks)
             b == [d \in Axis |-> (w[d] \div blocksize[d]) % nblocks[d]]
             v == [d \in Axis |-> w[d] % blocksize[d]]
         IN /\ p \in Box(nprocs) /\ b \in Box(nblocks) /\ v \in Box(blocksize)
            /\ w = Plus(Times(Plus(Times(nblocks, p), b), blocksize), v)
  <1> DEFINE p == Divide(Divide(w, blocksize), nblocks)
             b == [d \in Axis |-> (w[d] \div blocksize[d]) % nblocks[d]]
             v == [d \in Axis |-> w[d] % blocksize[d]]
  <1>1. ASSUME NEW d \in Axis
        PROVE  /\ p[d] \in Nat /\ p[d] < nprocs[d]
               /\ b[d] \in Nat /\ b[d] < nblocks[d]
               /\ v[d] \in Nat /\ v[d] < blocksize[d]
               /\ w[d] = (nblocks[d] * p[d] + b[d]) * blocksize[d] + v[d]
    <2>1. /\ w[d] \in Nat /\ blocksize[d] \in Nat \ {0} /\ nblocks[d] \in Nat \ {0}
          /\ nprocs[d] \in Nat \ {0}
      BY SizesArePositive DEF OfMesh, Sized
    <2>2. w[d] < (nprocs[d] * nblocks[d]) * blocksize[d]
      BY DEF OfMesh, globalsize, Times
    <2>3. /\ p[d] = (w[d] \div blocksize[d]) \div nblocks[d]
          /\ b[d] = (w[d] \div blocksize[d]) % nblocks[d]
          /\ v[d] = w[d] % blocksize[d]
      BY DEF Divide
    <2> DEFINE x == w[d]
               l == blocksize[d]
               m == nblocks[d]
               n == nprocs[d]
    <2>4. x \in Nat /\ l \in Nat \ {0} /\ m \in Nat \ {0} /\ n \in Nat \ {0} /\ x < (n * m) * l
      BY <2>1, <2>2
    <2>. HIDE DEF x, l, m, n
    <2>5. /\ (x \div l) \div m \in Nat /\ (x \div l) \div m < n
          /\ (x \div l) % m \in Nat /\ (x \div l) % m < m
          /\ x % l \in Nat /\ x % l < l
          /\ x = (m * ((x \div l) \div m) + ((x \div l) % m)) * l + (x % l)
      BY <2>4, Digits
    <2>. HIDE DEF p, b, v
    <2>. QED
      BY <2>3, <2>5 DEF x, l, m, n
  <1>2. p \in [Axis -> Nat] /\ b \in [Axis -> Nat] /\ v \in [Axis -> Nat]
    <2>1. p = [d \in Axis |-> p[d]]
      BY DEF Divide
    <2>2. b = [d \in Axis |-> b[d]] /\ v = [d \in Axis |-> v[d]]
      OBVIOUS
    <2>. HIDE DEF p, b, v
    <2>. QED
      BY <1>1, <2>1, <2>2
  <1>. HIDE DEF p, b, v
  <1>3. p \in Box(nprocs) /\ b \in Box(nblocks) /\ v \in Box(blocksize)
    <2>1. Within(p, nprocs) /\ Within(b, nblocks) /\ Within(v, blocksize)
      BY <1>1 DEF Within
    <2>. QED
      BY <1>2, <2>1, BoxIs, SizesArePositive
  <1>4. w = Plus(Times(Plus(Times(nblocks, p), b), blocksize), v)
    <2>1. w = [d \in Axis |-> w[d]]
      BY DEF OfMesh
    <2>. QED
      BY <2>1, <1>1 DEF Plus, Times
  <1>. QED
    BY <1>3, <1>4 DEF p, b, v

\* cell_to_rank names a rank that has the cell as an inner cell of exactly one block.
THEOREM CellHasOneOwner ==
  ASSUME NEW w, OfMesh(w)
  PROVE  /\ cell_to_rank(w) \in Rank
         /\ Cardinality(OwningBlocks(cell_to_rank(w), w)) = 1
  <1> DEFINE p == Divide(Divide(w, blocksize), nblocks)
             b == [d \in Axis |-> (w[d] \div blocksize[d]) % nblocks[d]]
             v == [d \in Axis |-> w[d] % blocksize[d]]
             r == cell_to_rank(w)
             own == RowMajor(b, nblocks)
  <1>1. /\ p \in Box(nprocs) /\ b \in Box(nblocks) /\ v \in Box(blocksize)
        /\ w = Plus(Times(Plus(Times(nblocks, p), b), blocksize), v)
    BY CellHasPlace
  <1>2. r = RowMajor(p, nprocs)
    BY DEF cell_to_rank
  <1>. HIDE DEF p, b, v, r
  <1>3. r \in Rank /\ ProcOf(r) = p
    BY <1>1, <1>2, ProcOfIs
  <1>4. own \in Block /\ BlockOf(own) = b
    BY <1>1, BlockOfIs
  <1>. HIDE DEF own
  <1>5. w \in InCells[r][own]
    BY <1>1, <1>3, <1>4 DEF InCells, Begin
  <1>6. ASSUME NEW ib \in Block, w \in InCells[r][ib] PROVE ib = own
    <2>1. PICK u \in Box(blocksize) :
            w = Plus(Times(Plus(Times(nblocks, p), BlockOf(ib)), blocksize), u)
      BY <1>3, <1>6 DEF InCells, Begin
    <2> DEFINE c == BlockOf(ib)
    <2>2. c \in Box(nblocks) /\ RowMajor(c, nblocks) = ib
      BY BlockOfIs
    <2>. HIDE DEF c
    <2>3. w = Plus(Times(Plus(Times(nblocks, p), c), blocksize), u)
      BY <2>1 DEF c
    <2>4. /\ Within(u, blocksize) /\ Within(v, blocksize) /\ Within(b, nblocks)
          /\ Within(c, nblocks) /\ Within(p, nprocs)
          /\ b \in [Axis -> Nat] /\ c \in [Axis -> Nat]
      BY <1>1, <2>2, BoxIs, SizesArePositive
    <2>5. ASSUME NEW d \in Axis PROVE b[d] = c[d]
      <3>1. w[d] = (nblocks[d] * p[d] + b[d]) * blocksize[d] + v[d]
        BY <1>1 DEF Plus, Times
      <3>2. w[d] = (nblocks[d] * p[d] + c[d]) * blocksize[d] + u[d]
        BY <2>3 DEF Plus, Times
      <3>3. /\ nblocks[d] \in Nat \ {0} /\ blocksize[d] \in Nat \ {0} /\ p[d] \in Nat
            /\ b[d] \in Nat /\ c[d] \in Nat /\ u[d] \in Nat /\ v[d] \in Nat
            /\ u[d] < blocksize[d] /\ v[d] < blocksize[d]
        BY <2>4, SizesArePositive DEF Within, Sized
      <3> DEFINE m == nblocks[d]
                 l == blocksize[d]
                 pd == p[d]
                 bd == b[d]
                 cd == c[d]
                 x == v[d]
                 y == u[d]
      <3>4. /\ m \in Nat \ {0} /\ l \in Nat \ {0} /\ pd \in Nat /\ bd \in Nat /\ cd \in Nat
            /\ x \in Nat /\ y \in Nat /\ x < l /\ y < l
            /\ (m * pd + bd) * l + x = (m * pd + cd) * l + y
        BY <3>1, <3>2, <3>3
      <3>. HIDE DEF m, l, pd, bd, cd, x, y
      <3>5. bd = cd
        BY <3>4, PlaceUnique
      <3>. QED
        BY <3>5 DEF bd, cd
    <2>6. b = c
      BY <2>4, <2>5
    <2>. QED
      BY <2>2, <2>6 DEF own
  <1>7. OwningBlocks(r, w) = {own}
    BY <1>4, <1>5, <1>6 DEF OwningBlocks
  <1>. QED
    BY <1>3, <1>7, FS_Singleton DEF r

-----------------------------------------------------------------------------
(***************************************************************************)
(* The lists.                                                              *)
(***************************************************************************)
\* The image of a finite set is finite.
LEMMA FiniteImage ==
  ASSUME NEW S, IsFiniteSet(S), NEW f
  PROVE  IsFiniteSet({f[x] : x \in S})
  <1> DEFINE T == {f[x] : x \in S}
  <1>1. [x \in S |-> f[x]] \in Surjection(S, T)
    BY DEF Surjection
  <1>. QED
    BY <1>1, FS_Surjection

\* There are finitely many vectors of integers from an interval.
LEMMA FiniteFunctions ==
  ASSUME NEW S, NEW T, IsFiniteSet(S), IsFiniteSet(T)
  PROVE  IsFiniteSet([S -> T])
  <1> DEFINE graph == [f \in [S -> T] |-> {z \in S \X T : z[2] = f[z[1]]}]
  <1>1. IsFiniteSet(SUBSET (S \X T))
    BY FS_Product, FS_SUBSET
  <1>2. graph \in [[S -> T] -> SUBSET (S \X T)]
    OBVIOUS
  <1>3. ASSUME NEW f \in [S -> T], NEW g \in [S -> T], graph[f] = graph[g] PROVE f = g
    <2>1. ASSUME NEW x \in S PROVE f[x] = g[x]
      <3>1. <<x, f[x]>> \in graph[f]
        OBVIOUS
      <3>2. <<x, f[x]>> \in graph[g]
        BY <1>3, <3>1
      <3>. QED
        BY <3>2
    <2>. QED
      BY <2>1
  <1>. HIDE DEF graph
  <1>4. graph \in Injection([S -> T], SUBSET (S \X T))
    BY <1>2, <1>3 DEF Injection, IsInjective
  <1>. QED
    BY <1>1, <1>4, FS_Injection

\* In a finite set with a strict total order every position is taken.
LEMMA EveryPosition ==
  ASSUME NEW S, IsFiniteSet(S), NEW before,
         \A c \in S : before[c] \subseteq S \ {c},
         \A b, c \in S : b # c => b \in before[c] \/ c \in before[b],
         \A b, c \in S : b \in before[c] => before[b] \subseteq before[c]
  PROVE  /\ \A k \in 0 .. Cardinality(S) - 1 : \E c \in S : Cardinality(before[c]) = k
         /\ \A c \in S : Cardinality(before[c]) \in 0 .. Cardinality(S) - 1
         /\ \A b, c \in S : Cardinality(before[b]) = Cardinality(before[c]) => b = c
  <1> DEFINE n == Cardinality(S)
             f == [c \in S |-> Cardinality(before[c])]
             T == 0 .. n - 1
  <1>1. n \in Nat
    BY FS_CardinalityType
  <1>2. IsFiniteSet(T) /\ Cardinality(T) = n
    <2>. HIDE DEF n
    <2>. QED
      BY <1>1, FS_Interval
  <1>3. ASSUME NEW c \in S
        PROVE  IsFiniteSet(before[c]) /\ Cardinality(before[c]) \in Nat /\ Cardinality(before[c]) < n
    <2>1. IsFiniteSet(S \ {c}) /\ Cardinality(S \ {c}) = n - 1
      BY FS_RemoveElement
    <2>2. IsFiniteSet(before[c]) /\ Cardinality(before[c]) <= n - 1
      BY <2>1, FS_Subset
    <2>3. Cardinality(before[c]) \in Nat
      BY <2>2, FS_CardinalityType
    <2>. HIDE DEF n
    <2>. QED
      BY <1>1, <2>2, <2>3
  <1>4. f \in [S -> T]
    <2>. HIDE DEF n
    <2>. QED
      BY <1>1, <1>3
  <1>5. ASSUME NEW b \in S, NEW c \in S, b \in before[c]
        PROVE  Cardinality(before[b]) < Cardinality(before[c])
    <2>1. before[b] \in SUBSET before[c] /\ before[b] # before[c]
      BY <1>5
    <2>2. /\ Cardinality(before[b]) <= Cardinality(before[c])
          /\ Cardinality(before[b]) # Cardinality(before[c])
      BY <1>3, <2>1, FS_Subset
    <2>. QED
      BY <1>3, <2>2
  <1>6. ASSUME NEW b \in S, NEW c \in S, f[b] = f[c] PROVE b = c
    <2> SUFFICES ASSUME b # c PROVE FALSE
      OBVIOUS
    <2>1. b \in before[c] \/ c \in before[b]
      OBVIOUS
    <2>2. Cardinality(before[b]) = Cardinality(before[c])
      BY <1>6
    <2>. QED
      BY <1>3, <1>5, <2>1, <2>2
  <1>. HIDE DEF f
  <1>7. f \in Injection(S, T)
    BY <1>4, <1>6 DEF Injection, IsInjective
  <1>8. f \in Surjection(S, T)
    <2>. HIDE DEF T
    <2>. QED
      BY <1>2, <1>7, FS_Injection
  <1>9. ASSUME NEW k \in T PROVE \E c \in S : f[c] = k
    BY <1>8 DEF Surjection
  <1>. QED
    BY <1>4, <1>6, <1>9 DEF f

\* The order of cells.
LEMMA IndexOrder ==
  /\ \A v \in [Axis -> Int] : ~IndexLess(v, v)
  /\ \A v, w \in [Axis -> Int] : v # w => IndexLess(v, w) \/ IndexLess(w, v)
  /\ \A u, v, w \in [Axis -> Int] : IndexLess(u, v) /\ IndexLess(v, w) => IndexLess(u, w)
  <1>1. ASSUME NEW v \in [Axis -> Int] PROVE ~IndexLess(v, v)
    BY DEF IndexLess
  <1>2. ASSUME NEW v \in [Axis -> Int], NEW w \in [Axis -> Int], v # w
        PROVE  IndexLess(v, w) \/ IndexLess(w, v)
    <2> DEFINE D == {d \in Axis : v[d] # w[d]}
    <2>1. D \in SUBSET Nat /\ D # {}
      <3>1. \E d \in Axis : v[d] # w[d]
        BY <1>2
      <3>2. Axis \subseteq Nat
        BY DEF Axis
      <3>. QED
        BY <3>1, <3>2
    <2>2. IsFiniteSet(D)
      <3>1. IsFiniteSet(Axis)
        BY DomainAssumption, FS_Interval DEF Axis
      <3>. QED
        BY <3>1, FS_Subset
    <2> DEFINE d == Max(D)
    <2>3. d \in D /\ \A e \in D : e <= d
      <3>. HIDE DEF D
      <3>. QED
        BY <2>1, <2>2, MaxIsGreatest
    <2>. HIDE DEF d
    <2>4. d \in Axis /\ v[d] # w[d] /\ v[d] \in Int /\ w[d] \in Int
      BY <2>3
    <2>5. ASSUME NEW e \in d + 1 .. dim PROVE v[e] = w[e]
      BY <2>3, <2>4, DomainAssumption DEF Axis
    <2>. HIDE DEF D
    <2>. QED
      BY <2>4, <2>5 DEF IndexLess
  <1>3. ASSUME NEW u \in [Axis -> Int], NEW v \in [Axis -> Int], NEW w \in [Axis -> Int],
               IndexLess(u, v), IndexLess(v, w)
        PROVE  IndexLess(u, w)
    <2>1. PICK d \in Axis : u[d] < v[d] /\ \A e \in d + 1 .. dim : u[e] = v[e]
      BY <1>3 DEF IndexLess
    <2>2. PICK f \in Axis : v[f] < w[f] /\ \A e \in f + 1 .. dim : v[e] = w[e]
      BY <1>3 DEF IndexLess
    <2>3. d \in Nat /\ f \in Nat /\ d <= dim /\ f <= dim
      BY DomainAssumption DEF Axis
    <2>4. CASE d < f
      <3>1. u[f] = v[f]
        BY <2>1, <2>3, <2>4, DomainAssumption
      <3>2. \A e \in f + 1 .. dim : u[e] = w[e]
        BY <2>1, <2>2, <2>3, <2>4, DomainAssumption
      <3>. QED
        BY <2>2, <3>1, <3>2 DEF IndexLess
    <2>5. CASE f < d
      <3>1. v[d] = w[d]
        BY <2>2, <2>3, <2>5, DomainAssumption
      <3>2. \A e \in d + 1 .. dim : u[e] = w[e]
        BY <2>1, <2>2, <2>3, <2>5, DomainAssumption
      <3>. QED
        BY <2>1, <3>1, <3>2 DEF IndexLess
    <2>6. CASE f = d
      <3>1. u[d] < w[d]
        BY <2>1, <2>2, <2>6
      <3>2. \A e \in d + 1 .. dim : u[e] = w[e]
        BY <2>1, <2>2, <2>6
      <3>. QED
        BY <3>1, <3>2 DEF IndexLess
    <2>. QED
      BY <2>3, <2>4, <2>5, <2>6
  <1>. QED
    BY <1>1, <1>2, <1>3

LocalCell == [block : Nat, cell : [Axis -> Int]]

\* LocalLess is a strict total order.
LEMMA LocalOrder ==
  /\ \A c \in LocalCell : ~LocalLess(c, c)
  /\ \A b, c \in LocalCell : b # c => LocalLess(b, c) \/ LocalLess(c, b)
  /\ \A a, b, c \in LocalCell : LocalLess(a, b) /\ LocalLess(b, c) => LocalLess(a, c)
  <1>1. \A c \in LocalCell : c.block \in Nat /\ c.cell \in [Axis -> Int]
    BY DEF LocalCell
  <1>2. \A b, c \in LocalCell : b.block = c.block /\ b.cell = c.cell => b = c
    BY DEF LocalCell
  <1>3. ASSUME NEW c \in LocalCell PROVE ~LocalLess(c, c)
    BY <1>1, IndexOrder DEF LocalLess
  <1>4. ASSUME NEW b \in LocalCell, NEW c \in LocalCell, b # c
        PROVE  LocalLess(b, c) \/ LocalLess(c, b)
    BY <1>1, <1>2, <1>4, IndexOrder DEF LocalLess
  <1>5. ASSUME NEW a \in LocalCell, NEW b \in LocalCell, NEW c \in LocalCell,
               LocalLess(a, b), LocalLess(b, c)
        PROVE  LocalLess(a, c)
    BY <1>1, <1>5, IndexOrder DEF LocalLess
  <1>. QED
    BY <1>3, <1>4, <1>5

\* A set that is put in order is a list of its elements, each of them once.
LEMMA InOrderLists ==
  ASSUME NEW cells \in SUBSET LocalCell, IsFiniteSet(cells)
  PROVE  /\ \A k \in DOMAIN InOrder(cells) : InOrder(cells)[k] \in cells
         /\ \A c \in cells : \E k \in DOMAIN InOrder(cells) : InOrder(cells)[k] = c
         /\ \A j, k \in DOMAIN InOrder(cells) : InOrder(cells)[j] = InOrder(cells)[k] => j = k
  <1> DEFINE before == [c \in cells |-> {b \in cells : LocalLess(b, c)}]
             n == Cardinality(cells)
             list == InOrder(cells)
  <1>1. n \in Nat
    BY FS_CardinalityType
  <1>2. /\ \A c \in cells : before[c] \subseteq cells \ {c}
        /\ \A b, c \in cells : b # c => b \in before[c] \/ c \in before[b]
        /\ \A b, c \in cells : b \in before[c] => before[b] \subseteq before[c]
    BY LocalOrder
  <1>3. \A c \in cells : Cardinality({b \in cells : LocalLess(b, c)}) = Cardinality(before[c])
    OBVIOUS
  <1>4. list = [k \in 1 .. n |-> CHOOSE c \in cells : Cardinality({b \in cells : LocalLess(b, c)}) = k - 1]
    BY DEF InOrder
  <1>. HIDE DEF before, n, list
  <1>5. /\ \A j \in 0 .. n - 1 : \E c \in cells : Cardinality(before[c]) = j
        /\ \A c \in cells : Cardinality(before[c]) \in 0 .. n - 1
        /\ \A b, c \in cells : Cardinality(before[b]) = Cardinality(before[c]) => b = c
    BY <1>2, EveryPosition DEF n
  <1>6. ASSUME NEW k \in DOMAIN list
        PROVE  list[k] \in cells /\ Cardinality(before[list[k]]) = k - 1
    <2>1. k \in 1 .. n /\ k - 1 \in 0 .. n - 1
      BY <1>1, <1>4
    <2>2. PICK c \in cells : Cardinality({b \in cells : LocalLess(b, c)}) = k - 1
      BY <1>3, <1>5, <2>1
    <2>3. list[k] = CHOOSE d \in cells : Cardinality({b \in cells : LocalLess(b, d)}) = k - 1
      BY <1>4, <2>1
    <2>. QED
      BY <1>3, <2>2, <2>3
  <1>7. ASSUME NEW c \in cells PROVE \E k \in DOMAIN list : list[k] = c
    <2>1. PICK k \in 1 .. n : k - 1 = Cardinality(before[c])
      <3>1. Cardinality(before[c]) + 1 \in 1 .. n /\ Cardinality(before[c]) \in Int
        BY <1>1, <1>5
      <3>. QED
        BY <3>1
    <2>2. k \in DOMAIN list
      BY <1>4
    <2>. QED
      BY <1>5, <1>6, <2>1, <2>2
  <1>8. ASSUME NEW j \in DOMAIN list, NEW k \in DOMAIN list, list[j] = list[k] PROVE j = k
    <2>1. j \in 1 .. n /\ k \in 1 .. n
      BY <1>4
    <2>2. Cardinality(before[list[j]]) = j - 1
      BY <1>6
    <2>3. Cardinality(before[list[k]]) = k - 1
      BY <1>6
    <2>4. j - 1 = k - 1
      BY <1>8, <2>2, <2>3
    <2>. QED
      BY <2>1, <2>4
  <1>. QED
    BY <1>6, <1>7, <1>8 DEF list

\* The mesh has cells in every direction.
LEMMA SizesOfMesh ==
  \A d \in Axis : globalsize[d] \in Nat \ {0}
  <1> SUFFICES ASSUME NEW d \in Axis PROVE globalsize[d] \in Nat \ {0}
    OBVIOUS
  <1>1. nprocs[d] \in Nat \ {0} /\ nblocks[d] \in Nat \ {0} /\ blocksize[d] \in Nat \ {0}
    BY SizesArePositive DEF Sized
  <1>2. globalsize[d] = (nprocs[d] * nblocks[d]) * blocksize[d]
    BY DEF globalsize, Times
  <1>3. nprocs[d] * nblocks[d] \in Nat \ {0}
    BY <1>1
  <1>. QED
    BY <1>1, <1>2, <1>3

\* GetPeriodic brings every vector of integers into the mesh.
LEMMA PeriodicOfMesh ==
  ASSUME NEW w \in [Axis -> Int]
  PROVE  OfMesh(GetPeriodic(w))
  <1>1. ASSUME NEW d \in Axis PROVE w[d] % globalsize[d] \in Nat /\ w[d] % globalsize[d] < globalsize[d]
    <2>1. w[d] \in Int /\ globalsize[d] \in Nat \ {0}
      BY SizesOfMesh
    <2>. QED
      BY <2>1
  <1>. QED
    BY <1>1 DEF OfMesh, GetPeriodic

\* A box has finitely many vectors.
LEMMA FiniteBox ==
  ASSUME NEW size, Sized(size)
  PROVE  IsFiniteSet(Box(size)) /\ Box(size) \subseteq [Axis -> Int]
  <1> DEFINE last == RowMajor([d \in Axis |-> size[d] - 1], size)
             f == [v \in Box(size) |-> RowMajor(v, size)]
  <1>1. last \in Nat /\ f \in [Box(size) -> 0 .. last]
    BY RowMajorNumbers
  <1>2. \A v, w \in Box(size) : f[v] = f[w] => v = w
    BY RowMajorNumbers
  <1>3. IsFiniteSet(0 .. last)
    <2>. HIDE DEF last
    <2>. QED
      BY <1>1, FS_Interval
  <1>. HIDE DEF f, last
  <1>4. f \in Injection(Box(size), 0 .. last)
    BY <1>1, <1>2 DEF Injection, IsInjective
  <1>5. IsFiniteSet(Box(size))
    BY <1>3, <1>4, FS_Injection
  <1>. QED
    BY <1>5, BoxIs

\* A block has finitely many inner cells.
LEMMA CellsOfBlocks ==
  ASSUME NEW r \in Rank, NEW ib \in Block
  PROVE  IsFiniteSet(InCells[r][ib]) /\ InCells[r][ib] \subseteq [Axis -> Int]
  <1> DEFINE p == ProcOf(r)
             b == BlockOf(ib)
             first == Begin(r, ib)
             f == [v \in Box(blocksize) |-> Plus(first, v)]
  <1>1. p \in Box(nprocs)
    <2>1. \E q \in Box(nprocs) : RowMajor(q, nprocs) = r
      BY RowMajorNumbers, SizesArePositive DEF Rank
    <2>. QED
      BY <2>1 DEF ProcOf
  <1>2. b \in Box(nblocks)
    BY BlockOfIs
  <1>3. p \in [Axis -> Int] /\ b \in [Axis -> Int] /\ Box(blocksize) \subseteq [Axis -> Int]
    BY <1>1, <1>2, FiniteBox, SizesArePositive
  <1>4. first = Times(Plus(Times(nblocks, p), b), blocksize)
    BY DEF Begin
  <1>. HIDE DEF p, b, first
  <1>5. first \in [Axis -> Int]
    <2>1. ASSUME NEW d \in Axis
          PROVE  (nblocks[d] * p[d] + b[d]) * blocksize[d] \in Int
      <3>1. nblocks[d] \in Int /\ p[d] \in Int /\ b[d] \in Int /\ blocksize[d] \in Int
        BY <1>3, SizesArePositive DEF Sized
      <3>. QED
        BY <3>1
    <2>2. first = [d \in Axis |-> (nblocks[d] * p[d] + b[d]) * blocksize[d]]
      BY <1>4 DEF Plus, Times
    <2>. QED
      BY <2>1, <2>2
  <1>6. InCells[r][ib] = {f[v] : v \in Box(blocksize)}
    BY DEF InCells, first
  <1>7. \A v \in Box(blocksize) : f[v] \in [Axis -> Int]
    BY <1>3, <1>5 DEF Plus
  <1>. HIDE DEF f
  <1>8. IsFiniteSet({f[v] : v \in Box(blocksize)})
    BY FiniteBox, SizesArePositive, FiniteImage
  <1>. QED
    BY <1>6, <1>7, <1>8

\* A block sees finitely many cells.
LEMMA SeenCellsFinite ==
  ASSUME NEW r \in Rank, NEW ib \in Block, NEW stencil, stencil.halos \in Nat
  PROVE  IsFiniteSet(SeenCells(r, ib, stencil)) /\ SeenCells(r, ib, stencil) \subseteq [Axis -> Int]
  <1> DEFINE h == stencil.halos
             A == InCells[r][ib]
             B == Offsets(stencil)
             f == [z \in A \X B |-> Plus(z[1], z[2])]
  <1>1. IsFiniteSet(B) /\ B \subseteq [Axis -> Int]
    <2>1. IsFiniteSet(Axis) /\ IsFiniteSet(-h .. h)
      BY DomainAssumption, FS_Interval DEF Axis
    <2>2. IsFiniteSet([Axis -> -h .. h])
      BY <2>1, FiniteFunctions
    <2>3. B \in SUBSET [Axis -> -h .. h]
      BY DEF Offsets
    <2>4. -h .. h \subseteq Int
      OBVIOUS
    <2>. HIDE DEF B, h
    <2>5. IsFiniteSet(B)
      BY <2>2, <2>3, FS_Subset
    <2>. QED
      BY <2>3, <2>4, <2>5
  <1>2. IsFiniteSet(A) /\ A \subseteq [Axis -> Int]
    BY CellsOfBlocks
  <1>3. ASSUME NEW x \in SeenCells(r, ib, stencil) PROVE x \in {f[z] : z \in A \X B}
    <2>1. PICK wc \in A, dw \in B : x = Plus(wc, dw)
      BY DEF SeenCells
    <2>2. <<wc, dw>> \in A \X B /\ f[<<wc, dw>>] = x
      BY <2>1
    <2>. HIDE DEF f
    <2>. QED
      BY <2>2
  <1>. HIDE DEF A, B
  <1>4. \A z \in A \X B : f[z] \in [Axis -> Int]
    BY <1>1, <1>2 DEF Plus
  <1>. HIDE DEF f
  <1>5. IsFiniteSet({f[z] : z \in A \X B})
    BY <1>1, <1>2, FS_Product, FiniteImage
  <1>. QED
    BY <1>3, <1>4, <1>5, FS_Subset

\* A rank receives finitely many cells from another one.
LEMMA RecvSetFinite ==
  ASSUME NEW r \in Rank, NEW stencil, stencil.halos \in Nat
  PROVE  IsFiniteSet(RecvSet(r, stencil)) /\ RecvSet(r, stencil) \subseteq LocalCell
  <1> DEFINE of == [ib \in Block |-> {[block |-> ib, cell |-> w] : w \in SeenCells(r, ib, stencil)}]
  <1>1. ASSUME NEW ib \in Block
        PROVE  IsFiniteSet(of[ib]) /\ of[ib] \subseteq LocalCell
    <2> DEFINE f == [w \in SeenCells(r, ib, stencil) |-> [block |-> ib, cell |-> w]]
    <2>1. IsFiniteSet(SeenCells(r, ib, stencil)) /\ SeenCells(r, ib, stencil) \subseteq [Axis -> Int]
      BY SeenCellsFinite
    <2>2. of[ib] = {f[w] : w \in SeenCells(r, ib, stencil)}
      OBVIOUS
    <2>3. ib \in Nat
      BY DEF Block
    <2>4. of[ib] \subseteq LocalCell
      BY <2>1, <2>3 DEF LocalCell
    <2>. HIDE DEF f, of
    <2>5. IsFiniteSet({f[w] : w \in SeenCells(r, ib, stencil)})
      BY <2>1, FiniteImage
    <2>. QED
      BY <2>2, <2>4, <2>5
  <1>2. RecvSet(r, stencil) = UNION {of[ib] : ib \in Block}
    BY DEF RecvSet
  <1>. HIDE DEF of
  <1>3. IsFiniteSet({of[ib] : ib \in Block})
    BY RanksAreFinite, FiniteImage
  <1>4. \A T \in {of[ib] : ib \in Block} : IsFiniteSet(T)
    BY <1>1
  <1>5. IsFiniteSet(UNION {of[ib] : ib \in Block})
    BY <1>3, <1>4, FS_UNION
  <1>. QED
    BY <1>1, <1>2, <1>5

\* The lists of a rank name cells of its neighbours.
LEMMA ListsAre ==
  ASSUME NEW r \in Rank, NEW stencil, stencil.halos \in Nat,
         NEW s \in DOMAIN GetRecvCells(r, stencil)
  PROVE  LET list == GetRecvCells(r, stencil)[s]
         IN /\ s \in Rank
            /\ \E n \in Nat : list = [k \in 1 .. n |-> list[k]]
            /\ \A k \in DOMAIN list : list[k].cell \in [Axis -> Int]
  <1> DEFINE wanted == RecvSet(r, stencil)
             owner(c) == cell_to_rank(GetPeriodic(c.cell))
             cells == {c \in wanted : owner(c) = s}
             list == GetRecvCells(r, stencil)[s]
  <1>1. GetRecvCells(r, stencil) = [q \in {owner(b) : b \in wanted} |-> InOrder({b \in wanted : owner(b) = q})]
    BY DEF GetRecvCells
  <1>2. list = InOrder(cells)
    BY <1>1
  <1>3. IsFiniteSet(cells) /\ cells \in SUBSET LocalCell
    BY RecvSetFinite, FS_Subset
  <1>4. PICK b \in wanted : owner(b) = s
    BY <1>1
  <1>5. b.cell \in [Axis -> Int]
    BY <1>4, RecvSetFinite DEF LocalCell
  <1>6. s \in Rank
    BY <1>4, <1>5, PeriodicOfMesh, CellHasOneOwner
  <1>. HIDE DEF cells, list
  <1>7. Cardinality(cells) \in Nat
    BY <1>3, FS_CardinalityType
  <1>8. list = [k \in 1 .. Cardinality(cells) |-> list[k]]
    <2> DEFINE n == Cardinality(cells)
               place(k) == CHOOSE c \in cells : Cardinality({a \in cells : LocalLess(a, c)}) = k - 1
    <2>1. list = [k \in 1 .. n |-> place(k)]
      BY <1>2 DEF InOrder
    <2>. HIDE DEF n, place
    <2>2. list = [k \in 1 .. n |-> list[k]]
      BY <2>1
    <2>. QED
      BY <2>2 DEF n
  <1>9. \A k \in DOMAIN list : list[k].cell \in [Axis -> Int]
    BY <1>2, <1>3, InOrderLists DEF LocalCell
  <1>. QED
    BY <1>6, <1>7, <1>8, <1>9 DEF list

(***************************************************************************)
(* What a rank asks another one for is wanted, and is an inner cell of      *)
(* exactly one block of the rank that is asked: the fasserts of             *)
(* GetSendCells hold on every mesh.                                        *)
(***************************************************************************)
THEOREM RequestsHaveOwner ==
  ASSUME NEW r \in Rank, NEW stencil, stencil.halos \in Nat,
         NEW s \in DOMAIN GetRecvCells(r, stencil),
         NEW k \in DOMAIN GetRecvCells(r, stencil)[s]
  PROVE  LET c == GetRecvCells(r, stencil)[s][k]
         IN /\ s \in Rank
            /\ c \in RecvSet(r, stencil)
            /\ Cardinality(OwningBlocks(s, GetPeriodic(c.cell))) = 1
  <1> DEFINE wanted == RecvSet(r, stencil)
             owner(c) == cell_to_rank(GetPeriodic(c.cell))
             cells == {c \in wanted : owner(c) = s}
             c == GetRecvCells(r, stencil)[s][k]
  <1>1. GetRecvCells(r, stencil) = [q \in {owner(b) : b \in wanted} |-> InOrder({b \in wanted : owner(b) = q})]
    BY DEF GetRecvCells
  <1>2. GetRecvCells(r, stencil)[s] = InOrder(cells)
    BY <1>1
  <1>3. IsFiniteSet(cells) /\ cells \in SUBSET LocalCell
    BY RecvSetFinite, FS_Subset
  <1>4. c \in cells
    <2>. HIDE DEF cells
    <2>. QED
      BY <1>2, <1>3, InOrderLists
  <1>. HIDE DEF c
  <1>5. c \in wanted /\ cell_to_rank(GetPeriodic(c.cell)) = s /\ c.cell \in [Axis -> Int]
    BY <1>3, <1>4 DEF LocalCell
  <1>6. OfMesh(GetPeriodic(c.cell))
    BY <1>5, PeriodicOfMesh
  <1>7. s \in Rank /\ Cardinality(OwningBlocks(s, GetPeriodic(c.cell))) = 1
    BY <1>5, <1>6, CellHasOneOwner
  <1>. QED
    BY <1>5, <1>7 DEF c

(***************************************************************************)
(* The lists of a rank name every cell that a block of it sees outside of   *)
(* itself, for every block once, and nothing else.                          *)
(***************************************************************************)
THEOREM ListsCover ==
  ASSUME NEW r \in Rank, NEW stencil, stencil.halos \in Nat, NEW c
  PROVE  LET lists == GetRecvCells(r, stencil)
         IN /\ c \in RecvSet(r, stencil) <=>
                 \E s \in DOMAIN lists : \E k \in DOMAIN lists[s] : lists[s][k] = c
            /\ \A s, q \in DOMAIN lists : \A j \in DOMAIN lists[s], k \in DOMAIN lists[q] :
                 lists[s][j] = c /\ lists[q][k] = c => s = q /\ j = k
  <1> DEFINE wanted == RecvSet(r, stencil)
             owner(b) == cell_to_rank(GetPeriodic(b.cell))
             cells(s) == {b \in wanted : owner(b) = s}
             lists == GetRecvCells(r, stencil)
  <1>1. /\ DOMAIN lists = {owner(b) : b \in wanted}
        /\ \A s \in DOMAIN lists : lists[s] = InOrder(cells(s))
    BY DEF GetRecvCells
  <1>. HIDE DEF lists
  <1>2. ASSUME NEW s
        PROVE  /\ \A k \in DOMAIN InOrder(cells(s)) : InOrder(cells(s))[k] \in cells(s)
               /\ \A b \in cells(s) : \E k \in DOMAIN InOrder(cells(s)) : InOrder(cells(s))[k] = b
               /\ \A j, k \in DOMAIN InOrder(cells(s)) :
                    InOrder(cells(s))[j] = InOrder(cells(s))[k] => j = k
    <2>1. IsFiniteSet(cells(s)) /\ cells(s) \in SUBSET LocalCell
      BY RecvSetFinite, FS_Subset
    <2>. HIDE DEF cells
    <2>. QED
      BY <2>1, InOrderLists
  <1>3. ASSUME c \in wanted
        PROVE  \E s \in DOMAIN lists : \E k \in DOMAIN lists[s] : lists[s][k] = c
    <2> DEFINE s == owner(c)
    <2>1. s \in DOMAIN lists /\ c \in cells(s)
      BY <1>1, <1>3
    <2>. HIDE DEF s, cells
    <2>. QED
      BY <1>1, <1>2, <2>1
  <1>4. ASSUME NEW s \in DOMAIN lists, NEW k \in DOMAIN lists[s], lists[s][k] = c
        PROVE  c \in wanted /\ owner(c) = s
    <2>1. c \in cells(s)
      <3>. HIDE DEF cells
      <3>. QED
        BY <1>1, <1>2, <1>4
    <2>. QED
      BY <2>1
  <1>5. ASSUME NEW s \in DOMAIN lists, NEW q \in DOMAIN lists, NEW j \in DOMAIN lists[s],
               NEW k \in DOMAIN lists[q], lists[s][j] = c, lists[q][k] = c
        PROVE  s = q /\ j = k
    <2>1. s = q
      BY <1>4, <1>5
    <2>. HIDE DEF cells
    <2>. QED
      BY <1>1, <1>2, <1>5, <2>1
  <1>. QED
    BY <1>3, <1>4, <1>5 DEF lists
=============================================================================
