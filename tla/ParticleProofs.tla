--------------------------- MODULE ParticleProofs ---------------------------
(***************************************************************************)
(* Proofs about particles: their removal from the arrays of a block, for   *)
(* arrays of every length and any marks (module Removal), and their        *)
(* transfer between the blocks, for every mesh, all particles and any      *)
(* number of requests and steps (module ParticleExchange): who is in which *)
(* transfer, and then which copies the lists hold.                         *)
(***************************************************************************)
EXTENDS ParticleExchange, Removal, HaloCellsProofs

-----------------------------------------------------------------------------
(***************************************************************************)
(* Removal.  Left of i everything is kept, right of j everything is        *)
(* marked, and the slots hold a permutation of the particles that the      *)
(* marks follow.                                                           *)
(***************************************************************************)
\* The marks go with the particles.
Marks == \A k \in Slot : removed[k] <=> view[k] \in doomed

\* The slots hold a permutation of the particles.
Permutation ==
  /\ \A k, l \in Slot : view[k] = view[l] => k = l
  /\ \A p \in Slot : \E k \in Slot : view[k] = p

\* While the loop runs, what is left of i is kept and what is right of j is marked.
Sorted ==
  phase = "loop" => /\ i <= j + 1
                    /\ \A k \in Slot : k < i => ~removed[k]
                    /\ \A k \in Slot : k > j => removed[k]

\* Thereafter i separates the two.
Split == phase # "loop" => Separated

\* Finally the arrays end there.
Cut == phase = "done" => size = i

\* An array without particles is not looked at.
NonEmpty == phase \in {"loop", "check"} => n > 0

RemovalInv ==
  RemovalTypeOK /\ Marks /\ Permutation /\ Sorted /\ Split /\ Cut /\ NonEmpty /\ CheckPasses

-----------------------------------------------------------------------------
\* The first state satisfies the invariant: slot k holds particle k.
LEMMA InitRemovalInv == RemovalInit => RemovalInv
  <1> SUFFICES ASSUME RemovalInit PROVE RemovalInv
    OBVIOUS
  <1>1. n \in Nat /\ n <= MaxSize
    BY SizeAssumption DEF RemovalInit
  <1>2. RemovalTypeOK
    BY <1>1 DEF RemovalInit, RemovalTypeOK, Slot
  <1>3. \A k \in Slot : view[k] = k
    BY DEF RemovalInit
  <1>4. Marks /\ Permutation
    BY <1>3 DEF RemovalInit, Marks, Permutation
  <1>5. Sorted /\ Split /\ Cut /\ NonEmpty /\ CheckPasses
    BY <1>1 DEF RemovalInit, Sorted, Split, Cut, NonEmpty, CheckPasses, Separated, Slot
  <1>. QED
    BY <1>2, <1>4, <1>5 DEF RemovalInv

\* While the loop runs both indices are slots.
LEMMA BothAreSlots ==
  ASSUME RemovalTypeOK, NonEmpty, Looping
  PROVE  i \in Slot /\ j \in Slot
  BY DEF RemovalTypeOK, NonEmpty, Looping, Slot

\* A slot that is kept is passed by.
LEMMA KeepInv == RemovalInv /\ Keep => RemovalInv'
  <1> SUFFICES ASSUME RemovalInv, Keep PROVE RemovalInv'
    OBVIOUS
  <1>1. i \in Slot /\ j \in Slot
    BY BothAreSlots DEF RemovalInv, Keep
  <1>2. RemovalTypeOK'
    <2>1. i' \in 0 .. n
      BY <1>1 DEF RemovalInv, RemovalTypeOK, Keep, Slot
    <2>. QED
      BY <2>1 DEF RemovalInv, RemovalTypeOK, Keep, Slot
  <1>3. Marks' /\ Permutation'
    BY DEF RemovalInv, Marks, Permutation, Keep, Slot
  <1>4. Sorted'
    BY <1>1 DEF RemovalInv, RemovalTypeOK, Sorted, Keep, Looping, Slot
  <1>5. Split' /\ Cut' /\ NonEmpty' /\ CheckPasses'
    BY DEF RemovalInv, Split, Cut, NonEmpty, CheckPasses, Keep, Looping
  <1>. QED
    BY <1>2, <1>3, <1>4, <1>5 DEF RemovalInv

\* A marked slot at the end is passed by; j does not pass zero, being above i.
LEMMA SkipInv == RemovalInv /\ Skip => RemovalInv'
  <1> SUFFICES ASSUME RemovalInv, Skip PROVE RemovalInv'
    OBVIOUS
  <1>1. i \in Slot /\ j \in Slot
    BY BothAreSlots DEF RemovalInv, Skip
  <1>2. j' = j - 1
    BY <1>1 DEF Skip, Decrement, Slot
  <1>3. RemovalTypeOK'
    <2>1. j' \in 0 .. n /\ (n > 0 => j' < n)
      BY <1>1, <1>2 DEF RemovalInv, RemovalTypeOK, Skip, Slot
    <2>. QED
      BY <2>1 DEF RemovalInv, RemovalTypeOK, Skip, Slot
  <1>4. Marks' /\ Permutation'
    BY DEF RemovalInv, Marks, Permutation, Skip, Slot
  <1>5. Sorted'
    <2>1. i <= j - 1 + 1 /\ \A k \in Slot : k > j - 1 => k = j \/ k > j
      BY <1>1 DEF Skip, Slot
    <2>2. /\ \A k \in Slot : k < i => ~removed[k]
          /\ \A k \in Slot : k > j => removed[k]
          /\ removed[j]
      BY DEF RemovalInv, Sorted, Skip, Looping
    <2>3. UNCHANGED <<Slot, i, removed, n>>
      BY DEF Skip, Slot
    <2>. QED
      BY <1>2, <2>1, <2>2, <2>3 DEF Sorted
  <1>6. Split' /\ Cut' /\ NonEmpty' /\ CheckPasses'
    BY DEF RemovalInv, Split, Cut, NonEmpty, CheckPasses, Skip, Looping
  <1>. QED
    BY <1>3, <1>4, <1>5, <1>6 DEF RemovalInv

\* A swap keeps the permutation and the marks with the particles.
LEMMA SwapParticlesKeeps ==
  ASSUME RemovalTypeOK, Marks, Permutation, UNCHANGED <<n, doomed>>,
         NEW k \in Slot, NEW l \in Slot, SwapParticles(k, l)
  PROVE  /\ view' \in [Slot -> Slot]
         /\ removed' \in [Slot -> BOOLEAN]
         /\ Slot' = Slot
         /\ Marks'
         /\ Permutation'
  <1> DEFINE other(m) == IF m = k THEN l ELSE IF m = l THEN k ELSE m
  <1>1. Slot' = Slot
    BY DEF Slot
  <1>2. \A m \in Slot : /\ other(m) \in Slot
                        /\ other(other(m)) = m
    OBVIOUS
  <1>3. \A m \in Slot : view'[m] = view[other(m)]
    BY DEF SwapParticles, RemovalTypeOK
  <1>4. \A m \in Slot : removed'[m] = removed[other(m)]
    BY DEF SwapParticles, RemovalTypeOK
  <1>5. view' \in [Slot -> Slot] /\ removed' \in [Slot -> BOOLEAN]
    BY DEF SwapParticles, RemovalTypeOK
  <1> HIDE DEF other
  <1>6. Marks'
    BY <1>1, <1>2, <1>3, <1>4 DEF Marks
  <1>7. ASSUME NEW a \in Slot, NEW b \in Slot, view'[a] = view'[b] PROVE a = b
    <2>1. other(a) = other(b)
      BY <1>2, <1>3, <1>7 DEF Permutation
    <2>. QED
      BY <1>2, <2>1
  <1>8. ASSUME NEW p \in Slot PROVE \E m \in Slot : view'[m] = p
    <2>1. PICK m \in Slot : view[m] = p
      BY DEF Permutation
    <2>2. view'[other(m)] = p
      BY <1>2, <1>3, <2>1
    <2>. QED
      BY <1>2, <2>2
  <1>9. Permutation'
    BY <1>1, <1>7, <1>8 DEF Permutation
  <1>. QED
    BY <1>1, <1>5, <1>6, <1>9

\* The kept particle from the end takes the place of the marked one.
LEMMA SwapInv == RemovalInv /\ Swap => RemovalInv'
  <1> SUFFICES ASSUME RemovalInv, Swap PROVE RemovalInv'
    OBVIOUS
  <1>1. i \in Slot /\ j \in Slot /\ i < j
    BY BothAreSlots DEF RemovalInv, Swap, Looping, Slot
  <1>2. /\ view' \in [Slot -> Slot] /\ removed' \in [Slot -> BOOLEAN]
        /\ Slot' = Slot /\ Marks' /\ Permutation'
    BY <1>1, SwapParticlesKeeps DEF RemovalInv, Swap
  <1>3. RemovalTypeOK'
    <2>1. i + 1 \in 0 .. n
      BY <1>1 DEF RemovalInv, RemovalTypeOK, Slot
    <2>. QED
      BY <1>2, <2>1 DEF RemovalInv, RemovalTypeOK, Swap
  <1>4. /\ ~removed'[i]
        /\ \A k \in Slot : k # i /\ k # j => removed'[k] = removed[k]
    BY <1>1 DEF RemovalInv, RemovalTypeOK, Swap, SwapParticles
  <1>5. Sorted'
    <2>1. /\ i \in Int /\ j \in Int /\ i <= j /\ i' = i + 1 /\ j' = j /\ i # j
          /\ \A k \in Slot : k < i => ~removed[k]
          /\ \A k \in Slot : k > j => removed[k]
      BY <1>1 DEF RemovalInv, RemovalTypeOK, Sorted, Swap, Looping, Slot
    <2>2. \A k \in Slot : k \in Int /\ (k < i + 1 => k < i \/ k = i)
      BY <2>1 DEF Slot
    <2>. QED
      BY <1>2, <1>4, <2>1, <2>2 DEF Sorted
  <1>6. Split' /\ Cut' /\ NonEmpty' /\ CheckPasses'
    BY DEF RemovalInv, Split, Cut, NonEmpty, CheckPasses, Swap, Looping
  <1>. QED
    BY <1>2, <1>3, <1>5, <1>6 DEF RemovalInv

\* When the indices meet at a marked slot, i is the first of the marked ones.
LEMMA BreakInv == RemovalInv /\ Break => RemovalInv'
  <1> SUFFICES ASSUME RemovalInv, Break PROVE RemovalInv'
    OBVIOUS
  <1>1. i \in Slot /\ j \in Slot
    BY BothAreSlots DEF RemovalInv, Break
  <1>2. \A k \in Slot : k < i \/ k = i \/ k > j
    BY <1>1 DEF Break, Slot
  <1>3. \A k \in Slot : removed[k] <=> k >= i
    <2>1. /\ removed[i] /\ i = j
          /\ \A k \in Slot : k < i => ~removed[k]
          /\ \A k \in Slot : k > j => removed[k]
      BY DEF RemovalInv, Sorted, Break, Looping
    <2>2. i \in Int /\ Slot \subseteq Int
      BY <1>1 DEF Slot
    <2>. QED
      BY <1>2, <2>1, <2>2
  <1>4. Split'
    <2>1. i <= n
      BY <1>1 DEF RemovalInv, RemovalTypeOK, Slot
    <2>. QED
      BY <1>3, <2>1 DEF Split, Separated, Break, Slot
  <1>5. RemovalTypeOK' /\ Marks' /\ Permutation'
    BY DEF RemovalInv, RemovalTypeOK, Marks, Permutation, Break, Slot
  <1>6. Sorted' /\ Cut' /\ NonEmpty' /\ CheckPasses'
    BY DEF RemovalInv, Sorted, Cut, NonEmpty, CheckPasses, Break, Looping
  <1>. QED
    BY <1>4, <1>5, <1>6 DEF RemovalInv

\* When i has passed j, it has by one.
LEMMA LeaveLoopInv == RemovalInv /\ LeaveLoop => RemovalInv'
  <1> SUFFICES ASSUME RemovalInv, LeaveLoop PROVE RemovalInv'
    OBVIOUS
  <1>1. i = j + 1 /\ j < n
    BY DEF RemovalInv, RemovalTypeOK, Sorted, NonEmpty, LeaveLoop
  <1>2. \A k \in Slot : removed[k] <=> k >= i
    BY <1>1 DEF RemovalInv, RemovalTypeOK, Sorted, LeaveLoop, Slot
  <1>3. Split'
    BY <1>1, <1>2 DEF RemovalInv, RemovalTypeOK, Split, Separated, LeaveLoop, Slot
  <1>4. RemovalTypeOK' /\ Marks' /\ Permutation'
    BY DEF RemovalInv, RemovalTypeOK, Marks, Permutation, LeaveLoop, Slot
  <1>5. Sorted' /\ Cut' /\ NonEmpty' /\ CheckPasses'
    BY DEF RemovalInv, Sorted, Cut, NonEmpty, CheckPasses, LeaveLoop
  <1>. QED
    BY <1>3, <1>4, <1>5 DEF RemovalInv

\* The fasserts find what the loop has established.
LEMMA CheckInv == RemovalInv /\ Check => RemovalInv'
  <1> SUFFICES ASSUME RemovalInv, Check PROVE RemovalInv'
    OBVIOUS
  <1>1. Separated
    BY DEF RemovalInv, Split, Check
  <1>2. phase' = "done" /\ size' = i
    BY <1>1 DEF Check, NewSize
  <1>3. RemovalTypeOK'
    BY <1>2 DEF RemovalInv, RemovalTypeOK, Check, Slot
  <1>4. Marks' /\ Permutation'
    BY DEF RemovalInv, Marks, Permutation, Check, Slot
  <1>5. Separated'
    BY <1>1 DEF Check, Separated, Slot
  <1>6. Sorted' /\ Split' /\ Cut' /\ NonEmpty' /\ CheckPasses'
    BY <1>2, <1>5 DEF Sorted, Split, Cut, NonEmpty, CheckPasses, Check
  <1>. QED
    BY <1>3, <1>4, <1>6 DEF RemovalInv

\* Every step preserves the invariant.
LEMMA NextRemovalInv == RemovalInv /\ [RemovalNext]_RemovalVars => RemovalInv'
  <1> SUFFICES ASSUME RemovalInv, [RemovalNext]_RemovalVars PROVE RemovalInv'
    OBVIOUS
  <1>1. CASE RemovalNext
    <2>1. CASE RemovalHalted
      BY <2>1 DEF RemovalHalted, RemovalVars, RemovalInv, RemovalTypeOK, Marks, Permutation,
                  Sorted, Split, Cut, NonEmpty, CheckPasses, Separated, Slot
    <2>. QED
      BY <1>1, <2>1, KeepInv, SkipInv, SwapInv, BreakInv, LeaveLoopInv, CheckInv
      DEF RemovalNext
  <1>2. CASE UNCHANGED RemovalVars
    BY <1>2 DEF RemovalVars, RemovalInv, RemovalTypeOK, Marks, Permutation, Sorted, Split, Cut,
                NonEmpty, CheckPasses, Separated, Slot
  <1>. QED
    BY <1>1, <1>2

\* The invariant holds in every state.
LEMMA RemovalInvariant == RemovalSpec => []RemovalInv
  BY InitRemovalInv, NextRemovalInv, PTL DEF RemovalSpec

\* For arrays of every length the indices stay within them (ClearRemoved).
THEOREM IndicesStay == RemovalSpec => []RemovalTypeOK
  <1>1. RemovalInv => RemovalTypeOK
    BY DEF RemovalInv
  <1>. QED
    BY <1>1, RemovalInvariant, PTL

\* For arrays of every length and any marks the fasserts at the end hold.
THEOREM FassertsHold == RemovalSpec => []CheckPasses
  <1>1. RemovalInv => CheckPasses
    BY DEF RemovalInv
  <1>. QED
    BY <1>1, RemovalInvariant, PTL

\* For arrays of every length exactly the particles without a mark are left in
\* them, each of them once.
THEOREM ExactlyTheKept == RemovalSpec => []KeptOnce
  <1>1. RemovalInv => KeptOnce
    <2> SUFFICES ASSUME RemovalInv, phase = "done"
                 PROVE  /\ \A p \in Slot : Holds(p) <=> p \notin doomed
                        /\ Distinct
      BY DEF KeptOnce
    <2>1. /\ size = i
          /\ \A k \in Slot : removed[k] <=> k >= size
      BY DEF RemovalInv, Split, Separated, Cut
    <2>2. size \in Nat /\ \A k \in Slot : k < size <=> ~(k >= size)
      BY DEF RemovalInv, RemovalTypeOK, Slot
    <2>3. \A k \in Slot : k < size <=> view[k] \notin doomed
      BY <2>1, <2>2 DEF RemovalInv, Marks
    <2>4. ASSUME NEW p \in Slot PROVE Holds(p) <=> p \notin doomed
      <3>1. PICK k \in Slot : view[k] = p
        BY DEF RemovalInv, Permutation
      <3>. QED
        BY <2>3, <3>1 DEF Holds
    <2>5. Distinct
      BY DEF RemovalInv, Permutation, Distinct
    <2>. QED
      BY <2>4, <2>5
  <1>. QED
    BY <1>1, RemovalInvariant, PTL

-----------------------------------------------------------------------------
(***************************************************************************)
(* Bags.                                                                   *)
(***************************************************************************)
\* A finite bag of elements of a set.
BagOf(bag, S) == IsABag(bag) /\ IsFiniteSet(DOMAIN bag) /\ DOMAIN bag \subseteq S

\* The elements of a bag are counted by positive numbers.
LEMMA BagIs ==
  ASSUME NEW bag
  PROVE  IsABag(bag) <=> bag = [e \in DOMAIN bag |-> bag[e]]
                         /\ \A e \in DOMAIN bag : bag[e] \in Nat \ {0}
  BY DEF IsABag

\* The empty bag is a bag of anything.
LEMMA EmptyIsBag ==
  ASSUME NEW S
  PROVE  BagOf(EmptyBag, S)
  BY FS_EmptySet DEF BagOf, IsABag, EmptyBag, SetToBag

\* The copies of an element in a family of bags are finitely many, and one at least.
LEMMA OccurrencesCounted ==
  ASSUME NEW f, IsFiniteSet(DOMAIN f), \A a \in DOMAIN f : IsABag(f[a]),
         NEW t, \E a \in DOMAIN f : t \in DOMAIN f[a]
  PROVE  IsFiniteSet(Occurrences(f, t)) /\ Cardinality(Occurrences(f, t)) \in Nat \ {0}
  <1> DEFINE A == {b \in DOMAIN f : t \in DOMAIN f[b]}
             part == [a \in A |-> {a} \X (1 .. f[a][t])]
  <1>1. IsFiniteSet(A)
    BY FS_Subset
  <1>2. ASSUME NEW a \in A PROVE f[a][t] \in Nat \ {0} /\ IsFiniteSet(part[a])
    <2>1. f[a][t] \in Nat \ {0}
      BY BagIs
    <2> DEFINE copies == f[a][t]
    <2>2. IsFiniteSet(1 .. copies) /\ IsFiniteSet({a})
      <3>1. copies \in Int /\ 1 \in Int
        BY <2>1
      <3>. HIDE DEF copies
      <3>2. IsFiniteSet(1 .. copies)
        BY <3>1, FS_Interval
      <3>. QED
        BY <3>2, FS_Singleton
    <2>3. IsFiniteSet({a} \X (1 .. f[a][t]))
      BY <2>2, FS_Product
    <2>. QED
      BY <2>1, <2>3
  <1>3. IsFiniteSet({part[a] : a \in A})
    <2>. HIDE DEF part, A
    <2>. QED
      BY <1>1, FiniteImage
  <1>4. IsFiniteSet(UNION {part[a] : a \in A})
    <2>1. \A P \in {part[a] : a \in A} : IsFiniteSet(P)
      BY <1>2
    <2>. HIDE DEF part
    <2>. QED
      BY <1>3, <2>1, FS_UNION
  <1>5. Occurrences(f, t) = UNION {part[a] : a \in A}
    BY DEF Occurrences
  <1>6. Occurrences(f, t) # {}
    <2>1. PICK a \in A : TRUE
      OBVIOUS
    <2>2. 1 \in 1 .. f[a][t]
      <3>1. f[a][t] \in Nat \ {0}
        BY BagIs
      <3>. QED
        BY <3>1
    <2>3. <<a, 1>> \in part[a]
      BY <2>2
    <2>. QED
      BY <1>5, <2>3
  <1>. HIDE DEF part, A
  <1>. QED
    BY <1>4, <1>5, <1>6, FS_CardinalityType, FS_EmptySet

\* The sum of finitely many bags is a bag of their elements.
LEMMA SumIsBag ==
  ASSUME NEW f, NEW S, IsFiniteSet(DOMAIN f), \A a \in DOMAIN f : BagOf(f[a], S)
  PROVE  BagOf(SumOfBags(f), S)
  <1> DEFINE dom == [a \in DOMAIN f |-> DOMAIN f[a]]
             D == UNION {DOMAIN f[a] : a \in DOMAIN f}
  <1>1. IsFiniteSet(D)
    <2>1. IsFiniteSet({dom[a] : a \in DOMAIN f})
      BY FiniteImage
    <2>2. \A P \in {dom[a] : a \in DOMAIN f} : IsFiniteSet(P)
      BY DEF BagOf
    <2>3. D = UNION {dom[a] : a \in DOMAIN f}
      OBVIOUS
    <2>. HIDE DEF dom, D
    <2>. QED
      BY <2>1, <2>2, <2>3, FS_UNION
  <1>2. D \subseteq S
    BY DEF BagOf
  <1>3. \A a \in DOMAIN f : IsABag(f[a])
    BY DEF BagOf
  <1>4. ASSUME NEW t \in D PROVE Cardinality(Occurrences(f, t)) \in Nat \ {0}
    <2>1. \E a \in DOMAIN f : t \in DOMAIN f[a]
      OBVIOUS
    <2>. QED
      BY <1>3, <2>1, OccurrencesCounted
  <1>5. SumOfBags(f) = [t \in D |-> Cardinality(Occurrences(f, t))]
    BY DEF SumOfBags
  <1>. HIDE DEF D
  <1>6. IsABag(SumOfBags(f))
    BY <1>4, <1>5, BagIs
  <1>. QED
    BY <1>1, <1>2, <1>5, <1>6 DEF BagOf

\* So is that of two.
LEMMA PlusIsBag ==
  ASSUME NEW A, NEW B, NEW S, BagOf(A, S), BagOf(B, S)
  PROVE  BagOf(A (+) B, S)
  <1> DEFINE C == A (+) B
  <1>1. DOMAIN C = DOMAIN A \cup DOMAIN B
    BY DEF (+)
  <1>2. ASSUME NEW e \in DOMAIN C PROVE C[e] \in Nat \ {0}
    <2>1. /\ e \in DOMAIN A => A[e] \in Nat \ {0}
          /\ e \in DOMAIN B => B[e] \in Nat \ {0}
          /\ e \in DOMAIN A \/ e \in DOMAIN B
      BY <1>1, BagIs DEF BagOf
    <2>2. C[e] = (IF e \in DOMAIN A THEN A[e] ELSE 0) + (IF e \in DOMAIN B THEN B[e] ELSE 0)
      BY <1>1 DEF (+)
    <2>. QED
      BY <2>1, <2>2
  <1>3. C = [e \in DOMAIN C |-> C[e]]
    BY DEF (+)
  <1>. HIDE DEF C
  <1>4. IsABag(C)
    BY <1>2, <1>3, BagIs
  <1>5. IsFiniteSet(DOMAIN C) /\ DOMAIN C \subseteq S
    BY <1>1, FS_Union DEF BagOf
  <1>. QED
    BY <1>4, <1>5 DEF BagOf, C

-----------------------------------------------------------------------------
(***************************************************************************)
(* Blocks and ranks.                                                       *)
(***************************************************************************)
LEMMA BlocksArePositive ==
  /\ Sized(global_blocks)
  /\ \A d \in Axis : global_blocks[d] = nprocs[d] * nblocks[d]
  <1> SUFFICES ASSUME NEW d \in Axis
               PROVE  /\ global_blocks[d] \in Nat \ {0}
                      /\ global_blocks[d] = nprocs[d] * nblocks[d]
    BY DEF Sized
  <1>1. nprocs[d] \in Nat \ {0} /\ nblocks[d] \in Nat \ {0}
    BY SizesArePositive DEF Sized
  <1>2. global_blocks[d] = nprocs[d] * nblocks[d]
    BY DEF global_blocks, Times
  <1>. QED
    BY <1>1, <1>2

\* Blocks are numbered through.
LEMMA IndexOfIs ==
  /\ \A b \in BlockId : IndexOf[b] \in Box(global_blocks) /\ RowMajor(IndexOf[b], global_blocks) = b
  /\ \A w \in Box(global_blocks) :
       RowMajor(w, global_blocks) \in BlockId /\ IndexOf[RowMajor(w, global_blocks)] = w
  <1>1. ASSUME NEW b \in BlockId
        PROVE  IndexOf[b] \in Box(global_blocks) /\ RowMajor(IndexOf[b], global_blocks) = b
    <2>1. \E w \in Box(global_blocks) : RowMajor(w, global_blocks) = b
      BY RowMajorNumbers, BlocksArePositive DEF BlockId
    <2>. QED
      BY <2>1 DEF IndexOf
  <1>2. ASSUME NEW w \in Box(global_blocks)
        PROVE  RowMajor(w, global_blocks) \in BlockId /\ IndexOf[RowMajor(w, global_blocks)] = w
    <2>1. RowMajor(w, global_blocks) \in BlockId
      BY RowMajorNumbers, BlocksArePositive DEF BlockId
    <2>2. \A v \in Box(global_blocks) : RowMajor(v, global_blocks) = RowMajor(w, global_blocks) => v = w
      BY RowMajorNumbers, BlocksArePositive
    <2>. QED
      BY <2>1, <2>2 DEF IndexOf
  <1>. QED
    BY <1>1, <1>2

\* The index of a block splits into that of its rank and that within the rank.
LEMMA IndexSplits ==
  ASSUME NEW w \in Box(global_blocks)
  PROVE  LET p == Divide(w, nblocks)
             v == [d \in Axis |-> w[d] % nblocks[d]]
         IN p \in Box(nprocs) /\ v \in Box(nblocks) /\ w = Plus(Times(nblocks, p), v)
  <1> DEFINE p == Divide(w, nblocks)
             v == [d \in Axis |-> w[d] % nblocks[d]]
  <1>1. ASSUME NEW d \in Axis
        PROVE  /\ p[d] \in Nat /\ p[d] < nprocs[d]
               /\ v[d] \in Nat /\ v[d] < nblocks[d]
               /\ w[d] = nblocks[d] * p[d] + v[d]
    <2> DEFINE x == w[d]
               m == nblocks[d]
               procs == nprocs[d]
    <2>1. x \in Nat /\ m \in Nat \ {0} /\ procs \in Nat \ {0} /\ x < procs * m
      BY SizesArePositive, BlocksArePositive, BoxIs DEF Sized, Within
    <2>2. p[d] = x \div m /\ v[d] = x % m
      BY DEF Divide
    <2>. HIDE DEF x, m, procs, p, v
    <2>3. x \div m \in Nat /\ x % m \in Nat /\ x % m < m /\ x = (x \div m) * m + (x % m)
      BY <2>1, Quotients
    <2>4. x \div m < procs
      BY <2>1, QuotientBound
    <2>5. (x \div m) * m = m * (x \div m)
      BY <2>1, <2>3
    <2>. QED
      BY <2>2, <2>3, <2>4, <2>5 DEF x, m, procs
  <1>2. p \in [Axis -> Nat] /\ v \in [Axis -> Nat]
    <2>1. p = [d \in Axis |-> p[d]]
      BY DEF Divide
    <2>2. v = [d \in Axis |-> v[d]]
      OBVIOUS
    <2>. HIDE DEF p, v
    <2>. QED
      BY <1>1, <2>1, <2>2
  <1>. HIDE DEF p, v
  <1>3. p \in Box(nprocs) /\ v \in Box(nblocks)
    <2>1. Within(p, nprocs) /\ Within(v, nblocks)
      BY <1>1 DEF Within
    <2>. QED
      BY <1>2, <2>1, BoxIs, SizesArePositive
  <1>4. w = Plus(Times(nblocks, p), v)
    <2>1. w = [d \in Axis |-> w[d]]
      BY BoxIs, BlocksArePositive
    <2>. QED
      BY <2>1, <1>1 DEF Plus, Times
  <1>. QED
    BY <1>3, <1>4 DEF p, v

\* A block is sent to the rank that has a kernel for it, and to no other one.
LEMMA KernelsAre ==
  /\ \A b \in BlockId : rank_from_id(b) \in Rank /\ b \in Kernels[rank_from_id(b)]
  /\ \A r \in Rank : \A b \in Kernels[r] : b \in BlockId /\ rank_from_id(b) = r
  <1>1. ASSUME NEW b \in BlockId
        PROVE  rank_from_id(b) \in Rank /\ b \in Kernels[rank_from_id(b)]
    <2> DEFINE w == IndexOf[b]
               p == Divide(w, nblocks)
               v == [d \in Axis |-> w[d] % nblocks[d]]
               r == rank_from_id(b)
               ib == RowMajor(v, nblocks)
    <2>1. w \in Box(global_blocks) /\ RowMajor(w, global_blocks) = b
      BY IndexOfIs
    <2>2. p \in Box(nprocs) /\ v \in Box(nblocks) /\ w = Plus(Times(nblocks, p), v)
      <3>. HIDE DEF w
      <3>. QED
        BY <2>1, IndexSplits
    <2>3. r = RowMajor(p, nprocs)
      BY DEF rank_from_id
    <2>. HIDE DEF w, p, v, r
    <2>4. r \in Rank /\ ProcOf(r) = p
      BY <2>2, <2>3, ProcOfIs
    <2>5. ib \in Block /\ BlockOf(ib) = v
      BY <2>2, BlockOfIs
    <2>. HIDE DEF ib
    <2>6. b = RowMajor(Plus(Times(nblocks, ProcOf(r)), BlockOf(ib)), global_blocks)
      BY <2>1, <2>2, <2>4, <2>5
    <2>. QED
      BY <2>4, <2>5, <2>6 DEF Kernels, r
  <1>2. ASSUME NEW r \in Rank, NEW b \in Kernels[r]
        PROVE  b \in BlockId /\ rank_from_id(b) = r
    <2>1. PICK ib \in Block : b = RowMajor(Plus(Times(nblocks, ProcOf(r)), BlockOf(ib)), global_blocks)
      BY DEF Kernels
    <2>2. BlockOf(ib) \in Box(nblocks)
      BY BlockOfIs
    <2>3. PICK p \in Box(nprocs) : RowMajor(p, nprocs) = r
      BY RowMajorNumbers, SizesArePositive DEF Rank
    <2>4. ProcOf(r) = p
      BY <2>3, ProcOfIs
    <2> DEFINE v == BlockOf(ib)
               w == Plus(Times(nblocks, p), v)
    <2>5. v \in Box(nblocks) /\ b = RowMajor(w, global_blocks)
      BY <2>1, <2>2, <2>4
    <2>. HIDE DEF v
    <2>6. ASSUME NEW d \in Axis
          PROVE  w[d] \in Nat /\ w[d] < global_blocks[d] /\ w[d] \div nblocks[d] = p[d]
      <3>1. /\ v[d] \in Nat /\ v[d] < nblocks[d] /\ p[d] \in Nat /\ p[d] < nprocs[d]
            /\ nblocks[d] \in Nat \ {0} /\ nprocs[d] \in Nat \ {0}
        BY <2>3, <2>5, BoxIs, SizesArePositive DEF Sized, Within
      <3>2. w[d] = nblocks[d] * p[d] + v[d] /\ global_blocks[d] = nprocs[d] * nblocks[d]
        BY BlocksArePositive DEF Plus, Times
      <3> DEFINE m == nblocks[d]
                 x == p[d]
                 y == v[d]
                 procs == nprocs[d]
      <3>3. m \in Nat \ {0} /\ x \in Nat /\ y \in Nat /\ procs \in Nat \ {0} /\ x < procs /\ y < m
        BY <3>1
      <3>. HIDE DEF m, x, y, procs
      <3>4. y + x * m \in Nat /\ y + x * m < m * procs
        BY <3>3, DigitBound
      <3>5. m * x + y = y + x * m /\ m * procs = procs * m
        BY <3>3
      <3>6. (m * x + y) \div m = x
        <4>1. m * x + y \in Nat
          BY <3>4, <3>5
        <4> DEFINE z == m * x + y
                   q == z \div m
                   s == z % m
        <4>2. q \in Nat /\ s \in Nat /\ s < m /\ z = q * m + s
          BY <3>3, <4>1, Quotients
        <4>3. y + x * m = s + q * m
          <5>. HIDE DEF q, s
          <5>1. q * m \in Nat
            BY <4>2, <3>3
          <5>. QED
            BY <3>4, <3>5, <4>2, <5>1
        <4>. HIDE DEF q, s
        <4>4. x = q
          BY <3>3, <4>2, <4>3, DigitUnique
        <4>. QED
          BY <4>4 DEF q
      <3>. QED
        BY <3>2, <3>4, <3>5, <3>6 DEF m, x, y, procs
    <2>7. w \in Box(global_blocks)
      <3>1. w \in [Axis -> Nat] /\ Within(w, global_blocks)
        BY <2>6 DEF Within, Plus
      <3>. HIDE DEF w
      <3>. QED
        BY <3>1, BoxIs, BlocksArePositive
    <2>8. Divide(w, nblocks) = p
      <3>1. p = [d \in Axis |-> p[d]]
        BY <2>3, BoxIs, SizesArePositive
      <3>. HIDE DEF w
      <3>. QED
        BY <2>6, <3>1 DEF Divide
    <2>. HIDE DEF w
    <2>9. b \in BlockId /\ IndexOf[b] = w
      BY <2>5, <2>7, IndexOfIs
    <2>. QED
      BY <2>3, <2>8, <2>9 DEF rank_from_id
  <1>. QED
    BY <1>1, <1>2

-----------------------------------------------------------------------------
(***************************************************************************)
(* Destinations.                                                           *)
(***************************************************************************)
Vectors == [Axis -> Int]

\* A finite set of integers has a least and a greatest element.
LEMMA Extremes ==
  ASSUME NEW S \in SUBSET Int, IsFiniteSet(S), S # {}
  PROVE  /\ Min(S) \in S /\ \A y \in S : Min(S) <= y
         /\ Max(S) \in S /\ \A y \in S : y <= Max(S)
  <1> DEFINE id == [y \in S |-> y]
             neg == [y \in S |-> -y]
  <1>1. \E x \in S : \A y \in S : y <= x
    <2>1. \A x \in S : id[x] \in Int /\ id[x] = x
      OBVIOUS
    <2>. HIDE DEF id
    <2>2. \E x \in S : \A y \in S : id[y] <= id[x]
      BY <2>1, FiniteHasGreatest
    <2>. QED
      BY <2>1, <2>2
  <1>2. \E x \in S : \A y \in S : x <= y
    <2>1. \A x \in S : neg[x] \in Int /\ neg[x] = -x
      OBVIOUS
    <2>. HIDE DEF neg
    <2>2. PICK x \in S : \A y \in S : neg[y] <= neg[x]
      BY <2>1, FiniteHasGreatest
    <2>3. \A y \in S : -y <= -x
      BY <2>1, <2>2
    <2>. QED
      BY <2>3
  <1>3. Max(S) \in S /\ \A y \in S : y <= Max(S)
    <2>1. \E x \in S : \A y \in S : x >= y
      BY <1>1
    <2>. QED
      BY <2>1 DEF Max
  <1>4. Min(S) \in S /\ \A y \in S : Min(S) <= y
    BY <1>2 DEF Min
  <1>. QED
    BY <1>3, <1>4

\* The blocks that the box of a copy touches.
First(x, d) == (x[d] - halorad) \div blocksize[d]
Last(x, d) == (x[d] + halorad) \div blocksize[d]

LEMMA TouchedIs ==
  ASSUME NEW x \in Vectors
  PROVE  /\ Touched(x) = {w \in Vectors : \A d \in Axis : First(x, d) <= w[d] /\ w[d] <= Last(x, d)}
         /\ \A d \in Axis : First(x, d) \in Int /\ Last(x, d) \in Int
         /\ IsFiniteSet(Touched(x))
  <1> DEFINE F == {First(x, d) : d \in Axis}
             L == {Last(x, d) : d \in Axis}
             T == Min(F) .. Max(L)
             In(w) == \A d \in Axis : First(x, d) <= w[d] /\ w[d] <= Last(x, d)
  <1>1. ASSUME NEW d \in Axis PROVE First(x, d) \in Int /\ Last(x, d) \in Int
    <2>1. x[d] \in Int /\ halorad \in Nat /\ blocksize[d] \in Nat \ {0}
      BY SizesArePositive, ParticleAssumption DEF Vectors, Sized
    <2>. QED
      BY <2>1 DEF First, Last
  <1>2. Touched(x) = {w \in [Axis -> T] : In(w)}
    BY DEF Touched, First, Last
  <1>3. IsFiniteSet(Axis)
    BY DomainAssumption, FS_Interval DEF Axis
  <1>4. CASE Axis = {}
    <2>1. \A S : [Axis -> S] = {[d \in {} |-> 0]}
      BY <1>4
    <2>2. Touched(x) = {w \in Vectors : In(w)} /\ Touched(x) \subseteq {[d \in {} |-> 0]}
      <3>. HIDE DEF T
      <3>1. [Axis -> T] = Vectors
        BY <2>1 DEF Vectors
      <3>. QED
        BY <1>2, <2>1, <3>1
    <2>3. IsFiniteSet(Touched(x))
      BY <2>2, FS_Singleton, FS_Subset
    <2>. QED
      BY <1>1, <2>2, <2>3
  <1>5. CASE Axis # {}
    <2>1. F \in SUBSET Int /\ F # {} /\ L \in SUBSET Int /\ L # {}
      BY <1>1, <1>5
    <2>2. IsFiniteSet(F) /\ IsFiniteSet(L)
      <3> DEFINE f == [d \in Axis |-> First(x, d)]
                 l == [d \in Axis |-> Last(x, d)]
      <3>1. IsFiniteSet({f[d] : d \in Axis}) /\ IsFiniteSet({l[d] : d \in Axis})
        <4>. HIDE DEF f, l
        <4>. QED
          BY <1>3, FiniteImage
      <3>. QED
        BY <3>1
    <2>3. \A d \in Axis : First(x, d) \in F /\ Last(x, d) \in L
      OBVIOUS
    <2>. HIDE DEF F, L
    <2>4. Min(F) \in Int /\ Max(L) \in Int
      BY <2>1, <2>2, Extremes
    <2>5. \A d \in Axis : Min(F) <= First(x, d) /\ Last(x, d) <= Max(L)
      BY <2>1, <2>2, <2>3, Extremes
    <2>6. T \subseteq Int /\ IsFiniteSet(T)
      BY <2>4, FS_Interval
    <2>7. ASSUME NEW w \in Vectors, In(w) PROVE w \in [Axis -> T]
      <3>1. \A d \in Axis : w[d] \in T
        BY <1>1, <2>4, <2>5, <2>7 DEF Vectors
      <3>. QED
        BY <3>1 DEF Vectors
    <2>. HIDE DEF T
    <2>8. [Axis -> T] \subseteq Vectors
      BY <2>6 DEF Vectors
    <2>9. IsFiniteSet([Axis -> T])
      BY <1>3, <2>6, FiniteFunctions
    <2>10. Touched(x) = {w \in Vectors : In(w)}
      BY <1>2, <2>7, <2>8
    <2>11. IsFiniteSet(Touched(x))
      BY <1>2, <2>9, FS_Subset
    <2>. QED
      BY <1>1, <2>10, <2>11
  <1>. QED
    BY <1>4, <1>5

\* The image of a block is a vector, and so is the copy that goes with it.
LEMMA ImagesAreVectors ==
  ASSUME NEW x \in Vectors, NEW w \in Vectors
  PROVE  Canonical(w) \in Vectors /\ Image(x, w) \in Vectors
  <1>1. ASSUME NEW d \in Axis
        PROVE  Canonical(w)[d] \in Int /\ Image(x, w)[d] \in Int
    <2>1. w[d] \in Int /\ x[d] \in Int /\ global_blocks[d] \in Nat \ {0} /\ globalsize[d] \in Nat \ {0}
      BY BlocksArePositive, SizesOfMesh DEF Vectors, Sized
    <2>2. w[d] % global_blocks[d] \in Int
      BY <2>1
    <2>3. Canonical(w)[d] \in Int
      BY <2>1, <2>2 DEF Canonical
    <2>4. Image(x, w)[d] = x[d] + ((Canonical(w)[d] - w[d]) \div global_blocks[d]) * globalsize[d]
      BY DEF Image
    <2> DEFINE k == (Canonical(w)[d] - w[d]) \div global_blocks[d]
    <2>5. k \in Int
      BY <2>1, <2>3
    <2>. HIDE DEF k
    <2>6. k * globalsize[d] \in Int
      BY <2>1, <2>5
    <2>. QED
      BY <2>1, <2>3, <2>4, <2>6 DEF k
  <1>2. Canonical(w) = [d \in Axis |-> Canonical(w)[d]] /\ Image(x, w) = [d \in Axis |-> Image(x, w)[d]]
    BY DEF Canonical, Image
  <1>. QED
    BY <1>1, <1>2 DEF Vectors

Copy == [id : Particle, x : Vectors, inner : BOOLEAN]
Target == [block : BlockId, id : Particle, x : Vectors]

\* A copy has finitely many destinations.
LEMMA DestinationsAre ==
  ASSUME NEW c \in Copy
  PROVE  IsFiniteSet(Destinations(c)) /\ Destinations(c) \subseteq Target
  <1> DEFINE W == {v \in Touched(c.x) : Canonical(v) \in Box(global_blocks)}
             f == [w \in W |-> [block |-> RowMajor(Canonical(w), global_blocks), id |-> c.id,
                                x |-> Image(c.x, w)]]
  <1>1. c.x \in Vectors /\ c.id \in Particle
    BY DEF Copy
  <1>2. IsFiniteSet(W) /\ W \subseteq Vectors
    BY <1>1, TouchedIs, FS_Subset
  <1>3. Destinations(c) = {f[w] : w \in W}
    BY DEF Destinations
  <1>4. ASSUME NEW w \in W PROVE f[w] \in Target
    <2>1. RowMajor(Canonical(w), global_blocks) \in BlockId
      BY IndexOfIs
    <2>2. Image(c.x, w) \in Vectors
      BY <1>1, <1>2, ImagesAreVectors
    <2>. QED
      BY <1>1, <2>1, <2>2 DEF Target
  <1>. HIDE DEF f, W
  <1>. QED
    BY <1>2, <1>3, <1>4, FiniteImage

-----------------------------------------------------------------------------
(***************************************************************************)
(* Lists of copies and messages.                                           *)
(***************************************************************************)
Lists == \A q \in Request, b \in BlockId : BagOf(particles[q][b], Copy)

\* A rank has finitely many blocks and inner copies.
LEMMA InnerCopiesAre ==
  ASSUME Lists, NEW r \in Rank, NEW q \in Request
  PROVE  /\ IsFiniteSet(InnerCopies(r, q))
         /\ \A z \in InnerCopies(r, q) :
              /\ z[1] \in Kernels[r] /\ z[1] \in BlockId
              /\ z[2] \in DOMAIN particles[q][z[1]] /\ z[2] \in Copy /\ z[2].inner
  <1> DEFINE of == [b \in Kernels[r] |-> {<<b, c>> : c \in {k \in DOMAIN particles[q][b] : k.inner}}]
             id == [ib \in Block |->
                      RowMajor(Plus(Times(nblocks, ProcOf(r)), BlockOf(ib)), global_blocks)]
  <1>1. IsFiniteSet(Kernels[r])
    <2>1. Kernels[r] = {id[ib] : ib \in Block}
      BY DEF Kernels
    <2>. HIDE DEF id
    <2>. QED
      BY <2>1, RanksAreFinite, FiniteImage
  <1>2. ASSUME NEW b \in Kernels[r] PROVE IsFiniteSet(of[b])
    <2> DEFINE C == {k \in DOMAIN particles[q][b] : k.inner}
               pair == [c \in C |-> <<b, c>>]
    <2>1. IsFiniteSet(C)
      BY KernelsAre, FS_Subset DEF Lists, BagOf
    <2>2. of[b] = {pair[c] : c \in C}
      OBVIOUS
    <2>. HIDE DEF pair, C, of
    <2>. QED
      BY <2>1, <2>2, FiniteImage
  <1>3. InnerCopies(r, q) = UNION {of[b] : b \in Kernels[r]}
    <2>1. \A b \in Kernels[r] : of[b] = {<<b, c>> : c \in {k \in DOMAIN particles[q][b] : k.inner}}
      OBVIOUS
    <2>. HIDE DEF of
    <2>2. ASSUME NEW z
          PROVE  z \in InnerCopies(r, q) <=> \E b \in Kernels[r] : z \in of[b]
      BY <2>1 DEF InnerCopies
    <2>. QED
      BY <2>2
  <1>4. IsFiniteSet(InnerCopies(r, q))
    <2>. HIDE DEF of
    <2>1. IsFiniteSet({of[b] : b \in Kernels[r]})
      BY <1>1, FiniteImage
    <2>. QED
      BY <1>2, <1>3, <2>1, FS_UNION
  <1>5. ASSUME NEW z \in InnerCopies(r, q)
        PROVE  /\ z[1] \in Kernels[r] /\ z[1] \in BlockId
               /\ z[2] \in DOMAIN particles[q][z[1]] /\ z[2] \in Copy /\ z[2].inner
    <2>1. PICK b \in Kernels[r] : z \in of[b]
      BY <1>3
    <2>2. PICK c \in DOMAIN particles[q][b] : z = <<b, c>> /\ c.inner
      BY <2>1
    <2>. QED
      BY <2>2, KernelsAre DEF Lists, BagOf
  <1>. QED
    BY <1>4, <1>5

\* What a rank sends is a bag of destinations.
LEMMA TmpIs ==
  ASSUME Lists, NEW r \in Rank, NEW q \in Request
  PROVE  BagOf(Tmp(r, q), Target)
  <1> DEFINE f == [bc \in InnerCopies(r, q) |->
                     [t \in Destinations(bc[2]) |-> particles[q][bc[1]][bc[2]]]]
  <1>1. IsFiniteSet(DOMAIN f)
    BY InnerCopiesAre
  <1>2. ASSUME NEW z \in DOMAIN f PROVE BagOf(f[z], Target)
    <2>1. /\ z[1] \in BlockId /\ z[2] \in DOMAIN particles[q][z[1]] /\ z[2] \in Copy
      BY InnerCopiesAre
    <2> DEFINE m == particles[q][z[1]][z[2]]
    <2>2. m \in Nat \ {0}
      BY <2>1, BagIs DEF Lists, BagOf
    <2>3. f[z] = [t \in Destinations(z[2]) |-> m]
      OBVIOUS
    <2>4. IsFiniteSet(Destinations(z[2])) /\ Destinations(z[2]) \subseteq Target
      BY <2>1, DestinationsAre
    <2>. HIDE DEF m, f
    <2>5. IsABag(f[z])
      BY <2>2, <2>3, BagIs
    <2>. QED
      BY <2>3, <2>4, <2>5 DEF BagOf
  <1>3. Tmp(r, q) = SumOfBags(f)
    BY DEF Tmp
  <1>. HIDE DEF f
  <1>. QED
    BY <1>1, <1>2, <1>3, SumIsBag

\* A part of it is one.
LEMMA RestrictedIs ==
  ASSUME NEW bag, NEW S, BagOf(bag, S), NEW blocks
  PROVE  /\ BagOf(Restricted(bag, blocks), S)
         /\ \A t \in DOMAIN Restricted(bag, blocks) : t.block \in blocks
  <1> DEFINE D == {u \in DOMAIN bag : u.block \in blocks}
             R == Restricted(bag, blocks)
  <1>1. R = [t \in D |-> bag[t]]
    BY DEF Restricted
  <1>2. IsFiniteSet(D) /\ D \subseteq S
    BY FS_Subset DEF BagOf
  <1>3. \A t \in D : bag[t] \in Nat \ {0}
    BY BagIs DEF BagOf
  <1>4. IsABag(R)
    <2>. HIDE DEF R
    <2>. QED
      BY <1>1, <1>3, BagIs
  <1>. QED
    BY <1>1, <1>2, <1>4 DEF BagOf

\* The copies that a block makes of it are copies of particles.
LEMMA ArrivingIs ==
  ASSUME NEW bag, BagOf(bag, Target), NEW b \in BlockId
  PROVE  BagOf(Arriving(bag, b), Copy)
  <1> DEFINE here == {t \in DOMAIN bag : t.block = b}
             copy == [t \in here |-> [id |-> t.id, x |-> t.x, inner |-> IsInnerPoint(b, t.x)]]
             A == Arriving(bag, b)
             C == {copy[t] : t \in here}
  <1>1. A = [c \in C |-> bag[[block |-> b, id |-> c.id, x |-> c.x]]]
    BY DEF Arriving
  <1>2. IsFiniteSet(here) /\ here \subseteq Target
    BY FS_Subset DEF BagOf
  <1>3. IsFiniteSet(C)
    <2>. HIDE DEF copy, here
    <2>. QED
      BY <1>2, FiniteImage
  <1>4. ASSUME NEW t \in here
        PROVE  /\ copy[t] \in Copy
               /\ [block |-> b, id |-> copy[t].id, x |-> copy[t].x] = t
    <2>1. t \in Target /\ t.block = b
      BY <1>2
    <2>2. IsInnerPoint(b, t.x) \in BOOLEAN
      BY DEF IsInnerPoint
    <2>3. copy[t] = [id |-> t.id, x |-> t.x, inner |-> IsInnerPoint(b, t.x)]
      OBVIOUS
    <2>. HIDE DEF copy, here
    <2>4. copy[t] \in Copy
      BY <2>1, <2>2, <2>3 DEF Copy, Target
    <2>5. t = [block |-> t.block, id |-> t.id, x |-> t.x]
      BY <2>1 DEF Target
    <2>. QED
      BY <2>1, <2>3, <2>4, <2>5
  <1>5. \A c \in C : bag[[block |-> b, id |-> c.id, x |-> c.x]] \in Nat \ {0}
    <2> SUFFICES ASSUME NEW t \in here
                 PROVE  bag[[block |-> b, id |-> copy[t].id, x |-> copy[t].x]] \in Nat \ {0}
      OBVIOUS
    <2>1. bag[t] \in Nat \ {0}
      BY BagIs DEF BagOf
    <2>. HIDE DEF copy
    <2>. QED
      BY <1>4, <2>1
  <1>6. C \subseteq Copy
    BY <1>4
  <1>. HIDE DEF A, C
  <1>7. IsABag(A)
    BY <1>1, <1>5, BagIs
  <1>. QED
    BY <1>1, <1>3, <1>6, <1>7 DEF BagOf, A

-----------------------------------------------------------------------------
(***************************************************************************)
(* Motion.                                                                 *)
(***************************************************************************)
\* A particle that has not been removed is at a vector again.
LEMMA MovedIs ==
  ASSUME NEW x \in Vectors, NEW shift \in Moves
  PROVE  Moved(x, shift) = Gone \/ Moved(x, shift) \in Vectors
  <1> DEFINE y == Plus(x, shift)
  <1>1. y \in Vectors
    BY ParticleAssumption DEF Plus, Vectors
  <1>2. Translated(y) \in Vectors
    <2>1. ASSUME NEW d \in Axis PROVE Translated(y)[d] \in Int
      <3>1. y[d] \in Int /\ globalsize[d] \in Int
        BY <1>1, SizesOfMesh DEF Vectors
      <3>. HIDE DEF y
      <3>. QED
        BY <3>1 DEF Translated
    <2>2. Translated(y) = [d \in Axis |-> Translated(y)[d]]
      BY DEF Translated
    <2>. QED
      BY <2>1, <2>2 DEF Vectors
  <1>. QED
    BY <1>2 DEF Moved

\* The list of a block after the motion.
LEMMA MovedBagIs ==
  ASSUME NEW bag, BagOf(bag, Copy), NEW shift,
         \A c \in DOMAIN bag : c.inner => shift[c.id] \in Moves
  PROVE  BagOf(MovedBag(bag, shift), Copy)
  <1> DEFINE copy == [c \in DOMAIN bag |->
                        IF c.inner THEN [c EXCEPT !.x = Moved(c.x, shift[c.id])] ELSE c]
             kept == {c \in DOMAIN bag : copy[c].x # Gone}
             f == [c \in kept |-> [d \in {copy[c]} |-> bag[c]]]
  <1>1. MovedBag(bag, shift) = SumOfBags(f)
    BY DEF MovedBag
  <1>2. IsFiniteSet(DOMAIN f)
    BY FS_Subset DEF BagOf
  <1>3. ASSUME NEW c \in kept PROVE copy[c] \in Copy
    <2>1. c \in Copy
      BY DEF BagOf
    <2>2. CASE c.inner
      <3>1. copy[c] = [c EXCEPT !.x = Moved(c.x, shift[c.id])]
        BY <2>2
      <3>2. copy[c].x = Moved(c.x, shift[c.id])
        <4>. HIDE DEF copy
        <4>. QED
          BY <2>1, <3>1 DEF Copy
      <3>3. Moved(c.x, shift[c.id]) \in Vectors
        <4>1. c.x \in Vectors /\ shift[c.id] \in Moves
          BY <2>1, <2>2 DEF Copy
        <4>2. Moved(c.x, shift[c.id]) # Gone
          BY <3>2
        <4>. QED
          BY <4>1, <4>2, MovedIs
      <3>. HIDE DEF copy, kept
      <3>. QED
        BY <2>1, <3>1, <3>3 DEF Copy
    <2>3. CASE ~c.inner
      BY <2>1, <2>3
    <2>. QED
      BY <2>2, <2>3
  <1>4. ASSUME NEW c \in DOMAIN f PROVE BagOf(f[c], Copy)
    <2>1. bag[c] \in Nat \ {0}
      BY BagIs DEF BagOf
    <2>2. copy[c] \in Copy
      BY <1>3
    <2>3. f[c] = [d \in {copy[c]} |-> bag[c]]
      OBVIOUS
    <2>. HIDE DEF f, copy, kept
    <2>4. IsABag(f[c])
      BY <2>1, <2>3, BagIs
    <2>. QED
      BY <2>2, <2>3, <2>4, FS_Singleton DEF BagOf
  <1>. HIDE DEF f
  <1>. QED
    BY <1>1, <1>2, <1>4, SumIsBag

-----------------------------------------------------------------------------
(***************************************************************************)
(* The invariant.                                                          *)
(***************************************************************************)
\* The transfers of a request a rank has begun: it has sent its copies in all of them.
Calls(r) == Len(dest[r])

\* Variables are functions of ranks and blocks.
Shapes ==
  /\ particles = [q \in Request |-> [b \in BlockId |-> particles[q][b]]]
  /\ chan = [s \in Rank |-> [r \in Rank |-> chan[s][r]]]
  /\ dest \in [Rank -> Seq(SUBSET Rank)]

\* The collective operations a rank has entered: two in a transfer.
Counted ==
  \A r \in Rank :
    entered[r] = IF pc[r] \in {"reducing", "receive"} THEN 2 * Calls(r) - 1 ELSE 2 * Calls(r)

\* A rank is ahead of another one by one operation at most, and only inside of it.
Abreast ==
  \A r, q \in Rank :
    /\ entered[q] >= entered[r] - 1
    /\ pc[r] \notin {"reducing", "leaving"} => entered[q] >= entered[r]

\* The transfers are those of all requests, one after the other, step by step.
Begun(r) == IF pc[r] \in {"move", "send"} THEN request[r] - 1 ELSE request[r]

InOrderOfRequests ==
  \A r \in Rank :
    /\ Calls(r) = (step[r] - 1) * nreq + Begun(r)
    /\ pc[r] = "move" => request[r] = 1
    /\ pc[r] # "move" => step[r] <= Steps

\* No fassert has failed.
NoAbort == \A r \in Rank : pc[r] # "aborted"

\* Rank r has yet to learn how many messages there are in the transfer that s is in.
Awaits(r, s) ==
  \/ Calls(s) = Calls(r) + 1 /\ pc[r] \in {"leaving", "move", "send"}
  \/ Calls(s) = Calls(r) /\ pc[r] = "reducing"

\* A message of the transfer that s is in, with copies for the blocks of r.
IsMessage(m, s, r) ==
  /\ m = [call |-> Calls(s), buf |-> m.buf]
  /\ BagOf(m.buf, Target)
  /\ \A t \in DOMAIN m.buf : rank_from_id(t.block) = r

\* The only message from s to r is the one of the transfer that s is in.
Way(s, r) ==
  /\ Awaits(r, s) => (chan[s][r] # <<>> <=> r \in dest[s][Calls(s)])
  /\ chan[s][r] # <<>> =>
       /\ Awaits(r, s) \/ (Calls(s) = Calls(r) /\ pc[r] = "receive")
       /\ \E m : chan[s][r] = <<m>> /\ IsMessage(m, s, r)
       /\ pc[s] \notin {"move", "send"}

OnTheWay == \A s, r \in Rank : Way(s, r)

\* The number of messages to come.
Senders(r) == {s \in Rank : chan[s][r] # <<>>}

ToCome == \A r \in Rank : pc[r] = "receive" => left[r] = Cardinality(Senders(r))

IInv ==
  /\ TypeOK /\ Shapes /\ Lists /\ Counted /\ Abreast /\ InOrderOfRequests /\ NoAbort
  /\ OnTheWay /\ ToCome

-----------------------------------------------------------------------------
\* Initially nobody has entered an operation and nothing has been sent.
LEMMA InitInv == Init => IInv
  <1> SUFFICES ASSUME Init PROVE IInv
    OBVIOUS
  <1>1. nreq \in Nat \ {0} /\ Steps \in Nat \ {0} /\ 1 \in Request /\ IsFiniteSet(Particle)
    BY ParticleAssumption DEF Request
  <1>2. \A r \in Rank : Calls(r) = 0 /\ dest[r] = <<>>
    BY DEF Init, Calls
  <1>3. PICK x \in [Request \X Particle -> Starts], home \in [Request \X Particle -> BlockId] :
          particles = [q \in Request |-> [b \in BlockId |->
            SetToBag({[id |-> p, x |-> x[<<q, p>>], inner |-> TRUE] :
                        p \in {k \in Particle : home[<<q, k>>] = b}})]]
    BY DEF Init
  <1>4. Lists
    <2> SUFFICES ASSUME NEW q \in Request, NEW b \in BlockId
                 PROVE  BagOf(particles[q][b], Copy)
      BY DEF Lists
    <2> DEFINE P == {k \in Particle : home[<<q, k>>] = b}
               c == [p \in P |-> [id |-> p, x |-> x[<<q, p>>], inner |-> TRUE]]
               C == {c[p] : p \in P}
    <2>1. particles[q][b] = SetToBag(C)
      BY <1>3
    <2>2. IsFiniteSet(P)
      BY <1>1, FS_Subset
    <2>3. ASSUME NEW p \in P PROVE c[p] \in Copy
      <3>1. p \in Particle /\ x[<<q, p>>] \in Vectors
        BY ParticleAssumption DEF Vectors
      <3>. QED
        BY <3>1 DEF Copy
    <2>4. C \subseteq Copy
      BY <2>3
    <2>. HIDE DEF c, P
    <2>5. IsFiniteSet(C)
      BY <2>2, FiniteImage
    <2>. HIDE DEF C
    <2>. QED
      BY <2>1, <2>4, <2>5 DEF BagOf, IsABag, SetToBag
  <1>5. TypeOK
    <2>1. \A q \in Request, b \in BlockId : IsABag(particles[q][b])
      BY <1>4 DEF Lists, BagOf
    <2>2. 1 \in 1 .. Steps + 1 /\ 0 \in Nat
      BY <1>1
    <2>. QED
      BY <1>1, <2>1, <2>2 DEF Init, TypeOK
  <1>6. Shapes
    <2>1. particles = [q \in Request |-> [b \in BlockId |-> particles[q][b]]]
      BY <1>3
    <2>2. <<>> \in Seq(SUBSET Rank)
      OBVIOUS
    <2>. QED
      BY <2>1, <2>2 DEF Init, Shapes
  <1>7. Counted /\ Abreast /\ NoAbort
    BY <1>2 DEF Init, Counted, Abreast, NoAbort
  <1>8. InOrderOfRequests
    BY <1>1, <1>2 DEF Init, InOrderOfRequests, Begun
  <1>9. OnTheWay /\ ToCome
    <2>1. \A r \in Rank : pc[r] = "send" /\ Calls(r) = 0 /\ \A s \in Rank : chan[s][r] = <<>>
      BY <1>2 DEF Init
    <2>2. \A s, r \in Rank : ~ Awaits(r, s)
      BY <2>1 DEF Awaits
    <2>. QED
      BY <2>1, <2>2 DEF OnTheWay, Way, ToCome
  <1>. QED
    BY <1>4, <1>5, <1>6, <1>7, <1>8, <1>9 DEF IInv

\* Calls is a number.
LEMMA CallsAre ==
  ASSUME IInv, NEW r \in Rank
  PROVE  Calls(r) \in Nat /\ dest[r] \in Seq(SUBSET Rank) /\ dest[r] = [k \in 1 .. Calls(r) |-> dest[r][k]]
  BY DEF IInv, Shapes, Calls

\* The motion only changes lists.
LEMMA MoveInv ==
  ASSUME IInv, NEW r \in Rank, Move(r)
  PROVE  IInv'
  <1>1. /\ pc[r] = "move" /\ pc' = [pc EXCEPT ![r] = "send"] /\ step[r] <= Steps
        /\ UNCHANGED <<step, request, chan, dest, entered, left, eager>>
    BY DEF Move, Goto
  <1>2. PICK shift \in [UNION {{<<q, p>> : p \in Owned(r, q)} : q \in Request} -> Moves] :
          particles' = [q \in Request |-> [b \in BlockId |->
            IF b \in Kernels[r] THEN MovedBag(particles[q][b], [p \in Owned(r, q) |-> shift[<<q, p>>]])
            ELSE particles[q][b]]]
    BY DEF Move
  <1>3. Lists'
    <2> SUFFICES ASSUME NEW q \in Request, NEW b \in BlockId
                 PROVE  BagOf(particles'[q][b], Copy)
      BY DEF Lists
    <2> DEFINE of == [p \in Owned(r, q) |-> shift[<<q, p>>]]
    <2>1. BagOf(particles[q][b], Copy)
      BY DEF IInv, Lists
    <2>2. CASE b \in Kernels[r]
      <3>1. \A c \in DOMAIN particles[q][b] : c.inner => of[c.id] \in Moves
        <4> SUFFICES ASSUME NEW c \in DOMAIN particles[q][b], c.inner PROVE of[c.id] \in Moves
          OBVIOUS
        <4>1. c.id \in Owned(r, q)
          BY <2>1, <2>2 DEF Owned, BagOf, Copy
        <4>2. <<q, c.id>> \in UNION {{<<k, p>> : p \in Owned(r, k)} : k \in Request}
          BY <4>1
        <4>. QED
          BY <4>1, <4>2
      <3>2. particles'[q][b] = MovedBag(particles[q][b], of)
        BY <1>2, <2>2
      <3>. HIDE DEF of
      <3>. QED
        BY <2>1, <3>1, <3>2, MovedBagIs
    <2>3. CASE b \notin Kernels[r]
      <3>1. particles'[q][b] = particles[q][b]
        BY <1>2, <2>3
      <3>. QED
        BY <2>1, <3>1
    <2>. QED
      BY <2>2, <2>3
  <1>4. TypeOK'
    <2>1. \A q \in Request, b \in BlockId : IsABag(particles'[q][b])
      BY <1>3 DEF Lists, BagOf
    <2>. QED
      BY <1>1, <2>1 DEF IInv, TypeOK
  <1>5. Shapes'
    <2>1. particles' = [q \in Request |-> [b \in BlockId |-> particles'[q][b]]]
      BY <1>2
    <2>. QED
      BY <1>1, <2>1 DEF IInv, Shapes
  <1>6. \A s \in Rank : Calls(s)' = Calls(s)
    BY <1>1 DEF Calls
  <1>7. /\ pc'[r] = "send"
        /\ \A s \in Rank \ {r} : pc'[s] = pc[s]
        /\ \A s \in Rank : Begun(s)' = Begun(s)
    BY <1>1 DEF IInv, TypeOK, Begun
  <1>8. Counted' /\ Abreast' /\ NoAbort'
    BY <1>1, <1>6, <1>7 DEF IInv, Counted, Abreast, NoAbort
  <1>9. InOrderOfRequests'
    BY <1>1, <1>6, <1>7 DEF IInv, InOrderOfRequests
  <1>10. OnTheWay' /\ ToCome'
    <2>1. \A s, q \in Rank : Awaits(q, s)' <=> Awaits(q, s)
      BY <1>1, <1>6, <1>7 DEF Awaits
    <2>2. \A m : \A s, q \in Rank : IsMessage(m, s, q)' <=> IsMessage(m, s, q)
      BY <1>6 DEF IsMessage
    <2>3. OnTheWay'
      BY <1>1, <1>6, <1>7, <2>1, <2>2 DEF IInv, OnTheWay, Way
    <2>4. ToCome'
      BY <1>1, <1>7 DEF IInv, ToCome, Senders
    <2>. QED
      BY <2>3, <2>4
  <1>. QED
    BY <1>3, <1>4, <1>5, <1>8, <1>9, <1>10 DEF IInv

\* A rank that may be ahead of r: where it is and in which transfer.
LEMMA WhereOthersAre ==
  ASSUME IInv, NEW r \in Rank, NEW q \in Rank
  PROVE  /\ pc[r] \in {"move", "send"} =>
              \/ Calls(q) = Calls(r) /\ pc[q] \in {"leaving", "move", "send"}
              \/ Calls(q) = Calls(r) + 1 /\ pc[q] = "reducing"
         /\ pc[r] = "reducing" /\ AllEntered(r) => Calls(q) = Calls(r)
         /\ pc[r] = "receive" => Calls(q) = Calls(r)
         /\ pc[r] = "leaving" /\ AllEntered(r) =>
              \/ Calls(q) = Calls(r) /\ pc[q] \in {"leaving", "move", "send"}
              \/ Calls(q) = Calls(r) + 1 /\ pc[q] = "reducing"
  <1>1. Calls(r) \in Nat /\ Calls(q) \in Nat
    BY CallsAre
  <1>2. pc[q] \in {"move", "send", "reducing", "receive", "leaving"}
    BY DEF IInv, TypeOK, NoAbort
  <1>3. /\ entered[r] = IF pc[r] \in {"reducing", "receive"} THEN 2 * Calls(r) - 1 ELSE 2 * Calls(r)
        /\ entered[q] = IF pc[q] \in {"reducing", "receive"} THEN 2 * Calls(q) - 1 ELSE 2 * Calls(q)
    BY DEF IInv, Counted
  <1>4. /\ entered[q] >= entered[r] - 1 /\ entered[r] >= entered[q] - 1
        /\ pc[r] \notin {"reducing", "leaving"} => entered[q] >= entered[r]
        /\ pc[q] \notin {"reducing", "leaving"} => entered[r] >= entered[q]
        /\ AllEntered(r) => entered[q] >= entered[r]
    BY DEF IInv, Abreast, AllEntered
  <1>. HIDE DEF Calls, AllEntered
  <1>. QED
    BY <1>1, <1>2, <1>3, <1>4

\* What a rank sends is a message of the transfer it begins.
LEMMA SendParticlesInv ==
  ASSUME IInv, NEW r \in Rank, SendParticles(r)
  PROVE  IInv'
  <1> DEFINE tmp == Tmp(r, request[r])
             to == {rank_from_id(t.block) : t \in DOMAIN tmp} \ {r}
             buf(s) == Restricted(tmp, {b \in BlockId : rank_from_id(b) = s})
             calls == Calls(r)
  <1>1. /\ pc[r] = "send" /\ pc' = [pc EXCEPT ![r] = "reducing"]
        /\ dest' = [dest EXCEPT ![r] = Append(@, to)]
        /\ chan' = [chan EXCEPT ![r] = [s \in Rank |->
             IF s \in to THEN Append(@[s], [call |-> Len(dest'[r]), buf |-> buf(s)]) ELSE @[s]]]
        /\ entered' = [entered EXCEPT ![r] = @ + 1]
        /\ UNCHANGED <<step, request, particles, left>>
    BY DEF SendParticles, Goto, Enter
  <1>2. request[r] \in Request /\ BagOf(tmp, Target)
    BY TmpIs DEF IInv, TypeOK
  <1>3. to \in SUBSET Rank
    BY <1>2, KernelsAre DEF BagOf, Target
  <1>. HIDE DEF to
  <1>4. calls \in Nat /\ dest[r] \in Seq(SUBSET Rank) /\ calls = Len(dest[r])
    BY CallsAre DEF Calls
  <1>5. /\ Len(dest'[r]) = calls + 1 /\ dest'[r][calls + 1] = to
        /\ dest' \in [Rank -> Seq(SUBSET Rank)]
        /\ \A s \in Rank \ {r} : dest'[s] = dest[s]
    <2>1. Append(dest[r], to) \in Seq(SUBSET Rank)
          /\ Len(Append(dest[r], to)) = calls + 1 /\ Append(dest[r], to)[calls + 1] = to
      BY <1>3, <1>4
    <2>2. dest \in [Rank -> Seq(SUBSET Rank)]
      BY DEF IInv, Shapes
    <2>. QED
      BY <1>1, <2>1, <2>2
  <1>6. Calls(r)' = calls + 1 /\ \A s \in Rank \ {r} : Calls(s)' = Calls(s)
    BY <1>5 DEF Calls
  <1>7. /\ pc'[r] = "reducing" /\ \A s \in Rank \ {r} : pc'[s] = pc[s]
        /\ Begun(r)' = Begun(r) + 1 /\ \A s \in Rank \ {r} : Begun(s)' = Begun(s)
        /\ entered'[r] = entered[r] + 1 /\ \A s \in Rank \ {r} : entered'[s] = entered[s]
    <2>1. pc \in [Rank -> {"move", "send", "reducing", "receive", "leaving", "aborted"}]
          /\ entered \in [Rank -> Nat] /\ request[r] \in Nat
      BY <1>2 DEF IInv, TypeOK, Request
    <2>. QED
      BY <1>1, <2>1 DEF Begun
  <1>8. TypeOK' /\ Lists'
    <2>1. entered' \in [Rank -> Nat]
      BY <1>1 DEF IInv, TypeOK
    <2>. QED
      BY <1>1, <2>1 DEF IInv, TypeOK, Lists
  <1>9. /\ \A q \in Rank : chan[r][q] = <<>>
        /\ \A s \in Rank \ {r} : chan'[s] = chan[s]
        /\ \A q \in Rank : chan'[r][q] =
             IF q \in to THEN <<[call |-> calls + 1, buf |-> buf(q)]>> ELSE <<>>
    <2>1. \A q \in Rank : chan[r][q] = <<>>
      BY <1>1 DEF IInv, OnTheWay, Way
    <2>2. chan = [s \in Rank |-> [q \in Rank |-> chan[s][q]]]
      BY DEF IInv, Shapes
    <2>3. chan'[r] = [s \in Rank |->
             IF s \in to THEN Append(chan[r][s], [call |-> calls + 1, buf |-> buf(s)]) ELSE chan[r][s]]
          /\ \A s \in Rank \ {r} : chan'[s] = chan[s]
      <3>. HIDE DEF buf, calls
      <3>. QED
        BY <1>1, <1>5, <2>2
    <2>4. \A m : Append(<<>>, m) = <<m>>
      OBVIOUS
    <2>. HIDE DEF buf, calls
    <2>. QED
      BY <2>1, <2>3, <2>4
  <1>10. Shapes'
    <2>1. /\ chan = [s \in Rank |-> [q \in Rank |-> chan[s][q]]]
          /\ particles = [q \in Request |-> [b \in BlockId |-> particles[q][b]]]
      BY DEF IInv, Shapes
    <2>2. chan' = [s \in Rank |-> [q \in Rank |-> chan'[s][q]]]
      <3> DEFINE row == [s \in Rank |->
             IF s \in to THEN Append(chan[r][s], [call |-> Len(dest'[r]), buf |-> buf(s)])
             ELSE chan[r][s]]
      <3>1. chan' = [chan EXCEPT ![r] = row]
        BY <1>1
      <3>2. row = [q \in Rank |-> row[q]]
        OBVIOUS
      <3>. HIDE DEF row
      <3>. QED
        BY <2>1, <3>1, <3>2
    <2>. QED
      BY <1>1, <1>5, <2>1, <2>2 DEF Shapes
  <1>11. Counted' /\ NoAbort'
    <2>. HIDE DEF calls
    <2>1. entered[r] = 2 * calls /\ calls \in Nat
      BY <1>1, <1>4 DEF IInv, Counted, calls
    <2>. QED
      BY <1>6, <1>7, <2>1 DEF IInv, Counted, NoAbort
  <1>12. Abreast'
    BY <1>1, <1>7 DEF IInv, Abreast, TypeOK
  <1>13. InOrderOfRequests'
    <2>. HIDE DEF calls
    <2>1. calls = (step[r] - 1) * nreq + Begun(r) /\ step[r] <= Steps
      BY <1>1 DEF IInv, InOrderOfRequests, calls
    <2> DEFINE before == (step[r] - 1) * nreq
    <2>2. before \in Int /\ Begun(r) \in Int
      BY <1>1, <1>2, ParticleAssumption DEF Begun, Request, IInv, TypeOK
    <2>3. Calls(r)' = before + Begun(r)'
      <3>. HIDE DEF before
      <3>. QED
        BY <1>6, <1>7, <2>1, <2>2 DEF before
    <2>. QED
      BY <1>1, <1>6, <1>7, <2>1, <2>3 DEF IInv, InOrderOfRequests
  <1>14. \A q \in Rank :
           \/ Calls(q) = calls /\ pc[q] \in {"leaving", "move", "send"}
           \/ Calls(q) = calls + 1 /\ pc[q] = "reducing"
    BY <1>1, WhereOthersAre
  <1>15. OnTheWay'
    <2>1. ASSUME NEW q \in Rank PROVE Way(r, q)'
      <3>1. chan'[r][q] # <<>> <=> q \in to
        <4>1. \A m : <<m>> # <<>>
          OBVIOUS
        <4>. HIDE DEF buf, calls
        <4>. QED
          BY <1>9, <4>1
      <3>2. dest'[r][Calls(r)'] = to
        BY <1>5, <1>6
      <3>3. ASSUME q \in to PROVE Awaits(q, r)'
        <4>1. q # r
          BY <3>3 DEF to
        <4>. HIDE DEF calls
        <4>. QED
          BY <1>6, <1>7, <1>14, <4>1 DEF Awaits
      <3>4. ASSUME q \in to PROVE \E m : chan'[r][q] = <<m>> /\ IsMessage(m, r, q)'
        <4> PICK m : m = [call |-> calls + 1, buf |-> buf(q)]
          OBVIOUS
        <4>1. BagOf(buf(q), Target) /\ \A t \in DOMAIN buf(q) : rank_from_id(t.block) = q
          BY <1>2, RestrictedIs
        <4>2. m = [call |-> calls + 1, buf |-> m.buf] /\ m.buf = buf(q)
          OBVIOUS
        <4>3. IsMessage(m, r, q)'
          <5>. HIDE DEF calls, buf
          <5>. QED
            BY <1>6, <4>1, <4>2 DEF IsMessage
        <4>4. chan'[r][q] = <<m>>
          BY <1>9, <3>4
        <4>. QED
          BY <4>3, <4>4
      <3>. QED
        BY <1>7, <3>1, <3>2, <3>3, <3>4 DEF Way
    <2>2. ASSUME NEW s \in Rank \ {r}, NEW q \in Rank, Way(s, q) PROVE Way(s, q)'
      <3>1. chan'[s][q] = chan[s][q] /\ dest'[s] = dest[s] /\ Calls(s)' = Calls(s) /\ pc'[s] = pc[s]
        BY <1>5, <1>6, <1>7, <1>9
      <3>2. \A m : IsMessage(m, s, q)' <=> IsMessage(m, s, q)
        BY <3>1 DEF IsMessage
      <3>3. CASE q = r
        <4>. HIDE DEF calls
        <4>1. Calls(q) = calls /\ calls \in Nat /\ Calls(q)' = calls + 1 /\ pc[q] = "send" /\ pc'[q] = "reducing"
          BY <1>1, <1>4, <1>6, <1>7, <3>3 DEF calls
        <4>2. Awaits(q, s)' <=> Calls(s) = calls + 1
          BY <3>1, <4>1 DEF Awaits
        <4>3. Awaits(q, s) <=> Calls(s) = calls + 1
          BY <4>1 DEF Awaits
        <4>. QED
          BY <2>2, <3>1, <3>2, <4>1, <4>2, <4>3 DEF Way
      <3>4. CASE q # r
        <4>1. Calls(q)' = Calls(q) /\ pc'[q] = pc[q]
          BY <1>6, <1>7, <3>4
        <4>2. Awaits(q, s)' <=> Awaits(q, s)
          BY <3>1, <4>1 DEF Awaits
        <4>. QED
          BY <2>2, <3>1, <3>2, <4>1, <4>2 DEF Way
      <3>. QED
        BY <3>3, <3>4
    <2>3. \A s, q \in Rank : Way(s, q)
      BY DEF IInv, OnTheWay
    <2>. QED
      BY <2>1, <2>2, <2>3 DEF OnTheWay
  <1>16. ToCome'
    <2>1. \A q \in Rank : pc'[q] # "receive"
      BY <1>7, <1>14
    <2>. QED
      BY <2>1 DEF ToCome
  <1>. QED
    BY <1>8, <1>10, <1>11, <1>12, <1>13, <1>15, <1>16 DEF IInv

\* Ranks that keep their place and their transfer keep what is on its way between them.
LEMMA WayStays ==
  ASSUME NEW s \in Rank, NEW r \in Rank, Way(s, r),
         chan'[s][r] = chan[s][r], dest'[s] = dest[s], Calls(r)' = Calls(r),
         pc'[s] = pc[s] \/ pc'[s] \notin {"move", "send"},
         \/ pc'[r] = pc[r]
         \/ pc[r] \in {"leaving", "move", "send"} /\ pc'[r] \in {"leaving", "move", "send"}
  PROVE  Way(s, r)'
  <1>1. Calls(s)' = Calls(s)
    BY DEF Calls
  <1>2. Awaits(r, s)' <=> Awaits(r, s)
    BY <1>1 DEF Awaits
  <1>3. \A m : IsMessage(m, s, r)' <=> IsMessage(m, s, r)
    BY <1>1 DEF IsMessage
  <1>4. pc'[r] = "receive" <=> pc[r] = "receive"
    OBVIOUS
  <1>. QED
    BY <1>1, <1>2, <1>3, <1>4 DEF Way

\* When the reduction is over, a rank knows how many messages there are for it.
LEMMA LeaveReduceInv ==
  ASSUME IInv, NEW r \in Rank, LeaveReduce(r)
  PROVE  IInv'
  <1> DEFINE tmp == Tmp(r, request[r])
             from == {s \in Rank : r \in dest[s][Len(dest[r])]}
  <1>1. /\ pc[r] = "reducing" /\ pc' = [pc EXCEPT ![r] = "receive"]
        /\ AllEntered(r)
        /\ left' = [left EXCEPT ![r] = Cardinality(from)]
        /\ particles' = [particles EXCEPT ![request[r]] = [b \in BlockId |->
                        IF b \in Kernels[r] THEN Arriving(tmp, b) ELSE @[b]]]
        /\ UNCHANGED <<step, request, chan, dest, entered>>
    BY DEF LeaveReduce, Goto, Replaced
  <1>2. request[r] \in Request /\ BagOf(tmp, Target)
    BY TmpIs DEF IInv, TypeOK
  <1>3. \A s \in Rank : Calls(s)' = Calls(s)
    BY <1>1 DEF Calls
  <1>4. /\ pc'[r] = "receive" /\ \A s \in Rank \ {r} : pc'[s] = pc[s]
        /\ \A s \in Rank : Begun(s)' = Begun(s)
    BY <1>1 DEF IInv, TypeOK, Begun
  <1>5. \A s \in Rank : Calls(s) = Calls(r)
    BY <1>1, WhereOthersAre
  <1>6. from = Senders(r)
    <2>1. \A s \in Rank : chan[s][r] # <<>> <=> r \in dest[s][Calls(s)]
      BY <1>1, <1>5 DEF IInv, OnTheWay, Way, Awaits
    <2>. QED
      BY <1>5, <2>1 DEF Senders, Calls
  <1>7. Cardinality(from) \in Nat
    <2>1. IsFiniteSet(from)
      BY RanksAreFinite, FS_Subset
    <2>. QED
      BY <2>1, FS_CardinalityType
  <1>. HIDE DEF from
  <1>8. Lists' /\ particles' = [q \in Request |-> [b \in BlockId |-> particles'[q][b]]]
    <2> DEFINE new == [b \in BlockId |->
          IF b \in Kernels[r] THEN Arriving(tmp, b) ELSE particles[request[r]][b]]
    <2>1. \A b \in BlockId : BagOf(new[b], Copy)
      BY <1>2, ArrivingIs DEF IInv, Lists
    <2>2. particles' = [particles EXCEPT ![request[r]] = new]
      BY <1>1
    <2>3. particles = [q \in Request |-> [b \in BlockId |-> particles[q][b]]]
      BY DEF IInv, Shapes
    <2>4. new = [b \in BlockId |-> new[b]]
      OBVIOUS
    <2>. HIDE DEF new
    <2>. QED
      BY <1>2, <2>1, <2>2, <2>3, <2>4 DEF IInv, Lists
  <1>9. TypeOK'
    <2>1. \A q \in Request, b \in BlockId : IsABag(particles'[q][b])
      BY <1>8 DEF Lists, BagOf
    <2>2. left' \in [Rank -> Nat]
      BY <1>1, <1>7 DEF IInv, TypeOK
    <2>. QED
      BY <1>1, <2>1, <2>2 DEF IInv, TypeOK
  <1>10. Shapes'
    BY <1>1, <1>8 DEF IInv, Shapes
  <1>11. Counted' /\ NoAbort'
    BY <1>1, <1>3, <1>4 DEF IInv, Counted, NoAbort
  <1>12. Abreast'
    BY <1>1, <1>4 DEF IInv, Abreast, AllEntered
  <1>13. InOrderOfRequests'
    BY <1>1, <1>3, <1>4 DEF IInv, InOrderOfRequests
  <1>14. OnTheWay'
    <2> SUFFICES ASSUME NEW s \in Rank, NEW q \in Rank PROVE Way(s, q)'
      BY DEF OnTheWay
    <2>1. Way(s, q)
      BY DEF IInv, OnTheWay
    <2>2. CASE q # r
      BY <1>1, <1>3, <1>4, <2>1, <2>2, WayStays
    <2>3. CASE q = r
      <3>1. \A m : IsMessage(m, s, q)' <=> IsMessage(m, s, q)
        BY <1>3 DEF IsMessage
      <3>2. ~ Awaits(q, s)' /\ Calls(s)' = Calls(q)'
        BY <1>3, <1>4, <1>5, <2>3 DEF Awaits
      <3>3. pc'[s] \in {"move", "send"} => pc[s] \in {"move", "send"}
        BY <1>4
      <3>. QED
        BY <1>1, <1>4, <2>1, <2>3, <3>1, <3>2, <3>3 DEF Way
    <2>. QED
      BY <2>2, <2>3
  <1>15. ToCome'
    <2>1. \A q \in Rank : Senders(q)' = Senders(q)
      BY <1>1 DEF Senders
    <2>2. left'[r] = Cardinality(from) /\ \A q \in Rank \ {r} : left'[q] = left[q]
      BY <1>1 DEF IInv, TypeOK
    <2>. QED
      BY <1>4, <1>6, <2>1, <2>2 DEF IInv, ToCome
  <1>. QED
    BY <1>8, <1>9, <1>10, <1>11, <1>12, <1>13, <1>14, <1>15 DEF IInv

\* A message is taken from the transfer the rank is in, and is for its own blocks.
LEMMA ReceiveInv ==
  ASSUME IInv, NEW r \in Rank, NEW s \in Rank, Receive(r, s)
  PROVE  IInv'
  <1> DEFINE buf == Head(chan[s][r]).buf
  <1>1. pc[r] = "receive" /\ left[r] > 0 /\ chan[s][r] # <<>> /\ request[r] \in Request
    BY DEF Receive, IInv, TypeOK
  <1>2. BagOf(buf, Target) /\ Tail(chan[s][r]) = <<>>
        /\ \A t \in DOMAIN buf : rank_from_id(t.block) = r /\ t.block \in Kernels[r]
    <2>1. PICK m : chan[s][r] = <<m>> /\ IsMessage(m, s, r)
      BY <1>1 DEF IInv, OnTheWay, Way
    <2>2. Head(<<m>>) = m /\ Tail(<<m>>) = <<>>
      OBVIOUS
    <2>3. BagOf(m.buf, Target) /\ \A t \in DOMAIN m.buf : rank_from_id(t.block) = r
      BY <2>1 DEF IsMessage
    <2>4. \A t \in DOMAIN m.buf : t.block \in Kernels[r]
      BY <2>3, KernelsAre DEF BagOf, Target
    <2>. QED
      BY <2>1, <2>2, <2>3, <2>4
  <1>. HIDE DEF buf
  <1>3. /\ particles' = [particles EXCEPT ![request[r]] = [b \in BlockId |->
                                IF b \in Kernels[r] THEN @[b] (+) Arriving(buf, b) ELSE @[b]]]
        /\ chan' = [chan EXCEPT ![s][r] = <<>>]
        /\ left' = [left EXCEPT ![r] = @ - 1]
        /\ UNCHANGED <<pc, step, request, dest, entered>>
    BY <1>2 DEF Receive, buf
  <1>4. \A q \in Rank : Calls(q)' = Calls(q) /\ Begun(q)' = Begun(q)
    BY <1>3 DEF Calls, Begun
  <1>5. /\ chan'[s][r] = <<>>
        /\ \A t, q \in Rank : t # s \/ q # r => chan'[t][q] = chan[t][q]
        /\ chan' = [t \in Rank |-> [q \in Rank |-> chan'[t][q]]]
    <2>1. chan = [t \in Rank |-> [q \in Rank |-> chan[t][q]]]
      BY DEF IInv, Shapes
    <2>. QED
      BY <1>3, <2>1
  <1>6. /\ left' \in [Rank -> Nat] /\ left'[r] = left[r] - 1
        /\ \A q \in Rank \ {r} : left'[q] = left[q]
    BY <1>1, <1>3 DEF IInv, TypeOK
  <1>7. Lists' /\ particles' = [q \in Request |-> [b \in BlockId |-> particles'[q][b]]]
    <2> DEFINE old == particles[request[r]]
               new == [b \in BlockId |->
                 IF b \in Kernels[r] THEN old[b] (+) Arriving(buf, b) ELSE old[b]]
    <2>1. ASSUME NEW b \in BlockId PROVE BagOf(new[b], Copy)
      <3>1. BagOf(old[b], Copy)
        BY <1>1 DEF IInv, Lists
      <3>2. BagOf(old[b] (+) Arriving(buf, b), Copy)
        <4> DEFINE a == Arriving(buf, b)
        <4>1. BagOf(a, Copy)
          BY <1>2, ArrivingIs
        <4>. HIDE DEF a, old
        <4>. QED
          BY <3>1, <4>1, PlusIsBag DEF a
      <3>. QED
        BY <3>1, <3>2
    <2>2. particles' = [particles EXCEPT ![request[r]] = new]
      BY <1>3
    <2>3. particles = [q \in Request |-> [b \in BlockId |-> particles[q][b]]]
      BY DEF IInv, Shapes
    <2>4. new = [b \in BlockId |-> new[b]]
      OBVIOUS
    <2>. HIDE DEF new
    <2>. QED
      BY <1>1, <2>1, <2>2, <2>3, <2>4 DEF IInv, Lists
  <1>8. TypeOK'
    <2>1. \A q \in Request, b \in BlockId : IsABag(particles'[q][b])
      BY <1>7 DEF Lists, BagOf
    <2>. QED
      BY <1>3, <1>6, <2>1 DEF IInv, TypeOK
  <1>9. Shapes'
    <2>1. dest' \in [Rank -> Seq(SUBSET Rank)]
      BY <1>3 DEF IInv, Shapes
    <2>. QED
      BY <1>5, <1>7, <2>1 DEF Shapes
  <1>10. Counted' /\ NoAbort' /\ Abreast'
    BY <1>3, <1>4 DEF IInv, Counted, NoAbort, Abreast
  <1>11. InOrderOfRequests'
    BY <1>3, <1>4 DEF IInv, InOrderOfRequests
  <1>12. OnTheWay'
    <2> SUFFICES ASSUME NEW t \in Rank, NEW q \in Rank PROVE Way(t, q)'
      BY DEF OnTheWay
    <2>1. Way(t, q)
      BY DEF IInv, OnTheWay
    <2>2. CASE t # s \/ q # r
      BY <1>3, <1>4, <1>5, <2>1, <2>2, WayStays
    <2>3. CASE t = s /\ q = r
      <3>1. ~ Awaits(q, t)'
        BY <1>1, <1>3, <2>3 DEF Awaits
      <3>. QED
        BY <1>5, <2>3, <3>1 DEF Way
    <2>. QED
      BY <2>2, <2>3
  <1>13. ToCome'
    <2>1. Senders(r)' = Senders(r) \ {s} /\ s \in Senders(r)
      BY <1>1, <1>5 DEF Senders
    <2>2. \A q \in Rank \ {r} : Senders(q)' = Senders(q)
      BY <1>5 DEF Senders
    <2>3. IsFiniteSet(Senders(r))
      BY RanksAreFinite, FS_Subset DEF Senders
    <2>4. Cardinality(Senders(r) \ {s}) = Cardinality(Senders(r)) - 1
      BY <2>1, <2>3, FS_RemoveElement
    <2>5. left[r] = Cardinality(Senders(r))
      BY <1>1 DEF IInv, ToCome
    <2>6. ASSUME NEW q \in Rank, pc'[q] = "receive" PROVE left'[q] = Cardinality(Senders(q)')
      <3>1. CASE q = r
        BY <1>6, <2>1, <2>4, <2>5, <3>1
      <3>2. CASE q # r
        BY <1>3, <1>6, <2>2, <2>6, <3>2 DEF IInv, ToCome
      <3>. QED
        BY <3>1, <3>2
    <2>. QED
      BY <2>6 DEF ToCome
  <1>. QED
    BY <1>7, <1>8, <1>9, <1>10, <1>11, <1>12, <1>13 DEF IInv

\* A rank enters the barrier when it has got every message of the transfer.
LEMMA EnterBarrierInv ==
  ASSUME IInv, NEW r \in Rank, EnterBarrier(r)
  PROVE  IInv'
  <1>1. /\ pc[r] = "receive" /\ pc' = [pc EXCEPT ![r] = "leaving"] /\ left[r] = 0
        /\ entered' = [entered EXCEPT ![r] = @ + 1]
        /\ UNCHANGED <<step, request, particles, chan, dest, left>>
    BY DEF EnterBarrier, Goto, Enter
  <1>2. \A s \in Rank : chan[s][r] = <<>>
    <2>1. IsFiniteSet(Senders(r))
      BY RanksAreFinite, FS_Subset DEF Senders
    <2>2. Cardinality(Senders(r)) = 0
      BY <1>1 DEF IInv, ToCome
    <2>3. Senders(r) = {}
      BY <2>1, <2>2, FS_EmptySet
    <2>. QED
      BY <2>3 DEF Senders
  <1>3. \A s \in Rank : Calls(s)' = Calls(s)
    BY <1>1 DEF Calls
  <1>4. /\ pc'[r] = "leaving" /\ \A s \in Rank \ {r} : pc'[s] = pc[s]
        /\ entered'[r] = entered[r] + 1 /\ \A s \in Rank \ {r} : entered'[s] = entered[s]
        /\ \A s \in Rank : Begun(s)' = Begun(s) /\ entered[s] \in Nat /\ entered'[s] \in Nat
    BY <1>1 DEF IInv, TypeOK, Begun
  <1>5. TypeOK' /\ Shapes' /\ Lists'
    <2>1. entered' \in [Rank -> Nat]
      BY <1>1 DEF IInv, TypeOK
    <2>. QED
      BY <1>1, <2>1 DEF IInv, TypeOK, Shapes, Lists
  <1>6. Counted' /\ NoAbort' /\ Abreast'
    <2>1. Calls(r) \in Nat
      BY CallsAre
    <2>2. Counted'
      BY <1>1, <1>3, <1>4, <2>1 DEF IInv, Counted
    <2>3. Abreast'
      BY <1>1, <1>4 DEF IInv, Abreast
    <2>. QED
      BY <1>4, <2>2, <2>3 DEF IInv, NoAbort
  <1>7. InOrderOfRequests'
    BY <1>1, <1>3, <1>4 DEF IInv, InOrderOfRequests
  <1>8. OnTheWay'
    <2> SUFFICES ASSUME NEW s \in Rank, NEW q \in Rank PROVE Way(s, q)'
      BY DEF OnTheWay
    <2>1. Way(s, q)
      BY DEF IInv, OnTheWay
    <2>2. CASE q # r
      BY <1>1, <1>3, <1>4, <2>1, <2>2, WayStays
    <2>3. CASE q = r
      <3>1. Calls(s) = Calls(q) /\ Calls(q) \in Nat
        BY <1>1, <2>3, WhereOthersAre, CallsAre
      <3>2. ~ Awaits(q, s)'
        BY <1>3, <1>4, <2>3, <3>1 DEF Awaits
      <3>. QED
        BY <1>1, <1>2, <2>3, <3>2 DEF Way
    <2>. QED
      BY <2>2, <2>3
  <1>9. ToCome'
    <2>1. \A q \in Rank : Senders(q)' = Senders(q)
      BY <1>1 DEF Senders
    <2>. QED
      BY <1>1, <1>4, <2>1 DEF IInv, ToCome
  <1>. QED
    BY <1>5, <1>6, <1>7, <1>8, <1>9 DEF IInv

\* The barrier is left when nothing of the transfer is on its way anymore.
LEMMA LeaveBarrierInv ==
  ASSUME IInv, NEW r \in Rank, LeaveBarrier(r)
  PROVE  IInv'
  <1>1. /\ pc[r] = "leaving" /\ AllEntered(r)
        /\ UNCHANGED <<particles, chan, dest, entered, left>>
        /\ \/ /\ request[r] < nreq
              /\ pc' = [pc EXCEPT ![r] = "send"]
              /\ request' = [request EXCEPT ![r] = @ + 1]
              /\ step' = step
           \/ /\ ~ (request[r] < nreq)
              /\ pc' = [pc EXCEPT ![r] = "move"]
              /\ request' = [request EXCEPT ![r] = 1]
              /\ step' = [step EXCEPT ![r] = @ + 1]
    BY DEF LeaveBarrier, NextRequest, Goto
  <1>2. /\ request[r] \in 1 .. nreq /\ step[r] \in 1 .. Steps /\ nreq \in Nat \ {0} /\ Steps \in Nat \ {0}
    BY <1>1, ParticleAssumption DEF IInv, TypeOK, Request, InOrderOfRequests
  <1>3. \A s \in Rank : Calls(s)' = Calls(s)
    BY <1>1 DEF Calls
  <1>4. \A s \in Rank \ {r} : pc'[s] = pc[s] /\ Begun(s)' = Begun(s) /\ step'[s] = step[s]
                              /\ request'[s] = request[s]
    BY <1>1 DEF IInv, TypeOK, Begun
  <1>5. pc'[r] \in {"move", "send"}
    BY <1>1 DEF IInv, TypeOK
  <1>6. TypeOK' /\ Shapes' /\ Lists'
    <2>1. pc' \in [Rank -> {"move", "send", "reducing", "receive", "leaving", "aborted"}]
      BY <1>1 DEF IInv, TypeOK
    <2>2. request' \in [Rank -> Request] /\ step' \in [Rank -> 1 .. Steps + 1]
      <3>1. request[r] < nreq => request[r] + 1 \in Request
        BY <1>2 DEF Request
      <3>2. 1 \in Request /\ step[r] + 1 \in 1 .. Steps + 1
        BY <1>2 DEF Request
      <3>. QED
        BY <1>1, <3>1, <3>2 DEF IInv, TypeOK
    <2>. QED
      BY <1>1, <2>1, <2>2 DEF IInv, TypeOK, Shapes, Lists
  <1>7. Counted' /\ NoAbort'
    BY <1>1, <1>3, <1>4, <1>5 DEF IInv, Counted, NoAbort
  <1>8. Abreast'
    BY <1>1, <1>4, <1>5 DEF IInv, Abreast, AllEntered
  <1>9. InOrderOfRequests'
    <2>1. Calls(r) = (step[r] - 1) * nreq + request[r]
      BY <1>1 DEF IInv, InOrderOfRequests, Begun
    <2>2. /\ Calls(r)' = (step'[r] - 1) * nreq + Begun(r)'
          /\ pc'[r] = "move" => request'[r] = 1
          /\ pc'[r] # "move" => step'[r] <= Steps
      <3>1. CASE request[r] < nreq
        <4>1. Begun(r)' = request[r] /\ step'[r] = step[r] /\ pc'[r] = "send"
          BY <1>1, <1>2, <3>1 DEF IInv, TypeOK, Begun
        <4>. QED
          BY <1>2, <1>3, <2>1, <4>1
      <3>2. CASE ~ (request[r] < nreq)
        <4>1. Begun(r)' = 0 /\ step'[r] = step[r] + 1 /\ pc'[r] = "move" /\ request'[r] = 1
          BY <1>1, <1>2, <3>2 DEF IInv, TypeOK, Begun
        <4>2. request[r] = nreq
          BY <1>2, <3>2
        <4>3. (step[r] - 1) * nreq + nreq = step[r] * nreq
          <5>1. \A k \in Int, m \in Int : (k - 1) * m + m = k * m
            OBVIOUS
          <5>. QED
            BY <1>2, <5>1
        <4>4. (step'[r] - 1) * nreq + Begun(r)' = step[r] * nreq
          <5>1. \A k \in Int, m \in Int : ((k + 1) - 1) * m + 0 = k * m
            OBVIOUS
          <5>. QED
            BY <1>2, <4>1, <5>1
        <4>. QED
          BY <1>2, <1>3, <2>1, <4>1, <4>2, <4>3, <4>4
      <3>. QED
        BY <3>1, <3>2
    <2>. QED
      BY <1>3, <1>4, <2>2 DEF IInv, InOrderOfRequests
  <1>10. OnTheWay'
    <2> SUFFICES ASSUME NEW s \in Rank, NEW q \in Rank PROVE Way(s, q)'
      BY DEF OnTheWay
    <2>1. Way(s, q)
      BY DEF IInv, OnTheWay
    <2>2. CASE s # r
      BY <1>1, <1>3, <1>4, <1>5, <2>1, <2>2, WayStays
    <2>3. CASE s = r
      <3>1. /\ Calls(s) \in Nat /\ Calls(q) \in Nat
            /\ \/ Calls(q) = Calls(s) /\ pc[q] \in {"leaving", "move", "send"}
               \/ Calls(q) = Calls(s) + 1 /\ pc[q] = "reducing"
        BY <1>1, <2>3, WhereOthersAre, CallsAre
      <3>2. ~ Awaits(q, s) /\ ~ (Calls(s) = Calls(q) /\ pc[q] = "receive")
        BY <3>1 DEF Awaits
      <3>3. chan[s][q] = <<>>
        BY <2>1, <3>2 DEF Way
      <3>4. ~ Awaits(q, s)'
        <4>1. pc'[q] = "reducing" <=> pc[q] = "reducing"
          BY <1>1, <1>4, <1>5
        <4>. QED
          BY <1>3, <3>1, <4>1 DEF Awaits
      <3>. QED
        BY <1>1, <3>3, <3>4 DEF Way
    <2>. QED
      BY <2>2, <2>3
  <1>11. ToCome'
    <2>1. \A q \in Rank : Senders(q)' = Senders(q)
      BY <1>1 DEF Senders
    <2>. QED
      BY <1>1, <1>4, <1>5, <2>1 DEF IInv, ToCome
  <1>. QED
    BY <1>6, <1>7, <1>8, <1>9, <1>10, <1>11 DEF IInv

\* Every step keeps the invariant.
LEMMA StepInv ==
  ASSUME IInv, [Next]_vars
  PROVE  IInv'
  <1>1. ASSUME NEW r \in Rank, Step(r) PROVE IInv'
    BY <1>1, MoveInv, SendParticlesInv, LeaveReduceInv, ReceiveInv, EnterBarrierInv, LeaveBarrierInv
    DEF Step
  <1>2. ASSUME UNCHANGED vars PROVE IInv'
    <2>1. UNCHANGED <<pc, step, request, particles, chan, dest, entered, left>>
      BY <1>2 DEF vars
    <2>2. TypeOK' /\ Shapes' /\ Lists' /\ NoAbort'
      BY <2>1 DEF IInv, TypeOK, Shapes, Lists, NoAbort
    <2>3. \A r \in Rank : Calls(r)' = Calls(r) /\ Begun(r)' = Begun(r) /\ Senders(r)' = Senders(r)
      BY <2>1 DEF Calls, Begun, Senders
    <2>4. Counted' /\ Abreast' /\ InOrderOfRequests' /\ ToCome'
      BY <2>1, <2>3 DEF IInv, Counted, Abreast, InOrderOfRequests, ToCome
    <2>5. OnTheWay'
      <3> SUFFICES ASSUME NEW s \in Rank, NEW r \in Rank PROVE Way(s, r)'
        BY DEF OnTheWay
      <3>1. Way(s, r)
        BY DEF IInv, OnTheWay
      <3>. QED
        BY <2>1, <2>3, <3>1, WayStays
    <2>. QED
      BY <2>2, <2>4, <2>5 DEF IInv
  <1>. QED
    BY <1>1, <1>2 DEF Next, Halted

LEMMA Invariant == Spec => []IInv
  <1>1. Init => IInv
    BY InitInv
  <1>2. IInv /\ [Next]_vars => IInv'
    BY StepInv
  <1>. QED
    BY <1>1, <1>2, PTL DEF Spec

-----------------------------------------------------------------------------
(***************************************************************************)
(* The theorems on transfers.                                              *)
(***************************************************************************)
\* For every mesh, all particles and any number of requests and steps a rank is at one place
\* of one transfer and its lists are bags (TransferParticlesMpi).
THEOREM TypeCorrect == Spec => []TypeOK
  <1>1. IInv => TypeOK
    BY DEF IInv
  <1>. QED
    BY <1>1, Invariant, PTL

\* A rank that probes for messages only finds messages of the transfer it works on,
\* although MPI_Probe takes any source and no message says what it belongs to.
THEOREM RequestsDoNotMix == Spec => []SameRequest
  <1>1. ASSUME IInv PROVE SameRequest
    <2> SUFFICES ASSUME NEW s \in Rank, NEW r \in Rank, pc[r] = "receive", NEW k \in DOMAIN chan[s][r]
                 PROVE  chan[s][r][k].call = Len(dest[r])
      BY DEF SameRequest
    <2>1. Way(s, r) /\ Calls(s) = Calls(r)
      BY <1>1, WhereOthersAre DEF IInv, OnTheWay
    <2>2. CASE chan[s][r] = <<>>
      BY <2>2
    <2>3. CASE chan[s][r] # <<>>
      <3>1. PICK m : chan[s][r] = <<m>> /\ IsMessage(m, s, r)
        BY <2>1, <2>3 DEF Way
      <3>2. chan[s][r][k] = m
        BY <3>1
      <3>3. m.call = Calls(s)
        BY <3>1 DEF IsMessage
      <3>. QED
        BY <2>1, <3>2, <3>3 DEF Calls
    <2>. QED
      BY <2>2, <2>3
  <1>. QED
    BY <1>1, Invariant, PTL

\* Every message a rank takes is for its own blocks, and the particles in it are
\* found a place: neither fassert at the receiving end can fail.
THEOREM NeverAborts == Spec => []NoAbort
  <1>1. IInv => NoAbort
    BY DEF IInv
  <1>. QED
    BY <1>1, Invariant, PTL

\* Transfers are numbered by step and request.
LEMMA NumbersAreUnique ==
  ASSUME NEW m \in Nat \ {0}, NEW a \in 1 .. m, NEW b \in 1 .. m, NEW x \in Nat \ {0}, NEW y \in Nat \ {0},
         (x - 1) * m + a = (y - 1) * m + b
  PROVE  x = y /\ a = b
  <1> DEFINE s == a - 1
             t == b - 1
             u == x - 1
             v == y - 1
  <1>1. s \in Nat /\ t \in Nat /\ u \in Nat /\ v \in Nat /\ s < m /\ t < m
    OBVIOUS
  <1>2. s + u * m = t + v * m
    <2>1. u * m \in Int /\ v * m \in Int /\ u * m + a = v * m + b
      BY <1>1
    <2>. QED
      BY <2>1
  <1>3. u = v /\ s = t
    <2>. HIDE DEF s, t, u, v
    <2>. QED
      BY <1>1, <1>2, DigitUnique
  <1>. QED
    BY <1>3

\* The sender of a message that a rank may take is in the same request of the same step,
\* so that the particles end up in the lists they are from.
SameTransfer ==
  \A s, r \in Rank :
    pc[r] = "receive" /\ chan[s][r] # <<>> => step[s] = step[r] /\ request[s] = request[r]

THEOREM SendersAgree == Spec => []SameTransfer
  <1>1. ASSUME IInv PROVE SameTransfer
    <2> SUFFICES ASSUME NEW s \in Rank, NEW r \in Rank, pc[r] = "receive", chan[s][r] # <<>>
                 PROVE  step[s] = step[r] /\ request[s] = request[r]
      BY DEF SameTransfer
    <2>1. Calls(s) = Calls(r) /\ pc[s] \notin {"move", "send"}
      BY <1>1, WhereOthersAre DEF IInv, OnTheWay, Way
    <2>2. /\ Calls(s) = (step[s] - 1) * nreq + request[s]
          /\ Calls(r) = (step[r] - 1) * nreq + request[r]
      BY <1>1, <2>1 DEF IInv, InOrderOfRequests, Begun
    <2>3. /\ request[s] \in 1 .. nreq /\ request[r] \in 1 .. nreq
          /\ step[s] \in Nat \ {0} /\ step[r] \in Nat \ {0} /\ nreq \in Nat \ {0}
      BY <1>1, ParticleAssumption DEF IInv, TypeOK, Request
    <2> DEFINE x == step[s]
               y == step[r]
               a == request[s]
               b == request[r]
    <2>4. (x - 1) * nreq + a = (y - 1) * nreq + b
      BY <2>1, <2>2
    <2>5. nreq \in Nat \ {0} /\ a \in 1 .. nreq /\ b \in 1 .. nreq /\ x \in Nat \ {0} /\ y \in Nat \ {0}
      BY <2>3
    <2>6. x = y /\ a = b
      <3>. HIDE DEF x, y, a, b
      <3>. QED
        BY <2>4, <2>5, NumbersAreUnique
    <2>. QED
      BY <2>6
  <1>. QED
    BY <1>1, Invariant, PTL

-----------------------------------------------------------------------------
(***************************************************************************)
(* Images of a position.                                                   *)
(***************************************************************************)
\* The order of a quotient by products.
LEMMA QuotientOrder ==
  ASSUME NEW y \in Int, NEW l \in Nat \ {0}, NEW w \in Int
  PROVE  /\ w <= y \div l <=> w * l <= y
         /\ y \div l <= w <=> y < (w + 1) * l
  <1> DEFINE q == y \div l
             s == y % l
  <1>1. q \in Int /\ s \in Int /\ 0 <= s /\ s < l /\ y = l * q + s
    OBVIOUS
  <1>. HIDE DEF q, s
  <1>2. \A a, b \in Int : a <= b => a * l <= b * l
    OBVIOUS
  <1>3. q * l = l * q /\ q * l \in Int /\ w * l \in Int /\ (q + 1) * l = q * l + l /\ (w + 1) * l = w * l + l
    BY <1>1
  <1>4. ASSUME w <= q PROVE w * l <= y
    <2>1. w * l <= q * l
      BY <1>1, <1>2, <1>4
    <2>. QED
      BY <1>1, <1>3, <2>1
  <1>5. ASSUME ~ (w <= q) PROVE ~ (w * l <= y)
    <2>1. (q + 1) * l <= w * l
      BY <1>1, <1>2, <1>5
    <2>. QED
      BY <1>1, <1>3, <2>1
  <1>6. ASSUME q <= w PROVE y < (w + 1) * l
    <2>1. q * l <= w * l
      BY <1>1, <1>2, <1>6
    <2>. QED
      BY <1>1, <1>3, <2>1
  <1>7. ASSUME ~ (q <= w) PROVE ~ (y < (w + 1) * l)
    <2>1. (w + 1) * l <= q * l
      BY <1>1, <1>2, <1>7
    <2>. QED
      BY <1>1, <1>3, <2>1
  <1>. QED
    BY <1>4, <1>5, <1>6, <1>7 DEF q

\* The block of index w, taken into the domain, is the block of index c that is
\* shift periods further.
LEMMA QuotientOfShift ==
  ASSUME NEW w \in Int, NEW m \in Nat \ {0}
  PROVE  /\ ((w % m) - w) \div m \in Int
         /\ w % m = w + (((w % m) - w) \div m) * m
         /\ w % m \in 0 .. m - 1
         /\ \A c \in 0 .. m - 1, k \in Int :
              w = c - k * m => w % m = c /\ ((w % m) - w) \div m = k
  <1> DEFINE q == w \div m
             s == w % m
  <1>1. q \in Int /\ s \in Int /\ 0 <= s /\ s < m /\ w = m * q + s
    OBVIOUS
  <1>. HIDE DEF q, s
  <1>2. \A a \in Int : (a * m) \div m = a
    <2> SUFFICES ASSUME NEW a \in Int PROVE (a * m) \div m = a
      OBVIOUS
    <2>1. a * m \in Int /\ (a + 1) * m = a * m + m
      OBVIOUS
    <2> DEFINE y == a * m
    <2>2. y \in Int /\ a * m <= y /\ y < (a + 1) * m
      BY <2>1
    <2>. HIDE DEF y
    <2>3. a <= y \div m /\ y \div m <= a
      BY <2>2, QuotientOrder
    <2>4. y \div m \in Int
      BY <2>2
    <2>. QED
      BY <2>3, <2>4 DEF y
  <1>3. s - w = (-q) * m
    <2>1. (-q) * m = - (m * q) /\ m * q \in Int
      BY <1>1
    <2>. QED
      BY <1>1, <2>1
  <1>4. (s - w) \div m = -q
    BY <1>1, <1>2, <1>3
  <1>5. s = w + ((s - w) \div m) * m
    <2>1. (-q) * m \in Int
      BY <1>1
    <2>. QED
      BY <1>1, <1>3, <1>4, <2>1
  <1>6. ASSUME NEW c \in 0 .. m - 1, NEW k \in Int, w = c - k * m
        PROVE  s = c /\ (s - w) \div m = k
    <2>1. (-k) * m = - (k * m) /\ k * m \in Int /\ (-q) * m \in Int /\ (-k + 1) * m = (-k) * m + m
      BY <1>1
    <2>2. (-k) * m <= w /\ w < (-k + 1) * m
      BY <1>6, <2>1
    <2>3. -k <= q /\ q <= -k
      <3>1. -k \in Int
        OBVIOUS
      <3>2. -k <= w \div m
        BY <2>2, <3>1, QuotientOrder
      <3>3. w \div m <= -k
        BY <2>2, <3>1, QuotientOrder
      <3>. QED
        BY <3>2, <3>3 DEF q
    <2>4. q = -k
      BY <1>1, <2>3
    <2>5. m * q = - (k * m)
      BY <2>4
    <2>. QED
      BY <1>1, <1>4, <1>6, <2>1, <2>4, <2>5
  <1>. QED
    BY <1>1, <1>4, <1>5, <1>6 DEF s

\* How many periods the block w touches is from the block it is mapped to.
Shift(w, d) == (Canonical(w)[d] - w[d]) \div global_blocks[d]

LEMMA ShiftIs ==
  ASSUME NEW w \in Vectors, NEW d \in Axis
  PROVE  /\ Shift(w, d) \in Int /\ (is_periodic[d] \/ Shift(w, d) = 0)
         /\ Canonical(w)[d] \in Int
         /\ Canonical(w)[d] = w[d] + Shift(w, d) * global_blocks[d]
         /\ \A c \in 0 .. global_blocks[d] - 1, k \in Int :
              (is_periodic[d] \/ k = 0) /\ w[d] = c - k * global_blocks[d] =>
                Canonical(w)[d] = c /\ Shift(w, d) = k
  <1> DEFINE m == global_blocks[d]
             y == w[d]
  <1>1. y \in Int /\ m \in Nat \ {0}
    BY BlocksArePositive DEF Vectors, Sized
  <1>2. CASE is_periodic[d]
    <2>1. Canonical(w)[d] = y % m /\ Shift(w, d) = ((y % m) - y) \div m
      BY <1>2 DEF Canonical, Shift
    <2>. HIDE DEF y, m
    <2>2. /\ ((y % m) - y) \div m \in Int
          /\ y % m = y + (((y % m) - y) \div m) * m
          /\ y % m \in 0 .. m - 1
          /\ \A c \in 0 .. m - 1, k \in Int :
              y = c - k * m => y % m = c /\ ((y % m) - y) \div m = k
      BY <1>1, QuotientOfShift
    <2>. QED
      BY <1>2, <2>1, <2>2 DEF y, m
  <1>3. CASE ~ is_periodic[d]
    <2>1. Canonical(w)[d] = y /\ Shift(w, d) = (y - y) \div m
      BY <1>3 DEF Canonical, Shift
    <2>. HIDE DEF y, m
    <2>2. y - y = 0 /\ 0 \div m = 0 /\ 0 * m = 0
      <3>1. \A a \in Nat : 0 * a = 0 /\ (0 + 1) * a = a
        OBVIOUS
      <3>2. 0 <= 0 \div m /\ 0 \div m <= 0 /\ 0 \div m \in Int
        BY <1>1, <3>1, QuotientOrder
      <3>. QED
        BY <1>1, <3>1, <3>2
    <2>3. Shift(w, d) = 0
      BY <2>1, <2>2
    <2>4. y = y + 0 * m /\ \A c \in Int : c - 0 * m = c
      BY <1>1, <2>2
    <2>5. \A c \in 0 .. m - 1, k \in Int : k = 0 /\ y = c - k * m => y = c
      BY <1>1, <2>2
    <2>6. /\ Shift(w, d) \in Int /\ (is_periodic[d] \/ Shift(w, d) = 0)
          /\ Canonical(w)[d] \in Int /\ Canonical(w)[d] = y + Shift(w, d) * m
          /\ \A c \in 0 .. m - 1, k \in Int :
               (is_periodic[d] \/ k = 0) /\ y = c - k * m => Canonical(w)[d] = c /\ Shift(w, d) = k
      <3> DEFINE f == Canonical(w)[d]
                 g == Shift(w, d)
      <3>1. f = y /\ g = 0
        BY <2>1, <2>3
      <3>. HIDE DEF f, g
      <3>2. \A c \in 0 .. m - 1, k \in Int :
               (is_periodic[d] \/ k = 0) /\ y = c - k * m => f = c /\ g = k
        BY <1>3, <2>5, <3>1
      <3>3. g \in Int /\ f \in Int /\ f = y + g * m /\ (is_periodic[d] \/ g = 0)
        BY <1>1, <2>4, <3>1
      <3>. QED
        BY <3>2, <3>3 DEF f, g
    <2>. QED
      BY <2>6 DEF y, m
  <1>. QED
    BY <1>2, <1>3

\* y is x or a periodic image of x.
IsImage(x, y) ==
  \A d \in Axis : \E k \in Int : (is_periodic[d] \/ k = 0) /\ y[d] = x[d] + k * globalsize[d]

Near(b, x) == {y \in Vectors : IsImage(x, y) /\ WithinHalo(b, y)}

\* A block in units of length.
LEMMA Edges ==
  ASSUME NEW b \in BlockId, NEW d \in Axis
  PROVE  /\ IndexOf[b][d] \in Nat /\ IndexOf[b][d] < global_blocks[d]
         /\ global_blocks[d] \in Nat \ {0} /\ blocksize[d] \in Nat \ {0}
         /\ globalsize[d] = global_blocks[d] * blocksize[d] /\ globalsize[d] \in Nat \ {0}
  <1>1. IndexOf[b] \in Box(global_blocks)
    BY IndexOfIs
  <1>2. globalsize[d] = (nprocs[d] * nblocks[d]) * blocksize[d] /\ global_blocks[d] = nprocs[d] * nblocks[d]
    BY DEF globalsize, global_blocks, Times
  <1>. QED
    BY <1>1, <1>2, BoxIs, BlocksArePositive, SizesArePositive, SizesOfMesh DEF Sized, Within

\* A copy goes to a block exactly when the block has the image within its halo.
LEMMA TouchedIsNear ==
  ASSUME NEW x \in Vectors, NEW b \in BlockId
  PROVE  /\ \A w \in Touched(x) : Canonical(w) = IndexOf[b] => Image(x, w) \in Near(b, x)
         /\ \A y \in Near(b, x) : \E w \in Touched(x) : Canonical(w) = IndexOf[b] /\ Image(x, w) = y
  <1>1. ASSUME NEW w \in Vectors, NEW d \in Axis, NEW k \in Int, NEW z \in Int,
               IndexOf[b][d] = w[d] + k * global_blocks[d], z = x[d] + k * globalsize[d]
        PROVE  First(x, d) <= w[d] /\ w[d] <= Last(x, d) <=>
                 /\ IndexOf[b][d] * blocksize[d] - halorad <= z
                 /\ z < (IndexOf[b][d] + 1) * blocksize[d] + halorad
    <2> DEFINE c == IndexOf[b][d]
               m == global_blocks[d]
               l == blocksize[d]
               v == w[d]
               a == x[d]
               g == globalsize[d]
    <2>1. c \in Nat /\ m \in Nat \ {0} /\ l \in Nat \ {0} /\ g = m * l /\ v \in Int /\ a \in Int /\ halorad \in Nat
      BY Edges, ParticleAssumption DEF Vectors
    <2>2. c = v + k * m /\ z = a + k * g
      BY <1>1
    <2>3. First(x, d) = (a - halorad) \div l /\ Last(x, d) = (a + halorad) \div l
      BY DEF First, Last
    <2>. HIDE DEF c, m, l, v, a, g
    <2>4. a - halorad \in Int /\ a + halorad \in Int
      BY <2>1
    <2>5. (a - halorad) \div l <= v <=> a - halorad < (v + 1) * l
      BY <2>1, <2>4, QuotientOrder
    <2>6. v <= (a + halorad) \div l <=> v * l <= a + halorad
      BY <2>1, <2>4, QuotientOrder
    <2>7. c * l = v * l + k * g /\ (c + 1) * l = (v + 1) * l + k * g
      <3>1. \A e, f, o, t \in Int : (e + f * o) * t = e * t + f * (o * t) /\ (e + f * o + 1) * t = (e + 1) * t + f * (o * t)
        OBVIOUS
      <3>. QED
        BY <2>1, <2>2, <3>1
    <2>8. v * l \in Int /\ (v + 1) * l \in Int /\ k * g \in Int
      BY <2>1
    <2>9. c * l - halorad <= z <=> v * l <= a + halorad
      BY <2>1, <2>2, <2>7, <2>8
    <2>10. z < (c + 1) * l + halorad <=> a - halorad < (v + 1) * l
      BY <2>1, <2>2, <2>7, <2>8
    <2>. QED
      BY <2>3, <2>5, <2>6, <2>9, <2>10 DEF c, l, v
  <1>2. ASSUME NEW w \in Touched(x), Canonical(w) = IndexOf[b]
        PROVE  Image(x, w) \in Near(b, x)
    <2>1. w \in Vectors /\ Image(x, w) \in Vectors
      BY TouchedIs, ImagesAreVectors
    <2>2. ASSUME NEW d \in Axis
          PROVE  /\ Shift(w, d) \in Int /\ (is_periodic[d] \/ Shift(w, d) = 0)
                 /\ IndexOf[b][d] = w[d] + Shift(w, d) * global_blocks[d]
                 /\ Image(x, w)[d] = x[d] + Shift(w, d) * globalsize[d]
                 /\ Image(x, w)[d] \in Int
                 /\ First(x, d) <= w[d] /\ w[d] <= Last(x, d)
      <3>1. Image(x, w)[d] = x[d] + Shift(w, d) * globalsize[d]
        BY DEF Image, Shift
      <3>2. Image(x, w)[d] \in Int
        BY <2>1 DEF Vectors
      <3>3. First(x, d) <= w[d] /\ w[d] <= Last(x, d)
        BY TouchedIs
      <3>. QED
        BY <1>2, <2>1, <3>1, <3>2, <3>3, ShiftIs
    <2>3. IsImage(x, Image(x, w))
      BY <2>2 DEF IsImage
    <2>4. WithinHalo(b, Image(x, w))
      BY <1>1, <2>1, <2>2 DEF WithinHalo
    <2>. QED
      BY <2>1, <2>3, <2>4 DEF Near
  <1>3. ASSUME NEW y \in Near(b, x)
        PROVE  \E w \in Touched(x) : Canonical(w) = IndexOf[b] /\ Image(x, w) = y
    <2> DEFINE k == [d \in Axis |-> CHOOSE m \in Int :
                       (is_periodic[d] \/ m = 0) /\ y[d] = x[d] + m * globalsize[d]]
               w == [d \in Axis |-> IndexOf[b][d] - k[d] * global_blocks[d]]
    <2>1. ASSUME NEW d \in Axis
          PROVE  k[d] \in Int /\ (is_periodic[d] \/ k[d] = 0) /\ y[d] = x[d] + k[d] * globalsize[d]
      BY DEF Near, IsImage
    <2>2. y \in Vectors /\ WithinHalo(b, y)
      BY DEF Near
    <2>. HIDE DEF k
    <2>3. ASSUME NEW d \in Axis
          PROVE  /\ w[d] \in Int /\ IndexOf[b][d] = w[d] + k[d] * global_blocks[d]
                 /\ IndexOf[b][d] \in 0 .. global_blocks[d] - 1
                 /\ w[d] = IndexOf[b][d] - k[d] * global_blocks[d]
      <3> DEFINE c == IndexOf[b][d]
                 e == k[d] * global_blocks[d]
      <3>1. c \in Nat /\ c < global_blocks[d] /\ global_blocks[d] \in Nat \ {0}
        BY Edges
      <3>2. e \in Int
        BY <2>1, <3>1
      <3>3. w[d] = c - e
        OBVIOUS
      <3>. HIDE DEF c, e, w
      <3>. QED
        BY <3>1, <3>2, <3>3 DEF c, e
    <2>4. w \in Vectors
      BY <2>3 DEF Vectors
    <2>5. w = [d \in Axis |-> w[d]]
      OBVIOUS
    <2>. HIDE DEF w
    <2>6. ASSUME NEW d \in Axis PROVE Canonical(w)[d] = IndexOf[b][d] /\ Shift(w, d) = k[d]
      BY <2>1, <2>3, <2>4, ShiftIs
    <2>7. Canonical(w) = IndexOf[b]
      <3>1. IndexOf[b] = [d \in Axis |-> IndexOf[b][d]]
        BY IndexOfIs, BoxIs, BlocksArePositive
      <3>2. Canonical(w) = [d \in Axis |-> Canonical(w)[d]]
        BY DEF Canonical
      <3>. QED
        BY <2>6, <3>1, <3>2
    <2>8. Image(x, w) = y
      <3>1. y = [d \in Axis |-> y[d]]
        BY <2>2 DEF Vectors
      <3>2. \A d \in Axis : Image(x, w)[d] = x[d] + Shift(w, d) * globalsize[d]
        BY DEF Image, Shift
      <3>3. Image(x, w) = [d \in Axis |-> Image(x, w)[d]]
        BY DEF Image
      <3>4. \A d \in Axis : Image(x, w)[d] = y[d]
        BY <2>1, <2>6, <3>2
      <3>. QED
        BY <3>1, <3>3, <3>4
    <2>9. ASSUME NEW d \in Axis PROVE First(x, d) <= w[d] /\ w[d] <= Last(x, d)
      <3>1. y[d] \in Int
        BY <2>2 DEF Vectors
      <3>2. /\ IndexOf[b][d] * blocksize[d] - halorad <= y[d]
            /\ y[d] < (IndexOf[b][d] + 1) * blocksize[d] + halorad
        BY <2>2 DEF WithinHalo
      <3>. QED
        BY <1>1, <2>1, <2>3, <2>4, <3>1, <3>2
    <2>10. w \in Touched(x)
      BY <2>4, <2>9, TouchedIs
    <2>. QED
      BY <2>7, <2>8, <2>10
  <1>. QED
    BY <1>2, <1>3

LEMMA DestinationsAreNear ==
  ASSUME NEW c \in Copy
  PROVE  Destinations(c) = {t \in Target : t.id = c.id /\ t.x \in Near(t.block, c.x)}
  <1> DEFINE of(w) == [block |-> RowMajor(Canonical(w), global_blocks), id |-> c.id, x |-> Image(c.x, w)]
  <1>1. c.x \in Vectors /\ c.id \in Particle
    BY DEF Copy
  <1>2. Destinations(c) = {of(w) : w \in {v \in Touched(c.x) : Canonical(v) \in Box(global_blocks)}}
    BY DEF Destinations
  <1>3. ASSUME NEW w \in Touched(c.x), Canonical(w) \in Box(global_blocks)
        PROVE  of(w) \in Target /\ of(w).id = c.id /\ of(w).x \in Near(of(w).block, c.x)
    <2> DEFINE b == RowMajor(Canonical(w), global_blocks)
    <2>1. b \in BlockId /\ IndexOf[b] = Canonical(w)
      BY <1>3, IndexOfIs
    <2>2. of(w).block = b /\ of(w).id = c.id /\ of(w).x = Image(c.x, w) /\ of(w) = [block |-> b, id |-> c.id, x |-> Image(c.x, w)]
      OBVIOUS
    <2>. HIDE DEF b, of
    <2>3. Image(c.x, w) \in Near(b, c.x)
      BY <1>1, <2>1, TouchedIsNear
    <2>4. Image(c.x, w) \in Vectors
      BY <2>3 DEF Near
    <2>. QED
      BY <1>1, <2>1, <2>2, <2>3, <2>4 DEF Target
  <1>4. ASSUME NEW t \in Target, t.id = c.id, t.x \in Near(t.block, c.x)
        PROVE  \E w \in Touched(c.x) : Canonical(w) \in Box(global_blocks) /\ t = of(w)
    <2>1. t.block \in BlockId /\ t = [block |-> t.block, id |-> t.id, x |-> t.x]
      BY DEF Target
    <2>2. PICK w \in Touched(c.x) : Canonical(w) = IndexOf[t.block] /\ Image(c.x, w) = t.x
      BY <1>1, <1>4, <2>1, TouchedIsNear
    <2>3. Canonical(w) \in Box(global_blocks) /\ RowMajor(Canonical(w), global_blocks) = t.block
      BY <2>1, <2>2, IndexOfIs
    <2>. QED
      BY <1>4, <2>1, <2>2, <2>3
  <1>. HIDE DEF of
  <1>. QED
    BY <1>2, <1>3, <1>4

\* The images that CopiesComplete enumerates are all that can be within the halo.
LEMMA ImagesAreNear ==
  ASSUME NEW x \in Vectors, IsInside(x), NEW b \in BlockId
  PROVE  {y \in Images(x) : WithinHalo(b, y)} = Near(b, x)
  <1> DEFINE R == -(halorad + 1) .. halorad + 1
             M == {m \in [Axis -> R] : \A d \in Axis : is_periodic[d] \/ m[d] = 0}
  <1>1. Images(x) = {Plus(x, Times(m, globalsize)) : m \in M} /\ R \subseteq Int
    BY ParticleAssumption DEF Images
  <1>2. ASSUME NEW m \in M PROVE Plus(x, Times(m, globalsize)) \in Vectors /\ IsImage(x, Plus(x, Times(m, globalsize)))
    <2> DEFINE y == Plus(x, Times(m, globalsize))
    <2>1. ASSUME NEW d \in Axis
          PROVE  m[d] \in Int /\ (is_periodic[d] \/ m[d] = 0) /\ y[d] = x[d] + m[d] * globalsize[d]
                 /\ y[d] \in Int
      <3>1. m[d] \in Int /\ (is_periodic[d] \/ m[d] = 0)
        BY <1>1
      <3>2. y[d] = x[d] + m[d] * globalsize[d]
        BY DEF Plus, Times
      <3> DEFINE a == x[d]
                 g == globalsize[d]
                 k == m[d]
      <3>3. a \in Int /\ g \in Int /\ k \in Int
        BY <3>1, SizesOfMesh DEF Vectors
      <3>4. a + k * g \in Int
        <4>. HIDE DEF a, g, k
        <4>. QED
          BY <3>3
      <3>. QED
        BY <3>1, <3>2, <3>4
    <2>2. y = [d \in Axis |-> y[d]]
      BY DEF Plus
    <2>. HIDE DEF y
    <2>3. y \in Vectors
      BY <2>1, <2>2 DEF Vectors
    <2>4. IsImage(x, y)
      BY <2>1 DEF IsImage
    <2>. QED
      BY <2>3, <2>4 DEF y
  <1>3. ASSUME NEW y \in Near(b, x) PROVE y \in Images(x)
    <2> DEFINE k == [d \in Axis |-> CHOOSE m \in Int :
                       (is_periodic[d] \/ m = 0) /\ y[d] = x[d] + m * globalsize[d]]
    <2>1. ASSUME NEW d \in Axis
          PROVE  k[d] \in Int /\ (is_periodic[d] \/ k[d] = 0) /\ y[d] = x[d] + k[d] * globalsize[d]
      BY DEF Near, IsImage
    <2>2. y \in Vectors /\ WithinHalo(b, y)
      BY DEF Near
    <2>3. k = [d \in Axis |-> k[d]]
      OBVIOUS
    <2>. HIDE DEF k
    <2>4. ASSUME NEW d \in Axis PROVE k[d] \in R
      <3> DEFINE c == IndexOf[b][d]
                 m == global_blocks[d]
                 l == blocksize[d]
                 a == x[d]
                 g == globalsize[d]
                 e == k[d]
      <3>1. /\ c \in Nat /\ m \in Nat \ {0} /\ l \in Nat \ {0} /\ g = m * l /\ g \in Nat \ {0} /\ c < m
            /\ a \in Int /\ 0 <= a /\ a <= g /\ halorad \in Nat /\ e \in Int
        BY <2>1, Edges, ParticleAssumption DEF Vectors, IsInside
      <3>2. c * l - halorad <= a + e * g /\ a + e * g < (c + 1) * l + halorad
        BY <2>1, <2>2 DEF WithinHalo
      <3>. HIDE DEF c, m, l, a, g, e
      <3>3. 0 <= c * l /\ (c + 1) * l <= g /\ c * l \in Int /\ (c + 1) * l \in Int /\ e * g \in Int
        <4>1. \A f, o \in Nat : f <= o => f * l <= o * l
          BY <3>1
        <4>2. c + 1 <= m /\ c + 1 \in Nat /\ c * l \in Nat /\ (c + 1) * l \in Nat /\ e * g \in Int
          BY <3>1
        <4>. QED
          BY <3>1, <4>1, <4>2
      <3>4. -halorad - g <= e * g /\ e * g < g + halorad
        BY <3>1, <3>2, <3>3
      <3>5. \A f, o \in Int : f <= o => f * g <= o * g
        BY <3>1
      <3>6. (halorad + 2) * g = halorad * g + 2 * g /\ (-(halorad + 2)) * g = -(halorad * g) - 2 * g
            /\ halorad * g >= halorad
        <4>1. 1 * halorad <= g * halorad
          BY <3>1
        <4>2. halorad * g = g * halorad /\ halorad * g \in Int
          BY <3>1
        <4>3. \A f, o \in Int : (f + 2) * o = f * o + 2 * o /\ (-(f + 2)) * o = -(f * o) - 2 * o
          OBVIOUS
        <4>. QED
          BY <3>1, <4>1, <4>2, <4>3
      <3>7. halorad * g \in Int
        BY <3>1
      <3>8. e < halorad + 2
        <4>1. ASSUME halorad + 2 <= e PROVE FALSE
          <5>1. (halorad + 2) * g <= e * g
            BY <3>1, <3>5, <4>1
          <5>. QED
            BY <3>1, <3>3, <3>4, <3>6, <3>7, <5>1
        <4>. QED
          BY <3>1, <4>1
      <3>9. -(halorad + 2) < e
        <4>1. ASSUME e <= -(halorad + 2) PROVE FALSE
          <5>1. e * g <= (-(halorad + 2)) * g
            BY <3>1, <3>5, <4>1
          <5>. QED
            BY <3>1, <3>3, <3>4, <3>6, <3>7, <5>1
        <4>. QED
          BY <3>1, <4>1
      <3>. QED
        BY <3>1, <3>8, <3>9 DEF e
    <2>5. k \in M
      <3>1. k \in [Axis -> R]
        <4>. HIDE DEF R
        <4>. QED
          BY <2>3, <2>4
      <3>. QED
        BY <2>1, <3>1
    <2>6. y = Plus(x, Times(k, globalsize))
      <3>1. y = [d \in Axis |-> y[d]]
        BY <2>2 DEF Vectors
      <3>2. \A d \in Axis : Plus(x, Times(k, globalsize))[d] = y[d]
        BY <2>1 DEF Plus, Times
      <3>3. Plus(x, Times(k, globalsize)) = [d \in Axis |-> Plus(x, Times(k, globalsize))[d]]
        BY DEF Plus
      <3>. QED
        BY <3>1, <3>2, <3>3
    <2>. QED
      BY <1>1, <2>5, <2>6
  <1>. HIDE DEF M
  <1>. QED
    BY <1>1, <1>2, <1>3 DEF Near

\* A position on an upper periodic boundary is that on the lower one.
Wrapped(x) == [d \in Axis |-> IF is_periodic[d] /\ x[d] = globalsize[d] THEN 0 ELSE x[d]]

LEMMA WrappedIs ==
  ASSUME NEW x \in Vectors, IsInside(x)
  PROVE  /\ Wrapped(x) \in Vectors /\ IsImage(x, Wrapped(x))
         /\ \A d \in Axis : 0 <= Wrapped(x)[d] /\ Wrapped(x)[d] <= globalsize[d]
         /\ \A d \in Axis : is_periodic[d] => Wrapped(x)[d] < globalsize[d]
  <1>1. ASSUME NEW d \in Axis
        PROVE  /\ Wrapped(x)[d] \in Int /\ 0 <= Wrapped(x)[d] /\ Wrapped(x)[d] <= globalsize[d]
               /\ is_periodic[d] => Wrapped(x)[d] < globalsize[d]
               /\ \E k \in Int : (is_periodic[d] \/ k = 0) /\ Wrapped(x)[d] = x[d] + k * globalsize[d]
    <2> DEFINE a == x[d]
               g == globalsize[d]
    <2>1. a \in Int /\ 0 <= a /\ a <= g /\ g \in Nat \ {0}
      BY SizesOfMesh DEF Vectors, IsInside
    <2>2. CASE is_periodic[d] /\ a = g
      <3>1. Wrapped(x)[d] = 0
        BY <2>2 DEF Wrapped
      <3>2. 0 = a + (-1) * g
        <4>. HIDE DEF a, g
        <4>. QED
          BY <2>1, <2>2
      <3>. QED
        BY <2>1, <2>2, <3>1, <3>2
    <2>3. CASE ~ (is_periodic[d] /\ a = g)
      <3>1. Wrapped(x)[d] = a
        BY <2>3 DEF Wrapped
      <3>2. a = a + 0 * g
        <4>. HIDE DEF a, g
        <4>. QED
          BY <2>1
      <3>. QED
        BY <2>1, <2>3, <3>1, <3>2
    <2>. QED
      BY <2>2, <2>3
  <1>2. Wrapped(x) = [d \in Axis |-> Wrapped(x)[d]]
    BY DEF Wrapped
  <1>3. IsImage(x, Wrapped(x))
    BY <1>1 DEF IsImage
  <1>. QED
    BY <1>1, <1>2, <1>3 DEF Vectors

\* A position in a block is within its halo, and below the upper end of the domain.
LEMMA InnerIs ==
  ASSUME NEW b \in BlockId, NEW y \in Vectors, IsInnerPoint(b, y)
  PROVE  WithinHalo(b, y) /\ \A d \in Axis : 0 <= y[d] /\ y[d] < globalsize[d]
                                             /\ IndexOf[b][d] = y[d] \div blocksize[d]
  <1>1. ASSUME NEW d \in Axis
        PROVE  /\ IndexOf[b][d] * blocksize[d] - halorad <= y[d]
               /\ y[d] < (IndexOf[b][d] + 1) * blocksize[d] + halorad
               /\ 0 <= y[d] /\ y[d] < globalsize[d] /\ IndexOf[b][d] = y[d] \div blocksize[d]
    <2> DEFINE c == IndexOf[b][d]
               m == global_blocks[d]
               l == blocksize[d]
               a == y[d]
               g == globalsize[d]
    <2>1. /\ c \in Nat /\ m \in Nat \ {0} /\ l \in Nat \ {0} /\ g = m * l /\ c < m
          /\ a \in Int /\ halorad \in Nat /\ c * l <= a /\ a < (c + 1) * l
      BY Edges, ParticleAssumption DEF Vectors, IsInnerPoint
    <2>. HIDE DEF c, m, l, a, g
    <2>2. \A f, o \in Nat : f <= o => f * l <= o * l
      BY <2>1
    <2>3. c + 1 <= m /\ c + 1 \in Nat /\ c * l \in Nat /\ (c + 1) * l \in Nat
      BY <2>1
    <2>4. (c + 1) * l <= m * l
      BY <2>1, <2>2, <2>3
    <2>5. c <= a \div l /\ a \div l <= c /\ a \div l \in Int
      BY <2>1, QuotientOrder
    <2>6. c * l - halorad <= a /\ a < (c + 1) * l + halorad /\ 0 <= a /\ a < g /\ c = a \div l
      BY <2>1, <2>3, <2>4, <2>5
    <2>. QED
      BY <2>6 DEF c, l, a, g
  <1>. QED
    BY <1>1 DEF WithinHalo

\* Of the images of a position only the wrapped one can be inside of a block.
LEMMA InnerImage ==
  ASSUME NEW x \in Vectors, IsInside(x), NEW b \in BlockId, NEW y \in Vectors,
         IsImage(x, y), IsInnerPoint(b, y)
  PROVE  y = Wrapped(x)
  <1>1. ASSUME NEW d \in Axis PROVE y[d] = Wrapped(x)[d]
    <2>1. PICK k \in Int : (is_periodic[d] \/ k = 0) /\ y[d] = x[d] + k * globalsize[d]
      BY DEF IsImage
    <2> DEFINE a == x[d]
               g == globalsize[d]
               v == y[d]
    <2>2. /\ a \in Int /\ 0 <= a /\ a <= g /\ g \in Nat \ {0} /\ v \in Int /\ 0 <= v /\ v < g
          /\ v = a + k * g
      BY <2>1, SizesOfMesh, InnerIs DEF Vectors, IsInside
    <2>3. v = IF is_periodic[d] /\ a = g THEN 0 ELSE a
      <3>. HIDE DEF a, g, v
      <3>1. \A f, o \in Int : f <= o => f * g <= o * g
        BY <2>2
      <3>2. k * g \in Int /\ 1 * g = g /\ 0 * g = 0 /\ (-1) * g = -g /\ (-2) * g = -g - g
        BY <2>2
      <3>3. k < 1
        <4>1. ASSUME 1 <= k PROVE FALSE
          <5>1. 1 * g <= k * g
            BY <3>1, <4>1
          <5>. QED
            BY <2>2, <3>2, <5>1
        <4>. QED
          BY <4>1
      <3>4. -2 < k
        <4>1. ASSUME k <= -2 PROVE FALSE
          <5>1. k * g <= (-2) * g
            BY <3>1, <4>1
          <5>. QED
            BY <2>2, <3>2, <5>1
        <4>. QED
          BY <4>1
      <3>5. k = 0 \/ k = -1
        BY <3>3, <3>4
      <3>6. CASE k = 0
        BY <2>2, <3>2, <3>6
      <3>7. CASE k = -1
        <4>1. v = a - g
          BY <2>2, <3>2, <3>7
        <4>. QED
          BY <2>1, <2>2, <3>7, <4>1
      <3>. QED
        BY <3>5, <3>6, <3>7
    <2>. QED
      BY <2>3 DEF Wrapped
  <1>2. y = [d \in Axis |-> y[d]] /\ Wrapped(x) = [d \in Axis |-> Wrapped(x)[d]]
    BY DEF Vectors, Wrapped
  <1>. QED
    BY <1>1, <1>2

\* A position is in one block at most.
LEMMA BlockUnique ==
  ASSUME NEW b \in BlockId, NEW e \in BlockId, NEW y \in Vectors,
         IsInnerPoint(b, y), IsInnerPoint(e, y)
  PROVE  b = e
  <1>1. \A d \in Axis : IndexOf[b][d] = IndexOf[e][d]
    BY InnerIs
  <1>2. IndexOf[b] = [d \in Axis |-> IndexOf[b][d]] /\ IndexOf[e] = [d \in Axis |-> IndexOf[e][d]]
    BY IndexOfIs, BoxIs, BlocksArePositive
  <1>3. IndexOf[b] = IndexOf[e]
    BY <1>1, <1>2
  <1>. QED
    BY <1>3, IndexOfIs

\* In one exactly, if it is not on an upper wall.
LEMMA BlockExists ==
  ASSUME NEW y \in Vectors, \A d \in Axis : 0 <= y[d] /\ y[d] < globalsize[d]
  PROVE  \E b \in BlockId : IsInnerPoint(b, y)
  <1> DEFINE w == [d \in Axis |-> y[d] \div blocksize[d]]
  <1>1. ASSUME NEW d \in Axis
        PROVE  /\ w[d] \in Nat /\ w[d] < global_blocks[d]
               /\ w[d] * blocksize[d] <= y[d] /\ y[d] < (w[d] + 1) * blocksize[d]
    <2> DEFINE m == global_blocks[d]
               l == blocksize[d]
               a == y[d]
    <2>1. m \in Nat \ {0} /\ l \in Nat \ {0} /\ a \in Nat /\ a < m * l
      <3>1. /\ global_blocks[d] = nprocs[d] * nblocks[d]
            /\ globalsize[d] = (nprocs[d] * nblocks[d]) * blocksize[d]
        BY DEF globalsize, global_blocks, Times
      <3>. QED
        BY <3>1, BlocksArePositive, SizesArePositive DEF Sized, Vectors
    <2>2. w[d] = a \div l
      OBVIOUS
    <2>. HIDE DEF m, l, a, w
    <2>3. a \div l \in Nat /\ a \div l < m
      BY <2>1, Quotients, QuotientBound
    <2>4. (a \div l) * l <= a /\ a < (a \div l + 1) * l
      BY <2>1, <2>3, QuotientOrder
    <2>. QED
      BY <2>2, <2>3, <2>4 DEF m, l, a
  <1>2. w \in Box(global_blocks)
    <2>1. w \in [Axis -> Nat] /\ Within(w, global_blocks)
      BY <1>1 DEF Within
    <2>. HIDE DEF w
    <2>. QED
      BY <2>1, BoxIs, BlocksArePositive
  <1>. HIDE DEF w
  <1>3. RowMajor(w, global_blocks) \in BlockId /\ IndexOf[RowMajor(w, global_blocks)] = w
    BY <1>2, IndexOfIs
  <1>. QED
    BY <1>1, <1>3 DEF IsInnerPoint

-----------------------------------------------------------------------------
(***************************************************************************)
(* Bags in which everything is once.                                       *)
(***************************************************************************)
\* The copies of a block that a set of destinations stands for.
CopiesAt(b, T) ==
  {[id |-> t.id, x |-> t.x, inner |-> IsInnerPoint(b, t.x)] : t \in {u \in T : u.block = b}}

LEMMA CopiesAtIs ==
  ASSUME NEW b \in BlockId, NEW T \in SUBSET Target, NEW c
  PROVE  c \in CopiesAt(b, T) <=>
           /\ c \in Copy /\ c.inner = IsInnerPoint(b, c.x)
           /\ [block |-> b, id |-> c.id, x |-> c.x] \in T
  <1>1. ASSUME NEW t \in T, t.block = b, c = [id |-> t.id, x |-> t.x, inner |-> IsInnerPoint(b, t.x)]
        PROVE  /\ c \in Copy /\ c.inner = IsInnerPoint(b, c.x)
               /\ [block |-> b, id |-> c.id, x |-> c.x] \in T
    <2>1. t \in Target /\ t = [block |-> b, id |-> t.id, x |-> t.x]
      BY <1>1 DEF Target
    <2>2. IsInnerPoint(b, t.x) \in BOOLEAN
      BY DEF IsInnerPoint
    <2>. QED
      BY <1>1, <2>1, <2>2 DEF Copy, Target
  <1>2. ASSUME c \in Copy, c.inner = IsInnerPoint(b, c.x), [block |-> b, id |-> c.id, x |-> c.x] \in T
        PROVE  c \in CopiesAt(b, T)
    <2> PICK t \in T : t = [block |-> b, id |-> c.id, x |-> c.x]
      BY <1>2
    <2>1. t.block = b /\ t.id = c.id /\ t.x = c.x
      OBVIOUS
    <2>2. c = [id |-> c.id, x |-> c.x, inner |-> c.inner]
      BY <1>2 DEF Copy
    <2>3. c = [id |-> t.id, x |-> t.x, inner |-> IsInnerPoint(b, t.x)]
      BY <1>2, <2>1, <2>2
    <2>. QED
      BY <2>1, <2>3 DEF CopiesAt
  <1>. QED
    BY <1>1, <1>2 DEF CopiesAt

LEMMA RestrictedOnce ==
  ASSUME NEW T, NEW blocks
  PROVE  Restricted(SetToBag(T), blocks) = SetToBag({t \in T : t.block \in blocks})
  BY DEF Restricted, SetToBag

LEMMA ArrivingOnce ==
  ASSUME NEW T \in SUBSET Target, NEW b \in BlockId
  PROVE  Arriving(SetToBag(T), b) = SetToBag(CopiesAt(b, T))
  <1> DEFINE C == CopiesAt(b, T)
  <1>1. Arriving(SetToBag(T), b) =
          [c \in C |-> SetToBag(T)[[block |-> b, id |-> c.id, x |-> c.x]]]
    BY DEF Arriving, CopiesAt, SetToBag
  <1>2. \A c \in C : [block |-> b, id |-> c.id, x |-> c.x] \in T
    BY CopiesAtIs
  <1>. HIDE DEF C
  <1>3. \A c \in C : SetToBag(T)[[block |-> b, id |-> c.id, x |-> c.x]] = 1
    BY <1>2 DEF SetToBag
  <1>4. Arriving(SetToBag(T), b) = [c \in C |-> 1]
    BY <1>1, <1>3
  <1>. QED
    BY <1>4 DEF SetToBag, C

LEMMA PlusOnce ==
  ASSUME NEW A, NEW B, A \cap B = {}
  PROVE  SetToBag(A) (+) SetToBag(B) = SetToBag(A \cup B)
  BY DEF (+), SetToBag

\* What one bag of a family has once, and no other one has, is once in the sum.
LEMMA SumOnce ==
  ASSUME NEW f, NEW a \in DOMAIN f, NEW t \in DOMAIN f[a], f[a][t] = 1,
         \A e \in DOMAIN f : t \in DOMAIN f[e] => e = a
  PROVE  t \in DOMAIN SumOfBags(f) /\ SumOfBags(f)[t] = 1
  <1>1. Occurrences(f, t) = {<<a, 1>>}
    <2>1. {b \in DOMAIN f : t \in DOMAIN f[b]} = {a}
      OBVIOUS
    <2>2. Occurrences(f, t) = {a} \X (1 .. f[a][t])
      BY <2>1 DEF Occurrences
    <2>3. 1 .. 1 = {1}
      OBVIOUS
    <2>4. {a} \X {1} = {<<a, 1>>}
      OBVIOUS
    <2>. QED
      BY <2>2, <2>3, <2>4
  <1>2. Cardinality(Occurrences(f, t)) = 1
    BY <1>1, FS_Singleton
  <1>3. t \in UNION {DOMAIN f[e] : e \in DOMAIN f}
    OBVIOUS
  <1>. QED
    BY <1>2, <1>3 DEF SumOfBags

LEMMA SumHas ==
  ASSUME NEW f, NEW t
  PROVE  t \in DOMAIN SumOfBags(f) <=> \E a \in DOMAIN f : t \in DOMAIN f[a]
  BY DEF SumOfBags

LEMMA SumIsFunction ==
  ASSUME NEW f
  PROVE  SumOfBags(f) = [t \in DOMAIN SumOfBags(f) |-> SumOfBags(f)[t]]
  BY DEF SumOfBags

-----------------------------------------------------------------------------
(***************************************************************************)
(* Where the particles are.  A particle has a position in every version of *)
(* the lists, which are those of the steps, and is at home in a block in   *)
(* each: at first in any block, then in that of its last position.         *)
(***************************************************************************)
Kept(q, p, k) == k \in 1 .. Len(track[q][p]) /\ track[q][p][k] # Gone

HomeAt(home, q, p, k, b) ==
  IF k = 1 THEN home[<<q, p>>] = b
  ELSE Kept(q, p, k - 1) /\ IsInnerPoint(b, Wrapped(track[q][p][k - 1]))

At(q, p, k) == [id |-> p, x |-> track[q][p][k], inner |-> TRUE]

\* The inner copies of a block, and all that a rank sends from its blocks.
Homed(home, q, k, b) ==
  {At(q, p, k) : p \in {o \in Particle : Kept(q, o, k) /\ HomeAt(home, q, o, k, b)}}

Sent(home, q, k, s) ==
  UNION {Destinations(c) : c \in UNION {Homed(home, q, k, b) : b \in Kernels[s]}}

\* The version that the lists of a rank are of; until its part in the transfer of a
\* request those of the request have the inner copies that have moved.
Version(r) == IF pc[r] = "move" THEN step[r] - 1 ELSE step[r]

Old(r, q) ==
  pc[r] # "move" /\ (request[r] < q \/ (request[r] = q /\ pc[r] \in {"send", "reducing"}))

\* Then they are those sent by all ranks or, while the rank receives, by some.
From(r, q) == IF pc[r] = "receive" /\ request[r] = q THEN Rank \ Senders(r) ELSE Rank

InnerOf(bag) == {c \in DOMAIN bag : c.inner}

Unmoved(home, q, b, k) ==
  /\ InnerOf(particles[q][b]) = Homed(home, q, k, b)
  /\ \A c \in InnerOf(particles[q][b]) : particles[q][b][c] = 1

SentFrom(home, q, k, S) == UNION {Sent(home, q, k, s) : s \in S}

Transferred(home, q, b, k, S) ==
  particles[q][b] = SetToBag(CopiesAt(b, SentFrom(home, q, k, S)))

Content(home, r, q) ==
  \A b \in Kernels[r] :
    IF Old(r, q) THEN Unmoved(home, q, b, Version(r))
                 ELSE Transferred(home, q, b, Version(r), From(r, q))

\* A rank has extended the tracks of the particles at home in its blocks, and of no others.
Walked ==
  /\ track \in [Request -> [Particle -> Seq(Vectors \cup {Gone})]]
  /\ \A q \in Request, p \in Particle :
       /\ Len(track[q][p]) > 0
       /\ \A k \in Nat : Kept(q, p, k) => IsInside(track[q][p][k])

Housed(home) ==
  \A q \in Request, p \in Particle : \A k \in 1 .. Len(track[q][p]) :
    \E b \in BlockId : HomeAt(home, q, p, k, b)

UpToDate(home) ==
  \A q \in Request, p \in Particle, k \in Nat \ {0}, b \in BlockId :
    HomeAt(home, q, p, k, b) =>
      (k <= Len(track[q][p]) <=> k <= Version(rank_from_id(b)))

\* What is on its way is what the sender has sent for the blocks of the receiver.
Message(home, s) ==
  pc[s] \notin {"move", "send"} =>
    /\ dest[s][Calls(s)] =
         {rank_from_id(t.block) : t \in Sent(home, request[s], step[s], s)} \ {s}
    /\ \A r \in Rank : chan[s][r] # <<>> =>
         Head(chan[s][r]).buf =
           SetToBag({t \in Sent(home, request[s], step[s], s) : rank_from_id(t.block) = r})

Held(home) ==
  /\ \A r \in Rank : Version(r) >= 1
  /\ Walked /\ Housed(home) /\ UpToDate(home)
  /\ \A r \in Rank, q \in Request : Content(home, r, q)
  /\ \A s \in Rank : Message(home, s)

Homes == [Request \X Particle -> BlockId]

CInv == \E home \in Homes : Held(home)

-----------------------------------------------------------------------------
\* A particle that is kept is inside of the domain.
LEMMA KeptIs ==
  ASSUME Walked, NEW q \in Request, NEW p \in Particle, NEW k, Kept(q, p, k)
  PROVE  /\ k \in Nat \ {0} /\ k <= Len(track[q][p])
         /\ track[q][p][k] \in Vectors /\ IsInside(track[q][p][k])
  <1>1. track[q][p] \in Seq(Vectors \cup {Gone})
    BY DEF Walked
  <1>2. k \in 1 .. Len(track[q][p]) /\ track[q][p][k] # Gone /\ Len(track[q][p]) \in Nat
    BY <1>1 DEF Kept
  <1>3. track[q][p][k] \in Vectors \cup {Gone}
    BY <1>1, <1>2
  <1>. QED
    BY <1>2, <1>3 DEF Walked

\* A particle is at home in one block at most, in each version.
LEMMA HomeUnique ==
  ASSUME Walked, NEW home \in Homes, NEW q \in Request, NEW p \in Particle, NEW k,
         NEW b \in BlockId, NEW e \in BlockId, HomeAt(home, q, p, k, b), HomeAt(home, q, p, k, e)
  PROVE  b = e
  <1>1. CASE k = 1
    BY <1>1 DEF HomeAt
  <1>2. CASE k # 1
    <2> DEFINE x == track[q][p][k - 1]
    <2>1. Kept(q, p, k - 1) /\ IsInnerPoint(b, Wrapped(x)) /\ IsInnerPoint(e, Wrapped(x))
      BY <1>2 DEF HomeAt
    <2>2. x \in Vectors /\ IsInside(x)
      BY <2>1, KeptIs
    <2>. HIDE DEF x
    <2>3. Wrapped(x) \in Vectors
      BY <2>2, WrappedIs
    <2>. QED
      BY <2>1, <2>3, BlockUnique
  <1>. QED
    BY <1>1, <1>2

LEMMA HomedIs ==
  ASSUME Walked, NEW home \in Homes, NEW q \in Request, NEW k, NEW b \in BlockId, NEW c
  PROVE  c \in Homed(home, q, k, b) <=>
           c \in Copy /\ c = At(q, c.id, k) /\ Kept(q, c.id, k) /\ HomeAt(home, q, c.id, k, b)
  <1>1. ASSUME NEW p \in Particle, Kept(q, p, k), HomeAt(home, q, p, k, b), c = At(q, p, k)
        PROVE  c \in Copy /\ c.id = p
    BY <1>1, KeptIs DEF At, Copy
  <1>2. ASSUME c \in Homed(home, q, k, b)
        PROVE  c \in Copy /\ c = At(q, c.id, k) /\ Kept(q, c.id, k) /\ HomeAt(home, q, c.id, k, b)
    <2>1. PICK p \in Particle : Kept(q, p, k) /\ HomeAt(home, q, p, k, b) /\ c = At(q, p, k)
      BY <1>2 DEF Homed
    <2>2. c \in Copy /\ c.id = p
      BY <1>1, <2>1
    <2>. QED
      BY <2>1, <2>2
  <1>3. ASSUME c \in Copy, c = At(q, c.id, k), Kept(q, c.id, k), HomeAt(home, q, c.id, k, b)
        PROVE  c \in Homed(home, q, k, b)
    <2>1. PICK p \in Particle : p = c.id
      BY <1>3 DEF Copy
    <2>. QED
      BY <1>3, <2>1 DEF Homed
  <1>. QED
    BY <1>2, <1>3

\* What is sent, element by element.
LEMMA SentIs ==
  ASSUME Walked, NEW home \in Homes, NEW q \in Request, NEW k, NEW s \in Rank
  PROVE  /\ Sent(home, q, k, s) \in SUBSET Target
         /\ \A t \in Target :
              t \in Sent(home, q, k, s) <=>
                /\ Kept(q, t.id, k)
                /\ \E b \in Kernels[s] : HomeAt(home, q, t.id, k, b)
                /\ t.x \in Near(t.block, track[q][t.id][k])
  <1>1. ASSUME NEW t \in Sent(home, q, k, s)
        PROVE  /\ t \in Target /\ Kept(q, t.id, k)
               /\ \E b \in Kernels[s] : HomeAt(home, q, t.id, k, b)
               /\ t.x \in Near(t.block, track[q][t.id][k])
    <2>1. PICK b \in Kernels[s] : \E c \in Homed(home, q, k, b) : t \in Destinations(c)
      BY DEF Sent
    <2> PICK c \in Homed(home, q, k, b) : t \in Destinations(c)
      BY <2>1
    <2>2. b \in BlockId
      BY KernelsAre
    <2>3. c \in Copy /\ c = At(q, c.id, k) /\ Kept(q, c.id, k) /\ HomeAt(home, q, c.id, k, b)
      BY <2>2, HomedIs
    <2>4. t \in Target /\ t.id = c.id /\ t.x \in Near(t.block, c.x)
      BY <2>3, DestinationsAreNear
    <2>5. c.x = track[q][t.id][k]
      BY <2>3, <2>4 DEF At
    <2>. QED
      BY <2>3, <2>4, <2>5
  <1>2. ASSUME NEW t \in Target, Kept(q, t.id, k), t.x \in Near(t.block, track[q][t.id][k]),
               NEW b \in Kernels[s], HomeAt(home, q, t.id, k, b)
        PROVE  t \in Sent(home, q, k, s)
    <2> PICK c : c = At(q, t.id, k)
      OBVIOUS
    <2>1. t.id \in Particle /\ b \in BlockId
      BY KernelsAre DEF Target
    <2>2. c.id = t.id /\ c.x = track[q][t.id][k] /\ c \in Copy
      BY <1>2, <2>1, KeptIs DEF At, Copy
    <2>3. c \in Homed(home, q, k, b)
      BY <1>2, <2>1, <2>2, HomedIs
    <2>4. t \in Destinations(c)
      BY <1>2, <2>2, DestinationsAreNear
    <2>. QED
      BY <2>3, <2>4 DEF Sent
  <1>. QED
    BY <1>1, <1>2

\* The sum of the destinations is what is sent, each once.
LEMMA TmpIsSent ==
  ASSUME Lists, Walked, NEW home \in Homes, NEW r \in Rank, NEW q \in Request, NEW k,
         \A b \in Kernels[r] : Unmoved(home, q, b, k)
  PROVE  Tmp(r, q) = SetToBag(Sent(home, q, k, r))
  <1> DEFINE f == [bc \in InnerCopies(r, q) |->
                     [t \in Destinations(bc[2]) |-> particles[q][bc[1]][bc[2]]]]
             T == Sent(home, q, k, r)
  <1>1. Tmp(r, q) = SumOfBags(f) /\ DOMAIN f = InnerCopies(r, q)
    BY DEF Tmp
  <1>2. ASSUME NEW z \in InnerCopies(r, q)
        PROVE  /\ z[1] \in Kernels[r] /\ z[1] \in BlockId /\ z[2] \in Copy
               /\ z[2] \in Homed(home, q, k, z[1])
               /\ z = <<z[1], z[2]>>
               /\ DOMAIN f[z] = Destinations(z[2])
               /\ \A t \in DOMAIN f[z] : f[z][t] = 1
    <2>1. /\ z[1] \in Kernels[r] /\ z[1] \in BlockId
          /\ z[2] \in DOMAIN particles[q][z[1]] /\ z[2] \in Copy /\ z[2].inner
      BY InnerCopiesAre
    <2>2. z[2] \in InnerOf(particles[q][z[1]])
      BY <2>1 DEF InnerOf
    <2>3. z[2] \in Homed(home, q, k, z[1]) /\ particles[q][z[1]][z[2]] = 1
      BY <2>1, <2>2 DEF Unmoved
    <2>4. z = <<z[1], z[2]>>
      BY DEF InnerCopies
    <2>. QED
      BY <2>1, <2>3, <2>4
  <1>3. ASSUME NEW b \in Kernels[r], NEW c \in Homed(home, q, k, b)
        PROVE  <<b, c>> \in InnerCopies(r, q)
    <2>1. c \in InnerOf(particles[q][b])
      BY DEF Unmoved
    <2>. QED
      BY <2>1 DEF InnerOf, InnerCopies
  <1>. HIDE DEF f
  <1>4. ASSUME NEW t \in T
        PROVE  t \in DOMAIN SumOfBags(f) /\ SumOfBags(f)[t] = 1
    <2>1. PICK b \in Kernels[r] : \E c \in Homed(home, q, k, b) : t \in Destinations(c)
      BY DEF Sent
    <2> PICK c \in Homed(home, q, k, b) : t \in Destinations(c)
      BY <2>1
    <2> PICK a : a = <<b, c>>
      OBVIOUS
    <2>2. a \in InnerCopies(r, q) /\ a[1] = b /\ a[2] = c
      BY <1>3
    <2>3. t \in DOMAIN f[a] /\ f[a][t] = 1
      BY <1>2, <2>1, <2>2
    <2>4. ASSUME NEW e \in DOMAIN f, t \in DOMAIN f[e] PROVE e = a
      <3>1. /\ e[1] \in Kernels[r] /\ e[1] \in BlockId /\ e[2] \in Homed(home, q, k, e[1])
            /\ e = <<e[1], e[2]>> /\ t \in Destinations(e[2]) /\ e[2] \in Copy
        BY <1>1, <1>2, <2>4
      <3>2. b \in BlockId
        BY KernelsAre
      <3>3. c \in Copy /\ c = At(q, c.id, k) /\ HomeAt(home, q, c.id, k, b)
        BY <3>2, HomedIs
      <3>4. e[2] = At(q, e[2].id, k) /\ HomeAt(home, q, e[2].id, k, e[1])
        BY <3>1, HomedIs
      <3>5. t.id = c.id /\ t.id = e[2].id
        BY <2>1, <3>1, <3>3, DestinationsAreNear
      <3>6. e[2] = c
        BY <3>3, <3>4, <3>5
      <3>7. c.id \in Particle
        BY <3>3 DEF Copy
      <3>8. e[1] = b
        BY <3>1, <3>2, <3>3, <3>4, <3>6, <3>7, HomeUnique
      <3>. QED
        BY <3>1, <3>6, <3>8
    <2>5. a \in DOMAIN f
      BY <1>1, <2>2
    <2>. QED
      BY <2>3, <2>4, <2>5, SumOnce
  <1>5. ASSUME NEW t \in DOMAIN SumOfBags(f) PROVE t \in T
    <2>1. PICK a \in DOMAIN f : t \in DOMAIN f[a]
      BY SumHas
    <2>2. t \in Destinations(a[2]) /\ a[1] \in Kernels[r] /\ a[2] \in Homed(home, q, k, a[1])
      BY <1>1, <1>2, <2>1
    <2>. QED
      BY <2>2 DEF Sent
  <1>6. SumOfBags(f) = [t \in DOMAIN SumOfBags(f) |-> SumOfBags(f)[t]]
    BY SumIsFunction
  <1>. HIDE DEF T
  <1>7. SumOfBags(f) = [t \in T |-> 1]
    BY <1>4, <1>5, <1>6
  <1>. QED
    BY <1>1, <1>7 DEF SetToBag, T

\* What has been sent by all ranks for a block.
LEMMA LandedIs ==
  ASSUME Walked, NEW home \in Homes, Housed(home), NEW q \in Request, NEW k, NEW b \in BlockId, NEW c
  PROVE  c \in CopiesAt(b, SentFrom(home, q, k, Rank)) <=>
           /\ c \in Copy /\ c.inner = IsInnerPoint(b, c.x)
           /\ Kept(q, c.id, k) /\ c.x \in Near(b, track[q][c.id][k])
  <1> DEFINE T == SentFrom(home, q, k, Rank)
  <1>1. T \in SUBSET Target
    BY SentIs DEF SentFrom
  <1>2. ASSUME c \in Copy
        PROVE  [block |-> b, id |-> c.id, x |-> c.x] \in T <=>
                 Kept(q, c.id, k) /\ c.x \in Near(b, track[q][c.id][k])
    <2> PICK t : t = [block |-> b, id |-> c.id, x |-> c.x]
      OBVIOUS
    <2>1. t.block = b /\ t.id = c.id /\ t.x = c.x /\ t \in Target /\ c.id \in Particle
      BY <1>2 DEF Copy, Target
    <2>2. t \in T <=> \E s \in Rank : t \in Sent(home, q, k, s)
      BY DEF SentFrom
    <2>3. ASSUME Kept(q, c.id, k)
          PROVE  \E s \in Rank : \E e \in Kernels[s] : HomeAt(home, q, c.id, k, e)
      <3>1. k \in 1 .. Len(track[q][c.id])
        BY <2>3 DEF Kept
      <3>2. PICK e \in BlockId : HomeAt(home, q, c.id, k, e)
        BY <2>1, <3>1 DEF Housed
      <3>. QED
        BY <3>2, KernelsAre
    <2>. HIDE DEF T
    <2>. QED
      BY <2>1, <2>2, <2>3, SentIs
  <1>. HIDE DEF T
  <1>. QED
    BY <1>1, <1>2, CopiesAtIs DEF T

\* The inner copies among them are at home there in the next version.
LEMMA LandedInner ==
  ASSUME Walked, NEW home \in Homes, Housed(home), NEW q \in Request, NEW k \in Nat \ {0},
         NEW b \in BlockId, NEW c
  PROVE  c \in CopiesAt(b, SentFrom(home, q, k, Rank)) /\ c.inner <=>
           /\ c \in Copy /\ c.inner /\ HomeAt(home, q, c.id, k + 1, b)
           /\ c.x = Wrapped(track[q][c.id][k])
  <1>1. ASSUME c \in Copy
        PROVE  /\ HomeAt(home, q, c.id, k + 1, b) <=>
                    Kept(q, c.id, k) /\ IsInnerPoint(b, Wrapped(track[q][c.id][k]))
               /\ c.id \in Particle /\ c.x \in Vectors /\ c.inner \in BOOLEAN
    <2>1. k + 1 # 1 /\ (k + 1) - 1 = k
      OBVIOUS
    <2>. QED
      BY <1>1, <2>1 DEF HomeAt, Copy
  <1>2. ASSUME c \in Copy, Kept(q, c.id, k)
        PROVE  LET x == track[q][c.id][k]
               IN /\ x \in Vectors /\ IsInside(x)
                  /\ c.x \in Near(b, x) /\ IsInnerPoint(b, c.x) <=>
                       c.x = Wrapped(x) /\ IsInnerPoint(b, Wrapped(x))
    <2> DEFINE x == track[q][c.id][k]
    <2>1. x \in Vectors /\ IsInside(x)
      BY <1>1, <1>2, KeptIs
    <2>. HIDE DEF x
    <2>2. Wrapped(x) \in Vectors /\ IsImage(x, Wrapped(x))
      BY <2>1, WrappedIs
    <2>3. ASSUME c.x \in Near(b, x), IsInnerPoint(b, c.x) PROVE c.x = Wrapped(x)
      BY <2>1, <2>3, InnerImage DEF Near
    <2>4. IsInnerPoint(b, Wrapped(x)) => Wrapped(x) \in Near(b, x)
      BY <2>2, InnerIs DEF Near
    <2>5. c.x \in Near(b, x) /\ IsInnerPoint(b, c.x) <=>
             c.x = Wrapped(x) /\ IsInnerPoint(b, Wrapped(x))
      BY <2>3, <2>4
    <2>. QED
      BY <2>1, <2>5 DEF x
  <1> DEFINE in == c \in CopiesAt(b, SentFrom(home, q, k, Rank))
             x == track[q][c.id][k]
  <1>3. in <=> /\ c \in Copy /\ c.inner = IsInnerPoint(b, c.x)
               /\ Kept(q, c.id, k) /\ c.x \in Near(b, x)
    BY LandedIs
  <1>4. ASSUME c \in Copy, Kept(q, c.id, k)
        PROVE  /\ c.x \in Near(b, x) /\ IsInnerPoint(b, c.x) <=>
                     c.x = Wrapped(x) /\ IsInnerPoint(b, Wrapped(x))
               /\ IsInnerPoint(b, c.x) \in BOOLEAN
    BY <1>2, <1>4 DEF IsInnerPoint
  <1>5. ASSUME c \in Copy
        PROVE  /\ HomeAt(home, q, c.id, k + 1, b) <=> Kept(q, c.id, k) /\ IsInnerPoint(b, Wrapped(x))
               /\ c.inner \in BOOLEAN
    BY <1>1, <1>5
  <1>. HIDE DEF in, x
  <1>6. ASSUME in, c.inner
        PROVE  c \in Copy /\ HomeAt(home, q, c.id, k + 1, b) /\ c.x = Wrapped(x)
    <2>1. c \in Copy /\ Kept(q, c.id, k) /\ c.x \in Near(b, x) /\ IsInnerPoint(b, c.x)
      BY <1>3, <1>6
    <2>. QED
      BY <1>4, <1>5, <2>1
  <1>7. ASSUME c \in Copy, c.inner, HomeAt(home, q, c.id, k + 1, b), c.x = Wrapped(x)
        PROVE  in
    <2>1. Kept(q, c.id, k) /\ IsInnerPoint(b, Wrapped(x)) /\ c.inner \in BOOLEAN
      BY <1>5, <1>7
    <2>2. c.x \in Near(b, x) /\ IsInnerPoint(b, c.x) /\ IsInnerPoint(b, c.x) \in BOOLEAN
      BY <1>4, <1>7, <2>1
    <2>3. c.inner = IsInnerPoint(b, c.x)
      BY <1>7, <2>1, <2>2
    <2>. QED
      BY <1>3, <1>7, <2>1, <2>2, <2>3
  <1>8. in /\ c.inner <=> c \in Copy /\ c.inner /\ HomeAt(home, q, c.id, k + 1, b) /\ c.x = Wrapped(x)
    BY <1>6, <1>7
  <1>. QED
    BY <1>8 DEF in, x

\* What a rank that is about to move has in its blocks.
Arrived(home, r, q, k) ==
  /\ \A b \in Kernels[r] : \A c \in InnerOf(particles[q][b]) :
       /\ c \in Copy /\ c.id \in Owned(r, q) /\ HomeAt(home, q, c.id, k + 1, b)
       /\ c = [id |-> c.id, x |-> Wrapped(track[q][c.id][k]), inner |-> TRUE]
       /\ particles[q][b][c] = 1
  /\ \A b \in Kernels[r], p \in Particle : HomeAt(home, q, p, k + 1, b) =>
       [id |-> p, x |-> Wrapped(track[q][p][k]), inner |-> TRUE] \in InnerOf(particles[q][b])
  /\ \A p \in Owned(r, q) :
       /\ Len(track[q][p]) = k /\ Kept(q, p, k)
       /\ {c.x : c \in {o \in UNION {DOMAIN particles[q][b] : b \in Kernels[r]} : o.id = p /\ o.inner}}
            = {Wrapped(track[q][p][k])}
  /\ Owned(r, q) = {p \in Particle : \E b \in Kernels[r] : HomeAt(home, q, p, k + 1, b)}

LEMMA HasArrived ==
  ASSUME IInv, NEW home \in Homes, Held(home), NEW r \in Rank, pc[r] = "move", NEW q \in Request
  PROVE  Arrived(home, r, q, Version(r))
  <1> PICK k : k = Version(r)
    OBVIOUS
  <1>1. Walked /\ Housed(home) /\ UpToDate(home) /\ Content(home, r, q)
    BY DEF Held
  <1>2. k \in Nat \ {0}
    <2>1. Version(r) \in Int /\ Version(r) >= 1
      BY DEF IInv, TypeOK, Version, Held
    <2>. QED
      BY <2>1
  <1>3. \A b \in Kernels[r] : b \in BlockId /\ rank_from_id(b) = r
    BY KernelsAre
  <1>4. ASSUME NEW b \in Kernels[r]
        PROVE  particles[q][b] = SetToBag(CopiesAt(b, SentFrom(home, q, k, Rank)))
    BY <1>1 DEF Content, Old, Transferred, From
  <1>5. ASSUME NEW b \in Kernels[r], NEW c
        PROVE  c \in InnerOf(particles[q][b]) <=>
                 /\ c \in Copy /\ c.inner /\ HomeAt(home, q, c.id, k + 1, b)
                 /\ c.x = Wrapped(track[q][c.id][k])
    <2>1. DOMAIN particles[q][b] = CopiesAt(b, SentFrom(home, q, k, Rank))
      BY <1>4 DEF SetToBag
    <2>2. c \in InnerOf(particles[q][b]) <=> c \in CopiesAt(b, SentFrom(home, q, k, Rank)) /\ c.inner
      BY <2>1 DEF InnerOf
    <2>3. c \in CopiesAt(b, SentFrom(home, q, k, Rank)) /\ c.inner <=>
            /\ c \in Copy /\ c.inner /\ HomeAt(home, q, c.id, k + 1, b)
            /\ c.x = Wrapped(track[q][c.id][k])
      BY <1>1, <1>2, <1>3, LandedInner
    <2>. QED
      BY <2>2, <2>3
  <1>6. ASSUME NEW b \in Kernels[r], NEW c \in InnerOf(particles[q][b])
        PROVE  /\ c \in Copy /\ c.id \in Owned(r, q) /\ HomeAt(home, q, c.id, k + 1, b)
               /\ c = [id |-> c.id, x |-> Wrapped(track[q][c.id][k]), inner |-> TRUE]
               /\ particles[q][b][c] = 1
    <2>1. c \in Copy /\ c.inner /\ HomeAt(home, q, c.id, k + 1, b) /\ c.x = Wrapped(track[q][c.id][k])
      BY <1>5
    <2>2. c \in DOMAIN particles[q][b]
      BY DEF InnerOf
    <2>3. c.id \in Owned(r, q)
      BY <2>1, <2>2 DEF Owned, Copy
    <2>4. particles[q][b][c] = 1
      <3> DEFINE S == CopiesAt(b, SentFrom(home, q, k, Rank))
      <3>1. particles[q][b] = [e \in S |-> 1]
        BY <1>4 DEF SetToBag
      <3>. HIDE DEF S
      <3>. QED
        BY <2>2, <3>1
    <2>. QED
      BY <2>1, <2>3, <2>4 DEF Copy
  <1>7. ASSUME NEW b \in Kernels[r], NEW p \in Particle, HomeAt(home, q, p, k + 1, b)
        PROVE  /\ [id |-> p, x |-> Wrapped(track[q][p][k]), inner |-> TRUE] \in InnerOf(particles[q][b])
               /\ p \in Owned(r, q) /\ Len(track[q][p]) = k /\ Kept(q, p, k)
    <2>1. Kept(q, p, k) /\ track[q][p][k] \in Vectors /\ IsInside(track[q][p][k])
      <3>1. k + 1 # 1 /\ (k + 1) - 1 = k
        BY <1>2
      <3>2. Kept(q, p, k)
        BY <1>7, <3>1 DEF HomeAt
      <3>. QED
        BY <1>1, <3>2, KeptIs
    <2> PICK c : c = [id |-> p, x |-> Wrapped(track[q][p][k]), inner |-> TRUE]
      OBVIOUS
    <2>2. c.id = p /\ c.x = Wrapped(track[q][p][k]) /\ c.inner /\ c \in Copy
      BY <2>1, WrappedIs DEF Copy
    <2>3. c \in InnerOf(particles[q][b])
      BY <1>5, <1>7, <2>2
    <2>4. p \in Owned(r, q)
      BY <1>6, <2>2, <2>3
    <2>5. Len(track[q][p]) = k
      <3>1. k + 1 \in Nat \ {0} /\ ~ (k + 1 <= k)
        BY <1>2
      <3>2. ~ (k + 1 <= Len(track[q][p]))
        BY <1>1, <1>3, <1>7, <3>1 DEF UpToDate
      <3>3. track[q][p] \in Seq(Vectors \cup {Gone}) /\ k <= Len(track[q][p])
        BY <1>1, <2>1, KeptIs DEF Walked
      <3>. QED
        BY <1>2, <3>2, <3>3
    <2>. QED
      BY <2>1, <2>3, <2>4, <2>5
  <1>8. ASSUME NEW p \in Owned(r, q)
        PROVE  \E b \in Kernels[r] : HomeAt(home, q, p, k + 1, b)
    <2>1. PICK b \in Kernels[r] : \E c \in DOMAIN particles[q][b] : c.id = p /\ c.inner
      BY DEF Owned
    <2>2. PICK c \in DOMAIN particles[q][b] : c.id = p /\ c.inner
      BY <2>1
    <2>3. c \in InnerOf(particles[q][b])
      BY <2>2 DEF InnerOf
    <2>. QED
      BY <1>6, <2>2, <2>3
  <1>9. Owned(r, q) \subseteq Particle
    BY DEF Owned
  <1>10. ASSUME NEW p \in Owned(r, q)
         PROVE  {c.x : c \in {o \in UNION {DOMAIN particles[q][b] : b \in Kernels[r]} : o.id = p /\ o.inner}}
                  = {Wrapped(track[q][p][k])}
    <2> DEFINE C == {o \in UNION {DOMAIN particles[q][b] : b \in Kernels[r]} : o.id = p /\ o.inner}
    <2>1. ASSUME NEW c \in C PROVE c.x = Wrapped(track[q][p][k])
      <3>1. PICK b \in Kernels[r] : c \in DOMAIN particles[q][b]
        OBVIOUS
      <3>2. c \in InnerOf(particles[q][b]) /\ c.id = p
        BY <3>1 DEF InnerOf
      <3>. QED
        BY <1>5, <3>2
    <2>2. \E c \in C : c.x = Wrapped(track[q][p][k])
      <3>1. PICK b \in Kernels[r] : HomeAt(home, q, p, k + 1, b)
        BY <1>8
      <3> PICK c : c = [id |-> p, x |-> Wrapped(track[q][p][k]), inner |-> TRUE]
        OBVIOUS
      <3>2. c \in InnerOf(particles[q][b])
        BY <1>7, <1>9, <3>1
      <3>3. c \in C
        BY <3>2 DEF InnerOf
      <3>. QED
        BY <3>3
    <2>. HIDE DEF C
    <2>3. {c.x : c \in C} = {Wrapped(track[q][p][k])}
      BY <2>1, <2>2
    <2>. QED
      BY <2>3 DEF C
  <1>11. Owned(r, q) = {p \in Particle : \E b \in Kernels[r] : HomeAt(home, q, p, k + 1, b)}
    BY <1>7, <1>8, <1>9
  <1>12. \A p \in Owned(r, q) : Len(track[q][p]) = k /\ Kept(q, p, k)
    BY <1>7, <1>8, <1>9
  <1>. QED
    BY <1>6, <1>7, <1>10, <1>11, <1>12 DEF Arrived

-----------------------------------------------------------------------------
(***************************************************************************)
(* The motion makes the next version.                                      *)
(***************************************************************************)
\* What Move does to the tracks and the lists of a request.
Walks(r, q, p, new) ==
  track'[q][p] = IF p \in Owned(r, q) THEN Append(track[q][p], new) ELSE track[q][p]

Displaced(r, q, shift) ==
  /\ \A p \in Owned(r, q) : shift[<<q, p>>] \in Moves
  /\ \A p \in Particle :
       Walks(r, q, p, Moved(Wrapped(track[q][p][Version(r)]), shift[<<q, p>>]))
  /\ \A b \in BlockId : particles'[q][b] =
       IF b \in Kernels[r]
       THEN MovedBag(particles[q][b], [p \in Owned(r, q) |-> shift[<<q, p>>]])
       ELSE particles[q][b]

LEMMA MoveIs ==
  ASSUME IInv, NEW home \in Homes, Held(home), NEW r \in Rank, Move(r)
  PROVE  /\ pc[r] = "move" /\ pc'[r] = "send" /\ \A s \in Rank \ {r} : pc'[s] = pc[s]
         /\ request[r] = 1 /\ step[r] = Version(r) + 1 /\ Version(r) \in Nat \ {0}
         /\ UNCHANGED <<step, request, chan, dest>>
         /\ track' = [q \in Request |-> [p \in Particle |-> track'[q][p]]]
         /\ \E shift : \A q \in Request : Displaced(r, q, shift)
  <1>1. /\ pc[r] = "move" /\ pc' = [pc EXCEPT ![r] = "send"]
        /\ UNCHANGED <<step, request, chan, dest>>
    BY DEF Move, Goto
  <1>2. pc'[r] = "send" /\ \A s \in Rank \ {r} : pc'[s] = pc[s]
    BY <1>1 DEF IInv, TypeOK
  <1>3. request[r] = 1 /\ step[r] = Version(r) + 1 /\ Version(r) \in Nat \ {0}
    <2>1. Version(r) = step[r] - 1 /\ step[r] \in Int /\ Version(r) >= 1
      BY <1>1 DEF IInv, TypeOK, Version, Held
    <2>2. request[r] = 1
      BY <1>1 DEF IInv, InOrderOfRequests
    <2>. HIDE DEF Version
    <2>. QED
      BY <2>1, <2>2
  <1> DEFINE at(q, p) == CHOOSE x \in {c.x : c \in {o \in UNION {DOMAIN particles[q][b] :
                            b \in Kernels[r]} : o.id = p /\ o.inner}} : TRUE
  <1>4. PICK shift \in [UNION {{<<q, p>> : p \in Owned(r, q)} : q \in Request} -> Moves] :
          /\ particles' = [q \in Request |-> [b \in BlockId |->
               IF b \in Kernels[r] THEN MovedBag(particles[q][b], [p \in Owned(r, q) |-> shift[<<q, p>>]])
               ELSE particles[q][b]]]
          /\ track' = [q \in Request |-> [p \in Particle |->
               IF p \in Owned(r, q)
               THEN Append(track[q][p], Moved(at(q, p), [o \in Owned(r, q) |-> shift[<<q, o>>]][p]))
               ELSE track[q][p]]]
    BY DEF Move
  <1>5. track' = [q \in Request |-> [p \in Particle |-> track'[q][p]]]
    BY <1>4
  <1>6. ASSUME NEW q \in Request
        PROVE  Displaced(r, q, shift)
    <2>1. ASSUME NEW p \in Owned(r, q) PROVE shift[<<q, p>>] \in Moves
      <3>1. <<q, p>> \in UNION {{<<e, o>> : o \in Owned(r, e)} : e \in Request}
        OBVIOUS
      <3>. QED
        BY <3>1
    <2>2. ASSUME NEW p \in Owned(r, q) PROVE at(q, p) = Wrapped(track[q][p][Version(r)])
      <3>1. {c.x : c \in {o \in UNION {DOMAIN particles[q][b] : b \in Kernels[r]} : o.id = p /\ o.inner}}
            = {Wrapped(track[q][p][Version(r)])}
        BY <1>1, HasArrived DEF Arrived
      <3>2. at(q, p) = CHOOSE x \in {Wrapped(track[q][p][Version(r)])} : TRUE
        BY <3>1
      <3>. QED
        BY <3>2
    <2>. HIDE DEF at
    <2>3. ASSUME NEW p \in Particle
          PROVE  Walks(r, q, p, Moved(Wrapped(track[q][p][Version(r)]), shift[<<q, p>>]))
      <3>1. CASE p \in Owned(r, q)
        <4>1. track'[q][p] = Append(track[q][p], Moved(at(q, p), shift[<<q, p>>]))
          BY <1>4, <3>1
        <4>. QED
          BY <2>2, <3>1, <4>1 DEF Walks
      <3>2. CASE p \notin Owned(r, q)
        BY <1>4, <3>2 DEF Walks
      <3>. QED
        BY <3>1, <3>2
    <2>4. \A b \in BlockId : particles'[q][b] =
            IF b \in Kernels[r]
            THEN MovedBag(particles[q][b], [p \in Owned(r, q) |-> shift[<<q, p>>]])
            ELSE particles[q][b]
      BY <1>4
    <2>. QED
      BY <2>1, <2>3, <2>4 DEF Displaced
  <1>7. \E w : \A q \in Request : Displaced(r, q, w)
    BY <1>6
  <1>. QED
    BY <1>1, <1>2, <1>3, <1>5, <1>7

\* The tracks of a rank's own particles become longer by one, the others stay.
LEMMA TracksGrow ==
  ASSUME IInv, NEW home \in Homes, Held(home), NEW r \in Rank, Move(r),
         NEW q \in Request, NEW p \in Particle
  PROVE  /\ track[q][p] \in Seq(Vectors \cup {Gone}) /\ track'[q][p] \in Seq(Vectors \cup {Gone})
         /\ p \notin Owned(r, q) => track'[q][p] = track[q][p]
         /\ p \in Owned(r, q) =>
              /\ Len(track[q][p]) = Version(r) /\ Len(track'[q][p]) = Version(r) + 1
              /\ \A k \in 1 .. Version(r) : track'[q][p][k] = track[q][p][k]
              /\ LET new == track'[q][p][Version(r) + 1] IN new # Gone => IsInside(new)
  <1> DEFINE v == Version(r)
             x == Wrapped(track[q][p][v])
  <1>1. pc[r] = "move" /\ v \in Nat \ {0} /\ Walked
    BY MoveIs DEF Held
  <1>2. PICK shift : /\ p \in Owned(r, q) => shift[<<q, p>>] \in Moves
                     /\ Walks(r, q, p, Moved(x, shift[<<q, p>>]))
    BY MoveIs DEF Displaced
  <1>3. track[q][p] \in Seq(Vectors \cup {Gone})
    BY <1>1 DEF Walked
  <1>4. CASE p \notin Owned(r, q)
    BY <1>2, <1>3, <1>4 DEF Walks
  <1>5. CASE p \in Owned(r, q)
    <2>1. Len(track[q][p]) = v /\ Kept(q, p, v)
      BY <1>1, <1>5, HasArrived DEF Arrived
    <2>2. x \in Vectors
      BY <1>1, <2>1, KeptIs, WrappedIs
    <2> DEFINE new == Moved(x, shift[<<q, p>>])
    <2>3. new \in Vectors \cup {Gone}
      <3>. HIDE DEF x
      <3>. QED
        BY <1>2, <1>5, <2>2, MovedIs
    <2>4. new # Gone => IsInside(new)
      BY DEF Moved
    <2>5. track'[q][p] = Append(track[q][p], new)
      BY <1>2, <1>5 DEF Walks
    <2>. HIDE DEF new, v
    <2>. QED
      BY <1>1, <1>3, <1>5, <2>1, <2>3, <2>4, <2>5 DEF v
  <1>. QED
    BY <1>4, <1>5

\* What was is not changed.
LEMMA PastStays ==
  ASSUME IInv, NEW home \in Homes, Held(home), NEW r \in Rank, Move(r),
         NEW q \in Request, NEW p \in Particle, NEW k \in Nat \ {0}
  PROVE  /\ p \notin Owned(r, q) \/ k # Version(r) + 1 =>
              (Kept(q, p, k)' <=> Kept(q, p, k)) /\ (Kept(q, p, k) => track'[q][p][k] = track[q][p][k])
         /\ p \notin Owned(r, q) \/ k # Version(r) + 2 =>
              \A b \in BlockId : HomeAt(home, q, p, k, b)' <=> HomeAt(home, q, p, k, b)
  <1> DEFINE v == Version(r)
  <1>1. v \in Nat \ {0}
    BY MoveIs
  <1>2. ASSUME NEW m \in Nat \ {0}, p \notin Owned(r, q) \/ m # v + 1
        PROVE  /\ Kept(q, p, m)' <=> Kept(q, p, m)
               /\ Kept(q, p, m) => track'[q][p][m] = track[q][p][m]
    <2>1. CASE p \notin Owned(r, q)
      BY <2>1, TracksGrow DEF Kept
    <2>2. CASE p \in Owned(r, q)
      <3>1. /\ Len(track[q][p]) = v /\ Len(track'[q][p]) = v + 1 /\ m # v + 1
            /\ \A e \in 1 .. v : track'[q][p][e] = track[q][p][e]
        BY <1>2, <2>2, TracksGrow
      <3>2. m \in 1 .. v + 1 <=> m \in 1 .. v
        BY <1>1, <3>1
      <3>. HIDE DEF v
      <3>. QED
        BY <3>1, <3>2 DEF Kept
    <2>. QED
      BY <2>1, <2>2
  <1>3. ASSUME p \notin Owned(r, q) \/ k # v + 2, NEW b \in BlockId
        PROVE  HomeAt(home, q, p, k, b)' <=> HomeAt(home, q, p, k, b)
    <2>1. CASE k = 1
      BY <2>1 DEF HomeAt
    <2>2. CASE k # 1
      <3>1. k - 1 \in Nat \ {0} /\ (k # v + 2 => k - 1 # v + 1)
        BY <1>1, <2>2
      <3>2. /\ Kept(q, p, k - 1)' <=> Kept(q, p, k - 1)
            /\ Kept(q, p, k - 1) => track'[q][p][k - 1] = track[q][p][k - 1]
        BY <1>2, <1>3, <3>1
      <3>3. HomeAt(home, q, p, k, b)' <=>
              Kept(q, p, k - 1)' /\ IsInnerPoint(b, Wrapped(track'[q][p][k - 1]))
        BY <2>2 DEF HomeAt
      <3>4. HomeAt(home, q, p, k, b) <=>
              Kept(q, p, k - 1) /\ IsInnerPoint(b, Wrapped(track[q][p][k - 1]))
        BY <2>2 DEF HomeAt
      <3>. QED
        BY <3>2, <3>3, <3>4
    <2>. QED
      BY <2>1, <2>2
  <1>. QED
    BY <1>2, <1>3

\* A rank that is about to move may be behind the others by one version, of which
\* they have not got anything yet.
LEMMA VersionsNear ==
  ASSUME IInv, NEW r \in Rank, NEW s \in Rank, pc[r] = "move", Version(r) \in Nat
  PROVE  \/ Version(s) = Version(r)
         \/ /\ Version(s) = Version(r) + 1
            /\ pc[s] \in {"send", "reducing"} /\ request[s] = 1
  <1> DEFINE v == Version(r)
             k == step[s] - 1
             e == request[s]
  <1>1. /\ Calls(s) \in Nat /\ Calls(r) = v * nreq + 0 /\ nreq \in Nat \ {0} /\ v \in Nat
        /\ k \in Nat /\ e \in 1 .. nreq
    <2>1. Calls(r) = (step[r] - 1) * nreq + Begun(r) /\ request[r] = 1
      BY DEF IInv, InOrderOfRequests
    <2>2. Begun(r) = 0 /\ v = step[r] - 1
      BY <2>1 DEF Begun, Version
    <2>3. Calls(r) = v * nreq + 0
      BY <2>1, <2>2
    <2>4. step[s] \in 1 .. Steps + 1 /\ Steps \in Nat /\ e \in 1 .. nreq /\ nreq \in Nat \ {0}
      BY ParticleAssumption DEF IInv, TypeOK, Request
    <2>5. Calls(s) \in Nat
      BY CallsAre
    <2>6. k \in Nat
      BY <2>4
    <2>. QED
      BY <2>3, <2>4, <2>5, <2>6
  <1>2. /\ Calls(s) = k * nreq + Begun(s)
        /\ Version(s) = IF pc[s] = "move" THEN k ELSE k + 1
        /\ Begun(s) = IF pc[s] \in {"move", "send"} THEN e - 1 ELSE e
        /\ pc[s] = "move" => e = 1
    <2>1. step[s] \in Int
      BY DEF IInv, TypeOK
    <2>. QED
      BY <2>1 DEF IInv, InOrderOfRequests, Version, Begun
  <1>3. \/ Calls(s) = Calls(r) /\ pc[s] \in {"leaving", "move", "send"}
        \/ Calls(s) = Calls(r) + 1 /\ pc[s] = "reducing"
    BY WhereOthersAre
  <1>. HIDE DEF k, e, v, Version, Calls
  <1>4. ASSUME NEW a \in 1 .. nreq, NEW b \in 1 .. nreq, NEW x \in Nat, NEW y \in Nat,
               x * nreq + a = y * nreq + b
        PROVE  x = y /\ a = b
    <2> DEFINE f == x + 1
               g == y + 1
    <2>1. f \in Nat \ {0} /\ g \in Nat \ {0} /\ f - 1 = x /\ g - 1 = y
      OBVIOUS
    <2>2. (f - 1) * nreq + a = (g - 1) * nreq + b
      BY <1>4, <2>1
    <2>. HIDE DEF f, g
    <2>3. f = g /\ a = b
      BY <1>1, <2>1, <2>2, NumbersAreUnique
    <2>. QED
      BY <2>1, <2>3
  <1>5. k * nreq \in Nat /\ v * nreq \in Nat
    BY <1>1
  <1>6. CASE Calls(s) = Calls(r) /\ pc[s] = "leaving"
    <2>1. k * nreq + e = v * nreq
      BY <1>1, <1>2, <1>5, <1>6
    <2>2. v # 0
      <3>1. v = 0 => v * nreq = 0
        BY <1>1
      <3>. QED
        BY <1>1, <1>5, <2>1, <3>1
    <2>3. v * nreq = (v - 1) * nreq + nreq /\ v - 1 \in Nat
      BY <1>1, <2>2
    <2>4. k = v - 1
      BY <1>1, <1>4, <2>1, <2>3
    <2>. QED
      BY <1>1, <1>2, <1>6, <2>4 DEF v
  <1>7. CASE Calls(s) = Calls(r) /\ pc[s] \in {"move", "send"}
    <2>1. k * nreq + (e - 1) = v * nreq
      BY <1>1, <1>2, <1>5, <1>7
    <2>2. k * nreq + e = v * nreq + 1
      BY <1>1, <1>5, <2>1
    <2>3. k = v /\ e = 1
      <3>1. 1 \in 1 .. nreq
        BY <1>1
      <3>. QED
        BY <1>1, <1>4, <2>2, <3>1
    <2>. QED
      BY <1>1, <1>2, <1>7, <2>3 DEF v, e
  <1>8. CASE Calls(s) = Calls(r) + 1 /\ pc[s] = "reducing"
    <2>1. k * nreq + e = v * nreq + 1
      BY <1>1, <1>2, <1>5, <1>8
    <2>2. k = v /\ e = 1
      <3>1. 1 \in 1 .. nreq
        BY <1>1
      <3>. QED
        BY <1>1, <1>4, <2>1, <3>1
    <2>. QED
      BY <1>1, <1>2, <1>8, <2>2 DEF v, e
  <1>. QED
    BY <1>3, <1>6, <1>7, <1>8

\* What a rank sends, and has, of the past.
LEMMA SentStays ==
  ASSUME IInv, NEW home \in Homes, Held(home), NEW r \in Rank, Move(r),
         NEW q \in Request, NEW k \in Nat \ {0}
  PROVE  /\ \A b \in BlockId : b \notin Kernels[r] \/ k # Version(r) + 1 =>
              Homed(home, q, k, b)' = Homed(home, q, k, b)
         /\ \A s \in Rank : s # r \/ k # Version(r) + 1 =>
              Sent(home, q, k, s)' = Sent(home, q, k, s)
  <1> DEFINE v == Version(r)
  <1>1. v \in Nat \ {0} /\ Walked /\ pc[r] = "move"
    BY MoveIs DEF Held
  <1>2. ASSUME NEW b \in BlockId, b \notin Kernels[r] \/ k # v + 1, NEW p \in Particle
        PROVE  /\ (Kept(q, p, k) /\ HomeAt(home, q, p, k, b))' <=>
                     Kept(q, p, k) /\ HomeAt(home, q, p, k, b)
               /\ Kept(q, p, k) /\ HomeAt(home, q, p, k, b) => At(q, p, k)' = At(q, p, k)
    <2>1. CASE p \notin Owned(r, q) \/ k \notin {v + 1, v + 2}
      <3>1. /\ Kept(q, p, k)' <=> Kept(q, p, k)
            /\ Kept(q, p, k) => track'[q][p][k] = track[q][p][k]
            /\ HomeAt(home, q, p, k, b)' <=> HomeAt(home, q, p, k, b)
        BY <2>1, PastStays
      <3>. QED
        BY <3>1 DEF At
    <2>2. CASE p \in Owned(r, q) /\ k = v + 2
      <3>1. Len(track[q][p]) = v /\ Len(track'[q][p]) = v + 1
        BY <2>2, TracksGrow
      <3>2. k \notin 1 .. v /\ k \notin 1 .. v + 1
        BY <1>1, <2>2
      <3>. HIDE DEF v
      <3>. QED
        BY <3>1, <3>2 DEF Kept
    <2>3. CASE p \in Owned(r, q) /\ k = v + 1
      <3>1. PICK e \in Kernels[r] : HomeAt(home, q, p, v + 1, e)
        BY <1>1, <2>3, HasArrived DEF Arrived
      <3>2. b # e /\ e \in BlockId
        BY <1>2, <2>3, KernelsAre
      <3>3. ~ HomeAt(home, q, p, k, b)
        BY <1>1, <2>3, <3>1, <3>2, HomeUnique
      <3>4. HomeAt(home, q, p, k, b)' <=> HomeAt(home, q, p, k, b)
        <4>1. k # v + 2
          BY <1>1, <2>3
        <4>. QED
          BY <4>1, PastStays
      <3>. QED
        BY <3>3, <3>4
    <2>. QED
      BY <2>1, <2>2, <2>3
  <1>3. ASSUME NEW b \in BlockId, b \notin Kernels[r] \/ k # v + 1
        PROVE  Homed(home, q, k, b)' = Homed(home, q, k, b)
    <2> DEFINE P == {o \in Particle : Kept(q, o, k) /\ HomeAt(home, q, o, k, b)}
    <2>1. P' = P /\ \A p \in P : At(q, p, k)' = At(q, p, k)
      BY <1>2, <1>3
    <2>2. Homed(home, q, k, b) = {At(q, p, k) : p \in P} /\ Homed(home, q, k, b)' = {At(q, p, k)' : p \in P'}
      BY DEF Homed
    <2>. HIDE DEF P
    <2>. QED
      BY <2>1, <2>2
  <1>4. ASSUME NEW s \in Rank, s # r \/ k # v + 1
        PROVE  Sent(home, q, k, s)' = Sent(home, q, k, s)
    <2>1. \A b \in Kernels[s] : Homed(home, q, k, b)' = Homed(home, q, k, b)
      BY <1>3, <1>4, KernelsAre
    <2>2. UNION {Homed(home, q, k, b)' : b \in Kernels[s]} = UNION {Homed(home, q, k, b) : b \in Kernels[s]}
      BY <2>1
    <2>. QED
      BY <2>2 DEF Sent
  <1>. QED
    BY <1>3, <1>4

\* The inner copies of a block after the motion.
LEMMA MovedInner ==
  ASSUME IInv, NEW home \in Homes, Held(home), NEW r \in Rank, Move(r),
         NEW q \in Request, NEW b \in Kernels[r], NEW v, v = Version(r)
  PROVE  /\ InnerOf(particles'[q][b]) = Homed(home, q, v + 1, b)'
         /\ \A c \in InnerOf(particles'[q][b]) : particles'[q][b][c] = 1
  <1>1. pc[r] = "move" /\ v \in Nat \ {0} /\ Arrived(home, r, q, v) /\ b \in BlockId
    BY MoveIs, HasArrived, KernelsAre
  <1>2. PICK shift : Displaced(r, q, shift)
    BY MoveIs
  <1> DEFINE bag == particles[q][b]
             of == [p \in Owned(r, q) |-> shift[<<q, p>>]]
             copy == [c \in DOMAIN bag |-> IF c.inner THEN [c EXCEPT !.x = Moved(c.x, of[c.id])] ELSE c]
             kept == {c \in DOMAIN bag : copy[c].x # Gone}
             f == [c \in kept |-> [d \in {copy[c]} |-> bag[c]]]
             new(p) == Moved(Wrapped(track[q][p][v]), shift[<<q, p>>])
             old(p) == [id |-> p, x |-> Wrapped(track[q][p][v]), inner |-> TRUE]
             moved(p) == [id |-> p, x |-> new(p), inner |-> TRUE]
  <1>3. particles'[q][b] = SumOfBags(f)
    <2>1. particles'[q][b] = MovedBag(bag, of)
      BY <1>1, <1>2 DEF Displaced
    <2>. QED
      BY <2>1 DEF MovedBag
  <1>4. ASSUME NEW p \in Particle, HomeAt(home, q, p, v + 1, b)
        PROVE  /\ p \in Owned(r, q) /\ old(p) \in InnerOf(bag) /\ bag[old(p)] = 1
               /\ copy[old(p)] = moved(p)
    <2>1. p \in Owned(r, q) /\ old(p) \in InnerOf(bag) /\ bag[old(p)] = 1
      BY <1>1, <1>4 DEF Arrived
    <2>2. of[p] = shift[<<q, p>>]
      BY <2>1
    <2>. HIDE DEF of
    <2>3. copy[old(p)] = [old(p) EXCEPT !.x = Moved(old(p).x, of[old(p).id])]
      BY <2>1 DEF InnerOf
    <2>4. old(p).x = Wrapped(track[q][p][v]) /\ old(p).id = p
      OBVIOUS
    <2>5. copy[old(p)] = [old(p) EXCEPT !.x = new(p)]
      <3>. HIDE DEF old, copy
      <3>. QED
        BY <2>2, <2>3, <2>4
    <2>6. [old(p) EXCEPT !.x = new(p)] = moved(p)
      <3> DEFINE g == old(p)
                 x == Wrapped(track[q][p][v])
                 y == new(p)
                 h == [g EXCEPT !.x = y]
      <3>1. g \in [id : {p}, x : {x}, inner : {TRUE}]
        <4>1. \A o : [id |-> p, x |-> o, inner |-> TRUE] \in [id : {p}, x : {o}, inner : {TRUE}]
          OBVIOUS
        <4>. QED
          BY <4>1
      <3>. HIDE DEF g, x, y
      <3>2. h \in [id : {p}, x : {y}, inner : {TRUE}]
        BY <3>1
      <3>. HIDE DEF h
      <3>3. h = [id |-> p, x |-> y, inner |-> TRUE]
        BY <3>2
      <3>. QED
        BY <3>3 DEF h, g, y
    <2>7. copy[old(p)] = moved(p)
      <3>. HIDE DEF copy, new
      <3>. QED
        BY <2>5, <2>6
    <2>. QED
      BY <2>1, <2>7
  <1>5. ASSUME NEW c \in InnerOf(bag)
        PROVE  c.id \in Particle /\ HomeAt(home, q, c.id, v + 1, b) /\ c = old(c.id)
    <2>1. c.id \in Owned(r, q) /\ HomeAt(home, q, c.id, v + 1, b) /\ c = old(c.id)
      BY <1>1 DEF Arrived
    <2>. QED
      BY <2>1 DEF Owned
  <1>6. \A c \in DOMAIN bag : copy[c].inner = c.inner
    <2> SUFFICES ASSUME NEW c \in DOMAIN bag PROVE copy[c].inner = c.inner
      OBVIOUS
    <2>1. CASE c.inner
      <3>1. c \in InnerOf(bag)
        BY <2>1 DEF InnerOf
      <3>2. c.id \in Particle /\ HomeAt(home, q, c.id, v + 1, b) /\ c = old(c.id)
        BY <1>5, <3>1
      <3>3. copy[c] = moved(c.id)
        <4>. HIDE DEF old, copy, moved
        <4>. QED
          BY <1>4, <3>2
      <3>4. moved(c.id).inner = TRUE /\ old(c.id).inner = TRUE
        OBVIOUS
      <3>. HIDE DEF old, copy, moved
      <3>. QED
        BY <3>2, <3>3, <3>4
    <2>2. CASE ~ c.inner
      BY <2>2
    <2>. QED
      BY <2>1, <2>2
  <1>7. \A c \in kept : DOMAIN f[c] = {copy[c]} /\ f[c][copy[c]] = bag[c]
    <2>. HIDE DEF copy
    <2>. QED
      OBVIOUS
  <1>8. DOMAIN f = kept /\ kept \subseteq DOMAIN bag /\ \A c \in DOMAIN bag : c \in kept <=> copy[c].x # Gone
    OBVIOUS
  <1>9. \A p : old(p).id = p /\ moved(p).id = p /\ moved(p).inner /\ moved(p).x = new(p)
    OBVIOUS
  <1>. HIDE DEF copy, kept, f, of, old, moved, new
  <1>10. ASSUME NEW p \in Particle, HomeAt(home, q, p, v + 1, b), new(p) # Gone
         PROVE  moved(p) \in InnerOf(SumOfBags(f)) /\ SumOfBags(f)[moved(p)] = 1
    <2>1. old(p) \in InnerOf(bag) /\ old(p) \in DOMAIN bag /\ bag[old(p)] = 1 /\ copy[old(p)] = moved(p)
      BY <1>4, <1>10 DEF InnerOf
    <2>2. old(p) \in kept
      BY <1>8, <1>9, <1>10, <2>1
    <2>3. moved(p) \in DOMAIN f[old(p)] /\ f[old(p)][moved(p)] = 1
      BY <1>7, <2>1, <2>2
    <2>4. ASSUME NEW e \in DOMAIN f, moved(p) \in DOMAIN f[e] PROVE e = old(p)
      <3>1. e \in kept /\ e \in DOMAIN bag /\ copy[e] = moved(p)
        BY <1>7, <1>8, <2>4
      <3>2. e.inner
        BY <1>6, <1>9, <3>1
      <3>3. e \in InnerOf(bag)
        BY <3>1, <3>2 DEF InnerOf
      <3>4. e.id \in Particle /\ e = old(e.id) /\ copy[e] = moved(e.id)
        BY <1>4, <1>5, <3>3
      <3>5. e.id = p
        BY <1>9, <3>1, <3>4
      <3>. QED
        BY <3>4, <3>5
    <2>5. moved(p) \in DOMAIN SumOfBags(f) /\ SumOfBags(f)[moved(p)] = 1
      <3> PICK a, t : a = old(p) /\ t = moved(p)
        OBVIOUS
      <3>1. a \in DOMAIN f /\ t \in DOMAIN f[a] /\ f[a][t] = 1 /\ \A e \in DOMAIN f : t \in DOMAIN f[e] => e = a
        BY <1>8, <2>2, <2>3, <2>4
      <3>2. t \in DOMAIN SumOfBags(f) /\ SumOfBags(f)[t] = 1
        BY <3>1, SumOnce
      <3>. QED
        BY <3>2
    <2>. QED
      BY <1>9, <2>5 DEF InnerOf
  <1>11. ASSUME NEW c \in InnerOf(SumOfBags(f))
         PROVE  \E p \in Particle : HomeAt(home, q, p, v + 1, b) /\ new(p) # Gone /\ c = moved(p)
    <2>1. PICK a \in DOMAIN f : c \in DOMAIN f[a]
      BY SumHas DEF InnerOf
    <2>2. a \in DOMAIN bag /\ c = copy[a] /\ copy[a].x # Gone /\ c.inner
      BY <1>7, <1>8, <2>1 DEF InnerOf
    <2>3. a \in InnerOf(bag)
      BY <1>6, <2>2 DEF InnerOf
    <2>4. a.id \in Particle /\ HomeAt(home, q, a.id, v + 1, b) /\ copy[a] = moved(a.id)
      BY <1>4, <1>5, <2>3
    <2>. QED
      BY <1>9, <2>2, <2>4
  <1>12. ASSUME NEW p \in Particle
         PROVE  /\ HomeAt(home, q, p, v + 1, b)' <=> HomeAt(home, q, p, v + 1, b)
                /\ HomeAt(home, q, p, v + 1, b) =>
                     /\ Kept(q, p, v + 1)' <=> new(p) # Gone
                     /\ At(q, p, v + 1)' = moved(p)
    <2>1. v + 1 \in Nat \ {0} /\ v + 1 # v + 2
      BY <1>1
    <2>2. HomeAt(home, q, p, v + 1, b)' <=> HomeAt(home, q, p, v + 1, b)
      BY <1>1, <2>1, PastStays
    <2>3. ASSUME HomeAt(home, q, p, v + 1, b)
          PROVE  (Kept(q, p, v + 1)' <=> new(p) # Gone) /\ At(q, p, v + 1)' = moved(p)
      <3>1. p \in Owned(r, q)
        BY <1>4, <2>3
      <3>2. track'[q][p] = Append(track[q][p], new(p))
        BY <1>2, <3>1 DEF Displaced, Walks, new
      <3>3. Len(track[q][p]) = v /\ track[q][p] \in Seq(Vectors \cup {Gone})
        BY <3>1, TracksGrow
      <3>4. Len(track'[q][p]) = v + 1 /\ track'[q][p][v + 1] = new(p)
        BY <1>1, <3>2, <3>3
      <3>5. v + 1 \in 1 .. v + 1
        BY <1>1
      <3>. QED
        BY <3>4, <3>5 DEF Kept, At, moved
    <2>. QED
      BY <2>2, <2>3
  <1>13. Homed(home, q, v + 1, b)' = {moved(p) : p \in {o \in Particle : HomeAt(home, q, o, v + 1, b) /\ new(o) # Gone}}
    <2>1. Homed(home, q, v + 1, b)' =
            {At(q, p, v + 1)' : p \in {o \in Particle : Kept(q, o, v + 1)' /\ HomeAt(home, q, o, v + 1, b)'}}
      BY DEF Homed
    <2>2. \A p \in Particle : Kept(q, p, v + 1)' /\ HomeAt(home, q, p, v + 1, b)' <=>
                                HomeAt(home, q, p, v + 1, b) /\ new(p) # Gone
      BY <1>12
    <2>3. \A p \in {o \in Particle : HomeAt(home, q, o, v + 1, b) /\ new(o) # Gone} :
             At(q, p, v + 1)' = moved(p)
      BY <1>12
    <2>. QED
      BY <2>1, <2>2, <2>3
  <1>14. InnerOf(SumOfBags(f)) = Homed(home, q, v + 1, b)'
    BY <1>10, <1>11, <1>13
  <1>15. ASSUME NEW c \in InnerOf(SumOfBags(f)) PROVE SumOfBags(f)[c] = 1
    BY <1>10, <1>11
  <1>. QED
    BY <1>3, <1>14, <1>15

\* The next version of its lists makes a rank's part of the invariant true again.
LEMMA MoveHeld ==
  ASSUME IInv, NEW home \in Homes, Held(home), NEW r \in Rank, Move(r)
  PROVE  Held(home)'
  <1> PICK v : v = Version(r)
    OBVIOUS
  <1>1. /\ pc[r] = "move" /\ pc'[r] = "send" /\ \A s \in Rank \ {r} : pc'[s] = pc[s]
        /\ request[r] = 1 /\ step[r] = v + 1 /\ v \in Nat \ {0}
        /\ UNCHANGED <<step, request, chan, dest>>
        /\ track' = [q \in Request |-> [p \in Particle |-> track'[q][p]]]
    BY MoveIs
  <1>2. Walked /\ Housed(home) /\ UpToDate(home) /\ \A q \in Request : Arrived(home, r, q, v)
    BY <1>1, HasArrived DEF Held
  <1>3. Version(r)' = v + 1 /\ \A s \in Rank \ {r} : Version(s)' = Version(s)
    BY <1>1 DEF Version
  <1>4. ASSUME NEW s \in Rank
        PROVE  /\ Version(s) \in Nat \ {0} /\ Version(s)' \in Nat \ {0} /\ Version(s)' <= v + 1
               /\ Version(s) = v + 1 => pc[s] \in {"send", "reducing"} /\ request[s] = 1
    <2>1. Version(s) \in Int /\ Version(s) >= 1
      BY DEF IInv, TypeOK, Version, Held
    <2>2. \/ Version(s) = v
          \/ Version(s) = v + 1 /\ pc[s] \in {"send", "reducing"} /\ request[s] = 1
      BY <1>1, VersionsNear
    <2>. HIDE DEF Version
    <2>. QED
      BY <1>1, <1>3, <2>1, <2>2
  <1>5. \A s \in Rank : Version(s)' >= 1
    BY <1>4
  <1>6. Walked'
    <2>1. ASSUME NEW q \in Request, NEW p \in Particle
          PROVE  /\ track'[q][p] \in Seq(Vectors \cup {Gone}) /\ Len(track'[q][p]) > 0
                 /\ \A k \in Nat : Kept(q, p, k)' => IsInside(track'[q][p][k])
      <3>1. track'[q][p] \in Seq(Vectors \cup {Gone})
        BY TracksGrow
      <3>2. CASE p \notin Owned(r, q)
        <4>1. track'[q][p] = track[q][p]
          BY <3>2, TracksGrow
        <4>. QED
          BY <1>2, <3>1, <4>1 DEF Walked, Kept
      <3>3. CASE p \in Owned(r, q)
        <4>1. /\ Len(track[q][p]) = v /\ Len(track'[q][p]) = v + 1
              /\ \A k \in 1 .. v : track'[q][p][k] = track[q][p][k]
              /\ track'[q][p][v + 1] # Gone => IsInside(track'[q][p][v + 1])
          BY <3>3, TracksGrow
        <4>2. ASSUME NEW k \in Nat, Kept(q, p, k)' PROVE IsInside(track'[q][p][k])
          <5>1. k \in 1 .. v + 1 /\ track'[q][p][k] # Gone
            BY <4>1, <4>2 DEF Kept
          <5>2. CASE k = v + 1
            BY <4>1, <5>1, <5>2
          <5>3. CASE k # v + 1
            <6>1. k \in 1 .. v
              BY <1>1, <5>1, <5>3
            <6>2. Kept(q, p, k) /\ track'[q][p][k] = track[q][p][k]
              BY <4>1, <5>1, <6>1 DEF Kept
            <6>. QED
              BY <1>2, <6>2 DEF Walked
          <5>. QED
            BY <5>2, <5>3
        <4>. QED
          BY <1>1, <3>1, <4>1, <4>2
      <3>. QED
        BY <3>2, <3>3
    <2>2. track' \in [Request -> [Particle -> Seq(Vectors \cup {Gone})]]
      BY <1>1, <2>1
    <2>. QED
      BY <2>1, <2>2 DEF Walked
  <1>7. Housed(home)'
    <2> SUFFICES ASSUME NEW q \in Request, NEW p \in Particle, NEW k \in 1 .. Len(track'[q][p])
                 PROVE  \E b \in BlockId : HomeAt(home, q, p, k, b)'
      BY DEF Housed
    <2>1. k \in Nat \ {0} /\ track[q][p] \in Seq(Vectors \cup {Gone})
      BY TracksGrow
    <2>2. CASE p \notin Owned(r, q)
      <3>1. track'[q][p] = track[q][p]
        BY <2>2, TracksGrow
      <3>2. PICK b \in BlockId : HomeAt(home, q, p, k, b)
        BY <1>2, <3>1 DEF Housed
      <3>. QED
        BY <2>1, <2>2, <3>2, PastStays
    <2>3. CASE p \in Owned(r, q)
      <3>1. Len(track[q][p]) = v /\ Len(track'[q][p]) = v + 1
        BY <2>3, TracksGrow
      <3>2. PICK b \in BlockId : HomeAt(home, q, p, k, b)
        <4>1. CASE k = v + 1
          BY <1>2, <2>3, <4>1, KernelsAre DEF Arrived
        <4>2. CASE k # v + 1
          <5>1. k \in 1 .. Len(track[q][p])
            BY <1>1, <3>1, <4>2
          <5>. QED
            BY <1>2, <5>1 DEF Housed
        <4>. QED
          BY <4>1, <4>2
      <3>3. k # v + 2
        BY <1>1, <3>1
      <3>. QED
        BY <2>1, <3>2, <3>3, PastStays
    <2>. QED
      BY <2>2, <2>3
  <1>8. UpToDate(home)'
    <2> SUFFICES ASSUME NEW q \in Request, NEW p \in Particle, NEW k \in Nat \ {0}, NEW b \in BlockId,
                        HomeAt(home, q, p, k, b)'
                 PROVE  k <= Len(track'[q][p]) <=> k <= Version(rank_from_id(b))'
      BY DEF UpToDate
    <2> DEFINE s == rank_from_id(b)
               old == Len(track[q][p])
               new == Len(track'[q][p])
               vs == Version(s)
               ws == Version(s)'
    <2>1. s \in Rank /\ b \in Kernels[s] /\ (s = r <=> b \in Kernels[r])
      BY KernelsAre
    <2>2. old \in Nat /\ new \in Nat
      BY TracksGrow
    <2>3. vs \in Nat /\ ws \in Nat /\ ws <= v + 1 /\ (s = r => vs = v /\ ws = v + 1) /\ (s # r => ws = vs)
      BY <1>3, <1>4, <2>1
    <2>4. Version(rank_from_id(b))' = ws
      OBVIOUS
    <2>5. HomeAt(home, q, p, k, b) => (k <= old <=> k <= vs)
      BY <1>2 DEF UpToDate
    <2>6. ASSUME HomeAt(home, q, p, k, b), k = v + 1 PROVE p \in Owned(r, q) <=> s = r
      <3>1. ASSUME s = r PROVE p \in Owned(r, q)
        BY <1>2, <2>1, <2>6, <3>1 DEF Arrived
      <3>2. ASSUME p \in Owned(r, q) PROVE s = r
        <4>1. PICK e \in Kernels[r] : HomeAt(home, q, p, v + 1, e)
          BY <1>2, <3>2 DEF Arrived
        <4>2. e \in BlockId
          BY KernelsAre
        <4>3. e = b
          BY <1>2, <2>6, <4>1, <4>2, HomeUnique
        <4>. QED
          BY <2>1, <4>1, <4>3
      <3>. QED
        BY <3>1, <3>2
    <2>. HIDE DEF s, vs, ws
    <2>7. CASE p \notin Owned(r, q)
      <3>1. new = old
        BY <2>7, TracksGrow
      <3>2. HomeAt(home, q, p, k, b)
        BY <2>7, PastStays
      <3>3. k <= new <=> k <= ws
        <4>. HIDE DEF old, new
        <4>. QED
          BY <1>1, <2>2, <2>3, <2>5, <2>6, <2>7, <3>1, <3>2
      <3>. QED
        BY <2>4, <3>3
    <2>8. CASE p \in Owned(r, q)
      <3>1. old = v /\ new = v + 1
        BY <2>8, TracksGrow
      <3>2. k <= new <=> k <= ws
        <4>1. k # v + 2 => HomeAt(home, q, p, k, b)
          BY PastStays
        <4>. HIDE DEF old, new
        <4>. QED
          BY <1>1, <2>3, <2>5, <2>6, <2>8, <3>1, <4>1
      <3>. QED
        BY <2>4, <3>2
    <2>. QED
      BY <2>7, <2>8
  <1>9. ASSUME NEW s \in Rank, NEW q \in Request PROVE Content(home, s, q)'
    <2>1. Content(home, s, q)
      BY DEF Held
    <2>2. CASE s = r
      <3>1. Old(r, q)'
        <4>1. request'[r] = 1 /\ (1 < q \/ 1 = q)
          BY <1>1 DEF Request
        <4>. QED
          BY <1>1, <4>1 DEF Old
      <3>2. ASSUME NEW b \in Kernels[r] PROVE Unmoved(home, q, b, v + 1)'
        <4>1. /\ InnerOf(particles'[q][b]) = Homed(home, q, v + 1, b)'
              /\ \A c \in InnerOf(particles'[q][b]) : particles'[q][b][c] = 1
          BY MovedInner
        <4>. QED
          BY <4>1 DEF Unmoved, InnerOf
      <3>3. \A b \in Kernels[r] : Unmoved(home, q, b, Version(r))'
        BY <1>3, <3>2
      <3>. QED
        BY <2>2, <3>1, <3>3 DEF Content
    <2>3. CASE s # r
      <3> PICK w : w = Version(s)
        OBVIOUS
      <3>1. w \in Nat \ {0} /\ Version(s)' = w
        BY <1>3, <1>4, <2>3
      <3>2. ASSUME NEW b \in Kernels[s] PROVE particles'[q][b] = particles[q][b] /\ b \in BlockId /\ b \notin Kernels[r]
        <4>1. b \in BlockId /\ b \notin Kernels[r]
          BY <2>3, KernelsAre
        <4>2. PICK shift : Displaced(r, q, shift)
          BY MoveIs
        <4>. QED
          BY <4>1, <4>2 DEF Displaced
      <3>3. (Old(s, q)' <=> Old(s, q)) /\ From(s, q)' = From(s, q)
        BY <1>1, <2>3 DEF Old, From, Senders
      <3>4. CASE Old(s, q)
        <4>1. ASSUME NEW b \in Kernels[s] PROVE Unmoved(home, q, b, w)'
          <5>1. Unmoved(home, q, b, w)
            BY <2>1, <3>4 DEF Content
          <5>2. Homed(home, q, w, b)' = Homed(home, q, w, b)
            BY <3>1, <3>2, SentStays
          <5>. QED
            BY <3>2, <5>1, <5>2 DEF Unmoved, InnerOf
        <4>. QED
          BY <3>1, <3>3, <3>4, <4>1 DEF Content
      <3>5. CASE ~ Old(s, q)
        <4>1. w # v + 1
          <5>1. ASSUME w = v + 1 PROVE Old(s, q)
            <6>1. pc[s] \in {"send", "reducing"} /\ request[s] = 1
              BY <1>4, <5>1
            <6>2. 1 < q \/ 1 = q
              BY DEF Request
            <6>. QED
              BY <6>1, <6>2 DEF Old
          <5>. QED
            BY <3>5, <5>1
        <4>2. \A e \in Rank : Sent(home, q, w, e)' = Sent(home, q, w, e)
          BY <3>1, <4>1, SentStays
        <4>3. SentFrom(home, q, w, From(s, q))' = SentFrom(home, q, w, From(s, q))
          <5>1. From(s, q) \subseteq Rank
            BY DEF From
          <5>2. {Sent(home, q, w, e)' : e \in From(s, q)} = {Sent(home, q, w, e) : e \in From(s, q)}
            BY <4>2, <5>1
          <5>. QED
            BY <3>3, <5>2 DEF SentFrom
        <4>4. ASSUME NEW b \in Kernels[s] PROVE Transferred(home, q, b, w, From(s, q))'
          <5>1. Transferred(home, q, b, w, From(s, q))
            BY <2>1, <3>5 DEF Content
          <5>. QED
            BY <3>2, <4>3, <5>1 DEF Transferred, CopiesAt
        <4>. QED
          BY <3>1, <3>3, <3>5, <4>4 DEF Content
      <3>. QED
        BY <3>4, <3>5
    <2>. QED
      BY <2>2, <2>3
  <1>10. ASSUME NEW s \in Rank PROVE Message(home, s)'
    <2>1. Message(home, s)
      BY DEF Held
    <2>2. CASE s = r
      BY <1>1, <2>2 DEF Message
    <2>3. CASE s # r
      <3> PICK e, w : e = request[s] /\ w = step[s]
        OBVIOUS
      <3>1. request'[s] = e /\ step'[s] = w /\ Calls(s)' = Calls(s) /\ e \in Request /\ w \in Nat \ {0}
        BY <1>1 DEF Calls, IInv, TypeOK
      <3>2. Sent(home, e, w, s)' = Sent(home, e, w, s)
        BY <2>3, <3>1, SentStays
      <3>. QED
        BY <1>1, <2>1, <2>3, <3>1, <3>2 DEF Message
    <2>. QED
      BY <2>2, <2>3
  <1>. QED
    BY <1>5, <1>6, <1>7, <1>8, <1>9, <1>10 DEF Held

-----------------------------------------------------------------------------
(***************************************************************************)
(* A transfer moves lists from one version to the next.                    *)
(***************************************************************************)
\* What depends on the tracks alone.
LEMMA TracksStay ==
  ASSUME UNCHANGED track, NEW home \in Homes
  PROVE  /\ Walked' <=> Walked
         /\ Housed(home)' <=> Housed(home)
         /\ \A q, p, k, b : HomeAt(home, q, p, k, b)' <=> HomeAt(home, q, p, k, b)
         /\ \A q, k, b : Homed(home, q, k, b)' = Homed(home, q, k, b)
         /\ \A q, k, s : Sent(home, q, k, s)' = Sent(home, q, k, s)
         /\ \A q, k, S : SentFrom(home, q, k, S)' = SentFrom(home, q, k, S)
  <1>1. \A q, p, k : Kept(q, p, k)' <=> Kept(q, p, k)
    BY DEF Kept
  <1>2. \A q, p, k, b : HomeAt(home, q, p, k, b)' <=> HomeAt(home, q, p, k, b)
    BY DEF HomeAt, Kept
  <1>3. \A q, k, b : Homed(home, q, k, b)' = Homed(home, q, k, b)
    BY DEF Homed, HomeAt, Kept, At
  <1>4. \A q, k, s : Sent(home, q, k, s)' = Sent(home, q, k, s)
    BY DEF Sent, Homed, HomeAt, Kept, At
  <1>5. \A q, k, S : SentFrom(home, q, k, S)' = SentFrom(home, q, k, S)
    BY DEF SentFrom, Sent, Homed, HomeAt, Kept, At
  <1>6. Housed(home)' <=> Housed(home)
    BY DEF Housed, HomeAt, Kept
  <1>7. Walked' <=> Walked
    BY DEF Walked, Kept
  <1>. QED
    BY <1>2, <1>3, <1>4, <1>5, <1>6, <1>7

LEMMA HeldStays ==
  ASSUME UNCHANGED track, NEW home \in Homes, Held(home),
         \A s \in Rank : Version(s)' = Version(s),
         \A r \in Rank, q \in Request : Content(home, r, q)',
         \A s \in Rank : Message(home, s)'
  PROVE  Held(home)'
  <1>1. \A s \in Rank : Version(s)' >= 1
    BY DEF Held
  <1>2. Walked' /\ Housed(home)'
    BY TracksStay DEF Held
  <1>3. UpToDate(home)'
    <2> SUFFICES ASSUME NEW q \in Request, NEW p \in Particle, NEW k \in Nat \ {0}, NEW b \in BlockId,
                        HomeAt(home, q, p, k, b)'
                 PROVE  k <= Len(track'[q][p]) <=> k <= Version(rank_from_id(b))'
      BY DEF UpToDate
    <2>1. HomeAt(home, q, p, k, b)
      BY TracksStay
    <2>2. Version(rank_from_id(b))' = Version(rank_from_id(b))
      BY KernelsAre
    <2>. QED
      BY <2>1, <2>2 DEF Held, UpToDate
  <1>. QED
    BY <1>1, <1>2, <1>3 DEF Held

LEMMA ContentStays ==
  ASSUME UNCHANGED track, NEW home \in Homes, NEW r \in Rank, NEW q \in Request,
         Content(home, r, q), Version(r)' = Version(r), Old(r, q)' <=> Old(r, q),
         ~ Old(r, q) => From(r, q)' = From(r, q),
         \A b \in Kernels[r] : particles'[q][b] = particles[q][b]
  PROVE  Content(home, r, q)'
  <1> PICK w : w = Version(r)
    OBVIOUS
  <1>1. ASSUME NEW b \in Kernels[r], Unmoved(home, q, b, w) PROVE Unmoved(home, q, b, w)'
    <2>1. Homed(home, q, w, b)' = Homed(home, q, w, b)
      BY TracksStay
    <2>2. particles'[q][b] = particles[q][b]
      OBVIOUS
    <2>. QED
      BY <1>1, <2>1, <2>2 DEF Unmoved, InnerOf
  <1>2. ASSUME NEW b \in Kernels[r], ~ Old(r, q), Transferred(home, q, b, w, From(r, q))
        PROVE  Transferred(home, q, b, w, From(r, q))'
    <2> PICK S : S = From(r, q)
      OBVIOUS
    <2>1. From(r, q)' = S
      BY <1>2
    <2>2. SentFrom(home, q, w, S)' = SentFrom(home, q, w, S) /\ particles'[q][b] = particles[q][b]
      BY TracksStay
    <2>3. Transferred(home, q, b, w, S)'
      BY <1>2, <2>2 DEF Transferred, CopiesAt
    <2>. QED
      BY <2>1, <2>3 DEF Transferred
  <1>. QED
    BY <1>1, <1>2 DEF Content

LEMMA MessageStays ==
  ASSUME UNCHANGED track, NEW home \in Homes, NEW s \in Rank, Message(home, s),
         pc'[s] = pc[s] \/ pc[s] \notin {"move", "send"},
         request'[s] = request[s], step'[s] = step[s], dest'[s] = dest[s],
         \A r \in Rank : chan'[s][r] = chan[s][r] \/ chan'[s][r] = <<>>
  PROVE  Message(home, s)'
  <1> PICK e, w : e = request[s] /\ w = step[s]
    OBVIOUS
  <1>1. Sent(home, e, w, s)' = Sent(home, e, w, s)
    BY TracksStay
  <1>2. Calls(s)' = Calls(s)
    BY DEF Calls
  <1>. QED
    BY <1>1, <1>2 DEF Message

\* What SendParticles puts where.
Part(r, s) == Restricted(Tmp(r, request[r]), {b \in BlockId : rank_from_id(b) = s})
Receivers(r) == {rank_from_id(t.block) : t \in DOMAIN Tmp(r, request[r])} \ {r}

LEMMA SendIs ==
  ASSUME IInv, NEW r \in Rank, SendParticles(r)
  PROVE  /\ pc[r] = "send" /\ pc' = [pc EXCEPT ![r] = "reducing"]
         /\ UNCHANGED <<step, request, particles, track>>
         /\ dest'[r][Calls(r)'] = Receivers(r) /\ \A s \in Rank \ {r} : dest'[s] = dest[s]
         /\ \A s \in Rank \ {r} : chan'[s] = chan[s]
         /\ \A s \in Rank : chan'[r][s] # <<>> => Head(chan'[r][s]).buf = Part(r, s)
  <1>1. /\ pc[r] = "send" /\ pc' = [pc EXCEPT ![r] = "reducing"]
        /\ dest' = [dest EXCEPT ![r] = Append(@, Receivers(r))]
        /\ chan' = [chan EXCEPT ![r] = [s \in Rank |->
             IF s \in Receivers(r) THEN Append(@[s], [call |-> Len(dest'[r]), buf |-> Part(r, s)])
             ELSE @[s]]]
        /\ UNCHANGED <<step, request, particles, track>>
    BY DEF SendParticles, Goto, Receivers, Part
  <1>2. Receivers(r) \in SUBSET Rank
    BY TmpIs, KernelsAre DEF IInv, TypeOK, Receivers, BagOf, Target
  <1>3. dest'[r][Calls(r)'] = Receivers(r) /\ \A s \in Rank \ {r} : dest'[s] = dest[s]
    <2>1. dest[r] \in Seq(SUBSET Rank) /\ dest \in [Rank -> Seq(SUBSET Rank)]
      BY CallsAre DEF IInv, Shapes
    <2>2. Append(dest[r], Receivers(r))[Len(Append(dest[r], Receivers(r)))] = Receivers(r)
      BY <1>2, <2>1
    <2>. QED
      BY <1>1, <2>1, <2>2 DEF Calls
  <1>4. \A s \in Rank : chan[r][s] = <<>>
    BY <1>1 DEF IInv, OnTheWay, Way
  <1>5. /\ chan'[r] = [s \in Rank |->
             IF s \in Receivers(r) THEN Append(chan[r][s], [call |-> Len(dest'[r]), buf |-> Part(r, s)])
             ELSE chan[r][s]]
        /\ \A s \in Rank \ {r} : chan'[s] = chan[s]
    <2>1. chan = [s \in Rank |-> [q \in Rank |-> chan[s][q]]]
      BY DEF IInv, Shapes
    <2>. QED
      BY <1>1, <2>1
  <1>6. ASSUME NEW s \in Rank, chan'[r][s] # <<>> PROVE Head(chan'[r][s]).buf = Part(r, s)
    <2>1. chan'[r][s] = Append(<<>>, [call |-> Len(dest'[r]), buf |-> Part(r, s)])
      BY <1>4, <1>5, <1>6
    <2>2. \A m : Head(Append(<<>>, m)) = m
      OBVIOUS
    <2>. QED
      BY <2>1, <2>2
  <1>. QED
    BY <1>1, <1>3, <1>5, <1>6

LEMMA SendHeld ==
  ASSUME IInv, NEW home \in Homes, Held(home), NEW r \in Rank, SendParticles(r)
  PROVE  Held(home)'
  <1> PICK e, w : e = request[r] /\ w = step[r]
    OBVIOUS
  <1>1. /\ pc[r] = "send" /\ pc' = [pc EXCEPT ![r] = "reducing"]
        /\ UNCHANGED <<step, request, particles, track>>
        /\ dest'[r][Calls(r)'] = Receivers(r) /\ \A s \in Rank \ {r} : dest'[s] = dest[s]
        /\ \A s \in Rank \ {r} : chan'[s] = chan[s]
        /\ \A s \in Rank : chan'[r][s] # <<>> => Head(chan'[r][s]).buf = Part(r, s)
        /\ e \in Request /\ Lists /\ Walked
    BY SendIs DEF IInv, TypeOK, Held
  <1>2. pc'[r] = "reducing" /\ \A s \in Rank \ {r} : pc'[s] = pc[s]
    BY <1>1 DEF IInv, TypeOK
  <1>3. \A s \in Rank : Version(s)' = Version(s) /\ pc[s] # "receive" /\ pc'[s] # "receive"
    <2>1. \A s \in Rank : pc[s] # "receive"
      BY <1>1, WhereOthersAre
    <2>. QED
      BY <1>1, <1>2, <2>1 DEF Version
  <1>4. ASSUME NEW s \in Rank, NEW q \in Request PROVE Content(home, s, q)'
    <2>1. (Old(s, q)' <=> Old(s, q)) /\ From(s, q)' = From(s, q)
      BY <1>1, <1>2, <1>3 DEF Old, From
    <2>2. Content(home, s, q)
      BY DEF Held
    <2>. QED
      BY <1>1, <1>3, <2>1, <2>2, ContentStays
  <1>5. Tmp(r, e) = SetToBag(Sent(home, e, w, r)) /\ Sent(home, e, w, r) \in SUBSET Target
    <2>1. Old(r, e) /\ Version(r) = w
      BY <1>1 DEF Old, Version
    <2>2. \A b \in Kernels[r] : Unmoved(home, e, b, w)
      BY <1>1, <2>1 DEF Held, Content
    <2>. QED
      BY <1>1, <2>2, TmpIsSent, SentIs
  <1>6. Message(home, r)'
    <2> DEFINE T == Sent(home, e, w, r)
    <2>1. Sent(home, e, w, r)' = T
      BY <1>1, TracksStay
    <2>2. Receivers(r) = {rank_from_id(t.block) : t \in T} \ {r}
      BY <1>5 DEF Receivers, SetToBag
    <2>3. ASSUME NEW s \in Rank PROVE Part(r, s) = SetToBag({t \in T : rank_from_id(t.block) = s})
      <3>1. Part(r, s) = SetToBag({t \in T : t.block \in {b \in BlockId : rank_from_id(b) = s}})
        BY <1>5, RestrictedOnce DEF Part
      <3>2. {t \in T : t.block \in {b \in BlockId : rank_from_id(b) = s}} = {t \in T : rank_from_id(t.block) = s}
        BY <1>5 DEF Target
      <3>. QED
        BY <3>1, <3>2
    <2>. HIDE DEF T
    <2>4. request'[r] = e /\ step'[r] = w
      BY <1>1
    <2>. QED
      BY <1>1, <2>1, <2>2, <2>3, <2>4 DEF Message
  <1>7. ASSUME NEW s \in Rank PROVE Message(home, s)'
    <2>1. CASE s = r
      BY <1>6, <2>1
    <2>2. CASE s # r
      <3>1. Message(home, s)
        BY DEF Held
      <3>. QED
        BY <1>1, <1>2, <2>2, <3>1, MessageStays
    <2>. QED
      BY <2>1, <2>2
  <1>. QED
    BY <1>1, <1>3, <1>4, <1>7, HeldStays

\* Ranks that have sent in the same transfer are in the same one.
LEMMA SameNumbers ==
  ASSUME IInv, NEW r \in Rank, NEW s \in Rank, Calls(s) = Calls(r),
         pc[s] \notin {"move", "send"}, pc[r] \notin {"move", "send"}
  PROVE  step[s] = step[r] /\ request[s] = request[r]
  <1>1. /\ Calls(s) = (step[s] - 1) * nreq + request[s]
        /\ Calls(r) = (step[r] - 1) * nreq + request[r]
    BY DEF IInv, InOrderOfRequests, Begun
  <1>2. /\ request[s] \in 1 .. nreq /\ request[r] \in 1 .. nreq
        /\ step[s] \in Nat \ {0} /\ step[r] \in Nat \ {0} /\ nreq \in Nat \ {0}
    BY ParticleAssumption DEF IInv, TypeOK, Request
  <1> DEFINE x == step[s]
             y == step[r]
             a == request[s]
             b == request[r]
  <1>3. (x - 1) * nreq + a = (y - 1) * nreq + b
    BY <1>1
  <1>4. nreq \in Nat \ {0} /\ a \in 1 .. nreq /\ b \in 1 .. nreq /\ x \in Nat \ {0} /\ y \in Nat \ {0}
    BY <1>2
  <1>5. x = y /\ a = b
    <2>. HIDE DEF x, y, a, b
    <2>. QED
      BY <1>3, <1>4, NumbersAreUnique
  <1>. QED
    BY <1>5

\* The blocks of different ranks are different ones.
LEMMA KernelsApart ==
  ASSUME NEW r \in Rank, NEW s \in Rank, NEW b \in Kernels[r], b \in Kernels[s]
  PROVE  r = s
  BY KernelsAre

\* A rank without a message to come from s gets nothing from s.
LEMMA NothingFrom ==
  ASSUME IInv, NEW home \in Homes, Held(home), NEW r \in Rank, LeaveReduce(r),
         NEW s \in Rank
  PROVE  /\ s = r => s \notin Senders(r)
         /\ s # r /\ s \notin Senders(r) =>
              \A t \in Sent(home, request[r], step[r], s) : t.block \notin Kernels[r]
  <1>1. pc[r] = "reducing" /\ AllEntered(r)
    BY DEF LeaveReduce, Goto
  <1>2. Calls(s) = Calls(r) /\ Calls(r) \in Nat
    BY <1>1, WhereOthersAre, CallsAre
  <1>3. pc[s] \notin {"move", "send"}
    <2>1. pc[s] \in {"move", "send"} =>
            \/ Calls(r) = Calls(s) /\ pc[r] \in {"leaving", "move", "send"}
            \/ Calls(r) = Calls(s) + 1
      BY WhereOthersAre
    <2>. HIDE DEF Calls
    <2>. QED
      BY <1>1, <1>2, <2>1
  <1>4. step[s] = step[r] /\ request[s] = request[r]
    BY <1>1, <1>2, <1>3, SameNumbers
  <1>5. s \in Senders(r) <=> r \in dest[s][Calls(s)]
    BY <1>1, <1>2 DEF IInv, OnTheWay, Way, Awaits, Senders
  <1>6. dest[s][Calls(s)] = {rank_from_id(t.block) : t \in Sent(home, request[r], step[r], s)} \ {s}
    BY <1>3, <1>4 DEF Held, Message
  <1>7. \A b \in Kernels[r] : rank_from_id(b) = r
    BY KernelsAre
  <1>. QED
    BY <1>5, <1>6, <1>7

\* The local particles replace the lists of the request.
LEMMA LeaveReduceHeld ==
  ASSUME IInv, NEW home \in Homes, Held(home), NEW r \in Rank, LeaveReduce(r)
  PROVE  Held(home)'
  <1> PICK e, w : e = request[r] /\ w = step[r]
    OBVIOUS
  <1>1. /\ pc[r] = "reducing" /\ pc' = [pc EXCEPT ![r] = "receive"]
        /\ particles' = [particles EXCEPT ![e] = [b \in BlockId |->
                        IF b \in Kernels[r] THEN Arriving(Tmp(r, e), b) ELSE @[b]]]
        /\ UNCHANGED <<step, request, chan, dest, track>>
        /\ e \in Request /\ Lists /\ Walked
    BY DEF LeaveReduce, Goto, Replaced, IInv, TypeOK, Held
  <1>2. pc'[r] = "receive" /\ \A s \in Rank \ {r} : pc'[s] = pc[s]
    BY <1>1 DEF IInv, TypeOK
  <1>3. /\ \A b \in Kernels[r] : particles'[e][b] = Arriving(Tmp(r, e), b)
        /\ \A q \in Request, b \in BlockId :
             q # e \/ b \notin Kernels[r] => particles'[q][b] = particles[q][b]
    <2>1. particles = [q \in Request |-> [b \in BlockId |-> particles[q][b]]]
      BY DEF IInv, Shapes
    <2>2. Kernels[r] \subseteq BlockId
      BY KernelsAre
    <2>. QED
      BY <1>1, <2>1, <2>2
  <1>4. \A s \in Rank : Version(s)' = Version(s)
    BY <1>1, <1>2 DEF Version
  <1>5. Tmp(r, e) = SetToBag(Sent(home, e, w, r)) /\ Sent(home, e, w, r) \in SUBSET Target
    <2>1. Old(r, e) /\ Version(r) = w
      BY <1>1 DEF Old, Version
    <2>2. \A b \in Kernels[r] : Unmoved(home, e, b, w)
      BY <1>1, <2>1 DEF Held, Content
    <2>. QED
      BY <1>1, <2>2, TmpIsSent, SentIs
  <1>6. Content(home, r, e)'
    <2> PICK S : S = Rank \ Senders(r)
      OBVIOUS
    <2>1. Version(r)' = w /\ ~ Old(r, e)' /\ From(r, e)' = S
      <3>1. Version(r)' = w
        BY <1>1, <1>2 DEF Version
      <3>2. e \in Int
        BY <1>1 DEF Request
      <3>3. ~ Old(r, e)'
        BY <1>1, <1>2, <3>2 DEF Old
      <3>4. From(r, e)' = S
        BY <1>1, <1>2 DEF From, Senders
      <3>. QED
        BY <3>1, <3>3, <3>4
    <2>2. ASSUME NEW b \in Kernels[r] PROVE Transferred(home, e, b, w, S)'
      <3>1. b \in BlockId
        BY KernelsAre
      <3>2. particles'[e][b] = SetToBag(CopiesAt(b, Sent(home, e, w, r)))
        BY <1>3, <1>5, <3>1, ArrivingOnce
      <3>3. {u \in SentFrom(home, e, w, S) : u.block = b} = {u \in Sent(home, e, w, r) : u.block = b}
        <4>1. r \in S
          BY NothingFrom
        <4>2. ASSUME NEW u \in SentFrom(home, e, w, S), u.block = b PROVE u \in Sent(home, e, w, r)
          <5>1. PICK s \in S : u \in Sent(home, e, w, s)
            BY DEF SentFrom
          <5>2. s = r
            BY <4>2, <5>1, NothingFrom
          <5>. QED
            BY <5>1, <5>2
        <4>. QED
          BY <4>1, <4>2 DEF SentFrom
      <3>4. CopiesAt(b, SentFrom(home, e, w, S)) = CopiesAt(b, Sent(home, e, w, r))
        BY <3>3 DEF CopiesAt
      <3>5. SentFrom(home, e, w, S)' = SentFrom(home, e, w, S)
        BY <1>1, TracksStay
      <3>. QED
        BY <3>2, <3>4, <3>5 DEF Transferred, CopiesAt
    <2>. QED
      BY <2>1, <2>2 DEF Content
  <1>7. ASSUME NEW s \in Rank, NEW q \in Request PROVE Content(home, s, q)'
    <2>1. CASE s = r /\ q = e
      BY <1>6, <2>1
    <2>2. CASE ~ (s = r /\ q = e)
      <3>1. (Old(s, q)' <=> Old(s, q)) /\ From(s, q)' = From(s, q)
        BY <1>1, <1>2, <2>2 DEF Old, From, Senders
      <3>2. Content(home, s, q)
        BY DEF Held
      <3>3. \A b \in Kernels[s] : particles'[q][b] = particles[q][b]
        BY <1>3, <2>2, KernelsAre, KernelsApart
      <3>. QED
        BY <1>1, <1>4, <3>1, <3>2, <3>3, ContentStays
    <2>. QED
      BY <2>1, <2>2
  <1>8. ASSUME NEW s \in Rank PROVE Message(home, s)'
    <2>1. Message(home, s)
      BY DEF Held
    <2>. QED
      BY <1>1, <1>2, <2>1, MessageStays
  <1>. QED
    BY <1>1, <1>4, <1>7, <1>8, HeldStays

\* A message adds what its sender has for the blocks of the rank, all of it new there.
LEMMA ReceiveHeld ==
  ASSUME IInv, NEW home \in Homes, Held(home), NEW r \in Rank, NEW s \in Rank, Receive(r, s)
  PROVE  Held(home)'
  <1> PICK e, w : e = request[r] /\ w = step[r]
    OBVIOUS
  <1> DEFINE buf == Head(chan[s][r]).buf
  <1>1. /\ pc[r] = "receive" /\ chan[s][r] # <<>> /\ e \in Request /\ Walked
        /\ s \in Senders(r)
    BY DEF Receive, IInv, TypeOK, Held, Senders
  <1>2. /\ Tail(chan[s][r]) = <<>>
        /\ \A t \in DOMAIN buf : rank_from_id(t.block) = r /\ t.block \in Kernels[r]
        /\ Calls(s) = Calls(r) /\ pc[s] \notin {"move", "send"}
    <2>1. PICK m : chan[s][r] = <<m>> /\ IsMessage(m, s, r)
      BY <1>1 DEF IInv, OnTheWay, Way
    <2>2. Head(<<m>>) = m /\ Tail(<<m>>) = <<>>
      OBVIOUS
    <2>3. BagOf(m.buf, Target) /\ \A t \in DOMAIN m.buf : rank_from_id(t.block) = r
      BY <2>1 DEF IsMessage
    <2>4. \A t \in DOMAIN m.buf : t.block \in Kernels[r]
      BY <2>3, KernelsAre DEF BagOf, Target
    <2>5. pc[s] \notin {"move", "send"} /\ Calls(s) = Calls(r)
      BY <1>1, WhereOthersAre DEF IInv, OnTheWay, Way
    <2>. QED
      BY <2>1, <2>2, <2>3, <2>4, <2>5
  <1>3. step[s] = w /\ request[s] = e
    BY <1>1, <1>2, SameNumbers
  <1> DEFINE B == {t \in Sent(home, e, w, s) : rank_from_id(t.block) = r}
  <1>4. buf = SetToBag(B)
    BY <1>1, <1>2, <1>3 DEF Held, Message
  <1>5. /\ particles' = [particles EXCEPT ![e] = [b \in BlockId |->
                                IF b \in Kernels[r] THEN @[b] (+) Arriving(buf, b) ELSE @[b]]]
        /\ chan' = [chan EXCEPT ![s][r] = <<>>]
        /\ UNCHANGED <<pc, step, request, dest, track>>
    BY <1>2 DEF Receive
  <1>6. /\ chan'[s][r] = <<>>
        /\ \A t, q \in Rank : t # s \/ q # r => chan'[t][q] = chan[t][q]
    <2>1. chan = [t \in Rank |-> [q \in Rank |-> chan[t][q]]]
      BY DEF IInv, Shapes
    <2>. QED
      BY <1>5, <2>1
  <1>. HIDE DEF buf, B
  <1>7. /\ \A b \in Kernels[r] : particles'[e][b] = particles[e][b] (+) Arriving(buf, b)
        /\ \A q \in Request, b \in BlockId :
             q # e \/ b \notin Kernels[r] => particles'[q][b] = particles[q][b]
    <2>1. particles = [q \in Request |-> [b \in BlockId |-> particles[q][b]]]
      BY DEF IInv, Shapes
    <2>2. Kernels[r] \subseteq BlockId
      BY KernelsAre
    <2> DEFINE new == [b \in BlockId |->
                 IF b \in Kernels[r] THEN particles[e][b] (+) Arriving(buf, b) ELSE particles[e][b]]
    <2>3. particles' = [particles EXCEPT ![e] = new]
      BY <1>5
    <2>4. /\ \A b \in Kernels[r] : new[b] = particles[e][b] (+) Arriving(buf, b)
          /\ \A b \in BlockId : b \notin Kernels[r] => new[b] = particles[e][b]
      BY <2>2
    <2>. HIDE DEF new
    <2>. QED
      BY <1>1, <2>1, <2>2, <2>3, <2>4
  <1>8. \A t \in Rank : Version(t)' = Version(t)
    BY <1>5 DEF Version
  <1>9. Content(home, r, e)'
    <2> PICK F, S : F = From(r, e) /\ S = Rank \ Senders(r)'
      OBVIOUS
    <2>1. Version(r) = w /\ ~ Old(r, e) /\ F = Rank \ Senders(r) /\ S = F \cup {s} /\ s \notin F
      <3>1. Version(r) = w
        BY <1>1 DEF Version
      <3>2. e \in Int
        BY <1>1 DEF Request
      <3>3. ~ Old(r, e)
        BY <1>1, <3>2 DEF Old
      <3>4. F = Rank \ Senders(r)
        BY <1>1 DEF From
      <3>5. Senders(r)' = Senders(r) \ {s}
        BY <1>6 DEF Senders
      <3>6. S = F \cup {s} /\ s \notin F
        BY <1>1, <3>4, <3>5
      <3>. QED
        BY <3>1, <3>3, <3>4, <3>6
    <2>2. Version(r)' = w /\ ~ Old(r, e)' /\ From(r, e)' = S
      BY <1>1, <1>5, <1>8, <2>1 DEF Old, From
    <2>3. ASSUME NEW b \in Kernels[r] PROVE Transferred(home, e, b, w, S)'
      <3>1. b \in BlockId /\ rank_from_id(b) = r
        BY KernelsAre
      <3> PICK old, new : /\ old = CopiesAt(b, SentFrom(home, e, w, F))
                          /\ new = CopiesAt(b, Sent(home, e, w, s))
        OBVIOUS
      <3>2. particles[e][b] = SetToBag(old)
        <4>1. Content(home, r, e)
          BY <1>1 DEF Held
        <4>2. Transferred(home, e, b, w, F)
          BY <2>1, <4>1 DEF Content
        <4>. QED
          BY <4>2 DEF Transferred
      <3>3. Arriving(buf, b) = SetToBag(new)
        <4>1. B \in SUBSET Target
          BY <1>1, SentIs DEF B
        <4>2. Arriving(buf, b) = SetToBag(CopiesAt(b, B))
          BY <1>4, <3>1, <4>1, ArrivingOnce
        <4>3. {u \in B : u.block = b} = {u \in Sent(home, e, w, s) : u.block = b}
          BY <3>1 DEF B
        <4>. QED
          BY <4>2, <4>3 DEF CopiesAt
      <3>4. old \cap new = {}
        <4> SUFFICES ASSUME NEW c \in old, c \in new PROVE FALSE
          OBVIOUS
        <4>1. /\ SentFrom(home, e, w, F) \in SUBSET Target /\ Sent(home, e, w, s) \in SUBSET Target
              /\ F \subseteq Rank
          BY <1>1, <2>1, SentIs DEF SentFrom
        <4> PICK t : t = [block |-> b, id |-> c.id, x |-> c.x]
          OBVIOUS
        <4>2. c \in Copy /\ t \in SentFrom(home, e, w, F) /\ t \in Sent(home, e, w, s)
          BY <3>1, <4>1, CopiesAtIs
        <4>3. PICK f \in F : t \in Sent(home, e, w, f)
          BY <4>2 DEF SentFrom
        <4>4. t \in Target /\ t.id \in Particle
          BY <4>1, <4>2 DEF Target
        <4>5. PICK x \in Kernels[f] : HomeAt(home, e, t.id, w, x)
          BY <1>1, <4>1, <4>3, <4>4, SentIs
        <4>6. PICK y \in Kernels[s] : HomeAt(home, e, t.id, w, y)
          BY <1>1, <4>2, <4>4, SentIs
        <4>7. x \in BlockId /\ y \in BlockId
          BY <4>1, KernelsAre
        <4>8. x = y
          BY <1>1, <4>4, <4>5, <4>6, <4>7, HomeUnique
        <4>9. f = s
          BY <4>1, <4>8, KernelsApart
        <4>. QED
          BY <2>1, <4>9
      <3>5. old \cup new = CopiesAt(b, SentFrom(home, e, w, S))
        <4>1. SentFrom(home, e, w, S) = SentFrom(home, e, w, F) \cup Sent(home, e, w, s)
          BY <2>1 DEF SentFrom
        <4> PICK G, H : /\ G = {u \in SentFrom(home, e, w, F) : u.block = b}
                        /\ H = {u \in Sent(home, e, w, s) : u.block = b}
          OBVIOUS
        <4>2. {u \in SentFrom(home, e, w, S) : u.block = b} = G \cup H
          BY <4>1
        <4>3. \A c :
                c \in {[id |-> t.id, x |-> t.x, inner |-> IsInnerPoint(b, t.x)] : t \in G \cup H} <=>
                \/ c \in {[id |-> t.id, x |-> t.x, inner |-> IsInnerPoint(b, t.x)] : t \in G}
                \/ c \in {[id |-> t.id, x |-> t.x, inner |-> IsInnerPoint(b, t.x)] : t \in H}
          OBVIOUS
        <4>. QED
          BY <4>2, <4>3 DEF CopiesAt
      <3>6. particles'[e][b] = SetToBag(old \cup new)
        BY <1>7, <3>2, <3>3, <3>4, PlusOnce
      <3>7. SentFrom(home, e, w, S)' = SentFrom(home, e, w, S)
        BY <1>5, TracksStay
      <3>. QED
        BY <3>5, <3>6, <3>7 DEF Transferred, CopiesAt
    <2>. QED
      BY <2>2, <2>3 DEF Content
  <1>10. ASSUME NEW t \in Rank, NEW q \in Request PROVE Content(home, t, q)'
    <2>1. CASE t = r /\ q = e
      BY <1>9, <2>1
    <2>2. CASE ~ (t = r /\ q = e)
      <3>1. Old(t, q)' <=> Old(t, q)
        BY <1>5 DEF Old
      <3>2. From(t, q)' = From(t, q)
        <4>1. CASE t = r
          BY <1>5, <2>2, <4>1 DEF From
        <4>2. CASE t # r
          <5>1. Senders(t)' = Senders(t)
            BY <1>6, <4>2 DEF Senders
          <5>. QED
            BY <1>5, <5>1 DEF From
        <4>. QED
          BY <4>1, <4>2
      <3>3. Content(home, t, q)
        BY DEF Held
      <3>4. \A b \in Kernels[t] : particles'[q][b] = particles[q][b]
        BY <1>7, <2>2, KernelsAre, KernelsApart
      <3>. QED
        BY <1>5, <1>8, <3>1, <3>2, <3>3, <3>4, ContentStays
    <2>. QED
      BY <2>1, <2>2
  <1>11. ASSUME NEW t \in Rank PROVE Message(home, t)'
    <2>1. Message(home, t)
      BY DEF Held
    <2>2. \A q \in Rank : chan'[t][q] = chan[t][q] \/ chan'[t][q] = <<>>
      BY <1>6
    <2>. QED
      BY <1>5, <2>1, <2>2, MessageStays
  <1>. QED
    BY <1>5, <1>8, <1>10, <1>11, HeldStays

\* When there is nothing more to come all ranks have sent what is there.
LEMMA EnterBarrierHeld ==
  ASSUME IInv, NEW home \in Homes, Held(home), NEW r \in Rank, EnterBarrier(r)
  PROVE  Held(home)'
  <1>1. /\ pc[r] = "receive" /\ pc' = [pc EXCEPT ![r] = "leaving"] /\ left[r] = 0
        /\ UNCHANGED <<step, request, particles, chan, dest, track>>
    BY DEF EnterBarrier, Goto
  <1>2. pc'[r] = "leaving" /\ \A s \in Rank \ {r} : pc'[s] = pc[s]
    BY <1>1 DEF IInv, TypeOK
  <1>3. Senders(r) = {}
    <2>1. IsFiniteSet(Senders(r))
      BY RanksAreFinite, FS_Subset DEF Senders
    <2>2. Cardinality(Senders(r)) = 0
      BY <1>1 DEF IInv, ToCome
    <2>. QED
      BY <2>1, <2>2, FS_EmptySet
  <1>4. \A s \in Rank : Version(s)' = Version(s)
    BY <1>1, <1>2 DEF Version
  <1>5. ASSUME NEW s \in Rank, NEW q \in Request PROVE Content(home, s, q)'
    <2>1. Old(s, q)' <=> Old(s, q)
      BY <1>1, <1>2 DEF Old
    <2>2. From(s, q)' = From(s, q)
      <3>1. CASE s = r
        BY <1>1, <1>2, <1>3, <3>1 DEF From
      <3>2. CASE s # r
        BY <1>1, <1>2, <3>2 DEF From, Senders
      <3>. QED
        BY <3>1, <3>2
    <2>3. Content(home, s, q)
      BY DEF Held
    <2>. QED
      BY <1>1, <1>4, <2>1, <2>2, <2>3, ContentStays
  <1>6. ASSUME NEW s \in Rank PROVE Message(home, s)'
    <2>1. Message(home, s)
      BY DEF Held
    <2>. QED
      BY <1>1, <1>2, <2>1, MessageStays
  <1>. QED
    BY <1>1, <1>4, <1>5, <1>6, HeldStays

\* The next request or step finds the lists as they are.
LEMMA LeaveBarrierHeld ==
  ASSUME IInv, NEW home \in Homes, Held(home), NEW r \in Rank, LeaveBarrier(r)
  PROVE  Held(home)'
  <1>1. /\ pc[r] = "leaving"
        /\ UNCHANGED <<particles, chan, dest, track>>
        /\ \/ /\ request[r] < nreq
              /\ pc' = [pc EXCEPT ![r] = "send"]
              /\ request' = [request EXCEPT ![r] = @ + 1]
              /\ step' = step
           \/ /\ ~ (request[r] < nreq)
              /\ pc' = [pc EXCEPT ![r] = "move"]
              /\ request' = [request EXCEPT ![r] = 1]
              /\ step' = [step EXCEPT ![r] = @ + 1]
    BY DEF LeaveBarrier, NextRequest, Goto
  <1>2. request[r] \in 1 .. nreq /\ step[r] \in Nat /\ nreq \in Nat
    BY ParticleAssumption DEF IInv, TypeOK, Request
  <1>3. /\ \A s \in Rank \ {r} : pc'[s] = pc[s] /\ step'[s] = step[s] /\ request'[s] = request[s]
        /\ \/ request[r] < nreq /\ pc'[r] = "send" /\ request'[r] = request[r] + 1 /\ step'[r] = step[r]
           \/ ~ (request[r] < nreq) /\ pc'[r] = "move" /\ step'[r] = step[r] + 1
    BY <1>1 DEF IInv, TypeOK
  <1>4. \A s \in Rank : Version(s)' = Version(s)
    BY <1>1, <1>2, <1>3 DEF Version
  <1>5. ASSUME NEW s \in Rank, NEW q \in Request PROVE Content(home, s, q)'
    <2>1. q \in 1 .. nreq
      BY DEF Request
    <2>2. Old(s, q)' <=> Old(s, q)
      BY <1>1, <1>2, <1>3, <2>1 DEF Old
    <2>3. From(s, q)' = From(s, q)
      BY <1>1, <1>3 DEF From, Senders
    <2>4. Content(home, s, q)
      BY DEF Held
    <2>. QED
      BY <1>1, <1>4, <2>2, <2>3, <2>4, ContentStays
  <1>6. ASSUME NEW s \in Rank PROVE Message(home, s)'
    <2>1. CASE s = r
      BY <1>3, <2>1 DEF Message
    <2>2. CASE s # r
      <3>1. Message(home, s)
        BY DEF Held
      <3>. QED
        BY <1>1, <1>3, <2>2, <3>1, MessageStays
    <2>. QED
      BY <2>1, <2>2
  <1>. QED
    BY <1>1, <1>4, <1>5, <1>6, HeldStays

-----------------------------------------------------------------------------
\* A position is not the one of a particle that is gone.
LEMMA NotGone ==
  ASSUME NEW x \in Vectors
  PROVE  x # Gone
  BY DomainAssumption DEF Vectors, Gone, Axis

\* The particles are seeded inside of the domain.
SeedsInside == \A x \in Starts : IsInside(x)

\* Initially all lists are the first version, and the copies are all inner ones.
LEMMA InitHeld ==
  ASSUME Init, SeedsInside
  PROVE  CInv
  <1> PICK x \in [Request \X Particle -> Starts], home \in [Request \X Particle -> BlockId] :
         /\ particles = [q \in Request |-> [b \in BlockId |->
              SetToBag({[id |-> p, x |-> x[<<q, p>>], inner |-> TRUE] :
                          p \in {k \in Particle : home[<<q, k>>] = b}})]]
         /\ track = [q \in Request |-> [p \in Particle |-> <<x[<<q, p>>]>>]]
    BY DEF Init
  <1>1. ASSUME NEW q \in Request, NEW p \in Particle
        PROVE  /\ x[<<q, p>>] \in Vectors /\ x[<<q, p>>] # Gone /\ IsInside(x[<<q, p>>])
               /\ track[q][p] = <<x[<<q, p>>]>> /\ track[q][p][1] = x[<<q, p>>]
               /\ Len(track[q][p]) = 1 /\ track[q][p] \in Seq(Vectors \cup {Gone})
               /\ \A k : Kept(q, p, k) <=> k = 1
               /\ \A b : HomeAt(home, q, p, 1, b) <=> home[<<q, p>>] = b
    <2> PICK y : y = x[<<q, p>>]
      OBVIOUS
    <2>1. y \in Starts
      OBVIOUS
    <2>2. y \in Vectors /\ IsInside(y)
      BY <2>1, ParticleAssumption DEF SeedsInside, Vectors
    <2>3. y # Gone
      BY <2>2, NotGone
    <2>4. track[q][p] = <<y>>
      OBVIOUS
    <2>5. Len(<<y>>) = 1 /\ <<y>>[1] = y /\ <<y>> \in Seq(Vectors \cup {Gone})
      BY <2>2
    <2>6. \A k : Kept(q, p, k) <=> k = 1
      BY <2>3, <2>4, <2>5 DEF Kept
    <2>7. \A b : HomeAt(home, q, p, 1, b) <=> home[<<q, p>>] = b
      BY DEF HomeAt
    <2>. QED
      BY <2>2, <2>3, <2>4, <2>5, <2>6, <2>7
  <1>2. \A r \in Rank : pc[r] = "send" /\ step[r] = 1 /\ request[r] = 1 /\ Version(r) = 1
    BY DEF Init, Version
  <1>3. Walked
    <2>1. track \in [Request -> [Particle -> Seq(Vectors \cup {Gone})]]
      BY <1>1
    <2>. QED
      BY <1>1, <2>1 DEF Walked
  <1>4. Housed(home)
    <2> SUFFICES ASSUME NEW q \in Request, NEW p \in Particle, NEW k \in 1 .. Len(track[q][p])
                 PROVE  \E b \in BlockId : HomeAt(home, q, p, k, b)
      BY DEF Housed
    <2>1. k = 1 /\ home[<<q, p>>] \in BlockId
      BY <1>1
    <2>. QED
      BY <1>1, <2>1
  <1>5. UpToDate(home)
    <2> SUFFICES ASSUME NEW q \in Request, NEW p \in Particle, NEW k \in Nat \ {0}, NEW b \in BlockId
                 PROVE  k <= Len(track[q][p]) <=> k <= Version(rank_from_id(b))
      BY DEF UpToDate
    <2>1. Version(rank_from_id(b)) = 1
      BY <1>2, KernelsAre
    <2>. QED
      BY <1>1, <2>1
  <1>6. ASSUME NEW r \in Rank, NEW q \in Request PROVE Content(home, r, q)
    <2>1. Old(r, q)
      BY <1>2 DEF Old, Request
    <2>2. ASSUME NEW b \in Kernels[r] PROVE Unmoved(home, q, b, 1)
      <3>1. b \in BlockId
        BY KernelsAre
      <3> DEFINE P == {k \in Particle : home[<<q, k>>] = b}
                 c == [p \in P |-> [id |-> p, x |-> x[<<q, p>>], inner |-> TRUE]]
                 C == {c[p] : p \in P}
      <3>2. particles[q][b] = SetToBag(C)
        BY <3>1
      <3>3. Homed(home, q, 1, b) = C
        <4>1. {o \in Particle : Kept(q, o, 1) /\ HomeAt(home, q, o, 1, b)} = P
          BY <1>1
        <4>2. \A p \in P : At(q, p, 1) = c[p]
          BY <1>1 DEF At
        <4>3. {At(q, p, 1) : p \in P} = {c[p] : p \in P}
          BY <4>2
        <4>. HIDE DEF P, c
        <4>. QED
          BY <4>1, <4>3 DEF Homed
      <3>4. \A p \in P : c[p].inner = TRUE
        OBVIOUS
      <3>5. \A a \in C : a.inner = TRUE
        <4>. HIDE DEF c, P
        <4>. QED
          BY <3>4
      <3>. HIDE DEF c, P, C
      <3>6. DOMAIN particles[q][b] = C /\ \A a \in C : particles[q][b][a] = 1
        BY <3>2 DEF SetToBag
      <3>7. InnerOf(particles[q][b]) = C
        BY <3>5, <3>6 DEF InnerOf
      <3>. QED
        BY <3>3, <3>6, <3>7 DEF Unmoved
    <2>. QED
      BY <1>2, <2>1, <2>2 DEF Content
  <1>7. \A s \in Rank : Message(home, s)
    BY <1>2 DEF Message
  <1>8. Held(home)
    BY <1>2, <1>3, <1>4, <1>5, <1>6, <1>7 DEF Held
  <1>. QED
    BY <1>8 DEF CInv, Homes

LEMMA StepHeld ==
  ASSUME IInv, CInv, [Next]_vars
  PROVE  CInv'
  <1> PICK home \in Homes : Held(home)
    BY DEF CInv
  <1>1. ASSUME NEW r \in Rank, Step(r) PROVE Held(home)'
    BY <1>1, MoveHeld, SendHeld, LeaveReduceHeld, ReceiveHeld, EnterBarrierHeld, LeaveBarrierHeld
    DEF Step
  <1>2. ASSUME UNCHANGED vars PROVE Held(home)'
    <2>1. UNCHANGED <<pc, step, request, particles, chan, dest, track>>
      BY <1>2 DEF vars
    <2>2. /\ \A s \in Rank : Version(s)' = Version(s)
          /\ \A s \in Rank, q \in Request : (Old(s, q)' <=> Old(s, q)) /\ From(s, q)' = From(s, q)
      BY <2>1 DEF Version, Old, From, Senders
    <2>3. \A s \in Rank, q \in Request : Content(home, s, q)'
      BY <2>1, <2>2, ContentStays DEF Held
    <2>4. \A s \in Rank : Message(home, s)'
      BY <2>1, MessageStays DEF Held
    <2>. QED
      BY <2>1, <2>2, <2>3, <2>4, HeldStays
  <1>3. Held(home)'
    BY <1>1, <1>2 DEF Next, Halted
  <1>. QED
    BY <1>3 DEF CInv

LEMMA ContentInvariant ==
  ASSUME SeedsInside
  PROVE  Spec => [](IInv /\ CInv)
  <1>1. Init => IInv /\ CInv
    BY InitInv, InitHeld
  <1>2. IInv /\ CInv /\ [Next]_vars => (IInv /\ CInv)'
    BY StepInv, StepHeld
  <1>. QED
    BY <1>1, <1>2, PTL DEF Spec

-----------------------------------------------------------------------------
(***************************************************************************)
(* The theorems on the contents of the lists.                              *)
(***************************************************************************)
\* What a block has after a transfer, said without messages, is what has been sent to it.
LEMMA ExpectedIs ==
  ASSUME Walked, NEW home \in Homes, Housed(home), NEW q \in Request, NEW k, NEW b \in BlockId
  PROVE  Expected(q, b, k) = SetToBag(CopiesAt(b, SentFrom(home, q, k, Rank)))
  <1> DEFINE copy(p, y) == [id |-> p, x |-> y, inner |-> IsInnerPoint(b, y)]
             kept == {o \in Particle : Position(q, o, k) # Gone}
             near(p) == {y \in Images(Position(q, p, k)) : WithinHalo(b, y)}
             E == UNION {{copy(p, y) : y \in near(p)} : p \in kept}
  <1>1. ASSUME NEW p \in Particle
        PROVE  /\ p \in kept <=> Kept(q, p, k)
               /\ Kept(q, p, k) => near(p) = Near(b, track[q][p][k])
    <2>1. track[q][p] \in Seq(Vectors \cup {Gone})
      BY DEF Walked
    <2>2. DOMAIN track[q][p] = 1 .. Len(track[q][p])
      BY <2>1
    <2>3. Position(q, p, k) # Gone <=> Kept(q, p, k)
      BY <2>2 DEF Position, Kept
    <2>4. ASSUME Kept(q, p, k) PROVE near(p) = Near(b, track[q][p][k])
      <3>1. Position(q, p, k) = track[q][p][k]
        BY <2>2, <2>4 DEF Position, Kept
      <3>2. track[q][p][k] \in Vectors /\ IsInside(track[q][p][k])
        BY <2>4, KeptIs
      <3>. QED
        BY <3>1, <3>2, ImagesAreNear
    <2>. QED
      BY <2>3, <2>4
  <1>. HIDE DEF near, kept
  <1>2. kept \subseteq Particle
    BY DEF kept
  <1>3. ASSUME NEW c \in E PROVE c \in CopiesAt(b, SentFrom(home, q, k, Rank))
    <2>1. PICK p \in kept : \E y \in near(p) : c = copy(p, y)
      OBVIOUS
    <2>2. PICK y \in near(p) : c = copy(p, y)
      BY <2>1
    <2>3. p \in Particle /\ Kept(q, p, k) /\ y \in Near(b, track[q][p][k])
      BY <1>1, <1>2
    <2>4. y \in Vectors /\ IsInnerPoint(b, y) \in BOOLEAN
      BY <2>3 DEF Near, IsInnerPoint
    <2>5. c \in Copy /\ c.id = p /\ c.x = y /\ c.inner = IsInnerPoint(b, y)
      BY <2>2, <2>3, <2>4 DEF Copy
    <2>. QED
      BY <2>3, <2>5, LandedIs
  <1>4. ASSUME NEW c \in CopiesAt(b, SentFrom(home, q, k, Rank)) PROVE c \in E
    <2>1. /\ c \in Copy /\ c.inner = IsInnerPoint(b, c.x)
          /\ Kept(q, c.id, k) /\ c.x \in Near(b, track[q][c.id][k])
      BY LandedIs
    <2>2. c = copy(c.id, c.x) /\ c.id \in Particle
      BY <2>1 DEF Copy
    <2>3. c.id \in kept /\ c.x \in near(c.id)
      BY <1>1, <2>1, <2>2
    <2>. QED
      BY <2>2, <2>3
  <1>5. E = CopiesAt(b, SentFrom(home, q, k, Rank))
    BY <1>3, <1>4
  <1>6. Expected(q, b, k) = SetToBag(E)
    BY DEF Expected, kept, near
  <1>. QED
    BY <1>5, <1>6

\* Whatever the mesh, the particles, which are seeded inside of the domain, their motion,
\* the radius of the halo and the order of the messages: after a transfer every block has a
\* copy of every particle and periodic image within its halo, once, and no other ones
\* (TransferParticlesMpi).
THEOREM CopiesAreComplete ==
  ASSUME SeedsInside
  PROVE  Spec => []CopiesComplete
  <1>1. ASSUME IInv, CInv PROVE CopiesComplete
    <2> SUFFICES ASSUME NEW r \in Rank, pc[r] = "move", NEW q \in Request, NEW b \in Kernels[r]
                 PROVE  particles[q][b] = Expected(q, b, step[r] - 1)
      BY DEF CopiesComplete
    <2> PICK home \in Homes : Held(home)
      BY <1>1 DEF CInv
    <2>1. /\ ~ Old(r, q) /\ From(r, q) = Rank /\ Version(r) = step[r] - 1
          /\ Walked /\ Housed(home) /\ b \in BlockId
      BY KernelsAre DEF Old, From, Version, Held
    <2>2. Transferred(home, q, b, step[r] - 1, Rank)
      BY <2>1 DEF Held, Content
    <2>. QED
      BY <2>1, <2>2, ExpectedIs DEF Transferred
  <1>. QED
    BY <1>1, ContentInvariant, PTL

\* The blocks a particle is at home in next are its owners.
LEMMA OwnersAre ==
  ASSUME IInv, NEW home \in Homes, Held(home), \A r \in Rank : pc[r] = "move",
         NEW q \in Request, NEW p \in Particle, LastOf(q, p) # Gone
  PROVE  /\ LastOf(q, p) \in Vectors /\ IsInside(LastOf(q, p))
         /\ OnUpperWall(LastOf(q, p)) => Owners(q, p) = {}
         /\ ~ OnUpperWall(LastOf(q, p)) => \E b \in BlockId : Owners(q, p) = {b}
  <1> PICK k : k = Len(track[q][p])
    OBVIOUS
  <1> DEFINE x == LastOf(q, p)
  <1>1. Walked /\ Housed(home) /\ UpToDate(home)
    BY DEF Held
  <1>2. k \in Nat \ {0} /\ Kept(q, p, k) /\ x = track[q][p][k] /\ x \in Vectors /\ IsInside(x)
    <2>1. track[q][p] \in Seq(Vectors \cup {Gone}) /\ k > 0
      BY <1>1 DEF Walked
    <2>2. Kept(q, p, k) /\ x = track[q][p][k]
      BY <2>1 DEF Kept, LastOf
    <2>. QED
      BY <1>1, <2>2, KeptIs
  <1>. HIDE DEF x
  <1>3. \A e \in BlockId : HomeAt(home, q, p, k + 1, e) <=> IsInnerPoint(e, Wrapped(x))
    <2>1. k + 1 # 1 /\ (k + 1) - 1 = k
      BY <1>2
    <2>. QED
      BY <1>2, <2>1 DEF HomeAt
  <1>4. PICK a \in BlockId : HomeAt(home, q, p, k, a)
    BY <1>1, <1>2 DEF Housed, Kept
  <1> PICK v : v = Version(rank_from_id(a))
    OBVIOUS
  <1>5. rank_from_id(a) \in Rank /\ v \in Nat /\ k <= v
    <2>1. rank_from_id(a) \in Rank
      BY KernelsAre
    <2>2. v \in Int /\ v >= 1
      BY <2>1 DEF IInv, TypeOK, Version, Held
    <2>3. k <= k <=> k <= v
      BY <1>1, <1>2, <1>4 DEF UpToDate
    <2>. QED
      BY <1>2, <2>1, <2>2, <2>3
  <1>6. \A r \in Rank : Version(r) = v
    <2>1. \A r \in Rank : pc[r] \notin {"send", "reducing"}
      OBVIOUS
    <2>. QED
      BY <1>5, <2>1, VersionsNear
  <1>7. ASSUME NEW b \in BlockId PROVE b \in Owners(q, p) <=> HomeAt(home, q, p, v + 1, b)
    <2> PICK r \in Rank : b \in Kernels[r]
      BY KernelsAre
    <2>1. Arrived(home, r, q, v)
      BY <1>6, HasArrived
    <2>2. ASSUME b \in Owners(q, p) PROVE HomeAt(home, q, p, v + 1, b)
      <3> PICK c \in DOMAIN particles[q][b] : c.id = p /\ c.inner
        BY <2>2 DEF Owners
      <3>1. c \in InnerOf(particles[q][b])
        BY DEF InnerOf
      <3>. QED
        BY <2>1, <3>1 DEF Arrived
    <2>3. ASSUME HomeAt(home, q, p, v + 1, b) PROVE b \in Owners(q, p)
      <3> PICK c : c = [id |-> p, x |-> Wrapped(track[q][p][v]), inner |-> TRUE]
        OBVIOUS
      <3>1. c \in InnerOf(particles[q][b]) /\ c.id = p
        BY <2>1, <2>3 DEF Arrived
      <3>. QED
        BY <3>1 DEF Owners, InnerOf
    <2>. QED
      BY <2>2, <2>3
  <1>8. Owners(q, p) \subseteq BlockId
    BY DEF Owners
  <1>9. ASSUME NEW b \in BlockId, HomeAt(home, q, p, v + 1, b)
        PROVE  v = k /\ IsInnerPoint(b, Wrapped(x))
    <2>1. v + 1 # 1 /\ (v + 1) - 1 = v
      BY <1>2, <1>5
    <2>2. Kept(q, p, v)
      BY <1>9, <2>1 DEF HomeAt
    <2>3. v <= k
      BY <1>1, <2>2, KeptIs
    <2>4. v = k
      BY <1>2, <1>5, <2>3
    <2>. QED
      BY <1>3, <1>9, <2>4
  <1>10. Wrapped(x) \in Vectors
    BY <1>2, WrappedIs
  <1>11. ASSUME OnUpperWall(x) PROVE Owners(q, p) = {}
    <2> SUFFICES ASSUME NEW b \in BlockId, IsInnerPoint(b, Wrapped(x)) PROVE FALSE
      BY <1>7, <1>8, <1>9
    <2> PICK d \in Axis : ~ is_periodic[d] /\ x[d] = globalsize[d]
      BY <1>11 DEF OnUpperWall
    <2>1. Wrapped(x)[d] = globalsize[d] /\ globalsize[d] \in Int
      BY SizesOfMesh DEF Wrapped
    <2>2. Wrapped(x)[d] < globalsize[d]
      BY <1>10, InnerIs
    <2>. QED
      BY <2>1, <2>2
  <1>12. ASSUME ~ OnUpperWall(x) PROVE \E b \in BlockId : Owners(q, p) = {b}
    <2>1. ASSUME NEW d \in Axis PROVE 0 <= Wrapped(x)[d] /\ Wrapped(x)[d] < globalsize[d]
      <3>1. /\ 0 <= Wrapped(x)[d] /\ Wrapped(x)[d] <= globalsize[d]
            /\ is_periodic[d] => Wrapped(x)[d] < globalsize[d]
            /\ Wrapped(x)[d] \in Int /\ globalsize[d] \in Int
        BY <1>2, <1>10, WrappedIs, SizesOfMesh DEF Vectors
      <3>2. ~ is_periodic[d] => Wrapped(x)[d] = x[d] /\ x[d] # globalsize[d]
        BY <1>12 DEF Wrapped, OnUpperWall
      <3>. QED
        BY <3>1, <3>2
    <2>2. PICK b \in BlockId : IsInnerPoint(b, Wrapped(x))
      BY <1>10, <2>1, BlockExists
    <2>3. HomeAt(home, q, p, k + 1, b)
      BY <1>3, <2>2
    <2>4. v = k
      <3>1. k + 1 <= k <=> k + 1 <= Version(rank_from_id(b))
        BY <1>1, <1>2, <2>3 DEF UpToDate
      <3>2. Version(rank_from_id(b)) = v
        BY <1>6, KernelsAre
      <3>. QED
        BY <1>2, <1>5, <3>1, <3>2
    <2>5. \A e \in BlockId : e \in Owners(q, p) <=> e = b
      BY <1>3, <1>7, <1>10, <2>2, <2>4, BlockUnique
    <2>. QED
      BY <1>8, <2>5
  <1>. QED
    BY <1>2, <1>11, <1>12 DEF x

\* Likewise a particle that has not been removed is owned by exactly one block when all ranks
\* have finished a transfer, or, on a wall that bounds the domain from above, by none: there
\* Particles::Step keeps it, and IsInnerPoint of no block takes it.
THEOREM OwnersCounted ==
  ASSUME SeedsInside
  PROVE  Spec => []KeptParticlesStay
  <1>1. ASSUME IInv, CInv PROVE KeptParticlesStay
    <2> SUFFICES ASSUME \A r \in Rank : pc[r] = "move", NEW q \in Request, NEW p \in Particle,
                        LastOf(q, p) # Gone
                 PROVE  Cardinality(Owners(q, p)) = IF OnUpperWall(LastOf(q, p)) THEN 0 ELSE 1
      BY DEF KeptParticlesStay
    <2> PICK home \in Homes : Held(home)
      BY <1>1 DEF CInv
    <2>1. /\ OnUpperWall(LastOf(q, p)) => Owners(q, p) = {}
          /\ ~ OnUpperWall(LastOf(q, p)) => \E b \in BlockId : Owners(q, p) = {b}
      BY <1>1, OwnersAre
    <2>2. Cardinality({}) = 0
      BY FS_EmptySet
    <2>3. \A b \in BlockId : Cardinality({b}) = 1
      BY FS_Singleton
    <2>. QED
      BY <2>1, <2>2, <2>3
  <1>. QED
    BY <1>1, ContentInvariant, PTL
=============================================================================
