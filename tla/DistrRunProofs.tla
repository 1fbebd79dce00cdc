--------------------------- MODULE DistrRunProofs ---------------------------
(***************************************************************************)
(* Proofs about the scheduler, for all numbers of ranks and blocks, ids,    *)
(* kernels and splits of blocks that the assumptions of DistrRun allow.     *)
(*                                                                         *)
(* Blocks choose their stages by what they find in their buffers.  So the   *)
(* invariant says what each stage has found: the numbers that the stage     *)
(* before has left (Found), which are the same in all blocks (SameFound)    *)
(* because a reduction is over before any block of the rank runs again, and *)
(* takes what all blocks of all ranks gave in that stage.  That it does     *)
(* rests on the order of MPI calls (SameCalls): a call is named by the      *)
(* stage and by how many operations are left, ranks make the calls of their *)
(* stages in this order without missing one, and the stages are the same.   *)
(* Each of the three needs the two others.                                  *)
(*                                                                         *)
(* A second invariant (RInv) follows the other buffers from the stage that  *)
(* has filled them to the operation that is due, and from there to the end  *)
(* of the iteration.                                                        *)
(***************************************************************************)
EXTENDS DistrRun, SequenceTheorems, FiniteSetTheorems, WellFoundedInduction, TLAPS

(***************************************************************************)
(* Least and greatest elements, and induction over an interval.            *)
(***************************************************************************)

\* Min finds the least element of a set of numbers.
LEMMA MinIsLeast ==
  ASSUME NEW S \in SUBSET Nat, S # {}
  PROVE  /\ Min(S) \in S
         /\ \A y \in S : Min(S) <= y
  <1> DEFINE Less == {ss \in Nat \X Nat : ss[1] < ss[2]}
  <1>1. IsWellFoundedOn(Less, Nat)
    BY NatLessThanWellFounded, SMT DEF OpToRel
  <1>. HIDE DEF Less
  <1>2. PICK x \in S : \A y \in S : <<y, x>> \notin Less
    BY <1>1, WFMin
  <1>3. ASSUME NEW y \in S, y < x PROVE FALSE
    <2>1. <<y, x>> \in Nat \X Nat /\ <<y, x>>[1] < <<y, x>>[2]
      BY <1>3
    <2>. QED
      BY <2>1, <1>2, Zenon DEF Less
  <1>4. \A y \in S : x <= y
    BY <1>3
  <1>. QED
    BY <1>4 DEF Min

\* A finite set has an element with the greatest value.
LEMMA FiniteHasGreatest ==
  ASSUME NEW S, IsFiniteSet(S), S # {}, NEW f, \A x \in S : f[x] \in Int
  PROVE  \E x \in S : \A y \in S : f[y] <= f[x]
  <1> DEFINE Greatest(U) == \E x \in U : \A y \in U : f[y] <= f[x]
             Sizes == {k \in Nat : \E U \in SUBSET S : U # {} /\ Cardinality(U) = k /\ ~Greatest(U)}
  <1> SUFFICES ASSUME ~Greatest(S) PROVE FALSE
    OBVIOUS
  <1>1. Cardinality(S) \in Sizes
    BY FS_CardinalityType
  <1>2. PICK k \in Sizes : \A l \in Sizes : k <= l
    <2>1. Sizes \in SUBSET Nat /\ Sizes # {}
      BY <1>1
    <2>. HIDE DEF Sizes
    <2>. QED
      BY <2>1, MinIsLeast
  <1>3. PICK U \in SUBSET S : U # {} /\ Cardinality(U) = k /\ ~Greatest(U)
    BY <1>2
  <1>4. PICK u \in U : TRUE
    BY <1>3
  <1>5. IsFiniteSet(U)
    BY FS_Subset
  <1> DEFINE V == U \ {u}
  <1>6. Cardinality(V) = k - 1 /\ k \in Nat
    BY <1>3, <1>4, <1>5, FS_RemoveElement
  <1>7. IsFiniteSet(V)
    BY <1>5, FS_RemoveElement
  <1>8. Cardinality(V) \in Nat
    BY <1>7, FS_CardinalityType
  <1>9. CASE V = {}
    <2>1. \A y \in U : y = u
      BY <1>9
    <2>2. f[u] <= f[u]
      BY <1>4
    <2>. QED
      BY <1>3, <1>4, <2>1, <2>2
  <1>10. CASE V # {}
    <2>1. k - 1 \notin Sizes
      BY <1>2, <1>6
    <2>2. Greatest(V)
      BY <2>1, <1>6, <1>8, <1>10, <1>3
    <2>3. PICK v \in V : \A y \in V : f[y] <= f[v]
      BY <2>2
    <2>4. f[u] \in Int /\ f[v] \in Int /\ \A y \in V : f[y] \in Int
      BY <1>3, <1>4, <2>3
    <2>5. CASE f[u] <= f[v]
      <3>1. \A y \in U : f[y] <= f[v]
        BY <2>3, <2>5
      <3>. QED
        BY <3>1, <2>3, <1>3
    <2>6. CASE f[v] <= f[u]
      <3>1. \A y \in V : f[y] <= f[u]
        BY <2>3, <2>4, <2>6
      <3>2. \A y \in U : f[y] <= f[u]
        BY <3>1, <2>4
      <3>. QED
        BY <3>2, <1>4, <1>3
    <2>. QED
      BY <2>4, <2>5, <2>6
  <1>. QED
    BY <1>9, <1>10

\* Induction over an interval, for a set in place of a predicate.
LEMMA IntervalInduction ==
  ASSUME NEW n \in Nat, NEW Good, 0 \in Good,
         \A k \in 1 .. n : k - 1 \in Good => k \in Good
  PROVE  \A k \in 0 .. n : k \in Good
  <1> DEFINE Bad == {k \in 0 .. n : k \notin Good}
  <1> SUFFICES ASSUME Bad # {} PROVE FALSE
    OBVIOUS
  <1>1. Bad \in SUBSET Nat
    OBVIOUS
  <1>2. \A k \in Bad : k \in 0 .. n /\ k \notin Good
    OBVIOUS
  <1>3. \A k \in 0 .. n : k \notin Bad => k \in Good
    OBVIOUS
  <1>. HIDE DEF Bad
  <1>4. PICK k \in Bad : \A l \in Bad : k <= l
    BY <1>1, MinIsLeast
  <1>5. k \in 1 .. n
    BY <1>2
  <1>6. k - 1 \in Good
    BY <1>3, <1>4, <1>5
  <1>. QED
    BY <1>2, <1>5, <1>6

-----------------------------------------------------------------------------
(***************************************************************************)
(* Sequences of anything, and greatest numbers.                            *)
(***************************************************************************)
IsSeq(s) == \E S : s \in Seq(S)

\* The domain of a sequence.
LEMMA SeqIs ==
  ASSUME NEW s, IsSeq(s)
  PROVE  /\ Len(s) \in Nat /\ DOMAIN s = 1 .. Len(s)
         /\ s = <<>> <=> Len(s) = 0
         /\ s # <<>> => Last(s) = s[Len(s)] /\ Head(s) = s[1] /\ Len(s) \in DOMAIN s
  <1>1. PICK S : s \in Seq(S)
    BY DEF IsSeq
  <1>. QED
    BY <1>1 DEF Last

\* The empty sequence is one.
LEMMA NoneIsSeq == IsSeq(<<>>)
  BY DEF IsSeq

\* A sequence to which something is appended.
LEMMA Appended ==
  ASSUME NEW s, IsSeq(s), NEW e
  PROVE  LET t == Append(s, e) IN
         /\ IsSeq(t) /\ Len(t) = Len(s) + 1 /\ DOMAIN t = 1 .. Len(s) + 1 /\ t # <<>>
         /\ \A i \in 1 .. Len(s) : t[i] = s[i]
         /\ t[Len(s) + 1] = e /\ Last(t) = e
  <1>1. PICK S : s \in Seq(S)
    BY DEF IsSeq
  <1>2. s \in Seq(S \cup {e}) /\ e \in S \cup {e}
    BY <1>1, SeqMonotonic
  <1>3. Append(s, e) \in Seq(S \cup {e})
    BY <1>2, AppendProperties
  <1>4. /\ Len(Append(s, e)) = Len(s) + 1 /\ Append(s, e)[Len(s) + 1] = e
        /\ \A i \in 1 .. Len(s) : Append(s, e)[i] = s[i]
        /\ Append(s, e) # <<>>
    BY <1>2, AppendProperties
  <1>5. IsSeq(Append(s, e))
    BY <1>3 DEF IsSeq
  <1>. QED
    BY <1>4, <1>5, SeqIs

\* A sequence of which one element is replaced.
With(s, i, e) == [s EXCEPT ![i] = e]

LEMMA Replaced ==
  ASSUME NEW s, IsSeq(s), NEW i \in DOMAIN s, NEW e
  PROVE  LET t == With(s, i, e) IN
         /\ IsSeq(t) /\ Len(t) = Len(s) /\ DOMAIN t = DOMAIN s
         /\ \A j \in DOMAIN s : t[j] = IF j = i THEN e ELSE s[j]
  <1>1. PICK S : s \in Seq(S)
    BY DEF IsSeq
  <1>2. s \in Seq(S \cup {e}) /\ e \in S \cup {e} /\ i \in 1 .. Len(s)
    BY <1>1, SeqMonotonic, SeqIs
  <1>3. /\ [s EXCEPT ![i] = e] \in Seq(S \cup {e})
        /\ Len([s EXCEPT ![i] = e]) = Len(s)
    BY <1>2, ExceptSeq
  <1>4. IsSeq([s EXCEPT ![i] = e])
    BY <1>3 DEF IsSeq
  <1>. QED
    BY <1>3, <1>4 DEF With

\* The greatest of the values of a function.
LEMMA GreatestIs ==
  ASSUME NEW S, IsFiniteSet(S), S # {}, NEW f, \A x \in S : f[x] \in Nat
  PROVE  LET T == {f[x] : x \in S}
         IN  Max(T) \in T /\ Max(T) \in Nat /\ \A y \in T : y <= Max(T)
  <1> DEFINE T == {f[x] : x \in S}
  <1>1. PICK x \in S : \A y \in S : f[y] <= f[x]
    BY FiniteHasGreatest
  <1>2. f[x] \in T /\ \A y \in T : f[x] >= y
    BY <1>1
  <1>3. Max(T) \in T /\ \A y \in T : Max(T) >= y
    <2>. HIDE DEF T
    <2>. QED
      BY <1>2 DEF Max
  <1>4. T \in SUBSET Nat
    OBVIOUS
  <1>. HIDE DEF T
  <1>5. Max(T) \in Nat
    BY <1>3, <1>4
  <1>6. \A y \in T : y <= Max(T)
    BY <1>3, <1>4, <1>5
  <1>. QED
    BY <1>3, <1>5, <1>6 DEF T

\* There is one greatest number.
LEMMA GreatestUnique ==
  ASSUME NEW T \in SUBSET Nat, NEW x \in T, \A y \in T : y <= x
  PROVE  Max(T) = x
  <1>1. Max(T) \in T /\ \A y \in T : Max(T) >= y
    <2>1. \A y \in T : x >= y
      OBVIOUS
    <2>. QED
      BY <2>1 DEF Max
  <1>2. Max(T) >= x /\ Max(T) <= x /\ Max(T) \in Nat /\ x \in Nat
    BY <1>1
  <1>. QED
    BY <1>2

-----------------------------------------------------------------------------
(***************************************************************************)
(* The setup.                                                              *)
(***************************************************************************)
SetupChosen == \E s \in Setups : kernel = s.kernel /\ early = s.early /\ late = s.late

\* The stages of the kernel.
LEMMA KernelIs ==
  ASSUME SetupChosen
  PROVE  /\ Len(kernel) \in Nat \ {0} /\ DOMAIN kernel = 1 .. Len(kernel) /\ 1 \in DOMAIN kernel
         /\ ~kernel[1].scatter
         /\ \A i \in DOMAIN kernel :
              /\ kernel[i] \in Stage /\ kernel[i].again <= i
              /\ kernel[i].again # 0 /\ kernel[i].shared => kernel[i].by = "reduced"
              /\ IsInjective(kernel[i].reduce)
  <1>1. PICK s \in Setups : kernel = s.kernel /\ early = s.early /\ late = s.late
    BY DEF SetupChosen
  <1>2. kernel \in Seq(Stage) /\ kernel # <<>>
    BY <1>1, SetupAssumption
  <1>3. Len(kernel) \in Nat \ {0} /\ DOMAIN kernel = 1 .. Len(kernel)
    BY <1>2
  <1>4. \A i \in DOMAIN kernel : kernel[i] \in Stage
    BY <1>2, <1>3
  <1>5. ~kernel[1].scatter
    BY <1>1, SetupAssumption
  <1>6. \A i \in DOMAIN kernel :
          /\ kernel[i].again <= i
          /\ kernel[i].again # 0 /\ kernel[i].shared => kernel[i].by = "reduced"
          /\ IsInjective(kernel[i].reduce)
    BY <1>1, SetupAssumption
  <1>. QED
    BY <1>3, <1>4, <1>5, <1>6

\* The stages that can follow another.
LEMMA FollowingIs ==
  ASSUME SetupChosen, NEW i \in DOMAIN kernel, NEW j \in After(kernel, i) \cap DOMAIN kernel
  PROVE  /\ kernel[j].scatter => Has(kernel[i], "concat")
         /\ late # <<>> /\ kernel[i].comm /\ ~kernel[i].dump =>
              ~Has(kernel[j], "concat") /\ ~kernel[j].tolead /\ ~kernel[j].scatter
  <1>1. PICK s \in Setups : kernel = s.kernel /\ early = s.early /\ late = s.late
    BY DEF SetupChosen
  <1>. QED
    BY <1>1, SetupAssumption

\* A block of a rank is early or late.
LEMMA EarlyOrLate ==
  ASSUME SetupChosen
  PROVE  /\ early \in Seq(Local) /\ late \in Seq(Local) /\ early \o late \in Seq(Local)
         /\ IsInjective(early) /\ IsInjective(late) /\ IsInjective(early \o late)
         /\ Range(early \o late) = Local /\ Range(early) \cup Range(late) = Local
         /\ Range(early) \cap Range(late) = {}
         /\ late = <<>> => early \o late = early
  <1>1. PICK s \in Setups : kernel = s.kernel /\ early = s.early /\ late = s.late
    BY DEF SetupChosen
  <1>2. /\ early \in Seq(Local) /\ late \in Seq(Local)
        /\ IsInjective(early \o late) /\ Range(early \o late) = Local
    BY <1>1, SetupAssumption
  <1>3. /\ early \o late \in Seq(Local) /\ Len(early \o late) = Len(early) + Len(late)
        /\ \A i \in 1 .. Len(early) : (early \o late)[i] = early[i]
        /\ \A i \in 1 .. Len(late) : (early \o late)[Len(early) + i] = late[i]
    BY <1>2
  <1>4. /\ Len(early) \in Nat /\ Len(late) \in Nat
        /\ DOMAIN early = 1 .. Len(early) /\ DOMAIN late = 1 .. Len(late)
        /\ DOMAIN (early \o late) = 1 .. Len(early) + Len(late)
    BY <1>2, <1>3
  <1>5. Range(early) \cup Range(late) = Local
    BY <1>2, RangeConcatenation
  <1>6. \A i, j \in 1 .. Len(early) + Len(late) : (early \o late)[i] = (early \o late)[j] => i = j
    BY <1>2, <1>4 DEF IsInjective
  <1>7. \A i, j \in 1 .. Len(early) : early[i] = early[j] => i = j
    BY <1>3, <1>4, <1>6
  <1>8. ASSUME NEW i \in 1 .. Len(late), NEW j \in 1 .. Len(late), late[i] = late[j] PROVE i = j
    <2>1. /\ Len(early) + i \in 1 .. Len(early) + Len(late)
          /\ Len(early) + j \in 1 .. Len(early) + Len(late)
      BY <1>4
    <2>2. (early \o late)[Len(early) + i] = (early \o late)[Len(early) + j]
      BY <1>3, <1>8
    <2>3. Len(early) + i = Len(early) + j
      BY <2>1, <2>2, <1>6
    <2>. QED
      BY <2>3, <1>4
  <1>9. ASSUME NEW i \in 1 .. Len(early), NEW j \in 1 .. Len(late), early[i] = late[j] PROVE FALSE
    <2>1. i = Len(early) + j
      BY <1>3, <1>4, <1>6, <1>9
    <2>. QED
      BY <2>1, <1>4
  <1>10. Range(early) \cap Range(late) = {}
    BY <1>4, <1>9 DEF Range
  <1>11. IsInjective(early) /\ IsInjective(late)
    BY <1>4, <1>7, <1>8 DEF IsInjective
  <1>12. late = <<>> => early \o late = early
    BY <1>2, ConcatEmptySeq
  <1>. QED
    BY <1>2, <1>3, <1>5, <1>10, <1>11, <1>12

\* All blocks in their natural order.
LEMMA AllIs == All \in Seq(Local) /\ IsInjective(All) /\ Range(All) = Local /\ Len(All) = nblocks
  <1>1. nblocks \in Nat \ {0}
    BY MeshAssumption
  <1>2. All \in Seq(Local) /\ DOMAIN All = 1 .. nblocks /\ Len(All) = nblocks
    BY <1>1 DEF All, Local
  <1>3. IsInjective(All)
    BY <1>1, <1>2 DEF All, IsInjective
  <1>4. ASSUME NEW i \in Local PROVE i \in Range(All)
    <2>1. i + 1 \in DOMAIN All /\ All[i + 1] = i
      BY <1>1, <1>2 DEF All, Local
    <2>. QED
      BY <2>1 DEF Range
  <1>5. Range(All) \subseteq Local
    BY <1>1, <1>2 DEF All, Local, Range
  <1>. QED
    BY <1>2, <1>3, <1>4, <1>5

\* Blocks and ranks.
LEMMA BlocksAre ==
  /\ Block # {} /\ Rank # {} /\ 0 \in Rank /\ 0 \in Local /\ Root \in Block
  /\ \A b \in Block : b[1] \in Rank /\ b[2] \in Local /\ b = <<b[1], b[2]>> /\ b \in Blocks(b[1])
  /\ \A r \in Rank, i \in Local :
       <<r, i>> \in Block /\ <<r, i>>[1] = r /\ <<r, i>>[2] = i /\ <<r, i>> \in Blocks(r)
  /\ \A r \in Rank : Lead(r) \in Block /\ Lead(r) \in Blocks(r) /\ Lead(r)[1] = r /\ Lead(r)[2] = 0
  /\ \A r \in Rank : \A b \in Blocks(r) : b \in Block /\ b[1] = r
  /\ IsFiniteSet(Rank) /\ \A r \in Rank : IsFiniteSet(Blocks(r)) /\ Blocks(r) # {}
  /\ IsFiniteSet(Block)
  <1>1. 0 \in Rank /\ 0 \in Local
    BY MeshAssumption DEF Rank, Local
  <1>2. \A b \in Rank \X Local : b[1] \in Rank /\ b[2] \in Local /\ b = <<b[1], b[2]>>
    OBVIOUS
  <1>3. \A r \in Rank, i \in Local :
          <<r, i>> \in Rank \X Local /\ <<r, i>>[1] = r /\ <<r, i>>[2] = i
    OBVIOUS
  <1>4. IsFiniteSet(Rank) /\ IsFiniteSet(Local)
    BY FS_Interval, MeshAssumption DEF Rank, Local
  <1>5. IsFiniteSet(Block)
    BY <1>4, FS_Product DEF Block
  <1>6. \A r \in Rank : Blocks(r) \in SUBSET Block
    BY DEF Blocks
  <1>7. \A r \in Rank : IsFiniteSet(Blocks(r))
    BY <1>5, <1>6, FS_Subset
  <1>. QED
    BY <1>1, <1>2, <1>3, <1>4, <1>5, <1>7 DEF Block, Blocks, Lead, Root

-----------------------------------------------------------------------------
(***************************************************************************)
(* The operations of a stage.                                              *)
(***************************************************************************)
Op == Reduction \cup {"tolead", "shared", "scatter", "bcast", "fromlead", "part", "barrier"}

\* A list of operations, none of them twice.
IsPlan(list) == list \in Seq(Op) /\ IsInjective(list)

\* A request of another kind is served once as well.
LEMMA PlanExtended ==
  ASSUME NEW list, IsPlan(list), NEW op \in Op, op \notin Range(list), NEW c \in BOOLEAN
  PROVE  /\ IsPlan(list \o If(c, op))
         /\ Range(list \o If(c, op)) = Range(list) \cup (IF c THEN {op} ELSE {})
  <1>1. CASE ~c
    <2>1. If(c, op) = <<>>
      BY <1>1 DEF If
    <2>2. list \o <<>> = list
      BY ConcatEmptySeq DEF IsPlan
    <2>. QED
      BY <2>1, <2>2, <1>1
  <1>2. CASE c
    <2>1. If(c, op) = <<op>>
      BY <1>2 DEF If
    <2>2. /\ list \o <<op>> \in Seq(Op) /\ DOMAIN (list \o <<op>>) = 1 .. Len(list) + 1
          /\ \A i \in 1 .. Len(list) : (list \o <<op>>)[i] = list[i]
          /\ (list \o <<op>>)[Len(list) + 1] = op
          /\ Len(list) \in Nat /\ DOMAIN list = 1 .. Len(list)
      BY DEF IsPlan
    <2>3. \A i, j \in 1 .. Len(list) : list[i] = list[j] => i = j
      BY <2>2 DEF IsPlan, IsInjective
    <2>4. \A i \in 1 .. Len(list) : list[i] # op
      BY <2>2 DEF Range
    <2>5. IsInjective(list \o <<op>>)
      BY <2>2, <2>3, <2>4 DEF IsInjective
    <2>6. Range(<<op>>) = {op} /\ <<op>> \in Seq(Op)
      BY DEF Range
    <2>7. Range(list \o <<op>>) = Range(list) \cup {op}
      BY <2>6, RangeConcatenation DEF IsPlan
    <2>. QED
      BY <2>1, <2>2, <2>5, <2>7, <1>2 DEF IsPlan
  <1>. QED
    BY <1>1, <1>2

\* Run serves each request of a stage once.
LEMMA OperationsAre ==
  ASSUME NEW s \in Stage, IsInjective(s.reduce)
  PROVE  /\ IsPlan(Operations(s))
         /\ \A op \in Reduction : op \in Range(Operations(s)) <=> Has(s, op)
         /\ "tolead" \in Range(Operations(s)) <=> s.tolead
         /\ "shared" \in Range(Operations(s)) <=> s.shared
         /\ "scatter" \in Range(Operations(s)) <=> s.scatter
         /\ "bcast" \in Range(Operations(s)) <=> s.bcast
         /\ "fromlead" \in Range(Operations(s)) <=> s.fromlead
  <1> DEFINE l1 == s.reduce \o If(s.tolead, "tolead")
             l2 == l1 \o If(s.shared, "shared")
             l3 == l2 \o If(s.scatter, "scatter")
             l4 == l3 \o If(s.bcast, "bcast")
             l5 == l4 \o If(s.fromlead, "fromlead")
             l6 == l5 \o If(s.part, "part")
             l7 == l6 \o If(s.part, "barrier")
             Added(c, op) == IF c THEN {op} ELSE {}
  <1>1. /\ s.reduce \in Seq(Reduction) /\ s.tolead \in BOOLEAN /\ s.shared \in BOOLEAN
        /\ s.scatter \in BOOLEAN /\ s.bcast \in BOOLEAN /\ s.fromlead \in BOOLEAN /\ s.part \in BOOLEAN
    BY DEF Stage
  <1>2. /\ IsPlan(s.reduce) /\ Range(s.reduce) \subseteq Reduction
        /\ \A op \in Reduction : op \in Range(s.reduce) <=> Has(s, op)
    <2>1. s.reduce \in Seq(Op)
      BY <1>1, SeqMonotonic DEF Op
    <2>2. Range(s.reduce) \subseteq Reduction
      BY <1>1, RangeOfSeq
    <2>3. \A op \in Reduction : op \in Range(s.reduce) <=> Has(s, op)
      BY DEF Range, Has
    <2>. QED
      BY <2>1, <2>2, <2>3 DEF IsPlan
  <1>3. IsPlan(l1) /\ Range(l1) = Range(s.reduce) \cup Added(s.tolead, "tolead")
    <2>1. "tolead" \in Op /\ "tolead" \notin Range(s.reduce)
      BY <1>2 DEF Op, Reduction
    <2>. QED
      BY <2>1, <1>1, <1>2, PlanExtended
  <1>4. IsPlan(l2) /\ Range(l2) = Range(l1) \cup Added(s.shared, "shared")
    <2>1. "shared" \in Op /\ "shared" \notin Range(l1)
      BY <1>2, <1>3 DEF Op, Reduction
    <2>. HIDE DEF l1
    <2>. QED
      BY <2>1, <1>1, <1>3, PlanExtended
  <1>5. IsPlan(l3) /\ Range(l3) = Range(l2) \cup Added(s.scatter, "scatter")
    <2>. HIDE DEF l2
    <2>1. "scatter" \in Op /\ "scatter" \notin Range(l2)
      BY <1>2, <1>3, <1>4 DEF Op, Reduction
    <2>. QED
      BY <2>1, <1>1, <1>4, PlanExtended
  <1>6. IsPlan(l4) /\ Range(l4) = Range(l3) \cup Added(s.bcast, "bcast")
    <2>. HIDE DEF l1, l2, l3
    <2>1. "bcast" \in Op /\ "bcast" \notin Range(l3)
      BY <1>2, <1>3, <1>4, <1>5 DEF Op, Reduction
    <2>. QED
      BY <2>1, <1>1, <1>5, PlanExtended
  <1>7. IsPlan(l5) /\ Range(l5) = Range(l4) \cup Added(s.fromlead, "fromlead")
    <2>. HIDE DEF l1, l2, l3, l4
    <2>1. "fromlead" \in Op /\ "fromlead" \notin Range(l4)
      BY <1>2, <1>3, <1>4, <1>5, <1>6 DEF Op, Reduction
    <2>. QED
      BY <2>1, <1>1, <1>6, PlanExtended
  <1>8. IsPlan(l6) /\ Range(l6) = Range(l5) \cup Added(s.part, "part")
    <2>. HIDE DEF l1, l2, l3, l4, l5
    <2>1. "part" \in Op /\ "part" \notin Range(l5)
      BY <1>2, <1>3, <1>4, <1>5, <1>6, <1>7 DEF Op, Reduction
    <2>. QED
      BY <2>1, <1>1, <1>7, PlanExtended
  <1>9. IsPlan(l7) /\ Range(l7) = Range(l6) \cup Added(s.part, "barrier")
    <2>. HIDE DEF l1, l2, l3, l4, l5, l6
    <2>1. "barrier" \in Op /\ "barrier" \notin Range(l6)
      BY <1>2, <1>3, <1>4, <1>5, <1>6, <1>7, <1>8 DEF Op, Reduction
    <2>. QED
      BY <2>1, <1>1, <1>8, PlanExtended
  <1>10. Operations(s) = l7
    <2> DEFINE last == IF s.part THEN <<"part", "barrier">> ELSE <<>>
    <2>1. Operations(s) = l5 \o last
      BY DEF Operations
    <2>. HIDE DEF l1, l2, l3, l4, l5
    <2>2. l5 \in Seq(Op) /\ l6 \in Seq(Op)
      BY <1>7, <1>8 DEF IsPlan
    <2>3. CASE ~s.part
      <3>1. If(s.part, "part") = <<>> /\ If(s.part, "barrier") = <<>> /\ last = <<>>
        BY <2>3 DEF If
      <3>. QED
        BY <3>1, <2>1, <2>2, ConcatEmptySeq
    <2>4. CASE s.part
      <3>1. If(s.part, "part") = <<"part">> /\ If(s.part, "barrier") = <<"barrier">>
            /\ last = <<"part">> \o <<"barrier">>
        BY <2>4 DEF If
      <3>2. <<"part">> \in Seq(Op) /\ <<"barrier">> \in Seq(Op)
        BY DEF Op
      <3>3. (l5 \o <<"part">>) \o <<"barrier">> = l5 \o (<<"part">> \o <<"barrier">>)
        BY <3>2, <2>2, ConcatAssociative
      <3>. QED
        BY <3>1, <3>3, <2>1
    <2>. QED
      BY <2>3, <2>4
  <1>. HIDE DEF l1, l2, l3, l4, l5, l6, l7
  <1>. QED
    BY <1>2, <1>3, <1>4, <1>5, <1>6, <1>7, <1>8, <1>9, <1>10, <1>1 DEF Reduction

-----------------------------------------------------------------------------
(***************************************************************************)
(* Types.                                                                  *)
(***************************************************************************)
Buffers == {"number", "pair", "rows", "row", "list", "object", "shared"}
CallFields == {"op", "data", "open", "stage", "todo"}

GaveOk(b) ==
  /\ IsSeq(gave[b])
  /\ \A k \in 1 .. Stages(b) :
       /\ gave[b][k].stage \in DOMAIN kernel
       /\ gave[b][k].number \in Nat /\ gave[b][k].sum \in Nat
       /\ gave[b][k].data.number \in Nat /\ gave[b][k].data.shared \in Nat

EnteredOk(r) == IsSeq(entered[r]) /\ \A k \in DOMAIN entered[r] : DOMAIN entered[r][k] = CallFields

Types ==
  /\ SetupChosen
  /\ at \in [Rank -> Places] /\ fields \in [Rank -> BOOLEAN] /\ sent \in [Rank -> Nat]
  /\ order \in [Rank -> Seq(Local)] /\ \A r \in Rank : IsInjective(order[r])
  /\ todo \in [Rank -> Seq(Op \cup {"dump"})]
  /\ sum \in [Rank -> Nat]
  /\ DOMAIN entered = Rank /\ \A r \in Rank : EnteredOk(r)
  /\ pos \in [Block -> Nat] /\ \A b \in Block : pos[b] \in 1 .. Len(kernel) + 1
  /\ DOMAIN data = Block /\ DOMAIN gave = Block
  /\ \A b \in Block : /\ DOMAIN data[b] = Buffers
                      /\ data[b].number \in Nat /\ data[b].shared \in Nat
                      /\ GaveOk(b)

-----------------------------------------------------------------------------
(***************************************************************************)
(* The stages of a block.                                                  *)
(***************************************************************************)
\* The requests that stage number k of block b has made.
Made(b, k) == IF k = 0 THEN Nothing ELSE kernel[gave[b][k].stage]

\* The stage to follow number k.
PosAfter(b, k) == IF k < Stages(b) THEN gave[b][k + 1].stage ELSE pos[b]

\* The stage that follows p, by the numbers that p finds.
Chosen(p, number, total) ==
  LET left == IF kernel[p].by = "reduced" THEN number ELSE total
  IN IF kernel[p].again # 0 /\ left # 0 THEN kernel[p].again ELSE p + 1

\* All blocks have run stage number k.
AllGave(k) == \A c \in Block : k <= Stages(c)

\* The numbers when stage number k has been served.
GreatestNumber(k) == Max({gave[c][k].data.number : c \in Block})
GreatestShared(k) == Max({gave[Lead(q)][k].data.shared : q \in Rank})

NumberAfter(b, k) ==
  IF k = 0 THEN 0 ELSE IF Has(Made(b, k), "max") THEN GreatestNumber(k) ELSE gave[b][k].number
SumAfter(b, k) ==
  IF k = 0 THEN 0 ELSE IF Made(b, k).shared THEN GreatestShared(k) ELSE gave[b][k].sum

\* Blocks that have run equally many stages have run the same ones, and run the same next.
SameStages ==
  \A b, c \in Block : \A k \in 0 .. Stages(b) : k <= Stages(c) => PosAfter(b, k) = PosAfter(c, k)

\* A block goes on by the numbers that the stage has found.
Decided(b) ==
  \A k \in 1 .. Stages(b) :
    PosAfter(b, k) = Chosen(gave[b][k].stage, gave[b][k].number, gave[b][k].sum)

\* A stage finds what the one before has left.
Found(b) ==
  \A k \in 1 .. Stages(b) :
    /\ gave[b][k].number = NumberAfter(b, k - 1)
    /\ Has(Made(b, k - 1), "max") => AllGave(k - 1)
    /\ Made(b, k - 1).shared => AllGave(k - 1)
    /\ ~Made(b, k).shared => gave[b][k].sum = SumAfter(b, k - 1)

\* It finds the same in all blocks.
SameFound ==
  \A b, c \in Block : \A k \in 1 .. Stages(b) : k <= Stages(c) =>
    /\ gave[b][k].number = gave[c][k].number
    /\ ~Made(b, k).shared => gave[b][k].sum = gave[c][k].sum

StagesInv == SameStages /\ SameFound /\ \A b \in Block : Decided(b) /\ Found(b)

-----------------------------------------------------------------------------
(***************************************************************************)
(* The rank.                                                               *)
(***************************************************************************)
\* The blocks that have run in an iteration whose other blocks have not.
Ran(r) == {b \in Blocks(r) : at[r] = "halo" /\ b[2] \in Range(order[r])}

\* The number of stages that all blocks have run.
Base(r) == IF Lead(r) \in Ran(r) THEN Stages(Lead(r)) - 1 ELSE Stages(Lead(r))

Together(r) ==
  /\ Base(r) \in Nat
  /\ \A b \in Blocks(r) : Stages(b) = IF b \in Ran(r) THEN Base(r) + 1 ELSE Base(r)

IsRest(list, rest) ==
  /\ Len(rest) <= Len(list)
  /\ \A i \in 1 .. Len(rest) : rest[i] = list[Len(list) - Len(rest) + i]

\* The requests that all blocks have made last.
Asked(r) == Made(Lead(r), Base(r))

\* What the place of a rank says of its other variables.
Placed(r) ==
  /\ at[r] \in {"begin", "sync", "inner", "halo", "collect", "end"} => todo[r] = <<>>
  /\ at[r] = "write" => todo[r] \in {<<"dump">>, <<>>}
  /\ at[r] = "serve" => todo[r] \in Seq(Op) /\ IsRest(Operations(Asked(r)), todo[r])
  /\ at[r] \in {"sync", "write"} => Asked(r).dump
  /\ at[r] \in {"inner", "halo"} => ~Asked(r).dump
  /\ at[r] \in {"sync", "write", "inner", "halo"} => fields[r] = Asked(r).comm
  /\ at[r] \in {"begin", "sync", "write", "inner", "halo"} =>
       PosAfter(Lead(r), Base(r)) \in DOMAIN kernel
  /\ at[r] = "halo" => order[r] = Inner(r)
  /\ at[r] \in {"collect", "serve"} =>
       /\ Base(r) >= 1
       /\ \/ order[r] = All
          \/ /\ order[r] = early \o late
             /\ late # <<>>
             /\ Made(Lead(r), Base(r) - 1).comm /\ ~Made(Lead(r), Base(r) - 1).dump

\* The operation of a block's last stage is still to come.
Pends(b, op) ==
  LET r == b[1] IN
  \/ b \in Ran(r)
  \/ at[r] = "collect"
  \/ at[r] = "serve" /\ op \in Range(todo[r])

\* The number of a block, before and after its reduction.
NumberNow(b) ==
  LET n == Stages(b) IN
  IF Has(Made(b, n), "max") /\ Pends(b, "max")
  THEN data[b].number = gave[b][n].data.number
  ELSE /\ data[b].number = NumberAfter(b, n)
       /\ Has(Made(b, n), "max") => AllGave(n)

\* The number of the shared mesh.
SumNow(r) ==
  LET n == Stages(Lead(r)) IN
  IF Made(Lead(r), n).shared /\ Pends(Lead(r), "shared")
  THEN sum[r] = gave[Lead(r)][n].data.shared
  ELSE /\ sum[r] = SumAfter(Lead(r), n)
       /\ Made(Lead(r), n).shared => AllGave(n)

-----------------------------------------------------------------------------
(***************************************************************************)
(* The calls of a rank.  A call is named by the number of stages before it *)
(* and by how many operations are left, none if it writes the dump.        *)
(***************************************************************************)
Left(e) == IF e.todo = <<"dump">> THEN 0 ELSE Len(e.todo)

\* The operation of that name.
Operation(b, n, j) ==
  IF j = 0 THEN "dump" ELSE Operations(Made(b, n))[Len(Operations(Made(b, n))) - j + 1]

IsCall(b, n, j) ==
  IF j = 0 THEN Made(b, n).dump
  ELSE j <= Len(Operations(Made(b, n))) /\ Operation(b, n, j) \notin OfRank

Before(n, j, m, i) == n < m \/ (n = m /\ j > i)

\* Rank r has made the calls up to this one: of stage Base(r), those with more than
\* that left.
ToGo(r) ==
  CASE at[r] = "collect" -> Len(Operations(Asked(r)))
    [] at[r] = "serve" -> IF Entered(r) THEN Len(todo[r]) - 1 ELSE Len(todo[r])
    [] at[r] = "write" -> IF Entered(r) \/ todo[r] = <<>> THEN -1 ELSE 0
    [] OTHER -> 0

Passed(r, n, j) == n < Base(r) \/ (n = Base(r) /\ j > ToGo(r))

CallMade(r, k) ==
  LET e == entered[r][k] IN
  /\ e.stage \in 1 .. Base(r)
  /\ Left(e) \in Nat
  /\ IsCall(Lead(r), e.stage, Left(e)) /\ Passed(r, e.stage, Left(e))
  /\ Head(e.todo) = Operation(Lead(r), e.stage, Left(e))
  /\ e.op = Call(Head(e.todo))

CallsInOrder(r) ==
  \A k, l \in DOMAIN entered[r] : k < l =>
    Before(entered[r][k].stage, Left(entered[r][k]), entered[r][l].stage, Left(entered[r][l]))

NoCallMissed(r) ==
  \A n \in 0 .. Base(r) : \A j \in Nat :
    IsCall(Lead(r), n, j) /\ Passed(r, n, j) =>
      \E k \in DOMAIN entered[r] : entered[r][k].stage = n /\ Left(entered[r][k]) = j

\* The call that a rank has not left.
OpenCall(r) ==
  Entered(r) =>
    /\ at[r] \in {"serve", "write"} /\ todo[r] # <<>>
    /\ Last(entered[r]).todo = todo[r] /\ Last(entered[r]).stage = Base(r)

NumberGiven(r, k) ==
  LET e == entered[r][k] IN
  /\ Head(e.todo) = "max" => e.data = Max({gave[c][e.stage].data.number : c \in Blocks(r)})
  /\ Head(e.todo) = "shared" => e.data = gave[Lead(r)][e.stage].data.shared

CallsInv(r) ==
  /\ \A k \in DOMAIN entered[r] : CallMade(r, k) /\ NumberGiven(r, k)
  /\ CallsInOrder(r) /\ NoCallMissed(r) /\ OpenCall(r)

\* The calls of two ranks are the same, as far as both have come.
SameCalls ==
  \A r, s \in Rank : \A k \in DOMAIN entered[r] : k <= Len(entered[s]) =>
    entered[r][k].stage = entered[s][k].stage /\ Left(entered[r][k]) = Left(entered[s][k])

RankInv(r) ==
  /\ Together(r) /\ Placed(r)
  /\ SumNow(r) /\ \A b \in Blocks(r) : NumberNow(b)
  /\ CallsInv(r)

(***************************************************************************)
(* The inductive invariant.                                                *)
(***************************************************************************)
IInv == Types /\ ~aborted /\ StagesInv /\ (\A r \in Rank : RankInv(r)) /\ SameCalls

-----------------------------------------------------------------------------
(***************************************************************************)
(* Lemmas about stages.                                                    *)
(***************************************************************************)
LEMMA NothingIs ==
  /\ Nothing \in Stage /\ IsInjective(Nothing.reduce) /\ Operations(Nothing) = <<>>
  /\ ~Nothing.comm /\ ~Nothing.dump /\ ~Nothing.shared /\ ~Nothing.scatter
  /\ \A op \in Reduction : ~Has(Nothing, op)
  <1>1. <<>> \in Seq(Reduction) /\ DOMAIN <<>> = {}
    OBVIOUS
  <1>2. Nothing \in Stage
    BY <1>1 DEF Nothing, Stage
  <1>3. Operations(Nothing) = <<>> \o <<>> \o <<>> \o <<>> \o <<>> \o <<>> \o <<>>
    BY DEF Operations, Nothing, If
  <1>4. <<>> \o <<>> = <<>>
    OBVIOUS
  <1>. QED
    BY <1>1, <1>2, <1>3, <1>4 DEF Nothing, Has, IsInjective

\* What is known of a block's stages.
LEMMA GaveIs ==
  ASSUME Types, NEW b \in Block
  PROVE  /\ Stages(b) \in Nat /\ DOMAIN gave[b] = 1 .. Stages(b)
         /\ Requests(b) = Made(b, Stages(b))
         /\ \A k \in 0 .. Stages(b) : /\ Made(b, k) \in Stage /\ IsInjective(Made(b, k).reduce)
                                      /\ PosAfter(b, k) \in 1 .. Len(kernel) + 1
  <1>1. IsSeq(gave[b]) /\ \A k \in 1 .. Stages(b) : gave[b][k].stage \in DOMAIN kernel
    BY DEF Types, GaveOk
  <1>2. Stages(b) \in Nat /\ DOMAIN gave[b] = 1 .. Stages(b)
    BY <1>1, SeqIs DEF Stages
  <1>3. Requests(b) = Made(b, Stages(b))
    BY <1>1, SeqIs DEF Requests, Made, Stages
  <1>4. ASSUME NEW k \in 0 .. Stages(b)
        PROVE  Made(b, k) \in Stage /\ IsInjective(Made(b, k).reduce)
    <2>1. CASE k = 0
      BY <2>1, NothingIs DEF Made
    <2>2. CASE k # 0
      <3>1. gave[b][k].stage \in DOMAIN kernel
        BY <1>1, <1>2, <2>2
      <3>2. kernel[gave[b][k].stage] \in Stage /\ IsInjective(kernel[gave[b][k].stage].reduce)
        BY <3>1, KernelIs DEF Types
      <3>. QED
        BY <2>2, <3>2 DEF Made
    <2>. QED
      BY <2>1, <2>2
  <1>5. ASSUME NEW k \in 0 .. Stages(b) PROVE PosAfter(b, k) \in 1 .. Len(kernel) + 1
    <2>1. CASE k < Stages(b)
      <3>1. gave[b][k + 1].stage \in DOMAIN kernel
        BY <1>1, <1>2, <2>1
      <3>. QED
        BY <3>1, <2>1, KernelIs DEF PosAfter, Types
    <2>2. CASE ~(k < Stages(b))
      BY <2>2 DEF PosAfter, Types
    <2>. QED
      BY <2>1, <2>2
  <1>. QED
    BY <1>2, <1>3, <1>4, <1>5

\* Blocks have made the same requests.
LEMMA MadeAgrees ==
  ASSUME Types, SameStages, NEW b \in Block, NEW c \in Block,
         NEW k \in 0 .. Stages(b), k <= Stages(c)
  PROVE  Made(b, k) = Made(c, k)
  <1>1. CASE k = 0
    BY <1>1 DEF Made
  <1>2. CASE k # 0
    <2>1. Stages(b) \in Nat /\ Stages(c) \in Nat
      BY GaveIs
    <2>2. k - 1 \in 0 .. Stages(b) /\ k - 1 < Stages(b) /\ k - 1 < Stages(c) /\ (k - 1) + 1 = k
          /\ k - 1 <= Stages(c)
      BY <1>2, <2>1
    <2>3. PosAfter(b, k - 1) = PosAfter(c, k - 1)
      BY <2>2 DEF SameStages
    <2>4. gave[b][k].stage = gave[c][k].stage
      BY <2>2, <2>3 DEF PosAfter
    <2>. QED
      BY <2>4 DEF Made
  <1>. QED
    BY <1>1, <1>2

\* They have the same numbers after a stage.
LEMMA NumbersAgree ==
  ASSUME Types, SameStages, SameFound, NEW b \in Block, NEW c \in Block,
         NEW k \in 0 .. Stages(b), k <= Stages(c)
  PROVE  /\ NumberAfter(b, k) = NumberAfter(c, k)
         /\ SumAfter(b, k) = SumAfter(c, k)
  <1>1. Made(b, k) = Made(c, k)
    BY MadeAgrees
  <1>2. CASE k = 0
    BY <1>2 DEF NumberAfter, SumAfter
  <1>3. CASE k # 0
    <2>1. k \in 1 .. Stages(b)
      BY <1>3, GaveIs
    <2>2. gave[b][k].number = gave[c][k].number
      BY <2>1 DEF SameFound
    <2>3. ~Made(b, k).shared => gave[b][k].sum = gave[c][k].sum
      BY <2>1 DEF SameFound
    <2>4. NumberAfter(b, k) = NumberAfter(c, k)
      BY <1>1, <2>2 DEF NumberAfter
    <2>5. SumAfter(b, k) = SumAfter(c, k)
      BY <1>1, <2>3 DEF SumAfter
    <2>. QED
      BY <2>4, <2>5
  <1>. QED
    BY <1>2, <1>3

\* Numbers are natural.
LEMMA NumbersAre ==
  ASSUME Types, NEW k \in Nat \ {0}, AllGave(k)
  PROVE  /\ GreatestNumber(k) \in Nat /\ GreatestShared(k) \in Nat
         /\ \A c \in Block : gave[c][k].data.number <= GreatestNumber(k)
  <1> DEFINE f == [c \in Block |-> gave[c][k].data.number]
             g == [q \in Rank |-> gave[Lead(q)][k].data.shared]
  <1>1. \A c \in Block : gave[c][k].data.number \in Nat /\ gave[c][k].data.shared \in Nat
    <2>. SUFFICES ASSUME NEW c \in Block
         PROVE gave[c][k].data.number \in Nat /\ gave[c][k].data.shared \in Nat
      OBVIOUS
    <2>1. k \in 1 .. Stages(c)
      BY GaveIs DEF AllGave
    <2>. QED
      BY <2>1 DEF Types, GaveOk
  <1>2. \A c \in Block : f[c] \in Nat
    BY <1>1
  <1>3. \A q \in Rank : g[q] \in Nat
    BY <1>1, BlocksAre
  <1>4. {f[c] : c \in Block} = {gave[c][k].data.number : c \in Block}
    OBVIOUS
  <1>5. {g[q] : q \in Rank} = {gave[Lead(q)][k].data.shared : q \in Rank}
    OBVIOUS
  <1>6. GreatestNumber(k) \in Nat /\ \A y \in {f[c] : c \in Block} : y <= GreatestNumber(k)
    <2>. HIDE DEF f
    <2>1. IsFiniteSet(Block) /\ Block # {}
      BY BlocksAre
    <2> DEFINE T == {f[c] : c \in Block}
    <2>2. Max(T) \in Nat /\ \A y \in T : y <= Max(T)
      BY <1>2, <2>1, GreatestIs
    <2>3. GreatestNumber(k) = Max(T)
      BY <1>4 DEF GreatestNumber
    <2>. QED
      BY <2>2, <2>3
  <1>7. GreatestShared(k) \in Nat
    <2>. HIDE DEF g
    <2>1. IsFiniteSet(Rank) /\ Rank # {}
      BY BlocksAre
    <2> DEFINE T == {g[q] : q \in Rank}
    <2>2. Max(T) \in Nat
      BY <1>3, <2>1, GreatestIs
    <2>3. GreatestShared(k) = Max(T)
      BY <1>5 DEF GreatestShared
    <2>. QED
      BY <2>2, <2>3
  <1>. QED
    BY <1>6, <1>7

-----------------------------------------------------------------------------
(***************************************************************************)
(* Stages that have been run stay as they are.                             *)
(***************************************************************************)
Grown ==
  /\ kernel' = kernel
  /\ \A b \in Block : /\ Stages(b)' \in Nat /\ Stages(b) <= Stages(b)'
                      /\ \A k \in 1 .. Stages(b) : gave'[b][k] = gave[b][k]

\* What is known of stages that have been run is not changed by later ones.
LEMMA StagesStay ==
  ASSUME Types, Grown, NEW b \in Block
  PROVE  /\ \A k \in 0 .. Stages(b) : Made(b, k)' = Made(b, k)
         /\ \A k \in 0 .. Stages(b) : k < Stages(b) => PosAfter(b, k)' = PosAfter(b, k)
         /\ \A k \in Nat : AllGave(k) => AllGave(k)'
  <1>1. Stages(b) \in Nat
    BY GaveIs
  <1>2. ASSUME NEW k \in 0 .. Stages(b) PROVE Made(b, k)' = Made(b, k)
    BY <1>1, <1>2 DEF Made, Grown
  <1>3. ASSUME NEW k \in 0 .. Stages(b), k < Stages(b) PROVE PosAfter(b, k)' = PosAfter(b, k)
    <2>1. k < Stages(b)' /\ gave'[b][k + 1] = gave[b][k + 1]
      BY <1>1, <1>3 DEF Grown
    <2>. QED
      BY <2>1, <1>3 DEF PosAfter
  <1>4. ASSUME NEW k \in Nat, AllGave(k) PROVE AllGave(k)'
    <2>. SUFFICES ASSUME NEW c \in Block PROVE k <= Stages(c)'
      BY DEF AllGave
    <2>1. k <= Stages(c) /\ Stages(c) <= Stages(c)' /\ Stages(c) \in Nat /\ Stages(c)' \in Nat
      BY <1>4, GaveIs DEF AllGave, Grown
    <2>. QED
      BY <2>1
  <1>. QED
    BY <1>2, <1>3, <1>4

\* Nor are the numbers after such a stage, once all blocks that count have run it.
LEMMA NumbersStay ==
  ASSUME Types, Grown, NEW b \in Block, NEW k \in 0 .. Stages(b)
  PROVE  /\ (Has(Made(b, k), "max") => AllGave(k)) => NumberAfter(b, k)' = NumberAfter(b, k)
         /\ (Made(b, k).shared => AllGave(k)) => SumAfter(b, k)' = SumAfter(b, k)
  <1>1. Made(b, k)' = Made(b, k)
    BY StagesStay
  <1>2. k # 0 => gave'[b][k] = gave[b][k]
    BY GaveIs DEF Grown
  <1>3. ASSUME AllGave(k), k # 0
        PROVE  GreatestNumber(k)' = GreatestNumber(k) /\ GreatestShared(k)' = GreatestShared(k)
    <2>1. \A c \in Block : gave'[c][k] = gave[c][k]
      BY <1>3, GaveIs DEF AllGave, Grown
    <2>2. \A q \in Rank : Lead(q) \in Block
      BY BlocksAre
    <2>. QED
      BY <2>1, <2>2 DEF GreatestNumber, GreatestShared, Lead
  <1>. QED
    BY <1>1, <1>2, <1>3 DEF NumberAfter, SumAfter, Has

-----------------------------------------------------------------------------
(***************************************************************************)
(* A step in which blocks run.                                             *)
(***************************************************************************)
\* The blocks of S, of rank r, run stage number n + 1.
Advance(r, S, n) ==
  /\ UNCHANGED setup
  /\ S \subseteq Blocks(r)
  /\ \A b \in Block \ S : gave'[b] = gave[b] /\ pos'[b] = pos[b] /\ data'[b] = data[b]
  /\ \A b \in S :
       /\ Stages(b) = n /\ Stages(b)' = n + 1 /\ pos[b] \in DOMAIN kernel
       /\ \A k \in 1 .. n : gave'[b][k] = gave[b][k]
       /\ gave'[b][n + 1].stage = pos[b] /\ gave'[b][n + 1].number = data[b].number
       /\ gave'[b][n + 1].sum = sum[r] /\ gave'[b][n + 1].data = data'[b]
       /\ pos'[b] = Chosen(pos[b], data[b].number, sum[r])
       /\ ~Has(kernel[pos[b]], "max") => data'[b].number = data[b].number
  /\ \A q \in Rank \ {r} : sum'[q] = sum[q]
  /\ sum'[r] = IF Lead(r) \in S /\ kernel[pos[Lead(r)]].shared
               THEN data'[Lead(r)].shared ELSE sum[r]

\* Its blocks find what the stage before has left.
Finds(r, S, n) ==
  \A b \in S :
    /\ data[b].number = NumberAfter(b, n)
    /\ Has(Made(b, n), "max") => AllGave(n)
    /\ Made(b, n).shared => AllGave(n)
    /\ ~kernel[pos[b]].shared => sum[r] = SumAfter(b, n)

\* Blocks that run add one stage to those they have run.
LEMMA AdvanceGrows ==
  ASSUME Types, NEW r \in Rank, NEW S, NEW n \in Nat, Advance(r, S, n)
  PROVE  /\ Grown
         /\ \A b \in Block : Stages(b)' = IF b \in S THEN n + 1 ELSE Stages(b)
         /\ \A b \in Block : \A k \in 0 .. Stages(b) : PosAfter(b, k)' = PosAfter(b, k)
         /\ \A b \in S : PosAfter(b, n + 1)' = pos'[b] /\ Made(b, n + 1)' = kernel[pos[b]]
  <1>1. kernel' = kernel
    BY DEF Advance, setup
  <1>2. \A b \in Block \ S : gave'[b] = gave[b] /\ pos'[b] = pos[b]
    BY DEF Advance
  <1>3. \A b \in S : /\ b \in Block
                     /\ Stages(b) = n /\ Stages(b)' = n + 1
                     /\ \A k \in 1 .. n : gave'[b][k] = gave[b][k]
                     /\ gave'[b][n + 1].stage = pos[b]
    BY BlocksAre DEF Advance
  <1>4. \A b \in Block : Stages(b) \in Nat
    BY GaveIs
  <1>5. \A b \in Block : Stages(b)' = IF b \in S THEN n + 1 ELSE Stages(b)
    BY <1>2, <1>3 DEF Stages
  <1>6. Grown
    BY <1>1, <1>2, <1>3, <1>4, <1>5 DEF Grown
  <1>7. ASSUME NEW b \in Block, NEW k \in 0 .. Stages(b) PROVE PosAfter(b, k)' = PosAfter(b, k)
    <2>1. CASE b \notin S
      BY <2>1, <1>2, <1>5 DEF PosAfter
    <2>2. CASE b \in S /\ k < n
      <3>1. gave'[b][k + 1] = gave[b][k + 1] /\ k < n + 1
        BY <2>2, <1>3
      <3>. QED
        BY <3>1, <2>2, <1>3 DEF PosAfter
    <2>3. CASE b \in S /\ k = n
      BY <2>3, <1>3 DEF PosAfter
    <2>. QED
      BY <2>1, <2>2, <2>3, <1>3, <1>4
  <1>8. ASSUME NEW b \in S PROVE PosAfter(b, n + 1)' = pos'[b] /\ Made(b, n + 1)' = kernel[pos[b]]
    BY <1>1, <1>3 DEF PosAfter, Made
  <1>. QED
    BY <1>5, <1>6, <1>7, <1>8

\* The choice of the next stage does not depend on a number that the stage is to reduce.
LEMMA ChosenSame ==
  ASSUME SetupChosen, NEW p \in DOMAIN kernel, NEW x, NEW t, NEW u, ~kernel[p].shared => t = u
  PROVE  Chosen(p, x, t) = Chosen(p, x, u)
  <1>1. kernel[p].again # 0 /\ kernel[p].shared => kernel[p].by = "reduced"
    BY KernelIs
  <1>. QED
    BY <1>1 DEF Chosen

\* A block goes on to the next stage, or back to the beginning of its loop.
LEMMA ChosenIs ==
  ASSUME SetupChosen, NEW p \in DOMAIN kernel, NEW x, NEW t
  PROVE  /\ Chosen(p, x, t) \in 1 .. Len(kernel) + 1 /\ Chosen(p, x, t) \in After(kernel, p)
  <1>1. kernel[p] \in Stage /\ kernel[p].again <= p /\ p \in 1 .. Len(kernel) /\ Len(kernel) \in Nat
    BY KernelIs
  <1>2. kernel[p].again \in Nat
    BY <1>1 DEF Stage
  <1>. QED
    BY <1>1, <1>2 DEF Chosen, After

\* All that has been said of stages holds after the step.
LEMMA StagesInvRun ==
  ASSUME Types, StagesInv, NEW r \in Rank, NEW S, NEW n \in Nat, Advance(r, S, n), Finds(r, S, n)
  PROVE  StagesInv'
  <1>1. /\ Grown
        /\ \A b \in Block : Stages(b)' = IF b \in S THEN n + 1 ELSE Stages(b)
        /\ \A b \in Block : \A k \in 0 .. Stages(b) : PosAfter(b, k)' = PosAfter(b, k)
        /\ \A b \in S : PosAfter(b, n + 1)' = pos'[b] /\ Made(b, n + 1)' = kernel[pos[b]]
    BY AdvanceGrows
  <1>2. \A b \in Block : Stages(b) \in Nat /\ Stages(b)' \in Nat /\ Stages(b) <= Stages(b)'
    BY <1>1, GaveIs DEF Grown
  <1>3. ASSUME NEW b \in S
        PROVE  /\ b \in Block /\ Stages(b) = n /\ pos[b] \in DOMAIN kernel
               /\ gave'[b][n + 1].stage = pos[b] /\ gave'[b][n + 1].number = data[b].number
               /\ gave'[b][n + 1].sum = sum[r]
               /\ pos'[b] = Chosen(pos[b], data[b].number, sum[r])
    BY BlocksAre DEF Advance
  <1>4. ASSUME NEW b \in Block, NEW k \in 1 .. Stages(b)'
        PROVE  \/ k \in 1 .. Stages(b) /\ gave'[b][k] = gave[b][k]
               \/ b \in S /\ k = n + 1
    BY <1>1, <1>2, <1>3 DEF Grown
  <1>5. \A b \in Block : \A k \in 1 .. Stages(b)' : k - 1 \in 0 .. Stages(b) /\ k - 1 < Stages(b)'
    BY <1>2, <1>3, <1>4
  <1>6. ASSUME NEW b \in Block, NEW k \in 1 .. Stages(b)'
        PROVE  /\ Has(Made(b, k - 1), "max") => AllGave(k - 1)
               /\ Made(b, k - 1).shared => AllGave(k - 1)
    <2>1. CASE k \in 1 .. Stages(b)
      BY <2>1 DEF StagesInv, Found
    <2>2. CASE b \in S /\ k = n + 1
      BY <2>2 DEF Finds
    <2>. QED
      BY <2>1, <2>2, <1>4
  <1>7. ASSUME NEW b \in Block, NEW k \in 1 .. Stages(b)'
        PROVE  /\ NumberAfter(b, k - 1)' = NumberAfter(b, k - 1)
               /\ SumAfter(b, k - 1)' = SumAfter(b, k - 1)
               /\ Made(b, k - 1)' = Made(b, k - 1)
    BY <1>1, <1>5, <1>6, NumbersStay, StagesStay
  <1>8. ASSUME NEW b \in Block PROVE Decided(b)'
    <2>. SUFFICES ASSUME NEW k \in 1 .. Stages(b)'
         PROVE  PosAfter(b, k)' = Chosen(gave'[b][k].stage, gave'[b][k].number, gave'[b][k].sum)
      BY <1>1 DEF Decided, Chosen, Grown
    <2>1. CASE k \in 1 .. Stages(b) /\ gave'[b][k] = gave[b][k]
      <3>1. PosAfter(b, k) = Chosen(gave[b][k].stage, gave[b][k].number, gave[b][k].sum)
        BY <2>1 DEF StagesInv, Decided
      <3>2. PosAfter(b, k)' = PosAfter(b, k)
        BY <2>1, <1>1
      <3>. QED
        BY <3>1, <3>2, <2>1
    <2>2. CASE b \in S /\ k = n + 1
      BY <2>2, <1>1, <1>3
    <2>. QED
      BY <2>1, <2>2, <1>4
  <1>9. ASSUME NEW b \in Block, NEW k \in 1 .. Stages(b)'
        PROVE  /\ gave'[b][k].number = NumberAfter(b, k - 1)
               /\ ~Made(b, k)'.shared => gave'[b][k].sum = SumAfter(b, k - 1)
    <2>1. CASE k \in 1 .. Stages(b) /\ gave'[b][k] = gave[b][k]
      <3>1. /\ gave[b][k].number = NumberAfter(b, k - 1)
            /\ ~Made(b, k).shared => gave[b][k].sum = SumAfter(b, k - 1)
        BY <2>1 DEF StagesInv, Found
      <3>2. Made(b, k)' = Made(b, k)
        BY <2>1, <1>1, <1>2, StagesStay
      <3>. QED
        BY <3>1, <3>2, <2>1
    <2>2. CASE b \in S /\ k = n + 1
      BY <2>2, <1>1, <1>3 DEF Finds
    <2>. QED
      BY <2>1, <2>2, <1>4
  <1>10. ASSUME NEW b \in Block PROVE Found(b)'
    <2>. SUFFICES ASSUME NEW k \in 1 .. Stages(b)'
         PROVE  /\ gave'[b][k].number = NumberAfter(b, k - 1)'
                /\ Has(Made(b, k - 1)', "max") => AllGave(k - 1)'
                /\ Made(b, k - 1)'.shared => AllGave(k - 1)'
                /\ ~Made(b, k)'.shared => gave'[b][k].sum = SumAfter(b, k - 1)'
      BY DEF Found, Has
    <2>1. AllGave(k - 1) => AllGave(k - 1)'
      BY <1>1, StagesStay
    <2>. QED
      BY <2>1, <1>6, <1>7, <1>9
  <1>11. ASSUME NEW b \in Block, NEW c \in Block, NEW k \in 1 .. Stages(b)', k <= Stages(c)'
         PROVE  /\ gave'[b][k].stage = gave'[c][k].stage /\ Made(b, k)' = Made(c, k)'
                /\ gave'[b][k].stage \in DOMAIN kernel
                /\ NumberAfter(b, k - 1) = NumberAfter(c, k - 1)
                /\ SumAfter(b, k - 1) = SumAfter(c, k - 1)
    <2>1. k \in 1 .. Stages(c)' /\ k - 1 \in 0 .. Stages(b) /\ k - 1 \in 0 .. Stages(c)
      BY <1>2, <1>5, <1>11
    <2>2. PosAfter(b, k - 1) = PosAfter(c, k - 1)
      BY <2>1 DEF StagesInv, SameStages
    <2>3. PosAfter(b, k - 1)' = gave'[b][k].stage /\ PosAfter(c, k - 1)' = gave'[c][k].stage
      <3>1. k - 1 < Stages(b)' /\ k - 1 < Stages(c)' /\ (k - 1) + 1 = k
        BY <2>1, <1>5
      <3>. QED
        BY <3>1 DEF PosAfter
    <2>4. gave'[b][k].stage = gave'[c][k].stage
      BY <2>1, <2>2, <2>3, <1>1
    <2>5. gave'[b][k].stage \in DOMAIN kernel
      <3>1. CASE k \in 1 .. Stages(b) /\ gave'[b][k] = gave[b][k]
        BY <3>1 DEF Types, GaveOk
      <3>2. CASE b \in S /\ k = n + 1
        BY <3>2, <1>3
      <3>. QED
        BY <3>1, <3>2, <1>4
    <2>6. NumberAfter(b, k - 1) = NumberAfter(c, k - 1) /\ SumAfter(b, k - 1) = SumAfter(c, k - 1)
      BY <2>1, NumbersAgree DEF StagesInv
    <2>. QED
      BY <2>4, <2>5, <2>6 DEF Made
  <1>12. ASSUME NEW b \in Block, NEW c \in Block, NEW k \in 1 .. Stages(b)', k <= Stages(c)'
         PROVE  /\ gave'[b][k].number = gave'[c][k].number
                /\ ~Made(b, k)'.shared => gave'[b][k].sum = gave'[c][k].sum
    <2>1. k \in 1 .. Stages(c)'
      BY <1>2, <1>12
    <2>. QED
      BY <2>1, <1>9, <1>11, <1>12
  <1>13. SameFound'
    BY <1>12 DEF SameFound
  <1>14. SameStages'
    <2>. SUFFICES ASSUME NEW b \in Block, NEW c \in Block, NEW k \in 0 .. Stages(b)', k <= Stages(c)'
         PROVE  PosAfter(b, k)' = PosAfter(c, k)'
      BY DEF SameStages
    <2>1. CASE k = 0
      <3>1. 0 \in 0 .. Stages(b) /\ 0 \in 0 .. Stages(c) /\ 0 <= Stages(c)
        BY <1>2
      <3>2. PosAfter(b, 0) = PosAfter(c, 0)
        BY <3>1 DEF StagesInv, SameStages
      <3>. QED
        BY <3>1, <3>2, <2>1, <1>1
    <2>2. CASE k # 0
      <3>1. k \in 1 .. Stages(b)' /\ k \in 1 .. Stages(c)'
        BY <2>2, <1>2
      <3>2. /\ PosAfter(b, k)' = Chosen(gave'[b][k].stage, gave'[b][k].number, gave'[b][k].sum)
            /\ PosAfter(c, k)' = Chosen(gave'[c][k].stage, gave'[c][k].number, gave'[c][k].sum)
        BY <3>1, <1>1, <1>8 DEF Decided, Chosen, Grown
      <3>3. Made(b, k)' = kernel[gave'[b][k].stage]
        BY <2>2, <1>1 DEF Made, Grown
      <3>4. ~kernel[gave'[b][k].stage].shared => gave'[b][k].sum = gave'[c][k].sum
        BY <3>1, <3>3, <1>12
      <3>5. /\ gave'[b][k].stage = gave'[c][k].stage /\ gave'[b][k].stage \in DOMAIN kernel
            /\ gave'[b][k].number = gave'[c][k].number
        BY <3>1, <1>11, <1>12
      <3>6. Chosen(gave'[b][k].stage, gave'[b][k].number, gave'[b][k].sum)
              = Chosen(gave'[b][k].stage, gave'[b][k].number, gave'[c][k].sum)
        BY <3>4, <3>5, ChosenSame DEF Types
      <3>. QED
        BY <3>2, <3>5, <3>6
    <2>. QED
      BY <2>1, <2>2
  <1>. QED
    BY <1>8, <1>10, <1>13, <1>14 DEF StagesInv

\* Nothing changes for stages when no block runs.
LEMMA StagesStill ==
  ASSUME UNCHANGED <<kernel, pos, gave>>
  PROVE  \A b, k : /\ Stages(b)' = Stages(b) /\ Made(b, k)' = Made(b, k)
                   /\ PosAfter(b, k)' = PosAfter(b, k) /\ AllGave(k)' = AllGave(k)
                   /\ NumberAfter(b, k)' = NumberAfter(b, k) /\ SumAfter(b, k)' = SumAfter(b, k)
  <1>1. \A b, k : /\ Stages(b)' = Stages(b) /\ Made(b, k)' = Made(b, k)
                  /\ PosAfter(b, k)' = PosAfter(b, k) /\ AllGave(k)' = AllGave(k)
    BY DEF Stages, Made, PosAfter, AllGave
  <1>2. \A k : GreatestNumber(k)' = GreatestNumber(k) /\ GreatestShared(k)' = GreatestShared(k)
    BY DEF GreatestNumber, GreatestShared, Lead
  <1>3. \A b, k : NumberAfter(b, k)' = NumberAfter(b, k)
    BY <1>1, <1>2 DEF NumberAfter, Has
  <1>4. \A b, k : SumAfter(b, k)' = SumAfter(b, k)
    BY <1>1, <1>2 DEF SumAfter
  <1>. QED
    BY <1>1, <1>3, <1>4

\* All that has been said of stages holds after a step in which no block runs.
LEMMA StagesInvStill ==
  ASSUME StagesInv, UNCHANGED <<kernel, pos, gave>>
  PROVE  StagesInv'
  <1>1. \A b, k : /\ Stages(b)' = Stages(b) /\ Made(b, k)' = Made(b, k)
                  /\ PosAfter(b, k)' = PosAfter(b, k) /\ AllGave(k)' = AllGave(k)
                  /\ NumberAfter(b, k)' = NumberAfter(b, k) /\ SumAfter(b, k)' = SumAfter(b, k)
    BY StagesStill
  <1>2. SameStages'
    BY <1>1 DEF StagesInv, SameStages
  <1>3. SameFound'
    BY <1>1 DEF StagesInv, SameFound
  <1>4. \A b \in Block : Decided(b)'
    BY <1>1 DEF StagesInv, Decided, Chosen
  <1>5. \A b \in Block : Found(b)'
    BY <1>1 DEF StagesInv, Found, Has
  <1>. QED
    BY <1>2, <1>3, <1>4, <1>5 DEF StagesInv

-----------------------------------------------------------------------------
(***************************************************************************)
(* A step of one rank leaves the others as they are.                       *)
(***************************************************************************)
Elsewhere(r) ==
  /\ UNCHANGED setup
  /\ \A q \in Rank \ {r} : /\ at'[q] = at[q] /\ fields'[q] = fields[q] /\ order'[q] = order[q]
                           /\ todo'[q] = todo[q] /\ entered'[q] = entered[q] /\ sum'[q] = sum[q]
  /\ \A b \in Block : b[1] # r => gave'[b] = gave[b] /\ pos'[b] = pos[b] /\ data'[b] = data[b]

\* The stages, the place and the calls of another rank.
LEMMA OthersSame ==
  ASSUME NEW r \in Rank, Elsewhere(r), NEW q \in Rank \ {r}
  PROVE  /\ Ran(q)' = Ran(q) /\ Base(q)' = Base(q) /\ Asked(q)' = Asked(q)
         /\ ToGo(q)' = ToGo(q) /\ Entered(q)' = Entered(q)
         /\ \A b \in Blocks(q) : /\ b \in Block /\ b[1] = q /\ Stages(b)' = Stages(b)
                                 /\ \A k : /\ Made(b, k)' = Made(b, k)
                                           /\ PosAfter(b, k)' = PosAfter(b, k)
  <1>1. \A b \in Blocks(q) : b \in Block /\ b[1] = q /\ gave'[b] = gave[b] /\ pos'[b] = pos[b]
    BY BlocksAre DEF Elsewhere
  <1>2. kernel' = kernel /\ at'[q] = at[q] /\ order'[q] = order[q] /\ todo'[q] = todo[q]
        /\ entered'[q] = entered[q]
    BY DEF Elsewhere, setup
  <1>3. Lead(q) \in Blocks(q)
    BY BlocksAre
  <1>4. \A b \in Blocks(q) : /\ Stages(b)' = Stages(b)
                             /\ \A k : /\ Made(b, k)' = Made(b, k)
                                       /\ PosAfter(b, k)' = PosAfter(b, k)
    BY <1>1, <1>2 DEF Stages, Made, PosAfter
  <1>5. Ran(q)' = Ran(q)
    BY <1>2 DEF Ran, Blocks
  <1>6. Base(q)' = Base(q)
    BY <1>3, <1>4, <1>5 DEF Base, Lead
  <1>7. Asked(q)' = Asked(q)
    BY <1>3, <1>4, <1>6 DEF Asked, Lead
  <1>8. Entered(q)' = Entered(q)
    BY <1>2 DEF Entered
  <1>9. ToGo(q)' = ToGo(q)
    BY <1>2, <1>7, <1>8 DEF ToGo
  <1>. QED
    BY <1>1, <1>4, <1>5, <1>6, <1>7, <1>8, <1>9

\* Another rank keeps its place.
LEMMA OthersPlaced ==
  ASSUME Types, NEW r \in Rank, Elsewhere(r), NEW q \in Rank \ {r}, Together(q), Placed(q)
  PROVE  Together(q)' /\ Placed(q)'
  <1>1. /\ Ran(q)' = Ran(q) /\ Base(q)' = Base(q) /\ Asked(q)' = Asked(q)
        /\ \A b \in Blocks(q) : /\ Stages(b)' = Stages(b)
                                /\ \A k : Made(b, k)' = Made(b, k) /\ PosAfter(b, k)' = PosAfter(b, k)
    BY OthersSame
  <1>2. /\ kernel' = kernel /\ early' = early /\ late' = late
        /\ at'[q] = at[q] /\ order'[q] = order[q] /\ todo'[q] = todo[q] /\ fields'[q] = fields[q]
    BY DEF Elsewhere, setup
  <1>3. Lead(q) \in Blocks(q)
    BY BlocksAre
  <1>4. Together(q)'
    BY <1>1 DEF Together, Blocks
  <1>5. Inner(q)' = Inner(q)
    BY <1>2 DEF Inner, All
  <1>6. PosAfter(Lead(q), Base(q))' = PosAfter(Lead(q), Base(q))
    BY <1>1, <1>3 DEF Lead
  <1>7. Made(Lead(q), Base(q) - 1)' = Made(Lead(q), Base(q) - 1)
    BY <1>1, <1>3 DEF Lead
  <1>8. Placed(q)'
    BY <1>1, <1>2, <1>5, <1>6, <1>7 DEF Placed, All
  <1>. QED
    BY <1>4, <1>8

\* A block that does not run keeps its number.
LEMMA NumberStays ==
  ASSUME Types, Grown, NEW b \in Block, NumberNow(b), gave'[b] = gave[b],
         data'[b].number = data[b].number,
         Has(Made(b, Stages(b)), "max") => (Pends(b, "max")' <=> Pends(b, "max"))
  PROVE  NumberNow(b)'
  <1>1. PICK n \in Nat : n = Stages(b)
    BY GaveIs
  <1>2. Stages(b)' = n /\ Made(b, n)' = Made(b, n)
    BY <1>1 DEF Stages, Made, Grown
  <1>3. CASE Has(Made(b, n), "max") /\ Pends(b, "max")
    BY <1>1, <1>2, <1>3 DEF NumberNow, Has
  <1>4. CASE ~(Has(Made(b, n), "max") /\ Pends(b, "max"))
    <2>1. data[b].number = NumberAfter(b, n) /\ (Has(Made(b, n), "max") => AllGave(n))
      BY <1>1, <1>4 DEF NumberNow
    <2>2. NumberAfter(b, n)' = NumberAfter(b, n)
      BY <2>1, <1>1, NumbersStay
    <2>3. AllGave(n) => AllGave(n)'
      BY StagesStay
    <2>. QED
      BY <2>1, <2>2, <2>3, <1>1, <1>2, <1>4 DEF NumberNow, Has
  <1>. QED
    BY <1>3, <1>4

\* A rank that does not run its first block keeps the number of its shared mesh.
LEMMA SumStays ==
  ASSUME Types, Grown, NEW r \in Rank, SumNow(r), gave'[Lead(r)] = gave[Lead(r)],
         sum'[r] = sum[r],
         Made(Lead(r), Stages(Lead(r))).shared =>
           (Pends(Lead(r), "shared")' <=> Pends(Lead(r), "shared"))
  PROVE  SumNow(r)'
  <1>1. PICK b \in Block : b = Lead(r) /\ b = Lead(r)'
    BY BlocksAre DEF Lead
  <1>2. PICK n \in Nat : n = Stages(b)
    BY GaveIs
  <1>3. Stages(b)' = n /\ Made(b, n)' = Made(b, n) /\ gave'[b] = gave[b]
    BY <1>1, <1>2 DEF Stages, Made, Grown
  <1>4. Made(b, n).shared => (Pends(b, "shared")' <=> Pends(b, "shared"))
    BY <1>1, <1>2 DEF Pends
  <1>5. CASE Made(b, n).shared /\ Pends(b, "shared")
    BY <1>1, <1>2, <1>3, <1>4, <1>5 DEF SumNow
  <1>6. CASE ~(Made(b, n).shared /\ Pends(b, "shared"))
    <2>1. sum[r] = SumAfter(b, n) /\ (Made(b, n).shared => AllGave(n))
      BY <1>1, <1>2, <1>6 DEF SumNow
    <2>2. SumAfter(b, n)' = SumAfter(b, n)
      BY <2>1, <1>2, NumbersStay
    <2>3. AllGave(n) => AllGave(n)'
      BY StagesStay
    <2>. QED
      BY <2>1, <2>2, <2>3, <1>1, <1>2, <1>3, <1>4, <1>6 DEF SumNow
  <1>. QED
    BY <1>5, <1>6

\* The blocks of another rank keep their numbers.
LEMMA OthersNumbers ==
  ASSUME Types, NEW r \in Rank, Elsewhere(r), Grown, NEW q \in Rank \ {r},
         SumNow(q), \A b \in Blocks(q) : NumberNow(b)
  PROVE  SumNow(q)' /\ \A b \in Blocks(q) : NumberNow(b)'
  <1>1. /\ Ran(q)' = Ran(q)
        /\ \A b \in Blocks(q) : b \in Block /\ b[1] = q
    BY OthersSame
  <1>2. at'[q] = at[q] /\ todo'[q] = todo[q] /\ sum'[q] = sum[q]
    BY DEF Elsewhere
  <1>3. \A b \in Blocks(q) : gave'[b] = gave[b] /\ data'[b] = data[b]
    BY <1>1 DEF Elsewhere
  <1>4. \A b \in Blocks(q) : \A op : Pends(b, op)' = Pends(b, op)
    BY <1>1, <1>2 DEF Pends
  <1>5. \A b \in Blocks(q) : NumberNow(b)'
    BY <1>1, <1>3, <1>4, NumberStays
  <1>6. Lead(q) \in Blocks(q)
    BY BlocksAre
  <1>7. SumNow(q)'
    BY <1>2, <1>3, <1>4, <1>6, SumStays
  <1>. QED
    BY <1>5, <1>7, OthersSame DEF Blocks

-----------------------------------------------------------------------------
(***************************************************************************)
(* A step in which a rank makes no call.                                   *)
(***************************************************************************)
LEMMA BaseIs ==
  ASSUME Types, NEW r \in Rank, Together(r)
  PROVE  /\ Base(r) \in Nat /\ Asked(r) \in Stage /\ IsInjective(Asked(r).reduce)
         /\ \A b \in Blocks(r) : /\ b \in Block /\ Base(r) <= Stages(b) /\ Stages(b) \in Nat
                                 /\ Stages(b) = IF b \in Ran(r) THEN Base(r) + 1 ELSE Base(r)
         /\ Lead(r) \in Blocks(r)
  <1>1. \A b \in Blocks(r) : b \in Block /\ Stages(b) \in Nat
    BY BlocksAre, GaveIs
  <1>2. Lead(r) \in Blocks(r)
    BY BlocksAre
  <1>3. Base(r) \in Nat /\ \A b \in Blocks(r) : Stages(b) = IF b \in Ran(r) THEN Base(r) + 1 ELSE Base(r)
    BY DEF Together
  <1>4. \A b \in Blocks(r) : Base(r) <= Stages(b)
    BY <1>3
  <1>5. Asked(r) \in Stage /\ IsInjective(Asked(r).reduce)
    BY <1>1, <1>2, <1>3, <1>4, GaveIs DEF Asked
  <1>. QED
    BY <1>1, <1>2, <1>3, <1>4, <1>5

\* A rank has the calls it had; it may have left the last one.
CallsKept(r) ==
  /\ DOMAIN entered'[r] = DOMAIN entered[r]
  /\ \A k \in DOMAIN entered[r] :
       /\ entered'[r][k].op = entered[r][k].op /\ entered'[r][k].data = entered[r][k].data
       /\ entered'[r][k].stage = entered[r][k].stage /\ entered'[r][k].todo = entered[r][k].todo

\* The calls that have been made stay in place.
LEMMA CallsStayKept ==
  ASSUME Types, Grown, NEW r \in Rank, Together(r), CallsInv(r), CallsKept(r),
         Base(r)' \in Nat, Base(r) <= Base(r)',
         \A n \in 0 .. Base(r) : \A j \in Nat :
           IsCall(Lead(r), n, j) => (Passed(r, n, j)' <=> Passed(r, n, j)),
         \A n \in 0 .. Base(r)' : \A j \in Nat :
           n > Base(r) /\ IsCall(Lead(r), n, j)' => ~Passed(r, n, j)',
         OpenCall(r)'
  PROVE  CallsInv(r)'
  <1>1. /\ Base(r) \in Nat /\ Lead(r) \in Blocks(r) /\ Lead(r) \in Block
        /\ \A b \in Blocks(r) : b \in Block /\ Base(r) <= Stages(b) /\ Stages(b) \in Nat
    BY BaseIs
  <1>2. ASSUME NEW n \in 0 .. Base(r), NEW j
        PROVE  /\ IsCall(Lead(r), n, j)' = IsCall(Lead(r), n, j)
               /\ Operation(Lead(r), n, j)' = Operation(Lead(r), n, j)
    <2>1. n \in 0 .. Stages(Lead(r))
      BY <1>1
    <2>2. Made(Lead(r), n)' = Made(Lead(r), n)
      BY <1>1, <2>1, StagesStay DEF Lead
    <2>3. Operation(Lead(r), n, j)' = Operation(Lead(r), n, j)
      BY <2>2 DEF Operation
    <2>. QED
      BY <2>2, <2>3 DEF IsCall
  <1>3. ASSUME NEW k \in DOMAIN entered[r] PROVE CallMade(r, k)' /\ NumberGiven(r, k)'
    <2> DEFINE e == entered[r][k]
    <2>1. /\ CallMade(r, k) /\ NumberGiven(r, k)
          /\ entered'[r][k].op = e.op /\ entered'[r][k].data = e.data
          /\ entered'[r][k].stage = e.stage /\ entered'[r][k].todo = e.todo
      BY DEF CallsInv, CallsKept
    <2>2. /\ e.stage \in 1 .. Base(r) /\ Left(e) \in Nat
          /\ IsCall(Lead(r), e.stage, Left(e)) /\ Passed(r, e.stage, Left(e))
          /\ Head(e.todo) = Operation(Lead(r), e.stage, Left(e))
          /\ e.op = Call(Head(e.todo))
      BY <2>1 DEF CallMade
    <2>3. PICK n, j : n = e.stage /\ j = Left(e)
      OBVIOUS
    <2>4. n \in 0 .. Base(r) /\ j \in Nat /\ n \in 1 .. Base(r)'
      BY <1>1, <2>2, <2>3
    <2>5. /\ IsCall(Lead(r), n, j)' /\ Passed(r, n, j)'
          /\ Head(e.todo) = Operation(Lead(r), n, j)'
      BY <2>2, <2>3, <2>4, <1>2
    <2>6. CallMade(r, k)'
      BY <2>1, <2>2, <2>3, <2>4, <2>5 DEF CallMade, Left
    <2>7. \A c \in Blocks(r) : gave'[c][n] = gave[c][n]
      BY <2>2, <2>3, <1>1 DEF Grown
    <2>8. {gave'[c][n].data.number : c \in Blocks(r)} = {gave[c][n].data.number : c \in Blocks(r)}
      BY <2>7
    <2>9. gave'[Lead(r)][n].data.shared = gave[Lead(r)][n].data.shared
      BY <2>7, <1>1
    <2>10. NumberGiven(r, k)'
      <3>1. /\ Head(e.todo) = "max" => e.data = Max({gave[c][n].data.number : c \in Blocks(r)})
            /\ Head(e.todo) = "shared" => e.data = gave[Lead(r)][n].data.shared
        BY <2>1, <2>3 DEF NumberGiven
      <3>2. /\ Head(e.todo) = "max" => e.data = Max({gave'[c][n].data.number : c \in Blocks(r)})
            /\ Head(e.todo) = "shared" => e.data = gave'[Lead(r)][n].data.shared
        BY <3>1, <2>8, <2>9
      <3>. HIDE DEF e
      <3>. QED
        BY <3>2, <2>1, <2>3 DEF NumberGiven, Blocks, Lead
    <2>. QED
      BY <2>6, <2>10
  <1>4. CallsInOrder(r)'
    BY DEF CallsInv, CallsInOrder, Before, Left, CallsKept
  <1>5. NoCallMissed(r)'
    <2>. SUFFICES ASSUME NEW n \in 0 .. Base(r)', NEW j \in Nat,
                         IsCall(Lead(r), n, j)', Passed(r, n, j)'
         PROVE  \E k \in DOMAIN entered'[r] : entered'[r][k].stage = n /\ Left(entered'[r][k]) = j
      BY DEF NoCallMissed
    <2>1. n \in 0 .. Base(r)
      BY <1>1
    <2>2. IsCall(Lead(r), n, j) /\ Passed(r, n, j)
      BY <2>1, <1>2
    <2>3. PICK k \in DOMAIN entered[r] : entered[r][k].stage = n /\ Left(entered[r][k]) = j
      BY <2>1, <2>2 DEF CallsInv, NoCallMissed
    <2>. QED
      BY <2>3 DEF CallsKept, Left
  <1>. QED
    BY <1>3, <1>4, <1>5 DEF CallsInv, CallsKept

\* The same when the rank neither enters nor leaves a call.
LEMMA CallsStay ==
  ASSUME Types, Grown, NEW r \in Rank, Together(r), CallsInv(r), entered'[r] = entered[r],
         Base(r)' \in Nat, Base(r) <= Base(r)',
         \A n \in 0 .. Base(r) : \A j \in Nat :
           IsCall(Lead(r), n, j) => (Passed(r, n, j)' <=> Passed(r, n, j)),
         \A n \in 0 .. Base(r)' : \A j \in Nat :
           n > Base(r) /\ IsCall(Lead(r), n, j)' => ~Passed(r, n, j)',
         OpenCall(r)'
  PROVE  CallsInv(r)'
  <1>1. CallsKept(r)
    BY DEF CallsKept
  <1>. QED
    BY <1>1, CallsStayKept

\* All that has been said of other ranks.
LEMMA OthersStay ==
  ASSUME Types, NEW r \in Rank, Elsewhere(r), Grown, NEW q \in Rank \ {r}, RankInv(q)
  PROVE  RankInv(q)'
  <1>1. Together(q)' /\ Placed(q)'
    BY OthersPlaced DEF RankInv
  <1>2. SumNow(q)' /\ \A b \in Blocks(q) : NumberNow(b)'
    BY OthersNumbers DEF RankInv
  <1>3. /\ Base(q)' = Base(q) /\ ToGo(q)' = ToGo(q) /\ Entered(q)' = Entered(q)
        /\ at'[q] = at[q] /\ todo'[q] = todo[q] /\ entered'[q] = entered[q]
        /\ Lead(q) \in Blocks(q) /\ \A k : Made(Lead(q), k)' = Made(Lead(q), k)
    BY OthersSame, BlocksAre DEF Elsewhere, Lead
  <1>4. OpenCall(q)'
    BY <1>3 DEF RankInv, CallsInv, OpenCall
  <1>5. Base(q) \in Nat
    BY BaseIs DEF RankInv
  <1>6. \A n, j : Passed(q, n, j)' = Passed(q, n, j)
    BY <1>3 DEF Passed
  <1>7. \A n \in 0 .. Base(q)' : ~(n > Base(q))
    BY <1>3, <1>5
  <1>8. Base(q)' \in Nat /\ Base(q) <= Base(q)' /\ entered'[q] = entered[q] /\ Together(q) /\ CallsInv(q)
    BY <1>3, <1>5 DEF RankInv
  <1>9. CallsInv(q)'
    BY <1>4, <1>6, <1>7, <1>8, CallsStay
  <1>. QED
    BY <1>1, <1>2, <1>9 DEF RankInv, Blocks

-----------------------------------------------------------------------------
(***************************************************************************)
(* Steps in which no block changes.                                        *)
(***************************************************************************)
LEMMA StillGrows ==
  ASSUME Types, UNCHANGED <<setup, blockvars>>
  PROVE  Grown
  <1>1. \A b \in Block : Stages(b)' = Stages(b) /\ Stages(b) \in Nat
    BY GaveIs DEF Stages, blockvars
  <1>. QED
    BY <1>1 DEF Grown, blockvars, setup

\* The rank makes no call and stays between two iterations.
LEMMA QuietRank ==
  ASSUME Types, NEW r \in Rank, RankInv(r), UNCHANGED <<setup, blockvars, sum>>,
         entered'[r] = entered[r], Ran(r) = {}, Ran(r)' = {}, ToGo(r)' = ToGo(r),
         \A b \in Blocks(r) : Has(Made(b, Stages(b)), "max") => (Pends(b, "max")' <=> Pends(b, "max")),
         Made(Lead(r), Stages(Lead(r))).shared =>
           (Pends(Lead(r), "shared")' <=> Pends(Lead(r), "shared")),
         Placed(r)', OpenCall(r)'
  PROVE  RankInv(r)'
  <1>1. Grown
    BY StillGrows
  <1>2. \A b : Stages(b)' = Stages(b)
    BY DEF Stages, blockvars
  <1>3. Base(r)' = Base(r) /\ Base(r) = Stages(Lead(r))
    BY <1>2 DEF Base, Lead
  <1>4. Together(r)'
    BY <1>2, <1>3 DEF Together, RankInv, Blocks
  <1>5. \A b \in Blocks(r) : NumberNow(b)'
    BY <1>1, NumberStays, BlocksAre DEF RankInv, blockvars
  <1>6. SumNow(r)'
    BY <1>1, SumStays DEF RankInv, blockvars
  <1>7. Base(r) \in Nat
    BY BaseIs DEF RankInv
  <1>8. CallsInv(r)'
    <2>1. \A n, j : Passed(r, n, j)' = Passed(r, n, j)
      BY <1>3 DEF Passed
    <2>2. \A n \in 0 .. Base(r)' : ~(n > Base(r))
      BY <1>3, <1>7
    <2>3. Base(r)' \in Nat /\ Base(r) <= Base(r)' /\ Together(r) /\ CallsInv(r)
      BY <1>3, <1>7 DEF RankInv
    <2>. QED
      BY <1>1, <2>1, <2>2, <2>3, CallsStay
  <1>. QED
    BY <1>4, <1>5, <1>6, <1>8 DEF RankInv, Blocks

\* A step of a rank after which the rank is as it should be.
LEMMA RankStep ==
  ASSUME IInv, NEW r \in Rank, Elsewhere(r), Grown,
         Types', ~aborted', StagesInv', RankInv(r)', SameCalls'
  PROVE  IInv'
  <1>1. \A q \in Rank \ {r} : RankInv(q)'
    BY OthersStay DEF IInv
  <1>2. \A q \in Rank : RankInv(q)'
    BY <1>1
  <1>. QED
    BY <1>2 DEF IInv, Rank

\* The blocks of a rank between two iterations.
LEMMA BlocksAlike ==
  ASSUME IInv, NEW r \in Rank, Ran(r) = {}, NEW b \in Blocks(r)
  PROVE  /\ b \in Block /\ Stages(b) = Base(r) /\ Stages(Lead(r)) = Base(r)
         /\ Made(b, Base(r)) = Asked(r) /\ Requests(b) = Asked(r) /\ Requests(Lead(r)) = Asked(r)
         /\ pos[b] = PosAfter(Lead(r), Base(r))
  <1>1. Types /\ SameStages /\ Together(r)
    BY DEF IInv, StagesInv, RankInv
  <1>2. /\ b \in Block /\ Lead(r) \in Block /\ Base(r) \in Nat
        /\ Stages(b) = Base(r) /\ Stages(Lead(r)) = Base(r)
    BY <1>1, BaseIs
  <1>3. Base(r) \in 0 .. Stages(b) /\ Base(r) <= Stages(Lead(r))
    BY <1>2
  <1>4. Made(b, Base(r)) = Asked(r)
    BY <1>1, <1>2, <1>3, MadeAgrees DEF Asked
  <1>5. Requests(b) = Made(b, Stages(b)) /\ Requests(Lead(r)) = Made(Lead(r), Stages(Lead(r)))
    BY <1>1, <1>2, GaveIs
  <1>6. PosAfter(b, Base(r)) = PosAfter(Lead(r), Base(r))
    BY <1>1, <1>2, <1>3 DEF SameStages
  <1>7. PosAfter(b, Base(r)) = pos[b]
    BY <1>2 DEF PosAfter
  <1>. QED
    BY <1>2, <1>4, <1>5, <1>6, <1>7 DEF Asked

\* An iteration begins: no fassert fails, since all blocks have made the same requests.
LEMMA BeginNext ==
  ASSUME IInv, NEW r \in Rank, Begin(r)
  PROVE  IInv'
  <1>1. Types /\ RankInv(r) /\ Placed(r) /\ OpenCall(r) /\ ~aborted
    BY DEF IInv, RankInv, CallsInv
  <1>2. /\ at[r] = "begin" /\ at' = [at EXCEPT ![r] = IF Requests(Lead(r)).dump THEN "sync" ELSE "inner"]
        /\ fields' = [fields EXCEPT ![r] = Requests(Lead(r)).comm]
        /\ sent' = [sent EXCEPT ![r] = @ + IF fields'[r] THEN 1 ELSE 0]
        /\ aborted' = (aborted \/ ~SameFields(r))
        /\ UNCHANGED <<setup, blockvars, sum>> /\ UNCHANGED <<order, todo, entered>>
    BY DEF Begin
  <1>3. Ran(r) = {}
    BY <1>2 DEF Ran
  <1>4. Requests(Lead(r)) = Asked(r) /\ Asked(r) \in Stage /\ Asked(r).dump \in BOOLEAN /\ Asked(r).comm \in BOOLEAN
    BY <1>1, <1>3, BlocksAlike, BaseIs, BlocksAre DEF RankInv, Stage
  <1>5. at'[r] \in {"sync", "inner"} /\ fields'[r] = Asked(r).comm /\ (at'[r] = "sync" <=> Asked(r).dump)
    BY <1>1, <1>2, <1>4 DEF Types
  <1>6. Types'
    <2>1. at' \in [Rank -> Places] /\ fields' \in [Rank -> BOOLEAN] /\ sent' \in [Rank -> Nat]
      BY <1>1, <1>2, <1>4 DEF Types, Places
    <2>. QED
      BY <1>1, <1>2, <2>1 DEF Types, setup, blockvars, SetupChosen, EnteredOk, GaveOk, Stages
  <1>7. Elsewhere(r) /\ Grown
    <2>1. Elsewhere(r)
      BY <1>1, <1>2 DEF Elsewhere, blockvars, Types
    <2>. QED
      BY <2>1, <1>1, <1>2, StillGrows
  <1>8. StagesInv'
    BY <1>2, StagesInvStill DEF IInv, blockvars, setup
  <1>9. ~aborted'
    <2>1. \A b \in Blocks(r) : Requests(b) = Requests(Lead(r))
      BY <1>3, BlocksAlike
    <2>. QED
      BY <2>1, <1>1, <1>2 DEF SameFields
  <1>10. Ran(r)' = {} /\ ToGo(r)' = ToGo(r) /\ Asked(r)' = Asked(r) /\ Base(r)' = Base(r)
    <2>1. Ran(r)' = {}
      BY <1>5 DEF Ran
    <2>2. ToGo(r)' = ToGo(r)
      BY <1>2, <1>5 DEF ToGo
    <2>3. Base(r)' = Base(r)
      BY <2>1, <1>2, <1>3 DEF Base, Lead, Stages, blockvars
    <2>. QED
      BY <2>1, <2>2, <2>3, <1>2 DEF Asked, Made, Lead, blockvars, setup
  <1>11. \A b \in Blocks(r) : \A op : Pends(b, op)' = Pends(b, op)
    BY <1>2, <1>3, <1>5, <1>10, BlocksAre DEF Pends
  <1>12. OpenCall(r)'
    BY <1>1, <1>2 DEF OpenCall, Entered
  <1>13. Placed(r)'
    BY <1>1, <1>2, <1>5, <1>10 DEF Placed, PosAfter, Lead, Stages, blockvars, setup
  <1>14. RankInv(r)'
    BY <1>1, <1>2, <1>3, <1>10, <1>11, <1>12, <1>13, QuietRank, BlocksAre
  <1>15. SameCalls'
    BY <1>2 DEF IInv, SameCalls, Left
  <1>. QED
    BY <1>6, <1>7, <1>8, <1>9, <1>14, <1>15, RankStep

\* All halo cells of a dump have come.
LEMMA SyncNext ==
  ASSUME IInv, NEW r \in Rank, Sync(r)
  PROVE  IInv'
  <1>1. Types /\ RankInv(r) /\ Placed(r) /\ OpenCall(r) /\ ~aborted
    BY DEF IInv, RankInv, CallsInv
  <1>2. /\ at[r] = "sync" /\ at' = [at EXCEPT ![r] = "write"]
        /\ todo' = [todo EXCEPT ![r] = <<"dump">>]
        /\ UNCHANGED <<setup, blockvars, sum>> /\ UNCHANGED <<fields, order, sent, entered, aborted>>
    BY DEF Sync
  <1>3. at'[r] = "write" /\ todo'[r] = <<"dump">> /\ <<"dump">> # <<>>
    BY <1>1, <1>2 DEF Types
  <1>4. Ran(r) = {} /\ Ran(r)' = {}
    BY <1>2, <1>3 DEF Ran
  <1>5. Types'
    <2>1. at' \in [Rank -> Places] /\ todo' \in [Rank -> Seq(Op \cup {"dump"})]
      BY <1>1, <1>2 DEF Types, Places
    <2>. QED
      BY <1>1, <1>2, <2>1 DEF Types, setup, blockvars, SetupChosen, EnteredOk, GaveOk, Stages
  <1>6. Elsewhere(r) /\ Grown
    <2>1. Elsewhere(r)
      BY <1>1, <1>2 DEF Elsewhere, blockvars, Types
    <2>. QED
      BY <2>1, <1>1, <1>2, StillGrows
  <1>7. StagesInv'
    BY <1>2, StagesInvStill DEF IInv, blockvars, setup
  <1>8. Asked(r)' = Asked(r) /\ Base(r)' = Base(r)
    <2>1. Base(r)' = Base(r)
      BY <1>4, <1>2 DEF Base, Lead, Stages, blockvars
    <2>. QED
      BY <2>1, <1>2 DEF Asked, Made, Lead, blockvars, setup
  <1>9. ~Entered(r) /\ ~Entered(r)'
    BY <1>1, <1>2 DEF OpenCall, Entered
  <1>10. ToGo(r)' = ToGo(r)
    BY <1>2, <1>3, <1>9 DEF ToGo
  <1>11. \A b \in Blocks(r) : \A op : Pends(b, op)' = Pends(b, op)
    BY <1>2, <1>3, <1>4, BlocksAre DEF Pends
  <1>12. OpenCall(r)'
    BY <1>9 DEF OpenCall
  <1>13. Placed(r)'
    BY <1>1, <1>2, <1>3, <1>8 DEF Placed, PosAfter, Lead, Stages, blockvars, setup
  <1>14. RankInv(r)'
    BY <1>1, <1>2, <1>4, <1>10, <1>11, <1>12, <1>13, QuietRank, BlocksAre
  <1>15. SameCalls'
    BY <1>2 DEF IInv, SameCalls, Left
  <1>. QED
    BY <1>1, <1>2, <1>5, <1>6, <1>7, <1>14, <1>15, RankStep

\* An iteration ends: all blocks have more stages, or none has.
LEMMA RepeatNext ==
  ASSUME IInv, NEW r \in Rank, Repeat(r)
  PROVE  IInv'
  <1>1. Types /\ RankInv(r) /\ Placed(r) /\ OpenCall(r) /\ ~aborted
    BY DEF IInv, RankInv, CallsInv
  <1>2. /\ at[r] = "serve" /\ todo[r] = <<>>
        /\ at' = [at EXCEPT ![r] = IF \E b \in Blocks(r) : Pending(b) THEN "begin" ELSE "end"]
        /\ aborted' = (aborted \/ \E b, c \in Blocks(r) : Pending(b) /\ ~Pending(c))
        /\ UNCHANGED <<setup, blockvars, sum>> /\ UNCHANGED <<fields, order, sent, todo, entered>>
    BY DEF Repeat
  <1>3. Ran(r) = {}
    BY <1>2 DEF Ran
  <1>4. \A b \in Blocks(r) : pos[b] = PosAfter(Lead(r), Base(r))
    BY <1>3, BlocksAlike
  <1>5. /\ at'[r] \in {"begin", "end"}
        /\ at'[r] = "begin" => \E b \in Blocks(r) : Pending(b)
    BY <1>1, <1>2 DEF Types
  <1>6. Types'
    <2>1. at' \in [Rank -> Places]
      BY <1>1, <1>2 DEF Types, Places
    <2>. QED
      BY <1>1, <1>2, <2>1 DEF Types, setup, blockvars, SetupChosen, EnteredOk, GaveOk, Stages
  <1>7. Elsewhere(r) /\ Grown
    <2>1. Elsewhere(r)
      BY <1>1, <1>2 DEF Elsewhere, blockvars, Types
    <2>. QED
      BY <2>1, <1>1, <1>2, StillGrows
  <1>8. StagesInv'
    BY <1>2, StagesInvStill DEF IInv, blockvars, setup
  <1>9. ~aborted'
    BY <1>1, <1>2, <1>4 DEF Pending
  <1>10. Ran(r)' = {} /\ Base(r)' = Base(r) /\ Asked(r)' = Asked(r)
    <2>1. Ran(r)' = {}
      BY <1>5 DEF Ran
    <2>2. Base(r)' = Base(r)
      BY <2>1, <1>2, <1>3 DEF Base, Lead, Stages, blockvars
    <2>. QED
      BY <2>1, <2>2, <1>2 DEF Asked, Made, Lead, blockvars, setup
  <1>11. ~Entered(r) /\ ~Entered(r)'
    BY <1>1, <1>2 DEF OpenCall, Entered
  <1>12. ToGo(r)' = ToGo(r)
    <2>1. Len(todo[r]) = 0
      BY <1>2
    <2>. QED
      BY <2>1, <1>2, <1>5, <1>11 DEF ToGo
  <1>13. \A b \in Blocks(r) : \A op : Pends(b, op)' = Pends(b, op)
    <2>1. Range(todo[r]) = {}
      BY <1>2 DEF Range
    <2>. QED
      BY <2>1, <1>2, <1>3, <1>5, <1>10, BlocksAre DEF Pends
  <1>14. OpenCall(r)'
    BY <1>11 DEF OpenCall
  <1>15. Placed(r)'
    <2>1. at'[r] = "begin" => PosAfter(Lead(r), Base(r)) \in DOMAIN kernel
      <3>. SUFFICES ASSUME at'[r] = "begin" PROVE PosAfter(Lead(r), Base(r)) \in DOMAIN kernel
        OBVIOUS
      <3>1. PICK b \in Blocks(r) : Pending(b)
        BY <1>5
      <3>2. b \in Block /\ pos[b] = PosAfter(Lead(r), Base(r)) /\ pos[b] <= Len(kernel)
        BY <3>1, <1>4, BlocksAre DEF Pending
      <3>3. pos[b] \in 1 .. Len(kernel) + 1
        BY <3>2, <1>1 DEF Types
      <3>. QED
        BY <3>2, <3>3, KernelIs, <1>1 DEF Types
    <2>2. PosAfter(Lead(r), Base(r))' = PosAfter(Lead(r), Base(r))
      BY <1>10, <1>2 DEF PosAfter, Lead, Stages, blockvars
    <2>. QED
      BY <2>1, <2>2, <1>2, <1>5, <1>10 DEF Placed, setup
  <1>16. RankInv(r)'
    BY <1>1, <1>2, <1>3, <1>10, <1>12, <1>13, <1>14, <1>15, QuietRank, BlocksAre
  <1>17. SameCalls'
    BY <1>2 DEF IInv, SameCalls, Left
  <1>. QED
    BY <1>6, <1>7, <1>8, <1>9, <1>16, <1>17, RankStep

\* The requests of the stage are compared: all blocks have made the same ones.
LEMMA CollectNext ==
  ASSUME IInv, NEW r \in Rank, Collect(r)
  PROVE  IInv'
  <1> DEFINE ops == Operations(Asked(r))
  <1>1. Types /\ RankInv(r) /\ Placed(r) /\ OpenCall(r) /\ ~aborted
    BY DEF IInv, RankInv, CallsInv
  <1>2. /\ at[r] = "collect" /\ at' = [at EXCEPT ![r] = "serve"]
        /\ todo' = [todo EXCEPT ![r] = Operations(Requests(Lead(r)))]
        /\ aborted' = (aborted \/ ~SameRequests(r))
        /\ UNCHANGED <<setup, blockvars, sum>> /\ UNCHANGED <<fields, order, sent, entered>>
    BY DEF Collect
  <1>3. Ran(r) = {}
    BY <1>2 DEF Ran
  <1>4. /\ Requests(Lead(r)) = Asked(r) /\ Asked(r) \in Stage /\ IsInjective(Asked(r).reduce)
        /\ Stages(Lead(r)) = Base(r)
        /\ \A b \in Blocks(r) : Requests(b) = Asked(r) /\ Made(b, Stages(b)) = Asked(r)
    BY <1>1, <1>3, BlocksAlike, BaseIs, BlocksAre DEF RankInv
  <1>5. /\ ops \in Seq(Op)
        /\ \A op \in Reduction : op \in Range(ops) <=> Has(Asked(r), op)
        /\ "shared" \in Range(ops) <=> Asked(r).shared
    BY <1>4, OperationsAre DEF IsPlan
  <1>6. ops \in Seq(Op \cup {"dump"}) /\ Len(ops) \in Nat
    BY <1>5, SeqMonotonic
  <1>7. at'[r] = "serve" /\ todo'[r] = ops
    BY <1>1, <1>2, <1>4 DEF Types
  <1>8. Types'
    <2>1. at' \in [Rank -> Places] /\ todo' \in [Rank -> Seq(Op \cup {"dump"})]
      BY <1>1, <1>2, <1>4, <1>6 DEF Types, Places
    <2>. QED
      BY <1>1, <1>2, <2>1 DEF Types, setup, blockvars, SetupChosen, EnteredOk, GaveOk, Stages
  <1>9. Elsewhere(r) /\ Grown
    <2>1. Elsewhere(r)
      BY <1>1, <1>2 DEF Elsewhere, blockvars, Types
    <2>. QED
      BY <2>1, <1>1, <1>2, StillGrows
  <1>10. StagesInv'
    BY <1>2, StagesInvStill DEF IInv, blockvars, setup
  <1>11. ~aborted'
    BY <1>1, <1>2, <1>4 DEF SameRequests
  <1>12. Ran(r)' = {} /\ Base(r)' = Base(r) /\ Asked(r)' = Asked(r)
    <2>1. Ran(r)' = {}
      BY <1>7 DEF Ran
    <2>2. Base(r)' = Base(r)
      BY <2>1, <1>2, <1>3 DEF Base, Lead, Stages, blockvars
    <2>. QED
      BY <2>1, <2>2, <1>2 DEF Asked, Made, Lead, blockvars, setup
  <1>13. ~Entered(r) /\ ~Entered(r)'
    BY <1>1, <1>2 DEF OpenCall, Entered
  <1>14. ToGo(r)' = ToGo(r)
    BY <1>2, <1>7, <1>13 DEF ToGo
  <1>15. ASSUME NEW b \in Blocks(r)
         PROVE  /\ Has(Made(b, Stages(b)), "max") => (Pends(b, "max")' <=> Pends(b, "max"))
                /\ Made(b, Stages(b)).shared => (Pends(b, "shared")' <=> Pends(b, "shared"))
    <2>1. b[1] = r
      BY BlocksAre
    <2>2. \A op : Pends(b, op) /\ (op \in Range(ops) => Pends(b, op)')
      BY <2>1, <1>2, <1>7 DEF Pends
    <2>3. "max" \in Reduction
      BY DEF Reduction
    <2>. QED
      BY <2>2, <2>3, <1>4, <1>5
  <1>16. OpenCall(r)'
    BY <1>13 DEF OpenCall
  <1>17. Placed(r)'
    <2>1. IsRest(ops, ops)
      BY <1>6 DEF IsRest
    <2>2. Operations(Asked(r))' = ops
      BY <1>12 DEF Operations
    <2>3. Base(r) >= 1 /\ (\/ order[r] = All
                           \/ /\ order[r] = early \o late
                              /\ late # <<>>
                              /\ Made(Lead(r), Base(r) - 1).comm /\ ~Made(Lead(r), Base(r) - 1).dump)
      BY <1>1, <1>2 DEF Placed
    <2>4. Made(Lead(r), Base(r) - 1)' = Made(Lead(r), Base(r) - 1)
      BY <1>2, <1>12 DEF Made, Lead, blockvars, setup
    <2>. HIDE DEF ops
    <2>. QED
      BY <2>1, <2>2, <2>3, <2>4, <1>2, <1>5, <1>7, <1>12 DEF Placed, setup, All
  <1>18. RankInv(r)'
    BY <1>1, <1>2, <1>3, <1>12, <1>14, <1>15, <1>16, <1>17, QuietRank, BlocksAre
  <1>19. SameCalls'
    BY <1>2 DEF IInv, SameCalls, Left
  <1>. QED
    BY <1>8, <1>9, <1>10, <1>11, <1>18, <1>19, RankStep

-----------------------------------------------------------------------------
(***************************************************************************)
(* Steps in which blocks run.                                              *)
(***************************************************************************)
LEMMA InOrderIs ==
  ASSUME NEW r \in Rank, NEW bb \in Seq(Local)
  PROVE  Range(InOrder(r, bb)) = {b \in Blocks(r) : b[2] \in Range(bb)}
  <1> DEFINE S == {b \in Blocks(r) : b[2] \in Range(bb)}
  <1>1. \A i \in DOMAIN bb : bb[i] \in Local
    OBVIOUS
  <1>2. Range(InOrder(r, bb)) = {<<r, bb[i]>> : i \in DOMAIN bb}
    BY DEF Range, InOrder
  <1>3. \A i \in DOMAIN bb : <<r, bb[i]>> \in S
    BY <1>1, BlocksAre DEF Range
  <1>4. ASSUME NEW b \in S PROVE b \in {<<r, bb[i]>> : i \in DOMAIN bb}
    <2>1. PICK i \in DOMAIN bb : b[2] = bb[i]
      BY DEF Range
    <2>2. b = <<r, bb[i]>>
      BY <2>1, BlocksAre
    <2>. QED
      BY <2>2
  <1>. QED
    BY <1>2, <1>3, <1>4

\* The numbers in the buffers after a stage.
LEMMA FilledIs ==
  ASSUME NEW b, DOMAIN data[b] = Buffers, NEW c
  PROVE  LET s == kernel[pos[b]] IN
         /\ DOMAIN Filled(b, c) = Buffers
         /\ Filled(b, c).number = IF Has(s, "max") THEN c ELSE data[b].number
         /\ Filled(b, c).shared = IF s.shared /\ b[2] = 0 THEN c ELSE data[b].shared
  BY DEF Filled, Buffers

\* What RunKernels does.
LEMMA RunsAre ==
  ASSUME Types, NEW r \in Rank, NEW bb \in Seq(Local), RunKernels(r, bb), UNCHANGED setup,
         NEW S, S = {b \in Blocks(r) : b[2] \in Range(bb)}, NEW n \in Nat,
         \A b \in S : Stages(b) = n /\ pos[b] \in DOMAIN kernel
  PROVE  /\ Advance(r, S, n)
         /\ pos' \in [Block -> Nat] /\ \A b \in Block : pos'[b] \in 1 .. Len(kernel) + 1
         /\ DOMAIN data' = Block /\ DOMAIN gave' = Block
         /\ \A b \in Block : /\ DOMAIN data'[b] = Buffers
                             /\ data'[b].number \in Nat /\ data'[b].shared \in Nat
                             /\ GaveOk(b)'
         /\ sum' \in [Rank -> Nat]
  <1>1. S = Range(InOrder(r, bb)) /\ S \subseteq Block /\ S \subseteq Blocks(r)
    BY InOrderIs, BlocksAre
  <1>2. PICK c \in [S -> {0, 1}] :
          /\ data' = [b \in Block |-> IF b \in S THEN Filled(b, c[b]) ELSE data[b]]
          /\ gave' = [b \in Block |-> IF b \in S
                        THEN Append(gave[b], [stage |-> pos[b], number |-> data[b].number,
                                              sum |-> sum[r], data |-> Filled(b, c[b])])
                        ELSE gave[b]]
          /\ pos' = [b \in Block |-> IF b \in S THEN Following(b) ELSE pos[b]]
          /\ sum' = IF Lead(r) \in S /\ kernel[pos[Lead(r)]].shared
                    THEN [sum EXCEPT ![r] = c[Lead(r)]] ELSE sum
    BY <1>1 DEF RunKernels
  <1>3. \A b \in Block \ S : gave'[b] = gave[b] /\ pos'[b] = pos[b] /\ data'[b] = data[b]
    BY <1>2
  <1>4. ASSUME NEW b \in S
        PROVE  /\ b \in Block /\ c[b] \in {0, 1} /\ data'[b] = Filled(b, c[b])
               /\ DOMAIN data'[b] = Buffers
               /\ data'[b].number = IF Has(kernel[pos[b]], "max") THEN c[b] ELSE data[b].number
               /\ data'[b].shared = IF kernel[pos[b]].shared /\ b[2] = 0 THEN c[b] ELSE data[b].shared
    BY <1>1, <1>2, FilledIs DEF Types
  <1>5. ASSUME NEW b \in S
        PROVE  /\ IsSeq(gave'[b]) /\ Stages(b)' = n + 1
               /\ \A k \in 1 .. n : gave'[b][k] = gave[b][k]
               /\ gave'[b][n + 1].stage = pos[b] /\ gave'[b][n + 1].number = data[b].number
               /\ gave'[b][n + 1].sum = sum[r] /\ gave'[b][n + 1].data = data'[b]
    <2> DEFINE e == [stage |-> pos[b], number |-> data[b].number, sum |-> sum[r], data |-> Filled(b, c[b])]
    <2>1. gave'[b] = Append(gave[b], e) /\ IsSeq(gave[b]) /\ Len(gave[b]) = n
      BY <1>1, <1>2 DEF Types, GaveOk, Stages
    <2>2. e.stage = pos[b] /\ e.number = data[b].number /\ e.sum = sum[r] /\ e.data = data'[b]
      BY <1>4
    <2>. HIDE DEF e
    <2>. QED
      BY <2>1, <2>2, Appended DEF Stages
  <1>6. ASSUME NEW b \in S
        PROVE  pos'[b] = Chosen(pos[b], data[b].number, sum[r]) /\ pos'[b] \in 1 .. Len(kernel) + 1
    <2>1. pos'[b] = Following(b) /\ b[1] = r
      BY <1>1, <1>2, BlocksAre
    <2>2. pos'[b] = Chosen(pos[b], data[b].number, sum[r])
      BY <2>1 DEF Following, Chosen
    <2>. QED
      BY <2>2, ChosenIs DEF Types
  <1>7. /\ \A q \in Rank \ {r} : sum'[q] = sum[q]
        /\ sum'[r] = IF Lead(r) \in S /\ kernel[pos[Lead(r)]].shared
                     THEN data'[Lead(r)].shared ELSE sum[r]
        /\ sum' \in [Rank -> Nat]
    <2>1. CASE Lead(r) \in S /\ kernel[pos[Lead(r)]].shared
      <3>1. data'[Lead(r)].shared = c[Lead(r)] /\ c[Lead(r)] \in Nat
        BY <2>1, <1>4, BlocksAre
      <3>2. sum' = [sum EXCEPT ![r] = c[Lead(r)]] /\ sum \in [Rank -> Nat]
        BY <2>1, <1>2 DEF Types
      <3>. QED
        BY <2>1, <3>1, <3>2
    <2>2. CASE ~(Lead(r) \in S /\ kernel[pos[Lead(r)]].shared)
      BY <2>2, <1>2 DEF Types
    <2>. QED
      BY <2>1, <2>2
  <1>8. Advance(r, S, n)
    BY <1>1, <1>3, <1>4, <1>5, <1>6, <1>7 DEF Advance
  <1>9. pos' \in [Block -> Nat] /\ \A b \in Block : pos'[b] \in 1 .. Len(kernel) + 1
    <2>1. \A b \in Block : pos'[b] \in 1 .. Len(kernel) + 1
      BY <1>3, <1>6 DEF Types
    <2>2. \A b \in Block : pos'[b] \in Nat
      BY <2>1, KernelIs DEF Types
    <2>. QED
      BY <1>2, <2>1, <2>2
  <1>10. ASSUME NEW b \in Block
         PROVE  DOMAIN data'[b] = Buffers /\ data'[b].number \in Nat /\ data'[b].shared \in Nat
    <2>1. DOMAIN data[b] = Buffers /\ data[b].number \in Nat /\ data[b].shared \in Nat
      BY DEF Types
    <2>2. CASE b \notin S
      BY <2>1, <2>2, <1>3
    <2>3. CASE b \in S
      <3>1. c[b] \in Nat
        BY <2>3, <1>4
      <3>2. DOMAIN data'[b] = Buffers
        BY <2>3, <1>4
      <3>3. data'[b].number \in Nat
        BY <2>1, <2>3, <3>1, <1>4
      <3>4. data'[b].shared \in Nat
        BY <2>1, <2>3, <3>1, <1>4
      <3>. QED
        BY <3>2, <3>3, <3>4
    <2>. QED
      BY <2>2, <2>3
  <1>11. ASSUME NEW b \in Block PROVE GaveOk(b)'
    <2>1. kernel' = kernel
      BY DEF setup
    <2>2. CASE b \notin S
      <3>1. gave'[b] = gave[b] /\ GaveOk(b)
        BY <2>2, <1>3 DEF Types
      <3>. QED
        BY <2>1, <3>1 DEF GaveOk, Stages
    <2>3. CASE b \in S
      <3>1. GaveOk(b) /\ Stages(b) = n
        BY <2>3 DEF Types
      <3>2. \A k \in 1 .. n + 1 : k \in 1 .. n \/ k = n + 1
        OBVIOUS
      <3>3. data[b].number \in Nat /\ sum[r] \in Nat /\ pos[b] \in DOMAIN kernel
        BY <2>3, <1>1 DEF Types
      <3>4. data'[b].number \in Nat /\ data'[b].shared \in Nat
        BY <1>10
      <3>5. IsSeq(gave'[b]) /\ Stages(b)' = n + 1
        BY <2>3, <1>5
      <3>6. ASSUME NEW k \in 1 .. n + 1
            PROVE  /\ gave'[b][k].stage \in DOMAIN kernel
                   /\ gave'[b][k].number \in Nat /\ gave'[b][k].sum \in Nat
                   /\ gave'[b][k].data.number \in Nat /\ gave'[b][k].data.shared \in Nat
        <4>1. CASE k \in 1 .. n
          <5>1. gave'[b][k] = gave[b][k]
            BY <4>1, <2>3, <1>5
          <5>. QED
            BY <4>1, <5>1, <3>1 DEF GaveOk
        <4>2. CASE k = n + 1
          BY <4>2, <2>3, <3>3, <3>4, <1>5
        <4>. QED
          BY <4>1, <4>2, <3>2
      <3>. QED
        BY <2>1, <3>5, <3>6 DEF GaveOk
    <2>. QED
      BY <2>2, <2>3
  <1>12. DOMAIN data' = Block /\ DOMAIN gave' = Block
    BY <1>2
  <1>. QED
    BY <1>7, <1>8, <1>9, <1>10, <1>11, <1>12

\* The blocks that run find what the stage before has left.
LEMMA ReadyFinds ==
  ASSUME IInv, NEW r \in Rank, NEW S, S \subseteq Blocks(r), S \cap Ran(r) = {},
         at[r] \in {"inner", "halo", "write"}
  PROVE  /\ \A b \in S : Stages(b) = Base(r) /\ pos[b] \in DOMAIN kernel
         /\ Finds(r, S, Base(r))
  <1>1. /\ Types /\ SameStages /\ SameFound /\ Together(r) /\ SumNow(r)
        /\ \A b \in Block : Found(b)
        /\ PosAfter(Lead(r), Base(r)) \in DOMAIN kernel
    BY DEF IInv, StagesInv, RankInv, Placed
  <1>2. PICK n \in Nat : n = Base(r)
    BY <1>1, BaseIs
  <1>3. PICK l \in Block : l = Lead(r) /\ l \in Blocks(r) /\ l[1] = r
    BY BlocksAre
  <1>4. n <= Stages(l) /\ Stages(l) \in Nat /\ n \in 0 .. Stages(l)
    BY <1>1, <1>2, <1>3, BaseIs
  <1>. SUFFICES ASSUME NEW b \in S
       PROVE  /\ Stages(b) = n /\ pos[b] \in DOMAIN kernel
              /\ data[b].number = NumberAfter(b, n)
              /\ Has(Made(b, n), "max") => AllGave(n)
              /\ Made(b, n).shared => AllGave(n)
              /\ ~kernel[pos[b]].shared => sum[r] = SumAfter(b, n)
    BY <1>2 DEF Finds
  <1>5. b \in Blocks(r) /\ b \in Block /\ b[1] = r /\ b \notin Ran(r)
    BY BlocksAre
  <1>6. Stages(b) = n /\ n \in 0 .. Stages(b)
    BY <1>1, <1>2, <1>5, BaseIs
  <1>7. PosAfter(b, n) = PosAfter(l, n) /\ PosAfter(b, n) = pos[b]
    <2>1. PosAfter(b, n) = PosAfter(l, n)
      BY <1>1, <1>4, <1>5, <1>6 DEF SameStages
    <2>. QED
      BY <2>1, <1>6 DEF PosAfter
  <1>8. pos[b] \in DOMAIN kernel
    BY <1>1, <1>2, <1>3, <1>7
  <1>9. data[b].number = NumberAfter(b, n) /\ (Has(Made(b, n), "max") => AllGave(n))
    <2>1. NumberNow(b) /\ ~Pends(b, "max")
      BY <1>5 DEF IInv, RankInv, Pends
    <2>. QED
      BY <2>1, <1>6 DEF NumberNow
  <1>10. Made(b, n) = Made(l, n) /\ SumAfter(b, n) = SumAfter(l, n)
    BY <1>1, <1>3, <1>4, <1>5, <1>6, MadeAgrees, NumbersAgree
  <1>11. CASE l \notin Ran(r)
    <2>1. Stages(l) = n
      BY <1>1, <1>2, <1>3, <1>11, BaseIs
    <2>2. ~Pends(l, "shared")
      BY <1>3, <1>11 DEF Pends
    <2>3. sum[r] = SumAfter(l, n) /\ (Made(l, n).shared => AllGave(n))
      BY <1>1, <1>3, <2>1, <2>2 DEF SumNow
    <2>. QED
      BY <2>3, <1>6, <1>8, <1>9, <1>10
  <1>12. CASE l \in Ran(r)
    <2>1. Stages(l) = n + 1 /\ n + 1 \in 1 .. Stages(l) /\ (n + 1) - 1 = n
      BY <1>1, <1>2, <1>3, <1>12, BaseIs
    <2>2. Found(l)
      BY <1>1
    <2>3. /\ Made(l, n).shared => AllGave(n)
          /\ ~Made(l, n + 1).shared => gave[l][n + 1].sum = SumAfter(l, n)
      BY <2>1, <2>2 DEF Found
    <2>4. Made(l, n + 1) = kernel[pos[b]]
      BY <2>1, <1>7 DEF Made, PosAfter
    <2>5. ~Made(l, n + 1).shared => sum[r] = SumAfter(l, n + 1)
      BY <1>1, <1>3, <2>1 DEF SumNow
    <2>6. ~Made(l, n + 1).shared => SumAfter(l, n + 1) = gave[l][n + 1].sum
      BY DEF SumAfter
    <2>. QED
      BY <2>3, <2>4, <2>5, <2>6, <1>6, <1>8, <1>9, <1>10
  <1>. QED
    BY <1>11, <1>12

\* The numbers of the rank after blocks have run.
LEMMA RunNumbers ==
  ASSUME Types, NEW r \in Rank, RankInv(r), NEW S, NEW n \in Nat, Advance(r, S, n),
         \A b \in S : \A op : Pends(b, op)',
         \A b \in Blocks(r) \ S : \A op : Pends(b, op)' <=> Pends(b, op)
  PROVE  SumNow(r)' /\ \A b \in Blocks(r) : NumberNow(b)'
  <1>1. /\ Grown
        /\ \A b \in Block : Stages(b)' = IF b \in S THEN n + 1 ELSE Stages(b)
        /\ \A b \in S : Made(b, n + 1)' = kernel[pos[b]]
    BY AdvanceGrows
  <1>2. S \subseteq Blocks(r) /\ \A b \in Blocks(r) : b \in Block
    BY BlocksAre DEF Advance
  <1>3. ASSUME NEW b \in Blocks(r) PROVE NumberNow(b)'
    <2>1. CASE b \notin S
      <3>1. gave'[b] = gave[b] /\ data'[b] = data[b]
        BY <2>1, <1>2 DEF Advance
      <3>. QED
        BY <2>1, <3>1, <1>1, <1>2, NumberStays DEF RankInv
    <2>2. CASE b \in S
      <3>1. /\ Stages(b)' = n + 1 /\ Made(b, n + 1)' = kernel[pos[b]] /\ Pends(b, "max")'
            /\ gave'[b][n + 1].number = data[b].number /\ gave'[b][n + 1].data = data'[b]
            /\ ~Has(kernel[pos[b]], "max") => data'[b].number = data[b].number
        BY <2>2, <1>1, <1>2 DEF Advance
      <3>2. CASE Has(kernel[pos[b]], "max")
        BY <3>1, <3>2 DEF NumberNow, Has
      <3>3. CASE ~Has(kernel[pos[b]], "max")
        <4>1. NumberAfter(b, n + 1)' = gave'[b][n + 1].number
          BY <3>1, <3>3 DEF NumberAfter, Has
        <4>. QED
          BY <3>1, <3>3, <4>1 DEF NumberNow, Has
      <3>. QED
        BY <3>2, <3>3
    <2>. QED
      BY <2>1, <2>2
  <1>4. SumNow(r)'
    <2>1. PICK l \in Block : l = Lead(r) /\ l = Lead(r)' /\ l \in Blocks(r)
      BY BlocksAre DEF Lead
    <2>2. CASE l \notin S
      <3>1. gave'[l] = gave[l] /\ sum'[r] = sum[r]
        BY <2>1, <2>2 DEF Advance
      <3>2. Pends(Lead(r), "shared")' <=> Pends(Lead(r), "shared")
        BY <2>1, <2>2
      <3>. QED
        BY <2>1, <3>1, <3>2, <1>1, SumStays DEF RankInv
    <2>3. CASE l \in S
      <3>1. /\ Stages(l)' = n + 1 /\ Made(l, n + 1)' = kernel[pos[l]] /\ Pends(l, "shared")'
            /\ gave'[l][n + 1].sum = sum[r] /\ gave'[l][n + 1].data = data'[l]
            /\ sum'[r] = IF kernel[pos[l]].shared THEN data'[l].shared ELSE sum[r]
        BY <2>1, <2>3, <1>1, <1>2 DEF Advance
      <3>2. CASE kernel[pos[l]].shared
        BY <2>1, <3>1, <3>2 DEF SumNow
      <3>3. CASE ~kernel[pos[l]].shared
        <4>1. SumAfter(l, n + 1)' = gave'[l][n + 1].sum
          BY <3>1, <3>3 DEF SumAfter
        <4>. QED
          BY <2>1, <3>1, <3>3, <4>1 DEF SumNow
      <3>. QED
        BY <3>2, <3>3
    <2>. QED
      BY <2>2, <2>3
  <1>. QED
    BY <1>3, <1>4

\* Calls that no rank adds to stay the same.
LEMMA SameCallsStay ==
  ASSUME SameCalls, entered' = entered
  PROVE  SameCalls'
  BY DEF SameCalls, Left

\* What all steps of this kind have in common.
LEMMA RunStep ==
  ASSUME IInv, NEW r \in Rank, NEW bb \in Seq(Local), RunKernels(r, bb),
         NEW S, S = {b \in Blocks(r) : b[2] \in Range(bb)}, S \cap Ran(r) = {},
         at[r] \in {"inner", "halo", "write"},
         NEW x \in Places, at' = [at EXCEPT ![r] = x],
         NEW o \in Seq(Local), IsInjective(o), order' = [order EXCEPT ![r] = o],
         UNCHANGED <<setup, fields, sent, todo, entered, aborted>>,
         NEW n \in Nat, n = Base(r)
  PROVE  /\ Advance(r, S, n) /\ Types' /\ Elsewhere(r) /\ Grown /\ StagesInv'
         /\ ~aborted' /\ SameCalls'
         /\ Made(Lead(r), n)' = Asked(r) /\ PosAfter(Lead(r), n)' \in DOMAIN kernel
  <1>1. Types /\ Together(r) /\ Placed(r)
    BY DEF IInv, RankInv
  <1>2. n = Base(r)
    OBVIOUS
  <1>3. S \subseteq Blocks(r)
    OBVIOUS
  <1>4. (\A b \in S : Stages(b) = n /\ pos[b] \in DOMAIN kernel) /\ Finds(r, S, n)
    <2>1. (\A b \in S : Stages(b) = Base(r) /\ pos[b] \in DOMAIN kernel) /\ Finds(r, S, Base(r))
      BY <1>3, ReadyFinds
    <2>. QED
      BY <1>2, <2>1
  <1>5. /\ Advance(r, S, n)
        /\ pos' \in [Block -> Nat] /\ \A b \in Block : pos'[b] \in 1 .. Len(kernel) + 1
        /\ DOMAIN data' = Block /\ DOMAIN gave' = Block
        /\ \A b \in Block : /\ DOMAIN data'[b] = Buffers
                            /\ data'[b].number \in Nat /\ data'[b].shared \in Nat
                            /\ GaveOk(b)'
        /\ sum' \in [Rank -> Nat]
    BY <1>1, <1>4, RunsAre DEF setup
  <1>6. Types'
    <2>1. at' \in [Rank -> Places] /\ order' \in [Rank -> Seq(Local)]
          /\ \A q \in Rank : IsInjective(order'[q])
      BY <1>1 DEF Types
    <2>2. \A q \in Rank : EnteredOk(q)'
      BY <1>1 DEF Types, EnteredOk
    <2>. QED
      BY <1>1, <1>5, <2>1, <2>2 DEF Types, setup, SetupChosen
  <1>7. Grown /\ StagesInv'
    BY <1>1, <1>4, <1>5, AdvanceGrows, StagesInvRun DEF IInv
  <1>8. Elsewhere(r)
    <2>1. \A b \in Block : b[1] # r => b \notin S
      BY <1>3, BlocksAre
    <2>. QED
      BY <1>1, <1>5, <2>1 DEF Elsewhere, Advance, Types
  <1>9. SameCalls'
    <2>1. SameCalls
      BY DEF IInv
    <2>2. entered' = entered
      OBVIOUS
    <2>. QED
      BY <2>1, <2>2, SameCallsStay
  <1>10. Made(Lead(r), n)' = Asked(r) /\ PosAfter(Lead(r), n)' \in DOMAIN kernel
    <2>1. PICK l \in Block : l = Lead(r) /\ l = Lead(r)' /\ l \in Blocks(r)
      BY BlocksAre DEF Lead
    <2>2. n \in 0 .. Stages(l)
      BY <1>1, <1>2, <2>1, BaseIs
    <2>3. Made(l, n)' = Made(l, n) /\ PosAfter(l, n)' = PosAfter(l, n)
      BY <1>1, <1>5, <1>7, <2>2, AdvanceGrows, StagesStay
    <2>4. PosAfter(l, n) \in DOMAIN kernel
      BY <1>1, <1>2, <2>1 DEF Placed
    <2>. QED
      BY <1>2, <2>1, <2>3, <2>4 DEF Asked
  <1>. QED
    BY <1>5, <1>6, <1>7, <1>8, <1>9, <1>10 DEF IInv

\* The first part of an iteration.
LEMMA RunInnerNext ==
  ASSUME IInv, NEW r \in Rank, RunInner(r)
  PROVE  IInv'
  <1> DEFINE S == {b \in Blocks(r) : b[2] \in Range(Inner(r))}
  <1>1. Types /\ RankInv(r) /\ Together(r) /\ Placed(r) /\ OpenCall(r)
    BY DEF IInv, RankInv, CallsInv
  <1>2. /\ at[r] = "inner" /\ RunKernels(r, Inner(r)) /\ order' = [order EXCEPT ![r] = Inner(r)]
        /\ at' = [at EXCEPT ![r] = "halo"]
        /\ UNCHANGED <<setup, fields, sent, todo, entered, aborted>>
    BY DEF RunInner
  <1>3. Inner(r) \in Seq(Local) /\ IsInjective(Inner(r))
    BY <1>1, EarlyOrLate, AllIs DEF Inner, Types
  <1>4. Ran(r) = {}
    BY <1>2 DEF Ran
  <1>5. PICK n \in Nat : n = Base(r)
    BY <1>1, BaseIs
  <1>6. /\ Advance(r, S, n) /\ Types' /\ Elsewhere(r) /\ Grown /\ StagesInv'
        /\ ~aborted' /\ SameCalls'
        /\ Made(Lead(r), n)' = Asked(r) /\ PosAfter(Lead(r), n)' \in DOMAIN kernel
    <2>1. at[r] \in {"inner", "halo", "write"} /\ "halo" \in Places /\ S \cap Ran(r) = {}
      BY <1>2, <1>4 DEF Places
    <2>. HIDE DEF S
    <2>2. S = {b \in Blocks(r) : b[2] \in Range(Inner(r))}
      BY DEF S
    <2>. QED
      BY <1>2, <1>3, <1>5, <2>1, <2>2, RunStep
  <1>7. at'[r] = "halo" /\ order'[r] = Inner(r) /\ S \subseteq Blocks(r)
    BY <1>1, <1>2 DEF Types
  <1>8. Ran(r)' = S
    BY <1>7 DEF Ran, Blocks
  <1>9. \A b \in Blocks(r) : b \in Block /\ b[1] = r /\ Stages(b) = n
    BY <1>1, <1>4, <1>5, BaseIs, BlocksAre
  <1>10. \A b \in Blocks(r) : Stages(b)' = IF b \in S THEN n + 1 ELSE n
    BY <1>1, <1>6, <1>9, AdvanceGrows
  <1>11. Base(r)' = n
    <2>1. PICK l \in Blocks(r) : l = Lead(r) /\ l = Lead(r)'
      BY BlocksAre DEF Lead
    <2>. QED
      BY <2>1, <1>8, <1>10 DEF Base
  <1>12. Together(r)'
    BY <1>8, <1>10, <1>11 DEF Together, Blocks
  <1>13. Asked(r)' = Asked(r)
    BY <1>6, <1>11 DEF Asked
  <1>14. SumNow(r)' /\ \A b \in Blocks(r) : NumberNow(b)'
    <2>1. \A b \in S : \A op : Pends(b, op)'
      BY <1>7, <1>8, <1>9 DEF Pends
    <2>2. \A b \in Blocks(r) \ S : \A op : Pends(b, op)' <=> Pends(b, op)
      BY <1>2, <1>4, <1>7, <1>8, <1>9 DEF Pends
    <2>. QED
      BY <1>1, <1>6, <2>1, <2>2, RunNumbers
  <1>15. ~Entered(r) /\ ~Entered(r)'
    BY <1>1, <1>2 DEF OpenCall, Entered
  <1>16. CallsInv(r)'
    <2>1. ToGo(r)' = ToGo(r)
      BY <1>2, <1>7 DEF ToGo
    <2>2. \A m, j : Passed(r, m, j)' = Passed(r, m, j)
      BY <2>1, <1>5, <1>11 DEF Passed
    <2>3. Base(r)' \in Nat /\ Base(r) <= Base(r)' /\ \A m \in 0 .. Base(r)' : ~(m > Base(r))
      BY <1>5, <1>11
    <2>4. OpenCall(r)' /\ CallsInv(r) /\ entered'[r] = entered[r]
      BY <1>1, <1>2, <1>15 DEF OpenCall, RankInv
    <2>. QED
      BY <1>1, <1>6, <2>2, <2>3, <2>4, CallsStay
  <1>17. Placed(r)'
    <2>1. todo'[r] = <<>> /\ ~Asked(r).dump /\ fields'[r] = Asked(r).comm
      BY <1>1, <1>2 DEF Placed
    <2>2. Inner(r)' = Inner(r)
      BY <1>2 DEF Inner, setup, All
    <2>3. PosAfter(Lead(r), Base(r))' \in DOMAIN kernel'
      BY <1>2, <1>6, <1>11 DEF setup
    <2>. QED
      BY <1>7, <1>13, <2>1, <2>2, <2>3 DEF Placed
  <1>18. RankInv(r)'
    BY <1>12, <1>14, <1>16, <1>17 DEF RankInv, Blocks
  <1>. QED
    BY <1>6, <1>18, RankStep

\* The last part of an iteration: all blocks have run.
LEMMA RunRestNext ==
  ASSUME IInv, NEW r \in Rank, at[r] \in {"halo", "write"}, at[r] = "write" => todo[r] = <<>>,
         NEW bb \in Seq(Local), RunKernels(r, bb),
         NEW S, S = {b \in Blocks(r) : b[2] \in Range(bb)}, S \cap Ran(r) = {},
         S \cup Ran(r) = Blocks(r),
         at' = [at EXCEPT ![r] = "collect"],
         NEW o \in Seq(Local), IsInjective(o), order' = [order EXCEPT ![r] = o],
         \/ o = All
         \/ o = early \o late /\ late # <<>> /\ fields[r] /\ at[r] = "halo",
         UNCHANGED <<setup, fields, sent, todo, entered, aborted>>
  PROVE  IInv'
  <1>1. Types /\ RankInv(r) /\ Together(r) /\ Placed(r) /\ OpenCall(r)
    BY DEF IInv, RankInv, CallsInv
  <1>2. PICK n \in Nat : n = Base(r)
    BY <1>1, BaseIs
  <1>3. /\ Advance(r, S, n) /\ Types' /\ Elsewhere(r) /\ Grown /\ StagesInv'
        /\ ~aborted' /\ SameCalls'
        /\ Made(Lead(r), n)' = Asked(r) /\ PosAfter(Lead(r), n)' \in DOMAIN kernel
    <2>1. at[r] \in {"inner", "halo", "write"} /\ "collect" \in Places
      BY DEF Places
    <2>. QED
      BY <1>2, <2>1, RunStep
  <1>4. at'[r] = "collect" /\ order'[r] = o
    BY <1>1 DEF Types
  <1>5. Ran(r)' = {}
    BY <1>4 DEF Ran
  <1>6. \A b \in Blocks(r) : /\ b \in Block /\ b[1] = r
                             /\ b \notin S => Stages(b) = n + 1 /\ b \in Ran(r)
    BY <1>1, <1>2, BaseIs, BlocksAre
  <1>7. \A b \in Blocks(r) : Stages(b)' = n + 1
    BY <1>1, <1>3, <1>6, AdvanceGrows
  <1>8. Base(r)' = n + 1
    <2>1. PICK l \in Blocks(r) : l = Lead(r) /\ l = Lead(r)'
      BY BlocksAre DEF Lead
    <2>. QED
      BY <2>1, <1>5, <1>7 DEF Base
  <1>9. Together(r)'
    BY <1>5, <1>7, <1>8 DEF Together, Blocks
  <1>10. SumNow(r)' /\ \A b \in Blocks(r) : NumberNow(b)'
    <2>1. \A b \in Blocks(r) : \A op : Pends(b, op)'
      BY <1>4, <1>6 DEF Pends
    <2>2. \A b \in Blocks(r) \ S : \A op : Pends(b, op)
      BY <1>6 DEF Pends
    <2>3. S \subseteq Blocks(r)
      OBVIOUS
    <2>. QED
      BY <1>1, <1>3, <2>1, <2>2, <2>3, RunNumbers
  <1>11. ~Entered(r) /\ ~Entered(r)'
    BY <1>1 DEF OpenCall, Entered
  <1>12. CallsInv(r)'
    <2>1. PICK l \in Blocks(r) : l = Lead(r) /\ l = Lead(r)'
      BY BlocksAre DEF Lead
    <2>2. ASSUME NEW m \in 0 .. Base(r), NEW j \in Nat, IsCall(Lead(r), m, j)
          PROVE  Passed(r, m, j)' /\ Passed(r, m, j)
      <3>1. Passed(r, m, j)'
        BY <1>2, <1>8 DEF Passed
      <3>2. CASE m < n
        BY <3>1, <3>2, <1>2 DEF Passed
      <3>3. CASE m = n /\ at[r] = "write"
        <4>1. ToGo(r) = -1
          BY <3>3 DEF ToGo
        <4>. QED
          BY <3>1, <3>3, <4>1, <1>2 DEF Passed
      <3>4. CASE m = n /\ at[r] = "halo"
        <4>1. ToGo(r) = 0 /\ ~Made(Lead(r), m).dump
          BY <3>4, <1>1, <1>2 DEF ToGo, Placed, Asked
        <4>2. j # 0
          BY <4>1, <2>2 DEF IsCall
        <4>. QED
          BY <3>1, <3>4, <4>1, <4>2, <1>2 DEF Passed
      <3>. QED
        BY <3>2, <3>3, <3>4, <1>2
    <2>3. ASSUME NEW m \in 0 .. Base(r)', NEW j \in Nat, m > Base(r), IsCall(Lead(r), m, j)'
          PROVE  ~Passed(r, m, j)'
      <3>1. m = n + 1
        BY <2>3, <1>2, <1>8
      <3>2. Asked(r)' = Made(Lead(r), m)'
        BY <3>1, <1>8 DEF Asked
      <3>3. ToGo(r)' = Len(Operations(Made(Lead(r), m)'))
        BY <3>2, <1>4 DEF ToGo, Operations
      <3>4. Len(Operations(Made(Lead(r), m)')) \in Nat
        <4>1. m \in 0 .. Stages(l)'
          BY <3>1, <1>7
        <4>2. Made(l, m)' \in Stage /\ IsInjective(Made(l, m)'.reduce)
          <5>1. kernel' = kernel /\ m \in 1 .. Stages(l)' /\ m # 0
            BY <3>1, <4>1, <1>7 DEF setup
          <5>2. gave'[l][m].stage \in DOMAIN kernel
            BY <5>1, <1>3, <1>6 DEF Types, GaveOk
          <5>3. Made(l, m)' = kernel[gave'[l][m].stage]
            BY <5>1 DEF Made
          <5>. QED
            BY <5>2, <5>3, <1>1, KernelIs DEF Types
        <4>3. Operations(Made(l, m)') \in Seq(Op)
          BY <4>2, OperationsAre DEF IsPlan
        <4>. QED
          BY <4>3, <2>1
      <3>5. j # 0 => j <= Len(Operations(Made(Lead(r), m)'))
        BY <2>3 DEF IsCall, Operations
      <3>6. ~(j > ToGo(r)')
        BY <3>3, <3>4, <3>5
      <3>. QED
        BY <3>1, <3>6, <1>8 DEF Passed
    <2>4. Base(r)' \in Nat /\ Base(r) <= Base(r)'
      BY <1>2, <1>8
    <2>5. OpenCall(r)' /\ CallsInv(r) /\ entered'[r] = entered[r]
      BY <1>1, <1>11 DEF OpenCall, RankInv
    <2>. QED
      BY <1>1, <1>3, <2>2, <2>3, <2>4, <2>5, CallsStay
  <1>13. Placed(r)'
    <2>1. todo'[r] = <<>>
      BY <1>1 DEF Placed
    <2>2. \/ o = All
          \/ /\ o = early \o late /\ late # <<>>
             /\ Made(Lead(r), n)'.comm /\ ~Made(Lead(r), n)'.dump
      BY <1>1, <1>3 DEF Placed
    <2>3. Base(r)' >= 1 /\ Made(Lead(r), Base(r) - 1)' = Made(Lead(r), n)'
      BY <1>8 DEF Made
    <2>. QED
      BY <1>4, <2>1, <2>2, <2>3 DEF Placed, setup, All
  <1>14. RankInv(r)'
    BY <1>9, <1>10, <1>12, <1>13 DEF RankInv, Blocks
  <1>. QED
    BY <1>3, <1>14, RankStep

\* The order of the blocks when those that have waited for messages run, too.
LEMMA HaloOrder ==
  ASSUME IInv, NEW r \in Rank, at[r] = "halo"
  PROVE  /\ Outer(r) \in Seq(Local) /\ order[r] = Inner(r)
         /\ \/ /\ order[r] \o Outer(r) = All
               /\ Range(Inner(r)) = Local /\ Range(Outer(r)) = {}
            \/ /\ order[r] \o Outer(r) = early \o late /\ late # <<>> /\ fields[r]
               /\ Inner(r) = early /\ Outer(r) = late
  <1>1. Types /\ order[r] = Inner(r)
    BY DEF IInv, RankInv, Placed
  <1>2. <<>> \in Seq(Local) /\ Range(<<>>) = {}
    BY DEF Range
  <1>3. Outer(r) \in Seq(Local)
    BY <1>1, <1>2, EarlyOrLate DEF Outer, Types
  <1>4. CASE fields[r] /\ late # <<>>
    BY <1>1, <1>3, <1>4 DEF Inner, Outer
  <1>5. CASE ~fields[r] \/ late = <<>>
    <2>1. Inner(r) = All /\ Outer(r) = <<>>
      BY <1>5 DEF Inner, Outer
    <2>2. All \o <<>> = All
      BY AllIs, ConcatEmptySeq
    <2>. QED
      BY <2>1, <2>2, <1>1, <1>2, <1>3, AllIs
  <1>. QED
    BY <1>4, <1>5

\* Those are the blocks that have not run.
LEMMA HaloRuns ==
  ASSUME IInv, NEW r \in Rank, at[r] = "halo",
         NEW o, o = order[r] \o Outer(r),
         NEW S, S = {b \in Blocks(r) : b[2] \in Range(Outer(r))}
  PROVE  /\ Outer(r) \in Seq(Local) /\ o \in Seq(Local) /\ IsInjective(o)
         /\ S \cap Ran(r) = {} /\ S \cup Ran(r) = Blocks(r)
  <1>1. Types /\ order[r] = Inner(r)
    BY HaloOrder DEF IInv
  <1>2. Outer(r) \in Seq(Local) /\ o \in Seq(Local) /\ IsInjective(o)
    BY <1>1, HaloOrder, AllIs, EarlyOrLate DEF Types
  <1>3. Ran(r) = {b \in Blocks(r) : b[2] \in Range(Inner(r))}
    BY <1>1 DEF Ran
  <1>4. Range(Inner(r)) \cup Range(Outer(r)) = Local /\ Range(Inner(r)) \cap Range(Outer(r)) = {}
    BY <1>1, HaloOrder, EarlyOrLate DEF Types
  <1>5. \A b \in Blocks(r) : b[2] \in Local
    BY BlocksAre
  <1>. QED
    BY <1>2, <1>3, <1>4, <1>5

\* They run.
LEMMA RunHaloNext ==
  ASSUME IInv, NEW r \in Rank, RunHalo(r)
  PROVE  IInv'
  <1>1. PICK bb, S, o : /\ bb = Outer(r) /\ S = {b \in Blocks(r) : b[2] \in Range(Outer(r))}
                        /\ o = order[r] \o Outer(r)
    OBVIOUS
  <1>2. /\ at[r] = "halo" /\ RunKernels(r, bb) /\ order' = [order EXCEPT ![r] = o]
        /\ at' = [at EXCEPT ![r] = "collect"]
        /\ UNCHANGED <<setup, fields, sent, todo, entered, aborted>>
    BY <1>1 DEF RunHalo
  <1>3. /\ bb \in Seq(Local) /\ o \in Seq(Local) /\ IsInjective(o)
        /\ S \cap Ran(r) = {} /\ S \cup Ran(r) = Blocks(r)
    BY <1>1, <1>2, HaloRuns
  <1>4. o = All \/ (o = early \o late /\ late # <<>> /\ fields[r])
    BY <1>1, <1>2, HaloOrder
  <1>. QED
    BY <1>1, <1>2, <1>3, <1>4, RunRestNext

\* All blocks run after a dump.
LEMMA RunAllNext ==
  ASSUME IInv, NEW r \in Rank, RunAll(r)
  PROVE  IInv'
  <1> DEFINE S == {b \in Blocks(r) : b[2] \in Range(All)}
  <1>1. /\ at[r] = "write" /\ todo[r] = <<>> /\ RunKernels(r, All)
        /\ order' = [order EXCEPT ![r] = All] /\ at' = [at EXCEPT ![r] = "collect"]
        /\ UNCHANGED <<setup, fields, sent, todo, entered, aborted>>
    BY DEF RunAll
  <1>2. All \in Seq(Local) /\ IsInjective(All) /\ Range(All) = Local
    BY AllIs
  <1>3. Ran(r) = {}
    BY <1>1 DEF Ran
  <1>4. S = Blocks(r)
    BY <1>2, BlocksAre
  <1>5. S = {b \in Blocks(r) : b[2] \in Range(All)}
    OBVIOUS
  <1>6. /\ at[r] \in {"halo", "write"} /\ (at[r] = "write" => todo[r] = <<>>)
        /\ S \cap Ran(r) = {} /\ S \cup Ran(r) = Blocks(r)
    BY <1>1, <1>3, <1>4
  <1>. HIDE DEF S
  <1>. QED
    BY <1>1, <1>2, <1>5, <1>6, RunRestNext

-----------------------------------------------------------------------------
(***************************************************************************)
(* Operations to come.                                                     *)
(***************************************************************************)
\* The rest of a plan without its first operation.
LEMMA RestIs ==
  ASSUME NEW ops, IsPlan(ops), NEW rest \in Seq(Op), IsRest(ops, rest), rest # <<>>
  PROVE  /\ Len(rest) \in 1 .. Len(ops) /\ Len(ops) \in Nat
         /\ Head(rest) = ops[Len(ops) - Len(rest) + 1] /\ Head(rest) \in Range(ops) /\ Head(rest) \in Op
         /\ Tail(rest) \in Seq(Op) /\ IsRest(ops, Tail(rest)) /\ Len(Tail(rest)) = Len(rest) - 1
         /\ Head(rest) \in Range(rest) /\ Head(rest) \notin Range(Tail(rest))
         /\ \A op : op \in Range(rest) <=> op = Head(rest) \/ op \in Range(Tail(rest))
         /\ rest # <<"dump">>
  <1>1. /\ Len(ops) \in Nat /\ DOMAIN ops = 1 .. Len(ops) /\ Len(rest) \in Nat /\ Len(rest) > 0
        /\ DOMAIN rest = 1 .. Len(rest) /\ Head(rest) = rest[1] /\ Len(rest) <= Len(ops)
        /\ \A i \in 1 .. Len(rest) : rest[i] = ops[Len(ops) - Len(rest) + i]
    BY DEF IsPlan, IsRest
  <1>2. /\ Tail(rest) \in Seq(Op) /\ Len(Tail(rest)) = Len(rest) - 1
        /\ DOMAIN Tail(rest) = 1 .. Len(rest) - 1
        /\ \A i \in 1 .. Len(rest) - 1 : Tail(rest)[i] = rest[i + 1]
    OBVIOUS
  <1>3. PICK d \in Nat : d = Len(ops) - Len(rest)
    <2>1. Len(ops) - Len(rest) \in Nat
      BY <1>1
    <2>. QED
      BY <2>1
  <1>4. \A i \in 1 .. Len(rest) : d + i \in DOMAIN ops /\ rest[i] = ops[d + i]
    BY <1>1, <1>3
  <1>5. Head(rest) = ops[d + 1] /\ Head(rest) \in Range(ops) /\ Head(rest) \in Op
    BY <1>1, <1>4 DEF Range
  <1>6. IsRest(ops, Tail(rest))
    <2>1. Len(Tail(rest)) <= Len(ops)
      BY <1>1, <1>2
    <2>2. ASSUME NEW i \in 1 .. Len(Tail(rest))
          PROVE  Tail(rest)[i] = ops[Len(ops) - Len(Tail(rest)) + i]
      <3>1. i + 1 \in 1 .. Len(rest) /\ Tail(rest)[i] = rest[i + 1]
        BY <1>1, <1>2
      <3>2. rest[i + 1] = ops[d + (i + 1)]
        BY <3>1, <1>4
      <3>3. d + (i + 1) = Len(ops) - Len(Tail(rest)) + i
        BY <1>1, <1>2, <1>3
      <3>. QED
        BY <3>1, <3>2, <3>3
    <2>. QED
      BY <2>1, <2>2 DEF IsRest
  <1>7. \A i, j \in 1 .. Len(rest) : rest[i] = rest[j] => i = j
    <2>1. \A i, j \in DOMAIN ops : ops[i] = ops[j] => i = j
      BY DEF IsPlan, IsInjective
    <2>2. ASSUME NEW i \in 1 .. Len(rest), NEW j \in 1 .. Len(rest), rest[i] = rest[j]
          PROVE  i = j
      <3>1. d + i \in DOMAIN ops /\ d + j \in DOMAIN ops /\ ops[d + i] = ops[d + j]
        BY <1>4, <2>2
      <3>2. d + i = d + j
        BY <2>1, <3>1
      <3>. QED
        BY <1>1, <1>3, <3>2
    <2>. QED
      BY <2>2
  <1>8. /\ \A x : x \in Range(rest) <=> \E i \in 1 .. Len(rest) : x = rest[i]
        /\ \A x : x \in Range(Tail(rest)) <=> \E i \in 1 .. Len(rest) - 1 : x = rest[i + 1]
    <2>1. \A x : x \in Range(rest) <=> \E i \in DOMAIN rest : x = rest[i]
      BY DEF Range
    <2>2. \A x : x \in Range(Tail(rest)) <=> \E i \in DOMAIN Tail(rest) : x = Tail(rest)[i]
      BY DEF Range
    <2>3. \A x : x \in Range(Tail(rest)) <=> \E i \in 1 .. Len(rest) - 1 : x = Tail(rest)[i]
      BY <2>2, <1>2
    <2>. QED
      BY <2>1, <2>3, <1>1, <1>2
  <1>9. Head(rest) \notin Range(Tail(rest))
    BY <1>1, <1>7, <1>8
  <1>10. ASSUME NEW op PROVE op \in Range(rest) <=> op = Head(rest) \/ op \in Range(Tail(rest))
    <2>1. ASSUME NEW i \in 1 .. Len(rest) PROVE rest[i] = Head(rest) \/ rest[i] \in Range(Tail(rest))
      <3>1. CASE i = 1
        BY <3>1, <1>1
      <3>2. CASE i # 1
        <4>1. i - 1 \in 1 .. Len(rest) - 1 /\ rest[i] = rest[(i - 1) + 1]
          BY <3>2, <1>1
        <4>. QED
          BY <4>1, <1>8
      <3>. QED
        BY <3>1, <3>2
    <2>2. \A i \in 1 .. Len(rest) - 1 : i + 1 \in 1 .. Len(rest)
      BY <1>1
    <2>. QED
      BY <2>1, <2>2, <1>1, <1>8
  <1>11. rest # <<"dump">>
    BY <1>5 DEF Op, Reduction
  <1>12. Len(rest) \in 1 .. Len(ops) /\ Head(rest) = ops[Len(ops) - Len(rest) + 1]
    BY <1>1
  <1>. QED
    BY <1>1, <1>2, <1>5, <1>6, <1>9, <1>10, <1>11, <1>12

\* A rank that serves the requests of its blocks.
LEMMA Serving ==
  ASSUME IInv, NEW r \in Rank, at[r] \in {"serve", "collect"}
  PROVE  /\ IsPlan(Operations(Asked(r))) /\ Base(r) \in Nat /\ Base(r) >= 1 /\ Ran(r) = {}
         /\ at[r] = "serve" => todo[r] \in Seq(Op) /\ IsRest(Operations(Asked(r)), todo[r])
         /\ Range(order[r]) = Local /\ order[r] \in Seq(Local)
         /\ Range(InOrder(r, order[r])) = Blocks(r)
         /\ \A op \in Reduction : op \in Range(Operations(Asked(r))) <=> Has(Asked(r), op)
         /\ "shared" \in Range(Operations(Asked(r))) <=> Asked(r).shared
  <1>1. Types /\ Together(r) /\ Placed(r)
    BY DEF IInv, RankInv
  <1>2. Base(r) \in Nat /\ Asked(r) \in Stage /\ IsInjective(Asked(r).reduce)
    BY <1>1, BaseIs
  <1>3. /\ IsPlan(Operations(Asked(r)))
        /\ \A op \in Reduction : op \in Range(Operations(Asked(r))) <=> Has(Asked(r), op)
        /\ "shared" \in Range(Operations(Asked(r))) <=> Asked(r).shared
    BY <1>2, OperationsAre
  <1>4. /\ Base(r) >= 1 /\ (order[r] = All \/ order[r] = early \o late)
        /\ at[r] = "serve" => todo[r] \in Seq(Op) /\ IsRest(Operations(Asked(r)), todo[r])
    BY <1>1 DEF Placed
  <1>5. Range(order[r]) = Local /\ order[r] \in Seq(Local)
    BY <1>1, <1>4, AllIs, EarlyOrLate DEF Types
  <1>6. Range(InOrder(r, order[r])) = Blocks(r)
    <2>1. \A b \in Blocks(r) : b[2] \in Local
      BY BlocksAre
    <2>2. Range(InOrder(r, order[r])) = {b \in Blocks(r) : b[2] \in Range(order[r])}
      BY <1>5, InOrderIs
    <2>. QED
      BY <2>1, <2>2, <1>5
  <1>. QED
    BY <1>2, <1>3, <1>4, <1>5, <1>6 DEF Ran

\* The number of operations that a rank has to go is a number.
LEMMA ToGoIs ==
  ASSUME IInv, NEW r \in Rank
  PROVE  ToGo(r) \in Int
  <1>1. Types
    BY DEF IInv
  <1>2. Len(todo[r]) \in Nat
    BY <1>1 DEF Types
  <1>3. CASE at[r] = "collect"
    <2>1. Len(Operations(Asked(r))) \in Nat
      BY <1>3, Serving DEF IsPlan
    <2>. QED
      BY <2>1, <1>3 DEF ToGo
  <1>4. CASE at[r] # "collect"
    BY <1>2, <1>4 DEF ToGo
  <1>. QED
    BY <1>3, <1>4

\* The operation with which the list begins.
LEMMA HeadIs ==
  ASSUME IInv, NEW r \in Rank, at[r] \in {"serve", "write"}, todo[r] # <<>>
  PROVE  LET j == IF at[r] = "write" THEN 0 ELSE Len(todo[r])
         IN  /\ j \in Nat /\ Base(r) \in Nat /\ Base(r) >= 1
             /\ \A e : e.todo = todo[r] => Left(e) = j
             /\ Head(todo[r]) = Operation(Lead(r), Base(r), j)
             /\ Head(todo[r]) \notin OfRank => IsCall(Lead(r), Base(r), j)
             /\ Head(todo[r]) \in OfRank => ~IsCall(Lead(r), Base(r), j)
             /\ ToGo(r) = IF Entered(r) THEN j - 1 ELSE j
  <1>1. Placed(r) /\ Types /\ Together(r)
    BY DEF IInv, RankInv
  <1>2. CASE at[r] = "write"
    <2>1. todo[r] = <<"dump">> /\ Asked(r).dump
      BY <1>1, <1>2 DEF Placed
    <2>2. Base(r) \in Nat
      BY <1>1, BaseIs
    <2>3. Base(r) # 0
      BY <2>1, NothingIs DEF Asked, Made
    <2>4. IsCall(Lead(r), Base(r), 0) /\ Operation(Lead(r), Base(r), 0) = "dump"
      BY <2>1 DEF IsCall, Operation, Asked
    <2>5. \A e : e.todo = todo[r] => Left(e) = 0
      BY <2>1 DEF Left
    <2>6. ToGo(r) = IF Entered(r) THEN -1 ELSE 0
      BY <1>2 DEF ToGo
    <2>7. Head(todo[r]) = "dump" /\ "dump" \notin OfRank
      BY <2>1 DEF OfRank
    <2>. QED
      BY <1>2, <2>2, <2>3, <2>4, <2>5, <2>6, <2>7
  <1>3. CASE at[r] = "serve"
    <2> DEFINE ops == Operations(Asked(r))
    <2>1. /\ IsPlan(ops) /\ todo[r] \in Seq(Op) /\ IsRest(ops, todo[r])
          /\ Base(r) \in Nat /\ Base(r) >= 1
      BY <1>3, Serving
    <2>2. /\ Len(todo[r]) \in 1 .. Len(ops) /\ Len(ops) \in Nat
          /\ Head(todo[r]) = ops[Len(ops) - Len(todo[r]) + 1] /\ todo[r] # <<"dump">>
      <3>. HIDE DEF ops
      <3>. QED
        BY <2>1, RestIs
    <2>3. Head(todo[r]) = Operation(Lead(r), Base(r), Len(todo[r]))
      <3>1. Len(todo[r]) # 0
        BY <2>2
      <3>2. Operation(Lead(r), Base(r), Len(todo[r])) = ops[Len(ops) - Len(todo[r]) + 1]
        BY <3>1 DEF Operation, Asked
      <3>. QED
        BY <3>2, <2>2
    <2>4. Head(todo[r]) \notin OfRank <=> IsCall(Lead(r), Base(r), Len(todo[r]))
      BY <2>2, <2>3 DEF IsCall, Asked
    <2>5. \A e : e.todo = todo[r] => Left(e) = Len(todo[r])
      BY <2>2 DEF Left
    <2>6. ToGo(r) = IF Entered(r) THEN Len(todo[r]) - 1 ELSE Len(todo[r])
      BY <1>3 DEF ToGo
    <2>7. Len(todo[r]) \in Nat
      BY <2>2
    <2>. QED
      BY <1>3, <2>1, <2>3, <2>4, <2>5, <2>6, <2>7
  <1>. QED
    BY <1>2, <1>3

-----------------------------------------------------------------------------
(***************************************************************************)
(* The order of calls.                                                     *)
(***************************************************************************)
\* Two ranks take the same calls of a stage that both know.
LEMMA SameCall ==
  ASSUME IInv, NEW r \in Rank, NEW s \in Rank, NEW n \in 1 .. Base(r), n <= Base(s), NEW j
  PROVE  /\ Operation(Lead(r), n, j) = Operation(Lead(s), n, j)
         /\ IsCall(Lead(r), n, j) <=> IsCall(Lead(s), n, j)
  <1>1. Types /\ SameStages /\ Together(r) /\ Together(s)
    BY DEF IInv, StagesInv, RankInv
  <1>2. /\ Lead(r) \in Block /\ Base(r) <= Stages(Lead(r)) /\ Base(r) \in Nat /\ Stages(Lead(r)) \in Nat
        /\ Lead(s) \in Block /\ Base(s) <= Stages(Lead(s)) /\ Base(s) \in Nat /\ Stages(Lead(s)) \in Nat
    BY <1>1, BaseIs
  <1>3. Made(Lead(r), n) = Made(Lead(s), n)
    <2>1. n \in 0 .. Stages(Lead(r)) /\ n <= Stages(Lead(s))
      BY <1>2
    <2>. QED
      BY <2>1, <1>1, <1>2, MadeAgrees
  <1>. QED
    BY <1>3 DEF Operation, IsCall

\* The call that a rank makes next is the one that another rank has made at this place.
LEMMA NextCallIs ==
  ASSUME IInv, NEW r \in Rank, at[r] \in {"serve", "write"}, todo[r] # <<>>, ~Entered(r),
         Head(todo[r]) \notin OfRank, NEW n, n = Base(r),
         NEW j, j = (IF at[r] = "write" THEN 0 ELSE Len(todo[r])),
         NEW s \in Rank, NEW k, k = Len(entered[r]) + 1, k \in DOMAIN entered[s]
  PROVE  entered[s][k].stage = n /\ Left(entered[s][k]) = j
  <1>1. n \in Nat /\ n >= 1 /\ j \in Nat /\ ToGo(r) = j /\ IsCall(Lead(r), n, j)
    BY HeadIs
  <1>2. /\ CallsInv(r) /\ CallsInv(s) /\ Types /\ Base(s) \in Nat /\ ToGo(s) \in Int
    BY BaseIs, ToGoIs DEF IInv, RankInv
  <1>3. /\ Len(entered[r]) \in Nat /\ DOMAIN entered[r] = 1 .. Len(entered[r])
        /\ Len(entered[s]) \in Nat /\ DOMAIN entered[s] = 1 .. Len(entered[s])
    BY <1>2, SeqIs DEF Types, EnteredOk
  <1>4. PICK m, i : m = entered[s][k].stage /\ i = Left(entered[s][k])
    OBVIOUS
  <1>5. m \in 1 .. Base(s) /\ i \in Nat /\ IsCall(Lead(s), m, i) /\ Passed(s, m, i)
    BY <1>2, <1>4 DEF CallsInv, CallMade
  <1>6. \A l \in DOMAIN entered[r] :
          l < k /\ l \in DOMAIN entered[s]
          /\ entered[s][l].stage = entered[r][l].stage /\ Left(entered[s][l]) = Left(entered[r][l])
    <2>1. \A l \in DOMAIN entered[r] : l < k /\ l \in DOMAIN entered[s] /\ l <= Len(entered[s])
      BY <1>3
    <2>. QED
      BY <2>1 DEF IInv, SameCalls
  <1>7. ASSUME NEW l \in DOMAIN entered[s], entered[s][l].stage = n, Left(entered[s][l]) = j
        PROVE  l \notin DOMAIN entered[r]
    <2>. SUFFICES ASSUME l \in DOMAIN entered[r] PROVE FALSE
      OBVIOUS
    <2>1. entered[r][l].stage = n /\ Left(entered[r][l]) = j
      BY <1>6, <1>7
    <2>2. Passed(r, n, j)
      BY <2>1, <1>2 DEF CallsInv, CallMade
    <2>. QED
      BY <2>2, <1>1 DEF Passed
  <1>8. ASSUME Before(m, i, n, j) PROVE FALSE
    <2>1. m \in 1 .. Base(r) /\ m <= Base(s)
      BY <1>1, <1>2, <1>5, <1>8 DEF Before
    <2>2. Passed(r, m, i)
      BY <1>1, <1>8, <2>1 DEF Before, Passed
    <2>3. IsCall(Lead(r), m, i)
      BY <2>1, <1>5, SameCall
    <2>4. PICK l \in DOMAIN entered[r] : entered[r][l].stage = m /\ Left(entered[r][l]) = i
      <3>1. m \in 0 .. Base(r)
        BY <2>1
      <3>. QED
        BY <3>1, <2>2, <2>3, <1>2, <1>5 DEF CallsInv, NoCallMissed
    <2>5. l < k /\ l \in DOMAIN entered[s] /\ entered[s][l].stage = m /\ Left(entered[s][l]) = i
      BY <2>4, <1>6
    <2>6. Before(m, i, m, i)
      BY <2>5, <1>2, <1>4 DEF CallsInv, CallsInOrder
    <2>. QED
      BY <2>6, <1>5 DEF Before
  <1>9. ASSUME Before(n, j, m, i) PROVE FALSE
    <2>1. n \in 1 .. Base(r) /\ n <= Base(s) /\ n \in 0 .. Base(s)
      BY <1>1, <1>2, <1>5, <1>9 DEF Before
    <2>2. Passed(s, n, j)
      BY <1>1, <1>2, <1>5, <1>9 DEF Before, Passed
    <2>3. IsCall(Lead(s), n, j)
      BY <2>1, <1>1, SameCall
    <2>4. PICK l \in DOMAIN entered[s] : entered[s][l].stage = n /\ Left(entered[s][l]) = j
      BY <2>1, <2>2, <2>3, <1>1, <1>2 DEF CallsInv, NoCallMissed
    <2>5. l \notin DOMAIN entered[r]
      BY <2>4, <1>7
    <2>6. l = k \/ k < l
      BY <2>5, <1>3
    <2>7. k < l => Before(m, i, n, j)
      BY <2>4, <1>2, <1>4 DEF CallsInv, CallsInOrder
    <2>8. l # k
      BY <2>4, <1>1, <1>4, <1>5, <1>9 DEF Before
    <2>. QED
      BY <2>6, <2>7, <2>8, <1>8
  <1>10. Before(m, i, n, j) \/ Before(n, j, m, i) \/ (m = n /\ i = j)
    BY <1>1, <1>2, <1>5 DEF Before
  <1>. QED
    BY <1>4, <1>8, <1>9, <1>10

\* A rank enters an MPI call.
LEMMA EnterNext ==
  ASSUME IInv, NEW r \in Rank, Enter(r)
  PROVE  IInv'
  <1>1. Types /\ RankInv(r) /\ Together(r) /\ Placed(r) /\ CallsInv(r)
    BY DEF IInv, RankInv
  <1>2. /\ at[r] \in {"serve", "write"} /\ todo[r] # <<>> /\ Head(todo[r]) \notin OfRank /\ ~Entered(r)
        /\ UNCHANGED <<setup, blockvars, sum>>
        /\ at' = at /\ fields' = fields /\ order' = order /\ sent' = sent /\ todo' = todo
        /\ aborted' = aborted
    BY DEF Enter, runvars
  <1>3. PICK n, j, K, e :
          /\ n = Base(r) /\ j = (IF at[r] = "write" THEN 0 ELSE Len(todo[r]))
          /\ K = Len(entered[r]) + 1
          /\ e = [op |-> Call(Head(todo[r])), data |-> Given(r, Head(todo[r])), open |-> TRUE,
                  stage |-> Stages(Lead(r)), todo |-> todo[r]]
    OBVIOUS
  <1>4. entered' = [entered EXCEPT ![r] = Append(@, e)]
    BY <1>3 DEF Enter
  <1>5. /\ IsSeq(entered[r]) /\ K \in Nat /\ DOMAIN entered[r] = 1 .. K - 1 /\ Len(entered[r]) = K - 1
        /\ DOMAIN entered = Rank
    BY <1>1, <1>3, SeqIs DEF Types, EnteredOk
  <1>6. /\ IsSeq(entered'[r]) /\ DOMAIN entered'[r] = 1 .. K /\ Len(entered'[r]) = K
        /\ entered'[r] # <<>> /\ Last(entered'[r]) = e /\ entered'[r][K] = e
        /\ \A k \in 1 .. K - 1 : entered'[r][k] = entered[r][k]
    <2>1. entered'[r] = Append(entered[r], e)
      BY <1>4, <1>5
    <2>. QED
      BY <2>1, <1>3, <1>5, Appended
  <1>7. \A q \in Rank \ {r} : entered'[q] = entered[q]
    BY <1>4, <1>5
  <1>8. Ran(r) = {} /\ Ran(r)' = {}
    BY <1>2 DEF Ran
  <1>9. /\ n \in Nat /\ n >= 1 /\ j \in Nat /\ ToGo(r) = j /\ IsCall(Lead(r), n, j)
        /\ \A d : d.todo = todo[r] => Left(d) = j
        /\ Head(todo[r]) = Operation(Lead(r), n, j)
    BY <1>2, <1>3, HeadIs
  <1>10. \A b \in Blocks(r) : Stages(b) = n /\ b \in Block /\ Made(b, n) = Asked(r)
    BY <1>3, <1>8, BlocksAlike
  <1>11. e.stage = n /\ e.todo = todo[r] /\ Left(e) = j /\ e.op = Call(Head(e.todo)) /\ e.open
    BY <1>3, <1>9, <1>10, BlocksAre
  <1>12. Types'
    <2>1. DOMAIN entered' = Rank
      BY <1>4, <1>5
    <2>2. ASSUME NEW q \in Rank PROVE EnteredOk(q)'
      <3>1. CASE q # r
        BY <3>1, <1>1, <1>7 DEF Types, EnteredOk
      <3>2. CASE q = r
        <4>1. DOMAIN e = CallFields
          BY <1>3 DEF CallFields
        <4>2. \A k \in DOMAIN entered[r] : DOMAIN entered[r][k] = CallFields
          BY <1>1 DEF Types, EnteredOk
        <4>3. ASSUME NEW k \in DOMAIN entered'[r] PROVE DOMAIN entered'[r][k] = CallFields
          <5>1. k \in 1 .. K - 1 \/ k = K
            BY <1>5, <1>6
          <5>. QED
            BY <5>1, <4>1, <4>2, <1>5, <1>6
        <4>. QED
          BY <3>2, <4>3, <1>6 DEF EnteredOk
      <3>. QED
        BY <3>1, <3>2
    <2>. QED
      BY <1>1, <1>2, <2>1, <2>2 DEF Types, setup, blockvars, SetupChosen, GaveOk, Stages
  <1>13. Elsewhere(r) /\ Grown
    <2>1. Elsewhere(r)
      BY <1>2, <1>7 DEF Elsewhere, blockvars
    <2>. QED
      BY <2>1, <1>1, <1>2, StillGrows
  <1>14. StagesInv'
    BY <1>2, StagesInvStill DEF IInv, blockvars, setup
  <1>15. /\ Base(r)' = n /\ Asked(r)' = Asked(r)
         /\ \A m, i : /\ IsCall(Lead(r), m, i)' <=> IsCall(Lead(r), m, i)
                      /\ Operation(Lead(r), m, i)' = Operation(Lead(r), m, i)
    <2>1. \A b, m : Stages(b)' = Stages(b) /\ Made(b, m)' = Made(b, m)
      BY <1>2 DEF Stages, Made, blockvars, setup
    <2>2. Base(r)' = Base(r)
      BY <2>1, <1>8 DEF Base, Lead
    <2>3. \A m : Made(Lead(r), m)' = Made(Lead(r), m)
      BY <2>1 DEF Lead
    <2>4. \A m, i : Operation(Lead(r), m, i)' = Operation(Lead(r), m, i)
      BY <2>3 DEF Operation
    <2>5. \A m, i : IsCall(Lead(r), m, i)' <=> IsCall(Lead(r), m, i)
      BY <2>3, <2>4 DEF IsCall
    <2>. QED
      BY <2>2, <2>3, <2>4, <2>5, <1>3 DEF Asked
  <1>16. Together(r)' /\ Placed(r)'
    <2>1. Together(r)'
      BY <1>1, <1>2, <1>3, <1>8, <1>15 DEF Together, Blocks, Stages, blockvars
    <2>2. /\ PosAfter(Lead(r), Base(r))' = PosAfter(Lead(r), Base(r))
          /\ Made(Lead(r), Base(r) - 1)' = Made(Lead(r), Base(r) - 1)
      BY <1>2, <1>3, <1>15 DEF PosAfter, Made, Lead, Stages, blockvars, setup
    <2>3. Placed(r)'
      BY <1>1, <1>2, <1>3, <1>15, <2>2 DEF Placed, setup, All
    <2>. QED
      BY <2>1, <2>3
  <1>17. SumNow(r)' /\ \A b \in Blocks(r) : NumberNow(b)'
    <2>1. \A b \in Blocks(r) : \A op : Pends(b, op)' = Pends(b, op)
      BY <1>2, <1>8, BlocksAre DEF Pends
    <2>. QED
      BY <1>1, <1>2, <1>13, <2>1, NumberStays, SumStays, BlocksAre DEF RankInv, blockvars
  <1>18. Entered(r)' /\ OpenCall(r)'
    <2>1. Entered(r)'
      BY <1>6, <1>11 DEF Entered
    <2>. QED
      BY <2>1, <1>2, <1>6, <1>11, <1>15 DEF OpenCall
  <1>19. ToGo(r)' = j - 1
    <2>1. at[r] = "write" => j - 1 = -1
      BY <1>3
    <2>. QED
      BY <2>1, <1>2, <1>3, <1>18 DEF ToGo
  <1>20. /\ \A m, i \in Nat : Passed(r, m, i) => Passed(r, m, i)'
         /\ \A m, i \in Nat : Passed(r, m, i)' => Passed(r, m, i) \/ (m = n /\ i = j)
         /\ Passed(r, n, j)'
    BY <1>3, <1>9, <1>15, <1>19 DEF Passed
  <1>21. ASSUME NEW k \in 1 .. K - 1
         PROVE  /\ CallMade(r, k) /\ NumberGiven(r, k)
                /\ entered[r][k].stage \in 1 .. n /\ Left(entered[r][k]) \in Nat
                /\ Before(entered[r][k].stage, Left(entered[r][k]), n, j)
    <2>1. CallMade(r, k) /\ NumberGiven(r, k)
      BY <1>1, <1>5 DEF CallsInv
    <2>2. /\ entered[r][k].stage \in 1 .. n /\ Left(entered[r][k]) \in Nat
          /\ Passed(r, entered[r][k].stage, Left(entered[r][k]))
      BY <2>1, <1>3 DEF CallMade
    <2>. QED
      BY <2>1, <2>2, <1>3, <1>9 DEF Passed, Before
  <1>22. ASSUME NEW k \in 1 .. K - 1 PROVE CallMade(r, k)' /\ NumberGiven(r, k)'
    <2>1. PICK d, m, i : d = entered[r][k] /\ m = d.stage /\ i = Left(d)
      OBVIOUS
    <2>2. /\ m \in 1 .. n /\ i \in Nat /\ entered'[r][k] = d /\ CallMade(r, k) /\ NumberGiven(r, k)
      BY <2>1, <1>6, <1>21
    <2>3. /\ IsCall(Lead(r), m, i) /\ Passed(r, m, i) /\ Head(d.todo) = Operation(Lead(r), m, i)
          /\ d.op = Call(Head(d.todo))
      BY <2>1, <2>2 DEF CallMade
    <2>4. Passed(r, m, i)'
      BY <2>2, <2>3, <1>9, <1>20
    <2>5. CallMade(r, k)'
      BY <2>1, <2>2, <2>3, <2>4, <1>9, <1>15 DEF CallMade, Left
    <2>6. NumberGiven(r, k)'
      BY <2>2, <1>2, <1>6 DEF NumberGiven, Blocks, Lead, blockvars
    <2>. QED
      BY <2>5, <2>6
  <1>23. CallMade(r, K)'
    <2>1. entered'[r][K] = e /\ n \in 1 .. Base(r)'
      BY <1>6, <1>9, <1>15
    <2>2. Head(e.todo) = Operation(Lead(r), n, j)' /\ IsCall(Lead(r), n, j)'
      BY <1>9, <1>11, <1>15
    <2>. QED
      BY <2>1, <2>2, <1>9, <1>11, <1>20 DEF CallMade, Left
  <1>24. NumberGiven(r, K)'
    <2>1. /\ Head(todo[r]) = "max" => e.data = Max({gave[c][n].data.number : c \in Blocks(r)})
          /\ Head(todo[r]) = "shared" => e.data = gave[Lead(r)][n].data.shared
      <3>1. e.data = Given(r, Head(todo[r]))
        BY <1>3
      <3>2. CASE at[r] = "write"
        <4>1. Head(todo[r]) = "dump"
          BY <3>2, <1>3, <1>9 DEF Operation
        <4>. QED
          BY <4>1
      <3>3. CASE at[r] = "serve"
        <4> DEFINE ops == Operations(Asked(r))
        <4>1. /\ IsPlan(ops) /\ todo[r] \in Seq(Op) /\ IsRest(ops, todo[r])
              /\ Range(InOrder(r, order[r])) = Blocks(r)
              /\ \A op \in Reduction : op \in Range(ops) <=> Has(Asked(r), op)
              /\ "shared" \in Range(ops) <=> Asked(r).shared
          BY <3>3, Serving
        <4>2. Head(todo[r]) \in Range(ops) /\ Head(todo[r]) \in Range(todo[r])
          <5>. HIDE DEF ops
          <5>. QED
            BY <4>1, <1>2, RestIs
        <4>3. \A b \in Blocks(r) : Pends(b, Head(todo[r]))
          BY <3>3, <4>2, BlocksAre DEF Pends
        <4>4. CASE Head(todo[r]) = "max"
          <5>1. Has(Asked(r), "max")
            BY <4>1, <4>2, <4>4 DEF Reduction
          <5>2. \A b \in Blocks(r) : data[b].number = gave[b][n].data.number
            BY <4>3, <4>4, <5>1, <1>1, <1>10 DEF RankInv, NumberNow
          <5>3. Numbers(r) = {gave[b][n].data.number : b \in Blocks(r)}
            BY <4>1, <5>2 DEF Numbers
          <5>4. Given(r, "max") = Max(Numbers(r))
            BY DEF Given
          <5>. QED
            BY <3>1, <4>4, <5>3, <5>4
        <4>5. CASE Head(todo[r]) = "shared"
          <5>1. Asked(r).shared
            BY <4>1, <4>2, <4>5
          <5>2. sum[r] = gave[Lead(r)][n].data.shared
            BY <4>3, <4>5, <5>1, <1>1, <1>10, BlocksAre DEF RankInv, SumNow
          <5>3. Given(r, "shared") = sum[r]
            BY DEF Given
          <5>. QED
            BY <3>1, <4>5, <5>2, <5>3
        <4>. QED
          BY <4>4, <4>5
      <3>. QED
        BY <3>2, <3>3, <1>2
    <2>. QED
      BY <2>1, <1>2, <1>6, <1>11 DEF NumberGiven, Blocks, Lead, blockvars
  <1>25. CallsInOrder(r)'
    <2>. SUFFICES ASSUME NEW k \in 1 .. K, NEW l \in 1 .. K, k < l
         PROVE  Before(entered'[r][k].stage, Left(entered'[r][k]),
                       entered'[r][l].stage, Left(entered'[r][l]))
      BY <1>6 DEF CallsInOrder, Before, Left
    <2>1. k \in 1 .. K - 1 /\ entered'[r][k] = entered[r][k]
      BY <1>5, <1>6
    <2>2. CASE l = K
      BY <2>1, <2>2, <1>6, <1>11, <1>21
    <2>3. CASE l # K
      <3>1. l \in 1 .. K - 1 /\ entered'[r][l] = entered[r][l]
        BY <2>3, <1>5, <1>6
      <3>. QED
        BY <2>1, <3>1, <1>1, <1>5 DEF CallsInv, CallsInOrder
    <2>. QED
      BY <2>2, <2>3
  <1>26. NoCallMissed(r)'
    <2>. SUFFICES ASSUME NEW m \in 0 .. Base(r)', NEW i \in Nat,
                         IsCall(Lead(r), m, i)', Passed(r, m, i)'
         PROVE  \E k \in DOMAIN entered'[r] : entered'[r][k].stage = m /\ Left(entered'[r][k]) = i
      BY DEF NoCallMissed
    <2>1. CASE m = n /\ i = j
      <3>1. K \in DOMAIN entered'[r]
        BY <1>5, <1>6
      <3>. QED
        BY <2>1, <3>1, <1>6, <1>11
    <2>2. CASE ~(m = n /\ i = j)
      <3>1. m \in 0 .. n /\ Passed(r, m, i) /\ IsCall(Lead(r), m, i)
        BY <2>2, <1>9, <1>15, <1>20
      <3>2. PICK k \in DOMAIN entered[r] : entered[r][k].stage = m /\ Left(entered[r][k]) = i
        BY <3>1, <1>1, <1>3 DEF CallsInv, NoCallMissed
      <3>3. k \in DOMAIN entered'[r] /\ entered'[r][k] = entered[r][k]
        BY <1>5, <1>6
      <3>. QED
        BY <3>2, <3>3
    <2>. QED
      BY <2>1, <2>2
  <1>27. CallsInv(r)'
    <2>1. \A k \in 1 .. K : k \in 1 .. K - 1 \/ k = K
      BY <1>5
    <2>2. \A k \in DOMAIN entered'[r] : CallMade(r, k)' /\ NumberGiven(r, k)'
      BY <2>1, <1>6, <1>22, <1>23, <1>24
    <2>. QED
      BY <2>2, <1>18, <1>25, <1>26 DEF CallsInv
  <1>28. RankInv(r)'
    BY <1>16, <1>17, <1>27 DEF RankInv, Blocks
  <1>29. SameCalls'
    <2>1. ASSUME NEW s \in Rank, s # r, K \in DOMAIN entered[s]
          PROVE  entered[s][K].stage = n /\ Left(entered[s][K]) = j
      BY <2>1, <1>2, <1>3, NextCallIs
    <2>2. \A s \in Rank : DOMAIN entered[s] = 1 .. Len(entered[s]) /\ Len(entered[s]) \in Nat
      BY <1>1, SeqIs DEF Types, EnteredOk
    <2>3. ASSUME NEW s \in Rank, NEW k \in DOMAIN entered'[r], k <= Len(entered'[s])
          PROVE  /\ entered'[r][k].stage = entered'[s][k].stage
                 /\ Left(entered'[r][k]) = Left(entered'[s][k])
      <3>1. CASE s = r
        BY <3>1
      <3>2. CASE s # r
        <4>1. entered'[s] = entered[s] /\ k \in DOMAIN entered[s]
          BY <3>2, <2>2, <2>3, <1>6, <1>7
        <4>2. CASE k = K
          BY <4>1, <4>2, <3>2, <2>1, <1>6, <1>11
        <4>3. CASE k # K
          <5>1. k \in DOMAIN entered[r] /\ entered'[r][k] = entered[r][k] /\ k <= Len(entered[s])
            BY <4>1, <4>3, <2>2, <1>5, <1>6
          <5>. QED
            BY <5>1, <4>1 DEF IInv, SameCalls
        <4>. QED
          BY <4>2, <4>3
      <3>. QED
        BY <3>1, <3>2
    <2>4. ASSUME NEW q \in Rank, NEW s \in Rank, NEW k \in DOMAIN entered'[q], k <= Len(entered'[s])
          PROVE  /\ entered'[q][k].stage = entered'[s][k].stage
                 /\ Left(entered'[q][k]) = Left(entered'[s][k])
      <3>1. CASE q = r
        BY <3>1, <2>3, <2>4
      <3>2. CASE q # r /\ s = r
        <4>1. entered'[q] = entered[q] /\ k \in DOMAIN entered'[r] /\ k <= Len(entered'[q])
          BY <3>2, <2>2, <2>4, <1>6, <1>7
        <4>. QED
          BY <3>2, <4>1, <2>3
      <3>3. CASE q # r /\ s # r
        BY <3>3, <2>4, <1>7 DEF IInv, SameCalls
      <3>. QED
        BY <3>1, <3>2, <3>3
    <2>. QED
      BY <2>4 DEF SameCalls, Left
  <1>30. ~aborted'
    BY <1>2 DEF IInv
  <1>. QED
    BY <1>12, <1>13, <1>14, <1>28, <1>29, <1>30, RankStep

-----------------------------------------------------------------------------
(***************************************************************************)
(* An operation that is over.                                              *)
(***************************************************************************)
\* An operation is over: it is taken off the list, and a call of MPI is no longer open.
Takes(r) ==
  /\ at[r] \in {"serve", "write"} /\ todo[r] # <<>>
  /\ todo' = [todo EXCEPT ![r] = Tail(@)]
  /\ UNCHANGED <<setup, pos, gave>> /\ UNCHANGED <<at, fields, order, sent, aborted>>
  /\ DOMAIN data' = Block
  /\ \A b \in Block : /\ DOMAIN data'[b] = Buffers
                      /\ data'[b].number \in Nat /\ data'[b].shared \in Nat
                      /\ b[1] # r => data'[b] = data[b]
  /\ sum' \in [Rank -> Nat] /\ \A q \in Rank \ {r} : sum'[q] = sum[q]
  /\ DOMAIN entered' = Rank /\ EnteredOk(r)' /\ ~Entered(r)'
  /\ \A q \in Rank \ {r} : entered'[q] = entered[q]
  /\ CallsKept(r)
  /\ Entered(r) \/ ~IsCall(Lead(r), Base(r), IF at[r] = "write" THEN 0 ELSE Len(todo[r]))

\* What the end of an operation leaves: the rank goes on to the next one.
LEMMA TakesNext ==
  ASSUME IInv, NEW r \in Rank, Takes(r)
  PROVE  /\ Types' /\ Elsewhere(r) /\ Grown /\ StagesInv' /\ ~aborted' /\ SameCalls'
         /\ Together(r)' /\ Placed(r)' /\ CallsInv(r)'
         /\ Ran(r) = {} /\ Ran(r)' = {}
         /\ at'[r] = at[r] /\ todo'[r] = Tail(todo[r])
         /\ \A b \in Blocks(r), op \in {"max", "shared"} :
              /\ op # Head(todo[r]) => (Pends(b, op)' <=> Pends(b, op))
              /\ op = Head(todo[r]) => at[r] = "serve" /\ ~Pends(b, op)' /\ Pends(b, op)
  <1>0. /\ at[r] \in {"serve", "write"} /\ todo[r] # <<>>
        /\ todo' = [todo EXCEPT ![r] = Tail(@)]
        /\ UNCHANGED <<setup, pos, gave>> /\ UNCHANGED <<at, fields, order, sent, aborted>>
        /\ DOMAIN data' = Block
        /\ \A b \in Block : /\ DOMAIN data'[b] = Buffers
                            /\ data'[b].number \in Nat /\ data'[b].shared \in Nat
                            /\ b[1] # r => data'[b] = data[b]
        /\ sum' \in [Rank -> Nat] /\ \A q \in Rank \ {r} : sum'[q] = sum[q]
        /\ DOMAIN entered' = Rank /\ EnteredOk(r)' /\ ~Entered(r)'
        /\ \A q \in Rank \ {r} : entered'[q] = entered[q]
        /\ CallsKept(r)
    BY DEF Takes
  <1>30. PICK j : /\ j = (IF at[r] = "write" THEN 0 ELSE Len(todo[r]))
                  /\ Entered(r) \/ ~IsCall(Lead(r), Base(r), j)
    BY DEF Takes
  <1>. USE <1>0, <1>30
  <1>1. Types /\ RankInv(r) /\ Together(r) /\ Placed(r) /\ CallsInv(r) /\ ~aborted
    BY DEF IInv, RankInv
  <1>2. PICK n : n = Base(r)
    OBVIOUS
  <1>3. /\ n \in Nat /\ n >= 1 /\ j \in Nat /\ ToGo(r) = IF Entered(r) THEN j - 1 ELSE j
        /\ todo[r] \in Seq(Op \cup {"dump"})
    BY <1>1, <1>2, HeadIs DEF Types
  <1>4. todo'[r] = Tail(todo[r]) /\ at'[r] = at[r] /\ Tail(todo[r]) \in Seq(Op \cup {"dump"})
    BY <1>1, <1>3 DEF Types
  <1>5. Ran(r) = {} /\ Ran(r)' = {}
    BY <1>4 DEF Ran
  <1>6. at[r] = "write" => todo[r] = <<"dump">> /\ Tail(todo[r]) = <<>>
    <2>1. at[r] = "write" => todo[r] \in {<<"dump">>, <<>>}
      BY <1>1 DEF Placed
    <2>2. Tail(<<"dump">>) = <<>>
      OBVIOUS
    <2>. QED
      BY <2>1, <2>2
  <1>7. at[r] = "serve" =>
          /\ IsPlan(Operations(Asked(r))) /\ todo[r] \in Seq(Op) /\ IsRest(Operations(Asked(r)), todo[r])
          /\ Tail(todo[r]) \in Seq(Op) /\ IsRest(Operations(Asked(r)), Tail(todo[r]))
          /\ Len(Tail(todo[r])) = Len(todo[r]) - 1
          /\ Head(todo[r]) \in Range(todo[r]) /\ Head(todo[r]) \notin Range(Tail(todo[r]))
          /\ \A op : op \in Range(todo[r]) <=> op = Head(todo[r]) \/ op \in Range(Tail(todo[r]))
    <2>. SUFFICES ASSUME at[r] = "serve"
         PROVE  /\ IsPlan(Operations(Asked(r))) /\ todo[r] \in Seq(Op) /\ IsRest(Operations(Asked(r)), todo[r])
                /\ Tail(todo[r]) \in Seq(Op) /\ IsRest(Operations(Asked(r)), Tail(todo[r]))
                /\ Len(Tail(todo[r])) = Len(todo[r]) - 1
                /\ Head(todo[r]) \in Range(todo[r]) /\ Head(todo[r]) \notin Range(Tail(todo[r]))
                /\ \A op : op \in Range(todo[r]) <=> op = Head(todo[r]) \/ op \in Range(Tail(todo[r]))
      OBVIOUS
    <2>1. IsPlan(Operations(Asked(r))) /\ todo[r] \in Seq(Op) /\ IsRest(Operations(Asked(r)), todo[r])
      BY Serving
    <2>. QED
      BY <2>1, RestIs
  <1>8. Types'
    <2>1. todo' \in [Rank -> Seq(Op \cup {"dump"})]
      BY <1>1, <1>4 DEF Types
    <2>2. ASSUME NEW q \in Rank PROVE EnteredOk(q)'
      <3>1. CASE q = r
        BY <3>1
      <3>2. CASE q # r
        <4>1. entered'[q] = entered[q] /\ EnteredOk(q)
          BY <3>2, <1>1 DEF Types
        <4>. QED
          BY <4>1 DEF EnteredOk
      <3>. QED
        BY <3>1, <3>2
    <2>. QED
      BY <1>1, <2>1, <2>2 DEF Types, setup, SetupChosen, GaveOk, Stages
  <1>9. Elsewhere(r)
    <2>1. \A q \in Rank \ {r} : todo'[q] = todo[q]
      BY <1>1 DEF Types
    <2>. QED
      BY <2>1 DEF Elsewhere
  <1>10. Grown
    <2>1. \A b \in Block : Stages(b)' = Stages(b) /\ Stages(b) \in Nat
      BY <1>1, GaveIs DEF Stages
    <2>. QED
      BY <2>1 DEF Grown, setup
  <1>11. StagesInv'
    BY StagesInvStill DEF IInv, setup
  <1>12. /\ Base(r)' = n /\ Asked(r)' = Asked(r)
         /\ \A m : Made(Lead(r), m)' = Made(Lead(r), m) /\ PosAfter(Lead(r), m)' = PosAfter(Lead(r), m)
    <2>1. Base(r)' = Base(r)
      BY <1>5 DEF Base, Lead, Stages
    <2>2. \A m : Made(Lead(r), m)' = Made(Lead(r), m) /\ PosAfter(Lead(r), m)' = PosAfter(Lead(r), m)
      BY DEF Made, PosAfter, Stages, Lead, setup
    <2>. QED
      BY <2>1, <2>2, <1>2 DEF Asked
  <1>13. Together(r)'
    BY <1>1, <1>2, <1>3, <1>5, <1>12 DEF Together, Blocks, Stages
  <1>14. Placed(r)'
    <2>1. at[r] = "serve" => /\ todo'[r] \in Seq(Op) /\ IsRest(Operations(Asked(r)'), todo'[r])
                             /\ Base(r)' >= 1
      BY <1>3, <1>4, <1>7, <1>12
    <2>2. at[r] = "serve" => \/ order[r] = All
                             \/ /\ order[r] = early \o late /\ late # <<>>
                                /\ Made(Lead(r), n - 1).comm /\ ~Made(Lead(r), n - 1).dump
      BY <1>1, <1>2 DEF Placed
    <2>3. Made(Lead(r), Base(r) - 1)' = Made(Lead(r), n - 1)
      BY <1>12 DEF Made, Lead
    <2>4. at[r] = "write" => /\ Asked(r)'.dump /\ fields'[r] = Asked(r)'.comm
                             /\ PosAfter(Lead(r), Base(r))' \in DOMAIN kernel'
      <3>1. PosAfter(Lead(r), Base(r))' = PosAfter(Lead(r), Base(r))
        BY <1>2, <1>12 DEF Lead
      <3>. QED
        BY <3>1, <1>1, <1>12 DEF Placed, setup
    <2>. QED
      BY <2>1, <2>2, <2>3, <2>4, <1>4, <1>6 DEF Placed, Operations, IsRest, setup, All
  <1>15. ToGo(r)' = j - 1
    <2>1. at[r] = "write" => j - 1 = -1 /\ todo'[r] = <<>>
      <3>1. at[r] = "write" => todo'[r] = <<>>
        BY <1>4, <1>6
      <3>2. at[r] = "write" => j = 0
        OBVIOUS
      <3>. QED
        BY <3>1, <3>2
    <2>2. at[r] = "serve" => j - 1 = Len(todo'[r])
      BY <1>4, <1>7
    <2>. QED
      BY <2>1, <2>2, <1>4 DEF ToGo
  <1>16. \A m \in 0 .. Base(r) : \A i \in Nat :
           IsCall(Lead(r), m, i) => (Passed(r, m, i)' <=> Passed(r, m, i))
    <2>1. CASE Entered(r)
      BY <2>1, <1>2, <1>3, <1>12, <1>15 DEF Passed
    <2>2. CASE ~Entered(r)
      <3>1. ASSUME NEW m \in 0 .. n, NEW i \in Nat, IsCall(Lead(r), m, i)
            PROVE  Passed(r, m, i)' <=> Passed(r, m, i)
        <4>1. ~(m = n /\ i = j)
          BY <2>2, <3>1, <1>2
        <4>. QED
          BY <4>1, <2>2, <1>2, <1>3, <1>12, <1>15 DEF Passed
      <3>. QED
        BY <3>1, <1>2
    <2>. QED
      BY <2>1, <2>2
  <1>17. OpenCall(r)'
    BY DEF OpenCall
  <1>18. CallsInv(r)'
    <2>1. Base(r)' \in Nat /\ Base(r) <= Base(r)' /\ \A m \in 0 .. Base(r)' : ~(m > Base(r))
      BY <1>2, <1>3, <1>12
    <2>. QED
      BY <2>1, <1>1, <1>10, <1>16, <1>17, CallsStayKept
  <1>19. SameCalls'
    <2>1. \A q \in Rank : /\ DOMAIN entered'[q] = DOMAIN entered[q] /\ Len(entered'[q]) = Len(entered[q])
                          /\ \A k \in DOMAIN entered[q] :
                               /\ entered'[q][k].stage = entered[q][k].stage
                               /\ Left(entered'[q][k]) = Left(entered[q][k])
      <3>1. ASSUME NEW q \in Rank
            PROVE  /\ DOMAIN entered'[q] = DOMAIN entered[q]
                   /\ \A k \in DOMAIN entered[q] :
                        /\ entered'[q][k].stage = entered[q][k].stage
                        /\ Left(entered'[q][k]) = Left(entered[q][k])
        <4>1. CASE q = r
          BY <4>1 DEF CallsKept, Left
        <4>2. CASE q # r
          <5>1. entered'[q] = entered[q]
            BY <4>2
          <5>. QED
            BY <5>1
        <4>. QED
          BY <4>1, <4>2
      <3>2. ASSUME NEW q \in Rank PROVE Len(entered'[q]) = Len(entered[q])
        <4>1. /\ Len(entered[q]) \in Nat /\ DOMAIN entered[q] = 1 .. Len(entered[q])
          BY <1>1, SeqIs DEF Types, EnteredOk
        <4>2. /\ Len(entered'[q]) \in Nat /\ DOMAIN entered'[q] = 1 .. Len(entered'[q])
          BY <1>8, SeqIs DEF Types, EnteredOk
        <4>. QED
          BY <3>1, <4>1, <4>2
      <3>. QED
        BY <3>1, <3>2
    <2>2. ASSUME NEW q \in Rank, NEW s \in Rank, NEW k \in DOMAIN entered[q], k <= Len(entered[s])
          PROVE  entered[q][k].stage = entered[s][k].stage /\ Left(entered[q][k]) = Left(entered[s][k])
                 /\ k \in DOMAIN entered[s]
      <3>1. DOMAIN entered[q] = 1 .. Len(entered[q]) /\ DOMAIN entered[s] = 1 .. Len(entered[s])
            /\ Len(entered[q]) \in Nat /\ Len(entered[s]) \in Nat
        BY <1>1, SeqIs DEF Types, EnteredOk
      <3>. QED
        BY <2>2, <3>1 DEF IInv, SameCalls
    <2>3. ASSUME NEW q \in Rank, NEW s \in Rank, NEW k \in DOMAIN entered'[q], k <= Len(entered'[s])
          PROVE  /\ entered'[q][k].stage = entered'[s][k].stage
                 /\ Left(entered'[q][k]) = Left(entered'[s][k])
      <3>1. k \in DOMAIN entered[q] /\ k <= Len(entered[s])
        BY <2>1, <2>3
      <3>2. /\ entered[q][k].stage = entered[s][k].stage /\ Left(entered[q][k]) = Left(entered[s][k])
            /\ k \in DOMAIN entered[s]
        BY <2>2, <3>1
      <3>3. /\ entered'[q][k].stage = entered[q][k].stage /\ Left(entered'[q][k]) = Left(entered[q][k])
        BY <2>1, <3>1
      <3>4. /\ entered'[s][k].stage = entered[s][k].stage /\ Left(entered'[s][k]) = Left(entered[s][k])
        BY <2>1, <3>2
      <3>. QED
        BY <3>2, <3>3, <3>4
    <2>. QED
      BY <2>3 DEF SameCalls, Left
  <1>20. ASSUME NEW b \in Blocks(r), NEW op \in {"max", "shared"}
         PROVE  /\ op # Head(todo[r]) => (Pends(b, op)' <=> Pends(b, op))
                /\ op = Head(todo[r]) => at[r] = "serve" /\ ~Pends(b, op)' /\ Pends(b, op)
    <2>1. b[1] = r
      BY BlocksAre
    <2>2. CASE at[r] = "write"
      <3>1. Head(todo[r]) # op
        BY <2>2, <1>6
      <3>. QED
        BY <2>1, <2>2, <3>1, <1>4, <1>5 DEF Pends
    <2>3. CASE at[r] = "serve"
      BY <2>1, <2>3, <1>4, <1>5, <1>7 DEF Pends
    <2>. QED
      BY <2>2, <2>3
  <1>. QED
    BY <1>1, <1>4, <1>5, <1>8, <1>9, <1>10, <1>11, <1>13, <1>14, <1>18, <1>19, <1>20

\* Requests that are served within the rank.
LEMMA WithinRankNext ==
  ASSUME IInv, NEW r \in Rank, WithinRank(r)
  PROVE  IInv'
  <1>1. Types /\ RankInv(r) /\ CallsInv(r)
    BY DEF IInv, RankInv
  <1>2. /\ at[r] = "serve" /\ todo[r] # <<>> /\ Head(todo[r]) \in OfRank
        /\ todo' = [todo EXCEPT ![r] = Tail(@)]
        /\ UNCHANGED <<setup, pos, gave>> /\ UNCHANGED <<at, fields, order, sent, aborted>>
        /\ sum' = sum /\ entered' = entered
    BY DEF WithinRank
  <1>3. /\ DOMAIN data' = Block
        /\ \A b \in Block : /\ DOMAIN data'[b] = Buffers
                            /\ data'[b].number = data[b].number /\ data'[b].shared = data[b].shared
                            /\ b[1] # r => data'[b] = data[b]
    <2>1. DOMAIN data = Block /\ \A b \in Block : DOMAIN data[b] = Buffers
      BY <1>1 DEF Types
    <2>2. CASE Head(todo[r]) = "tolead"
      <3>1. PICK v : data' = [data EXCEPT ![Lead(r)].list = v]
        BY <2>2 DEF WithinRank
      <3>. QED
        BY <2>1, <3>1, BlocksAre DEF Buffers
    <2>3. CASE Head(todo[r]) # "tolead"
      <3>1. PICK v : data' = [b \in Block |-> IF b \in Blocks(r)
                                THEN [data[b] EXCEPT !.object = v] ELSE data[b]]
        BY <2>3 DEF WithinRank
      <3>. QED
        BY <2>1, <3>1, BlocksAre DEF Buffers
    <2>. QED
      BY <2>2, <2>3
  <1>4. PICK j : j = (IF at[r] = "write" THEN 0 ELSE Len(todo[r]))
    OBVIOUS
  <1>5. ~IsCall(Lead(r), Base(r), j) /\ \A e : e.todo = todo[r] => Left(e) = j
    BY <1>2, <1>4, HeadIs
  <1>6. ~Entered(r)
    <2>. SUFFICES ASSUME Entered(r) PROVE FALSE
      OBVIOUS
    <2>1. Last(entered[r]) = entered[r][Len(entered[r])] /\ Len(entered[r]) \in DOMAIN entered[r]
      BY <1>1, SeqIs DEF Types, EnteredOk, Entered
    <2>2. Last(entered[r]).todo = todo[r] /\ Last(entered[r]).stage = Base(r)
      BY <1>1 DEF CallsInv, OpenCall
    <2>3. IsCall(Lead(r), Base(r), Left(Last(entered[r])))
      BY <1>1, <2>1, <2>2 DEF CallsInv, CallMade
    <2>. QED
      BY <2>2, <2>3, <1>5
  <1>7. /\ Types' /\ Elsewhere(r) /\ Grown /\ StagesInv' /\ ~aborted' /\ SameCalls'
        /\ Together(r)' /\ Placed(r)' /\ CallsInv(r)'
        /\ \A b \in Blocks(r), op \in {"max", "shared"} :
             op # Head(todo[r]) => (Pends(b, op)' <=> Pends(b, op))
    <2>1. /\ \A b \in Block : data'[b].number \in Nat /\ data'[b].shared \in Nat
          /\ sum' \in [Rank -> Nat] /\ DOMAIN entered' = Rank /\ EnteredOk(r)' /\ ~Entered(r)'
          /\ CallsKept(r) /\ \A q \in Rank \ {r} : entered'[q] = entered[q] /\ sum'[q] = sum[q]
      BY <1>1, <1>2, <1>3, <1>6 DEF Types, EnteredOk, Entered, CallsKept
    <2>2. at[r] \in {"serve", "write"}
      BY <1>2
    <2>3. \A b \in Block : /\ DOMAIN data'[b] = Buffers
                           /\ data'[b].number \in Nat /\ data'[b].shared \in Nat
                           /\ b[1] # r => data'[b] = data[b]
      BY <2>1, <1>3
    <2>4. ~IsCall(Lead(r), Base(r), IF at[r] = "write" THEN 0 ELSE Len(todo[r]))
      BY <1>4, <1>5
    <2>5. Takes(r)
      BY <2>1, <2>2, <2>3, <2>4, <1>2, <1>3 DEF Takes
    <2>. QED
      BY <2>5, TakesNext
  <1>8. \A b \in Blocks(r), op \in {"max", "shared"} : Pends(b, op)' <=> Pends(b, op)
    BY <1>2, <1>7 DEF OfRank
  <1>9. SumNow(r)' /\ \A b \in Blocks(r) : NumberNow(b)'
    BY <1>1, <1>2, <1>3, <1>7, <1>8, NumberStays, SumStays, BlocksAre DEF RankInv
  <1>10. RankInv(r)'
    BY <1>7, <1>9 DEF RankInv, Blocks
  <1>. QED
    BY <1>7, <1>10, RankStep

-----------------------------------------------------------------------------
(***************************************************************************)
(* The end of an MPI call.                                                 *)
(***************************************************************************)
\* The greatest number of all blocks is that of the greatest numbers of ranks.
LEMMA GreatestOfRanks ==
  ASSUME Types, NEW n \in Nat \ {0}, AllGave(n)
  PROVE  Max({Max({gave[c][n].data.number : c \in Blocks(s)}) : s \in Rank}) = GreatestNumber(n)
  <1> DEFINE N(c) == gave[c][n].data.number
             M(s) == Max({N(c) : c \in Blocks(s)})
             T == {M(s) : s \in Rank}
  <1>1. \A c \in Block : N(c) \in Nat
    <2>. SUFFICES ASSUME NEW c \in Block PROVE N(c) \in Nat
      OBVIOUS
    <2>1. n \in 1 .. Stages(c)
      BY GaveIs DEF AllGave
    <2>. QED
      BY <2>1 DEF Types, GaveOk
  <1>2. ASSUME NEW s \in Rank
        PROVE  M(s) \in {N(c) : c \in Blocks(s)} /\ M(s) \in Nat /\ \A c \in Blocks(s) : N(c) <= M(s)
    <2>1. /\ IsFiniteSet(Blocks(s)) /\ Blocks(s) # {} /\ \A c \in Blocks(s) : c \in Block
      BY BlocksAre
    <2>2. PICK f : f = [c \in Block |-> N(c)]
      OBVIOUS
    <2>3. \A c \in Blocks(s) : f[c] = N(c) /\ f[c] \in Nat
      BY <2>1, <2>2, <1>1
    <2>4. {f[c] : c \in Blocks(s)} = {N(c) : c \in Blocks(s)}
      BY <2>3
    <2>. HIDE DEF N
    <2>5. /\ Max({f[c] : c \in Blocks(s)}) \in {f[c] : c \in Blocks(s)}
          /\ Max({f[c] : c \in Blocks(s)}) \in Nat
          /\ \A y \in {f[c] : c \in Blocks(s)} : y <= Max({f[c] : c \in Blocks(s)})
      BY <2>1, <2>3, GreatestIs
    <2>. QED
      BY <2>4, <2>5
  <1>3. /\ GreatestNumber(n) \in {N(c) : c \in Block} /\ GreatestNumber(n) \in Nat
        /\ \A c \in Block : N(c) <= GreatestNumber(n)
    <2>1. PICK f : f = [c \in Block |-> N(c)]
      OBVIOUS
    <2>2. \A c \in Block : f[c] = N(c) /\ f[c] \in Nat
      BY <2>1, <1>1
    <2>3. {f[c] : c \in Block} = {N(c) : c \in Block}
      BY <2>2
    <2>4. GreatestNumber(n) = Max({N(c) : c \in Block})
      BY DEF GreatestNumber
    <2>. HIDE DEF N
    <2>5. /\ Max({f[c] : c \in Block}) \in {f[c] : c \in Block}
          /\ Max({f[c] : c \in Block}) \in Nat
          /\ \A y \in {f[c] : c \in Block} : y <= Max({f[c] : c \in Block})
      <3>1. IsFiniteSet(Block) /\ Block # {} /\ \A c \in Block : f[c] \in Nat
        BY <2>2, BlocksAre
      <3>. QED
        BY <3>1, GreatestIs
    <2>. QED
      BY <2>3, <2>4, <2>5
  <1>. HIDE DEF N, M
  <1>4. T \in SUBSET Nat
    BY <1>2
  <1>5. \A y \in T : y <= GreatestNumber(n)
    <2>1. ASSUME NEW s \in Rank PROVE M(s) <= GreatestNumber(n)
      <3>1. PICK c \in Blocks(s) : M(s) = N(c)
        BY <1>2
      <3>. QED
        BY <3>1, <1>3, BlocksAre
    <2>. QED
      BY <2>1
  <1>6. GreatestNumber(n) \in T
    <2>1. PICK c \in Block : GreatestNumber(n) = N(c)
      BY <1>3
    <2>2. c[1] \in Rank /\ c \in Blocks(c[1])
      BY BlocksAre
    <2>3. N(c) <= M(c[1]) /\ M(c[1]) <= GreatestNumber(n) /\ M(c[1]) \in Nat
      BY <2>2, <1>2, <1>5
    <2>4. M(c[1]) = GreatestNumber(n)
      BY <2>1, <2>3, <1>3
    <2>. QED
      BY <2>2, <2>4
  <1>7. Max(T) = GreatestNumber(n)
    <2>. HIDE DEF T
    <2>. QED
      BY <1>4, <1>5, <1>6, GreatestUnique
  <1>. QED
    BY <1>7 DEF N, M

\* The call that a rank has entered.
LEMMA OpenIs ==
  ASSUME IInv, NEW r \in Rank, Entered(r), NEW k, k = Len(entered[r])
  PROVE  /\ at[r] \in {"serve", "write"} /\ todo[r] # <<>>
         /\ k \in DOMAIN entered[r] /\ Last(entered[r]) = entered[r][k] /\ k \in Nat
         /\ entered[r][k].todo = todo[r] /\ entered[r][k].stage = Base(r) /\ entered[r][k].open
         /\ entered[r][k].op = Call(Head(todo[r]))
         /\ CallMade(r, k) /\ NumberGiven(r, k)
  <1>1. Types /\ CallsInv(r)
    BY DEF IInv, RankInv
  <1>2. /\ k \in DOMAIN entered[r] /\ Last(entered[r]) = entered[r][k] /\ k \in Nat
    BY <1>1, SeqIs DEF Types, EnteredOk, Entered
  <1>3. /\ at[r] \in {"serve", "write"} /\ todo[r] # <<>>
        /\ entered[r][k].todo = todo[r] /\ entered[r][k].stage = Base(r) /\ entered[r][k].open
    BY <1>1, <1>2 DEF CallsInv, OpenCall, Entered
  <1>4. CallMade(r, k) /\ NumberGiven(r, k)
    BY <1>1, <1>2 DEF CallsInv
  <1>. QED
    BY <1>2, <1>3, <1>4 DEF CallMade

\* The calls that match a call: other ranks have made it in the same stage.
LEMMA MatchIs ==
  ASSUME IInv, NEW r \in Rank, NEW k \in DOMAIN entered[r], NEW s \in Rank, k <= Len(entered[s])
  PROVE  /\ k \in DOMAIN entered[s] /\ CallMade(s, k) /\ NumberGiven(s, k)
         /\ entered[s][k].stage = entered[r][k].stage
         /\ entered[s][k].stage \in 1 .. Base(s)
         /\ Left(entered[s][k]) = Left(entered[r][k])
         /\ Head(entered[s][k].todo) = Head(entered[r][k].todo)
         /\ entered[s][k].op = entered[r][k].op
  <1>1. Types /\ CallsInv(r) /\ CallsInv(s)
    BY DEF IInv, RankInv
  <1>2. k \in DOMAIN entered[s]
    <2>1. Len(entered[r]) \in Nat /\ DOMAIN entered[r] = 1 .. Len(entered[r])
          /\ Len(entered[s]) \in Nat /\ DOMAIN entered[s] = 1 .. Len(entered[s])
      BY <1>1, SeqIs DEF Types, EnteredOk
    <2>. QED
      BY <2>1
  <1>3. entered[s][k].stage = entered[r][k].stage /\ Left(entered[s][k]) = Left(entered[r][k])
    BY <1>2 DEF IInv, SameCalls
  <1>4. CallMade(s, k) /\ NumberGiven(s, k) /\ CallMade(r, k)
    BY <1>1, <1>2 DEF CallsInv
  <1>5. PICK n, j : n = entered[r][k].stage /\ j = Left(entered[r][k])
    OBVIOUS
  <1>6. /\ n \in 1 .. Base(r) /\ Head(entered[r][k].todo) = Operation(Lead(r), n, j)
        /\ entered[r][k].op = Call(Head(entered[r][k].todo))
    BY <1>4, <1>5 DEF CallMade
  <1>7. /\ n \in 1 .. Base(s) /\ Head(entered[s][k].todo) = Operation(Lead(s), n, j)
        /\ entered[s][k].op = Call(Head(entered[s][k].todo))
    BY <1>3, <1>4, <1>5 DEF CallMade
  <1>8. Operation(Lead(r), n, j) = Operation(Lead(s), n, j)
    <2>1. Base(s) \in Nat
      BY <1>1, BaseIs DEF IInv, RankInv
    <2>2. n <= Base(s)
      BY <2>1, <1>7
    <2>. QED
      BY <2>2, <1>6, SameCall
  <1>. QED
    BY <1>2, <1>3, <1>4, <1>5, <1>6, <1>7, <1>8

\* What a call leaves in the buffers.
LEMMA WrittenIs ==
  ASSUME IInv, NEW r \in Rank, NEW op
  PROVE  /\ DOMAIN Written(r, op) = Block
         /\ \A b \in Block :
              /\ DOMAIN Written(r, op)[b] = Buffers
              /\ Written(r, op)[b].shared = data[b].shared
              /\ Written(r, op)[b].number =
                   IF op = "max" /\ b[1] = r THEN Max(Range(Matching(r))) ELSE data[b].number
              /\ b[1] # r => Written(r, op)[b] = data[b]
  <1>1. DOMAIN data = Block /\ \A b \in Block : DOMAIN data[b] = Buffers
    BY DEF IInv, Types
  <1>2. CASE op = "max"
    <2>1. PICK n : n = Max(Range(Matching(r)))
      OBVIOUS
    <2>2. Written(r, op) = [b \in Block |-> IF b[1] = r THEN [data[b] EXCEPT !.number = n] ELSE data[b]]
      BY <1>2, <2>1 DEF Written, Numbered
    <2>. QED
      BY <1>1, <1>2, <2>1, <2>2 DEF Buffers
  <1>3. CASE op = "minloc"
    <2>1. PICK v : Written(r, op) = [b \in Block |-> IF b[1] = r THEN [data[b] EXCEPT !.pair = v] ELSE data[b]]
      BY <1>3 DEF Written
    <2>. QED
      BY <1>1, <1>3, <2>1 DEF Buffers
  <1>4. CASE op = "concat" /\ r = 0
    <2>1. PICK x, v : Written(r, op) = [data EXCEPT ![<<0, x>>].rows = v]
      BY <1>4 DEF Written
    <2>2. <<0, x>>[1] = 0
      OBVIOUS
    <2>. QED
      BY <1>1, <1>4, <2>1, <2>2 DEF Buffers
  <1>5. CASE op = "scatter"
    <2>1. PICK v : Written(r, op) =
                     [b \in Block |-> IF b[1] = r THEN [data[b] EXCEPT !.row = v[Share(b)]] ELSE data[b]]
      BY <1>5 DEF Written
    <2>. QED
      BY <1>1, <1>5, <2>1 DEF Buffers
  <1>6. CASE op = "bcast"
    <2>1. PICK v : Written(r, op) = [b \in Block |-> IF b[1] = r THEN [data[b] EXCEPT !.object = v] ELSE data[b]]
      BY <1>6 DEF Written
    <2>. QED
      BY <1>1, <1>6, <2>1 DEF Buffers
  <1>7. CASE op \notin {"max", "minloc", "scatter", "bcast"} /\ ~(op = "concat" /\ r = 0)
    <2>1. Written(r, op) = data
      BY <1>7 DEF Written
    <2>. QED
      BY <1>1, <1>7, <2>1
  <1>. QED
    BY <1>2, <1>3, <1>4, <1>5, <1>6, <1>7

\* A number that is reduced over all ranks.
LEMMA ReductionIs ==
  ASSUME IInv, NEW r \in Rank, Leave(r), Head(todo[r]) \in {"max", "shared"}
  PROVE  /\ Base(r) \in Nat \ {0} /\ AllGave(Base(r))
         /\ Head(todo[r]) = "max" => Max(Range(Matching(r))) = GreatestNumber(Base(r))
         /\ Head(todo[r]) = "shared" => Max(Range(Matching(r))) = GreatestShared(Base(r))
  <1>1. PICK k, n : k = Len(entered[r]) /\ n = Base(r)
    OBVIOUS
  <1>2. Entered(r) /\ CanLeave(r) /\ Types
    BY DEF Leave, IInv
  <1>3. /\ k \in DOMAIN entered[r] /\ entered[r][k].todo = todo[r] /\ entered[r][k].stage = n
        /\ entered[r][k].op = "Allreduce" /\ CallMade(r, k)
    BY <1>1, <1>2, OpenIs DEF Call
  <1>4. \A s \in Rank : Len(entered[s]) >= k
    BY <1>1, <1>2, <1>3 DEF CanLeave
  <1>5. ASSUME NEW s \in Rank
        PROVE  /\ n \in 1 .. Base(s)
               /\ Head(todo[r]) = "max" =>
                    entered[s][k].data = Max({gave[c][n].data.number : c \in Blocks(s)})
               /\ Head(todo[r]) = "shared" => entered[s][k].data = gave[Lead(s)][n].data.shared
    <2>1. k <= Len(entered[s])
      <3>1. Len(entered[r]) \in Nat /\ Len(entered[s]) \in Nat
        BY <1>2, SeqIs DEF Types, EnteredOk
      <3>. QED
        BY <3>1, <1>1, <1>4
    <2>2. /\ NumberGiven(s, k) /\ entered[s][k].stage = n /\ n \in 1 .. Base(s)
          /\ Head(entered[s][k].todo) = Head(todo[r])
      BY <2>1, <1>3, MatchIs
    <2>. QED
      BY <2>2 DEF NumberGiven
  <1>6. n \in Nat \ {0} /\ AllGave(n)
    <2>1. n \in Nat \ {0}
      <3>1. n \in 1 .. Base(r) /\ Base(r) \in Nat
        BY <1>5, BaseIs DEF IInv, RankInv
      <3>. QED
        BY <3>1
    <2>2. ASSUME NEW c \in Block PROVE n <= Stages(c)
      <3>1. c[1] \in Rank /\ c \in Blocks(c[1])
        BY BlocksAre
      <3>2. Base(c[1]) <= Stages(c) /\ Base(c[1]) \in Nat /\ Stages(c) \in Nat /\ n \in 1 .. Base(c[1])
        BY <3>1, <1>2, <1>5, BaseIs DEF IInv, RankInv
      <3>. QED
        BY <3>2
    <2>. QED
      BY <2>1, <2>2 DEF AllGave
  <1>7. Range(Matching(r)) = {entered[s][k].data : s \in Rank}
    BY <1>1 DEF Matching, Range
  <1>8. CASE Head(todo[r]) = "max"
    <2>1. Range(Matching(r)) = {Max({gave[c][n].data.number : c \in Blocks(s)}) : s \in Rank}
      BY <1>5, <1>7, <1>8
    <2>. QED
      BY <2>1, <1>1, <1>2, <1>6, <1>8, GreatestOfRanks
  <1>9. CASE Head(todo[r]) = "shared"
    <2>1. Range(Matching(r)) = {gave[Lead(s)][n].data.shared : s \in Rank}
      BY <1>5, <1>7, <1>9
    <2>. QED
      BY <2>1, <1>1, <1>6, <1>9 DEF GreatestShared
  <1>. QED
    BY <1>1, <1>6, <1>8, <1>9

\* A rank leaves an MPI call.
LEMMA LeaveNext ==
  ASSUME IInv, NEW r \in Rank, Leave(r)
  PROVE  IInv'
  <1>1. Types /\ RankInv(r) /\ CallsInv(r)
    BY DEF IInv, RankInv
  <1>2. /\ Entered(r) /\ CanLeave(r)
        /\ data' = Written(r, Head(todo[r]))
        /\ sum' = IF Head(todo[r]) = "shared" THEN [sum EXCEPT ![r] = Max(Range(Matching(r)))] ELSE sum
        /\ entered' = [entered EXCEPT ![r][Len(entered[r])].open = FALSE]
        /\ todo' = [todo EXCEPT ![r] = Tail(@)]
        /\ UNCHANGED <<setup, pos, gave>> /\ UNCHANGED <<at, fields, order, sent, aborted>>
    BY DEF Leave
  <1>3. PICK k, n, j, op : /\ k = Len(entered[r]) /\ n = Base(r) /\ op = Head(todo[r])
                           /\ j = (IF at[r] = "write" THEN 0 ELSE Len(todo[r]))
    OBVIOUS
  <1>4. /\ at[r] \in {"serve", "write"} /\ todo[r] # <<>> /\ k \in DOMAIN entered[r] /\ n \in Nat
    BY <1>1, <1>2, <1>3, OpenIs, BaseIs DEF RankInv
  <1>5. op \in {"max", "shared"} =>
          /\ n \in Nat \ {0} /\ AllGave(n)
          /\ op = "max" => Max(Range(Matching(r))) = GreatestNumber(n)
          /\ op = "shared" => Max(Range(Matching(r))) = GreatestShared(n)
    BY <1>3, ReductionIs
  <1>6. op \in {"max", "shared"} => GreatestNumber(n) \in Nat /\ GreatestShared(n) \in Nat
    BY <1>1, <1>5, NumbersAre
  <1>7. /\ DOMAIN data' = Block
        /\ \A b \in Block :
             /\ DOMAIN data'[b] = Buffers /\ data'[b].shared = data[b].shared
             /\ data'[b].number = IF op = "max" /\ b[1] = r THEN GreatestNumber(n) ELSE data[b].number
             /\ b[1] # r => data'[b] = data[b]
    BY <1>2, <1>3, <1>5, WrittenIs
  <1>8. /\ sum' \in [Rank -> Nat] /\ \A q \in Rank \ {r} : sum'[q] = sum[q]
        /\ sum'[r] = IF op = "shared" THEN GreatestShared(n) ELSE sum[r]
    <2>1. sum \in [Rank -> Nat]
      BY <1>1 DEF Types
    <2>2. CASE op = "shared"
      <3>1. sum' = [sum EXCEPT ![r] = GreatestShared(n)] /\ GreatestShared(n) \in Nat
        BY <2>2, <1>2, <1>3, <1>5, <1>6
      <3>. QED
        BY <3>1, <2>1, <2>2
    <2>3. CASE op # "shared"
      BY <2>1, <2>3, <1>2, <1>3
    <2>. QED
      BY <2>2, <2>3
  <1>9. /\ DOMAIN entered' = Rank /\ EnteredOk(r)' /\ ~Entered(r)' /\ CallsKept(r)
        /\ \A q \in Rank \ {r} : entered'[q] = entered[q]
    <2>1. PICK e : e = [entered[r][k] EXCEPT !.open = FALSE]
      OBVIOUS
    <2>2. /\ DOMAIN entered = Rank /\ IsSeq(entered[r])
          /\ \A l \in DOMAIN entered[r] : DOMAIN entered[r][l] = CallFields
      BY <1>1 DEF Types, EnteredOk
    <2>3. entered' = [entered EXCEPT ![r] = [entered[r] EXCEPT ![k] = e]]
      BY <2>1, <2>2, <1>2, <1>3
    <2>4. entered'[r] = [entered[r] EXCEPT ![k] = e] /\ DOMAIN entered' = Rank
          /\ \A q \in Rank \ {r} : entered'[q] = entered[q]
      BY <2>2, <2>3
    <2>5. /\ DOMAIN e = CallFields /\ ~e.open
          /\ e.op = entered[r][k].op /\ e.data = entered[r][k].data
          /\ e.stage = entered[r][k].stage /\ e.todo = entered[r][k].todo
      BY <2>1, <2>2, <1>4 DEF CallFields
    <2>6. /\ IsSeq(entered'[r]) /\ Len(entered'[r]) = k /\ DOMAIN entered'[r] = DOMAIN entered[r]
          /\ \A l \in DOMAIN entered[r] : entered'[r][l] = IF l = k THEN e ELSE entered[r][l]
      <3>1. PICK s : s = entered[r]
        OBVIOUS
      <3>2. IsSeq(s) /\ k \in DOMAIN s
        BY <3>1, <2>2, <1>4
      <3>6. Len(s) = k
        BY <3>1, <2>2, <1>3, <1>4
      <3>3. PICK t : t = With(s, k, e)
        OBVIOUS
      <3>4. /\ IsSeq(t) /\ Len(t) = Len(s) /\ DOMAIN t = DOMAIN s
            /\ \A l \in DOMAIN s : t[l] = IF l = k THEN e ELSE s[l]
        BY <3>2, <3>3, Replaced
      <3>5. entered'[r] = t
        BY <3>1, <3>3, <2>4 DEF With
      <3>. QED
        BY <3>1, <3>2, <3>4, <3>5, <3>6
    <2>7. EnteredOk(r)'
      BY <2>2, <2>5, <2>6 DEF EnteredOk
    <2>8. ~Entered(r)'
      <3>1. entered'[r] # <<>> => Last(entered'[r]) = entered'[r][k]
        BY <2>6, SeqIs
      <3>. QED
        BY <3>1, <2>5, <2>6, <1>4 DEF Entered
    <2>9. CallsKept(r)
      BY <2>5, <2>6 DEF CallsKept
    <2>. QED
      BY <2>4, <2>7, <2>8, <2>9
  <1>10. /\ Types' /\ Elsewhere(r) /\ Grown /\ StagesInv' /\ ~aborted' /\ SameCalls'
         /\ Together(r)' /\ Placed(r)' /\ CallsInv(r)'
         /\ Ran(r) = {}
         /\ \A b \in Blocks(r), o \in {"max", "shared"} :
              /\ o # op => (Pends(b, o)' <=> Pends(b, o))
              /\ o = op => at[r] = "serve" /\ ~Pends(b, o)' /\ Pends(b, o)
    <2>1. \A b \in Block : data'[b].number \in Nat /\ data'[b].shared \in Nat
      BY <1>1, <1>6, <1>7 DEF Types
    <2>2. /\ \A b \in Block : /\ DOMAIN data'[b] = Buffers
                              /\ data'[b].number \in Nat /\ data'[b].shared \in Nat
                              /\ b[1] # r => data'[b] = data[b]
          /\ DOMAIN data' = Block
      BY <2>1, <1>7
    <2>4. Takes(r)
      BY <2>2, <1>2, <1>3, <1>4, <1>8, <1>9 DEF Takes
    <2>3. /\ Types' /\ Elsewhere(r) /\ Grown /\ StagesInv' /\ ~aborted' /\ SameCalls'
          /\ Together(r)' /\ Placed(r)' /\ CallsInv(r)'
          /\ Ran(r) = {}
          /\ \A b \in Blocks(r), o \in {"max", "shared"} :
               /\ o # Head(todo[r]) => (Pends(b, o)' <=> Pends(b, o))
               /\ o = Head(todo[r]) => at[r] = "serve" /\ ~Pends(b, o)' /\ Pends(b, o)
      BY <2>4, TakesNext
    <2>. QED
      BY <2>3, <1>3
  <1>11. \A b \in Blocks(r) : b \in Block /\ b[1] = r /\ Stages(b) = n /\ Stages(b)' = n /\ Made(b, n)' = Made(b, n)
    BY <1>2, <1>3, <1>10, BlocksAlike, BlocksAre DEF Stages, Made, setup
  <1>12. ASSUME NEW b \in Blocks(r) PROVE NumberNow(b)'
    <2>1. CASE op # "max"
      <3>1. data'[b].number = data[b].number /\ gave'[b] = gave[b] /\ (Pends(b, "max")' <=> Pends(b, "max"))
        BY <2>1, <1>2, <1>7, <1>10, <1>11
      <3>. QED
        BY <3>1, <1>1, <1>10, <1>11, NumberStays DEF RankInv
    <2>2. CASE op = "max"
      <3>1. ~Pends(b, "max")' /\ data'[b].number = GreatestNumber(n) /\ AllGave(n) /\ n # 0
        BY <2>2, <1>5, <1>7, <1>10, <1>11
      <3>2. AllGave(n)' /\ GreatestNumber(n)' = GreatestNumber(n)
        BY <3>1, <1>2, StagesStill DEF GreatestNumber, setup
      <3>3. Has(Made(b, n), "max")
        <4>1. at[r] = "serve" /\ Pends(b, "max")
          BY <2>2, <1>10
        <4>2. "max" \in Range(Operations(Asked(r))) /\ Made(b, n) = Asked(r)
          <5>1. /\ IsPlan(Operations(Asked(r))) /\ todo[r] \in Seq(Op) /\ IsRest(Operations(Asked(r)), todo[r])
            BY <4>1, Serving
          <5>2. Head(todo[r]) \in Range(Operations(Asked(r)))
            BY <5>1, <1>4, RestIs
          <5>. QED
            BY <5>2, <2>2, <1>3, <1>10, BlocksAlike
        <4>. QED
          BY <4>1, <4>2, Serving DEF Reduction
      <3>4. NumberAfter(b, n)' = GreatestNumber(n)'
        BY <3>1, <3>3, <1>11 DEF NumberAfter, Has
      <3>. QED
        BY <3>1, <3>2, <3>4, <1>11 DEF NumberNow
    <2>. QED
      BY <2>1, <2>2
  <1>13. SumNow(r)'
    <2>1. CASE op # "shared"
      <3>1. sum'[r] = sum[r] /\ gave'[Lead(r)] = gave[Lead(r)]
            /\ (Pends(Lead(r), "shared")' <=> Pends(Lead(r), "shared"))
        BY <2>1, <1>2, <1>8, <1>10, BlocksAre
      <3>. QED
        BY <3>1, <1>1, <1>10, SumStays DEF RankInv
    <2>2. CASE op = "shared"
      <3>1. PICK l \in Blocks(r) : l = Lead(r) /\ l = Lead(r)'
        BY BlocksAre DEF Lead
      <3>2. ~Pends(l, "shared")' /\ sum'[r] = GreatestShared(n) /\ AllGave(n) /\ n # 0
        BY <2>2, <3>1, <1>5, <1>8, <1>10
      <3>3. AllGave(n)' /\ GreatestShared(n)' = GreatestShared(n)
        BY <3>2, <1>2, StagesStill DEF GreatestShared, setup, Lead
      <3>4. Made(l, n).shared
        <4>1. at[r] = "serve"
          BY <2>2, <3>1, <1>10
        <4>2. "shared" \in Range(Operations(Asked(r))) /\ Made(l, n) = Asked(r)
          <5>1. /\ IsPlan(Operations(Asked(r))) /\ todo[r] \in Seq(Op) /\ IsRest(Operations(Asked(r)), todo[r])
            BY <4>1, Serving
          <5>2. Head(todo[r]) \in Range(Operations(Asked(r)))
            BY <5>1, <1>4, RestIs
          <5>. QED
            BY <5>2, <2>2, <3>1, <1>3, <1>10, BlocksAlike
        <4>. QED
          BY <4>1, <4>2, Serving
      <3>5. SumAfter(l, n)' = GreatestShared(n)'
        BY <3>1, <3>2, <3>4, <1>11 DEF SumAfter
      <3>. QED
        BY <3>1, <3>2, <3>3, <3>5, <1>11 DEF SumNow
    <2>. QED
      BY <2>1, <2>2
  <1>14. RankInv(r)'
    BY <1>10, <1>12, <1>13 DEF RankInv, Blocks
  <1>. QED
    BY <1>10, <1>14, RankStep

-----------------------------------------------------------------------------
(***************************************************************************)
(* The specification.                                                      *)
(***************************************************************************)
\* The invariant holds when the program starts: no stage has been run.
LEMMA InitIInv == Init => IInv
  <1>. SUFFICES ASSUME Init PROVE IInv
    OBVIOUS
  <1>1. /\ SetupChosen
        /\ at = [r \in Rank |-> "begin"] /\ fields = [r \in Rank |-> FALSE]
        /\ order = [r \in Rank |-> <<>>] /\ sent = [r \in Rank |-> 0] /\ todo = [r \in Rank |-> <<>>]
        /\ entered = [r \in Rank |-> <<>>] /\ sum = [r \in Rank |-> 0]
        /\ pos = [b \in Block |-> 1] /\ gave = [b \in Block |-> <<>>] /\ aborted = FALSE
    BY DEF Init, SetupChosen
  <1>2. /\ DOMAIN data = Block
        /\ \A b \in Block : DOMAIN data[b] = Buffers /\ data[b].number = 0 /\ data[b].shared = 0
    BY DEF Init, Buffers
  <1>3. DOMAIN <<>> = {} /\ Len(<<>>) = 0 /\ IsSeq(<<>>)
    BY NoneIsSeq
  <1>4. 1 \in DOMAIN kernel /\ Len(kernel) \in Nat \ {0}
    BY <1>1, KernelIs
  <1>5. \A b \in Block : Stages(b) = 0 /\ gave[b] = <<>> /\ pos[b] = 1
    BY <1>1, <1>3 DEF Stages
  <1>6. Types
    <2>1. at \in [Rank -> Places] /\ fields \in [Rank -> BOOLEAN] /\ sent \in [Rank -> Nat]
          /\ sum \in [Rank -> Nat]
      BY <1>1 DEF Places
    <2>2. /\ order \in [Rank -> Seq(Local)] /\ \A r \in Rank : IsInjective(order[r])
      BY <1>1, <1>3 DEF IsInjective
    <2>3. todo \in [Rank -> Seq(Op \cup {"dump"})]
      BY <1>1
    <2>4. DOMAIN entered = Rank /\ \A r \in Rank : EnteredOk(r)
      BY <1>1, <1>3 DEF EnteredOk
    <2>5. pos \in [Block -> Nat] /\ \A b \in Block : pos[b] \in 1 .. Len(kernel) + 1
      BY <1>1, <1>4
    <2>6. DOMAIN gave = Block /\ \A b \in Block : GaveOk(b)
      BY <1>1, <1>3, <1>5 DEF GaveOk
    <2>. QED
      BY <2>1, <2>2, <2>3, <2>4, <2>5, <2>6, <1>1, <1>2 DEF Types
  <1>7. StagesInv
    <2>1. \A b \in Block : PosAfter(b, 0) = 1
      BY <1>5 DEF PosAfter
    <2>2. \A b \in Block : \A k \in 0 .. Stages(b) : k = 0
      BY <1>5
    <2>3. SameStages
      BY <2>1, <2>2 DEF SameStages
    <2>4. \A b \in Block : \A k : k \notin 1 .. Stages(b)
      BY <1>5
    <2>. QED
      BY <2>3, <2>4 DEF StagesInv, SameFound, Decided, Found
  <1>8. ASSUME NEW r \in Rank PROVE RankInv(r)
    <2>1. /\ at[r] = "begin" /\ todo[r] = <<>> /\ entered[r] = <<>> /\ sum[r] = 0
      BY <1>1
    <2>2. Ran(r) = {}
      BY <2>1 DEF Ran
    <2>3. \A b \in Blocks(r) : b \in Block /\ Stages(b) = 0 /\ Made(b, 0) = Nothing
      BY <1>5, BlocksAre DEF Made
    <2>4. Lead(r) \in Blocks(r) /\ Base(r) = 0
      BY <2>2, <2>3, BlocksAre DEF Base
    <2>5. Together(r)
      BY <2>2, <2>3, <2>4 DEF Together
    <2>6. Placed(r)
      <3>1. PosAfter(Lead(r), Base(r)) = 1
        BY <2>3, <2>4, <1>5 DEF PosAfter
      <3>. QED
        BY <3>1, <2>1, <1>4 DEF Placed
    <2>7. \A b \in Blocks(r) : ~Has(Made(b, 0), "max") /\ ~Made(b, 0).shared
      BY <2>3, NothingIs DEF Reduction
    <2>8. \A b \in Blocks(r) : NumberNow(b)
      BY <2>3, <2>7, <1>2 DEF NumberNow, NumberAfter
    <2>9. SumNow(r)
      BY <2>1, <2>3, <2>4, <2>7 DEF SumNow, SumAfter
    <2>10. CallsInv(r)
      <3>1. ~Entered(r) /\ DOMAIN entered[r] = {}
        BY <2>1, <1>3 DEF Entered
      <3>2. ASSUME NEW n \in 0 .. Base(r), NEW j \in Nat PROVE ~IsCall(Lead(r), n, j)
        <4>1. n = 0 /\ Made(Lead(r), n) = Nothing
          BY <2>3, <2>4
        <4>2. Operations(Made(Lead(r), n)) = <<>> /\ ~Made(Lead(r), n).dump
          BY <4>1, NothingIs
        <4>. QED
          BY <4>2, <1>3 DEF IsCall
      <3>. QED
        BY <3>1, <3>2 DEF CallsInv, CallsInOrder, NoCallMissed, OpenCall
    <2>. QED
      BY <2>5, <2>6, <2>8, <2>9, <2>10 DEF RankInv
  <1>9. SameCalls
    BY <1>1, <1>3 DEF SameCalls
  <1>. QED
    BY <1>1, <1>6, <1>7, <1>8, <1>9 DEF IInv

\* The invariant holds after a step in which nothing changes.
LEMMA StutterIInv == IInv /\ UNCHANGED vars => IInv'
  <1>. SUFFICES ASSUME IInv, UNCHANGED vars PROVE IInv'
    OBVIOUS
  <1>1. /\ kernel' = kernel /\ early' = early /\ late' = late /\ at' = at /\ fields' = fields
        /\ order' = order /\ sent' = sent /\ todo' = todo /\ entered' = entered /\ sum' = sum
        /\ pos' = pos /\ data' = data /\ gave' = gave /\ aborted' = aborted
    BY DEF vars, setup, runvars, blockvars
  <1>2. Types'
    BY <1>1 DEF IInv, Types, SetupChosen, EnteredOk, GaveOk, Stages
  <1>3. StagesInv'
    BY <1>1, StagesInvStill DEF IInv
  <1>4. Grown
    BY <1>1, StillGrows DEF IInv, setup, blockvars
  <1>5. ASSUME NEW r \in Rank PROVE RankInv(r)'
    <2>1. Types /\ RankInv(r)
      BY DEF IInv
    <2>2. /\ \A b \in Block : \A op : Pends(b, op)' = Pends(b, op)
          /\ Together(r)' /\ Placed(r)' /\ OpenCall(r)' /\ ToGo(r)' = ToGo(r) /\ Base(r)' = Base(r)
      <3>1. \A b, m : Stages(b)' = Stages(b) /\ Made(b, m)' = Made(b, m) /\ PosAfter(b, m)' = PosAfter(b, m)
        BY <1>1 DEF Stages, Made, PosAfter
      <3>2. \A q : Ran(q)' = Ran(q)
        BY <1>1 DEF Ran, Blocks
      <3>3. Base(r)' = Base(r) /\ Asked(r)' = Asked(r)
        BY <3>1, <3>2 DEF Base, Asked, Lead
      <3>4. \A b \in Block : \A op : Pends(b, op)' = Pends(b, op)
        BY <3>2, <1>1 DEF Pends
      <3>5. Together(r)'
        BY <2>1, <3>1, <3>2, <3>3 DEF RankInv, Together, Blocks
      <3>6. /\ PosAfter(Lead(r), Base(r))' = PosAfter(Lead(r), Base(r))
            /\ Made(Lead(r), Base(r) - 1)' = Made(Lead(r), Base(r) - 1) /\ Inner(r)' = Inner(r)
        BY <3>1, <3>3, <1>1 DEF Lead, Inner, All
      <3>7. Placed(r)'
        BY <2>1, <3>3, <3>6, <1>1 DEF RankInv, Placed, All
      <3>8. OpenCall(r)' /\ Entered(r)' = Entered(r)
        BY <2>1, <3>3, <1>1 DEF RankInv, CallsInv, OpenCall, Entered
      <3>9. ToGo(r)' = ToGo(r)
        BY <3>3, <3>8, <1>1 DEF ToGo
      <3>. QED
        BY <3>3, <3>4, <3>5, <3>7, <3>8, <3>9
    <2>3. SumNow(r)' /\ \A b \in Blocks(r) : NumberNow(b)'
      BY <2>1, <2>2, <1>1, <1>4, NumberStays, SumStays, BlocksAre DEF RankInv
    <2>4. CallsInv(r)'
      <3>1. \A m, i : Passed(r, m, i)' = Passed(r, m, i)
        BY <2>2 DEF Passed
      <3>2. Base(r) \in Nat
        BY <2>1, BaseIs DEF RankInv
      <3>3. Base(r)' \in Nat /\ Base(r) <= Base(r)' /\ \A m \in 0 .. Base(r)' : ~(m > Base(r))
        BY <2>2, <3>2
      <3>4. entered'[r] = entered[r] /\ Together(r) /\ CallsInv(r) /\ OpenCall(r)'
        BY <2>1, <2>2, <1>1 DEF RankInv
      <3>. QED
        BY <2>1, <1>4, <3>1, <3>3, <3>4, CallsStay
    <2>. QED
      BY <2>2, <2>3, <2>4 DEF RankInv, Blocks
  <1>6. SameCalls'
    BY <1>1 DEF IInv, SameCalls, Left
  <1>. QED
    BY <1>1, <1>2, <1>3, <1>5, <1>6 DEF IInv, Rank

\* Every step keeps the invariant.
LEMMA NextIInv == IInv /\ [Next]_vars => IInv'
  <1>. SUFFICES ASSUME IInv, [Next]_vars PROVE IInv'
    OBVIOUS
  <1>1. CASE UNCHANGED vars
    BY <1>1, StutterIInv
  <1>2. CASE Halted
    BY <1>2, StutterIInv DEF Halted
  <1>3. ASSUME NEW r \in Rank, Step(r) PROVE IInv'
    <2>1. CASE Begin(r)
      BY <2>1, BeginNext
    <2>2. CASE Sync(r)
      BY <2>2, SyncNext
    <2>3. CASE RunAll(r)
      BY <2>3, RunAllNext
    <2>4. CASE RunInner(r)
      BY <2>4, RunInnerNext
    <2>5. CASE RunHalo(r)
      BY <2>5, RunHaloNext
    <2>6. CASE Collect(r)
      BY <2>6, CollectNext
    <2>7. CASE Enter(r)
      BY <2>7, EnterNext
    <2>8. CASE Leave(r)
      BY <2>8, LeaveNext
    <2>9. CASE WithinRank(r)
      BY <2>9, WithinRankNext
    <2>10. CASE Repeat(r)
      BY <2>10, RepeatNext
    <2>. QED
      BY <1>3, <2>1, <2>2, <2>3, <2>4, <2>5, <2>6, <2>7, <2>8, <2>9, <2>10 DEF Step
  <1>. QED
    BY <1>1, <1>2, <1>3 DEF Next

\* The invariant says what the runs check.
LEMMA IInvTypeOK == IInv => TypeOK
  <1>. SUFFICES ASSUME IInv PROVE TypeOK
    OBVIOUS
  <1>1. Types
    BY DEF IInv
  <1>2. \A b \in Block : DOMAIN gave[b] = 1 .. Stages(b)
    BY <1>1, GaveIs
  <1>3. pos \in [Block -> 1 .. Len(kernel) + 1]
    BY <1>1 DEF Types
  <1>. QED
    BY <1>1, <1>2, <1>3 DEF Types, TypeOK, GaveOk

\* Calls with equal places and stages are the same call.
LEMMA IInvInStep == IInv => InStep
  <1>. SUFFICES ASSUME IInv PROVE InStep
    OBVIOUS
  <1>1. Types /\ SameStages /\ ~aborted
    BY DEF IInv, StagesInv
  <1>2. ASSUME NEW r \in Rank, NEW s \in Rank, NEW k \in DOMAIN entered[r] \cap DOMAIN entered[s]
        PROVE  entered[r][k].op = entered[s][k].op
    <2>1. k <= Len(entered[s])
      BY <1>1, SeqIs DEF Types, EnteredOk
    <2>. QED
      BY <2>1, MatchIs
  <1>3. ASSUME NEW b \in Block, NEW c \in Block, NEW k \in DOMAIN gave[b] \cap DOMAIN gave[c]
        PROVE  gave[b][k].stage = gave[c][k].stage
    <2>1. /\ Stages(b) \in Nat /\ Stages(c) \in Nat /\ k \in 1 .. Stages(b) /\ k \in 1 .. Stages(c)
      BY <1>1, GaveIs
    <2>2. PICK m : m = k - 1
      OBVIOUS
    <2>3. m \in 0 .. Stages(b) /\ m <= Stages(c) /\ m < Stages(b) /\ m < Stages(c) /\ m + 1 = k
      BY <2>1, <2>2
    <2>4. PosAfter(b, m) = PosAfter(c, m)
      BY <2>3, <1>1 DEF SameStages
    <2>. QED
      BY <2>3, <2>4 DEF PosAfter
  <1>. QED
    BY <1>1, <1>2, <1>3 DEF InStep

\* The inductive invariant holds in every behaviour.
THEOREM Invariance == Spec => []IInv
  <1>. QED
    BY InitIInv, NextIInv, PTL DEF Spec

\* For all kernels, backends and numbers of ranks and blocks, variables keep their types:
\* no block runs a stage that is not there, and no block is twice in bb.
THEOREM TypeCorrect == Spec => []TypeOK
  <1>. QED
    BY Invariance, IInvTypeOK, PTL

\* For all kernels, backends and numbers of ranks and blocks, the ranks make the same MPI
\* calls in the same order, blocks run the same stages, and no fassert of Run fails, though
\* each block decides alone when its loop ends and ranks may be several stages apart.
THEOREM RanksInStep == Spec => []InStep
  <1>. QED
    BY Invariance, IInvInStep, PTL
-----------------------------------------------------------------------------
(***************************************************************************)
(* Sequences that are put in a row.                                        *)
(***************************************************************************)
\* What FlattenSeq computes, step by step.
Joins(f, seqs, n) == f = [i \in 1 .. n |-> IF i = 1 THEN seqs[i] ELSE f[i - 1] \o seqs[i]]

\* There is such a function.
LEMMA JoinExists ==
  ASSUME NEW T, NEW m \in Nat \ {0}, NEW seqs \in [1 .. m -> Seq(T)]
  PROVE  \E f : Joins(f, seqs, m)
  <1> DEFINE Good == {n \in 0 .. m : \E f : Joins(f, seqs, n)}
  <1>1. 0 \in Good
    <2>1. Joins([i \in 1 .. 0 |-> 0], seqs, 0)
      BY DEF Joins
    <2>. QED
      BY <2>1
  <1>2. ASSUME NEW n \in 1 .. m, n - 1 \in Good PROVE n \in Good
    <2>1. PICK f : Joins(f, seqs, n - 1)
      BY <1>2
    <2> DEFINE g == [i \in 1 .. n |->
                       IF i = n THEN IF i = 1 THEN seqs[i] ELSE f[i - 1] \o seqs[i] ELSE f[i]]
    <2>2. \A i \in 1 .. n - 1 : f[i] = IF i = 1 THEN seqs[i] ELSE f[i - 1] \o seqs[i]
      BY <2>1 DEF Joins
    <2>3. \A i \in 1 .. n : g[i] = IF i = 1 THEN seqs[i] ELSE g[i - 1] \o seqs[i]
      <3>. SUFFICES ASSUME NEW i \in 1 .. n
           PROVE  g[i] = IF i = 1 THEN seqs[i] ELSE g[i - 1] \o seqs[i]
        OBVIOUS
      <3>1. i # 1 => i - 1 \in 1 .. n /\ i - 1 # n /\ g[i - 1] = f[i - 1]
        OBVIOUS
      <3>2. CASE i = n
        BY <3>1, <3>2
      <3>3. CASE i # n
        BY <3>1, <3>3, <2>2
      <3>. QED
        BY <3>2, <3>3
    <2>4. Joins(g, seqs, n)
      <3>1. g = [i \in 1 .. n |-> g[i]]
        OBVIOUS
      <3>. HIDE DEF g
      <3>2. [i \in 1 .. n |-> g[i]] = [i \in 1 .. n |-> IF i = 1 THEN seqs[i] ELSE g[i - 1] \o seqs[i]]
        BY <2>3
      <3>. QED
        BY <3>1, <3>2 DEF Joins
    <2>. QED
      BY <2>4
  <1>3. m \in Good
    <2>. HIDE DEF Good
    <2>1. \A n \in 0 .. m : n \in Good
      BY <1>1, <1>2, IntervalInduction
    <2>. QED
      BY <2>1
  <1>. QED
    BY <1>3

\* A sequence that is joined to another.
LEMMA JoinedIs ==
  ASSUME NEW T, NEW s \in Seq(T), NEW t \in Seq(T)
  PROVE  /\ s \o t \in Seq(T) /\ Len(s \o t) = Len(s) + Len(t)
         /\ \A x \in 1 .. Len(s) : (s \o t)[x] = s[x]
         /\ \A j \in 1 .. Len(t) : (s \o t)[Len(s) + j] = t[j]
  OBVIOUS

\* Sequences of one length, one after the other.
IsFlat(flat, seqs, T, m, w) ==
  /\ flat \in Seq(T) /\ Len(flat) = m * w
  /\ \A i \in 1 .. m, j \in 1 .. w : flat[(i - 1) * w + j] = seqs[i][j]

\* FlattenSeq makes one of them.
LEMMA FlattenIs ==
  ASSUME NEW T, NEW m \in Nat \ {0}, NEW w \in Nat, NEW seqs \in [1 .. m -> Seq(T)],
         \A i \in 1 .. m : Len(seqs[i]) = w
  PROVE  IsFlat(FlattenSeq(seqs), seqs, T, m, w)
  <1> DEFINE F == CHOOSE f : Joins(f, seqs, m)
             Good == {n \in 0 .. m : n # 0 =>
                        /\ F[n] \in Seq(T) /\ Len(F[n]) = n * w
                        /\ \A i \in 1 .. n, j \in 1 .. w : F[n][(i - 1) * w + j] = seqs[i][j]}
  <1>1. Joins(F, seqs, m)
    BY JoinExists
  <1>2. Len(seqs) = m
    OBVIOUS
  <1>3. FlattenSeq(seqs) = F[m]
    BY <1>2 DEF FlattenSeq, Joins
  <1>. HIDE DEF F
  <1>4. ASSUME NEW n \in 1 .. m PROVE F[n] = IF n = 1 THEN seqs[n] ELSE F[n - 1] \o seqs[n]
    BY <1>1 DEF Joins
  <1>5. 0 \in Good
    OBVIOUS
  <1>6. ASSUME NEW n \in 1 .. m, n - 1 \in Good PROVE n \in Good
    <2>1. seqs[n] \in Seq(T) /\ Len(seqs[n]) = w
      OBVIOUS
    <2>2. CASE n = 1
      <3>1. F[n] = seqs[n] /\ n * w = w /\ \A i \in 1 .. n, j \in 1 .. w : i = 1 /\ (i - 1) * w + j = j
        BY <2>2, <1>4
      <3>2. \A i \in 1 .. n, j \in 1 .. w : F[n][(i - 1) * w + j] = seqs[i][j]
        BY <3>1, <2>2
      <3>3. F[n] \in Seq(T) /\ Len(F[n]) = n * w
        BY <3>1, <2>1
      <3>. QED
        BY <3>2, <3>3
    <2>3. CASE n # 1
      <3>1. /\ F[n - 1] \in Seq(T) /\ Len(F[n - 1]) = (n - 1) * w
            /\ \A i \in 1 .. n - 1, j \in 1 .. w : F[n - 1][(i - 1) * w + j] = seqs[i][j]
        BY <1>6, <2>3
      <3>2. F[n] = F[n - 1] \o seqs[n]
        BY <1>4, <2>3
      <3>3. /\ F[n] \in Seq(T) /\ Len(F[n]) = (n - 1) * w + w
            /\ \A x \in 1 .. (n - 1) * w : F[n][x] = F[n - 1][x]
            /\ \A j \in 1 .. w : F[n][(n - 1) * w + j] = seqs[n][j]
        <4> DEFINE b == F[n - 1] \o seqs[n]
        <4>1. /\ b \in Seq(T) /\ Len(b) = Len(F[n - 1]) + Len(seqs[n])
              /\ \A x \in 1 .. Len(F[n - 1]) : b[x] = F[n - 1][x]
              /\ \A j \in 1 .. Len(seqs[n]) : b[Len(F[n - 1]) + j] = seqs[n][j]
          <5>1. F[n - 1] \in Seq(T) /\ seqs[n] \in Seq(T)
            BY <3>1, <2>1
          <5>. QED
            BY <5>1, JoinedIs
        <4>2. b = F[n]
          BY <3>2
        <4>. HIDE DEF b
        <4>. QED
          BY <4>1, <4>2, <3>1, <2>1, Zenon
      <3>4. (n - 1) * w + w = n * w
        OBVIOUS
      <3>5. ASSUME NEW i \in 1 .. n - 1, NEW j \in 1 .. w PROVE F[n][(i - 1) * w + j] = seqs[i][j]
        <4>1. (i - 1) * w + j \in 1 .. (n - 1) * w
          <5>1. (i - 1) * w + w = i * w /\ i * w <= (n - 1) * w /\ (i - 1) * w \in Nat
            OBVIOUS
          <5>2. (n - 1) * w \in Nat /\ i * w \in Nat
            OBVIOUS
          <5> DEFINE a == (i - 1) * w
                     b == i * w
                     c == (n - 1) * w
          <5>3. a + w = b /\ b <= c /\ a \in Nat /\ b \in Nat /\ c \in Nat
            BY <5>1, <5>2
          <5>. HIDE DEF a, b, c
          <5>4. a + j \in 1 .. c
            BY <5>3
          <5>. QED
            BY <5>4 DEF a, c
        <4>. QED
          BY <4>1, <3>1, <3>3
      <3>6. \A i \in 1 .. n : i \in 1 .. n - 1 \/ i = n
        OBVIOUS
      <3>7. \A i \in 1 .. n, j \in 1 .. w : F[n][(i - 1) * w + j] = seqs[i][j]
        BY <3>3, <3>5, <3>6
      <3>8. Len(F[n]) = n * w
        BY <3>3, <3>4
      <3>. QED
        BY <3>3, <3>7, <3>8
    <2>. QED
      BY <2>2, <2>3
  <1>7. m \in Good
    <2>. HIDE DEF Good
    <2>1. \A n \in 0 .. m : n \in Good
      BY <1>5, <1>6, IntervalInduction
    <2>. QED
      BY <2>1
  <1>8. /\ F[m] \in Seq(T) /\ Len(F[m]) = m * w
        /\ \A i \in 1 .. m, j \in 1 .. w : F[m][(i - 1) * w + j] = seqs[i][j]
    BY <1>7
  <1>. QED
    BY <1>3, <1>8 DEF IsFlat

-----------------------------------------------------------------------------
(***************************************************************************)
(* What has been given and received.                                       *)
(***************************************************************************)
\* A block gives one vector to a gather, with its id and the stages before.
Row(b, n) == <<Id[b], n - 1>>
Rows == Nat \X Nat

\* The vectors of the blocks of a rank in the natural order, or of all blocks.
Place(b) == b[1] * nblocks + b[2] + 1
IsRankRows(rows, r, n) ==
  rows \in Seq(Rows) /\ Len(rows) = nblocks /\ \A i \in Local : rows[i + 1] = Row(<<r, i>>, n)
IsAllRows(rows, n) ==
  rows \in Seq(Rows) /\ Len(rows) = nranks * nblocks /\ \A b \in Block : rows[Place(b)] = Row(b, n)

GaveRight(b) ==
  \A k \in 1 .. Stages(b) :
    LET s == Made(b, k)
        g == gave[b][k].data
    IN /\ Has(s, "concat") => g.rows = <<Row(b, k)>>
       /\ s.tolead => g.list = <<Row(b, k)>>
       /\ Has(s, "minloc") => g.pair \in Nat \X Nat

\* The data of a call are from the stage it belongs to.
EntryRight(r, k) ==
  LET e == entered[r][k]
      op == Head(e.todo)
  IN /\ op = "minloc" =>
          \E c \in Blocks(r) :
            /\ e.data = gave[c][e.stage].data.pair
            /\ \A d \in Blocks(r) : e.data[1] <= gave[d][e.stage].data.pair[1]
     /\ op = "concat" => IsRankRows(e.data, r, e.stage)
     /\ op = "scatter" /\ r = 0 =>
          \A b \in Block : e.data[Place(b)][1] = Id[b]
     /\ op = "bcast" /\ r = 0 => e.data = gave[Root][e.stage].data.object

\* All ranks have made their call number k, for the pairs of stage n.
PairsMeet(k, n) ==
  \A q \in Rank : /\ k \in DOMAIN entered[q] /\ entered[q][k].stage = n
                  /\ Head(entered[q][k].todo) = "minloc"
LeastOf(k) == LeastPair({entered[q][k].data : q \in Rank})

\* The buffers of a block, before and after the operations of its last stage.
PairNow(b) ==
  LET n == Stages(b) IN
  Has(Made(b, n), "minloc") =>
    IF Pends(b, "minloc") THEN data[b].pair = gave[b][n].data.pair
    ELSE \E k \in DOMAIN entered[b[1]] : PairsMeet(k, n) /\ data[b].pair = LeastOf(k)

ObjectNow(b) ==
  LET n == Stages(b)
      s == Made(b, n)
  IN /\ s.bcast /\ Pends(b, "bcast") => data[b].object = gave[b][n].data.object
     /\ s.bcast /\ ~s.fromlead /\ ~Pends(b, "bcast") =>
          n <= Stages(Root) /\ data[b].object = gave[Root][n].data.object
     /\ s.fromlead /\ ~s.bcast =>
          IF Pends(b, "fromlead") THEN data[b].object = gave[b][n].data.object
          ELSE n <= Stages(Lead(b[1])) /\ data[b].object = gave[Lead(b[1])][n].data.object

ListNow(b) ==
  LET n == Stages(b) IN
  Made(b, n).tolead =>
    IF Pends(b, "tolead") THEN data[b].list = gave[b][n].data.list
    ELSE b = Lead(b[1]) => IsRankRows(data[b].list, b[1], n)

\* The root scatters what it has gathered in this stage, or in the one before.
RowsNow(b) ==
  LET n == Stages(b)
      s == Made(b, n)
  IN /\ Has(s, "concat") =>
          IF Pends(b, "concat") THEN data[b].rows = gave[b][n].data.rows
          ELSE b = Root => AllGave(n) /\ IsAllRows(data[b].rows, n)
     /\ s.scatter /\ ~Has(s, "concat") /\ b = Root => IsAllRows(data[b].rows, n - 1)

RowNow(b) ==
  Made(b, Stages(b)).scatter /\ ~Pends(b, "scatter") => data[b].row[1] = Id[b]

BuffersInv(b) == GaveRight(b) /\ PairNow(b) /\ ObjectNow(b) /\ ListNow(b) /\ RowsNow(b) /\ RowNow(b)

\* Blocks begin with the first stage, which scatters nothing.
Started == \A b \in Block : PosAfter(b, 0) = 1

RInv ==
  /\ Started
  /\ \A b \in Block : BuffersInv(b)
  /\ \A r \in Rank : \A k \in DOMAIN entered[r] : EntryRight(r, k)

-----------------------------------------------------------------------------
(***************************************************************************)
(* Buffers and calls that stay as they are.                                *)
(***************************************************************************)
LEMMA NoRequests ==
  /\ ~Nothing.tolead /\ ~Nothing.bcast /\ ~Nothing.fromlead /\ ~Nothing.scatter
  /\ ~Has(Nothing, "minloc") /\ ~Has(Nothing, "concat")
  BY NothingIs DEF Nothing, Reduction

EntriesKept(q) ==
  \A k \in DOMAIN entered[q] :
    /\ k \in DOMAIN entered'[q]
    /\ entered'[q][k].stage = entered[q][k].stage /\ entered'[q][k].data = entered[q][k].data
    /\ entered'[q][k].todo = entered[q][k].todo

\* What a block gave in its last stage, after a step in which it runs none.
LEMMA LastStays ==
  ASSUME Types, Grown, NEW b \in Block, Stages(b)' = Stages(b), NEW n, n = Stages(b)
  PROVE  /\ n \in Nat /\ Made(b, n)' = Made(b, n)
         /\ n = 0 => Made(b, n) = Nothing
         /\ n # 0 => gave'[b][n] = gave[b][n]
         /\ \A c \in Block : n # 0 /\ n <= Stages(c) =>
             n <= Stages(c)' /\ gave'[c][n] = gave[c][n]
  <1>1. n \in Nat /\ n \in 0 .. Stages(b) /\ \A c \in Block : Stages(c) \in Nat
    BY GaveIs
  <1>2. Made(b, n)' = Made(b, n)
    BY <1>1, StagesStay
  <1>. QED
    BY <1>1, <1>2 DEF Made, Grown

\* A block that runs no stage gave what it gave.
LEMMA GaveRightStays ==
  ASSUME Types, Grown, NEW b \in Block, Stages(b)' = Stages(b), GaveRight(b)
  PROVE  GaveRight(b)'
  <1>. SUFFICES ASSUME NEW k \in 1 .. Stages(b)
       PROVE  LET s == Made(b, k)
                  g == gave[b][k].data
              IN (/\ Has(s, "concat") => g.rows = <<Row(b, k)>>
                  /\ s.tolead => g.list = <<Row(b, k)>>
                  /\ Has(s, "minloc") => g.pair \in Nat \X Nat)'
    BY DEF GaveRight
  <1>1. gave'[b][k] = gave[b][k] /\ Made(b, k)' = Made(b, k)
    BY StagesStay DEF Grown
  <1>. QED
    BY <1>1 DEF GaveRight, Has, Row

\* The pair of a block.
LEMMA PairStays ==
  ASSUME Types, Grown, \A q \in Rank : EntriesKept(q), NEW b \in Block, Stages(b)' = Stages(b),
         data'[b].pair = data[b].pair, PairNow(b),
         Has(Made(b, Stages(b)), "minloc") => (Pends(b, "minloc")' <=> Pends(b, "minloc"))
  PROVE  PairNow(b)'
  <1>1. PICK n : n = Stages(b)
    OBVIOUS
  <1>2. /\ Made(b, n)' = Made(b, n)
        /\ n = 0 => Made(b, n) = Nothing
        /\ n # 0 => gave'[b][n] = gave[b][n]
    BY <1>1, LastStays
  <1>3. CASE ~Has(Made(b, n), "minloc")
    BY <1>1, <1>2, <1>3 DEF PairNow, Has
  <1>4. CASE Has(Made(b, n), "minloc") /\ Pends(b, "minloc")
    <2>1. n # 0
      BY <1>2, <1>4, NoRequests, Zenon
    <2>. QED
      BY <2>1, <1>1, <1>2, <1>4 DEF PairNow
  <1>5. CASE Has(Made(b, n), "minloc") /\ ~Pends(b, "minloc")
    <2>1. PICK k \in DOMAIN entered[b[1]] : PairsMeet(k, n) /\ data[b].pair = LeastOf(k)
      BY <1>1, <1>5 DEF PairNow
    <2>2. /\ \A q \in Rank : /\ k \in DOMAIN entered'[q]
                             /\ entered'[q][k].stage = entered[q][k].stage
                             /\ entered'[q][k].data = entered[q][k].data
                             /\ entered'[q][k].todo = entered[q][k].todo
          /\ b[1] \in Rank
      BY <2>1, BlocksAre DEF EntriesKept, PairsMeet
    <2>3. PairsMeet(k, n)'
      BY <2>1, <2>2 DEF PairsMeet
    <2>4. LeastOf(k)' = LeastOf(k)
      <3>1. {entered'[q][k].data : q \in Rank} = {entered[q][k].data : q \in Rank}
        BY <2>2
      <3>2. LeastOf(k)' = LeastPair({entered'[q][k].data : q \in Rank})
        BY DEF LeastOf, LeastPair, Rank
      <3>. QED
        BY <3>1, <3>2 DEF LeastOf
    <2>. QED
      BY <2>1, <2>2, <2>3, <2>4, <1>1, <1>5 DEF PairNow
  <1>. QED
    BY <1>3, <1>4, <1>5

\* The object of a block.
LEMMA ObjectStays ==
  ASSUME Types, Grown, NEW b \in Block, Stages(b)' = Stages(b),
         data'[b].object = data[b].object, ObjectNow(b),
         Made(b, Stages(b)).bcast => (Pends(b, "bcast")' <=> Pends(b, "bcast")),
         Made(b, Stages(b)).fromlead => (Pends(b, "fromlead")' <=> Pends(b, "fromlead"))
  PROVE  ObjectNow(b)'
  <1>1. PICK n, s : n = Stages(b) /\ s = Made(b, n)
    OBVIOUS
  <1>2. /\ Made(b, n)' = s
        /\ n = 0 => s = Nothing
        /\ n # 0 => gave'[b][n] = gave[b][n]
        /\ \A c \in Block : n # 0 /\ n <= Stages(c) =>
             n <= Stages(c)' /\ gave'[c][n] = gave[c][n]
    BY <1>1, LastStays
  <1>3. (s.bcast => n # 0) /\ (s.fromlead => n # 0)
    BY <1>2, NoRequests, Zenon
  <1>4. Root \in Block /\ Lead(b[1]) \in Block /\ Lead(b[1])' = Lead(b[1]) /\ Root' = Root
    BY BlocksAre DEF Lead, Root
  <1>5. Stages(b)' = n /\ Made(b, Stages(b))' = s
    BY <1>1, <1>2
  <1>6. s.bcast /\ Pends(b, "bcast")' => data'[b].object = gave'[b][n].data.object
    BY <1>1, <1>2, <1>3 DEF ObjectNow
  <1>7. s.bcast /\ ~s.fromlead /\ ~Pends(b, "bcast")' =>
          n <= Stages(Root)' /\ data'[b].object = gave'[Root][n].data.object
    BY <1>1, <1>2, <1>3, <1>4 DEF ObjectNow
  <1>8. s.fromlead /\ ~s.bcast /\ Pends(b, "fromlead")' => data'[b].object = gave'[b][n].data.object
    BY <1>1, <1>2, <1>3 DEF ObjectNow
  <1>9. s.fromlead /\ ~s.bcast /\ ~Pends(b, "fromlead")' =>
          n <= Stages(Lead(b[1]))' /\ data'[b].object = gave'[Lead(b[1])][n].data.object
    BY <1>1, <1>2, <1>3, <1>4 DEF ObjectNow
  <1>. QED
    BY <1>4, <1>5, <1>6, <1>7, <1>8, <1>9, Zenon DEF ObjectNow

\* The list of a block.
LEMMA ListStays ==
  ASSUME Types, Grown, NEW b \in Block, Stages(b)' = Stages(b),
         data'[b].list = data[b].list, ListNow(b),
         Made(b, Stages(b)).tolead => (Pends(b, "tolead")' <=> Pends(b, "tolead"))
  PROVE  ListNow(b)'
  <1>1. PICK n, s : n = Stages(b) /\ s = Made(b, n)
    OBVIOUS
  <1>2. Made(b, n)' = s /\ (n = 0 => s = Nothing) /\ (n # 0 => gave'[b][n] = gave[b][n])
    BY <1>1, LastStays
  <1>3. s.tolead => n # 0
    BY <1>2, NoRequests, Zenon
  <1>4. IsRankRows(data[b].list, b[1], n) => IsRankRows(data'[b].list, b[1], n)
    OBVIOUS
  <1>5. Lead(b[1])' = Lead(b[1])
    BY DEF Lead
  <1>. QED
    BY <1>1, <1>2, <1>3, <1>5 DEF ListNow, IsRankRows, Row

\* The vectors of a block.
LEMMA RowsStay ==
  ASSUME Types, Grown, NEW b \in Block, Stages(b)' = Stages(b),
         data'[b].rows = data[b].rows, RowsNow(b),
         Has(Made(b, Stages(b)), "concat") => (Pends(b, "concat")' <=> Pends(b, "concat"))
  PROVE  RowsNow(b)'
  <1>1. PICK n, s : n = Stages(b) /\ s = Made(b, n)
    OBVIOUS
  <1>2. Made(b, n)' = s /\ (n = 0 => s = Nothing) /\ (n # 0 => gave'[b][n] = gave[b][n])
    BY <1>1, LastStays
  <1>3. Has(s, "concat") => n # 0
    BY <1>2, NoRequests, Zenon
  <1>4. n \in Nat /\ (AllGave(n) => AllGave(n)')
    BY <1>1, LastStays, StagesStay
  <1>. QED
    BY <1>1, <1>2, <1>3, <1>4 DEF RowsNow, IsAllRows, Row, Has

\* The vector that a block has got from a scatter.
LEMMA RowStays ==
  ASSUME Types, Grown, NEW b \in Block, Stages(b)' = Stages(b),
         data'[b].row = data[b].row, RowNow(b),
         Made(b, Stages(b)).scatter => (Pends(b, "scatter")' <=> Pends(b, "scatter"))
  PROVE  RowNow(b)'
  <1>1. Made(b, Stages(b))' = Made(b, Stages(b))
    BY LastStays
  <1>. QED
    BY <1>1 DEF RowNow

\* A call that has been made.
LEMMA EntryStays ==
  ASSUME IInv, Grown, NEW r \in Rank, EntriesKept(r), NEW k \in DOMAIN entered[r], EntryRight(r, k)
  PROVE  EntryRight(r, k)'
  <1>1. PICK e, n, op : e = entered[r][k] /\ n = e.stage /\ op = Head(e.todo)
    OBVIOUS
  <1>2. /\ entered'[r][k].stage = n /\ entered'[r][k].data = e.data /\ entered'[r][k].todo = e.todo
        /\ Head(entered'[r][k].todo) = op
    BY <1>1 DEF EntriesKept
  <1>3. Types /\ Together(r) /\ n \in 1 .. Base(r)
    BY <1>1 DEF IInv, RankInv, CallsInv, CallMade
  <1>4. \A c \in Blocks(r) : c \in Block /\ Base(r) <= Stages(c) /\ Stages(c) \in Nat
    BY <1>3, BaseIs
  <1>5. \A c \in Blocks(r) : n \in 1 .. Stages(c)
    BY <1>3, <1>4, BaseIs
  <1>6. \A c \in Blocks(r) : gave'[c][n] = gave[c][n]
    BY <1>4, <1>5 DEF Grown
  <1>7. r = 0 => Root \in Blocks(r)
    BY BlocksAre DEF Root, Lead
  <1>8. op = "minloc" =>
          \E c \in Blocks(r) :
            /\ entered'[r][k].data = gave'[c][n].data.pair
            /\ \A d \in Blocks(r) : entered'[r][k].data[1] <= gave'[d][n].data.pair[1]
    BY <1>1, <1>2, <1>6 DEF EntryRight
  <1>9. op = "bcast" /\ r = 0 => entered'[r][k].data = gave'[Root][n].data.object
    BY <1>1, <1>2, <1>6, <1>7 DEF EntryRight
  <1>10. op = "concat" => IsRankRows(entered'[r][k].data, r, n)
    BY <1>1, <1>2 DEF EntryRight
  <1>11. op = "scatter" /\ r = 0 => \A b \in Block : entered'[r][k].data[Place(b)][1] = Id[b]
    BY <1>1, <1>2 DEF EntryRight
  <1>. QED
    BY <1>2, <1>8, <1>9, <1>10, <1>11 DEF EntryRight, Blocks, Root, IsRankRows, Row, Place

\* Of all buffers of a block.
LEMMA BuffersStay ==
  ASSUME Types, Grown, \A q \in Rank : EntriesKept(q), NEW b \in Block, Stages(b)' = Stages(b),
         data'[b] = data[b], BuffersInv(b),
         \A op : op \in Range(Operations(Made(b, Stages(b)))) => (Pends(b, op)' <=> Pends(b, op))
  PROVE  BuffersInv(b)'
  <1>1. PICK s : s = Made(b, Stages(b))
    OBVIOUS
  <1>2. /\ \A op \in Reduction : op \in Range(Operations(s)) <=> Has(s, op)
        /\ "tolead" \in Range(Operations(s)) <=> s.tolead
        /\ "scatter" \in Range(Operations(s)) <=> s.scatter
        /\ "bcast" \in Range(Operations(s)) <=> s.bcast
        /\ "fromlead" \in Range(Operations(s)) <=> s.fromlead
    <2>1. s \in Stage /\ IsInjective(s.reduce)
      BY <1>1, GaveIs
    <2>. QED
      BY <2>1, OperationsAre
  <1>3. "minloc" \in Reduction /\ "concat" \in Reduction
    BY DEF Reduction
  <1>4. PairNow(b)'
    BY <1>1, <1>2, <1>3, PairStays DEF BuffersInv
  <1>5. ObjectNow(b)'
    BY <1>1, <1>2, ObjectStays DEF BuffersInv
  <1>6. ListNow(b)'
    BY <1>1, <1>2, ListStays DEF BuffersInv
  <1>7. RowsNow(b)'
    BY <1>1, <1>2, <1>3, RowsStay DEF BuffersInv
  <1>8. RowNow(b)'
    BY <1>1, <1>2, RowStays DEF BuffersInv
  <1>. QED
    BY <1>4, <1>5, <1>6, <1>7, <1>8, GaveRightStays DEF BuffersInv

-----------------------------------------------------------------------------
(***************************************************************************)
(* A step of one rank, and steps in which no block changes.                *)
(***************************************************************************)
LEMMA ResultsStep ==
  ASSUME IInv, RInv, NEW r \in Rank, Elsewhere(r), Grown, EntriesKept(r), Started',
         \A b \in Blocks(r) : BuffersInv(b)',
         \A k \in DOMAIN entered'[r] : k \notin DOMAIN entered[r] => EntryRight(r, k)'
  PROVE  RInv'
  <1>1. \A q \in Rank \ {r} : entered'[q] = entered[q]
    BY DEF Elsewhere
  <1>2. \A q \in Rank : EntriesKept(q)
    BY <1>1 DEF EntriesKept
  <1>3. ASSUME NEW q \in Rank, NEW k \in DOMAIN entered'[q] PROVE EntryRight(q, k)'
    <2>1. CASE k \in DOMAIN entered[q]
      BY <2>1, <1>2, EntryStays DEF RInv
    <2>2. CASE k \notin DOMAIN entered[q]
      BY <2>2, <1>1
    <2>. QED
      BY <2>1, <2>2
  <1>4. ASSUME NEW b \in Block PROVE BuffersInv(b)'
    <2>1. CASE b[1] = r
      <3>1. b \in Blocks(r)
        BY <2>1, BlocksAre
      <3>. QED
        BY <3>1
    <2>2. CASE b[1] # r
      <3>1. PICK q : q = b[1]
        OBVIOUS
      <3>2. q \in Rank \ {r} /\ b \in Blocks(q)
        BY <3>1, <2>2, BlocksAre
      <3>3. Ran(q)' = Ran(q) /\ Stages(b)' = Stages(b)
        BY <3>2, OthersSame
      <3>4. data'[b] = data[b] /\ at'[q] = at[q] /\ todo'[q] = todo[q]
        BY <3>2, <2>2 DEF Elsewhere
      <3>5. \A op : Pends(b, op)' <=> Pends(b, op)
        BY <3>1, <3>3, <3>4 DEF Pends
      <3>6. Types /\ BuffersInv(b)
        BY DEF IInv, RInv
      <3>. QED
        BY <3>3, <3>4, <3>5, <3>6, <1>2, BuffersStay
    <2>. QED
      BY <2>1, <2>2
  <1>. QED
    BY <1>3, <1>4 DEF RInv, Rank, Block, Local

\* Blocks and their buffers stay, and the same operations are to come.
LEMMA QuietResults ==
  ASSUME IInv, RInv, NEW r \in Rank, Elsewhere(r), UNCHANGED <<setup, blockvars>>, EntriesKept(r),
         \A b \in Blocks(r) : \A op \in Range(Operations(Made(b, Stages(b)))) :
           Pends(b, op)' <=> Pends(b, op),
         \A k \in DOMAIN entered'[r] : k \notin DOMAIN entered[r] => EntryRight(r, k)'
  PROVE  RInv'
  <1>1. Types
    BY DEF IInv
  <1>2. Grown
    BY <1>1, StillGrows
  <1>3. \A q \in Rank : EntriesKept(q)
    BY DEF Elsewhere, EntriesKept
  <1>4. ASSUME NEW b \in Blocks(r) PROVE BuffersInv(b)'
    <2>1. b \in Block
      BY BlocksAre
    <2>2. Stages(b)' = Stages(b) /\ data'[b] = data[b]
      BY DEF blockvars, Stages
    <2>3. BuffersInv(b)
      BY <2>1 DEF RInv
    <2>. QED
      BY <2>1, <2>2, <2>3, <1>1, <1>2, <1>3, BuffersStay
  <1>5. Started'
    BY StagesStill DEF RInv, Started, setup, blockvars, Block, Rank, Local
  <1>. QED
    BY <1>2, <1>4, <1>5, ResultsStep

\* Steps between two iterations, which make no call.
LEMMA BetweenResults ==
  ASSUME IInv, RInv, NEW r \in Rank, Begin(r) \/ Sync(r) \/ Repeat(r)
  PROVE  RInv'
  <1>1. Types
    BY DEF IInv
  <1>2. /\ UNCHANGED setup /\ UNCHANGED blockvars /\ entered' = entered /\ sum' = sum /\ order' = order
        /\ at[r] \in {"begin", "sync", "serve"} /\ (at[r] = "serve" => todo[r] = <<>>)
        /\ at'[r] \in {"sync", "inner", "write", "begin", "end"}
        /\ \A q \in Rank \ {r} : at'[q] = at[q] /\ fields'[q] = fields[q] /\ todo'[q] = todo[q]
    BY <1>1 DEF Begin, Sync, Repeat, Types
  <1>3. Elsewhere(r)
    BY <1>2 DEF Elsewhere, blockvars
  <1>4. EntriesKept(r) /\ DOMAIN entered'[r] = DOMAIN entered[r]
    BY <1>2 DEF EntriesKept
  <1>5. ASSUME NEW b \in Blocks(r), NEW op PROVE ~Pends(b, op) /\ ~Pends(b, op)'
    <2>1. b[1] = r
      BY BlocksAre
    <2>2. Ran(r) = {} /\ Ran(r)' = {}
      BY <1>2 DEF Ran
    <2>3. at[r] = "serve" => op \notin Range(todo[r])
      BY <1>2 DEF Range
    <2>. QED
      BY <2>1, <2>2, <2>3, <1>2 DEF Pends
  <1>. QED
    BY <1>2, <1>3, <1>4, <1>5, QuietResults

\* The operations of the stage are to come.
LEMMA CollectResults ==
  ASSUME IInv, RInv, NEW r \in Rank, Collect(r)
  PROVE  RInv'
  <1>1. Types /\ RankInv(r)
    BY DEF IInv
  <1>2. /\ UNCHANGED setup /\ UNCHANGED blockvars /\ entered' = entered /\ sum' = sum /\ order' = order
        /\ fields' = fields /\ at[r] = "collect" /\ at'[r] = "serve"
        /\ todo'[r] = Operations(Requests(Lead(r)))
        /\ \A q \in Rank \ {r} : at'[q] = at[q] /\ todo'[q] = todo[q]
    BY <1>1 DEF Collect, Types
  <1>3. Elsewhere(r)
    BY <1>2 DEF Elsewhere, blockvars
  <1>4. EntriesKept(r) /\ DOMAIN entered'[r] = DOMAIN entered[r]
    BY <1>2 DEF EntriesKept
  <1>5. ASSUME NEW b \in Blocks(r), NEW op \in Range(Operations(Made(b, Stages(b))))
        PROVE  Pends(b, op) /\ Pends(b, op)'
    <2>1. b[1] = r /\ Ran(r) = {}
      BY <1>2, BlocksAre DEF Ran
    <2>2. Requests(Lead(r)) = Made(b, Stages(b))
      BY <2>1, BlocksAlike
    <2>3. op \in Range(todo'[r])
      BY <2>2, <1>2
    <2>. QED
      BY <2>1, <2>3, <1>2 DEF Pends
  <1>. QED
    BY <1>2, <1>3, <1>4, <1>5, QuietResults

-----------------------------------------------------------------------------
(***************************************************************************)
(* The order of the operations of a stage.                                 *)
(***************************************************************************)
Turn(op) ==
  CASE op \in Reduction -> 0 [] op = "tolead" -> 1 [] op = "shared" -> 2 [] op = "scatter" -> 3
    [] op = "bcast" -> 4 [] op = "fromlead" -> 5 [] op = "part" -> 6 [] OTHER -> 7

InTurns(list, low, high) ==
  /\ list \in Seq(Op)
  /\ \A i \in DOMAIN list : low <= Turn(list[i]) /\ Turn(list[i]) <= high
  /\ \A i, j \in DOMAIN list : i < j => Turn(list[i]) <= Turn(list[j])

\* Turns are numbers.
LEMMA TurnIs ==
  /\ \A op : Turn(op) \in 0 .. 7
  /\ \A op \in Reduction : Turn(op) = 0
  /\ Turn("tolead") = 1 /\ Turn("shared") = 2 /\ Turn("scatter") = 3 /\ Turn("bcast") = 4
  /\ Turn("fromlead") = 5 /\ Turn("part") = 6 /\ Turn("barrier") = 7
  BY DEF Turn, Reduction

\* Operations of later turns follow.
LEMMA TurnsJoined ==
  ASSUME NEW low \in Int, NEW mid \in Int, NEW high \in Int, low <= mid, mid <= high,
         NEW s, NEW t, InTurns(s, low, mid), InTurns(t, mid, high)
  PROVE  InTurns(s \o t, low, high)
  <1>1. s \in Seq(Op) /\ t \in Seq(Op) /\ s \o t \in Seq(Op)
    BY DEF InTurns
  <1>2. /\ Len(s) \in Nat /\ Len(t) \in Nat
        /\ DOMAIN s = 1 .. Len(s) /\ DOMAIN t = 1 .. Len(t)
        /\ DOMAIN (s \o t) = 1 .. Len(s) + Len(t)
        /\ \A i \in 1 .. Len(s) : (s \o t)[i] = s[i]
        /\ \A i \in 1 .. Len(t) : (s \o t)[Len(s) + i] = t[i]
    BY <1>1
  <1>3. \A op : Turn(op) \in Int
    BY TurnIs
  <1>4. ASSUME NEW i \in DOMAIN (s \o t), i > Len(s)
        PROVE  /\ i - Len(s) \in DOMAIN t /\ (s \o t)[i] = t[i - Len(s)]
               /\ mid <= Turn((s \o t)[i]) /\ Turn((s \o t)[i]) <= high
    <2>1. PICK m : m = i - Len(s)
      OBVIOUS
    <2>2. m \in 1 .. Len(t) /\ i = Len(s) + m
      BY <1>2, <1>4, <2>1
    <2>3. (s \o t)[i] = t[m] /\ m \in DOMAIN t
      BY <1>2, <2>2
    <2>. QED
      BY <2>1, <2>3 DEF InTurns
  <1>5. ASSUME NEW i \in DOMAIN (s \o t), i <= Len(s)
        PROVE  /\ i \in DOMAIN s /\ (s \o t)[i] = s[i]
               /\ low <= Turn((s \o t)[i]) /\ Turn((s \o t)[i]) <= mid
    <2>1. i \in DOMAIN s /\ (s \o t)[i] = s[i]
      BY <1>2, <1>5
    <2>. QED
      BY <2>1 DEF InTurns
  <1>6. ASSUME NEW i \in DOMAIN (s \o t)
        PROVE  low <= Turn((s \o t)[i]) /\ Turn((s \o t)[i]) <= high
    <2>1. i \in Int /\ Len(s) \in Int /\ Turn((s \o t)[i]) \in Int
      BY <1>2, <1>3
    <2>. QED
      BY <2>1, <1>4, <1>5
  <1>7. ASSUME NEW i \in DOMAIN (s \o t), NEW j \in DOMAIN (s \o t), i < j
        PROVE  Turn((s \o t)[i]) <= Turn((s \o t)[j])
    <2>1. i \in Int /\ j \in Int /\ Len(s) \in Int /\ Turn((s \o t)[i]) \in Int /\ Turn((s \o t)[j]) \in Int
      BY <1>2, <1>3
    <2>2. CASE j <= Len(s)
      <3>1. i <= Len(s)
        BY <2>1, <2>2, <1>7
      <3>. QED
        BY <3>1, <2>2, <1>5, <1>7 DEF InTurns
    <2>3. CASE i > Len(s)
      <3>1. j > Len(s)
        BY <2>1, <2>3, <1>7
      <3>2. i - Len(s) < j - Len(s)
        BY <2>1, <1>7
      <3>. QED
        BY <3>1, <3>2, <2>3, <1>4 DEF InTurns
    <2>4. CASE i <= Len(s) /\ j > Len(s)
      BY <2>1, <2>4, <1>4, <1>5
    <2>. QED
      BY <2>1, <2>2, <2>3, <2>4
  <1>. QED
    BY <1>1, <1>6, <1>7 DEF InTurns

\* An operation of a later turn.
LEMMA TurnsExtended ==
  ASSUME NEW s, NEW m \in Int, InTurns(s, 0, m), 0 <= m, NEW op \in Op, m <= Turn(op), NEW c \in BOOLEAN
  PROVE  InTurns(s \o If(c, op), 0, Turn(op))
  <1>1. Turn(op) \in Int
    BY TurnIs
  <1>2. InTurns(If(c, op), m, Turn(op))
    <2>1. CASE c
      <3>1. If(c, op) = <<op>>
        BY <2>1 DEF If
      <3>2. <<op>> \in Seq(Op) /\ DOMAIN <<op>> = {1} /\ <<op>>[1] = op
        OBVIOUS
      <3>. QED
        BY <3>1, <3>2, <1>1 DEF InTurns
    <2>2. CASE ~c
      <3>1. If(c, op) = <<>>
        BY <2>2 DEF If
      <3>. QED
        BY <3>1 DEF InTurns
    <2>. QED
      BY <2>1, <2>2
  <1>. QED
    BY <1>1, <1>2, TurnsJoined

\* Run serves reductions first, and broadcasts to all before those within a rank.
LEMMA OperationsInTurns ==
  ASSUME NEW s \in Stage
  PROVE  InTurns(Operations(s), 0, 7)
  <1> DEFINE l1 == s.reduce \o If(s.tolead, "tolead")
             l2 == l1 \o If(s.shared, "shared")
             l3 == l2 \o If(s.scatter, "scatter")
             l4 == l3 \o If(s.bcast, "bcast")
             l5 == l4 \o If(s.fromlead, "fromlead")
             last == IF s.part THEN <<"part", "barrier">> ELSE <<>>
  <1>1. /\ s.reduce \in Seq(Reduction) /\ s.tolead \in BOOLEAN /\ s.shared \in BOOLEAN
        /\ s.scatter \in BOOLEAN /\ s.bcast \in BOOLEAN /\ s.fromlead \in BOOLEAN /\ s.part \in BOOLEAN
    BY DEF Stage
  <1>2. InTurns(s.reduce, 0, 0)
    <2>1. s.reduce \in Seq(Op)
      BY <1>1, SeqMonotonic DEF Op
    <2>2. \A i \in DOMAIN s.reduce : s.reduce[i] \in Reduction
      BY <1>1
    <2>. QED
      BY <2>1, <2>2, TurnIs DEF InTurns
  <1>3. \A op \in {"tolead", "shared", "scatter", "bcast", "fromlead", "part", "barrier"} : op \in Op
    BY DEF Op
  <1>4. InTurns(l1, 0, 1)
    BY <1>1, <1>2, <1>3, TurnIs, TurnsExtended
  <1>5. InTurns(l2, 0, 2)
    <2>. HIDE DEF l1
    <2>. QED
      BY <1>1, <1>3, <1>4, TurnIs, TurnsExtended
  <1>6. InTurns(l3, 0, 3)
    <2>. HIDE DEF l2
    <2>. QED
      BY <1>1, <1>3, <1>5, TurnIs, TurnsExtended
  <1>7. InTurns(l4, 0, 4)
    <2>. HIDE DEF l3
    <2>. QED
      BY <1>1, <1>3, <1>6, TurnIs, TurnsExtended
  <1>8. InTurns(l5, 0, 5)
    <2>. HIDE DEF l4
    <2>. QED
      BY <1>1, <1>3, <1>7, TurnIs, TurnsExtended
  <1>9. InTurns(last, 5, 7)
    <2>1. CASE s.part
      <3>1. /\ <<"part", "barrier">> \in Seq(Op) /\ DOMAIN <<"part", "barrier">> = {1, 2}
            /\ <<"part", "barrier">>[1] = "part" /\ <<"part", "barrier">>[2] = "barrier"
        BY <1>3
      <3>. QED
        BY <3>1, <2>1, TurnIs DEF InTurns
    <2>2. CASE ~s.part
      BY <2>2 DEF InTurns
    <2>. QED
      BY <2>1, <2>2
  <1>10. Operations(s) = l5 \o last
    BY DEF Operations
  <1>. HIDE DEF l5, last
  <1>. QED
    BY <1>8, <1>9, <1>10, TurnsJoined

\* What is to come has no earlier turn than the next operation.
LEMMA RestInTurns ==
  ASSUME NEW s \in Stage, NEW rest \in Seq(Op), IsRest(Operations(s), rest), NEW op \in Range(rest)
  PROVE  rest # <<>> /\ Turn(Head(rest)) <= Turn(op)
  <1>1. PICK ops : ops = Operations(s)
    OBVIOUS
  <1>2. /\ ops \in Seq(Op) /\ DOMAIN ops = 1 .. Len(ops) /\ Len(ops) \in Nat
        /\ \A i, j \in DOMAIN ops : i < j => Turn(ops[i]) <= Turn(ops[j])
    BY <1>1, OperationsInTurns DEF InTurns
  <1>3. PICK i \in DOMAIN rest : op = rest[i]
    BY DEF Range
  <1>4. PICK d : d = Len(ops) - Len(rest)
    OBVIOUS
  <1>5. /\ Len(rest) \in Nat /\ DOMAIN rest = 1 .. Len(rest) /\ Len(rest) <= Len(ops)
        /\ \A j \in 1 .. Len(rest) : rest[j] = ops[d + j]
    BY <1>1, <1>4 DEF IsRest
  <1>6. d \in Nat /\ i \in 1 .. Len(rest) /\ 1 \in 1 .. Len(rest)
    BY <1>2, <1>3, <1>4, <1>5
  <1>7. d + 1 \in DOMAIN ops /\ d + i \in DOMAIN ops /\ (i = 1 \/ d + 1 < d + i)
    BY <1>2, <1>4, <1>5, <1>6
  <1>8. rest # <<>> /\ Head(rest) = rest[1]
    BY <1>6
  <1>9. Turn(ops[d + 1]) <= Turn(ops[d + i])
    <2>1. Turn(ops[d + 1]) \in Int
      BY TurnIs
    <2>. QED
      BY <2>1, <1>2, <1>7
  <1>. QED
    BY <1>3, <1>5, <1>6, <1>8, <1>9

-----------------------------------------------------------------------------
(***************************************************************************)
(* A rank that serves an operation.                                        *)
(***************************************************************************)
LEMMA ServesOperation ==
  ASSUME IInv, NEW r \in Rank, at[r] = "serve", todo[r] # <<>>, NEW op, op = Head(todo[r]),
         NEW n, n = Base(r), NEW s, s = Asked(r)
  PROVE  /\ n \in Nat \ {0} /\ s \in Stage /\ IsInjective(s.reduce) /\ op \in Op
         /\ \A b \in Blocks(r) :
              /\ b \in Block /\ b[1] = r /\ Stages(b) = n /\ n \in 1 .. Stages(b) /\ Made(b, n) = s
              /\ \A o : Pends(b, o) <=> o \in Range(todo[r])
         /\ op \in Range(todo[r])
         /\ op \in Reduction => Has(s, op)
         /\ op = "tolead" => s.tolead
         /\ op = "scatter" => s.scatter
         /\ op = "bcast" => s.bcast
         /\ op = "fromlead" => s.fromlead
         /\ \A o \in Range(todo[r]) : Turn(op) <= Turn(o)
  <1>1. Types /\ Together(r)
    BY DEF IInv, RankInv
  <1>2. s \in Stage /\ IsInjective(s.reduce)
    BY <1>1, BaseIs
  <1>3. /\ IsPlan(Operations(s)) /\ Base(r) \in Nat /\ Base(r) >= 1 /\ Ran(r) = {}
        /\ todo[r] \in Seq(Op) /\ IsRest(Operations(s), todo[r])
    BY Serving
  <1>4. op \in Range(Operations(s)) /\ op \in Op /\ op \in Range(todo[r])
    BY <1>3, RestIs
  <1>5. ASSUME NEW b \in Blocks(r)
        PROVE  /\ b \in Block /\ b[1] = r /\ Stages(b) = n /\ Made(b, n) = s
               /\ \A o : Pends(b, o) <=> o \in Range(todo[r])
    <2>1. b \in Block /\ b[1] = r
      BY BlocksAre
    <2>2. Stages(b) = n /\ Made(b, n) = s
      BY <1>3, BlocksAlike
    <2>3. \A o : Pends(b, o) <=> o \in Range(todo[r])
      BY <2>1, <1>3 DEF Pends
    <2>. QED
      BY <2>1, <2>2, <2>3
  <1>6. \A o \in Range(todo[r]) : Turn(op) <= Turn(o)
    BY <1>2, <1>3, RestInTurns
  <1>7. /\ op \in Reduction => Has(s, op)
        /\ op = "tolead" => s.tolead
        /\ op = "scatter" => s.scatter
        /\ op = "bcast" => s.bcast
        /\ op = "fromlead" => s.fromlead
    BY <1>2, <1>4, OperationsAre
  <1>. QED
    BY <1>2, <1>3, <1>4, <1>5, <1>6, <1>7

\* Vectors are gathered and scattered only if the blocks have run in their natural order.
LEMMA OrderIsAll ==
  ASSUME IInv, NEW r \in Rank, at[r] \in {"collect", "serve"}, NEW s, s = Asked(r),
         Has(s, "concat") \/ s.tolead \/ s.scatter
  PROVE  order[r] = All
  <1>1. Types /\ Placed(r) /\ StagesInv
    BY DEF IInv, RankInv
  <1>2. SUFFICES ASSUME late # <<>>, Made(Lead(r), Base(r) - 1).comm,
                        ~Made(Lead(r), Base(r) - 1).dump
        PROVE  FALSE
    BY <1>1 DEF Placed
  <1>3. /\ Base(r) \in Nat /\ Base(r) >= 1 /\ Lead(r) \in Block /\ Stages(Lead(r)) = Base(r)
    BY Serving, BlocksAlike, BlocksAre
  <1>4. PICK k, p, q : k = Base(r) - 1 /\ p = gave[Lead(r)][k].stage /\ q = gave[Lead(r)][k + 1].stage
    OBVIOUS
  <1>5. k # 0
    BY <1>2, <1>4, NothingIs DEF Made
  <1>6. k \in 1 .. Stages(Lead(r)) /\ k < Stages(Lead(r)) /\ k + 1 = Base(r) /\ k + 1 # 0
        /\ k + 1 \in 1 .. Stages(Lead(r))
    BY <1>3, <1>4, <1>5
  <1>7. p \in DOMAIN kernel /\ q \in DOMAIN kernel /\ Made(Lead(r), k) = kernel[p] /\ s = kernel[q]
    BY <1>1, <1>3, <1>4, <1>5, <1>6 DEF Types, GaveOk, Made, Asked
  <1>8. PosAfter(Lead(r), k) = q
    BY <1>4, <1>6 DEF PosAfter
  <1>9. PosAfter(Lead(r), k) = Chosen(p, gave[Lead(r)][k].number, gave[Lead(r)][k].sum)
    BY <1>1, <1>3, <1>4, <1>6 DEF StagesInv, Decided
  <1>10. q \in After(kernel, p) \cap DOMAIN kernel
    BY <1>1, <1>7, <1>8, <1>9, ChosenIs DEF Types
  <1>11. ~Has(kernel[q], "concat") /\ ~kernel[q].tolead /\ ~kernel[q].scatter
    BY <1>1, <1>2, <1>4, <1>7, <1>10, FollowingIs DEF Types
  <1>. QED
    BY <1>7, <1>11

\* The pair of a rank is one of its blocks', with the least number.
LEMMA NearestIs ==
  ASSUME NEW r \in Rank, order[r] \in Seq(Local), Range(order[r]) = Local,
         \A b \in Blocks(r) : data[b].pair \in Nat \X Nat
  PROVE  \E c \in Blocks(r) :
           /\ Nearest(r) = data[c].pair
           /\ \A d \in Blocks(r) : Nearest(r)[1] <= data[d].pair[1]
  <1> DEFINE D == DOMAIN order[r]
             pairs == [i \in D |-> data[<<r, order[r][i]>>].pair]
             First(i) == \A j \in D : pairs[i][1] < pairs[j][1] \/ (pairs[i][1] = pairs[j][1] /\ i <= j)
             T == {pairs[i][1] : i \in D}
             I == {i \in D : pairs[i][1] = Min(T)}
  <1>1. D = 1 .. Len(order[r]) /\ D \in SUBSET Nat
    OBVIOUS
  <1>2. ASSUME NEW i \in D
        PROVE  <<r, order[r][i]>> \in Blocks(r) /\ pairs[i] \in Nat \X Nat /\ pairs[i][1] \in Nat
    <2>1. order[r][i] \in Local
      OBVIOUS
    <2>2. <<r, order[r][i]>> \in Blocks(r)
      BY <2>1, BlocksAre
    <2>3. pairs[i] \in Nat \X Nat
      BY <2>2
    <2>. QED
      BY <2>2, <2>3
  <1>3. ASSUME NEW d \in Blocks(r) PROVE \E i \in D : pairs[i] = data[d].pair
    <2>1. d = <<r, d[2]>> /\ d[2] \in Local
      BY BlocksAre
    <2>2. PICK i \in D : order[r][i] = d[2]
      BY <2>1 DEF Range
    <2>3. pairs[i] = data[d].pair
      BY <2>1, <2>2
    <2>. QED
      BY <2>3
  <1>. HIDE DEF pairs
  <1>4. D # {}
    BY <1>3, BlocksAre
  <1>5. T \in SUBSET Nat /\ T # {}
    BY <1>2, <1>4
  <1>6. /\ \E i \in D : pairs[i][1] = Min(T)
        /\ \A j \in D : Min(T) <= pairs[j][1]
    <2>1. Min(T) \in T /\ \A y \in T : Min(T) <= y
      <3>. HIDE DEF T
      <3>. QED
        BY <1>5, MinIsLeast
    <2>. QED
      BY <2>1
  <1>. HIDE DEF T
  <1>7. I \in SUBSET Nat /\ I # {}
    BY <1>1, <1>6
  <1>8. Min(I) \in I /\ \A j \in I : Min(I) <= j
    <2>. HIDE DEF I
    <2>. QED
      BY <1>7, MinIsLeast
  <1>9. PICK m \in D : pairs[m][1] = Min(T) /\ \A j \in D : pairs[j][1] = Min(T) => m <= j
    BY <1>8
  <1>10. First(m)
    <2>. SUFFICES ASSUME NEW j \in D
         PROVE  pairs[m][1] < pairs[j][1] \/ (pairs[m][1] = pairs[j][1] /\ m <= j)
      OBVIOUS
    <2>1. pairs[m][1] \in Nat /\ pairs[j][1] \in Nat /\ pairs[m][1] <= pairs[j][1]
      BY <1>2, <1>6, <1>9
    <2>2. CASE pairs[m][1] = pairs[j][1]
      BY <2>2, <1>9
    <2>. QED
      BY <2>1, <2>2
  <1>11. PICK i : i = CHOOSE j \in D : First(j)
    OBVIOUS
  <1>12. i \in D /\ First(i)
    BY <1>10, <1>11
  <1>13. Nearest(r) = pairs[i]
    <2>1. DOMAIN pairs = D
      BY DEF pairs
    <2>2. Nearest(r) = pairs[CHOOSE x \in DOMAIN pairs : \A y \in DOMAIN pairs :
                                pairs[x][1] < pairs[y][1] \/ (pairs[x][1] = pairs[y][1] /\ x <= y)]
      BY DEF Nearest, pairs
    <2>. QED
      BY <2>1, <2>2, <1>11
  <1>14. PICK c \in Blocks(r) : c = <<r, order[r][i]>> /\ pairs[i] = data[c].pair
    BY <1>2, <1>12 DEF pairs
  <1>15. ASSUME NEW d \in Blocks(r) PROVE pairs[i][1] <= data[d].pair[1]
    <2>1. PICK j \in D : pairs[j] = data[d].pair
      BY <1>3
    <2>2. pairs[i][1] \in Nat /\ pairs[j][1] \in Nat
      BY <1>2, <1>12
    <2>3. pairs[i][1] < pairs[j][1] \/ pairs[i][1] = pairs[j][1]
      BY <1>12
    <2>. QED
      BY <2>1, <2>2, <2>3
  <1>. QED
    BY <1>13, <1>14, <1>15

\* Vectors of one row each are put in a row by the order of the blocks.
LEMMA PiecesAre ==
  ASSUME NEW r \in Rank, NEW n \in Nat \ {0}, NEW f,
         \A i \in Local : f[<<r, i>>] = <<Row(<<r, i>>, n)>>
  PROVE  IsRankRows(FlattenSeq([i \in DOMAIN All |-> f[<<r, All[i]>>]]), r, n)
  <1> DEFINE pieces == [i \in DOMAIN All |-> f[<<r, All[i]>>]]
  <1>1. nblocks \in Nat \ {0} /\ DOMAIN All = 1 .. nblocks /\ \A i \in 1 .. nblocks : All[i] = i - 1 /\ i - 1 \in Local
    BY MeshAssumption DEF All, Local
  <1>2. \A i \in Local : Row(<<r, i>>, n) \in Rows
    <2>. SUFFICES ASSUME NEW i \in Local PROVE Row(<<r, i>>, n) \in Rows
      OBVIOUS
    <2>1. <<r, i>> \in Block
      BY BlocksAre
    <2>2. Id[<<r, i>>] \in Nat
      BY <2>1, MeshAssumption
    <2>. QED
      BY <2>2 DEF Row, Rows
  <1>3. \A i \in 1 .. nblocks : pieces[i] = <<Row(<<r, i - 1>>, n)>>
    BY <1>1
  <1>4. \A i \in 1 .. nblocks : pieces[i] \in Seq(Rows) /\ Len(pieces[i]) = 1
    <2>. SUFFICES ASSUME NEW i \in 1 .. nblocks PROVE pieces[i] \in Seq(Rows) /\ Len(pieces[i]) = 1
      OBVIOUS
    <2>1. PICK x : x = Row(<<r, i - 1>>, n)
      OBVIOUS
    <2>2. x \in Rows /\ pieces[i] = <<x>>
      BY <2>1, <1>1, <1>2, <1>3
    <2>. HIDE DEF pieces
    <2>. QED
      BY <2>2
  <1>5. pieces \in [1 .. nblocks -> Seq(Rows)]
    BY <1>1, <1>4
  <1>. HIDE DEF pieces
  <1>6. PICK all : all = FlattenSeq(pieces)
    OBVIOUS
  <1>7. /\ all \in Seq(Rows) /\ Len(all) = nblocks * 1
        /\ \A i \in 1 .. nblocks, j \in 1 .. 1 : all[(i - 1) * 1 + j] = pieces[i][j]
    <2>1. IsFlat(FlattenSeq(pieces), pieces, Rows, nblocks, 1)
      BY <1>1, <1>4, <1>5, FlattenIs
    <2>. QED
      BY <2>1, <1>6 DEF IsFlat
  <1>8. ASSUME NEW i \in Local PROVE all[i + 1] = Row(<<r, i>>, n)
    <2>1. i + 1 \in 1 .. nblocks /\ 1 \in 1 .. 1 /\ ((i + 1) - 1) * 1 + 1 = i + 1 /\ (i + 1) - 1 = i
      BY MeshAssumption DEF Local
    <2>2. all[i + 1] = pieces[i + 1][1]
      BY <2>1, <1>7
    <2>3. pieces[i + 1] = <<Row(<<r, i>>, n)>>
      BY <2>1, <1>3
    <2>. QED
      BY <2>2, <2>3
  <1>9. Len(all) = nblocks
    BY <1>1, <1>7
  <1>. QED
    BY <1>6, <1>7, <1>8, <1>9 DEF IsRankRows, pieces


\* What a rank gives to a call is from its blocks, or from the root.
LEMMA GivenRight ==
  ASSUME IInv, RInv, NEW r \in Rank, at[r] = "serve", todo[r] # <<>>, NEW op, op = Head(todo[r]),
         NEW n, n = Base(r)
  PROVE  /\ op = "minloc" =>
              \E c \in Blocks(r) :
                /\ Given(r, op) = gave[c][n].data.pair
                /\ \A d \in Blocks(r) : Given(r, op)[1] <= gave[d][n].data.pair[1]
         /\ op = "concat" => IsRankRows(Given(r, op), r, n)
         /\ op = "scatter" /\ r = 0 => \A b \in Block : Given(r, op)[Place(b)][1] = Id[b]
         /\ op = "bcast" /\ r = 0 => Given(r, op) = gave[Root][n].data.object
  <1>1. PICK s : s = Asked(r)
    OBVIOUS
  <1>2. /\ n \in Nat \ {0} /\ op \in Range(todo[r])
        /\ op \in Reduction => Has(s, op)
        /\ op = "scatter" => s.scatter
        /\ op = "bcast" => s.bcast
        /\ \A o \in Range(todo[r]) : Turn(op) <= Turn(o)
    BY <1>1, ServesOperation
  <1>3. ASSUME NEW b \in Blocks(r)
        PROVE  /\ b \in Block /\ Stages(b) = n /\ n \in 1 .. Stages(b) /\ Made(b, n) = s
               /\ Pends(b, op)
               /\ \A o : Pends(b, o) <=> o \in Range(todo[r])
               /\ BuffersInv(b)
    <2>1. /\ b \in Block /\ Stages(b) = n /\ n \in 1 .. Stages(b) /\ Made(b, n) = s
          /\ \A o : Pends(b, o) <=> o \in Range(todo[r])
      BY <1>1, ServesOperation
    <2>2. BuffersInv(b)
      BY <2>1 DEF RInv
    <2>. QED
      BY <2>1, <2>2, <1>2
  <1>4. CASE op = "minloc"
    <2>1. Has(s, "minloc")
      BY <1>2, <1>4 DEF Reduction
    <2>2. ASSUME NEW b \in Blocks(r)
          PROVE  data[b].pair = gave[b][n].data.pair /\ data[b].pair \in Nat \X Nat
      <3>1. data[b].pair = gave[b][n].data.pair
        BY <1>3, <1>4, <2>1 DEF BuffersInv, PairNow
      <3>2. gave[b][n].data.pair \in Nat \X Nat
        BY <1>3, <2>1 DEF BuffersInv, GaveRight
      <3>. QED
        BY <3>1, <3>2
    <2>3. order[r] \in Seq(Local) /\ Range(order[r]) = Local
      BY Serving
    <2>4. PICK c \in Blocks(r) : /\ Nearest(r) = data[c].pair
                                 /\ \A d \in Blocks(r) : Nearest(r)[1] <= data[d].pair[1]
      BY <2>2, <2>3, NearestIs
    <2>5. Given(r, op) = Nearest(r)
      BY <1>4 DEF Given
    <2>. QED
      BY <1>4, <2>2, <2>4, <2>5
  <1>5. CASE op = "concat"
    <2>1. Has(s, "concat")
      BY <1>2, <1>5 DEF Reduction
    <2>2. ASSUME NEW b \in Blocks(r) PROVE data[b].rows = <<Row(b, n)>>
      <3>1. data[b].rows = gave[b][n].data.rows
        BY <1>3, <1>5, <2>1 DEF BuffersInv, RowsNow
      <3>2. gave[b][n].data.rows = <<Row(b, n)>>
        BY <1>3, <2>1 DEF BuffersInv, GaveRight
      <3>. QED
        BY <3>1, <3>2
    <2>3. order[r] = All
      BY <1>1, <2>1, OrderIsAll
    <2>4. PICK f : f = [b \in Block |-> data[b].rows]
      OBVIOUS
    <2>5. \A i \in Local : <<r, i>> \in Blocks(r) /\ <<r, i>> \in Block
      BY BlocksAre
    <2>6. \A i \in Local : f[<<r, i>>] = <<Row(<<r, i>>, n)>>
      BY <2>2, <2>4, <2>5
    <2>7. IsRankRows(FlattenSeq([i \in DOMAIN All |-> f[<<r, All[i]>>]]), r, n)
      BY <2>6, <1>2, PiecesAre
    <2>8. [i \in DOMAIN All |-> f[<<r, All[i]>>]]
            = [i \in DOMAIN order[r] |-> data[<<r, order[r][i]>>].rows]
      <3>1. \A i \in DOMAIN All : All[i] \in Local
        BY AllIs
      <3>. QED
        BY <3>1, <2>3, <2>4, <2>5
    <2>9. Given(r, op) = Gathered(r)
      BY <1>5 DEF Given
    <2>. QED
      BY <1>5, <2>7, <2>8, <2>9 DEF Gathered
  <1>6. CASE op = "scatter"
    <2>. SUFFICES ASSUME r = 0, NEW b \in Block PROVE Given(r, op)[Place(b)][1] = Id[b]
      BY <1>6
    <2>1. s.scatter /\ Root \in Blocks(r) /\ Given(r, op) = data[Root].rows
      BY <1>2, <1>6, BlocksAre DEF Given, Root, Lead
    <2>2. "concat" \in Reduction /\ Turn("concat") = 0 /\ Turn(op) = 3
      BY <1>6, TurnIs DEF Reduction
    <2>3. "concat" \notin Range(todo[r])
      BY <2>2, <1>2
    <2>4. /\ Stages(Root) = n /\ Made(Root, n) = s /\ BuffersInv(Root) /\ ~Pends(Root, "concat")
      BY <1>3, <2>1, <2>3
    <2>5. IsAllRows(data[Root].rows, n) \/ IsAllRows(data[Root].rows, n - 1)
      BY <2>1, <2>4 DEF BuffersInv, RowsNow
    <2>6. \E m : data[Root].rows[Place(b)] = Row(b, m)
      BY <2>5 DEF IsAllRows
    <2>. QED
      BY <2>1, <2>6 DEF Row
  <1>7. CASE op = "bcast"
    <2>. SUFFICES ASSUME r = 0 PROVE Given(r, op) = gave[Root][n].data.object
      BY <1>7
    <2>1. s.bcast /\ Root \in Blocks(r) /\ Given(r, op) = data[Root].object
      BY <1>2, <1>7, BlocksAre DEF Given, Root, Lead
    <2>2. Stages(Root) = n /\ Made(Root, n) = s /\ BuffersInv(Root) /\ Pends(Root, "bcast")
      BY <1>3, <1>7, <2>1
    <2>. QED
      BY <2>1, <2>2 DEF BuffersInv, ObjectNow
  <1>. QED
    BY <1>4, <1>5, <1>6, <1>7

\* A rank enters a call.
LEMMA EnterResults ==
  ASSUME IInv, RInv, NEW r \in Rank, Enter(r)
  PROVE  RInv'
  <1>1. Types /\ Together(r)
    BY DEF IInv, RankInv
  <1>2. /\ at[r] \in {"serve", "write"} /\ todo[r] # <<>>
        /\ UNCHANGED setup /\ UNCHANGED blockvars /\ sum' = sum
        /\ at' = at /\ fields' = fields /\ order' = order /\ todo' = todo
    BY DEF Enter, runvars
  <1>3. PICK n, op, K, e :
          /\ n = Base(r) /\ op = Head(todo[r]) /\ K = Len(entered[r]) + 1
          /\ e = [op |-> Call(Head(todo[r])), data |-> Given(r, Head(todo[r])), open |-> TRUE,
                  stage |-> Stages(Lead(r)), todo |-> todo[r]]
    OBVIOUS
  <1>4. entered' = [entered EXCEPT ![r] = Append(@, e)]
    BY <1>3 DEF Enter
  <1>5. /\ IsSeq(entered[r]) /\ K \in Nat /\ DOMAIN entered[r] = 1 .. K - 1
        /\ DOMAIN entered = Rank
    BY <1>1, <1>3, SeqIs DEF Types, EnteredOk
  <1>6. /\ DOMAIN entered'[r] = 1 .. K /\ entered'[r][K] = e
        /\ \A k \in 1 .. K - 1 : entered'[r][k] = entered[r][k]
    <2>1. entered'[r] = Append(entered[r], e)
      BY <1>4, <1>5
    <2>. QED
      BY <2>1, <1>3, <1>5, Appended
  <1>7. \A q \in Rank \ {r} : entered'[q] = entered[q]
    BY <1>4, <1>5
  <1>8. Ran(r) = {} /\ Ran(r)' = {}
    BY <1>2 DEF Ran
  <1>9. Stages(Lead(r)) = n /\ Lead(r) \in Blocks(r)
    BY <1>3, <1>8, BlocksAlike, BlocksAre
  <1>10. e.stage = n /\ e.todo = todo[r] /\ Head(e.todo) = op /\ e.data = Given(r, op)
    BY <1>3, <1>9
  <1>11. Elsewhere(r) /\ EntriesKept(r)
    <2>1. Elsewhere(r)
      BY <1>2, <1>7 DEF Elsewhere, blockvars
    <2>2. EntriesKept(r)
      BY <1>5, <1>6 DEF EntriesKept
    <2>. QED
      BY <2>1, <2>2
  <1>12. \A b \in Blocks(r) : \A o : Pends(b, o)' <=> Pends(b, o)
    BY <1>2, <1>8, BlocksAre DEF Pends
  <1>13. EntryRight(r, K)'
    <2>1. /\ op = "minloc" =>
              \E c \in Blocks(r) :
                /\ e.data = gave[c][n].data.pair
                /\ \A d \in Blocks(r) : e.data[1] <= gave[d][n].data.pair[1]
          /\ op = "concat" => IsRankRows(e.data, r, n)
          /\ op = "scatter" /\ r = 0 => \A b \in Block : e.data[Place(b)][1] = Id[b]
          /\ op = "bcast" /\ r = 0 => e.data = gave[Root][n].data.object
      <3>1. CASE at[r] = "serve"
        BY <3>1, <1>2, <1>3, <1>10, GivenRight
      <3>2. CASE at[r] = "write"
        <4>1. op = "dump"
          BY <3>2, <1>2, <1>3, HeadIs DEF Operation
        <4>. QED
          BY <4>1
      <3>. QED
        BY <3>1, <3>2, <1>2
    <2>2. gave' = gave
      BY <1>2 DEF blockvars
    <2>3. entered'[r][K] = e /\ Head(e.todo) = op /\ e.stage = n
      BY <1>6, <1>10
    <2>. QED
      BY <2>1, <2>2, <2>3 DEF EntryRight, Blocks, Root, IsRankRows, Row, Place
  <1>14. \A k \in DOMAIN entered'[r] : k \notin DOMAIN entered[r] => k = K
    BY <1>5, <1>6
  <1>. QED
    BY <1>2, <1>11, <1>12, <1>13, <1>14, QuietResults

-----------------------------------------------------------------------------
(***************************************************************************)
(* Blocks that run a stage.                                                *)
(***************************************************************************)
\* What a stage leaves in the buffers.
LEMMA FilledBuffers ==
  ASSUME NEW b \in Block, DOMAIN data[b] = Buffers, NEW c \in Nat, NEW n \in Nat, Stages(b) = n
  PROVE  LET s == kernel[pos[b]]
             d == Filled(b, c)
         IN /\ d.rows = IF Has(s, "concat") THEN <<Row(b, n + 1)>> ELSE data[b].rows
            /\ s.tolead => d.list = <<Row(b, n + 1)>>
            /\ Has(s, "minloc") => d.pair \in Nat \X Nat
  <1>1. Row(b, n + 1) = <<Id[b], Stages(b)>>
    BY DEF Row
  <1>2. /\ Filled(b, c).rows = IF Has(kernel[pos[b]], "concat") THEN << <<Id[b], Stages(b)>> >> ELSE data[b].rows
        /\ Filled(b, c).list = IF kernel[pos[b]].tolead THEN << <<Id[b], Stages(b)>> >> ELSE data[b].list
        /\ Filled(b, c).pair = IF Has(kernel[pos[b]], "minloc") THEN <<c, Id[b]>> ELSE data[b].pair
    BY DEF Filled, Buffers
  <1>3. Id[b] \in Nat
    BY MeshAssumption
  <1>. QED
    BY <1>1, <1>2, <1>3

\* What a block that runs leaves in the buffers for a gather or for the nearest point.
LEMMA RunBuffers ==
  ASSUME Types, NEW r \in Rank, NEW bb \in Seq(Local), RunKernels(r, bb),
         NEW b \in Blocks(r), b[2] \in Range(bb), NEW n \in Nat, Stages(b) = n,
         NEW s, s = kernel[pos[b]]
  PROVE  /\ data'[b].rows = IF Has(s, "concat") THEN <<Row(b, n + 1)>> ELSE data[b].rows
         /\ s.tolead => data'[b].list = <<Row(b, n + 1)>>
         /\ Has(s, "minloc") => data'[b].pair \in Nat \X Nat
  <1>1. PICK Q : Q = Range(InOrder(r, bb))
    OBVIOUS
  <1>2. b \in Block /\ b \in Q
    BY <1>1, InOrderIs, BlocksAre
  <1>3. PICK c \in [Q -> {0, 1}] :
          data' = [x \in Block |-> IF x \in Q THEN Filled(x, c[x]) ELSE data[x]]
    BY <1>1 DEF RunKernels
  <1>4. c[b] \in {0, 1} /\ DOMAIN data[b] = Buffers
    BY <1>2, <1>3 DEF Types
  <1>5. data'[b] = Filled(b, c[b])
    BY <1>2, <1>3
  <1>6. c[b] \in Nat
    BY <1>4
  <1>. QED
    BY <1>2, <1>4, <1>5, <1>6, FilledBuffers

\* The root scatters in a stage that gathers nothing: it has gathered in the stage before.
LEMMA GatheredBefore ==
  ASSUME IInv, RInv, NEW r \in Rank, Root \in Blocks(r), Root \notin Ran(r),
         at[r] \in {"inner", "halo", "write"},
         NEW n, n = Stages(Root), pos[Root] \in DOMAIN kernel, kernel[pos[Root]].scatter
  PROVE  IsAllRows(data[Root].rows, n)
  <1>1. Types /\ StagesInv /\ n \in Nat /\ Root \in Block
    BY GaveIs, BlocksAre DEF IInv
  <1>2. PosAfter(Root, n) = pos[Root]
    BY <1>1 DEF PosAfter
  <1>3. n # 0
    <2>. SUFFICES ASSUME n = 0 PROVE FALSE
      OBVIOUS
    <2>1. pos[Root] = 1
      BY <1>1, <1>2 DEF RInv, Started
    <2>. QED
      BY <2>1, <1>1, KernelIs DEF Types
  <1>4. PICK p : p = gave[Root][n].stage
    OBVIOUS
  <1>5. p \in DOMAIN kernel /\ n \in 1 .. Stages(Root) /\ Made(Root, n) = kernel[p]
    BY <1>1, <1>3, <1>4 DEF Types, GaveOk, Made
  <1>6. pos[Root] = Chosen(p, gave[Root][n].number, gave[Root][n].sum)
    BY <1>1, <1>2, <1>4, <1>5 DEF StagesInv, Decided
  <1>7. pos[Root] \in After(kernel, p) \cap DOMAIN kernel
    BY <1>1, <1>5, <1>6, ChosenIs DEF Types
  <1>8. Has(Made(Root, n), "concat")
    BY <1>1, <1>5, <1>7, FollowingIs DEF Types
  <1>9. ~Pends(Root, "concat")
    <2>1. Root[1] = r
      BY BlocksAre
    <2>. QED
      BY <2>1 DEF Pends
  <1>10. RowsNow(Root)
    BY <1>1 DEF RInv, BuffersInv
  <1>. QED
    BY <1>8, <1>9, <1>10 DEF RowsNow

\* Some blocks of a rank run.
LEMMA RunResults ==
  ASSUME IInv, RInv, NEW r \in Rank, NEW bb \in Seq(Local), RunKernels(r, bb),
         NEW S, S = {b \in Blocks(r) : b[2] \in Range(bb)}, S \cap Ran(r) = {},
         at[r] \in {"inner", "halo", "write"},
         NEW x \in Places, at' = [at EXCEPT ![r] = x],
         NEW o \in Seq(Local), IsInjective(o), order' = [order EXCEPT ![r] = o],
         UNCHANGED <<setup, fields, sent, todo, entered, aborted>>,
         \A b \in S : \A op : Pends(b, op)',
         \A b \in Blocks(r) \ S : \A op : Pends(b, op)' <=> Pends(b, op)
  PROVE  RInv'
  <1>1. Types /\ Together(r)
    BY DEF IInv, RankInv
  <1>2. PICK n \in Nat : n = Base(r)
    BY <1>1, BaseIs
  <1>3. Advance(r, S, n) /\ Elsewhere(r) /\ Grown
    BY <1>2, RunStep
  <1>4. Started'
    <2>1. \A b \in Block : PosAfter(b, 0)' = PosAfter(b, 0)
      BY <1>1, <1>3, AdvanceGrows, GaveIs
    <2>. QED
      BY <2>1 DEF RInv, Started, Block, Rank, Local
  <1>5. entered'[r] = entered[r] /\ \A q \in Rank : EntriesKept(q)
    BY DEF EntriesKept
  <1>6. ASSUME NEW b \in S PROVE BuffersInv(b)'
    <2>1. /\ b \in Block /\ b \in Blocks(r) /\ b[2] \in Range(bb) /\ b \notin Ran(r) /\ BuffersInv(b)
      BY BlocksAre DEF RInv
    <2>2. PICK s : s = kernel[pos[b]]
      OBVIOUS
    <2>3. /\ Stages(b) = n /\ Stages(b)' = n + 1 /\ pos[b] \in DOMAIN kernel
          /\ \A k \in 1 .. n : gave'[b][k] = gave[b][k]
          /\ gave'[b][n + 1].data = data'[b]
      BY <1>3 DEF Advance
    <2>4. Made(b, n + 1)' = s
      BY <1>1, <1>3, <2>2, AdvanceGrows
    <2>5. /\ data'[b].rows = IF Has(s, "concat") THEN <<Row(b, n + 1)>> ELSE data[b].rows
          /\ s.tolead => data'[b].list = <<Row(b, n + 1)>>
          /\ Has(s, "minloc") => data'[b].pair \in Nat \X Nat
      BY <1>1, <2>1, <2>2, <2>3, RunBuffers
    <2>6. \A op : Pends(b, op)'
      OBVIOUS
    <2>7. GaveRight(b)'
      <3>. SUFFICES ASSUME NEW k \in 1 .. n + 1
           PROVE  LET t == Made(b, k)
                      g == gave[b][k].data
                  IN (/\ Has(t, "concat") => g.rows = <<Row(b, k)>>
                      /\ t.tolead => g.list = <<Row(b, k)>>
                      /\ Has(t, "minloc") => g.pair \in Nat \X Nat)'
        BY <2>3 DEF GaveRight
      <3>1. CASE k = n + 1
        BY <3>1, <2>3, <2>4, <2>5 DEF Has, Row
      <3>2. CASE k # n + 1
        <4>1. k \in 1 .. Stages(b) /\ gave'[b][k] = gave[b][k]
          BY <3>2, <2>3
        <4>2. Made(b, k)' = Made(b, k)
          BY <4>1, <1>1, <1>3, <2>1, StagesStay, GaveIs
        <4>. QED
          BY <4>1, <4>2, <2>1 DEF BuffersInv, GaveRight, Has, Row
      <3>. QED
        BY <3>1, <3>2
    <2>8. PairNow(b)'
      BY <2>3, <2>6 DEF PairNow
    <2>9. ObjectNow(b)'
      BY <2>3, <2>6 DEF ObjectNow
    <2>10. ListNow(b)'
      BY <2>3, <2>6 DEF ListNow
    <2>11. RowsNow(b)'
      <3>1. s.scatter /\ ~Has(s, "concat") /\ b = Root => IsAllRows(data'[b].rows, n)
        <4>. SUFFICES ASSUME s.scatter, ~Has(s, "concat"), b = Root
             PROVE  IsAllRows(data'[b].rows, n)
          OBVIOUS
        <4>1. IsAllRows(data[b].rows, n)
          BY <2>1, <2>2, <2>3, GatheredBefore
        <4>2. data'[b].rows = data[b].rows
          BY <2>5
        <4>. QED
          BY <4>1, <4>2
      <3>2. (n + 1) - 1 = n
        OBVIOUS
      <3>. QED
        BY <3>1, <3>2, <2>3, <2>4, <2>6 DEF RowsNow, IsAllRows, Row, Has, Root
    <2>12. RowNow(b)'
      BY <2>6 DEF RowNow
    <2>. QED
      BY <2>7, <2>8, <2>9, <2>10, <2>11, <2>12 DEF BuffersInv
  <1>7. ASSUME NEW b \in Blocks(r) \ S PROVE BuffersInv(b)'
    <2>1. b \in Block /\ BuffersInv(b)
      BY BlocksAre DEF RInv
    <2>2. data'[b] = data[b] /\ Stages(b)' = Stages(b)
      BY <2>1, <1>3 DEF Advance, Stages
    <2>. QED
      BY <2>1, <2>2, <1>1, <1>3, <1>5, BuffersStay
  <1>. QED
    BY <1>3, <1>4, <1>5, <1>6, <1>7, ResultsStep

\* The first part of an iteration.
LEMMA RunInnerResults ==
  ASSUME IInv, RInv, NEW r \in Rank, RunInner(r)
  PROVE  RInv'
  <1>1. Types
    BY DEF IInv
  <1>2. /\ at[r] = "inner" /\ RunKernels(r, Inner(r)) /\ order' = [order EXCEPT ![r] = Inner(r)]
        /\ at' = [at EXCEPT ![r] = "halo"]
        /\ UNCHANGED <<setup, fields, sent, todo, entered, aborted>>
    BY DEF RunInner
  <1>3. Inner(r) \in Seq(Local) /\ IsInjective(Inner(r))
    BY <1>1, EarlyOrLate, AllIs DEF Inner, Types
  <1>4. PICK S : S = {b \in Blocks(r) : b[2] \in Range(Inner(r))}
    OBVIOUS
  <1>5. at'[r] = "halo" /\ order'[r] = Inner(r)
    BY <1>1, <1>2 DEF Types
  <1>6. Ran(r) = {} /\ Ran(r)' = S
    BY <1>2, <1>4, <1>5 DEF Ran, Blocks
  <1>7. \A b \in S : \A op : Pends(b, op)'
    BY <1>4, <1>6, BlocksAre DEF Pends
  <1>8. \A b \in Blocks(r) \ S : \A op : Pends(b, op)' <=> Pends(b, op)
    BY <1>2, <1>5, <1>6, BlocksAre DEF Pends
  <1>9. "halo" \in Places /\ at[r] \in {"inner", "halo", "write"} /\ S \cap Ran(r) = {}
    BY <1>2, <1>6 DEF Places
  <1>. QED
    BY <1>2, <1>3, <1>4, <1>7, <1>8, <1>9, RunResults

\* The last part of an iteration.
LEMMA RunRestResults ==
  ASSUME IInv, RInv, NEW r \in Rank, at[r] \in {"halo", "write"},
         NEW bb \in Seq(Local), RunKernels(r, bb),
         NEW S, S = {b \in Blocks(r) : b[2] \in Range(bb)}, S \cap Ran(r) = {},
         S \cup Ran(r) = Blocks(r),
         at' = [at EXCEPT ![r] = "collect"],
         NEW o \in Seq(Local), IsInjective(o), order' = [order EXCEPT ![r] = o],
         UNCHANGED <<setup, fields, sent, todo, entered, aborted>>
  PROVE  RInv'
  <1>1. at'[r] = "collect"
    BY DEF IInv, Types
  <1>2. \A b \in Blocks(r) : \A op : Pends(b, op)'
    BY <1>1, BlocksAre DEF Pends
  <1>3. \A b \in Blocks(r) \ S : \A op : Pends(b, op)
    BY BlocksAre DEF Pends
  <1>4. "collect" \in Places /\ at[r] \in {"inner", "halo", "write"} /\ S \subseteq Blocks(r)
    BY DEF Places
  <1>. QED
    BY <1>2, <1>3, <1>4, RunResults

\* The blocks that have waited for messages run.
LEMMA RunHaloResults ==
  ASSUME IInv, RInv, NEW r \in Rank, RunHalo(r)
  PROVE  RInv'
  <1>1. PICK bb, S, o : /\ bb = Outer(r) /\ S = {b \in Blocks(r) : b[2] \in Range(Outer(r))}
                        /\ o = order[r] \o Outer(r)
    OBVIOUS
  <1>2. /\ at[r] = "halo" /\ RunKernels(r, bb) /\ order' = [order EXCEPT ![r] = o]
        /\ at' = [at EXCEPT ![r] = "collect"]
        /\ UNCHANGED <<setup, fields, sent, todo, entered, aborted>>
    BY <1>1 DEF RunHalo
  <1>3. /\ bb \in Seq(Local) /\ o \in Seq(Local) /\ IsInjective(o)
        /\ S \cap Ran(r) = {} /\ S \cup Ran(r) = Blocks(r)
    BY <1>1, <1>2, HaloRuns
  <1>. QED
    BY <1>1, <1>2, <1>3, RunRestResults

\* All blocks run after a dump.
LEMMA RunAllResults ==
  ASSUME IInv, RInv, NEW r \in Rank, RunAll(r)
  PROVE  RInv'
  <1>1. PICK bb : bb = All
    OBVIOUS
  <1>2. /\ at[r] = "write" /\ RunKernels(r, bb)
        /\ order' = [order EXCEPT ![r] = bb] /\ at' = [at EXCEPT ![r] = "collect"]
        /\ UNCHANGED <<setup, fields, sent, todo, entered, aborted>>
    BY <1>1 DEF RunAll
  <1>3. bb \in Seq(Local) /\ IsInjective(bb) /\ Range(bb) = Local
    BY <1>1, AllIs
  <1>4. PICK S : S = {b \in Blocks(r) : b[2] \in Range(bb)}
    OBVIOUS
  <1>5. S = Blocks(r) /\ Ran(r) = {}
    BY <1>2, <1>3, <1>4, BlocksAre DEF Ran
  <1>6. S \cap Ran(r) = {} /\ S \cup Ran(r) = Blocks(r) /\ at[r] \in {"halo", "write"}
    BY <1>2, <1>5
  <1>. QED
    BY <1>2, <1>3, <1>4, <1>6, RunRestResults

-----------------------------------------------------------------------------
(***************************************************************************)
(* Operations that are over.                                               *)
(***************************************************************************)
\* An operation is over: only its own is not to come any more.
LEMMA TakesOne ==
  ASSUME IInv, RInv, NEW r \in Rank, at[r] \in {"serve", "write"}, todo[r] # <<>>,
         todo' = [todo EXCEPT ![r] = Tail(@)], at' = at, fields' = fields, order' = order,
         UNCHANGED setup, pos' = pos, gave' = gave,
         \A q \in Rank \ {r} : entered'[q] = entered[q] /\ sum'[q] = sum[q],
         \A b \in Block : b[1] # r => data'[b] = data[b],
         EntriesKept(r), NEW op, op = Head(todo[r])
  PROVE  /\ Elsewhere(r) /\ Grown /\ Started' /\ \A q \in Rank : EntriesKept(q)
         /\ \A b \in Blocks(r) :
              /\ b \in Block /\ b[1] = r /\ Stages(b) = Base(r) /\ Stages(b)' = Stages(b) /\ BuffersInv(b)
              /\ \A o : o # op => (Pends(b, o)' <=> Pends(b, o))
              /\ at[r] = "serve" => ~Pends(b, op)'
  <1>1. Types /\ Together(r) /\ Placed(r)
    BY DEF IInv, RankInv
  <1>2. at'[r] = at[r] /\ todo'[r] = Tail(todo[r]) /\ \A q \in Rank \ {r} : todo'[q] = todo[q]
    BY <1>1 DEF Types
  <1>3. Elsewhere(r)
    BY <1>2 DEF Elsewhere
  <1>4. Grown
    <2>1. \A b \in Block : Stages(b)' = Stages(b) /\ Stages(b) \in Nat
      BY <1>1, GaveIs DEF Stages
    <2>. QED
      BY <2>1 DEF Grown, setup
  <1>5. Started'
    <2>1. \A b \in Block : PosAfter(b, 0)' = PosAfter(b, 0)
      BY StagesStill DEF setup
    <2>. QED
      BY <2>1 DEF RInv, Started, Block, Rank, Local
  <1>6. \A q \in Rank : EntriesKept(q)
    BY DEF EntriesKept
  <1>7. Ran(r) = {} /\ Ran(r)' = {}
    BY <1>2 DEF Ran
  <1>8. /\ at[r] = "serve" =>
             /\ op \notin Range(Tail(todo[r]))
             /\ \A o : o \in Range(todo[r]) <=> o = op \/ o \in Range(Tail(todo[r]))
    <2>. SUFFICES ASSUME at[r] = "serve"
         PROVE  /\ op \notin Range(Tail(todo[r]))
                /\ \A o : o \in Range(todo[r]) <=> o = op \/ o \in Range(Tail(todo[r]))
      OBVIOUS
    <2>1. IsPlan(Operations(Asked(r))) /\ todo[r] \in Seq(Op) /\ IsRest(Operations(Asked(r)), todo[r])
      BY Serving
    <2>. QED
      BY <2>1, RestIs
  <1>9. ASSUME NEW b \in Blocks(r)
        PROVE  /\ b \in Block /\ b[1] = r /\ Stages(b) = Base(r) /\ Stages(b)' = Stages(b) /\ BuffersInv(b)
               /\ \A o : o # op => (Pends(b, o)' <=> Pends(b, o))
               /\ at[r] = "serve" => ~Pends(b, op)'
    <2>1. b \in Block /\ b[1] = r
      BY BlocksAre
    <2>2. Stages(b) = Base(r) /\ Stages(b)' = Stages(b)
      BY <1>7, BlocksAlike DEF Stages
    <2>3. BuffersInv(b)
      BY <2>1 DEF RInv
    <2>4. \A o : o # op => (Pends(b, o)' <=> Pends(b, o))
      BY <2>1, <1>2, <1>7, <1>8 DEF Pends
    <2>5. at[r] = "serve" => ~Pends(b, op)'
      BY <2>1, <1>2, <1>7, <1>8 DEF Pends
    <2>. QED
      BY <2>1, <2>2, <2>3, <2>4, <2>5
  <1>. QED
    BY <1>3, <1>4, <1>5, <1>6, <1>9

\* Buffers that the operation does not write.
LEMMA OtherBuffers ==
  ASSUME Types, Grown, \A q \in Rank : EntriesKept(q), NEW b \in Block, Stages(b)' = Stages(b),
         BuffersInv(b), NEW op, \A o : o # op => (Pends(b, o)' <=> Pends(b, o))
  PROVE  /\ GaveRight(b)'
         /\ op # "minloc" /\ data'[b].pair = data[b].pair => PairNow(b)'
         /\ op \notin {"bcast", "fromlead"} /\ data'[b].object = data[b].object => ObjectNow(b)'
         /\ op # "tolead" /\ data'[b].list = data[b].list => ListNow(b)'
         /\ op # "concat" /\ data'[b].rows = data[b].rows => RowsNow(b)'
         /\ op # "scatter" /\ data'[b].row = data[b].row => RowNow(b)'
  <1>1. GaveRight(b)'
    BY GaveRightStays DEF BuffersInv
  <1>2. op # "minloc" /\ data'[b].pair = data[b].pair => PairNow(b)'
    BY PairStays DEF BuffersInv
  <1>3. op \notin {"bcast", "fromlead"} /\ data'[b].object = data[b].object => ObjectNow(b)'
    BY ObjectStays DEF BuffersInv
  <1>4. op # "tolead" /\ data'[b].list = data[b].list => ListNow(b)'
    BY ListStays DEF BuffersInv
  <1>5. op # "concat" /\ data'[b].rows = data[b].rows => RowsNow(b)'
    BY RowsStay DEF BuffersInv
  <1>6. op # "scatter" /\ data'[b].row = data[b].row => RowNow(b)'
    BY RowStays DEF BuffersInv
  <1>. QED
    BY <1>1, <1>2, <1>3, <1>4, <1>5, <1>6

\* Within a rank.
LEMMA WithinRankResults ==
  ASSUME IInv, RInv, NEW r \in Rank, WithinRank(r)
  PROVE  RInv'
  <1>1. Types
    BY DEF IInv
  <1>2. PICK n, s, op : n = Base(r) /\ s = Asked(r) /\ op = Head(todo[r])
    OBVIOUS
  <1>3. /\ at[r] = "serve" /\ todo[r] # <<>> /\ op \in OfRank
        /\ todo' = [todo EXCEPT ![r] = Tail(@)]
        /\ UNCHANGED setup /\ pos' = pos /\ gave' = gave
        /\ at' = at /\ fields' = fields /\ order' = order
        /\ sum' = sum /\ entered' = entered
    BY <1>2 DEF WithinRank
  <1>4. DOMAIN data = Block /\ \A b \in Block : DOMAIN data[b] = Buffers
    BY <1>1 DEF Types
  <1>5. /\ n \in Nat \ {0}
        /\ \A b \in Blocks(r) :
             /\ b \in Block /\ b[1] = r /\ Stages(b) = n /\ n \in 1 .. Stages(b) /\ Made(b, n) = s
             /\ \A o : Pends(b, o) <=> o \in Range(todo[r])
        /\ op \in Range(todo[r])
        /\ op = "tolead" => s.tolead
        /\ op = "fromlead" => s.fromlead
        /\ \A o \in Range(todo[r]) : Turn(op) <= Turn(o)
    BY <1>2, <1>3, ServesOperation
  <1>6. ASSUME NEW b \in Block, b[1] # r PROVE data'[b] = data[b]
    <2>1. b # Lead(r) /\ b \notin Blocks(r)
      BY <1>6, BlocksAre
    <2>. QED
      BY <2>1, <1>4 DEF WithinRank
  <1>7. EntriesKept(r) /\ DOMAIN entered'[r] = DOMAIN entered[r]
    BY <1>3 DEF EntriesKept
  <1>8. /\ Elsewhere(r) /\ Grown /\ Started' /\ \A q \in Rank : EntriesKept(q)
        /\ \A b \in Blocks(r) :
             /\ Stages(b)' = Stages(b) /\ BuffersInv(b)
             /\ \A o : o # op => (Pends(b, o)' <=> Pends(b, o))
             /\ ~Pends(b, op)'
    BY <1>2, <1>3, <1>6, <1>7, TakesOne
  <1>9. \A b \in Blocks(r) : Made(b, n)' = s /\ Stages(b)' = n
    BY <1>3, <1>5, <1>8 DEF Made, setup
  <1>10. CASE op = "tolead"
    <2>1. PICK v : v = FlattenSeq([i \in DOMAIN order[r] |-> data[<<r, order[r][i]>>].list])
      OBVIOUS
    <2>2. data' = [data EXCEPT ![Lead(r)].list = v]
      BY <2>1, <1>2, <1>10 DEF WithinRank
    <2>3. ASSUME NEW b \in Blocks(r)
          PROVE  /\ data'[b].pair = data[b].pair /\ data'[b].object = data[b].object
                 /\ data'[b].rows = data[b].rows /\ data'[b].row = data[b].row
                 /\ b = Lead(r) => data'[b].list = v
      BY <2>2, <1>4, <1>5 DEF Buffers
    <2>4. \A b \in Blocks(r) : data[b].list = <<Row(b, n)>>
      <3>. SUFFICES ASSUME NEW b \in Blocks(r) PROVE data[b].list = <<Row(b, n)>>
        OBVIOUS
      <3>1. data[b].list = gave[b][n].data.list
        BY <1>5, <1>8, <1>10 DEF BuffersInv, ListNow
      <3>2. gave[b][n].data.list = <<Row(b, n)>>
        BY <1>5, <1>8, <1>10 DEF BuffersInv, GaveRight
      <3>. QED
        BY <3>1, <3>2
    <2>5. IsRankRows(v, r, n)
      <3>1. order[r] = All
        BY <1>2, <1>3, <1>5, <1>10, OrderIsAll
      <3>2. PICK f : f = [b \in Block |-> data[b].list]
        OBVIOUS
      <3>3. \A i \in Local : <<r, i>> \in Blocks(r) /\ <<r, i>> \in Block
        BY BlocksAre
      <3>4. \A i \in Local : f[<<r, i>>] = <<Row(<<r, i>>, n)>>
        BY <2>4, <3>2, <3>3
      <3>5. IsRankRows(FlattenSeq([i \in DOMAIN All |-> f[<<r, All[i]>>]]), r, n)
        BY <3>4, <1>5, PiecesAre
      <3>6. \A i \in DOMAIN All : All[i] \in Local
        BY AllIs
      <3>7. [i \in DOMAIN All |-> f[<<r, All[i]>>]]
              = [i \in DOMAIN order[r] |-> data[<<r, order[r][i]>>].list]
        BY <3>1, <3>2, <3>3, <3>6
      <3>. QED
        BY <2>1, <3>5, <3>7
    <2>6. ASSUME NEW b \in Blocks(r) PROVE BuffersInv(b)'
      <3>1. /\ GaveRight(b)' /\ PairNow(b)' /\ ObjectNow(b)' /\ RowsNow(b)' /\ RowNow(b)'
        BY <2>3, <1>1, <1>5, <1>8, <1>10, OtherBuffers
      <3>2. ListNow(b)'
        <4>1. b = Lead(b[1])' => IsRankRows(data'[b].list, r, n)
          BY <2>3, <2>5, <1>5 DEF Lead
        <4>. QED
          BY <4>1, <1>5, <1>8, <1>9, <1>10 DEF ListNow, IsRankRows, Row, Lead
      <3>. QED
        BY <3>1, <3>2 DEF BuffersInv
    <2>. QED
      BY <2>6, <1>7, <1>8, ResultsStep
  <1>11. CASE op = "fromlead"
    <2>1. data' = [b \in Block |-> IF b \in Blocks(r)
                     THEN [data[b] EXCEPT !.object = data[Lead(r)].object] ELSE data[b]]
      BY <1>2, <1>11 DEF WithinRank
    <2>2. ASSUME NEW b \in Blocks(r)
          PROVE  /\ data'[b].pair = data[b].pair /\ data'[b].list = data[b].list
                 /\ data'[b].rows = data[b].rows /\ data'[b].row = data[b].row
                 /\ data'[b].object = data[Lead(r)].object
      BY <2>1, <1>4, <1>5 DEF Buffers
    <2>3. "bcast" \notin Range(todo[r])
      BY <1>5, <1>11, TurnIs
    <2>4. PICK l \in Blocks(r) : l = Lead(r)
      BY BlocksAre
    <2>5. ~s.bcast => data[l].object = gave[l][n].data.object
      BY <1>5, <1>8, <1>11 DEF BuffersInv, ObjectNow
    <2>6. ASSUME NEW b \in Blocks(r) PROVE BuffersInv(b)'
      <3>1. /\ GaveRight(b)' /\ PairNow(b)' /\ ListNow(b)' /\ RowsNow(b)' /\ RowNow(b)'
        BY <2>2, <1>1, <1>5, <1>8, <1>11, OtherBuffers
      <3>2. ObjectNow(b)'
        <4>1. s.fromlead /\ ~Pends(b, "bcast")' /\ ~Pends(b, "fromlead")'
          <5>1. ~Pends(b, "bcast")
            BY <2>3, <1>5
          <5>. QED
            BY <5>1, <1>5, <1>8, <1>11
        <4>2. Lead(b[1])' = l /\ n <= Stages(l)'
          BY <2>4, <1>5, <1>9 DEF Lead
        <4>3. ~s.bcast => data'[b].object = gave'[l][n].data.object
          BY <2>2, <2>4, <2>5, <1>3
        <4>. QED
          BY <4>1, <4>2, <4>3, <1>9 DEF ObjectNow
      <3>. QED
        BY <3>1, <3>2 DEF BuffersInv
    <2>. QED
      BY <2>6, <1>7, <1>8, ResultsStep
  <1>. QED
    BY <1>3, <1>10, <1>11 DEF OfRank

\* The buffers d that a call leaves to a block, by the data g of all ranks.
IsWritten(d, b, r, op, g) ==
  /\ d.list = data[b].list
  /\ d.pair = IF op = "minloc" /\ b[1] = r THEN LeastPair(Range(g)) ELSE data[b].pair
  /\ d.object = IF op = "bcast" /\ b[1] = r THEN g[0] ELSE data[b].object
  /\ d.row = IF op = "scatter" /\ b[1] = r THEN g[0][Share(b)] ELSE data[b].row
  /\ d.rows = IF op = "concat" /\ r = 0 /\ b = <<0, Head(order[0])>>
              THEN FlattenSeq([s \in 1 .. nranks |-> g[s - 1]]) ELSE data[b].rows
  /\ b[1] # r => d = data[b]

\* Written does so.
LEMMA WrittenBuffers ==
  ASSUME Types, NEW r \in Rank, NEW op, NEW b \in Block
  PROVE  IsWritten(Written(r, op)[b], b, r, op, Matching(r))
  <1>. PICK g, w : g = Matching(r) /\ w = Written(r, op)
    OBVIOUS
  <1>. SUFFICES IsWritten(w[b], b, r, op, g)
    OBVIOUS
  <1>1. DOMAIN data = Block /\ DOMAIN data[b] = Buffers
    BY DEF Types
  <1>2. CASE op = "max"
    <2>1. PICK m : m = Max(Range(g))
      OBVIOUS
    <2>2. w = [c \in Block |-> IF c[1] = r THEN [data[c] EXCEPT !.number = m] ELSE data[c]]
      BY <1>2, <2>1 DEF Written, Numbered
    <2>. QED
      BY <1>1, <1>2, <2>2 DEF Buffers, IsWritten
  <1>3. CASE op = "minloc"
    <2>1. PICK m : m = LeastPair(Range(g))
      OBVIOUS
    <2>2. w = [c \in Block |-> IF c[1] = r THEN [data[c] EXCEPT !.pair = m] ELSE data[c]]
      BY <1>3, <2>1 DEF Written
    <2>. QED
      BY <1>1, <1>3, <2>1, <2>2 DEF Buffers, IsWritten
  <1>4. CASE op = "concat" /\ r = 0
    <2>1. PICK c, v : c = <<0, Head(order[0])>> /\ v = FlattenSeq([s \in 1 .. nranks |-> g[s - 1]])
      OBVIOUS
    <2>2. w = [data EXCEPT ![c].rows = v] /\ c[1] = 0
      BY <1>4, <2>1 DEF Written
    <2>3. w[b] = IF b = c THEN [data[b] EXCEPT !.rows = v] ELSE data[b]
      BY <2>2, <1>1
    <2>. QED
      BY <1>1, <1>4, <2>1, <2>2, <2>3 DEF Buffers, IsWritten
  <1>5. CASE op = "scatter"
    <2>1. w = [c \in Block |-> IF c[1] = r THEN [data[c] EXCEPT !.row = g[0][Share(c)]] ELSE data[c]]
      BY <1>5 DEF Written
    <2>. QED
      BY <1>1, <1>5, <2>1 DEF Buffers, IsWritten
  <1>6. CASE op = "bcast"
    <2>1. w = [c \in Block |-> IF c[1] = r THEN [data[c] EXCEPT !.object = g[0]] ELSE data[c]]
      BY <1>6 DEF Written
    <2>. QED
      BY <1>1, <1>6, <2>1 DEF Buffers, IsWritten
  <1>7. CASE op \notin {"max", "minloc", "scatter", "bcast"} /\ ~(op = "concat" /\ r = 0)
    <2>1. w = data
      BY <1>7 DEF Written
    <2>. QED
      BY <1>7, <2>1 DEF IsWritten
  <1>. QED
    BY <1>2, <1>3, <1>4, <1>5, <1>6, <1>7

\* The calls that match the one that a rank leaves.
LEMMA LeaveMatches ==
  ASSUME IInv, RInv, NEW r \in Rank, Leave(r), NEW k, k = Len(entered[r]), NEW op, op = Head(todo[r]),
         NEW q \in Rank,
         \/ op = "minloc"
         \/ op = "concat" /\ r = 0
         \/ op \in {"scatter", "bcast"} /\ q = 0
  PROVE  /\ k \in DOMAIN entered[q] /\ entered[q][k].stage = Base(r) /\ Head(entered[q][k].todo) = op
         /\ Base(r) \in 1 .. Base(q) /\ EntryRight(q, k)
  <1>1. Entered(r) /\ CanLeave(r) /\ Types
    BY DEF Leave, IInv
  <1>2. /\ k \in DOMAIN entered[r] /\ entered[r][k].todo = todo[r] /\ entered[r][k].stage = Base(r)
        /\ entered[r][k].op = Call(op)
    BY <1>1, OpenIs
  <1>3. Len(entered[q]) >= k
    BY <1>1, <1>2 DEF CanLeave, Call
  <1>4. Len(entered[q]) \in Nat /\ Len(entered[r]) \in Nat
    BY <1>1, SeqIs DEF Types, EnteredOk
  <1>5. k <= Len(entered[q])
    BY <1>3, <1>4
  <1>. QED
    BY <1>2, <1>5, MatchIs DEF RInv

\* The root has the vectors of all blocks when it has those of all ranks.
LEMMA RowsOfRanks ==
  ASSUME NEW n \in Nat \ {0}, NEW g, \A q \in Rank : IsRankRows(g[q], q, n)
  PROVE  IsAllRows(FlattenSeq([s \in 1 .. nranks |-> g[s - 1]]), n)
  <1>1. PICK pieces, m, w, T : /\ pieces = [s \in 1 .. nranks |-> g[s - 1]]
                               /\ m = nranks /\ w = nblocks /\ T = Rows
    OBVIOUS
  <1>2. m \in Nat \ {0} /\ w \in Nat \ {0} /\ \A i \in 1 .. m : i - 1 \in Rank
    BY <1>1, MeshAssumption DEF Rank
  <1>3. \A i \in 1 .. m : pieces[i] \in Seq(T) /\ Len(pieces[i]) = w
    BY <1>1, <1>2 DEF IsRankRows
  <1>4. pieces \in [1 .. m -> Seq(T)]
    BY <1>1, <1>3
  <1>5. /\ FlattenSeq(pieces) \in Seq(T) /\ Len(FlattenSeq(pieces)) = m * w
        /\ \A i \in 1 .. m, j \in 1 .. w : FlattenSeq(pieces)[(i - 1) * w + j] = pieces[i][j]
    <2>1. IsFlat(FlattenSeq(pieces), pieces, T, m, w)
      BY <1>2, <1>3, <1>4, FlattenIs
    <2>. QED
      BY <2>1 DEF IsFlat
  <1>6. ASSUME NEW b \in Block PROVE FlattenSeq(pieces)[Place(b)] = Row(b, n)
    <2>1. PICK q, i : q = b[1] /\ i = b[2]
      OBVIOUS
    <2>2. q \in Rank /\ i \in Local /\ b = <<q, i>>
      BY <2>1, BlocksAre
    <2>3. q + 1 \in 1 .. m /\ i + 1 \in 1 .. w /\ (q + 1) - 1 = q
      BY <2>2, <1>1, MeshAssumption DEF Rank, Local
    <2>4. FlattenSeq(pieces)[((q + 1) - 1) * w + (i + 1)] = pieces[q + 1][i + 1]
      BY <2>3, <1>5
    <2>5. pieces[q + 1] = g[q]
      BY <2>3, <1>1
    <2>6. g[q][i + 1] = Row(b, n)
      BY <2>2 DEF IsRankRows
    <2>7. Place(b) = ((q + 1) - 1) * w + (i + 1)
      <3>1. PICK a : a = q * w
        OBVIOUS
      <3>2. a \in Int /\ i \in Int
        BY <3>1, <2>2, <1>2 DEF Rank, Local
      <3>3. Place(b) = a + i + 1
        BY <3>1, <2>1, <1>1 DEF Place
      <3>4. a + i + 1 = a + (i + 1)
        BY <3>2
      <3>. QED
        BY <3>1, <3>3, <3>4, <2>3
    <2>. QED
      BY <2>4, <2>5, <2>6, <2>7
  <1>. QED
    BY <1>1, <1>5, <1>6 DEF IsAllRows

\* A block gets the vector of its own place.
LEMMA ShareIsPlace ==
  ASSUME NEW b \in Block, order[b[1]] = All
  PROVE  Share(b) = Place(b)
  <1>1. PICK i : i = CHOOSE j \in DOMAIN order[b[1]] : order[b[1]][j] = b[2]
    OBVIOUS
  <1>2. nblocks \in Nat /\ DOMAIN All = 1 .. nblocks /\ \A j \in 1 .. nblocks : All[j] = j - 1
    BY MeshAssumption DEF All
  <1>3. b[2] + 1 \in 1 .. nblocks /\ (b[2] + 1) - 1 = b[2] /\ b[2] \in Int /\ b[1] \in Int
    <2>1. b[1] \in Rank /\ b[2] \in Local
      BY BlocksAre
    <2>. QED
      BY <2>1, <1>2 DEF Local, Rank
  <1>4. i \in 1 .. nblocks /\ All[i] = b[2]
    <2>1. \E j \in DOMAIN order[b[1]] : order[b[1]][j] = b[2]
      BY <1>2, <1>3
    <2>. QED
      BY <2>1, <1>1, <1>2
  <1>5. i = b[2] + 1
    BY <1>2, <1>3, <1>4
  <1>6. Share(b) = b[1] * nblocks + i
    BY <1>1 DEF Share
  <1>7. PICK a : a = b[1] * nblocks
    OBVIOUS
  <1>8. a \in Int
    BY <1>2, <1>3, <1>7
  <1>. QED
    BY <1>3, <1>5, <1>6, <1>7, <1>8 DEF Place

\* A rank leaves a call.
LEMMA LeaveResults ==
  ASSUME IInv, RInv, NEW r \in Rank, Leave(r)
  PROVE  RInv'
  <1>1. Types
    BY DEF IInv
  <1>2. PICK n, s, op, k, g : /\ n = Base(r) /\ s = Asked(r) /\ op = Head(todo[r])
                              /\ k = Len(entered[r]) /\ g = Matching(r)
    OBVIOUS
  <1>3. /\ Entered(r) /\ data' = Written(r, op)
        /\ entered' = [entered EXCEPT ![r][k].open = FALSE]
        /\ todo' = [todo EXCEPT ![r] = Tail(@)]
        /\ UNCHANGED setup /\ pos' = pos /\ gave' = gave
        /\ at' = at /\ fields' = fields /\ order' = order
        /\ \A q \in Rank \ {r} : sum'[q] = sum[q]
    <2>1. sum' = IF op = "shared" THEN [sum EXCEPT ![r] = Max(Range(Matching(r)))] ELSE sum
      BY <1>2 DEF Leave
    <2>2. \A q \in Rank \ {r} : sum'[q] = sum[q]
      BY <2>1, <1>1 DEF Types
    <2>. QED
      BY <2>2, <1>2 DEF Leave
  <1>4. at[r] \in {"serve", "write"} /\ todo[r] # <<>> /\ k \in DOMAIN entered[r]
    BY <1>2, <1>3, OpenIs
  <1>5. /\ \A q \in Rank \ {r} : entered'[q] = entered[q]
        /\ EntriesKept(r) /\ DOMAIN entered'[r] = DOMAIN entered[r]
    <2>1. DOMAIN entered = Rank /\ \A l \in DOMAIN entered[r] : DOMAIN entered[r][l] = CallFields
      BY <1>1 DEF Types, EnteredOk
    <2>2. PICK e : e = [entered[r][k] EXCEPT !.open = FALSE]
      OBVIOUS
    <2>3. entered' = [entered EXCEPT ![r] = [entered[r] EXCEPT ![k] = e]]
      BY <2>1, <2>2, <1>3
    <2>4. entered'[r] = [entered[r] EXCEPT ![k] = e] /\ \A q \in Rank \ {r} : entered'[q] = entered[q]
      BY <2>1, <2>3
    <2>5. /\ e.data = entered[r][k].data /\ e.stage = entered[r][k].stage
          /\ e.todo = entered[r][k].todo
      BY <2>1, <2>2, <1>4 DEF CallFields
    <2>. QED
      BY <2>4, <2>5, <1>4 DEF EntriesKept
  <1>6. ASSUME NEW b \in Block
        PROVE  /\ data'[b].list = data[b].list
               /\ data'[b].pair = IF op = "minloc" /\ b[1] = r THEN LeastPair(Range(g)) ELSE data[b].pair
               /\ data'[b].object = IF op = "bcast" /\ b[1] = r THEN g[0] ELSE data[b].object
               /\ data'[b].row = IF op = "scatter" /\ b[1] = r THEN g[0][Share(b)] ELSE data[b].row
               /\ data'[b].rows = IF op = "concat" /\ r = 0 /\ b = <<0, Head(order[0])>>
                                  THEN FlattenSeq([q \in 1 .. nranks |-> g[q - 1]]) ELSE data[b].rows
               /\ b[1] # r => data'[b] = data[b]
    <2>1. IsWritten(data'[b], b, r, op, g)
      BY <1>1, <1>2, <1>3, WrittenBuffers
    <2>. QED
      BY <2>1 DEF IsWritten
  <1>7. /\ Elsewhere(r) /\ Grown /\ Started' /\ \A q \in Rank : EntriesKept(q)
        /\ \A b \in Blocks(r) :
             /\ b \in Block /\ b[1] = r /\ Stages(b) = n /\ Stages(b)' = Stages(b) /\ BuffersInv(b)
             /\ \A o : o # op => (Pends(b, o)' <=> Pends(b, o))
             /\ at[r] = "serve" => ~Pends(b, op)'
    <2>1. \A b \in Block : b[1] # r => data'[b] = data[b]
      BY <1>6
    <2>. QED
      BY <2>1, <1>2, <1>3, <1>4, <1>5, TakesOne
  <1>8. at[r] = "write" => op = "dump"
    BY <1>2, <1>4, HeadIs DEF Operation
  <1>9. at[r] = "serve" =>
          /\ n \in Nat \ {0} /\ \A b \in Blocks(r) : n \in 1 .. Stages(b) /\ Made(b, n) = s
          /\ op \in Reduction => Has(s, op)
          /\ op = "scatter" => s.scatter
          /\ op = "bcast" => s.bcast
          /\ op \in Op
    BY <1>2, <1>4, ServesOperation
  <1>10. \A b \in Blocks(r) : Made(b, n)' = Made(b, n) /\ Stages(b)' = n
    BY <1>3, <1>7 DEF Made, setup
  <1>11. op \notin OfRank
    <2>1. CallMade(r, k) /\ entered[r][k].todo = todo[r] /\ entered[r][k].stage = n
      BY <1>2, <1>3, OpenIs
    <2>2. IsCall(Lead(r), n, Left(entered[r][k])) /\ op = Operation(Lead(r), n, Left(entered[r][k]))
      BY <2>1, <1>2 DEF CallMade
    <2>. QED
      BY <2>2 DEF IsCall, OfRank, Operation
  <1>12. ASSUME NEW b \in Blocks(r)
         PROVE  /\ GaveRight(b)' /\ ListNow(b)'
                /\ op # "minloc" => PairNow(b)'
                /\ op # "bcast" => ObjectNow(b)'
                /\ op # "concat" => RowsNow(b)'
                /\ op # "scatter" => RowNow(b)'
    <2>1. op # "tolead" /\ op # "fromlead"
      BY <1>11 DEF OfRank
    <2>2. b \in Block /\ Stages(b)' = Stages(b) /\ BuffersInv(b)
          /\ \A o : o # op => (Pends(b, o)' <=> Pends(b, o))
      BY <1>7
    <2>3. /\ data'[b].list = data[b].list
          /\ op # "minloc" => data'[b].pair = data[b].pair
          /\ op # "bcast" => data'[b].object = data[b].object
          /\ op # "concat" => data'[b].rows = data[b].rows
          /\ op # "scatter" => data'[b].row = data[b].row
      BY <2>2, <1>6
    <2>. QED
      BY <2>1, <2>2, <2>3, <1>1, <1>7, OtherBuffers
  <1>13. ASSUME op = "minloc", NEW b \in Blocks(r) PROVE PairNow(b)'
    <2>1. PairsMeet(k, n)
      BY <1>2, <1>13, LeaveMatches DEF PairsMeet
    <2>2. Range(g) = {entered[q][k].data : q \in Rank}
      BY <1>2 DEF Matching, Range
    <2>3. data'[b].pair = LeastOf(k)
      BY <2>2, <1>6, <1>7, <1>13 DEF LeastOf
    <2>4. ~Pends(b, "minloc")'
      BY <1>4, <1>7, <1>8, <1>13
    <2>5. ASSUME NEW q \in Rank
          PROVE  /\ k \in DOMAIN entered'[q] /\ entered'[q][k].stage = entered[q][k].stage
                 /\ entered'[q][k].data = entered[q][k].data /\ entered'[q][k].todo = entered[q][k].todo
      BY <2>1, <1>7 DEF PairsMeet, EntriesKept
    <2>6. PairsMeet(k, n)'
      BY <2>1, <2>5 DEF PairsMeet, Rank
    <2>7. LeastOf(k)' = LeastOf(k)
      <3>1. {entered'[q][k].data : q \in Rank} = {entered[q][k].data : q \in Rank}
        BY <2>5
      <3>2. LeastOf(k)' = LeastPair({entered'[q][k].data : q \in Rank})
        BY DEF LeastOf, LeastPair, Rank
      <3>. QED
        BY <3>1, <3>2 DEF LeastOf
    <2>8. k \in DOMAIN entered'[b[1]]
      BY <1>7, <2>5
    <2>. QED
      BY <2>3, <2>4, <2>6, <2>7, <2>8, <1>10 DEF PairNow
  <1>14. ASSUME op = "concat", NEW b \in Blocks(r) PROVE RowsNow(b)'
    <2>1. at[r] = "serve" /\ Has(s, "concat") /\ ~Pends(b, "concat")'
      BY <1>4, <1>7, <1>8, <1>9, <1>14 DEF Reduction
    <2>2. Has(Made(b, n)', "concat")
      BY <2>1, <1>9, <1>10
    <2>3. b = Root => AllGave(n)' /\ IsAllRows(data'[b].rows, n)
      <3>. SUFFICES ASSUME b = Root PROVE AllGave(n)' /\ IsAllRows(data'[b].rows, n)
        OBVIOUS
      <3>1. r = 0
        BY <1>7, BlocksAre DEF Root
      <3>2. order[r] = All
        BY <2>1, <1>2, OrderIsAll
      <3>3. Head(All) = 0
        BY MeshAssumption DEF All
      <3>4. b = <<0, Head(order[0])>>
        BY <3>1, <3>2, <3>3 DEF Root
      <3>5. \A q \in Rank : IsRankRows(g[q], q, n)
        <4>. SUFFICES ASSUME NEW q \in Rank PROVE IsRankRows(g[q], q, n)
          OBVIOUS
        <4>1. /\ entered[q][k].stage = n /\ Head(entered[q][k].todo) = "concat" /\ EntryRight(q, k)
          BY <3>1, <1>2, <1>14, LeaveMatches
        <4>2. g[q] = entered[q][k].data
          BY <1>2 DEF Matching
        <4>. QED
          BY <4>1, <4>2 DEF EntryRight
      <3>6. IsAllRows(FlattenSeq([q \in 1 .. nranks |-> g[q - 1]]), n)
        BY <2>1, <3>5, <1>9, RowsOfRanks
      <3>7. ASSUME NEW c \in Block PROVE n <= Stages(c)'
        <4>1. c[1] \in Rank /\ c \in Blocks(c[1]) /\ Together(c[1])
          BY BlocksAre DEF IInv, RankInv
        <4>2. n \in 1 .. Base(c[1])
          BY <4>1, <3>1, <1>2, <1>14, LeaveMatches
        <4>3. Base(c[1]) <= Stages(c) /\ Base(c[1]) \in Nat /\ Stages(c) \in Nat
          BY <4>1, <1>1, BaseIs
        <4>4. Stages(c)' = Stages(c)
          BY <1>3 DEF Stages
        <4>. QED
          BY <4>2, <4>3, <4>4
      <3>8. AllGave(n)'
        BY <3>7 DEF AllGave, Block, Rank, Local
      <3>. QED
        BY <3>1, <3>4, <3>6, <3>8, <1>6, <1>7, <1>14
    <2>. QED
      BY <2>1, <2>2, <2>3, <1>10 DEF RowsNow, IsAllRows, Row, Has, Root
  <1>15. ASSUME op = "scatter", NEW b \in Blocks(r) PROVE RowNow(b)'
    <2>1. at[r] = "serve" /\ s.scatter
      BY <1>4, <1>8, <1>9, <1>15
    <2>2. order[b[1]] = All /\ b[1] = r
      BY <2>1, <1>2, <1>7, OrderIsAll
    <2>3. Share(b) = Place(b)
      BY <2>2, <1>7, ShareIsPlace
    <2>4. 0 \in Rank
      BY BlocksAre
    <2>5. Head(entered[0][k].todo) = "scatter" /\ EntryRight(0, k)
      BY <2>4, <1>2, <1>15, LeaveMatches
    <2>6. entered[0][k].data[Place(b)][1] = Id[b]
      BY <2>5, <1>7 DEF EntryRight
    <2>7. g[0] = entered[0][k].data
      BY <2>4, <1>2 DEF Matching
    <2>8. data'[b].row[1] = Id[b]
      BY <2>2, <2>3, <2>6, <2>7, <1>6, <1>7, <1>15
    <2>. QED
      BY <2>8 DEF RowNow
  <1>16. ASSUME op = "bcast", NEW b \in Blocks(r) PROVE ObjectNow(b)'
    <2>1. at[r] = "serve" /\ s.bcast /\ ~Pends(b, "bcast")'
      BY <1>4, <1>7, <1>8, <1>9, <1>16
    <2>2. 0 \in Rank /\ Root \in Blocks(0) /\ Root' = Root
      BY BlocksAre DEF Root, Lead
    <2>3. /\ Head(entered[0][k].todo) = "bcast" /\ EntryRight(0, k) /\ entered[0][k].stage = n
          /\ n \in 1 .. Base(0)
      BY <2>2, <1>2, <1>16, LeaveMatches
    <2>4. entered[0][k].data = gave[Root][n].data.object
      BY <2>3 DEF EntryRight
    <2>5. g[0] = entered[0][k].data
      BY <2>2, <1>2 DEF Matching
    <2>6. data'[b].object = gave'[Root][n].data.object
      BY <2>4, <2>5, <1>3, <1>6, <1>7, <1>16
    <2>7. n <= Stages(Root)'
      <3>1. Together(0)
        BY <2>2 DEF IInv, RankInv
      <3>2. Base(0) <= Stages(Root) /\ Base(0) \in Nat /\ Stages(Root) \in Nat
        BY <3>1, <2>2, <1>1, BaseIs
      <3>3. Stages(Root)' = Stages(Root)
        BY <1>3 DEF Stages, Root
      <3>. QED
        BY <3>2, <3>3, <2>3
    <2>8. Made(b, n)'.bcast
      BY <2>1, <1>9, <1>10
    <2>. QED
      BY <2>1, <2>2, <2>6, <2>7, <2>8, <1>10 DEF ObjectNow
  <1>17. \A b \in Blocks(r) : BuffersInv(b)'
    BY <1>12, <1>13, <1>14, <1>15, <1>16 DEF BuffersInv
  <1>. QED
    BY <1>5, <1>7, <1>17, ResultsStep

-----------------------------------------------------------------------------
(***************************************************************************)
(* The invariant.                                                          *)
(***************************************************************************)
LEMMA InitRInv == Init => RInv
  <1>. SUFFICES ASSUME Init PROVE RInv
    OBVIOUS
  <1>1. \A b \in Block : gave[b] = <<>> /\ pos[b] = 1
    BY DEF Init
  <1>2. \A r \in Rank : entered[r] = <<>>
    BY DEF Init
  <1>3. ASSUME NEW b \in Block PROVE Stages(b) = 0 /\ Made(b, 0) = Nothing /\ PosAfter(b, 0) = 1
    BY <1>1 DEF Stages, Made, PosAfter
  <1>4. ASSUME NEW b \in Block PROVE BuffersInv(b)
    <2>1. Made(b, Stages(b)) = Nothing
      BY <1>3
    <2>2. GaveRight(b)
      BY <1>3 DEF GaveRight
    <2>3. PairNow(b)
      BY <2>1, NoRequests, Zenon DEF PairNow
    <2>4. ObjectNow(b)
      BY <2>1, NoRequests, Zenon DEF ObjectNow
    <2>5. ListNow(b)
      BY <2>1, NoRequests, Zenon DEF ListNow
    <2>6. RowsNow(b)
      BY <2>1, NoRequests, Zenon DEF RowsNow
    <2>7. RowNow(b)
      BY <2>1, NoRequests, Zenon DEF RowNow
    <2>. QED
      BY <2>2, <2>3, <2>4, <2>5, <2>6, <2>7 DEF BuffersInv
  <1>. QED
    BY <1>2, <1>3, <1>4 DEF RInv, Started

\* Nothing happens.
LEMMA StutterRInv == RInv /\ UNCHANGED vars => RInv'
  <1>. SUFFICES ASSUME RInv, UNCHANGED vars PROVE RInv'
    OBVIOUS
  <1>1. UNCHANGED <<kernel, early, late>> /\ UNCHANGED <<at, order, todo, entered, pos, data, gave>>
    BY DEF vars, setup, runvars, blockvars
  <1>2. \A b, k : Stages(b)' = Stages(b) /\ Made(b, k)' = Made(b, k) /\ PosAfter(b, k)' = PosAfter(b, k)
                  /\ AllGave(k)' = AllGave(k)
    BY <1>1, StagesStill
  <1>3. \A b, op : Pends(b, op)' = Pends(b, op)
    BY <1>1 DEF Pends, Ran, Blocks, Block, Rank, Local
  <1>4. /\ \A k : LeastOf(k)' = LeastOf(k)
        /\ \A k, n : PairsMeet(k, n)' = PairsMeet(k, n)
    BY <1>1 DEF LeastOf, PairsMeet, Rank
  <1>5. Root' = Root /\ \A r : Lead(r)' = Lead(r)
    BY DEF Root, Lead
  <1>6. ASSUME NEW b \in Block PROVE BuffersInv(b)'
    <2>1. BuffersInv(b) /\ Stages(b)' = Stages(b) /\ Made(b, Stages(b))' = Made(b, Stages(b))
      BY <1>2 DEF RInv
    <2>2. GaveRight(b)'
      BY <2>1, <1>1, <1>2 DEF BuffersInv, GaveRight, Has, Row
    <2>3. PairNow(b)'
      BY <2>1, <1>1, <1>2, <1>3, <1>4 DEF BuffersInv, PairNow
    <2>4. ObjectNow(b)'
      BY <2>1, <1>1, <1>2, <1>3, <1>5 DEF BuffersInv, ObjectNow
    <2>5. ListNow(b)'
      BY <2>1, <1>1, <1>2, <1>3, <1>5 DEF BuffersInv, ListNow, IsRankRows, Row
    <2>6. RowsNow(b)'
      BY <2>1, <1>1, <1>2, <1>3, <1>5 DEF BuffersInv, RowsNow, IsAllRows, Row, Has
    <2>7. RowNow(b)'
      BY <2>1, <1>1, <1>2, <1>3 DEF BuffersInv, RowNow
    <2>. QED
      BY <2>2, <2>3, <2>4, <2>5, <2>6, <2>7 DEF BuffersInv
  <1>7. ASSUME NEW r \in Rank, NEW k \in DOMAIN entered'[r] PROVE EntryRight(r, k)'
    <2>1. EntryRight(r, k) /\ entered' = entered /\ gave' = gave
      BY <1>1 DEF RInv
    <2>. QED
      BY <2>1 DEF EntryRight, Blocks, Root, IsRankRows, Row, Place
  <1>8. Started'
    BY <1>2 DEF RInv, Started, Block, Rank, Local
  <1>. QED
    BY <1>6, <1>7, <1>8 DEF RInv, Block, Rank, Local

\* Every step keeps the buffers and the data of calls right.
LEMMA NextRInv == IInv /\ RInv /\ [Next]_vars => RInv'
  <1>. SUFFICES ASSUME IInv, RInv, [Next]_vars PROVE RInv'
    OBVIOUS
  <1>1. CASE UNCHANGED vars
    BY <1>1, StutterRInv
  <1>2. CASE Halted
    BY <1>2, StutterRInv DEF Halted
  <1>3. ASSUME NEW r \in Rank, Step(r) PROVE RInv'
    <2>1. CASE Begin(r) \/ Sync(r) \/ Repeat(r)
      BY <2>1, BetweenResults
    <2>2. CASE RunAll(r)
      BY <2>2, RunAllResults
    <2>3. CASE RunInner(r)
      BY <2>3, RunInnerResults
    <2>4. CASE RunHalo(r)
      BY <2>4, RunHaloResults
    <2>5. CASE Collect(r)
      BY <2>5, CollectResults
    <2>6. CASE Enter(r)
      BY <2>6, EnterResults
    <2>7. CASE Leave(r)
      BY <2>7, LeaveResults
    <2>8. CASE WithinRank(r)
      BY <2>8, WithinRankResults
    <2>. QED
      BY <1>3, <2>1, <2>2, <2>3, <2>4, <2>5, <2>6, <2>7, <2>8 DEF Step
  <1>. QED
    BY <1>1, <1>2, <1>3 DEF Next

-----------------------------------------------------------------------------
(***************************************************************************)
(* The results.                                                            *)
(***************************************************************************)
\* LeastPair takes a pair of the set, none of which has a lesser first number.
LEMMA LeastPairIs ==
  ASSUME NEW T, T \subseteq Nat \X Nat, T # {}
  PROVE  LeastPair(T) \in T /\ \A q \in T : LeastPair(T)[1] <= q[1]
  <1> DEFINE F == {p[1] : p \in T}
             G == {p[2] : p \in {q \in T : q[1] = Min(F)}}
             Least(p) == \A q \in T : p[1] < q[1] \/ (p[1] = q[1] /\ p[2] <= q[2])
  <1>1. F \in SUBSET Nat /\ F # {}
    OBVIOUS
  <1>2. Min(F) \in F /\ \A y \in F : Min(F) <= y
    <2>. HIDE DEF F
    <2>. QED
      BY <1>1, MinIsLeast
  <1>3. PICK m : m = Min(F)
    OBVIOUS
  <1>4. G \in SUBSET Nat /\ G # {}
    BY <1>2
  <1>5. Min(G) \in G /\ \A y \in G : Min(G) <= y
    <2>. HIDE DEF G
    <2>. QED
      BY <1>4, MinIsLeast
  <1>6. PICK n : n = Min(G)
    OBVIOUS
  <1>7. PICK p \in T : p[1] = m /\ p[2] = n
    BY <1>3, <1>5, <1>6
  <1>8. \A q \in T : m <= q[1] /\ m \in Nat /\ q[1] \in Nat
    BY <1>2, <1>3, <1>1
  <1>9. \A q \in T : q[1] = m => n <= q[2]
    BY <1>3, <1>5, <1>6
  <1>10. Least(p)
    BY <1>7, <1>8, <1>9
  <1>11. LeastPair(T) = CHOOSE x \in T : Least(x)
    BY DEF LeastPair
  <1>12. LeastPair(T) \in T /\ Least(LeastPair(T))
    <2>. HIDE DEF Least
    <2>. QED
      BY <1>10, <1>11
  <1>13. \A q \in T : q[1] \in Nat
    OBVIOUS
  <1>14. \A q \in T : LeastPair(T)[1] <= q[1]
    <2>. SUFFICES ASSUME NEW q \in T PROVE LeastPair(T)[1] <= q[1]
      OBVIOUS
    <2>1. LeastPair(T)[1] < q[1] \/ LeastPair(T)[1] = q[1]
      BY <1>12
    <2>. QED
      BY <2>1, <1>12, <1>13
  <1>. QED
    BY <1>12, <1>14

\* A rank makes one call for the pairs of a stage.
LEMMA OneCall ==
  ASSUME IInv, NEW r \in Rank, NEW k \in DOMAIN entered[r], NEW l \in DOMAIN entered[r],
         entered[r][k].stage = entered[r][l].stage,
         Head(entered[r][k].todo) = "minloc", Head(entered[r][l].todo) = "minloc"
  PROVE  k = l
  <1>1. Types /\ CallsInv(r) /\ Together(r)
    BY DEF IInv, RankInv
  <1>2. PICK n, i, j : n = entered[r][k].stage /\ i = Left(entered[r][k]) /\ j = Left(entered[r][l])
    OBVIOUS
  <1>3. /\ n \in 1 .. Base(r) /\ i \in Nat /\ j \in Nat
        /\ IsCall(Lead(r), n, i) /\ IsCall(Lead(r), n, j)
        /\ Operation(Lead(r), n, i) = "minloc" /\ Operation(Lead(r), n, j) = "minloc"
    BY <1>1, <1>2 DEF CallsInv, CallMade
  <1>4. i # 0 /\ j # 0
    BY <1>3 DEF Operation
  <1>5. PICK ops : ops = Operations(Made(Lead(r), n))
    OBVIOUS
  <1>6. i <= Len(ops) /\ j <= Len(ops) /\ ops[Len(ops) - i + 1] = "minloc" /\ ops[Len(ops) - j + 1] = "minloc"
    BY <1>3, <1>4, <1>5 DEF IsCall, Operation
  <1>7. IsPlan(ops)
    <2>1. Lead(r) \in Block /\ Base(r) \in Nat /\ Base(r) <= Stages(Lead(r)) /\ Stages(Lead(r)) \in Nat
      BY <1>1, BaseIs
    <2>2. n \in 0 .. Stages(Lead(r))
      BY <2>1, <1>3
    <2>3. Made(Lead(r), n) \in Stage /\ IsInjective(Made(Lead(r), n).reduce)
      BY <2>1, <2>2, <1>1, GaveIs
    <2>. QED
      BY <2>3, <1>5, OperationsAre
  <1>8. i = j
    <2>1. Len(ops) \in Nat /\ DOMAIN ops = 1 .. Len(ops)
      BY <1>7 DEF IsPlan
    <2>2. Len(ops) - i + 1 \in DOMAIN ops /\ Len(ops) - j + 1 \in DOMAIN ops
      BY <2>1, <1>3, <1>4, <1>6
    <2>3. Len(ops) - i + 1 = Len(ops) - j + 1
      BY <2>2, <1>6, <1>7 DEF IsPlan, IsInjective
    <2>. QED
      BY <2>1, <2>3, <1>3
  <1>9. DOMAIN entered[r] \subseteq Nat
    BY <1>1, SeqIs DEF Types, EnteredOk
  <1>10. ~(k < l) /\ ~(l < k)
    <2>1. ~Before(n, i, n, j) /\ ~Before(n, j, n, i)
      BY <1>3, <1>8 DEF Before
    <2>2. n = entered[r][l].stage
      BY <1>2
    <2>. QED
      BY <2>1, <2>2, <1>1, <1>2 DEF CallsInv, CallsInOrder
  <1>. QED
    BY <1>9, <1>10

\* The blocks of a rank that has served its requests.
LEMMA ServedIs ==
  ASSUME IInv, RInv, NEW r \in Rank, Served(r), NEW b \in Blocks(r), NEW n, n = Stages(b)
  PROVE  /\ b \in Block /\ b[1] = r /\ n = Base(r) /\ n \in Nat \ {0} /\ n = Stages(Lead(r))
         /\ Requests(b) = Made(b, n) /\ Made(Lead(r), n) = Made(b, n)
         /\ \A op : ~Pends(b, op)
         /\ BuffersInv(b) /\ NumberNow(b) /\ SumNow(r)
  <1>1. at[r] = "serve" /\ todo[r] = <<>>
    BY DEF Served
  <1>2. Base(r) \in Nat /\ Base(r) >= 1 /\ Ran(r) = {}
    BY <1>1, Serving
  <1>3. /\ b \in Block /\ b[1] = r /\ Stages(b) = Base(r) /\ Stages(Lead(r)) = Base(r)
        /\ Made(b, Base(r)) = Asked(r) /\ Requests(b) = Asked(r)
    BY <1>2, BlocksAlike, BlocksAre
  <1>4. Made(Lead(r), Base(r)) = Asked(r)
    BY DEF Asked
  <1>5. Range(todo[r]) = {}
    BY <1>1 DEF Range
  <1>6. \A op : ~Pends(b, op)
    BY <1>1, <1>2, <1>3, <1>5 DEF Pends
  <1>7. BuffersInv(b) /\ NumberNow(b) /\ SumNow(r)
    BY <1>3 DEF IInv, RankInv, RInv
  <1>. QED
    BY <1>2, <1>3, <1>4, <1>6, <1>7

\* All blocks that have run a stage have given what it requests.
LEMMA GaveSame ==
  ASSUME IInv, RInv, NEW b \in Block, NEW n \in 1 .. Stages(b), NEW c \in Block, n <= Stages(c),
         NEW s, s = Made(b, n)
  PROVE  /\ Has(s, "concat") => GaveAt(c, n).rows = <<Row(c, n)>>
         /\ s.tolead => GaveAt(c, n).list = <<Row(c, n)>>
         /\ Has(s, "minloc") => GaveAt(c, n).pair \in Nat \X Nat
  <1>1. Types /\ SameStages /\ GaveRight(c)
    BY DEF IInv, StagesInv, RInv, BuffersInv
  <1>2. Stages(b) \in Nat /\ Stages(c) \in Nat
    BY <1>1, GaveIs
  <1>3. n \in 0 .. Stages(b) /\ n \in 1 .. Stages(c)
    BY <1>2
  <1>4. Made(c, n) = s
    BY <1>1, <1>3, MadeAgrees
  <1>. QED
    BY <1>1, <1>3, <1>4 DEF GaveRight, GaveAt

\* The least pair of all blocks, in all blocks that have it.
LEMMA PairRight ==
  ASSUME IInv, RInv, NEW r \in Rank, Served(r), NEW b \in Blocks(r), NEW n, n = Stages(b),
         Has(Made(b, n), "minloc")
  PROVE  /\ data[b].pair \in {GaveAt(c, n).pair : c \in Block}
         /\ \A c \in Block : data[b].pair[1] <= GaveAt(c, n).pair[1]
         /\ \A c \in Block : Served(c[1]) /\ Stages(c) = n => data[c].pair = data[b].pair
  <1>1. Types /\ SameStages /\ b \in Block /\ b[1] = r /\ n \in Nat \ {0} /\ PairNow(b) /\ ~Pends(b, "minloc")
    BY ServedIs DEF BuffersInv, IInv, StagesInv
  <1>2. PICK k \in DOMAIN entered[r] : PairsMeet(k, n) /\ data[b].pair = LeastOf(k)
    BY <1>1 DEF PairNow
  <1>3. PICK T, f : T = {entered[q][k].data : q \in Rank} /\ f = [q \in Rank |-> entered[q][k].data]
    OBVIOUS
  <1>4. \A q \in Rank : /\ k \in DOMAIN entered[q] /\ entered[q][k].stage = n
                        /\ Head(entered[q][k].todo) = "minloc"
    BY <1>2 DEF PairsMeet
  <1>5. ASSUME NEW q \in Rank
        PROVE  /\ \A c \in Blocks(q) : n <= Stages(c)
               /\ \E c \in Blocks(q) :
                    /\ f[q] = GaveAt(c, n).pair
                    /\ \A d \in Blocks(q) : f[q][1] <= GaveAt(d, n).pair[1]
    <2>1. CallMade(q, k) /\ Together(q) /\ EntryRight(q, k)
      BY <1>4 DEF IInv, RankInv, CallsInv, RInv
    <2>2. n \in 1 .. Base(q)
      BY <2>1, <1>4 DEF CallMade
    <2>3. \A c \in Blocks(q) : n <= Stages(c)
      BY <2>1, <2>2, <1>1, BaseIs
    <2>. QED
      BY <2>1, <2>3, <1>3, <1>4 DEF EntryRight, GaveAt
  <1>6. \A c \in Block : c[1] \in Rank /\ c \in Blocks(c[1])
    BY BlocksAre
  <1>7. \A c \in Block : n <= Stages(c)
    BY <1>5, <1>6
  <1>8. \A c \in Block : GaveAt(c, n).pair \in Nat \X Nat
    <2>1. n \in 1 .. Stages(b)
      BY <1>1, <1>7, GaveIs
    <2>. QED
      BY <2>1, <1>1, <1>7, GaveSame
  <1>9. \A q \in Rank : \A c \in Blocks(q) : c \in Block
    BY BlocksAre
  <1>10. T = {f[q] : q \in Rank} /\ T # {} /\ T \subseteq {GaveAt(c, n).pair : c \in Block}
    <2>1. T = {f[q] : q \in Rank}
      BY <1>3
    <2>2. Rank # {}
      BY BlocksAre
    <2>. QED
      BY <2>1, <2>2, <1>5, <1>9
  <1>11. T \subseteq Nat \X Nat
    BY <1>8, <1>10
  <1>12. data[b].pair = LeastPair(T)
    BY <1>2, <1>3 DEF LeastOf
  <1>13. data[b].pair \in T /\ \A p \in T : data[b].pair[1] <= p[1]
    BY <1>10, <1>11, <1>12, LeastPairIs
  <1>14. ASSUME NEW c \in Block PROVE data[b].pair[1] <= GaveAt(c, n).pair[1]
    <2>1. PICK q \in Rank : q = c[1] /\ c \in Blocks(q)
      BY <1>6
    <2>2. PICK d \in Blocks(q) : f[q] = GaveAt(d, n).pair
      BY <1>5
    <2>3. f[q] \in T /\ f[q] \in Nat \X Nat /\ data[b].pair \in Nat \X Nat
      BY <1>10, <1>11, <1>13
    <2>4. data[b].pair[1] <= f[q][1] /\ f[q][1] <= GaveAt(c, n).pair[1]
      BY <2>1, <2>3, <1>5, <1>13
    <2>5. GaveAt(c, n).pair \in Nat \X Nat
      BY <1>8
    <2>6. data[b].pair[1] \in Nat /\ f[q][1] \in Nat /\ GaveAt(c, n).pair[1] \in Nat
      BY <2>3, <2>5
    <2>. QED
      BY <2>4, <2>6
  <1>15. ASSUME NEW c \in Block, Served(c[1]), Stages(c) = n PROVE data[c].pair = data[b].pair
    <2>1. PICK q \in Rank : q = c[1] /\ c \in Blocks(q)
      BY <1>6
    <2>2. Served(q) /\ n = Stages(c)
      BY <2>1, <1>15
    <2>3. PairNow(c) /\ ~Pends(c, "minloc")
      BY <2>1, <2>2, ServedIs DEF BuffersInv
    <2>4. Made(c, n) = Made(b, n)
      <3>1. n \in 0 .. Stages(b) /\ n <= Stages(c)
        BY <1>1, <1>7, GaveIs
      <3>. QED
        BY <3>1, <1>1, MadeAgrees
    <2>5. PICK l \in DOMAIN entered[q] : PairsMeet(l, n) /\ data[c].pair = LeastOf(l)
      BY <2>1, <2>2, <2>3, <2>4 DEF PairNow
    <2>6. /\ k \in DOMAIN entered[q] /\ entered[q][k].stage = entered[q][l].stage
          /\ Head(entered[q][k].todo) = "minloc" /\ Head(entered[q][l].todo) = "minloc"
      BY <2>5, <1>4 DEF PairsMeet
    <2>7. k = l
      BY <2>6, OneCall
    <2>. QED
      BY <2>5, <2>7, <1>2
  <1>. QED
    BY <1>10, <1>13, <1>14, <1>15

\* Places in the vectors of all blocks.
LEMMA PlaceIs ==
  ASSUME NEW c \in Block
  PROVE  Place(c) \in 1 .. nranks * nblocks
  <1>1. PICK m, w, i, j : m = nranks /\ w = nblocks /\ i = c[1] /\ j = c[2]
    OBVIOUS
  <1>2. m \in Nat /\ w \in Nat /\ i \in 0 .. m - 1 /\ j \in 0 .. w - 1
    BY <1>1, MeshAssumption, BlocksAre DEF Rank, Local
  <1>3. PICK x \in Nat : m = i + 1 + x
    <2>1. m - i - 1 \in Nat /\ m = i + 1 + (m - i - 1)
      BY <1>2
    <2>. QED
      BY <2>1
  <1>4. m * w = i * w + w + x * w
    BY <1>2, <1>3
  <1>5. i * w \in Nat /\ x * w \in Nat
    BY <1>2, <1>3
  <1>6. i * w + j + 1 \in 1 .. m * w
    BY <1>2, <1>4, <1>5
  <1>. QED
    BY <1>1, <1>6 DEF Place

\* What a rank has served is right.
LEMMA ServedReductions ==
  ASSUME IInv, RInv, NEW r \in Rank, Served(r), NEW b \in Blocks(r)
  PROVE  ReductionsRight(b)
  <1>1. PICK n, s : n = Stages(b) /\ s = Made(b, n)
    OBVIOUS
  <1>2. /\ b \in Block /\ b[1] = r /\ n = Base(r) /\ n \in Nat \ {0} /\ n = Stages(Lead(r))
        /\ Requests(b) = s /\ Made(Lead(r), n) = s
        /\ \A op : ~Pends(b, op)
        /\ BuffersInv(b) /\ NumberNow(b) /\ SumNow(r)
    BY <1>1, ServedIs
  <1>3. /\ Lead(r) \in Blocks(r) /\ Lead(r)[1] = r /\ n \in 1 .. Stages(b)
    BY <1>1, <1>2, BlocksAre
  <1>4. ~Pends(Lead(r), "shared")
    BY <1>3, ServedIs
  <1>5. Has(s, "max") => data[b].number = Max({GaveAt(c, n).number : c \in Block})
    BY <1>1, <1>2 DEF NumberNow, NumberAfter, GreatestNumber, GaveAt
  <1>6. Has(s, "minloc") =>
          /\ data[b].pair \in {GaveAt(c, n).pair : c \in Block}
          /\ \A c \in Block : data[b].pair[1] <= GaveAt(c, n).pair[1]
          /\ \A c \in Block : Served(c[1]) /\ Stages(c) = n => data[c].pair = data[b].pair
    BY <1>1, PairRight
  <1>7. s.shared => sum[r] = Max({GaveAt(Lead(q), n).shared : q \in Rank})
    BY <1>2, <1>4 DEF SumNow, SumAfter, GreatestShared, GaveAt
  <1>8. s.bcast /\ ~s.fromlead => data[b].object = GaveAt(Root, n).object
    BY <1>1, <1>2 DEF BuffersInv, ObjectNow, GaveAt
  <1>9. s.fromlead /\ ~s.bcast => data[b].object = GaveAt(Lead(r), n).object
    BY <1>1, <1>2 DEF BuffersInv, ObjectNow, GaveAt
  <1>10. ASSUME s.tolead, b = Lead(r)
         PROVE  /\ Len(data[b].list) = nblocks
                /\ \A c \in Blocks(r) : \E i \in 1 .. nblocks : data[b].list[i] = GaveAt(c, n).list[1]
    <2>1. IsRankRows(data[b].list, r, n)
      BY <1>1, <1>2, <1>10 DEF BuffersInv, ListNow
    <2>2. ASSUME NEW c \in Blocks(r)
          PROVE  \E i \in 1 .. nblocks : data[b].list[i] = GaveAt(c, n).list[1]
      <3>1. c \in Block /\ c = <<r, c[2]>> /\ c[2] \in Local
        BY BlocksAre
      <3>2. Stages(c) = n
        BY ServedIs, <1>2
      <3>3. GaveAt(c, n).list = <<Row(c, n)>>
        <4>1. n <= Stages(c)
          BY <3>2, <1>2
        <4>. QED
          BY <4>1, <3>1, <1>1, <1>2, <1>3, <1>10, GaveSame
      <3>4. data[b].list[c[2] + 1] = Row(c, n)
        BY <2>1, <3>1 DEF IsRankRows
      <3>5. c[2] + 1 \in 1 .. nblocks
        BY <3>1, MeshAssumption DEF Local
      <3>. QED
        BY <3>3, <3>4, <3>5
    <2>. QED
      BY <2>1, <2>2 DEF IsRankRows
  <1>11. Stages(b) = n /\ Requests(b) = s /\ b[1] = r
    BY <1>1, <1>2
  <1>. QED
    BY <1>5, <1>6, <1>7, <1>8, <1>9, <1>10, <1>11 DEF ReductionsRight

\* So is what the root has gathered, and what it has scattered.
LEMMA ServedRows ==
  ASSUME IInv, RInv, NEW r \in Rank, Served(r), NEW b \in Blocks(r)
  PROVE  RowsReturn(b)
  <1>1. PICK n, s : n = Stages(b) /\ s = Made(b, n)
    OBVIOUS
  <1>2. /\ b \in Block /\ b[1] = r /\ n \in Nat \ {0} /\ n \in 1 .. Stages(b)
        /\ Requests(b) = s /\ \A op : ~Pends(b, op)
        /\ BuffersInv(b)
    BY <1>1, ServedIs
  <1>3. ASSUME Has(s, "concat"), b = Root
        PROVE  /\ Len(data[b].rows) = nranks * nblocks
               /\ \A c \in Block : \E i \in DOMAIN data[b].rows :
                    data[b].rows[i] = GaveAt(c, n).rows[1]
    <2>1. AllGave(n) /\ IsAllRows(data[b].rows, n)
      BY <1>1, <1>2, <1>3 DEF BuffersInv, RowsNow
    <2>2. /\ Len(data[b].rows) = nranks * nblocks /\ DOMAIN data[b].rows = 1 .. nranks * nblocks
          /\ \A c \in Block : data[b].rows[Place(c)] = Row(c, n)
      <3>1. data[b].rows \in Seq(Rows) /\ Len(data[b].rows) = nranks * nblocks
        BY <2>1 DEF IsAllRows
      <3>2. DOMAIN data[b].rows = 1 .. Len(data[b].rows)
        BY <3>1
      <3>. QED
        BY <2>1, <3>1, <3>2 DEF IsAllRows
    <2>3. ASSUME NEW c \in Block
          PROVE  \E i \in DOMAIN data[b].rows : data[b].rows[i] = GaveAt(c, n).rows[1]
      <3>1. n <= Stages(c)
        BY <2>1 DEF AllGave
      <3>2. GaveAt(c, n).rows = <<Row(c, n)>>
        BY <3>1, <1>1, <1>2, <1>3, GaveSame
      <3>3. Place(c) \in DOMAIN data[b].rows
        BY <2>2, PlaceIs
      <3>. QED
        BY <2>2, <3>2, <3>3
    <2>. QED
      BY <2>2, <2>3
  <1>4. s.scatter => data[b].row[1] = Id[b]
    BY <1>1, <1>2 DEF BuffersInv, RowNow
  <1>. QED
    BY <1>1, <1>2, <1>3, <1>4 DEF RowsReturn

\* The invariant says what the runs check.
LEMMA RInvResultsRight == IInv /\ RInv => ResultsRight
  BY ServedReductions, ServedRows DEF ResultsRight

\* For all kernels, backends and numbers of ranks and blocks: when a rank has served the
\* requests of a stage, its blocks have the results of what all blocks gave in that stage,
\* in whatever order they have run and however far other ranks have gone on; the root has
\* gathered one vector from every block, and every block gets its own vector back.
THEOREM ResultsAreRight == Spec => []ResultsRight
  <1>1. Init => IInv /\ RInv
    BY InitIInv, InitRInv
  <1>2. (IInv /\ RInv) /\ [Next]_vars => (IInv /\ RInv)'
    BY NextIInv, NextRInv
  <1>. QED
    BY <1>1, <1>2, RInvResultsRight, PTL DEF Spec
=============================================================================
