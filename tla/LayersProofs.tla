---------------------------- MODULE LayersProofs ----------------------------
(***************************************************************************)
(* Proofs about the layers of colors, for all rows, divisions into blocks,  *)
(* colors, layers, velocities and starts.                                   *)
(*                                                                         *)
(* A color is searched in all layers of a cell before it gets one, so no    *)
(* cell has it twice (OneLayer), in blocks and in their halo cells.         *)
(*                                                                         *)
(* So Layers implements ColorAdvection: which layers colors take and in     *)
(* which order the faces are visited makes no difference to them.           *)
(***************************************************************************)
EXTENDS LayersInvariant, FiniteSetTheorems, WellFoundedInduction, TLAPS

(***************************************************************************)
(* The least element of a set of numbers.                                  *)
(***************************************************************************)

\* Min finds the least element of a set of numbers.
LEMMA MinIsLeast ==
  ASSUME NEW S \in SUBSET Nat, S # {}
  PROVE  /\ Min(S) \in S
         /\ \A y \in S : Min(S) <= y
  <1> DEFINE Less == {ss \in Nat \X Nat : ss[1] < ss[2]}
  <1>1. IsWellFoundedOn(Less, Nat)
    BY NatLessThanWellFounded, SMT DEF OpToRel
  <1>. HIDE DEF Less
  <1>2. PICK x \in S : \A y \in S : <<y, x>> \notin Less
    BY <1>1, WFMin
  <1>3. ASSUME NEW y \in S, y < x PROVE FALSE
    <2>1. <<y, x>> \in Nat \X Nat /\ <<y, x>>[1] < <<y, x>>[2]
      BY <1>3
    <2>. QED
      BY <2>1, <1>2, Zenon DEF Less
  <1>4. \A y \in S : x <= y
    BY <1>3
  <1>. QED
    BY <1>4 DEF Min

(***************************************************************************)
(* Indices.                                                                *)
(***************************************************************************)

\* A cell that a block stores is a cell of the row, and an inner cell of its owner.
LEMMA StoredCells ==
  ASSUME NEW b \in Block, NEW c \in Stored(b)
  PROVE  /\ c \in Int /\ -1 <= c /\ c <= ncells
         /\ Of(c) \in Cell /\ Owner(c) \in Block /\ Of(c) \in Inner(Owner(c))
         /\ Of(c) \in Stored(Owner(c))
  <1>1. First[b] \in Int /\ 0 <= First[b] /\ First[b] + width <= ncells /\ ncells >= 1 /\ width >= 1
    BY BlockAssumption, RowAssumption DEF Cell
  <1>2. c \in Int /\ -1 <= c /\ c <= ncells
    BY <1>1, RowAssumption DEF Stored
  <1>3. Of(c) \in Cell
    BY <1>1, <1>2, RowAssumption DEF Of, Cell
  <1>4. \E a \in Block : Of(c) \in Inner(a)
    BY <1>3, BlockAssumption
  <1>5. Owner(c) \in Block /\ Of(c) \in Inner(Owner(c))
    BY <1>4 DEF Owner
  <1>6. First[Owner(c)] \in Int
    BY <1>5, BlockAssumption DEF Cell
  <1>7. Of(c) \in Stored(Owner(c))
    BY <1>5, <1>6, RowAssumption DEF Inner, Stored
  <1>. QED
    BY <1>2, <1>3, <1>5, <1>7

\* Inner cells are owned by their block.
LEMMA InnerCells ==
  ASSUME NEW b \in Block, NEW c \in Inner(b)
  PROVE  c \in Cell /\ c \in Stored(b) /\ Of(c) = c /\ Owner(c) = b
  <1>1. First[b] \in Int /\ 0 <= First[b] /\ First[b] + width <= ncells /\ ncells >= 1 /\ width >= 1
    BY BlockAssumption, RowAssumption DEF Cell
  <1>2. c \in Int /\ First[b] <= c /\ c <= First[b] + width - 1
    BY <1>1, RowAssumption DEF Inner
  <1>3. c \in Stored(b)
    BY <1>1, <1>2, RowAssumption DEF Stored
  <1>4. c \in Cell /\ Of(c) = c
    BY <1>1, <1>2, RowAssumption DEF Cell, Of
  <1>5. Owner(c) \in Block /\ c \in Inner(Owner(c))
    BY <1>3, <1>4, StoredCells
  <1>6. Owner(c) = b
    BY <1>5, BlockAssumption
  <1>. QED
    BY <1>3, <1>4, <1>6

\* Every cell of the row is an inner cell of its owner.
LEMMA RowCells ==
  ASSUME NEW c \in Cell
  PROVE  Of(c) = c /\ Owner(c) \in Block /\ c \in Inner(Owner(c)) /\ c \in Stored(Owner(c))
  <1>1. PICK b \in Block : c \in Inner(b)
    BY BlockAssumption
  <1>. QED
    BY <1>1, InnerCells

\* A cell and the one in the row that it stands for have one owner.
LEMMA SameOwner ==
  ASSUME NEW b \in Block, NEW c \in Stored(b)
  PROVE  Of(Of(c)) = Of(c) /\ Owner(Of(c)) = Owner(c)
  <1>1. Of(c) \in Cell
    BY StoredCells
  <1>2. Of(Of(c)) = Of(c)
    BY <1>1, RowCells
  <1>. QED
    BY <1>2 DEF Owner

\* The cells on both sides of a face are stored, those around an inner cell as well.
LEMMA AroundFaces ==
  ASSUME NEW b \in Block, NEW f \in Faces(b)
  PROVE  /\ f \in Int /\ Of(f) \in Cell
         /\ f \in Stored(b) /\ f - 1 \in Stored(b)
         /\ Up(f) \in Stored(b) /\ Down(f) \in Stored(b) /\ Up(f) # Down(f)
  <1>1. First[b] \in Int /\ 0 <= First[b] /\ First[b] + width <= ncells /\ ncells >= 1 /\ width >= 1
    BY BlockAssumption, RowAssumption DEF Cell
  <1>2. f \in Int /\ First[b] <= f /\ f <= First[b] + width
    BY <1>1, RowAssumption DEF Faces
  <1>3. f \in Stored(b) /\ f - 1 \in Stored(b)
    BY <1>1, <1>2, RowAssumption DEF Stored
  <1>. QED
    BY <1>2, <1>3, StoredCells DEF Up, Down

LEMMA AroundCells ==
  ASSUME NEW b \in Block, NEW c \in Inner(b)
  PROVE  /\ c \in Int /\ c \in Faces(b) /\ c + 1 \in Faces(b)
         /\ c - 1 \in Stored(b) /\ c \in Stored(b) /\ c + 1 \in Stored(b)
  <1>1. First[b] \in Int /\ width \in Int
    BY BlockAssumption, RowAssumption DEF Cell
  <1>. QED
    BY <1>1 DEF Inner, Faces, Stored

\* The face that is visited.
LEMMA VisitedFace ==
  ASSUME NEW b \in Block, face \in 0 .. width
  PROVE  First[b] + face \in Faces(b)
  BY BlockAssumption, RowAssumption DEF Faces, Cell

\* The layer that is taken is a free one.
LEMMA FreeLayer ==
  ASSUME NEW S \in SUBSET Layer, S # {}
  PROVE  Min(S) \in S /\ Min(S) \in Layer
  <1>1. S \in SUBSET Nat
    BY RowAssumption DEF Layer
  <1>. QED
    BY <1>1, MinIsLeast

(***************************************************************************)
(* Types.                                                                  *)
(***************************************************************************)
LEMMA ClipType ==
  ASSUME NEW x \in Int
  PROVE  Clip(x) \in 0 .. Full
  BY RowAssumption DEF Clip

\* What passes a face.
LEMMA PassedType ==
  ASSUME TypeOK, NEW b \in Block, NEW i \in Layer, NEW f \in Faces(b), ffcl[b][i][f] # None
  PROVE  Passed(b, i, f) \in Int
  <1>1. Of(f) \in Cell
    BY AroundFaces
  <1>2. ffcl[b][i][f] \in Color
    BY DEF TypeOK
  <1>3. v[Of(f)] \in {-1, 0, 1} /\ flux[Of(f)][ffcl[b][i][f]] \in 0 .. Full
    BY <1>1, <1>2 DEF TypeOK
  <1>. QED
    BY <1>3, RowAssumption DEF Passed, Velocity

LEMMA ThroughType ==
  ASSUME TypeOK, NEW b \in Block, NEW i \in Layer, NEW f \in Faces(b), NEW k \in Color
  PROVE  Through(b, i, f, k) \in Int
  <1> DEFINE at == {j \in Layer : ffcl[b][j][f] = k}
  <1>1. k # None
    BY RowAssumption DEF None
  <1>2. CASE at = {}
    BY <1>2 DEF Through
  <1>3. CASE at # {}
    <2>1. Min(at) \in at
      BY <1>3, FreeLayer
    <2>2. Passed(b, Min(at), f) \in Int
      BY <2>1, <1>1, PassedType
    <2>. QED
      BY <2>2, <1>3 DEF Through
  <1>. QED
    BY <1>2, <1>3

LEMMA AdvancedType ==
  ASSUME TypeOK, NEW b \in Block, NEW i \in Layer, NEW c \in Stored(b)
  PROVE  Advanced(b, i, c) \in 0 .. Full
  <1>1. u[b][i][c] \in 0 .. Full
    BY DEF TypeOK
  <1>2. CASE ~Colored(b, i, c)
    BY <1>1, <1>2 DEF Advanced
  <1>3. CASE Colored(b, i, c)
    <2> DEFINE k == cl[b][i][c]
    <2>1. k \in Color /\ c \in Inner(b)
      BY <1>3 DEF Colored, TypeOK
    <2>2. c \in Faces(b) /\ c + 1 \in Faces(b)
      BY <2>1, AroundCells
    <2>3. Through(b, i, c, k) \in Int /\ Through(b, i, c + 1, k) \in Int
      BY <2>1, <2>2, ThroughType
    <2>4. u[b][i][c] - (Through(b, i, c + 1, k) - Through(b, i, c, k)) \in Int
      BY <2>3, <1>1, RowAssumption
    <2>. QED
      BY <2>4, <1>3, ClipType DEF Advanced
  <1>. QED
    BY <1>2, <1>3

(***************************************************************************)
(* What a visit changes in a block: the color of one face and, if a color   *)
(* joins a cell, one layer of one cell that was free.                       *)
(***************************************************************************)
New(b) == Min(Free(b, At(b)))

LEMMA PassingType ==
  ASSUME TypeOK, NEW b \in Block, NEW f \in Faces(b)
  PROVE  Passing(b, f) \in Color \cup {None}
  <1>1. Up(f) \in Stored(b)
    BY AroundFaces
  <1>2. cl[b] \in [Layer -> [Stored(b) -> Color \cup {None}]] /\ layer \in Layer
    BY DEF TypeOK
  <1>3. cl[b][layer][Up(f)] \in Color \cup {None}
    BY <1>1, <1>2
  <1>. QED
    BY <1>3 DEF Passing

LEMMA NewLayer ==
  ASSUME NEW b \in Block, Joins(b, At(b))
  PROVE  New(b) \in Layer /\ cl[b][New(b)][Down(At(b))] = None
  <1>1. Free(b, At(b)) \in SUBSET Layer /\ Free(b, At(b)) # {}
    BY DEF Free, Joins
  <1>2. New(b) \in Free(b, At(b))
    BY <1>1, FreeLayer DEF New
  <1>. QED
    BY <1>2 DEF Free

LEMMA VisitChanges ==
  ASSUME TypeOK, Visit, NEW b \in Block
  PROVE  /\ At(b) \in Faces(b)
         /\ ffcl'[b] = [ffcl[b] EXCEPT ![layer][At(b)] = Passing(b, At(b))]
         /\ Joins(b, At(b)) =>
              /\ cl'[b] = [cl[b] EXCEPT ![New(b)][Down(At(b))] = Passing(b, At(b))]
              /\ im'[b] = [im[b] EXCEPT ![New(b)][Down(At(b))] = Image(b, At(b))]
         /\ ~Joins(b, At(b)) => cl'[b] = cl[b] /\ im'[b] = im[b]
  <1>1. At(b) \in Faces(b)
    BY VisitedFace DEF TypeOK, At
  <1>. QED
    BY <1>1 DEF Visit, At, New

\* The same for each layer and cell.
LEMMA VisitedCells ==
  ASSUME TypeOK, Visit, NEW b \in Block, NEW i \in Layer
  PROVE  /\ \A c \in Stored(b) :
              /\ cl'[b][i][c] = IF Joins(b, At(b)) /\ i = New(b) /\ c = Down(At(b))
                                THEN Passing(b, At(b)) ELSE cl[b][i][c]
              /\ im'[b][i][c] = IF Joins(b, At(b)) /\ i = New(b) /\ c = Down(At(b))
                                THEN Image(b, At(b)) ELSE im[b][i][c]
         /\ \A f \in Faces(b) :
              ffcl'[b][i][f] = IF i = layer /\ f = At(b) THEN Passing(b, At(b)) ELSE ffcl[b][i][f]
  <1>1. /\ cl[b] \in [Layer -> [Stored(b) -> Color \cup {None}]]
        /\ im[b] \in [Layer -> [Stored(b) -> Int]]
        /\ ffcl[b] \in [Layer -> [Faces(b) -> Color \cup {None}]]
    BY DEF TypeOK
  <1>2. \A f \in Faces(b) :
          ffcl'[b][i][f] = IF i = layer /\ f = At(b) THEN Passing(b, At(b)) ELSE ffcl[b][i][f]
    <2>1. ffcl'[b] = [ffcl[b] EXCEPT ![layer][At(b)] = Passing(b, At(b))]
      BY VisitChanges
    <2>. QED
      BY <1>1, <2>1
  <1>3. CASE Joins(b, At(b))
    <2>1. /\ cl'[b] = [cl[b] EXCEPT ![New(b)][Down(At(b))] = Passing(b, At(b))]
          /\ im'[b] = [im[b] EXCEPT ![New(b)][Down(At(b))] = Image(b, At(b))]
      BY <1>3, VisitChanges
    <2>2. ASSUME NEW c \in Stored(b)
          PROVE  /\ cl'[b][i][c] = IF i = New(b) /\ c = Down(At(b))
                                   THEN Passing(b, At(b)) ELSE cl[b][i][c]
                 /\ im'[b][i][c] = IF i = New(b) /\ c = Down(At(b))
                                   THEN Image(b, At(b)) ELSE im[b][i][c]
      BY <1>1, <2>1
    <2>. QED
      BY <1>2, <1>3, <2>2
  <1>4. CASE ~Joins(b, At(b))
    <2>1. cl'[b] = cl[b] /\ im'[b] = im[b]
      BY <1>4, VisitChanges
    <2>. QED
      BY <1>2, <1>4, <2>1
  <1>. QED
    BY <1>3, <1>4

LEMMA ImageType ==
  ASSUME TypeOK, NEW b \in Block, NEW f \in Faces(b)
  PROVE  Image(b, f) \in Int
  <1>1. Up(f) \in Stored(b)
    BY AroundFaces
  <1>2. im[b] \in [Layer -> [Stored(b) -> Int]] /\ layer \in Layer
    BY DEF TypeOK
  <1>3. im[b][layer][Up(f)] \in Int
    BY <1>1, <1>2
  <1>. QED
    BY <1>3 DEF Image

\* The halo cells get values of their type.
LEMMA ExchangedType ==
  ASSUME NEW T, NEW f, \A b \in Block : f[b] \in [Layer -> [Stored(b) -> T]], NEW b \in Block
  PROVE  Exchanged(f)[b] \in [Layer -> [Stored(b) -> T]]
  <1>1. ASSUME NEW i \in Layer, NEW c \in Stored(b) PROVE f[Owner(c)][i][Of(c)] \in T
    BY StoredCells
  <1>. QED
    BY <1>1 DEF Exchanged

(***************************************************************************)
(* The types hold at first and are kept.                                   *)
(***************************************************************************)
\* A start gives blocks what it has in the cells that they store.
LEMMA StartFields ==
  ASSUME Init
  PROVE  \E s \in Starts : \A b \in Block :
           /\ u[b] = [i \in Layer |-> [c \in Stored(b) |-> s.u[i][Of(c)]]]
           /\ cl[b] = [i \in Layer |-> [c \in Stored(b) |-> s.cl[i][Of(c)]]]
           /\ im[b] = [i \in Layer |-> [c \in Stored(b) |-> 0]]
           /\ ffcl[b] = [i \in Layer |-> [f \in Faces(b) |-> None]]
  BY DEF Init, NoColors

LEMMA TypesInitially ==
  ASSUME Init
  PROVE  TypeOK
  <1>1. PICK s \in Starts : \A b \in Block :
           /\ u[b] = [i \in Layer |-> [c \in Stored(b) |-> s.u[i][Of(c)]]]
           /\ cl[b] = [i \in Layer |-> [c \in Stored(b) |-> s.cl[i][Of(c)]]]
           /\ im[b] = [i \in Layer |-> [c \in Stored(b) |-> 0]]
           /\ ffcl[b] = [i \in Layer |-> [f \in Faces(b) |-> None]]
    BY StartFields
  <1>2. /\ s.cl \in [Layer -> [Cell -> Color \cup {None}]]
        /\ s.u \in [Layer -> [Cell -> 0 .. Full]]
    BY StartAssumption
  <1>3. ASSUME NEW b \in Block
        PROVE  /\ u[b] \in [Layer -> [Stored(b) -> 0 .. Full]]
               /\ cl[b] \in [Layer -> [Stored(b) -> Color \cup {None}]]
               /\ im[b] \in [Layer -> [Stored(b) -> Int]]
               /\ ffcl[b] \in [Layer -> [Faces(b) -> Color \cup {None}]]
    <2>1. \A c \in Stored(b) : Of(c) \in Cell
      BY StoredCells
    <2>2. \A i \in Layer : \A c \in Stored(b) :
            s.u[i][Of(c)] \in 0 .. Full /\ s.cl[i][Of(c)] \in Color \cup {None}
      BY <1>2, <2>1
    <2>3. /\ u[b] = [i \in Layer |-> [c \in Stored(b) |-> s.u[i][Of(c)]]]
          /\ cl[b] = [i \in Layer |-> [c \in Stored(b) |-> s.cl[i][Of(c)]]]
          /\ im[b] = [i \in Layer |-> [c \in Stored(b) |-> 0]]
          /\ ffcl[b] = [i \in Layer |-> [f \in Faces(b) |-> None]]
      BY <1>1, Zenon
    <2>4. u[b] \in [Layer -> [Stored(b) -> 0 .. Full]]
      BY <2>2, <2>3
    <2>5. cl[b] \in [Layer -> [Stored(b) -> Color \cup {None}]]
      BY <2>2, <2>3
    <2>6. im[b] \in [Layer -> [Stored(b) -> Int]] /\ ffcl[b] \in [Layer -> [Faces(b) -> Color \cup {None}]]
      BY <2>3
    <2>. QED
      BY <2>4, <2>5, <2>6
  <1>4. /\ v \in [Cell -> {-1, 0, 1}] /\ flux \in [Cell -> [Color -> 0 .. Full]]
        /\ layer \in Layer /\ face \in 0 .. width
        /\ stage = "flow" /\ steps \in 0 .. MaxSteps
    BY RowAssumption DEF Init, Layer
  <1>. QED
    BY <1>3, <1>4 DEF TypeOK

\* A time step chooses a flow that takes volume where there is some.
LEMMA FlowChanges ==
  ASSUME Flow
  PROVE  /\ v' \in [Cell -> {-1, 0, 1}] /\ flux' \in [Cell -> [Color -> 0 .. Full]]
         /\ \A f \in Cell : \A k \in Color : flux'[f][k] > 0 => <<f, k>> \in Carried(v')
         /\ \A c \in Cell : \A k \in Color : Leaving(v', flux', c, k) <= Amount(c, k)
  <1>1. PICK vel \in Velocities : \E passing \in [Carried(vel) -> 0 .. Full] :
          /\ v' = vel
          /\ flux' = [f \in Cell |-> [k \in Color |->
                        IF <<f, k>> \in Carried(vel) THEN passing[<<f, k>>] ELSE 0]]
          /\ \A c \in Cell : \A k \in Color : Leaving(vel, flux', c, k) <= Amount(c, k)
    BY Zenon DEF Flow
  <1>2. PICK passing \in [Carried(vel) -> 0 .. Full] :
          /\ v' = vel
          /\ flux' = [f \in Cell |-> [k \in Color |->
                        IF <<f, k>> \in Carried(vel) THEN passing[<<f, k>>] ELSE 0]]
          /\ \A c \in Cell : \A k \in Color : Leaving(vel, flux', c, k) <= Amount(c, k)
    BY <1>1
  <1> HIDE DEF Carried
  <1>3. v' \in [Cell -> {-1, 0, 1}]
    BY <1>2, RowAssumption
  <1>4. \A f \in Cell : \A k \in Color :
          flux'[f][k] = IF <<f, k>> \in Carried(vel) THEN passing[<<f, k>>] ELSE 0
    BY <1>2
  <1>5. flux' \in [Cell -> [Color -> 0 .. Full]]
    BY <1>2, RowAssumption
  <1>6. \A f \in Cell : \A k \in Color : flux'[f][k] > 0 => <<f, k>> \in Carried(vel)
    BY <1>4
  <1>7. \A c \in Cell : \A k \in Color : Leaving(v', flux', c, k) <= Amount(c, k)
    BY <1>2, Zenon
  <1>. QED
    BY <1>2, <1>3, <1>5, <1>6, <1>7, Zenon

\* The layers of a color that is cleared keep their types.
LEMMA ClearedType ==
  ASSUME TypeOK, NEW empty, Clear(empty), NEW b \in Block
  PROVE  /\ cl'[b] \in [Layer -> [Stored(b) -> Color \cup {None}]]
         /\ im'[b] \in [Layer -> [Stored(b) -> Int]]
  <1>1. /\ cl[b] \in [Layer -> [Stored(b) -> Color \cup {None}]]
        /\ im[b] \in [Layer -> [Stored(b) -> Int]]
    BY DEF TypeOK
  <1>2. /\ cl'[b] = [i \in Layer |-> [c \in Stored(b) |->
                       IF <<b, i, c>> \in empty THEN None ELSE cl[b][i][c]]]
        /\ im'[b] = [i \in Layer |-> [c \in Stored(b) |->
                       IF <<b, i, c>> \in empty THEN 0 ELSE im[b][i][c]]]
    BY DEF Clear
  <1>. QED
    BY <1>1, <1>2

LEMMA TypesKept ==
  ASSUME TypeOK, [Next]_vars
  PROVE  TypeOK'
  <1> DEFINE Scalars ==
        /\ v \in [Cell -> {-1, 0, 1}] /\ flux \in [Cell -> [Color -> 0 .. Full]]
        /\ layer \in Layer /\ face \in 0 .. width
        /\ stage \in {"flow", "visit", "update", "comm", "filter", "filtered"}
        /\ steps \in 0 .. MaxSteps
      OfBlock(b) ==
        /\ u[b] \in [Layer -> [Stored(b) -> 0 .. Full]]
        /\ cl[b] \in [Layer -> [Stored(b) -> Color \cup {None}]]
        /\ im[b] \in [Layer -> [Stored(b) -> Int]]
        /\ ffcl[b] \in [Layer -> [Faces(b) -> Color \cup {None}]]
  <1>1. Scalars /\ \A b \in Block : OfBlock(b)
    BY DEF TypeOK
  <1>2. SUFFICES ASSUME NEW b \in Block PROVE Scalars' /\ OfBlock(b)'
    <2>1. 0 \in Block
      BY RowAssumption DEF Block
    <2>. QED
      BY <2>1 DEF TypeOK
  <1>3. CASE Flow
    <2>1. v' \in [Cell -> {-1, 0, 1}] /\ flux' \in [Cell -> [Color -> 0 .. Full]]
      BY <1>3, FlowChanges
    <2>4. Scalars'
      BY <1>3, <1>1, <2>1, RowAssumption DEF Flow, Layer
    <2>5. OfBlock(b)'
      BY <1>3, <1>1 DEF Flow, fields, NoColors
    <2>. QED
      BY <2>4, <2>5
  <1>4. CASE Visit
    <2>1. Scalars'
      BY <1>4, <1>1, RowAssumption DEF Visit, Layer
    <2>2. At(b) \in Faces(b) /\ Down(At(b)) \in Stored(b) /\ Up(At(b)) \in Stored(b)
      BY <1>4, VisitChanges, AroundFaces
    <2>3. Passing(b, At(b)) \in Color \cup {None} /\ Image(b, At(b)) \in Int
      BY <2>2, PassingType, ImageType
    <2>4. OfBlock(b)
      BY <1>1
    <2>5. layer \in Layer
      BY <1>1
    <2>6. ffcl'[b] \in [Layer -> [Faces(b) -> Color \cup {None}]]
      <3>1. ffcl'[b] = [ffcl[b] EXCEPT ![layer][At(b)] = Passing(b, At(b))]
        BY <1>4, VisitChanges
      <3>. QED
        BY <3>1, <2>2, <2>3, <2>4, <2>5
    <2>7. u'[b] \in [Layer -> [Stored(b) -> 0 .. Full]]
      BY <1>4, <2>4 DEF Visit
    <2>8. CASE Joins(b, At(b))
      <3>1. /\ cl'[b] = [cl[b] EXCEPT ![New(b)][Down(At(b))] = Passing(b, At(b))]
            /\ im'[b] = [im[b] EXCEPT ![New(b)][Down(At(b))] = Image(b, At(b))]
        BY <1>4, <2>8, VisitChanges
      <3>2. New(b) \in Layer
        BY <2>8, NewLayer
      <3>3. cl'[b] \in [Layer -> [Stored(b) -> Color \cup {None}]]
        BY <3>1, <3>2, <2>2, <2>3, <2>4
      <3>4. im'[b] \in [Layer -> [Stored(b) -> Int]]
        BY <3>1, <3>2, <2>2, <2>3, <2>4
      <3>. QED
        BY <3>3, <3>4, <2>1, <2>6, <2>7
    <2>9. CASE ~Joins(b, At(b))
      <3>1. cl'[b] = cl[b] /\ im'[b] = im[b]
        BY <1>4, <2>9, VisitChanges
      <3>. QED
        BY <3>1, <2>1, <2>4, <2>6, <2>7
    <2>. QED
      BY <2>8, <2>9
  <1>5. CASE Update
    <2>1. \A i \in Layer : \A c \in Stored(b) : Advanced(b, i, c) \in 0 .. Full
      BY AdvancedType
    <2>2. u'[b] = [i \in Layer |-> [c \in Stored(b) |-> Advanced(b, i, c)]]
      BY <1>5 DEF Update
    <2>3. u'[b] \in [Layer -> [Stored(b) -> 0 .. Full]]
      BY <2>1, <2>2
    <2>4. cl'[b] \in [Layer -> [Stored(b) -> Color \cup {None}]] /\ im'[b] \in [Layer -> [Stored(b) -> Int]]
      BY <1>5, ClearedType DEF Update
    <2>. QED
      BY <1>5, <1>1, <2>3, <2>4 DEF Update
  <1>6. CASE Comm
    <2>1. u' = Exchanged(u) /\ cl' = Exchanged(cl) /\ im' = Exchanged(im)
      BY <1>6 DEF Comm
    <2>2. u'[b] \in [Layer -> [Stored(b) -> 0 .. Full]]
      BY <1>1, <2>1, ExchangedType
    <2>3. cl'[b] \in [Layer -> [Stored(b) -> Color \cup {None}]]
      BY <1>1, <2>1, ExchangedType
    <2>4. im'[b] \in [Layer -> [Stored(b) -> Int]]
      BY <1>1, <2>1, ExchangedType
    <2>. QED
      BY <1>6, <1>1, <2>2, <2>3, <2>4 DEF Comm
  <1>7. CASE Filter
    <2>1. u[b] \in [Layer -> [Stored(b) -> 0 .. Full]] /\ 0 \in 0 .. Full
      BY <1>1, RowAssumption
    <2>2. u'[b] = [i \in Layer |-> [c \in Stored(b) |-> IF Orphan(b, i, c) THEN 0 ELSE u[b][i][c]]]
      BY <1>7 DEF Filter
    <2>3. u'[b] \in [Layer -> [Stored(b) -> 0 .. Full]]
      BY <2>1, <2>2
    <2>4. cl'[b] \in [Layer -> [Stored(b) -> Color \cup {None}]] /\ im'[b] \in [Layer -> [Stored(b) -> Int]]
      BY <1>7, ClearedType DEF Filter
    <2>. QED
      BY <1>7, <1>1, <2>3, <2>4 DEF Filter
  <1>8. CASE UNCHANGED vars
    BY <1>8, <1>1 DEF vars, fields
  <1>. QED
    BY <1>3, <1>4, <1>5, <1>6, <1>7, <1>8 DEF Next, Done

\* The state keeps its types: amounts stay between nothing and a full cell, every layer
\* that is taken exists, and only colors are moved.
THEOREM TypeCorrect == Spec => []TypeOK
  BY TypesInitially, TypesKept, PTL DEF Spec

(***************************************************************************)
(* What the other stages change, for each layer and cell.                  *)
(***************************************************************************)
LEMMA TakenLayers ==
  ASSUME NEW b \in Block, NEW i \in Layer, NEW c
  PROVE  <<b, i, c>> \in Colors <=> c \in Inner(b)
  <1> DEFINE Taken(a) == {<<a, l, d>> : l \in Layer, d \in Inner(a)}
  <1>1. ASSUME c \in Inner(b) PROVE <<b, i, c>> \in Colors
    <2>1. <<b, i, c>> \in Taken(b)
      BY <1>1
    <2>. QED
      BY <2>1 DEF Colors
  <1>2. ASSUME <<b, i, c>> \in Colors PROVE c \in Inner(b)
    <2>1. PICK a \in Block : <<b, i, c>> \in Taken(a)
      BY <1>2 DEF Colors
    <2>2. PICK l \in Layer : \E d \in Inner(a) : <<b, i, c>> = <<a, l, d>>
      BY <2>1
    <2>. QED
      BY <2>2
  <1>. QED
    BY <1>1, <1>2

LEMMA ClearedCells ==
  ASSUME NEW empty, Clear(empty), NEW b \in Block, NEW i \in Layer, NEW c \in Stored(b)
  PROVE  /\ cl'[b][i][c] = IF <<b, i, c>> \in empty THEN None ELSE cl[b][i][c]
         /\ im'[b][i][c] = IF <<b, i, c>> \in empty THEN 0 ELSE im[b][i][c]
  BY DEF Clear

\* A color that has left its cell.
Leaves(b, i, c) == Colored(b, i, c) /\ Advanced(b, i, c) = 0

LEMMA UpdatedCells ==
  ASSUME Update, NEW b \in Block, NEW i \in Layer, NEW c \in Stored(b)
  PROVE  /\ u'[b][i][c] = Advanced(b, i, c)
         /\ cl'[b][i][c] = IF Leaves(b, i, c) THEN None ELSE cl[b][i][c]
         /\ im'[b][i][c] = IF Leaves(b, i, c) THEN 0 ELSE im[b][i][c]
  <1> DEFINE empty == {t \in Colors : Colored(t[1], t[2], t[3]) /\ Advanced(t[1], t[2], t[3]) = 0}
  <1>1. Clear(empty)
    BY DEF Update
  <1>2. <<b, i, c>> \in empty <=> Leaves(b, i, c)
    BY TakenLayers DEF Leaves, Colored
  <1>3. u'[b][i][c] = Advanced(b, i, c)
    BY DEF Update
  <1> HIDE DEF empty
  <1>4. /\ cl'[b][i][c] = IF <<b, i, c>> \in empty THEN None ELSE cl[b][i][c]
        /\ im'[b][i][c] = IF <<b, i, c>> \in empty THEN 0 ELSE im[b][i][c]
    BY <1>1, ClearedCells
  <1>. QED
    BY <1>2, <1>3, <1>4

LEMMA FilteredCells ==
  ASSUME Filter, NEW b \in Block, NEW i \in Layer, NEW c \in Stored(b)
  PROVE  /\ u'[b][i][c] = IF Orphan(b, i, c) THEN 0 ELSE u[b][i][c]
         /\ cl'[b][i][c] = IF Orphan(b, i, c) THEN None ELSE cl[b][i][c]
         /\ im'[b][i][c] = IF Orphan(b, i, c) THEN 0 ELSE im[b][i][c]
  <1> DEFINE orphans == {t \in Colors : Orphan(t[1], t[2], t[3])}
  <1>1. Clear(orphans)
    BY DEF Filter
  <1>2. <<b, i, c>> \in orphans <=> Orphan(b, i, c)
    BY TakenLayers DEF Orphan, Colored
  <1>3. u'[b][i][c] = IF Orphan(b, i, c) THEN 0 ELSE u[b][i][c]
    BY DEF Filter
  <1> HIDE DEF orphans
  <1>4. /\ cl'[b][i][c] = IF <<b, i, c>> \in orphans THEN None ELSE cl[b][i][c]
        /\ im'[b][i][c] = IF <<b, i, c>> \in orphans THEN 0 ELSE im[b][i][c]
    BY <1>1, ClearedCells
  <1>. QED
    BY <1>2, <1>3, <1>4

LEMMA ExchangedCells ==
  ASSUME Comm, NEW b \in Block, NEW i \in Layer, NEW c \in Stored(b)
  PROVE  /\ u'[b][i][c] = u[Owner(c)][i][Of(c)]
         /\ cl'[b][i][c] = cl[Owner(c)][i][Of(c)]
         /\ im'[b][i][c] = im[Owner(c)][i][Of(c)]
  BY DEF Comm, Exchanged

(***************************************************************************)
(* No cell has a color in two layers.                                      *)
(***************************************************************************)
Once(b, c) ==
  \A i, j \in Layer : cl[b][i][c] = cl[b][j][c] /\ cl[b][i][c] # None => i = j

\* It is so if every layer has kept its color or lost it.
LEMMA OnceIfLess ==
  ASSUME NEW b, NEW c, Once(b, c),
         \A i \in Layer : cl'[b][i][c] = cl[b][i][c] \/ cl'[b][i][c] = None
  PROVE  Once(b, c)'
  BY DEF Once

LEMMA OneLayerInitially ==
  ASSUME Init
  PROVE  OneLayer
  <1>1. PICK s \in Starts : \A b \in Block :
           /\ u[b] = [i \in Layer |-> [c \in Stored(b) |-> s.u[i][Of(c)]]]
           /\ cl[b] = [i \in Layer |-> [c \in Stored(b) |-> s.cl[i][Of(c)]]]
           /\ im[b] = [i \in Layer |-> [c \in Stored(b) |-> 0]]
           /\ ffcl[b] = [i \in Layer |-> [f \in Faces(b) |-> None]]
    BY StartFields
  <1>2. ASSUME NEW b \in Block, NEW c \in Stored(b), NEW i \in Layer, NEW j \in Layer,
               cl[b][i][c] = cl[b][j][c], cl[b][i][c] # None
        PROVE  i = j
    <2>1. cl[b] = [l \in Layer |-> [d \in Stored(b) |-> s.cl[l][Of(d)]]]
      BY <1>1, Zenon
    <2>2. cl[b][i][c] = s.cl[i][Of(c)] /\ cl[b][j][c] = s.cl[j][Of(c)]
      BY <2>1
    <2>3. Of(c) \in Cell
      BY StoredCells
    <2>4. \A l, m \in Layer : \A d \in Cell : s.cl[l][d] = s.cl[m][d] /\ s.cl[l][d] # None => l = m
      BY StartAssumption
    <2>. QED
      BY <1>2, <2>2, <2>3, <2>4
  <1>. QED
    BY <1>2 DEF OneLayer

LEMMA OneLayerKept ==
  ASSUME TypeOK, OneLayer, [Next]_vars
  PROVE  OneLayer'
  <1>1. \A b \in Block : \A c \in Stored(b) : Once(b, c)
    BY DEF OneLayer, Once
  <1>2. SUFFICES ASSUME NEW b \in Block, NEW c \in Stored(b) PROVE Once(b, c)'
    BY DEF OneLayer, Once
  <1>3. Once(b, c)
    BY <1>1
  <1>4. CASE Flow \/ Done \/ UNCHANGED vars
    <2>1. cl' = cl
      BY <1>4 DEF Flow, Done, vars, fields
    <2>. QED
      BY <2>1, <1>3 DEF Once
  <1>5. CASE Visit
    <2>1. \A i \in Layer : cl'[b][i][c] = IF Joins(b, At(b)) /\ i = New(b) /\ c = Down(At(b))
                                         THEN Passing(b, At(b)) ELSE cl[b][i][c]
      BY <1>5, VisitedCells
    <2>2. CASE Joins(b, At(b)) /\ c = Down(At(b))
      <3>1. \A i \in Layer : cl[b][i][c] # Passing(b, At(b))
        BY <2>2 DEF Joins
      <3>2. \A i \in Layer : cl'[b][i][c] = IF i = New(b) THEN Passing(b, At(b)) ELSE cl[b][i][c]
        BY <2>1, <2>2
      <3>. QED
        BY <3>1, <3>2, <1>3 DEF Once
    <2>3. CASE ~(Joins(b, At(b)) /\ c = Down(At(b)))
      <3>1. \A i \in Layer : cl'[b][i][c] = cl[b][i][c]
        BY <2>1, <2>3
      <3>. QED
        BY <3>1, <1>3, OnceIfLess
    <2>. QED
      BY <2>2, <2>3
  <1>6. CASE Update
    <2>1. \A i \in Layer : cl'[b][i][c] = cl[b][i][c] \/ cl'[b][i][c] = None
      BY <1>6, UpdatedCells
    <2>. QED
      BY <2>1, <1>3, OnceIfLess
  <1>7. CASE Filter
    <2>1. \A i \in Layer : cl'[b][i][c] = cl[b][i][c] \/ cl'[b][i][c] = None
      BY <1>7, FilteredCells
    <2>. QED
      BY <2>1, <1>3, OnceIfLess
  <1>8. CASE Comm
    <2>1. \A i \in Layer : cl'[b][i][c] = cl[Owner(c)][i][Of(c)]
      BY <1>8, ExchangedCells
    <2>2. Once(Owner(c), Of(c))
      BY <1>1, StoredCells
    <2>. QED
      BY <2>1, <2>2 DEF Once
  <1>. QED
    BY <1>4, <1>5, <1>6, <1>7, <1>8 DEF Next

\* No cell ever has a color in two layers, in any block, halo cells included, though
\* colors take layers in the middle of a sweep and blocks see their neighbours' cells late.
THEOREM ColorsOnce == Spec => []OneLayer
  <1>1. TypeOK /\ OneLayer /\ [Next]_vars => (TypeOK /\ OneLayer)'
    BY TypesKept, OneLayerKept
  <1>. QED
    BY <1>1, TypesInitially, OneLayerInitially, PTL DEF Spec

-----------------------------------------------------------------------------
(***************************************************************************)
(* The refinement.  The amount of a color, from the only layer that has it. *)
(***************************************************************************)
LEMMA OnlyLayer ==
  ASSUME NEW S \in SUBSET Layer, NEW i \in S, \A j \in S : j = i
  PROVE  S # {} /\ Min(S) = i
  <1>1. Min(S) \in S
    BY FreeLayer
  <1>. QED
    BY <1>1

LEMMA AmountIn ==
  ASSUME OneLayer, NEW c \in Cell, NEW k \in Color, NEW i \in Layer, cl[Owner(c)][i][c] = k
  PROVE  /\ Amount(c, k) = u[Owner(c)][i][c]
         /\ Amount(c, k) # 0 => ImageOf(c, k) = im[Owner(c)][i][c]
  <1>1. k # None
    BY RowAssumption DEF None
  <1>2. Owner(c) \in Block /\ c \in Stored(Owner(c))
    BY RowCells
  <1>3. \A j \in LayersOf(c, k) : j = i
    BY <1>1, <1>2 DEF OneLayer, LayersOf
  <1>4. LayersOf(c, k) \in SUBSET Layer /\ i \in LayersOf(c, k)
    BY DEF LayersOf
  <1>5. LayersOf(c, k) # {} /\ Min(LayersOf(c, k)) = i
    BY <1>3, <1>4, OnlyLayer
  <1>. QED
    BY <1>5 DEF Amount, ImageOf

\* The same after a step.
LEMMA AmountInNext ==
  ASSUME OneLayer', NEW c \in Cell, NEW k \in Color, NEW i \in Layer, cl'[Owner(c)][i][c] = k
  PROVE  /\ Amount(c, k)' = u'[Owner(c)][i][c]
         /\ Amount(c, k)' # 0 => ImageOf(c, k)' = im'[Owner(c)][i][c]
  <1>1. k # None
    BY RowAssumption DEF None
  <1>2. Owner(c) \in Block /\ c \in Stored(Owner(c))
    BY RowCells
  <1>3. \A j \in LayersOf(c, k)' : j = i
    BY <1>1, <1>2 DEF OneLayer, LayersOf
  <1>4. LayersOf(c, k)' \in SUBSET Layer /\ i \in LayersOf(c, k)'
    BY DEF LayersOf
  <1>5. LayersOf(c, k)' # {} /\ Min(LayersOf(c, k)') = i
    BY <1>3, <1>4, OnlyLayer
  <1>. QED
    BY <1>5 DEF Amount, ImageOf

LEMMA NoAmount ==
  ASSUME NEW c, NEW k, \A i \in Layer : cl[Owner(c)][i][c] # k
  PROVE  Amount(c, k) = 0 /\ ImageOf(c, k) = 0
  BY DEF Amount, ImageOf, LayersOf

LEMMA NoAmountNext ==
  ASSUME NEW c, NEW k, \A i \in Layer : cl'[Owner(c)][i][c] # k
  PROVE  Amount(c, k)' = 0 /\ ImageOf(c, k)' = 0
  BY DEF Amount, ImageOf, LayersOf

LEMMA StoredType ==
  ASSUME TypeOK, NEW b \in Block, NEW i \in Layer, NEW c \in Stored(b)
  PROVE  /\ u[b][i][c] \in 0 .. Full /\ u[b][i][c] \in Int /\ u[b][i][c] >= 0
         /\ cl[b][i][c] \in Color \cup {None}
         /\ im[b][i][c] \in Int
  <1>1. /\ u[b] \in [Layer -> [Stored(b) -> 0 .. Full]]
        /\ cl[b] \in [Layer -> [Stored(b) -> Color \cup {None}]]
        /\ im[b] \in [Layer -> [Stored(b) -> Int]]
    BY DEF TypeOK
  <1>2. u[b][i][c] \in 0 .. Full
    BY <1>1
  <1>. QED
    BY <1>1, <1>2, RowAssumption

\* A color with volume is in a layer.
LEMMA AmountType ==
  ASSUME TypeOK, OneLayer, NEW c \in Cell, NEW k \in Color
  PROVE  /\ Amount(c, k) \in 0 .. Full /\ Amount(c, k) \in Int /\ Amount(c, k) >= 0
         /\ Amount(c, k) # 0 => \E i \in Layer : cl[Owner(c)][i][c] = k
  <1>1. CASE \A i \in Layer : cl[Owner(c)][i][c] # k
    BY <1>1, NoAmount, RowAssumption
  <1>2. ASSUME NEW i \in Layer, cl[Owner(c)][i][c] = k
        PROVE  Amount(c, k) \in 0 .. Full /\ Amount(c, k) \in Int /\ Amount(c, k) >= 0
    <2>1. Amount(c, k) = u[Owner(c)][i][c]
      BY <1>2, AmountIn
    <2>. QED
      BY <2>1, StoredType, RowCells
  <1>. QED
    BY <1>1, <1>2

(***************************************************************************)
(* The invariant holds at first.                                           *)
(***************************************************************************)
LEMMA RefinedInitially ==
  ASSUME Init
  PROVE  Refined
  <1>1. TypeOK /\ OneLayer
    BY TypesInitially, OneLayerInitially
  <1>2. PICK s \in Starts : \A b \in Block :
           /\ u[b] = [i \in Layer |-> [c \in Stored(b) |-> s.u[i][Of(c)]]]
           /\ cl[b] = [i \in Layer |-> [c \in Stored(b) |-> s.cl[i][Of(c)]]]
           /\ im[b] = [i \in Layer |-> [c \in Stored(b) |-> 0]]
           /\ ffcl[b] = [i \in Layer |-> [f \in Faces(b) |-> None]]
    BY StartFields
  <1>3. ASSUME NEW b \in Block, NEW i \in Layer, NEW c \in Stored(b)
        PROVE  u[b][i][c] = s.u[i][Of(c)] /\ cl[b][i][c] = s.cl[i][Of(c)] /\ im[b][i][c] = 0
    <2>1. /\ u[b] = [l \in Layer |-> [d \in Stored(b) |-> s.u[l][Of(d)]]]
          /\ cl[b] = [l \in Layer |-> [d \in Stored(b) |-> s.cl[l][Of(d)]]]
          /\ im[b] = [l \in Layer |-> [d \in Stored(b) |-> 0]]
      BY <1>2, Zenon
    <2>. QED
      BY <2>1
  <1>4. \A l \in Layer : \A d \in Cell : s.cl[l][d] # None <=> s.u[l][d] > 0
    BY StartAssumption
  <1>5. ASSUME NEW b \in Block, NEW i \in Layer, NEW c \in Stored(b)
        PROVE  (cl[b][i][c] # None <=> u[b][i][c] > 0) /\ AsOwner(b, i, c)
    <2>1. Of(c) \in Cell /\ Owner(c) \in Block /\ Of(c) \in Stored(Owner(c)) /\ Of(Of(c)) = Of(c)
      BY StoredCells, SameOwner
    <2>2. cl[b][i][c] # None <=> u[b][i][c] > 0
      BY <1>3, <1>4, <2>1
    <2>3. /\ u[b][i][c] = s.u[i][Of(c)] /\ cl[b][i][c] = s.cl[i][Of(c)] /\ im[b][i][c] = 0
      BY <1>3
    <2>4. /\ u[Owner(c)][i][Of(c)] = s.u[i][Of(Of(c))] /\ cl[Owner(c)][i][Of(c)] = s.cl[i][Of(Of(c))]
          /\ im[Owner(c)][i][Of(c)] = 0
      BY <1>3, <2>1
    <2>. QED
      BY <2>1, <2>2, <2>3, <2>4 DEF AsOwner
  <1>6. VolumeColored /\ ColorsFilled /\ Current
    BY <1>5, InnerCells DEF VolumeColored, ColorsFilled, Filled, Current
  <1>7. Sweeping
    BY DEF Init, Sweeping
  <1>. QED
    BY <1>1, <1>6, <1>7 DEF Refined

(***************************************************************************)
(* What holds between sweeps is kept.                                      *)
(***************************************************************************)
LEMMA ColoredKept ==
  ASSUME Refined, [Next]_vars, NEW b \in Block, NEW i \in Layer, NEW c \in Stored(b)
  PROVE  u'[b][i][c] > 0 => cl'[b][i][c] # None
  <1>1. TypeOK /\ OneLayer /\ \A a \in Block : \A l \in Layer : \A d \in Stored(a) :
          u[a][l][d] > 0 => cl[a][l][d] # None
    BY DEF Refined, VolumeColored
  <1>2. CASE Flow \/ Done \/ UNCHANGED vars
    BY <1>1, <1>2 DEF Flow, Done, vars, fields
  <1>3. CASE Visit
    <2>1. u' = u
      BY <1>3 DEF Visit
    <2>2. cl'[b][i][c] = IF Joins(b, At(b)) /\ i = New(b) /\ c = Down(At(b))
                         THEN Passing(b, At(b)) ELSE cl[b][i][c]
      BY <1>1, <1>3, VisitedCells
    <2>3. Joins(b, At(b)) => Passing(b, At(b)) # None
      BY DEF Joins
    <2>. QED
      BY <1>1, <2>1, <2>2, <2>3
  <1>4. CASE Update
    <2>1. /\ u'[b][i][c] = Advanced(b, i, c)
          /\ cl'[b][i][c] = IF Leaves(b, i, c) THEN None ELSE cl[b][i][c]
      BY <1>4, UpdatedCells
    <2>2. Leaves(b, i, c) => Advanced(b, i, c) = 0
      BY DEF Leaves
    <2>3. ~Colored(b, i, c) => Advanced(b, i, c) = u[b][i][c]
      BY DEF Advanced
    <2>4. Colored(b, i, c) => cl[b][i][c] # None
      BY DEF Colored
    <2>. QED
      BY <1>1, <2>1, <2>2, <2>3, <2>4
  <1>5. CASE Filter
    <2>1. /\ u'[b][i][c] = IF Orphan(b, i, c) THEN 0 ELSE u[b][i][c]
          /\ cl'[b][i][c] = IF Orphan(b, i, c) THEN None ELSE cl[b][i][c]
      BY <1>5, FilteredCells
    <2>. QED
      BY <1>1, <2>1
  <1>6. CASE Comm
    BY <1>1, <1>6, ExchangedCells, StoredCells
  <1>. QED
    BY <1>2, <1>3, <1>4, <1>5, <1>6 DEF Next

\* After a sweep and after the filter inner cells have no color without volume.
LEMMA InnerFilled ==
  ASSUME Refined, Update \/ Filter, NEW b \in Block, NEW i \in Layer, NEW c \in Inner(b)
  PROVE  Filled(b, i, c)'
  <1>1. c \in Stored(b) /\ TypeOK
    BY InnerCells DEF Refined
  <1>2. CASE Update
    <2>1. /\ u'[b][i][c] = Advanced(b, i, c)
          /\ cl'[b][i][c] = IF Leaves(b, i, c) THEN None ELSE cl[b][i][c]
      BY <1>1, <1>2, UpdatedCells
    <2>2. Advanced(b, i, c) \in 0 .. Full
      BY <1>1, AdvancedType
    <2>3. cl[b][i][c] # None => Colored(b, i, c)
      BY DEF Colored
    <2>. QED
      BY <2>1, <2>2, <2>3, RowAssumption DEF Leaves, Filled
  <1>3. CASE Filter
    <2>1. /\ u'[b][i][c] = IF Orphan(b, i, c) THEN 0 ELSE u[b][i][c]
          /\ cl'[b][i][c] = IF Orphan(b, i, c) THEN None ELSE cl[b][i][c]
      BY <1>1, <1>3, FilteredCells
    <2>2. Filled(b, i, c)
      BY <1>1, <1>3 DEF Filter, Refined, ColorsFilled
    <2>. QED
      BY <2>1, <2>2 DEF Filled
  <1>. QED
    BY <1>2, <1>3

\* The exchange makes halo cells like the cells of their owners.
LEMMA ExchangeFills ==
  ASSUME Refined, Comm, NEW b \in Block, NEW i \in Layer, NEW c \in Stored(b)
  PROVE  Filled(b, i, c)' /\ AsOwner(b, i, c)'
  <1>1. Owner(c) \in Block /\ Of(c) \in Inner(Owner(c)) /\ Of(c) \in Stored(Owner(c))
        /\ Of(Of(c)) = Of(c) /\ Owner(Of(c)) = Owner(c)
    BY StoredCells, SameOwner
  <1>2. Filled(Owner(c), i, Of(c))
    BY <1>1 DEF Comm, Refined, ColorsFilled
  <1>3. /\ u'[b][i][c] = u[Owner(c)][i][Of(c)]
        /\ cl'[b][i][c] = cl[Owner(c)][i][Of(c)]
        /\ im'[b][i][c] = im[Owner(c)][i][Of(c)]
    BY ExchangedCells
  <1>4. /\ u'[Owner(c)][i][Of(c)] = u[Owner(c)][i][Of(c)]
        /\ cl'[Owner(c)][i][Of(c)] = cl[Owner(c)][i][Of(c)]
        /\ im'[Owner(c)][i][Of(c)] = im[Owner(c)][i][Of(c)]
    BY <1>1, ExchangedCells
  <1>. QED
    BY <1>2, <1>3, <1>4 DEF Filled, AsOwner

LEMMA BetweenKept ==
  ASSUME Refined, [Next]_vars
  PROVE  VolumeColored' /\ ColorsFilled' /\ Current'
  <1>1. VolumeColored'
    BY ColoredKept DEF VolumeColored
  <1>2. CASE Flow \/ Visit
    <2>1. stage' \in {"visit", "update"}
      BY <1>2 DEF Flow, Visit
    <2>. QED
      BY <1>1, <2>1 DEF ColorsFilled, Current
  <1>3. CASE Update \/ Filter
    <2>1. stage' \in {"comm", "filtered"}
      BY <1>3 DEF Update, Filter
    <2>2. \A b \in Block : \A i \in Layer : \A c \in Inner(b) : Filled(b, i, c)'
      BY <1>3, InnerFilled
    <2>. QED
      BY <1>1, <2>1, <2>2 DEF ColorsFilled, Current
  <1>4. CASE Comm
    <2>1. \A b \in Block : \A i \in Layer : \A c \in Stored(b) : Filled(b, i, c)' /\ AsOwner(b, i, c)'
      BY <1>4, ExchangeFills
    <2>. QED
      BY <1>1, <2>1, InnerCells DEF ColorsFilled, Current
  <1>5. CASE Done \/ UNCHANGED vars
    BY <1>1, <1>5 DEF Done, vars, fields, Refined, ColorsFilled, Current, Filled, AsOwner
  <1>. QED
    BY <1>2, <1>3, <1>4, <1>5 DEF Next

(***************************************************************************)
(* What holds during a sweep: at its start.                                *)
(***************************************************************************)
\* Amounts do not change with the velocity.
LEMMA SameFields ==
  ASSUME UNCHANGED fields, NEW c, NEW k
  PROVE  Amount(c, k)' = Amount(c, k) /\ ImageOf(c, k)' = ImageOf(c, k)
  BY DEF fields, Amount, ImageOf, LayersOf

LEMMA SweepStarts ==
  ASSUME Refined, Flow
  PROVE  Sweeping'
  <1>1. /\ UNCHANGED fields /\ u' = u /\ cl' = cl /\ im' = im
        /\ stage' = "visit" /\ layer' = 0 /\ face' = 0 /\ ffcl' = NoColors
    BY DEF Flow, fields
  <1>2. \A b \in Block : \A i \in Layer : \A c \in Stored(b) : Filled(b, i, c) /\ AsOwner(b, i, c)
    BY DEF Flow, Refined, ColorsFilled, Current
  <1>3. VolumeCurrent'
    BY <1>1, <1>2 DEF VolumeCurrent, AsOwner
  <1>4. FluxUpwind'
    <2>1. ASSUME NEW f \in Cell, NEW k \in Color, flux'[f][k] > 0
          PROVE  v'[f] # 0 /\ Amount(UpwindCell(v, f), k)' > 0
      <3>1. <<f, k>> \in Carried(v')
        BY <2>1, FlowChanges
      <3>2. v'[f] # 0 /\ Amount(UpwindCell(v', f), k) > 0
        BY <3>1 DEF Carried
      <3>3. Amount(UpwindCell(v, f), k)' = Amount(UpwindCell(v', f), k)
        BY <1>1 DEF Amount, LayersOf, UpwindCell
      <3>. QED
        BY <3>2, <3>3
    <2>. QED
      BY <2>1 DEF FluxUpwind
  <1>5. \A b \in Block : \A i \in Layer : \A f \in Faces(b) : ffcl'[b][i][f] = None
    BY <1>1 DEF NoColors
  <1>6. FacesColored' /\ ColorsArrive'
    BY <1>5 DEF FacesColored, ColorsArrive
  <1>7. VolumePasses'
    <2>1. ASSUME NEW b \in Block, NEW i \in Layer, NEW f \in Faces(b) PROVE ~Visited(b, i, f)'
      <3>1. First[b] \in Int /\ f \in Int /\ First[b] <= f
        BY BlockAssumption, RowAssumption DEF Cell, Faces
      <3>2. i \in Int /\ i >= 0
        BY RowAssumption DEF Layer
      <3>. QED
        BY <1>1, <3>1, <3>2 DEF Visited, At
    <2>. QED
      BY <2>1 DEF VolumePasses
  <1>8. ColorsCome'
    <2>1. \A b \in Block : \A i \in Layer : \A c \in Inner(b) : Filled(b, i, c)'
      BY <1>1, <1>2, InnerCells DEF Filled
    <2>. QED
      BY <2>1 DEF ColorsCome, Filled
  <1>9. HaloFilled'
    <2>1. ASSUME NEW b \in Block
          PROVE  First[b] - 1 \in Stored(b) /\ First[b] + width \in Stored(b)
      <3>1. First[b] \in Int /\ width \in Nat
        BY BlockAssumption, RowAssumption DEF Cell
      <3>. QED
        BY <3>1 DEF Stored
    <2>2. \A b \in Block : \A i \in Layer : \A c \in Stored(b) : Filled(b, i, c)'
      BY <1>1, <1>2 DEF Filled
    <2>. QED
      BY <2>1, <2>2 DEF HaloFilled
  <1>. QED
    BY <1>3, <1>4, <1>6, <1>7, <1>8, <1>9 DEF Sweeping

(***************************************************************************)
(* By a visit.                                                             *)
(***************************************************************************)
LEMMA VisitKeepsColors ==
  ASSUME TypeOK, Visit, NEW b \in Block, NEW i \in Layer, NEW c \in Stored(b), cl[b][i][c] # None
  PROVE  cl'[b][i][c] = cl[b][i][c] /\ im'[b][i][c] = im[b][i][c]
  <1>1. ~(Joins(b, At(b)) /\ i = New(b) /\ c = Down(At(b)))
    BY NewLayer
  <1>. QED
    BY <1>1, VisitedCells

\* A color that joins a cell has no volume there.
LEMMA VisitAmounts ==
  ASSUME TypeOK, OneLayer, VolumeColored, OneLayer', Visit, NEW c \in Cell, NEW k \in Color
  PROVE  Amount(c, k)' = Amount(c, k) /\ ImageOf(c, k)' = ImageOf(c, k)
  <1> DEFINE b == Owner(c)
  <1>1. b \in Block /\ c \in Stored(b) /\ k # None
    BY RowCells, RowAssumption DEF None
  <1>2. u' = u
    BY DEF Visit
  <1>3. ASSUME NEW i \in Layer, cl[b][i][c] = k
        PROVE  Amount(c, k)' = Amount(c, k) /\ ImageOf(c, k)' = ImageOf(c, k)
    <2>1. cl'[b][i][c] = k /\ im'[b][i][c] = im[b][i][c]
      BY <1>1, <1>3, VisitKeepsColors
    <2>2. Amount(c, k) = u[b][i][c] /\ (Amount(c, k) # 0 => ImageOf(c, k) = im[b][i][c])
      BY <1>3, AmountIn
    <2>3. Amount(c, k)' = u'[b][i][c] /\ (Amount(c, k)' # 0 => ImageOf(c, k)' = im'[b][i][c])
      BY <2>1, AmountInNext
    <2>4. Amount(c, k) = 0 => ImageOf(c, k) = 0
      BY DEF ImageOf
    <2>5. Amount(c, k)' = 0 => ImageOf(c, k)' = 0
      BY DEF ImageOf
    <2>. QED
      BY <1>2, <2>1, <2>2, <2>3, <2>4, <2>5
  <1>4. CASE \A i \in Layer : cl[b][i][c] # k
    <2>1. Amount(c, k) = 0 /\ ImageOf(c, k) = 0
      BY <1>4, NoAmount
    <2>2. ASSUME NEW i \in Layer, cl'[b][i][c] = k
          PROVE  Amount(c, k)' = 0
      <3>1. cl[b][i][c] = None
        BY <1>1, <1>4, <2>2, VisitKeepsColors
      <3>2. u[b][i][c] = 0
        BY <1>1, <3>1, StoredType DEF VolumeColored
      <3>3. Amount(c, k)' = u'[b][i][c]
        BY <2>2, AmountInNext
      <3>. QED
        BY <1>2, <3>2, <3>3
    <2>3. Amount(c, k)' = 0
      BY <2>2, NoAmountNext
    <2>4. Amount(c, k)' = 0 => ImageOf(c, k)' = 0
      BY DEF ImageOf
    <2>. QED
      BY <2>1, <2>3, <2>4
  <1>. QED
    BY <1>3, <1>4

\* The flow leads over the face from the upwind to the downwind cell, and further.
LEMMA LeadsOver ==
  ASSUME TypeOK, NEW b \in Block, NEW f \in Faces(b), Velocity(f) # 0
  PROVE  /\ Leads(Up(f), Down(f))
         /\ \A e \in Int : Leads(e, Up(f)) => Leads(e, Down(f))
  <1>1. f \in Int /\ Of(f) \in Cell
    BY AroundFaces
  <1>2. Velocity(f) \in {-1, 0, 1}
    BY <1>1 DEF Velocity, TypeOK
  <1>3. CASE Velocity(f) > 0
    <2>1. Up(f) = f - 1 /\ Down(f) = f
      BY <1>3 DEF Up, Down
    <2>2. \A g \in (f - 1) + 1 .. f : g = f
      BY <1>1
    <2>3. Leads(Up(f), Down(f))
      BY <1>1, <1>3, <2>1, <2>2 DEF Leads
    <2>4. ASSUME NEW e \in Int, Leads(e, f - 1) PROVE Leads(e, f)
      <3>1. CASE e < f - 1 /\ \A g \in e + 1 .. f - 1 : Velocity(g) > 0
        <4>1. \A g \in e + 1 .. f : Velocity(g) > 0
          BY <1>1, <1>3, <3>1
        <4>. QED
          BY <1>1, <3>1, <4>1 DEF Leads
      <3>2. CASE f - 1 < e /\ \A g \in (f - 1) + 1 .. e : Velocity(g) < 0
        <4>1. f \in (f - 1) + 1 .. e
          BY <1>1, <3>2
        <4>2. Velocity(f) < 0
          BY <3>2, <4>1
        <4>. QED
          BY <1>2, <1>3, <4>2
      <3>. QED
        BY <2>4, <3>1, <3>2 DEF Leads
    <2>. QED
      BY <2>1, <2>3, <2>4
  <1>4. CASE Velocity(f) < 0
    <2>1. Up(f) = f /\ Down(f) = f - 1
      BY <1>2, <1>4 DEF Up, Down
    <2>2. \A g \in (f - 1) + 1 .. f : g = f
      BY <1>1
    <2>3. Leads(Up(f), Down(f))
      BY <1>1, <1>4, <2>1, <2>2 DEF Leads
    <2>4. ASSUME NEW e \in Int, Leads(e, f) PROVE Leads(e, f - 1)
      <3>1. CASE f < e /\ \A g \in f + 1 .. e : Velocity(g) < 0
        <4>1. \A g \in (f - 1) + 1 .. e : Velocity(g) < 0
          BY <1>1, <1>4, <3>1
        <4>. QED
          BY <1>1, <3>1, <4>1 DEF Leads
      <3>2. CASE e < f /\ \A g \in e + 1 .. f : Velocity(g) > 0
        <4>1. f \in e + 1 .. f
          BY <1>1, <3>2
        <4>2. Velocity(f) > 0
          BY <3>2, <4>1
        <4>. QED
          BY <1>2, <1>4, <4>2
      <3>. QED
        BY <2>4, <3>1, <3>2 DEF Leads
    <2>. QED
      BY <2>1, <2>3, <2>4
  <1>. QED
    BY <1>2, <1>3, <1>4

\* A halo cell that the flow comes from is at the end of the block on that side.
LEMMA UpwindHalo ==
  ASSUME TypeOK, NEW b \in Block, NEW f \in Faces(b), Velocity(f) # 0, Up(f) \notin Inner(b)
  PROVE  \/ Up(f) = First[b] - 1 /\ Velocity(First[b]) > 0
         \/ Up(f) = First[b] + width /\ Velocity(First[b] + width) < 0
  <1>1. f \in Int /\ First[b] \in Int /\ width \in Int /\ width >= 1
    BY AroundFaces, BlockAssumption, RowAssumption DEF Cell
  <1>2. Of(f) \in Cell
    BY AroundFaces
  <1>3. Velocity(f) \in {-1, 0, 1}
    BY <1>2 DEF Velocity, TypeOK
  <1>4. First[b] <= f /\ f <= First[b] + width
    BY <1>1 DEF Faces
  <1>5. CASE Velocity(f) > 0
    <2>1. Up(f) = f - 1
      BY <1>5 DEF Up
    <2>2. f = First[b]
      BY <1>1, <1>4, <2>1 DEF Inner
    <2>. QED
      BY <1>5, <2>1, <2>2
  <1>6. CASE Velocity(f) < 0
    <2>1. Up(f) = f
      BY <1>3, <1>6 DEF Up
    <2>2. f = First[b] + width
      BY <1>1, <1>4, <2>1 DEF Inner
    <2>. QED
      BY <1>6, <2>1, <2>2
  <1>. QED
    BY <1>3, <1>5, <1>6

\* A color that joins a cell comes from volume that is upwind.
LEMMA JoiningColor ==
  ASSUME TypeOK, OneLayer, VolumeCurrent, ColorsCome, HaloFilled, NEW b \in Block, NEW f \in Faces(b),
         Passing(b, f) # None
  PROVE  \E e \in Stored(b) : ComesFrom(e, Down(f), Passing(b, f), Image(b, f))
  <1> DEFINE c == Up(f)
             k == Passing(b, f)
  <1>1. Velocity(f) # 0 /\ k = cl[b][layer][c]
    BY DEF Passing
  <1>2. c \in Stored(b) /\ layer \in Layer
    BY AroundFaces DEF TypeOK
  <1>3. k \in Color
    BY <1>1, <1>2, StoredType
  <1>4. Image(b, f) = im[b][layer][c] + Crossed(c)
    <2>1. im[b][layer][c] \in Int
      BY <1>2, StoredType
    <2>. QED
      BY <2>1 DEF Image, Crossed
  <1>5. Of(c) \in Cell /\ Owner(Of(c)) = Owner(c) /\ c \in Int
    BY <1>2, StoredCells, SameOwner
  <1>6. CASE u[b][layer][c] > 0
    <2>1. AsOwner(b, layer, c)
      BY <1>2, <1>6 DEF VolumeCurrent
    <2>2. cl[Owner(Of(c))][layer][Of(c)] = k
      BY <1>1, <1>5, <2>1 DEF AsOwner
    <2>3. /\ Amount(Of(c), k) = u[Owner(Of(c))][layer][Of(c)]
          /\ Amount(Of(c), k) # 0 => ImageOf(Of(c), k) = im[Owner(Of(c))][layer][Of(c)]
      BY <1>2, <1>3, <1>5, <2>2, AmountIn
    <2>4. Amount(Of(c), k) > 0 /\ ImageOf(Of(c), k) = im[b][layer][c]
      BY <1>5, <1>6, <2>1, <2>3 DEF AsOwner
    <2>5. Leads(c, Down(f))
      BY <1>1, LeadsOver
    <2>6. ComesFrom(c, Down(f), k, Image(b, f))
      BY <1>4, <2>4, <2>5 DEF ComesFrom
    <2>. QED
      BY <1>2, <2>6
  <1>7. CASE ~(u[b][layer][c] > 0)
    <2>1. u[b][layer][c] = 0
      BY <1>2, <1>7, StoredType
    <2>2. c \in Inner(b)
      BY <1>1, <1>2, <1>7, UpwindHalo DEF HaloFilled, Filled
    <2>3. PICK e \in Stored(b) : ComesFrom(e, c, k, im[b][layer][c])
      BY <1>1, <1>2, <2>1, <2>2 DEF ColorsCome
    <2>4. Crossed(c) = 0
      <3>1. c \in Cell
        BY <2>2, InnerCells
      <3>. QED
        BY <3>1, RowAssumption DEF Crossed, Cell
    <2>5. Image(b, f) = im[b][layer][c]
      BY <1>2, <1>4, <2>4, StoredType
    <2>6. Leads(e, Down(f))
      BY <1>1, <2>3, StoredCells, LeadsOver DEF ComesFrom
    <2>7. ComesFrom(e, Down(f), k, Image(b, f))
      BY <2>3, <2>5, <2>6 DEF ComesFrom
    <2>. QED
      BY <2>7
  <1>. QED
    BY <1>6, <1>7

LEMMA UpwindInRow ==
  ASSUME NEW f \in Cell
  PROVE  UpwindCell(v, f) \in Cell
  BY RowAssumption DEF UpwindCell, Of, Cell

\* Faces in the order of the visits.
LEMMA NextVisited ==
  ASSUME TypeOK, Visit, NEW b \in Block, NEW i \in Layer, NEW f \in Faces(b), Visited(b, i, f)'
  PROVE  Visited(b, i, f) \/ (i = layer /\ f = At(b))
  <1>1. /\ First[b] \in Int /\ f \in Int /\ f <= First[b] + width
        /\ i \in Int /\ i <= nlayers - 1 /\ layer \in Int /\ face \in Int /\ width \in Int /\ nlayers \in Int
    BY BlockAssumption, RowAssumption DEF Cell, Faces, Layer, TypeOK
  <1>2. /\ stage = "visit"
        /\ face' = IF face < width THEN face + 1 ELSE 0
        /\ layer' = IF face < width THEN layer ELSE IF layer < nlayers - 1 THEN layer + 1 ELSE 0
        /\ stage' = IF face = width /\ layer = nlayers - 1 THEN "update" ELSE "visit"
    BY DEF Visit
  <1>3. face <= width /\ layer <= nlayers - 1
    BY <1>1, RowAssumption DEF TypeOK, Layer
  <1>4. CASE face < width
    <2>1. layer' = layer /\ face' = face + 1 /\ stage' = "visit"
      BY <1>1, <1>2, <1>4
    <2>2. i < layer \/ (i = layer /\ f < First[b] + (face + 1))
      BY <2>1 DEF Visited, At
    <2>3. i < layer \/ (i = layer /\ (f < First[b] + face \/ f = First[b] + face))
      BY <1>1, <2>2
    <2>. QED
      BY <2>3 DEF Visited, At
  <1>5. CASE face = width /\ layer < nlayers - 1
    BY <1>1, <1>2, <1>5, BlockAssumption, RowAssumption DEF Visited, At, Faces
  <1>6. CASE face = width /\ layer = nlayers - 1
    <2>1. i < layer \/ i = layer
      BY <1>1, <1>6
    <2>2. f <= First[b] + face
      BY <1>1, <1>6
    <2>3. f < First[b] + face \/ f = First[b] + face
      BY <1>1, <2>2
    <2>. QED
      BY <2>1, <2>3 DEF Visited, At
  <1>. QED
    BY <1>1, <1>3, <1>4, <1>5, <1>6

LEMMA VisitKeepsFaces ==
  ASSUME Refined, Visit, NEW b \in Block, NEW i \in Layer, NEW f \in Faces(b)
  PROVE  /\ ffcl'[b][i][f] # None => Velocity(f)' # 0 /\ cl'[b][i][Up(f)'] = ffcl'[b][i][f]
         /\ Visited(b, i, f)' /\ Velocity(f)' # 0 /\ u'[b][i][Up(f)'] > 0 =>
              ffcl'[b][i][f] = cl'[b][i][Up(f)']
         /\ ffcl'[b][i][f] # None =>
              \/ \E j \in Layer : cl'[b][j][Down(f)'] = ffcl'[b][i][f]
              \/ \A j \in Layer : cl'[b][j][Down(f)'] # None
  <1>1. /\ TypeOK /\ FacesColored /\ VolumePasses /\ ColorsArrive
        /\ \A l \in Layer : \A c \in Stored(b) : u[b][l][c] > 0 => cl[b][l][c] # None
    BY DEF Visit, Refined, Sweeping, VolumeColored
  <1>2. u' = u /\ Velocity(f)' = Velocity(f) /\ Up(f)' = Up(f) /\ Down(f)' = Down(f)
    BY DEF Visit, Velocity, Up, Down
  <1>3. Up(f) \in Stored(b) /\ Down(f) \in Stored(b)
    BY AroundFaces
  <1>4. \A l \in Layer : \A c \in Stored(b) : cl[b][l][c] # None => cl'[b][l][c] = cl[b][l][c]
    BY <1>1, VisitKeepsColors
  <1>5. CASE i = layer /\ f = At(b)
    <2>1. ffcl'[b][i][f] = Passing(b, f)
      BY <1>1, <1>5, VisitedCells
    <2>2. Passing(b, f) # None => Velocity(f) # 0 /\ Passing(b, f) = cl[b][i][Up(f)]
      BY <1>5 DEF Passing
    <2>3. Velocity(f) # 0 => Passing(b, f) = cl[b][i][Up(f)]
      BY <1>5 DEF Passing
    <2>4. ASSUME Passing(b, f) # None
          PROVE  \/ \E j \in Layer : cl'[b][j][Down(f)] = Passing(b, f)
                 \/ \A j \in Layer : cl'[b][j][Down(f)] # None
      <3>1. CASE Joins(b, f)
        <4>1. New(b) \in Layer
          BY <1>5, <3>1, NewLayer
        <4>2. cl'[b][New(b)][Down(f)] = Passing(b, f)
          BY <1>1, <1>3, <1>5, <3>1, <4>1, VisitedCells
        <4>. QED
          BY <4>1, <4>2
      <3>2. CASE \E j \in Layer : cl[b][j][Down(f)] = Passing(b, f)
        BY <1>3, <1>4, <2>4, <3>2
      <3>3. CASE \A j \in Layer : cl[b][j][Down(f)] # None
        BY <1>3, <1>4, <3>3
      <3>. QED
        BY <2>4, <3>1, <3>2, <3>3 DEF Joins, Free
    <2>. QED
      BY <1>1, <1>2, <1>3, <1>4, <2>1, <2>2, <2>3, <2>4
  <1>6. CASE ~(i = layer /\ f = At(b))
    <2>1. ffcl'[b][i][f] = ffcl[b][i][f]
      BY <1>1, <1>6, VisitedCells
    <2>2. ffcl[b][i][f] # None => Velocity(f) # 0 /\ cl[b][i][Up(f)] = ffcl[b][i][f]
      BY <1>1 DEF FacesColored
    <2>3. Visited(b, i, f)' /\ Velocity(f) # 0 /\ u[b][i][Up(f)] > 0 =>
            ffcl[b][i][f] = cl[b][i][Up(f)]
      BY <1>1, <1>6, NextVisited DEF VolumePasses
    <2>4. ffcl[b][i][f] # None =>
            \/ \E j \in Layer : cl[b][j][Down(f)] = ffcl[b][i][f]
            \/ \A j \in Layer : cl[b][j][Down(f)] # None
      BY <1>1 DEF ColorsArrive
    <2>5. ffcl[b][i][f] # None =>
            \/ \E j \in Layer : cl'[b][j][Down(f)] = ffcl[b][i][f]
            \/ \A j \in Layer : cl'[b][j][Down(f)] # None
      BY <1>3, <1>4, <2>4
    <2>. QED
      BY <1>1, <1>2, <1>3, <1>4, <2>1, <2>2, <2>3, <2>5
  <1>. QED
    BY <1>5, <1>6

LEMMA VisitKeepsVolume ==
  ASSUME Refined, Visit
  PROVE  VolumeCurrent' /\ FluxUpwind' /\ HaloFilled'
  <1>1. TypeOK /\ OneLayer /\ VolumeColored /\ VolumeCurrent /\ FluxUpwind /\ HaloFilled
    BY DEF Visit, Refined, Sweeping
  <1>2. OneLayer'
    BY <1>1, OneLayerKept DEF Next
  <1>3. u' = u /\ v' = v /\ flux' = flux
    BY DEF Visit
  <1>4. ASSUME NEW b \in Block, NEW i \in Layer, NEW c \in Stored(b)
        PROVE  /\ u'[b][i][c] = u'[Owner(c)][i][Of(c)]
               /\ u'[b][i][c] > 0 => AsOwner(b, i, c)'
    <2>1. Owner(c) \in Block /\ Of(c) \in Stored(Owner(c))
      BY StoredCells
    <2>2. u[b][i][c] = u[Owner(c)][i][Of(c)] /\ (u[b][i][c] > 0 => AsOwner(b, i, c))
      BY <1>1 DEF VolumeCurrent
    <2>3. ASSUME u[b][i][c] > 0 PROVE AsOwner(b, i, c)'
      <3>1. cl[b][i][c] # None /\ cl[Owner(c)][i][Of(c)] # None
        BY <1>1, <2>1, <2>2, <2>3 DEF VolumeColored
      <3>2. cl'[b][i][c] = cl[b][i][c] /\ im'[b][i][c] = im[b][i][c]
        BY <1>1, <3>1, VisitKeepsColors
      <3>3. /\ cl'[Owner(c)][i][Of(c)] = cl[Owner(c)][i][Of(c)]
            /\ im'[Owner(c)][i][Of(c)] = im[Owner(c)][i][Of(c)]
        BY <1>1, <2>1, <3>1, VisitKeepsColors
      <3>. QED
        BY <1>3, <2>2, <2>3, <3>2, <3>3 DEF AsOwner
    <2>. QED
      BY <1>3, <2>2, <2>3
  <1>5. ASSUME NEW f \in Cell, NEW k \in Color, flux'[f][k] > 0
        PROVE  v'[f] # 0 /\ Amount(UpwindCell(v, f), k)' > 0
    <2>1. v[f] # 0 /\ Amount(UpwindCell(v, f), k) > 0
      BY <1>1, <1>3, <1>5 DEF FluxUpwind
    <2>2. UpwindCell(v, f) \in Cell
      BY UpwindInRow
    <2>3. \A d \in Cell : Amount(d, k)' = Amount(d, k)
      BY <1>1, <1>2, VisitAmounts
    <2>4. UpwindCell(v, f)' = UpwindCell(v, f)
      BY <1>3 DEF UpwindCell
    <2>5. Amount(UpwindCell(v, f), k)' = Amount(UpwindCell(v, f), k)
      <3>1. \A d : UpwindCell(v, f)' = d => Amount(UpwindCell(v, f), k)' = Amount(d, k)'
        BY DEF Amount, LayersOf
      <3>. QED
        BY <2>2, <2>3, <2>4, <3>1
    <2>. QED
      BY <1>3, <2>1, <2>5
  <1>6. ASSUME NEW b \in Block, NEW i \in Layer
        PROVE  /\ Velocity(First[b])' > 0 => Filled(b, i, First[b] - 1)'
               /\ Velocity(First[b] + width)' < 0 => Filled(b, i, First[b] + width)'
    <2>1. /\ First[b] \in Int /\ width \in Int /\ width >= 1
          /\ First[b] - 1 \in Stored(b) /\ First[b] + width \in Stored(b)
          /\ At(b) \in Int /\ First[b] <= At(b) /\ At(b) <= First[b] + width
      <3>1. First[b] \in Int /\ width \in Int /\ width >= 1
        BY BlockAssumption, RowAssumption DEF Cell
      <3>2. face \in Int /\ 0 <= face /\ face <= width
        BY <1>1, <3>1 DEF TypeOK
      <3>3. First[b] - 1 \in Stored(b) /\ First[b] + width \in Stored(b)
        BY <3>1 DEF Stored
      <3>. QED
        BY <3>1, <3>2, <3>3 DEF At
    <2>2. Velocity(First[b])' = Velocity(First[b]) /\ Velocity(First[b] + width)' = Velocity(First[b] + width)
      BY <1>3 DEF Velocity
    <2>3. \A c \in Stored(b) : Filled(b, i, c) /\ c # Down(At(b)) => Filled(b, i, c)'
      BY <1>1, <1>3, VisitedCells DEF Filled
    <2>4. Velocity(First[b]) > 0 => First[b] - 1 # Down(At(b))
      BY <2>1 DEF Down
    <2>5. Velocity(First[b] + width) < 0 => First[b] + width # Down(At(b))
      <3>1. Of(First[b] + width) \in Cell
        BY <2>1, StoredCells
      <3>2. Velocity(First[b] + width) \in Int
        BY <1>1, <3>1 DEF Velocity, TypeOK
      <3>. QED
        BY <2>1, <3>2 DEF Down
    <2>6. /\ Velocity(First[b]) > 0 => Filled(b, i, First[b] - 1)
          /\ Velocity(First[b] + width) < 0 => Filled(b, i, First[b] + width)
      BY <1>1 DEF HaloFilled
    <2>. QED
      BY <2>1, <2>2, <2>3, <2>4, <2>5, <2>6
  <1>. QED
    BY <1>4, <1>5, <1>6 DEF VolumeCurrent, FluxUpwind, HaloFilled

LEMMA VisitKeepsSources ==
  ASSUME Refined, Visit
  PROVE  ColorsCome'
  <1>1. /\ TypeOK /\ OneLayer /\ VolumeColored
        /\ VolumeCurrent /\ ColorsCome /\ HaloFilled
    BY DEF Visit, Refined, Sweeping
  <1>2. OneLayer'
    BY <1>1, OneLayerKept DEF Next
  <1>3. u' = u /\ \A f : Velocity(f)' = Velocity(f)
    BY DEF Visit, Velocity
  <1>4. ASSUME NEW b \in Block, NEW e \in Stored(b), NEW c, NEW k \in Color, NEW image,
               ComesFrom(e, c, k, image)
        PROVE  ComesFrom(e, c, k, image)'
    <2>1. Amount(Of(e), k)' = Amount(Of(e), k) /\ ImageOf(Of(e), k)' = ImageOf(Of(e), k)
      BY <1>1, <1>2, StoredCells, VisitAmounts
    <2>2. Leads(e, c) => Leads(e, c)'
      BY <1>3 DEF Leads
    <2>. QED
      BY <1>4, <2>1, <2>2 DEF ComesFrom, Crossed
  <1>5. ASSUME NEW b \in Block, NEW i \in Layer, NEW c \in Inner(b),
               cl'[b][i][c] # None, u'[b][i][c] = 0
        PROVE  \E e \in Stored(b) : ComesFrom(e, c, cl[b][i][c], im[b][i][c])'
    <2>1. c \in Stored(b)
      BY InnerCells
    <2>4. ASSUME NEW e \in Stored(b), NEW k, NEW image, ComesFrom(e, c, k, image)',
                 cl'[b][i][c] = k, im'[b][i][c] = image
          PROVE  ComesFrom(e, c, cl[b][i][c], im[b][i][c])'
      BY <2>4 DEF ComesFrom, Leads, Crossed, Velocity, Amount, ImageOf, LayersOf
    <2>2. CASE cl[b][i][c] # None
      <3>1. cl'[b][i][c] = cl[b][i][c] /\ im'[b][i][c] = im[b][i][c]
        BY <1>1, <2>1, <2>2, VisitKeepsColors
      <3>2. PICK e \in Stored(b) : ComesFrom(e, c, cl[b][i][c], im[b][i][c])
        BY <1>1, <1>3, <1>5, <2>2 DEF ColorsCome
      <3>3. cl[b][i][c] \in Color
        BY <1>1, <2>1, <2>2, StoredType
      <3>4. ComesFrom(e, c, cl[b][i][c], im[b][i][c])
        BY <3>2
      <3>5. \E kk \in Color : \E ii : cl'[b][i][c] = kk /\ im'[b][i][c] = ii /\ ComesFrom(e, c, kk, ii)
        BY <3>1, <3>3, <3>4
      <3>6. PICK kk \in Color : \E ii : cl'[b][i][c] = kk /\ im'[b][i][c] = ii /\ ComesFrom(e, c, kk, ii)
        BY <3>5
      <3>7. PICK ii : cl'[b][i][c] = kk /\ im'[b][i][c] = ii /\ ComesFrom(e, c, kk, ii)
        BY <3>6
      <3>8. ComesFrom(e, c, kk, ii)'
        BY <1>4, <3>7
      <3>. QED
        BY <2>4, <3>7, <3>8
    <2>3. CASE cl[b][i][c] = None
      <3> DEFINE f == At(b)
      <3>1. f \in Faces(b)
        BY <1>1, VisitChanges
      <3>2. /\ Joins(b, f) /\ c = Down(f)
            /\ cl'[b][i][c] = Passing(b, f) /\ im'[b][i][c] = Image(b, f)
        BY <1>1, <1>5, <2>1, <2>3, VisitedCells
      <3>3. Passing(b, f) # None
        BY <3>2 DEF Joins
      <3>4. PICK e \in Stored(b) : ComesFrom(e, Down(f), Passing(b, f), Image(b, f))
        BY <1>1, <3>1, <3>3, JoiningColor
      <3>5. Passing(b, f) \in Color
        BY <1>1, <3>1, <3>3, PassingType
      <3>6. \E kk \in Color : \E ii : cl'[b][i][c] = kk /\ im'[b][i][c] = ii /\ ComesFrom(e, c, kk, ii)
        BY <3>2, <3>4, <3>5
      <3>7. PICK kk \in Color : \E ii : cl'[b][i][c] = kk /\ im'[b][i][c] = ii /\ ComesFrom(e, c, kk, ii)
        BY <3>6
      <3>8. PICK ii : cl'[b][i][c] = kk /\ im'[b][i][c] = ii /\ ComesFrom(e, c, kk, ii)
        BY <3>7
      <3>9. ComesFrom(e, c, kk, ii)'
        BY <1>4, <3>8
      <3>. QED
        BY <2>4, <3>8, <3>9
    <2>. QED
      BY <2>2, <2>3
  <1>. QED
    BY <1>5 DEF ColorsCome

LEMMA SweepingKept ==
  ASSUME Refined, [Next]_vars
  PROVE  Sweeping'
  <1>1. CASE Flow
    BY <1>1, SweepStarts
  <1>2. CASE Visit
    <2>1. VolumeCurrent' /\ FluxUpwind' /\ HaloFilled' /\ ColorsCome'
      BY <1>2, VisitKeepsVolume, VisitKeepsSources
    <2>2. FacesColored' /\ VolumePasses' /\ ColorsArrive'
      BY <1>2, VisitKeepsFaces DEF FacesColored, VolumePasses, ColorsArrive
    <2>. QED
      BY <2>1, <2>2 DEF Sweeping
  <1>3. CASE Update \/ Comm \/ Filter
    <2>1. stage' \notin {"visit", "update"}
      BY <1>3 DEF Update, Comm, Filter
    <2>. QED
      BY <2>1 DEF Sweeping
  <1>4. CASE Done \/ UNCHANGED vars
    <2>2. UNCHANGED vars
      BY <1>4 DEF Done
    <2>3. Sweeping
      BY DEF Refined
    <2>4. /\ v' = v /\ flux' = flux /\ u' = u /\ cl' = cl /\ im' = im /\ ffcl' = ffcl
          /\ layer' = layer /\ face' = face /\ stage' = stage
      BY <2>2 DEF vars, fields
    <2>5. VolumeCurrent => VolumeCurrent'
      BY <2>4 DEF VolumeCurrent, AsOwner
    <2>6. FluxUpwind => FluxUpwind'
      <3>1. \A f, k : Amount(UpwindCell(v, f), k)' = Amount(UpwindCell(v, f), k)
        BY <2>4 DEF UpwindCell, Amount, LayersOf
      <3>. QED
        BY <2>4, <3>1 DEF FluxUpwind
    <2>7. FacesColored => FacesColored'
      BY <2>4 DEF FacesColored, Velocity, Up
    <2>8. VolumePasses => VolumePasses'
      BY <2>4 DEF VolumePasses, Visited, At, Velocity, Up
    <2>9. ColorsArrive => ColorsArrive'
      BY <2>4 DEF ColorsArrive, Velocity, Down
    <2>10. ColorsCome => ColorsCome'
      <3>1. ASSUME NEW b, NEW i, NEW c, NEW e, ComesFrom(e, c, cl[b][i][c], im[b][i][c])
            PROVE  ComesFrom(e, c, cl[b][i][c], im[b][i][c])'
        BY <2>4, <3>1 DEF ComesFrom, Leads, Crossed, Velocity, Amount, ImageOf, LayersOf
      <3>. QED
        BY <2>4, <3>1 DEF ColorsCome
    <2>11. HaloFilled => HaloFilled'
      BY <2>4 DEF HaloFilled, Filled, Velocity
    <2>. QED
      BY <2>3, <2>4, <2>5, <2>6, <2>7, <2>8, <2>9, <2>10, <2>11 DEF Sweeping
  <1>. QED
    BY <1>1, <1>2, <1>3, <1>4 DEF Next

LEMMA RefinedKept ==
  ASSUME Refined, [Next]_vars
  PROVE  Refined'
  <1>1. TypeOK' /\ OneLayer'
    BY TypesKept, OneLayerKept DEF Refined
  <1>. QED
    BY <1>1, BetweenKept, SweepingKept DEF Refined

(***************************************************************************)
(* The steps, seen as moves of colors.                                     *)
(***************************************************************************)
LEMMA Mapped ==
  ASSUME NEW c \in Cell, NEW k \in Color
  PROVE  Amounts[c][k] = Amount(c, k) /\ Images[c][k] = ImageOf(c, k)
  BY DEF Amounts, Images

LEMMA MappedNext ==
  ASSUME NEW c \in Cell, NEW k \in Color
  PROVE  Amounts'[c][k] = Amount(c, k)' /\ Images'[c][k] = ImageOf(c, k)'
  BY DEF Amounts, Images

LEMMA MappedSame ==
  ASSUME \A c \in Cell : \A k \in Color :
           Amount(c, k)' = Amount(c, k) /\ ImageOf(c, k)' = ImageOf(c, k)
  PROVE  Amounts' = Amounts /\ Images' = Images
  <1>1. Amounts' = [c \in Cell |-> [k \in Color |-> Amount(c, k)']]
    BY DEF Amounts
  <1>2. Amounts' = Amounts
    BY <1>1 DEF Amounts
  <1>3. Images' = [c \in Cell |-> [k \in Color |-> ImageOf(c, k)']]
    BY DEF Images
  <1>4. Images' = Images
    BY <1>3 DEF Images
  <1>. QED
    BY <1>2, <1>4

LEMMA Wraps ==
  /\ Moves!Cell = Cell
  /\ \A c : Moves!Wrap(c) = Of(c)
  /\ \A x : Moves!Clip(x) = Clip(x)
  /\ \A c \in Int : Moves!Crossing(c) = Crossed(c)
  <1>1. ncells \in Int /\ ncells >= 1
    BY RowAssumption
  <1>2. \A c \in Int : Moves!Crossing(c) = Crossed(c)
    BY <1>1 DEF Moves!Crossing, Crossed
  <1>. QED
    BY <1>2 DEF Moves!Cell, Cell, Moves!Wrap, Of, Moves!Clip, Clip

LEMMA InitMaps ==
  ASSUME Init
  PROVE  Moves!Init
  <1>1. TypeOK /\ OneLayer
    BY TypesInitially, OneLayerInitially
  <1>2. Amounts \in [Cell -> [Color -> 0 .. Full]]
    BY <1>1, AmountType DEF Amounts
  <1>3. ASSUME NEW c \in Cell, NEW k \in Color PROVE ImageOf(c, k) = 0
    <2>1. CASE Amount(c, k) = 0
      BY <2>1 DEF ImageOf
    <2>2. CASE Amount(c, k) # 0
      <3>1. PICK i \in Layer : cl[Owner(c)][i][c] = k
        BY <1>1, <2>2, AmountType
      <3>2. ImageOf(c, k) = im[Owner(c)][i][c]
        BY <1>1, <2>2, <3>1, AmountIn
      <3>3. im[Owner(c)][i][c] = 0
        BY RowCells DEF Init
      <3>. QED
        BY <3>2, <3>3
    <2>. QED
      BY <2>1, <2>2
  <1>4. Images = [c \in Cell |-> [k \in Color |-> 0]]
    BY <1>3 DEF Images
  <1>5. Phase = "flow" /\ v = [c \in Cell |-> 0] /\ flux = [c \in Cell |-> [k \in Color |-> 0]]
    BY DEF Init, Phase
  <1>. QED
    BY <1>2, <1>4, <1>5, Wraps DEF Moves!Init

LEMMA FlowMaps ==
  ASSUME Refined, Flow
  PROVE  Moves!Flow
  <1>1. Phase = "flow" /\ Phase' = "move"
    BY DEF Flow, Phase
  <1>2. UNCHANGED <<Amounts, Images>>
    BY SameFields, MappedSame DEF Flow
  <1>3. ASSUME NEW c \in Cell
        PROVE  v'[c] \in -1 .. 1
    BY FlowChanges
  <1>4. ASSUME NEW c \in Cell, NEW k \in Color
        PROVE  flux'[c][k] >= 0 /\ Moves!Outflow(c, k)' <= Amounts[c][k]
    <2>1. flux'[c][k] \in 0 .. Full
      BY FlowChanges
    <2>2. Leaving(v', flux', c, k) <= Amount(c, k)
      BY FlowChanges
    <2>3. Moves!Outflow(c, k)' = Leaving(v', flux', c, k)
      BY Wraps DEF Moves!Outflow, Moves!Wrap, Of, Leaving
    <2>4. flux'[c][k] >= 0
      BY <2>1, RowAssumption
    <2>. QED
      BY <2>2, <2>3, <2>4, Mapped
  <1>. QED
    BY <1>1, <1>2, <1>3, <1>4, Wraps DEF Moves!Flow

LEMMA VisitMaps ==
  ASSUME Refined, Refined', Visit
  PROVE  UNCHANGED Moves!vars
  <1>1. Phase' = Phase /\ v' = v /\ flux' = flux
    BY DEF Visit, Phase
  <1>2. Amounts' = Amounts /\ Images' = Images
    BY VisitAmounts, MappedSame DEF Refined
  <1>. QED
    BY <1>1, <1>2 DEF Moves!vars

LEMMA CommMaps ==
  ASSUME Refined, Refined', Comm
  PROVE  UNCHANGED Moves!vars
  <1>1. Phase' = Phase /\ v' = v /\ flux' = flux
    BY DEF Comm, Phase
  <1>2. ASSUME NEW c \in Cell, NEW k \in Color
        PROVE  Amount(c, k)' = Amount(c, k) /\ ImageOf(c, k)' = ImageOf(c, k)
    <2>1. Owner(c) \in Block /\ c \in Stored(Owner(c)) /\ Of(c) = c
      BY RowCells
    <2>2. \A i \in Layer : /\ u'[Owner(c)][i][c] = u[Owner(c)][i][c]
                           /\ cl'[Owner(c)][i][c] = cl[Owner(c)][i][c]
                           /\ im'[Owner(c)][i][c] = im[Owner(c)][i][c]
      BY <2>1, ExchangedCells
    <2>3. ASSUME NEW i \in Layer, cl[Owner(c)][i][c] = k
          PROVE  Amount(c, k)' = Amount(c, k) /\ ImageOf(c, k)' = ImageOf(c, k)
      <3>1. Amount(c, k) = u[Owner(c)][i][c] /\ (Amount(c, k) # 0 => ImageOf(c, k) = im[Owner(c)][i][c])
        BY <2>3, AmountIn DEF Refined
      <3>2. /\ Amount(c, k)' = u'[Owner(c)][i][c]
            /\ Amount(c, k)' # 0 => ImageOf(c, k)' = im'[Owner(c)][i][c]
        BY <2>2, <2>3, AmountInNext DEF Refined
      <3>3. (Amount(c, k) = 0 => ImageOf(c, k) = 0) /\ (Amount(c, k)' = 0 => ImageOf(c, k)' = 0)
        BY DEF ImageOf
      <3>. QED
        BY <2>2, <3>1, <3>2, <3>3
    <2>4. CASE \A i \in Layer : cl[Owner(c)][i][c] # k
      BY <2>2, <2>4, NoAmount, NoAmountNext
    <2>. QED
      BY <2>3, <2>4
  <1>3. Amounts' = Amounts /\ Images' = Images
    BY <1>2, MappedSame
  <1>. QED
    BY <1>1, <1>3 DEF Moves!vars

(***************************************************************************)
(* The filter.                                                             *)
(***************************************************************************)
\* With current halo cells a block sees the amounts of its neighbours.
LEMMA SeenAmount ==
  ASSUME Refined, stage = "filter", NEW b \in Block, NEW d \in Stored(b), NEW k \in Color
  PROVE  /\ \A j \in Layer : cl[b][j][d] = k => Amount(Of(d), k) = u[b][j][d]
         /\ (\A j \in Layer : cl[b][j][d] # k) => Amount(Of(d), k) = 0
  <1>1. Of(d) \in Cell /\ Owner(Of(d)) = Owner(d)
    BY StoredCells, SameOwner
  <1>2. \A j \in Layer : AsOwner(b, j, d)
    BY DEF Refined, Current
  <1>3. ASSUME NEW j \in Layer, cl[b][j][d] = k PROVE Amount(Of(d), k) = u[b][j][d]
    <2>1. cl[Owner(Of(d))][j][Of(d)] = k /\ u[Owner(Of(d))][j][Of(d)] = u[b][j][d]
      BY <1>1, <1>2, <1>3 DEF AsOwner
    <2>. QED
      BY <1>1, <2>1, AmountIn DEF Refined
  <1>4. ASSUME \A j \in Layer : cl[b][j][d] # k PROVE Amount(Of(d), k) = 0
    BY <1>1, <1>2, <1>4, NoAmount DEF AsOwner
  <1>. QED
    BY <1>3, <1>4

LEMMA SameOrphans ==
  ASSUME Refined, stage = "filter", NEW c \in Cell, NEW k \in Color,
         NEW i \in Layer, cl[Owner(c)][i][c] = k
  PROVE  Orphan(Owner(c), i, c) <=> Moves!Orphan(c, k)
  <1> DEFINE b == Owner(c)
             near == {c - 1, c, c + 1}
  <1>1. b \in Block /\ c \in Inner(b) /\ Of(c) = c /\ c \in Int /\ TypeOK
    BY RowCells DEF Refined, Cell
  <1>2. near \subseteq Stored(b)
    BY <1>1, AroundCells
  <1>3. Moves!Orphan(c, k) <=> \A d \in near : Amount(Of(d), k) < Filterth
    <2>1. \A d \in near : Amounts[Of(d)][k] = Amount(Of(d), k)
      BY <1>1, <1>2, StoredCells, Mapped
    <2>2. Moves!Orphan(c, k) <=> \A d \in near : Amounts[Of(d)][k] < Filterth
      BY <1>1, Wraps DEF Moves!Orphan
    <2>. QED
      BY <2>1, <2>2
  <1>4. k # None
    BY RowAssumption DEF None
  <1>5. Orphan(b, i, c) <=> \A j \in Layer : \A d \in near : cl[b][j][d] = k => u[b][j][d] < Filterth
    BY <1>1, <1>4 DEF Orphan, Colored
  <1>6. ASSUME Orphan(b, i, c), NEW d \in near PROVE Amount(Of(d), k) < Filterth
    <2>1. u[b][i][c] < Filterth
      BY <1>5, <1>6
    <2>2. u[b][i][c] \in Int /\ u[b][i][c] >= 0
      BY <1>1, <1>2, StoredType
    <2>3. Filterth > 0
      BY <2>1, <2>2, RowAssumption
    <2>4. ASSUME NEW j \in Layer, cl[b][j][d] = k PROVE Amount(Of(d), k) < Filterth
      BY <1>1, <1>2, <1>5, <1>6, <2>4, SeenAmount
    <2>5. CASE \A j \in Layer : cl[b][j][d] # k
      BY <1>1, <1>2, <2>3, <2>5, SeenAmount
    <2>. QED
      BY <2>4, <2>5
  <1>7. ASSUME \A d \in near : Amount(Of(d), k) < Filterth PROVE Orphan(b, i, c)
    <2>1. ASSUME NEW j \in Layer, NEW d \in near, cl[b][j][d] = k PROVE u[b][j][d] < Filterth
      BY <1>1, <1>2, <1>7, <2>1, SeenAmount
    <2>. QED
      BY <1>5, <2>1
  <1>. QED
    BY <1>3, <1>6, <1>7

LEMMA FilterMaps ==
  ASSUME Refined, Refined', Filter
  PROVE  Moves!Filter
  <1>1. Phase = "filter" /\ Phase' = "flow" /\ UNCHANGED <<v, flux>> /\ stage = "filter"
    BY DEF Filter, Phase
  <1>2. ASSUME NEW c \in Cell, NEW k \in Color
        PROVE  /\ Amount(c, k)' = IF Moves!Orphan(c, k) THEN 0 ELSE Amount(c, k)
               /\ ImageOf(c, k)' = IF Moves!Orphan(c, k) THEN 0 ELSE ImageOf(c, k)
    <2> DEFINE b == Owner(c)
    <2>1. b \in Block /\ c \in Stored(b) /\ k # None
      BY RowCells, RowAssumption DEF None
    <2>2. \A j \in Layer : /\ u'[b][j][c] = IF Orphan(b, j, c) THEN 0 ELSE u[b][j][c]
                           /\ cl'[b][j][c] = IF Orphan(b, j, c) THEN None ELSE cl[b][j][c]
                           /\ im'[b][j][c] = IF Orphan(b, j, c) THEN 0 ELSE im[b][j][c]
      BY <2>1, FilteredCells
    <2>3. CASE \A j \in Layer : cl[b][j][c] # k
      <3>1. \A j \in Layer : cl'[b][j][c] # k
        BY <2>1, <2>2, <2>3
      <3>. QED
        BY <2>3, <3>1, NoAmount, NoAmountNext
    <2>4. ASSUME NEW i \in Layer, cl[b][i][c] = k
          PROVE  /\ Amount(c, k)' = IF Moves!Orphan(c, k) THEN 0 ELSE Amount(c, k)
                 /\ ImageOf(c, k)' = IF Moves!Orphan(c, k) THEN 0 ELSE ImageOf(c, k)
      <3>1. Orphan(b, i, c) <=> Moves!Orphan(c, k)
        BY <1>1, <2>4, SameOrphans
      <3>2. CASE Orphan(b, i, c)
        <4>1. \A j \in Layer : j # i => cl[b][j][c] # k
          BY <2>1, <2>4 DEF Refined, OneLayer
        <4>2. \A j \in Layer : cl'[b][j][c] # k
          BY <2>1, <2>2, <3>2, <4>1
        <4>. QED
          BY <3>1, <3>2, <4>2, NoAmountNext
      <3>3. CASE ~Orphan(b, i, c)
        <4>1. u'[b][i][c] = u[b][i][c] /\ cl'[b][i][c] = k /\ im'[b][i][c] = im[b][i][c]
          BY <2>2, <2>4, <3>3
        <4>2. Amount(c, k) = u[b][i][c] /\ (Amount(c, k) # 0 => ImageOf(c, k) = im[b][i][c])
          BY <2>4, AmountIn DEF Refined
        <4>3. Amount(c, k)' = u'[b][i][c] /\ (Amount(c, k)' # 0 => ImageOf(c, k)' = im'[b][i][c])
          BY <4>1, AmountInNext DEF Refined
        <4>4. (Amount(c, k) = 0 => ImageOf(c, k) = 0) /\ (Amount(c, k)' = 0 => ImageOf(c, k)' = 0)
          BY DEF ImageOf
        <4>. QED
          BY <3>1, <3>3, <4>1, <4>2, <4>3, <4>4
      <3>. QED
        BY <3>2, <3>3
    <2>. QED
      BY <2>3, <2>4
  <1>3. Amounts' = [c \in Cell |-> [k \in Color |-> IF Moves!Orphan(c, k) THEN 0 ELSE Amounts[c][k]]]
    <2>1. Amounts' = [c \in Cell |-> [k \in Color |-> Amount(c, k)']]
      BY DEF Amounts
    <2>2. \A c \in Cell : \A k \in Color :
            Amount(c, k)' = IF Moves!Orphan(c, k) THEN 0 ELSE Amounts[c][k]
      BY <1>2, Mapped
    <2>. QED
      BY <2>1, <2>2
  <1>4. Images' = [c \in Cell |-> [k \in Color |-> IF Moves!Orphan(c, k) THEN 0 ELSE Images[c][k]]]
    <2>1. Images' = [c \in Cell |-> [k \in Color |-> ImageOf(c, k)']]
      BY DEF Images
    <2>2. \A c \in Cell : \A k \in Color :
            ImageOf(c, k)' = IF Moves!Orphan(c, k) THEN 0 ELSE Images[c][k]
      BY <1>2, Mapped
    <2>. QED
      BY <2>1, <2>2
  <1>. QED
    BY <1>1, <1>3, <1>4, Wraps DEF Moves!Filter

(***************************************************************************)
(* The update: what the faces of a block say is what passes in the row.     *)
(***************************************************************************)
LEMMA UpwindFace ==
  ASSUME NEW b \in Block, NEW f \in Faces(b), Velocity(f) # 0
  PROVE  UpwindCell(v, Of(f)) = Of(Up(f))
  <1>1. f \in Int /\ 0 <= f /\ f <= ncells /\ ncells \in Int /\ ncells >= 1
    BY BlockAssumption, RowAssumption DEF Cell, Faces
  <1>2. CASE Velocity(f) > 0
    <2>1. Of(Of(f) - 1) = Of(f - 1)
      BY <1>1 DEF Of
    <2>. QED
      BY <1>2, <2>1 DEF UpwindCell, Velocity, Up
  <1>3. CASE ~(Velocity(f) > 0)
    BY <1>3 DEF UpwindCell, Velocity, Up
  <1>. QED
    BY <1>2, <1>3

\* What passes a face is in a layer upwind, whose color the face has got.
LEMMA FluxColors ==
  ASSUME Refined, stage = "update", NEW b \in Block, NEW f \in Faces(b), NEW k \in Color,
         flux[Of(f)][k] > 0
  PROVE  /\ Velocity(f) # 0
         /\ \E j \in Layer : /\ ffcl[b][j][f] = k
                             /\ u[b][j][Up(f)] > 0
                             /\ \A i \in Layer : ffcl[b][i][f] = k => i = j
  <1> DEFINE d == Up(f)
  <1>1. TypeOK /\ OneLayer /\ VolumeCurrent /\ FluxUpwind /\ FacesColored /\ VolumePasses
    BY DEF Refined, Sweeping
  <1>2. Of(f) \in Cell /\ d \in Stored(b)
    BY AroundFaces
  <1>3. Velocity(f) # 0 /\ Amount(UpwindCell(v, Of(f)), k) > 0
    BY <1>1, <1>2 DEF FluxUpwind, Velocity
  <1>4. Amount(Of(d), k) > 0
    BY <1>3, UpwindFace
  <1>5. Of(d) \in Cell /\ Owner(Of(d)) = Owner(d)
    BY <1>2, StoredCells, SameOwner
  <1>6. PICK j \in Layer : cl[Owner(d)][j][Of(d)] = k
    BY <1>1, <1>4, <1>5, AmountType
  <1>7. u[Owner(d)][j][Of(d)] > 0
    BY <1>1, <1>4, <1>5, <1>6, AmountIn
  <1>8. u[b][j][d] > 0 /\ cl[b][j][d] = k
    BY <1>1, <1>2, <1>6, <1>7 DEF VolumeCurrent, AsOwner
  <1>9. ffcl[b][j][f] = k
    BY <1>1, <1>3, <1>8 DEF VolumePasses, Visited
  <1>10. k # None
    BY RowAssumption DEF None
  <1>11. ASSUME NEW i \in Layer, ffcl[b][i][f] = k PROVE i = j
    <2>1. cl[b][i][d] = k
      BY <1>1, <1>10, <1>11 DEF FacesColored
    <2>. QED
      BY <1>1, <1>2, <1>8, <1>10, <2>1 DEF OneLayer
  <1>. QED
    BY <1>3, <1>8, <1>9, <1>11

\* The volume of a color that passes a face, with a sign.
Signed(f, k) ==
  IF Velocity(f) > 0 THEN flux[Of(f)][k] ELSE IF Velocity(f) < 0 THEN 0 - flux[Of(f)][k] ELSE 0

LEMMA FluxType ==
  ASSUME TypeOK, NEW b \in Block, NEW f \in Faces(b), NEW k \in Color
  PROVE  /\ flux[Of(f)][k] \in Int /\ flux[Of(f)][k] >= 0
         /\ Velocity(f) \in {-1, 0, 1}
         /\ Signed(f, k) \in Int
         /\ Velocity(f) # 0 => Velocity(f) * flux[Of(f)][k] = Signed(f, k)
  <1>1. Of(f) \in Cell
    BY AroundFaces
  <1>2. v \in [Cell -> {-1, 0, 1}] /\ flux \in [Cell -> [Color -> 0 .. Full]]
    BY DEF TypeOK
  <1>3. flux[Of(f)][k] \in Int /\ flux[Of(f)][k] >= 0 /\ Velocity(f) \in {-1, 0, 1}
    BY <1>1, <1>2, RowAssumption DEF Velocity
  <1>4. CASE Velocity(f) = 1
    BY <1>3, <1>4 DEF Signed
  <1>5. CASE Velocity(f) = -1
    BY <1>3, <1>5 DEF Signed
  <1>6. CASE Velocity(f) = 0
    BY <1>3, <1>6 DEF Signed
  <1>. QED
    BY <1>3, <1>4, <1>5, <1>6

LEMMA ThroughSigned ==
  ASSUME Refined, stage = "update", NEW b \in Block, NEW i, NEW f \in Faces(b), NEW k \in Color
  PROVE  Through(b, i, f, k) = Signed(f, k)
  <1> DEFINE at == {j \in Layer : ffcl[b][j][f] = k}
  <1>1. TypeOK /\ FacesColored
    BY DEF Refined, Sweeping
  <1>2. /\ flux[Of(f)][k] \in Int /\ flux[Of(f)][k] >= 0 /\ Velocity(f) \in {-1, 0, 1}
        /\ Velocity(f) # 0 => Velocity(f) * flux[Of(f)][k] = Signed(f, k)
    BY <1>1, FluxType
  <1>3. Through(b, i, f, k) = IF at = {} THEN 0 ELSE Passed(b, Min(at), f)
    BY DEF Through
  <1>4. CASE flux[Of(f)][k] > 0
    <2>1. PICK j \in Layer : /\ ffcl[b][j][f] = k /\ u[b][j][Up(f)] > 0
                             /\ \A l \in Layer : ffcl[b][l][f] = k => l = j
      BY <1>4, FluxColors
    <2>2. at \in SUBSET Layer /\ j \in at /\ \A l \in at : l = j
      BY <2>1
    <2>3. at # {} /\ Min(at) = j
      BY <2>2, OnlyLayer
    <2>4. Passed(b, j, f) = Velocity(f) * flux[Of(f)][k]
      BY <2>1 DEF Passed
    <2>5. Velocity(f) # 0
      BY <1>4, FluxColors
    <2>. QED
      BY <1>2, <1>3, <2>3, <2>4, <2>5
  <1>5. CASE flux[Of(f)][k] = 0
    <2>1. Signed(f, k) = 0
      <3>1. 0 - flux[Of(f)][k] = 0
        BY <1>5
      <3>. QED
        BY <1>5, <3>1 DEF Signed
    <2>2. CASE at = {}
      BY <1>3, <2>1, <2>2
    <2>3. CASE at # {}
      <3>1. Min(at) \in at
        BY <2>3, FreeLayer
      <3>2. k # None /\ Min(at) \in Layer /\ ffcl[b][Min(at)][f] = k
        BY <3>1, RowAssumption DEF None
      <3>3. Velocity(f) # 0
        BY <1>1, <3>2 DEF FacesColored
      <3>4. Passed(b, Min(at), f) = IF u[b][Min(at)][Up(f)] > 0 THEN Velocity(f) * flux[Of(f)][k] ELSE 0
        BY <3>2 DEF Passed
      <3>. QED
        BY <1>2, <1>3, <2>1, <2>3, <3>3, <3>4
    <2>. QED
      BY <2>2, <2>3
  <1>. QED
    BY <1>2, <1>4, <1>5

\* The balance of a cell.
LEMMA NetFlow ==
  ASSUME TypeOK, NEW b \in Block, NEW c \in Inner(b), NEW k \in Color
  PROVE  /\ Moves!Inflow(c, k) \in Int /\ Moves!Outflow(c, k) \in Int
         /\ Moves!Inflow(c, k) >= 0 /\ Moves!Outflow(c, k) >= 0
         /\ Moves!Inflow(c, k) - Moves!Outflow(c, k) = Signed(c, k) - Signed(c + 1, k)
         /\ Moves!Inflow(c, k) > 0 => \/ Velocity(c) > 0 /\ flux[Of(c)][k] > 0
                                      \/ Velocity(c + 1) < 0 /\ flux[Of(c + 1)][k] > 0
  <1>1. c \in Faces(b) /\ c + 1 \in Faces(b) /\ Of(c) = c /\ c \in Cell
    BY AroundCells, InnerCells
  <1> DEFINE x == flux[Of(c)][k]
             y == flux[Of(c + 1)][k]
             w == Velocity(c)
             z == Velocity(c + 1)
  <1>2. /\ x \in Int /\ x >= 0 /\ y \in Int /\ y >= 0
        /\ w \in {-1, 0, 1} /\ z \in {-1, 0, 1}
    BY <1>1, FluxType
  <1>3. /\ Moves!Inflow(c, k) = (IF w > 0 THEN x ELSE 0) + (IF z < 0 THEN y ELSE 0)
        /\ Moves!Outflow(c, k) = (IF w < 0 THEN x ELSE 0) + (IF z > 0 THEN y ELSE 0)
    BY <1>1, Wraps DEF Moves!Inflow, Moves!Outflow, Velocity
  <1>4. /\ Signed(c, k) = IF w > 0 THEN x ELSE IF w < 0 THEN 0 - x ELSE 0
        /\ Signed(c + 1, k) = IF z > 0 THEN y ELSE IF z < 0 THEN 0 - y ELSE 0
    BY DEF Signed
  <1> HIDE DEF x, y, w, z
  <1>5. /\ Moves!Inflow(c, k) \in Int /\ Moves!Outflow(c, k) \in Int
        /\ Moves!Inflow(c, k) >= 0 /\ Moves!Outflow(c, k) >= 0
        /\ Moves!Inflow(c, k) - Moves!Outflow(c, k) = Signed(c, k) - Signed(c + 1, k)
        /\ Moves!Inflow(c, k) > 0 => (w > 0 /\ x > 0) \/ (z < 0 /\ y > 0)
    BY <1>2, <1>3, <1>4
  <1>. QED
    BY <1>5 DEF x, y, w, z

\* The volume that a color comes from is a source of it in the row.
LEMMA SourceOf ==
  ASSUME NEW b \in Block, NEW c \in Inner(b), NEW e \in Stored(b), NEW k \in Color, NEW image,
         ComesFrom(e, c, k, image)
  PROVE  e \in Moves!Sources(c, k) /\ image = Images[Moves!Wrap(e)][k] + Moves!Crossing(e)
  <1>1. /\ First[b] \in Int /\ width \in Int /\ ncells \in Int
        /\ 0 <= First[b] /\ First[b] + width <= ncells
    BY BlockAssumption, RowAssumption DEF Cell
  <1>2. /\ c \in Int /\ First[b] <= c /\ c <= First[b] + width - 1
        /\ e \in Int /\ First[b] - 1 <= e /\ e <= First[b] + width
    BY <1>1 DEF Inner, Stored
  <1>3. Of(e) \in Cell
    BY StoredCells
  <1>4. Moves!Present(Moves!Wrap(e), k)
    BY <1>3, Wraps, Mapped DEF ComesFrom, Moves!Present
  <1>5. CASE e < c /\ \A f \in e + 1 .. c : Velocity(f) > 0
    <2>1. e \in c - ncells .. c - 1
      BY <1>1, <1>2, <1>5
    <2>2. \A f \in e + 1 .. c : v[Moves!Wrap(f)] > 0
      BY <1>5, Wraps DEF Velocity
    <2>3. e \in Moves!Before(c, k)
      BY <1>4, <2>1, <2>2 DEF Moves!Before
    <2>. QED
      BY <1>2, <1>3, <2>3, Wraps, Mapped DEF ComesFrom, Moves!Sources
  <1>6. CASE c < e /\ \A f \in c + 1 .. e : Velocity(f) < 0
    <2>1. e \in c + 1 .. c + ncells
      BY <1>1, <1>2, <1>6
    <2>2. \A f \in c + 1 .. e : v[Moves!Wrap(f)] < 0
      BY <1>6, Wraps DEF Velocity
    <2>3. e \in Moves!Behind(c, k)
      BY <1>4, <2>1, <2>2 DEF Moves!Behind
    <2>. QED
      BY <1>2, <1>3, <2>3, Wraps, Mapped DEF ComesFrom, Moves!Sources
  <1>. QED
    BY <1>5, <1>6 DEF ComesFrom, Leads

\* A color in a layer has volume there or a source.
LEMMA LayerSource ==
  ASSUME Refined, stage = "update", NEW b \in Block, NEW c \in Inner(b), NEW i \in Layer,
         NEW k \in Color, cl[b][i][c] = k
  PROVE  /\ Amount(c, k) = u[b][i][c]
         /\ Moves!Present(c, k) <=> u[b][i][c] > 0
         /\ u[b][i][c] > 0 => Images[c][k] = im[b][i][c]
         /\ u[b][i][c] = 0 =>
              \E e \in Moves!Sources(c, k) : im[b][i][c] = Images[Moves!Wrap(e)][k] + Moves!Crossing(e)
  <1>1. TypeOK /\ OneLayer /\ ColorsCome
    BY DEF Refined, Sweeping
  <1>2. c \in Cell /\ Owner(c) = b /\ c \in Stored(b)
    BY InnerCells
  <1>3. Amount(c, k) = u[b][i][c] /\ (Amount(c, k) # 0 => ImageOf(c, k) = im[b][i][c])
    BY <1>1, <1>2, AmountIn
  <1>4. Amounts[c][k] = Amount(c, k) /\ Images[c][k] = ImageOf(c, k)
    BY <1>2, Mapped
  <1>5. u[b][i][c] \in Int
    BY <1>1, <1>2, StoredType
  <1>6. ASSUME u[b][i][c] = 0
        PROVE  \E e \in Moves!Sources(c, k) : im[b][i][c] = Images[Moves!Wrap(e)][k] + Moves!Crossing(e)
    <2>1. k # None
      BY RowAssumption DEF None
    <2>2. PICK e \in Stored(b) : ComesFrom(e, c, k, im[b][i][c])
      BY <1>1, <1>6, <2>1 DEF ColorsCome
    <2>. QED
      BY <2>2, SourceOf
  <1>. QED
    BY <1>3, <1>4, <1>5, <1>6 DEF Moves!Present

\* A color that flows into a cell without getting a layer finds them taken by others
\* which have come, or could have.
LEMMA TakenCell ==
  ASSUME Refined, stage = "update", NEW b \in Block, NEW c \in Inner(b), NEW k \in Color,
         NEW f \in Faces(b), Velocity(f) # 0, Down(f) = c, flux[Of(f)][k] > 0,
         \A i \in Layer : cl[b][i][c] # k
  PROVE  Moves!Sources(c, k) # {} /\ \A i \in Layer : cl[b][i][c] # None
  <1>1. TypeOK /\ OneLayer /\ ColorsArrive /\ VolumeCurrent /\ FluxUpwind
    BY DEF Refined, Sweeping
  <1>2. PICK j \in Layer : ffcl[b][j][f] = k
    BY FluxColors
  <1>3. k # None
    BY RowAssumption DEF None
  <1>4. \A i \in Layer : cl[b][i][c] # None
    BY <1>1, <1>2, <1>3 DEF ColorsArrive
  <1>5. Of(f) \in Cell /\ Up(f) \in Stored(b)
    BY AroundFaces
  <1>6. Amount(Of(Up(f)), k) > 0
    BY <1>1, <1>5, UpwindFace DEF FluxUpwind
  <1>7. Leads(Up(f), c)
    BY <1>1, LeadsOver
  <1>8. ComesFrom(Up(f), c, k, ImageOf(Of(Up(f)), k) + Crossed(Up(f)))
    BY <1>6, <1>7 DEF ComesFrom
  <1>9. Up(f) \in Moves!Sources(c, k)
    BY <1>5, <1>8, SourceOf
  <1>. QED
    BY <1>4, <1>9

LEMMA CrowdedCell ==
  ASSUME Refined, stage = "update", NEW b \in Block, NEW c \in Inner(b), NEW k \in Color,
         \A i \in Layer : cl[b][i][c] # k, Moves!Inflow(c, k) > 0
  PROVE  Moves!Crowded(c)
  <1> DEFINE S == {j \in Color : Moves!Present(c, j) \/ Moves!Sources(c, j) # {}}
             taken == [n \in 0 .. nlayers |-> IF n < nlayers THEN cl[b][n][c] ELSE k]
  <1>1. TypeOK /\ OneLayer
    BY DEF Refined
  <1>2. c \in Stored(b) /\ c \in Int /\ c \in Faces(b) /\ c + 1 \in Faces(b)
    BY AroundCells
  <1>3. \/ Velocity(c) > 0 /\ flux[Of(c)][k] > 0
        \/ Velocity(c + 1) < 0 /\ flux[Of(c + 1)][k] > 0
    BY <1>1, NetFlow
  <1>4. \E f \in Faces(b) : Velocity(f) # 0 /\ Down(f) = c /\ flux[Of(f)][k] > 0
    <2>1. CASE Velocity(c) > 0 /\ flux[Of(c)][k] > 0
      BY <1>1, <1>2, <2>1, FluxType DEF Down
    <2>2. CASE Velocity(c + 1) < 0 /\ flux[Of(c + 1)][k] > 0
      <3>1. Velocity(c + 1) \in {-1, 0, 1}
        BY <1>1, <1>2, FluxType
      <3>2. Down(c + 1) = c
        BY <1>2, <2>2, <3>1 DEF Down
      <3>. QED
        BY <1>2, <2>2, <3>1, <3>2
    <2>. QED
      BY <1>3, <2>1, <2>2
  <1>5. Moves!Sources(c, k) # {} /\ \A i \in Layer : cl[b][i][c] # None
    BY <1>4, TakenCell
  <1>6. ASSUME NEW i \in Layer PROVE cl[b][i][c] \in S
    <2>1. cl[b][i][c] \in Color
      BY <1>1, <1>2, <1>5, StoredType
    <2>2. u[b][i][c] \in Int /\ u[b][i][c] >= 0
      BY <1>1, <1>2, StoredType
    <2>3. Moves!Present(c, cl[b][i][c]) \/ Moves!Sources(c, cl[b][i][c]) # {}
      BY <2>1, <2>2, LayerSource
    <2>. QED
      BY <2>1, <2>3
  <1>7. k \in S
    BY <1>5
  <1> HIDE DEF S
  <1>8. nlayers \in Nat /\ Layer = 0 .. nlayers - 1
    BY RowAssumption DEF Layer
  <1>9. taken \in Injection(0 .. nlayers, S)
    <2>1. ASSUME NEW n \in 0 .. nlayers
          PROVE  taken[n] = IF n < nlayers THEN cl[b][n][c] ELSE k
      BY <2>1
    <2>2. ASSUME NEW n \in 0 .. nlayers PROVE n \in Layer \/ n = nlayers
      BY <1>8
    <2>3. taken \in [0 .. nlayers -> S]
      BY <1>6, <1>7, <1>8
    <2>4. ASSUME NEW m \in 0 .. nlayers, NEW n \in 0 .. nlayers, taken[m] = taken[n] PROVE m = n
      <3>1. CASE m \in Layer /\ n \in Layer
        <4>1. cl[b][m][c] = cl[b][n][c] /\ cl[b][m][c] # None
          BY <1>5, <1>8, <2>4, <3>1
        <4>. QED
          BY <1>1, <1>2, <3>1, <4>1 DEF OneLayer
      <3>2. CASE m \in Layer /\ n = nlayers
        BY <1>8, <2>4, <3>2
      <3>3. CASE m = nlayers /\ n \in Layer
        BY <1>8, <2>4, <3>3
      <3>4. CASE m = nlayers /\ n = nlayers
        BY <3>4
      <3>. QED
        BY <2>2, <3>1, <3>2, <3>3, <3>4
    <2>. QED
      BY <2>3, <2>4 DEF Injection, IsInjective
  <1>10. IsFiniteSet(S)
    BY FS_Subset, RowAssumption DEF S
  <1>11. Cardinality(0 .. nlayers) = nlayers + 1
    BY <1>8, FS_Interval
  <1>12. Cardinality(0 .. nlayers) <= Cardinality(S)
    BY <1>9, <1>10, FS_Injection
  <1>13. Cardinality(S) \in Nat
    BY <1>10, FS_CardinalityType
  <1>14. Cardinality(S) > nlayers
    BY <1>8, <1>11, <1>12, <1>13
  <1>15. Moves!Cardinality(S) = Cardinality(S)
    BY Zenon DEF Moves!Cardinality, Cardinality
  <1>. QED
    BY <1>14, <1>15 DEF Moves!Crowded, S

\* One color in one cell, as the update leaves it.
LEMMA ColorMoves ==
  ASSUME Refined, Refined', Update, NEW c \in Cell, NEW k \in Color
  PROVE  /\ \/ Amounts'[c][k] = Moves!Clip(Amounts[c][k] + Moves!Inflow(c, k) - Moves!Outflow(c, k))
            \/ ~Moves!Present(c, k) /\ Amounts'[c][k] = 0 /\ Moves!Crowded(c)
         /\ Amounts'[c][k] = 0 => Images'[c][k] = 0
         /\ Amounts'[c][k] > 0 /\ Moves!Present(c, k) => Images'[c][k] = Images[c][k]
         /\ Amounts'[c][k] > 0 /\ ~Moves!Present(c, k) =>
              \E e \in Moves!Sources(c, k) : Images'[c][k] = Images[Moves!Wrap(e)][k] + Moves!Crossing(e)
  <1> DEFINE b == Owner(c)
             net == Moves!Inflow(c, k) - Moves!Outflow(c, k)
  <1>1. /\ b \in Block /\ c \in Inner(b) /\ c \in Stored(b) /\ k # None
        /\ c \in Faces(b) /\ c + 1 \in Faces(b)
    BY RowCells, AroundCells, RowAssumption DEF None
  <1>2. TypeOK /\ OneLayer /\ OneLayer' /\ stage = "update"
    BY DEF Update, Refined
  <1>3. /\ Amounts[c][k] = Amount(c, k) /\ Images[c][k] = ImageOf(c, k)
        /\ Amounts'[c][k] = Amount(c, k)' /\ Images'[c][k] = ImageOf(c, k)'
    BY Mapped, MappedNext
  <1>4. Amount(c, k)' = 0 => ImageOf(c, k)' = 0
    BY DEF ImageOf
  <1>5. /\ Moves!Inflow(c, k) \in Int /\ Moves!Outflow(c, k) \in Int
        /\ Moves!Inflow(c, k) >= 0 /\ Moves!Outflow(c, k) >= 0
        /\ net = Signed(c, k) - Signed(c + 1, k)
    BY <1>1, <1>2, NetFlow
  <1>6. \A i \in Layer : /\ u'[b][i][c] = Advanced(b, i, c)
                         /\ cl'[b][i][c] = IF Leaves(b, i, c) THEN None ELSE cl[b][i][c]
                         /\ im'[b][i][c] = IF Leaves(b, i, c) THEN 0 ELSE im[b][i][c]
    BY <1>1, UpdatedCells
  <1>7. CASE \A i \in Layer : cl[b][i][c] # k
    <2>1. \A i \in Layer : cl'[b][i][c] # k
      BY <1>1, <1>6, <1>7
    <2>2. Amount(c, k) = 0 /\ Amount(c, k)' = 0
      BY <1>7, <2>1, NoAmount, NoAmountNext
    <2>3. ~Moves!Present(c, k)
      BY <1>3, <2>2 DEF Moves!Present
    <2>4. CASE Moves!Inflow(c, k) > 0
      <3>1. Moves!Crowded(c)
        BY <1>1, <1>2, <1>7, <2>4, CrowdedCell
      <3>. QED
        BY <1>3, <1>4, <2>2, <2>3, <3>1
    <2>5. CASE ~(Moves!Inflow(c, k) > 0)
      <3>1. Amounts[c][k] + Moves!Inflow(c, k) - Moves!Outflow(c, k) <= 0
        BY <1>3, <1>5, <2>2, <2>5
      <3>2. \A x \in Int : x <= 0 => Clip(x) = 0
        BY RowAssumption DEF Clip
      <3>3. Moves!Clip(Amounts[c][k] + Moves!Inflow(c, k) - Moves!Outflow(c, k)) = 0
        BY <1>3, <1>5, <2>2, <3>1, <3>2, Wraps
      <3>. QED
        BY <1>3, <1>4, <2>2, <3>3
    <2>. QED
      BY <2>4, <2>5
  <1>8. ASSUME NEW i \in Layer, cl[b][i][c] = k
        PROVE  /\ Amounts'[c][k] = Moves!Clip(Amounts[c][k] + Moves!Inflow(c, k) - Moves!Outflow(c, k))
               /\ Amounts'[c][k] > 0 => Images'[c][k] = im[b][i][c]
    <2>1. Amount(c, k) = u[b][i][c] /\ u[b][i][c] \in Int
      BY <1>1, <1>2, <1>8, LayerSource, StoredType
    <2>2. Colored(b, i, c)
      BY <1>1, <1>8 DEF Colored
    <2>3. /\ Through(b, i, c, k) = Signed(c, k) /\ Through(b, i, c + 1, k) = Signed(c + 1, k)
          /\ Signed(c, k) \in Int /\ Signed(c + 1, k) \in Int
      BY <1>1, <1>2, ThroughSigned, FluxType
    <2>4. Advanced(b, i, c) = Clip(u[b][i][c] - (Signed(c + 1, k) - Signed(c, k)))
      BY <1>8, <2>2, <2>3 DEF Advanced
    <2>5. u[b][i][c] - (Signed(c + 1, k) - Signed(c, k)) = Amount(c, k) + Moves!Inflow(c, k) - Moves!Outflow(c, k)
      BY <1>5, <2>1, <2>3
    <2>6. Advanced(b, i, c) = Moves!Clip(Amounts[c][k] + Moves!Inflow(c, k) - Moves!Outflow(c, k))
      BY <1>3, <2>4, <2>5, Wraps
    <2>7. CASE Leaves(b, i, c)
      <3>1. \A j \in Layer : j # i => cl[b][j][c] # k
        BY <1>1, <1>2, <1>8 DEF OneLayer
      <3>2. \A j \in Layer : cl'[b][j][c] # k
        BY <1>1, <1>6, <2>7, <3>1
      <3>3. Amount(c, k)' = 0
        BY <3>2, NoAmountNext
      <3>4. Advanced(b, i, c) = 0
        BY <2>7 DEF Leaves
      <3>. QED
        BY <1>3, <2>6, <3>3, <3>4
    <2>8. CASE ~Leaves(b, i, c)
      <3>1. cl'[b][i][c] = k /\ u'[b][i][c] = Advanced(b, i, c) /\ im'[b][i][c] = im[b][i][c]
        BY <1>6, <1>8, <2>8
      <3>2. /\ Amount(c, k)' = u'[b][i][c]
            /\ Amount(c, k)' # 0 => ImageOf(c, k)' = im'[b][i][c]
        BY <1>2, <3>1, AmountInNext
      <3>. QED
        BY <1>3, <2>6, <3>1, <3>2
    <2>. QED
      BY <2>7, <2>8
  <1>9. ASSUME NEW i \in Layer, cl[b][i][c] = k
        PROVE  /\ Moves!Present(c, k) => Images[c][k] = im[b][i][c]
               /\ ~Moves!Present(c, k) =>
                    \E e \in Moves!Sources(c, k) : im[b][i][c] = Images[Moves!Wrap(e)][k] + Moves!Crossing(e)
    <2>1. u[b][i][c] \in Int /\ u[b][i][c] >= 0
      BY <1>1, <1>2, StoredType
    <2>. QED
      BY <1>1, <1>2, <1>9, <2>1, LayerSource
  <1>10. ASSUME NEW i \in Layer, cl[b][i][c] = k
         PROVE  /\ Amounts'[c][k] = Moves!Clip(Amounts[c][k] + Moves!Inflow(c, k) - Moves!Outflow(c, k))
                /\ Amounts'[c][k] > 0 /\ Moves!Present(c, k) => Images'[c][k] = Images[c][k]
                /\ Amounts'[c][k] > 0 /\ ~Moves!Present(c, k) =>
                     \E e \in Moves!Sources(c, k) : Images'[c][k] = Images[Moves!Wrap(e)][k] + Moves!Crossing(e)
    BY <1>8, <1>9, <1>10
  <1>11. Amounts'[c][k] = 0 => Images'[c][k] = 0
    BY <1>3, <1>4
  <1>. QED
    BY <1>7, <1>10, <1>11

LEMMA UpdateMaps ==
  ASSUME Refined, Refined', Update
  PROVE  Moves!Move
  <1>1. Phase = "move" /\ Phase' = "filter" /\ UNCHANGED <<v, flux>>
    BY DEF Update, Phase
  <1>. QED
    BY <1>1, ColorMoves, Wraps DEF Moves!Move

\* Every step of the layers is one of the colors, or none.
LEMMA StepMaps ==
  ASSUME Refined, Refined', [Next]_vars
  PROVE  [Moves!Next]_Moves!vars
  <1>1. CASE Flow
    BY <1>1, FlowMaps DEF Moves!Next
  <1>2. CASE Visit
    BY <1>2, VisitMaps
  <1>3. CASE Update
    BY <1>3, UpdateMaps DEF Moves!Next
  <1>4. CASE Comm
    BY <1>4, CommMaps
  <1>5. CASE Filter
    BY <1>5, FilterMaps DEF Moves!Next
  <1>6. CASE Done \/ UNCHANGED vars
    <2>1. UNCHANGED fields /\ v' = v /\ flux' = flux /\ stage' = stage
      BY <1>6 DEF Done, vars
    <2>2. Amounts' = Amounts /\ Images' = Images
      BY <2>1, SameFields, MappedSame
    <2>3. Phase' = Phase
      BY <2>1 DEF Phase
    <2>. QED
      BY <2>1, <2>2, <2>3 DEF Moves!vars
  <1>. QED
    BY <1>1, <1>2, <1>3, <1>4, <1>5, <1>6 DEF Next

(***************************************************************************)
(* Every color is transported as if it had a field of its own on one row:   *)
(* the layers it takes, the order of the visits and the division into       *)
(* blocks make no difference (vofm.ipp: Sweep, CommRec, FilterOrphan).      *)
(***************************************************************************)
THEOREM ColorsMoveAlone == Spec => ColorsMove
  <1>1. Init => Refined
    BY RefinedInitially
  <1>2. Refined /\ [Next]_vars => Refined'
    BY RefinedKept
  <1>3. Refined /\ Refined' /\ [Next]_vars => [Moves!Next]_Moves!vars
    BY StepMaps
  <1>4. Init => Moves!Init
    BY InitMaps
  <1>. QED
    BY <1>1, <1>2, <1>3, <1>4, PTL DEF Spec, ColorsMove, Moves!Spec
=============================================================================
