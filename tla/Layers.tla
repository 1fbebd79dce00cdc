------------------------------- MODULE Layers -------------------------------
(***************************************************************************)
(* Multilayer volume-of-fluid (src/src/solver/vofm.ipp): colors share a     *)
(* small number of layers, in each cell any color may be in any layer.      *)
(*                                                                         *)
(* A sweep along an axis visits the faces of each layer in their order and  *)
(* gives the downwind cell a layer for the color of the upwind cell, then   *)
(* moves the amounts and frees the layers of the colors that have left.     *)
(* Only the order in which cells have come by their colors says what is in  *)
(* which layer, and blocks find their halo cells as the owners left them.   *)
(*                                                                         *)
(* Rows of cells do not interact in a sweep.  The module has one row, its   *)
(* blocks and the halo cells that the loops read; the flow is along the     *)
(* row, so sweeps along the other axes change nothing.  A wall is a face    *)
(* without flow.  The volume that a color loses through a face, which comes *)
(* from the reconstruction of interfaces, is any part of what is there      *)
(* (scheme plain).  Blocks take the steps of a sweep together: they share   *)
(* nothing before the exchange.                                             *)
(***************************************************************************)
EXTENDS Integers, FiniteSets, FiniteSetsExt

CONSTANTS
  ncells, nblocks,
  width, First,     \* the cells of a block, the first one of each
  nlayers, Color,
  Full, Clipth, Filterth,
  Velocities,       \* the velocities to consider
  Starts,           \* the initial fields
  MaxSteps          \* bound: time steps

None == -1     \* kClNone

Cell == 0 .. ncells - 1
Block == 0 .. nblocks - 1
Layer == 0 .. nlayers - 1

ASSUME RowAssumption ==
  /\ ncells \in Nat \ {0} /\ nblocks \in Nat \ {0} /\ width \in Nat \ {0}
  /\ nlayers \in Nat \ {0}
  /\ Full \in Nat /\ Clipth \in Nat \ {0} /\ Filterth \in Nat /\ MaxSteps \in Nat
  /\ 2 * Clipth <= Full
  /\ Color \in SUBSET Nat /\ IsFiniteSet(Color)
  /\ Velocities \subseteq [Cell -> {-1, 0, 1}]

(***************************************************************************)
(* Indices of a block: -1 and ncells are the halo cells of the blocks at    *)
(* the ends of the periodic row.  Face f is on the left of cell f.          *)
(***************************************************************************)
Inner(b) == First[b] .. First[b] + width - 1
Stored(b) == First[b] - 1 .. First[b] + width
Faces(b) == First[b] .. First[b] + width

\* The cell of the row, and the block with this inner cell.
Of(c) == IF c < 0 THEN c + ncells ELSE IF c >= ncells THEN c - ncells ELSE c
Owner(c) == CHOOSE b \in Block : Of(c) \in Inner(b)

ASSUME BlockAssumption ==
  /\ First \in [Block -> Cell]
  /\ \A b \in Block : First[b] + width <= ncells
  /\ \A a, b \in Block : a # b => Inner(a) \cap Inner(b) = {}
  /\ \A c \in Cell : \E b \in Block : c \in Inner(b)

ASSUME StartAssumption ==
  \A s \in Starts :
    /\ s.cl \in [Layer -> [Cell -> Color \cup {None}]]
    /\ s.u \in [Layer -> [Cell -> 0 .. Full]]
    /\ \A i \in Layer : \A c \in Cell : s.cl[i][c] # None <=> s.u[i][c] > 0
    /\ \A i, j \in Layer : \A c \in Cell :
         s.cl[i][c] = s.cl[j][c] /\ s.cl[i][c] # None => i = j

VARIABLES
  v, flux,     \* ffv: its sign at each face of the row; the volume of each color that passes
  u, cl, im,   \* fcu, fccl, fcim along the axis, of each block and layer
  ffcl,        \* the colors at the faces, of each block and layer
  layer, face, \* the face that is visited: in this layer, with this number in the block
  stage,
  steps

fields == <<u, cl, im>>
vars == <<v, flux, fields, ffcl, layer, face, stage, steps>>

\* The halo cells get what the owners have.
Exchanged(f) == [b \in Block |-> [i \in Layer |-> [c \in Stored(b) |-> f[Owner(c)][i][Of(c)]]]]

NoColors == [b \in Block |-> [i \in Layer |-> [f \in Faces(b) |-> None]]]

Init ==
  /\ \E s \in Starts :
       /\ u = [b \in Block |-> [i \in Layer |-> [c \in Stored(b) |-> s.u[i][Of(c)]]]]
       /\ cl = [b \in Block |-> [i \in Layer |-> [c \in Stored(b) |-> s.cl[i][Of(c)]]]]
  /\ im = [b \in Block |-> [i \in Layer |-> [c \in Stored(b) |-> 0]]]
  /\ v = [c \in Cell |-> 0] /\ flux = [c \in Cell |-> [k \in Color |-> 0]]
  /\ ffcl = NoColors
  /\ layer = 0 /\ face = 0
  /\ stage = "flow" /\ steps = 0

\* The amount of a color in a cell and its image, whatever its layer.
LayersOf(c, k) == {i \in Layer : cl[Owner(c)][i][c] = k}
Amount(c, k) == IF LayersOf(c, k) = {} THEN 0 ELSE u[Owner(c)][Min(LayersOf(c, k))][c]
ImageOf(c, k) == IF Amount(c, k) = 0 THEN 0 ELSE im[Owner(c)][Min(LayersOf(c, k))][c]

(***************************************************************************)
(* A time step: the velocity changes.  The volume that leaves a cell is at  *)
(* most what is there, and none passes where nothing flows.                 *)
(***************************************************************************)
Leaving(vel, q, c, k) ==
  LET r == Of(c + 1) IN (IF vel[c] < 0 THEN q[c][k] ELSE 0) + (IF vel[r] > 0 THEN q[r][k] ELSE 0)

UpwindCell(vel, f) == IF vel[f] > 0 THEN Of(f - 1) ELSE f

\* The faces through which a color can leave a cell.
Carried(vel) ==
  {fk \in Cell \X Color : vel[fk[1]] # 0 /\ Amount(UpwindCell(vel, fk[1]), fk[2]) > 0}

Flow ==
  /\ stage = "flow" /\ steps < MaxSteps
  /\ \E vel \in Velocities : \E passing \in [Carried(vel) -> 0 .. Full] :
       /\ v' = vel
       /\ flux' = [f \in Cell |-> [k \in Color |->
                     IF <<f, k>> \in Carried(vel) THEN passing[<<f, k>>] ELSE 0]]
       /\ \A c \in Cell : \A k \in Color : Leaving(vel, flux', c, k) <= Amount(c, k)
  /\ ffcl' = NoColors
  /\ layer' = 0 /\ face' = 0
  /\ stage' = "visit" /\ steps' = steps + 1
  /\ UNCHANGED fields

(***************************************************************************)
(* Sweep, the loop over the layers and faces.                               *)
(***************************************************************************)
Velocity(f) == v[Of(f)]
Up(f) == IF Velocity(f) > 0 THEN f - 1 ELSE f
Down(f) == IF Velocity(f) > 0 THEN f ELSE f - 1

\* The color of the upwind cell, if there is a flow.
Passing(b, f) == IF Velocity(f) # 0 THEN cl[b][layer][Up(f)] ELSE None

Free(b, f) == {j \in Layer : cl[b][j][Down(f)] = None}

\* [mutant of Joins] The layers of the downwind cell are not searched for the color.
JoinsTwice(b, f) == Passing(b, f) # None /\ Free(b, f) # {}

\* The downwind cell gets the color: it has a free layer, and the color in no other one.
Joins(b, f) ==
  /\ Passing(b, f) # None
  /\ \A j \in Layer : cl[b][j][Down(f)] # Passing(b, f)
  /\ Free(b, f) # {}

\* [mutant of Image] The cell after the last one is not beyond the boundary.
ImageOffByOne(b, f) ==
  im[b][layer][Up(f)] + (IF Up(f) < 0 THEN 1 ELSE 0) - (IF Up(f) > ncells THEN 1 ELSE 0)

Image(b, f) ==
  im[b][layer][Up(f)] + (IF Up(f) < 0 THEN 1 ELSE 0) - (IF Up(f) >= ncells THEN 1 ELSE 0)

Visit ==
  /\ stage = "visit"
  /\ LET f(b) == First[b] + face
         new(b) == Min(Free(b, f(b)))
     IN /\ ffcl' = [b \in Block |-> [ffcl[b] EXCEPT ![layer][f(b)] = Passing(b, f(b))]]
        /\ cl' = [b \in Block |-> IF Joins(b, f(b))
                    THEN [cl[b] EXCEPT ![new(b)][Down(f(b))] = Passing(b, f(b))] ELSE cl[b]]
        /\ im' = [b \in Block |-> IF Joins(b, f(b))
                    THEN [im[b] EXCEPT ![new(b)][Down(f(b))] = Image(b, f(b))] ELSE im[b]]
  /\ face' = IF face < width THEN face + 1 ELSE 0
  /\ layer' = IF face < width THEN layer ELSE IF layer < nlayers - 1 THEN layer + 1 ELSE 0
  /\ stage' = IF face = width /\ layer = nlayers - 1 THEN "update" ELSE "visit"
  /\ UNCHANGED <<v, flux, u, steps>>

(***************************************************************************)
(* Sweep, the loop over the cells.                                          *)
(***************************************************************************)
\* ffvu: the volume of the color of a layer that passes a face, with a sign.
Passed(b, j, f) ==
  IF u[b][j][Up(f)] > 0 THEN Velocity(f) * flux[Of(f)][ffcl[b][j][f]] ELSE 0

\* [mutant of Through] The layer of the cell is looked at, not that of the color.
ThroughLayer(b, i, f, k) == IF ffcl[b][i][f] = k THEN Passed(b, i, f) ELSE 0

\* The volume of color k, which the cell has in layer i.
Through(b, i, f, k) ==
  LET at == {j \in Layer : ffcl[b][j][f] = k} IN IF at = {} THEN 0 ELSE Passed(b, Min(at), f)

\* [mutant of Clip] Amounts above the volume of a cell are left.
ClipBelow(x) == IF x < Clipth THEN 0 ELSE x

Clip(x) == IF x < Clipth THEN 0 ELSE IF x > Full - Clipth THEN Full ELSE x

Colored(b, i, c) == c \in Inner(b) /\ cl[b][i][c] # None

Advanced(b, i, c) ==
  LET k == cl[b][i][c] IN
  IF Colored(b, i, c)
  THEN Clip(u[b][i][c] - (Through(b, i, c + 1, k) - Through(b, i, c, k)))
  ELSE u[b][i][c]

\* A color without volume is cleared.
Clear(empty) ==
  /\ cl' = [b \in Block |-> [i \in Layer |-> [c \in Stored(b) |->
              IF <<b, i, c>> \in empty THEN None ELSE cl[b][i][c]]]]
  /\ im' = [b \in Block |-> [i \in Layer |-> [c \in Stored(b) |->
              IF <<b, i, c>> \in empty THEN 0 ELSE im[b][i][c]]]]

Colors == UNION {{<<b, i, c>> : i \in Layer, c \in Inner(b)} : b \in Block}

Update ==
  /\ stage = "update" /\ stage' = "comm"
  /\ u' = [b \in Block |-> [i \in Layer |-> [c \in Stored(b) |-> Advanced(b, i, c)]]]
  /\ Clear({t \in Colors : Colored(t[1], t[2], t[3]) /\ Advanced(t[1], t[2], t[3]) = 0})
  /\ UNCHANGED <<v, flux, ffcl, layer, face, steps>>

\* CommRec: the requests of the stage, after a sweep or after the filter.
Comm ==
  /\ \/ stage = "comm" /\ stage' = "filter"
     \/ stage = "filtered" /\ stage' = "flow"
  /\ u' = Exchanged(u) /\ cl' = Exchanged(cl) /\ im' = Exchanged(im)
  /\ UNCHANGED <<v, flux, ffcl, layer, face, steps>>

\* [mutant of Orphan] Only the layer of the cell is searched.
OrphanInLayer(b, i, c) ==
  /\ Colored(b, i, c)
  /\ \A d \in {c - 1, c, c + 1} : cl[b][i][d] = cl[b][i][c] => u[b][i][d] < Filterth

\* FilterOrphan: no neighbour has enough of the color, in any layer.
Orphan(b, i, c) ==
  /\ Colored(b, i, c)
  /\ \A j \in Layer : \A d \in {c - 1, c, c + 1} :
       cl[b][j][d] = cl[b][i][c] => u[b][j][d] < Filterth

Filter ==
  /\ stage = "filter" /\ stage' = "filtered"
  /\ u' = [b \in Block |-> [i \in Layer |-> [c \in Stored(b) |->
             IF Orphan(b, i, c) THEN 0 ELSE u[b][i][c]]]]
  /\ Clear({t \in Colors : Orphan(t[1], t[2], t[3])})
  /\ UNCHANGED <<v, flux, ffcl, layer, face, steps>>

Done == stage = "flow" /\ steps = MaxSteps /\ UNCHANGED vars

Next == Flow \/ Visit \/ Update \/ Comm \/ Filter \/ Done

Spec == Init /\ [][Next]_vars

(***************************************************************************)
(* Properties.                                                             *)
(***************************************************************************)
TypeOK ==
  /\ v \in [Cell -> {-1, 0, 1}] /\ flux \in [Cell -> [Color -> 0 .. Full]]
  /\ \A b \in Block :
       /\ u[b] \in [Layer -> [Stored(b) -> 0 .. Full]]
       /\ cl[b] \in [Layer -> [Stored(b) -> Color \cup {None}]]
       /\ im[b] \in [Layer -> [Stored(b) -> Int]]
       /\ ffcl[b] \in [Layer -> [Faces(b) -> Color \cup {None}]]
  /\ layer \in Layer /\ face \in 0 .. width
  /\ stage \in {"flow", "visit", "update", "comm", "filter", "filtered"}
  /\ steps \in 0 .. MaxSteps

\* No cell has a color in two layers, in any block and at any time: the loops take the
\* first layer with the color of a neighbour and do not look further.
OneLayer ==
  \A b \in Block : \A c \in Stored(b) : \A i, j \in Layer :
    cl[b][i][c] = cl[b][j][c] /\ cl[b][i][c] # None => i = j

(***************************************************************************)
(* Every color moves as if it had a field of its own, on a row that is not  *)
(* divided into blocks: the layers that colors take, the order in which     *)
(* faces are visited, and the colors that go ahead of their volume through  *)
(* empty cells make no difference, unless more colors can come to a cell    *)
(* than there are layers; then a new color is lost, and nothing else.       *)
(***************************************************************************)
Amounts == [c \in Cell |-> [k \in Color |-> Amount(c, k)]]
Images == [c \in Cell |-> [k \in Color |-> ImageOf(c, k)]]
Phase == CASE stage \in {"visit", "update"} -> "move"
           [] stage \in {"comm", "filter"} -> "filter"
           [] OTHER -> "flow"

Moves == INSTANCE ColorAdvection WITH amount <- Amounts, image <- Images, stage <- Phase

ColorsMove == Moves!Spec
=============================================================================
