------------------------------- MODULE Recolor -------------------------------
(***************************************************************************)
(* Labelling of connected components over all blocks: UVof::Recolor        *)
(* (src/src/util/vof.ipp).                                                 *)
(*                                                                         *)
(* A point is a cell with a layer; points of one color whose cells are     *)
(* neighbours belong to one component.  All points start with labels of    *)
(* their own.  Every block lowers the labels of its cells to those of the  *)
(* neighbours until nothing changes, the halo cells are exchanged, and so  *)
(* on until no block has changed anything.  The labels are then replaced   *)
(* by the colors that the components had before, or by new small ones.     *)
(*                                                                         *)
(* All blocks run a stage before any block runs the next one, and a stage  *)
(* works on the fields of its block, so one action is a stage, or one pass *)
(* of its loop, of all blocks.  Ghost cells outside the domain mirror a    *)
(* cell next to them (reflection) and are left out.                        *)
(***************************************************************************)
EXTENDS Integers, FiniteSets, FiniteSetsExt, Functions

CONSTANTS
  nblocks, ncells, nlayers,
  Owner,                \* the block that has a cell among its inner cells
  Stencil, FaceCells,   \* the 3^dim neighbours of a cell with itself; those over a face
  Corner,               \* the first cell of a block
  Sampled,              \* its neighbours IdxNci(0), (1), (2), where the domain has them
  Inputs                \* the calls to consider, see InputAssumption

Block == 0 .. nblocks - 1
Cell == 0 .. ncells - 1     \* in the order of the mesh
Layer == 0 .. nlayers - 1
Point == Cell \X Layer
None == -1              \* kClNone

Of(p) == Owner[p[1]]    \* the block of a point

\* m.Cells() and m.SuCells(): the points of a block, and with those of its halo cells.
Inner(b) == {p \in Point : Of(p) = b}
Stored(b) == {p \in Point : \E c \in Stencil[p[1]] : Owner[c] = b}

\* The cells with a face of an inner cell: not the halo cells over an edge or a corner.
OverFace(b, p) == Of(p) = b \/ \E c \in FaceCells[p[1]] : Owner[c] = b

Colored(old) == {p \in Point : old[p] # None}

\* Connected points of color old: equal colors in neighbouring cells, any layers.
Joins(old, p, q) == old[p] # None /\ old[p] = old[q] /\ q[1] \in Stencil[p[1]]

ASSUME MeshAssumption ==
  /\ nblocks \in Nat \ {0} /\ ncells \in Nat \ {0} /\ nlayers \in Nat \ {0}
  /\ Owner \in [Cell -> Block]
  /\ \A a, b \in Block : Cardinality(Inner(a)) = Cardinality(Inner(b))
  /\ Stencil \in [Cell -> SUBSET Cell] /\ FaceCells \in [Cell -> SUBSET Cell]
  /\ \A c \in Cell : c \in Stencil[c]
  /\ \A c \in Cell : \A d \in Stencil[c] : c \in Stencil[d]
  /\ Corner \in [Block -> Cell]
  /\ DOMAIN Sampled = Block
  /\ \A b \in Block : /\ Owner[Corner[b]] = b
                      /\ DOMAIN Sampled[b] \subseteq 0 .. 2
                      /\ \A i \in DOMAIN Sampled[b] : Sampled[b][i] \in Stencil[Corner[b]]

(***************************************************************************)
(* The arguments of a call.  `components` are the connected components, for *)
(* the properties: any division of the points that no connection crosses.  *)
(***************************************************************************)
ASSUME InputAssumption ==
  \A i \in Inputs :
    /\ i.old \in [Point -> Nat \cup {None}]       \* fccl
    /\ i.stable \in [Point -> Nat \cup {None}]    \* fccl_stable
    /\ i.dense \in SUBSET Cell                    \* u_i + u_j > coalth
    /\ i.fixed \in SUBSET Cell                    \* nearest to clfixed_x, which gets clfixed = 0
    /\ i.unionfind \in BOOLEAN /\ i.grid \in BOOLEAN
    /\ UNION i.components = Colored(i.old)
    /\ \A S, T \in i.components : S # T => S \cap T = {}
    /\ \A S \in i.components : \A p \in S : \A c \in Stencil[p[1]] : \A l \in Layer :
         Joins(i.old, p, <<c, l>>) => <<c, l>> \in S

VARIABLES
  arg,       \* the arguments
  near,      \* of a block: the points with a color, and for each the connected
             \* neighbours that the block sees (one of the two cells is an inner cell)
  id,        \* the labels that the points get first
  label,     \* fccl_new of each block where there is a color
  changed,   \* the blocks with iters > 0
  pc,        \* the stage
  merge,     \* RecolorSparse: the map of the root
  stable_map, color_map, cl_next   \* ReduceColor: the maps of the root, the next unused color

vars == <<arg, near, id, label, changed, pc, merge, stable_map, color_map, cl_next>>

\* [mutant of Neighbors] Colors are not compared.
NeighborsOfAnyColor(old) ==
  [b \in Block |-> [p \in Stored(b) \cap Colored(old) |->
     {q \in Stored(b) \cap Colored(old) : q[1] \in Stencil[p[1]] /\ b \in {Of(p), Of(q)}} \cup {p}]]

Neighbors(old) ==
  [b \in Block |-> [p \in Stored(b) \cap Colored(old) |->
     {p} \cup {q \in Stored(b) : Joins(old, p, q) /\ b \in {Of(p), Of(q)}}]]

Points(b) == DOMAIN near[b]

\* The label of a point in its own block.
Label(p) == label[Of(p)][p]

Labels(b) == {label[b][p] : p \in Points(b)}

\* Maps of the root.
Empty == [k \in {} |-> None]
With(map, k, v) == [l \in DOMAIN map \cup {k} |-> IF l = k THEN v ELSE map[l]]

(***************************************************************************)
(* InitUniqueColors: numbers from a range of each block, layer by layer;   *)
(* 0 in the cell with the fixed color; one label for two layers that fill  *)
(* a cell (exact for at most two layers).                                  *)
(***************************************************************************)
Before(p, q) == p[2] < q[2] \/ (p[2] = q[2] /\ p[1] <= q[1])

\* [mutant of OwnColor] The numbers of a block start again in each layer.
OwnColorOfLayer(i, p) ==
  LET b == Of(p)
      counted == {q \in Inner(b) \cap Colored(i.old) : q[2] = p[2] /\ q[1] <= p[1]}
  IN IF p[1] \in i.fixed THEN 0
     ELSE b * Cardinality(Inner(b)) + Cardinality(counted)

OwnColor(i, p) ==
  LET b == Of(p)
      counted == {q \in Inner(b) \cap Colored(i.old) : Before(q, p)}
  IN IF p[1] \in i.fixed THEN 0
     ELSE b * Cardinality(Inner(b)) + Cardinality(counted)

InitUniqueColors(i) ==
  [p \in Colored(i.old) |->
     IF p[1] \in i.dense
     THEN Min({OwnColor(i, q) : q \in {q \in Colored(i.old) : q[1] = p[1]}})
     ELSE OwnColor(i, p)]

\* m.Comm of the labels: the halo cells get the labels of the owners.
Exchanged == [b \in Block |-> [p \in Points(b) |-> Label(p)]]

\* The first pass of union-find counts the unions of points as changes.
Unites(b) == \E p \in Points(b) : near[b][p] # {p}

LoopBegin == IF arg.grid THEN "local" ELSE "min"

Init ==
  /\ arg \in Inputs
  /\ id = InitUniqueColors(arg)
  /\ near = Neighbors(arg.old)
  /\ label = [b \in Block |-> [p \in Points(b) |-> id[p]]]
  /\ changed = IF arg.unionfind THEN {b \in Block : Unites(b)} ELSE {}
  /\ pc = LoopBegin
  /\ merge = Empty /\ stable_map = Empty /\ color_map = Empty
  /\ cl_next = 0

(***************************************************************************)
(* RecolorSparse, "local": the pairs of different labels between the first *)
(* cell of a block and three neighbours, <<block, layer, neighbour, its    *)
(* layer>>.  They are gathered in this order into a map from the larger to *)
(* the smaller label, where a later pair replaces an earlier one.          *)
(***************************************************************************)
Here(t) == <<Corner[t[1]], t[2]>>
There(t) == <<Sampled[t[1]][t[3]], t[4]>>
Higher(t) == Max({label[t[1]][Here(t)], label[t[1]][There(t)]})
Lower(t) == Min({label[t[1]][Here(t)], label[t[1]][There(t)]})

Pairs ==
  {t \in Block \X Layer \X (0 .. 2) \X Layer :
     /\ t[3] \in DOMAIN Sampled[t[1]]
     /\ Here(t) \in Points(t[1])
     /\ There(t) \in near[t[1]][Here(t)]
     /\ label[t[1]][Here(t)] # label[t[1]][There(t)]}

Position(t) == ((t[1] * nlayers + t[2]) * 3 + t[3]) * nlayers + t[4]

LastPair(l) ==
  CHOOSE t \in {u \in Pairs : Higher(u) = l} :
    \A u \in {u \in Pairs : Higher(u) = l} : Position(u) <= Position(t)

Gather ==
  /\ pc = "local"
  /\ merge' = [l \in {Higher(t) : t \in Pairs} |-> Lower(LastPair(l))]
  /\ pc' = "reduce"
  /\ UNCHANGED <<arg, near, id, label, changed, stable_map, color_map, cl_next>>

Unresolved == {k \in DOMAIN merge : merge[k] \in DOMAIN merge}

\* "reduce": a pass over the map, each color to the color of its color.
Resolve ==
  /\ pc = "reduce"
  /\ Unresolved # {}
  /\ merge' = [k \in DOMAIN merge |-> IF k \in Unresolved THEN merge[merge[k]] ELSE merge[k]]
  /\ UNCHANGED <<arg, near, id, label, changed, pc, stable_map, color_map, cl_next>>

Replaced(l) == IF l \in DOMAIN merge THEN merge[l] ELSE l

\* "apply": the map is sent to all blocks and applied, with no exchange of halo cells.
ApplySparse ==
  /\ pc = "reduce"
  /\ Unresolved = {}
  /\ label' = [b \in Block |-> [p \in Points(b) |->
                 IF OverFace(b, p) THEN Replaced(label[b][p]) ELSE label[b][p]]]
  /\ merge' = Empty
  /\ pc' = "min"
  /\ UNCHANGED <<arg, near, id, changed, stable_map, color_map, cl_next>>

(***************************************************************************)
(* RecolorDirect and RecolorUnionFind, "min".  The loop over the cells     *)
(* takes the least label around each cell, until a pass changes nothing;   *)
(* the sets of union-find give all their points the least label at once,   *)
(* which is where the passes lead.                                         *)
(***************************************************************************)
\* [mutant of Least] The own label is left out.
LeastAround(b, p) ==
  Min({label[b][q] : q \in IF near[b][p] = {p} THEN {p} ELSE near[b][p] \ {p}})

Least(b, p) == Min({label[b][q] : q \in near[b][p]})

\* Union-find also updates the halo cells.
Lowered ==
  [b \in Block |-> [p \in Points(b) |->
     IF Of(p) = b \/ arg.unionfind THEN Least(b, p) ELSE label[b][p]]]

Pass ==
  /\ pc = "min"
  /\ \E new \in {Lowered} :
       /\ new # label
       /\ label' = new
       /\ changed' = changed \cup {b \in Block : new[b] # label[b]}
  /\ UNCHANGED <<arg, near, id, pc, merge, stable_map, color_map, cl_next>>

\* [mutant of Exchange] The number of the first block counts, not the maximum.
ExchangeFirst ==
  /\ pc = "min"
  /\ Lowered = label
  /\ label' = Exchanged
  /\ pc' = "check"
  /\ changed' = changed \cap {0}
  /\ UNCHANGED <<arg, near, id, merge, stable_map, color_map, cl_next>>

\* The requests of "min": exchange the halo cells, reduce iters to the maximum.
Exchange ==
  /\ pc = "min"
  /\ Lowered = label
  /\ label' = Exchanged
  /\ pc' = "check"
  /\ UNCHANGED <<arg, near, id, changed, merge, stable_map, color_map, cl_next>>

\* [mutant of Again] iters is not reset.
AgainKeepingIters ==
  /\ pc = "check"
  /\ changed # {}
  /\ pc' = LoopBegin
  /\ UNCHANGED <<arg, near, id, label, changed, merge, stable_map, color_map, cl_next>>

\* "check" in all blocks, the same everywhere after the reduction.
Again ==
  /\ pc = "check"
  /\ changed # {}
  /\ changed' = {}
  /\ pc' = LoopBegin
  /\ UNCHANGED <<arg, near, id, label, merge, stable_map, color_map, cl_next>>

(***************************************************************************)
(* PairToMap: the known color of each label is taken from the first cell   *)
(* of the last block where one is known, <<block, cell, layer>>.           *)
(***************************************************************************)
\* [mutant of Known] Points whose color is not known are not left out.
KnownOrNot == UNION {{<<b, p[1], p[2]>> : p \in Points(b)} : b \in Block}

Known ==
  UNION {{<<b, p[1], p[2]>> : p \in {q \in Points(b) : arg.stable[q] # None}} :
         b \in Block}

LabelAt(t) == label[t[1]][<<t[2], t[3]>>]

Priority(t) == t[1] * (ncells * nlayers) - (t[2] * nlayers + t[3])

KnownAt(l) ==
  CHOOSE t \in {u \in Known : LabelAt(u) = l} :
    \A u \in {u \in Known : LabelAt(u) = l} : Priority(u) <= Priority(t)

PairToMap ==
  [l \in {LabelAt(t) : t \in Known} |-> LET t == KnownAt(l) IN arg.stable[<<t[2], t[3]>>]]

\* "check", and the map of known colors; then the colors of ReduceColor, the fixed
\* one first and the new ones above all known ones.
LoopBreak ==
  /\ pc = "check"
  /\ changed = {}
  /\ stable_map' = PairToMap
  /\ color_map' = IF arg.fixed # {} THEN With(Empty, 0, 0) ELSE Empty
  /\ cl_next' = Max({0} \cup Range(PairToMap)) + 1
  /\ pc' = "colors"
  /\ UNCHANGED <<arg, near, id, label, changed, merge>>

(***************************************************************************)
(* ReduceColor, the loop of the root over the labels of all blocks: each   *)
(* label gets its known color unless another label has it, or a new one.   *)
(***************************************************************************)
Pending(b) == Labels(b) \ DOMAIN color_map
Finished == \A b \in Block : Pending(b) = {}
NextLabel == Min(Pending(Min({b \in Block : Pending(b) # {}})))

\* [mutant of Keeps] A color may be used twice.
KeepsAlways(l) == l \in DOMAIN stable_map

\* [mutant of Keeps] Labels and colors are confused.
KeepsIfLabelUnused(l) == l \in DOMAIN stable_map /\ l \notin Range(color_map)

Keeps(l) == l \in DOMAIN stable_map /\ stable_map[l] \notin Range(color_map)

Keep ==
  /\ pc = "colors" /\ ~Finished
  /\ Keeps(NextLabel)
  /\ color_map' = With(color_map, NextLabel, stable_map[NextLabel])
  /\ UNCHANGED <<arg, near, id, label, changed, pc, merge, stable_map, cl_next>>

Renew ==
  /\ pc = "colors" /\ ~Finished
  /\ ~Keeps(NextLabel)
  /\ color_map' = With(color_map, NextLabel, cl_next)
  /\ cl_next' = cl_next + 1
  /\ UNCHANGED <<arg, near, id, label, changed, pc, merge, stable_map>>

\* The colors are sent back to the blocks, and copied to fccl.
ApplyColors ==
  /\ pc = "colors" /\ Finished
  /\ label' = [b \in Block |-> [p \in Points(b) |-> color_map[label[b][p]]]]
  /\ pc' = "done"
  /\ UNCHANGED <<arg, near, id, changed, merge, stable_map, color_map, cl_next>>

Done == pc = "done" /\ UNCHANGED vars

Next ==
  \/ Gather \/ Resolve \/ ApplySparse
  \/ Pass \/ Exchange \/ Again
  \/ LoopBreak \/ Keep \/ Renew \/ ApplyColors
  \/ Done

\* Every stage ends: a block is a sequential program.
Spec == Init /\ [][Next]_vars /\ WF_vars(Next)

(***************************************************************************)
(* Properties.                                                             *)
(***************************************************************************)
Stages == {"local", "reduce", "min", "check", "colors", "done"}

TypeOK ==
  /\ id \in [Colored(arg.old) -> Nat]
  /\ DOMAIN near = Block /\ DOMAIN label = Block
  /\ \A b \in Block : label[b] \in [Points(b) -> Nat]
  /\ changed \in SUBSET Block
  /\ pc \in Stages
  /\ merge \in [DOMAIN merge -> Nat] /\ DOMAIN merge \in SUBSET Nat
  /\ stable_map \in [DOMAIN stable_map -> Nat] /\ DOMAIN stable_map \in SUBSET Nat
  /\ color_map \in [DOMAIN color_map -> Nat] /\ DOMAIN color_map \in SUBSET Nat
  /\ cl_next \in Nat

\* A label is shared by the layers of the fixed color and by merged layers: no two
\* components of the call have one in common.
Apart ==
  \A S, T \in arg.components : S # T =>
    \A p \in S, q \in T : /\ ~(p[1] \in arg.fixed /\ q[1] \in arg.fixed)
                          /\ ~(p[1] = q[1] /\ p[1] \in arg.dense)

\* No label leaves its component: in every block, also in halo cells, a label is
\* one that a point of the component had at first.  RecolorSparse replaces equal
\* labels wherever they are: a label that has gone astray would spread.
LabelsStay ==
  pc # "done" /\ (arg.grid => Apart) =>
    \A b \in Block : \A S \in arg.components : \A p \in S \cap Points(b) :
      \E q \in S : label[b][p] = id[q]

\* The label of a point in its block never rises before the colors are reduced,
\* though the exchange overwrites lower labels in halo cells by higher ones.
LabelsFall ==
  [][pc # "colors" => \A p \in DOMAIN id : label'[Of(p)][p] <= Label(p)]_vars

\* When the loop has ended, connected points of different blocks agree: that no
\* block has changed a label is enough (for the iterative variant without the
\* sparse grid, and for union-find).
Settled ==
  pc \in {"colors", "done"} /\ (arg.grid => arg.unionfind) =>
    \A b \in Block : \A p \in Points(b) : \A q \in near[b][p] : Label(p) = Label(q)

\* Different components have different colors at the end: the numbers that each block
\* gives on its own do not overlap, and no color, known or new, is given twice.
Separate ==
  pc = "done" /\ Apart =>
    \A S, T \in arg.components : S # T => \A p \in S, q \in T : Label(p) # Label(q)

\* Every known color is kept by a component that had it, unless it is the fixed one.
KnownColorsKept ==
  pc = "done" =>
    \A l \in DOMAIN stable_map :
      (arg.fixed # {} => l # 0 /\ stable_map[l] # 0) =>
        \E k \in DOMAIN stable_map : stable_map[k] = stable_map[l] /\ color_map[k] = stable_map[l]

\* The call returns: each round lowers a label.
Terminates == <>(pc = "done")

\* "Computes unique color for each connected component over all layers" (vof.h:65).
UniqueColor ==
  pc = "done" => \A S \in arg.components : \A p, q \in S : Label(q) = Label(p)
=============================================================================
