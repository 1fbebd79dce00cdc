------------------------------ MODULE MCRecolor ------------------------------
(***************************************************************************)
(* Meshes and calls for TLC.                                               *)
(***************************************************************************)
EXTENDS Recolor, Sequences

CONSTANTS Columns, Rows,     \* the cells of the mesh
          Width, Height      \* the cells of a block

X(c) == c % Columns
Y(c) == c \div Columns
Distance(i, j) == IF i < j THEN j - i ELSE i - j

BlockColumns == Columns \div Width

MCncells == Columns * Rows
MCnblocks == BlockColumns * (Rows \div Height)
MCCell == 0 .. MCncells - 1
MCBlock == 0 .. MCnblocks - 1
MCOwner == [c \in MCCell |-> (Y(c) \div Height) * BlockColumns + X(c) \div Width]
MCStencil ==
  [c \in MCCell |-> {d \in MCCell : Distance(X(c), X(d)) <= 1 /\ Distance(Y(c), Y(d)) <= 1}]
MCFaceCells ==
  [c \in MCCell |-> {d \in MCCell : Distance(X(c), X(d)) + Distance(Y(c), Y(d)) = 1}]
MCCorner == [b \in MCBlock |-> Min({c \in MCCell : MCOwner[c] = b})]
\* IdxNci(0), (1), (2): left, right and below.
MCSampled ==
  [b \in MCBlock |->
     LET c == MCCorner[b]
         inside == {i \in 0 .. 2 : CASE i = 0 -> X(c) > 0
                                     [] i = 1 -> X(c) < Columns - 1
                                     [] i = 2 -> Y(c) > 0}
     IN [i \in inside |-> CASE i = 0 -> c - 1 [] i = 1 -> c + 1 [] i = 2 -> c - Columns]]

MCPoint == MCCell \X Layer

\* The points reached from a point; no path needs more steps than there are cells.
\* {r : r \in ...} makes TLC list the elements of a set once.
Components(old) ==
  LET joined(p) == IF old[p] = None THEN {}
                   ELSE {q \in MCStencil[p[1]] \X Layer : old[q] = old[p]}
      reached(p) ==
        LET within[n \in 0 .. Columns * Rows] ==
              IF n = 0 THEN {p}
              ELSE {r : r \in UNION {joined(q) : q \in within[n - 1]}}
        IN within[Columns * Rows]
  IN {reached(p) : p \in Colored(old)}

Call(old, stable, dense, fixed, unionfind, grid) ==
  [old |-> old, stable |-> stable, dense |-> dense, fixed |-> fixed,
   unionfind |-> unionfind, grid |-> grid, components |-> Components(old)]

\* A picture of the mesh, the first row below, `layer` in front.
Drawn(pictures) == [p \in MCPoint |-> pictures[p[2] + 1][Y(p[1]) + 1][X(p[1]) + 1]]

o == None

\* One color, every column of the mesh is one of `columns`; the colors known from
\* before change from column to column, so components that merged and split occur.
Masks(columns) ==
  {[p \in MCPoint |-> IF p[2] = 0 /\ f[X(p[1])][Y(p[1]) + 1] = 1 THEN 0 ELSE None] :
     f \in [0 .. Columns - 1 -> columns]}

Known3(old) ==
  [p \in MCPoint |-> IF old[p] = None \/ X(p[1]) = 1 THEN None ELSE 3 * (X(p[1]) % 2) + 2]

\* Direct without the grid, union-find without and with it.
Variants == {[uf |-> FALSE, grid |-> FALSE], [uf |-> TRUE, grid |-> FALSE], [uf |-> TRUE, grid |-> TRUE]}

MaskCalls ==
  UNION {LET components == Components(old)
         IN {[old |-> old, stable |-> Known3(old), dense |-> {}, fixed |-> {},
              unionfind |-> v.uf, grid |-> v.grid, components |-> components] : v \in Variants} :
         old \in Masks({<<1, 1, 1, 1>>, <<1, 0, 0, 1>>, <<0, 0, 1, 0>>})}

\* Two layers: a component that changes its layer between blocks, two components that
\* meet in a cell, three colors, and one that is in both layers of a cell.
LayerCalls ==
  LET old == Drawn(<< << <<1, 1, o, o>>, <<o, 2, 2, 1>>, <<o, 2, o, 1>>, <<1, 1, o, 1>> >>,
                      << <<o, 2, 2, 1>>, <<1, 1, 1, o>>, <<o, 3, 3, 2>>, <<2, o, 2, 2>> >> >>)
  IN {Call(old, old, dense, fixed, v.uf, v.grid) :
        dense \in {{}, {5}}, fixed \in {{}, {5}, {14}}, v \in Variants}

MCInputs == MaskCalls \cup {i \in LayerCalls : i.grid => i.dense = {}}

\* The iterative variant with the sparse grid; the first row is below.
SparseInputs ==
  LET old == Drawn(<< << <<0, o, 0, 0>>, <<0, 0, o, o>>, <<0, 0, o, o>>, <<0, 0, o, o>> >>,
                      << <<o, o, o, o>>, <<o, o, o, o>>, <<o, o, o, o>>, <<o, o, o, o>> >> >>)
  IN {Call(old, old, {}, {}, FALSE, TRUE)}
=============================================================================
