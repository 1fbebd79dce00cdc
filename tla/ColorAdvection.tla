--------------------------- MODULE ColorAdvection ---------------------------
(***************************************************************************)
(* What the multilayer volume-of-fluid solver promises: every color is      *)
(* transported as if it had a field of its own.  There are no layers and no *)
(* blocks here, only the amount of each color in each cell of a periodic    *)
(* row, and its image: how often it has come around.                        *)
(***************************************************************************)
EXTENDS Integers, FiniteSets

CONSTANTS
  ncells,
  nlayers,    \* colors that a cell can hold
  Color,
  Full,       \* the volume of a cell
  Clipth,     \* amounts below are removed, amounts near to Full are completed
  Filterth    \* a fragment without such an amount nearby is removed

Cell == 0 .. ncells - 1

\* Cells beyond the ends of the row are those at the other end, in another image.
Wrap(c) == IF c < 0 THEN c + ncells ELSE IF c >= ncells THEN c - ncells ELSE c
Crossing(c) == IF c < 0 THEN 1 ELSE IF c >= ncells THEN -1 ELSE 0

VARIABLES
  v, flux,    \* the direction of the flow through the face on the left of a cell, and
              \* how much of each color it takes along
  amount, image,
  stage

vars == <<v, flux, amount, image, stage>>

Inflow(c, k) == (IF v[c] > 0 THEN flux[c][k] ELSE 0)
                  + (IF v[Wrap(c + 1)] < 0 THEN flux[Wrap(c + 1)][k] ELSE 0)
Outflow(c, k) == (IF v[c] < 0 THEN flux[c][k] ELSE 0)
                   + (IF v[Wrap(c + 1)] > 0 THEN flux[Wrap(c + 1)][k] ELSE 0)

Clip(x) == IF x < Clipth THEN 0 ELSE IF x > Full - Clipth THEN Full ELSE x

Present(c, k) == amount[c][k] > 0

\* The cells from which color k can come to cell c, along the flow.
Before(c, k) == {e \in c - ncells .. c - 1 :
                   Present(Wrap(e), k) /\ \A f \in e + 1 .. c : v[Wrap(f)] > 0}
Behind(c, k) == {e \in c + 1 .. c + ncells :
                   Present(Wrap(e), k) /\ \A f \in c + 1 .. e : v[Wrap(f)] < 0}
Sources(c, k) == Before(c, k) \cup Behind(c, k)

\* Colors are passed on through empty cells as well within one sweep: more of them can
\* come to a cell than it has layers.
Crowded(c) == Cardinality({k \in Color : Present(c, k) \/ Sources(c, k) # {}}) > nlayers

Init ==
  /\ v = [c \in Cell |-> 0]
  /\ flux = [c \in Cell |-> [k \in Color |-> 0]]
  /\ amount \in [Cell -> [Color -> 0 .. Full]]
  /\ image = [c \in Cell |-> [k \in Color |-> 0]]
  /\ stage = "flow"

\* A new velocity; what it takes out of a cell is there.
Flow ==
  /\ stage = "flow" /\ stage' = "move"
  /\ \A c \in Cell : v'[c] \in -1 .. 1
  /\ \A c \in Cell, k \in Color : flux'[c][k] >= 0 /\ Outflow(c, k)' <= amount[c][k]
  /\ UNCHANGED <<amount, image>>

\* Every color moves by itself; one that is new in a cell may be lost if the cell is crowded.
Move ==
  /\ stage = "move" /\ stage' = "filter"
  /\ \A c \in Cell, k \in Color :
       /\ \/ amount'[c][k] = Clip(amount[c][k] + Inflow(c, k) - Outflow(c, k))
          \/ ~Present(c, k) /\ amount'[c][k] = 0 /\ Crowded(c)
       /\ amount'[c][k] = 0 => image'[c][k] = 0
       /\ amount'[c][k] > 0 /\ Present(c, k) => image'[c][k] = image[c][k]
       /\ amount'[c][k] > 0 /\ ~Present(c, k) =>
            \E e \in Sources(c, k) : image'[c][k] = image[Wrap(e)][k] + Crossing(e)
  /\ UNCHANGED <<v, flux>>

Orphan(c, k) == \A d \in {Wrap(c - 1), c, Wrap(c + 1)} : amount[d][k] < Filterth

Filter ==
  /\ stage = "filter" /\ stage' = "flow"
  /\ amount' = [c \in Cell |-> [k \in Color |-> IF Orphan(c, k) THEN 0 ELSE amount[c][k]]]
  /\ image' = [c \in Cell |-> [k \in Color |-> IF Orphan(c, k) THEN 0 ELSE image[c][k]]]
  /\ UNCHANGED <<v, flux>>

Next == Flow \/ Move \/ Filter

Spec == Init /\ [][Next]_vars
=============================================================================
