-------------------------- MODULE LayersInvariant --------------------------
(***************************************************************************)
(* The inductive invariant behind the refinement of ColorAdvection by       *)
(* Layers: what the layers, the halo cells and the faces that have been     *)
(* visited say about the colors, at each stage.                             *)
(***************************************************************************)
EXTENDS Layers

\* The face that is visited.
At(b) == First[b] + face

\* Only colors have volume.
VolumeColored ==
  \A b \in Block : \A i \in Layer : \A c \in Stored(b) : u[b][i][c] > 0 => cl[b][i][c] # None

\* Between the sweeps colors have volume, halo cells get this by the exchange.
Filled(b, i, c) == cl[b][i][c] # None => u[b][i][c] > 0

ColorsFilled ==
  \A b \in Block : \A i \in Layer :
    /\ stage \in {"flow", "filter"} => \A c \in Stored(b) : Filled(b, i, c)
    /\ stage \in {"comm", "filtered"} => \A c \in Inner(b) : Filled(b, i, c)

\* A block sees what the owner of the cell has.
AsOwner(b, i, c) ==
  /\ u[b][i][c] = u[Owner(c)][i][Of(c)]
  /\ cl[b][i][c] = cl[Owner(c)][i][Of(c)]
  /\ im[b][i][c] = im[Owner(c)][i][Of(c)]

Current ==
  stage \in {"flow", "filter"} =>
    \A b \in Block : \A i \in Layer : \A c \in Stored(b) : AsOwner(b, i, c)

(***************************************************************************)
(* During a sweep.                                                         *)
(***************************************************************************)
\* Volume is seen as the owner has it; colors without volume may not be.
VolumeCurrent ==
  \A b \in Block : \A i \in Layer : \A c \in Stored(b) :
    /\ u[b][i][c] = u[Owner(c)][i][Of(c)]
    /\ u[b][i][c] > 0 => AsOwner(b, i, c)

\* What passes a face is upwind.
FluxUpwind ==
  \A f \in Cell : \A k \in Color :
    flux[f][k] > 0 => v[f] # 0 /\ Amount(UpwindCell(v, f), k) > 0

\* The color of a face is the one upwind.
FacesColored ==
  \A b \in Block : \A i \in Layer : \A f \in Faces(b) :
    ffcl[b][i][f] # None => Velocity(f) # 0 /\ cl[b][i][Up(f)] = ffcl[b][i][f]

\* Volume colors the face when it is visited.
Visited(b, i, f) == stage = "update" \/ i < layer \/ (i = layer /\ f < At(b))

VolumePasses ==
  \A b \in Block : \A i \in Layer : \A f \in Faces(b) :
    Visited(b, i, f) /\ Velocity(f) # 0 /\ u[b][i][Up(f)] > 0 => ffcl[b][i][f] = cl[b][i][Up(f)]

\* The color of a face gets a layer downwind, unless there is none.
ColorsArrive ==
  \A b \in Block : \A i \in Layer : \A f \in Faces(b) :
    ffcl[b][i][f] # None =>
      \/ \E j \in Layer : cl[b][j][Down(f)] = ffcl[b][i][f]
      \/ \A j \in Layer : cl[b][j][Down(f)] # None

\* A color that is ahead of its volume has come along the flow, with the image it has
\* there; across the boundary it is another one.
Leads(e, c) ==
  \/ e < c /\ \A f \in e + 1 .. c : Velocity(f) > 0
  \/ c < e /\ \A f \in c + 1 .. e : Velocity(f) < 0

Crossed(e) == (IF e < 0 THEN 1 ELSE 0) - (IF e >= ncells THEN 1 ELSE 0)

ComesFrom(e, c, k, image) ==
  /\ Leads(e, c)
  /\ Amount(Of(e), k) > 0
  /\ image = ImageOf(Of(e), k) + Crossed(e)

ColorsCome ==
  \A b \in Block : \A i \in Layer : \A c \in Inner(b) :
    cl[b][i][c] # None /\ u[b][i][c] = 0 =>
      \E e \in Stored(b) : ComesFrom(e, c, cl[b][i][c], im[b][i][c])

\* Nothing joins the halo cells that the flow comes from.
HaloFilled ==
  \A b \in Block : \A i \in Layer :
    /\ Velocity(First[b]) > 0 => Filled(b, i, First[b] - 1)
    /\ Velocity(First[b] + width) < 0 => Filled(b, i, First[b] + width)

Sweeping ==
  stage \in {"visit", "update"} =>
    /\ VolumeCurrent /\ FluxUpwind
    /\ FacesColored /\ VolumePasses /\ ColorsArrive
    /\ ColorsCome /\ HaloFilled

Refined == TypeOK /\ OneLayer /\ VolumeColored /\ ColorsFilled /\ Current /\ Sweeping
=============================================================================
