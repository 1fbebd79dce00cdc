-------------------------- MODULE MCParticleExchange --------------------------
(***************************************************************************)
(* Meshes and motions for TLC.                                             *)
(***************************************************************************)
EXTENDS ParticleExchange

\* A ring of 3 ranks between two walls, with two blocks each.
Ring == <<3, 1>>
TwoRows == <<1, 2>>
Lengths == <<2, 2>>
RingWalls == <<TRUE, FALSE>>

\* On the periodic boundary, on the lower wall, and in the upper row.
Seeds == {<<0, 2>>, <<2, 0>>, <<3, 3>>}

\* Along the ring onto a face or into a block, and across it, perhaps onto the upper wall or out.
Drifts == {<<-1, 0>>, <<1, 2>>}
UpperCell == {<<3, 3>>}
=============================================================================
