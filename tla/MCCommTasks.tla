----------------------------- MODULE MCCommTasks -----------------------------
(***************************************************************************)
(* Meshes and stencils for TLC.                                            *)
(***************************************************************************)
EXTENDS CommTasks

Full(n) == [halos |-> n, full |-> TRUE]
Direct(n) == [halos |-> n, full |-> FALSE]

\* GetTasks, in its order.
AllStencils == <<Full(2), Direct(2), Full(1), Direct(1)>>

\* A row of 3 subdomains of two blocks of 2 x 3 cells: halos of 2 reach around
\* the mesh across the row, into blocks of the rank itself.
Row3 == <<3, 1>>
Two == <<1, 2>>
Size == <<2, 3>>
=============================================================================
