---------------------------- MODULE MCHaloExchange ----------------------------
(***************************************************************************)
(* Meshes and requests for TLC.                                            *)
(***************************************************************************)
EXTENDS HaloExchange

Full(n) == [halos |-> n, full |-> TRUE]
Direct(n) == [halos |-> n, full |-> FALSE]
Scal(f, stencil) == [field |-> f, parts |-> {0}, stencil |-> stencil]
Vect(f, stencil) == [field |-> f, parts |-> {0, 1}, stencil |-> stencil]
Comp(f, d, stencil) == [field |-> f, parts |-> {d}, stencil |-> stencil]

\* Two fields with one stencil, a vector and a component of it, another stencil;
\* then an exchange without requests of blocks; then a smaller stencil.
MCExchanges ==
  << [shared |-> <<>>, blocks |-> <<Scal("p", Full(1)), Vect("v", Full(1)), Comp("w", 1, Direct(2))>>],
     [shared |-> <<Scal("q", Direct(1))>>, blocks |-> <<>>],
     [shared |-> <<>>, blocks |-> <<Scal("p", Direct(1))>>] >>

\* A row of 3 ranks with two blocks of one cell each.
Line3 == <<3>>
Two == <<2>>
One == <<1>>
=============================================================================
