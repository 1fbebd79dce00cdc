------------------------------ MODULE MCLayers ------------------------------
(***************************************************************************)
(* Rows of cells for TLC.                                                   *)
(***************************************************************************)
EXTENDS Layers, Sequences

MCFirst == [b \in Block |-> b * width]

o == <<None, 0>>

\* Layers of a row, each a sequence of <<color, amount>> and o.
Fields(layers) ==
  LET at(i, c) == layers[i + 1][c + 1] IN
  [cl |-> [i \in Layer |-> [c \in Cell |-> at(i, c)[1]]],
   u |-> [i \in Layer |-> [c \in Cell |-> at(i, c)[2]]]]

A(x) == <<1, x>>
B(x) == <<2, x>>
C(x) == <<3, x>>

MCStarts ==
  {Fields(<< <<A(2), A(1), o, B(2)>>, <<o, o, o, A(1)>> >>),
   Fields(<< <<A(2), o, B(1), B(2)>>, <<o, C(1), C(2), o>> >>),
   Fields(<< <<o, B(2), o, C(1)>>, <<A(2), A(1), B(1), o>> >>)}

MCVelocities ==
  LET row(s) == [c \in Cell |-> s[c + 1]] IN
  {row(<<1, 1, 1, 1>>), row(<<0, 1, 1, -1>>), row(<<-1, -1, 0, 1>>)}
=============================================================================
