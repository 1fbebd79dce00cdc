----------------------------- MODULE MCDistrRun -----------------------------
(***************************************************************************)
(* Kernels for TLC, after functions of the repository.                      *)
(***************************************************************************)
EXTENDS DistrRun

\* Blocks side by side along y within ranks along x: ids do not follow the ranks.
MCId == [b \in Block |-> b[2] * nranks + b[1]]

Comm == [Nothing EXCEPT !.comm = TRUE]
Reduce(kinds) == [Nothing EXCEPT !.reduce = kinds]
CommReduce(kinds) == [Nothing EXCEPT !.comm = TRUE, !.reduce = kinds]
Dump == [Nothing EXCEPT !.dump = TRUE, !.comm = TRUE]
Again(s) == [Nothing EXCEPT !.again = s]

\* UVof::Recolor with union-find: the loop of "min" and "check", PairToMap, ReduceColor.
Recolor ==
  <<Reduce(<<"minloc">>), Comm, Nothing, CommReduce(<<"max">>), Again(4),
    Reduce(<<"concat">>), [Nothing EXCEPT !.scatter = TRUE], Nothing>>

\* UVof::RecolorSparse in a loop: gather, broadcast, reduce.
Sparse ==
  <<Reduce(<<"concat">>), [Nothing EXCEPT !.bcast = TRUE], CommReduce(<<"max">>), Again(1)>>

\* SolverConjugateCL: the lead block works for its rank.
Shared ==
  <<[Nothing EXCEPT !.fromlead = TRUE], Comm, [Nothing EXCEPT !.shared = TRUE],
    [Nothing EXCEPT !.again = 3, !.by = "shared"], Comm, Nothing>>

\* A step of Hydro: a dump, the reductions of the time step, particles, the end of the loop.
Steps ==
  <<Dump, CommReduce(<<"minloc", "max">>), [Nothing EXCEPT !.part = TRUE], Again(1)>>

\* TestScatter and a stage with several requests.
Requested ==
  <<[Nothing EXCEPT !.reduce = <<"concat", "max">>, !.shared = TRUE],
    [Nothing EXCEPT !.scatter = TRUE, !.bcast = TRUE, !.tolead = TRUE], Nothing>>

\* A gather that follows an exchange (Native only).
GatherAfterComm ==
  <<Comm, Reduce(<<"concat">>), [Nothing EXCEPT !.scatter = TRUE, !.comm = TRUE], Nothing>>

With(k, first, last) == [kernel |-> k, early |-> first, late |-> last]

MCSetups ==
  {With(k, <<0, 1>>, <<>>) : k \in {Recolor, Sparse, Shared, Steps, Requested, GatherAfterComm}}
    \cup {With(k, <<1>>, <<0>>) : k \in {Recolor, Sparse, Shared, Steps, Requested}}
    \cup {With(Sparse, <<>>, <<0, 1>>)}
=============================================================================
