------------------------------ MODULE HaloCells ------------------------------
(***************************************************************************)
(* The geometry of the halo exchange: which cells a block needs from the   *)
(* outside and who owns them (src/src/distr/comm_manager.ipp and the       *)
(* constructor of Native in src/src/distr/native.ipp).                     *)
(*                                                                         *)
(* A cell is the vector of its coordinates, a function on 1 .. dim.  The   *)
(* mesh is divided into nprocs subdomains of nblocks blocks of blocksize   *)
(* cells each and is periodic in all directions.                           *)
(***************************************************************************)
EXTENDS Integers, Sequences, FiniteSets, FiniteSetsExt

CONSTANTS nprocs, nblocks, blocksize     \* domain_: vectors of positive numbers

dim == Len(nprocs)
Axis == 1 .. dim

IsSize(v) == DOMAIN v = 1 .. Len(nprocs) /\ \A d \in DOMAIN v : v[d] \in Nat \ {0}

ASSUME DomainAssumption ==
  dim \in Nat \ {0} /\ IsSize(nprocs) /\ IsSize(nblocks) /\ IsSize(blocksize)

Times(v, w) == [d \in Axis |-> v[d] * w[d]]
Plus(v, w) == [d \in Axis |-> v[d] + w[d]]

globalsize == Times(Times(nprocs, nblocks), blocksize)

\* The vectors v with 0 <= v < size.
Box(size) ==
  {v \in [Axis -> 0 .. Max({size[d] : d \in Axis}) - 1] :
     \A d \in Axis : v[d] < size[d]}

(***************************************************************************)
(* GIndex: the index of a vector within a box, the first axis is fastest.  *)
(***************************************************************************)
RowMajor(v, size) ==
  LET weight[d \in 1 .. dim + 1] == IF d = 1 THEN 1 ELSE weight[d - 1] * size[d - 1]
      sum[d \in 0 .. dim] == IF d = 0 THEN 0 ELSE sum[d - 1] + v[d] * weight[d]
  IN sum[dim]

Rank == 0 .. RowMajor([d \in Axis |-> nprocs[d] - 1], nprocs)
Block == 0 .. RowMajor([d \in Axis |-> nblocks[d] - 1], nblocks)

Divide(w, size) == [d \in Axis |-> w[d] \div size[d]]

\* cell_to_rank: the rank that owns cell w of the global mesh.
cell_to_rank(w) == RowMajor(Divide(Divide(w, blocksize), nblocks), nprocs)

ProcOf(rank) == CHOOSE p \in Box(nprocs) : RowMajor(p, nprocs) = rank
BlockOf(ib) == CHOOSE b \in Box(nblocks) : RowMajor(b, nblocks) = ib

\* The first cell of block ib of a rank (BlockInfoProxy::index * blocksize).
Begin(rank, ib) ==
  Times(Plus(Times(nblocks, ProcOf(rank)), BlockOf(ib)), blocksize)

InCells ==
  [rank \in Rank |-> [ib \in Block |-> {Plus(Begin(rank, ib), v) : v \in Box(blocksize)}]]

GetPeriodic(w) == [d \in Axis |-> w[d] % globalsize[d]]

(***************************************************************************)
(* Stencils: cells within halos layers in all directions (full), or along  *)
(* one axis only (direct).                                                 *)
(***************************************************************************)
nnz(dw) == Cardinality({d \in Axis : dw[d] # 0})

\* [mutant of Offsets] The last layer is left out on one side.
OffsetsHalfOpen(stencil) ==
  {dw \in [Axis -> -stencil.halos .. stencil.halos - 1] : stencil.full \/ nnz(dw) = 1}

Offsets(stencil) ==
  {dw \in [Axis -> -stencil.halos .. stencil.halos] : stencil.full \/ nnz(dw) = 1}

SeenCells(rank, ib, stencil) ==
  {Plus(wc, dw) : wc \in InCells[rank][ib], dw \in Offsets(stencil)}
    \ InCells[rank][ib]

(***************************************************************************)
(* GetRecvCells: the cells [block, cell] that a rank receives from another *)
(* one, by block and within a block in the order of its cell index.        *)
(***************************************************************************)
IndexLess(v, w) ==
  \E d \in Axis : v[d] < w[d] /\ \A e \in d + 1 .. dim : v[e] = w[e]

LocalLess(a, b) == a.block < b.block \/ (a.block = b.block /\ IndexLess(a.cell, b.cell))

RecvSet(rank, stencil) ==
  UNION {{[block |-> ib, cell |-> w] : w \in SeenCells(rank, ib, stencil)} : ib \in Block}

InOrder(cells) ==
  [k \in 1 .. Cardinality(cells) |->
     CHOOSE c \in cells : Cardinality({b \in cells : LocalLess(b, c)}) = k - 1]

GetRecvCells(rank, stencil) ==
  LET wanted == RecvSet(rank, stencil)
      owner(c) == cell_to_rank(GetPeriodic(c.cell))
      owners == {owner(c) : c \in wanted}
  IN [s \in owners |-> InOrder({c \in wanted : owner(c) = s})]

\* cell_to_block: the blocks of a rank that have w among their inner cells.
OwningBlocks(rank, w) == {ib \in Block : w \in InCells[rank][ib]}
=============================================================================
