--------------------------- MODULE ParticleExchange ---------------------------
(***************************************************************************)
(* Particles between blocks: TransferParticlesMpi                          *)
(* (src/src/distr/distr_particles.ipp), and between two transfers the      *)
(* motion of the particles (Particles::Step, src/src/solver/particles.ipp).*)
(*                                                                         *)
(* A particle is owned by the block that holds its inner copy; blocks      *)
(* within halorad hold further copies, in a periodic domain displaced by   *)
(* its length.  A transfer sends the inner copies to all these blocks and  *)
(* replaces all lists.  Messages carry no number: a rank learns from an    *)
(* MPI_Allreduce how many it will get and takes them from any source.      *)
(*                                                                         *)
(* Lengths are integers, blocksize is the length of a block in this unit   *)
(* (flags.block_length) and globalsize that of the domain.  MPI is the one *)
(* of module CommTasks.                                                    *)
(***************************************************************************)
EXTENDS HaloCells, Bags

CONSTANTS
  is_periodic,  \* [Axis -> BOOLEAN]
  halorad,      \* particles_halo_radius in units of length
  Particle,     \* the identifiers of the particles of one request
  nreq,         \* requests per transfer: sets of particles
  Starts,       \* the positions particles may be seeded at
  Moves,        \* the displacements of one step
  Excluded,     \* cells cut out of the domain by embedded boundaries, as positions
  Steps         \* bound: the number of transfers

ASSUME ParticleAssumption ==
  /\ is_periodic \in [Axis -> BOOLEAN]
  /\ halorad \in Nat
  /\ IsFiniteSet(Particle)
  /\ Starts \subseteq [Axis -> Int] /\ Moves \subseteq [Axis -> Int]
  /\ nreq \in Nat \ {0}
  /\ Steps \in Nat \ {0}

VARIABLES
  pc,         \* where each rank is
  step,       \* the transfer each rank is working on
  request,    \* the request of that transfer
  particles,  \* particles[q][b]: the bag of copies [id, x, inner] in block b
  chan,       \* chan[s][r]: messages on their way from s to r, the oldest first
  dest,       \* dest[r]: for every request so far the ranks r has sent to
  entered,    \* the number of collective operations each rank has entered
  left,       \* how many messages each rank has yet to receive
  eager,      \* whether the library buffers messages
  track       \* history: track[q][p] are the positions of a particle by step

vars == <<pc, step, request, particles, chan, dest, entered, left, eager, track>>

Gone == [d \in {} |-> 0]     \* the position of a particle that was removed

Request == 1 .. nreq

-----------------------------------------------------------------------------
\* Blocks are numbered through, and so are the ranks.
global_blocks == Times(nprocs, nblocks)
BlockId == 0 .. RowMajor([d \in Axis |-> global_blocks[d] - 1], global_blocks)
IndexOf == [b \in BlockId |-> CHOOSE w \in Box(global_blocks) : RowMajor(w, global_blocks) = b]

\* The blocks a rank has kernels for.
Kernels ==
  [r \in Rank |->
     {RowMajor(Plus(Times(nblocks, ProcOf(r)), BlockOf(ib)), global_blocks) : ib \in Block}]

\* [mutant of rank_from_id] The block is divided by the number of processes.
rank_from_id_by_procs(b) == RowMajor(Divide(IndexOf[b], nprocs), nprocs)

\* The rank a block is sent to.
rank_from_id(b) == RowMajor(Divide(IndexOf[b], nblocks), nprocs)

\* [mutant of IsInnerPoint] The upper faces belong to the block.
IsInnerPointClosed(b, x) ==
  \A d \in Axis : IndexOf[b][d] * blocksize[d] <= x[d] /\ x[d] <= (IndexOf[b][d] + 1) * blocksize[d]

IsInnerPoint(b, x) ==
  \A d \in Axis : /\ IndexOf[b][d] * blocksize[d] <= x[d]
                  /\ x[d] < (IndexOf[b][d] + 1) * blocksize[d]

-----------------------------------------------------------------------------
(***************************************************************************)
(* The destinations [block, id, x] of an inner copy: the blocks its box of *)
(* size 2 halorad touches, mapped into the domain with the copy.           *)
(***************************************************************************)
Touched(x) ==
  LET first(d) == (x[d] - halorad) \div blocksize[d]
      last(d) == (x[d] + halorad) \div blocksize[d]
  IN {w \in [Axis -> Min({first(d) : d \in Axis}) .. Max({last(d) : d \in Axis})] :
        \A d \in Axis : first(d) <= w[d] /\ w[d] <= last(d)}

Canonical(w) ==
  [d \in Axis |-> IF is_periodic[d] THEN w[d] % global_blocks[d] ELSE w[d]]

\* [mutant of Image] The copy is displaced to the wrong side.
ImageMirrored(x, w) ==
  [d \in Axis |->
     x[d] - ((Canonical(w)[d] - w[d]) \div global_blocks[d]) * globalsize[d]]

Image(x, w) ==
  [d \in Axis |->
     x[d] + ((Canonical(w)[d] - w[d]) \div global_blocks[d]) * globalsize[d]]

Destinations(c) ==
  {[block |-> RowMajor(Canonical(w), global_blocks), id |-> c.id, x |-> Image(c.x, w)] :
     w \in {v \in Touched(c.x) : Canonical(v) \in Box(global_blocks)}}

\* The sum of a family of bags: its copies of t, each named by the bag it is from.
Occurrences(f, t) ==
  UNION {{a} \X (1 .. f[a][t]) : a \in {b \in DOMAIN f : t \in DOMAIN f[b]}}

SumOfBags(f) ==
  [t \in UNION {DOMAIN f[a] : a \in DOMAIN f} |-> Cardinality(Occurrences(f, t))]

\* The inner copies in the blocks of a rank.
InnerCopies(r, q) ==
  UNION {{<<b, c>> : c \in {k \in DOMAIN particles[q][b] : k.inner}} : b \in Kernels[r]}

\* The bag of all their destinations (tmp_x).
Tmp(r, q) ==
  SumOfBags([bc \in InnerCopies(r, q) |->
               [t \in Destinations(bc[2]) |-> particles[q][bc[1]][bc[2]]]])

Restricted(bag, blocks) == [t \in {u \in DOMAIN bag : u.block \in blocks} |-> bag[t]]

\* The copies that a block makes of a bag of destinations.
Arriving(bag, b) ==
  LET here == {t \in DOMAIN bag : t.block = b}
      copy(t) == [id |-> t.id, x |-> t.x, inner |-> IsInnerPoint(b, t.x)]
  IN [c \in {copy(t) : t \in here} |-> bag[[block |-> b, id |-> c.id, x |-> c.x]]]

\* [mutant of Replaced] A block that gets nothing keeps its old list.
ReplacedIfAny(old, bag, b) ==
  IF \E t \in DOMAIN bag : t.block = b THEN Arriving(bag, b) ELSE old

\* The local particles replace the old list of a block, or it is cleared.
Replaced(old, bag, b) == Arriving(bag, b)

-----------------------------------------------------------------------------

Init ==
  /\ pc = [r \in Rank |-> "send"]
  /\ step = [r \in Rank |-> 1]
  /\ request = [r \in Rank |-> 1]
  /\ \E x \in [Request \X Particle -> Starts], home \in [Request \X Particle -> BlockId] :
       /\ particles = [q \in Request |-> [b \in BlockId |->
            SetToBag({[id |-> p, x |-> x[<<q, p>>], inner |-> TRUE] :
                        p \in {k \in Particle : home[<<q, k>>] = b}})]]
       /\ track = [q \in Request |-> [p \in Particle |-> <<x[<<q, p>>]>>]]
  /\ chan = [s \in Rank |-> [r \in Rank |-> <<>>]]
  /\ dest = [r \in Rank |-> <<>>]
  /\ entered = [r \in Rank |-> 0]
  /\ left = [r \in Rank |-> 0]
  /\ eager \in BOOLEAN

Goto(r, here, there) == pc[r] = here /\ pc' = [pc EXCEPT ![r] = there]
Enter(r) == entered' = [entered EXCEPT ![r] = @ + 1]
AllEntered(r) == \A s \in Rank : entered[s] >= entered[r]

(***************************************************************************)
(* Particles::Step: the inner copies move, are translated through the      *)
(* periodic domain and removed when they have left it or were in an        *)
(* excluded cell.  The other copies, which the transfer drops, stay here.  *)
(***************************************************************************)
Translated(x) ==
  [d \in Axis |->
     LET up == IF is_periodic[d] /\ x[d] < 0 THEN x[d] + globalsize[d] ELSE x[d]
     IN IF is_periodic[d] /\ up > globalsize[d] THEN up - globalsize[d] ELSE up]

IsInside(x) == \A d \in Axis : 0 <= x[d] /\ x[d] <= globalsize[d]

Moved(x, shift) ==
  LET new == Translated(Plus(x, shift))
  IN IF IsInside(new) /\ x \notin Excluded THEN new ELSE Gone

MovedBag(bag, shift) ==
  LET copy(c) == IF c.inner THEN [c EXCEPT !.x = Moved(c.x, shift[c.id])] ELSE c
      kept == {c \in DOMAIN bag : copy(c).x # Gone}
  IN SumOfBags([c \in kept |-> [d \in {copy(c)} |-> bag[c]]])

Owned(r, q) == {p \in Particle :
  \E b \in Kernels[r] : \E c \in DOMAIN particles[q][b] : c.id = p /\ c.inner}

Move(r) ==
  /\ Goto(r, "move", "send")
  /\ step[r] <= Steps
  /\ \E shift \in [UNION {{<<q, p>> : p \in Owned(r, q)} : q \in Request} -> Moves] :
       LET of(q) == [p \in Owned(r, q) |-> shift[<<q, p>>]]
           at(q, p) == CHOOSE x \in {c.x : c \in {k \in UNION {DOMAIN particles[q][b] :
                         b \in Kernels[r]} : k.id = p /\ k.inner}} : TRUE
       IN /\ particles' = [q \in Request |-> [b \in BlockId |->
                 IF b \in Kernels[r] THEN MovedBag(particles[q][b], of(q))
                 ELSE particles[q][b]]]
          /\ track' = [q \in Request |-> [p \in Particle |->
                 IF p \in Owned(r, q)
                 THEN Append(track[q][p], Moved(at(q, p), of(q)[p]))
                 ELSE track[q][p]]]
  /\ UNCHANGED <<step, request, chan, dest, entered, left, eager>>

\* Serialize, MPI_Isend to the remote ranks, then enter the MPI_Allreduce.
SendParticles(r) ==
  /\ Goto(r, "send", "reducing")
  /\ LET tmp == Tmp(r, request[r])
         to == {rank_from_id(t.block) : t \in DOMAIN tmp} \ {r}
         buf(s) == Restricted(tmp, {b \in BlockId : rank_from_id(b) = s})
     IN /\ dest' = [dest EXCEPT ![r] = Append(@, to)]
        /\ chan' = [chan EXCEPT ![r] = [s \in Rank |->
             IF s \in to THEN Append(@[s], [call |-> Len(dest'[r]), buf |-> buf(s)])
             ELSE @[s]]]
  /\ Enter(r)
  /\ UNCHANGED <<step, request, particles, left, eager, track>>

\* The number of messages is known; the local particles replace the old lists.
LeaveReduce(r) ==
  /\ Goto(r, "reducing", "receive")
  /\ AllEntered(r)
  /\ left' = [left EXCEPT ![r] =
                Cardinality({s \in Rank : r \in dest[s][Len(dest[r])]})]
  /\ LET tmp == Tmp(r, request[r])
     IN particles' = [particles EXCEPT ![request[r]] = [b \in BlockId |->
                        IF b \in Kernels[r] THEN Replaced(@[b], tmp, b) ELSE @[b]]]
  /\ UNCHANGED <<step, request, chan, dest, entered, eager, track>>

\* MPI_Probe of any source and MPI_Recv; the particles are appended.
Receive(r, s) ==
  /\ pc[r] = "receive"
  /\ left[r] > 0
  /\ chan[s][r] # <<>>
  /\ LET buf == Head(chan[s][r]).buf
     IN IF \A t \in DOMAIN buf : rank_from_id(t.block) = r /\ t.block \in Kernels[r]
        THEN /\ particles' = [particles EXCEPT ![request[r]] = [b \in BlockId |->
                                IF b \in Kernels[r] THEN @[b] (+) Arriving(buf, b) ELSE @[b]]]
             /\ UNCHANGED pc
        ELSE /\ pc' = [pc EXCEPT ![r] = "aborted"]
             /\ UNCHANGED particles
  /\ chan' = [chan EXCEPT ![s][r] = Tail(@)]
  /\ left' = [left EXCEPT ![r] = @ - 1]
  /\ UNCHANGED <<step, request, dest, entered, eager, track>>

\* MPI_Wait for the sends and MPI_Barrier.
EnterBarrier(r) ==
  /\ Goto(r, "receive", "leaving")
  /\ left[r] = 0
  /\ eager \/ \A s \in Rank : chan[r][s] = <<>>
  /\ Enter(r)
  /\ UNCHANGED <<step, request, particles, chan, dest, left, eager, track>>

\* [mutant of NextRequest] One request too many.
NextRequestPastLast(r) ==
  /\ Goto(r, "leaving", "send")
  /\ request' = [request EXCEPT ![r] = @ + 1]
  /\ UNCHANGED <<step, particles, chan, dest, entered, left, eager, track>>

\* The next request, or, after the last one, the next step of the particles.
NextRequest(r) ==
  /\ IF request[r] < nreq
     THEN /\ Goto(r, "leaving", "send")
          /\ request' = [request EXCEPT ![r] = @ + 1]
          /\ UNCHANGED step
     ELSE /\ Goto(r, "leaving", "move")
          /\ request' = [request EXCEPT ![r] = 1]
          /\ step' = [step EXCEPT ![r] = @ + 1]
  /\ UNCHANGED <<particles, chan, dest, entered, left, eager, track>>

\* [mutant of LeaveBarrier] There is no barrier.
LeaveBarrierAlone(r) == NextRequest(r)

LeaveBarrier(r) == AllEntered(r) /\ NextRequest(r)

Halted ==
  /\ \/ \A r \in Rank : step[r] > Steps
     \/ \E r \in Rank : pc[r] = "aborted"
  /\ UNCHANGED vars

Step(r) ==
  \/ Move(r) \/ SendParticles(r) \/ LeaveReduce(r)
  \/ \E s \in Rank : Receive(r, s)
  \/ EnterBarrier(r) \/ LeaveBarrier(r)

Next == (\E r \in Rank : Step(r)) \/ Halted

Fairness == \A r \in Rank : WF_vars(Step(r))

Spec == Init /\ [][Next]_vars /\ Fairness

-----------------------------------------------------------------------------

\* Every rank is at one place of one transfer.
TypeOK ==
  /\ pc \in [Rank -> {"move", "send", "reducing", "receive", "leaving", "aborted"}]
  /\ step \in [Rank -> 1 .. Steps + 1]
  /\ request \in [Rank -> Request]
  /\ \A q \in Request, b \in BlockId : IsABag(particles[q][b])
  /\ entered \in [Rank -> Nat]
  /\ left \in [Rank -> Nat]

\* A rank that probes for messages only finds messages of the request it works
\* on, although nothing in a message says which request it belongs to.
SameRequest ==
  \A s, r \in Rank : pc[r] = "receive" =>
    \A k \in DOMAIN chan[s][r] : chan[s][r][k].call = Len(dest[r])

(***************************************************************************)
(* What a transfer must do, said without messages: a block holds a copy of *)
(* every particle and periodic image of a particle that is within halorad  *)
(* of it, once, and the copy is inner if it lies in the block.             *)
(***************************************************************************)
Images(x) ==
  {Plus(x, Times(n, globalsize)) :
     n \in {m \in [Axis -> -(halorad + 1) .. halorad + 1] : \A d \in Axis : is_periodic[d] \/ m[d] = 0}}

WithinHalo(b, x) ==
  \A d \in Axis : /\ IndexOf[b][d] * blocksize[d] - halorad <= x[d]
                  /\ x[d] < (IndexOf[b][d] + 1) * blocksize[d] + halorad

Position(q, p, k) == IF k \in DOMAIN track[q][p] THEN track[q][p][k] ELSE Gone

Expected(q, b, k) ==
  SetToBag(UNION {{[id |-> p, x |-> y, inner |-> IsInnerPoint(b, y)] :
                     y \in {z \in Images(Position(q, p, k)) : WithinHalo(b, z)}} :
                  p \in {o \in Particle : Position(q, o, k) # Gone}})

\* After a transfer every block of a rank has exactly the copies it must have.
CopiesComplete ==
  \A r \in Rank : pc[r] = "move" /\ step[r] > 1 =>
    \A q \in Request, b \in Kernels[r] : particles[q][b] = Expected(q, b, step[r] - 1)

\* A wall that bounds the domain from above, which IsInside takes in and no block has.
OnUpperWall(x) == \E d \in Axis : ~ is_periodic[d] /\ x[d] = globalsize[d]

\* A particle that has not been removed is owned by exactly one block when all ranks have
\* finished a transfer, unless it lies exactly on such a wall: then it is owned by none.
Owners(q, p) ==
  {b \in BlockId : \E c \in DOMAIN particles[q][b] : c.id = p /\ c.inner}

LastOf(q, p) == track[q][p][Len(track[q][p])]

KeptParticlesStay ==
  (\A r \in Rank : pc[r] = "move") =>
    \A q \in Request, p \in Particle :
      LastOf(q, p) # Gone =>
        Cardinality(Owners(q, p)) = IF OnUpperWall(LastOf(q, p)) THEN 0 ELSE 1

\* All ranks finish all transfers, buffered or not.
Terminates == <>(\A r \in Rank : step[r] > Steps)
=============================================================================
