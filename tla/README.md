# A verification project for Aphros

Aphros is a finite volume solver for multiphase flows. Its numerics are floating-point loops over the cells of a
block; what makes it a *distributed* program is a thin layer below them: functions that are suspended between
*stages*, a scheduler that runs one stage on all blocks of a rank, and communication that is carried out between
two stages. This directory holds TLA+ models of that layer and of the two algorithms above it that are about labels
instead of numbers (the recoloring of components and the layers of the multilayer volume-of-fluid solver), the TLC
configurations that check them on small instances, and proofs, checked by TLAPS, of what holds for all instances.

Paths are relative to the root of the repository (the C++ code lies in `src/`, so that files are named
`src/...` here; `PROJECT.json` names them `src/src/...`).

## 1. The system

### 1.1 How it runs

Every MPI rank owns a box of blocks. A *kernel* (for example `Hydro`) is an ordinary C++ function that is called
again and again for each block; a `Suspender` in the mesh of the block remembers how far it has come, so that every
call executes the next stage only. `DistrMesh::Run` is the loop around it: exchange what the last stage asked for
(`m.Comm`, `m.Reduce`, `m.Bcast`, `m.Scatter`, `m.TransferParticles`), run one stage on every block, repeat as long
as the suspenders are pending.

    kernel functions (hydro, solvers, vof, particles)     stages, loops, nested calls
          |  sem(), Nested(), LoopBegin/Break/End               |  requests: Comm, Reduce, ...
          v                                                     v
    Suspender (one per block)  <---- DistrMesh::Run ---->  backend: Native | Cubismnc | Local
                                                                 |  CommManager, particles, collectives
                                                                 v
                                                                MPI

### 1.2 Inventory

| component | source | state it keeps | operations | what is hard | what makes it correct |
|---|---|---|---|---|---|
| suspender | `util/suspender.{h,cpp}` | a list of levels with two counters, loop bounds and a context each; an iterator; a flag | `Sem` constructor and destructor, `operator()`, `Nested`, `LoopBegin`, `LoopBreak`, `LoopEnd`, `GetContext`, `Pending` | counters outlive the calls and are shared by stages, loops and nested calls | one stage per call, in program order, with the context of its own activation; the driver ends |
| communication tasks | `distr/comm_manager.ipp` | lists of cells to receive and to send, per stencil and rank | `GetRecvCells`, `GetSendCells`, `GetTasks` | requests found by `MPI_Probe` from any source; periodic wrap | both ends list the same cells in the same order |
| halo exchange of Native | `distr/native.ipp` | maps of buffers that only grow | `TransferHalos` | tag 0 for everything, no barrier | a halo cell holds its owner's value of the same exchange |
| particle exchange | `distr/distr_particles.ipp`, `solver/particles.ipp` | lists of particles per block | `TransferParticlesMpi`, `Step` (motion), `ClearRemoved` | messages without a number, any source; periodic images; closed and half-open boxes | every block has exactly the copies it needs, one owner per particle |
| Cubism backend | `distr/cubismnc.ipp`, `CubismNoCopy/` | synchronizers cached by number of components, a wrapping timestamp, pending sends | `TransferHalos(bool)`: `sync`, `avail_inner`, `avail_halo`, `load` | blocks run the next stage while others still wait; tags and buffers are used again | a block runs a stage with the neighbours' values of the end of the stage before |
| scheduler | `distr/distr.ipp` | requests of the blocks, stage number, the order of the blocks | `Run`, `RunKernels`, `Pending`, `ReduceToLead`, `BcastFromLead`, `ReduceShared`, `DumpWrite` | the first block decides for all; ranks must make the same calls; the exchange reorders the blocks | blocks and ranks stay in step, a stage reads what the stage before has asked for |
| collectives | `distr/native.ipp`, `distr/cubismnc.ipp`, `distr/reduce.h` | - | `Reduce`, `Bcast`, `Scatter` | equal number of requests and blocks on all ranks, rows of vectors by position | every block gets what was requested, its own row of a scatter |
| local backend | `distr/local.ipp` | global buffers | `TransferHalos`, `Reduce`, ... | - | as Native, on one process |
| recoloring | `util/vof.ipp` (`Recolor` and what it calls) | labels and colors of cells in layers, maps of colors | `InitUniqueColors`, `RecolorSparse`, the iterative and the union-find propagation, `ReduceColor` | labels cross blocks only by halo cells, the exit is decided before the exchange; a map of pairs from all blocks; known colors first come first served | components keep apart and each agrees on one label, a component keeps its known color |
| multilayer VOF | `solver/vofm.ipp`, `solver/trackerm.h` | volume, color and image of each cell and layer, colors and volumes of the faces | `Sweep`, `AdvPlain`, `CommRec`, `FilterOrphan` | any color in any layer; layers are taken while faces are visited, in halo cells too, before any volume moves | a color moves as if it had a field of its own |
| hydro kernel | `kernel/hydro.ipp` | time, step, solver objects | `Run`, `StepFluid`, `StepAdvection`, ... | conditional stages, sub-stepping loops | conditions do not change while the function is suspended; sub-steps reach the end time |
| linear solvers | `linear/` | - | `Solve` loops of stages | loop exit by a reduction | - |
| other solvers, embedded boundaries, approximation, geometry | `solver/`, `geom/` | fields of doubles | numerics | stages that ask for fields and rewrite them | numerics |
| output, events, variables, parsers | `dump/`, `parse/`, `util/events.cpp` | - | - | sequential | - |
| instrumentation, subcommunicators, front ends, tests | `util/`, `test/`, `aphros_c/` | - | - | - | - |

Vendored code, examples, `deploy/`, the web demos and generated files are not part of the inventory.

### 1.3 Hard behaviours

`PROJECT.json` lists them under `hazards`, each at its line and with the properties that catch it. In short:
protocols that are correct only because of the order of messages (`comm_manager.ipp:140`, `native.ipp:209`,
`distr_particles.ipp:321`, `GridMPI.h:188`); buffers and maps that survive from one exchange to the next
(`native.ipp:190`, `SynchronizerMPI.h:1046`); blocks of one rank in different stages (`distr.ipp:531`) or
in an order of their own (`:538`); a first block or a reduction that decides for everybody (`distr.ipp:513`, `:486`,
`vof.ipp:958`); layers and colors that go to the first who asks (`vofm.ipp:511`, `vof.ipp:785`); counters of a
suspended function that survive the calls (`suspender.cpp:60`, `suspender.h:108`); loops that are rewound while a
nested call is pending (`suspender.cpp:103`); and boundaries (`particles.ipp:115` and `:300`, `distr_particles.ipp:202`). No state is written
to survive a crash within this layer and MPI does not lose messages, so that there are no crashes and no losses in
the models.

## 2. Modules

Each module says in its header which code it is about; every definition that models code is listed with its lines
in `PROJECT.json` under `map`. A definition under a comment `[mutant of X]` is a wrong variant of `X`: no
specification uses it, it serves to see that the properties notice such a mistake.

### 2.1 Suspender

| module | role |
|---|---|
| `Program` | the programs: functions as lists of `stage`, `nested`, `loopBegin`, `loopEnd`, with calls and breaks; the shapes of loops |
| `Coroutine`, `ProgramOrder` | the abstract specification: positions are an ordinary call stack, every call executes the next stage of the program |
| `Suspender` | the counters of `suspender.cpp`; one action for each method of `Sem`, one for a call of the driver |
| `SuspenderProperties` | the refinement mapping from counters to positions; fairness |
| `SuspenderInvariant`, `SuspenderProofs` | the inductive invariant and the theorems |
| `MCSuspender` | programs for TLC, written as words with a letter for each instruction |

The variable `states` is `states_`, `pos` is the iterator `pos_`, `allow_nested` is `allow_nested_`. `frames` is the
C++ call stack, which a call builds from the root: it is not remembered between calls, which is why the counters
have to skip the stages that have run. `PlainStage` and `NestedStage` are `operator()` and `Nested` *with* the body of
the stage if it is its turn (it may call `LoopBreak`, and it may call a function, whose `Sem` is constructed next).
`SemEnd` is the destructor, and at the root also the test `Pending()` of the driver. `ctx` of a level remembers the
stage that last used the context, so that a context that belongs to another activation shows.

### 2.2 Communication

| module | role |
|---|---|
| `HaloCells` | blocks, periodic wrap, owners, `GetRecvCells` as pure operators over any number of axes |
| `CommTasks` | `GetSendCells` and `GetTasks` with one action per MPI call; the lists of cells once more, said by distance without the loops of `GetRecvCells` |
| `HaloCellsProofs`, `CommTasksProofs` | the theorems about cells and their lists, the inductive invariant of the protocol and the theorems about it |
| `HaloExchange` | `TransferHalos` of `native.ipp`: four rounds (stencils) for the shared mesh and four for the blocks |
| `HaloExchangeProofs` | Native: both ends of a round agree, number by number; the inductive invariant of the exchange and the theorems about it. Cubism: which message a receive matches; the inductive invariant and the theorems about it |
| `ParticleExchange` | `TransferParticlesMpi`, and the motion and removal between two transfers |
| `Removal` | the loop of `ClearRemoved` |
| `ParticleProofs` | the theorems about the removal and the transfer of particles |
| `CubismExchange` | `TransferHalos(bool)` of `cubismnc.ipp`, and the iteration of `DistrMesh::Run` around it |
| `MCCommTasks`, `MCHaloExchange`, `MCParticleExchange`, `MCCubismExchange` | meshes, requests, motions and programs for TLC |

`CommTasks`, `HaloExchange`, `ParticleExchange` and `CubismExchange` extend `HaloCells`; `HaloExchange` also instantiates
it for the shared mesh, which is one block as large as the subdomain.

*MPI* is external and modelled as the standard promises it: messages between two ranks do not overtake each other; a
receive takes the oldest matching message; a receive or probe from any source may take the oldest of any rank; a
collective operation ends when all ranks have entered it; a send is complete when its message has been received
or, if the library buffers it, at once. Whether it buffers is the variable `eager` (`buffered` in `CubismExchange`), chosen in the first state. A
message that is larger than the posted buffer aborts, as the default error handler does.

*Data* are abstract: an item of a halo message names its field, component, cell and the exchange it was computed for,
so that a value from another exchange or another cell is seen to be one. The requests of an exchange are any finite sequences of a field, its components and a stencil
(`ExchangesAssumption`), for the shared mesh and for the blocks; a request of another stencil than that of the round has nothing to
transfer in it (`Selected`). In `CubismExchange` the unit is a
field in a block, and its value the stage that wrote it last; a buffer that is packed again before its message was
received changes the message. The names of this module are its own (`CubismSpec`, `phase`, `buffered`, ...), so that the
proofs of both backends can stand in one module.

### 2.3 The scheduler

`DistrRun` is the loop of `DistrMesh::Run` with the collective operations, for *kernels* that are sequences of stages;
a stage is what it requests and, if a loop ends there, the stage that follows while the block reads that there is work
left. That the counters of `Suspender` execute such a sequence, one stage per call, is the refinement of `Coroutine`.
One action of a rank is one step of an iteration up to its next MPI collective. A collective is entered by each rank
and ends when all have entered it; the root of a `Bcast` or `Scatter` and the other ranks of a `Gather` do not wait.
The calls for the size and for the data of one request are one call, `max` stands for all reductions of numbers. With
`late` some blocks of a rank wait for their halo cells while the blocks of `early` run the next stage, and the list of
blocks is reordered (Cubism); with Native all blocks are early. A *setup* is a kernel and such a split. The values are
abstract: a vector or object that a block gives has the id of the block and the number of stages before, and numbers
are 0 or 1 as far as a loop depends on them. Two variables are history, which the code has no counterpart of: `gave` of a block, the stages it
has run with the numbers they found and the buffers they left, and `entered` of a rank, the MPI calls it has made.
They say what a result should be after the blocks have gone on, and serve in the proofs.

`SetupAssumption` says which kernels are meant: a stage that scatters follows one that gathers, a loop does not decide by the
sum that its own stage is about to reduce in the shared mesh, and with Cubism no vectors are gathered or scattered in
a stage that follows an exchange, because the blocks are in another order then and the first one is not the root.

The exchange itself is in `HaloExchange` and `CubismExchange`. `MCDistrRun` has kernels after `Recolor`,
`RecolorSparse`, the conjugate gradient solver with a shared mesh, the step of `Hydro`, and `TestScatter`;
they satisfy it, as TLC evaluates it. `DistrRunProofs` holds the proofs.

### 2.4 Recoloring

| module | role |
|---|---|
| `Recolor` | `UVof::Recolor` with the three ways to spread labels and the two maps, on any mesh |
| `MCRecolor` | meshes, components and calls for TLC; components are found by reachability |
| `RecolorProofs` | the theorems |

A point is a cell with a layer. One action is one stage, or one pass of its loop, of all blocks, because a stage works
on the fields of its block. Passes lower all labels at once, the code does it in place: both end when no label is above
one of its neighbours. Union-find is abstracted to passes that lower inner and halo cells. Cells
outside of the domain reflect a cell next to them and are left out; there is one layer of halo cells; `clfixed` is the
color 0, as everywhere in the repository; blocks have equally many cells and are listed as with Native. `Apart` says of a
call that no two components share the fixed label or a merged one: then all first labels must differ, which is not assumed but
follows from the numbers the blocks give (`OwnColor`). Two layers that fill a cell coalesce as in
the code when there are at most two layers.

### 2.5 Layers

| module | role |
|---|---|
| `ColorAdvection` | the abstract specification: amounts of colors on one periodic row, no layers, no blocks |
| `Layers` | `Sweep`, `AdvPlain`, `CommRec`, `FilterOrphan` of `Vofm`; the refinement mapping |
| `MCLayers` | rows, flows and starts for TLC |
| `LayersInvariant`, `LayersProofs` | the inductive invariant; types, layers, and the refinement |

One row of cells is enough because the rows do not interact in a sweep; the flow is along the row, so the sweeps of
the other axes change nothing. `u`, `cl` and `im` are `fcu`, `fccl` and the component of `fcim` along the axis, for each
block, layer and cell the block stores; `v` and `flux` are the sign of the velocity and the volume of each color that
passes a face. What passes comes from the reconstruction of interfaces in the code: here it is *any* part of what the
upwind cell has (CFL at most 1, scheme plain), and the properties hold for all of them. A wall is a face without flow. Left out are
the schemes aulisa and weymouth (the default of `VofPar`), which have the same loops and another update of the volume; the
volume source `fcs`; inlets, `Sharpen`, modifiers and `CalcSum`. `Visit` is one iteration of the loop over layers and faces, in all blocks; blocks
may take these steps together because they share nothing before the exchange. `FilterOrphan` changes the
volumes in place and looks at 3 x 3 x 3 cells, here it looks along the row and decides for all cells at once: a cell it removes has too little to keep a neighbour. The second halo cell
is not read by these loops. The coloring of new components afterwards is `Recolor`.

## 3. Runs

| run | instance | what it shows |
|---|---|---|
| `suspender` | functions from the tests and from the solver, every word of up to 3 instructions, alone, as a loop and as a loop amid stages, as far as it has the shape the repository uses (`WellFormed` of `Program`), and three programs that call from a plain stage | the counters implement `Coroutine` (`StagesInOrder`): each call executes the next stage, once, with its own context; the `fassert` in `Sem` stops a wrong call in time; the driver's loop ends |
| `suspender_last_nested`, `suspender_first_break` | one program each | **violations**, see 5 |
| `comm_tasks` | 3 x 1 ranks of 1 x 2 blocks of 2 x 3 cells, the four stencils in order | requests of different stencils do not mix and both ends agree item by item (`TasksMatch`), the lists are those of a definition by distance (`HalosCovered`), all ranks finish, so that the sums of `MPI_Allreduce` count the requests |
| `halo_exchange` | 3 ranks of 2 blocks of one cell, 3 exchanges of different requests | requested halo cells are current and nothing else changes (`HalosCurrent`), all ranks finish, without a message larger than its buffer |
| `particles` | periodic ring of 3 ranks between walls, 2 blocks each, 2 sets of particles anywhere, boundaries included, in any list, an excluded cell, 2 transfers | sets do not mix (`SameRequest`), copies are complete and nothing else is left (`CopiesComplete`), a particle has one owner, or none exactly on the upper wall (`KeptParticlesStay`), all ranks finish |
| `removal` | arrays of up to 7 with any marks | exactly the kept particles remain |
| `cubism` | 3 ranks of 3 blocks, 8 stages, timestamps modulo 2 | blocks run with current values (`LabsCurrent`), no message is left over (`NothingLeft`), all stages are run (`AllFinish`) |
| `cubism_documented` | the example of the documentation | **violation**, see 5 |
| `distr_run` | 2 ranks of 2 blocks, whose ids do not follow the ranks, six kernels after the repository, with and without blocks that wait for their halo cells | blocks run a stage only when all blocks of all ranks have run the one before (`InStep`), they read what was requested, agreed upon by all, and their own row of a scatter (`ResultsRight`), all ranks finish |
| `recolor` | 4 x 4 cells in 8 blocks of 2 x 1, 2 layers: all images of one color made of three kinds of columns, and three colors that meet, cross layers and fill cells; each way to spread labels; known colors that merge and split | labels stay in their component and only fall; when the loop ends each component agrees over all blocks (`Settled`), components get different colors (`Separate`) and keep a known one; the loop ends |
| `layers` | a row of 4 cells in 2 blocks, 3 colors in 2 layers, the flow once around, against a wall, and apart, every flux, 2 time steps | no cell has a color twice, halo cells included (`OneLayer`); `Layers` implements `ColorAdvection` (`ColorsMove`) |

**Bounds.** *Programs* of a suspender: a violation of order needs a loop, a call in it and a stage after it; the
words of up to 3 instructions, in and around loops, contain all such neighbours, the named programs have two loops,
loops within loops through calls, and three levels. The number of iterations of a loop is not bounded: `LoopBreak` is a
choice in each pass and the state space is finite because the counters return. *Ranks*: in a periodic row of three
every rank has two different neighbours, which may be an exchange apart from each other. Of a rank that talks to some
of the others only, there is no run: each action concerns a pair of ranks, or all of them. *Exchanges*: three
show a rank two rounds ahead, a
map that has grown, and a smaller stencil after a larger one. *Halos* of two cells reach around the mesh in
`comm_tasks`, into blocks of the rank itself. *Timestamps* wrap around at 32768 in the code and at 2 in `cubism`: the
smaller the number, the more tags coincide. *Particles* move on a lattice of half a block: inside, on a face, on the upper wall, and
outside of the halo. One particle per set is enough for the properties, which are about each particle; two sets share
a transfer. *Arrays* of seven slots have all orders of marks around the meeting of the two indices, and `removal` is
proved for all lengths. `CommTasks`, `HaloExchange`, `ParticleExchange` and `CubismExchange` are bounded only by the
number of stencils, exchanges, transfers (`Steps`) or stages; the
run of cubism has ranks along one axis, so that corners do not come from third ranks, which the proofs make up for. *Kernels* of
`distr_run` come around once (`MaxRuns`), which shows a stage after a stage of every kind that occurs; two ranks of two
blocks are the least with a block that does not decide, on a rank that is not the root. *Meshes* of `recolor`: labels
have to cross three boundaries of blocks to go around a bend, there and back. *Rows* of `layers`: two cells per block, so that
a color can go ahead of its volume within a block and stop at its halo cell; three colors compete for two layers;
volumes of 0, 1 or 2 have fragments below the filter and full cells; two time steps show what a color does that has come
in the first. `RecolorProofs` and `LayersProofs` remove the bounds of these two runs, and, except for termination, `CommTasksProofs`,
`HaloExchangeProofs`, `ParticleProofs` and `DistrRunProofs` those of `comm_tasks`, `halo_exchange`, `cubism`, `particles` and `distr_run`.

**Fairness.** Every rank is a process of the operating system that runs as long as it can: weak fairness of the step
of each rank (`Fairness`, `CubismFairness`), in `DistrRun` as well. In `FairSpec` of `SuspenderProperties`: weak fairness of `Next` is the driver's `do ... while
(Pending())`; strong fairness of a break in each depth says that a loop that comes around again and again is broken
at last, which is what the iteration limits and end times in the stages are for. Without it no loop would have to
end. In `Removal` the only process runs on, and in `Recolor` all blocks do, in stages. `Layers` needs no
fairness: what it promises is said of each step.

**Deadlock** is checked in all runs. Stutter steps (`Halted`, `AllFinished`, `Done`) are allowed at the end and after an abort only; the
runs that show termination also show that the aborted state is not reached.

## 4. Proofs

`tlapm` checks the modules `SuspenderProofs`, `ParticleProofs`, `HaloCellsProofs`, `CommTasksProofs`, `HaloExchangeProofs`,
`RecolorProofs`, `LayersProofs` and `DistrRunProofs`; nothing is assumed but the named assumptions of the constants and library theorems about finite
sets, well-founded orders and sequences.

### 4.1 `SuspenderProofs`

| theorem | states | for |
|---|---|---|
| `Types` | `TypeOK` | every program |
| `OnlyNestedCallsRun` | a function called from a plain stage never runs | every program |
| `LevelsAreOwn` | `OwnLevel`: a function never uses the level, hence the context, of another one | programs with `Shape` |
| `AtMostOneStage` | `OneStagePerCall` | programs with `Shape` |

`ProgramAssumption` types the constants. `Shape` is an assumption of the last two theorems: loops do not end with a
nested call (`LoopsEndPlain`), breaks are in plain stages (`PlainBreaks`) and a function has one loop
(`OneLoop`). The first is necessary, see 5. The last one is what the proof is given for; TLC also checks
functions with two loops.

The argument. `Safe` (types; what the control location says about the stack; calls are made by nested stages) is
inductive by itself, and gives the first two theorems. For the others one has to relate counters that survive the
calls to a stack that does not:
`FramesCount`, a running function has counted just the instructions it has passed, and one that is inside a call
stands on the instruction its counter and target name; `LevelsWait`, a level that has survived waits, at a nested
stage, for just the function of the next level, and its loop bounds are those of its own function; `RestSpent`, once
a stage has run, no counter of the stack can meet its target again in this call, except at the end of a loop. The
property itself does not say why a second stage cannot run: `RestSpent` does, and it needs `FramesCount` to be
preserved, which needs `LevelsWait` whenever a frame is entered or left. `Inv` is the conjunction. There is one lemma
per method of `Sem`, for `Safe` and for `Inv`.

### 4.2 `ParticleProofs`

For arrays of every length and any marks (`Removal`):

| theorem | states |
|---|---|
| `IndicesStay` | `RemovalTypeOK`: the indices stay within the arrays |
| `FassertsHold` | `CheckPasses` |
| `ExactlyTheKept` | `KeptOnce` |

Invariant `RemovalInv`: the slots hold a permutation of the particles and the marks follow it; while the loop runs
everything left of `i` is kept and everything right of `j` is marked; thereafter `i` separates them. That `j`, a
`size_t`, does not pass zero follows because a decrement at zero can only happen when the whole array is marked, and the
loop is then left by `break`.

For every mesh (`DomainAssumption`), any finite set of particles, any number of sets and steps, any displacements, halo
radius and excluded cells (`ParticleAssumption`; `ParticleExchange`):

| theorem | states |
|---|---|
| `TypeCorrect` | `TypeOK` |
| `RequestsDoNotMix` | `SameRequest` |
| `NeverAborts` | no `fassert` of the receiver fails: what a rank gets is for its own blocks |
| `SendersAgree` | the sender of a message works on the same set of the same step as the receiver |
| `CopiesAreComplete` | `CopiesComplete`, if the particles are seeded inside of the domain (`SeedsInside`) |
| `OwnersCounted` | `KeptParticlesStay`, likewise |

*Transfers* (`IInv`). As in `CommTasks` nothing in a message names its transfer, and the argument is of the same kind: two
collective operations per transfer (`Counted`) keep the ranks one operation apart at most (`Abreast`), the transfers are
those of all sets in order (`InOrderOfRequests`), the only message from one rank to another is that of the transfer the
sender is in (`OnTheWay`), and `left` counts those (`ToCome`).

*Contents* (`CInv`, on top of `IInv`). The property compares lists after a transfer with positions in `track`, so it has to
be known in every state what each list holds. A list is of a version, the number of its step. A particle that is kept
is, in each version, *at home* in one block (`HomeAt`): in any one at first, then in the one that its last position
lies in. There is no home if that position is exactly on an upper wall, and the particle has no later version. Of
the lists of a rank those that have not been transferred yet have as inner copies what is at home there, once
(`Unmoved`; the copies that are not inner are those of the last transfer, and do not matter); those that have been are
what all ranks have sent for the block (`Transferred`), or, while the rank receives, what the ranks have sent whose
message is not on its way anymore (`From`). What a rank sends is the images near to the block of what is at home in its
blocks (`Sent`, `SentIs`), each once, because homes are unique (`HomeUnique`, `TmpIsSent`), so that adding a message
adds nothing that is there (`PlusOnce`, `ReceiveHeld`). A rank that gets no message from another one misses nothing
(`NothingFrom`). Ranks may be a version apart when one has moved its particles and another one has not; what the one
sends then does not change what the other has got (`VersionsNear`, `SentStays`).

The geometry (`TouchedIsNear`, `ImagesAreNear`): the loop over the blocks that the box around a particle touches, with
its quotients and remainders, gives exactly the periodic images within the halo of a block, however far the halo
reaches around the domain.

`SeedsInside` is a hypothesis because seeds may come from a file (`particles_init_csv`), which nothing checks; what
becomes of a particle outside of the domain is not said. The seeds of the run satisfy it.

### 4.3 `RecolorProofs`

For every mesh (`MeshAssumption`), division into blocks and call (`InputAssumption`):

| theorem | states |
|---|---|
| `TypeCorrect` | `TypeOK`: every minimum is taken of a set that has one, every color that is looked up is in its map |
| `LabelsStayInComponents` | `LabelsStay`: no label leaves its component |
| `LabelsOnlyFall` | `LabelsFall`, an action property |
| `LoopEndsSettled` | `Settled`: connected points agree across blocks when the loop ends |
| `ColorsSeparate` | `Separate`: different components have different colors in the end, if they share no fixed or merged label |
| `ColorsKept` | `KnownColorsKept` |

The least element of a set is a `CHOOSE`; the first lemmas prove that it exists, by the well-founded order of the
naturals and for the maximum by induction over the size of a finite set (the other proof modules repeat those they need). That components have different labels at
first (`ApartIsDistinct`) is arithmetic: a block numbers its points from 1 to at most as many as it has, and all blocks
are equally large (`OwnColorsDiffer`). `near`, the relation of points that a pass
looks at, is symmetric and stays inside components, which gives `LabelsStay`; that the map of pairs of `RecolorSparse`
merges labels of one component only is `MergeStays`, and that it raises none is `MergeFalls`. `Settled` is not inductive: the loop
ends when no block has changed a label *before* the exchange, so it must be known that the halo cells are not ahead
of what has been compared. With the iterative variant they are current (`Fresh`), with union-find they are never below
their owners (`Above`), also after the map, which is applied without an exchange. In a round without changes a chain
of inequalities then closes over each pair of neighbours (`Agree`). `Separate` and `KnownColorsKept` rest on an
invariant of the map of colors (`Colors`): it is one to one, each color in it is the fixed one, one of the known ones
of its component, or above all known ones, and each known color has been served.

### 4.4 `LayersProofs`

For every row and division into blocks (`RowAssumption`, `BlockAssumption`), number of layers and colors, set of
velocities and starts (`StartAssumption`), and any part of the volume that passes:

| theorem | states |
|---|---|
| `TypeCorrect` | `TypeOK` |
| `ColorsOnce` | `OneLayer` |
| `ColorsMoveAlone` | `ColorsMove`: `Layers` implements `ColorAdvection` |

The refinement mapping takes the amount of a color from the layer that has it at the owner of the cell, which is
unique by `OneLayer`. The inductive invariant is `Refined` in `LayersInvariant`. Between the sweeps a block sees what the
owners have (`Current`), and colors have volume. During a sweep that is not so: halo cells and inner cells get colors
without volume in an order that differs between blocks. What remains is that volume is seen as the owner has it
(`VolumeCurrent`); that each visited face with volume upwind has its color (`VolumePasses`), so that nothing passes that
is not looked up; that a color with a face has a layer downwind unless all are taken (`ColorsArrive`); and that a
color ahead of its volume comes along the flow from volume that the block stores, with the image it has there
(`ColorsCome`). The last is kept only because no color joins the halo cell the flow comes from (`HaloFilled`). Each
action maps to a step of `ColorAdvection` or changes no color; the case that needs work is the update of a color without a
layer, where a cell must be shown to be crowded (`CrowdedCell`, an injection from its layers and the new color
into the colors that are there or can come).

### 4.5 `HaloCellsProofs`, `CommTasksProofs`

For every mesh (`DomainAssumption`: any number of axes, positive sizes) and sequence of stencils
(`StencilsAssumption`):

| theorem | states |
|---|---|
| `CellHasOneOwner` | `cell_to_rank` names a rank that has the cell in exactly one of its blocks |
| `RequestsHaveOwner` | every cell that `GetRecvCells` lists has one owning block at the rank that is asked |
| `ListsCover` | the lists of a rank name every cell a block sees outside of itself once, and nothing else |
| `TypeCorrect` | `TypeOK` |
| `FassertsHold` | no rank reaches an assertion that fails |
| `ListsMatch` | `TasksMatch` |
| `TasksCoverHalos` | `HalosCovered`: the lists are those of a definition by distance |

The geometry comes down to numbers with one digit per direction: `RowMajor` is a recurrence of weights and sums, and
between a box and the numbers below the last weight it is one to one (`RowMajorNumbers`, by an induction over the
directions, stated for a set of numbers because the prover takes no predicates). Quotients and remainders by
the sizes of block and subdomain give each cell its rank, block and place. `EveryPosition`, a count of the smaller
elements, shows that the order of a list has every position once. `HalosCovered` says by distance along each axis which
cells a block needs and by containment who owns them (`Needed`, `Owners`); `NeededIsSeen` and `OwnerUnique` compare
this with offsets, quotients and remainders, and `ListsComplete` counts each cell once.

The protocol finds requests by a probe from any source, with nothing in a message that names its stencil. The invariant `IInv`
says why they do not mix. Each task has two collective operations, so that ranks are one operation apart at most, and
only inside of one (`Abreast`). A request that is on its way is the one of the task both ranks are in
(`OnTheWay`); what has been received is what was sent and is not on its way (`ReceivedSoFar`). The sum of
`MPI_Allreduce` is the number of ranks that ask, so `left` is what is to come (`ToCome`); a rank that expects
nothing more has got all that exist (`AllReceived`), and behind the barrier no request is left for the next task to
find. `Answered` gives the items, and the geometry the block of each.

### 4.6 `DistrRunProofs`

For every number of ranks and blocks and any ids (`MeshAssumption`), every kernel and split of the blocks
(`SetupAssumption`), and any number of iterations:

| theorem | states |
|---|---|
| `TypeCorrect` | `TypeOK` |
| `RanksInStep` | `InStep`: the same MPI calls in the same order, the same stages, no `fassert` that fails |
| `ResultsAreRight` | `ResultsRight`: reductions, broadcasts, gathered and scattered vectors |

*In step* (`IInv`). Blocks choose their stages alone, by the numbers they find, and the first block of a rank chooses its
MPI calls. That blocks agree is not inductive, because it rests on numbers that are yet to come: after a stage that
reduces a number each block holds its own one until the reduction is over. So `Found` says for each stage that has run
what it found: what the stage before has left, which is the greatest number of all blocks of all ranks if that
stage has reduced it (`NumberAfter`). Then blocks that have run equally many stages have found the same
(`SameFound`) and go on alike (`Decided`, `SameStages`). The current numbers are those before the reduction or after it, according to what is left
to do (`NumberNow`, `SumNow`). That a reduction takes the numbers of one stage needs that the calls of different
ranks match (`SameCalls`): a call has a name, the number of stages before and how many operations are left; each rank makes the calls
of its stages in this order (`CallsInOrder`) and misses none (`NoCallMissed`), and the stages are the same for all; so
the next call of a rank is the one that another rank has made at this place (`NextCallIs`). Each part needs
the others, and none mentions time: ranks may be any number of stages apart, as long as no reduction keeps them.

*Results* (`RInv`, on top of `IInv`). Each buffer is as its last stage has left it before the operation, and as the
operation should have left it after (`PairNow`, `ObjectNow`, `ListNow`, `RowsNow`, `RowNow`); the data of a call are of
the stage it belongs to, also when the rank has gone on (`EntryRight`). Two operations may share a
buffer (vectors are gathered and scattered, objects broadcast between ranks and within one), which is why the order
in which `Run` serves requests matters (`Turn`, `OperationsInTurns`). Vectors are put in a row rank by rank and block by block: that the
place of a vector is that of its block (`RowsOfRanks`, an induction over `FlattenSeq`) holds because vectors are
gathered only while the blocks are in their natural order (`OrderIsAll`), and the root still has all of them
when it scatters (`GatheredBefore`). The least pair is one: all ranks take it from the same call (`OneCall`).

### 4.7 `HaloExchangeProofs`: Native

For every mesh (`DomainAssumption`) and every sequence of exchanges and requests (`ExchangesAssumption`):

| theorem | states |
|---|---|
| `TypeCorrect` | `TypeOK` |
| `BuffersSuffice` | `NoAbort`: no message is longer than the buffer that was posted for it |
| `HalosAreCurrent` | `HalosCurrent` |

A *turn* is a round of an exchange; turns are ordered, first by exchange (`PlaceOrder`, `SuccIs`). The first half is about what
a rank sends in a turn, which no state has a part in: that the buffers of both ends have the same length, that of the
receiver is `cnt`, and their numbers stand for the same field, component and cell, up to periodicity (`SlotsAgree`). A
buffer is a list of lists of lists, joined twice; `Flattened` says what two joins have in common whose parts correspond.
The shared mesh is the mesh of the blocks with one block per rank and larger ones; its facts are those of
`HaloCellsProofs`, instantiated (`SharedMesh`). A cell is in the lists for one rank only (`RequestsHaveOwner`,
`ListsCover`), so that `Unpack` copies it from the one who sent it.

The second half is the invariant `IInv`. A message has nothing that names its turn, so it has to be known how many
there are. Whether `s` sends to `r` in a turn, perhaps nothing, depends on whether they had cells in common in this
turn or an earlier one (`Knows`), and both ends see it alike because `tmp_recv_` of one and `tmp_send_` of the other
grow in the same turn, though not at the same time (`Receivers`, `Senders`). The channel from `s` to `r` then holds one message
for each turn that `s` has sent and `r` has not got (`Due`), in the order of the turns (`Flights`). Sending adds
a later turn at the end (`FlightAppend`). A receive takes the first, which is that of the turn it was posted for because
everything earlier has been got (`FlightTail`) and nothing is got before it is sent (`NotAhead`). How far the ranks
are apart, and whether the library buffers, plays no part. `Halos` says of each halo cell which exchanges
have reached it so far, within an exchange as well; between two exchanges this is `HalosCurrent`.

### 4.8 `HaloExchangeProofs`: the Cubism backend

For every mesh with three axes whose unit is a block (`CubismMesh`; the backend has no other), any sequence of stages and
any wrap-around of the timestamp (`StagesAssumption`):

| theorem | states |
|---|---|
| `CubismTypeCorrect` | `CubismTypeOK` |
| `NoMessageLeft` | `NothingLeft`: a receive never matches a message of another exchange |
| `LabsAreCurrent` | `LabsCurrent`, for stages with `Separate` and `Present` |

`Separate` is the rule the kernels keep, where they keep it (see 5): no stage writes or destroys a field that the stage
before has asked for. It is a hypothesis because nothing in the code enforces it, and necessary: `cubism_documented` is a run
without it. `Present` excludes stages that ask for a field whose memory has been destroyed and not been
written again. TLC evaluates for both runs which of the two their stages satisfy (`MCCubismExchange`).

The invariant `CubismInv` says everything by the place of a rank. The number of exchanges it has begun follows from its stage
and phase (`Counted`), what a block holds of a field from the stages the block has run (`FieldsHeld`, `Held`), and the
messages from one rank to another are those of the exchanges that the one has begun and the other has not
completed (`MessagesSent`). A neighbour has always begun what a rank has completed (`NeighborsBegun`). Ranks may be several
exchanges apart all the same, if they are not neighbours.

The main step is `MatchIs`: the receive that is posted for a direction gets the message from that direction, though
messages have no name but their tag, tags of faces, edges and corners coincide, and two ranks may be
neighbours in several directions at once. The messages of this exchange are the oldest on their way (`HaloMessageLater`), those of
faces before those of edges before those of corners, and receives are posted in the same order. Within a kind the
tag determines the direction (`TagUnique`, a calculation with the digits of the tags). So as many
messages of the same tag come first as there are receives, one to one. The wrap-around of the timestamp
plays no part, whatever its size. A synchronizer that is used again does not spoil messages because its sends are complete
(`NotOverwritten`). That what is loaded is the neighbour's is geometry: a step of one block along any of the three axes stays in the rank
or arrives at the opposite side of the next one (`StepInMesh`, `OutwardIs`). And blocks that have run the stage already do
not change what others load, by `Separate` (`StillHeld`).

### 4.9 Only model-checked

Termination (liveness under fairness is not in the reach of the prover), and `StagesInOrder`, whose abstract side is
recursive. `Settled` of the iterative variant with the sparse grid does not hold in general, see 5.

## 5. Where code and text disagree

* `suspender_last_nested`: a loop whose last stage calls a function with several stages hangs unless it is broken on the
  first pass. In a pass that is not broken, the called function leaves its level pending, and `LoopEnd`, in the same call, sees
  `current == target + 1` and sets the target back to `loop_begin` (`util/suspender.cpp:103-105`), as if the stage were
  over. The destructor of the caller's `Sem` does not advance the target because there is a deeper level (`:48`). In all
  later calls the first stage of the loop is repeated: `LoopBegin` leads to it, nothing leads on, and neither the stage
  that may break nor the called function is reached again. Breaking the loop before the nested stage works. The
  repository knows the symptom: "TODO: Suspender loop hangs if (probably) Nested is last" (`kernel/hydro.ipp:2592`).
* `suspender_first_break`: a loop broken by its first stage on the first pass goes back to the beginning of the
  function, because `loop_end` is not known (`util/suspender.cpp:92`, `:95-96`; `test/advection/main.cpp:211` has the
  workaround).
* `cubism_documented`: with the Cubism backend requests are *not* complete before the next stage begins. A
  stage that rewrites a field which the stage before has asked for gives blocks at the boundary of a rank
  values of the new stage; the example in `doc/sphinx/src/comm.rst` does so. The rule that the kernels keep, where they
  keep it, is an empty stage in between (`solver/approx_eb.ipp:1558`); it is `Separate` of `CubismExchange`, which the stages of
  the other run satisfy and `LabsAreCurrent` assumes.

Met while modelling, outside of the inputs of the runs:

* The test for particles that have left the domain uses a closed box, blocks are half-open
  (`solver/particles.ipp:299-300`): a particle exactly on the upper wall belongs to no block and is lost. `KeptParticlesStay`
  says so, and `OwnersCounted` shows that there is no other way to be lost or doubled.
* `Recolor` with the iterative variant *and* the sparse grid may end with two colors in one component,
  though `util/vof.h:65` says "Computes unique color for each connected component over all layers". The map of
  `RecolorSparse` is applied to inner cells and to halo cells over faces, without an exchange and without counting the changes
  (`util/vof.ipp:723-733`). A block whose only neighbour in the component is a halo cell over an edge still sees the old, larger
  label there and changes nothing; if no other block changes anything either, the loop is left (`:958`). The default, and
  the configurations of the repository, use union-find (`solver/vof.h:22`, `deploy/scripts/sim_base.conf:209`), for which
  `Settled` holds. With `Inputs <- SparseInputs` (`MCRecolor`) and the invariant `UniqueColor` (`Recolor`) in place of those of
  `Recolor.cfg`, TLC shows it in ten steps.
* A color may be lost although all colors with volume would fit in the layers of a cell, because colors that are
  ahead of their volume claim layers first (`solver/vofm.ipp:511`); `Crowded` of `ColorAdvection` counts the colors that can come, not
  those that do.

The comment at `util/suspender.h:27-33` describes an infinite loop that the present code does not have: the runs
contain such programs.

## 6. Plan

Order of work, most important behaviour first; what is done is marked.

1. `Program`, `Coroutine`, `Suspender`, refinement, proofs (done).
2. `HaloCells`, `CommTasks`, `HaloExchange`: the exchange of the default backend, and the proofs about cells, tasks and the exchange (done).
3. `ParticleExchange`, `Removal` and the proofs of both (done); `SetUniqueIdForTail`, `Append`.
4. `CubismExchange` and its proofs (done); the synchronous transfer before a dump.
5. `DistrRun` and the collectives: blocks of all ranks in step, results as requested, and the proofs of both (done).
6. Lifetime of requests: a request of the last stage refers to a context that is destroyed
   (`kernel/hydro.ipp:3002`); extends `Suspender` with requests.
7. `Recolor` and its proofs (done).
8. `ColorAdvection`, `Layers`, the refinement and its proof (done); the schemes aulisa and weymouth, inlets.
9. The loops of `Hydro::Run` and of the sub-steps; conditional stages.
10. Further theorems: `OwnLevel` for functions with several loops.

## 7. Not modelled

Floating-point numerics, which are most of the code by far: fluxes, interface normals and curvature, Poisson and other
linear systems, embedded boundaries. Their control is that of stages in loops (`Suspender`, `DistrRun`); what is in
the stages are sums and products of doubles, which TLC does not have, and over which the properties that matter are not
exact. The time loop of `Hydro` is in the same way a sequence of stages around numbers. `local.ipp`, the backend for
one process, whose collectives are those of `DistrRun` on one rank. Further: files, parsing, timers and reports; variants without MPI
(`comm_manager_seq.ipp`, the `#else` branches), which copy within one process; compression in
`SynchronizerMPI`, which is a bijection of the buffer; OpenMP loops over blocks, which share nothing but the fields
that are read; the names and suffixes of stages, which only serve messages.
