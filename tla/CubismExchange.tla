---------------------------- MODULE CubismExchange ----------------------------
(***************************************************************************)
(* The asynchronous halo exchange of the Cubism backend, and the iteration *)
(* of DistrMesh::Run that it is made for (src/src/distr/cubismnc.ipp,      *)
(* src/src/distr/distr.ipp, src/src/CubismNoCopy).  Blocks that need no    *)
(* message of another rank load their halo cells and run their next stage  *)
(* before the rank waits for the messages; the other blocks load theirs    *)
(* and run the stage after it.                                             *)
(*                                                                         *)
(* The unit of data is a field in a block: its value is the stage that     *)
(* wrote it last.  The unit of length is a block (blocksize is 1 in all    *)
(* directions), so that a cell of HaloCells is a block here and ranks are  *)
(* named by their coordinates.  MPI matches messages between two ranks by  *)
(* tag, the oldest first.  There are three axes, as the tags count them.   *)
(***************************************************************************)
EXTENDS HaloCells

CONSTANTS
  Field,          \* the fields that are exchanged
  Stages,         \* Stages[k]: what stage k does on a block,
                  \* [writes, frees, comm] are sets of fields
  Timestamps,     \* the timestamp of the exchanges wraps around here
  NotLoaded       \* a halo that was never loaded

ASSUME StagesAssumption ==
  /\ Timestamps \in Nat \ {0}
  /\ Len(Stages) \in Nat /\ DOMAIN Stages = 1 .. Len(Stages)
  /\ \A k \in DOMAIN Stages : /\ Stages[k].writes \subseteq Field
                              /\ Stages[k].frees \subseteq Field
                              /\ Stages[k].comm \subseteq Field

VARIABLES
  phase,    \* where each rank is in the iteration
  stage,    \* the stage its blocks run in this iteration
  syncs,    \* the number of exchanges it has begun
  field,    \* field[r][f][b]: the stage that has written field f of block b
  ghost,    \* ghost[r][f][b][c]: the halo cells of block b in direction c
  sent,     \* sent[s][r]: the messages on their way from s to r
  buffered  \* whether the library buffers messages

cubismVars == <<phase, stage, syncs, field, ghost, sent, buffered>>

Freed == -1     \* the memory of a destroyed context

-----------------------------------------------------------------------------
\* Ranks, their blocks, and the directions of faces, edges and corners.
Proc == Box(nprocs)
LocalBlock == Box(nblocks)
Dir == {c \in [Axis -> -1 .. 1] : nnz(c) > 0}

Neighbor(r, c) == [d \in Axis |-> (r[d] + c[d]) % nprocs[d]]
Opposite(c) == [d \in Axis |-> -c[d]]
Global(r, b) == Plus(Times(r, nblocks), b)

\* The directions in which another rank lies.
Remote == [r \in Proc |-> {c \in Dir : Neighbor(r, c) # r}]

AtSide(b, d, side) == b[d] = IF side = -1 THEN 0 ELSE nblocks[d] - 1

\* The blocks that touch the boundary of the rank in direction c.
Side == [c \in Dir |->
  {b \in LocalBlock : \A d \in Axis : c[d] # 0 => AtSide(b, d, c[d])}]

\* The direction in which a step of b towards c leaves the rank, if it does.
Outward(b, c) ==
  [d \in Axis |-> IF c[d] # 0 /\ AtSide(b, d, c[d]) THEN c[d] ELSE 0]

\* [mutant of Needs] The messages from below are forgotten.
NeedsUpper(r, b) == {c \in Remote[r] : b \in Side[c] /\ \A d \in Axis : c[d] >= 0}

\* The messages a block waits for: the faces, edges and corners it is part of.
Needs(r, b) == {c \in Remote[r] : b \in Side[c]}

InnerBlocks == [r \in Proc |-> {b \in LocalBlock : Needs(r, b) = {}}]

\* What an exchange moves: the fields the stage before has asked for.
Comm(k) == IF k = 0 THEN {} ELSE Stages[k].comm

(***************************************************************************)
(* The tag of the message that a rank receives from direction c.  Tags of  *)
(* faces, edges and corners overlap, also those of different exchanges.    *)
(***************************************************************************)
Bit(c, d) == (c[1 + (d % 3)] + 1) \div 2

Tag(time, c) ==
  CASE nnz(c) = 1 ->
         LET d == CHOOSE e \in 0 .. 2 : c[e + 1] # 0
         IN 6 * time + 2 * d + Bit(c, d)
    [] nnz(c) = 2 ->
         LET d == CHOOSE e \in 0 .. 2 : c[e + 1] = 0
         IN 12 * time + 4 * d + 2 * Bit(c, d + 2) + Bit(c, d + 1)
    [] nnz(c) = 3 -> 8 * time + 4 * Bit(c, 2) + 2 * Bit(c, 1) + Bit(c, 0)

\* The tag of the message that is sent in direction c.
SendTag(time, c) == Tag(time, Opposite(c))

timestamp(r) == syncs[r] % Timestamps

-----------------------------------------------------------------------------

CubismInit ==
  /\ phase = [r \in Proc |-> "begin"]
  /\ stage = [r \in Proc |-> 1]
  /\ syncs = [r \in Proc |-> 0]
  /\ field = [r \in Proc |-> [f \in Field |-> [b \in LocalBlock |-> 0]]]
  /\ ghost = [r \in Proc |-> [f \in Field |-> [b \in LocalBlock |-> [c \in Dir |-> NotLoaded]]]]
  /\ sent = [s \in Proc |-> [r \in Proc |-> {}]]
  /\ buffered \in BOOLEAN

Running(r) == stage[r] \in DOMAIN Stages

Moves(r, here, there) == phase[r] = here /\ phase' = [phase EXCEPT ![r] = there]

Datum(r, f, b) == [block |-> Global(r, b), written |-> field[r][f][b]]

\* What a rank packs for direction c.
Pack(r, c) ==
  [f \in Comm(stage[r] - 1) |-> [b \in Side[c] |-> Datum(r, f, b)]]

(***************************************************************************)
(* BlockLab::load from the fields of the rank, and BlockLabMPI::load from  *)
(* the messages for what lies beyond the rank.  NotLoaded stands for a     *)
(* message that is not there or holds other fields.                        *)
(***************************************************************************)
Local(r, f, b, c) == Datum(r, f, [d \in Axis |-> (b[d] + c[d]) % nblocks[d]])

Received(r, f, b, c, messages) ==
  LET out == Outward(b, c)
  IN IF out \notin Remote[r] THEN Local(r, f, b, c)
     ELSE IF out \notin DOMAIN messages \/ f \notin DOMAIN messages[out] THEN NotLoaded
     ELSE messages[out][f][[d \in Axis |-> (b[d] + c[d]) % nblocks[d]]]

Loaded(r, blocks, messages) ==
  [f \in Field |->
     IF f \notin Comm(stage[r] - 1) THEN ghost[r][f]
     ELSE [b \in LocalBlock |->
             IF b \notin blocks THEN ghost[r][f][b]
             ELSE [c \in Dir |-> Received(r, f, b, c, messages)]]]

\* The blocks run the stage: it writes fields and may destroy its context.
Run(r, blocks) ==
  LET s == Stages[stage[r]]
  IN [f \in Field |-> [b \in LocalBlock |->
        IF b \notin blocks THEN field[r][f][b]
        ELSE IF f \in s.frees THEN Freed
        ELSE IF f \in s.writes THEN stage[r] ELSE field[r][f][b]]]

\* The synchronizer of an exchange is chosen by the number of its components.
Synchronizer(fields) == Cardinality(fields)

\* [mutant of SendsComplete] A synchronizer does not wait for its sends.
SendsCompleteNever(r) == TRUE

\* The sends the synchronizer has pending are complete.
SendsComplete(r) ==
  buffered \/ \A s \in Proc : \A m \in sent[r][s] : m.sync # Synchronizer(Comm(stage[r] - 1))

(***************************************************************************)
(* SynchronizerMPI::sync and the load of the inner blocks.  A message that *)
(* is not buffered is read from the buffer of the synchronizer when it is  *)
(* received, so that packing again would overwrite it.                     *)
(***************************************************************************)
Overwritten(r, messages) ==
  {IF m.sync = Synchronizer(Comm(stage[r] - 1)) /\ ~buffered
   THEN [m EXCEPT !.data = Pack(r, m.dir)] ELSE m : m \in messages}

Sync(r) ==
  /\ Running(r) /\ Comm(stage[r] - 1) # {}
  /\ Moves(r, "begin", "inner")
  /\ SendsComplete(r)
  /\ syncs' = [syncs EXCEPT ![r] = @ + 1]
  /\ sent' = [sent EXCEPT ![r] = [s \in Proc |->
       Overwritten(r, @[s]) \cup
         {[tag |-> SendTag(timestamp(r), c), at |-> 4 * syncs[r] + nnz(c), dir |-> c,
           sync |-> Synchronizer(Comm(stage[r] - 1)), data |-> Pack(r, c)] :
            c \in {e \in Remote[r] : Neighbor(r, e) = s}}]]
  /\ ghost' = [ghost EXCEPT ![r] = Loaded(r, InnerBlocks[r], <<>>)]
  /\ UNCHANGED <<stage, field, buffered>>

\* RunKernels(bbi).
RunInner(r) ==
  /\ Moves(r, "inner", "wait")
  /\ field' = [field EXCEPT ![r] = Run(r, InnerBlocks[r])]
  /\ UNCHANGED <<stage, syncs, ghost, sent, buffered>>

(***************************************************************************)
(* The messages that match the receives of this exchange, which were       *)
(* posted for the faces, the edges and the corners, in this order.         *)
(***************************************************************************)
Matches(r, c) ==
  LET time == (syncs[r] - 1) % Timestamps
      from == Neighbor(r, c)
      earlier == {e \in Remote[r] : /\ Neighbor(r, e) = from
                                    /\ Tag(time, e) = Tag(time, c)
                                    /\ nnz(e) < nnz(c)}
      queue == {m \in sent[from][r] : m.tag = Tag(time, c)}
  IN {m \in queue : Cardinality({o \in queue : o.at < m.at}) = Cardinality(earlier)}

\* [mutant of Matched] The receives of a stencil that is not tensorial.
MatchedFaces(r, s) ==
  UNION {Matches(r, c) : c \in {e \in Remote[r] : Neighbor(r, e) = s /\ nnz(e) = 1}}

Matched(r, s) == UNION {Matches(r, c) : c \in {e \in Remote[r] : Neighbor(r, e) = s}}

\* SynchronizerMPI::avail_halo, MPI_Waitall, and the load of the halo blocks.
AvailHalo(r) ==
  /\ Moves(r, "wait", "halo")
  /\ \A c \in Remote[r] : Matches(r, c) # {}
  /\ LET messages == [c \in Remote[r] |-> (CHOOSE m \in Matches(r, c) : TRUE).data]
     IN ghost' = [ghost EXCEPT ![r] = Loaded(r, LocalBlock \ InnerBlocks[r], messages)]
  /\ sent' = [s \in Proc |-> [sent[s] EXCEPT ![r] = @ \ Matched(r, s)]]
  /\ UNCHANGED <<stage, syncs, field, buffered>>

\* [mutant of RunHalo] The halo blocks repeat the stage.
RunHaloAgain(r) ==
  /\ Moves(r, "halo", "begin")
  /\ field' = [field EXCEPT ![r] = Run(r, LocalBlock \ InnerBlocks[r])]
  /\ UNCHANGED <<stage, syncs, ghost, sent, buffered>>

\* RunKernels(bbh), and the end of the iteration.
RunHalo(r) ==
  /\ Moves(r, "halo", "begin")
  /\ field' = [field EXCEPT ![r] = Run(r, LocalBlock \ InnerBlocks[r])]
  /\ stage' = [stage EXCEPT ![r] = @ + 1]
  /\ UNCHANGED <<syncs, ghost, sent, buffered>>

\* [mutant of RunAll] TransferHalos returns no blocks if there is no exchange.
RunNone(r) ==
  /\ Running(r) /\ Comm(stage[r] - 1) = {}
  /\ phase[r] = "begin"
  /\ UNCHANGED cubismVars

\* An iteration without exchange: all blocks run.
RunAll(r) ==
  /\ Running(r) /\ Comm(stage[r] - 1) = {}
  /\ phase[r] = "begin"
  /\ field' = [field EXCEPT ![r] = Run(r, LocalBlock)]
  /\ stage' = [stage EXCEPT ![r] = @ + 1]
  /\ UNCHANGED <<phase, syncs, ghost, sent, buffered>>

AllFinished == (\A r \in Proc : ~Running(r)) /\ UNCHANGED cubismVars

CubismStep(r) == Sync(r) \/ RunInner(r) \/ AvailHalo(r) \/ RunHalo(r) \/ RunAll(r)

CubismNext == (\E r \in Proc : CubismStep(r)) \/ AllFinished

CubismFairness == \A r \in Proc : WF_cubismVars(CubismStep(r))

CubismSpec == CubismInit /\ [][CubismNext]_cubismVars /\ CubismFairness

-----------------------------------------------------------------------------

\* Every rank is in one stage.
CubismTypeOK ==
  /\ phase \in [Proc -> {"begin", "inner", "wait", "halo"}]
  /\ stage \in [Proc -> 1 .. Len(Stages) + 1]
  /\ \A r \in Proc : syncs[r] < stage[r]
  /\ \A r \in Proc, f \in Field, b \in LocalBlock :
       field[r][f][b] \in 0 .. Len(Stages) \cup {Freed}

\* The stage that has written field f last when stage k is finished.
Written(f, k) ==
  Max({0} \cup {j \in 1 .. k : f \in Stages[j].writes})

\* The halo cells of the blocks are those of the end of the stage before.
Fresh(r, blocks) ==
  \A f \in Comm(stage[r] - 1) : \A b \in blocks, c \in Dir :
    ghost[r][f][b][c] =
      [block |-> GetPeriodic(Plus(Global(r, b), c)), written |-> Written(f, stage[r] - 1)]

\* The mesh of the backend: there are three axes and a block is the unit of length.
CubismMesh == dim = 3 /\ blocksize = [d \in Axis |-> 1]

\* No stage writes or destroys what the stage before has asked for.
Separate ==
  \A k \in 1 .. Len(Stages) - 1 :
    Stages[k].comm \cap (Stages[k + 1].writes \cup Stages[k + 1].frees) = {}

\* What a stage asks for is there: it has been written again after its memory was
\* destroyed.
Present ==
  \A k \in DOMAIN Stages : \A f \in Stages[k].comm : \A j \in 1 .. k :
    f \in Stages[j].frees => \E i \in j + 1 .. k : f \in Stages[i].writes

\* When a block runs a stage its halo cells hold, for every field the stage
\* before has asked for, what the neighbours had when that stage was finished:
\* requests are "executed before transferring to the next stage".
LabsCurrent ==
  \A r \in Proc : /\ phase[r] = "inner" => Fresh(r, InnerBlocks[r])
                  /\ phase[r] = "halo" => Fresh(r, LocalBlock \ InnerBlocks[r])

\* No message is left over when a rank has everything it waited for: what is on
\* its way belongs to a later exchange.
NothingLeft ==
  \A s, r \in Proc : phase[r] = "halo" => \A m \in sent[s][r] : m.at > 4 * syncs[r]

\* All ranks finish all stages, buffered or not.
AllFinish == <>(\A r \in Proc : ~Running(r))
=============================================================================
