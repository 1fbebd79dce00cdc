------------------------------ MODULE DistrRun ------------------------------
(***************************************************************************)
(* The scheduler: DistrMesh::Run (src/src/distr/distr.ipp) with the         *)
(* collective operations of Native and Cubismnc (src/src/distr/native.ipp,  *)
(* cubismnc.ipp).                                                           *)
(*                                                                         *)
(* Every rank repeats: exchange the halo cells that its blocks have asked   *)
(* for, run one stage of every block, serve the other requests of the       *)
(* stage, and see whether the blocks have more stages.  The first block of  *)
(* a rank decides what is done, and ranks meet only in messages and MPI     *)
(* collectives, so everything rests on all blocks being at the same stage:  *)
(* a block may choose its next stage only by what all blocks agree on.      *)
(*                                                                         *)
(* A kernel is the sequence of its stages, which Suspender executes one per *)
(* call (module Coroutine); nested functions are written out.  MPI calls    *)
(* for the size and for the data of one request are one call.               *)
(***************************************************************************)
EXTENDS Integers, Sequences, FiniteSets, FiniteSetsExt, SequencesExt, Functions

CONSTANTS
  nranks, nblocks,   \* ranks, and blocks of each
  Id,                \* m.GetId() of a block
  Setups,            \* kernels and backends to consider, see SetupAssumption
  MaxRuns            \* bound: how many times a stage finds work left

Rank == 0 .. nranks - 1
Local == 0 .. nblocks - 1
Block == Rank \X Local
Lead(r) == <<r, 0>>     \* kernels_.front(), which is also the lead block
Root == <<0, 0>>
Others(r) == Rank \ {r}

Reduction == {"max", "minloc", "concat"}

(***************************************************************************)
(* A stage: what it requests, and the stage that follows it while the       *)
(* block reads that there is work left in `by`, if any.                     *)
(***************************************************************************)
Stage ==
  [comm : BOOLEAN, dump : BOOLEAN,          \* m.Comm, m.Dump
   reduce : Seq(Reduction),                 \* m.Reduce, in the order of the calls
   tolead : BOOLEAN, shared : BOOLEAN,      \* m.GatherToLead; ms.Reduce by the lead block
   scatter : BOOLEAN, bcast : BOOLEAN, fromlead : BOOLEAN, part : BOOLEAN,
   again : Nat,                             \* the stage after sem.LoopBegin, or 0
   by : {"reduced", "shared"}]

Nothing ==
  [comm |-> FALSE, dump |-> FALSE, reduce |-> <<>>, tolead |-> FALSE, shared |-> FALSE,
   scatter |-> FALSE, bcast |-> FALSE, fromlead |-> FALSE, part |-> FALSE,
   again |-> 0, by |-> "reduced"]

Has(stage, kind) == \E i \in DOMAIN stage.reduce : stage.reduce[i] = kind

\* The stages that can follow stage i.
After(kernel, i) == {i + 1} \cup ({kernel[i].again} \ {0})

(***************************************************************************)
(* A setup: the stages, and the blocks of a rank that wait for messages     *)
(* before they load their halo cells while the early ones go on (Cubismnc;  *)
(* none with Native, where the rank waits), in the order of the exchange.   *)
(* With Cubismnc, vectors are neither gathered nor scattered in a stage     *)
(* that follows one with m.Comm: the blocks are in another order then, and  *)
(* the first one is not the root.  A stage has one buffer for each kind of  *)
(* reduction, scatters what the stage before has gathered, and does not     *)
(* decide by a number of the shared mesh that it is about to reduce.        *)
(***************************************************************************)
ASSUME MeshAssumption ==
  /\ nranks \in Nat \ {0} /\ nblocks \in Nat \ {0} /\ MaxRuns \in Nat
  /\ Id \in [Block -> Nat] /\ \A a, b \in Block : Id[a] = Id[b] => a = b

ASSUME SetupAssumption ==
  \A s \in Setups :
    /\ s.early \in Seq(Local) /\ s.late \in Seq(Local)
    /\ IsInjective(s.early \o s.late) /\ Range(s.early \o s.late) = Local
    /\ s.kernel \in Seq(Stage) /\ s.kernel # <<>> /\ ~s.kernel[1].scatter
    /\ \A i \in DOMAIN s.kernel :
         /\ s.kernel[i].again <= i
         /\ s.kernel[i].again # 0 /\ s.kernel[i].shared => s.kernel[i].by = "reduced"
         /\ IsInjective(s.kernel[i].reduce)
         /\ \A j \in After(s.kernel, i) \cap DOMAIN s.kernel :
              /\ s.kernel[j].scatter => Has(s.kernel[i], "concat")
              /\ s.late # <<>> /\ s.kernel[i].comm /\ ~s.kernel[i].dump =>
                   ~Has(s.kernel[j], "concat") /\ ~s.kernel[j].tolead /\ ~s.kernel[j].scatter

VARIABLES
  kernel, early, late,   \* the setup
  at,             \* of a rank: the place in the body of Run
  fields,         \* n_fields_ > 0: the first block has asked for an exchange
  order,          \* bb: the blocks that have run, in this order
  sent,           \* exchanges whose messages have been sent
  todo,           \* the operations to come in this iteration
  entered,        \* the MPI collectives that have been called, with the data given to
                  \* them; history: the number of stages, and what was to do, at the call
  sum,            \* the reduced number of the shared mesh
  pos,            \* of a block: its next stage
  data,           \* its buffers
  gave,           \* history: the stages it has run, with the numbers they found and the
                  \* buffers as they left them
  aborted         \* a fassert has failed

runvars == <<at, fields, order, sent, todo>>
blockvars == <<pos, data, gave>>
setup == <<kernel, early, late>>
vars == <<setup, runvars, entered, sum, blockvars, aborted>>

(***************************************************************************)
(* Blocks.                                                                  *)
(***************************************************************************)
Blocks(r) == {b \in Block : b[1] = r}
All == [i \in 1 .. nblocks |-> i - 1]

\* The blocks of rank r in the order of bb.
InOrder(r, bb) == [i \in DOMAIN bb |-> <<r, bb[i]>>]

Stages(b) == Len(gave[b])
Requests(b) == IF gave[b] = <<>> THEN Nothing ELSE kernel[Last(gave[b]).stage]
Runs(b, s) == Cardinality({k \in DOMAIN gave[b] : gave[b][k].stage = s})
Pending(b) == pos[b] <= Len(kernel)

\* What a stage leaves in the buffers: a number that is reduced, a pair for minloc, the
\* vector to gather, the object to broadcast, the number for the shared mesh; `row`
\* and `list` are received.
Filled(b, c) ==
  LET s == kernel[pos[b]] IN
  [data[b] EXCEPT
     !.number = IF Has(s, "max") THEN c ELSE @,
     !.pair = IF Has(s, "minloc") THEN <<c, Id[b]>> ELSE @,
     !.rows = IF Has(s, "concat") THEN << <<Id[b], Stages(b)>> >> ELSE @,
     !.list = IF s.tolead THEN << <<Id[b], Stages(b)>> >> ELSE @,
     !.object = IF s.bcast \/ s.fromlead THEN <<Id[b], Stages(b)>> ELSE @,
     !.shared = IF s.shared /\ b[2] = 0 THEN c ELSE @]

\* Work is left as the data have it, MaxRuns times at most.
Drawn(b) ==
  LET s == kernel[pos[b]] IN
  IF (Has(s, "max") \/ Has(s, "minloc") \/ (s.shared /\ b[2] = 0)) /\ Runs(b, pos[b]) < MaxRuns
  THEN {0, 1} ELSE {0}

\* sem.LoopBreak() when there is nothing left to do.
Following(b) ==
  LET s == kernel[pos[b]]
      left == IF s.by = "reduced" THEN data[b].number ELSE sum[b[1]]
  IN IF s.again # 0 /\ left # 0 THEN s.again ELSE pos[b] + 1

\* RunKernels(bb).
RunKernels(r, bb) ==
  LET S == Range(InOrder(r, bb)) IN
  \E c \in [S -> {0, 1}] :
    /\ \A b \in S : c[b] \in Drawn(b)
    /\ data' = [b \in Block |-> IF b \in S THEN Filled(b, c[b]) ELSE data[b]]
    /\ gave' = [b \in Block |-> IF b \in S
                  THEN Append(gave[b], [stage |-> pos[b], number |-> data[b].number, sum |-> sum[r],
                                     data |-> Filled(b, c[b])])
                  ELSE gave[b]]
    /\ pos' = [b \in Block |-> IF b \in S THEN Following(b) ELSE pos[b]]
    /\ sum' = IF Lead(r) \in S /\ kernel[pos[Lead(r)]].shared
              THEN [sum EXCEPT ![r] = c[Lead(r)]] ELSE sum

Init ==
  /\ \E s \in Setups : kernel = s.kernel /\ early = s.early /\ late = s.late
  /\ at = [r \in Rank |-> "begin"]
  /\ fields = [r \in Rank |-> FALSE]
  /\ order = [r \in Rank |-> <<>>]
  /\ sent = [r \in Rank |-> 0]
  /\ todo = [r \in Rank |-> <<>>]
  /\ entered = [r \in Rank |-> <<>>]
  /\ sum = [r \in Rank |-> 0]
  /\ pos = [b \in Block |-> 1]
  /\ data = [b \in Block |->
               [number |-> 0, pair |-> <<0, 0>>, rows |-> <<>>, row |-> <<>>, list |-> <<>>,
                object |-> <<>>, shared |-> 0]]
  /\ gave = [b \in Block |-> <<>>]
  /\ aborted = FALSE

(***************************************************************************)
(* The exchange of halo cells.  Only its messages matter here.              *)
(***************************************************************************)
\* The messages that the ranks have sent in this exchange have arrived.
Arrived(r) == \A s \in Others(r) : sent[s] >= sent[r]

\* All blocks have the requests of the first one: an assertion, or an index out of range.
SameFields(r) ==
  \A b \in Blocks(r) : /\ Requests(b).comm = Requests(Lead(r)).comm
                       /\ Requests(b).dump = Requests(Lead(r)).dump

Begin(r) ==
  /\ at[r] = "begin"
  /\ fields' = [fields EXCEPT ![r] = Requests(Lead(r)).comm]
  /\ sent' = [sent EXCEPT ![r] = @ + IF fields'[r] THEN 1 ELSE 0]
  /\ at' = [at EXCEPT ![r] = IF Requests(Lead(r)).dump THEN "sync" ELSE "inner"]
  /\ aborted' = (aborted \/ ~SameFields(r))
  /\ UNCHANGED <<setup, order, todo, entered, sum, blockvars>>

\* A dump: TransferHalos() of all blocks, DumpWrite, then the stage.
Sync(r) ==
  /\ at[r] = "sync"
  /\ fields[r] => Arrived(r)
  /\ todo' = [todo EXCEPT ![r] = <<"dump">>]
  /\ at' = [at EXCEPT ![r] = "write"]
  /\ UNCHANGED <<setup, fields, order, sent, entered, sum, blockvars, aborted>>

RunAll(r) ==
  /\ at[r] = "write" /\ todo[r] = <<>>
  /\ RunKernels(r, All)
  /\ order' = [order EXCEPT ![r] = All]
  /\ at' = [at EXCEPT ![r] = "collect"]
  /\ UNCHANGED <<setup, fields, sent, todo, entered, aborted>>

\* TransferHalos(true): blocks that need no messages run; Native waits and runs all.
Inner(r) == IF fields[r] /\ late # <<>> THEN early ELSE All

RunInner(r) ==
  /\ at[r] = "inner"
  /\ fields[r] /\ late = <<>> => Arrived(r)
  /\ RunKernels(r, Inner(r))
  /\ order' = [order EXCEPT ![r] = Inner(r)]
  /\ at' = [at EXCEPT ![r] = "halo"]
  /\ UNCHANGED <<setup, fields, sent, todo, entered, aborted>>

\* [mutant of Outer] The blocks that have run are run again.
OuterAll(r) == IF fields[r] THEN All ELSE <<>>

\* TransferHalos(false): the other blocks, after the messages.
Outer(r) == IF fields[r] THEN late ELSE <<>>

RunHalo(r) ==
  /\ at[r] = "halo"
  /\ fields[r] => Arrived(r)
  /\ RunKernels(r, Outer(r))
  /\ order' = [order EXCEPT ![r] = @ \o Outer(r)]
  /\ at' = [at EXCEPT ![r] = "collect"]
  /\ UNCHANGED <<setup, fields, sent, todo, entered, aborted>>

(***************************************************************************)
(* The requests of the stage, in the order of Run.                          *)
(***************************************************************************)
If(condition, operation) == IF condition THEN <<operation>> ELSE <<>>

Operations(s) ==
  s.reduce \o If(s.tolead, "tolead") \o If(s.shared, "shared") \o If(s.scatter, "scatter")
           \o If(s.bcast, "bcast") \o If(s.fromlead, "fromlead")
           \o (IF s.part THEN <<"part", "barrier">> ELSE <<>>)

\* fassert_equal of the numbers of requests; another kind would be a null pointer.
SameRequests(r) ==
  \A b \in Blocks(r) :
    LET s == Requests(b)
        f == Requests(Lead(r))
    IN /\ s.reduce = f.reduce /\ s.tolead = f.tolead /\ s.scatter = f.scatter
       /\ s.bcast = f.bcast /\ s.fromlead = f.fromlead

Collect(r) ==
  /\ at[r] = "collect"
  /\ todo' = [todo EXCEPT ![r] = Operations(Requests(Lead(r)))]
  /\ at' = [at EXCEPT ![r] = "serve"]
  /\ aborted' = (aborted \/ ~SameRequests(r))
  /\ UNCHANGED <<setup, fields, order, sent, entered, sum, blockvars>>

\* The MPI call of an operation.
Call(op) ==
  CASE op \in {"max", "shared", "part", "minloc"} -> "Allreduce"
    [] op = "concat" -> "Gather"
    [] op = "scatter" -> "Scatter"
    [] op = "bcast" -> "Bcast"
    [] op = "dump" -> "File_write_all"
    [] op = "barrier" -> "Barrier"

\* [mutant of Numbers] Only the first block is counted.
NumbersOfFirst(r) == {data[Lead(r)].number}

\* Within a rank: Append over the blocks of bb, starting from Neutral.
Numbers(r) == {data[b].number : b \in Range(InOrder(r, order[r]))}

\* The first pair of the least number.
Nearest(r) ==
  LET pairs == [i \in DOMAIN order[r] |-> data[<<r, order[r][i]>>].pair]
  IN pairs[CHOOSE i \in DOMAIN pairs : \A j \in DOMAIN pairs :
             pairs[i][1] < pairs[j][1] \/ (pairs[i][1] = pairs[j][1] /\ i <= j)]

Gathered(r) == FlattenSeq([i \in DOMAIN order[r] |-> data[<<r, order[r][i]>>].rows])

\* What a rank gives to the call.
Given(r, op) ==
  CASE op = "max" -> Max(Numbers(r))
    [] op = "minloc" -> Nearest(r)
    [] op = "concat" -> Gathered(r)
    [] op = "shared" -> sum[r]
    [] op = "scatter" -> IF r = 0 THEN data[Root].rows ELSE <<>>
    [] op = "bcast" -> IF r = 0 THEN data[Root].object ELSE <<>>
    [] OTHER -> <<>>

\* A call of the rank that it has not left: todo still begins with its operation.
Entered(r) == entered[r] # <<>> /\ Last(entered[r]).open
OfRank == {"tolead", "fromlead"}

Enter(r) ==
  /\ at[r] \in {"serve", "write"} /\ todo[r] # <<>> /\ Head(todo[r]) \notin OfRank
  /\ ~Entered(r)
  /\ entered' = [entered EXCEPT ![r] =
                   Append(@, [op |-> Call(Head(todo[r])), data |-> Given(r, Head(todo[r])), open |-> TRUE,
                             stage |-> Stages(Lead(r)), todo |-> todo[r]])]
  /\ UNCHANGED <<setup, runvars, sum, blockvars, aborted>>

\* Calls that return before all ranks have entered.
CanLeave(r) ==
  LET k == Len(entered[r])
      op == entered[r][k].op
  IN CASE op = "Gather" -> r = 0 => \A s \in Rank : Len(entered[s]) >= k
       [] op \in {"Scatter", "Bcast"} -> Len(entered[0]) >= k
       [] OTHER -> \A s \in Rank : Len(entered[s]) >= k

(***************************************************************************)
(* The results.                                                             *)
(***************************************************************************)
\* The data of the calls that match the last one of rank r, by rank.
Matching(r) == [s \in Rank |-> entered[s][Len(entered[r])].data]

LeastPair(pairs) ==
  CHOOSE p \in pairs : \A q \in pairs : p[1] < q[1] \/ (p[1] = q[1] /\ p[2] <= q[2])

\* [mutant of Numbered] Only the root rank gets the result of a reduction.
NumberedOnRoot(r, n) == [b \in Block |-> IF b[1] = r /\ r = 0 THEN [data[b] EXCEPT !.number = n] ELSE data[b]]

\* [mutant of Numbered] Only the first block of a rank gets it.
NumberedFirst(r, n) == [b \in Block |-> IF b = Lead(r) THEN [data[b] EXCEPT !.number = n] ELSE data[b]]

\* Set(buf) of all blocks of the rank.
Numbered(r, n) == [b \in Block |-> IF b[1] = r THEN [data[b] EXCEPT !.number = n] ELSE data[b]]

\* [mutant of Share] Vectors are scattered by the ids of blocks.
ShareById(b) == Id[b] + 1

\* The k-th block of bb gets the k-th vector of the rank.
Share(b) == b[1] * nblocks + CHOOSE i \in DOMAIN order[b[1]] : order[b[1]][i] = b[2]

Written(r, op) ==
  LET given == Matching(r) IN
  CASE op = "max" -> Numbered(r, Max(Range(given)))
    [] op = "minloc" ->
         [b \in Block |-> IF b[1] = r
            THEN [data[b] EXCEPT !.pair = LeastPair(Range(given))] ELSE data[b]]
    [] op = "concat" /\ r = 0 ->     \* to the first block of bb
         [data EXCEPT ![<<0, Head(order[0])>>].rows =
                        FlattenSeq([s \in 1 .. nranks |-> given[s - 1]])]
    [] op = "scatter" ->
         [b \in Block |-> IF b[1] = r
            THEN [data[b] EXCEPT !.row = given[0][Share(b)]] ELSE data[b]]
    [] op = "bcast" ->
         [b \in Block |-> IF b[1] = r
            THEN [data[b] EXCEPT !.object = given[0]] ELSE data[b]]
    [] OTHER -> data

Leave(r) ==
  /\ Entered(r) /\ CanLeave(r)
  /\ data' = Written(r, Head(todo[r]))
  /\ sum' = IF Head(todo[r]) = "shared" THEN [sum EXCEPT ![r] = Max(Range(Matching(r)))] ELSE sum
  /\ entered' = [entered EXCEPT ![r][Len(entered[r])].open = FALSE]
  /\ todo' = [todo EXCEPT ![r] = Tail(@)]
  /\ UNCHANGED <<setup, at, fields, order, sent, pos, gave, aborted>>

\* ReduceToLead, BcastFromLead: between the blocks of the rank.
WithinRank(r) ==
  /\ at[r] = "serve" /\ todo[r] # <<>> /\ Head(todo[r]) \in OfRank
  /\ data' = IF Head(todo[r]) = "tolead"
             THEN [data EXCEPT ![Lead(r)].list =
                     FlattenSeq([i \in DOMAIN order[r] |-> data[<<r, order[r][i]>>].list])]
             ELSE [b \in Block |-> IF b \in Blocks(r)
                     THEN [data[b] EXCEPT !.object = data[Lead(r)].object] ELSE data[b]]
  /\ todo' = [todo EXCEPT ![r] = Tail(@)]
  /\ UNCHANGED <<setup, at, fields, order, sent, entered, sum, pos, gave, aborted>>

\* Pending(bb): all blocks have more stages, or none has.
Repeat(r) ==
  /\ at[r] = "serve" /\ todo[r] = <<>>
  /\ at' = [at EXCEPT ![r] = IF \E b \in Blocks(r) : Pending(b) THEN "begin" ELSE "end"]
  /\ aborted' = (aborted \/ \E b, c \in Blocks(r) : Pending(b) /\ ~Pending(c))
  /\ UNCHANGED <<setup, fields, order, sent, todo, entered, sum, blockvars>>

Step(r) ==
  \/ Begin(r) \/ Sync(r) \/ RunAll(r) \/ RunInner(r) \/ RunHalo(r)
  \/ Collect(r) \/ Enter(r) \/ Leave(r) \/ WithinRank(r) \/ Repeat(r)

Halted == (aborted \/ \A r \in Rank : at[r] = "end") /\ UNCHANGED vars

Next == (~aborted /\ \E r \in Rank : Step(r)) \/ Halted

\* Ranks are processes of their own.
Spec == Init /\ [][Next]_vars /\ \A r \in Rank : WF_vars(~aborted /\ Step(r))

(***************************************************************************)
(* Properties.                                                              *)
(***************************************************************************)
Places == {"begin", "sync", "write", "inner", "halo", "collect", "serve", "end"}

TypeOK ==
  /\ at \in [Rank -> Places] /\ fields \in [Rank -> BOOLEAN] /\ sent \in [Rank -> Nat]
  /\ \A r \in Rank : order[r] \in Seq(Local) /\ IsInjective(order[r])
  /\ pos \in [Block -> 1 .. Len(kernel) + 1]
  /\ \A b \in Block : \A k \in DOMAIN gave[b] : gave[b][k].stage \in DOMAIN kernel

\* The ranks call the same MPI operations in the same order, blocks of a rank do not
\* drift apart, and no fassert fails: although each block decides on its own when a
\* loop ends, and ranks may be several stages apart.
InStep ==
  /\ ~aborted
  /\ \A r, s \in Rank : \A k \in DOMAIN entered[r] \cap DOMAIN entered[s] :
       entered[r][k].op = entered[s][k].op
  /\ \A b, c \in Block : \A k \in DOMAIN gave[b] \cap DOMAIN gave[c] :
       gave[b][k].stage = gave[c][k].stage

Served(r) == at[r] = "serve" /\ todo[r] = <<>>
GaveAt(b, k) == gave[b][k].data

\* Reductions and broadcasts over all blocks of all ranks, and within a rank.
ReductionsRight(b) ==
  LET r == b[1]
      k == Stages(b)
      s == Requests(b)
  IN /\ Has(s, "max") => data[b].number = Max({GaveAt(c, k).number : c \in Block})
     /\ Has(s, "minloc") =>
          /\ data[b].pair \in {GaveAt(c, k).pair : c \in Block}
          /\ \A c \in Block : data[b].pair[1] <= GaveAt(c, k).pair[1]
          /\ \A c \in Block : Served(c[1]) /\ Stages(c) = k => data[c].pair = data[b].pair
     /\ s.shared => sum[r] = Max({GaveAt(Lead(q), k).shared : q \in Rank})
     /\ s.bcast /\ ~s.fromlead => data[b].object = GaveAt(Root, k).object
     /\ s.fromlead /\ ~s.bcast => data[b].object = GaveAt(Lead(r), k).object
     /\ s.tolead /\ b = Lead(r) =>
          /\ Len(data[b].list) = nblocks
          /\ \A c \in Blocks(r) : \E i \in 1 .. nblocks : data[b].list[i] = GaveAt(c, k).list[1]

\* The root gathers one vector from every block, and a scattered one comes back to
\* its block.
RowsReturn(b) ==
  /\ Has(Requests(b), "concat") /\ b = Root =>
       /\ Len(data[b].rows) = nranks * nblocks
       /\ \A c \in Block : \E i \in DOMAIN data[b].rows :
            data[b].rows[i] = GaveAt(c, Stages(b)).rows[1]
  /\ Requests(b).scatter => data[b].row[1] = Id[b]

\* When a rank has served the requests of a stage, its blocks have what the blocks of
\* all ranks gave in that stage, even if some of them have gone on, and whatever the
\* order in which the blocks have run.
ResultsRight ==
  \A r \in Rank : Served(r) => \A b \in Blocks(r) : ReductionsRight(b) /\ RowsReturn(b)

\* Run returns on all ranks.
Terminates == <>(\A r \in Rank : at[r] = "end")
=============================================================================
