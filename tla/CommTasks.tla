------------------------------ MODULE CommTasks ------------------------------
(***************************************************************************)
(* CommManager::GetTasks (src/src/distr/comm_manager.ipp): the ranks tell  *)
(* each other which cells they need, once for every stencil, before the    *)
(* first halo exchange.  A rank learns how many requests it will get from  *)
(* an MPI_Allreduce, sends its own, receives the others in any order and   *)
(* meets the others in an MPI_Barrier.                                     *)
(*                                                                         *)
(* MPI is modelled as the standard promises it: messages from one rank to  *)
(* another do not overtake each other, a receive from any source may match *)
(* the oldest message of any rank, a send is complete when its message has *)
(* been received or, if the library buffers it (eager), at once.           *)
(***************************************************************************)
EXTENDS HaloCells

CONSTANT Stencils     \* the sequence of the stencils [halos, full] of GetTasks

ASSUME StencilsAssumption ==
  /\ Len(Stencils) \in Nat \ {0} /\ DOMAIN Stencils = 1 .. Len(Stencils)
  /\ \A t \in DOMAIN Stencils : Stencils[t].halos \in Nat

VARIABLES
  pc,       \* where each rank is in GetSendCells
  task,     \* the stencil each rank is working on: index into Stencils
  entered,  \* the number of collective operations each rank has entered
  left,     \* how many requests each rank has yet to receive
  chan,     \* chan[s][r]: messages on their way from s to r, the oldest first
  send,     \* send[t][r]: the cells that r sends, by receiving rank
  eager     \* whether the library buffers messages

vars == <<pc, task, entered, left, chan, send, eager>>

Task == DOMAIN Stencils

\* recv of every task, computed before the first message is sent.
recv == [t \in Task |-> [r \in Rank |-> GetRecvCells(r, Stencils[t])]]

Init ==
  /\ pc = [r \in Rank |-> "reduce"]
  /\ task = [r \in Rank |-> 1]
  /\ entered = [r \in Rank |-> 0]
  /\ left = [r \in Rank |-> 0]
  /\ chan = [s \in Rank |-> [r \in Rank |-> <<>>]]
  /\ send = [t \in Task |-> [r \in Rank |-> <<>>]]
  /\ eager \in BOOLEAN

Goto(r, here, there) == pc[r] = here /\ pc' = [pc EXCEPT ![r] = there]

\* A rank enters a collective operation, and leaves it when all have entered.
Enter(r) == entered' = [entered EXCEPT ![r] = @ + 1]
AllEntered(r) == \A q \in Rank : entered[q] >= entered[r]

\* MPI_Allreduce of msg_count.
EnterReduce(r) ==
  /\ Goto(r, "reduce", "reducing")
  /\ Enter(r)
  /\ UNCHANGED <<task, left, chan, send, eager>>

\* [mutant of msg_count] Requests of a rank to itself are not counted.
msg_count_of_others(t, r) == Cardinality({q \in Rank \ {r} : r \in DOMAIN recv[t][q]})

\* The number of ranks that want cells of rank r.
msg_count(t, r) == Cardinality({q \in Rank : r \in DOMAIN recv[t][q]})

LeaveReduce(r) ==
  /\ Goto(r, "reducing", "send")
  /\ AllEntered(r)
  /\ left' = [left EXCEPT ![r] = msg_count(task[r], r)]
  /\ UNCHANGED <<task, entered, chan, send, eager>>

\* [mutant of Requests] Cells outside of the mesh are asked for as they are.
RequestsAsSeen(t, r) ==
  [s \in DOMAIN recv[t][r] |->
     [k \in DOMAIN recv[t][r][s] |-> recv[t][r][s][k].cell]]

\* MPI_Isend of the periodic indices of the wanted cells, to all their owners.
Requests(t, r) ==
  [s \in DOMAIN recv[t][r] |->
     [k \in DOMAIN recv[t][r][s] |-> GetPeriodic(recv[t][r][s][k].cell)]]

SendRequests(r) ==
  /\ Goto(r, "send", "receive")
  /\ LET midx == Requests(task[r], r)
     IN chan' = [chan EXCEPT ![r] = [s \in Rank |->
                   IF s \in DOMAIN midx
                   THEN Append(@[s], [task |-> task[r], cells |-> midx[s]])
                   ELSE @[s]]]
  /\ UNCHANGED <<task, entered, left, send, eager>>

\* [mutant of Answer] The cells of the last block are answered from the first.
AnswerFromFirst(r, cells) == [k \in DOMAIN cells |-> [block |-> 0, cell |-> cells[k]]]

\* The local index of every requested cell, in the order of the request.
Answer(r, cells) ==
  [k \in DOMAIN cells |->
     [block |-> CHOOSE ib \in Block : ib \in OwningBlocks(r, cells[k]),
      cell  |-> cells[k]]]

(***************************************************************************)
(* MPI_Probe from any source and MPI_Recv from the source it has found.    *)
(* The fasserts: one message per rank, and every requested cell is an      *)
(* inner cell of exactly one block.                                        *)
(***************************************************************************)
Received(t, r) == DOMAIN send[t][r]

Receive(r, s) ==
  /\ pc[r] = "receive"
  /\ left[r] > 0
  /\ chan[s][r] # <<>>
  /\ LET cells == Head(chan[s][r]).cells
         t     == task[r]
         fine  == /\ s \notin Received(t, r)
                  /\ \A k \in DOMAIN cells : Cardinality(OwningBlocks(r, cells[k])) = 1
     IN IF fine
        THEN /\ send' = [send EXCEPT ![t][r] =
                           [q \in DOMAIN @ \cup {s} |->
                              IF q = s THEN Answer(r, cells) ELSE @[q]]]
             /\ UNCHANGED pc
        ELSE /\ pc' = [pc EXCEPT ![r] = "aborted"]
             /\ UNCHANGED send
  /\ chan' = [chan EXCEPT ![s][r] = Tail(@)]
  /\ left' = [left EXCEPT ![r] = @ - 1]
  /\ UNCHANGED <<task, entered, eager>>

\* MPI_Waitall of the sends.
WaitSends(r) ==
  /\ Goto(r, "receive", "barrier")
  /\ left[r] = 0
  /\ eager \/ \A s \in Rank : chan[r][s] = <<>>
  /\ UNCHANGED <<task, entered, left, chan, send, eager>>

\* MPI_Barrier.
EnterBarrier(r) ==
  /\ Goto(r, "barrier", "leaving")
  /\ Enter(r)
  /\ UNCHANGED <<task, left, chan, send, eager>>

\* [mutant of LeaveBarrier] The task is advanced after the last one, too.
LeaveBarrierPastLast(r) ==
  /\ AllEntered(r)
  /\ Goto(r, "leaving", IF task[r] = Len(Stencils) THEN "done" ELSE "reduce")
  /\ task' = [task EXCEPT ![r] = @ + 1]
  /\ UNCHANGED <<entered, left, chan, send, eager>>

LeaveBarrier(r) ==
  /\ AllEntered(r)
  /\ IF task[r] = Len(Stencils)
     THEN Goto(r, "leaving", "done") /\ UNCHANGED task
     ELSE Goto(r, "leaving", "reduce") /\ task' = [task EXCEPT ![r] = @ + 1]
  /\ UNCHANGED <<entered, left, chan, send, eager>>

Halted ==
  /\ \/ \A r \in Rank : pc[r] = "done"
     \/ \E r \in Rank : pc[r] = "aborted"
  /\ UNCHANGED vars

Step(r) ==
  \/ EnterReduce(r) \/ LeaveReduce(r) \/ SendRequests(r)
  \/ \E s \in Rank : Receive(r, s)
  \/ WaitSends(r) \/ EnterBarrier(r) \/ LeaveBarrier(r)

Next == (\E r \in Rank : Step(r)) \/ Halted

Fairness == \A r \in Rank : WF_vars(Step(r))

Spec == Init /\ [][Next]_vars /\ Fairness

-----------------------------------------------------------------------------

\* Every rank is at one place of GetSendCells, in one task.
TypeOK ==
  /\ pc \in [Rank -> {"reduce", "reducing", "send", "receive", "barrier",
                      "leaving", "done", "aborted"}]
  /\ task \in [Rank -> Task]
  /\ entered \in [Rank -> Nat]
  /\ left \in [Rank -> Nat]
  /\ eager \in BOOLEAN

\* A rank that probes for the requests of one stencil never finds the request
\* of another stencil, although the probe takes any source and any tag.
SameTask ==
  \A s, r \in Rank : \A k \in DOMAIN chan[s][r] :
    /\ chan[s][r][k].task = task[r]
    /\ pc[r] \in {"reducing", "send", "receive"}

Finished(t, r) == pc[r] = "done" \/ task[r] > t

\* Requests of different tasks never mix, and when both ends have finished a task,
\* what s sends to r is, item by item, what r receives from s: the same cell up to
\* periodicity, in the same position.
TasksMatch ==
  /\ SameTask
  /\ \A t \in Task, r, s \in Rank :
       Finished(t, r) /\ Finished(t, s) =>
         /\ s \in DOMAIN recv[t][r] <=> r \in DOMAIN send[t][s]
         /\ s \in DOMAIN recv[t][r] =>
              /\ DOMAIN recv[t][r][s] = DOMAIN send[t][s][r]
              /\ \A k \in DOMAIN recv[t][r][s] :
                   /\ send[t][s][r][k].cell = GetPeriodic(recv[t][r][s][k].cell)
                   /\ send[t][s][r][k].cell \in InCells[s][send[t][s][r][k].block]

(***************************************************************************)
(* A reference for the lists of cells, said without the loops of           *)
(* GetRecvCells: a cell w is within reach of the cell wc.                  *)
(***************************************************************************)
Abs(k) == IF k < 0 THEN -k ELSE k

Near(w, wc, stencil) ==
  /\ \A d \in Axis : Abs(w[d] - wc[d]) <= stencil.halos
  /\ stencil.full \/ Cardinality({d \in Axis : w[d] # wc[d]}) = 1

\* The cells in and around block ib of rank r, n layers of them.
Around(r, ib, n) ==
  {Plus(Begin(r, ib), dw) : dw \in
     {v \in [Axis -> -n .. Max({blocksize[d] : d \in Axis}) + n - 1] :
        \A d \in Axis : v[d] < blocksize[d] + n}}

\* The entries of the lists of rank r for one cell: sender and position.
Entries(t, r, ib, w) ==
  UNION {{<<s, k>> : k \in {j \in DOMAIN recv[t][r][s] :
                               recv[t][r][s][j] = [block |-> ib, cell |-> w]}} :
         s \in DOMAIN recv[t][r]}

Needed(t, r, ib, w) ==
  w \notin InCells[r][ib] /\ \E wc \in InCells[r][ib] : Near(w, wc, Stencils[t])

Owners(w) == {s \in Rank : OwningBlocks(s, w) # {}}

\* One layer more than the stencil reaches, for entries that nobody needs.
Complete ==
  [t \in Task |-> [r \in Rank |->
     \A ib \in Block : \A w \in Around(r, ib, Stencils[t].halos + 1) :
       LET entries == Entries(t, r, ib, w)
       IN IF Needed(t, r, ib, w)
          THEN /\ Cardinality(entries) = 1
               /\ {e[1] : e \in entries} = Owners(GetPeriodic(w))
          ELSE entries = {}]]

\* The tasks of a rank name every cell that a block of it has within reach and
\* not in itself once, in the list of the rank that owns its periodic image.
HalosCovered == \A t \in Task, r \in Rank : Finished(t, r) => Complete[t][r]

\* All ranks get their tasks: nobody waits for ever, buffered or not, and no fassert
\* fails: no rank gets two requests from one rank, and every cell that is asked for is an
\* inner cell of exactly one block.
Terminates == <>(\A r \in Rank : pc[r] = "done")
=============================================================================
