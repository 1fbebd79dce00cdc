----------------------------- MODULE HaloExchange -----------------------------
(***************************************************************************)
(* Native::TransferHalos (src/src/distr/native.ipp): the ranks exchange    *)
(* the halo cells of the fields that their kernels asked for with Comm().  *)
(*                                                                         *)
(* One exchange is four rounds, one for each stencil, for the shared mesh  *)
(* of the rank and, if a block asked for anything, four more for the       *)
(* blocks.  In every round a rank posts a receive from every rank it has   *)
(* ever received from and sends, perhaps nothing, to every rank it has     *)
(* ever sent to: the maps tmp_recv_ and tmp_send_ only grow.  All messages *)
(* have tag 0 and no barrier separates rounds or exchanges, so a rank may  *)
(* be several rounds ahead of another one; it is the order of the messages *)
(* between two ranks that keeps the rounds apart.                          *)
(*                                                                         *)
(* Between two exchanges the kernels recompute all inner cells, so that    *)
(* the value of an inner cell names the field, the component, the cell and *)
(* the exchange it was computed for.                                       *)
(***************************************************************************)
EXTENDS HaloCells, SequencesExt

CONSTANTS
  Exchanges,    \* Exchanges[e][mesh]: the requests of exchange e, sequences of
                \* [field, parts, stencil]; parts are the components to transfer
  NoData        \* the contents of a halo cell that was never received

VARIABLES
  pc,          \* post, send, wait, or aborted by the library
  exchange,    \* the exchange each rank is working on
  round,       \* the round of that exchange
  tmp_recv,    \* the ranks in tmp_recv_
  tmp_send,    \* the ranks in tmp_send_
  buf,         \* buf[r][s]: what r has received from s in this round
  chan,        \* chan[s][r]: messages on their way from s to r, the oldest first
  halo,        \* halo[r]: the contents of the halo cells
  eager        \* whether the library buffers messages

vars == <<pc, exchange, round, tmp_recv, tmp_send, buf, chan, halo, eager>>

-----------------------------------------------------------------------------
(***************************************************************************)
(* The communication tasks.  The shared mesh of a rank is one block that   *)
(* covers the subdomain.                                                   *)
(***************************************************************************)
Shared == INSTANCE HaloCells WITH
  nblocks <- [d \in Axis |-> 1], blocksize <- Times(nblocks, blocksize)

\* full_two, full_one, direct_two, direct_one: the order of the rounds.
Stencils ==
  << [halos |-> 2, full |-> TRUE],  [halos |-> 1, full |-> TRUE],
     [halos |-> 2, full |-> FALSE], [halos |-> 1, full |-> FALSE] >>

Mesh == {"shared", "blocks"}

ASSUME ExchangesAssumption ==
  /\ Len(Exchanges) \in Nat /\ DOMAIN Exchanges = 1 .. Len(Exchanges)
  /\ \A e \in DOMAIN Exchanges, mesh \in Mesh :
       LET requests == Exchanges[e][mesh]
       IN /\ Len(requests) \in Nat /\ DOMAIN requests = 1 .. Len(requests)
          /\ \A i \in DOMAIN requests : IsFiniteSet(requests[i].parts)

recv ==
  [mesh \in Mesh |-> [k \in DOMAIN Stencils |-> [r \in Rank |->
     IF mesh = "shared" THEN Shared!GetRecvCells(r, Stencils[k])
     ELSE GetRecvCells(r, Stencils[k])]]]

\* The sending end of the lists, as GetSendCells has it (module CommTasks).
Inner(mesh, r, w) ==
  [block |-> IF mesh = "shared" THEN 0 ELSE CHOOSE ib \in Block : w \in InCells[r][ib],
   cell  |-> w]

send ==
  [mesh \in Mesh |-> [k \in DOMAIN Stencils |-> [s \in Rank |->
     [r \in {q \in Rank : s \in DOMAIN recv[mesh][k][q]} |->
        [i \in DOMAIN recv[mesh][k][r][s] |->
           Inner(mesh, s, GetPeriodic(recv[mesh][k][r][s][i].cell))]]]]]

-----------------------------------------------------------------------------
(***************************************************************************)
(* Rounds 1 to 4 are those of the shared mesh, 5 to 8 those of the blocks. *)
(***************************************************************************)
MeshOf(j) == IF j <= Len(Stencils) THEN "shared" ELSE "blocks"
StencilOf(j) == 1 + ((j - 1) % Len(Stencils))

\* [mutant of LastRound] The rounds of the blocks are counted from 0.
LastRoundPlusOne(e) == 2 * Len(Stencils) + 1

LastRound(e) == IF Exchanges[e]["blocks"] = <<>> THEN Len(Stencils) ELSE 2 * Len(Stencils)

\* vcr_indices: of the requests that have not selected the stencil of the round
\* there is nothing to transfer.
Selected(e, j) ==
  LET requests == Exchanges[e][MeshOf(j)]
  IN [i \in DOMAIN requests |->
        [field |-> requests[i].field,
         parts |-> IF requests[i].stencil = Stencils[StencilOf(j)] THEN requests[i].parts ELSE {}]]

\* [mutant of nscal] Every request counts as one scalar field.
nscal_requests(e, j) == Cardinality({i \in DOMAIN Selected(e, j) : Selected(e, j)[i].parts # {}})

\* nscal: the number of scalar fields to transfer.
nscal(e, j) ==
  LET n[i \in 0 .. Len(Selected(e, j))] ==
        IF i = 0 THEN 0 ELSE n[i - 1] + Cardinality(Selected(e, j)[i].parts)
  IN n[Len(Selected(e, j))]

\* The position of every number in the buffer: by request, by cell of the list,
\* by component.
Slots(cells, e, j) ==
  FlattenSeq([i \in DOMAIN Selected(e, j) |->
    FlattenSeq([k \in DOMAIN cells |->
      [d \in 1 .. Cardinality(Selected(e, j)[i].parts) |->
         [mesh  |-> MeshOf(j), field |-> Selected(e, j)[i].field,
          part  |-> CHOOSE p \in Selected(e, j)[i].parts :
                      Cardinality({q \in Selected(e, j)[i].parts : q < p}) = d - 1,
          block |-> cells[k].block, cell |-> cells[k].cell]]])])

Cells(lists, r) == IF r \in DOMAIN lists THEN lists[r] ELSE <<>>

\* The cells of both ends of every round, computed once.
Rounds(e) == 1 .. LastRound(e)
SendSlots ==
  [e \in DOMAIN Exchanges |-> [j \in Rounds(e) |-> [r \in Rank |-> [s \in Rank |->
     Slots(Cells(send[MeshOf(j)][StencilOf(j)][r], s), e, j)]]]]
RecvSlots ==
  [e \in DOMAIN Exchanges |-> [j \in Rounds(e) |-> [r \in Rank |-> [s \in Rank |->
     Slots(Cells(recv[MeshOf(j)][StencilOf(j)][r], s), e, j)]]]]

\* The size of the receive buffer.
cnt ==
  [e \in DOMAIN Exchanges |-> [j \in Rounds(e) |-> [r \in Rank |-> [s \in Rank |->
     Len(Cells(recv[MeshOf(j)][StencilOf(j)][r], s)) * nscal(e, j)]]]]

\* The number an inner cell holds during exchange e.
Value(slot, e) ==
  [mesh |-> slot.mesh, field |-> slot.field, part |-> slot.part,
   cell |-> GetPeriodic(slot.cell), exchange |-> e]

HaloSlots(r) ==
  UNION {UNION {UNION {Range(RecvSlots[e][j][r][s]) : s \in Rank} : j \in Rounds(e)}
         : e \in DOMAIN Exchanges}

-----------------------------------------------------------------------------

Init ==
  /\ pc = [r \in Rank |-> "post"]
  /\ exchange = [r \in Rank |-> 1]
  /\ round = [r \in Rank |-> 1]
  /\ tmp_recv = [r \in Rank |-> {}]
  /\ tmp_send = [r \in Rank |-> {}]
  /\ buf = [r \in Rank |-> <<>>]
  /\ chan = [s \in Rank |-> [r \in Rank |-> <<>>]]
  /\ halo = [r \in Rank |-> [slot \in HaloSlots(r) |-> NoData]]
  /\ eager \in BOOLEAN

Working(r) == exchange[r] \in DOMAIN Exchanges

Goto(r, here, there) == pc[r] = here /\ pc' = [pc EXCEPT ![r] = there]

Task(lists, r) == DOMAIN lists[MeshOf(round[r])][StencilOf(round[r])][r]

Known(ranks, partners) == ranks \cup partners

\* Clear the buffers and MPI_Irecv from every rank of tmp_recv_.
PostReceives(r) ==
  /\ Working(r)
  /\ Goto(r, "post", "send")
  /\ tmp_recv' = [tmp_recv EXCEPT ![r] = Known(@, Task(recv, r))]
  /\ buf' = [buf EXCEPT ![r] = <<>>]
  /\ UNCHANGED <<exchange, round, tmp_send, chan, halo, eager>>

\* [mutant of Packed] The first component is sent for every component.
PackedFirstPart(r, s) ==
  LET slots == SendSlots[exchange[r]][round[r]][r][s]
  IN [k \in DOMAIN slots |-> Value([slots[k] EXCEPT !.part = 0], exchange[r])]

\* Collect the data and MPI_Isend to every rank of tmp_send_.
Packed(r, s) ==
  LET slots == SendSlots[exchange[r]][round[r]][r][s]
  IN [k \in DOMAIN slots |-> Value(slots[k], exchange[r])]

Send(r) ==
  /\ Goto(r, "send", "wait")
  /\ tmp_send' = [tmp_send EXCEPT ![r] = Known(@, Task(send, r))]
  /\ chan' = [chan EXCEPT ![r] = [s \in Rank |->
                IF s \in tmp_send'[r] THEN Append(@[s], Packed(r, s)) ELSE @[s]]]
  /\ UNCHANGED <<exchange, round, tmp_recv, buf, halo, eager>>

\* The library completes a posted receive with the oldest message; a message
\* that is longer than the buffer is an error, which ends the program.
Deliver(s, r) ==
  /\ pc[r] \in {"send", "wait"}
  /\ s \in tmp_recv[r]
  /\ s \notin DOMAIN buf[r]
  /\ chan[s][r] # <<>>
  /\ buf' = [buf EXCEPT ![r] =
               [q \in DOMAIN @ \cup {s} |-> IF q = s THEN Head(chan[s][r]) ELSE @[q]]]
  /\ chan' = [chan EXCEPT ![s][r] = Tail(@)]
  /\ pc' = IF Len(Head(chan[s][r])) > cnt[exchange[r]][round[r]][r][s]
           THEN [pc EXCEPT ![r] = "aborted"] ELSE pc
  /\ UNCHANGED <<exchange, round, tmp_recv, tmp_send, halo, eager>>

\* [mutant of Unpacked] The received cells are copied to every field.
UnpackedEverywhere(r) ==
  LET slots == RecvSlots[exchange[r]][round[r]][r]
      Hits(slot, s) == {k \in DOMAIN slots[s] : slots[s][k].cell = slot.cell
                                              /\ slots[s][k].block = slot.block}
      Sources(slot) == {s \in DOMAIN buf[r] : Hits(slot, s) # {}}
  IN [slot \in DOMAIN halo[r] |->
        IF Sources(slot) = {} THEN halo[r][slot]
        ELSE LET s == CHOOSE s \in Sources(slot) : TRUE
             IN buf[r][s][CHOOSE k \in Hits(slot, s) : TRUE]]

(***************************************************************************)
(* MPI_Wait for every send and every receive, then copy the received data  *)
(* to the fields by position.                                              *)
(***************************************************************************)
Unpacked(r) ==
  LET slots == RecvSlots[exchange[r]][round[r]][r]
      Sources(slot) == {s \in DOMAIN buf[r] : slot \in Range(slots[s])}
      At(slot, s) == CHOOSE k \in DOMAIN slots[s] : slots[s][k] = slot
  IN [slot \in DOMAIN halo[r] |->
        IF Sources(slot) = {} THEN halo[r][slot]
        ELSE LET s == CHOOSE s \in Sources(slot) : TRUE
             IN buf[r][s][At(slot, s)]]

Unpack(r) ==
  /\ Goto(r, "wait", "post")
  /\ eager \/ \A s \in Rank : chan[r][s] = <<>>
  /\ DOMAIN buf[r] = tmp_recv[r]
  /\ halo' = [halo EXCEPT ![r] = Unpacked(r)]
  /\ IF round[r] < LastRound(exchange[r])
     THEN /\ round' = [round EXCEPT ![r] = @ + 1]
          /\ UNCHANGED exchange
     ELSE /\ round' = [round EXCEPT ![r] = 1]
          /\ exchange' = [exchange EXCEPT ![r] = @ + 1]
  /\ UNCHANGED <<tmp_recv, tmp_send, buf, chan, eager>>

Halted ==
  /\ \/ \A r \in Rank : ~Working(r)
     \/ \E r \in Rank : pc[r] = "aborted"
  /\ UNCHANGED vars

Step(r) ==
  PostReceives(r) \/ Send(r) \/ (\E s \in Rank : Deliver(s, r)) \/ Unpack(r)

Next == (\E r \in Rank : Step(r)) \/ Halted

Fairness == \A r \in Rank : WF_vars(Step(r))

Spec == Init /\ [][Next]_vars /\ Fairness

-----------------------------------------------------------------------------

\* Every rank is in one round of one exchange and talks to ranks only.
TypeOK ==
  /\ pc \in [Rank -> {"post", "send", "wait", "aborted"}]
  /\ exchange \in [Rank -> 1 .. Len(Exchanges) + 1]
  /\ round \in [Rank -> 1 .. 2 * Len(Stencils)]
  /\ tmp_recv \in [Rank -> SUBSET Rank]
  /\ tmp_send \in [Rank -> SUBSET Rank]
  /\ \A r \in Rank : DOMAIN buf[r] \subseteq tmp_recv[r]

Requested(e, r) ==
  UNION {UNION {Range(RecvSlots[e][j][r][s]) : s \in Rank} : j \in Rounds(e)}

\* Between two exchanges a rank has, in every halo cell, the value that the owner of the
\* cell had when it took part in the last exchange with a request that reaches the cell;
\* exchanges with no such request leave it alone.
HalosCurrent ==
  \A r \in Rank :
    pc[r] = "post" /\ round[r] = 1 =>
      \A slot \in DOMAIN halo[r] :
        LET reached == {e \in 1 .. exchange[r] - 1 : slot \in Requested(e, r)} IN
        halo[r][slot] = IF reached = {} THEN NoData ELSE Value(slot, Max(reached))

\* All ranks finish all exchanges, buffered or not.
Terminates == <>(\A r \in Rank : ~Working(r))
=============================================================================
