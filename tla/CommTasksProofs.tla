--------------------------- MODULE CommTasksProofs ---------------------------
(***************************************************************************)
(* Proofs about GetTasks, for every mesh and every sequence of stencils.   *)
(***************************************************************************)
EXTENDS CommTasks, HaloCellsProofs

-----------------------------------------------------------------------------
(***************************************************************************)
(* The invariant.                                                          *)
(***************************************************************************)
\* Variables are functions of ranks.
Shapes ==
  /\ chan = [s \in Rank |-> [r \in Rank |-> chan[s][r]]]
  /\ send = [t \in Task |-> [r \in Rank |-> send[t][r]]]

\* The collective operations a rank has entered: two in a task.
Counted ==
  \A r \in Rank :
    entered[r] = CASE pc[r] = "reduce" -> 2 * task[r] - 2
                   [] pc[r] \in {"leaving", "done"} -> 2 * task[r]
                   [] OTHER -> 2 * task[r] - 1

\* A rank is ahead of another one by one operation at most, and only inside of it.
Abreast ==
  \A r, q \in Rank :
    /\ entered[q] >= entered[r] - 1
    /\ pc[r] \notin {"reducing", "leaving"} => entered[q] >= entered[r]

DoneAtLast == \A r \in Rank : pc[r] = "done" => task[r] = Len(Stencils)

\* No fassert has failed.
NoAbort == \A r \in Rank : pc[r] # "aborted"

\* Rank s wants cells of rank r, and has asked for them in this task.
Wants(t, s, r) == r \in DOMAIN recv[t][s]
Asking(t, r) == {s \in Rank : Wants(t, s, r)}
Asked(s) == pc[s] \in {"receive", "barrier", "leaving", "done", "aborted"}

\* The only message from s to r is the request of the task both are in, not yet answered.
OnTheWay ==
  \A s, r \in Rank : chan[s][r] # <<>> =>
    /\ chan[s][r] = <<[task |-> task[s], cells |-> Requests(task[s], s)[r]]>>
    /\ Asked(s) /\ Wants(task[s], s, r)
    /\ task[r] = task[s] /\ pc[r] \in {"reducing", "send", "receive"}

\* What a rank has received: all that was sent to it and is not on its way.
Arrived(t, s, r) == task[s] > t \/ (task[s] = t /\ Asked(s) /\ chan[s][r] = <<>>)

ReceivedSoFar ==
  \A t \in Task, r \in Rank : DOMAIN send[t][r] = {s \in Asking(t, r) : Arrived(t, s, r)}

Answered ==
  \A t \in Task, r \in Rank : \A s \in DOMAIN send[t][r] :
    send[t][r][s] = Answer(r, Requests(t, s)[r])

\* Nothing is received before the number of requests is known.
NotBefore ==
  \A t \in Task, r \in Rank :
    t > task[r] \/ (t = task[r] /\ pc[r] \in {"reduce", "reducing", "send"}) =>
      DOMAIN send[t][r] = {}

\* The number of requests to come.
ToCome ==
  \A r \in Rank : pc[r] \in {"send", "receive"} =>
    left[r] = Cardinality(Asking(task[r], r)) - Cardinality(DOMAIN send[task[r]][r])

\* From the barrier of a task on everything has been received.
AllReceived ==
  \A t \in Task, r \in Rank :
    t < task[r] \/ (t = task[r] /\ pc[r] \in {"barrier", "leaving", "done"}) =>
      DOMAIN send[t][r] = Asking(t, r)

IInv ==
  /\ TypeOK /\ Shapes /\ Counted /\ Abreast /\ DoneAtLast /\ NoAbort
  /\ OnTheWay /\ ReceivedSoFar /\ Answered /\ NotBefore /\ ToCome /\ AllReceived

-----------------------------------------------------------------------------
\* The tasks are numbered from 1, and there is at least one.
LEMMA Places == Len(Stencils) \in Nat \ {0} /\ Task = 1 .. Len(Stencils)
  BY StencilsAssumption DEF Task

\* Every cell that is asked for has one owner, so that no fassert fails.
LEMMA RequestedOwned ==
  ASSUME NEW t \in Task, NEW s \in Rank, NEW r \in DOMAIN recv[t][s],
         NEW k \in DOMAIN recv[t][s][r]
  PROVE  Cardinality(OwningBlocks(r, GetPeriodic(recv[t][s][r][k].cell))) = 1
  <1>1. recv[t][s] = GetRecvCells(s, Stencils[t]) /\ Stencils[t].halos \in Nat
    BY StencilsAssumption DEF recv, Task
  <1>. QED
    BY <1>1, RequestsHaveOwner

\* What Reduce sums up for a rank: the number of ranks that ask it.
LEMMA AskingFinite ==
  ASSUME NEW t \in Task, NEW r \in Rank
  PROVE  /\ IsFiniteSet(Asking(t, r)) /\ Cardinality(Asking(t, r)) \in Nat
         /\ msg_count(t, r) = Cardinality(Asking(t, r))
  BY RanksAreFinite, FS_Subset, FS_CardinalityType DEF Asking, Wants, msg_count

\* Initially nobody has entered an operation and nothing has been sent.
LEMMA InitInv == Init => IInv
  <1> SUFFICES ASSUME Init PROVE IInv
    OBVIOUS
  <1>1. TypeOK
    BY Places DEF Init, TypeOK
  <1>2. Shapes
    BY DEF Init, Shapes
  <1>3. Counted /\ Abreast /\ DoneAtLast /\ NoAbort
    BY DEF Init, Counted, Abreast, DoneAtLast, NoAbort
  <1>4. OnTheWay
    BY DEF Init, OnTheWay
  <1>5. \A t \in Task, r \in Rank : DOMAIN send[t][r] = {}
    BY DEF Init
  <1>6. ReceivedSoFar
    <2>1. \A t \in Task, r \in Rank, s \in Rank : ~Arrived(t, s, r)
      BY Places DEF Init, Arrived, Asked
    <2>. QED
      BY <1>5, <2>1 DEF ReceivedSoFar, Asking
  <1>7. Answered /\ NotBefore
    BY <1>5 DEF Answered, NotBefore
  <1>8. ToCome
    BY DEF Init, ToCome
  <1>9. AllReceived
    BY Places DEF Init, AllReceived
  <1>. QED
    BY <1>1, <1>2, <1>3, <1>4, <1>6, <1>7, <1>8, <1>9 DEF IInv

\* Steps that only change the place of a rank, and the collectives it has entered.
LEMMA EnterReduceInv ==
  ASSUME IInv, NEW r \in Rank, EnterReduce(r)
  PROVE  IInv'
  <1>1. /\ pc[r] = "reduce" /\ pc' = [pc EXCEPT ![r] = "reducing"]
        /\ entered' = [entered EXCEPT ![r] = @ + 1]
        /\ UNCHANGED <<task, left, chan, send, eager>>
    BY DEF EnterReduce, Goto, Enter
  <1>2. TypeOK'
    BY <1>1 DEF IInv, TypeOK
  <1>3. Shapes'
    BY <1>1 DEF IInv, Shapes
  <1>4. Counted'
    BY <1>1, Places DEF IInv, TypeOK, Counted
  <1>5. Abreast'
    BY <1>1 DEF IInv, TypeOK, Abreast
  <1>6. DoneAtLast' /\ NoAbort'
    BY <1>1 DEF IInv, TypeOK, DoneAtLast, NoAbort
  <1>7. OnTheWay'
    BY <1>1 DEF IInv, TypeOK, OnTheWay, Asked
  <1>8. ReceivedSoFar'
    BY <1>1 DEF IInv, TypeOK, ReceivedSoFar, Arrived, Asked
  <1>9. Answered'
    BY <1>1 DEF IInv, Answered
  <1>10. NotBefore' /\ ToCome' /\ AllReceived'
    BY <1>1 DEF IInv, TypeOK, NotBefore, ToCome, AllReceived
  <1>. QED
    BY <1>2, <1>3, <1>4, <1>5, <1>6, <1>7, <1>8, <1>9, <1>10 DEF IInv

\* The sums of Reduce are known: a rank is about to ask, and knows how often it is asked.
LEMMA LeaveReduceInv ==
  ASSUME IInv, NEW r \in Rank, LeaveReduce(r)
  PROVE  IInv'
  <1>1. /\ pc[r] = "reducing" /\ pc' = [pc EXCEPT ![r] = "send"]
        /\ \A q \in Rank : entered[q] >= entered[r]
        /\ left' = [left EXCEPT ![r] = msg_count(task[r], r)]
        /\ UNCHANGED <<task, entered, chan, send, eager>>
    BY DEF LeaveReduce, Goto, AllEntered
  <1>2. msg_count(task[r], r) \in Nat /\ msg_count(task[r], r) = Cardinality(Asking(task[r], r))
    BY AskingFinite DEF IInv, TypeOK
  <1>3. TypeOK'
    BY <1>1, <1>2 DEF IInv, TypeOK
  <1>4. Shapes'
    BY <1>1 DEF IInv, Shapes
  <1>5. Counted'
    BY <1>1, Places DEF IInv, TypeOK, Counted
  <1>6. Abreast'
    BY <1>1 DEF IInv, TypeOK, Abreast
  <1>7. DoneAtLast' /\ NoAbort'
    BY <1>1 DEF IInv, TypeOK, DoneAtLast, NoAbort
  <1>8. OnTheWay'
    BY <1>1 DEF IInv, TypeOK, OnTheWay, Asked
  <1>9. ReceivedSoFar'
    BY <1>1 DEF IInv, TypeOK, ReceivedSoFar, Arrived, Asked
  <1>10. Answered'
    BY <1>1 DEF IInv, Answered
  <1>11. NotBefore' /\ AllReceived'
    BY <1>1 DEF IInv, TypeOK, NotBefore, AllReceived
  <1>12. ToCome'
    <2>1. DOMAIN send[task[r]][r] = {}
      BY <1>1 DEF IInv, TypeOK, NotBefore
    <2>2. left'[r] = Cardinality(Asking(task[r], r)) - Cardinality(DOMAIN send[task[r]][r])
      BY <1>1, <1>2, <2>1, FS_EmptySet DEF IInv, TypeOK
    <2>. QED
      BY <1>1, <2>2 DEF IInv, TypeOK, ToCome
  <1>. QED
    BY <1>3, <1>4, <1>5, <1>6, <1>7, <1>8, <1>9, <1>10, <1>11, <1>12 DEF IInv

\* Sending the requests of a task.
LEMMA SendRequestsInv ==
  ASSUME IInv, NEW r \in Rank, SendRequests(r)
  PROVE  IInv'
  <1> PICK t \in Task : t = task[r]
    BY DEF IInv, TypeOK
  <1> DEFINE message == [s \in Rank |-> [task |-> t, cells |-> Requests(t, r)[s]]]
  <1>1. /\ pc[r] = "send" /\ pc' = [pc EXCEPT ![r] = "receive"]
        /\ UNCHANGED <<task, entered, left, send, eager>>
    BY DEF SendRequests, Goto
  <1>2. DOMAIN Requests(t, r) = DOMAIN recv[t][r]
    BY DEF Requests
  <1>3. /\ chan' = [chan EXCEPT ![r] = [s \in Rank |->
                     IF Wants(t, r, s) THEN Append(chan[r][s], message[s]) ELSE chan[r][s]]]
    BY <1>2 DEF SendRequests, Wants
  <1>4. t \in Task /\ DOMAIN chan = Rank
    BY DEF IInv, TypeOK, Shapes
  <1>5. /\ \A s, q \in Rank : s # r => chan'[s][q] = chan[s][q]
        /\ \A q \in Rank : chan'[r][q] = IF Wants(t, r, q) THEN Append(chan[r][q], message[q]) ELSE chan[r][q]
    BY <1>3, <1>4
  <1>. HIDE DEF message
  <1>6. \A q \in Rank : chan[r][q] = <<>>
    <2>1. ~Asked(r)
      BY <1>1 DEF Asked
    <2>. QED
      BY <2>1 DEF IInv, OnTheWay
  <1>7. ASSUME NEW q \in Rank
        PROVE  /\ Wants(t, r, q) => chan'[r][q] = <<message[q]>> /\ chan'[r][q] # <<>>
               /\ ~Wants(t, r, q) => chan'[r][q] = <<>>
    <2>1. Append(<<>>, message[q]) = <<message[q]>> /\ <<message[q]>> # <<>>
      OBVIOUS
    <2>. QED
      BY <1>5, <1>6, <2>1
  <1>8. TypeOK'
    BY <1>1 DEF IInv, TypeOK
  <1>9. Shapes'
    <2>1. chan' = [s \in Rank |-> chan'[s]]
      BY <1>3, <1>4
    <2>2. ASSUME NEW s \in Rank PROVE chan'[s] = [q \in Rank |-> chan'[s][q]]
      <3>1. CASE s = r
        BY <1>3, <1>4, <3>1
      <3>2. CASE s # r
        <4>1. chan'[s] = chan[s]
          BY <1>3, <1>4, <3>2
        <4>. QED
          BY <4>1 DEF IInv, Shapes
      <3>. QED
        BY <3>1, <3>2
    <2>. QED
      BY <1>1, <2>1, <2>2 DEF IInv, Shapes
  <1>10. Counted' /\ Abreast' /\ DoneAtLast' /\ NoAbort'
    BY <1>1, Places DEF IInv, TypeOK, Counted, Abreast, DoneAtLast, NoAbort
  <1>11. Asked(r)' /\ \A s \in Rank \ {r} : Asked(s)' <=> Asked(s)
    BY <1>1 DEF Asked, IInv, TypeOK
  <1>12. ~Asked(r)
    BY <1>1 DEF Asked
  <1>13. ASSUME NEW q \in Rank, Wants(t, r, q)
         PROVE  task[q] = t /\ pc[q] \in {"reducing", "send", "receive"}
    <2>1. r \notin DOMAIN send[t][q]
      <3>1. ~Arrived(t, r, q)
        BY <1>4, <1>12, Places DEF Arrived
      <3>. QED
        BY <1>4, <3>1 DEF IInv, ReceivedSoFar
    <2>2. r \in Asking(t, q)
      BY <1>13 DEF Asking
    <2>3. ~(t < task[q] \/ (t = task[q] /\ pc[q] \in {"barrier", "leaving", "done"}))
      BY <1>4, <2>1, <2>2 DEF IInv, AllReceived
    <2>4. entered[r] = 2 * t - 1 /\ entered[q] >= entered[r] /\ entered[r] >= entered[q] - 1
      BY <1>1 DEF IInv, Counted, Abreast
    <2>5. pc[q] \notin {"reducing", "leaving"} => entered[r] >= entered[q]
      BY DEF IInv, Abreast
    <2>6. /\ task[q] \in Nat /\ t \in Nat
          /\ pc[q] \in {"reduce", "reducing", "send", "receive", "barrier", "leaving", "done", "aborted"}
      BY <1>4, Places DEF IInv, TypeOK
    <2>7. entered[q] = CASE pc[q] = "reduce" -> 2 * task[q] - 2
                         [] pc[q] \in {"leaving", "done"} -> 2 * task[q]
                         [] OTHER -> 2 * task[q] - 1
      BY DEF IInv, Counted
    <2>8. pc[q] # "aborted"
      BY DEF IInv, NoAbort
    <2>. QED
      BY <2>3, <2>4, <2>5, <2>6, <2>7, <2>8
  <1>14. OnTheWay'
    <2> SUFFICES ASSUME NEW s \in Rank, NEW q \in Rank, chan'[s][q] # <<>>
                 PROVE  /\ chan'[s][q] = <<[task |-> task'[s], cells |-> Requests(task'[s], s)[q]]>>
                        /\ Asked(s)' /\ Wants(task'[s], s, q)
                        /\ task'[q] = task'[s] /\ pc'[q] \in {"reducing", "send", "receive"}
      BY DEF OnTheWay, Wants, recv
    <2>1. CASE s = r
      <3>1. Wants(t, r, q) /\ chan'[r][q] = <<message[q]>>
        BY <1>7, <2>1
      <3>. QED
        BY <1>1, <1>11, <1>13, <2>1, <3>1 DEF message, IInv, TypeOK
    <2>2. CASE s # r
      <3>1. chan[s][q] # <<>> /\ chan'[s][q] = chan[s][q]
        BY <1>5, <2>2
      <3>2. pc'[q] \in {"reducing", "send", "receive"}
        BY <1>1, <3>1 DEF IInv, TypeOK, OnTheWay
      <3>. QED
        BY <1>1, <1>11, <2>2, <3>1, <3>2 DEF IInv, OnTheWay
    <2>. QED
      BY <2>1, <2>2
  <1>15. ReceivedSoFar'
    <2>1. ASSUME NEW u \in Task, NEW q \in Rank, NEW s \in Asking(u, q)
          PROVE  Arrived(u, s, q)' <=> Arrived(u, s, q)
      <3>1. s \in Rank /\ Wants(u, s, q)
        BY DEF Asking
      <3>2. CASE s # r
        BY <1>1, <1>5, <1>11, <3>1, <3>2 DEF Arrived
      <3>3. CASE s = r
        <4>1. ~(task[r] = u /\ Asked(r)' /\ chan'[r][q] = <<>>)
          <5> SUFFICES ASSUME task[r] = u PROVE chan'[r][q] # <<>>
            OBVIOUS
          <5>1. Wants(t, r, q)
            BY <3>1, <3>3
          <5>. QED
            BY <1>7, <5>1
        <4>2. task'[r] = task[r]
          BY <1>1
        <4>. QED
          BY <1>12, <3>3, <4>1, <4>2 DEF Arrived
      <3>. QED
        BY <3>2, <3>3
    <2>2. \A u \in Task, q \in Rank : Asking(u, q)' = Asking(u, q)
      BY DEF Asking, Wants, recv
    <2>. QED
      BY <1>1, <2>1, <2>2 DEF IInv, ReceivedSoFar
  <1>16. Answered' /\ NotBefore' /\ AllReceived' /\ ToCome'
    <2>1. Answered'
      BY <1>1 DEF IInv, Answered
    <2>2. NotBefore' /\ AllReceived' /\ ToCome'
      BY <1>1 DEF IInv, TypeOK, NotBefore, AllReceived, ToCome
    <2>. QED
      BY <2>1, <2>2
  <1>. QED
    BY <1>8, <1>9, <1>10, <1>14, <1>15, <1>16 DEF IInv

\* A request is received and answered.
LEMMA ReceiveInv ==
  ASSUME IInv, NEW r \in Rank, NEW s \in Rank, Receive(r, s)
  PROVE  IInv'
  <1> PICK t \in Task : t = task[r]
    BY DEF IInv, TypeOK
  <1> DEFINE old == send[t][r]
             cells == Requests(t, s)[r]
  <1>1. pc[r] = "receive" /\ left[r] > 0 /\ chan[s][r] # <<>>
    BY DEF Receive
  <1>2. /\ chan[s][r] = <<[task |-> t, cells |-> cells]>>
        /\ Asked(s) /\ Wants(t, s, r) /\ task[s] = t
    BY <1>1 DEF IInv, OnTheWay
  <1>3. Head(chan[s][r]).cells = cells /\ Tail(chan[s][r]) = <<>>
    <2>. HIDE DEF cells
    <2>. QED
      BY <1>2
  <1>4. t \in Task /\ DOMAIN chan = Rank /\ DOMAIN chan[s] = Rank /\ DOMAIN send = Task /\ DOMAIN send[t] = Rank
    BY DEF IInv, TypeOK, Shapes
  <1>5. s \notin DOMAIN old
    <2>1. ~Arrived(t, s, r)
      BY <1>1, <1>2, <1>4, Places DEF Arrived
    <2>. QED
      BY <1>4, <2>1 DEF IInv, ReceivedSoFar
  <1>6. \A k \in DOMAIN cells : Cardinality(OwningBlocks(r, cells[k])) = 1
    <2>1. cells = [k \in DOMAIN recv[t][s][r] |-> GetPeriodic(recv[t][s][r][k].cell)]
      BY <1>2 DEF Requests, Wants
    <2>. HIDE DEF cells
    <2>. QED
      BY <1>2, <1>4, <2>1, RequestedOwned DEF Wants
  <1>7. /\ send' = [send EXCEPT ![t][r] =
                     [q \in DOMAIN old \cup {s} |-> IF q = s THEN Answer(r, cells) ELSE old[q]]]
        /\ pc' = pc
        /\ chan' = [chan EXCEPT ![s][r] = <<>>]
        /\ left' = [left EXCEPT ![r] = @ - 1]
        /\ UNCHANGED <<task, entered, eager>>
    BY <1>3, <1>4, <1>5, <1>6 DEF Receive, Received
  <1>. HIDE DEF old, cells
  <1>8. /\ chan'[s][r] = <<>>
        /\ \A q, p \in Rank : ~(q = s /\ p = r) => chan'[q][p] = chan[q][p]
    BY <1>4, <1>7
  <1>9. /\ send'[t][r] = [q \in DOMAIN old \cup {s} |-> IF q = s THEN Answer(r, cells) ELSE old[q]]
        /\ \A u \in Task, q \in Rank : ~(u = t /\ q = r) => send'[u][q] = send[u][q]
    BY <1>4, <1>7
  <1>10. TypeOK'
    BY <1>1, <1>7 DEF IInv, TypeOK
  <1>11. Shapes'
    <2>1. chan' = [q \in Rank |-> [p \in Rank |-> chan'[q][p]]]
      BY <1>4, <1>7 DEF IInv, Shapes
    <2>2. send' = [u \in Task |-> [q \in Rank |-> send'[u][q]]]
      BY <1>4, <1>7 DEF IInv, Shapes
    <2>. QED
      BY <2>1, <2>2 DEF Shapes
  <1>12. Counted' /\ Abreast' /\ DoneAtLast' /\ NoAbort'
    BY <1>7 DEF IInv, Counted, Abreast, DoneAtLast, NoAbort
  <1>13. OnTheWay'
    BY <1>7, <1>8 DEF IInv, OnTheWay, Asked, Wants, recv
  <1>14. ReceivedSoFar'
    <2>1. \A u \in Task, q \in Rank : Asking(u, q)' = Asking(u, q)
      BY DEF Asking, Wants, recv
    <2>2. ASSUME NEW u \in Task, NEW q \in Rank, ~(u = t /\ q = r), NEW p \in Asking(u, q)
          PROVE  Arrived(u, p, q)' <=> Arrived(u, p, q)
      <3>1. p \in Rank
        BY DEF Asking
      <3>2. CASE p = s /\ q = r
        BY <1>2, <1>7, <2>2, <3>2 DEF Arrived
      <3>3. CASE ~(p = s /\ q = r)
        BY <1>7, <1>8, <3>1, <3>3 DEF Arrived, Asked
      <3>. QED
        BY <3>2, <3>3
    <2>3. ASSUME NEW p \in Asking(t, r)
          PROVE  Arrived(t, p, r)' <=> (Arrived(t, p, r) \/ p = s)
      <3>1. p \in Rank
        BY DEF Asking
      <3>. QED
        BY <1>2, <1>7, <1>8, <3>1 DEF Arrived, Asked
    <2>4. s \in Asking(t, r)
      BY <1>2 DEF Asking
    <2>5. DOMAIN old = {p \in Asking(t, r) : Arrived(t, p, r)}
      BY <1>4 DEF IInv, ReceivedSoFar, old
    <2>6. DOMAIN send'[t][r] = {p \in Asking(t, r) : Arrived(t, p, r)'}
      BY <1>9, <2>3, <2>4, <2>5
    <2>7. ASSUME NEW u \in Task, NEW q \in Rank, ~(u = t /\ q = r)
          PROVE  DOMAIN send'[u][q] = {p \in Asking(u, q) : Arrived(u, p, q)'}
      BY <1>9, <2>2, <2>7 DEF IInv, ReceivedSoFar
    <2>8. ASSUME NEW u \in Task, NEW q \in Rank
          PROVE  DOMAIN send'[u][q] = {p \in Asking(u, q)' : Arrived(u, p, q)'}
      <3>1. CASE u = t /\ q = r
        BY <2>1, <2>6, <3>1
      <3>2. CASE ~(u = t /\ q = r)
        BY <2>1, <2>7, <3>2
      <3>. QED
        BY <3>1, <3>2
    <2>. QED
      BY <2>8 DEF ReceivedSoFar
  <1>15. Answered'
    <2>1. ASSUME NEW u \in Task, NEW q \in Rank, NEW p \in DOMAIN send'[u][q]
          PROVE  send'[u][q][p] = Answer(q, Requests(u, p)[q])
      <3>1. CASE u = t /\ q = r
        BY <1>4, <1>9, <3>1 DEF IInv, Answered, old, cells
      <3>2. CASE ~(u = t /\ q = r)
        BY <1>9, <3>2 DEF IInv, Answered
      <3>. QED
        BY <3>1, <3>2
    <2>. QED
      BY <2>1 DEF Answered, Answer, Requests, recv
  <1>16. NotBefore'
    <2>1. ASSUME NEW u \in Task, NEW q \in Rank,
                 u > task[q] \/ (u = task[q] /\ pc[q] \in {"reduce", "reducing", "send"})
          PROVE  DOMAIN send'[u][q] = {}
      <3>1. ~(u = t /\ q = r)
        BY <1>1, <1>4, <2>1, Places
      <3>. QED
        BY <1>9, <2>1, <3>1 DEF IInv, NotBefore
    <2>. QED
      BY <1>7, <2>1 DEF NotBefore
  <1>17. AllReceived'
    <2>1. \A u \in Task, q \in Rank : Asking(u, q)' = Asking(u, q)
      BY DEF Asking, Wants, recv
    <2>2. t \in Nat
      BY <1>4, Places
    <2>. QED
      BY <1>1, <1>7, <1>9, <2>1, <2>2 DEF IInv, AllReceived
  <1>18. ToCome'
    <2>1. IsFiniteSet(DOMAIN old) /\ Cardinality(DOMAIN old) \in Nat
      <3>1. DOMAIN old \subseteq Rank
        BY <1>4 DEF IInv, ReceivedSoFar, old, Asking
      <3>. QED
        BY <3>1, RanksAreFinite, FS_Subset, FS_CardinalityType
    <2>2. Cardinality(DOMAIN send'[t][r]) = Cardinality(DOMAIN old) + 1
      BY <1>5, <1>9, <2>1, FS_AddElement DEF old
    <2>3. left[r] = Cardinality(Asking(t, r)) - Cardinality(DOMAIN old)
      BY <1>1 DEF IInv, ToCome, old
    <2>4. left'[r] = left[r] - 1 /\ left[r] \in Nat /\ Cardinality(Asking(t, r)) \in Nat
      BY <1>4, <1>7, AskingFinite DEF IInv, TypeOK
    <2>5. left'[r] = Cardinality(Asking(t, r)) - Cardinality(DOMAIN send'[t][r])
      BY <2>1, <2>2, <2>3, <2>4
    <2>6. \A q \in Rank \ {r} : left'[q] = left[q] /\ send'[task[q]][q] = send[task[q]][q]
      BY <1>7, <1>9 DEF IInv, TypeOK
    <2>7. \A u \in Task, q \in Rank : Asking(u, q)' = Asking(u, q)
      BY DEF Asking, Wants, recv
    <2>. QED
      BY <1>7, <2>5, <2>6, <2>7 DEF IInv, TypeOK, ToCome
  <1>. QED
    BY <1>10, <1>11, <1>12, <1>13, <1>14, <1>15, <1>16, <1>17, <1>18 DEF IInv

\* A rank that waits for no more requests has got all that exist.
LEMMA WaitSendsInv ==
  ASSUME IInv, NEW r \in Rank, WaitSends(r)
  PROVE  IInv'
  <1>1. /\ pc[r] = "receive" /\ pc' = [pc EXCEPT ![r] = "barrier"] /\ left[r] = 0
        /\ UNCHANGED <<task, entered, left, chan, send, eager>>
    BY DEF WaitSends, Goto
  <1>2. DOMAIN send[task[r]][r] = Asking(task[r], r)
    <2>1. task[r] \in Task
      BY DEF IInv, TypeOK
    <2>2. DOMAIN send[task[r]][r] \in SUBSET Asking(task[r], r)
      BY <2>1 DEF IInv, ReceivedSoFar
    <2>3. IsFiniteSet(Asking(task[r], r)) /\ Cardinality(Asking(task[r], r)) \in Nat
      BY <2>1, AskingFinite
    <2>4. Cardinality(DOMAIN send[task[r]][r]) \in Nat
      BY <2>2, <2>3, FS_Subset, FS_CardinalityType
    <2>5. 0 = Cardinality(Asking(task[r], r)) - Cardinality(DOMAIN send[task[r]][r])
      BY <1>1 DEF IInv, ToCome
    <2>. QED
      BY <2>2, <2>3, <2>4, <2>5, FS_Subset
  <1>3. TypeOK' /\ Shapes'
    BY <1>1 DEF IInv, TypeOK, Shapes
  <1>4. Counted' /\ Abreast' /\ DoneAtLast' /\ NoAbort'
    BY <1>1, Places DEF IInv, TypeOK, Counted, Abreast, DoneAtLast, NoAbort
  <1>5. \A s \in Rank : Asked(s)' <=> Asked(s)
    BY <1>1 DEF IInv, TypeOK, Asked
  <1>6. OnTheWay'
    <2> SUFFICES ASSUME NEW s \in Rank, NEW q \in Rank, chan[s][q] # <<>>
                 PROVE  /\ chan[s][q] = <<[task |-> task[s], cells |-> Requests(task[s], s)[q]]>>
                        /\ Asked(s)' /\ Wants(task[s], s, q)
                        /\ task[q] = task[s] /\ pc'[q] \in {"reducing", "send", "receive"}
      BY <1>1 DEF OnTheWay, Wants, recv
    <2>1. /\ chan[s][q] = <<[task |-> task[s], cells |-> Requests(task[s], s)[q]]>>
          /\ Asked(s) /\ Wants(task[s], s, q)
          /\ task[q] = task[s] /\ pc[q] \in {"reducing", "send", "receive"}
      BY DEF IInv, OnTheWay
    <2>2. q # r
      <3> SUFFICES ASSUME q = r PROVE FALSE
        OBVIOUS
      <3>1. s \in DOMAIN send[task[r]][r]
        BY <1>2, <2>1 DEF Asking
      <3>2. Arrived(task[r], s, r)
        BY <3>1 DEF IInv, TypeOK, ReceivedSoFar
      <3>. QED
        BY <2>1, <3>2, Places DEF IInv, TypeOK, Arrived
    <2>. QED
      BY <1>1, <1>5, <2>1, <2>2 DEF IInv, TypeOK
  <1>7. ReceivedSoFar'
    BY <1>1, <1>5 DEF IInv, ReceivedSoFar, Arrived, Asking, Wants, recv
  <1>8. Answered'
    BY <1>1 DEF IInv, Answered
  <1>9. NotBefore' /\ ToCome' /\ AllReceived'
    <2>1. NotBefore' /\ ToCome'
      BY <1>1 DEF IInv, TypeOK, NotBefore, ToCome
    <2>2. AllReceived'
      BY <1>1, <1>2 DEF IInv, TypeOK, AllReceived
    <2>. QED
      BY <2>1, <2>2
  <1>. QED
    BY <1>3, <1>4, <1>6, <1>7, <1>8, <1>9 DEF IInv

\* A rank that has received all its requests enters the barrier.
LEMMA EnterBarrierInv ==
  ASSUME IInv, NEW r \in Rank, EnterBarrier(r)
  PROVE  IInv'
  <1>1. /\ pc[r] = "barrier" /\ pc' = [pc EXCEPT ![r] = "leaving"]
        /\ entered' = [entered EXCEPT ![r] = @ + 1]
        /\ UNCHANGED <<task, left, chan, send, eager>>
    BY DEF EnterBarrier, Goto, Enter
  <1>2. TypeOK' /\ Shapes'
    BY <1>1 DEF IInv, TypeOK, Shapes
  <1>3. Counted'
    BY <1>1, Places DEF IInv, TypeOK, Counted
  <1>4. Abreast'
    BY <1>1 DEF IInv, TypeOK, Abreast
  <1>5. DoneAtLast' /\ NoAbort'
    BY <1>1 DEF IInv, TypeOK, DoneAtLast, NoAbort
  <1>6. OnTheWay'
    BY <1>1 DEF IInv, TypeOK, OnTheWay, Asked
  <1>7. ReceivedSoFar'
    BY <1>1 DEF IInv, TypeOK, ReceivedSoFar, Arrived, Asked
  <1>8. Answered'
    BY <1>1 DEF IInv, Answered
  <1>9. NotBefore' /\ ToCome' /\ AllReceived'
    BY <1>1 DEF IInv, TypeOK, NotBefore, ToCome, AllReceived
  <1>. QED
    BY <1>2, <1>3, <1>4, <1>5, <1>6, <1>7, <1>8, <1>9 DEF IInv

\* When a rank leaves the barrier, all its requests have been received.
LEMMA LeaveBarrierInv ==
  ASSUME IInv, NEW r \in Rank, LeaveBarrier(r)
  PROVE  IInv'
  <1> PICK t \in Task : t = task[r]
    BY DEF IInv, TypeOK
  <1>1. /\ \A q \in Rank : entered[q] >= entered[r]
        /\ pc[r] = "leaving"
        /\ UNCHANGED <<entered, left, chan, send, eager>>
    BY DEF LeaveBarrier, AllEntered, Goto
  <1>2. \/ t = Len(Stencils) /\ pc' = [pc EXCEPT ![r] = "done"] /\ task' = task
        \/ t # Len(Stencils) /\ pc' = [pc EXCEPT ![r] = "reduce"] /\ task' = [task EXCEPT ![r] = t + 1]
    BY DEF LeaveBarrier, Goto
  <1>3. /\ t \in Nat /\ task'[r] \in Task /\ task'[r] \in {t, t + 1} /\ pc'[r] \in {"done", "reduce"}
        /\ pc'[r] = "done" <=> task'[r] = t
        /\ task' = [task EXCEPT ![r] = task'[r]] /\ pc' = [pc EXCEPT ![r] = pc'[r]]
        /\ pc'[r] = "done" => t = Len(Stencils)
    <2>1. pc \in [Rank -> {"reduce", "reducing", "send", "receive", "barrier", "leaving", "done", "aborted"}]
          /\ task \in [Rank -> Task] /\ t \in 1 .. Len(Stencils)
      BY Places DEF IInv, TypeOK
    <2>2. CASE t = Len(Stencils)
      <3>1. pc'[r] = "done" /\ task'[r] = t /\ task' = [task EXCEPT ![r] = t]
        BY <1>2, <2>1, <2>2
      <3>. QED
        BY <1>2, <2>1, <2>2, <3>1, Places
    <2>3. CASE t # Len(Stencils)
      <3>1. pc'[r] = "reduce" /\ task'[r] = t + 1
        BY <1>2, <2>1, <2>3
      <3>2. t + 1 \in Task /\ t \in Nat
        BY <2>1, <2>3, Places
      <3>. QED
        BY <1>2, <2>3, <3>1, <3>2
    <2>. QED
      BY <2>2, <2>3
  <1>4. \A q \in Rank \ {r} : pc'[q] = pc[q] /\ task'[q] = task[q]
    BY <1>3 DEF IInv, TypeOK
  <1>5. ASSUME NEW q \in Rank PROVE chan[r][q] = <<>> /\ chan[q][r] = <<>>
    <2>1. chan[q][r] = <<>>
      BY <1>1 DEF IInv, OnTheWay
    <2>2. chan[r][q] = <<>>
      <3> SUFFICES ASSUME chan[r][q] # <<>> PROVE FALSE
        OBVIOUS
      <3>1. task[q] = t /\ pc[q] \in {"reducing", "send", "receive"}
        BY DEF IInv, OnTheWay
      <3>2. entered[q] = 2 * t - 1 /\ entered[r] = 2 * t
        BY <1>1, <3>1 DEF IInv, Counted
      <3>. QED
        BY <1>1, <1>3, <3>2
    <2>. QED
      BY <2>1, <2>2
  <1>6. TypeOK'
    BY <1>1, <1>3 DEF IInv, TypeOK
  <1>7. Shapes'
    BY <1>1 DEF IInv, Shapes
  <1>8. Counted'
    <2>1. entered'[r] = 2 * t
      BY <1>1 DEF IInv, Counted
    <2>2. \A q \in Rank \ {r} : entered'[q] = entered[q] /\ pc'[q] = pc[q] /\ task'[q] = task[q]
      BY <1>1, <1>4
    <2>3. entered'[r] = CASE pc'[r] = "reduce" -> 2 * task'[r] - 2
                          [] pc'[r] \in {"leaving", "done"} -> 2 * task'[r]
                          [] OTHER -> 2 * task'[r] - 1
      BY <1>3, <2>1
    <2>. QED
      BY <2>2, <2>3 DEF IInv, Counted
  <1>9. Abreast'
    BY <1>1, <1>3, <1>4 DEF IInv, TypeOK, Abreast
  <1>10. DoneAtLast' /\ NoAbort'
    BY <1>3, <1>4 DEF IInv, DoneAtLast, NoAbort
  <1>11. OnTheWay'
    <2> SUFFICES ASSUME NEW s \in Rank, NEW q \in Rank, chan[s][q] # <<>>
                 PROVE  /\ chan[s][q] = <<[task |-> task'[s], cells |-> Requests(task'[s], s)[q]]>>
                        /\ Asked(s)' /\ Wants(task'[s], s, q)
                        /\ task'[q] = task'[s] /\ pc'[q] \in {"reducing", "send", "receive"}
      BY <1>1 DEF OnTheWay, Wants, recv
    <2>1. s # r /\ q # r
      BY <1>5
    <2>. QED
      BY <1>4, <2>1 DEF IInv, OnTheWay, Asked
  <1>12. ReceivedSoFar'
    <2>1. ASSUME NEW u \in Task, NEW q \in Rank, NEW s \in Rank
          PROVE  Arrived(u, s, q)' <=> Arrived(u, s, q)
      <3>1. CASE s # r
        BY <1>1, <1>4, <3>1 DEF Arrived, Asked
      <3>2. CASE s = r
        <4>1. Arrived(u, r, q) <=> t >= u
          BY <1>1, <1>3, <1>5, Places DEF Arrived, Asked
        <4>2. Arrived(u, r, q)' <=> t >= u
          <5>1. CASE pc'[r] = "done"
            BY <1>1, <1>3, <1>5, <5>1, Places DEF Arrived, Asked
          <5>2. CASE pc'[r] = "reduce"
            BY <1>1, <1>3, <1>5, <5>2, Places DEF Arrived, Asked
          <5>. QED
            BY <1>3, <5>1, <5>2
        <4>. QED
          BY <3>2, <4>1, <4>2
      <3>. QED
        BY <3>1, <3>2
    <2>2. \A u \in Task, q \in Rank : Asking(u, q)' = Asking(u, q) /\ Asking(u, q) \subseteq Rank
      BY DEF Asking, Wants, recv
    <2>. QED
      BY <1>1, <2>1, <2>2 DEF IInv, ReceivedSoFar
  <1>13. Answered'
    BY <1>1 DEF IInv, Answered
  <1>14. NotBefore'
    <2>1. ASSUME NEW u \in Task, NEW q \in Rank,
                 u > task'[q] \/ (u = task'[q] /\ pc'[q] \in {"reduce", "reducing", "send"})
          PROVE  DOMAIN send[u][q] = {}
      <3>1. CASE q # r
        BY <1>4, <2>1, <3>1 DEF IInv, NotBefore
      <3>2. CASE q = r
        <4>1. u > t
          BY <1>3, <2>1, <3>2, Places
        <4>. QED
          BY <3>2, <4>1 DEF IInv, NotBefore
      <3>. QED
        BY <3>1, <3>2
    <2>. QED
      BY <1>1, <2>1 DEF NotBefore
  <1>15. ToCome'
    <2>1. \A u \in Task, q \in Rank : Asking(u, q)' = Asking(u, q)
      BY DEF Asking, Wants, recv
    <2>2. \A q \in Rank : pc'[q] \in {"send", "receive"} => q # r
      BY <1>3
    <2>. QED
      BY <1>1, <1>4, <2>1, <2>2 DEF IInv, TypeOK, ToCome
  <1>16. AllReceived'
    <2>1. ASSUME NEW u \in Task, NEW q \in Rank,
                 u < task'[q] \/ (u = task'[q] /\ pc'[q] \in {"barrier", "leaving", "done"})
          PROVE  DOMAIN send[u][q] = Asking(u, q)
      <3>1. CASE q # r
        BY <1>4, <2>1, <3>1 DEF IInv, AllReceived
      <3>2. CASE q = r
        <4>1. u < t \/ u = t
          BY <1>3, <2>1, <3>2, Places
        <4>. QED
          BY <1>1, <3>2, <4>1 DEF IInv, AllReceived
      <3>. QED
        BY <3>1, <3>2
    <2>. QED
      BY <1>1, <2>1 DEF AllReceived, Asking, Wants, recv
  <1>. QED
    BY <1>6, <1>7, <1>8, <1>9, <1>10, <1>11, <1>12, <1>13, <1>14, <1>15, <1>16 DEF IInv

-----------------------------------------------------------------------------
\* A step that changes no variable preserves the invariant.
LEMMA StutterInv ==
  ASSUME IInv, UNCHANGED vars
  PROVE  IInv'
  <1>1. UNCHANGED <<pc, task, entered, left, chan, send, eager>>
    BY DEF vars
  <1>2. TypeOK' /\ Shapes' /\ Counted' /\ Abreast' /\ DoneAtLast' /\ NoAbort'
    BY <1>1 DEF IInv, TypeOK, Shapes, Counted, Abreast, DoneAtLast, NoAbort
  <1>3. OnTheWay' /\ ReceivedSoFar'
    BY <1>1 DEF IInv, OnTheWay, ReceivedSoFar, Arrived, Asked
  <1>4. Answered'
    BY <1>1 DEF IInv, Answered
  <1>5. NotBefore' /\ ToCome' /\ AllReceived'
    BY <1>1 DEF IInv, NotBefore, ToCome, AllReceived
  <1>. QED
    BY <1>2, <1>3, <1>4, <1>5 DEF IInv

\* The invariant holds in every state of GetTasks.
THEOREM Invariant == Spec => []IInv
  <1>1. Init => IInv
    BY InitInv
  <1>2. IInv /\ [Next]_vars => IInv'
    <2> SUFFICES ASSUME IInv, [Next]_vars PROVE IInv'
      OBVIOUS
    <2>1. CASE UNCHANGED vars
      BY <2>1, StutterInv
    <2>2. ASSUME NEW r \in Rank, Step(r) PROVE IInv'
      BY <2>2, EnterReduceInv, LeaveReduceInv, SendRequestsInv, ReceiveInv, WaitSendsInv,
         EnterBarrierInv, LeaveBarrierInv DEF Step
    <2>3. CASE Halted
      BY <2>3, StutterInv DEF Halted
    <2>. QED
      BY <2>1, <2>2, <2>3 DEF Next
  <1>. QED
    BY <1>1, <1>2, PTL DEF Spec

\* Every rank is at one place of one task.
THEOREM TypeCorrect == Spec => []TypeOK
  <1>1. IInv => TypeOK
    BY DEF IInv
  <1>. QED
    BY <1>1, Invariant, PTL

\* No rank fails an assertion: nobody asks twice, and every requested cell has one owner.
THEOREM FassertsHold == Spec => []NoAbort
  <1>1. IInv => NoAbort
    BY DEF IInv
  <1>. QED
    BY <1>1, Invariant, PTL

\* The lists of two ranks that have finished a task match, item by item.
THEOREM ListsMatch == Spec => []TasksMatch
  <1>1. IInv => TasksMatch
    <2> SUFFICES ASSUME IInv PROVE TasksMatch
      OBVIOUS
    <2>1. SameTask
      <3> SUFFICES ASSUME NEW s \in Rank, NEW r \in Rank, NEW k \in DOMAIN chan[s][r]
                   PROVE  /\ chan[s][r][k].task = task[r]
                          /\ pc[r] \in {"reducing", "send", "receive"}
        BY DEF SameTask
      <3>1. chan[s][r] # <<>>
        OBVIOUS
      <3>2. /\ chan[s][r] = <<[task |-> task[s], cells |-> Requests(task[s], s)[r]]>>
            /\ task[r] = task[s] /\ pc[r] \in {"reducing", "send", "receive"}
        BY <3>1 DEF IInv, OnTheWay
      <3>3. k = 1
        BY <3>2
      <3>. QED
        BY <3>2, <3>3
    <2>2. ASSUME NEW t \in Task, NEW r \in Rank, NEW s \in Rank, Finished(t, r), Finished(t, s)
          PROVE  /\ s \in DOMAIN recv[t][r] <=> r \in DOMAIN send[t][s]
                 /\ s \in DOMAIN recv[t][r] =>
                      /\ DOMAIN recv[t][r][s] = DOMAIN send[t][s][r]
                      /\ \A k \in DOMAIN recv[t][r][s] :
                           /\ send[t][s][r][k].cell = GetPeriodic(recv[t][r][s][k].cell)
                           /\ send[t][s][r][k].cell \in InCells[s][send[t][s][r][k].block]
      <3>1. DOMAIN send[t][s] = Asking(t, s)
        BY <2>2, Places DEF IInv, TypeOK, DoneAtLast, AllReceived, Finished
      <3>2. s \in DOMAIN recv[t][r] <=> r \in DOMAIN send[t][s]
        BY <3>1 DEF Asking, Wants
      <3>3. ASSUME s \in DOMAIN recv[t][r]
            PROVE  /\ DOMAIN recv[t][r][s] = DOMAIN send[t][s][r]
                   /\ \A k \in DOMAIN recv[t][r][s] :
                        /\ send[t][s][r][k].cell = GetPeriodic(recv[t][r][s][k].cell)
                        /\ send[t][s][r][k].cell \in InCells[s][send[t][s][r][k].block]
        <4> DEFINE asked == Requests(t, r)[s]
        <4>1. asked = [k \in DOMAIN recv[t][r][s] |-> GetPeriodic(recv[t][r][s][k].cell)]
          BY <3>3 DEF Requests
        <4>2. send[t][s][r] = Answer(s, asked)
          BY <3>2, <3>3 DEF IInv, Answered
        <4>3. ASSUME NEW k \in DOMAIN recv[t][r][s]
              PROVE  /\ send[t][s][r][k].cell = GetPeriodic(recv[t][r][s][k].cell)
                     /\ send[t][s][r][k].cell \in InCells[s][send[t][s][r][k].block]
          <5> DEFINE w == GetPeriodic(recv[t][r][s][k].cell)
          <5>1. Cardinality(OwningBlocks(s, w)) = 1
            BY <3>3, RequestedOwned
          <5>2. \E ib \in Block : ib \in OwningBlocks(s, w)
            <6>1. OwningBlocks(s, w) # {}
              <7>. HIDE DEF w
              <7>1. Cardinality({}) = 0
                BY FS_EmptySet
              <7>. QED
                BY <5>1, <7>1
            <6>. QED
              BY <6>1 DEF OwningBlocks
          <5>3. send[t][s][r][k] =
                  [block |-> CHOOSE ib \in Block : ib \in OwningBlocks(s, w), cell |-> w]
            <6>1. k \in DOMAIN asked /\ asked[k] = w
              BY <4>1
            <6>. HIDE DEF asked, w
            <6>. QED
              BY <4>2, <6>1 DEF Answer
          <5>. HIDE DEF w
          <5>4. send[t][s][r][k].block \in OwningBlocks(s, w) /\ send[t][s][r][k].cell = w
            BY <5>2, <5>3
          <5>. QED
            BY <5>4 DEF OwningBlocks, w
        <4>. QED
          <5>1. DOMAIN asked = DOMAIN recv[t][r][s]
            BY <4>1
          <5>2. DOMAIN send[t][s][r] = DOMAIN asked
            BY <4>2 DEF Answer
          <5>. QED
            BY <4>3, <5>1, <5>2
      <3>. QED
        BY <3>2, <3>3
    <2>. QED
      BY <2>1, <2>2 DEF TasksMatch
  <1>. QED
    BY <1>1, Invariant, PTL

-----------------------------------------------------------------------------
(***************************************************************************)
(* The tasks cover the halos.                                              *)
(***************************************************************************)
\* Only the rank that cell_to_rank names has a cell of the mesh among its inner cells.
LEMMA OwnerUnique ==
  ASSUME NEW w, OfMesh(w), NEW s \in Rank, OwningBlocks(s, w) # {}
  PROVE  s = cell_to_rank(w)
  <1> DEFINE p == Divide(Divide(w, blocksize), nblocks)
             b == [d \in Axis |-> (w[d] \div blocksize[d]) % nblocks[d]]
             v == [d \in Axis |-> w[d] % blocksize[d]]
             q == ProcOf(s)
  <1>1. /\ p \in Box(nprocs) /\ b \in Box(nblocks) /\ v \in Box(blocksize)
        /\ w = Plus(Times(Plus(Times(nblocks, p), b), blocksize), v)
    BY CellHasPlace
  <1>2. cell_to_rank(w) = RowMajor(p, nprocs)
    BY DEF cell_to_rank
  <1>3. q \in Box(nprocs) /\ RowMajor(q, nprocs) = s
    <2>1. \E x \in Box(nprocs) : RowMajor(x, nprocs) = s
      BY RowMajorNumbers, SizesArePositive DEF Rank
    <2>. QED
      BY <2>1 DEF ProcOf
  <1>4. PICK ib \in Block : w \in InCells[s][ib]
    BY DEF OwningBlocks
  <1>5. PICK u \in Box(blocksize) :
          w = Plus(Times(Plus(Times(nblocks, q), BlockOf(ib)), blocksize), u)
    BY <1>4 DEF InCells, Begin
  <1> DEFINE c == BlockOf(ib)
  <1>6. c \in Box(nblocks)
    BY BlockOfIs
  <1>7. w = Plus(Times(Plus(Times(nblocks, q), c), blocksize), u)
    BY <1>5
  <1>. HIDE DEF p, b, v, q, c
  <1>8. /\ Within(u, blocksize) /\ Within(v, blocksize) /\ Within(b, nblocks)
        /\ Within(c, nblocks) /\ Within(p, nprocs) /\ Within(q, nprocs)
        /\ p \in [Axis -> Nat] /\ q \in [Axis -> Nat]
    BY <1>1, <1>3, <1>6, BoxIs, SizesArePositive
  <1>9. ASSUME NEW d \in Axis PROVE p[d] = q[d]
    <2>1. w[d] = (nblocks[d] * p[d] + b[d]) * blocksize[d] + v[d]
      BY <1>1 DEF Plus, Times
    <2>2. w[d] = (nblocks[d] * q[d] + c[d]) * blocksize[d] + u[d]
      BY <1>7 DEF Plus, Times
    <2>3. /\ nblocks[d] \in Nat \ {0} /\ blocksize[d] \in Nat \ {0} /\ p[d] \in Nat /\ q[d] \in Nat
          /\ b[d] \in Nat /\ c[d] \in Nat /\ u[d] \in Nat /\ v[d] \in Nat
          /\ u[d] < blocksize[d] /\ v[d] < blocksize[d] /\ b[d] < nblocks[d] /\ c[d] < nblocks[d]
      BY <1>8, SizesArePositive DEF Within, Sized
    <2> DEFINE m == nblocks[d]
               l == blocksize[d]
               x == m * p[d] + b[d]
               y == m * q[d] + c[d]
    <2>4. m * p[d] \in Nat /\ m * q[d] \in Nat
      BY <2>3
    <2>5. x \in Nat /\ y \in Nat /\ l \in Nat \ {0} /\ v[d] + x * l = u[d] + y * l
      <3>1. x \in Nat /\ y \in Nat /\ l \in Nat \ {0}
        BY <2>3, <2>4
      <3>2. x * l + v[d] = y * l + u[d]
        BY <2>1, <2>2
      <3>. HIDE DEF x, y, l
      <3>3. x * l \in Nat /\ y * l \in Nat
        BY <3>1
      <3>. QED
        BY <2>3, <3>1, <3>2, <3>3
    <2>6. v[d] < l /\ u[d] < l
      BY <2>3
    <2>. HIDE DEF l, x, y
    <2>7. x = y
      BY <2>3, <2>5, <2>6, DigitUnique
    <2>8. b[d] + p[d] * m = c[d] + q[d] * m
      <3>1. m * p[d] = p[d] * m /\ m * q[d] = q[d] * m
        BY <2>3
      <3>2. m * p[d] + b[d] = m * q[d] + c[d]
        BY <2>7 DEF x, y
      <3>. HIDE DEF m
      <3>. QED
        BY <2>3, <2>4, <3>1, <3>2
    <2>9. m \in Nat \ {0} /\ b[d] < m /\ c[d] < m
      BY <2>3
    <2> DEFINE bd == b[d]
               cd == c[d]
               pd == p[d]
               qd == q[d]
    <2>10. /\ bd \in Nat /\ cd \in Nat /\ pd \in Nat /\ qd \in Nat /\ m \in Nat \ {0}
           /\ bd < m /\ cd < m /\ bd + pd * m = cd + qd * m
      BY <2>3, <2>8, <2>9
    <2>. HIDE DEF m, bd, cd, pd, qd
    <2>11. pd = qd
      BY <2>10, DigitUnique
    <2>. QED
      BY <2>11 DEF pd, qd
  <1>10. p = q
    BY <1>8, <1>9
  <1>. QED
    BY <1>2, <1>3, <1>10

\* A block needs the cells that it sees.
LEMMA NeededIsSeen ==
  ASSUME NEW t \in Task, NEW r \in Rank, NEW ib \in Block, NEW w \in [Axis -> Int]
  PROVE  Needed(t, r, ib, w) <=> [block |-> ib, cell |-> w] \in RecvSet(r, Stencils[t])
  <1> DEFINE stencil == Stencils[t]
             h == stencil.halos
  <1>1. h \in Nat
    BY StencilsAssumption DEF Task
  <1>2. InCells[r][ib] \subseteq [Axis -> Int]
    BY CellsOfBlocks
  <1>3. ASSUME NEW wc \in InCells[r][ib]
        PROVE  Near(w, wc, stencil) <=> \E dw \in Offsets(stencil) : w = Plus(wc, dw)
    <2> DEFINE by == [d \in Axis |-> w[d] - wc[d]]
    <2>1. wc \in [Axis -> Int] /\ \A d \in Axis : wc[d] \in Int /\ w[d] \in Int
      BY <1>2
    <2>2. {d \in Axis : by[d] # 0} = {d \in Axis : w[d] # wc[d]}
      <3>1. ASSUME NEW d \in Axis PROVE by[d] # 0 <=> w[d] # wc[d]
        <4>1. by[d] = w[d] - wc[d] /\ w[d] \in Int /\ wc[d] \in Int
          BY <2>1
        <4>. QED
          BY <4>1
      <3>. HIDE DEF by
      <3>. QED
        BY <3>1
    <2>3. nnz(by) = Cardinality({d \in Axis : w[d] # wc[d]})
      BY <2>2 DEF nnz
    <2>4. w = Plus(wc, by)
      <3>1. \A d \in Axis : wc[d] + by[d] = w[d]
        BY <2>1
      <3>2. Plus(wc, by) = [d \in Axis |-> wc[d] + by[d]]
        BY DEF Plus
      <3>3. w = [d \in Axis |-> w[d]]
        OBVIOUS
      <3>. HIDE DEF by
      <3>. QED
        BY <3>1, <3>2, <3>3
    <2>5. by \in [Axis -> -h .. h] <=> \A d \in Axis : Abs(w[d] - wc[d]) <= h
      <3>1. ASSUME NEW d \in Axis PROVE by[d] \in -h .. h <=> Abs(w[d] - wc[d]) <= h
        <4>1. by[d] = w[d] - wc[d] /\ by[d] \in Int
          BY <2>1
        <4>. HIDE DEF by, h
        <4>. QED
          BY <1>1, <4>1 DEF Abs
      <3>2. by = [d \in Axis |-> by[d]]
        OBVIOUS
      <3>. HIDE DEF by, h
      <3>. QED
        BY <3>1, <3>2
    <2>6. ASSUME NEW dw \in Offsets(stencil), w = Plus(wc, dw) PROVE dw = by
      <3>1. dw \in [Axis -> -h .. h]
        BY DEF Offsets
      <3>2. ASSUME NEW d \in Axis PROVE dw[d] = by[d]
        <4>1. w[d] = wc[d] + dw[d]
          BY <2>6 DEF Plus
        <4>2. dw[d] \in Int /\ wc[d] \in Int
          BY <2>1, <3>1
        <4>. QED
          BY <4>1, <4>2
      <3>3. by = [d \in Axis |-> by[d]] /\ dw = [d \in Axis |-> dw[d]]
        BY <3>1
      <3>. HIDE DEF by, h
      <3>. QED
        BY <3>2, <3>3
    <2>. HIDE DEF by
    <2>7. by \in Offsets(stencil) <=> Near(w, wc, stencil)
      BY <2>3, <2>5 DEF Offsets, Near
    <2>. QED
      BY <2>4, <2>6, <2>7
  <1>4. [block |-> ib, cell |-> w] \in RecvSet(r, stencil) <=> w \in SeenCells(r, ib, stencil)
    <2> DEFINE of == [jb \in Block |-> {[block |-> jb, cell |-> x] : x \in SeenCells(r, jb, stencil)}]
               c == [block |-> ib, cell |-> w]
    <2>1. c \in RecvSet(r, stencil) <=> \E jb \in Block : c \in of[jb]
      BY DEF RecvSet
    <2>2. ASSUME NEW jb \in Block, c \in of[jb] PROVE w \in SeenCells(r, ib, stencil)
      <3>1. PICK x \in SeenCells(r, jb, stencil) : c = [block |-> jb, cell |-> x]
        BY <2>2
      <3>2. c.block = jb /\ c.cell = x
        BY <3>1
      <3>3. jb = ib /\ x = w
        BY <3>2
      <3>. QED
        BY <3>1, <3>3
    <2>3. w \in SeenCells(r, ib, stencil) => c \in of[ib]
      OBVIOUS
    <2>. HIDE DEF of
    <2>. QED
      BY <2>1, <2>2, <2>3
  <1>5. w \in SeenCells(r, ib, stencil) <=>
          /\ w \notin InCells[r][ib]
          /\ \E wc \in InCells[r][ib] : \E dw \in Offsets(stencil) : w = Plus(wc, dw)
    BY DEF SeenCells
  <1>. HIDE DEF stencil
  <1>6. Needed(t, r, ib, w) <=>
          /\ w \notin InCells[r][ib]
          /\ \E wc \in InCells[r][ib] : Near(w, wc, stencil)
    BY DEF Needed, stencil
  <1>. QED
    BY <1>3, <1>4, <1>5, <1>6 DEF stencil

\* The lists have one entry for what a block needs, under the rank that owns it.
LEMMA ListsComplete ==
  ASSUME NEW t \in Task, NEW r \in Rank
  PROVE  Complete[t][r]
  <1> DEFINE h == Stencils[t].halos
  <1>1. recv[t][r] = GetRecvCells(r, Stencils[t]) /\ h \in Nat
    BY StencilsAssumption DEF recv, Task
  <1>2. ASSUME NEW ib \in Block, NEW w \in Around(r, ib, h + 1)
        PROVE  LET entries == Entries(t, r, ib, w)
               IN IF Needed(t, r, ib, w)
                  THEN /\ Cardinality(entries) = 1
                       /\ {e[1] : e \in entries} = Owners(GetPeriodic(w))
                  ELSE entries = {}
    <2> DEFINE c == [block |-> ib, cell |-> w]
               lists == GetRecvCells(r, Stencils[t])
               entries == Entries(t, r, ib, w)
    <2>1. w \in [Axis -> Int]
      <3>1. Begin(r, ib) \in [Axis -> Int]
        <4>1. ProcOf(r) \in Box(nprocs)
          <5>1. \E p \in Box(nprocs) : RowMajor(p, nprocs) = r
            BY RowMajorNumbers, SizesArePositive DEF Rank
          <5>. QED
            BY <5>1 DEF ProcOf
        <4>2. ProcOf(r) \in [Axis -> Int] /\ BlockOf(ib) \in [Axis -> Int]
          BY <4>1, BlockOfIs, FiniteBox, SizesArePositive
        <4>3. ASSUME NEW d \in Axis
              PROVE  (nblocks[d] * ProcOf(r)[d] + BlockOf(ib)[d]) * blocksize[d] \in Int
          <5>1. /\ nblocks[d] \in Int /\ blocksize[d] \in Int
                /\ ProcOf(r)[d] \in Int /\ BlockOf(ib)[d] \in Int
            BY <4>2, SizesArePositive DEF Sized
          <5>. QED
            BY <5>1
        <4>. QED
          BY <4>3 DEF Begin, Plus, Times
      <3> DEFINE last == Max({blocksize[d] : d \in Axis}) + (h + 1) - 1
      <3>2. PICK dw \in [Axis -> -(h + 1) .. last] : w = Plus(Begin(r, ib), dw)
        BY DEF Around
      <3>3. \A d \in Axis : dw[d] \in Int
        <4>. HIDE DEF last, h
        <4>. QED
          BY <3>2
      <3>. QED
        BY <3>1, <3>2, <3>3 DEF Plus
    <2>2. /\ Needed(t, r, ib, w) <=>
               \E s \in DOMAIN lists : \E k \in DOMAIN lists[s] : lists[s][k] = c
          /\ \A s, q \in DOMAIN lists : \A j \in DOMAIN lists[s], k \in DOMAIN lists[q] :
               lists[s][j] = c /\ lists[q][k] = c => s = q /\ j = k
      BY <1>1, <2>1, NeededIsSeen, ListsCover
    <2>3. \A e : e \in entries <=>
            \E s \in DOMAIN lists : \E k \in DOMAIN lists[s] : e = <<s, k>> /\ lists[s][k] = c
      BY <1>1 DEF Entries
    <2>. HIDE DEF entries
    <2>4. CASE ~Needed(t, r, ib, w)
      <3>1. entries = {}
        <4>. HIDE DEF lists, c
        <4>. QED
          BY <2>2, <2>3, <2>4
      <3>. QED
        BY <2>4, <3>1 DEF entries
    <2>5. CASE Needed(t, r, ib, w)
      <3>1. PICK s \in DOMAIN lists : \E k \in DOMAIN lists[s] : lists[s][k] = c
        BY <2>2, <2>5
      <3>2. PICK k \in DOMAIN lists[s] : lists[s][k] = c
        BY <3>1
      <3>3. entries = {<<s, k>>}
        <4>. HIDE DEF lists, c
        <4>1. <<s, k>> \in entries
          BY <2>3, <3>1, <3>2
        <4>2. \A e \in entries : e = <<s, k>>
          BY <2>2, <2>3, <3>1, <3>2
        <4>. QED
          BY <4>1, <4>2
      <3>4. s \in Rank /\ Cardinality(OwningBlocks(s, GetPeriodic(w))) = 1
        BY <1>1, <3>2, RequestsHaveOwner
      <3>5. OwningBlocks(s, GetPeriodic(w)) # {}
        BY <3>4, FS_EmptySet
      <3>6. Owners(GetPeriodic(w)) = {s}
        <4>1. OfMesh(GetPeriodic(w))
          BY <2>1, PeriodicOfMesh
        <4>. QED
          BY <3>4, <3>5, <4>1, OwnerUnique DEF Owners
      <3>7. Cardinality({<<s, k>>}) = 1
        BY FS_Singleton
      <3>8. {e[1] : e \in {<<s, k>>}} = {s}
        OBVIOUS
      <3>. QED
        BY <2>5, <3>3, <3>6, <3>7, <3>8 DEF entries
    <2>. QED
      BY <2>4, <2>5
  <1>. QED
    BY <1>2 DEF Complete

\* On every mesh and for every stencil, the tasks of a rank name every cell that a
\* block of it has within reach and not in itself once, in the list of the rank that
\* owns its periodic image, and no other cell.
THEOREM TasksCoverHalos == Spec => []HalosCovered
  <1>1. HalosCovered
    BY ListsComplete DEF HalosCovered
  <1>. QED
    BY <1>1, PTL
=============================================================================
