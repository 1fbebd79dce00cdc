---------------------------- MODULE ProgramOrder ----------------------------
(***************************************************************************)
(* The order in which an ordinary program would execute the stages of      *)
(* module Program: positions are call stacks of activations [fn, ip, ctx], *)
(* ctx being the last stage of the activation that used its context.       *)
(***************************************************************************)
EXTENDS Program

(***************************************************************************)
(* The first stage to execute at or after instruction i of function f;     *)
(* Len(Body[f]) when the function has ended.  A loop is entered silently   *)
(* and its end leads back to the first instruction of its body.            *)
(***************************************************************************)
RECURSIVE Settle(_, _)
Settle(f, i) ==
  IF i = Len(Body[f]) THEN i
  ELSE CASE InstrAt(f, i).op = "loopBegin" -> Settle(f, i + 1)
         [] InstrAt(f, i).op = "loopEnd"   -> Settle(f, LoopStart(f, i) + 1)
         [] OTHER                          -> i

(***************************************************************************)
(* The stack with every finished activation removed and its caller moved   *)
(* past the stage that made the call.                                      *)
(***************************************************************************)
RECURSIVE Unwind(_)
Unwind(stack) ==
  IF stack = <<>> THEN <<>>
  ELSE LET top   == stack[Len(stack)]
           rest  == SubSeq(stack, 1, Len(stack) - 1)
           i     == Settle(top.fn, top.ip)
       IN IF i < Len(Body[top.fn]) THEN Append(rest, [top EXCEPT !.ip = i])
          ELSE IF rest = <<>> THEN <<>>
          ELSE Unwind([rest EXCEPT ![Len(rest)].ip = @ + 1])

(***************************************************************************)
(* Calls made by the stage at the top of the stack, down to the function   *)
(* whose own stage is executed next.  A function without stages executes   *)
(* as a part of the stage that calls it.                                   *)
(***************************************************************************)
RECURSIVE Descend(_)
Descend(stack) ==
  IF stack = <<>> THEN <<>>
  ELSE LET top    == stack[Len(stack)]
           callee == InstrAt(top.fn, top.ip).call
       IN IF callee = NoCall THEN stack
          ELSE LET inner == [fn |-> callee, ip |-> Settle(callee, 0), ctx |-> Fresh]
                   calling == [stack EXCEPT ![Len(stack)].ctx = top.ip]
               IN IF HasStages(callee) THEN Descend(Append(calling, inner)) ELSE stack

Start(f) == Descend(Unwind(<<[fn |-> f, ip |-> 0, ctx |-> Fresh]>>))

Path(stack) == [k \in DOMAIN stack |-> [fn |-> stack[k].fn, ip |-> stack[k].ip]]
=============================================================================
