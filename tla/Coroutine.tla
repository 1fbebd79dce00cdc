------------------------------ MODULE Coroutine ------------------------------
(***************************************************************************)
(* What a suspendable function promises to its caller                      *)
(* (src/src/util/suspender.h, the comment of class Suspender): a function  *)
(* is a list of stages, every call of it executes exactly one stage, and   *)
(* the calls together execute the stages in program order, a stage that    *)
(* calls another suspendable function being replaced by the stages of that *)
(* function and a loop being repeated until one of its stages breaks it.   *)
(*                                                                         *)
(* The state is the position in the program, kept as an ordinary call      *)
(* stack: nothing here counts stages, skips them or rewinds counters.      *)
(***************************************************************************)
EXTENDS ProgramOrder

VARIABLES
  at,      \* the stack of activations [fn, ip, ctx]: the last one is about to
           \* execute its stage ip, the others are inside a call made by theirs
  out      \* what the last call executed: a sequence of [path, broke]

cvars == <<at, out>>

CInit ==
  /\ \E f \in Roots : at = Start(f)
  /\ out = <<>>

(***************************************************************************)
(* One call: the stage at the top of the stack runs (its context is the    *)
(* one its activation has used so far) and the position moves on.  A stage *)
(* that may break its loop decides while it runs.                          *)
(***************************************************************************)
Step ==
  /\ at # <<>>
  /\ LET top == at[Len(at)]
         i   == top.ip
         ran == [at EXCEPT ![Len(at)].ctx = i]
     IN \E broke \in Choices(top.fn, i) :
          /\ out' = <<[path |-> Path(at), broke |-> broke, seen |-> top.ctx]>>
          /\ at' = Descend(Unwind(
                     [ran EXCEPT ![Len(at)].ip =
                        IF broke THEN LoopStop(top.fn, i) + 1 ELSE i + 1]))

CNext == Step

CSpec == CInit /\ [][CNext]_cvars
=============================================================================
