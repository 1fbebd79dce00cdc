------------------------- MODULE SuspenderProperties -------------------------
(***************************************************************************)
(* What the stages of a Suspender must satisfy, and how its counters       *)
(* implement the positions of module Coroutine.                            *)
(***************************************************************************)
EXTENDS Suspender, ProgramOrder

(***************************************************************************)
(* The refinement mapping: a level of states_ that has survived the last   *)
(* call is an activation, its target the stage it has reached.             *)
(***************************************************************************)
Levels(stack) ==
  [k \in 1 .. Len(stack) - 1 |->
     [fn |-> stack[k + 1].name, ip |-> stack[k + 1].target, ctx |-> stack[k + 1].ctx]]

Position ==
  LET levels == Levels(saved.states)
  IN IF pc = "finished" THEN <<>>
     ELSE IF levels = <<>> THEN Start(root)
     ELSE IF \A k \in DOMAIN levels : levels[k].ip \in Index(levels[k].fn)
          THEN Descend(Unwind(levels))
          ELSE levels

Abstract == INSTANCE Coroutine WITH at <- Position, out <- saved.ran

\* Every call executes exactly one stage, the next one in program order, with
\* the context that the earlier stages of the same activation have used, and
\* the driver leaves its loop after the last one.
StagesInOrder == Abstract!CSpec

(***************************************************************************)
(* Liveness.  The driver calls again as long as something is pending, and  *)
(* a loop whose breaking stage runs again and again is broken at last: the *)
(* exit conditions are iteration limits and end times.  Loops lie at most  *)
(* LoopDepth functions deep in the programs considered.                    *)
(***************************************************************************)
LoopDepth == 2

Break(depth) ==
  /\ Len(frames) = depth
  /\ PlainStage
  /\ ran' # ran
  /\ ran'[Len(ran')].broke

FairSpec ==
  /\ Spec
  /\ WF_vars(Next)
  /\ \A depth \in 1 .. LoopDepth : SF_vars(Break(depth))

\* The driver leaves its loop: no stage of a suspended function hangs.  Only a
\* function that calls another one from a plain stage is stopped.
Terminates == <>(pc = "finished" \/ (pc = "aborted" /\ ~CallsNested(Top.fn)))
=============================================================================
