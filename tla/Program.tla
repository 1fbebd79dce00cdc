------------------------------- MODULE Program -------------------------------
(***************************************************************************)
(* The programs a Suspender runs.  A function of the repository that holds *)
(* a Sem is a list of instructions, one for every call of a method of Sem  *)
(* in its text:                                                            *)
(*   stage      if (sem("name")) { ... }                                   *)
(*   nested     if (sem.Nested("name")) { callee(...); }                   *)
(*   loopBegin  sem.LoopBegin();                                           *)
(*   loopEnd    sem.LoopEnd();                                             *)
(* What a stage computes is left out; that a stage may call another        *)
(* function (call) and may call LoopBreak (brk) is kept.                   *)
(* Instructions are counted from 0, as Sem counts stages.                  *)
(***************************************************************************)
EXTENDS Integers, Sequences

CONSTANTS
  Func,     \* functions that hold a Sem
  Body,     \* the instructions of every function
  Roots,    \* the functions the driver may run
  NoCall    \* the callee of a stage that calls no such function

Op == {"stage", "nested", "loopBegin", "loopEnd"}

Instr == [op : Op, call : Func \cup {NoCall}, brk : BOOLEAN]

ASSUME ProgramAssumption ==
  /\ NoCall \notin Func
  /\ Roots \subseteq Func
  /\ Body \in [Func -> Seq(Instr)]

Fresh == -1     \* a context that no stage has written to

InstrAt(f, i) == Body[f][i + 1]

Index(f) == 0 .. Len(Body[f]) - 1

IsStage(f, i) == InstrAt(f, i).op \in {"stage", "nested"}

HasStages(f) == \E i \in Index(f) : IsStage(f, i)

(***************************************************************************)
(* The loop around instruction i of function f (loops of one function do   *)
(* not contain each other): its loopBegin and its loopEnd.                 *)
(***************************************************************************)
LoopStart(f, i) ==
  CHOOSE b \in Index(f) :
    /\ b <= i
    /\ InstrAt(f, b).op = "loopBegin"
    /\ \A j \in b + 1 .. i : InstrAt(f, j).op # "loopBegin"

LoopStop(f, i) ==
  CHOOSE e \in Index(f) :
    /\ e >= i
    /\ InstrAt(f, e).op = "loopEnd"
    /\ \A j \in i .. e - 1 : InstrAt(f, j).op # "loopEnd"

\* Whether stage i of f may break its loop, as the values of the decision.
Choices(f, i) == IF InstrAt(f, i).brk THEN BOOLEAN ELSE {FALSE}

(***************************************************************************)
(* The shape of the loops in the repository: LoopBegin and LoopEnd         *)
(* alternate, a loop has a stage that may break it, only a plain stage     *)
(* inside a loop does, and that stage calls nothing.                       *)
(***************************************************************************)
InLoop(f, i) ==
  \E b, e \in Index(f) :
    /\ b < i /\ i < e
    /\ InstrAt(f, b).op = "loopBegin"
    /\ InstrAt(f, e).op = "loopEnd"
    /\ \A j \in b + 1 .. e - 1 : IsStage(f, j)

PlainBreaks(f) ==
  \A i \in Index(f) : InstrAt(f, i).brk =>
    InstrAt(f, i).op = "stage" /\ InstrAt(f, i).call = NoCall

LoopsWellFormed(f) ==
  /\ \A b \in Index(f) : InstrAt(f, b).op = "loopBegin" =>
       \E e \in Index(f) :
         /\ b < e
         /\ InstrAt(f, e).op = "loopEnd"
         /\ \A j \in b + 1 .. e - 1 : IsStage(f, j)
         /\ \E j \in b + 1 .. e - 1 : InstrAt(f, j).brk
  /\ \A e \in Index(f) : InstrAt(f, e).op = "loopEnd" =>
       \E b \in 0 .. e - 1 :
         /\ InstrAt(f, b).op = "loopBegin"
         /\ \A j \in b + 1 .. e - 1 : IsStage(f, j)
  /\ \A i \in Index(f) : InstrAt(f, i).brk => InLoop(f, i)
  /\ PlainBreaks(f)

\* A stage that may break is not the first of its loop.
BreaksLate(f) ==
  \A i \in Index(f) : InstrAt(f, i).brk => InstrAt(f, i - 1).op # "loopBegin"

\* A loop does not end with a call.
LoopsEndPlain(f) ==
  \A i \in Index(f) : InstrAt(f, i).op = "loopEnd" => InstrAt(f, i - 1).op # "nested"

\* A function has one loop.
OneLoop(f) ==
  \A b, e \in Index(f) :
    InstrAt(f, b).op = "loopBegin" /\ InstrAt(f, e).op = "loopEnd" => b < e

\* Stages that call a function are entered with Nested().
CallsNested(f) ==
  \A i \in Index(f) :
    InstrAt(f, i).call # NoCall => InstrAt(f, i).op = "nested"

WellFormed(f) ==
  LoopsWellFormed(f) /\ BreaksLate(f) /\ LoopsEndPlain(f) /\ CallsNested(f)
=============================================================================
