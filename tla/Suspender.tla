------------------------------ MODULE Suspender ------------------------------
(***************************************************************************)
(* Suspender and Suspender::Sem (src/src/util/suspender.h, suspender.cpp): *)
(* functions that run one stage per call.  The stack of counters states_   *)
(* outlives the calls; every call enters the functions from the root again *)
(* and each method of Sem decides from the counters whether to run.        *)
(*                                                                         *)
(* One action per method of Sem, in the order the C++ text of the running  *)
(* functions makes the calls (frames is that C++ call stack), and the      *)
(* driver's loop `do F(susp) while (susp.Pending())`, which is the loop of *)
(* DistrMesh::Run seen from one block.                                     *)
(***************************************************************************)
EXTENDS Program

VARIABLES
  root,          \* the function the driver runs
  states,        \* states_: the first one is auxiliary
  pos,           \* pos_: index into states (the auxiliary state is 1)
  allow_nested,  \* allow_nested_
  frames,        \* the C++ call stack: the functions that hold a Sem, root first
  callee,        \* the function whose Sem is about to be constructed
  pc,            \* the driver: idle, running, finished or aborted by an fassert
  ran,           \* history: the stages executed by the current call
  saved          \* history: states and ran when the last call returned

vars == <<root, states, pos, allow_nested, frames, callee, pc, ran, saved>>

State == [current : Int, target : Int, loop_begin : Int, loop_end : Int,
          name : Func \cup {NoCall}, ctx : Int]

NewState(current, target, name) ==
  [current |-> current, target |-> target, loop_begin |-> -1, loop_end |-> -1,
   name |-> name, ctx |-> Fresh]

-----------------------------------------------------------------------------

Top == frames[Len(frames)]           \* the function that runs
Here == InstrAt(Top.fn, Top.ip)      \* the method of Sem it is about to call
Running(op) ==
  /\ pc = "running"
  /\ callee = NoCall
  /\ Top.ip < Len(Body[Top.fn])
  /\ Here.op = op

Past(stack) == [stack EXCEPT ![Len(stack)].ip = @ + 1]

Init ==
  /\ root \in Roots
  /\ states = <<NewState(-1, -1, NoCall)>>
  /\ pos = 1
  /\ allow_nested = FALSE
  /\ frames = <<>>
  /\ callee = NoCall
  /\ pc = "idle"
  /\ ran = <<>>
  /\ saved = [states |-> states, ran |-> ran]

\* The driver calls the root function once more.
Call ==
  /\ pc = "idle"
  /\ pc' = "running"
  /\ callee' = root
  /\ ran' = <<>>
  /\ UNCHANGED <<root, states, pos, allow_nested, frames, saved>>

\* Nested calls are free on the first level only.
MayEnter == pos = 1 \/ allow_nested

\* [mutant of Enter] A level is made for the root only.
EnterRootOnly(f) ==
  [ (IF Len(states) = 1 THEN Append(states, NewState(0, 0, f)) ELSE states)
    EXCEPT ![pos + 1].current = 0 ]

\* The levels once the level of function f exists and its counter is reset.
Enter(f) ==
  [ (IF pos = Len(states) THEN Append(states, NewState(0, 0, f)) ELSE states)
    EXCEPT ![pos + 1].current = 0 ]

\* Sem::Sem().
SemBegin ==
  /\ pc = "running"
  /\ callee # NoCall
  /\ IF MayEnter
     THEN /\ states' = Enter(callee)
          /\ pos' = pos + 1
          /\ allow_nested' = FALSE
          /\ frames' = Append(frames, [fn |-> callee, ip |-> 0])
          /\ callee' = NoCall
          /\ UNCHANGED pc
     ELSE /\ pc' = "aborted"
          /\ UNCHANGED <<states, pos, allow_nested, frames, callee>>
  /\ UNCHANGED <<root, ran, saved>>

\* The instruction is counted, whether it does something or not.
Counted(s) == [s EXCEPT !.current = @ + 1]

\* [mutant of Turn] Every later stage runs too.
TurnOrLater(s) == s.current >= s.target

\* Sem::Next(): the counter of the calls has reached the stage that is due.
Turn(s) == s.current = s.target

\* [mutant of LoopBreak] Off by one: the loop goes on after its last stage.
LoopBreakBeforeEnd(s) == [s EXCEPT !.target = s.loop_end - 1]

\* Sem::LoopBreak(), called by the body of a stage.
LoopBreak(s) == [s EXCEPT !.target = s.loop_end]

(***************************************************************************)
(* A method of Sem and the body of the stage if it is its turn: the body   *)
(* may break the loop and may call a function, which returns into the body *)
(* (the function without stages has then executed in this stage).  The     *)
(* context of the function keeps the last stage that used it.              *)
(***************************************************************************)
Stage(nested) ==
  LET s    == states[pos]
      next == Counted(s)
      leaf == Here.call = NoCall \/ ~HasStages(Here.call)
  IN /\ allow_nested' = nested
     /\ IF Turn(s)
        THEN \E broke \in Choices(Top.fn, Top.ip) :
               LET done == [next EXCEPT !.ctx = Top.ip]
               IN /\ states' = [states EXCEPT ![pos] =
                                  IF broke THEN LoopBreak(done) ELSE done]
                  /\ ran' = IF leaf
                            THEN Append(ran, [path  |-> frames,
                                              broke |-> broke,
                                              seen  |-> s.ctx])
                            ELSE ran
                  /\ callee' = Here.call
                  /\ frames' = IF Here.call = NoCall THEN Past(frames) ELSE frames
        ELSE /\ states' = [states EXCEPT ![pos] = next]
             /\ frames' = Past(frames)
             /\ UNCHANGED <<ran, callee>>
     /\ UNCHANGED <<root, pos, pc, saved>>

\* [mutant of PlainStage] operator() leaves allow_nested_ as it is.
PlainStageKeepsNested == Running("stage") /\ Stage(allow_nested)

\* if (sem()) { ... }
PlainStage == Running("stage") /\ Stage(FALSE)

\* if (sem.Nested()) { ... }
NestedStage == Running("nested") /\ Stage(TRUE)

EnterLoop(s) ==
  IF s.current = s.target
  THEN [s EXCEPT !.loop_begin = IF @ < s.current THEN s.current ELSE @,
                 !.target = @ + 1]
  ELSE s

\* Sem::LoopBegin().
LoopBegin ==
  /\ Running("loopBegin")
  /\ states' = [states EXCEPT ![pos] = Counted(EnterLoop(@))]
  /\ frames' = Past(frames)
  /\ UNCHANGED <<root, pos, allow_nested, callee, pc, ran, saved>>

\* [mutant of NoteLoopEnd] loop_end is noted when the target reaches it.
NoteLoopEndLate(s) ==
  IF s.loop_end < s.loop_begin /\ s.current = s.target + 1
  THEN [s EXCEPT !.loop_end = s.current] ELSE s

\* loop_end is noted on the first pass that has its target within the loop.
NoteLoopEnd(s) ==
  IF s.loop_end < s.loop_begin /\ s.loop_begin <= s.target
  THEN [s EXCEPT !.loop_end = s.current] ELSE s

\* The last stage of the loop was the target: start again.
Rewind(s) ==
  IF s.current = s.target + 1 THEN [s EXCEPT !.target = s.loop_begin] ELSE s

\* Sem::LoopEnd().
LoopEnd ==
  /\ Running("loopEnd")
  /\ states' = [states EXCEPT ![pos] = Counted(Rewind(NoteLoopEnd(@)))]
  /\ frames' = Past(frames)
  /\ UNCHANGED <<root, pos, allow_nested, callee, pc, ran, saved>>

\* The next stage is due.
Due(s) == [s EXCEPT !.target = @ + 1]

\* [mutant of Finish] The next stage is due while lower levels are pending.
FinishAnyway(s) ==
  IF pos = Len(states) /\ (s.current = s.target + 1 \/ s.current = 0)
  THEN SubSeq(states, 1, pos - 1)
  ELSE [states EXCEPT ![pos] = Due(@)]

(***************************************************************************)
(* Sem::~Sem() at the end of the function: if all lower levels are done    *)
(* the next stage is due, and the level is removed after its last stage.   *)
(* The Sem of the root returns to the driver, which ends unless Pending(). *)
(***************************************************************************)
Finish(s) ==
  IF pos < Len(states) THEN states
  ELSE IF s.current = Due(s).target \/ s.current = 0
       THEN SubSeq(states, 1, pos - 1)
       ELSE [states EXCEPT ![pos] = Due(s)]

Pending(stack) == Len(stack) # 1

SemEnd ==
  /\ pc = "running"
  /\ callee = NoCall
  /\ Top.ip = Len(Body[Top.fn])
  /\ states' = Finish(states[pos])
  /\ pos' = pos - 1
  /\ LET callers == SubSeq(frames, 1, Len(frames) - 1)
     IN IF callers # <<>>
        THEN frames' = Past(callers) /\ UNCHANGED <<pc, saved>>
        ELSE /\ frames' = callers
             /\ pc' = IF Pending(states') THEN "idle" ELSE "finished"
             /\ saved' = [states |-> states', ran |-> ran]
  /\ UNCHANGED <<root, allow_nested, callee, ran>>

\* The driver has left its loop, or an fassert has ended the program.
Halted ==
  /\ pc \in {"finished", "aborted"}
  /\ UNCHANGED vars

Next ==
  \/ Call \/ SemBegin \/ PlainStage \/ NestedStage
  \/ LoopBegin \/ LoopEnd \/ SemEnd \/ Halted

Spec == Init /\ [][Next]_vars

-----------------------------------------------------------------------------

\* Counters, iterators and the C++ stack keep their types, and pos_ points to
\* the level of the function that runs.
TypeOK ==
  /\ root \in Roots
  /\ states \in Seq(State)
  /\ pos \in 1 .. Len(states)
  /\ pos = Len(frames) + 1
  /\ allow_nested \in BOOLEAN
  /\ frames \in Seq([fn : Func, ip : Nat])
  /\ callee \in Func \cup {NoCall}
  /\ pc \in {"idle", "running", "finished", "aborted"}

\* A function counts its stages and keeps its context in a level that was made
\* for it: GetContext() never finds the context of another function.
OwnLevel == \A k \in DOMAIN frames : states[k + 1].name = frames[k].fn

\* A call of the root function executes at most one stage.
OneStagePerCall == Len(ran) <= 1

\* A function that is called from a plain stage does not run: only the root
\* and callees of Nested() stages are on the C++ stack (the fassert of Sem).
OnlyNestedCalls ==
  \A k \in 1 .. Len(frames) - 1 :
    InstrAt(frames[k].fn, frames[k].ip).op = "nested"
=============================================================================
