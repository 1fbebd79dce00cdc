-------------------------- MODULE SuspenderInvariant --------------------------
(***************************************************************************)
(* The inductive invariant of Suspender: what relates the counters, which  *)
(* outlive the calls, to the C++ stack, which every call builds anew.      *)
(***************************************************************************)
EXTENDS Suspender

\* The shape the arguments about the counters need of every function: no loop
\* ends with a call, plain stages break loops, and there is one loop.
Shape == \A f \in Func : LoopsEndPlain(f) /\ PlainBreaks(f) /\ OneLoop(f)

\* The driver calls only between calls, and something is running during one.
Control ==
  /\ pc \in {"idle", "finished"} => frames = <<>> /\ callee = NoCall
  /\ pc = "running" => frames # <<>> \/ callee # NoCall
  /\ callee # NoCall /\ frames = <<>> => callee = root

\* A call that Sem lets through is made by a Nested() stage.
NestedOnly ==
  /\ OnlyNestedCalls
  /\ callee # NoCall /\ frames # <<>> /\ allow_nested => Here.op = "nested"

\* The function that frame k is inside a call of, if any.
Inside(k) == k < Len(frames) \/ callee # NoCall
CalleeOf(k) == IF k < Len(frames) THEN frames[k + 1].fn ELSE callee

\* A running function counts the instructions it has passed, and the stage
\* that has made a call is the target of its level.
Counts(fr, s) == s.name = fr.fn /\ s.current = fr.ip
CountsCall(fr, s, f) ==
  /\ s.name = fr.fn
  /\ s.current = fr.ip + 1
  /\ s.target = fr.ip
  /\ fr.ip \in Index(fr.fn)
  /\ InstrAt(fr.fn, fr.ip).call = f

FramesCount ==
  \A k \in 1 .. Len(frames) :
    IF Inside(k) THEN CountsCall(frames[k], states[k + 1], CalleeOf(k))
                 ELSE Counts(frames[k], states[k + 1])

\* A level waits, at a Nested() stage, for the function of the next level.
WaitsFor(s, f) ==
  /\ s.target \in Index(s.name)
  /\ InstrAt(s.name, s.target).op = "nested"
  /\ InstrAt(s.name, s.target).call = f

\* The loop a level has recorded is one of its function.
OwnLoop(s) ==
  /\ s.name \in Func
  /\ s.loop_begin # -1 =>
       s.loop_begin \in Index(s.name) /\ InstrAt(s.name, s.loop_begin).op = "loopBegin"
  /\ s.loop_end # -1 =>
       s.loop_end \in Index(s.name) /\ InstrAt(s.name, s.loop_end).op = "loopEnd"

LevelsWait ==
  /\ Len(states) > 1 => states[2].name = root
  /\ \A k \in 2 .. Len(states) : OwnLoop(states[k])
  /\ \A k \in 2 .. Len(states) - 1 : WaitsFor(states[k], states[k + 1].name)

\* No later stage of a function is the target of its level.
Spent(s) ==
  \/ s.current > s.target
  \/ s.target \in Index(s.name) /\ InstrAt(s.name, s.target).op = "loopEnd"
  \/ ~HasStages(s.name)

\* Once a stage has run, the rest of the call runs none.
RestSpent ==
  /\ ran = <<>> \/ Len(ran) = 1
  /\ pc = "running" /\ ran # <<>> =>
       /\ \A k \in 1 .. Len(frames) : Spent(states[k + 1])
       /\ callee # NoCall => ~HasStages(callee)

Safe == TypeOK /\ Control /\ NestedOnly

Inv == Safe /\ FramesCount /\ LevelsWait /\ RestSpent
=============================================================================
