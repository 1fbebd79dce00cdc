--------------------------- MODULE SuspenderProofs ---------------------------
(***************************************************************************)
(* What Suspender guarantees for every program.                            *)
(***************************************************************************)
EXTENDS SuspenderInvariant, SequenceTheorems, TLAPS

-----------------------------------------------------------------------------
(***************************************************************************)
(* Types.                                                                  *)
(***************************************************************************)

\* An instruction of a function is an instruction.
LEMMA InstrAtType ==
  ASSUME NEW f \in Func, NEW i \in Index(f)
  PROVE  /\ InstrAt(f, i) \in Instr
         /\ i \in Int
  <1>1. Body[f] \in Seq(Instr)
    BY ProgramAssumption
  <1>2. Len(Body[f]) \in Nat /\ i \in 0 .. Len(Body[f]) - 1
    BY <1>1 DEF Index
  <1>. QED
    BY <1>1, <1>2 DEF InstrAt

\* A fresh level is a level.
LEMMA NewStateType ==
  ASSUME NEW f \in Func
  PROVE  NewState(0, 0, f) \in State
  BY DEF NewState, State, Fresh

\* The operations of Sem on the current level yield levels, and a method of
\* Sem other than them changes one counter.
LEMMA LevelTypes ==
  ASSUME NEW s \in State
  PROVE  /\ LoopBreak(s) \in State
         /\ EnterLoop(s) \in State
         /\ NoteLoopEnd(s) \in State
         /\ Rewind(s) \in State
         /\ \A i \in Int : [s EXCEPT !.current = i] \in State
         /\ \A i \in Int : [s EXCEPT !.target = i] \in State
         /\ \A i \in Int : [s EXCEPT !.ctx = i] \in State
  <1>1. /\ \A i \in Int : [s EXCEPT !.current = i] \in State
        /\ \A i \in Int : [s EXCEPT !.target = i] \in State
        /\ \A i \in Int : [s EXCEPT !.ctx = i] \in State
        /\ \A i \in Int : [s EXCEPT !.loop_end = i] \in State
        /\ \A i, j \in Int : [s EXCEPT !.loop_begin = i, !.target = j] \in State
    BY DEF State
  <1>2. /\ s.current \in Int /\ s.target \in Int /\ s.target + 1 \in Int
        /\ s.loop_begin \in Int /\ s.loop_end \in Int
    BY DEF State
  <1>3. EnterLoop(s) \in State
    BY <1>1, <1>2 DEF EnterLoop
  <1>4. LoopBreak(s) \in State /\ NoteLoopEnd(s) \in State /\ Rewind(s) \in State
    BY <1>1, <1>2 DEF LoopBreak, NoteLoopEnd, Rewind
  <1>. QED
    BY <1>1, <1>3, <1>4

\* A level that has counted one more instruction.
LEMMA CountedType ==
  ASSUME NEW s \in State
  PROVE  /\ Counted(s) \in State
         /\ Counted(s).current = s.current + 1
         /\ Counted(s).target = s.target
         /\ Counted(s).name = s.name
         /\ Counted(s).loop_begin = s.loop_begin
         /\ Counted(s).loop_end = s.loop_end
  BY DEF State, Counted

\* A level whose next stage is due.
LEMMA DueType ==
  ASSUME NEW s \in State
  PROVE  /\ Due(s) \in State
         /\ Due(s).name = s.name
         /\ Due(s).loop_begin = s.loop_begin
         /\ Due(s).loop_end = s.loop_end
  BY DEF State, Due

\* A shorter prefix of a sequence.
LEMMA Prefix ==
  ASSUME NEW S, NEW seq \in Seq(S), Len(seq) > 0
  PROVE  /\ SubSeq(seq, 1, Len(seq) - 1) \in Seq(S)
         /\ Len(SubSeq(seq, 1, Len(seq) - 1)) = Len(seq) - 1
         /\ \A j \in 1 .. Len(seq) - 1 : SubSeq(seq, 1, Len(seq) - 1)[j] = seq[j]
  <1>1. \A j \in 1 .. Len(seq) - 1 : seq[j] \in S
    OBVIOUS
  <1>. DEFINE n == Len(seq) - 1
  <1>2. n \in Nat
    OBVIOUS
  <1>3. \A j \in 1 .. n : seq[j] \in S
    BY <1>1
  <1>. HIDE DEF n
  <1>4. /\ SubSeq(seq, 1, n) \in Seq(S)
        /\ Len(SubSeq(seq, 1, n)) = IF 1 <= n THEN n - 1 + 1 ELSE 0
        /\ \A j \in 1 .. n - 1 + 1 : SubSeq(seq, 1, n)[j] = seq[1 + j - 1]
    <2>. 1 \in Int /\ n \in Int
      BY <1>2
    <2>. QED
      BY <1>3, SubSeqProperties
  <1>5. Len(SubSeq(seq, 1, n)) = n /\ \A j \in 1 .. n : SubSeq(seq, 1, n)[j] = seq[j]
    BY <1>2, <1>4
  <1>. QED
    BY <1>4, <1>5 DEF n

Frame == [fn : Func, ip : Nat]

\* Moving the running function on keeps the C++ stack.
LEMMA PastType ==
  ASSUME NEW stack \in Seq(Frame), stack # <<>>
  PROVE  /\ Past(stack) \in Seq(Frame)
         /\ Len(Past(stack)) = Len(stack)
         /\ \A j \in 1 .. Len(stack) - 1 : Past(stack)[j] = stack[j]
         /\ Past(stack)[Len(stack)] =
              [fn |-> stack[Len(stack)].fn, ip |-> stack[Len(stack)].ip + 1]
  <1>1. Len(stack) \in 1 .. Len(stack) /\ stack[Len(stack)] \in Frame
    OBVIOUS
  <1>2. [stack[Len(stack)] EXCEPT !.ip = @ + 1] \in Frame
    BY <1>1 DEF Frame
  <1>3. [stack[Len(stack)] EXCEPT !.ip = @ + 1]
          = [fn |-> stack[Len(stack)].fn, ip |-> stack[Len(stack)].ip + 1]
    BY <1>1 DEF Frame
  <1>. DEFINE e == [stack[Len(stack)] EXCEPT !.ip = @ + 1]
  <1>4. Past(stack) = [stack EXCEPT ![Len(stack)] = e]
    BY DEF Past
  <1>. HIDE DEF e
  <1>. QED
    BY <1>1, <1>2, <1>3, <1>4, ExceptSeq DEF e

\* The level of a function that begins.
LEMMA EnterType ==
  ASSUME TypeOK, NEW f \in Func
  PROVE  /\ Enter(f) \in Seq(State)
         /\ Len(Enter(f)) = (IF pos = Len(states) THEN pos + 1 ELSE Len(states))
         /\ \A j \in 1 .. Len(states) : j # pos + 1 => Enter(f)[j] = states[j]
         /\ pos < Len(states) =>
              Enter(f)[pos + 1] = [states[pos + 1] EXCEPT !.current = 0]
         /\ pos = Len(states) =>
              Enter(f)[pos + 1] = NewState(0, 0, f)
  <1>. DEFINE base == IF pos = Len(states)
                      THEN Append(states, NewState(0, 0, f)) ELSE states
              e    == [base[pos + 1] EXCEPT !.current = 0]
  <1>1. states \in Seq(State) /\ pos \in 1 .. Len(states) /\ Len(states) \in Nat
    BY DEF TypeOK
  <1>2. base \in Seq(State) /\ pos + 1 \in 1 .. Len(base) /\ base[pos + 1] \in State
    BY <1>1, NewStateType
  <1>3. e \in State
    <2>. DEFINE s == base[pos + 1]
    <2>1. s \in State
      BY <1>2
    <2>. HIDE DEF s
    <2>2. [s EXCEPT !.current = 0] \in State
      BY <2>1, LevelTypes
    <2>. QED
      BY <2>2 DEF s
  <1>4. Enter(f) = [base EXCEPT ![pos + 1] = e]
    BY DEF Enter
  <1>5. /\ Len(base) = (IF pos = Len(states) THEN pos + 1 ELSE Len(states))
        /\ \A j \in 1 .. Len(states) : base[j] = states[j]
        /\ pos = Len(states) => base[pos + 1] = NewState(0, 0, f)
    BY <1>1, NewStateType
  <1>6. pos = Len(states) => e = NewState(0, 0, f)
    BY <1>5 DEF NewState
  <1>7. pos < Len(states) => e = [states[pos + 1] EXCEPT !.current = 0]
    BY <1>1, <1>5
  <1>. HIDE DEF base, e
  <1>. QED
    BY <1>1, <1>2, <1>3, <1>4, <1>5, <1>6, <1>7, ExceptSeq

\* What is known when a function calls a method of its Sem.
LEMMA RunningFacts ==
  ASSUME Safe, NEW op, Running(op)
  PROVE  /\ frames # <<>> /\ Len(frames) \in 1 .. Len(frames)
         /\ pos = Len(frames) + 1 /\ pos \in 1 .. Len(states)
         /\ Top \in Frame /\ Top.fn \in Func /\ Top.ip \in Index(Top.fn)
         /\ Here \in Instr /\ Here.op = op
         /\ states \in Seq(State) /\ states[pos] \in State
         /\ frames \in Seq(Frame)
         /\ pc = "running" /\ callee = NoCall
  <1>1. pc = "running" /\ callee = NoCall /\ Here.op = op
    BY DEF Running
  <1>2. frames # <<>>
    BY <1>1 DEF Safe, Control
  <1>3. /\ frames \in Seq(Frame) /\ states \in Seq(State)
        /\ pos = Len(frames) + 1 /\ pos \in 1 .. Len(states)
    BY DEF Safe, TypeOK, Frame
  <1>4. Len(frames) \in 1 .. Len(frames) /\ states[pos] \in State
    BY <1>2, <1>3
  <1>5. Top \in Frame
    BY <1>3, <1>4 DEF Top
  <1>6. Top.fn \in Func /\ Top.ip \in Nat
    BY <1>5 DEF Frame
  <1>7. Top.ip \in Index(Top.fn)
    <2>1. Len(Body[Top.fn]) \in Nat
      BY <1>6, ProgramAssumption
    <2>. QED
      BY <1>6, <2>1 DEF Running, Index
  <1>8. Here \in Instr
    BY <1>6, <1>7, InstrAtType DEF Here
  <1>. QED
    BY <1>1, <1>2, <1>3, <1>4, <1>5, <1>6, <1>7, <1>8

\* A stage that is passed over: only its level counts it.
Skipped ==
  /\ states[pos].current # states[pos].target
  /\ states' = [states EXCEPT ![pos] = Counted(states[pos])]
  /\ frames' = Past(frames)
  /\ callee' = NoCall
  /\ ran' = ran

\* A stage that runs, after which its level is the given one.
Executed(after) ==
  LET s == states[pos]
  IN /\ s.current = s.target
     /\ after \in State
     /\ states' = [states EXCEPT ![pos] = after]
     /\ after.name = s.name
     /\ after.current = s.current + 1
     /\ after.loop_begin = s.loop_begin
     /\ after.loop_end = s.loop_end
     /\ after.target = s.target \/ (Here.brk /\ after.target = s.loop_end)
     /\ callee' = Here.call
     /\ frames' = IF Here.call = NoCall THEN Past(frames) ELSE frames
     /\ \/ ran' = ran /\ Here.call # NoCall /\ HasStages(Here.call)
        \/ /\ \E e : ran' = Append(ran, e)
           /\ Here.call # NoCall => ~HasStages(Here.call)

\* A method of Sem passes over its stage or runs it.
LEMMA StageOutcome ==
  ASSUME Safe, NEW op, Running(op), NEW nested, Stage(nested)
  PROVE  /\ Skipped \/ \E after \in State : Executed(after)
         /\ allow_nested' = nested
         /\ UNCHANGED <<root, pos, pc, saved>>
  <1>. DEFINE s == states[pos]
              next == Counted(s)
              done == [next EXCEPT !.ctx = Top.ip]
  <1>1. s \in State /\ callee = NoCall /\ Top.ip \in Int
    BY RunningFacts, InstrAtType
  <1>2. allow_nested' = nested /\ UNCHANGED <<root, pos, pc, saved>>
    BY DEF Stage
  <1>3. CASE s.current # s.target
    BY <1>1, <1>2, <1>3 DEF Stage, Turn, Skipped
  <1>4. CASE s.current = s.target
    <2>1. PICK broke \in Choices(Top.fn, Top.ip) :
            /\ states' = [states EXCEPT ![pos] = IF broke THEN LoopBreak(done) ELSE done]
            /\ ran' = IF Here.call = NoCall \/ ~HasStages(Here.call)
                      THEN Append(ran, [path |-> frames, broke |-> broke, seen |-> s.ctx])
                      ELSE ran
            /\ callee' = Here.call
            /\ frames' = IF Here.call = NoCall THEN Past(frames) ELSE frames
      BY <1>4 DEF Stage, Turn
    <2>. DEFINE after == IF broke THEN LoopBreak(done) ELSE done
    <2>2. /\ done \in State /\ done.name = s.name /\ done.current = s.current + 1
          /\ done.loop_begin = s.loop_begin /\ done.loop_end = s.loop_end
          /\ done.target = s.target
      <3>1. /\ next \in State /\ next.name = s.name /\ next.current = s.current + 1
            /\ next.loop_begin = s.loop_begin /\ next.loop_end = s.loop_end
            /\ next.target = s.target
        BY <1>1, CountedType
      <3>. HIDE DEF next
      <3>. QED
        BY <1>1, <3>1 DEF State
    <2>3. broke => Here.brk
      BY DEF Choices, Here
    <2>. HIDE DEF done
    <2>4. /\ after \in State /\ after.name = s.name /\ after.current = s.current + 1
          /\ after.loop_begin = s.loop_begin /\ after.loop_end = s.loop_end
          /\ after.target = s.target \/ (Here.brk /\ after.target = s.loop_end)
      <3>1. CASE broke
        BY <2>2, <2>3, <3>1, LevelTypes DEF LoopBreak, State
      <3>2. CASE ~broke
        <4>1. after = done
          BY <3>2
        <4>. QED
          BY <2>2, <4>1
      <3>. QED
        BY <3>1, <3>2
    <2>. HIDE DEF after
    <2>5. states' = [states EXCEPT ![pos] = after]
      BY <2>1 DEF after
    <2>6. Executed(after)
      BY <1>4, <2>1, <2>4, <2>5 DEF Executed
    <2>. QED
      BY <1>2, <2>4, <2>6
  <1>. QED
    BY <1>3, <1>4

-----------------------------------------------------------------------------
(***************************************************************************)
(* Types and calls, for every program.                                     *)
(***************************************************************************)

\* The initial state: one fresh counter and no activation.
LEMMA SafeInit == Init => Safe
  <1>. SUFFICES ASSUME Init PROVE Safe
    OBVIOUS
  <1>1. root \in Roots /\ pos = 1 /\ frames = <<>> /\ callee = NoCall /\ pc = "idle"
        /\ allow_nested = FALSE /\ states = <<NewState(-1, -1, NoCall)>>
    BY DEF Init
  <1>2. NewState(-1, -1, NoCall) \in State
    BY DEF NewState, State, Fresh
  <1>3. states \in Seq(State) /\ Len(states) = 1
    BY <1>1, <1>2
  <1>4. frames \in Seq(Frame) /\ Len(frames) = 0
    BY <1>1
  <1>5. TypeOK
    <2>1. root \in Roots /\ pos = 1 /\ callee = NoCall /\ pc = "idle"
          /\ allow_nested \in BOOLEAN
      BY <1>1, Zenon
    <2>. QED
      BY <1>3, <1>4, <2>1 DEF TypeOK, Frame
  <1>6. Control
    BY <1>1 DEF Control
  <1>7. NestedOnly
    BY <1>1, <1>4 DEF NestedOnly, OnlyNestedCalls
  <1>. QED
    BY <1>5, <1>6, <1>7 DEF Safe

\* The driver calls the root function: no frame is on the stack before.
LEMMA CallSafe ==
  ASSUME Safe, Call
  PROVE  Safe'
  <1>1. TypeOK'
    BY ProgramAssumption DEF Safe, TypeOK, Call
  <1>2. Control'
    BY ProgramAssumption DEF Safe, TypeOK, Control, Call
  <1>3. NestedOnly'
    BY DEF Safe, Control, NestedOnly, OnlyNestedCalls, Call
  <1>. QED
    BY <1>1, <1>2, <1>3 DEF Safe

\* Sem::Sem pushes a frame and a counter, or fails before either.
LEMMA SemBeginSafe ==
  ASSUME Safe, SemBegin
  PROVE  Safe'
  <1>0. UNCHANGED root /\ pc = "running" /\ callee \in Func /\ TypeOK
    BY DEF SemBegin, Safe, TypeOK
  <1>1. CASE ~MayEnter
    <2>1. pc' = "aborted" /\ UNCHANGED <<root, states, pos, allow_nested, frames, callee>>
      BY <1>1 DEF SemBegin
    <2>. QED
      BY <2>1 DEF Safe, TypeOK, Control, NestedOnly, OnlyNestedCalls, Here, Top
  <1>2. CASE MayEnter
    <2>. DEFINE new == [fn |-> callee, ip |-> 0]
    <2>1. /\ states' = Enter(callee) /\ pos' = pos + 1 /\ allow_nested' = FALSE
          /\ frames' = Append(frames, new) /\ callee' = NoCall /\ pc' = pc
      BY <1>2 DEF SemBegin
    <2>2. new \in Frame /\ frames \in Seq(Frame) /\ Len(frames) \in Nat
      BY <1>0 DEF Frame, TypeOK
    <2>. HIDE DEF new
    <2>3. /\ frames' \in Seq(Frame) /\ Len(frames') = Len(frames) + 1
          /\ \A k \in 1 .. Len(frames) : frames'[k] = frames[k]
      BY <2>1, <2>2, AppendProperties
    <2>4. states' \in Seq(State) /\ pos' \in 1 .. Len(states')
      BY <1>0, <2>1, EnterType DEF TypeOK
    <2>5. TypeOK'
      BY <1>0, <2>1, <2>3, <2>4 DEF TypeOK, Frame
    <2>6. Control'
      BY <1>0, <2>1, <2>2, <2>3 DEF Control
    <2>7. NestedOnly'
      <3>1. ASSUME NEW k \in 1 .. Len(frames) PROVE InstrAt(frames[k].fn, frames[k].ip).op = "nested"
        <4>1. CASE k < Len(frames)
          BY <2>2, <4>1 DEF Safe, NestedOnly, OnlyNestedCalls
        <4>2. CASE k = Len(frames)
          <5>1. frames # <<>> /\ allow_nested /\ callee # NoCall
            BY <1>0, <1>2, <2>2, <4>2 DEF MayEnter, TypeOK, SemBegin
          <5>. QED
            BY <4>2, <5>1 DEF Safe, NestedOnly, Here, Top
        <4>. QED
          BY <2>2, <4>1, <4>2
      <3>2. OnlyNestedCalls'
        BY <2>2, <2>3, <3>1 DEF OnlyNestedCalls
      <3>. QED
        BY <2>1, <3>2 DEF NestedOnly
    <2>. QED
      BY <2>5, <2>6, <2>7 DEF Safe
  <1>. QED
    BY <1>1, <1>2

\* Moving on within a function disturbs none of its callers.
LEMMA PastSafe ==
  ASSUME Safe, frames # <<>>, frames' = Past(frames)
  PROVE  frames' \in Seq(Frame) /\ Len(frames') = Len(frames) /\ OnlyNestedCalls'
  <1>1. frames \in Seq(Frame)
    BY DEF Safe, TypeOK, Frame
  <1>2. /\ frames' \in Seq(Frame) /\ Len(frames') = Len(frames)
        /\ \A j \in 1 .. Len(frames) - 1 : frames'[j] = frames[j]
    BY <1>1, PastType
  <1>. QED
    BY <1>2 DEF Safe, NestedOnly, OnlyNestedCalls

\* Sem::operator() and Nested move counters, not the depth of the stack.
LEMMA StageSafe ==
  ASSUME Safe, NEW op, Running(op), Stage(op = "nested")
  PROVE  Safe'
  <1>. DEFINE nested == op = "nested"
  <1>1. /\ frames # <<>> /\ Here.op = op /\ Here \in Instr
        /\ pos = Len(frames) + 1 /\ pos \in 1 .. Len(states)
        /\ states \in Seq(State) /\ states[pos] \in State
        /\ frames \in Seq(Frame) /\ pc = "running" /\ callee = NoCall
    BY RunningFacts
  <1>2. /\ Skipped \/ \E after \in State : Executed(after)
        /\ allow_nested' = nested /\ UNCHANGED <<root, pos, pc, saved>>
    <2>1. Stage(nested)
      OBVIOUS
    <2>. HIDE DEF nested
    <2>. QED
      BY <2>1, StageOutcome
  <1>3. Here.call \in Func \cup {NoCall}
    BY <1>1 DEF Instr
  <1>4. /\ states' \in Seq(State) /\ Len(states') = Len(states)
        /\ \/ callee' = NoCall /\ frames' = Past(frames)
           \/ callee' # NoCall /\ callee' = Here.call /\ frames' = frames
    <2>1. CASE Skipped
      <3>. DEFINE after == Counted(states[pos])
      <3>1. after \in State
        BY <1>1, CountedType
      <3>2. states' = [states EXCEPT ![pos] = after]
        BY <2>1 DEF Skipped
      <3>. HIDE DEF after
      <3>. QED
        BY <1>1, <2>1, <3>1, <3>2, ExceptSeq DEF Skipped
    <2>2. ASSUME NEW after \in State, Executed(after)
          PROVE  /\ states' \in Seq(State) /\ Len(states') = Len(states)
                 /\ \/ callee' = NoCall /\ frames' = Past(frames)
                    \/ callee' # NoCall /\ callee' = Here.call /\ frames' = frames
      BY <1>1, <2>2, ExceptSeq DEF Executed
    <2>. QED
      BY <1>2, <2>1, <2>2
  <1>5. frames' \in Seq(Frame) /\ Len(frames') = Len(frames) /\ OnlyNestedCalls'
    <2>1. CASE frames' = Past(frames)
      BY <1>1, <2>1, PastSafe
    <2>2. CASE frames' = frames
      BY <1>1, <2>2 DEF Safe, NestedOnly, OnlyNestedCalls
    <2>. QED
      BY <1>4, <2>1, <2>2
  <1>6. TypeOK'
    BY <1>1, <1>2, <1>3, <1>4, <1>5 DEF Safe, TypeOK, Frame
  <1>7. Control'
    <2>1. Len(frames') # 0 /\ frames' # <<>>
      BY <1>1, <1>5
    <2>. QED
      BY <1>1, <1>2, <2>1 DEF Control
  <1>8. NestedOnly'
    <2>1. ASSUME callee' # NoCall, allow_nested' PROVE Here'.op = "nested"
      <3>1. frames' = frames
        BY <1>4, <2>1
      <3>2. op = "nested"
        BY <1>2, <2>1
      <3>. QED
        BY <1>1, <3>1, <3>2 DEF Here, Top
    <2>. QED
      BY <1>5, <2>1 DEF NestedOnly
  <1>. QED
    BY <1>6, <1>7, <1>8 DEF Safe

\* LoopBegin() and LoopEnd() change the counters of the current level only.
LEMMA LoopOutcome ==
  ASSUME Safe, LoopBegin \/ LoopEnd
  PROVE  \E after \in State :
           /\ states' = [states EXCEPT ![pos] = after]
           /\ frames' = Past(frames)
           /\ UNCHANGED <<root, pos, allow_nested, callee, pc, ran>>
           /\ after.name = states[pos].name
           /\ after.current = states[pos].current + 1
           /\ \/ /\ Running("loopBegin")
                 /\ LET s == EnterLoop(states[pos])
                    IN /\ after.target = s.target
                       /\ after.loop_begin = s.loop_begin
                       /\ after.loop_end = s.loop_end
              \/ /\ Running("loopEnd")
                 /\ LET s == Rewind(NoteLoopEnd(states[pos]))
                    IN /\ after.target = s.target
                       /\ after.loop_begin = s.loop_begin
                       /\ after.loop_end = s.loop_end
  <1>. DEFINE begun == EnterLoop(states[pos])
              ended == Rewind(NoteLoopEnd(states[pos]))
  <1>1. states[pos] \in State
    BY RunningFacts DEF LoopBegin, LoopEnd
  <1>2. begun \in State /\ ended \in State
    <2>1. NoteLoopEnd(states[pos]) \in State /\ begun \in State
      BY <1>1, LevelTypes
    <2>. QED
      BY <2>1, LevelTypes
  <1>3. /\ begun.name = states[pos].name /\ begun.current = states[pos].current
        /\ ended.name = states[pos].name /\ ended.current = states[pos].current
    BY <1>1 DEF EnterLoop, Rewind, NoteLoopEnd, State
  <1>. DEFINE b == Counted(begun)
              e == Counted(ended)
  <1>4. CASE LoopBegin
    <2>1. /\ states' = [states EXCEPT ![pos] = b] /\ frames' = Past(frames)
          /\ UNCHANGED <<root, pos, allow_nested, callee, pc, ran>>
          /\ Running("loopBegin")
      BY <1>4 DEF LoopBegin
    <2>. HIDE DEF begun
    <2>2. /\ b \in State /\ b.name = begun.name /\ b.current = begun.current + 1
          /\ b.target = begun.target /\ b.loop_begin = begun.loop_begin
          /\ b.loop_end = begun.loop_end
      BY <1>2, CountedType
    <2>. HIDE DEF b
    <2>. QED
      BY <1>3, <2>1, <2>2 DEF begun
  <1>5. CASE LoopEnd
    <2>1. /\ states' = [states EXCEPT ![pos] = e] /\ frames' = Past(frames)
          /\ UNCHANGED <<root, pos, allow_nested, callee, pc, ran>>
          /\ Running("loopEnd")
      BY <1>5 DEF LoopEnd
    <2>. HIDE DEF ended
    <2>2. /\ e \in State /\ e.name = ended.name /\ e.current = ended.current + 1
          /\ e.target = ended.target /\ e.loop_begin = ended.loop_begin
          /\ e.loop_end = ended.loop_end
      BY <1>2, CountedType
    <2>. HIDE DEF e
    <2>. QED
      BY <1>3, <2>1, <2>2 DEF ended
  <1>. QED
    BY <1>4, <1>5

\* LoopBegin, LoopBreak and LoopEnd only touch the loop fields of the top counter.
LEMMA LoopSafe ==
  ASSUME Safe, LoopBegin \/ LoopEnd
  PROVE  Safe'
  <1>1. /\ frames # <<>> /\ pos = Len(frames) + 1 /\ pos \in 1 .. Len(states)
        /\ states \in Seq(State) /\ frames \in Seq(Frame)
        /\ pc = "running" /\ callee = NoCall
    BY RunningFacts DEF LoopBegin, LoopEnd
  <1>2. PICK after \in State :
          /\ states' = [states EXCEPT ![pos] = after]
          /\ frames' = Past(frames)
          /\ UNCHANGED <<root, pos, allow_nested, callee, pc>>
    BY LoopOutcome
  <1>3. states' \in Seq(State) /\ Len(states') = Len(states)
    BY <1>1, <1>2, ExceptSeq
  <1>4. frames' \in Seq(Frame) /\ Len(frames') = Len(frames) /\ OnlyNestedCalls'
    BY <1>1, <1>2, PastSafe
  <1>5. TypeOK'
    BY <1>1, <1>2, <1>3, <1>4 DEF Safe, TypeOK, Frame
  <1>6. Control'
    <2>1. frames' # <<>>
      BY <1>1, <1>4
    <2>. QED
      BY <1>1, <1>2, <2>1 DEF Control
  <1>7. NestedOnly'
    BY <1>1, <1>2, <1>4 DEF NestedOnly
  <1>. QED
    BY <1>5, <1>6, <1>7 DEF Safe

\* The level of a function that ends is kept or removed.
LEMMA FinishType ==
  ASSUME states \in Seq(State), pos \in 2 .. Len(states)
  PROVE  LET after == Finish(states[pos])
         IN /\ after \in Seq(State)
            /\ Len(after) \in {Len(states), pos - 1} /\ Len(after) >= pos - 1
            /\ pos < Len(states) => after = states
            /\ Len(after) = Len(states) \/ pos = Len(states)
            /\ \A j \in 1 .. Len(after) : j # pos => after[j] = states[j]
            /\ pos \in 1 .. Len(after) =>
                 /\ after[pos] \in State
                 /\ after[pos].name = states[pos].name
                 /\ after[pos].loop_begin = states[pos].loop_begin
                 /\ after[pos].loop_end = states[pos].loop_end
  <1>. DEFINE s == states[pos]
              next == Due(s)
  <1>1. s \in State
    OBVIOUS
  <1>2. /\ next \in State /\ next.name = s.name
        /\ next.loop_begin = s.loop_begin /\ next.loop_end = s.loop_end
    BY <1>1, DueType
  <1>3. CASE pos < Len(states)
    BY <1>1, <1>3 DEF Finish
  <1>4. CASE pos = Len(states) /\ Finish(s) = SubSeq(states, 1, pos - 1)
    <2>1. Len(states) > 0 /\ Finish(s) = SubSeq(states, 1, Len(states) - 1)
      BY <1>4
    <2>. QED
      BY <1>4, <2>1, Prefix
  <1>5. CASE pos = Len(states) /\ Finish(s) = [states EXCEPT ![pos] = next]
    <2>. HIDE DEF next
    <2>. QED
      BY <1>2, <1>5, ExceptSeq
  <1>6. \/ pos < Len(states)
        \/ pos = Len(states) /\ Finish(s) = SubSeq(states, 1, pos - 1)
        \/ pos = Len(states) /\ Finish(s) = [states EXCEPT ![pos] = next]
    BY DEF Finish
  <1>. QED
    BY <1>3, <1>4, <1>5, <1>6

\* What the end of a function does.
LEMMA SemEndOutcome ==
  ASSUME Safe, SemEnd
  PROVE  LET callers == SubSeq(frames, 1, Len(frames) - 1)
         IN /\ frames \in Seq(Frame) /\ Len(frames) > 0 /\ Top \in Frame
            /\ Top.ip = Len(Body[Top.fn])
            /\ pc = "running" /\ callee = NoCall
            /\ pos = Len(frames) + 1 /\ pos \in 2 .. Len(states)
            /\ states' = Finish(states[pos]) /\ pos' = pos - 1
            /\ callers \in Seq(Frame) /\ Len(callers) = Len(frames) - 1
            /\ \A k \in 1 .. Len(callers) : callers[k] = frames[k]
            /\ \/ /\ callers # <<>> /\ frames' = Past(callers) /\ pc' = pc
               \/ /\ callers = <<>> /\ frames' = <<>> /\ pc' \in {"idle", "finished"}
            /\ UNCHANGED <<root, allow_nested, callee, ran>>
  <1>1. pc = "running" /\ callee = NoCall /\ frames # <<>> /\ frames \in Seq(Frame)
    BY DEF SemEnd, Safe, Control, TypeOK, Frame
  <1>2. Len(frames) > 0 /\ Len(frames) \in 1 .. Len(frames)
    BY <1>1
  <1>3. Top \in Frame
    BY <1>1, <1>2 DEF Top
  <1>4. pos = Len(frames) + 1 /\ pos \in 2 .. Len(states)
    BY <1>1, <1>2 DEF Safe, TypeOK
  <1>. DEFINE callers == SubSeq(frames, 1, Len(frames) - 1)
  <1>5. /\ callers \in Seq(Frame) /\ Len(callers) = Len(frames) - 1
        /\ \A k \in 1 .. Len(callers) : callers[k] = frames[k]
    BY <1>1, <1>2, Prefix
  <1>6. \/ /\ callers # <<>> /\ frames' = Past(callers) /\ pc' = pc
        \/ /\ callers = <<>> /\ frames' = <<>> /\ pc' \in {"idle", "finished"}
    BY DEF SemEnd
  <1>. QED
    BY <1>1, <1>2, <1>3, <1>4, <1>5, <1>6 DEF SemEnd

\* Sem::~Sem pops its frame, and the counter above it when the function is done.
LEMMA SemEndSafe ==
  ASSUME Safe, SemEnd
  PROVE  Safe'
  <1>. DEFINE callers == SubSeq(frames, 1, Len(frames) - 1)
  <1>1. /\ frames \in Seq(Frame) /\ Len(frames) > 0
        /\ pc = "running" /\ callee = NoCall
        /\ pos = Len(frames) + 1 /\ pos \in 2 .. Len(states)
        /\ states' = Finish(states[pos]) /\ pos' = pos - 1
        /\ callers \in Seq(Frame) /\ Len(callers) = Len(frames) - 1
        /\ \A k \in 1 .. Len(callers) : callers[k] = frames[k]
        /\ \/ /\ callers # <<>> /\ frames' = Past(callers) /\ pc' = pc
           \/ /\ callers = <<>> /\ frames' = <<>> /\ pc' \in {"idle", "finished"}
        /\ UNCHANGED <<root, allow_nested, callee, ran>>
    BY SemEndOutcome
  <1>2. states \in Seq(State)
    BY DEF Safe, TypeOK
  <1>3. states' \in Seq(State) /\ Len(states') >= pos - 1 /\ Len(states') \in Nat
    BY <1>1, <1>2, FinishType
  <1>. HIDE DEF callers
  <1>4. /\ frames' \in Seq(Frame) /\ Len(frames') = Len(frames) - 1
        /\ \A k \in 1 .. Len(frames') - 1 : frames'[k] = frames[k]
    <2>1. CASE callers # <<>>
      <3>1. /\ Past(callers) \in Seq(Frame) /\ Len(Past(callers)) = Len(callers)
            /\ \A j \in 1 .. Len(callers) - 1 : Past(callers)[j] = callers[j]
        BY <1>1, <2>1, PastType
      <3>2. frames' = Past(callers)
        BY <1>1, <2>1
      <3>3. Len(callers) = Len(frames) - 1 /\ Len(callers) \in Nat
            /\ \A k \in 1 .. Len(callers) : callers[k] = frames[k]
        BY <1>1
      <3>. QED
        BY <3>1, <3>2, <3>3
    <2>2. CASE callers = <<>>
      <3>1. frames' = <<>>
        BY <1>1, <2>2
      <3>2. Len(callers) = 0
        BY <2>2
      <3>3. Len(frames) \in Nat /\ Len(callers) = Len(frames) - 1
        BY <1>1
      <3>. QED
        BY <3>1, <3>2, <3>3
    <2>. QED
      BY <2>1, <2>2
  <1>5. TypeOK'
    BY <1>1, <1>3, <1>4 DEF Safe, TypeOK, Frame
  <1>6. Control'
    <2>1. CASE callers # <<>>
      <3>1. frames' # <<>>
        BY <1>1, <1>4, <2>1
      <3>. QED
        BY <1>1, <3>1, <2>1 DEF Control
    <2>2. CASE callers = <<>>
      BY <1>1, <2>2 DEF Control
    <2>. QED
      BY <2>1, <2>2
  <1>7. OnlyNestedCalls'
    <2>1. Len(frames) \in Nat /\ Len(frames') \in Nat
      BY <1>1, <1>4
    <2>2. ASSUME NEW k \in 1 .. Len(frames') - 1
          PROVE  InstrAt(frames'[k].fn, frames'[k].ip).op = "nested"
      <3>1. k \in 1 .. Len(frames) - 1 /\ frames'[k] = frames[k]
        BY <1>4, <2>1
      <3>2. OnlyNestedCalls
        BY DEF Safe, NestedOnly
      <3>. QED
        BY <3>1, <3>2 DEF OnlyNestedCalls
    <2>. QED
      BY <2>2 DEF OnlyNestedCalls
  <1>8. NestedOnly'
    <2>1. callee' = NoCall
      BY <1>1
    <2>. QED
      BY <1>7, <2>1 DEF NestedOnly
  <1>. QED
    BY <1>5, <1>6, <1>8 DEF Safe

\* Every step preserves Safe: one case per action.
LEMMA SafeNext ==
  ASSUME Safe, [Next]_vars
  PROVE  Safe'
  <1>1. CASE Call
    BY <1>1, CallSafe
  <1>2. CASE SemBegin
    BY <1>2, SemBeginSafe
  <1>3. CASE PlainStage
    <2>1. Running("stage") /\ Stage("stage" = "nested")
      BY <1>3 DEF PlainStage
    <2>. QED
      BY <2>1, StageSafe
  <1>4. CASE NestedStage
    <2>1. Running("nested") /\ Stage("nested" = "nested")
      BY <1>4 DEF NestedStage
    <2>. QED
      BY <2>1, StageSafe
  <1>5. CASE LoopBegin
    BY <1>5, LoopSafe
  <1>6. CASE LoopEnd
    BY <1>6, LoopSafe
  <1>7. CASE SemEnd
    BY <1>7, SemEndSafe
  <1>8. CASE UNCHANGED vars
    BY <1>8 DEF vars, Safe, TypeOK, Control, NestedOnly, OnlyNestedCalls, Here, Top
  <1>. QED
    BY <1>1, <1>2, <1>3, <1>4, <1>5, <1>6, <1>7, <1>8 DEF Next, Halted

\* The counters, the iterator pos_ and the C++ stack keep their types, and
\* pos_ points to the level of the function that runs, for every program.
THEOREM Types == Spec => []TypeOK
  <1>1. Init => Safe
    BY SafeInit
  <1>2. Safe /\ [Next]_vars => Safe'
    BY SafeNext
  <1>3. Safe => TypeOK
    BY DEF Safe
  <1>. QED
    BY <1>1, <1>2, <1>3, PTL DEF Spec

\* No function runs that was called from a plain stage, for every program:
\* the fassert of Sem is strong enough.
THEOREM OnlyNestedCallsRun == Spec => []OnlyNestedCalls
  <1>1. Init => Safe
    BY SafeInit
  <1>2. Safe /\ [Next]_vars => Safe'
    BY SafeNext
  <1>3. Safe => OnlyNestedCalls
    BY DEF Safe, NestedOnly
  <1>. QED
    BY <1>1, <1>2, <1>3, PTL DEF Spec

-----------------------------------------------------------------------------
(***************************************************************************)
(* Counters and levels, for programs with the shape of the loops in the    *)
(* repository.                                                             *)
(***************************************************************************)

\* The initial state satisfies the invariant on levels.
LEMMA InvInit == Init => Inv
  <1>. SUFFICES ASSUME Init PROVE Inv
    OBVIOUS
  <1>1. Safe
    BY SafeInit
  <1>2. frames = <<>> /\ pc = "idle" /\ ran = <<>> /\ states = <<NewState(-1, -1, NoCall)>>
    BY DEF Init
  <1>3. Len(frames) = 0 /\ Len(states) = 1
    BY <1>2
  <1>4. FramesCount /\ LevelsWait
    BY <1>3 DEF FramesCount, LevelsWait
  <1>5. RestSpent
    BY <1>2 DEF RestSpent
  <1>. QED
    BY <1>1, <1>4, <1>5 DEF Inv

\* The level of the function that runs.
LEMMA TopCounts ==
  ASSUME Inv, NEW op, Running(op)
  PROVE  /\ states[pos].name = Top.fn
         /\ states[pos].current = Top.ip
         /\ states[pos].current \in Index(states[pos].name)
         /\ InstrAt(states[pos].name, states[pos].current) = Here
         /\ OwnLoop(states[pos])
         /\ pos \in 2 .. Len(states)
         /\ pos < Len(states) => WaitsFor(states[pos], states[pos + 1].name)
  <1>1. /\ Len(frames) \in 1 .. Len(frames) /\ callee = NoCall
        /\ pos = Len(frames) + 1 /\ pos \in 1 .. Len(states) /\ Top.ip \in Index(Top.fn)
        /\ states \in Seq(State)
    BY RunningFacts DEF Inv
  <1>2. Counts(frames[Len(frames)], states[pos])
    BY <1>1 DEF Inv, FramesCount, Inside
  <1>3. states[pos].name = Top.fn /\ states[pos].current = Top.ip
    BY <1>2 DEF Counts, Top
  <1>4. pos \in 2 .. Len(states)
    BY <1>1
  <1>5. OwnLoop(states[pos]) /\ (pos < Len(states) => WaitsFor(states[pos], states[pos + 1].name))
    BY <1>1, <1>4 DEF Inv, LevelsWait
  <1>. QED
    BY <1>1, <1>3, <1>4, <1>5 DEF Here

\* A new state of the current level leaves the other levels waiting.
LEMMA LevelReplaced ==
  ASSUME Inv, NEW op, Running(op), NEW after \in State,
         states' = [states EXCEPT ![pos] = after], root' = root,
         after.name = states[pos].name, OwnLoop(after),
         pos < Len(states) => after.target = states[pos].target
  PROVE  LevelsWait'
  <1>1. states \in Seq(State) /\ pos \in 2 .. Len(states)
    BY TopCounts, RunningFacts DEF Inv
  <1>2. /\ Len(states') = Len(states)
        /\ \A j \in 1 .. Len(states) : states'[j] = IF j = pos THEN after ELSE states[j]
    BY <1>1, ExceptSeq
  <1>3. \A j \in 1 .. Len(states) : states'[j].name = states[j].name
    BY <1>2
  <1>4. Len(states') > 1 => states'[2].name = root
    BY <1>1, <1>2, <1>3 DEF Inv, LevelsWait
  <1>5. \A k \in 2 .. Len(states') : OwnLoop(states'[k])
    BY <1>1, <1>2 DEF Inv, LevelsWait
  <1>6. ASSUME NEW k \in 2 .. Len(states') - 1
        PROVE  WaitsFor(states'[k], states'[k + 1].name)
    <2>1. WaitsFor(states[k], states[k + 1].name)
      BY <1>1, <1>2 DEF Inv, LevelsWait
    <2>2. states'[k].target = states[k].target
      BY <1>1, <1>2
    <2>3. states'[k].name = states[k].name /\ states'[k + 1].name = states[k + 1].name
      BY <1>1, <1>2, <1>3
    <2>. QED
      BY <2>1, <2>2, <2>3 DEF WaitsFor
  <1>. QED
    BY <1>4, <1>5, <1>6 DEF LevelsWait

\* The function that runs has passed an instruction.
LEMMA FramesMoved ==
  ASSUME Inv, NEW op, Running(op), NEW after \in State,
         states' = [states EXCEPT ![pos] = after],
         frames' = Past(frames), callee' = NoCall,
         after.name = states[pos].name, after.current = states[pos].current + 1
  PROVE  FramesCount'
  <1>1. /\ states \in Seq(State) /\ pos \in 1 .. Len(states) /\ pos = Len(frames) + 1
        /\ frames \in Seq(Frame) /\ frames # <<>> /\ Len(frames) \in 1 .. Len(frames)
        /\ Top \in Frame
    BY RunningFacts DEF Inv
  <1>2. /\ Len(frames') = Len(frames)
        /\ \A j \in 1 .. Len(frames) - 1 : frames'[j] = frames[j]
        /\ frames'[Len(frames)] = [fn |-> Top.fn, ip |-> Top.ip + 1]
    BY <1>1, PastType DEF Top
  <1>3. \A j \in 1 .. Len(states) : states'[j] = IF j = pos THEN after ELSE states[j]
    BY <1>1, ExceptSeq
  <1>4. /\ frames'[Len(frames)].fn = Top.fn /\ frames'[Len(frames)].ip = Top.ip + 1
    BY <1>2
  <1>5. \A j \in 1 .. Len(frames) : frames'[j].fn = frames[j].fn
    BY <1>1, <1>2, <1>4 DEF Top
  <1>6. ASSUME NEW k \in 1 .. Len(frames), k < Len(frames)
        PROVE  CountsCall(frames'[k], states'[k + 1], frames'[k + 1].fn)
    <2>1. CountsCall(frames[k], states[k + 1], frames[k + 1].fn)
      BY <1>6 DEF Inv, FramesCount, Inside, CalleeOf
    <2>2. k + 1 \in 1 .. Len(frames) /\ k + 1 # pos /\ k + 1 \in 1 .. Len(states)
      BY <1>1, <1>6
    <2>3. frames'[k] = frames[k] /\ frames'[k + 1].fn = frames[k + 1].fn
          /\ states'[k + 1] = states[k + 1]
      BY <1>1, <1>2, <1>3, <1>5, <1>6, <2>2
    <2>. QED
      BY <2>1, <2>3
  <1>7. Counts(frames'[Len(frames)], states'[pos])
    <2>1. states'[pos] = after
      BY <1>1, <1>3
    <2>. QED
      BY <1>4, <2>1, TopCounts DEF Counts
  <1>8. ASSUME NEW k \in 1 .. Len(frames')
        PROVE  IF k < Len(frames') \/ callee' # NoCall
               THEN CountsCall(frames'[k], states'[k + 1],
                               IF k < Len(frames') THEN frames'[k + 1].fn ELSE callee')
               ELSE Counts(frames'[k], states'[k + 1])
    <2>1. CASE k < Len(frames)
      BY <1>2, <1>6, <2>1
    <2>2. CASE k = Len(frames)
      BY <1>1, <1>2, <1>7, <2>2
    <2>. QED
      BY <1>1, <1>2, <2>1, <2>2
  <1>. QED
    BY <1>8 DEF FramesCount, Inside, CalleeOf

\* The function that runs has made a call.
LEMMA FramesCalled ==
  ASSUME Inv, NEW op, Running(op), NEW after \in State,
         states' = [states EXCEPT ![pos] = after],
         frames' = frames, callee' = Here.call, callee' # NoCall,
         states[pos].current = states[pos].target,
         after.name = states[pos].name, after.current = states[pos].current + 1,
         after.target = states[pos].target
  PROVE  FramesCount'
  <1>1. /\ states \in Seq(State) /\ pos \in 1 .. Len(states) /\ pos = Len(frames) + 1
        /\ frames \in Seq(Frame) /\ Len(frames) \in 1 .. Len(frames)
        /\ Top.ip \in Index(Top.fn)
    BY RunningFacts DEF Inv
  <1>2. \A j \in 1 .. Len(states) : states'[j] = IF j = pos THEN after ELSE states[j]
    BY <1>1, ExceptSeq
  <1>3. ASSUME NEW k \in 1 .. Len(frames), k < Len(frames)
        PROVE  CountsCall(frames[k], states'[k + 1], frames[k + 1].fn)
    <2>1. CountsCall(frames[k], states[k + 1], frames[k + 1].fn)
      BY <1>3 DEF Inv, FramesCount, Inside, CalleeOf
    <2>2. states'[k + 1] = states[k + 1]
      BY <1>1, <1>2, <1>3
    <2>. QED
      BY <2>1, <2>2
  <1>4. CountsCall(frames[Len(frames)], states'[pos], callee')
    <2>1. states'[pos] = after
      BY <1>1, <1>2
    <2>. QED
      BY <1>1, <2>1, TopCounts DEF CountsCall, Top, Here
  <1>5. ASSUME NEW k \in 1 .. Len(frames')
        PROVE  IF k < Len(frames') \/ callee' # NoCall
               THEN CountsCall(frames'[k], states'[k + 1],
                               IF k < Len(frames') THEN frames'[k + 1].fn ELSE callee')
               ELSE Counts(frames'[k], states'[k + 1])
    <2>1. CASE k < Len(frames)
      BY <1>3, <2>1
    <2>2. CASE k = Len(frames)
      BY <1>1, <1>4, <2>2
    <2>. QED
      BY <1>1, <2>1, <2>2
  <1>. QED
    BY <1>5 DEF FramesCount, Inside, CalleeOf

\* After a stage has run, no level of the call has its turn again: the case of
\* a new state of the current level.
LEMMA SpentReplaced ==
  ASSUME Inv, NEW op, Running(op), NEW after \in State,
         states' = [states EXCEPT ![pos] = after],
         Len(frames') = Len(frames), pc' = pc, ran' = ran, callee' = NoCall,
         ran # <<>> => Spent(after)
  PROVE  RestSpent'
  <1>1. /\ states \in Seq(State) /\ pos \in 1 .. Len(states) /\ pos = Len(frames) + 1
        /\ Len(frames) \in 1 .. Len(frames) /\ pc = "running"
    BY RunningFacts DEF Inv
  <1>2. \A j \in 1 .. Len(states) : states'[j] = IF j = pos THEN after ELSE states[j]
    BY <1>1, ExceptSeq
  <1>3. ASSUME ran # <<>>, NEW k \in 1 .. Len(frames)
        PROVE  Spent(states'[k + 1])
    <2>1. CASE k + 1 = pos
      BY <1>1, <1>2, <1>3, <2>1
    <2>2. CASE k + 1 # pos
      <3>1. Spent(states[k + 1])
        BY <1>1, <1>3 DEF Inv, RestSpent
      <3>2. states'[k + 1] = states[k + 1]
        BY <1>1, <1>2, <2>2
      <3>. QED
        BY <3>1, <3>2
    <2>. QED
      BY <2>1, <2>2
  <1>4. ran = <<>> \/ Len(ran) = 1
    BY DEF Inv, RestSpent
  <1>. QED
    BY <1>3, <1>4 DEF RestSpent

\* A stage has its turn only if no stage has run in this call.
LEMMA TurnIsFirst ==
  ASSUME Inv, NEW op \in {"stage", "nested"}, Running(op),
         states[pos].current = states[pos].target
  PROVE  ran = <<>>
  <1>. SUFFICES ASSUME ran # <<>> PROVE FALSE
    OBVIOUS
  <1>. DEFINE s == states[pos]
  <1>1. /\ pc = "running" /\ pos = Len(frames) + 1 /\ Len(frames) \in 1 .. Len(frames)
        /\ Here.op = op /\ s \in State
    BY RunningFacts DEF Inv
  <1>2. Spent(s)
    BY <1>1 DEF Inv, RestSpent
  <1>3. InstrAt(s.name, s.current) = Here /\ s.current \in Index(s.name)
    BY TopCounts
  <1>4. ~(s.current > s.target)
    BY <1>1 DEF State
  <1>5. HasStages(s.name)
    BY <1>1, <1>3 DEF HasStages, IsStage
  <1>6. InstrAt(s.name, s.target).op # "loopEnd"
    BY <1>1, <1>3
  <1>. QED
    BY <1>2, <1>4, <1>5, <1>6 DEF Spent

\* A stage has run.
LEMMA SpentExecuted ==
  ASSUME Inv, NEW op \in {"stage", "nested"}, Running(op), NEW after \in State,
         Executed(after), pc' = pc
  PROVE  RestSpent'
  <1>. DEFINE s == states[pos]
  <1>1. /\ states \in Seq(State) /\ pos \in 1 .. Len(states) /\ pos = Len(frames) + 1
        /\ Len(frames) \in 1 .. Len(frames) /\ pc = "running" /\ s \in State
        /\ frames \in Seq(Frame) /\ frames # <<>>
    BY RunningFacts DEF Inv
  <1>2. /\ s.current = s.target /\ states' = [states EXCEPT ![pos] = after]
        /\ after.name = s.name /\ after.current = s.current + 1
        /\ after.loop_end = s.loop_end
        /\ after.target = s.target \/ (Here.brk /\ after.target = s.loop_end)
        /\ callee' = Here.call
        /\ frames' = IF Here.call = NoCall THEN Past(frames) ELSE frames
    BY DEF Executed
  <1>3. ran = <<>>
    BY <1>2, TurnIsFirst
  <1>4. \/ ran' = <<>>
        \/ Len(ran') = 1 /\ (callee' # NoCall => ~HasStages(callee'))
    <2>1. CASE ran' = ran
      BY <1>3, <2>1
    <2>2. CASE /\ \E e : ran' = Append(ran, e)
               /\ Here.call # NoCall => ~HasStages(Here.call)
      <3>1. PICK e : ran' = Append(<<>>, e)
        BY <1>3, <2>2
      <3>2. Len(ran') = 1
        BY <3>1
      <3>. QED
        BY <1>2, <2>2, <3>2
    <2>. QED
      BY <2>1, <2>2 DEF Executed
  <1>5. Len(frames') = Len(frames)
    BY <1>1, <1>2, PastType
  <1>6. \A j \in 1 .. Len(states) : states'[j] = IF j = pos THEN after ELSE states[j]
    BY <1>1, <1>2, ExceptSeq
  <1>7. Spent(after)
    <2>1. s.current \in Nat /\ OwnLoop(s)
      <3>1. s.current \in Index(s.name) /\ OwnLoop(s)
        BY TopCounts
      <3>2. s.current \in Int
        BY <1>1 DEF State
      <3>. QED
        BY <3>1, <3>2 DEF Index
    <2>2. CASE after.target = s.target
      BY <1>2, <2>1, <2>2 DEF Spent
    <2>3. CASE after.target = s.loop_end /\ s.loop_end = -1
      BY <1>2, <2>1, <2>3 DEF Spent
    <2>4. CASE after.target = s.loop_end /\ s.loop_end # -1
      BY <1>2, <2>1, <2>4 DEF Spent, OwnLoop
    <2>. QED
      BY <1>2, <2>2, <2>3, <2>4
  <1>8. ASSUME NEW k \in 1 .. Len(frames)
        PROVE  Spent(states'[k + 1])
    <2>1. CASE k = Len(frames)
      BY <1>1, <1>6, <1>7, <2>1
    <2>2. CASE k < Len(frames)
      <3>1. CountsCall(frames[k], states[k + 1], frames[k + 1].fn)
        BY <2>2 DEF Inv, FramesCount, Inside, CalleeOf
      <3>2. states'[k + 1] = states[k + 1] /\ frames[k] \in Frame
        BY <1>1, <1>6, <2>2
      <3>3. states[k + 1].current > states[k + 1].target
        BY <3>1, <3>2 DEF CountsCall, Frame
      <3>. QED
        BY <3>2, <3>3 DEF Spent
    <2>. QED
      BY <1>1, <2>1, <2>2
  <1>. QED
    BY <1>4, <1>5, <1>8 DEF RestSpent

\* Only a level without lower levels breaks its loop.
LEMMA BreakIsLast ==
  ASSUME Inv, Shape, NEW op, Running(op), Here.brk,
         states[pos].current = states[pos].target
  PROVE  pos = Len(states) /\ Here.call = NoCall
  <1>1. /\ Top.fn \in Func /\ Top.ip \in Index(Top.fn) /\ pos \in 1 .. Len(states)
        /\ Here.op = op /\ states \in Seq(State)
    BY RunningFacts DEF Inv
  <1>2. Here.op = "stage" /\ Here.call = NoCall
    BY <1>1 DEF Shape, PlainBreaks, Here
  <1>3. pos < Len(states) => Here.op = "nested"
    BY TopCounts DEF WaitsFor
  <1>. QED
    BY <1>1, <1>2, <1>3

\* A stage that is skipped, run or entered keeps every level between the counters of its frame.
LEMMA StageInv ==
  ASSUME Inv, Shape, NEW op \in {"stage", "nested"}, Running(op), Stage(op = "nested")
  PROVE  Inv'
  <1>. DEFINE nested == op = "nested"
              s == states[pos]
  <1>1. /\ Skipped \/ \E after \in State : Executed(after)
        /\ UNCHANGED <<root, pos, pc>>
    <2>1. Stage(nested)
      OBVIOUS
    <2>. HIDE DEF nested
    <2>. QED
      BY <2>1, StageOutcome DEF Inv
  <1>2. Safe'
    BY StageSafe DEF Inv
  <1>3. /\ s \in State /\ frames \in Seq(Frame) /\ frames # <<>> /\ pos \in 1 .. Len(states)
        /\ OwnLoop(s) /\ Len(frames) \in 1 .. Len(frames) /\ pc = "running"
        /\ pos = Len(frames) + 1
    BY RunningFacts, TopCounts DEF Inv
  <1>4. Len(Past(frames)) = Len(frames)
    BY <1>3, PastType
  <1>5. CASE Skipped
    <2>. DEFINE after == Counted(s)
    <2>1. /\ after \in State /\ after.name = s.name /\ after.current = s.current + 1
          /\ after.target = s.target /\ OwnLoop(after)
      BY <1>3, CountedType DEF OwnLoop
    <2>2. states' = [states EXCEPT ![pos] = after]
      BY <1>5 DEF Skipped
    <2>3. Spent(s) => Spent(after)
      BY <1>3, <2>1 DEF Spent, State
    <2>. HIDE DEF after
    <2>4. frames' = Past(frames) /\ callee' = NoCall /\ ran' = ran
      BY <1>5 DEF Skipped
    <2>5. FramesCount'
      BY <2>1, <2>2, <2>4, FramesMoved
    <2>6. LevelsWait'
      BY <1>1, <2>1, <2>2, LevelReplaced
    <2>7. ran # <<>> => Spent(s)
      BY <1>3 DEF Inv, RestSpent
    <2>8. RestSpent'
      BY <1>1, <1>4, <2>1, <2>2, <2>3, <2>4, <2>7, SpentReplaced
    <2>. QED
      BY <1>2, <2>5, <2>6, <2>8 DEF Inv
  <1>6. ASSUME NEW after \in State, Executed(after)
        PROVE  Inv'
    <2>1. /\ s.current = s.target /\ states' = [states EXCEPT ![pos] = after]
          /\ after.name = s.name /\ after.current = s.current + 1
          /\ after.loop_begin = s.loop_begin /\ after.loop_end = s.loop_end
          /\ after.target = s.target \/ (Here.brk /\ after.target = s.loop_end)
          /\ callee' = Here.call
          /\ frames' = IF Here.call = NoCall THEN Past(frames) ELSE frames
      BY <1>6 DEF Executed
    <2>2. OwnLoop(after)
      BY <1>3, <2>1 DEF OwnLoop
    <2>3. Here.brk => pos = Len(states) /\ Here.call = NoCall
      BY <2>1, BreakIsLast
    <2>4. LevelsWait'
      <3>1. pos < Len(states) => after.target = s.target
        BY <2>1, <2>3
      <3>. QED
        BY <1>1, <2>1, <2>2, <3>1, LevelReplaced
    <2>5. FramesCount'
      <3>1. CASE Here.call = NoCall
        BY <2>1, <3>1, FramesMoved
      <3>2. CASE Here.call # NoCall
        BY <2>1, <2>3, <3>2, FramesCalled
      <3>. QED
        BY <3>1, <3>2
    <2>6. RestSpent'
      BY <1>1, <1>6, SpentExecuted
    <2>. QED
      BY <1>2, <2>4, <2>5, <2>6 DEF Inv
  <1>. QED
    BY <1>1, <1>5, <1>6

\* LoopBegin() records a loop of its function, and moves the target of a level
\* only if the level has no lower ones.
LEMMA EnterLoopKeeps ==
  ASSUME Inv, Running("loopBegin"), NEW after \in State,
         after.name = states[pos].name,
         after.current = states[pos].current + 1,
         after.target = EnterLoop(states[pos]).target,
         after.loop_begin = EnterLoop(states[pos]).loop_begin,
         after.loop_end = EnterLoop(states[pos]).loop_end
  PROVE  /\ OwnLoop(after)
         /\ pos < Len(states) => after.target = states[pos].target
         /\ ran # <<>> => Spent(after)
  <1>. DEFINE s == states[pos]
  <1>1. /\ s \in State /\ Here.op = "loopBegin" /\ pos = Len(frames) + 1
        /\ Len(frames) \in 1 .. Len(frames) /\ pc = "running"
    BY RunningFacts DEF Inv
  <1>2. /\ s.current \in Index(s.name) /\ InstrAt(s.name, s.current) = Here
        /\ OwnLoop(s) /\ (pos < Len(states) => WaitsFor(s, states[pos + 1].name))
    BY TopCounts
  <1>3. CASE s.current # s.target
    <2>1. EnterLoop(s) = s
      BY <1>3 DEF EnterLoop
    <2>2. OwnLoop(after) /\ after.target = s.target
      BY <1>2, <2>1 DEF OwnLoop
    <2>3. ran # <<>> => Spent(s)
      BY <1>1 DEF Inv, RestSpent
    <2>4. Spent(s) => Spent(after)
      BY <1>1, <2>2 DEF Spent, State
    <2>. QED
      BY <2>2, <2>3, <2>4
  <1>4. CASE s.current = s.target
    <2>1. /\ after.target = s.current + 1 /\ after.loop_end = s.loop_end
          /\ after.loop_begin \in {s.loop_begin, s.current}
      BY <1>1, <1>4 DEF EnterLoop, State
    <2>2. OwnLoop(after)
      BY <1>1, <1>2, <2>1 DEF OwnLoop
    <2>3. ~(pos < Len(states))
      BY <1>1, <1>2, <1>4 DEF WaitsFor
    <2>4. ran # <<>> => ~HasStages(s.name)
      <3>1. ran # <<>> => Spent(s)
        BY <1>1 DEF Inv, RestSpent
      <3>2. ~(s.current > s.target)
        BY <1>1, <1>4 DEF State
      <3>3. InstrAt(s.name, s.target).op # "loopEnd"
        BY <1>1, <1>2, <1>4
      <3>. QED
        BY <3>1, <3>2, <3>3 DEF Spent
    <2>. QED
      BY <2>2, <2>3, <2>4 DEF Spent
  <1>. QED
    BY <1>3, <1>4

\* So does LoopEnd(), if the loop does not end with a call; it starts a loop
\* again only at an instruction that has been passed.
LEMMA RewindKeeps ==
  ASSUME Inv, Shape, Running("loopEnd"), NEW after \in State,
         after.name = states[pos].name,
         after.current = states[pos].current + 1,
         after.target = Rewind(NoteLoopEnd(states[pos])).target,
         after.loop_begin = Rewind(NoteLoopEnd(states[pos])).loop_begin,
         after.loop_end = Rewind(NoteLoopEnd(states[pos])).loop_end
  PROVE  /\ OwnLoop(after)
         /\ pos < Len(states) => after.target = states[pos].target
         /\ ran # <<>> => Spent(after)
  <1>. DEFINE s == states[pos]
              noted == NoteLoopEnd(s)
  <1>1. /\ s \in State /\ Here.op = "loopEnd" /\ pos = Len(frames) + 1
        /\ Len(frames) \in 1 .. Len(frames) /\ pc = "running"
        /\ Top.fn \in Func
    BY RunningFacts DEF Inv
  <1>2. /\ s.current \in Index(s.name) /\ InstrAt(s.name, s.current) = Here
        /\ s.name = Top.fn
        /\ OwnLoop(s) /\ (pos < Len(states) => WaitsFor(s, states[pos + 1].name))
    BY TopCounts
  <1>3. s.current \in Nat /\ s.target \in Int /\ s.loop_begin \in Int
    <2>1. s.current \in Int /\ s.target \in Int /\ s.loop_begin \in Int
      BY <1>1 DEF State
    <2>. QED
      BY <1>2, <2>1 DEF Index
  <1>4. /\ noted.current = s.current /\ noted.target = s.target
        /\ noted.loop_begin = s.loop_begin
        /\ noted.loop_end \in {s.loop_end, s.current} /\ noted \in State
    <2>1. noted \in State
      BY <1>1, LevelTypes
    <2>. QED
      BY <1>1, <2>1 DEF NoteLoopEnd, State
  <1>. HIDE DEF noted
  <1>5. /\ after.loop_begin = s.loop_begin /\ after.loop_end = noted.loop_end
        /\ after.target = IF s.current = s.target + 1 THEN s.loop_begin ELSE s.target
    BY <1>4 DEF Rewind, State, noted
  <1>6. OwnLoop(after)
    BY <1>1, <1>2, <1>4, <1>5 DEF OwnLoop
  <1>7. pos < Len(states) => after.target = s.target
    <2>. SUFFICES ASSUME pos < Len(states), s.current = s.target + 1 PROVE FALSE
      BY <1>5
    <2>1. InstrAt(s.name, s.target).op = "nested"
      BY <1>2 DEF WaitsFor
    <2>2. s.target = s.current - 1
      BY <1>3
    <2>3. InstrAt(s.name, s.current - 1).op # "nested"
      BY <1>1, <1>2 DEF Shape, LoopsEndPlain
    <2>. QED
      BY <2>1, <2>2, <2>3
  <1>8. ran # <<>> => Spent(after)
    <2>1. CASE s.current # s.target + 1
      <3>1. ran # <<>> => Spent(s)
        BY <1>1 DEF Inv, RestSpent
      <3>2. after.target = s.target
        BY <1>5, <2>1
      <3>3. Spent(s) => Spent(after)
        BY <1>3, <3>2 DEF Spent
      <3>. QED
        BY <3>1, <3>3
    <2>2. CASE s.current = s.target + 1
      <3>1. after.target = s.loop_begin /\ after.current = s.current + 1
        BY <1>5, <2>2
      <3>2. CASE s.loop_begin = -1
        BY <1>3, <3>1, <3>2 DEF Spent
      <3>3. CASE s.loop_begin # -1
        <4>1. s.loop_begin \in Index(s.name) /\ InstrAt(s.name, s.loop_begin).op = "loopBegin"
          BY <1>2, <3>3 DEF OwnLoop
        <4>2. s.loop_begin < s.current
          BY <1>1, <1>2, <4>1 DEF Shape, OneLoop
        <4>. QED
          BY <1>3, <3>1, <4>2 DEF Spent
      <3>. QED
        BY <3>2, <3>3
    <2>. QED
      BY <2>1, <2>2
  <1>. QED
    BY <1>6, <1>7, <1>8

\* The loops keep the levels: a jump back ends at a stage that was counted.
LEMMA LoopInv ==
  ASSUME Inv, Shape, LoopBegin \/ LoopEnd
  PROVE  Inv'
  <1>1. Safe' /\ frames # <<>> /\ frames \in Seq(Frame) /\ callee = NoCall
    BY LoopSafe, RunningFacts DEF Inv, LoopBegin, LoopEnd
  <1>2. PICK after \in State :
          /\ states' = [states EXCEPT ![pos] = after]
          /\ frames' = Past(frames)
          /\ UNCHANGED <<root, pos, allow_nested, callee, pc, ran>>
          /\ after.name = states[pos].name
          /\ after.current = states[pos].current + 1
          /\ \/ /\ Running("loopBegin")
                /\ LET s == EnterLoop(states[pos])
                   IN /\ after.target = s.target
                      /\ after.loop_begin = s.loop_begin
                      /\ after.loop_end = s.loop_end
             \/ /\ Running("loopEnd")
                /\ LET s == Rewind(NoteLoopEnd(states[pos]))
                   IN /\ after.target = s.target
                      /\ after.loop_begin = s.loop_begin
                      /\ after.loop_end = s.loop_end
    BY LoopOutcome DEF Inv
  <1>3. /\ OwnLoop(after)
        /\ pos < Len(states) => after.target = states[pos].target
        /\ ran # <<>> => Spent(after)
    BY <1>2, EnterLoopKeeps, RewindKeeps
  <1>4. PICK op \in {"loopBegin", "loopEnd"} : Running(op)
    BY <1>2
  <1>5. FramesCount'
    BY <1>1, <1>2, <1>4, FramesMoved
  <1>6. LevelsWait'
    BY <1>2, <1>3, <1>4, LevelReplaced
  <1>7. Len(frames') = Len(frames)
    BY <1>1, <1>2, PastType
  <1>8. RestSpent'
    BY <1>1, <1>2, <1>3, <1>4, <1>7, SpentReplaced
  <1>. QED
    BY <1>1, <1>5, <1>6, <1>8 DEF Inv

\* A call of the driver finds the levels of a function that is suspended, or none.
LEMMA CallInv ==
  ASSUME Inv, Call
  PROVE  Inv'
  <1>1. Safe'
    BY CallSafe DEF Inv
  <1>2. /\ frames = <<>> /\ ran' = <<>> /\ UNCHANGED <<root, states, frames>>
    BY DEF Call, Inv, Safe, Control
  <1>3. Len(frames') = 0
    BY <1>2
  <1>4. FramesCount' /\ LevelsWait'
    BY <1>2, <1>3 DEF FramesCount, LevelsWait, Inv
  <1>5. RestSpent'
    BY <1>2 DEF RestSpent
  <1>. QED
    BY <1>1, <1>4, <1>5 DEF Inv

\* A function that begins finds the level that was made for it.
LEMMA LevelFound ==
  ASSUME Inv, callee # NoCall, pc = "running", MayEnter
  PROVE  /\ frames # <<>> => WaitsFor(states[pos], callee)
         /\ frames = <<>> => callee = root
         /\ pos < Len(states) => states[pos + 1].name = callee
  <1>1. /\ states \in Seq(State) /\ pos \in 1 .. Len(states) /\ pos = Len(frames) + 1
        /\ frames \in Seq(Frame)
    BY DEF Inv, Safe, TypeOK, Frame
  <1>2. CASE frames = <<>>
    <2>1. callee = root /\ pos = 1
      BY <1>1, <1>2 DEF Inv, Safe, Control
    <2>2. Len(states) > 1 => states[2].name = root
      BY DEF Inv, LevelsWait
    <2>. QED
      BY <1>1, <1>2, <2>1, <2>2
  <1>3. CASE frames # <<>>
    <2>1. Len(frames) \in 1 .. Len(frames) /\ pos # 1
      BY <1>1, <1>3
    <2>2. allow_nested /\ Here.op = "nested"
      BY <1>3, <2>1 DEF MayEnter, Inv, Safe, NestedOnly
    <2>3. CountsCall(Top, states[pos], callee)
      BY <1>1, <2>1 DEF Inv, FramesCount, Inside, CalleeOf, Top
    <2>4. WaitsFor(states[pos], callee)
      BY <2>2, <2>3 DEF CountsCall, WaitsFor, Here
    <2>5. pos < Len(states) => states[pos + 1].name = callee
      <3>1. pos < Len(states) => WaitsFor(states[pos], states[pos + 1].name)
        BY <1>1, <2>1 DEF Inv, LevelsWait
      <3>. QED
        BY <2>4, <3>1 DEF WaitsFor
    <2>. QED
      BY <1>3, <2>4, <2>5
  <1>. QED
    BY <1>2, <1>3

\* A new frame starts at its first stage, with what its counter left to be run.
LEMMA SemBeginInv ==
  ASSUME Inv, SemBegin
  PROVE  Inv'
  <1>0. /\ Safe' /\ UNCHANGED <<root, ran>> /\ callee \in Func /\ callee # NoCall
        /\ pc = "running"
    BY SemBeginSafe, ProgramAssumption DEF SemBegin, Inv, Safe, TypeOK
  <1>1. CASE ~MayEnter
    <2>1. pc' = "aborted" /\ UNCHANGED <<root, states, pos, frames, callee, ran>>
      BY <1>1 DEF SemBegin
    <2>2. FramesCount' /\ LevelsWait' /\ RestSpent'
      BY <2>1 DEF Inv, FramesCount, LevelsWait, RestSpent, Inside, CalleeOf
    <2>. QED
      BY <1>0, <2>2 DEF Inv
  <1>2. CASE MayEnter
    <2>. DEFINE new == [fn |-> callee, ip |-> 0]
    <2>1. /\ states' = Enter(callee) /\ pos' = pos + 1
          /\ frames' = Append(frames, new) /\ callee' = NoCall /\ pc' = pc
      BY <1>2 DEF SemBegin
    <2>2. /\ new \in Frame /\ new.fn = callee /\ new.ip = 0
          /\ frames \in Seq(Frame) /\ Len(frames) \in Nat
          /\ states \in Seq(State) /\ pos = Len(frames) + 1 /\ pos \in 1 .. Len(states)
      BY <1>0 DEF Frame, Inv, Safe, TypeOK
    <2>. HIDE DEF new
    <2>3. /\ Len(frames') = Len(frames) + 1
          /\ \A k \in 1 .. Len(frames) : frames'[k] = frames[k]
          /\ frames'[Len(frames) + 1] = new
      BY <2>1, <2>2, AppendProperties
    <2>4. /\ Len(states') = (IF pos = Len(states) THEN pos + 1 ELSE Len(states))
          /\ \A j \in 1 .. Len(states) : j # pos + 1 => states'[j] = states[j]
          /\ pos < Len(states) =>
               states'[pos + 1] = [states[pos + 1] EXCEPT !.current = 0]
          /\ pos = Len(states) =>
               states'[pos + 1] = NewState(0, 0, callee)
      BY <1>0, <2>1, EnterType DEF Inv, Safe
    <2>5. /\ frames # <<>> => WaitsFor(states[pos], callee)
          /\ frames = <<>> => callee = root
          /\ pos < Len(states) => states[pos + 1].name = callee
      BY <1>0, <1>2, LevelFound
    <2>6. /\ states'[pos + 1].name = callee /\ states'[pos + 1].current = 0
          /\ OwnLoop(states'[pos + 1])
          /\ pos < Len(states) => states'[pos + 1].target = states[pos + 1].target
      <3>1. CASE pos = Len(states)
        <4>1. states'[pos + 1] = NewState(0, 0, callee)
          BY <2>4, <3>1
        <4>2. /\ states'[pos + 1].name = callee /\ states'[pos + 1].current = 0
              /\ states'[pos + 1].loop_begin = -1 /\ states'[pos + 1].loop_end = -1
          BY <4>1 DEF NewState
        <4>. QED
          BY <1>0, <3>1, <4>2 DEF OwnLoop
      <3>2. CASE pos < Len(states)
        <4>. DEFINE old == states[pos + 1]
        <4>1. old \in State /\ OwnLoop(old) /\ old.name = callee
          BY <2>2, <2>5, <3>2 DEF Inv, LevelsWait
        <4>2. states'[pos + 1] = [old EXCEPT !.current = 0]
          BY <2>4, <3>2
        <4>. HIDE DEF old
        <4>3. /\ states'[pos + 1].name = old.name /\ states'[pos + 1].current = 0
              /\ states'[pos + 1].target = old.target
              /\ states'[pos + 1].loop_begin = old.loop_begin
              /\ states'[pos + 1].loop_end = old.loop_end
          BY <4>1, <4>2 DEF State
        <4>4. OwnLoop(states'[pos + 1])
          BY <4>1, <4>3 DEF OwnLoop
        <4>. QED
          BY <4>1, <4>3, <4>4 DEF old
      <3>. QED
        BY <2>2, <3>1, <3>2
    <2>7. FramesCount'
      <3>1. ASSUME NEW k \in 1 .. Len(frames)
            PROVE  CountsCall(frames'[k], states'[k + 1], frames'[k + 1].fn)
        <4>1. CountsCall(frames[k], states[k + 1], IF k < Len(frames) THEN frames[k + 1].fn ELSE callee)
          BY <1>0 DEF Inv, FramesCount, Inside, CalleeOf
        <4>2. frames'[k] = frames[k] /\ states'[k + 1] = states[k + 1]
          <5>1. k + 1 \in 1 .. Len(states) /\ k + 1 # pos + 1
            BY <2>2
          <5>. QED
            BY <2>3, <2>4, <5>1
        <4>3. frames'[k + 1].fn = IF k < Len(frames) THEN frames[k + 1].fn ELSE callee
          <5>1. CASE k < Len(frames)
            <6>1. k + 1 \in 1 .. Len(frames)
              BY <2>2, <5>1
            <6>. QED
              BY <2>3, <5>1, <6>1
          <5>2. CASE k = Len(frames)
            BY <2>2, <2>3, <5>2
          <5>. QED
            BY <2>2, <5>1, <5>2
        <4>. QED
          BY <4>1, <4>2, <4>3
      <3>2. Counts(frames'[Len(frames) + 1], states'[pos + 1])
        BY <2>2, <2>3, <2>6 DEF Counts
      <3>3. ASSUME NEW k \in 1 .. Len(frames')
            PROVE  IF k < Len(frames') \/ callee' # NoCall
                   THEN CountsCall(frames'[k], states'[k + 1],
                                   IF k < Len(frames') THEN frames'[k + 1].fn ELSE callee')
                   ELSE Counts(frames'[k], states'[k + 1])
        <4>1. CASE k \in 1 .. Len(frames)
          <5>1. k < Len(frames')
            BY <2>2, <2>3, <4>1
          <5>. QED
            BY <3>1, <4>1, <5>1
        <4>2. CASE k = Len(frames) + 1
          <5>1. ~(k < Len(frames')) /\ k + 1 = pos + 1
            BY <2>2, <2>3, <4>2
          <5>. QED
            BY <2>1, <3>2, <4>2, <5>1
        <4>. QED
          BY <2>2, <2>3, <4>1, <4>2
      <3>. QED
        BY <3>3 DEF FramesCount, Inside, CalleeOf
    <2>8. LevelsWait'
      <3>1. \A j \in 1 .. Len(states) : states'[j].name = states[j].name
        BY <2>2, <2>4, <2>5, <2>6
      <3>2. Len(states') > 1 => states'[2].name = root'
        <4>1. CASE frames = <<>>
          BY <1>0, <2>2, <2>5, <2>6, <4>1
        <4>2. CASE frames # <<>>
          <5>1. 2 \in 1 .. Len(states)
            BY <2>2, <4>2
          <5>. QED
            BY <1>0, <3>1, <5>1 DEF Inv, LevelsWait
        <4>. QED
          BY <4>1, <4>2
      <3>3. \A k \in 2 .. Len(states') : OwnLoop(states'[k])
        BY <2>2, <2>4, <2>6 DEF Inv, LevelsWait
      <3>4. ASSUME NEW k \in 2 .. Len(states') - 1
            PROVE  WaitsFor(states'[k], states'[k + 1].name)
        <4>1. CASE k < Len(states)
          <5>1. WaitsFor(states[k], states[k + 1].name)
            BY <4>1 DEF Inv, LevelsWait
          <5>2. states'[k].target = states[k].target
            BY <2>2, <2>4, <2>6, <4>1
          <5>3. states'[k].name = states[k].name /\ states'[k + 1].name = states[k + 1].name
            BY <2>2, <3>1, <4>1
          <5>. QED
            BY <5>1, <5>2, <5>3 DEF WaitsFor
        <4>2. CASE k >= Len(states)
          <5>1. k = pos /\ pos = Len(states) /\ pos \in 2 .. Len(states)
            BY <2>2, <2>4, <4>2
          <5>2. frames # <<>>
            BY <2>2, <5>1
          <5>3. states'[pos] = states[pos]
            BY <2>2, <2>4
          <5>. QED
            BY <2>5, <2>6, <5>1, <5>2, <5>3
        <4>. QED
          BY <2>2, <2>4, <4>1, <4>2
      <3>. QED
        BY <3>2, <3>3, <3>4 DEF LevelsWait
    <2>9. RestSpent'
      <3>1. ASSUME ran # <<>>, NEW k \in 1 .. Len(frames')
            PROVE  Spent(states'[k + 1])
        <4>1. CASE k \in 1 .. Len(frames)
          <5>1. Spent(states[k + 1])
            BY <1>0, <3>1, <4>1 DEF Inv, RestSpent
          <5>2. k + 1 \in 1 .. Len(states) /\ k + 1 # pos + 1
            BY <2>2, <4>1
          <5>3. states'[k + 1] = states[k + 1]
            BY <2>4, <5>2
          <5>. QED
            BY <5>1, <5>3
        <4>2. CASE k = Len(frames) + 1
          <5>1. ~HasStages(callee)
            BY <1>0, <3>1 DEF Inv, RestSpent
          <5>. QED
            BY <2>2, <2>6, <4>2, <5>1 DEF Spent
        <4>. QED
          BY <2>2, <2>3, <4>1, <4>2
      <3>2. ran = <<>> \/ Len(ran) = 1
        BY DEF Inv, RestSpent
      <3>. QED
        BY <1>0, <2>1, <3>1, <3>2 DEF RestSpent
    <2>. QED
      BY <1>0, <2>7, <2>8, <2>9 DEF Inv
  <1>. QED
    BY <1>1, <1>2

\* A frame that ends leaves its caller suspended at the nested call, or done with it.
LEMMA SemEndInv ==
  ASSUME Inv, SemEnd
  PROVE  Inv'
  <1>. DEFINE callers == SubSeq(frames, 1, Len(frames) - 1)
              n == Len(frames) - 1
  <1>0. Safe' /\ states \in Seq(State)
    BY SemEndSafe DEF Inv, Safe, TypeOK
  <1>1. /\ frames \in Seq(Frame) /\ Len(frames) > 0
        /\ pc = "running" /\ callee = NoCall
        /\ pos = Len(frames) + 1 /\ pos \in 2 .. Len(states)
        /\ states' = Finish(states[pos]) /\ pos' = pos - 1
        /\ callers \in Seq(Frame) /\ Len(callers) = Len(frames) - 1
        /\ \A k \in 1 .. Len(callers) : callers[k] = frames[k]
        /\ \/ /\ callers # <<>> /\ frames' = Past(callers) /\ pc' = pc
           \/ /\ callers = <<>> /\ frames' = <<>> /\ pc' \in {"idle", "finished"}
        /\ UNCHANGED <<root, allow_nested, callee, ran>>
    BY SemEndOutcome DEF Inv
  <1>2. /\ Len(states') \in {Len(states), pos - 1} /\ Len(states') >= pos - 1
        /\ Len(states') \in Nat
        /\ Len(states') = Len(states) \/ pos = Len(states)
        /\ pos < Len(states) => states' = states
        /\ \A j \in 1 .. Len(states') : j # pos => states'[j] = states[j]
        /\ pos \in 1 .. Len(states') =>
             /\ states'[pos].name = states[pos].name
             /\ states'[pos].loop_begin = states[pos].loop_begin
             /\ states'[pos].loop_end = states[pos].loop_end
    BY <1>0, <1>1, FinishType
  <1>. HIDE DEF callers
  <1>3. n \in Nat /\ Len(frames') = n
    <2>0. n \in Nat /\ Len(callers) = n
      BY <1>1
    <2>1. CASE callers # <<>>
      <3>1. Len(Past(callers)) = Len(callers) /\ frames' = Past(callers)
        BY <1>1, <2>1, PastType
      <3>. HIDE DEF n
      <3>. QED
        BY <2>0, <3>1
    <2>2. CASE callers = <<>>
      <3>1. frames' = <<>>
        BY <1>1, <2>2
      <3>2. Len(callers) = 0
        BY <2>2
      <3>3. Len(frames') = 0
        BY <3>1
      <3>. HIDE DEF n
      <3>. QED
        BY <2>0, <3>2, <3>3
    <2>. QED
      BY <2>1, <2>2
  <1>4. \A k \in 1 .. n : states'[k + 1] = states[k + 1]
    <2>1. pos = n + 2 /\ n + 1 <= Len(states')
      BY <1>1, <1>2
    <2>. HIDE DEF n
    <2>2. ASSUME NEW k \in 1 .. n PROVE k + 1 \in 1 .. Len(states') /\ k + 1 # pos
      BY <1>2, <1>3, <2>1
    <2>. QED
      BY <1>2, <2>2
  <1>5. FramesCount'
    <2>1. CASE callers = <<>>
      <3>1. Len(callers) = 0
        BY <2>1
      <3>2. Len(frames') = 0
        BY <1>1, <1>3, <3>1
      <3>. QED
        BY <3>2 DEF FramesCount
    <2>2. CASE callers # <<>>
      <3>1. /\ \A j \in 1 .. Len(callers) - 1 : Past(callers)[j] = callers[j]
            /\ Past(callers)[Len(callers)] =
                 [fn |-> callers[Len(callers)].fn, ip |-> callers[Len(callers)].ip + 1]
        BY <1>1, <2>2, PastType
      <3>0. callers \in Seq(Frame) /\ Len(callers) # 0
        <4>1. callers \in Seq(Frame)
          BY <1>1
        <4>. QED
          BY <2>2, <4>1
      <3>2. frames' = Past(callers) /\ n \in 1 .. n
        BY <1>1, <1>3, <2>2, <3>0
      <3>3. /\ \A j \in 1 .. n - 1 : frames'[j] = frames[j]
            /\ frames'[n] = [fn |-> frames[n].fn, ip |-> frames[n].ip + 1]
        BY <1>1, <1>3, <3>1, <3>2
      <3>4. frames'[n].fn = frames[n].fn /\ frames'[n].ip = frames[n].ip + 1
        BY <3>3
      <3>5. ASSUME NEW k \in 1 .. n
            PROVE  CountsCall(frames[k], states[k + 1], frames[k + 1].fn)
        <4>1. k < Len(frames) /\ k \in 1 .. Len(frames)
          BY <1>1, <1>3
        <4>. QED
          BY <4>1 DEF Inv, FramesCount, Inside, CalleeOf
      <3>6. ASSUME NEW k \in 1 .. n, k < n
            PROVE  CountsCall(frames'[k], states'[k + 1], frames'[k + 1].fn)
        <4>1. k + 1 \in 1 .. n
          BY <1>3, <3>6
        <4>2. frames'[k] = frames[k] /\ frames'[k + 1].fn = frames[k + 1].fn
          BY <1>3, <3>3, <3>4, <3>6, <4>1
        <4>. QED
          BY <1>4, <3>5, <4>2
      <3>7. Counts(frames'[n], states'[n + 1])
        BY <1>4, <3>2, <3>4, <3>5 DEF Counts, CountsCall
      <3>8. ASSUME NEW k \in 1 .. Len(frames')
            PROVE  IF k < Len(frames') \/ callee' # NoCall
                   THEN CountsCall(frames'[k], states'[k + 1],
                                   IF k < Len(frames') THEN frames'[k + 1].fn ELSE callee')
                   ELSE Counts(frames'[k], states'[k + 1])
        <4>1. CASE k < n
          BY <1>3, <3>6, <4>1
        <4>2. CASE k = n
          BY <1>1, <1>3, <3>7, <4>2
        <4>. QED
          BY <1>3, <4>1, <4>2
      <3>. QED
        BY <3>8 DEF FramesCount, Inside, CalleeOf
    <2>. QED
      BY <2>1, <2>2
  <1>6. LevelsWait'
    <2>1. \A j \in 1 .. Len(states') : states'[j].name = states[j].name
      BY <1>1, <1>2
    <2>2. Len(states') > 1 => states'[2].name = root'
      <3>1. Len(states') > 1 => 2 \in 1 .. Len(states') /\ Len(states) > 1
        BY <1>1, <1>2
      <3>. QED
        BY <1>1, <2>1, <3>1 DEF Inv, LevelsWait
    <2>3. ASSUME NEW k \in 2 .. Len(states') PROVE OwnLoop(states'[k])
      <3>1. k \in 2 .. Len(states) /\ k \in 1 .. Len(states')
        BY <1>1, <1>2
      <3>2. OwnLoop(states[k])
        BY <3>1 DEF Inv, LevelsWait
      <3>3. CASE k # pos
        BY <1>2, <3>1, <3>2, <3>3
      <3>4. CASE k = pos
        BY <1>2, <3>1, <3>2, <3>4 DEF OwnLoop
      <3>. QED
        BY <3>3, <3>4
    <2>4. ASSUME NEW k \in 2 .. Len(states') - 1
          PROVE  WaitsFor(states'[k], states'[k + 1].name)
      <3>1. k \in 2 .. Len(states) - 1 /\ k \in 1 .. Len(states') /\ k + 1 \in 1 .. Len(states')
        BY <1>1, <1>2
      <3>2. states'[k] = states[k]
        BY <1>1, <1>2, <3>1
      <3>3. WaitsFor(states[k], states[k + 1].name)
        BY <3>1 DEF Inv, LevelsWait
      <3>. QED
        BY <2>1, <3>1, <3>2, <3>3
    <2>. QED
      BY <2>2, <2>3, <2>4 DEF LevelsWait
  <1>7. RestSpent'
    <2>1. ASSUME ran # <<>>, NEW k \in 1 .. Len(frames')
          PROVE  Spent(states'[k + 1])
      <3>1. k \in 1 .. n /\ k \in 1 .. Len(frames)
        BY <1>1, <1>3
      <3>. QED
        BY <1>1, <1>4, <2>1, <3>1 DEF Inv, RestSpent
    <2>2. ran = <<>> \/ Len(ran) = 1
      BY DEF Inv, RestSpent
    <2>. QED
      BY <1>1, <2>1, <2>2 DEF RestSpent
  <1>. QED
    BY <1>0, <1>5, <1>6, <1>7 DEF Inv

\* Every step preserves the inductive invariant: one case per action.
LEMMA InvNext ==
  ASSUME Shape, Inv, [Next]_vars
  PROVE  Inv'
  <1>1. CASE Call
    BY <1>1, CallInv
  <1>2. CASE SemBegin
    BY <1>2, SemBeginInv
  <1>3. CASE PlainStage
    <2>1. Running("stage") /\ Stage("stage" = "nested")
      BY <1>3 DEF PlainStage
    <2>. QED
      BY <2>1, StageInv
  <1>4. CASE NestedStage
    <2>1. Running("nested") /\ Stage("nested" = "nested")
      BY <1>4 DEF NestedStage
    <2>. QED
      BY <2>1, StageInv
  <1>5. CASE LoopBegin \/ LoopEnd
    BY <1>5, LoopInv
  <1>6. CASE SemEnd
    BY <1>6, SemEndInv
  <1>7. CASE UNCHANGED vars
    <2>1. Safe'
      BY <1>7, SafeNext DEF Inv
    <2>2. FramesCount' /\ LevelsWait' /\ RestSpent'
      BY <1>7 DEF vars, Inv, FramesCount, LevelsWait, RestSpent, Inside, CalleeOf
    <2>. QED
      BY <2>1, <2>2 DEF Inv
  <1>. QED
    BY <1>1, <1>2, <1>3, <1>4, <1>5, <1>6, <1>7 DEF Next, Halted

\* Every function counts its stages and keeps its context in a level that was
\* made for it, across calls and whatever its callees do, if no loop ends with
\* a call and only plain stages break loops.
THEOREM LevelsAreOwn ==
  ASSUME Shape
  PROVE  Spec => []OwnLevel
  <1>1. Init => Inv
    BY InvInit
  <1>2. Inv /\ [Next]_vars => Inv'
    BY InvNext
  <1>3. Inv => OwnLevel
    <2>. SUFFICES ASSUME Inv PROVE OwnLevel
      OBVIOUS
    <2>1. frames \in Seq(Frame)
      BY DEF Inv, Safe, TypeOK, Frame
    <2>2. DOMAIN frames = 1 .. Len(frames)
      BY <2>1
    <2>. QED
      BY <2>2 DEF Inv, FramesCount, Counts, CountsCall, OwnLevel
  <1>. QED
    BY <1>1, <1>2, <1>3, PTL DEF Spec

\* A call of the root executes at most one stage.
THEOREM AtMostOneStage ==
  ASSUME Shape
  PROVE  Spec => []OneStagePerCall
  <1>1. Init => Inv
    BY InvInit
  <1>2. Inv /\ [Next]_vars => Inv'
    BY InvNext
  <1>3. Inv => OneStagePerCall
    <2>. SUFFICES ASSUME Inv PROVE Len(ran) <= 1
      BY DEF OneStagePerCall
    <2>1. ran = <<>> \/ Len(ran) = 1
      BY DEF Inv, RestSpent
    <2>2. CASE ran = <<>>
      <3>1. Len(ran) = 0
        BY <2>2
      <3>. QED
        BY <3>1
    <2>3. CASE Len(ran) = 1
      BY <2>3
    <2>. QED
      BY <2>1, <2>2, <2>3
  <1>. QED
    BY <1>1, <1>2, <1>3, PTL DEF Spec
=============================================================================
