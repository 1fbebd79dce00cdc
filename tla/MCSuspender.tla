---------------------------- MODULE MCSuspender ----------------------------
(***************************************************************************)
(* Programs for TLC.  The body of a function is written as a word with one *)
(* letter for every instruction:                                           *)
(*   S  stage               B  stage that may break its loop               *)
(*   L  LoopBegin           E  LoopEnd                                     *)
(*   0, 1, 2, R, D  nested stage that calls a function without stages,     *)
(*      with one stage, with two, with a loop, with a call of its own      *)
(*   X  nested stage that calls a function without a Sem                   *)
(*   P  plain stage that calls a function with two stages                  *)
(* The functions are the callees of these letters, some functions of the   *)
(* tests and of the solver, and every word of up to MaxLen (0 or 3)        *)
(* letters, alone and as the body of a loop.                               *)
(***************************************************************************)
EXTENDS SuspenderProperties, FiniteSets

CONSTANT MaxLen

Callees == << <<>>, <<"S">>, <<"S", "S">>, <<"L", "S", "B", "E">>, <<"2", "S">> >>

Named ==
  << <<"S", "2", "S", "X", "0", "D">>,               \* A of test/suspender/other.h
     <<"S", "S", "L", "2", "B", "E", "S">>,          \* Run of test/suspender/loop.h
     <<"L", "S", "B", "2", "S", "E">>,               \* Run of kernel/hydro.ipp
     <<"L", "S", "B", "E", "S", "L", "D", "B", "E", "S">>,
     <<"L", "1", "B", "S", "E", "L", "2", "B", "E">>,
     <<"L", "S", "2", "B", "2", "S", "E", "D">>,
     <<"S", "L", "R", "B", "E", "R">> >>

Misused == << <<"2", "P">>, <<"2", "X", "P", "S">>, <<"L", "S", "P", "B", "E">> >>

\* What test/advection/main.cpp:211 and kernel/hydro.ipp:2592 warn about.
LastIsNested == << <<"L", "S", "B", "2", "E", "S">> >>
FirstBreaks == << <<"S", "L", "B", "S", "E", "S">> >>

Letters == <<"S", "B", "0", "2", "R">>

\* All words of n letters, in lexical order.
WordsOf(n) ==
  LET base == Len(Letters)
  IN [k \in 1 .. base ^ n |->
        [i \in 1 .. n |-> Letters[1 + (((k - 1) \div base ^ (i - 1)) % base)]]]

Around(prefix, words, suffix) ==
  [k \in DOMAIN words |-> prefix \o words[k] \o suffix]

\* Straight functions, functions that are one loop, and loops amid stages.
Words ==
  IF MaxLen = 0 THEN <<>>
  ELSE LET upTo == WordsOf(1) \o WordsOf(2) \o WordsOf(3)
       IN upTo \o Around(<<"L">>, upTo, <<"E">>)
               \o Around(<<"S", "L">>, WordsOf(2), <<"E", "2">>)

Meaning(c) ==
  [op   |-> CASE c \in {"S", "B", "P"} -> "stage"
              [] c = "L" -> "loopBegin"
              [] c = "E" -> "loopEnd"
              [] OTHER -> "nested",
   call |-> CASE c = "0" -> 1 [] c = "1" -> 2 [] c \in {"2", "P"} -> 3
              [] c = "R" -> 4 [] c = "D" -> 5 [] OTHER -> NoCall,
   brk  |-> c = "B"]

Texts == Callees \o Named \o Misused \o LastIsNested \o FirstBreaks \o Words
Codes(list) ==
  LET texts == Texts
  IN {CHOOSE f \in DOMAIN texts : texts[f] = list[k] : k \in DOMAIN list}

Bodies ==
  LET texts == Texts
  IN [f \in DOMAIN texts |-> [i \in DOMAIN texts[f] |-> Meaning(texts[f][i])]]
MCBody == Bodies
MCFunc == DOMAIN Bodies
MCNone == 0

\* Programs of the shape the repository uses.
Good == {f \in MCFunc : HasStages(f) /\ WellFormed(f)}

\* And programs with calls from plain stages.
AllRoots == Good \cup Codes(Misused)

LastIsNestedRoots == Codes(LastIsNested)
FirstBreaksRoots == Codes(FirstBreaks)
=============================================================================
