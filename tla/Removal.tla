------------------------------- MODULE Removal -------------------------------
(***************************************************************************)
(* Removal of particles from the arrays of a block: ClearRemoved           *)
(* (src/src/solver/particles.ipp).  Two indices run towards each other,    *)
(* marked particles are swapped to the end, the arrays are cut.  The       *)
(* attributes of a particle are the name in its slot, and the mark.        *)
(* Module ParticleProofs extends this module and ParticleExchange, so that *)
(* their names differ.                                                     *)
(***************************************************************************)
EXTENDS Integers

CONSTANTS
  MaxSize,   \* bound: the length of the arrays
  SizeMax    \* the largest size_t

ASSUME SizeAssumption == MaxSize \in Nat /\ SizeMax \in Nat /\ MaxSize <= SizeMax

VARIABLES
  n,         \* the length of the arrays before
  view,      \* the particle in each slot
  removed,   \* the mark in each slot
  i, j,      \* the two indices, of type size_t
  size,      \* the length of the arrays
  phase,     \* loop, check, done, failed
  doomed     \* history: the particles that were marked at first

RemovalVars == <<n, view, removed, i, j, size, phase, doomed>>

Slot == 0 .. n - 1

Decrement(k) == IF k = 0 THEN SizeMax ELSE k - 1

RemovalInit ==
  /\ n \in 0 .. MaxSize
  /\ view = [k \in Slot |-> k]
  /\ doomed \in SUBSET Slot
  /\ removed = [k \in Slot |-> k \in doomed]
  /\ i = 0
  /\ j = IF n = 0 THEN 0 ELSE n - 1
  /\ size = n
  /\ phase = IF n = 0 THEN "done" ELSE "loop"

Looping == phase = "loop" /\ j >= i

\* [mutant of Keep] The index is not advanced.
KeepStuck == Looping /\ ~removed[i] /\ UNCHANGED RemovalVars

\* The slot stays as it is.
Keep ==
  /\ Looping
  /\ ~removed[i]
  /\ i' = i + 1
  /\ UNCHANGED <<n, view, removed, j, size, phase, doomed>>

\* [mutant of Skip] The inner loop does not stop at i.
SkipPast ==
  /\ Looping
  /\ removed[i]
  /\ removed[j]
  /\ j' = Decrement(j)
  /\ UNCHANGED <<n, view, removed, i, size, phase, doomed>>

\* The slot must go, and so must the last one.
Skip ==
  /\ Looping
  /\ removed[i]
  /\ j > i /\ removed[j]
  /\ j' = Decrement(j)
  /\ UNCHANGED <<n, view, removed, i, size, phase, doomed>>

\* [mutant of SwapParticles] The marks are not among the attributes.
SwapParticlesButMarks(k, l) ==
  /\ view' = [view EXCEPT ![k] = view[l], ![l] = view[k]]
  /\ UNCHANGED removed

SwapParticles(k, l) ==
  /\ view' = [view EXCEPT ![k] = view[l], ![l] = view[k]]
  /\ removed' = [removed EXCEPT ![k] = removed[l], ![l] = removed[k]]

\* The slot must go, and the last one takes its place.
Swap ==
  /\ Looping
  /\ removed[i]
  /\ j # i /\ ~removed[j]
  /\ SwapParticles(i, j)
  /\ i' = i + 1
  /\ UNCHANGED <<n, j, size, phase, doomed>>

\* The slot must go and is the last one.
Break ==
  /\ Looping
  /\ removed[i]
  /\ i = j
  /\ phase' = "check"
  /\ UNCHANGED <<n, view, removed, i, j, size, doomed>>

LeaveLoop ==
  /\ phase = "loop"
  /\ j < i
  /\ phase' = "check"
  /\ UNCHANGED <<n, view, removed, i, j, size, doomed>>

\* [mutant of NewSize] The arrays are cut at the other index.
NewSizeOther == j

NewSize == i

\* The two fasserts, and ResizeParticles.
Separated == i <= n /\ \A k \in Slot : removed[k] <=> k >= i

Check ==
  /\ phase = "check"
  /\ IF Separated
     THEN /\ phase' = "done"
          /\ size' = NewSize
     ELSE /\ phase' = "failed"
          /\ UNCHANGED size
  /\ UNCHANGED <<n, view, removed, i, j, doomed>>

RemovalHalted == phase \in {"done", "failed"} /\ UNCHANGED RemovalVars

RemovalNext == Keep \/ Skip \/ Swap \/ Break \/ LeaveLoop \/ Check \/ RemovalHalted

RemovalSpec == RemovalInit /\ [][RemovalNext]_RemovalVars /\ WF_RemovalVars(RemovalNext)

-----------------------------------------------------------------------------

\* The indices stay within the arrays; in particular j never passes zero.
RemovalTypeOK ==
  /\ n \in 0 .. MaxSize
  /\ view \in [Slot -> Slot]
  /\ removed \in [Slot -> BOOLEAN]
  /\ i \in 0 .. n
  /\ j \in 0 .. n
  /\ n > 0 => j < n
  /\ size \in 0 .. n
  /\ phase \in {"loop", "check", "done", "failed"}
  /\ doomed \in SUBSET Slot

\* The fasserts at the end of ClearRemoved do not fail.
CheckPasses == phase # "failed"

\* The arrays hold the particles that were not marked, each of them once.
Holds(p) == \E k \in Slot : k < size /\ view[k] = p

Distinct == \A k, l \in Slot : k < size /\ l < size /\ view[k] = view[l] => k = l

KeptOnce ==
  phase = "done" => /\ \A p \in Slot : Holds(p) <=> p \notin doomed
                    /\ Distinct

\* The loops end.
RemovalEnds == <>(phase = "done")
=============================================================================
