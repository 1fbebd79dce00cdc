--------------------------- MODULE MCCubismExchange ---------------------------
(***************************************************************************)
(* Meshes and programs for TLC.                                            *)
(***************************************************************************)
EXTENDS CubismExchange

Unit == <<1, 1, 1>>
Row2 == <<2, 1, 1>>
Row3 == <<3, 1, 1>>
Blocks3 == <<3, 1, 1>>

Does(writes, frees, comm) == [writes |-> writes, frees |-> frees, comm |-> comm]

\* Stages never write what the stage before has asked for: they alternate
\* between two fields, or leave a stage empty.
Alternating ==
  << Does({"u"}, {}, {"u"}), Does({"v"}, {}, {"v"}), Does({"u"}, {}, {"u"}),
     Does({}, {}, {"u", "v"}), Does({}, {}, {}), Does({"u", "v"}, {}, {"v"}),
     Does({}, {}, {}), Does({}, {"u", "v"}, {}) >>

\* The two stages of the example in doc/sphinx/src/comm.rst.
Documented ==
  << Does({"u"}, {}, {"u"}), Does({"u"}, {}, {}) >>

\* The stages of the one run are separate, those of the other are not.
ASSUME SettingAssumption ==
  /\ CubismMesh
  /\ Stages = Alternating => Separate /\ Present
  /\ Stages = Documented => ~Separate /\ Present
=============================================================================
