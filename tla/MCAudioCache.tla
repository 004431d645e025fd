---------------------------- MODULE MCAudioCache -----------------------------
(***************************************************************************)
(* An instance of AudioCache for TLC.                                      *)
(***************************************************************************)
EXTENDS AudioCache

\* Two stages, an intro and a fanfare, whose font the intro uses as well.
Fonts3   == {"f1", "f2", "f3"}
FontOf   == [stage1 |-> "f1", stage2 |-> "f2", intro |-> "f3", fanfare |-> "f3"]
\* No two of the stages' sequences fit the temporary cache together.
Sizes    == [stage1 |-> 3, stage2 |-> 2, intro |-> 2, fanfare |-> 1, f1 |-> 1, f2 |-> 2, f3 |-> 2]
Stages   == {"stage1", "stage2"}
Musics   == Stages \cup {"intro"}
KeptUnits == [seq |-> 0, font |-> 1]
TempUnits == [seq |-> 3, font |-> 4]
=============================================================================
