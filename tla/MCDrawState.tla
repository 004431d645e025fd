------------------------------ MODULE MCDrawState ------------------------------
(***************************************************************************)
(* An instance of DrawState for TLC.                                       *)
(***************************************************************************)
EXTENDS DrawState

Mode(cycle, zcmp, zupd, blend, edge) ==
  [cycle |-> cycle, zcmp |-> zcmp, zupd |-> zupd, blend |-> blend, edge |-> edge]

\* Three-dimensional scenes, and menus without depth or fog.
Scene == {[zbuffer |-> TRUE, fog |-> TRUE], [zbuffer |-> FALSE, fog |-> FALSE]}

\* A translucent surface, and the fill of a background.
Surfaces == {Mode("one", TRUE, FALSE, TRUE, FALSE), Mode("fill", FALSE, TRUE, FALSE, FALSE)}
=============================================================================
