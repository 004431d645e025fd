--------------------------- MODULE MCVblankPacing ---------------------------
(***************************************************************************)
(* Instances of VblankPacing for TLC.                                      *)
(***************************************************************************)
EXTENDS VblankPacing

\* The frame rates of the levels and menus.
GameVIs == {2, 3}
=============================================================================
