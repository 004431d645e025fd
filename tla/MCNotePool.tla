----------------------------- MODULE MCNotePool -----------------------------
(***************************************************************************)
(* An instance of NotePool for TLC.                                        *)
(***************************************************************************)
EXTENDS NotePool, TLC

CONSTANTS l1, l2, l3, c1, c2

Keep(p) == [retake |-> FALSE, pools |-> p]
SomePolicies == {Keep("channel"), [retake |-> TRUE, pools |-> "all"]}
Alike == Permutations(Layers) \cup Permutations(Channels)
=============================================================================
