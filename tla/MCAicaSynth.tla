----------------------------- MODULE MCAicaSynth -----------------------------
(***************************************************************************)
(* Instances of AicaSynth for TLC.                                         *)
(***************************************************************************)
EXTENDS AicaSynth, TLC

CONSTANTS s1, s2, s3, s4, l1, l2, w1, w2, u1

\* Sound RAM of three units is too small for the large sample beside any other.
UnitsOf == [s \in Short |-> IF s = s3 THEN 3 ELSE 1]

\* The small samples are alike.
Alike == Permutations(Short \ {s3})
=============================================================================
