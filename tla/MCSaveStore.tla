---------------------------- MODULE MCSaveStore ----------------------------
(***************************************************************************)
(* An instance of SaveStore for TLC: two bytes of three bits, three        *)
(* versions that differ in the first byte, in the second and in both.      *)
(***************************************************************************)
EXTENDS SaveStore

Bits(S) == [b \in 0 .. W - 1 |-> b \in S]
SaveData(a, b) == [i \in 1 .. N |-> IF i = 1 THEN Bits(a) ELSE Bits(b)]

NewGame  == SaveData({}, {0})
GameData == {NewGame, SaveData({0}, {}), SaveData({0}, {0})}
=============================================================================
