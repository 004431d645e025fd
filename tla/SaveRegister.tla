---------------------------- MODULE SaveRegister ----------------------------
(***************************************************************************)
(* What the saved game promises (src/src/engine/fox_save.c): a register    *)
(* the game reads once, at its start, and writes whole.  A write that is   *)
(* cut leaves the old or the new value to be read; after a second one, or  *)
(* when the card blanks its file, some value or none.  A new game replaces *)
(* a value that is sure to be there only if the card fails.                *)
(***************************************************************************)
CONSTANTS
  Versions,      \* the values
  gDefaultSave,  \* the value of a new game
  None

VARIABLES
  game,   \* the value the game plays on, None before it has started
  kept,   \* the values a start may find
  trust,  \* "whole" and "torn": one of kept will be found; "lost": perhaps none
  fails   \* the card was out or failed since the console was switched on

vars == <<game, kept, trust, fails>>

Init ==
  /\ game = None
  /\ kept = Versions
  /\ trust = "lost"
  /\ fails = FALSE

Start ==
  /\ game = None
  /\ game' \in kept
  /\ UNCHANGED <<kept, trust, fails>>

StartAnew ==
  /\ game = None
  /\ trust = "lost" \/ fails
  /\ game' = gDefaultSave
  /\ UNCHANGED <<kept, trust, fails>>

Change ==
  /\ game # None
  /\ game' \in Versions
  /\ UNCHANGED <<kept, trust, fails>>

Save ==
  /\ game # None
  /\ kept' = {game}
  /\ trust' = "whole"
  /\ UNCHANGED <<game, fails>>

Lose == kept' = Versions /\ trust' = "lost"

Cut ==
  /\ game # None
  /\ IF trust = "whole" THEN kept' = kept \cup {game} /\ trust' = "torn" ELSE Lose

\* The card is pulled while the game goes on, or the power is cut.
CutByCard == Cut /\ UNCHANGED <<game, fails>>
Off == game' = None /\ fails' = FALSE
CutByPower == Cut /\ Off
SwitchedOff == Off /\ UNCHANGED <<kept, trust>>

Fail ==
  /\ fails' = TRUE
  /\ Lose \/ UNCHANGED <<kept, trust>>
  /\ UNCHANGED game

Next ==
  \/ Start \/ StartAnew \/ Change \/ Save
  \/ CutByCard \/ CutByPower \/ SwitchedOff \/ Fail

Spec == Init /\ [][Next]_vars
=============================================================================
