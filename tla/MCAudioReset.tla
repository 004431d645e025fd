---------------------------- MODULE MCAudioReset ----------------------------
(***************************************************************************)
(* Instances of AudioReset for TLC.                                        *)
(***************************************************************************)
EXTENDS AudioReset

\* A stage, training, versus and the title stand for the specs that
\* Audio_StartReset tells apart.
GameSpecs == {"CO", "TR", "VS", "TITLE"}

\* The game leaves versus for the title only (fox_option.c, fox_title.c).
GameChanges == {c \in GameSpecs \X GameSpecs : c[1] # c[2] /\ (c[1] = "VS" => c[2] = "TITLE")}

TwoSpecs == {"CO", "TITLE"}
TwoChanges == {c \in TwoSpecs \X TwoSpecs : c[1] # c[2]}
=============================================================================
