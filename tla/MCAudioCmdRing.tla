--------------------------- MODULE MCAudioCmdRing ---------------------------
(***************************************************************************)
(* Instances of AudioCmdRing for TLC: a ring of PacedRing slots with more  *)
(* commands than slots, so that positions wrap and slots are filled again, *)
(* and a larger ring in which the vblank may preempt osSendMesg.           *)
(***************************************************************************)
EXTENDS AudioCmdRing
=============================================================================
