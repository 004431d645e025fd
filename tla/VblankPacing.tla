---------------------------- MODULE VblankPacing ----------------------------
(***************************************************************************)
(* The two clocks of the program.  The vblank interrupt counts vblticker   *)
(* and wakes whoever waits for it: the audio thread, which owes the        *)
(* sequencer one buffer for every vblank (AudioThread in                   *)
(* src/src/sys/sys_main.c), and the game thread at the end of a frame      *)
(* (gfx_dc_swap_buffers_end in src/src/gfx/gfx_dc.c).                      *)
(*                                                                         *)
(* Both test vblticker and then call genwait_wait with interrupts enabled: *)
(* a vblank between the two wakes nobody.  vblticker is volatile and read  *)
(* anew every time it is named; each read is a step.                       *)
(***************************************************************************)
EXTENDS Integers

CONSTANTS
  CatchupMax,   \* CATCHUP_MAX, 3 in the code
  VIs,          \* the values the game gives gVIsPerFrame
  MaxHitch,     \* bound: vblanks while the audio thread is kept from looking at vblticker
  MaxVblanks    \* bound: vblanks

ASSUME PacingAssumption ==
  /\ CatchupMax \in Nat \ {0}
  /\ VIs \subseteq Nat \ {0}
  /\ VIs # {}
  /\ MaxHitch \in Nat
  /\ MaxVblanks \in Nat

VARIABLES
  vblticker,
  apc, last_vbltick, behind, audio_frame, \* AudioThread
  mpc, last_ticker, gVIsPerFrame,         \* the game thread
  hitch,      \* history: vblanks since the audio thread last measured
  worst,      \* history: the most of them that found it awake
  dropped,    \* history: vblanks it gave up
  lag         \* history: frames the game thread has ended since the last buffer

audio == <<apc, last_vbltick, behind, audio_frame>>
main  == <<mpc, last_ticker, gVIsPerFrame>>
vars  == <<vblticker, audio, main, hitch, worst, dropped, lag>>

Init ==
  /\ vblticker = 0
  /\ apc = "test"
  /\ last_vbltick = 0
  /\ behind = 0
  /\ audio_frame = 0
  /\ mpc = "frame"
  /\ last_ticker = 0
  /\ gVIsPerFrame \in VIs
  /\ hitch = 0
  /\ worst = 0
  /\ dropped = 0
  /\ lag = 0
-----------------------------------------------------------------------------
\* vblfunc: genwait_wake_all wakes the threads that sleep, and no other.
\* (Mutated: nobody.)
NotWoken(pc) == pc
Woken(pc) == IF pc = "sleep" THEN "test" ELSE pc

Vblank ==
  /\ vblticker < MaxVblanks
  /\ hitch < MaxHitch \/ apc = "sleep"
  /\ vblticker' = vblticker + 1
  /\ hitch' = hitch + 1
  /\ worst' = IF apc # "sleep" /\ worst <= hitch THEN hitch + 1 ELSE worst
  /\ apc' = Woken(apc)
  /\ mpc' = Woken(mpc)
  /\ UNCHANGED <<last_vbltick, behind, audio_frame, last_ticker, gVIsPerFrame, dropped, lag>>
-----------------------------------------------------------------------------
(* The audio thread.                                                       *)

AudioTest ==
  /\ apc = "test"
  /\ apc' = IF vblticker <= last_vbltick THEN "wait" ELSE "measure"
  /\ UNCHANGED <<vblticker, last_vbltick, behind, audio_frame, main, hitch, worst, dropped, lag>>

AudioSleep ==
  /\ apc = "wait"
  /\ apc' = "sleep"
  /\ UNCHANGED <<vblticker, last_vbltick, behind, audio_frame, main, hitch, worst, dropped, lag>>

AudioMeasure ==
  /\ apc = "measure"
  /\ apc' = "advance"
  /\ behind' = vblticker - last_vbltick
  /\ hitch' = 0
  /\ UNCHANGED <<vblticker, last_vbltick, audio_frame, main, worst, dropped, lag>>

\* The buffers one wake makes.  (Mutated: no cap.)
NoCap == behind
Burst == IF behind > CatchupMax THEN CatchupMax ELSE behind

\* What is advanced over.  Beyond the cap the excess over vblticker as it is now is
\* dropped.  (Mutated: a cap one too low.)
EarlyDrop == IF behind >= CatchupMax THEN vblticker - (CatchupMax - 1) ELSE last_vbltick
Resync == IF behind > CatchupMax THEN vblticker - CatchupMax ELSE last_vbltick

AudioAdvance ==
  /\ apc = "advance"
  /\ apc' = "render"
  /\ behind' = Burst
  /\ last_vbltick' = Resync + Burst
  /\ dropped' = dropped + (Resync - last_vbltick)
  /\ hitch' = IF behind > CatchupMax THEN 0 ELSE hitch
  /\ UNCHANGED <<vblticker, audio_frame, main, worst, lag>>

\* AudioThread_CreateNextAudioBuffer, which drains the game thread's commands.
AudioRender ==
  /\ apc = "render"
  /\ behind > 0
  /\ behind' = behind - 1
  /\ audio_frame' = audio_frame + 1
  /\ lag' = 0
  /\ UNCHANGED <<vblticker, apc, last_vbltick, main, hitch, worst, dropped>>

AudioLoop ==
  /\ apc = "render"
  /\ behind = 0
  /\ apc' = "test"
  /\ UNCHANGED <<vblticker, last_vbltick, behind, audio_frame, main, hitch, worst, dropped, lag>>
-----------------------------------------------------------------------------
(* The game thread has the lower priority: it runs while the audio thread  *)
(* sleeps.                                                                 *)

\* The frame is drawn; the game may have changed its rate.
MainFrame ==
  /\ apc = "sleep"
  /\ mpc = "frame"
  /\ mpc' = "test"
  /\ gVIsPerFrame' \in VIs
  /\ UNCHANGED <<vblticker, audio, last_ticker, hitch, worst, dropped, lag>>

\* The frame's end.  (Mutated: it does not wait.)
NoPace == TRUE
FrameDue == vblticker >= last_ticker + gVIsPerFrame

MainTest ==
  /\ apc = "sleep"
  /\ mpc = "test"
  /\ mpc' = IF FrameDue THEN "stamp" ELSE "wait"
  /\ UNCHANGED <<vblticker, audio, last_ticker, gVIsPerFrame, hitch, worst, dropped, lag>>

MainSleep ==
  /\ apc = "sleep"
  /\ mpc = "wait"
  /\ mpc' = "sleep"
  /\ UNCHANGED <<vblticker, audio, last_ticker, gVIsPerFrame, hitch, worst, dropped, lag>>

MainStamp ==
  /\ apc = "sleep"
  /\ mpc = "stamp"
  /\ mpc' = "update"
  /\ last_ticker' = vblticker
  /\ UNCHANGED <<vblticker, audio, gVIsPerFrame, hitch, worst, dropped, lag>>

\* Audio_Update, which announces the frame's commands.
MainUpdate ==
  /\ apc = "sleep"
  /\ mpc = "update"
  /\ mpc' = "frame"
  /\ lag' = lag + 1
  /\ UNCHANGED <<vblticker, audio, last_ticker, gVIsPerFrame, hitch, worst, dropped>>
-----------------------------------------------------------------------------
AudioStep == \/ AudioTest \/ AudioSleep \/ AudioMeasure
             \/ AudioAdvance \/ AudioRender \/ AudioLoop
MainStep  == MainFrame \/ MainTest \/ MainSleep \/ MainStamp \/ MainUpdate

Next == Vblank \/ AudioStep \/ MainStep

Spec == Init /\ [][Next]_vars
-----------------------------------------------------------------------------
\* Every variable has its type; a wake makes CATCHUP_MAX buffers at most.
TypeOK ==
  /\ vblticker \in Nat
  /\ apc \in {"test", "wait", "sleep", "measure", "advance", "render"}
  /\ last_vbltick \in Nat
  /\ behind \in Nat
  /\ apc = "render" => behind <= CatchupMax
  /\ audio_frame \in Nat
  /\ mpc \in {"frame", "test", "wait", "sleep", "stamp", "update"}
  /\ last_ticker \in Nat
  /\ gVIsPerFrame \in VIs
  /\ hitch \in 0 .. MaxHitch + 1
  /\ worst \in 0 .. MaxHitch
  /\ dropped \in Nat
  /\ lag \in Nat

\* The sequencer clock never runs ahead of the vblank, and every vblank it has
\* passed was rendered, is about to be, or was dropped on purpose.
Accounted ==
  /\ last_vbltick <= vblticker
  /\ audio_frame + dropped + (IF apc = "render" THEN behind ELSE 0) = last_vbltick

\* A hitch below the cap is made up in full: no vblank is dropped while the audio
\* thread is kept busy for fewer than CATCHUP_MAX vblanks, with the one that wakes it.
HitchesMadeUp == worst < CatchupMax => dropped = 0

\* At most two windows of commands wait for the audio thread, whatever the hitches: the
\* game thread runs only while vblticker stands still, and there it ends one frame that
\* was stamped before and one that is due.  This is the pace the command ring relies on.
Paced == lag <= 2

\* The audio thread never sleeps more vblanks than it can have missed between its test
\* of vblticker and genwait_wait: the next vblank wakes it, and a wake-up that came too
\* early is not lost for good.
NoOversleep == apc = "sleep" => vblticker <= last_vbltick + worst
=============================================================================
