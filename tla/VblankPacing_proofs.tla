------------------------ MODULE VblankPacing_proofs -------------------------
(***************************************************************************)
(* What the audio thread owes the sequencer, for every cap, every hitch    *)
(* and every number of vblanks.  The invariant says how far last_vbltick   *)
(* trails vblticker: by the vblanks counted since the last measurement,    *)
(* and while the cap is being applied by the measured ones as well.        *)
(***************************************************************************)
EXTENDS VblankPacing, TLAPS

\* How far last_vbltick trails vblticker.
Trail == vblticker = last_vbltick + hitch + (IF apc = "advance" THEN behind ELSE 0)

\* A measurement is no longer than the worst hitch and the vblank that ends a sleep.
Measured == /\ hitch <= worst + 1
            /\ apc = "advance" => behind <= worst + 1

\* The audio thread goes to sleep with at most the worst hitch's vblanks unseen.
Rested == apc \in {"wait", "sleep"} => hitch <= worst

\* A buffer is made between two sleeps, and the frames since then were ended in this
\* sleep: the first may have been stamped before it, the second is stamped now.
Due == /\ apc = "measure" => hitch > 0
       /\ apc = "advance" => behind > 0
Served == \/ apc = "test" /\ hitch = 0
          \/ apc = "render" /\ behind = 0
          \/ apc = "wait"
Frames == /\ last_ticker <= vblticker
          /\ Served => lag = 0
          /\ apc = "sleep" /\ mpc = "update" /\ lag = 1 => last_ticker = vblticker
          /\ apc = "sleep" /\ lag = 2 => last_ticker = vblticker /\ mpc \notin {"stamp", "update"}

IInv == /\ TypeOK /\ Accounted /\ HitchesMadeUp /\ Trail /\ Measured /\ Rested
        /\ Paced /\ Due /\ Frames

\* The initial state satisfies the inductive invariant.
LEMMA InitIInv == Init => IInv
  BY PacingAssumption DEF Init, IInv, TypeOK, Accounted, HitchesMadeUp, Trail, Measured, Rested,
                              Paced, Due, Served, Frames

\* Every step preserves the inductive invariant.
LEMMA NextIInv == IInv /\ [Next]_vars => IInv'
<1> SUFFICES ASSUME IInv, [Next]_vars PROVE IInv'
  OBVIOUS
<1> USE PacingAssumption DEF IInv, TypeOK, Accounted, HitchesMadeUp, Trail, Measured, Rested,
                          Paced, Due, Served, Frames
<1>1. CASE Vblank
  <2>1. CASE apc = "sleep"
    BY <1>1, <2>1 DEF Vblank, Woken
  <2>2. CASE apc # "sleep"
    BY <1>1, <2>2 DEF Vblank, Woken
  <2> QED BY <2>1, <2>2
<1>2. CASE AudioTest
  BY <1>2 DEF AudioTest, main
<1>3. CASE AudioSleep
  BY <1>3 DEF AudioSleep, main
<1>4. CASE AudioMeasure
  BY <1>4 DEF AudioMeasure, main
<1>5. CASE AudioAdvance
  <2>1. CASE behind > CatchupMax
    BY <1>5, <2>1 DEF AudioAdvance, Burst, Resync, main
  <2>2. CASE ~(behind > CatchupMax)
    BY <1>5, <2>2 DEF AudioAdvance, Burst, Resync, main
  <2> QED BY <2>1, <2>2
<1>6. CASE AudioRender
  BY <1>6 DEF AudioRender, main
<1>7. CASE AudioLoop
  BY <1>7 DEF AudioLoop, main
<1>8. CASE MainFrame
  BY <1>8 DEF MainFrame, audio
<1>9. CASE MainTest
  BY <1>9 DEF MainTest, FrameDue, audio
<1>10. CASE MainSleep
  BY <1>10 DEF MainSleep, audio
<1>11. CASE MainStamp
  BY <1>11 DEF MainStamp, audio
<1>12. CASE MainUpdate
  BY <1>12 DEF MainUpdate, audio
<1>13. CASE UNCHANGED vars
  BY <1>13 DEF vars, audio, main
<1> QED
  BY <1>1, <1>2, <1>3, <1>4, <1>5, <1>6, <1>7, <1>8, <1>9, <1>10, <1>11, <1>12, <1>13
  DEF Next, AudioStep, MainStep

\* The inductive invariant holds of every behaviour.
LEMMA AlwaysIInv == Spec => []IInv
  BY InitIInv, NextIInv, PTL DEF Spec

\* Every variable has its type, and a wake makes CATCHUP_MAX buffers at most.
THEOREM PacingTypeCorrect == Spec => []TypeOK
<1>1. IInv => TypeOK
  BY DEF IInv
<1> QED BY <1>1, AlwaysIInv, PTL

\* The sequencer clock is never ahead of the vblank, and the vblanks it has passed
\* are those rendered, about to be rendered, or dropped.
THEOREM VblanksAccounted == Spec => []Accounted
<1>1. IInv => Accounted
  BY DEF IInv
<1> QED BY <1>1, AlwaysIInv, PTL

\* No vblank is dropped while every hitch stays below CATCHUP_MAX.
THEOREM NothingDropped == Spec => []HitchesMadeUp
<1>1. IInv => HitchesMadeUp
  BY DEF IInv
<1> QED BY <1>1, AlwaysIInv, PTL

\* The audio thread sleeps with no more vblanks unseen than a hitch has.
THEOREM NeverOversleeps == Spec => []NoOversleep
<1>1. IInv => NoOversleep
  BY PacingAssumption DEF IInv, TypeOK, Trail, Rested, NoOversleep
<1> QED BY <1>1, AlwaysIInv, PTL

\* The game thread announces at most two frames between two buffers, for every rate,
\* every hitch and every cap.
THEOREM FramesPaced == Spec => []Paced
<1>1. IInv => Paced
  BY DEF IInv
<1> QED BY <1>1, AlwaysIInv, PTL
=============================================================================
