-------------------------- MODULE AudioReset_proofs --------------------------
(***************************************************************************)
(* What AudioReset establishes for every set of specs and spec changes,    *)
(* every length of the long fade and of a load, and every pace of the two  *)
(* threads; and, for spec changes one at a time, what the handshake of the *)
(* two threads keeps apart.                                                *)
(***************************************************************************)
EXTENDS AudioReset, SequenceTheorems, TLAPS

\* A reset that is under way, on its way or about to be asked for has been counted
\* and not yet ended: the heap is laid out no more often than the game asked for.
Pending ==
  /\ (IF audio.step # 0 THEN 1 ELSE 0) + (IF pc = "reset" THEN 1 ELSE 0)
       + Len(gAudioSpecQueue) + audio.inits <= resets
  /\ audio.replies = 0

\* No command runs in the last two steps.
Quiet == running # "sleep" => audio.step \notin {1, 2}

\* In step 2 a load's delay runs out before the step does, and the next buffer
\* cancels it.
Drained ==
  audio.load.active =>
    /\ audio.step # 1
    /\ audio.step = 2 => audio.load.delay <= audio.frames

IInv == TypeOK /\ Pending /\ Quiet /\ Drained
-----------------------------------------------------------------------------
(* The operators on the audio thread's state.                              *)

\* A queue of one slot.
LEMMA ShortQueue ==
  ASSUME NEW S, NEW q \in Seq(S), Len(q) <= 1
  PROVE  Len(q) \in {0, 1}
<1>1. Len(q) \in Nat
  OBVIOUS
<1> DEFINE n == Len(q)
<1> HIDE DEF n
<1>2. n \in Nat /\ n <= 1 => n \in {0, 1}
  OBVIOUS
<1> QED
  BY <1>1, <1>2 DEF n

\* A state with another load, font and number of messages.
LEMMA LoadField ==
  ASSUME NEW a \in AudioStates, NEW l \in Loads
  PROVE  LET b == [a EXCEPT !.load = l]
         IN  b \in AudioStates /\ b.step = a.step /\ b.frames = a.frames /\ b.inits = a.inits
               /\ b.replies = a.replies /\ b.load = l
  BY DEF AudioStates

LEMMA FontField ==
  ASSUME NEW a \in AudioStates, NEW l \in Loads, NEW f \in Fonts, NEW r \in 0 .. 2
  PROVE  LET b == [a EXCEPT !.load = l, !.font = f, !.replies = r]
         IN  b \in AudioStates /\ b.step = a.step /\ b.frames = a.frames /\ b.inits = a.inits
               /\ b.replies = r /\ b.load = l
  BY DEF AudioStates

LEMMA LoadEndField ==
  ASSUME NEW a \in AudioStates, NEW l \in Loads
  PROVE  LET b == [a EXCEPT !.load = l, !.font = "COMPLETE", !.replies = 1]
         IN  b \in AudioStates /\ b.step = a.step /\ b.frames = a.frames /\ b.inits = a.inits
               /\ b.replies = 1 /\ b.load = l
<1>1. "COMPLETE" \in Fonts /\ 1 \in 0 .. 2
  BY DEF Fonts
<1> QED
  BY <1>1 DEF AudioStates

\* A buffer's work on the load: it is over, or its delay went down.
LEMMA ProcessLoadsFacts ==
  ASSUME NEW a \in AudioStates, a.replies = 0
  PROVE  /\ ProcessLoads(a) \in AudioStates
         /\ ProcessLoads(a).step = a.step
         /\ ProcessLoads(a).frames = a.frames
         /\ ProcessLoads(a).inits = a.inits
         /\ ProcessLoads(a).replies \in 0 .. 1
         /\ ProcessLoads(a).load.active =>
              /\ a.load.active
              /\ a.step # 0 => a.load.delay > 0 /\ ProcessLoads(a).load.delay = a.load.delay - 1
<1> DEFINE Ended   == [a.load EXCEPT !.active = FALSE]
           Waited  == [a.load EXCEPT !.delay = @ - 1]
           Chunked == [a.load EXCEPT !.delay = 0, !.left = @ - 1]
<1>0. a.load \in Loads
  BY DEF AudioStates
<1>1. CASE ~a.load.active
  BY <1>1 DEF ProcessLoads
<1>2. CASE a.load.active /\ a.load.delay > 1
  <2>1. Waited \in Loads /\ Waited.delay = a.load.delay - 1
    BY <1>0, <1>2 DEF Loads, LoadDelay
  <2>2. ProcessLoads(a) = [a EXCEPT !.load = Waited]
    BY <1>2 DEF ProcessLoads, AudioStates
  <2>3. a.load.delay > 0
    BY <1>0, <1>2 DEF Loads, LoadDelay
  <2> HIDE DEF Waited
  <2> QED
    BY <1>2, <2>1, <2>2, <2>3, LoadField
<1>3. CASE a.load.active /\ ~(a.load.delay > 1) /\ Cancelled(a)
  <2>1. Ended \in Loads /\ ~Ended.active
    BY <1>0 DEF Loads
  <2>2. ProcessLoads(a) = [a EXCEPT !.load = Ended]
    BY <1>3 DEF ProcessLoads, AudioStates
  <2> HIDE DEF Ended
  <2> QED
    BY <2>1, <2>2, LoadField
<1>4. CASE a.load.active /\ ~(a.load.delay > 1) /\ ~Cancelled(a) /\ a.load.left = 0
  <2>1. Ended \in Loads /\ ~Ended.active
    BY <1>0 DEF Loads
  <2>2. ProcessLoads(a) = [a EXCEPT !.load = Ended, !.font = "COMPLETE", !.replies = 1]
    BY <1>4 DEF ProcessLoads, LoadEnd, AudioStates
  <2> HIDE DEF Ended
  <2>3. "COMPLETE" \in Fonts /\ 1 \in 0 .. 2
    BY DEF Fonts
  <2>4. LET b == [a EXCEPT !.load = Ended, !.font = "COMPLETE", !.replies = 1]
        IN  b \in AudioStates /\ b.step = a.step /\ b.frames = a.frames /\ b.inits = a.inits
              /\ b.replies = 1 /\ b.load = Ended
    BY <2>1, LoadEndField
  <2> QED
    BY <2>1, <2>2, <2>4
<1>5. CASE a.load.active /\ ~(a.load.delay > 1) /\ ~Cancelled(a) /\ a.load.left # 0
  <2>1. Chunked \in Loads /\ Chunked.delay = 0
    <3>1. a.load.left - 1 \in 0 .. Chunks
      BY <1>0, <1>5, ResetAssumption DEF Loads
    <3>2. 0 \in 0 .. LoadDelay
      BY DEF LoadDelay
    <3> QED
      BY <1>0, <3>1, <3>2 DEF Loads
  <2>2. ProcessLoads(a) = [a EXCEPT !.load = Chunked]
    BY <1>5 DEF ProcessLoads, AudioStates
  <2>3. a.step # 0 => a.load.delay = 1
    BY <1>0, <1>5 DEF Cancelled, Loads, LoadDelay
  <2> HIDE DEF Chunked
  <2> QED
    BY <1>0, <1>5, <2>1, <2>2, <2>3, LoadField
<1> QED
  BY <1>1, <1>2, <1>3, <1>4, <1>5

\* A spec that arrives starts a reset or gives the one under way another target.
LEMMA ReceiveSpecFacts ==
  ASSUME NEW a \in AudioStates, gAudioSpecQueue \in Seq(Specs)
  PROVE  /\ ReceiveSpec(a) \in AudioStates
         /\ ReceiveSpec(a).step = IF gAudioSpecQueue # << >> /\ a.step = 0 THEN 5 ELSE a.step
         /\ ReceiveSpec(a).frames = a.frames
         /\ ReceiveSpec(a).inits = a.inits
         /\ ReceiveSpec(a).replies = a.replies
         /\ ReceiveSpec(a).load = a.load
<1>1. CASE gAudioSpecQueue = << >>
  BY <1>1 DEF ReceiveSpec
<1>2. CASE gAudioSpecQueue # << >>
  <2> DEFINE step == IF a.step = 0 THEN 5 ELSE a.step
             spec == Head(gAudioSpecQueue)
  <2>1. step \in 0 .. 5
    BY DEF AudioStates
  <2>2. spec \in Specs
    BY <1>2
  <2>3. ReceiveSpec(a) = [a EXCEPT !.step = step, !.specId = spec]
    BY <1>2 DEF ReceiveSpec
  <2>4. step = IF gAudioSpecQueue # << >> /\ a.step = 0 THEN 5 ELSE a.step
    BY <1>2
  <2> HIDE DEF step, spec
  <2> QED
    BY <2>1, <2>2, <2>3, <2>4 DEF AudioStates
<1> QED
  BY <1>1, <1>2

\* The countdown of the reset: a step ends when its buffers have gone by.
LEMMA ResetStepFacts ==
  ASSUME NEW a \in AudioStates, a.step = 1 => a.inits < MaxResets
  PROVE  /\ ResetStep(a) \in AudioStates
         /\ ResetStep(a).replies = a.replies
         /\ ResetStep(a).load = a.load
         /\ ResetStep(a).inits = IF a.step = 1 THEN a.inits + 1 ELSE a.inits
         /\ a.step \in {0, 1} => ResetStep(a).step = 0
         /\ a.step = 5 => ResetStep(a).step = 4
         /\ a.step \in 2 .. 4 /\ a.frames > 0 =>
              ResetStep(a).step = a.step /\ ResetStep(a).frames = a.frames - 1
         /\ a.step \in 2 .. 4 /\ a.frames = 0 => ResetStep(a).step = a.step - 1
         /\ a.step = 3 /\ a.frames = 0 => ResetStep(a).frames = ShortFade
<1>0. a.step \in 0 .. 5 /\ a.frames \in Nat /\ a.inits \in 0 .. MaxResets
  BY DEF AudioStates
<1>1. CASE a.step = 0
  BY <1>1 DEF ResetStep
<1>2. CASE a.step = 5
  <2>1. ResetStep(a) = [a EXCEPT !.step = 4, !.enabled = {}, !.frames = ShortFade]
    BY <1>2 DEF ResetStep, Disabled, FadeBefore
  <2>2. 4 \in 0 .. 5 /\ {} \in SUBSET {"sfx", "bgm"} /\ ShortFade \in Nat
    BY DEF ShortFade
  <2>3. ResetStep(a) \in AudioStates
    BY <2>1, <2>2 DEF AudioStates
  <2>4. /\ ResetStep(a).replies = a.replies
        /\ ResetStep(a).load = a.load
        /\ ResetStep(a).inits = a.inits
        /\ ResetStep(a).step = 4
    BY <2>1 DEF AudioStates
  <2> QED
    BY <1>2, <2>3, <2>4
<1>3. CASE a.step = 1
  <2> DEFINE inits == a.inits + 1
  <2>1. ResetStep(a) = [a EXCEPT !.step = 0, !.heap = a.specId, !.inits = inits, !.font = "NOT_LOADED"]
    BY <1>3 DEF ResetStep, HeapInit
  <2>2. 0 \in 0 .. 5 /\ inits \in 0 .. MaxResets /\ "NOT_LOADED" \in Fonts /\ a.specId \in Specs
    BY <1>0, <1>3, ResetAssumption DEF Fonts, AudioStates
  <2> HIDE DEF inits
  <2>3. ResetStep(a) \in AudioStates
    BY <2>1, <2>2 DEF AudioStates
  <2>4. /\ ResetStep(a).replies = a.replies
        /\ ResetStep(a).load = a.load
        /\ ResetStep(a).inits = inits
        /\ ResetStep(a).step = 0
    BY <2>1 DEF AudioStates
  <2> QED
    BY <1>3, <2>3, <2>4 DEF inits
<1>4. CASE a.step \in 2 .. 4 /\ a.frames > 0
  <2> DEFINE frames == a.frames - 1
  <2>1. ResetStep(a) = [a EXCEPT !.frames = frames]
    BY <1>4 DEF ResetStep
  <2>2. frames \in Nat
    BY <1>0, <1>4
  <2> HIDE DEF frames
  <2>3. /\ ResetStep(a) \in AudioStates
        /\ ResetStep(a).replies = a.replies
        /\ ResetStep(a).load = a.load
        /\ ResetStep(a).inits = a.inits
        /\ ResetStep(a).step = a.step
        /\ ResetStep(a).frames = frames
    BY <2>1, <2>2 DEF AudioStates
  <2> QED
    BY <1>0, <1>4, <2>3 DEF frames
<1>5. CASE a.step \in 2 .. 4 /\ a.frames = 0
  <2> DEFINE step   == a.step - 1
             frames == FadeBefore[a.step - 1]
  <2>1. ResetStep(a) = [a EXCEPT !.step = step, !.frames = frames]
    BY <1>5 DEF ResetStep
  <2>2. step \in 0 .. 5
    BY <1>5
  <2>3. frames \in Nat /\ (a.step = 3 => frames = ShortFade)
    <3>1. a.step = 2 \/ a.step = 3 \/ a.step = 4
      BY <1>5
    <3> QED
      BY <3>1, ResetAssumption DEF FadeBefore, ShortFade
  <2>4. step = a.step - 1
    OBVIOUS
  <2> HIDE DEF step, frames
  <2>5. /\ ResetStep(a) \in AudioStates
        /\ ResetStep(a).replies = a.replies
        /\ ResetStep(a).load = a.load
        /\ ResetStep(a).inits = a.inits
        /\ ResetStep(a).step = step
        /\ ResetStep(a).frames = frames
    BY <2>1, <2>2, <2>3 DEF AudioStates
  <2> QED
    BY <1>5, <2>3, <2>4, <2>5
<1> QED
  BY <1>0, <1>1, <1>2, <1>3, <1>4, <1>5

\* No command moves the reset, and one that loads a font begins with the whole delay.
LEMMA ExecuteFacts ==
  ASSUME NEW a \in AudioStates, a.replies = 0, NEW cmd \in Commands
  PROVE  /\ Execute(a, cmd) \in AudioStates
         /\ Execute(a, cmd).step = a.step
         /\ Execute(a, cmd).frames = a.frames
         /\ Execute(a, cmd).inits = a.inits
         /\ Execute(a, cmd).replies \in 0 .. 1
<1>1. CASE cmd.op = "start_sfx"
  <2>1. Execute(a, cmd) = [a EXCEPT !.enabled = a.enabled \union {"sfx"}]
    BY <1>1 DEF Execute
  <2>2. a.enabled \union {"sfx"} \in SUBSET {"sfx", "bgm"}
    BY DEF AudioStates
  <2> QED
    BY <2>1, <2>2 DEF AudioStates
<1>2. CASE cmd.op = "start_bgm"
  <2> DEFINE enabled == a.enabled \union {"bgm"}
  <2>1. Execute(a, cmd) = [a EXCEPT !.enabled = enabled, !.font = "COMPLETE"]
    BY <1>2 DEF Execute
  <2>2. enabled \in SUBSET {"sfx", "bgm"} /\ "COMPLETE" \in Fonts
    BY DEF AudioStates, Fonts
  <2> HIDE DEF enabled
  <2>3. Execute(a, cmd) \in AudioStates
    BY <2>1, <2>2 DEF AudioStates
  <2>4. /\ Execute(a, cmd).step = a.step
        /\ Execute(a, cmd).frames = a.frames
        /\ Execute(a, cmd).inits = a.inits
        /\ Execute(a, cmd).replies = a.replies
    BY <2>1 DEF AudioStates
  <2> QED
    BY <2>3, <2>4
<1>3. CASE cmd.op = "discard"
  <2>1. Execute(a, cmd) = [a EXCEPT !.font = "NOT_LOADED"]
    BY <1>3 DEF Execute
  <2>2. "NOT_LOADED" \in Fonts
    BY DEF Fonts
  <2> QED
    BY <2>1, <2>2 DEF AudioStates
<1>4. CASE cmd.op \notin {"start_sfx", "start_bgm", "discard"}
  <2>1. Execute(a, cmd) = AsyncLoadFont(a)
    BY <1>4 DEF Execute
  <2>2. CASE a.font = "IN_PROGRESS"
    BY <2>1, <2>2 DEF AsyncLoadFont
  <2>3. CASE a.font = "COMPLETE"
    <3>1. Execute(a, cmd) = [a EXCEPT !.replies = 1]
      BY <2>1, <2>3 DEF AsyncLoadFont
    <3>2. 1 \in 0 .. 2
      OBVIOUS
    <3> QED
      BY <3>1, <3>2 DEF AudioStates
  <2>4. CASE a.font \notin {"IN_PROGRESS", "COMPLETE"}
    <3> DEFINE begun == [active |-> TRUE, delay |-> LoadDelay, left |-> Chunks]
    <3>1. Execute(a, cmd) = [a EXCEPT !.font = "IN_PROGRESS", !.load = begun]
      BY <2>1, <2>4 DEF AsyncLoadFont
    <3>2. begun \in Loads /\ "IN_PROGRESS" \in Fonts
      BY ResetAssumption DEF Loads, LoadDelay, Fonts
    <3> HIDE DEF begun
    <3>3. Execute(a, cmd) \in AudioStates
      BY <3>1, <3>2 DEF AudioStates
    <3>4. /\ Execute(a, cmd).step = a.step
          /\ Execute(a, cmd).frames = a.frames
          /\ Execute(a, cmd).inits = a.inits
          /\ Execute(a, cmd).replies = a.replies
      BY <3>1 DEF AudioStates
    <3> QED
      BY <3>3, <3>4
  <2> QED
    BY <2>2, <2>3, <2>4
<1> QED
  BY <1>1, <1>2, <1>3, <1>4
-----------------------------------------------------------------------------
(* The commands.                                                           *)

LEMMA CmdTyped ==
  ASSUME TypeOK, NEW op \in Ops
  PROVE  Cmd(op) \in Commands
  BY DEF TypeOK, Cmd, Commands

\* What the game thread puts into the ring of its own accord.
LEMMA FixedCmdsTyped ==
  ASSUME TypeOK
  PROVE  /\ RestartCmds \in Seq(Commands)
         /\ Barriers \in Seq(Commands)
         /\ ResetBarrier \in Seq(Commands)
<1>1. Cmd("start_sfx") \in Commands /\ Cmd("stop") \in Commands
  BY CmdTyped DEF Ops
<1>2. RestartCmds \in Seq(Commands) /\ ResetBarrier \in Seq(Commands)
  BY <1>1 DEF RestartCmds, ResetBarrier
<1>3. Barriers \in [1 .. 3 -> Commands]
  BY <1>1 DEF Barriers
<1>4. Barriers \in Seq(Commands)
  BY <1>3, SeqDef
<1> QED
  BY <1>2, <1>4

LEMMA ScheduleTyped ==
  ASSUME TypeOK, NEW cmds \in Seq(Commands), Schedule(cmds)
  PROVE  /\ gThreadCmdProcQueue' \in Seq(Windows)
         /\ Len(gThreadCmdProcQueue') <= ProcQueueSize
         /\ skipped' \in Seq(Commands)
<1>0. gThreadCmdProcQueue \in Seq(Windows) /\ skipped \in Seq(Commands)
      /\ Len(gThreadCmdProcQueue) <= ProcQueueSize
  BY DEF TypeOK
<1> DEFINE window == [skipped |-> skipped, cmds |-> cmds]
<1>1. CASE Len(gThreadCmdProcQueue) < ProcQueueSize
  <2>1. gThreadCmdProcQueue' = Append(gThreadCmdProcQueue, window) /\ skipped' = << >>
    BY <1>1 DEF Schedule, ProcQueueSize
  <2>2. window \in Windows
    BY <1>0 DEF Windows
  <2> HIDE DEF window
  <2> QED
    BY <1>0, <1>1, <2>1, <2>2 DEF ProcQueueSize
<1>2. CASE Len(gThreadCmdProcQueue) = ProcQueueSize
  <2>1. gThreadCmdProcQueue' = gThreadCmdProcQueue /\ skipped' = skipped \o cmds
    BY <1>2 DEF Schedule, ProcQueueSize
  <2> QED
    BY <1>0, <2>1, ConcatProperties
<1>3. Len(gThreadCmdProcQueue) < ProcQueueSize \/ Len(gThreadCmdProcQueue) = ProcQueueSize
  BY DEF Schedule
<1> QED
  BY <1>1, <1>2, <1>3
-----------------------------------------------------------------------------
(* The invariant.                                                          *)

LEMMA InitEstablishes == Init => IInv
<1> SUFFICES ASSUME Init PROVE IInv
  OBVIOUS
<1>1. audio \in AudioStates
  <2>1. [active |-> FALSE, delay |-> 0, left |-> 0] \in Loads
    BY ResetAssumption DEF Loads, LoadDelay
  <2>2. {"sfx"} \in SUBSET {"sfx", "bgm"} /\ "NOT_LOADED" \in Fonts /\ BootSpec \in Specs
        /\ 0 \in 0 .. MaxResets /\ 0 \in 0 .. 5 /\ 0 \in 0 .. 2
    BY ResetAssumption DEF Fonts
  <2> QED
    BY <2>1, <2>2 DEF Init, AudioStates
<1>2. audio.step = 0 /\ audio.inits = 0 /\ audio.replies = 0 /\ ~audio.load.active
  BY DEF Init
<1>3. TypeOK
  <2>1. << >> \in Seq(Commands) /\ << >> \in Seq(Windows) /\ << >> \in Seq(Specs) /\ Len(<< >>) = 0
    OBVIOUS
  <2>2. 0 \in 0 .. MaxResets /\ 0 \in 0 .. MaxPlays /\ 0 \in 0 .. MaxLag
    BY ResetAssumption
  <2>3. waiting \in BOOLEAN /\ gThreadCmdQueueFinished \in BOOLEAN /\ hasty \in BOOLEAN /\ lost \in BOOLEAN
    BY Zenon DEF Init
  <2>4. /\ unsent \in Seq(Commands) /\ skipped \in Seq(Commands) /\ todo \in Seq(Commands)
        /\ gThreadCmdProcQueue \in Seq(Windows) /\ Len(gThreadCmdProcQueue) = 0
        /\ gAudioSpecQueue \in Seq(Specs) /\ Len(gAudioSpecQueue) = 0
        /\ gAudioResetQueue \in Seq(Specs) /\ Len(gAudioResetQueue) = 0
    BY <2>1 DEF Init
  <2>5. sAudioResetStatus \in Statuses /\ sAudioSpecId \in Specs /\ oldSpecId \in Specs
    BY ResetAssumption DEF Init, Statuses
  <2>6. /\ pc \in {"update", "cmds", "reset", "players", "schedule"}
        /\ running \in {"sleep", "drain", "walk"}
        /\ gExternalLoadQueue \in Nat
        /\ resets \in 0 .. MaxResets /\ plays \in 0 .. MaxPlays /\ lag \in 0 .. MaxLag
    BY <2>2 DEF Init
  <2> QED
    BY <1>1, <2>3, <2>4, <2>5, <2>6 DEF TypeOK, ProcQueueSize
<1>4. Pending /\ Quiet /\ Drained
  BY <1>2 DEF Init, Pending, Quiet, Drained
<1> QED
  BY <1>3, <1>4 DEF IInv

\* The steps of the game thread leave the audio thread's state alone.
LEMMA GameStepKeeps == IInv /\ GameStep => IInv'
<1> SUFFICES ASSUME IInv, GameStep PROVE IInv'
  OBVIOUS
<1> USE ResetAssumption
<1>0. TypeOK /\ Pending /\ Quiet /\ Drained
  BY DEF IInv
<1>1. UNCHANGED <<audio, running>>
  BY DEF GameStep, Ready, StaleReset, ResetDone, PlayBgm, ResetBegin, ResetSend, SeqCmdsDone,
         FontArrived, NoFont, FrameEnd, walker
<1>2. Quiet' /\ Drained'
  BY <1>0, <1>1 DEF Quiet, Drained
<1>2a. resets \in Nat /\ audio.inits \in Nat /\ Len(gAudioSpecQueue) \in Nat
  BY <1>0 DEF TypeOK, AudioStates
<1>3. CASE Ready
  <2>1. TypeOK'
    BY <1>0, <1>3 DEF Ready, TypeOK, ring, queues, walker
  <2>2. Pending'
    BY <1>0, <1>3 DEF Ready, Pending, queues
  <2> QED
    BY <1>2, <2>1, <2>2 DEF IInv
<1>4. CASE StaleReset
  <2>1. gAudioResetQueue' \in Seq(Specs) /\ Len(gAudioResetQueue') <= 1
    BY <1>0, <1>4 DEF StaleReset, TypeOK
  <2>2. TypeOK'
    BY <1>0, <1>4, <2>1 DEF StaleReset, TypeOK, game, ring, walker
  <2>3. Pending'
    BY <1>0, <1>4 DEF StaleReset, Pending, game
  <2> QED
    BY <1>2, <2>2, <2>3 DEF IInv
<1>5. CASE ResetDone
  <2>1. gAudioResetQueue' \in Seq(Specs) /\ Len(gAudioResetQueue') <= 1
    BY <1>0, <1>5 DEF ResetDone, TypeOK
  <2>2. unsent \o RestartCmds \in Seq(Commands)
    BY <1>0, FixedCmdsTyped, ConcatProperties DEF TypeOK
  <2>3. /\ gThreadCmdProcQueue' \in Seq(Windows)
        /\ Len(gThreadCmdProcQueue') <= ProcQueueSize
        /\ skipped' \in Seq(Commands)
    BY <1>0, <1>5, <2>2, ScheduleTyped DEF ResetDone
  <2>4. unsent' \in Seq(Commands)
    BY <1>0, <1>5, FixedCmdsTyped DEF ResetDone
  <2>5. TypeOK'
    BY <1>0, <1>5, <2>1, <2>3, <2>4 DEF ResetDone, TypeOK, Statuses, walker
  <2>6. Pending'
    BY <1>0, <1>5 DEF ResetDone, Pending
  <2> QED
    BY <1>2, <2>5, <2>6 DEF IInv
<1>6. CASE \E withFont, discard \in BOOLEAN : PlayBgm(withFont, discard)
  <2> PICK withFont \in BOOLEAN, discard \in BOOLEAN : PlayBgm(withFont, discard)
    BY <1>6
  <2>1. Cmd("start_bgm") \in Commands /\ Cmd("discard") \in Commands /\ Cmd("load") \in Commands
    BY <1>0, CmdTyped DEF Ops
  <2> DEFINE cmds == IF ~withFont THEN <<Cmd("start_bgm")>>
                     ELSE IF discard THEN <<Cmd("discard"), Cmd("load")>>
                     ELSE <<Cmd("load")>>
  <2>2. cmds \in Seq(Commands)
    BY <2>1
  <2>3. unsent' = unsent \o cmds
    BY DEF PlayBgm
  <2> HIDE DEF cmds
  <2>4. unsent' \in Seq(Commands)
    BY <1>0, <2>2, <2>3, ConcatProperties DEF TypeOK
  <2>7. waiting' \in BOOLEAN /\ lost' \in BOOLEAN
    BY Zenon DEF PlayBgm
  <2>8. plays' \in 0 .. MaxPlays
    BY <1>0 DEF PlayBgm, TypeOK
  <2>5. TypeOK'
    BY <1>0, <2>4, <2>7, <2>8 DEF PlayBgm, TypeOK, queues, walker
  <2>6. Pending'
    BY <1>0 DEF PlayBgm, Pending, queues
  <2> QED
    BY <1>2, <2>5, <2>6 DEF IInv
<1>7. CASE \E specId \in Specs : ResetBegin(specId)
  <2> PICK specId \in Specs : ResetBegin(specId)
    BY <1>7
  <2>1. skipped' \in Seq(Commands) /\ unsent' \in Seq(Commands) /\ gAudioResetQueue' \in Seq(Specs)
        /\ Len(gAudioResetQueue') = 0
    BY <1>0, ConcatProperties DEF ResetBegin, TypeOK
  <2>2. hasty' \in BOOLEAN /\ lost' \in BOOLEAN
    BY <1>0, Zenon DEF ResetBegin, TypeOK, Settled, Has
  <2>3. TypeOK'
    BY <1>0, <2>1, <2>2 DEF ResetBegin, TypeOK, walker
  <2>4. Pending'
    <3>1. /\ pc = "cmds" /\ pc' = "reset" /\ resets' = resets + 1
          /\ audio' = audio /\ gAudioSpecQueue' = gAudioSpecQueue
      BY DEF ResetBegin
    <3> QED
      BY <1>0, <1>2a, <3>1 DEF Pending
  <2> QED
    BY <1>2, <2>3, <2>4 DEF IInv
<1>8. CASE ResetSend
  <2>1. gAudioSpecQueue' \in Seq(Specs) /\ Len(gAudioSpecQueue') <= 1
        /\ Len(gAudioSpecQueue') <= Len(gAudioSpecQueue) + 1
    BY <1>0, <1>8 DEF ResetSend, TypeOK, Send
  <2>2. sAudioResetStatus' \in Statuses
    BY <1>0, <1>8 DEF ResetSend, TypeOK, StatusAfter, Statuses
  <2>3. unsent' \in Seq(Commands)
    BY <1>0, <1>8, FixedCmdsTyped, ConcatProperties DEF ResetSend, TypeOK
  <2>4. TypeOK'
    BY <1>0, <1>8, <2>1, <2>2, <2>3 DEF ResetSend, TypeOK, walker
  <2>5. Pending'
    <3>1. pc = "reset" /\ pc' = "cmds" /\ resets' = resets /\ audio' = audio
      BY <1>8 DEF ResetSend
    <3>2. Len(gAudioSpecQueue') \in Nat
      BY <2>1
    <3> QED
      BY <1>0, <1>2a, <2>1, <3>1, <3>2 DEF Pending
  <2> QED
    BY <1>2, <2>4, <2>5 DEF IInv
<1>9. CASE SeqCmdsDone
  <2>1. TypeOK'
    BY <1>0, <1>9 DEF SeqCmdsDone, TypeOK, ring, queues, walker
  <2>2. Pending'
    BY <1>0, <1>9 DEF SeqCmdsDone, Pending, queues
  <2> QED
    BY <1>2, <2>1, <2>2 DEF IInv
<1>10. CASE FontArrived
  <2>1. unsent' \in Seq(Commands)
    BY <1>0, <1>10, CmdTyped DEF FontArrived, TypeOK, Ops
  <2>2. gExternalLoadQueue' \in Nat
    BY <1>0, <1>10 DEF FontArrived, TypeOK
  <2>4. TypeOK'
    BY <1>0, <1>10, <2>1, <2>2 DEF FontArrived, TypeOK, walker
  <2>3. Pending'
    BY <1>0, <1>10 DEF FontArrived, Pending
  <2> QED
    BY <1>2, <2>3, <2>4 DEF IInv
<1>11. CASE NoFont
  <2>1. TypeOK'
    BY <1>0, <1>11 DEF NoFont, TypeOK, ring, queues, walker
  <2>2. Pending'
    BY <1>0, <1>11 DEF NoFont, Pending, queues
  <2> QED
    BY <1>2, <2>1, <2>2 DEF IInv
<1>12. CASE FrameEnd
  <2>1. /\ gThreadCmdProcQueue' \in Seq(Windows)
        /\ Len(gThreadCmdProcQueue') <= ProcQueueSize
        /\ skipped' \in Seq(Commands)
    BY <1>0, <1>12, ScheduleTyped DEF FrameEnd, TypeOK
  <2>2. TypeOK'
    BY <1>0, <1>12, <2>1 DEF FrameEnd, TypeOK, walker
  <2>3. Pending'
    BY <1>0, <1>12 DEF FrameEnd, Pending
  <2> QED
    BY <1>2, <2>2, <2>3 DEF IInv
<1> QED
  BY <1>3, <1>4, <1>5, <1>6, <1>7, <1>8, <1>9, <1>10, <1>11, <1>12 DEF GameStep

\* The part of a buffer before the commands: the load, the spec, the countdown.
LEMMA BufferStartKeeps == IInv /\ BufferStart => IInv'
<1> SUFFICES ASSUME IInv, BufferStart PROVE IInv'
  OBVIOUS
<1> DEFINE loaded == ProcessLoads(audio)
           asked  == ReceiveSpec(loaded)
           reset  == ResetStep(asked)
           silent == asked.step # 0 /\ reset.step < 3
<1>0. TypeOK /\ Pending /\ Quiet /\ Drained
  BY DEF IInv
<1>1. /\ audio \in AudioStates /\ audio.replies = 0
      /\ gAudioSpecQueue \in Seq(Specs) /\ Len(gAudioSpecQueue) \in {0, 1}
      /\ resets \in 0 .. MaxResets /\ audio.inits \in 0 .. MaxResets
      /\ audio.step \in 0 .. 5 /\ audio.frames \in Nat /\ audio.load.delay \in 0 .. 3
  <2>1. /\ audio \in AudioStates /\ audio.replies = 0
        /\ gAudioSpecQueue \in Seq(Specs) /\ Len(gAudioSpecQueue) <= 1
        /\ resets \in 0 .. MaxResets
    <3>1. audio.replies = 0
      BY <1>0 DEF Pending
    <3> QED
      BY <1>0, <3>1 DEF TypeOK
  <2>2. Len(gAudioSpecQueue) \in {0, 1}
    BY <2>1, ShortQueue
  <2>3. /\ audio.inits \in 0 .. MaxResets /\ audio.step \in 0 .. 5
        /\ audio.frames \in Nat /\ audio.load \in Loads
    BY <2>1 DEF AudioStates
  <2>4. audio.load.delay \in 0 .. 3
    BY <2>3 DEF Loads, LoadDelay
  <2> QED
    BY <2>1, <2>2, <2>3, <2>4
<1>2. /\ loaded \in AudioStates
      /\ loaded.step = audio.step /\ loaded.frames = audio.frames /\ loaded.inits = audio.inits
      /\ loaded.replies \in 0 .. 1
      /\ loaded.load.active =>
           /\ audio.load.active
           /\ audio.step # 0 => audio.load.delay > 0 /\ loaded.load.delay = audio.load.delay - 1
  BY <1>1, ProcessLoadsFacts
<1>3. /\ asked \in AudioStates
      /\ asked.step = IF gAudioSpecQueue # << >> /\ audio.step = 0 THEN 5 ELSE audio.step
      /\ asked.frames = audio.frames /\ asked.inits = audio.inits
      /\ asked.replies \in 0 .. 1 /\ asked.load = loaded.load
  BY <1>1, <1>2, ReceiveSpecFacts
<1>4. asked.step = 1 => asked.inits < MaxResets
  BY <1>0, <1>1, <1>3, ResetAssumption DEF Pending
<1>5. /\ reset \in AudioStates
      /\ reset.replies \in 0 .. 1
      /\ reset.load = loaded.load
      /\ reset.inits = IF asked.step = 1 THEN asked.inits + 1 ELSE asked.inits
      /\ asked.step \in {0, 1} => reset.step = 0
      /\ asked.step = 5 => reset.step = 4
      /\ asked.step \in 2 .. 4 /\ asked.frames > 0 =>
           reset.step = asked.step /\ reset.frames = asked.frames - 1
      /\ asked.step \in 2 .. 4 /\ asked.frames = 0 => reset.step = asked.step - 1
      /\ asked.step = 3 /\ asked.frames = 0 => reset.frames = 4
  BY <1>3, <1>4, ResetStepFacts DEF ShortFade
<1>6. /\ audio' = [reset EXCEPT !.replies = 0]
      /\ running' = IF silent THEN "sleep" ELSE "drain"
      /\ gExternalLoadQueue' = gExternalLoadQueue + reset.replies
      /\ gAudioSpecQueue' = << >>
      /\ gAudioResetQueue' = IF silent /\ reset.step = 0
                             THEN Send(gAudioResetQueue, 1, reset.specId) ELSE gAudioResetQueue
      /\ lost' = (lost \/ Cancelled(audio))
      /\ lag' = 0
      /\ UNCHANGED <<game, ring, gThreadCmdProcQueue, todo, gThreadCmdQueueFinished, hasty, resets, plays>>
  BY DEF BufferStart
<1>7. reset.step \in 0 .. 5 /\ reset.specId \in Specs /\ reset.frames \in Nat
  BY <1>5 DEF AudioStates
<1> HIDE DEF loaded, asked, reset
<1>8. /\ audio' \in AudioStates
      /\ audio'.step = reset.step /\ audio'.frames = reset.frames /\ audio'.inits = reset.inits
      /\ audio'.replies = 0 /\ audio'.load = reset.load
  <2>1. 0 \in 0 .. 2
    OBVIOUS
  <2> QED
    BY <1>5, <1>6, <2>1 DEF AudioStates
<1>9. TypeOK'
  <2>1. gAudioResetQueue' \in Seq(Specs) /\ Len(gAudioResetQueue') <= 1
    BY <1>0, <1>6, <1>7 DEF TypeOK, Send
  <2>2. gExternalLoadQueue' \in Nat
    BY <1>0, <1>5, <1>6 DEF TypeOK
  <2>3. lost' \in BOOLEAN
    BY <1>0, <1>6, Zenon DEF TypeOK
  <2>4. running' \in {"sleep", "drain", "walk"} /\ lag' \in 0 .. MaxLag
    BY <1>6, ResetAssumption
  <2>5. gAudioSpecQueue' \in Seq(Specs) /\ Len(gAudioSpecQueue') <= 1
    BY <1>6
  <2> HIDE DEF silent
  <2> QED
    BY <1>0, <1>6, <1>8, <2>1, <2>2, <2>3, <2>4, <2>5 DEF TypeOK, game, ring
<1>10. Pending'
  <2>1. pc' = pc /\ resets' = resets /\ Len(gAudioSpecQueue') = 0
    BY <1>6 DEF game
  <2>2. gAudioSpecQueue # << >> => Len(gAudioSpecQueue) = 1
    BY <1>1
  <2> QED
    BY <1>0, <1>1, <1>3, <1>5, <1>7, <1>8, <2>1, <2>2 DEF Pending
<1>11. Quiet'
  <2>1. running' # "sleep" => asked.step = 0 \/ ~(reset.step < 3)
    BY <1>6
  <2> QED
    BY <1>5, <1>7, <1>8, <2>1 DEF Quiet
<1>12. Drained'
  <2> SUFFICES ASSUME audio'.load.active
               PROVE  audio'.step # 1 /\ (audio'.step = 2 => audio'.load.delay <= audio'.frames)
    BY DEF Drained
  <2>1. audio.load.active
        /\ (audio.step # 0 => audio.load.delay > 0 /\ audio'.load.delay = audio.load.delay - 1)
    BY <1>2, <1>5, <1>8
  <2>2. audio.step # 1 /\ (audio.step = 2 => audio.load.delay <= audio.frames)
    BY <1>0, <2>1 DEF Drained
  <2>3. CASE audio.step \in {0, 5}
    BY <1>3, <1>5, <1>8, <2>3
  <2>4. CASE audio.step \in {3, 4}
    <3>1. asked.step = audio.step /\ asked.frames = audio.frames
      BY <1>3, <2>4
    <3> QED
      BY <1>1, <1>5, <1>8, <2>1, <2>4, <3>1
  <2>5. CASE audio.step = 2
    <3>1. asked.step = 2 /\ asked.frames = audio.frames /\ audio.frames > 0
      BY <1>1, <1>3, <2>1, <2>2, <2>5
    <3> QED
      BY <1>1, <1>5, <1>8, <2>1, <2>2, <2>5, <3>1
  <2> QED
    BY <1>1, <2>2, <2>3, <2>4, <2>5
<1> QED
  BY <1>9, <1>10, <1>11, <1>12 DEF IInv

\* A command runs outside the last two steps only, so it may start a load.
LEMMA ExecuteCmdKeeps == IInv /\ ExecuteCmd => IInv'
<1> SUFFICES ASSUME IInv, ExecuteCmd PROVE IInv'
  OBVIOUS
<1> DEFINE done  == Execute(audio, Head(todo))
           early == done.early \/ Head(todo).epoch > audio.inits
<1>0. TypeOK /\ Pending /\ Quiet /\ Drained
  BY DEF IInv
<1>1. /\ audio \in AudioStates /\ audio.replies = 0
      /\ todo \in Seq(Commands) /\ todo # << >> /\ running = "walk"
      /\ audio.step \notin {1, 2}
  BY <1>0 DEF TypeOK, Pending, Quiet, ExecuteCmd
<1>2. Head(todo) \in Commands /\ Tail(todo) \in Seq(Commands)
  BY <1>1
<1>3. /\ done \in AudioStates
      /\ done.step = audio.step /\ done.frames = audio.frames /\ done.inits = audio.inits
      /\ done.replies \in 0 .. 1
  BY <1>1, <1>2, ExecuteFacts
<1>4. early \in BOOLEAN
  BY Zenon
<1>5. audio' = [done EXCEPT !.replies = 0, !.early = early]
  BY DEF ExecuteCmd
<1>6. gExternalLoadQueue' = gExternalLoadQueue + done.replies
  BY DEF ExecuteCmd
<1> HIDE DEF done, early
<1>7. /\ audio' \in AudioStates
      /\ audio'.step = audio.step /\ audio'.inits = audio.inits /\ audio'.replies = 0
  <2>1. 0 \in 0 .. 2
    OBVIOUS
  <2> QED
    BY <1>3, <1>4, <1>5, <2>1 DEF AudioStates
<1>8. TypeOK'
  <2>1. gExternalLoadQueue' \in Nat
    BY <1>0, <1>3, <1>6 DEF TypeOK
  <2> QED
    BY <1>0, <1>2, <1>7, <2>1 DEF ExecuteCmd, TypeOK, game, ring
<1>9. Pending' /\ Quiet' /\ Drained'
  BY <1>0, <1>1, <1>7 DEF ExecuteCmd, Pending, Quiet, Drained, game
<1> QED
  BY <1>8, <1>9 DEF IInv

\* The walk itself leaves the audio thread's state alone.
LEMMA WalkKeeps == IInv /\ (ReceiveWindow \/ WindowDone \/ BufferDone) => IInv'
<1> SUFFICES ASSUME IInv, ReceiveWindow \/ WindowDone \/ BufferDone PROVE IInv'
  OBVIOUS
<1>0. TypeOK /\ Pending /\ Quiet /\ Drained
  BY DEF IInv
<1>1. /\ running # "sleep"
      /\ UNCHANGED <<audio, pc, resets, gAudioSpecQueue>>
  BY DEF ReceiveWindow, WindowDone, BufferDone, game, queues
<1>2. Pending' /\ Quiet' /\ Drained'
  BY <1>0, <1>1 DEF Pending, Quiet, Drained
<1>3. CASE ReceiveWindow
  <2> DEFINE window == Head(gThreadCmdProcQueue)
  <2>1. window \in Windows /\ Tail(gThreadCmdProcQueue) \in Seq(Windows)
        /\ Len(Tail(gThreadCmdProcQueue)) <= ProcQueueSize
    BY <1>0, <1>3 DEF ReceiveWindow, TypeOK, ProcQueueSize
  <2>2. window.skipped \in Seq(Commands) /\ window.cmds \in Seq(Commands)
    BY <2>1 DEF Windows
  <2>3. todo' = IF gThreadCmdQueueFinished THEN todo \o window.skipped \o window.cmds ELSE window.cmds
    BY <1>3 DEF ReceiveWindow
  <2> HIDE DEF window
  <2>4. todo \in Seq(Commands)
    BY <1>0 DEF TypeOK
  <2>5. todo \o window.skipped \in Seq(Commands)
    BY <2>2, <2>4, ConcatProperties
  <2>6. (todo \o window.skipped) \o window.cmds \in Seq(Commands)
    BY <2>2, <2>5, ConcatProperties
  <2>7. todo' \in Seq(Commands)
    BY <2>2, <2>3, <2>6
  <2>8. gThreadCmdProcQueue' \in Seq(Windows) /\ Len(gThreadCmdProcQueue') <= ProcQueueSize
    BY <1>3, <2>1 DEF ReceiveWindow
  <2>9. /\ running' = "walk"
        /\ UNCHANGED <<game, ring, gAudioSpecQueue, gAudioResetQueue, gExternalLoadQueue, audio,
                       gThreadCmdQueueFinished, hasty, lost, resets, plays, lag>>
    BY <1>3 DEF ReceiveWindow
  <2>10. TypeOK'
    BY <1>0, <2>7, <2>8, <2>9 DEF TypeOK, game, ring
  <2> QED
    BY <1>2, <2>10 DEF IInv
<1>4. CASE WindowDone
  <2>1. todo' \in Seq(Commands)
    <3>1. todo \in Seq(Commands) /\ (todo' = todo \/ (todo # << >> /\ todo' = Tail(todo)))
      BY <1>0, <1>4 DEF WindowDone, TypeOK
    <3>2. todo # << >> => Tail(todo) \in Seq(Commands)
      BY <3>1
    <3> QED
      BY <3>1, <3>2
  <2>2. gThreadCmdQueueFinished' \in BOOLEAN
    BY <1>4, Zenon DEF WindowDone
  <2>3. TypeOK'
    BY <1>0, <1>4, <2>1, <2>2 DEF WindowDone, TypeOK, game, ring, queues
  <2> QED
    BY <1>2, <2>3 DEF IInv
<1>5. CASE BufferDone
  <2>1. TypeOK'
    BY <1>0, <1>5 DEF BufferDone, TypeOK, game, ring, queues
  <2> QED
    BY <1>2, <2>1 DEF IInv
<1> QED
  BY <1>3, <1>4, <1>5

LEMMA NextKeeps == IInv /\ [Next]_vars => IInv'
<1>1. CASE UNCHANGED vars
  BY <1>1 DEF vars, game, ring, queues, walker, IInv, TypeOK, Pending, Quiet, Drained
<1> QED
  BY <1>1, GameStepKeeps, BufferStartKeeps, ExecuteCmdKeeps, WalkKeeps DEF Next, AudioStep
-----------------------------------------------------------------------------
THEOREM Invariant == Spec => []IInv
BY InitEstablishes, NextKeeps, PTL DEF Spec

\* Every variable keeps its type, whatever the game asks for and however fast: the
\* queues hold no more than their slots, the countdown and the load's delay stay in
\* their ranges, and the heap is laid out no more often than a spec was asked for.
THEOREM ResetTypeCorrect == Spec => []TypeOK
<1>1. IInv => TypeOK
  BY DEF IInv
<1> QED
  BY <1>1, Invariant, PTL

\* AudioHeap_Init never runs while a font is being copied into the heap: a load may be
\* started as late as step 3, but its delay is shorter than step 2, which cancels it.
THEOREM LoadsDrained == Spec => []NoLoadAcrossInit
<1>1. IInv => NoLoadAcrossInit
  BY DEF IInv, Drained, NoLoadAcrossInit
<1> QED
  BY <1>1, Invariant, PTL
-----------------------------------------------------------------------------
(* The handshake, for spec changes one at a time.                          *)

\* Training and stages may follow each other as they like, but versus ends in the title:
\* for any other spec Audio_StartReset leaves the status as it was.
VersusEnds == \A c \in SpecChanges : c[1] = "VS" => c[2] \in {"OPENING", "TITLE"}

Underway == resets # audio.inits

\* Where a spec change is: nowhere, between the two steps that ask for it, in the
\* queue, with the audio thread, or done and answered.
Idle ==
  /\ sAudioResetStatus = "READY" /\ pc # "reset"
  /\ ~Underway
  /\ audio.step = 0 /\ gAudioSpecQueue = << >> /\ gAudioResetQueue = << >>
  /\ sAudioSpecId = audio.specId /\ audio.specId = audio.heap
Asking ==
  /\ sAudioResetStatus = "READY" /\ pc = "reset"
  /\ resets = audio.inits + 1
  /\ <<oldSpecId, sAudioSpecId>> \in SpecChanges
  /\ audio.step = 0 /\ gAudioSpecQueue = << >> /\ gAudioResetQueue = << >>
Sent ==
  /\ sAudioResetStatus # "READY" /\ pc # "reset"
  /\ resets = audio.inits + 1
  /\ audio.step = 0 /\ gAudioSpecQueue = <<sAudioSpecId>> /\ gAudioResetQueue = << >>
Fading ==
  /\ sAudioResetStatus # "READY" /\ pc # "reset"
  /\ resets = audio.inits + 1
  /\ audio.step \in 1 .. 4 /\ gAudioSpecQueue = << >> /\ gAudioResetQueue = << >>
  /\ sAudioSpecId = audio.specId
Answered ==
  /\ sAudioResetStatus # "READY" /\ pc # "reset"
  /\ ~Underway
  /\ audio.step = 0 /\ gAudioSpecQueue = << >> /\ gAudioResetQueue = <<sAudioSpecId>>
  /\ sAudioSpecId = audio.specId /\ audio.specId = audio.heap

Handshake == Idle \/ Asking \/ Sent \/ Fading \/ Answered

\* No command of a spec not yet asked for.
UpTo(s, n) == \A i \in DOMAIN s : s[i].epoch <= n
Issued ==
  /\ UpTo(unsent, resets) /\ UpTo(skipped, resets) /\ UpTo(todo, resets)
  /\ \A k \in DOMAIN gThreadCmdProcQueue :
       /\ UpTo(gThreadCmdProcQueue[k].skipped, resets)
       /\ UpTo(gThreadCmdProcQueue[k].cmds, resets)

\* Commands for the heap that is to come stand behind the barrier.
Behind(s, n) == \A i \in DOMAIN s : s[i].epoch > n =>
                  \E j \in 1 .. i : s[j].op = "stop" /\ s[j].epoch > n
Barrier(s, n) == s # << >> /\ s[1].op = "stop" /\ s[1].epoch > n
Ordered ==
  LET n == audio.inits IN
  Underway =>
    /\ running = "walk" => Behind(todo, n)
    /\ gThreadCmdProcQueue # << >> \/ pc # "update" => UpTo(todo, n)
    /\ \A k \in DOMAIN gThreadCmdProcQueue :
         /\ UpTo(gThreadCmdProcQueue[k].skipped, n)
         /\ Behind(gThreadCmdProcQueue[k].cmds, n)
         /\ k < Len(gThreadCmdProcQueue) \/ pc # "update" => UpTo(gThreadCmdProcQueue[k].cmds, n)
    /\ pc # "update" => UpTo(skipped, n)
    /\ pc = "reset" => unsent = << >>
    /\ pc \notin {"update", "reset"} => Barrier(unsent, n)

\* When all commands had run, only the barrier's window comes, and its commands stay
\* behind the barrier.
Hushed ==
  Underway /\ ~hasty =>
    /\ running = "walk" => gThreadCmdProcQueue = << >> /\ Barrier(todo, audio.inits)
    /\ gThreadCmdProcQueue # << >> =>
         /\ ~gThreadCmdQueueFinished
         /\ Len(gThreadCmdProcQueue) = 1
         /\ Barrier(gThreadCmdProcQueue[1].cmds, audio.inits)
    /\ pc # "update" => gThreadCmdProcQueue = << >> /\ ~gThreadCmdQueueFinished /\ running # "walk"
    /\ audio.step # 0 => audio.enabled = {}


HInv == Handshake /\ Issued /\ Ordered /\ Hushed /\ NothingEarly

\* What loads and commands leave alone.
Kept(b, a) ==
  b.step = a.step /\ b.inits = a.inits /\ b.specId = a.specId /\ b.heap = a.heap /\ b.early = a.early

LEMMA LoadsKeep ==
  ASSUME NEW a \in AudioStates
  PROVE  Kept(ProcessLoads(a), a) /\ ProcessLoads(a).enabled = a.enabled
<1>0. a.load \in Loads
  BY DEF AudioStates
<1>1. CASE ~a.load.active
  BY <1>1 DEF ProcessLoads, Kept
<1>2. CASE a.load.active /\ a.load.delay > 1
  BY <1>2 DEF ProcessLoads, Kept, AudioStates
<1>3. CASE a.load.active /\ ~(a.load.delay > 1) /\ Cancelled(a)
  BY <1>3 DEF ProcessLoads, Kept, AudioStates
<1>4. CASE a.load.active /\ ~(a.load.delay > 1) /\ ~Cancelled(a) /\ a.load.left = 0
  <2>1. ProcessLoads(a) = LoadEnd(a)
    BY <1>4 DEF ProcessLoads
  <2> QED BY <2>1 DEF LoadEnd, Kept, AudioStates
<1>5. CASE a.load.active /\ ~(a.load.delay > 1) /\ ~Cancelled(a) /\ a.load.left # 0
  BY <1>5 DEF ProcessLoads, Kept, AudioStates
<1> QED BY <1>1, <1>2, <1>3, <1>4, <1>5

LEMMA ExecuteKeeps ==
  ASSUME NEW a \in AudioStates, NEW cmd
  PROVE  Kept(Execute(a, cmd), a)
<1>1. CASE cmd.op = "start_sfx"
  BY <1>1 DEF Execute, Kept, AudioStates
<1>2. CASE cmd.op = "start_bgm"
  BY <1>2 DEF Execute, Kept, AudioStates
<1>3. CASE cmd.op = "discard"
  BY <1>3 DEF Execute, Kept, AudioStates
<1>4. CASE cmd.op \notin {"start_sfx", "start_bgm", "discard"}
  <2>1. Execute(a, cmd) = AsyncLoadFont(a)
    BY <1>4 DEF Execute
  <2>2. CASE a.font = "IN_PROGRESS"
    BY <2>1, <2>2 DEF AsyncLoadFont, Kept
  <2>3. CASE a.font = "COMPLETE"
    BY <2>1, <2>3 DEF AsyncLoadFont, Kept, AudioStates
  <2>4. CASE a.font \notin {"IN_PROGRESS", "COMPLETE"}
    BY <2>1, <2>4 DEF AsyncLoadFont, Kept, AudioStates
  <2> QED BY <2>2, <2>3, <2>4
<1> QED BY <1>1, <1>2, <1>3, <1>4

LEMMA SpecKeeps ==
  ASSUME NEW a \in AudioStates
  PROVE  LET b == ReceiveSpec(a)
         IN  /\ b.inits = a.inits /\ b.heap = a.heap /\ b.early = a.early /\ b.enabled = a.enabled
             /\ b.specId = IF gAudioSpecQueue = << >> THEN a.specId ELSE Head(gAudioSpecQueue)
             /\ b.step = IF gAudioSpecQueue # << >> /\ a.step = 0 THEN 5 ELSE a.step
<1>1. CASE gAudioSpecQueue = << >>
  BY <1>1 DEF ReceiveSpec
<1>2. CASE gAudioSpecQueue # << >>
  <2>1. ReceiveSpec(a) = [a EXCEPT !.step = IF a.step = 0 THEN 5 ELSE a.step,
                                   !.specId = Head(gAudioSpecQueue)]
    BY <1>2 DEF ReceiveSpec
  <2> QED BY <1>2, <2>1 DEF AudioStates
<1> QED BY <1>1, <1>2

LEMMA StepKeeps ==
  ASSUME NEW a \in AudioStates
  PROVE  LET b == ResetStep(a)
         IN  /\ b.specId = a.specId /\ b.early = a.early
             /\ b.heap = IF a.step = 1 THEN a.specId ELSE a.heap
             /\ b.inits = IF a.step = 1 THEN a.inits + 1 ELSE a.inits
             /\ b.enabled = IF a.step = 5 THEN {} ELSE a.enabled
             /\ a.step \in {0, 1} => b.step = 0
             /\ a.step \in 2 .. 5 => b.step \in 1 .. 4
<1>0. a.step \in 0 .. 5 /\ a.frames \in Nat
  BY DEF AudioStates
<1>1. CASE a.step = 0
  BY <1>1 DEF ResetStep
<1>2. CASE a.step = 5
  <2>1. ResetStep(a) = [a EXCEPT !.step = 4, !.enabled = {}, !.frames = FadeBefore[4]]
    BY <1>2 DEF ResetStep, Disabled
  <2> QED BY <1>2, <2>1 DEF AudioStates
<1>3. CASE a.step = 1
  BY <1>3 DEF ResetStep, HeapInit, AudioStates
<1>4. CASE a.step \in 2 .. 4 /\ a.frames > 0
  <2>1. ResetStep(a) = [a EXCEPT !.frames = @ - 1]
    BY <1>4 DEF ResetStep
  <2> QED BY <1>4, <2>1 DEF AudioStates
<1>5. CASE a.step \in 2 .. 4 /\ ~(a.frames > 0)
  <2> DEFINE f == FadeBefore[a.step - 1]
             s == a.step - 1
  <2>1. ResetStep(a) = [a EXCEPT !.step = s, !.frames = f]
    BY <1>5 DEF ResetStep
  <2>2. s \in 1 .. 4
    BY <1>5
  <2> HIDE DEF f, s
  <2> QED BY <1>5, <2>1, <2>2 DEF AudioStates
<1> QED BY <1>0, <1>1, <1>2, <1>3, <1>4, <1>5

LEMMA UpToConcat ==
  ASSUME NEW s \in Seq(Commands), NEW t \in Seq(Commands), NEW n, UpTo(s, n), UpTo(t, n)
  PROVE  UpTo(s \o t, n)
<1>1. /\ Len(s) \in Nat /\ Len(t) \in Nat /\ Len(s \o t) = Len(s) + Len(t)
      /\ DOMAIN (s \o t) = 1 .. Len(s) + Len(t) /\ DOMAIN s = 1 .. Len(s) /\ DOMAIN t = 1 .. Len(t)
      /\ \A i \in 1 .. Len(s) + Len(t) : (s \o t)[i] = IF i <= Len(s) THEN s[i] ELSE t[i - Len(s)]
  OBVIOUS
<1> DEFINE st == s \o t
<1> HIDE DEF st
<1>2. ASSUME NEW i \in DOMAIN st PROVE st[i].epoch <= n
  <2>1. CASE i <= Len(s)
    BY <1>1, <2>1 DEF UpTo, st
  <2>2. CASE ~(i <= Len(s))
    <3>1. i - Len(s) \in 1 .. Len(t) /\ st[i] = t[i - Len(s)]
      BY <1>1, <1>2, <2>2 DEF st
    <3> QED BY <1>1, <3>1 DEF UpTo
  <2> QED BY <2>1, <2>2
<1> QED BY <1>2 DEF UpTo, st

LEMMA EpochType ==
  ASSUME NEW s \in Seq(Commands)
  PROVE  DOMAIN s = 1 .. Len(s) /\ \A i \in 1 .. Len(s) : s[i].epoch \in Nat
<1>1. DOMAIN s = 1 .. Len(s) /\ \A i \in 1 .. Len(s) : s[i] \in Commands
  OBVIOUS
<1>2. \A c \in Commands : c.epoch \in Nat
  BY ResetAssumption DEF Commands
<1> QED BY <1>1, <1>2

LEMMA BehindConcat ==
  ASSUME NEW s \in Seq(Commands), NEW t \in Seq(Commands), NEW n \in Nat, UpTo(s, n), Behind(t, n)
  PROVE  Behind(s \o t, n)
<1>1. /\ Len(s) \in Nat /\ Len(t) \in Nat
      /\ DOMAIN (s \o t) = 1 .. Len(s) + Len(t) /\ DOMAIN s = 1 .. Len(s) /\ DOMAIN t = 1 .. Len(t)
      /\ \A i \in 1 .. Len(s) + Len(t) : (s \o t)[i] = IF i <= Len(s) THEN s[i] ELSE t[i - Len(s)]
  OBVIOUS
<1>2. \A i \in 1 .. Len(s) : s[i].epoch \in Nat
  BY EpochType
<1> DEFINE st == s \o t
<1>3. ASSUME NEW i \in DOMAIN st, st[i].epoch > n
      PROVE  \E j \in 1 .. i : st[j].op = "stop" /\ st[j].epoch > n
  <2> HIDE DEF st
  <2>1. CASE i <= Len(s)
    <3>1. i \in 1 .. Len(s) /\ st[i] = s[i]
      BY <1>1, <2>1 DEF st
    <3> QED BY <1>1, <1>2, <1>3, <3>1 DEF UpTo
  <2>2. CASE ~(i <= Len(s))
    <3>1. i - Len(s) \in 1 .. Len(t) /\ st[i] = t[i - Len(s)] /\ i \in Nat
      BY <1>1, <2>2 DEF st
    <3>2. PICK j \in 1 .. i - Len(s) : t[j].op = "stop" /\ t[j].epoch > n
      BY <1>1, <1>3, <3>1 DEF Behind
    <3>3. j + Len(s) \in 1 .. i /\ ~(j + Len(s) <= Len(s)) /\ j + Len(s) - Len(s) = j
          /\ j + Len(s) \in 1 .. Len(s) + Len(t)
      BY <1>1, <3>1
    <3>4. st[j + Len(s)] = t[j]
      BY <1>1, <3>3 DEF st
    <3> QED BY <3>2, <3>3, <3>4
  <2> QED BY <2>1, <2>2
<1> QED BY <1>3 DEF Behind

LEMMA TailKeeps ==
  ASSUME NEW s \in Seq(Commands), s # << >>, NEW n \in Nat
  PROVE  /\ UpTo(s, n) => UpTo(Tail(s), n)
         /\ Behind(s, n) /\ s[1].op # "stop" => Behind(Tail(s), n) /\ ~(s[1].epoch > n)
<1>1. /\ Len(s) \in Nat /\ Len(s) > 0 /\ DOMAIN s = 1 .. Len(s) /\ DOMAIN Tail(s) = 1 .. Len(s) - 1
      /\ \A i \in 1 .. Len(s) - 1 : Tail(s)[i] = s[i + 1]
  OBVIOUS
<1> DEFINE t == Tail(s)
<1> HIDE DEF t
<1>2. UpTo(s, n) => UpTo(t, n)
  BY <1>1 DEF UpTo, t
<1>3. ASSUME Behind(s, n), s[1].op # "stop", NEW i \in 1 .. Len(s) - 1, t[i].epoch > n
      PROVE  \E j \in 1 .. i : t[j].op = "stop" /\ t[j].epoch > n
  <2>1. i + 1 \in 1 .. Len(s) /\ s[i + 1].epoch > n
    BY <1>1, <1>3 DEF t
  <2>2. PICK j \in 1 .. i + 1 : s[j].op = "stop" /\ s[j].epoch > n
    BY <1>1, <1>3, <2>1 DEF Behind
  <2>3. j # 1
    BY <1>3, <2>2
  <2>4. j - 1 \in 1 .. i /\ j - 1 \in 1 .. Len(s) - 1 /\ j - 1 + 1 = j
    BY <1>1, <2>2, <2>3
  <2>5. t[j - 1] = s[j]
    BY <1>1, <2>4 DEF t
  <2> QED BY <2>2, <2>4, <2>5
<1>4. Behind(s, n) /\ s[1].op # "stop" => Behind(t, n)
  BY <1>1, <1>3 DEF Behind, t
<1>5. Behind(s, n) /\ s[1].op # "stop" => ~(s[1].epoch > n)
  <2>1. 1 \in DOMAIN s /\ 1 .. 1 = {1}
    BY <1>1
  <2> QED BY <2>1 DEF Behind
<1> QED BY <1>2, <1>4, <1>5 DEF t

LEMMA BarrierFirst ==
  ASSUME NEW s \in Seq(Commands), NEW n, Barrier(s, n)
  PROVE  /\ Behind(s, n)
         /\ \A t \in Seq(Commands) : Barrier(s \o t, n)
<1>1. 1 \in DOMAIN s /\ \A i \in DOMAIN s : 1 \in 1 .. i
  BY DEF Barrier
<1>2. \A t \in Seq(Commands) : s \o t # << >> /\ (s \o t)[1] = s[1]
  BY <1>1
<1> QED BY <1>1, <1>2 DEF Barrier, Behind

LEMMA UpToBehind ==
  ASSUME NEW s \in Seq(Commands), NEW n \in Nat, UpTo(s, n)
  PROVE  Behind(s, n)
<1>1. \A i \in DOMAIN s : s[i].epoch \in Nat
  BY EpochType
<1> QED BY <1>1 DEF UpTo, Behind

LEMMA FreshCmd ==
  ASSUME TypeOK, NEW op \in Ops
  PROVE  Cmd(op) \in Commands /\ UpTo(<<Cmd(op)>>, resets)
<1>1. Cmd(op) \in Commands
  BY CmdTyped
<1>2. Cmd(op).epoch = resets /\ resets \in Nat
  BY DEF Cmd, TypeOK
<1> QED BY <1>1, <1>2 DEF UpTo

LEMMA HInvInit == Init => HInv
<1> SUFFICES ASSUME Init PROVE HInv
  OBVIOUS
<1>1. /\ sAudioResetStatus = "READY" /\ pc = "update" /\ resets = 0
      /\ audio.inits = 0 /\ audio.step = 0 /\ audio.specId = BootSpec /\ audio.heap = BootSpec
      /\ audio.early = FALSE
      /\ sAudioSpecId = BootSpec /\ gAudioSpecQueue = << >> /\ gAudioResetQueue = << >>
      /\ unsent = << >> /\ skipped = << >> /\ todo = << >> /\ gThreadCmdProcQueue = << >>
  BY DEF Init
<1>2. ~Underway
  BY <1>1 DEF Underway
<1>3. Idle
  BY <1>1, <1>2 DEF Idle
<1>4. Issued
  BY <1>1 DEF Issued, UpTo
<1> QED BY <1>1, <1>2, <1>3, <1>4 DEF HInv, Handshake, Ordered, Hushed, NothingEarly

\* What the game thread appends goes behind the barrier.
LEMMA MoreCmds ==
  ASSUME IInv, HInv, NEW c \in Seq(Commands), UpTo(c, resets), unsent' = unsent \o c,
         pc \notin {"update", "reset"}, pc' \notin {"update", "reset"},
         UNCHANGED <<sAudioResetStatus, sAudioSpecId, oldSpecId, skipped, gThreadCmdProcQueue,
                     gAudioSpecQueue, gAudioResetQueue, audio, walker, hasty, resets>>
  PROVE  HInv'
<1>0. Handshake /\ Issued /\ Ordered /\ Hushed /\ NothingEarly
  BY DEF HInv
<1>1. Underway' = Underway
  BY DEF Underway
<1>2. Handshake'
  BY <1>0 DEF Handshake, Idle, Asking, Sent, Fading, Answered, Underway
<1>3. unsent \in Seq(Commands)
  BY DEF IInv, TypeOK
<1>4. UpTo(unsent', resets)
  BY <1>0, <1>3, UpToConcat DEF Issued
<1>5. Issued'
  BY <1>0, <1>4 DEF Issued, UpTo, walker
<1>6. Underway => Barrier(unsent', audio.inits)
  BY <1>0, <1>3, BarrierFirst DEF Ordered
<1>7. Ordered'
  BY <1>0, <1>1, <1>6 DEF Ordered, Barrier, Behind, UpTo, walker
<1>8. Hushed'
  BY <1>0, <1>1 DEF Hushed, Barrier, walker
<1>9. NothingEarly'
  BY <1>0 DEF NothingEarly
<1> QED BY <1>2, <1>5, <1>7, <1>8, <1>9 DEF HInv

LEMMA FrameEndKeeps ==
  ASSUME IInv, HInv, running = "sleep", FrameEnd
  PROVE  HInv'
<1> DEFINE Q == gThreadCmdProcQueue
           w == [skipped |-> skipped, cmds |-> unsent]
<1>0. Handshake /\ Issued /\ Ordered /\ Hushed /\ NothingEarly
  BY DEF HInv
<1>1. /\ pc = "schedule" /\ pc' = "update" /\ unsent' = << >>
      /\ UNCHANGED <<sAudioResetStatus, sAudioSpecId, oldSpecId, gAudioSpecQueue,
                     gAudioResetQueue, audio, running, todo, gThreadCmdQueueFinished, hasty, resets>>
  BY DEF FrameEnd, walker
<1>2. Underway' = Underway
  BY <1>1 DEF Underway
<1>3. Handshake'
  BY <1>0, <1>1 DEF Handshake, Idle, Asking, Sent, Fading, Answered, Underway
<1>4. /\ unsent \in Seq(Commands) /\ skipped \in Seq(Commands) /\ Q \in Seq(Windows)
      /\ todo \in Seq(Commands) /\ audio.inits \in Nat
  BY DEF IInv, TypeOK, AudioStates
<1>5. Underway => /\ UpTo(todo, audio.inits) /\ UpTo(skipped, audio.inits)
                  /\ Barrier(unsent, audio.inits) /\ Behind(unsent, audio.inits)
                  /\ \A k \in DOMAIN Q : /\ UpTo(Q[k].skipped, audio.inits)
                                         /\ Behind(Q[k].cmds, audio.inits)
                                         /\ UpTo(Q[k].cmds, audio.inits)
  BY <1>0, <1>1, <1>4, BarrierFirst DEF Ordered
<1>6. Underway /\ ~hasty => Q = << >> /\ ~gThreadCmdQueueFinished
  BY <1>0, <1>1 DEF Hushed
<1>7. CASE Q' = Append(Q, w) /\ skipped' = << >>
  <2>1. /\ Len(Q') = Len(Q) + 1 /\ DOMAIN Q' = 1 .. Len(Q) + 1 /\ DOMAIN Q = 1 .. Len(Q)
        /\ Q'[Len(Q) + 1] = w /\ Len(Q) \in Nat
        /\ \A k \in 1 .. Len(Q) : Q'[k] = Q[k]
    <3> HIDE DEF w
    <3> QED BY <1>4, <1>7, AppendProperties
  <2>2. w.skipped = skipped /\ w.cmds = unsent
    OBVIOUS
  <2> HIDE DEF w
  <2>3. \A k \in DOMAIN Q' : \/ k \in DOMAIN Q /\ Q'[k] = Q[k]
                             \/ k = Len(Q) + 1 /\ Q'[k] = w
    BY <2>1
  <2>4. UpTo(<< >>, resets)
    BY DEF UpTo
  <2>5. \A k \in DOMAIN Q' : UpTo(Q'[k].skipped, resets) /\ UpTo(Q'[k].cmds, resets)
    BY <1>0, <2>2, <2>3 DEF Issued
  <2>6. Issued'
    BY <1>0, <1>1, <1>7, <2>4, <2>5 DEF Issued
  <2>7. Underway => \A k \in DOMAIN Q' : /\ UpTo(Q'[k].skipped, audio.inits)
                                         /\ Behind(Q'[k].cmds, audio.inits)
                                         /\ k < Len(Q') => UpTo(Q'[k].cmds, audio.inits)
    <3> SUFFICES ASSUME Underway, NEW k \in DOMAIN Q'
                 PROVE  /\ UpTo(Q'[k].skipped, audio.inits)
                        /\ Behind(Q'[k].cmds, audio.inits)
                        /\ k < Len(Q') => UpTo(Q'[k].cmds, audio.inits)
      OBVIOUS
    <3>1. CASE k \in DOMAIN Q /\ Q'[k] = Q[k]
      BY <1>5, <3>1
    <3>2. CASE k = Len(Q) + 1 /\ Q'[k] = w
      BY <1>5, <2>1, <2>2, <3>2
    <3> QED BY <2>3, <3>1, <3>2
  <2>8. Ordered'
    BY <1>1, <1>2, <1>5, <2>7 DEF Ordered
  <2>9. Underway /\ ~hasty => Len(Q') = 1 /\ Q'[1] = w /\ Barrier(unsent, audio.inits)
    BY <1>5, <1>6, <2>1
  <2>10. Hushed'
    BY <1>0, <1>1, <1>2, <1>6, <2>2, <2>9 DEF Hushed
  <2> QED BY <1>0, <1>1, <1>3, <2>6, <2>8, <2>10 DEF HInv, NothingEarly
<1>8. CASE Q' = Q /\ skipped' = skipped \o unsent
  <2>1. UpTo(skipped', resets) /\ UpTo(<< >>, resets)
    BY <1>0, <1>4, <1>8, UpToConcat DEF Issued, UpTo
  <2>2. Issued'
    BY <1>0, <1>1, <1>8, <2>1 DEF Issued
  <2>3. Ordered'
    BY <1>1, <1>2, <1>5, <1>8 DEF Ordered
  <2>4. Hushed'
    BY <1>0, <1>1, <1>2, <1>6, <1>8 DEF Hushed
  <2> QED BY <1>0, <1>1, <1>3, <2>2, <2>3, <2>4 DEF HInv, NothingEarly
<1> QED BY <1>7, <1>8 DEF FrameEnd, Schedule

LEMMA ResetDoneKeeps ==
  ASSUME IInv, HInv, ResetDone
  PROVE  HInv'
<1> DEFINE Q == gThreadCmdProcQueue
           c == unsent \o RestartCmds
           w == [skipped |-> skipped, cmds |-> c]
<1>0. Handshake /\ Issued /\ NothingEarly
  BY DEF HInv
<1>1. /\ sAudioResetStatus # "READY" /\ gAudioResetQueue # << >>
      /\ gAudioResetQueue' = Tail(gAudioResetQueue)
      /\ sAudioResetStatus' = "READY" /\ pc' = "cmds" /\ unsent' = Barriers
      /\ UNCHANGED <<sAudioSpecId, gAudioSpecQueue, audio, todo, resets>>
  BY DEF ResetDone, walker
<1>2. Answered
  BY <1>0, <1>1 DEF Handshake, Idle, Asking, Sent, Fading
<1>3. ~Underway'
  BY <1>1, <1>2 DEF Answered, Underway
<1>4. gAudioResetQueue' = << >>
  BY <1>1, <1>2 DEF Answered
<1>5. Idle'
  BY <1>1, <1>2, <1>3, <1>4 DEF Answered, Idle
<1>6. /\ unsent \in Seq(Commands) /\ skipped \in Seq(Commands) /\ Q \in Seq(Windows) /\ TypeOK
  BY DEF IInv, TypeOK
<1>7. RestartCmds \in Seq(Commands) /\ c \in Seq(Commands)
  BY <1>6, FixedCmdsTyped, ConcatProperties
<1>8. UpTo(RestartCmds, resets) /\ UpTo(Barriers, resets)
  <2>1. Cmd("start_sfx").epoch = resets /\ Cmd("stop").epoch = resets /\ resets \in Nat
    BY <1>6 DEF Cmd, TypeOK
  <2>2. \A i \in 1 .. 3 : Barriers[i] = Cmd("stop")
    BY DEF Barriers
  <2>3. DOMAIN Barriers = 1 .. 3 /\ resets <= resets
    BY <2>1 DEF Barriers
  <2>4. UpTo(Barriers, resets)
    BY <2>1, <2>2, <2>3 DEF UpTo
  <2> QED BY <2>1, <2>4 DEF UpTo, RestartCmds
<1>9. UpTo(c, resets)
  BY <1>0, <1>6, <1>7, <1>8, UpToConcat DEF Issued
<1> HIDE DEF c
<1>10. Issued'
  <2>1. CASE Q' = Append(Q, w) /\ skipped' = << >>
    <3>1. w.skipped = skipped /\ w.cmds = c
      OBVIOUS
    <3> HIDE DEF w
    <3>2. \A k \in DOMAIN Q' : \/ k \in DOMAIN Q /\ Q'[k] = Q[k]
                               \/ Q'[k] = w
      BY <1>6, <2>1, AppendProperties
    <3>3. UpTo(<< >>, resets)
      BY DEF UpTo
    <3>4. \A k \in DOMAIN Q' : UpTo(Q'[k].skipped, resets) /\ UpTo(Q'[k].cmds, resets)
      BY <1>0, <1>9, <3>1, <3>2 DEF Issued
    <3> QED BY <1>0, <1>1, <1>8, <2>1, <3>3, <3>4 DEF Issued
  <2>2. CASE Q' = Q /\ skipped' = skipped \o c
    <3>1. UpTo(skipped', resets)
      BY <1>0, <1>6, <1>7, <1>9, <2>2, UpToConcat DEF Issued
    <3> QED BY <1>0, <1>1, <1>8, <2>2, <3>1 DEF Issued
  <2> QED BY <2>1, <2>2 DEF ResetDone, Schedule, c
<1> QED BY <1>0, <1>1, <1>3, <1>5, <1>10 DEF HInv, Handshake, Ordered, Hushed, NothingEarly

LEMMA ResetBeginKeeps ==
  ASSUME OnePerDrain, IInv, HInv, running = "sleep", NEW specId \in Specs, ResetBegin(specId)
  PROVE  HInv'
<1> DEFINE Q == gThreadCmdProcQueue
<1>0. Handshake /\ Issued /\ NothingEarly
  BY DEF HInv
<1>1. /\ pc = "cmds" /\ pc' = "reset" /\ sAudioResetStatus = "READY"
      /\ <<sAudioSpecId, specId>> \in SpecChanges
      /\ hasty' = ~Settled
      /\ sAudioSpecId' = specId /\ oldSpecId' = sAudioSpecId
      /\ gAudioResetQueue' = << >> /\ skipped' = skipped \o unsent /\ unsent' = << >>
      /\ resets' = resets + 1
      /\ UNCHANGED <<sAudioResetStatus, Q, gAudioSpecQueue, audio, running, todo,
                     gThreadCmdQueueFinished>>
  BY DEF ResetBegin, walker
<1>2. Idle
  BY <1>0, <1>1 DEF Handshake, Asking, Sent, Fading, Answered
<1>3. resets = audio.inits /\ audio.step = 0 /\ gAudioSpecQueue = << >>
  BY <1>2 DEF Idle, Underway
<1>4. /\ unsent \in Seq(Commands) /\ skipped \in Seq(Commands) /\ Q \in Seq(Windows)
      /\ todo \in Seq(Commands) /\ resets \in Nat
  BY DEF IInv, TypeOK
<1>5. Asking'
  BY <1>1, <1>3 DEF Asking
<1>6. UpTo(skipped', resets)
  BY <1>0, <1>1, <1>4, UpToConcat DEF Issued
<1>7. ASSUME NEW s \in Seq(Commands), UpTo(s, resets) PROVE UpTo(s, resets')
  <2>1. resets' = resets + 1 /\ resets \in Nat
    BY <1>1, <1>4
  <2>2. \A i \in DOMAIN s : s[i].epoch \in Nat /\ s[i].epoch <= resets
    BY <1>7, EpochType DEF UpTo
  <2> QED BY <2>1, <2>2 DEF UpTo
<1>8. skipped' \in Seq(Commands) /\ << >> \in Seq(Commands)
  BY <1>1, <1>4, ConcatProperties
<1>9. \A k \in DOMAIN Q : Q[k].skipped \in Seq(Commands) /\ Q[k].cmds \in Seq(Commands)
  <2>1. \A k \in DOMAIN Q : Q[k] \in Windows
    BY <1>4
  <2> QED BY <2>1 DEF Windows
<1>10. Issued'
  <2>1. UpTo(<< >>, resets)
    BY DEF UpTo
  <2>2. UpTo(unsent', resets') /\ UpTo(skipped', resets') /\ UpTo(todo, resets')
    BY <1>0, <1>1, <1>4, <1>6, <1>7, <1>8, <2>1 DEF Issued
  <2>3. \A k \in DOMAIN Q : UpTo(Q[k].skipped, resets') /\ UpTo(Q[k].cmds, resets')
    BY <1>0, <1>7, <1>9 DEF Issued
  <2> QED BY <1>1, <2>2, <2>3 DEF Issued
<1>11. Ordered'
  <2>1. UpTo(todo, audio.inits) /\ UpTo(skipped', audio.inits)
    BY <1>0, <1>3, <1>6 DEF Issued
  <2>2. \A k \in DOMAIN Q : UpTo(Q[k].skipped, audio.inits) /\ UpTo(Q[k].cmds, audio.inits)
    BY <1>0, <1>3 DEF Issued
  <2>3. \A k \in DOMAIN Q : Behind(Q[k].cmds, audio.inits)
    BY <1>3, <1>4, <1>9, <2>2, UpToBehind
  <2> QED BY <1>1, <2>1, <2>2, <2>3 DEF Ordered
<1>12. Hushed'
  <2>1. ~hasty' => Q = << >> /\ ~gThreadCmdQueueFinished
    BY <1>1 DEF Settled
  <2> QED BY <1>1, <1>3, <2>1 DEF Hushed
<1> QED BY <1>0, <1>1, <1>5, <1>10, <1>11, <1>12 DEF HInv, Handshake, NothingEarly

LEMMA ResetSendKeeps ==
  ASSUME VersusEnds, IInv, HInv, ResetSend
  PROVE  HInv'
<1> DEFINE Q == gThreadCmdProcQueue
<1>0. Handshake /\ Issued /\ Ordered /\ Hushed /\ NothingEarly
  BY DEF HInv
<1>1. /\ pc = "reset" /\ pc' = "cmds"
      /\ gAudioSpecQueue' = Send(gAudioSpecQueue, 1, sAudioSpecId)
      /\ sAudioResetStatus' = StatusAfter(oldSpecId, sAudioSpecId)
      /\ unsent' = unsent \o ResetBarrier
      /\ UNCHANGED <<sAudioSpecId, skipped, Q, gAudioResetQueue, audio, running, todo,
                     gThreadCmdQueueFinished, hasty, resets>>
  BY DEF ResetSend, walker
<1>2. Asking
  BY <1>0, <1>1 DEF Handshake, Idle, Sent, Fading, Answered
<1>3. sAudioResetStatus' # "READY"
  <2>1. oldSpecId = "VS" => sAudioSpecId \in {"OPENING", "TITLE"}
    BY <1>2 DEF Asking, VersusEnds
  <2> QED BY <1>1, <2>1 DEF StatusAfter
<1>4. gAudioSpecQueue' = <<sAudioSpecId>>
  BY <1>1, <1>2 DEF Asking, Send
<1>5. Sent'
  BY <1>1, <1>2, <1>3, <1>4 DEF Asking, Sent
<1>6. resets = audio.inits + 1 /\ audio.inits \in Nat
  BY <1>2 DEF Asking, IInv, TypeOK, AudioStates
<1>7. unsent = << >> /\ Underway
  BY <1>0, <1>1, <1>6 DEF Ordered, Underway
<1>8. unsent' = <<Cmd("stop")>> /\ Cmd("stop").epoch = resets /\ Cmd("stop").op = "stop"
  BY <1>1, <1>7 DEF ResetBarrier, Cmd
<1>9. UpTo(unsent', resets) /\ Barrier(unsent', audio.inits)
  BY <1>6, <1>8 DEF UpTo, Barrier
<1>10. Underway' = Underway
  BY <1>1 DEF Underway
<1>11. Issued'
  BY <1>0, <1>1, <1>9 DEF Issued
<1>12. Ordered'
  BY <1>0, <1>1, <1>9, <1>10 DEF Ordered
<1>13. Hushed'
  BY <1>0, <1>1, <1>10 DEF Hushed
<1> QED BY <1>0, <1>1, <1>5, <1>11, <1>12, <1>13 DEF HInv, Handshake, NothingEarly

LEMMA HGameStep ==
  ASSUME OnePerDrain, VersusEnds, IInv, HInv, running = "sleep", GameStep
  PROVE  HInv'
<1>0. Handshake /\ Issued /\ Ordered /\ Hushed /\ NothingEarly /\ TypeOK
  BY DEF HInv, IInv
<1>1. CASE Ready
  <2>1. /\ pc = "update" /\ sAudioResetStatus = "READY" /\ pc' = "cmds"
        /\ UNCHANGED <<sAudioResetStatus, sAudioSpecId, oldSpecId, unsent, skipped,
                       gThreadCmdProcQueue, gAudioSpecQueue, gAudioResetQueue, audio, todo, resets>>
    BY <1>1 DEF Ready, ring, queues, walker
  <2>2. Idle
    BY <1>0, <2>1 DEF Handshake, Asking, Sent, Fading, Answered
  <2>3. Idle' /\ ~Underway'
    BY <2>1, <2>2 DEF Idle, Underway
  <2>4. Issued'
    BY <1>0, <2>1 DEF Issued
  <2> QED BY <1>0, <2>1, <2>3, <2>4 DEF HInv, Handshake, Ordered, Hushed, NothingEarly
<1>2. CASE StaleReset
  <2>1. /\ sAudioResetStatus # "READY" /\ gAudioResetQueue # << >>
        /\ Head(gAudioResetQueue) # audio.specId
    BY <1>2 DEF StaleReset, SameSpec
  <2>2. Answered
    BY <1>0, <2>1 DEF Handshake, Idle, Asking, Sent, Fading
  <2> QED BY <2>1, <2>2 DEF Answered
<1>3. CASE ResetDone
  BY <1>3, ResetDoneKeeps
<1>4. ASSUME NEW withFont \in BOOLEAN, NEW discard \in BOOLEAN, PlayBgm(withFont, discard)
      PROVE  HInv'
  <2> DEFINE c == IF ~withFont THEN <<Cmd("start_bgm")>>
                  ELSE IF discard THEN <<Cmd("discard"), Cmd("load")>>
                  ELSE <<Cmd("load")>>
  <2>1. /\ pc = "cmds" /\ pc' = pc /\ unsent' = unsent \o c
        /\ UNCHANGED <<sAudioResetStatus, sAudioSpecId, oldSpecId, skipped, gThreadCmdProcQueue,
                       gAudioSpecQueue, gAudioResetQueue, audio, walker, hasty, resets>>
    BY <1>4 DEF PlayBgm, queues
  <2>2. \A op \in Ops : Cmd(op) \in Commands /\ Cmd(op).epoch = resets
    BY <1>0, CmdTyped DEF Cmd
  <2>3. resets \in Nat
    BY <1>0 DEF TypeOK
  <2>4. c \in Seq(Commands) /\ UpTo(c, resets)
    BY <2>2, <2>3 DEF UpTo, Ops
  <2> HIDE DEF c
  <2> QED BY <2>1, <2>4, MoreCmds
<1>5. ASSUME NEW specId \in Specs, ResetBegin(specId) PROVE HInv'
  BY <1>5, ResetBeginKeeps
<1>6. CASE ResetSend
  BY <1>6, ResetSendKeeps
<1>7. CASE SeqCmdsDone \/ NoFont
  <2>1. /\ pc \notin {"update", "reset"} /\ pc' \notin {"update", "reset"} /\ unsent' = unsent
        /\ UNCHANGED <<sAudioResetStatus, sAudioSpecId, oldSpecId, skipped, gThreadCmdProcQueue,
                       gAudioSpecQueue, gAudioResetQueue, audio, walker, hasty, resets>>
    BY <1>7 DEF SeqCmdsDone, NoFont, ring, queues
  <2>2. << >> \in Seq(Commands) /\ UpTo(<< >>, resets) /\ unsent' = unsent \o << >>
    BY <1>0, <2>1 DEF UpTo, TypeOK
  <2> QED BY <2>1, <2>2, MoreCmds
<1>8. CASE FontArrived
  <2>1. /\ pc = "players" /\ pc' = "schedule" /\ unsent' = Append(unsent, Cmd("start_bgm"))
        /\ UNCHANGED <<sAudioResetStatus, sAudioSpecId, oldSpecId, skipped, gThreadCmdProcQueue,
                       gAudioSpecQueue, gAudioResetQueue, audio, walker, hasty, resets>>
    BY <1>8 DEF FontArrived
  <2>2. Cmd("start_bgm") \in Commands /\ UpTo(<<Cmd("start_bgm")>>, resets)
    BY <1>0, FreshCmd DEF Ops
  <2>3. unsent' = unsent \o <<Cmd("start_bgm")>> /\ <<Cmd("start_bgm")>> \in Seq(Commands)
    BY <1>0, <2>1, <2>2 DEF TypeOK
  <2> QED BY <2>1, <2>2, <2>3, MoreCmds
<1>9. CASE FrameEnd
  BY <1>9, FrameEndKeeps
<1> QED BY <1>1, <1>2, <1>3, <1>4, <1>5, <1>6, <1>7, <1>8, <1>9 DEF GameStep

\* What a buffer's start makes of the audio thread's state and of the two queues of the reset.
LEMMA BufferStartFacts ==
  ASSUME IInv, BufferStart
  PROVE  LET s == IF gAudioSpecQueue # << >> /\ audio.step = 0 THEN 5 ELSE audio.step
             spec == IF gAudioSpecQueue = << >> THEN audio.specId ELSE Head(gAudioSpecQueue)
             done == s \in 1 .. 4 /\ audio'.step = 0
         IN  /\ audio'.specId = spec /\ audio'.early = audio.early
             /\ audio'.heap = IF s = 1 THEN spec ELSE audio.heap
             /\ audio'.inits = IF s = 1 THEN audio.inits + 1 ELSE audio.inits
             /\ audio'.enabled = IF s = 5 THEN {} ELSE audio.enabled
             /\ s \in {0, 1} => audio'.step = 0
             /\ s \in 2 .. 5 => audio'.step \in 1 .. 4
             /\ gAudioResetQueue' = IF done THEN Send(gAudioResetQueue, 1, spec)
                                    ELSE gAudioResetQueue
             /\ running' \in {"sleep", "drain"}
<1> DEFINE loaded == ProcessLoads(audio)
           asked  == ReceiveSpec(loaded)
           reset  == ResetStep(asked)
           silent == asked.step # 0 /\ reset.step < 3
           s == IF gAudioSpecQueue # << >> /\ audio.step = 0 THEN 5 ELSE audio.step
           spec == IF gAudioSpecQueue = << >> THEN audio.specId ELSE Head(gAudioSpecQueue)
<1>1. audio \in AudioStates /\ audio.replies = 0 /\ gAudioSpecQueue \in Seq(Specs)
      /\ resets \in 0 .. MaxResets /\ Len(gAudioSpecQueue) \in Nat
  BY DEF IInv, TypeOK, Pending
<1>2. loaded \in AudioStates
      /\ loaded.step = audio.step /\ loaded.inits = audio.inits /\ loaded.specId = audio.specId
      /\ loaded.heap = audio.heap /\ loaded.early = audio.early /\ loaded.enabled = audio.enabled
  BY <1>1, ProcessLoadsFacts, LoadsKeep DEF Kept
<1>3. asked \in AudioStates
  BY <1>1, <1>2, ReceiveSpecFacts
<1>4. /\ asked.step = s /\ asked.specId = spec /\ asked.inits = audio.inits
      /\ asked.heap = audio.heap /\ asked.early = audio.early /\ asked.enabled = audio.enabled
  BY <1>2, SpecKeeps
<1>5. s \in 0 .. 5 /\ audio.inits \in 0 .. MaxResets
  BY <1>1 DEF AudioStates
<1>6. s = 1 => audio.inits < MaxResets
  <2>1. s = 1 => audio.step = 1
    OBVIOUS
  <2>2. audio.step = 1 => 1 + (IF pc = "reset" THEN 1 ELSE 0) + Len(gAudioSpecQueue) + audio.inits <= resets
    BY DEF IInv, Pending
  <2>3. audio.step = 1 => audio.inits < MaxResets
    BY <1>1, <1>5, <2>2, ResetAssumption
  <2> QED BY <2>1, <2>3
<1> HIDE DEF s, spec
<1>7. reset \in AudioStates
  BY <1>3, <1>4, <1>6, ResetStepFacts
<1>8. /\ reset.specId = spec /\ reset.early = audio.early
      /\ reset.heap = IF s = 1 THEN spec ELSE audio.heap
      /\ reset.inits = IF s = 1 THEN audio.inits + 1 ELSE audio.inits
      /\ reset.enabled = IF s = 5 THEN {} ELSE audio.enabled
      /\ s \in {0, 1} => reset.step = 0
      /\ s \in 2 .. 5 => reset.step \in 1 .. 4
  BY <1>3, <1>4, StepKeeps
<1>9. /\ audio' = [reset EXCEPT !.replies = 0]
      /\ running' = IF silent THEN "sleep" ELSE "drain"
      /\ gAudioResetQueue' = IF silent /\ reset.step = 0
                             THEN Send(gAudioResetQueue, 1, reset.specId) ELSE gAudioResetQueue
  BY DEF BufferStart
<1> HIDE DEF loaded, asked, reset
<1>10. /\ audio'.step = reset.step /\ audio'.specId = reset.specId /\ audio'.heap = reset.heap
       /\ audio'.inits = reset.inits /\ audio'.enabled = reset.enabled /\ audio'.early = reset.early
  BY <1>7, <1>9 DEF AudioStates
<1>11. silent /\ reset.step = 0 <=> s \in 1 .. 4 /\ reset.step = 0
  <2>1. s = 0 \/ s = 5 \/ s \in 1 .. 4
    BY <1>5
  <2>2. s = 5 => reset.step # 0
    BY <1>8
  <2> QED BY <1>4, <1>8, <2>1, <2>2
<1>12. running' \in {"sleep", "drain"}
  <2> HIDE DEF silent
  <2> QED BY <1>9
<1> HIDE DEF silent
<1>13. gAudioResetQueue' = IF s \in 1 .. 4 /\ audio'.step = 0 THEN Send(gAudioResetQueue, 1, spec)
                           ELSE gAudioResetQueue
  BY <1>8, <1>9, <1>10, <1>11
<1> QED BY <1>8, <1>10, <1>12, <1>13 DEF s, spec

LEMMA BufferStartHKeeps ==
  ASSUME IInv, HInv, BufferStart
  PROVE  HInv'
<1>0. Handshake /\ Issued /\ Ordered /\ Hushed /\ NothingEarly
  BY DEF HInv
<1>1. /\ running = "sleep" /\ gAudioSpecQueue' = << >>
      /\ UNCHANGED <<sAudioResetStatus, sAudioSpecId, oldSpecId, pc, unsent, skipped,
                     gThreadCmdProcQueue, todo, gThreadCmdQueueFinished, hasty, resets>>
  BY DEF BufferStart, game, ring
<1> DEFINE s == IF gAudioSpecQueue # << >> /\ audio.step = 0 THEN 5 ELSE audio.step
           spec == IF gAudioSpecQueue = << >> THEN audio.specId ELSE Head(gAudioSpecQueue)
<1>2. /\ audio'.specId = spec /\ audio'.early = audio.early
      /\ audio'.heap = IF s = 1 THEN spec ELSE audio.heap
      /\ audio'.inits = IF s = 1 THEN audio.inits + 1 ELSE audio.inits
      /\ audio'.enabled = IF s = 5 THEN {} ELSE audio.enabled
      /\ s \in {0, 1} => audio'.step = 0
      /\ s \in 2 .. 5 => audio'.step \in 1 .. 4
      /\ gAudioResetQueue' = IF s \in 1 .. 4 /\ audio'.step = 0
                             THEN Send(gAudioResetQueue, 1, spec) ELSE gAudioResetQueue
      /\ running' \in {"sleep", "drain"}
  BY BufferStartFacts
<1>3. NothingEarly'
  BY <1>0, <1>2 DEF NothingEarly
<1>4. Issued'
  BY <1>0, <1>1 DEF Issued
<1>5. audio.inits \in Nat
  BY DEF IInv, TypeOK, AudioStates
<1>6. ASSUME s \in {0, 2, 3, 4, 5} PROVE Ordered' /\ Underway' = Underway /\ audio'.inits = audio.inits
  <2>1. audio'.inits = audio.inits
    BY <1>2, <1>6
  <2>2. Underway' = Underway
    BY <1>1, <2>1 DEF Underway
  <2>3. Ordered'
    BY <1>0, <1>1, <1>2, <2>1, <2>2 DEF Ordered
  <2> QED BY <2>1, <2>2, <2>3
<1>7. ASSUME s \in {0, 2, 3, 4, 5}, Underway /\ ~hasty /\ audio'.step # 0 => audio'.enabled = {}
      PROVE  Hushed'
  BY <1>0, <1>1, <1>2, <1>6, <1>7 DEF Hushed
<1>8. CASE Idle \/ Asking \/ Answered
  <2>1. audio.step = 0 /\ gAudioSpecQueue = << >> /\ s = 0 /\ spec = audio.specId
    BY <1>8 DEF Idle, Asking, Answered
  <2>2. /\ audio'.step = 0 /\ audio'.specId = audio.specId /\ audio'.heap = audio.heap
        /\ audio'.inits = audio.inits /\ gAudioResetQueue' = gAudioResetQueue
    BY <1>2, <2>1
  <2>3. Handshake'
    BY <1>1, <1>8, <2>2 DEF Handshake, Idle, Asking, Answered, Underway
  <2> QED BY <1>3, <1>4, <1>6, <1>7, <2>1, <2>2, <2>3 DEF HInv
<1>9. CASE Sent
  <2>1. s = 5 /\ spec = sAudioSpecId
    BY <1>9 DEF Sent
  <2>2. /\ audio'.step \in 1 .. 4 /\ audio'.specId = sAudioSpecId /\ audio'.inits = audio.inits
        /\ audio'.enabled = {} /\ gAudioResetQueue' = gAudioResetQueue
    BY <1>2, <2>1
  <2>3. Fading'
    BY <1>1, <1>9, <2>2 DEF Sent, Fading
  <2> QED BY <1>3, <1>4, <1>6, <1>7, <2>1, <2>2, <2>3 DEF HInv, Handshake
<1>10. CASE Fading
  <2>1. s = audio.step /\ spec = audio.specId /\ s \in 1 .. 4
    BY <1>10 DEF Fading
  <2>2. CASE s \in 2 .. 4
    <3>1. s \in {2, 3, 4} /\ s # 5 /\ s # 1
      BY <2>2
    <3>2. audio'.step \in 1 .. 4 /\ audio'.specId = audio.specId /\ audio'.inits = audio.inits
          /\ audio'.enabled = audio.enabled
      BY <1>2, <2>1, <2>2, <3>1
    <3>3. gAudioResetQueue' = gAudioResetQueue
      BY <1>2, <3>2
    <3>4. Fading'
      BY <1>1, <1>10, <3>2, <3>3 DEF Fading
    <3>5. Underway /\ ~hasty => audio'.enabled = {}
      BY <1>0, <2>1, <3>2 DEF Hushed
    <3> QED BY <1>3, <1>4, <1>6, <1>7, <3>1, <3>4, <3>5 DEF HInv, Handshake
  <2>3. CASE s = 1
    <3>1. /\ audio'.step = 0 /\ audio'.specId = sAudioSpecId /\ audio'.heap = sAudioSpecId
          /\ audio'.inits = resets
      BY <1>2, <1>5, <1>10, <2>1, <2>3 DEF Fading
    <3>2. gAudioResetQueue' = <<sAudioSpecId>>
      BY <1>2, <1>10, <2>1, <3>1 DEF Fading, Send
    <3>3. ~Underway'
      BY <1>1, <3>1 DEF Underway
    <3>4. Answered'
      BY <1>1, <1>10, <3>1, <3>2, <3>3 DEF Fading, Answered
    <3> QED BY <1>3, <1>4, <3>3, <3>4 DEF HInv, Handshake, Ordered, Hushed
  <2>4. s \in 2 .. 4 \/ s = 1
    BY <2>1
  <2> QED BY <2>2, <2>3, <2>4
<1> QED BY <1>0, <1>8, <1>9, <1>10 DEF Handshake

LEMMA ReceiveWindowKeeps ==
  ASSUME IInv, HInv, ReceiveWindow
  PROVE  HInv'
<1> DEFINE Q == gThreadCmdProcQueue
           n == audio.inits
<1>0. Handshake /\ Issued /\ Ordered /\ Hushed /\ NothingEarly
  BY DEF HInv
<1>1. /\ running = "drain" /\ Q # << >> /\ Q' = Tail(Q) /\ running' = "walk"
      /\ todo' = IF gThreadCmdQueueFinished THEN todo \o Head(Q).skipped \o Head(Q).cmds
                 ELSE Head(Q).cmds
      /\ UNCHANGED <<sAudioResetStatus, sAudioSpecId, oldSpecId, pc, unsent, skipped, gAudioSpecQueue,
                     gAudioResetQueue, audio, gThreadCmdQueueFinished, hasty, resets>>
  BY DEF ReceiveWindow, game, ring
<1>2. Underway' = Underway
  BY <1>1 DEF Underway
<1>3. Handshake'
  BY <1>0, <1>1 DEF Handshake, Idle, Asking, Sent, Fading, Answered, Underway
<1>4. Q \in Seq(Windows) /\ todo \in Seq(Commands) /\ n \in Nat /\ resets \in Nat
  BY DEF IInv, TypeOK, AudioStates
<1>5. /\ Len(Q) \in Nat \ {0} /\ DOMAIN Q = 1 .. Len(Q) /\ 1 \in DOMAIN Q /\ Head(Q) = Q[1] /\ Q[1] \in Windows
      /\ Len(Q') = Len(Q) - 1 /\ DOMAIN Q' = 1 .. Len(Q) - 1
      /\ \A k \in DOMAIN Q' : k + 1 \in DOMAIN Q /\ Q'[k] = Q[k + 1]
  BY <1>1, <1>4
<1> DEFINE sk == Q[1].skipped
           cs == Q[1].cmds
<1>6. sk \in Seq(Commands) /\ cs \in Seq(Commands)
  BY <1>5 DEF Windows
<1> HIDE DEF sk, cs
<1>7. \/ todo' = (todo \o sk) \o cs
      \/ todo' = cs
  BY <1>1, <1>5 DEF sk, cs
<1>8. todo \o sk \in Seq(Commands)
  BY <1>4, <1>6, ConcatProperties
<1>9. ASSUME NEW m, UpTo(todo, m), UpTo(sk, m), UpTo(cs, m) PROVE UpTo(todo', m)
  BY <1>4, <1>6, <1>7, <1>8, <1>9, UpToConcat
<1>10. Issued'
  <2>1. UpTo(todo', resets)
    BY <1>0, <1>5, <1>9 DEF Issued, sk, cs
  <2>2. \A k \in DOMAIN Q' : UpTo(Q'[k].skipped, resets) /\ UpTo(Q'[k].cmds, resets)
    BY <1>0, <1>5 DEF Issued
  <2> QED BY <1>0, <1>1, <2>1, <2>2 DEF Issued
<1>11. Ordered'
  <2> SUFFICES ASSUME Underway PROVE Ordered'
    BY <1>2 DEF Ordered
  <2>1. UpTo(todo, n) /\ UpTo(sk, n) /\ Behind(cs, n)
    BY <1>0, <1>1, <1>5 DEF Ordered, sk, cs
  <2>2. Behind(todo', n)
    BY <1>4, <1>6, <1>7, <1>8, <2>1, UpToConcat, BehindConcat
  <2>3. Q' # << >> \/ pc # "update" => UpTo(todo', n)
    <3>1. Q' # << >> => 1 < Len(Q)
      BY <1>1, <1>4, <1>5
    <3>2. 1 < Len(Q) \/ pc # "update" => UpTo(cs, n)
      BY <1>0, <1>5 DEF Ordered, cs
    <3> QED BY <1>9, <2>1, <3>1, <3>2
  <2>4. \A k \in DOMAIN Q' :
          /\ UpTo(Q'[k].skipped, n)
          /\ Behind(Q'[k].cmds, n)
          /\ k < Len(Q') \/ pc # "update" => UpTo(Q'[k].cmds, n)
    <3> SUFFICES ASSUME NEW k \in DOMAIN Q'
                 PROVE  /\ UpTo(Q'[k].skipped, n)
                        /\ Behind(Q'[k].cmds, n)
                        /\ k < Len(Q') \/ pc # "update" => UpTo(Q'[k].cmds, n)
      OBVIOUS
    <3>1. k + 1 \in DOMAIN Q /\ Q'[k] = Q[k + 1] /\ (k < Len(Q') => k + 1 < Len(Q))
      BY <1>5
    <3>2. /\ UpTo(Q[k + 1].skipped, n)
          /\ Behind(Q[k + 1].cmds, n)
          /\ k + 1 < Len(Q) \/ pc # "update" => UpTo(Q[k + 1].cmds, n)
      BY <1>0, <3>1 DEF Ordered
    <3> QED BY <3>1, <3>2
  <2> QED BY <1>0, <1>1, <2>2, <2>3, <2>4 DEF Ordered
<1>12. Hushed'
  <2> SUFFICES ASSUME Underway, ~hasty PROVE Hushed'
    BY <1>1, <1>2 DEF Hushed
  <2>1. /\ ~gThreadCmdQueueFinished /\ Len(Q) = 1 /\ Barrier(Q[1].cmds, n) /\ pc = "update"
        /\ audio.step # 0 => audio.enabled = {}
    BY <1>0, <1>1 DEF Hushed
  <2>2. Q' = << >> /\ todo' = Q[1].cmds
    BY <1>1, <1>4, <1>5, <2>1
  <2> QED BY <1>1, <2>1, <2>2 DEF Hushed
<1> QED BY <1>0, <1>1, <1>3, <1>10, <1>11, <1>12 DEF HInv, NothingEarly

\* A walk that goes on has one command less, and no command of a later heap but behind
\* its barrier.
LEMMA WalkOn ==
  ASSUME IInv, HInv, running = "walk", todo # << >>, todo' = Tail(todo),
         audio'.inits = audio.inits, running' # "walk" \/ Head(todo).op # "stop",
         UNCHANGED <<pc, unsent, skipped, gThreadCmdProcQueue, resets>>
  PROVE  /\ Issued' /\ Ordered'
         /\ Head(todo).op # "stop" => ~(Head(todo).epoch > audio.inits)
<1> DEFINE n == audio.inits
<1>0. Issued /\ Ordered
  BY DEF HInv
<1>1. todo \in Seq(Commands) /\ n \in Nat /\ resets \in Nat
  BY DEF IInv, TypeOK, AudioStates
<1>2. Head(todo) = todo[1] /\ 1 \in DOMAIN todo
  BY <1>1
<1>3. Underway' = Underway
  BY DEF Underway
<1>4. UpTo(todo', resets)
  BY <1>0, <1>1, TailKeeps DEF Issued
<1>5. Issued'
  BY <1>0, <1>4 DEF Issued
<1>6. Underway => Behind(todo, n)
  BY <1>0 DEF Ordered
<1>7. UpTo(todo, n) => UpTo(todo', n)
  BY <1>1, TailKeeps
<1>8. Underway /\ todo[1].op # "stop" => Behind(todo', n) /\ ~(todo[1].epoch > n)
  BY <1>1, <1>6, TailKeeps
<1>9. Ordered'
  BY <1>0, <1>2, <1>3, <1>7, <1>8 DEF Ordered
<1>10. ~Underway => ~(todo[1].epoch > n)
  <2>1. todo[1].epoch <= resets /\ todo[1].epoch \in Nat
    BY <1>0, <1>1, <1>2, EpochType DEF Issued, UpTo
  <2> QED BY <1>1, <2>1 DEF Underway
<1> QED BY <1>2, <1>5, <1>8, <1>9, <1>10

LEMMA ExecuteCmdHKeeps ==
  ASSUME IInv, HInv, ExecuteCmd
  PROVE  HInv'
<1> DEFINE done  == Execute(audio, Head(todo))
           early == done.early \/ Head(todo).epoch > audio.inits
<1>0. Handshake /\ Issued /\ Ordered /\ Hushed /\ NothingEarly
  BY DEF HInv
<1>1. /\ running = "walk" /\ running' = running /\ todo # << >> /\ todo' = Tail(todo)
      /\ Head(todo).op # "stop"
      /\ UNCHANGED <<sAudioResetStatus, sAudioSpecId, oldSpecId, pc, unsent, skipped, gThreadCmdProcQueue,
                     gAudioSpecQueue, gAudioResetQueue, gThreadCmdQueueFinished, hasty, resets>>
  BY DEF ExecuteCmd, game, ring
<1>2. audio \in AudioStates /\ todo \in Seq(Commands) /\ audio.replies = 0
  BY DEF IInv, TypeOK, Pending
<1>3. Head(todo) \in Commands /\ Head(todo) = todo[1]
  BY <1>1, <1>2
<1>4. done \in AudioStates /\ Kept(done, audio)
  BY <1>2, <1>3, ExecuteFacts, ExecuteKeeps
<1>5. audio' = [done EXCEPT !.replies = 0, !.early = early]
  BY DEF ExecuteCmd
<1> HIDE DEF done
<1>6. /\ audio'.step = audio.step /\ audio'.inits = audio.inits
      /\ audio'.specId = audio.specId /\ audio'.heap = audio.heap
  <2> HIDE DEF early
  <2> QED BY <1>4, <1>5 DEF Kept, AudioStates
<1>7. audio'.early = early
  <2> HIDE DEF early
  <2> QED BY <1>4, <1>5 DEF AudioStates
<1>8. Issued' /\ Ordered' /\ ~(Head(todo).epoch > audio.inits)
  BY <1>1, <1>6, WalkOn
<1>9. ~early
  BY <1>0, <1>4, <1>8 DEF NothingEarly, Kept
<1>10. NothingEarly'
  BY <1>7, <1>9 DEF NothingEarly
<1>11. Handshake'
  BY <1>0, <1>1, <1>6 DEF Handshake, Idle, Asking, Sent, Fading, Answered, Underway
<1>12. Hushed'
  <2>1. ~(Underway /\ ~hasty)
    BY <1>0, <1>1, <1>3 DEF Hushed, Barrier
  <2>2. ~(Underway' /\ ~hasty')
    BY <1>1, <1>6, <2>1 DEF Underway
  <2> QED BY <2>2 DEF Hushed
<1> QED BY <1>8, <1>10, <1>11, <1>12 DEF HInv

LEMMA WindowDoneKeeps ==
  ASSUME IInv, HInv, WindowDone
  PROVE  HInv'
<1>0. Handshake /\ Issued /\ Ordered /\ Hushed /\ NothingEarly
  BY DEF HInv
<1>1. /\ running = "walk" /\ running' = "drain"
      /\ todo' = todo \/ (todo # << >> /\ todo' = Tail(todo))
      /\ UNCHANGED <<sAudioResetStatus, sAudioSpecId, oldSpecId, pc, unsent, skipped, gThreadCmdProcQueue,
                     gAudioSpecQueue, gAudioResetQueue, audio, hasty, resets>>
  BY DEF WindowDone, game, ring, queues
<1>2. Handshake'
  BY <1>0, <1>1 DEF Handshake, Idle, Asking, Sent, Fading, Answered, Underway
<1>3. Underway' = Underway
  BY <1>1 DEF Underway
<1>4. Issued' /\ Ordered'
  <2>1. CASE todo' = todo
    BY <1>0, <1>1, <1>3, <2>1 DEF Issued, Ordered
  <2>2. CASE todo # << >> /\ todo' = Tail(todo)
    BY <1>1, <2>2, WalkOn
  <2> QED BY <1>1, <2>1, <2>2
<1>5. Hushed'
  BY <1>0, <1>1, <1>3 DEF Hushed
<1> QED BY <1>0, <1>1, <1>2, <1>4, <1>5 DEF HInv, NothingEarly

LEMMA BufferDoneKeeps ==
  ASSUME HInv, BufferDone
  PROVE  HInv'
<1>1. /\ running' = "sleep"
      /\ UNCHANGED <<sAudioResetStatus, sAudioSpecId, oldSpecId, pc, unsent, skipped, gThreadCmdProcQueue,
                     gAudioSpecQueue, gAudioResetQueue, audio, todo, gThreadCmdQueueFinished, hasty, resets>>
  BY DEF BufferDone, game, ring, queues
<1>2. Underway' = Underway
  BY <1>1 DEF Underway
<1>3. Handshake'
  BY <1>1 DEF HInv, Handshake, Idle, Asking, Sent, Fading, Answered, Underway
<1>4. Issued' /\ NothingEarly'
  BY <1>1 DEF HInv, Issued, NothingEarly
<1>5. Ordered'
  BY <1>1, <1>2 DEF HInv, Ordered
<1>6. Hushed'
  BY <1>1, <1>2 DEF HInv, Hushed
<1> QED BY <1>3, <1>4, <1>5, <1>6 DEF HInv

LEMMA HNext ==
  ASSUME OnePerDrain, VersusEnds, IInv, HInv, [Next]_vars
  PROVE  HInv'
<1>1. CASE UNCHANGED vars
  BY <1>1 DEF vars, game, ring, queues, walker, HInv, Handshake, Idle, Asking, Sent, Fading,
              Answered, Underway, Issued, Ordered, Hushed, NothingEarly
<1> QED BY <1>1, HGameStep, BufferStartHKeeps, ReceiveWindowKeeps, ExecuteCmdHKeeps,
           WindowDoneKeeps, BufferDoneKeeps DEF Next, AudioStep

LEMMA OneAtATime == ASSUME OnePerDrain, VersusEnds PROVE Spec => []HInv
<1>1. Init => HInv
  BY HInvInit
<1>2. IInv /\ HInv /\ [Next]_vars => HInv'
  BY HNext
<1> QED BY <1>1, <1>2, Invariant, PTL DEF Spec

\* When the game thread believes that no reset runs, none does: its spec, the audio
\* thread's and the heap's are the same.  The game asks for one spec change at a time,
\* and goes from versus to the title or the opening only.
THEOREM SpecsAgree == ASSUME OnePerDrain, VersusEnds PROVE Spec => []SpecAgreement
<1>1. HInv => SpecAgreement
  BY DEF HInv, Handshake, Idle, Asking, Sent, Fading, Answered, SpecAgreement
<1> QED BY <1>1, OneAtATime, PTL

\* No command queued behind a spec change runs against the heap of the old spec: the walk
\* stops at the barrier, and Audio_HandleReset keeps the game thread from announcing
\* another window before the heap is laid out.
THEOREM NothingRunsEarly == ASSUME OnePerDrain, VersusEnds PROVE Spec => []NothingEarly
<1>1. HInv => NothingEarly
  BY DEF HInv
<1> QED BY <1>1, OneAtATime, PTL

\* No sequence player is enabled when the heap is laid out again, if no command waited to
\* run when the game asked for the spec.
THEOREM PlayersQuietAtInit == ASSUME OnePerDrain, VersusEnds PROVE Spec => []PlayersQuiet
<1>1. HInv /\ IInv => PlayersQuiet
  <2> SUFFICES ASSUME HInv, IInv, audio.step = 1, ~hasty PROVE audio.enabled = {}
    BY DEF PlayersQuiet
  <2>1. Fading
    BY DEF HInv, Handshake, Idle, Asking, Sent, Fading, Answered
  <2>2. Underway
    BY <2>1 DEF Fading, Underway, IInv, TypeOK, AudioStates
  <2> QED BY <2>2 DEF HInv, Hushed
<1> QED BY <1>1, Invariant, OneAtATime, PTL
=============================================================================
