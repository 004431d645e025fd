----------------------------- MODULE AudioReset -----------------------------
(***************************************************************************)
(* A change of the audio spec: the game thread (src/src/audio/             *)
(* audio_general.c) asks the audio thread (audio_thread.c, audio_heap.c)   *)
(* to fade out, lay out its heap again and report back, while a background *)
(* music whose font is still being loaded (audio_load.c) waits to start.   *)
(*                                                                         *)
(* The audio thread has the higher priority: AudioThread_CreateNextAudio-  *)
(* Buffer runs to its end between two steps of the game thread.  What      *)
(* AudioCmdRing establishes of the command ring is used: a window arrives  *)
(* with the commands queued for it, and a walk that follows a STOP goes on *)
(* from there, through commands discarded since, to the end of its window. *)
(***************************************************************************)
EXTENDS Naturals, Sequences

CONSTANTS
  Specs,         \* the audio specs the game uses
  SpecChanges,   \* the pairs <<from, to>> the game asks for
  BootSpec,      \* sAudioSpecId and gAudioSpecId at boot
  Chunks,        \* DMA chunks of a font load (20 in the code)
  LongFade,      \* buffers of reset step 3 (16 in the code)
  OnePerDrain,   \* does the game ask for one spec change at a time?
  MaxLag,        \* bound: game frames between two audio buffers
  MaxResets,     \* bound: spec changes
  MaxPlays       \* bound: background musics asked for

ASSUME ResetAssumption ==
  /\ SpecChanges \subseteq Specs \X Specs
  /\ BootSpec \in Specs
  /\ Chunks \in Nat \ {0}
  /\ LongFade \in Nat
  /\ OnePerDrain \in BOOLEAN
  /\ MaxLag \in Nat \ {0}
  /\ MaxResets \in Nat
  /\ MaxPlays \in Nat

VARIABLES
  \* the game thread
  sAudioResetStatus, \* AUDIORESET_READY, _BLOCK or _WAIT
  sAudioSpecId,      \* the spec the game thread believes in
  oldSpecId,         \* the one before it
  waiting,           \* sActiveSequences[SEQ_PLAYER_BGM].isWaitingForFonts
  pc,                \* where Audio_Update is
  unsent,            \* commands in the ring not yet announced
  skipped,           \* commands thrown away just before them
  \* the message queues
  gThreadCmdProcQueue, gAudioSpecQueue, gAudioResetQueue, gExternalLoadQueue,
  \* the audio thread
  audio,             \* its state, see AudioStates
  running,           \* it sleeps, drains gThreadCmdProcQueue or walks a window
  todo,              \* what is left to walk
  gThreadCmdQueueFinished, \* a STOP ended the last walk before the end of its window
  \* history and bounds
  hasty,             \* the last spec change came while commands still waited to run
  lost,              \* what a waiting music waited for was thrown away
  resets, plays, lag

game   == <<sAudioResetStatus, sAudioSpecId, oldSpecId, waiting, pc>>
ring   == <<unsent, skipped>>
queues == <<gThreadCmdProcQueue, gAudioSpecQueue, gAudioResetQueue, gExternalLoadQueue>>
walker == <<running, todo, gThreadCmdQueueFinished>>
vars   == <<game, ring, queues, audio, walker, hasty, lost, resets, plays, lag>>

ShortFade == 4      \* buffers of reset steps 4 and 2
LoadDelay == 3      \* buffers a load waits before its first chunk
ProcQueueSize == 4

Statuses == {"READY", "BLOCK", "WAIT"}
\* Commands carry the number of spec changes the game thread had asked for.
Ops      == {"stop", "start_sfx", "start_bgm", "discard", "load"}
Commands == [op: Ops, epoch: 0 .. MaxResets]
Windows  == [skipped: Seq(Commands), cmds: Seq(Commands)]
Loads    == [active: BOOLEAN, delay: 0 .. LoadDelay, left: 0 .. Chunks]
Fonts    == {"NOT_LOADED", "IN_PROGRESS", "COMPLETE"}
AudioStates ==
  [step: 0 .. 5,               \* gAudioResetStep
   frames: Nat,                \* gResetFadeoutFramesLeft
   specId: Specs,              \* gAudioSpecId
   heap: Specs,                \* the spec AudioHeap_Init last laid the heap out for
   inits: 0 .. MaxResets,      \* history: how often it has done so
   enabled: SUBSET {"sfx", "bgm"}, \* the enabled sequence players
   font: Fonts,                \* gFontLoadStatus of the music's font
   load: Loads,                \* the one entry of gAsyncLoads in use
   replies: 0 .. 2,            \* messages it has sent to gExternalLoadQueue
   early: BOOLEAN]             \* history: a command ran against the heap before its own

Cmd(op) == [op |-> op, epoch |-> resets]
Has(cmds, op) == \E i \in DOMAIN cmds : cmds[i].op = op
-----------------------------------------------------------------------------
Init ==
  /\ sAudioResetStatus = "READY"
  /\ sAudioSpecId = BootSpec
  /\ oldSpecId = BootSpec
  /\ waiting = FALSE
  /\ pc = "update"
  /\ unsent = << >>
  /\ skipped = << >>
  /\ gThreadCmdProcQueue = << >>
  /\ gAudioSpecQueue = << >>
  /\ gAudioResetQueue = << >>
  /\ gExternalLoadQueue = 0
  /\ audio = [step |-> 0, frames |-> 0, specId |-> BootSpec, heap |-> BootSpec,
              inits |-> 0, enabled |-> {"sfx"}, font |-> "NOT_LOADED",
              load |-> [active |-> FALSE, delay |-> 0, left |-> 0],
              replies |-> 0, early |-> FALSE]
  /\ running = "sleep"
  /\ todo = << >>
  /\ gThreadCmdQueueFinished = FALSE
  /\ hasty = FALSE
  /\ lost = FALSE
  /\ resets = 0
  /\ plays = 0
  /\ lag = 0
-----------------------------------------------------------------------------
(* The game thread: Audio_Update, one step per access to what is shared.   *)

\* osSendMesg into a queue of n slots drops what does not fit.
Send(queue, n, mesg) == IF Len(queue) < n THEN Append(queue, mesg) ELSE queue

\* AudioThread_ScheduleProcessCmds for the commands queued.  A window that a full
\* queue refuses stays in the ring in front of the next one.
Schedule(cmds) ==
  \/ /\ Len(gThreadCmdProcQueue) < ProcQueueSize
     /\ gThreadCmdProcQueue' =
          Append(gThreadCmdProcQueue, [skipped |-> skipped, cmds |-> cmds])
     /\ skipped' = << >>
  \/ /\ Len(gThreadCmdProcQueue) = ProcQueueSize
     /\ skipped' = skipped \o cmds
     /\ UNCHANGED gThreadCmdProcQueue

\* Audio_HandleReset with nothing to handle.
Ready ==
  /\ pc = "update"
  /\ sAudioResetStatus = "READY"
  /\ lag < MaxLag
  /\ lag' = lag + 1
  /\ pc' = "cmds"
  /\ UNCHANGED <<sAudioResetStatus, sAudioSpecId, oldSpecId, waiting, ring, queues, audio, walker,
                 hasty, lost, resets, plays>>

\* AudioThread_ResetComplete: the message must name the audio thread's spec.
\* (Mutated: the spec that is left.)
OldSpec(specId) == specId = oldSpecId
SameSpec(specId) == specId = audio.specId

\* Audio_HandleReset polls a message that is not the one it waits for.
StaleReset ==
  /\ pc = "update"
  /\ sAudioResetStatus # "READY"
  /\ gAudioResetQueue # << >>
  /\ ~SameSpec(Head(gAudioResetQueue))
  /\ gAudioResetQueue' = Tail(gAudioResetQueue)
  /\ UNCHANGED <<game, ring, gThreadCmdProcQueue, gAudioSpecQueue, gExternalLoadQueue,
                 audio, walker, hasty, lost, resets, plays, lag>>

\* Audio_RestartSeqPlayers behind a completed reset, then the frame goes on.
NoRestart == << >>
RestartCmds == <<Cmd("start_sfx")>>
Barriers == [i \in 1 .. 3 |-> Cmd("stop")]
ResetDone ==
  /\ pc = "update"
  /\ sAudioResetStatus # "READY"
  /\ gAudioResetQueue # << >>
  /\ SameSpec(Head(gAudioResetQueue))
  /\ gAudioResetQueue' = Tail(gAudioResetQueue)
  /\ sAudioResetStatus' = "READY"
  /\ Schedule(unsent \o RestartCmds)
  /\ unsent' = Barriers
  /\ lag' = 1
  /\ pc' = "cmds"
  /\ UNCHANGED <<sAudioSpecId, oldSpecId, waiting, gAudioSpecQueue, gExternalLoadQueue,
                 audio, walker, hasty, lost, resets, plays>>

\* SEQCMD_OP_PLAY_SEQUENCE for the background music, with SEQ_FLAG set or not.
PlayBgm(withFont, discard) ==
  /\ pc = "cmds"
  /\ ~waiting
  /\ plays < MaxPlays
  /\ plays' = plays + 1
  /\ waiting' = withFont
  /\ unsent' = unsent \o
       IF ~withFont THEN <<Cmd("start_bgm")>>
       ELSE IF discard THEN <<Cmd("discard"), Cmd("load")>>
       ELSE <<Cmd("load")>>
  /\ lost' = FALSE
  /\ UNCHANGED <<sAudioResetStatus, sAudioSpecId, oldSpecId, pc, skipped, queues, audio, walker, hasty, resets, lag>>

\* The ring has been walked to its end.
Settled == /\ gThreadCmdProcQueue = << >>
           /\ ~gThreadCmdQueueFinished

\* SEQCMD_OP_RESET_AUDIO_HEAP, up to AudioThread_ResetCmdQueue.
ResetBegin(specId) ==
  /\ pc = "cmds"
  /\ OnePerDrain => sAudioResetStatus = "READY"
  /\ resets < MaxResets
  /\ <<sAudioSpecId, specId>> \in SpecChanges
  /\ sAudioSpecId # specId
  /\ hasty' = ~Settled
  /\ sAudioSpecId' = specId
  /\ oldSpecId' = sAudioSpecId
  /\ gAudioResetQueue' = << >>
  /\ skipped' = skipped \o unsent
  /\ unsent' = << >>
  /\ lost' = (lost \/ Has(unsent, "load"))
  /\ resets' = resets + 1
  /\ pc' = "reset"
  /\ UNCHANGED <<sAudioResetStatus, waiting, gThreadCmdProcQueue, gAudioSpecQueue,
                 gExternalLoadQueue, audio, walker, plays, lag>>

\* Audio_StartReset's choice; the inner IF leaves the status as it was.
StatusAfter(old, new) ==
  IF old = "VS" THEN IF new \in {"OPENING", "TITLE"} THEN "BLOCK" ELSE sAudioResetStatus
  ELSE IF old = "TR" /\ new = "TITLE" THEN "BLOCK" ELSE "WAIT"

\* The barrier behind which the commands of the new spec wait.  (Mutated: none.)
NoBarrier == << >>
ResetBarrier == <<Cmd("stop")>>

\* The rest of AudioThread_ResetAudioHeap, Audio_StartReset and the barrier.
ResetSend ==
  /\ pc = "reset"
  /\ gAudioSpecQueue' = Send(gAudioSpecQueue, 1, sAudioSpecId)
  /\ sAudioResetStatus' = StatusAfter(oldSpecId, sAudioSpecId)
  /\ unsent' = unsent \o ResetBarrier
  /\ pc' = "cmds"
  /\ UNCHANGED <<sAudioSpecId, oldSpecId, waiting, skipped, gThreadCmdProcQueue, gAudioResetQueue,
                 gExternalLoadQueue, audio, walker, hasty, lost, resets, plays, lag>>

\* Audio_ProcessSeqCmds finds no command, or takes up none of the above.
SeqCmdsDone ==
  /\ pc = "cmds"
  /\ pc' = "players"
  /\ UNCHANGED <<sAudioResetStatus, sAudioSpecId, oldSpecId, waiting, ring, queues, audio, walker,
                 hasty, lost, resets, plays, lag>>

\* Audio_UpdateActiveSequences: a load's message starts the music that waits.
FontArrived ==
  /\ pc = "players"
  /\ waiting
  /\ gExternalLoadQueue > 0
  /\ gExternalLoadQueue' = gExternalLoadQueue - 1
  /\ waiting' = FALSE
  /\ unsent' = Append(unsent, Cmd("start_bgm"))
  /\ pc' = "schedule"
  /\ UNCHANGED <<sAudioResetStatus, sAudioSpecId, oldSpecId, skipped, gThreadCmdProcQueue,
                 gAudioSpecQueue, gAudioResetQueue, audio, walker, hasty, lost, resets, plays, lag>>

NoFont ==
  /\ pc = "players"
  /\ ~waiting \/ gExternalLoadQueue = 0
  /\ pc' = "schedule"
  /\ UNCHANGED <<sAudioResetStatus, sAudioSpecId, oldSpecId, waiting, ring, queues, audio, walker,
                 hasty, lost, resets, plays, lag>>

FrameEnd ==
  /\ pc = "schedule"
  /\ Schedule(unsent)
  /\ unsent' = << >>
  /\ pc' = "update"
  /\ UNCHANGED <<sAudioResetStatus, sAudioSpecId, oldSpecId, waiting, gAudioSpecQueue,
                 gAudioResetQueue, gExternalLoadQueue, audio, walker, hasty, lost, resets, plays, lag>>
-----------------------------------------------------------------------------
(* The audio thread: one vblank's AudioThread_CreateNextAudioBuffer.       *)

\* AudioLoad_ProcessAsyncLoad.  A copy to memory is complete, and its message in
\* the load's queue, before AudioLoad_Dma returns.  A reset cancels the load
\* without a message.  (Mutated: the end of a load sends none.)
Cancelled(a) == a.load.active /\ a.load.delay = 0 /\ a.step # 0

SilentEnd(a) == [a EXCEPT !.load.active = FALSE, !.font = "COMPLETE"]
LoadEnd(a) == [a EXCEPT !.load.active = FALSE, !.font = "COMPLETE", !.replies = @ + 1]

ProcessLoads(a) ==
  IF ~a.load.active           THEN a
  ELSE IF a.load.delay > 1    THEN [a EXCEPT !.load.delay = @ - 1]
  ELSE IF Cancelled(a)        THEN [a EXCEPT !.load.active = FALSE]
  ELSE IF a.load.left = 0     THEN LoadEnd(a)
  ELSE [a EXCEPT !.load.delay = 0, !.load.left = @ - 1]

\* A spec that arrives while a reset runs changes the target, not the step.
\* (Mutated: the step alone is set.)
ForgetSpec(a) ==
  IF gAudioSpecQueue = << >> THEN a ELSE [a EXCEPT !.step = IF a.step = 0 THEN 5 ELSE a.step]
ReceiveSpec(a) ==
  IF gAudioSpecQueue = << >> THEN a
  ELSE [a EXCEPT !.step = IF a.step = 0 THEN 5 ELSE a.step,
                 !.specId = Head(gAudioSpecQueue)]

\* Step 1: AudioHeap_Init.  (Mutated: the step stays.)
InitAgain(a) == [a EXCEPT !.heap = a.specId, !.inits = @ + 1, !.font = "NOT_LOADED"]
HeapInit(a) ==
  [a EXCEPT !.step = 0, !.heap = a.specId, !.inits = @ + 1, !.font = "NOT_LOADED"]

\* The buffers AudioHeap_ResetStep counts down in a step before it goes on.
\* (Mutated: none in step 2.)
NoDrain == <<0, 0, LongFade, ShortFade>>
FadeBefore == <<0, ShortFade, LongFade, ShortFade>>

\* Step 5 disables the sequence players.  (Mutated: but for the sound effects.)
KeepSfx(players) == players \ {"bgm"}
Disabled(players) == {}

ResetStep(a) ==
  IF a.step = 0          THEN a
  ELSE IF a.step = 5     THEN [a EXCEPT !.step = 4, !.enabled = Disabled(@), !.frames = FadeBefore[4]]
  ELSE IF a.step = 1     THEN HeapInit(a)
  ELSE IF a.frames > 0   THEN [a EXCEPT !.frames = @ - 1]
  ELSE [a EXCEPT !.step = @ - 1, !.frames = FadeBefore[a.step - 1]]

\* AudioLoad_AsyncLoadInner for the music's font.
AsyncLoadFont(a) ==
  IF a.font = "IN_PROGRESS"   THEN a
  ELSE IF a.font = "COMPLETE" THEN [a EXCEPT !.replies = @ + 1]
  ELSE [a EXCEPT !.font = "IN_PROGRESS",
                 !.load = [active |-> TRUE, delay |-> LoadDelay, left |-> Chunks]]

\* AudioThread_ProcessGlobalCmd.  A player that starts loads its fonts on the spot
\* and takes one that is being loaded for loaded.
Execute(a, cmd) ==
  IF cmd.op = "start_sfx" THEN [a EXCEPT !.enabled = @ \union {"sfx"}]
  ELSE IF cmd.op = "start_bgm" THEN [a EXCEPT !.enabled = @ \union {"bgm"}, !.font = "COMPLETE"]
  ELSE IF cmd.op = "discard" THEN [a EXCEPT !.font = "NOT_LOADED"]
  ELSE AsyncLoadFont(a)

\* The part of AudioThread_CreateNextAudioBuffer before the commands.  While the
\* reset is in its last steps the buffer ends here.
BufferStart ==
  LET asked  == ReceiveSpec(ProcessLoads(audio))
      reset  == ResetStep(asked)
      silent == asked.step # 0 /\ reset.step < 3
  IN
  /\ running = "sleep"
  /\ audio' = [reset EXCEPT !.replies = 0]
  /\ gExternalLoadQueue' = gExternalLoadQueue + reset.replies
  /\ gAudioSpecQueue' = << >>
  /\ gAudioResetQueue' = IF silent /\ reset.step = 0
                         THEN Send(gAudioResetQueue, 1, reset.specId) ELSE gAudioResetQueue
  /\ running' = IF silent THEN "sleep" ELSE "drain"
  /\ lost' = (lost \/ Cancelled(audio))
  /\ lag' = 0
  /\ UNCHANGED <<game, ring, gThreadCmdProcQueue, todo, gThreadCmdQueueFinished, hasty, resets, plays>>

\* AudioThread_ProcessCmds begins a window.
ReceiveWindow ==
  LET window == Head(gThreadCmdProcQueue) IN
  /\ running = "drain"
  /\ gThreadCmdProcQueue # << >>
  /\ gThreadCmdProcQueue' = Tail(gThreadCmdProcQueue)
  /\ todo' = IF gThreadCmdQueueFinished THEN todo \o window.skipped \o window.cmds
             ELSE window.cmds
  /\ running' = "walk"
  /\ UNCHANGED <<game, ring, gAudioSpecQueue, gAudioResetQueue, gExternalLoadQueue, audio,
                 gThreadCmdQueueFinished, hasty, lost, resets, plays, lag>>

ExecuteCmd ==
  /\ running = "walk"
  /\ todo # << >>
  /\ Head(todo).op # "stop"
  /\ audio' = [Execute(audio, Head(todo)) EXCEPT
                 !.replies = 0, !.early = @ \/ Head(todo).epoch > audio.inits]
  /\ gExternalLoadQueue' = gExternalLoadQueue + Execute(audio, Head(todo)).replies
  /\ todo' = Tail(todo)
  /\ UNCHANGED <<game, ring, gThreadCmdProcQueue, gAudioSpecQueue, gAudioResetQueue,
                 running, gThreadCmdQueueFinished, hasty, lost, resets, plays, lag>>

\* The walk ends at a STOP or at the end of the window.
WindowDone ==
  /\ running = "walk"
  /\ \/ /\ todo = << >>
        /\ gThreadCmdQueueFinished' = FALSE
        /\ UNCHANGED todo
     \/ /\ todo # << >>
        /\ Head(todo).op = "stop"
        /\ gThreadCmdQueueFinished' = TRUE
        /\ todo' = Tail(todo)
  /\ running' = "drain"
  /\ UNCHANGED <<game, ring, queues, audio, hasty, lost, resets, plays, lag>>

BufferDone ==
  /\ running = "drain"
  /\ gThreadCmdProcQueue = << >>
  /\ running' = "sleep"
  /\ UNCHANGED <<game, ring, queues, audio, todo, gThreadCmdQueueFinished,
                 hasty, lost, resets, plays, lag>>
-----------------------------------------------------------------------------
GameStep ==
  \/ Ready
  \/ StaleReset
  \/ ResetDone
  \/ \E withFont, discard \in BOOLEAN : PlayBgm(withFont, discard)
  \/ \E specId \in Specs : ResetBegin(specId)
  \/ ResetSend
  \/ SeqCmdsDone
  \/ FontArrived
  \/ NoFont
  \/ FrameEnd

AudioStep == BufferStart \/ ReceiveWindow \/ ExecuteCmd \/ WindowDone \/ BufferDone

\* The game thread runs while the audio thread sleeps.
Next == (running = "sleep" /\ GameStep) \/ AudioStep

Spec == Init /\ [][Next]_vars

\* The vblank keeps waking the audio thread and the game loop never stops.
FairSpec == Spec /\ WF_vars(AudioStep) /\ SF_vars(running = "sleep" /\ GameStep)
-----------------------------------------------------------------------------
\* Every variable has its type.
TypeOK ==
  /\ sAudioResetStatus \in Statuses
  /\ sAudioSpecId \in Specs
  /\ oldSpecId \in Specs
  /\ waiting \in BOOLEAN
  /\ pc \in {"update", "cmds", "reset", "players", "schedule"}
  /\ unsent \in Seq(Commands)
  /\ skipped \in Seq(Commands)
  /\ gThreadCmdProcQueue \in Seq(Windows)
  /\ Len(gThreadCmdProcQueue) <= ProcQueueSize
  /\ gAudioSpecQueue \in Seq(Specs)
  /\ Len(gAudioSpecQueue) <= 1
  /\ gAudioResetQueue \in Seq(Specs)
  /\ Len(gAudioResetQueue) <= 1
  /\ gExternalLoadQueue \in Nat
  /\ audio \in AudioStates
  /\ running \in {"sleep", "drain", "walk"}
  /\ todo \in Seq(Commands)
  /\ gThreadCmdQueueFinished \in BOOLEAN
  /\ hasty \in BOOLEAN
  /\ lost \in BOOLEAN
  /\ resets \in 0 .. MaxResets
  /\ plays \in 0 .. MaxPlays
  /\ lag \in 0 .. MaxLag

\* The game thread is not told that a reset is over while one still runs; and then the
\* three notions of the current spec agree: the game's, the audio thread's, the heap's.
SpecAgreement ==
  sAudioResetStatus = "READY" /\ pc # "reset" =>
    /\ audio.step = 0
    /\ gAudioSpecQueue = << >>
    /\ sAudioSpecId = audio.specId
    /\ audio.specId = audio.heap

\* No load is under way when the heap is laid out again: the last commands run in
\* step 3, and a load then started is cancelled, after its delay, in step 2.
NoLoadAcrossInit == audio.step = 1 => ~audio.load.active

\* No sequence player plays out of the heap when it is laid out again, if the commands
\* queued before the spec change had all run: they may enable one during the fade.
PlayersQuiet == audio.step = 1 /\ ~hasty => audio.enabled = {}

\* What the game thread queues behind a spec change does not run before the heap
\* has been laid out for it.
NothingEarly == ~audio.early

\* A reset ends, and the game thread gets to know.
ResetEnds == sAudioResetStatus # "READY" ~> sAudioResetStatus = "READY"

\* A music that waits starts in the end, unless a reset threw its load away.
MusicStarts == waiting ~> ~waiting \/ lost

\* After the last reset the player of the sound effects runs for good.
SfxReturns == <>[]("sfx" \in audio.enabled)
=============================================================================
