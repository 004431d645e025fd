---------------------------- MODULE AudioCmdRing ----------------------------
(***************************************************************************)
(* The command ring between the game thread and the audio thread           *)
(* (src/src/audio/audio_thread.c).  The game thread writes commands into   *)
(* gThreadCmdBuffer and, once a frame, sends the audio thread a message    *)
(* that names the window [readPos, writePos) it has filled.  The audio     *)
(* thread, which has the higher priority and preempts the game thread,     *)
(* receives every waiting message and walks each window.                   *)
(*                                                                         *)
(* The message queue is the one of src/src/ultra_reimpl.c: it takes no     *)
(* lock and never blocks.  Sending reads validCount and first, and stores  *)
(* validCount + 1 later; with PreemptSend the audio thread may run between *)
(* the two, as the scheduler allows.                                       *)
(***************************************************************************)
EXTENDS Naturals, Sequences, FiniteSets

CONSTANTS
  RingSize,      \* slots of gThreadCmdBuffer, 256 in the code
  ProcQueueSize, \* slots of gThreadCmdProcQueue, 4 in the code
  PreemptSend,   \* may the vblank preempt the game thread inside osSendMesg?
  DrainCmds,     \* bound: commands queued between two drains of the message queue
  MaxCmds,       \* bound: commands ever queued
  MaxStops       \* bound: STOP_AUDIOCMDS commands among them, from one moment at which
                 \* the walk has caught up with the game thread to the next

ASSUME RingAssumption ==
  /\ RingSize \in Nat \ {0}
  /\ ProcQueueSize \in Nat \ {0}
  /\ PreemptSend \in BOOLEAN
  /\ DrainCmds \in Nat \ {0}
  /\ MaxCmds \in Nat
  /\ MaxStops \in Nat

\* The slots the ring needs: the commands of two drains, as many but one again for
\* every STOP at which the walk stands still, and one by which full differs from empty.
PacedRing == 2 * DrainCmds + (DrainCmds - 1) * MaxStops + 1

VARIABLES
  gThreadCmdBuffer,       \* the ring: what each slot holds
  gThreadCmdWritePos,     \* next slot the game thread fills
  gThreadCmdReadPos,      \* first slot not yet announced in a message
  gThreadCmdProcQueue,    \* the OSMesgQueue: first, validCount and its slots
  sending,                \* osSendMesg's registers while a send is under way
  gCurCmdReadPos,         \* static of ProcessCmds: the slot it looks at next
  gThreadCmdQueueFinished,\* static of ProcessCmds: a STOP ended the last walk
  walkEnd,                \* ProcessCmds' writePos while it walks a window
  awake,                  \* the audio thread is draining gThreadCmdProcQueue
  pending,                \* history: ids queued and not yet announced
  due,                    \* history: ids announced and not yet executed
  executed,               \* history: ids in the order they were executed
  issued, burst, stops    \* counters behind MaxCmds, DrainCmds and MaxStops

game   == <<gThreadCmdBuffer, gThreadCmdWritePos, gThreadCmdReadPos>>
walker == <<gCurCmdReadPos, gThreadCmdQueueFinished, walkEnd>>
vars   == <<game, gThreadCmdProcQueue, sending, walker, awake,
            pending, due, executed, issued, burst, stops>>

Slots  == 0 .. RingSize - 1
Ids    == 1 .. MaxCmds
NoWalk == RingSize         \* walkEnd when the audio thread is not in ProcessCmds
NoSend == ProcQueueSize + 1 \* sending.valid when no send is under way

\* A slot of the ring.  The opcode is reduced to what ProcessCmds' control flow
\* tells apart: 0, STOP_AUDIOCMDS, or anything it dispatches.
Ops      == {"noop", "stop", "run"}
Commands == [op: Ops, id: 0 .. MaxCmds]
Windows  == [from: Slots, to: Slots]    \* (readPos << 8) | writePos
Cells    == 0 .. ProcQueueSize - 1      \* the OSMesg array of the queue
Counts   == 0 .. ProcQueueSize
Queues   == [first: Cells, valid: Counts, msg: [Cells -> Windows]]
Sends    == [first: Cells, valid: Cells \union {NoSend}]

\* The u8 positions wrap at the size of the ring.
Advance(p) == (p + 1) % RingSize

Idle == sending.valid = NoSend   \* the game thread is not inside osSendMesg
-----------------------------------------------------------------------------
Init ==
  /\ gThreadCmdBuffer = [p \in Slots |-> [op |-> "noop", id |-> 0]]
  /\ gThreadCmdWritePos = 0
  /\ gThreadCmdReadPos = 0
  /\ gThreadCmdProcQueue =
       [first |-> 0, valid |-> 0,
        msg |-> [i \in Cells |-> [from |-> 0, to |-> 0]]]
  /\ sending = [first |-> 0, valid |-> NoSend]
  /\ gCurCmdReadPos = 0
  /\ gThreadCmdQueueFinished = FALSE
  /\ walkEnd = NoWalk
  /\ awake = FALSE
  /\ pending = {}
  /\ due = {}
  /\ executed = << >>
  /\ issued = 0
  /\ burst = 0
  /\ stops = 0
-----------------------------------------------------------------------------
(* The game thread: it runs only while the audio thread does not.          *)

\* osSendMesg's test, and a form of it that is off by one.
HasRoomOffByOne == gThreadCmdProcQueue.valid <= ProcQueueSize
HasRoom == gThreadCmdProcQueue.valid < ProcQueueSize

\* AudioThread_QueueCmd.  The slot is written before the test for a full
\* window; when it is full the position steps back and the command is lost.
QueueCmd(op) ==
  LET next == Advance(gThreadCmdWritePos)
      full == next = gThreadCmdReadPos
  IN
  /\ ~awake
  /\ Idle
  /\ issued < MaxCmds
  /\ burst < DrainCmds
  /\ op = "stop" => stops < MaxStops
  /\ issued' = issued + 1
  /\ burst' = burst + 1
  /\ stops' = IF op = "stop" THEN stops + 1 ELSE stops
  /\ gThreadCmdBuffer' =
       [gThreadCmdBuffer EXCEPT ![gThreadCmdWritePos] = [op |-> op, id |-> issued + 1]]
  /\ gThreadCmdWritePos' = IF full THEN gThreadCmdWritePos ELSE next
  /\ pending' = IF full \/ op = "stop" THEN pending ELSE pending \union {issued + 1}
  /\ UNCHANGED <<gThreadCmdReadPos, gThreadCmdProcQueue, sending, walker, awake,
                 due, executed>>

\* AudioThread_ScheduleProcessCmds up to osSendMesg's test.  A full queue
\* refuses the message, the result is ignored and the window is forgotten.
ScheduleRefused ==
  /\ ~awake
  /\ Idle
  /\ ~HasRoom
  /\ gThreadCmdReadPos' = gThreadCmdWritePos
  /\ pending' = {}
  /\ UNCHANGED <<gThreadCmdBuffer, gThreadCmdWritePos, gThreadCmdProcQueue,
                 sending, walker, awake, due, executed, issued, burst, stops>>

\* osSendMesg has room: it has loaded validCount and first.
ScheduleBegin ==
  /\ ~awake
  /\ Idle
  /\ HasRoom
  /\ sending' = [first |-> gThreadCmdProcQueue.first, valid |-> gThreadCmdProcQueue.valid]
  /\ UNCHANGED <<game, gThreadCmdProcQueue, walker, awake,
                 pending, due, executed, issued, burst, stops>>

\* osSendMesg stores the message and validCount + 1 from what it loaded, and
\* AudioThread_ScheduleProcessCmds closes the window.
ScheduleEnd ==
  LET slot == (sending.first + sending.valid) % ProcQueueSize
      window == [from |-> gThreadCmdReadPos, to |-> gThreadCmdWritePos]
  IN
  /\ ~awake
  /\ ~Idle
  /\ gThreadCmdProcQueue' =
       [gThreadCmdProcQueue EXCEPT !.msg[slot] = window, !.valid = sending.valid + 1]
  /\ gThreadCmdReadPos' = gThreadCmdWritePos
  /\ sending' = [first |-> 0, valid |-> NoSend]
  /\ due' = due \union pending
  /\ pending' = {}
  /\ UNCHANGED <<gThreadCmdBuffer, gThreadCmdWritePos, walker, awake,
                 executed, issued, burst, stops>>

\* AudioThread_ResetCmdQueue: what is not announced yet is thrown away.
ResetCmdQueue ==
  /\ ~awake
  /\ Idle
  /\ gThreadCmdReadPos' = gThreadCmdWritePos
  /\ pending' = {}
  /\ UNCHANGED <<gThreadCmdBuffer, gThreadCmdWritePos, gThreadCmdProcQueue, sending,
                 walker, awake, due, executed, issued, burst, stops>>
-----------------------------------------------------------------------------
(* The audio thread: a vblank wakes it, and it drains the queue before the  *)
(* game thread runs again.                                                  *)

BufferStart ==
  /\ ~awake
  /\ PreemptSend \/ Idle
  /\ awake' = TRUE
  /\ burst' = IF gThreadCmdProcQueue.valid = 0 THEN burst ELSE 0
  /\ UNCHANGED <<game, gThreadCmdProcQueue, sending, walker,
                 pending, due, executed, issued, stops>>

\* MQ_GET_MESG finds the queue empty.
BufferDone ==
  /\ awake
  /\ walkEnd = NoWalk
  /\ gThreadCmdProcQueue.valid = 0
  /\ awake' = FALSE
  /\ UNCHANGED <<game, gThreadCmdProcQueue, sending, walker,
                 pending, due, executed, issued, burst, stops>>

\* The message osRecvMesg takes.
OldestWindow(q) == q.msg[q.first]

\* A walk starts at the window's first slot unless a STOP ended the walk before
\* it: then it goes on behind the STOP.  (Mutated: the flag is not looked at.)
ForgetStop(window) == window.from
WalkStart(window) == IF gThreadCmdQueueFinished THEN gCurCmdReadPos ELSE window.from

\* The slot in front of which it ends.  (Mutated: that slot is walked too.)
WalkPast(window) == Advance(window.to)
WalkEnd(window) == window.to

\* osRecvMesg, then the head of AudioThread_ProcessCmds.
ReceiveWindow ==
  LET q == gThreadCmdProcQueue
      window == OldestWindow(q)
  IN
  /\ awake
  /\ walkEnd = NoWalk
  /\ q.valid # 0
  /\ gThreadCmdProcQueue' =
       [q EXCEPT !.first = (q.first + 1) % ProcQueueSize, !.valid = q.valid - 1]
  /\ gCurCmdReadPos' = WalkStart(window)
  /\ walkEnd' = WalkEnd(window)
  /\ UNCHANGED <<game, sending, gThreadCmdQueueFinished, awake,
                 pending, due, executed, issued, burst, stops>>

\* The walk reaches the end of the window, and may have caught up.
WindowDone ==
  /\ walkEnd # NoWalk
  /\ gCurCmdReadPos = walkEnd
  /\ gThreadCmdQueueFinished' = FALSE
  /\ walkEnd' = NoWalk
  /\ stops' = IF gCurCmdReadPos = gThreadCmdWritePos THEN 0 ELSE stops
  /\ UNCHANGED <<game, gThreadCmdProcQueue, sending, gCurCmdReadPos, awake,
                 pending, due, executed, issued, burst>>

\* STOP_AUDIOCMDS: the rest waits for the next message; the opcode stays.
StopWalk ==
  /\ walkEnd # NoWalk
  /\ gCurCmdReadPos # walkEnd
  /\ gThreadCmdBuffer[gCurCmdReadPos].op = "stop"
  /\ gCurCmdReadPos' = Advance(gCurCmdReadPos)
  /\ gThreadCmdQueueFinished' = TRUE
  /\ walkEnd' = NoWalk
  /\ UNCHANGED <<game, gThreadCmdProcQueue, sending, awake,
                 pending, due, executed, issued, burst, stops>>

\* Any other command is dispatched and its opcode cleared; opcode 0 dispatches
\* to nothing.
Clear(p) == [gThreadCmdBuffer EXCEPT ![p].op = "noop"]

ExecuteCmd ==
  LET cmd == gThreadCmdBuffer[gCurCmdReadPos] IN
  /\ walkEnd # NoWalk
  /\ gCurCmdReadPos # walkEnd
  /\ cmd.op # "stop"
  /\ gThreadCmdBuffer' = Clear(gCurCmdReadPos)
  /\ gCurCmdReadPos' = Advance(gCurCmdReadPos)
  /\ executed' = IF cmd.op = "run" THEN Append(executed, cmd.id) ELSE executed
  /\ due' = due \ {cmd.id}
  /\ UNCHANGED <<gThreadCmdWritePos, gThreadCmdReadPos, gThreadCmdProcQueue, sending,
                 gThreadCmdQueueFinished, walkEnd, awake, pending, issued, burst, stops>>
-----------------------------------------------------------------------------
GameStep  == \/ \E op \in {"stop", "run"} : QueueCmd(op)
             \/ ScheduleRefused
             \/ ScheduleBegin
             \/ ScheduleEnd
             \/ ResetCmdQueue
AudioStep == BufferStart \/ BufferDone \/ ReceiveWindow \/ WindowDone \/ StopWalk \/ ExecuteCmd

Next == GameStep \/ AudioStep

Spec == Init /\ [][Next]_vars
-----------------------------------------------------------------------------
\* Every variable has its type; no position leaves the ring and validCount
\* never exceeds the slots of the queue.
TypeOK ==
  /\ gThreadCmdBuffer \in [Slots -> Commands]
  /\ gThreadCmdWritePos \in Slots
  /\ gThreadCmdReadPos \in Slots
  /\ gThreadCmdProcQueue \in Queues
  /\ sending \in Sends
  /\ gCurCmdReadPos \in Slots
  /\ gThreadCmdQueueFinished \in BOOLEAN
  /\ walkEnd \in Slots \union {NoWalk}
  /\ awake \in BOOLEAN
  /\ pending \in SUBSET Ids
  /\ due \in SUBSET Ids
  /\ executed \in Seq(0 .. MaxCmds)
  /\ issued \in 0 .. MaxCmds
  /\ burst \in 0 .. DrainCmds
  /\ stops \in 0 .. MaxStops

\* No command is executed twice, whatever windows the audio thread walks: stale
\* ones left behind by an interrupted osSendMesg, overlapping ones, ones that
\* name slots the game thread has filled again.  What protects it is that
\* ProcessCmds clears the opcode of every command it has dispatched.
NeverTwice == \A i, j \in DOMAIN executed : i # j => executed[i] # executed[j]

\* Commands take effect in the order the game thread queued them, across frames,
\* across STOP_AUDIOCMDS barriers and across the wrap of the ring; and while an
\* announced one waits, behind a STOP or in a message not yet received, none
\* queued after it takes effect.
InOrder ==
  /\ \A i, j \in DOMAIN executed : i < j => executed[i] < executed[j]
  /\ \A d \in due, i \in DOMAIN executed : executed[i] < d

\* When the audio thread sleeps with no message left, every announced command has
\* been executed but those a STOP holds back, and for these the flag is set that
\* makes the next message resume behind the STOP.
HeldByStop ==
  ~awake /\ Idle /\ gThreadCmdProcQueue.valid = 0 /\ due # {} => gThreadCmdQueueFinished
=============================================================================
