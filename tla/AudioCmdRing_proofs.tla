------------------------ MODULE AudioCmdRing_proofs -------------------------
(***************************************************************************)
(* No command of the ring runs twice, for every size of the ring and of    *)
(* the message queue, every pace of the two threads, and with the audio    *)
(* thread free to preempt osSendMesg.  Where it does not preempt it and    *)
(* the ring has PacedRing slots, commands run in the order they were       *)
(* queued in, and only a STOP holds one back.                              *)
(***************************************************************************)
EXTENDS AudioCmdRing, TLAPS

\* A number modulo a size stays below it.
LEMMA ModRange == ASSUME NEW n \in Nat \ {0}, NEW a \in Nat
                  PROVE  a % n \in 0 .. n - 1
  OBVIOUS

\* Every number is a multiple of a size and its remainder.
LEMMA Quotient == ASSUME NEW n \in Nat \ {0}, NEW a \in Nat
                  PROVE  \E k \in Nat : a = n * k + (a % n)
<1>1. a \div n \in Nat
  OBVIOUS
<1>2. a = n * (a \div n) + (a % n)
  OBVIOUS
<1> QED BY <1>1, <1>2

\* There is one such remainder.
LEMMA OneRemainder ==
  ASSUME NEW n \in Nat \ {0}, NEW k \in Nat, NEW l \in Nat,
         NEW r \in 0 .. n - 1, NEW s \in 0 .. n - 1, n * k + r = n * l + s
  PROVE  r = s
<1>1. ~ (k < l)
  <2> SUFFICES ASSUME k < l PROVE FALSE
    OBVIOUS
  <2>1. PICK d \in Nat : l = k + 1 + d
    BY l - k - 1 \in Nat, l = k + 1 + (l - k - 1)
  <2>2. n * l = n * k + n + n * d /\ n * d \in Nat
    BY <2>1
  <2> QED BY <2>2
<1>2. ~ (l < k)
  <2> SUFFICES ASSUME l < k PROVE FALSE
    OBVIOUS
  <2>1. PICK d \in Nat : k = l + 1 + d
    BY k - l - 1 \in Nat, k = l + 1 + (k - l - 1)
  <2>2. n * k = n * l + n + n * d /\ n * d \in Nat
    BY <2>1
  <2> QED BY <2>2
<1> QED BY <1>1, <1>2

\* Numbers less than a size apart have different remainders.
LEMMA ModApart == ASSUME NEW n \in Nat \ {0}, NEW p \in Nat, NEW q \in Nat, p < q, q < p + n
                  PROVE  p % n # q % n
<1> SUFFICES ASSUME p % n = q % n PROVE FALSE
  OBVIOUS
<1>1. PICK k \in Nat : p = n * k + (p % n)
  BY Quotient
<1>2. PICK l \in Nat : q = n * l + (q % n)
  BY Quotient
<1>3. p % n \in 0 .. n - 1 /\ q % n \in 0 .. n - 1
  BY ModRange
<1>4. k < l
  <2> SUFFICES ASSUME l <= k PROVE FALSE
    OBVIOUS
  <2>1. PICK d \in Nat : k = l + d
    BY k - l \in Nat, k = l + (k - l)
  <2>2. n * k = n * l + n * d /\ n * d \in Nat
    BY <2>1
  <2> QED BY <1>1, <1>2, <1>3, <2>2
<1>5. PICK d \in Nat : l = k + 1 + d
  BY <1>4, l - k - 1 \in Nat, l = k + 1 + (l - k - 1)
<1>6. n * l = n * k + n + n * d /\ n * d \in Nat
  BY <1>5
<1> QED BY <1>1, <1>2, <1>3, <1>6

\* To count on from a remainder is to count on from the number.
LEMMA ModOn == ASSUME NEW n \in Nat \ {0}, NEW p \in Nat, NEW j \in Nat
               PROVE  ((p % n) + j) % n = (p + j) % n
<1>1. PICK k \in Nat : p = n * k + (p % n)
  BY Quotient
<1>2. PICK x : x = (p % n) + j
  OBVIOUS
<1>3. x \in Nat /\ p + j = n * k + x /\ p + j \in Nat
  <2>1. PICK r \in Nat : r = p % n
    BY ModRange
  <2>2. PICK y \in Nat : y = n * k
    OBVIOUS
  <2>3. p = y + r /\ x = r + j
    BY <1>1, <1>2, <2>1, <2>2
  <2>4. x \in Nat /\ p + j = y + x /\ p + j \in Nat
    BY ONLY <2>3, y \in Nat, r \in Nat, j \in Nat
  <2> QED BY <2>2, <2>4
<1>4. PICK l \in Nat : x = n * l + (x % n)
  BY <1>3, Quotient
<1>5. x % n \in 0 .. n - 1 /\ (p + j) % n \in 0 .. n - 1
  BY <1>3, ModRange
<1>6. p + j = n * (k + l) + (x % n)
  <2>1. n * (k + l) = n * k + n * l /\ n * k \in Nat /\ n * l \in Nat
    OBVIOUS
  <2> QED BY <1>3, <1>4, <1>5, <2>1
<1>7. PICK i \in Nat : p + j = n * i + ((p + j) % n)
  BY <1>3, Quotient
<1>8. k + l \in Nat
  OBVIOUS
<1>9. n * (k + l) + (x % n) = n * i + ((p + j) % n)
  BY <1>6, <1>7
<1>10. x % n = (p + j) % n
  BY ONLY <1>5, <1>7, <1>8, <1>9, OneRemainder, n \in Nat \ {0}
<1> QED BY <1>2, <1>10

\* The ring positions the game thread and ProcessCmds move to are positions.
LEMMA AdvanceInRing == ASSUME NEW p \in Slots PROVE Advance(p) \in Slots
<1>1. p + 1 \in Nat
  BY RingAssumption DEF Slots
<1> QED BY <1>1, RingAssumption, ModRange DEF Slots, Advance

\* The parts of a message queue.
LEMMA QueueParts == ASSUME NEW q \in Queues
                    PROVE  q.first \in Cells /\ q.valid \in Counts /\ q.msg \in [Cells -> Windows]
  BY DEF Queues

\* The elements of a sequence over a set are members of it.
LEMMA SeqElements == ASSUME NEW S, NEW s \in Seq(S), NEW i \in DOMAIN s
                     PROVE  s[i] \in S
  OBVIOUS

\* The initial state has the types of the specification.
LEMMA InitTypeOK == Init => TypeOK
<1> SUFFICES ASSUME Init PROVE TypeOK
  OBVIOUS
<1>1. 0 \in Slots /\ 0 \in Cells 
  BY RingAssumption DEF Slots, Cells
<1>2. gThreadCmdBuffer \in [Slots -> Commands]
  BY RingAssumption DEF Init, Commands, Ops
<1>3. gThreadCmdProcQueue \in Queues
  <2>1. [from |-> 0, to |-> 0] \in Windows /\ 0 \in Counts
    BY <1>1, RingAssumption DEF Windows, Counts
  <2> QED BY <1>1, <2>1 DEF Init, Queues
<1>4. sending \in Sends
  BY <1>1 DEF Init, Sends
<1>5. 0 \in 0 .. MaxCmds /\ 0 \in 0 .. MaxStops /\ 0 \in 0 .. DrainCmds
  BY RingAssumption
<1> QED BY <1>1, <1>2, <1>3, <1>4, <1>5 DEF Init, TypeOK

\* Every step of either thread keeps every variable in its type: the positions
\* in the ring, validCount within the queue, the windows made of positions.
LEMMA NextTypeOK == TypeOK /\ [Next]_vars => TypeOK'
<1> SUFFICES ASSUME TypeOK, [Next]_vars PROVE TypeOK'
  OBVIOUS
<1>1. ASSUME NEW op \in {"stop", "run"}, QueueCmd(op) PROVE TypeOK'
  <2>1. gThreadCmdWritePos' \in Slots
    BY <1>1, AdvanceInRing DEF QueueCmd, TypeOK
  <2>2. issued + 1 \in Ids /\ issued + 1 \in 0 .. MaxCmds
    BY <1>1, RingAssumption DEF QueueCmd, TypeOK, Ids
  <2>3. gThreadCmdBuffer' \in [Slots -> Commands]
    <3>1. [op |-> op, id |-> issued + 1] \in Commands
      BY <2>2 DEF Commands, Ops
    <3> QED BY <1>1, <3>1 DEF QueueCmd, TypeOK
  <2>4. stops' \in 0 .. MaxStops /\ burst' \in 0 .. DrainCmds
    BY <1>1, RingAssumption DEF QueueCmd, TypeOK
  <2> QED BY <1>1, <2>1, <2>2, <2>3, <2>4 DEF QueueCmd, TypeOK, walker
<1>2. CASE ScheduleRefused
  BY <1>2 DEF ScheduleRefused, TypeOK, walker
<1>3. CASE ScheduleBegin
  <2>1. sending' \in Sends
    <3>1. gThreadCmdProcQueue.first \in Cells /\ gThreadCmdProcQueue.valid \in Counts
      BY QueueParts DEF TypeOK
    <3>2. gThreadCmdProcQueue.valid \in Cells
      BY <1>3, <3>1, RingAssumption DEF ScheduleBegin, HasRoom, Cells, Counts
    <3> QED BY <1>3, <3>1, <3>2 DEF ScheduleBegin, Sends
  <2> QED BY <1>3, <2>1 DEF ScheduleBegin, TypeOK, game, walker
<1>4. CASE ScheduleEnd
  <2>1. sending.first \in Cells /\ sending.valid \in Cells
    BY <1>4 DEF ScheduleEnd, Idle, TypeOK, Sends
  <2>2. (sending.first + sending.valid) % ProcQueueSize \in Cells
    <3>1. sending.first + sending.valid \in Nat
      BY <2>1, RingAssumption DEF Cells
    <3> QED BY <3>1, RingAssumption, ModRange DEF Cells
  <2>3. sending.valid + 1 \in Counts
    BY <2>1, RingAssumption DEF Cells, Counts
  <2>4. [from |-> gThreadCmdReadPos, to |-> gThreadCmdWritePos] \in Windows
    BY DEF TypeOK, Windows
  <2>5. gThreadCmdProcQueue' \in Queues
    BY <1>4, <2>2, <2>3, <2>4 DEF ScheduleEnd, TypeOK, Queues
  <2>6. sending' \in Sends
    BY <1>4, RingAssumption DEF ScheduleEnd, Sends, Cells
  <2> QED BY <1>4, <2>5, <2>6 DEF ScheduleEnd, TypeOK, walker
<1>5. CASE ResetCmdQueue
  BY <1>5 DEF ResetCmdQueue, TypeOK, walker
<1>6. CASE BufferStart
  <2>1. burst' \in 0 .. DrainCmds
    BY <1>6, RingAssumption DEF BufferStart, TypeOK
  <2> QED BY <1>6, <2>1 DEF BufferStart, TypeOK, game, walker
<1>7. CASE BufferDone
  BY <1>7 DEF BufferDone, TypeOK, game, walker
<1>8. CASE ReceiveWindow
  <2>1. /\ gThreadCmdProcQueue.first \in Cells
        /\ gThreadCmdProcQueue.valid \in Counts
        /\ OldestWindow(gThreadCmdProcQueue) \in Windows
    BY QueueParts DEF TypeOK, OldestWindow
  <2>2. (gThreadCmdProcQueue.first + 1) % ProcQueueSize \in Cells
    BY <2>1, RingAssumption, ModRange DEF Cells
  <2>3. gThreadCmdProcQueue.valid - 1 \in Counts
    BY <1>8, <2>1, RingAssumption DEF ReceiveWindow, Counts
  <2>4. gThreadCmdProcQueue' \in Queues
    BY <1>8, <2>2, <2>3 DEF ReceiveWindow, TypeOK, Queues
  <2>5. gCurCmdReadPos' \in Slots /\ walkEnd' \in Slots
    BY <1>8, <2>1 DEF ReceiveWindow, WalkStart, WalkEnd, TypeOK, Windows
  <2> QED BY <1>8, <2>4, <2>5 DEF ReceiveWindow, TypeOK, game
<1>9. CASE WindowDone
  <2>1. stops' \in 0 .. MaxStops
    BY <1>9, RingAssumption DEF WindowDone, TypeOK
  <2> QED BY <1>9, <2>1 DEF WindowDone, TypeOK, game
<1>10. CASE StopWalk
  BY <1>10, AdvanceInRing DEF StopWalk, TypeOK, game
<1>11. CASE ExecuteCmd
  <2>1. gCurCmdReadPos' \in Slots
    BY <1>11, AdvanceInRing DEF ExecuteCmd, TypeOK
  <2>2. gThreadCmdBuffer' \in [Slots -> Commands]
    BY <1>11 DEF ExecuteCmd, Clear, TypeOK, Commands, Ops
  <2>3. executed' \in Seq(0 .. MaxCmds)
    <3>1. gThreadCmdBuffer[gCurCmdReadPos].id \in 0 .. MaxCmds
      BY DEF TypeOK, Commands
    <3>2. executed \in Seq(0 .. MaxCmds)
      BY DEF TypeOK
    <3>3. Append(executed, gThreadCmdBuffer[gCurCmdReadPos].id) \in Seq(0 .. MaxCmds)
      BY <3>1, <3>2
    <3>4. executed' \in {executed, Append(executed, gThreadCmdBuffer[gCurCmdReadPos].id)}
      BY <1>11 DEF ExecuteCmd
    <3> QED BY <3>2, <3>3, <3>4
  <2> QED BY <1>11, <2>1, <2>2, <2>3 DEF ExecuteCmd, TypeOK
<1>12. CASE UNCHANGED vars
  BY <1>12 DEF vars, game, walker, TypeOK
<1> QED BY <1>1, <1>2, <1>3, <1>4, <1>5, <1>6, <1>7, <1>8, <1>9, <1>10, <1>11, <1>12
        DEF Next, GameStep, AudioStep

\* Type correctness of the ring, its queue and the walk over it.
THEOREM TypeCorrect == Spec => []TypeOK
  BY InitTypeOK, NextTypeOK, PTL DEF Spec
-----------------------------------------------------------------------------
(***************************************************************************)
(* Why no command runs twice.  Ids are handed out once, a slot that still  *)
(* holds a live command holds one that has not run, and no two slots hold  *)
(* the same one: running a command clears the only slot it is in.          *)
(***************************************************************************)
Live(p) == gThreadCmdBuffer[p].op = "run"

IInv ==
  /\ TypeOK
  /\ \A p \in Slots : gThreadCmdBuffer[p].id <= issued
  /\ \A i \in DOMAIN executed : executed[i] <= issued
  /\ \A p, q \in Slots : p # q /\ Live(p) /\ Live(q)
                           => gThreadCmdBuffer[p].id # gThreadCmdBuffer[q].id
  /\ \A p \in Slots, i \in DOMAIN executed :
       Live(p) => executed[i] # gThreadCmdBuffer[p].id
  /\ NeverTwice

\* The ring starts without a live command.
LEMMA InitIInv == Init => IInv
  BY InitTypeOK, RingAssumption DEF Init, IInv, Live, NeverTwice, Slots

\* A step that neither fills a slot nor dispatches one keeps the invariant.
LEMMA QuietStep == ASSUME IInv, TypeOK', UNCHANGED <<gThreadCmdBuffer, executed, issued>>
                   PROVE  IInv'
  BY DEF IInv, Live, NeverTwice

\* The invariant is inductive: QueueCmd writes a fresh id, ExecuteCmd clears
\* the slot it dispatches, and nothing else touches the ring.
LEMMA NextIInv == IInv /\ [Next]_vars => IInv'
<1> SUFFICES ASSUME IInv, [Next]_vars PROVE IInv'
  OBVIOUS
<1>1. TypeOK /\ TypeOK'
  BY NextTypeOK DEF IInv
<1>2. ASSUME NEW op \in {"stop", "run"}, QueueCmd(op) PROVE IInv'
  <2> DEFINE w == gThreadCmdWritePos
  <2>1. w \in Slots /\ issued \in Nat /\ executed' = executed /\ issued' = issued + 1
    BY <1>1, <1>2 DEF TypeOK, QueueCmd
  <2>2. /\ gThreadCmdBuffer'[w] = [op |-> op, id |-> issued + 1]
        /\ \A p \in Slots \ {w} : gThreadCmdBuffer'[p] = gThreadCmdBuffer[p]
    BY <1>1, <1>2, <2>1 DEF TypeOK, QueueCmd
  <2>3. \A p \in Slots : gThreadCmdBuffer[p].id \in Nat
    BY <1>1 DEF TypeOK, Commands
  <2>4. \A i \in DOMAIN executed : executed[i] \in Nat
    <3>1. executed \in Seq(0 .. MaxCmds)
      BY <1>1 DEF TypeOK
    <3>2. \A i \in DOMAIN executed : executed[i] \in 0 .. MaxCmds
      BY <3>1, SeqElements
    <3> QED BY <3>2
  <2>5. \A p \in Slots : gThreadCmdBuffer'[p].id <= issued'
    BY <2>1, <2>2, <2>3 DEF IInv
  <2>6. \A i \in DOMAIN executed' : executed'[i] <= issued'
    BY <2>1, <2>4 DEF IInv
  <2>7. \A p, q \in Slots : p # q /\ Live(p)' /\ Live(q)'
                              => gThreadCmdBuffer'[p].id # gThreadCmdBuffer'[q].id
    BY <2>1, <2>2, <2>3 DEF IInv, Live
  <2>8. \A p \in Slots, i \in DOMAIN executed' :
          Live(p)' => executed'[i] # gThreadCmdBuffer'[p].id
    BY <2>1, <2>2, <2>4 DEF IInv, Live
  <2>9. NeverTwice'
    BY <2>1 DEF IInv, NeverTwice
  <2> QED BY <1>1, <2>5, <2>6, <2>7, <2>8, <2>9 DEF IInv
<1>3. CASE ExecuteCmd
  <2> DEFINE r == gCurCmdReadPos
             cmd == gThreadCmdBuffer[r]
  <2>1. r \in Slots /\ issued \in Nat /\ issued' = issued /\ executed \in Seq(0 .. MaxCmds)
    BY <1>1, <1>3, RingAssumption DEF TypeOK, ExecuteCmd
  <2>2. /\ gThreadCmdBuffer'[r].op = "noop" /\ gThreadCmdBuffer'[r].id = cmd.id
        /\ \A p \in Slots \ {r} : gThreadCmdBuffer'[p] = gThreadCmdBuffer[p]
    BY <1>1, <1>3, <2>1 DEF TypeOK, Commands, ExecuteCmd, Clear
  <2>3. \A p \in Slots : gThreadCmdBuffer'[p].id <= issued'
    BY <2>1, <2>2 DEF IInv
  <2>4. \A p, q \in Slots : p # q /\ Live(p)' /\ Live(q)'
                              => gThreadCmdBuffer'[p].id # gThreadCmdBuffer'[q].id
    BY <2>1, <2>2 DEF IInv, Live
  <2>5. CASE cmd.op = "run"
    <3>1. executed' = Append(executed, cmd.id) /\ cmd.id \in 0 .. MaxCmds
      BY <1>1, <1>3, <2>1, <2>5 DEF ExecuteCmd, TypeOK, Commands
    <3>2. /\ DOMAIN executed' = DOMAIN executed \union {Len(executed) + 1}
          /\ Len(executed) + 1 \notin DOMAIN executed
          /\ executed'[Len(executed) + 1] = cmd.id
          /\ \A i \in DOMAIN executed : executed'[i] = executed[i]
      BY <2>1, <3>1
    <3>3. \A i \in DOMAIN executed : executed[i] # cmd.id
      BY <2>1, <2>5 DEF IInv, Live
    <3>4. \A i \in DOMAIN executed' : executed'[i] <= issued'
      BY <2>1, <3>2 DEF IInv
    <3>5. \A p \in Slots, i \in DOMAIN executed' :
            Live(p)' => executed'[i] # gThreadCmdBuffer'[p].id
      <4>1. \A p \in Slots : Live(p)' => p # r /\ Live(p) /\ gThreadCmdBuffer[p].id # cmd.id
        BY <2>1, <2>2, <2>5 DEF IInv, Live
      <4> QED BY <2>2, <3>2, <4>1 DEF IInv
    <3>6. NeverTwice'
      BY <3>2, <3>3 DEF IInv, NeverTwice
    <3> QED BY <1>1, <2>3, <2>4, <3>4, <3>5, <3>6 DEF IInv
  <2>6. CASE cmd.op # "run"
    <3>1. executed' = executed
      BY <1>3, <2>6 DEF ExecuteCmd
    <3>2. \A p \in Slots : Live(p)' => Live(p) /\ gThreadCmdBuffer'[p] = gThreadCmdBuffer[p]
      BY <2>1, <2>2 DEF Live
    <3> QED BY <1>1, <2>1, <2>3, <2>4, <3>1, <3>2 DEF IInv, NeverTwice
  <2> QED BY <2>5, <2>6
<1>4. CASE ScheduleRefused \/ ScheduleBegin \/ ScheduleEnd \/ ResetCmdQueue
  BY <1>1, <1>4, QuietStep
     DEF ScheduleRefused, ScheduleBegin, ScheduleEnd, ResetCmdQueue, game
<1>5. CASE BufferStart \/ BufferDone \/ ReceiveWindow \/ WindowDone \/ StopWalk
  BY <1>1, <1>5, QuietStep
     DEF BufferStart, BufferDone, ReceiveWindow, WindowDone, StopWalk, game
<1>6. CASE UNCHANGED vars
  BY <1>1, <1>6, QuietStep DEF vars, game
<1> QED BY <1>2, <1>3, <1>4, <1>5, <1>6 DEF Next, GameStep, AudioStep

\* No command is executed twice, whatever the two threads' interleaving.
THEOREM NoCommandTwice == Spec => []NeverTwice
<1>1. IInv => NeverTwice
  BY DEF IInv
<1> QED BY InitIInv, NextIInv, <1>1, PTL DEF Spec
-----------------------------------------------------------------------------
(***************************************************************************)
(* Why the order holds when no vblank falls into osSendMesg and the ring   *)
(* has PacedRing slots.  Behind the wrapping u8 positions stand numbers    *)
(* that only grow: the game thread fills position issued and has announced *)
(* those before R; the walk is at C and ends at E; message m of the queue  *)
(* names the window [a[m], b[m]), and the next to be received is H.        *)
(* Position p is slot p % RingSize and holds command p + 1.  K[p] counts   *)
(* the STOPs before p since the walk last caught up.                       *)
(***************************************************************************)
Paced == ~PreemptSend /\ RingSize >= PacedRing

Walking == walkEnd # NoWalk

\* Message m waits in the queue.
Waits(H, m) == H <= m /\ m < H + gThreadCmdProcQueue.valid

Stands(R, C, E, H) ==
  /\ gThreadCmdWritePos = issued % RingSize
  /\ gThreadCmdReadPos = R % RingSize
  /\ gCurCmdReadPos = C % RingSize
  /\ gThreadCmdProcQueue.first = H % ProcQueueSize
  /\ C <= R /\ R <= issued
  /\ Walking => walkEnd = E % RingSize /\ C <= E /\ E <= R

Filled == \A p \in Nat : p < issued /\ issued <= p + RingSize
                           => gThreadCmdBuffer[p % RingSize].id = p + 1

Barred(C, K) ==
  /\ \A p, q \in Nat : p <= q /\ q <= issued => K[p] <= K[q]
  /\ K[issued] <= stops
  /\ \A p \in Nat : C <= p /\ p < issued /\ issued <= p + RingSize
                      => (gThreadCmdBuffer[p % RingSize].op = "stop" => K[p] + 1 <= K[p + 1])

Announced(R, C, E, H, a, b) ==
  /\ \A m \in Nat : Waits(H, m) =>
       /\ gThreadCmdProcQueue.msg[m % ProcQueueSize] =
            [from |-> a[m] % RingSize, to |-> b[m] % RingSize]
       /\ C <= a[m] /\ a[m] <= b[m] /\ b[m] <= R
       /\ Walking => E <= a[m]
  /\ \A m, k \in Nat : Waits(H, m) /\ Waits(H, k) /\ m < k => b[m] <= a[k]

\* An announced command is in front of the walk, in a message, or behind a STOP.
Held(E, H, a, b, d) ==
  \/ Walking /\ d <= E
  \/ \E m \in Nat : Waits(H, m) /\ a[m] < d /\ d <= b[m]
  \/ ~Walking /\ gThreadCmdQueueFinished /\ \A m \in Nat : Waits(H, m) => d <= a[m]

Owed(R, C, E, H, a, b) ==
  /\ \A d \in pending : R < d /\ d <= issued
  /\ \A d \in due : C < d /\ d <= R /\ Held(E, H, a, b, d)
  /\ \A p \in Nat : p + 1 \in due \union pending => gThreadCmdBuffer[p % RingSize].op # "stop"

Done(C) ==
  /\ \A i \in DOMAIN executed : executed[i] <= C
  /\ \A i, j \in DOMAIN executed : i < j => executed[i] < executed[j]

\* Commands the walk may be behind after k STOPs, but for those of two drains.
Behind(k) == (DrainCmds - 1) * k

Room == DrainCmds + IF awake THEN DrainCmds ELSE burst

\* The game thread is never a ring ahead of what is still to be read.
Near(R, C, H, a, K) ==
  /\ ~awake => ~Walking
  /\ awake => Idle
  /\ ~Idle => /\ sending.first = gThreadCmdProcQueue.first
              /\ sending.valid = gThreadCmdProcQueue.valid
  /\ issued <= R + DrainCmds + burst
  /\ ~awake /\ gThreadCmdProcQueue.valid # 0 => issued <= R + burst
  /\ awake /\ (gThreadCmdProcQueue.valid # 0 \/ Walking) => burst = 0
  /\ gThreadCmdProcQueue.valid # 0 => issued <= a[H] + Room
  /\ Walking \/ gThreadCmdQueueFinished => issued <= C + Room + Behind(K[C])
  /\ awake /\ gThreadCmdQueueFinished /\ ~Walking /\ gThreadCmdProcQueue.valid = 0
       => issued <= C + DrainCmds + burst + Behind(K[C])

Trace(R, C, E, H, a, b, K) ==
  /\ Stands(R, C, E, H)
  /\ Filled
  /\ Barred(C, K)
  /\ Announced(R, C, E, H, a, b)
  /\ Owed(R, C, E, H, a, b)
  /\ Done(C)
  /\ Near(R, C, H, a, K)

Traced == \E R, C, E, H \in Nat : \E a, b, K \in [Nat -> Nat] : Trace(R, C, E, H, a, b, K)

\* Each STOP adds the commands of a drain but one.
LEMMA BehindGrows ==
  ASSUME NEW k \in Nat, NEW l \in Nat, k <= l
  PROVE  /\ Behind(k) \in Nat
         /\ Behind(k) <= Behind(l)
         /\ Behind(k + 1) = Behind(k) + DrainCmds - 1
<1>1. PICK c \in Nat : c = DrainCmds - 1
  BY RingAssumption
<1>2. PICK d \in Nat : l = k + d
  BY l - k \in Nat, l = k + (l - k)
<1>3. c * k \in Nat /\ c * d \in Nat /\ c * l = c * k + c * d /\ c * (k + 1) = c * k + c
  BY <1>1, <1>2
<1> QED BY <1>1, <1>3, RingAssumption DEF Behind

\* The ring holds the commands of two drains and what STOPs hold back.
LEMMA RingHolds == ASSUME Paced, NEW k \in Nat, k <= MaxStops
                   PROVE  Behind(k) \in Nat /\ 2 * DrainCmds + Behind(k) < RingSize
<1>1. Behind(k) \in Nat /\ Behind(MaxStops) \in Nat /\ Behind(k) <= Behind(MaxStops)
  BY BehindGrows, RingAssumption
<1>2. PacedRing = 2 * DrainCmds + Behind(MaxStops) + 1
  BY DEF PacedRing, Behind
<1> QED BY <1>1, <1>2, RingAssumption DEF Paced

\* The positions of a trace are numbers.
LEMMA Numbers == ASSUME TypeOK
                 PROVE  /\ issued \in Nat /\ burst \in 0 .. DrainCmds /\ stops \in 0 .. MaxStops
                        /\ gThreadCmdProcQueue.valid \in 0 .. ProcQueueSize
                        /\ RingSize \in Nat \ {0} /\ ProcQueueSize \in Nat \ {0}
                        /\ DrainCmds \in Nat \ {0} /\ MaxStops \in Nat
  BY RingAssumption DEF TypeOK, Queues, Counts

\* The initial state: nothing issued, no STOP, no message.
LEMMA InitTraced == ASSUME Init PROVE Traced
<1> DEFINE z == [p \in Nat |-> 0]
<1>1. z \in [Nat -> Nat] /\ \A p \in Nat : z[p] = 0
  OBVIOUS
<1> HIDE DEF z
<1>2. 0 % RingSize = 0 /\ 0 % ProcQueueSize = 0
  BY RingAssumption
<1>3. ~Walking /\ Idle /\ gThreadCmdProcQueue.valid = 0
  BY DEF Init, Walking, Idle
<1>4. \A m \in Nat : ~Waits(0, m)
  BY <1>3 DEF Waits
<1>5. Stands(0, 0, 0, 0)
  BY <1>2, <1>3 DEF Init, Stands
<1>6. Filled /\ Barred(0, z) /\ Done(0)
  BY <1>1 DEF Init, Filled, Barred, Done
<1>7. Announced(0, 0, 0, 0, z, z) /\ Owed(0, 0, 0, 0, z, z)
  BY <1>4 DEF Announced, Owed, Init
<1>8. Near(0, 0, 0, z, z)
  BY <1>1, <1>3, RingAssumption DEF Near, Init
<1>9. Trace(0, 0, 0, 0, z, z, z)
  BY <1>5, <1>6, <1>7, <1>8 DEF Trace
<1> QED BY <1>1, <1>9 DEF Traced

\* The STOPs the walk has met are among those counted.
LEMMA StopsMet ==
  ASSUME TypeOK, Paced, NEW C \in Nat, NEW K \in [Nat -> Nat], Barred(C, K), C <= issued
  PROVE  /\ K[C] \in Nat /\ K[C] <= MaxStops
         /\ Behind(K[C]) \in Nat /\ 2 * DrainCmds + Behind(K[C]) < RingSize
<1>1. K[C] <= K[issued] /\ K[issued] <= stops /\ K[C] \in Nat /\ K[issued] \in Nat
  BY Numbers DEF Barred
<1>2. K[C] <= MaxStops
  BY <1>1, Numbers
<1>3. Behind(K[C]) \in Nat /\ 2 * DrainCmds + Behind(K[C]) < RingSize
  BY ONLY <1>1, <1>2, Paced, RingHolds
<1> QED BY <1>1, <1>2, <1>3

\* The next command is not written over one that is still to run.
LEMMA NoOverrun ==
  ASSUME TypeOK, Paced, NEW R \in Nat, NEW C \in Nat, NEW E \in Nat, NEW H \in Nat,
         NEW a \in [Nat -> Nat], NEW b \in [Nat -> Nat], NEW K \in [Nat -> Nat],
         Trace(R, C, E, H, a, b, K), ~awake, burst < DrainCmds,
         NEW p \in Nat, p + 1 \in due \union pending
  PROVE  p < issued /\ issued < p + RingSize
<1>1. /\ Stands(R, C, E, H) /\ Barred(C, K) /\ Announced(R, C, E, H, a, b)
      /\ Owed(R, C, E, H, a, b) /\ Near(R, C, H, a, K)
  BY DEF Trace
<1>2. C <= R /\ R <= issued
  BY <1>1 DEF Stands
<1>3. C <= issued
  BY <1>2, Numbers
<1>4. /\ K[C] \in Nat /\ K[C] <= MaxStops
      /\ Behind(K[C]) \in Nat /\ 2 * DrainCmds + Behind(K[C]) < RingSize
  BY ONLY <1>1, <1>3, TypeOK, Paced, C \in Nat, K \in [Nat -> Nat], StopsMet
<1>5. ~Walking /\ Room = DrainCmds + burst
  BY <1>1 DEF Near, Room
<1>6. CASE p + 1 \in pending
  <2>1. R < p + 1 /\ p + 1 <= issued /\ issued <= R + DrainCmds + burst
    BY <1>1, <1>6 DEF Owed, Near
  <2> QED BY <2>1, <1>4, Numbers
<1>7. CASE p + 1 \in due
  <2>1. C < p + 1 /\ p + 1 <= R /\ Held(E, H, a, b, p + 1)
    BY <1>1, <1>7 DEF Owed
  <2>2. CASE gThreadCmdQueueFinished
    <3>1. issued <= C + Room + Behind(K[C])
      BY <1>1, <2>2 DEF Near
    <3> QED BY <3>1, <2>1, <1>2, <1>4, <1>5, Numbers
  <2>3. CASE ~gThreadCmdQueueFinished
    <3>1. PICK m \in Nat : Waits(H, m) /\ a[m] < p + 1 /\ p + 1 <= b[m]
      BY <2>1, <2>3, <1>5 DEF Held
    <3>2. Waits(H, H) /\ gThreadCmdProcQueue.valid # 0
      BY <3>1, Numbers DEF Waits
    <3>3. a[H] <= a[m]
      <4>1. CASE m = H
        BY <4>1
      <4>2. CASE m # H
        <5>1. H < m
          BY <3>1, <4>2 DEF Waits
        <5>2. b[H] <= a[m] /\ a[H] <= b[H]
          BY <1>1, <3>1, <3>2, <5>1 DEF Announced
        <5> QED BY <5>2
      <4> QED BY <4>1, <4>2
    <3>4. issued <= a[H] + Room
      BY <1>1, <3>2 DEF Near
    <3> QED BY <3>1, <3>3, <3>4, <2>1, <1>2, <1>4, <1>5, Numbers
  <2> QED BY <2>2, <2>3
<1> QED BY <1>6, <1>7

\* A new command: position issued is filled, and the ring has room for it.
LEMMA QueueCmdTraced ==
  ASSUME TypeOK, Paced, NEW R \in Nat, NEW C \in Nat, NEW E \in Nat, NEW H \in Nat,
         NEW a \in [Nat -> Nat], NEW b \in [Nat -> Nat], NEW K \in [Nat -> Nat],
         Trace(R, C, E, H, a, b, K), NEW op \in {"stop", "run"}, QueueCmd(op)
  PROVE  Traced'
<1>0. issued \in Nat /\ issued + 1 \in Nat /\ RingSize \in Nat \ {0}
  BY Numbers
<1>1. /\ Stands(R, C, E, H) /\ Filled /\ Barred(C, K) /\ Announced(R, C, E, H, a, b)
      /\ Owed(R, C, E, H, a, b) /\ Done(C) /\ Near(R, C, H, a, K)
  BY DEF Trace
<1>2. /\ ~awake /\ Idle /\ burst < DrainCmds /\ issued' = issued + 1 /\ burst' = burst + 1
      /\ stops' = IF op = "stop" THEN stops + 1 ELSE stops
      /\ gThreadCmdBuffer' =
           [gThreadCmdBuffer EXCEPT ![gThreadCmdWritePos] = [op |-> op, id |-> issued + 1]]
      /\ UNCHANGED <<gThreadCmdReadPos, gThreadCmdProcQueue, sending, gCurCmdReadPos,
                     gThreadCmdQueueFinished, walkEnd, awake, due, executed>>
  BY DEF QueueCmd, walker
<1>3. /\ C <= R /\ R <= issued /\ issued <= R + DrainCmds + burst
      /\ gThreadCmdWritePos = issued % RingSize /\ gThreadCmdReadPos = R % RingSize
  BY <1>1 DEF Stands, Near
<1>4. C <= issued
  BY <1>3, Numbers
<1>5. /\ K[C] \in Nat /\ K[C] <= MaxStops
      /\ Behind(K[C]) \in Nat /\ 2 * DrainCmds + Behind(K[C]) < RingSize
  BY ONLY <1>1, <1>4, TypeOK, Paced, C \in Nat, K \in [Nat -> Nat], StopsMet
<1>6. Advance(gThreadCmdWritePos) = (issued + 1) % RingSize
  BY <1>3, Numbers, ModOn DEF Advance
<1>7. (issued + 1) % RingSize # R % RingSize
  <2>1. R < issued + 1 /\ issued + 1 < R + RingSize
    BY <1>2, <1>3, <1>5, Numbers
  <2> QED BY ONLY <1>0, <2>1, R \in Nat, ModApart
<1>8. /\ gThreadCmdWritePos' = (issued + 1) % RingSize
      /\ pending' = IF op = "stop" THEN pending ELSE pending \union {issued + 1}
  BY <1>3, <1>6, <1>7 DEF QueueCmd
<1>9. /\ issued % RingSize \in Slots
      /\ gThreadCmdBuffer'[issued % RingSize] = [op |-> op, id |-> issued + 1]
      /\ \A s \in Slots : s # issued % RingSize => gThreadCmdBuffer'[s] = gThreadCmdBuffer[s]
  <2>1. gThreadCmdWritePos \in Slots /\ gThreadCmdBuffer \in [Slots -> Commands]
    BY DEF TypeOK
  <2> QED BY <1>2, <1>3, <2>1
<1>10. ASSUME NEW p \in Nat, p < issued, issued < p + RingSize
       PROVE  gThreadCmdBuffer'[p % RingSize] = gThreadCmdBuffer[p % RingSize]
  <2>1. p % RingSize # issued % RingSize
    BY <1>10, Numbers, ModApart
  <2>2. p % RingSize \in Slots
    BY Numbers, ModRange DEF Slots
  <2> QED BY <1>9, <2>1, <2>2
<1>11. PICK x \in Nat : x = K[issued] + IF op = "stop" THEN 1 ELSE 0
  BY Numbers
<1>12. PICK L \in [Nat -> Nat] : L = [K EXCEPT ![issued + 1] = x]
  BY <1>11
<1>13. L[issued + 1] = x /\ \A p \in Nat : p <= issued => L[p] = K[p]
  BY <1>12, Numbers
<1>14. Stands(R, C, E, H)'
  BY <1>1, <1>2, <1>8, Numbers DEF Stands, Walking
<1>15. Filled'
  <2> SUFFICES ASSUME NEW p \in Nat, p < issued + 1, issued + 1 <= p + RingSize
               PROVE  gThreadCmdBuffer'[p % RingSize].id = p + 1
    BY <1>2 DEF Filled
  <2>1. CASE p = issued
    BY <1>9, <2>1
  <2>2. CASE p # issued
    <3>1. p < issued /\ issued < p + RingSize /\ issued <= p + RingSize
      BY <1>0, <2>2
    <3>2. gThreadCmdBuffer[p % RingSize].id = p + 1
      BY <1>1, <3>1 DEF Filled
    <3> QED BY <1>10, <3>1, <3>2
  <2> QED BY <2>1, <2>2
<1>16. Barred(C, L)'
  <2>1. ASSUME NEW p \in Nat, NEW q \in Nat, p <= q, q <= issued + 1
        PROVE  L[p] <= L[q]
    <3>1. CASE q <= issued
      <4>0. p <= issued
        BY <1>0, <2>1, <3>1
      <4>1. p <= issued /\ K[p] <= K[q]
        BY <1>1, <2>1, <3>1, <4>0 DEF Barred
      <4> QED BY <1>13, <3>1, <4>1
    <3>2. CASE q = issued + 1
      <4>1. CASE p = issued + 1
        BY <3>2, <4>1
      <4>2. CASE p # issued + 1
        <5>1. p <= issued
          BY <2>1, <3>2, <4>2, Numbers
        <5>2. K[p] <= K[issued]
          BY <1>1, <5>1, Numbers DEF Barred
        <5> QED BY <1>11, <1>13, <3>2, <5>1, <5>2, Numbers
      <4> QED BY <4>1, <4>2
    <3> QED BY <2>1, <3>1, <3>2, Numbers
  <2>2. L[issued + 1] <= stops'
    <3>1. K[issued] <= stops
      BY <1>1 DEF Barred
    <3> QED BY <1>2, <1>11, <1>13, <3>1, Numbers
  <2>3. ASSUME NEW p \in Nat, C <= p, p < issued + 1, issued + 1 <= p + RingSize,
               gThreadCmdBuffer'[p % RingSize].op = "stop"
        PROVE  L[p] + 1 <= L[p + 1]
    <3>1. CASE p = issued
      <4>1. op = "stop"
        BY <1>9, <2>3, <3>1
      <4> QED BY <1>11, <1>13, <3>1, <4>1, Numbers
    <3>2. CASE p # issued
      <4>1. p < issued /\ issued < p + RingSize /\ issued <= p + RingSize
        <5>1. p < issued + 1 /\ issued + 1 <= p + RingSize
          BY <2>3
        <5> QED BY ONLY <1>0, <3>2, <5>1, p \in Nat
      <4>2. gThreadCmdBuffer[p % RingSize].op = "stop"
        BY <1>10, <2>3, <4>1
      <4>3. K[p] + 1 <= K[p + 1]
        BY <1>1, <2>3, <4>1, <4>2 DEF Barred
      <4>4. L[p] = K[p] /\ L[p + 1] = K[p + 1]
        BY <1>13, <4>1, Numbers
      <4> QED BY <4>3, <4>4
    <3> QED BY <3>1, <3>2
  <2> QED BY <1>2, <2>1, <2>2, <2>3 DEF Barred
<1>17. Announced(R, C, E, H, a, b)'
  BY <1>1, <1>2 DEF Announced, Waits, Walking
<1>18. Owed(R, C, E, H, a, b)'
  <2>1. \A d \in pending' : R < d /\ d <= issued'
    <3>1. \A d \in pending : d \in Nat /\ R < d /\ d <= issued
      BY <1>1 DEF Owed, TypeOK, Ids
    <3> QED BY <1>2, <1>3, <1>8, <3>1, Numbers
  <2>2. \A d \in due' : C < d /\ d <= R /\ Held(E, H, a, b, d)'
    BY <1>1, <1>2 DEF Owed, Held, Waits, Walking
  <2>3. ASSUME NEW p \in Nat, p + 1 \in due' \union pending'
        PROVE  gThreadCmdBuffer'[p % RingSize].op # "stop"
    <3>1. CASE p + 1 \in due \union pending
      <4>1. p < issued /\ issued < p + RingSize
        BY ONLY <1>2, <3>1, TypeOK, Paced, R \in Nat, C \in Nat, E \in Nat, H \in Nat, p \in Nat,
                a \in [Nat -> Nat], b \in [Nat -> Nat], K \in [Nat -> Nat],
                Trace(R, C, E, H, a, b, K), NoOverrun
      <4>2. gThreadCmdBuffer[p % RingSize].op # "stop"
        BY <1>1, <3>1 DEF Owed
      <4> QED BY <1>10, <4>1, <4>2
    <3>2. CASE p + 1 \notin due \union pending
      <4>1. p + 1 = issued + 1 /\ op # "stop"
        BY <1>2, <1>8, <2>3, <3>2
      <4>2. p = issued
        BY <4>1, Numbers
      <4> QED BY <1>9, <4>1, <4>2
    <3> QED BY <3>1, <3>2
  <2> QED BY <2>1, <2>2, <2>3 DEF Owed
<1>19. Done(C)'
  BY <1>1, <1>2 DEF Done
<1>20. Near(R, C, H, a, L)'
  <2>1. L[C] = K[C]
    BY <1>4, <1>13
  <2>2. ~Walking' /\ Idle' /\ Room' = Room + 1 /\ Room = DrainCmds + burst
    BY <1>1, <1>2, Numbers DEF Near, Room, Walking, Idle
  <2>3. issued' <= R + DrainCmds + burst'
    BY <1>2, <1>3, Numbers
  <2>4. gThreadCmdProcQueue.valid # 0 => issued' <= R + burst'
    BY <1>1, <1>2, Numbers DEF Near
  <2>5. gThreadCmdProcQueue.valid # 0 => issued' <= a[H] + Room'
    BY <1>1, <1>2, <2>2, Numbers DEF Near
  <2>6. gThreadCmdQueueFinished => issued' <= C + Room' + Behind(L[C])
    BY <1>1, <1>2, <1>5, <2>1, <2>2, Numbers DEF Near
  <2> QED BY <1>2, <2>2, <2>3, <2>4, <2>5, <2>6 DEF Near
<1>21. Trace(R, C, E, H, a, b, L)'
  BY <1>14, <1>15, <1>16, <1>17, <1>18, <1>19, <1>20 DEF Trace
<1> QED BY <1>12, <1>21 DEF Traced

\* What is not announced is forgotten: refused by the queue, or thrown away.
Forgets ==
  /\ ~awake /\ Idle
  /\ gThreadCmdReadPos' = gThreadCmdWritePos
  /\ pending' = {}
  /\ UNCHANGED <<gThreadCmdBuffer, gThreadCmdWritePos, gThreadCmdProcQueue, sending,
                 gCurCmdReadPos, gThreadCmdQueueFinished, walkEnd, awake, due, executed,
                 issued, burst, stops>>

LEMMA ForgetsTraced ==
  ASSUME TypeOK, Paced, NEW R \in Nat, NEW C \in Nat, NEW E \in Nat, NEW H \in Nat,
         NEW a \in [Nat -> Nat], NEW b \in [Nat -> Nat], NEW K \in [Nat -> Nat],
         Trace(R, C, E, H, a, b, K), Forgets
  PROVE  Traced'
<1>1. /\ Stands(R, C, E, H) /\ Filled /\ Barred(C, K) /\ Announced(R, C, E, H, a, b)
      /\ Owed(R, C, E, H, a, b) /\ Done(C) /\ Near(R, C, H, a, K)
  BY DEF Trace
<1>2. issued \in Nat /\ burst \in Nat /\ DrainCmds \in Nat
  BY Numbers
<1>3. C <= R /\ R <= issued /\ ~Walking /\ ~Walking'
  BY <1>1 DEF Stands, Near, Forgets, Walking
<1>4. Stands(issued, C, E, H)'
  BY <1>1, <1>2, <1>3 DEF Stands, Forgets
<1>5. Filled' /\ Barred(C, K)' /\ Done(C)'
  BY <1>1 DEF Filled, Barred, Done, Forgets
<1>6. Announced(issued, C, E, H, a, b)'
  <2>1. ASSUME NEW m \in Nat, Waits(H, m)
        PROVE  /\ gThreadCmdProcQueue.msg[m % ProcQueueSize] =
                    [from |-> a[m] % RingSize, to |-> b[m] % RingSize]
               /\ C <= a[m] /\ a[m] <= b[m] /\ b[m] <= issued
    <3>1. /\ gThreadCmdProcQueue.msg[m % ProcQueueSize] =
               [from |-> a[m] % RingSize, to |-> b[m] % RingSize]
          /\ C <= a[m] /\ a[m] <= b[m] /\ b[m] <= R
      BY <1>1, <2>1 DEF Announced
    <3> QED BY <1>2, <1>3, <3>1
  <2>2. \A m, k \in Nat : Waits(H, m) /\ Waits(H, k) /\ m < k => b[m] <= a[k]
    BY <1>1 DEF Announced
  <2>3. \A m : Waits(H, m)' <=> Waits(H, m)
    BY DEF Waits, Forgets
  <2>4. gThreadCmdProcQueue' = gThreadCmdProcQueue /\ issued' = issued
    BY DEF Forgets
  <2> QED BY <1>3, <2>1, <2>2, <2>3, <2>4 DEF Announced
<1>7. Owed(issued, C, E, H, a, b)'
  <2>1. \A d \in due : d \in Nat /\ C < d /\ d <= R /\ Held(E, H, a, b, d)
    BY <1>1 DEF Owed, TypeOK, Ids
  <2>2. \A d \in due' : C < d /\ d <= issued /\ Held(E, H, a, b, d)'
    BY <1>2, <1>3, <2>1 DEF Held, Waits, Forgets, Walking
  <2>3. \A p \in Nat : p + 1 \in due' \union pending'
                         => gThreadCmdBuffer'[p % RingSize].op # "stop"
    BY <1>1 DEF Owed, Forgets
  <2> QED BY <2>2, <2>3 DEF Owed, Forgets
<1>8. Near(issued, C, H, a, K)'
  BY <1>1, <1>2, <1>3 DEF Near, Room, Forgets, Idle, Walking
<1>9. Trace(issued, C, E, H, a, b, K)'
  BY <1>4, <1>5, <1>6, <1>7, <1>8 DEF Trace, Forgets
<1>10. issued' \in Nat
  BY <1>2 DEF Forgets
<1> QED BY <1>9, <1>10 DEF Traced, Forgets

\* osSendMesg has loaded what the queue holds.
LEMMA ScheduleBeginTraced ==
  ASSUME TypeOK, NEW R \in Nat, NEW C \in Nat, NEW E \in Nat, NEW H \in Nat,
         NEW a \in [Nat -> Nat], NEW b \in [Nat -> Nat], NEW K \in [Nat -> Nat],
         Trace(R, C, E, H, a, b, K), ScheduleBegin
  PROVE  Traced'
<1>1. /\ Stands(R, C, E, H) /\ Filled /\ Barred(C, K) /\ Announced(R, C, E, H, a, b)
      /\ Owed(R, C, E, H, a, b) /\ Done(C) /\ Near(R, C, H, a, K)
  BY DEF Trace
<1>2. /\ ~awake
      /\ sending' = [first |-> gThreadCmdProcQueue.first, valid |-> gThreadCmdProcQueue.valid]
      /\ UNCHANGED <<gThreadCmdBuffer, gThreadCmdWritePos, gThreadCmdReadPos,
                     gThreadCmdProcQueue, gCurCmdReadPos, gThreadCmdQueueFinished, walkEnd,
                     awake, pending, due, executed, issued, burst, stops>>
  BY DEF ScheduleBegin, game, walker
<1>3. Stands(R, C, E, H)' /\ Filled' /\ Barred(C, K)' /\ Done(C)'
  BY <1>1, <1>2 DEF Stands, Filled, Barred, Done, Walking
<1>4. Announced(R, C, E, H, a, b)' /\ Owed(R, C, E, H, a, b)'
  BY <1>1, <1>2 DEF Announced, Owed, Held, Waits, Walking
<1>5. Near(R, C, H, a, K)'
  BY <1>1, <1>2 DEF Near, Room, Walking
<1>6. Trace(R, C, E, H, a, b, K)'
  BY <1>3, <1>4, <1>5 DEF Trace
<1> QED BY <1>6 DEF Traced

\* The window is announced: message H + valid, from R to issued.
LEMMA ScheduleEndTraced ==
  ASSUME TypeOK, Paced, NEW R \in Nat, NEW C \in Nat, NEW E \in Nat, NEW H \in Nat,
         NEW a \in [Nat -> Nat], NEW b \in [Nat -> Nat], NEW K \in [Nat -> Nat],
         Trace(R, C, E, H, a, b, K), ScheduleEnd
  PROVE  Traced'
<1> DEFINE v == gThreadCmdProcQueue.valid
<1>1. /\ Stands(R, C, E, H) /\ Filled /\ Barred(C, K) /\ Announced(R, C, E, H, a, b)
      /\ Owed(R, C, E, H, a, b) /\ Done(C) /\ Near(R, C, H, a, K)
  BY DEF Trace
<1>2. /\ issued \in Nat /\ burst \in Nat /\ DrainCmds \in Nat /\ v \in Nat
      /\ RingSize \in Nat \ {0} /\ ProcQueueSize \in Nat \ {0}
  BY Numbers
<1>3. /\ C <= R /\ R <= issued /\ ~awake /\ ~Walking /\ ~Idle
      /\ gThreadCmdWritePos = issued % RingSize /\ gThreadCmdReadPos = R % RingSize
      /\ gThreadCmdProcQueue.first = H % ProcQueueSize
      /\ sending.first = gThreadCmdProcQueue.first /\ sending.valid = v
  BY <1>1 DEF Stands, Near, ScheduleEnd
<1>4. v < ProcQueueSize
  <2>1. sending.valid \in Cells
    BY <1>3 DEF TypeOK, Sends, Idle
  <2> QED BY <1>2, <1>3, <2>1 DEF Cells
<1>5. (sending.first + sending.valid) % ProcQueueSize = (H + v) % ProcQueueSize
  <2>1. sending.first + sending.valid = (H % ProcQueueSize) + v
    BY <1>3
  <2>2. ((H % ProcQueueSize) + v) % ProcQueueSize = (H + v) % ProcQueueSize
    BY <1>2, ModOn
  <2> QED BY <2>1, <2>2
<1>6. PICK w : w = [from |-> R % RingSize, to |-> issued % RingSize]
  OBVIOUS
<1>7. gThreadCmdProcQueue' =
        [gThreadCmdProcQueue EXCEPT !.msg[(H + v) % ProcQueueSize] = w, !.valid = v + 1]
  BY <1>3, <1>5, <1>6 DEF ScheduleEnd
<1>8. /\ gThreadCmdReadPos' = issued % RingSize /\ sending' = [first |-> 0, valid |-> NoSend]
      /\ due' = due \union pending /\ pending' = {}
      /\ UNCHANGED <<gThreadCmdBuffer, gThreadCmdWritePos, gCurCmdReadPos,
                     gThreadCmdQueueFinished, walkEnd, awake, executed, issued, burst, stops>>
  BY <1>3 DEF ScheduleEnd, walker
<1> HIDE DEF v
<1>9. /\ gThreadCmdProcQueue \in Queues
      /\ gThreadCmdProcQueue.first \in Cells /\ gThreadCmdProcQueue.msg \in [Cells -> Windows]
      /\ (H + v) % ProcQueueSize \in Cells
  <2>1. gThreadCmdProcQueue \in Queues
    BY DEF TypeOK
  <2>2. H + v \in Nat
    BY <1>2
  <2> QED BY <2>1, <2>2, <1>2, ModRange, QueueParts DEF Cells
<1>10. /\ gThreadCmdProcQueue'.first = gThreadCmdProcQueue.first
       /\ gThreadCmdProcQueue'.valid = v + 1
       /\ gThreadCmdProcQueue'.msg[(H + v) % ProcQueueSize] = w
       /\ \A c \in Cells : c # (H + v) % ProcQueueSize
                             => gThreadCmdProcQueue'.msg[c] = gThreadCmdProcQueue.msg[c]
  BY <1>7, <1>9 DEF Queues
<1>11. PICK f \in [Nat -> Nat] : f = [a EXCEPT ![H + v] = R]
  OBVIOUS
<1>12. PICK g \in [Nat -> Nat] : g = [b EXCEPT ![H + v] = issued]
  BY <1>2
<1>13. /\ f[H + v] = R /\ g[H + v] = issued
       /\ \A m \in Nat : m # H + v => f[m] = a[m] /\ g[m] = b[m]
  BY <1>2, <1>11, <1>12
<1>14. \A m \in Nat : /\ Waits(H, m)' <=> Waits(H, m) \/ m = H + v
                      /\ Waits(H, m) => m # H + v /\ f[m] = a[m] /\ g[m] = b[m]
  <2>1. SUFFICES ASSUME NEW m \in Nat
                 PROVE  /\ Waits(H, m)' <=> Waits(H, m) \/ m = H + v
                        /\ Waits(H, m) => m # H + v
    BY <1>13
  <2>2. Waits(H, m) <=> H <= m /\ m < H + v
    BY DEF Waits, v
  <2>3. Waits(H, m)' <=> H <= m /\ m < H + (v + 1)
    BY <1>10 DEF Waits
  <2> QED BY <1>2, <2>2, <2>3
<1>15. ~Walking' /\ Idle' /\ ~awake'
  BY <1>3, <1>8 DEF Walking, Idle
<1>16. Stands(issued, C, E, H)'
  BY <1>1, <1>2, <1>3, <1>8, <1>10, <1>15 DEF Stands
<1>17. Filled' /\ Barred(C, K)' /\ Done(C)'
  BY <1>1, <1>8 DEF Filled, Barred, Done
<1>18. Announced(issued, C, E, H, f, g)'
  <2>1. ASSUME NEW m \in Nat, Waits(H, m)'
        PROVE  /\ gThreadCmdProcQueue'.msg[m % ProcQueueSize] =
                    [from |-> f[m] % RingSize, to |-> g[m] % RingSize]
               /\ C <= f[m] /\ f[m] <= g[m] /\ g[m] <= issued
    <3>1. CASE m = H + v
      <4>1. f[m] = R /\ g[m] = issued /\ gThreadCmdProcQueue'.msg[m % ProcQueueSize] = w
        BY <1>10, <1>13, <3>1
      <4> QED BY <1>2, <1>3, <1>6, <4>1
    <3>2. CASE Waits(H, m)
      <4>1. m < H + v /\ H <= m
        BY <3>2 DEF Waits, v
      <4>2. m % ProcQueueSize # (H + v) % ProcQueueSize
        <5>1. H + v \in Nat /\ H + v < m + ProcQueueSize
          BY <1>2, <1>4, <4>1
        <5> QED BY <1>2, <4>1, <5>1, ModApart
      <4>3. m % ProcQueueSize \in Cells
        BY <1>2, ModRange DEF Cells
      <4>4. /\ gThreadCmdProcQueue.msg[m % ProcQueueSize] =
                 [from |-> a[m] % RingSize, to |-> b[m] % RingSize]
            /\ C <= a[m] /\ a[m] <= b[m] /\ b[m] <= R
        BY <1>1, <3>2 DEF Announced
      <4>5. f[m] = a[m] /\ g[m] = b[m]
        BY <1>14, <3>2
      <4>6. gThreadCmdProcQueue'.msg[m % ProcQueueSize] =
              gThreadCmdProcQueue.msg[m % ProcQueueSize]
        BY <1>10, <4>2, <4>3
      <4>7. b[m] <= issued
        BY <1>2, <1>3, <4>4
      <4> QED BY <4>4, <4>5, <4>6, <4>7
    <3> QED BY <1>14, <2>1, <3>1, <3>2
  <2>2. ASSUME NEW m \in Nat, NEW k \in Nat, Waits(H, m)', Waits(H, k)', m < k
        PROVE  g[m] <= f[k]
    <3>1. Waits(H, m)
      <4>1. m # H + v
        <5>1. k <= H + v
          BY <1>2, <1>10, <2>2 DEF Waits
        <5> QED BY <1>2, <2>2, <5>1
      <4> QED BY <1>14, <2>2, <4>1
    <3>2. b[m] <= R /\ g[m] = b[m]
      BY <1>1, <1>14, <3>1 DEF Announced
    <3>3. CASE k = H + v
      BY <1>13, <3>2, <3>3
    <3>4. CASE Waits(H, k)
      <4>1. b[m] <= a[k] /\ f[k] = a[k]
        BY <1>1, <1>14, <2>2, <3>1, <3>4 DEF Announced
      <4> QED BY <3>2, <4>1
    <3> QED BY <1>14, <2>2, <3>3, <3>4
  <2> QED BY <1>8, <1>15, <2>1, <2>2 DEF Announced
<1>19. Owed(issued, C, E, H, f, g)'
  <2>1. ASSUME NEW d \in due' PROVE C < d /\ d <= issued /\ Held(E, H, f, g, d)'
    <3>1. d \in Nat
      <4>1. due \subseteq Ids /\ pending \subseteq Ids
        BY DEF TypeOK
      <4>2. d \in Ids
        BY <1>8, <2>1, <4>1
      <4> QED BY <4>2 DEF Ids
    <3>2. CASE d \in pending
      <4>1. R < d /\ d <= issued
        BY <1>1, <3>2 DEF Owed
      <4>2. PICK m \in Nat : m = H + v
        BY <1>2
      <4>3. Waits(H, m)'
        BY <1>14, <4>2
      <4>4. f[m] < d /\ d <= g[m]
        BY <1>13, <4>1, <4>2
      <4>5. Held(E, H, f, g, d)'
        BY <4>3, <4>4 DEF Held
      <4> QED BY <1>2, <1>3, <3>1, <4>1, <4>5
    <3>3. CASE d \in due
      <4>1. C < d /\ d <= R /\ Held(E, H, a, b, d)
        BY <1>1, <3>3 DEF Owed
      <4>2. Held(E, H, f, g, d)'
        <5>1. CASE \E m \in Nat : Waits(H, m) /\ a[m] < d /\ d <= b[m]
          <6>1. PICK m \in Nat : Waits(H, m) /\ a[m] < d /\ d <= b[m]
            BY <5>1
          <6>2. Waits(H, m)' /\ f[m] < d /\ d <= g[m]
            BY <1>14, <6>1
          <6> QED BY <6>2 DEF Held
        <5>2. CASE gThreadCmdQueueFinished /\ \A m \in Nat : Waits(H, m) => d <= a[m]
          <6>1. \A m \in Nat : Waits(H, m)' => d <= f[m]
            BY <1>13, <1>14, <4>1, <5>2
          <6> QED BY <1>8, <1>15, <5>2, <6>1 DEF Held
        <5> QED BY <1>3, <4>1, <5>1, <5>2 DEF Held
      <4> QED BY <1>2, <1>3, <3>1, <4>1, <4>2
    <3> QED BY <1>8, <3>2, <3>3
  <2>2. \A p \in Nat : p + 1 \in due' \union pending'
                         => gThreadCmdBuffer'[p % RingSize].op # "stop"
    BY <1>1, <1>8 DEF Owed
  <2> QED BY <1>8, <2>1, <2>2 DEF Owed
<1>20. Near(issued, C, H, f, K)'
  <2>1. issued <= R + DrainCmds + burst /\ Room' = DrainCmds + burst /\ Room = DrainCmds + burst
    BY <1>1, <1>3, <1>8 DEF Near, Room
  <2>2. issued <= f[H] + Room'
    <3>1. CASE v = 0
      <4>1. f[H] = R
        BY <1>2, <1>13, <3>1
      <4> QED BY <2>1, <4>1, <1>2
    <3>2. CASE v # 0
      <4>1. f[H] = a[H]
        BY <1>2, <1>13, <3>2
      <4>2. issued <= a[H] + Room
        BY <1>1, <3>2 DEF Near, v
      <4> QED BY <2>1, <4>1, <4>2
    <3> QED BY <3>1, <3>2
  <2>3. gThreadCmdQueueFinished => issued <= C + Room + Behind(K[C])
    BY <1>1 DEF Near
  <2>4. issued <= issued + DrainCmds + burst /\ issued <= issued + burst
    BY <1>2
  <2>5. gThreadCmdQueueFinished => issued <= C + Room' + Behind(K[C])
    BY <2>1, <2>3
  <2> HIDE DEF v
  <2> QED BY <1>8, <1>15, <2>2, <2>4, <2>5 DEF Near
<1>21. Trace(issued, C, E, H, f, g, K)'
  BY <1>8, <1>16, <1>17, <1>18, <1>19, <1>20 DEF Trace
<1> QED BY <1>2, <1>8, <1>21 DEF Traced

\* The vblank wakes the audio thread; what is queued from now on counts anew if a
\* message waits.
LEMMA BufferStartTraced ==
  ASSUME TypeOK, Paced, NEW R \in Nat, NEW C \in Nat, NEW E \in Nat, NEW H \in Nat,
         NEW a \in [Nat -> Nat], NEW b \in [Nat -> Nat], NEW K \in [Nat -> Nat],
         Trace(R, C, E, H, a, b, K), BufferStart
  PROVE  Traced'
<1>1. /\ Stands(R, C, E, H) /\ Filled /\ Barred(C, K) /\ Announced(R, C, E, H, a, b)
      /\ Owed(R, C, E, H, a, b) /\ Done(C) /\ Near(R, C, H, a, K)
  BY DEF Trace
<1>2. /\ ~awake /\ Idle /\ awake'
      /\ burst' = IF gThreadCmdProcQueue.valid = 0 THEN burst ELSE 0
      /\ UNCHANGED <<gThreadCmdBuffer, gThreadCmdWritePos, gThreadCmdReadPos,
                     gThreadCmdProcQueue, sending, gCurCmdReadPos, gThreadCmdQueueFinished,
                     walkEnd, pending, due, executed, issued, stops>>
  BY DEF BufferStart, game, walker, Paced
<1>3. issued \in Nat /\ burst \in 0 .. DrainCmds /\ DrainCmds \in Nat
  BY Numbers
<1>4. Stands(R, C, E, H)' /\ Filled' /\ Barred(C, K)' /\ Done(C)'
  BY <1>1, <1>2 DEF Stands, Filled, Barred, Done, Walking
<1>5. Announced(R, C, E, H, a, b)' /\ Owed(R, C, E, H, a, b)'
  BY <1>1, <1>2 DEF Announced, Owed, Held, Waits, Walking
<1>6. Near(R, C, H, a, K)'
  <2>1. /\ ~Walking /\ ~Walking' /\ Idle'
        /\ Room = DrainCmds + burst /\ Room' = DrainCmds + DrainCmds
    BY <1>1, <1>2 DEF Near, Walking, Idle, Room
  <2>2. C <= R /\ R <= issued
    BY <1>1 DEF Stands
  <2>3. /\ K[C] \in Nat
        /\ Behind(K[C]) \in Nat
    <3>1. C <= issued
      BY <1>3, <2>2
    <3> QED BY ONLY <1>1, <3>1, TypeOK, Paced, C \in Nat, K \in [Nat -> Nat], StopsMet
  <2>4. issued <= R + DrainCmds + burst'
    <3>1. CASE gThreadCmdProcQueue.valid = 0
      BY <1>1, <1>2, <3>1 DEF Near
    <3>2. CASE gThreadCmdProcQueue.valid # 0
      <4>1. issued <= R + burst /\ burst' = 0
        BY <1>1, <1>2, <3>2 DEF Near
      <4> QED BY <1>3, <4>1
    <3> QED BY <3>1, <3>2
  <2>5. gThreadCmdProcQueue.valid # 0 => burst' = 0
    BY <1>2
  <2>6. gThreadCmdProcQueue.valid # 0 => issued <= a[H] + Room'
    <3>1. gThreadCmdProcQueue.valid # 0 => issued <= a[H] + Room
      BY <1>1 DEF Near
    <3>2. a[H] \in Nat
      OBVIOUS
    <3> QED BY <1>3, <2>1, <3>1, <3>2
  <2>7. gThreadCmdQueueFinished => issued <= C + Room' + Behind(K[C])
    <3>1. gThreadCmdQueueFinished => issued <= C + Room + Behind(K[C])
      BY <1>1 DEF Near
    <3> QED BY <1>3, <2>1, <2>3, <3>1
  <2>8. gThreadCmdQueueFinished /\ gThreadCmdProcQueue.valid = 0
          => issued <= C + DrainCmds + burst' + Behind(K[C])
    <3>1. gThreadCmdQueueFinished => issued <= C + Room + Behind(K[C])
      BY <1>1 DEF Near
    <3>2. C + (DrainCmds + burst) + Behind(K[C]) = C + DrainCmds + burst + Behind(K[C])
      BY <1>3, <2>3
    <3> QED BY <1>2, <2>1, <3>1, <3>2
  <2> QED BY <1>2, <2>1, <2>4, <2>5, <2>6, <2>7, <2>8 DEF Near
<1>7. Trace(R, C, E, H, a, b, K)'
  BY <1>4, <1>5, <1>6 DEF Trace
<1> QED BY <1>7 DEF Traced

\* The queue is empty: the audio thread sleeps.
LEMMA BufferDoneTraced ==
  ASSUME TypeOK, Paced, NEW R \in Nat, NEW C \in Nat, NEW E \in Nat, NEW H \in Nat,
         NEW a \in [Nat -> Nat], NEW b \in [Nat -> Nat], NEW K \in [Nat -> Nat],
         Trace(R, C, E, H, a, b, K), BufferDone
  PROVE  Traced'
<1>1. /\ Stands(R, C, E, H) /\ Filled /\ Barred(C, K) /\ Announced(R, C, E, H, a, b)
      /\ Owed(R, C, E, H, a, b) /\ Done(C) /\ Near(R, C, H, a, K)
  BY DEF Trace
<1>2. /\ awake /\ ~Walking /\ gThreadCmdProcQueue.valid = 0 /\ ~awake'
      /\ UNCHANGED <<gThreadCmdBuffer, gThreadCmdWritePos, gThreadCmdReadPos,
                     gThreadCmdProcQueue, sending, gCurCmdReadPos, gThreadCmdQueueFinished,
                     walkEnd, pending, due, executed, issued, burst, stops>>
  BY DEF BufferDone, game, walker, Walking
<1>3. Stands(R, C, E, H)' /\ Filled' /\ Barred(C, K)' /\ Done(C)'
  BY <1>1, <1>2 DEF Stands, Filled, Barred, Done, Walking
<1>4. Announced(R, C, E, H, a, b)' /\ Owed(R, C, E, H, a, b)'
  BY <1>1, <1>2 DEF Announced, Owed, Held, Waits, Walking
<1>5. Near(R, C, H, a, K)'
  <2>1. ~Walking' /\ Idle' /\ Room' = DrainCmds + burst
    BY <1>1, <1>2 DEF Near, Walking, Idle, Room
  <2>2. gThreadCmdQueueFinished => issued <= C + Room' + Behind(K[C])
    <3>1. gThreadCmdQueueFinished => issued <= C + DrainCmds + burst + Behind(K[C])
      BY <1>1, <1>2 DEF Near
    <3>2. K[C] \in Nat
      OBVIOUS
    <3>3. Behind(K[C]) \in Nat /\ burst \in Nat /\ DrainCmds \in Nat
      BY <3>2, BehindGrows, Numbers
    <3>4. C + (DrainCmds + burst) + Behind(K[C]) = C + DrainCmds + burst + Behind(K[C])
      BY <3>3
    <3> QED BY <2>1, <3>1, <3>4
  <2> QED BY <1>1, <1>2, <2>1, <2>2 DEF Near
<1>6. Trace(R, C, E, H, a, b, K)'
  BY <1>3, <1>4, <1>5 DEF Trace
<1> QED BY <1>6 DEF Traced

\* Message H is received: the walk goes to its window, or on from the last STOP, and
\* ends where the window ends.
LEMMA ReceiveWindowTraced ==
  ASSUME TypeOK, Paced, NEW R \in Nat, NEW C \in Nat, NEW E \in Nat, NEW H \in Nat,
         NEW a \in [Nat -> Nat], NEW b \in [Nat -> Nat], NEW K \in [Nat -> Nat],
         Trace(R, C, E, H, a, b, K), ReceiveWindow
  PROVE  Traced'
<1>1. /\ Stands(R, C, E, H) /\ Filled /\ Barred(C, K) /\ Announced(R, C, E, H, a, b)
      /\ Owed(R, C, E, H, a, b) /\ Done(C) /\ Near(R, C, H, a, K)
  BY DEF Trace
<1>2. PICK v \in Nat : v = gThreadCmdProcQueue.valid
  BY Numbers
<1>3. issued \in Nat /\ burst \in Nat /\ DrainCmds \in Nat
      /\ RingSize \in Nat \ {0} /\ ProcQueueSize \in Nat \ {0}
  BY Numbers
<1>4. /\ awake /\ ~Walking /\ v # 0
      /\ gThreadCmdProcQueue' = [gThreadCmdProcQueue EXCEPT
           !.first = (gThreadCmdProcQueue.first + 1) % ProcQueueSize, !.valid = v - 1]
      /\ gCurCmdReadPos' = WalkStart(OldestWindow(gThreadCmdProcQueue))
      /\ walkEnd' = WalkEnd(OldestWindow(gThreadCmdProcQueue))
      /\ UNCHANGED <<gThreadCmdBuffer, gThreadCmdWritePos, gThreadCmdReadPos, sending,
                     gThreadCmdQueueFinished, awake, pending, due, executed,
                     issued, burst, stops>>
  BY <1>2 DEF ReceiveWindow, game, Walking
<1>5. C <= R /\ R <= issued /\ gThreadCmdProcQueue.first = H % ProcQueueSize
  BY <1>1 DEF Stands
<1>6. /\ gThreadCmdProcQueue'.first = (H + 1) % ProcQueueSize
      /\ gThreadCmdProcQueue'.valid = v - 1
      /\ gThreadCmdProcQueue'.msg = gThreadCmdProcQueue.msg
  <2>1. gThreadCmdProcQueue \in Queues
    BY DEF TypeOK
  <2>2. (gThreadCmdProcQueue.first + 1) % ProcQueueSize = (H + 1) % ProcQueueSize
    <3>1. ((H % ProcQueueSize) + 1) % ProcQueueSize = (H + 1) % ProcQueueSize
      BY <1>3, ModOn
    <3> QED BY <1>5, <3>1
  <2> QED BY <1>4, <2>1, <2>2 DEF Queues
<1>7. \A m \in Nat : Waits(H + 1, m)' <=> Waits(H, m) /\ m # H
  <2> SUFFICES ASSUME NEW m \in Nat PROVE Waits(H + 1, m)' <=> Waits(H, m) /\ m # H
    OBVIOUS
  <2>1. Waits(H, m) <=> H <= m /\ m < H + v
    BY <1>2 DEF Waits
  <2>2. Waits(H + 1, m)' <=> H + 1 <= m /\ m < H + 1 + (v - 1)
    BY <1>6 DEF Waits
  <2>3. v # 0
    BY <1>4
  <2>4. (H + 1 <= m /\ m < H + 1 + (v - 1)) <=> (H <= m /\ m < H + v /\ m # H)
    BY ONLY <2>3, v \in Nat, H \in Nat, m \in Nat
  <2> QED BY <2>1, <2>2, <2>4
<1>8. Waits(H, H)
  BY <1>2, <1>4 DEF Waits
<1>9. /\ OldestWindow(gThreadCmdProcQueue) =
           [from |-> a[H] % RingSize, to |-> b[H] % RingSize]
      /\ C <= a[H] /\ a[H] <= b[H] /\ b[H] <= R
  BY <1>1, <1>5, <1>8 DEF Announced, OldestWindow
<1>10. PICK D \in Nat : D = IF gThreadCmdQueueFinished THEN C ELSE a[H]
  OBVIOUS
<1>11. PICK F \in Nat : F = b[H]
  OBVIOUS
<1>12. C <= D /\ D <= a[H] /\ D <= F /\ F <= R /\ D <= R /\ D <= issued
  BY <1>3, <1>5, <1>9, <1>10, <1>11
<1>13. gCurCmdReadPos' = D % RingSize /\ walkEnd' = F % RingSize
  <2>1. gCurCmdReadPos = C % RingSize
    BY <1>1 DEF Stands
  <2> QED BY <1>4, <1>9, <1>10, <1>11, <2>1 DEF WalkStart, WalkEnd
<1>14. Walking'
  <2>1. F % RingSize \in 0 .. RingSize - 1
    BY <1>3, ModRange
  <2> QED BY <1>3, <1>13, <2>1 DEF Walking, NoWalk
<1>15. Stands(R, D, F, H + 1)'
  BY <1>1, <1>4, <1>6, <1>12, <1>13 DEF Stands
<1>16. Filled'
  BY <1>1, <1>4 DEF Filled
<1>17. Barred(D, K)'
  <2>1. \A p \in Nat : D <= p => C <= p
    BY <1>12
  <2> QED BY <1>1, <1>4, <2>1 DEF Barred
<1>18. Done(D)'
  <2>1. ASSUME NEW i \in DOMAIN executed PROVE executed[i] <= D
    <3>1. executed[i] <= C
      BY <1>1 DEF Done
    <3>2. executed[i] \in Nat
      <4>1. executed \in Seq(0 .. MaxCmds)
        BY DEF TypeOK
      <4>2. executed[i] \in 0 .. MaxCmds
        BY <4>1, SeqElements
      <4> QED BY <4>2
    <3> QED BY <1>12, <3>1, <3>2
  <2> QED BY <1>1, <1>4, <2>1 DEF Done
<1>19. Announced(R, D, F, H + 1, a, b)'
  <2>1. ASSUME NEW m \in Nat, Waits(H + 1, m)'
        PROVE  /\ gThreadCmdProcQueue'.msg[m % ProcQueueSize] =
                    [from |-> a[m] % RingSize, to |-> b[m] % RingSize]
               /\ D <= a[m] /\ a[m] <= b[m] /\ b[m] <= R /\ F <= a[m]
    <3>1. Waits(H, m) /\ m # H
      BY <1>7, <2>1
    <3>2. H < m
      BY <3>1 DEF Waits
    <3>3. F <= a[m]
      BY <1>1, <1>8, <1>11, <3>1, <3>2 DEF Announced
    <3>4. /\ gThreadCmdProcQueue.msg[m % ProcQueueSize] =
               [from |-> a[m] % RingSize, to |-> b[m] % RingSize]
          /\ a[m] <= b[m] /\ b[m] <= R
      BY <1>1, <3>1 DEF Announced
    <3>5. D <= a[m]
      BY <1>12, <3>3
    <3> QED BY <1>6, <3>3, <3>4, <3>5
  <2>2. \A m, k \in Nat : Waits(H + 1, m)' /\ Waits(H + 1, k)' /\ m < k => b[m] <= a[k]
    BY <1>1, <1>7 DEF Announced
  <2> QED BY <2>1, <2>2 DEF Announced
<1>20. Owed(R, D, F, H + 1, a, b)'
  <2>1. ASSUME NEW d \in due PROVE D < d /\ d <= R /\ Held(F, H + 1, a, b, d)'
    <3>1. C < d /\ d <= R /\ Held(E, H, a, b, d) /\ d \in Nat
      BY <1>1 DEF Owed, TypeOK, Ids
    <3>2. CASE \E m \in Nat : Waits(H, m) /\ a[m] < d /\ d <= b[m]
      <4>1. PICK m \in Nat : Waits(H, m) /\ a[m] < d /\ d <= b[m]
        BY <3>2
      <4>2. CASE m = H
        <5>1. d <= F /\ D < d
          BY <1>11, <1>12, <3>1, <4>1, <4>2
        <5> QED BY <1>14, <3>1, <5>1 DEF Held
      <4>3. CASE m # H
        <5>1. H < m
          BY <4>1, <4>3 DEF Waits
        <5>2. F <= a[m]
          BY <1>1, <1>8, <1>11, <4>1, <5>1 DEF Announced
        <5>3. D < d
          BY <1>12, <3>1, <4>1, <5>2
        <5>4. Waits(H + 1, m)'
          BY <1>7, <4>1, <4>3
        <5>5. Held(F, H + 1, a, b, d)'
          BY <4>1, <5>4 DEF Held
        <5> QED BY <3>1, <5>3, <5>5
      <4> QED BY <4>2, <4>3
    <3>3. CASE gThreadCmdQueueFinished /\ \A m \in Nat : Waits(H, m) => d <= a[m]
      <4>1. D = C /\ d <= a[H]
        BY <1>8, <1>10, <3>3
      <4>2. d <= F
        BY <1>9, <1>11, <3>1, <4>1
      <4> QED BY <1>14, <3>1, <4>1, <4>2 DEF Held
    <3> QED BY <1>4, <3>1, <3>2, <3>3 DEF Held
  <2> QED BY <1>1, <1>4, <2>1 DEF Owed
<1>21. Near(R, D, H + 1, a, K)'
  <2>1. Room = DrainCmds + DrainCmds /\ Room' = DrainCmds + DrainCmds /\ awake' /\ Idle'
    BY <1>1, <1>4 DEF Room, Near, Idle
  <2>2. burst' = 0
    BY <1>1, <1>2, <1>4 DEF Near
  <2>3. issued <= R + DrainCmds + burst
    BY <1>1 DEF Near
  <2>4. issued <= a[H] + Room
    BY <1>1, <1>2, <1>4 DEF Near
  <2>5. v - 1 # 0 => issued <= a[H + 1] + Room'
    <3> SUFFICES ASSUME v - 1 # 0 PROVE issued <= a[H + 1] + Room'
      OBVIOUS
    <3>1. Waits(H, H + 1) /\ H + 1 \in Nat /\ H < H + 1
      <4>0. v # 0
        BY <1>4
      <4>1. H <= H + 1 /\ H + 1 < H + v /\ H + 1 \in Nat /\ H < H + 1
        BY ONLY <4>0, v - 1 # 0, v \in Nat, H \in Nat
      <4> QED BY <1>2, <4>1 DEF Waits
    <3>2. b[H] <= a[H + 1]
      BY <1>1, <1>8, <3>1 DEF Announced
    <3>3. a[H + 1] \in Nat /\ a[H] \in Nat /\ b[H] \in Nat
      BY <3>1
    <3> QED BY <1>3, <1>9, <2>1, <2>4, <3>2, <3>3
  <2>6. Behind(K[D]) \in Nat
    <3>1. K[D] \in Nat
      OBVIOUS
    <3> QED BY <3>1, BehindGrows
  <2>7. issued <= D + Room' + Behind(K[D])
    <3>1. CASE gThreadCmdQueueFinished
      BY <1>1, <1>10, <2>1, <3>1 DEF Near
    <3>2. CASE ~gThreadCmdQueueFinished
      BY <1>3, <1>10, <2>1, <2>4, <2>6, <3>2
    <3> QED BY <3>1, <3>2
  <2> QED BY <1>4, <1>6, <1>14, <2>1, <2>2, <2>3, <2>5, <2>7 DEF Near
<1>22. Trace(R, D, F, H + 1, a, b, K)'
  BY <1>15, <1>16, <1>17, <1>18, <1>19, <1>20, <1>21 DEF Trace
<1>23. H + 1 \in Nat
  OBVIOUS
<1> QED BY <1>22, <1>23 DEF Traced

\* The window ends; where all that was queued has been walked, STOPs count anew.
LEMMA WindowDoneTraced ==
  ASSUME TypeOK, Paced, NEW R \in Nat, NEW C \in Nat, NEW E \in Nat, NEW H \in Nat,
         NEW a \in [Nat -> Nat], NEW b \in [Nat -> Nat], NEW K \in [Nat -> Nat],
         Trace(R, C, E, H, a, b, K), WindowDone
  PROVE  Traced'
<1>1. /\ Stands(R, C, E, H) /\ Filled /\ Barred(C, K) /\ Announced(R, C, E, H, a, b)
      /\ Owed(R, C, E, H, a, b) /\ Done(C) /\ Near(R, C, H, a, K)
  BY DEF Trace
<1>2. /\ Walking /\ gCurCmdReadPos = walkEnd /\ ~gThreadCmdQueueFinished' /\ ~Walking'
      /\ stops' = IF gCurCmdReadPos = gThreadCmdWritePos THEN 0 ELSE stops
      /\ UNCHANGED <<gThreadCmdBuffer, gThreadCmdWritePos, gThreadCmdReadPos,
                     gThreadCmdProcQueue, sending, gCurCmdReadPos, awake, pending, due,
                     executed, issued, burst>>
  BY DEF WindowDone, game, Walking
<1>3. issued \in Nat /\ RingSize \in Nat \ {0} /\ DrainCmds \in Nat /\ burst \in Nat
  BY Numbers
<1>4. /\ C <= R /\ R <= issued /\ C <= E /\ E <= R /\ awake
      /\ gCurCmdReadPos = C % RingSize /\ walkEnd = E % RingSize
      /\ gThreadCmdWritePos = issued % RingSize
  BY <1>1, <1>2 DEF Stands, Near
<1>5. issued < C + RingSize
  <2>1. C <= issued
    BY <1>3, <1>4
  <2>2. K[C] \in Nat /\ Behind(K[C]) \in Nat /\ 2 * DrainCmds + Behind(K[C]) < RingSize
    BY ONLY <1>1, <2>1, TypeOK, Paced, C \in Nat, K \in [Nat -> Nat], StopsMet
  <2>3. issued <= C + (DrainCmds + DrainCmds) + Behind(K[C])
    BY <1>1, <1>2, <1>4 DEF Near, Room
  <2> QED BY <1>3, <2>2, <2>3
<1>6. C = E
  <2> SUFFICES ASSUME C # E PROVE FALSE
    OBVIOUS
  <2>1. C < E /\ E < C + RingSize
    BY <1>3, <1>4, <1>5
  <2> QED BY <1>2, <1>3, <1>4, <2>1, ModApart
<1>7. Stands(R, C, E, H)'
  BY <1>1, <1>2 DEF Stands
<1>8. Filled' /\ Done(C)'
  BY <1>1, <1>2 DEF Filled, Done
<1>9. Announced(R, C, E, H, a, b)'
  BY <1>1, <1>2 DEF Announced, Waits
<1>10. Owed(R, C, E, H, a, b)'
  <2>1. ASSUME NEW d \in due PROVE C < d /\ d <= R /\ Held(E, H, a, b, d)'
    <3>1. C < d /\ d <= R /\ Held(E, H, a, b, d) /\ d \in Nat
      BY <1>1 DEF Owed, TypeOK, Ids
    <3>2. ~(d <= E)
      BY <1>6, <3>1
    <3>3. \E m \in Nat : Waits(H, m) /\ a[m] < d /\ d <= b[m]
      BY <1>2, <3>1, <3>2 DEF Held
    <3>4. \A m : Waits(H, m)' <=> Waits(H, m)
      BY <1>2 DEF Waits
    <3> QED BY <3>1, <3>3, <3>4 DEF Held
  <2> QED BY <1>1, <1>2, <2>1 DEF Owed
<1>11. ASSUME NEW L \in [Nat -> Nat] PROVE Near(R, C, H, a, L)'
  <2>1. Room' = Room
    BY <1>2 DEF Room
  <2>2. gThreadCmdProcQueue.valid # 0 \/ Walking => burst = 0
    BY <1>1, <1>4 DEF Near
  <2>3. Idle'
    BY <1>1, <1>2, <1>4 DEF Near, Idle
  <2> QED BY <1>1, <1>2, <1>4, <2>1, <2>2, <2>3 DEF Near
<1>12. CASE gCurCmdReadPos # gThreadCmdWritePos
  <2>1. Barred(C, K)'
    BY <1>1, <1>2, <1>12 DEF Barred
  <2>2. Trace(R, C, E, H, a, b, K)'
    BY <1>7, <1>8, <1>9, <1>10, <1>11, <2>1 DEF Trace
  <2> QED BY <2>2 DEF Traced
<1>13. CASE gCurCmdReadPos = gThreadCmdWritePos
  <2>1. C = issued
    <3> SUFFICES ASSUME C # issued PROVE FALSE
      OBVIOUS
    <3>1. C < issued
      BY <1>3, <1>4
    <3> QED BY <1>3, <1>4, <1>5, <1>13, <3>1, ModApart
  <2>2. PICK L \in [Nat -> Nat] : \A p \in Nat : L[p] = 0
    <3>1. [p \in Nat |-> 0] \in [Nat -> Nat] /\ \A p \in Nat : [q \in Nat |-> 0][p] = 0
      OBVIOUS
    <3> QED BY <3>1
  <2>3. Barred(C, L)'
    <3>1. issued' = issued /\ stops' = 0
      BY <1>2, <1>13
    <3>2. \A p, q \in Nat : L[p] <= L[q]
      BY <2>2
    <3>3. L[issued] <= 0
      BY <1>3, <2>2
    <3>4. \A p \in Nat : ~(C <= p /\ p < issued)
      BY <1>3, <2>1
    <3> QED BY <3>1, <3>2, <3>3, <3>4 DEF Barred
  <2>4. Trace(R, C, E, H, a, b, L)'
    BY <1>7, <1>8, <1>9, <1>10, <1>11, <2>3 DEF Trace
  <2> QED BY <2>4 DEF Traced
<1> QED BY <1>12, <1>13

\* The slot the walk looks at holds the command of its position.
LEMMA AtCommand ==
  ASSUME TypeOK, Paced, NEW R \in Nat, NEW C \in Nat, NEW E \in Nat, NEW H \in Nat,
         NEW a \in [Nat -> Nat], NEW b \in [Nat -> Nat], NEW K \in [Nat -> Nat],
         Trace(R, C, E, H, a, b, K), Walking, gCurCmdReadPos # walkEnd
  PROVE  /\ awake /\ burst = 0 /\ C + 1 <= E /\ E <= R /\ R <= issued
         /\ C < issued /\ issued <= C + RingSize
         /\ gCurCmdReadPos = C % RingSize
         /\ gThreadCmdBuffer[gCurCmdReadPos].id = C + 1
         /\ Advance(gCurCmdReadPos) = (C + 1) % RingSize
         /\ Room = DrainCmds + DrainCmds
         /\ K[C] \in Nat /\ Behind(K[C]) \in Nat
         /\ issued <= C + (DrainCmds + DrainCmds) + Behind(K[C])
<1>1. /\ Stands(R, C, E, H) /\ Filled /\ Barred(C, K) /\ Near(R, C, H, a, K)
  BY DEF Trace
<1>2. issued \in Nat /\ RingSize \in Nat \ {0} /\ DrainCmds \in Nat
  BY Numbers
<1>3. /\ C <= R /\ R <= issued /\ C <= E /\ E <= R /\ awake /\ burst = 0
      /\ gCurCmdReadPos = C % RingSize /\ walkEnd = E % RingSize
  BY <1>1 DEF Stands, Near
<1>4. C + 1 <= E
  <2>1. C # E
    BY <1>3
  <2> QED BY <1>3, <2>1
<1>5. C <= issued /\ C < issued
  BY <1>2, <1>3, <1>4
<1>6. K[C] \in Nat /\ Behind(K[C]) \in Nat /\ 2 * DrainCmds + Behind(K[C]) < RingSize
  BY ONLY <1>1, <1>5, TypeOK, Paced, C \in Nat, K \in [Nat -> Nat], StopsMet
<1>7. Room = DrainCmds + DrainCmds /\ issued <= C + (DrainCmds + DrainCmds) + Behind(K[C])
  BY <1>1, <1>3 DEF Near, Room
<1>8. issued <= C + RingSize
  BY <1>2, <1>6, <1>7
<1>9. gThreadCmdBuffer[C % RingSize].id = C + 1
  BY <1>1, <1>5, <1>8 DEF Filled
<1>10. Advance(gCurCmdReadPos) = (C + 1) % RingSize
  BY <1>2, <1>3, ModOn DEF Advance
<1> QED BY <1>3, <1>4, <1>5, <1>6, <1>7, <1>8, <1>9, <1>10

\* A STOP: the walk is behind it, as far as the next STOP may count.
LEMMA StopWalkTraced ==
  ASSUME TypeOK, Paced, NEW R \in Nat, NEW C \in Nat, NEW E \in Nat, NEW H \in Nat,
         NEW a \in [Nat -> Nat], NEW b \in [Nat -> Nat], NEW K \in [Nat -> Nat],
         Trace(R, C, E, H, a, b, K), StopWalk
  PROVE  Traced'
<1>1. /\ Stands(R, C, E, H) /\ Filled /\ Barred(C, K) /\ Announced(R, C, E, H, a, b)
      /\ Owed(R, C, E, H, a, b) /\ Done(C) /\ Near(R, C, H, a, K)
  BY DEF Trace
<1>2. /\ Walking /\ gCurCmdReadPos # walkEnd /\ gThreadCmdBuffer[gCurCmdReadPos].op = "stop"
      /\ gCurCmdReadPos' = Advance(gCurCmdReadPos)
      /\ gThreadCmdQueueFinished' /\ ~Walking'
      /\ UNCHANGED <<gThreadCmdBuffer, gThreadCmdWritePos, gThreadCmdReadPos,
                     gThreadCmdProcQueue, sending, awake, pending, due, executed,
                     issued, burst, stops>>
  BY DEF StopWalk, game, Walking
<1>3. /\ awake /\ burst = 0 /\ C + 1 <= E /\ E <= R /\ R <= issued
      /\ C < issued /\ issued <= C + RingSize
      /\ gCurCmdReadPos = C % RingSize
      /\ gThreadCmdBuffer[gCurCmdReadPos].id = C + 1
      /\ Advance(gCurCmdReadPos) = (C + 1) % RingSize
      /\ Room = DrainCmds + DrainCmds
      /\ K[C] \in Nat /\ Behind(K[C]) \in Nat
      /\ issued <= C + (DrainCmds + DrainCmds) + Behind(K[C])
  BY ONLY <1>2, TypeOK, Paced, R \in Nat, C \in Nat, E \in Nat, H \in Nat, a \in [Nat -> Nat],
          b \in [Nat -> Nat], K \in [Nat -> Nat], Trace(R, C, E, H, a, b, K), AtCommand
<1>4. PICK D \in Nat : D = C + 1
  OBVIOUS
<1>5. issued \in Nat /\ DrainCmds \in Nat \ {0}
  BY Numbers
<1>6. D <= E /\ D <= R /\ D <= issued /\ C <= D
  BY <1>3, <1>4, <1>5
<1>7. Stands(R, D, E, H)'
  BY <1>1, <1>2, <1>3, <1>4, <1>6 DEF Stands
<1>8. Filled'
  BY <1>1, <1>2 DEF Filled
<1>9. Barred(D, K)'
  <2>1. \A p \in Nat : D <= p => C <= p
    BY <1>6
  <2> QED BY <1>1, <1>2, <2>1 DEF Barred
<1>10. Done(D)'
  <2>1. ASSUME NEW i \in DOMAIN executed PROVE executed[i] <= D
    <3>1. executed[i] <= C
      BY <1>1 DEF Done
    <3>2. executed[i] \in Nat
      <4>1. executed \in Seq(0 .. MaxCmds)
        BY DEF TypeOK
      <4>2. executed[i] \in 0 .. MaxCmds
        BY <4>1, SeqElements
      <4> QED BY <4>2
    <3> QED BY <1>6, <3>1, <3>2
  <2> QED BY <1>1, <1>2, <2>1 DEF Done
<1>11. Announced(R, D, E, H, a, b)'
  <2>1. ASSUME NEW m \in Nat, Waits(H, m) PROVE D <= a[m]
    <3>1. E <= a[m]
      BY <1>1, <1>2, <2>1 DEF Announced
    <3> QED BY <1>6, <3>1
  <2>2. \A m : Waits(H, m)' <=> Waits(H, m)
    BY <1>2 DEF Waits
  <2> QED BY <1>1, <1>2, <2>1, <2>2 DEF Announced
<1>12. Owed(R, D, E, H, a, b)'
  <2>1. ASSUME NEW d \in due PROVE D < d /\ d <= R /\ Held(E, H, a, b, d)'
    <3>1. C < d /\ d <= R /\ Held(E, H, a, b, d) /\ d \in Nat
      BY <1>1 DEF Owed, TypeOK, Ids
    <3>2. d # D
      <4>1. C + 1 \in due \union pending => gThreadCmdBuffer[C % RingSize].op # "stop"
        BY <1>1 DEF Owed
      <4> QED BY <1>2, <1>3, <1>4, <4>1
    <3>3. D < d
      BY <1>4, <3>1, <3>2
    <3>4. \A m : Waits(H, m)' <=> Waits(H, m)
      BY <1>2 DEF Waits
    <3>5. Held(E, H, a, b, d)'
      <4>1. CASE d <= E
        <5>1. \A m \in Nat : Waits(H, m) => d <= a[m]
          <6>1. \A m \in Nat : Waits(H, m) => E <= a[m] /\ a[m] \in Nat
            BY <1>1, <1>2 DEF Announced
          <6> QED BY <3>1, <4>1, <6>1
        <5> QED BY <1>2, <3>4, <5>1 DEF Held
      <4>2. CASE ~(d <= E)
        <5>1. \E m \in Nat : Waits(H, m) /\ a[m] < d /\ d <= b[m]
          BY <1>2, <3>1, <4>2 DEF Held
        <5> QED BY <3>4, <5>1 DEF Held
      <4> QED BY <4>1, <4>2
    <3> QED BY <3>1, <3>3, <3>5
  <2> QED BY <1>1, <1>2, <2>1 DEF Owed
<1>13. Near(R, D, H, a, K)'
  <2>1. Room' = Room /\ Idle' /\ burst' = 0 /\ awake'
    BY <1>1, <1>2, <1>3 DEF Near, Room, Idle
  <2>2. K[C] + 1 <= K[D] /\ K[D] \in Nat /\ K[C] + 1 \in Nat
    <3>1. gThreadCmdBuffer[C % RingSize].op = "stop"
      BY <1>2, <1>3
    <3>2. C <= C
      OBVIOUS
    <3>3. K[C] + 1 <= K[C + 1]
      BY <1>1, <1>3, <3>1, <3>2 DEF Barred
    <3> QED BY <1>3, <1>4, <3>3
  <2>3. PICK x \in Nat : x = Behind(K[C])
    BY <1>3
  <2>4. PICK y \in Nat : y = Behind(K[D])
    BY <2>2, BehindGrows
  <2>5. Behind(K[C] + 1) = x + DrainCmds - 1 /\ Behind(K[C] + 1) <= y
    <3>1. Behind(K[C] + 1) <= Behind(K[D])
      BY ONLY <2>2, BehindGrows
    <3>2. Behind(K[C] + 1) = Behind(K[C]) + DrainCmds - 1
      BY ONLY <1>3, BehindGrows
    <3> QED BY <2>3, <2>4, <3>1, <3>2
  <2>6. issued <= C + (DrainCmds + DrainCmds) + x
    BY <1>3, <2>3
  <2>7. issued <= D + DrainCmds + y
    BY ONLY <1>4, <1>5, <2>5, <2>6, x \in Nat, y \in Nat, C \in Nat, D \in Nat
  <2>8. issued <= D + (DrainCmds + DrainCmds) + y /\ issued <= D + DrainCmds + 0 + y
    BY ONLY <1>5, <2>7, y \in Nat, D \in Nat
  <2> QED BY <1>1, <1>2, <1>3, <2>1, <2>4, <2>8 DEF Near
<1>14. Trace(R, D, E, H, a, b, K)'
  BY <1>7, <1>8, <1>9, <1>10, <1>11, <1>12, <1>13 DEF Trace
<1> QED BY <1>14 DEF Traced

\* A rising sequence with a larger element behind it is rising.
LEMMA StillRising ==
  ASSUME NEW S, NEW s \in Seq(S), NEW e \in S, NEW c \in Nat, e \in Nat, c < e,
         \A i \in DOMAIN s : s[i] \in Nat /\ s[i] <= c,
         \A i, j \in DOMAIN s : i < j => s[i] < s[j]
  PROVE  /\ \A i \in DOMAIN Append(s, e) : Append(s, e)[i] <= e
         /\ \A i, j \in DOMAIN Append(s, e) : i < j => Append(s, e)[i] < Append(s, e)[j]
<1>1. PICK u : u = Append(s, e)
  OBVIOUS
<1>2. PICK n \in Nat : n = Len(s)
  OBVIOUS
<1>3. DOMAIN s = 1 .. n /\ DOMAIN u = 1 .. (n + 1)
  BY <1>1, <1>2
<1>4. u[n + 1] = e
  BY <1>1, <1>2
<1>5. \A i \in 1 .. n : u[i] = s[i]
  BY <1>1, <1>2
<1>6. \A i \in 1 .. n : u[i] \in Nat /\ u[i] <= c
  BY <1>3, <1>5
<1>7. \A i \in 1 .. (n + 1) : i \in 1 .. n \/ i = n + 1
  BY <1>2
<1>8. \A i \in 1 .. (n + 1) : u[i] <= e
  <2> SUFFICES ASSUME NEW i \in 1 .. (n + 1) PROVE u[i] <= e
    OBVIOUS
  <2>1. CASE i = n + 1
    BY <1>4, <2>1
  <2>2. CASE i \in 1 .. n
    <3>1. u[i] \in Nat /\ u[i] <= c
      BY <1>6, <2>2
    <3> QED BY <3>1
  <2> QED BY <1>7, <2>1, <2>2
<1>9. \A i, j \in 1 .. (n + 1) : i < j => u[i] < u[j]
  <2> SUFFICES ASSUME NEW i \in 1 .. (n + 1), NEW j \in 1 .. (n + 1), i < j
              PROVE  u[i] < u[j]
    OBVIOUS
  <2>1. i \in 1 .. n
    BY ONLY i \in 1 .. (n + 1), j \in 1 .. (n + 1), i < j, n \in Nat
  <2>2. u[i] \in Nat /\ u[i] <= c
    BY <1>6, <2>1
  <2>3. CASE j = n + 1
    <3>1. u[j] = e
      BY <1>4, <2>3
    <3> QED BY <2>2, <3>1
  <2>4. CASE j \in 1 .. n
    <3>1. s[i] < s[j]
      BY <1>3, <2>1, <2>4
    <3> QED BY <1>5, <2>1, <2>4, <3>1
  <2> QED BY <1>7, <2>3, <2>4
<1> QED BY <1>1, <1>3, <1>8, <1>9

\* Any other command: it is the lowest still owed, and above all that have run.
LEMMA ExecuteCmdTraced ==
  ASSUME TypeOK, Paced, NEW R \in Nat, NEW C \in Nat, NEW E \in Nat, NEW H \in Nat,
         NEW a \in [Nat -> Nat], NEW b \in [Nat -> Nat], NEW K \in [Nat -> Nat],
         Trace(R, C, E, H, a, b, K), ExecuteCmd
  PROVE  Traced'
<1>1. /\ Stands(R, C, E, H) /\ Filled /\ Barred(C, K) /\ Announced(R, C, E, H, a, b)
      /\ Owed(R, C, E, H, a, b) /\ Done(C) /\ Near(R, C, H, a, K)
  BY DEF Trace
<1>2. PICK cmd : cmd = gThreadCmdBuffer[gCurCmdReadPos]
  OBVIOUS
<1>3. /\ Walking /\ gCurCmdReadPos # walkEnd
      /\ gThreadCmdBuffer' = Clear(gCurCmdReadPos)
      /\ gCurCmdReadPos' = Advance(gCurCmdReadPos)
      /\ executed' = IF cmd.op = "run" THEN Append(executed, cmd.id) ELSE executed
      /\ due' = due \ {cmd.id}
      /\ UNCHANGED <<gThreadCmdWritePos, gThreadCmdReadPos, gThreadCmdProcQueue, sending,
                     gThreadCmdQueueFinished, walkEnd, awake, pending, issued, burst, stops>>
  BY <1>2 DEF ExecuteCmd, Walking
<1>4. /\ awake /\ burst = 0 /\ C + 1 <= E /\ E <= R /\ R <= issued
      /\ C < issued /\ issued <= C + RingSize
      /\ gCurCmdReadPos = C % RingSize
      /\ gThreadCmdBuffer[gCurCmdReadPos].id = C + 1
      /\ Advance(gCurCmdReadPos) = (C + 1) % RingSize
      /\ Room = DrainCmds + DrainCmds
      /\ K[C] \in Nat /\ Behind(K[C]) \in Nat
      /\ issued <= C + (DrainCmds + DrainCmds) + Behind(K[C])
  BY ONLY <1>3, TypeOK, Paced, R \in Nat, C \in Nat, E \in Nat, H \in Nat, a \in [Nat -> Nat],
          b \in [Nat -> Nat], K \in [Nat -> Nat], Trace(R, C, E, H, a, b, K), AtCommand
<1>5. PICK D \in Nat : D = C + 1
  OBVIOUS
<1>6. issued \in Nat /\ DrainCmds \in Nat \ {0} /\ RingSize \in Nat \ {0}
  BY Numbers
<1>7. D <= E /\ D <= R /\ D <= issued /\ C <= D /\ cmd.id = D
  BY <1>2, <1>4, <1>5, <1>6
<1>8. Walking'
  BY <1>3 DEF Walking
<1>9. /\ \A s \in Slots : gThreadCmdBuffer'[s].id = gThreadCmdBuffer[s].id
      /\ \A s \in Slots : gThreadCmdBuffer'[s].op = "stop" => gThreadCmdBuffer[s].op = "stop"
      /\ \A p \in Nat : p % RingSize \in Slots
  <2>1. gThreadCmdBuffer \in [Slots -> Commands] /\ gCurCmdReadPos \in Slots
    BY DEF TypeOK
  <2>2. \A p \in Nat : p % RingSize \in Slots
    BY <1>6, ModRange DEF Slots
  <2> QED BY <1>3, <2>1, <2>2 DEF Clear, Commands
<1>10. Stands(R, D, E, H)'
  BY <1>1, <1>3, <1>4, <1>5, <1>7 DEF Stands, Walking
<1>11. Filled'
  BY <1>1, <1>3, <1>9 DEF Filled
<1>12. Barred(D, K)'
  <2>1. \A p \in Nat : D <= p => C <= p
    BY <1>7
  <2> QED BY <1>1, <1>3, <1>9, <2>1 DEF Barred
<1>13. executed \in Seq(0 .. MaxCmds)
  BY DEF TypeOK
<1>14. \A i \in DOMAIN executed : executed[i] \in Nat /\ executed[i] <= C
  <2> SUFFICES ASSUME NEW i \in DOMAIN executed PROVE executed[i] \in Nat /\ executed[i] <= C
    OBVIOUS
  <2>1. executed[i] \in 0 .. MaxCmds
    BY <1>13, SeqElements
  <2>2. executed[i] <= C
    BY <1>1 DEF Done
  <2> QED BY <2>1, <2>2
<1>15. Done(D)'
  <2>1. CASE executed' = executed
    <3>1. \A i \in DOMAIN executed : executed[i] <= D
      BY <1>7, <1>14
    <3> QED BY <1>1, <2>1, <3>1 DEF Done
  <2>2. CASE executed' = Append(executed, D)
    <3>1. D \in 0 .. MaxCmds
      <4>1. gThreadCmdBuffer \in [Slots -> Commands] /\ gCurCmdReadPos \in Slots
        BY DEF TypeOK
      <4> QED BY <1>2, <1>7, <4>1 DEF Commands
    <3>2. C < D
      BY <1>5
    <3>3. \A i, j \in DOMAIN executed : i < j => executed[i] < executed[j]
      BY <1>1 DEF Done
    <3>4. /\ \A i \in DOMAIN Append(executed, D) : Append(executed, D)[i] <= D
          /\ \A i, j \in DOMAIN Append(executed, D) :
               i < j => Append(executed, D)[i] < Append(executed, D)[j]
      BY ONLY <1>13, <1>14, <3>1, <3>2, <3>3, C \in Nat, D \in Nat, StillRising
    <3> QED BY <2>2, <3>4 DEF Done
  <2> QED BY <1>3, <1>7, <2>1, <2>2
<1>16. \A m : Waits(H, m)' <=> Waits(H, m)
  BY <1>3 DEF Waits
<1>17. Announced(R, D, E, H, a, b)'
  <2>1. ASSUME NEW m \in Nat, Waits(H, m) PROVE D <= a[m]
    <3>1. E <= a[m]
      BY <1>1, <1>3, <2>1 DEF Announced
    <3> QED BY <1>7, <3>1
  <2> QED BY <1>1, <1>3, <1>16, <2>1 DEF Announced, Walking
<1>18. Owed(R, D, E, H, a, b)'
  <2>1. ASSUME NEW d \in due' PROVE D < d /\ d <= R /\ Held(E, H, a, b, d)'
    <3>1. d \in due /\ d # D
      BY <1>3, <1>7, <2>1
    <3>2. C < d /\ d <= R /\ Held(E, H, a, b, d) /\ d \in Nat
      BY <1>1, <3>1 DEF Owed, TypeOK, Ids
    <3>3. D < d
      BY <1>5, <3>1, <3>2
    <3>4. Held(E, H, a, b, d)'
      BY <1>3, <1>8, <1>16, <3>2 DEF Held
    <3> QED BY <3>2, <3>3, <3>4
  <2>2. ASSUME NEW p \in Nat, p + 1 \in due' \union pending'
        PROVE  gThreadCmdBuffer'[p % RingSize].op # "stop"
    <3>1. p + 1 \in due \union pending
      BY <1>3, <2>2
    <3>2. gThreadCmdBuffer[p % RingSize].op # "stop"
      BY <1>1, <3>1 DEF Owed
    <3> QED BY <1>9, <3>2
  <2> QED BY <1>1, <1>3, <2>1, <2>2 DEF Owed
<1>19. Near(R, D, H, a, K)'
  <2>1. Room' = Room /\ Idle' /\ burst' = 0 /\ awake'
    BY <1>1, <1>3, <1>4 DEF Near, Room, Idle
  <2>2. K[C] <= K[D] /\ K[D] \in Nat
    BY <1>1, <1>7 DEF Barred
  <2>3. Behind(K[C]) <= Behind(K[D]) /\ Behind(K[D]) \in Nat
    BY <1>4, <2>2, BehindGrows
  <2>4. issued <= D + (DrainCmds + DrainCmds) + Behind(K[D])
    BY <1>4, <1>5, <1>6, <2>3
  <2> QED BY <1>1, <1>3, <1>4, <1>8, <2>1, <2>4 DEF Near
<1>20. Trace(R, D, E, H, a, b, K)'
  BY <1>10, <1>11, <1>12, <1>15, <1>17, <1>18, <1>19 DEF Trace
<1> QED BY <1>20 DEF Traced

\* Every step of a paced ring keeps the trace.
LEMMA NextTraced == ASSUME TypeOK, Paced, Traced, [Next]_vars PROVE Traced'
<1>1. PICK R \in Nat, C \in Nat, E \in Nat, H \in Nat :
        \E a, b, K \in [Nat -> Nat] : Trace(R, C, E, H, a, b, K)
  BY DEF Traced
<1>2. PICK a \in [Nat -> Nat], b \in [Nat -> Nat], K \in [Nat -> Nat] :
        Trace(R, C, E, H, a, b, K)
  BY <1>1
<1>3. ASSUME NEW op \in {"stop", "run"}, QueueCmd(op) PROVE Traced'
  BY <1>2, <1>3, QueueCmdTraced
<1>4. CASE ScheduleRefused \/ ResetCmdQueue
  <2>1. Forgets
    BY <1>4 DEF ScheduleRefused, ResetCmdQueue, Forgets, walker
  <2> QED BY <1>2, <2>1, ForgetsTraced
<1>5. CASE ScheduleBegin
  BY <1>2, <1>5, ScheduleBeginTraced
<1>6. CASE ScheduleEnd
  BY <1>2, <1>6, ScheduleEndTraced
<1>7. CASE BufferStart
  BY <1>2, <1>7, BufferStartTraced
<1>8. CASE BufferDone
  BY <1>2, <1>8, BufferDoneTraced
<1>9. CASE ReceiveWindow
  BY <1>2, <1>9, ReceiveWindowTraced
<1>10. CASE WindowDone
  BY <1>2, <1>10, WindowDoneTraced
<1>11. CASE StopWalk
  BY <1>2, <1>11, StopWalkTraced
<1>12. CASE ExecuteCmd
  BY <1>2, <1>12, ExecuteCmdTraced
<1>13. CASE UNCHANGED vars
  <2>1. Trace(R, C, E, H, a, b, K)'
    BY <1>2, <1>13 DEF vars, game, walker, Trace, Stands, Filled, Barred, Announced, Owed,
                       Held, Done, Near, Room, Waits, Walking, Idle
  <2> QED BY <2>1 DEF Traced
<1> QED BY <1>3, <1>4, <1>5, <1>6, <1>7, <1>8, <1>9, <1>10, <1>11, <1>12, <1>13
        DEF Next, GameStep, AudioStep

\* What has run is in order, and before all that is owed.
LEMMA TracedInOrder == ASSUME TypeOK, Traced PROVE InOrder
<1>1. PICK R \in Nat, C \in Nat, E \in Nat, H \in Nat :
        \E a, b, K \in [Nat -> Nat] : Trace(R, C, E, H, a, b, K)
  BY DEF Traced
<1>2. PICK a \in [Nat -> Nat], b \in [Nat -> Nat], K \in [Nat -> Nat] :
        Trace(R, C, E, H, a, b, K)
  BY <1>1
<1>3. Done(C) /\ \A d \in due : C < d
  BY <1>2 DEF Trace, Owed
<1>4. ASSUME NEW d \in due, NEW i \in DOMAIN executed PROVE executed[i] < d
  <2>1. d \in Nat
    BY DEF TypeOK, Ids
  <2>2. executed[i] \in 0 .. MaxCmds
    <3>1. executed \in Seq(0 .. MaxCmds)
      BY DEF TypeOK
    <3> QED BY <3>1, SeqElements
  <2> QED BY <1>3, <2>1, <2>2 DEF Done
<1> QED BY <1>3, <1>4 DEF InOrder, Done

\* Without a message and a walk, only a STOP holds back what is owed.
LEMMA TracedHeldByStop == ASSUME TypeOK, Traced PROVE HeldByStop
<1>1. PICK R \in Nat, C \in Nat, E \in Nat, H \in Nat :
        \E a, b, K \in [Nat -> Nat] : Trace(R, C, E, H, a, b, K)
  BY DEF Traced
<1>2. PICK a \in [Nat -> Nat], b \in [Nat -> Nat], K \in [Nat -> Nat] :
        Trace(R, C, E, H, a, b, K)
  BY <1>1
<1> SUFFICES ASSUME ~awake, gThreadCmdProcQueue.valid = 0, NEW d \in due
             PROVE  gThreadCmdQueueFinished
  BY DEF HeldByStop
<1>3. Held(E, H, a, b, d) /\ ~Walking
  BY <1>2 DEF Trace, Owed, Near
<1>4. \A m \in Nat : ~Waits(H, m)
  BY DEF Waits
<1> QED BY <1>3, <1>4 DEF Held

\* When the vblank does not fall into osSendMesg and the ring has PacedRing slots, the
\* announced commands run in the order in which they were queued, across frames, refused
\* and discarded windows, STOPs and the wrap of the ring.
THEOREM CommandsInOrder == ASSUME Paced PROVE Spec => []InOrder
<1>1. Init => TypeOK /\ Traced
  BY InitTypeOK, InitTraced
<1>2. TypeOK /\ Traced /\ [Next]_vars => (TypeOK /\ Traced)'
  BY NextTypeOK, NextTraced
<1>3. TypeOK /\ Traced => InOrder
  BY TracedInOrder
<1> QED BY <1>1, <1>2, <1>3, PTL DEF Spec

\* And then, whenever the audio thread sleeps without a message, what has not run waits
\* behind a STOP and the flag is set that lets the next message go on there.
THEOREM OnlyStopsHold == ASSUME Paced PROVE Spec => []HeldByStop
<1>1. Init => TypeOK /\ Traced
  BY InitTypeOK, InitTraced
<1>2. TypeOK /\ Traced /\ [Next]_vars => (TypeOK /\ Traced)'
  BY NextTypeOK, NextTraced
<1>3. TypeOK /\ Traced => HeldByStop
  BY TracedHeldByStop
<1> QED BY <1>1, <1>2, <1>3, PTL DEF Spec
=============================================================================
