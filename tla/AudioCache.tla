----------------------------- MODULE AudioCache ------------------------------
(***************************************************************************)
(* The caches of sequences and sound fonts in the audio heap               *)
(* (src/src/audio/audio_heap.c), the loads that fill them, on the spot or  *)
(* chunk by chunk behind the music (audio_load.c), and the sequence        *)
(* players that read them (audio_seqplayer.c).                             *)
(*                                                                         *)
(* A table has a persistent pool, filled once, and a temporary one with    *)
(* two entries that grow towards each other.  Nothing counts references:   *)
(* an entry's load status is all that tells a reader, a day's music later, *)
(* that the memory its pointers lead to is still its own.                  *)
(*                                                                         *)
(* All of it runs in the audio thread, once a buffer: loads, a step of the *)
(* reset, the commands of the game thread, the players.  A command and the *)
(* request of the game it stems from are one step here: the ring keeps     *)
(* their order, and only the message of a finished load goes back.         *)
(*                                                                         *)
(* The permanent pool is left out: it is filled at boot with the fonts and *)
(* sequences of the sound effects and voices, which nothing discards.      *)
(* Sample banks are never cached (CACHEPOLICY_4).  Sizes are multiples of  *)
(* 16 bytes.                                                               *)
(***************************************************************************)
EXTENDS Integers, FiniteSets

CONSTANTS
  BgmSeqs,     \* sequences of the background music player
  Fanfares,    \* sequences of the fanfare player
  Flagged,     \* those of BgmSeqs whose id carries SEQ_FLAG
  SeqFont,     \* gSeqFontTable: the one font of such a sequence
  Size,        \* of each sequence and font
  KeptSize,    \* size of the persistent pool of each table
  TempSize,    \* size of the temporary pool of each table
  NumLoads,    \* slots of gAsyncLoads (16 in the code)
  LoadDelay,   \* buffers a load waits before its first chunk (3 in the code)
  None         \* id -1, no sequence

Seqs    == BgmSeqs \cup Fanfares
Fonts   == {SeqFont[s] : s \in Seqs}
Tables  == {"seq", "font"}
Ids(t)  == IF t = "font" THEN Fonts ELSE Seqs
Players == {"bgm", "fanfare"}   \* the players of effects and voices use permanent data
Sides   == {0, 1}

\* The last three are facts about the tables in audio_tables.c and about who plays
\* what: the two largest of the cached fonts fit gFontCache together, the fonts of
\* the stages' musics are not those of fanfares, and fanfares share one font.  (The
\* music of the last clear, SEQ_ID_VE_CLEAR, has the fanfares' font: it is left out.)
ASSUME CacheAssumptions ==
  /\ Flagged \subseteq BgmSeqs
  /\ None \notin Seqs \cup Fonts
  /\ Size \in [Seqs \cup Fonts -> Nat \ {0}]
  /\ KeptSize \in [Tables -> Nat]
  /\ TempSize \in [Tables -> Nat]
  /\ NumLoads \in Nat \ {0}
  /\ LoadDelay \in Nat \ {0}
  /\ \A t \in Tables : \A i \in Ids(t) : Size[i] <= TempSize[t]

ASSUME TableFacts ==
  /\ BgmSeqs \cap Fanfares = {}
  /\ \A f, g \in Fonts : f # g => Size[f] + Size[g] <= TempSize["font"]
  /\ \A s \in Flagged : \A r \in Fanfares : SeqFont[s] # SeqFont[r]
  /\ \A r, s \in Fanfares : SeqFont[r] = SeqFont[s]

VARIABLES
  caches,    \* gSeqCache, gFontCache with gSeqLoadStatus, gFontLoadStatus
  base,      \* gSoundFontList[].instruments: where each font was last relocated
  loads,     \* gAsyncLoads
  players,   \* gSeqPlayers
  sounding,  \* the fonts notes play from, and where they found them
  waiting,   \* the sequence the background music waits for, or None
  arrived,   \* messages in gExternalLoadQueue
  resetting, \* gAudioResetStep # 0
  phase,     \* where the buffer is: "loads", "cmds" or "players"
  turn,      \* the loads, or players, done in this phase
  asked      \* a sequence was asked for in this buffer

audio == <<caches, base, loads, players, sounding>>
vars  == <<audio, waiting, arrived, resetting, phase, turn, asked>>

Statuses == {"NOT_LOADED", "IN_PROGRESS", "COMPLETE", "DISCARDABLE", "MAYBE_DISCARDABLE"}
Usable   == {"COMPLETE", "DISCARDABLE", "MAYBE_DISCARDABLE"}   \* >= LOAD_STATUS_COMPLETE

\* The memory of a table: its persistent pool, then its temporary one.
Cells(t) == 0 .. KeptSize[t] + TempSize[t] - 1
NoPlace  == -1
NoSide   == 2

EmptyCache(t) ==
  [status   |-> [i \in Ids(t) |-> "NOT_LOADED"],
   kept     |-> [i \in Ids(t) |-> NoPlace],     \* the persistent entries
   used     |-> 0,                              \* persistent.pool.curRamAddr
   nextSide |-> 0,
   entry    |-> [s \in Sides |-> None],         \* temporary.entries[].id
   at       |-> [s \in Sides |-> IF s = 0 THEN 0 ELSE TempSize[t]], \* their ramAddr
   cur      |-> 0,                              \* temporary.pool.curRamAddr
   mem      |-> [a \in Cells(t) |-> None]]      \* whose data each cell holds

IdleLoad == [active |-> FALSE, font |-> None, at |-> NoPlace, done |-> 0, delay |-> 0]
NoMusic  == [on |-> FALSE, seq |-> None, data |-> NoPlace, insts |-> NoPlace]

\* What the helpers below read and return.
World(cs, b, ls, ps, n) == [caches |-> cs, base |-> b, loads |-> ls, players |-> ps, sounding |-> n]
W == World(caches, base, loads, players, sounding)

Init ==
  /\ caches = [t \in Tables |-> EmptyCache(t)]
  /\ base = [f \in Fonts |-> NoPlace]
  /\ loads = [i \in 1 .. NumLoads |-> IdleLoad]
  /\ players = [p \in Players |-> NoMusic]
  /\ sounding = {}
  /\ waiting = None
  /\ arrived = 0
  /\ resetting = FALSE
  /\ phase = "loads"
  /\ turn = 0
  /\ asked = FALSE
-----------------------------------------------------------------------------
(* One cache.                                                              *)

\* AudioHeap_SearchRegularCaches: where the data of id is.
Find(t, c, id) ==
  IF c.kept[id] # NoPlace THEN c.kept[id]
  ELSE IF c.entry[0] = id THEN KeptSize[t] + c.at[0]
  ELSE IF c.entry[1] = id THEN KeptSize[t] + c.at[1]
  ELSE NoPlace

\* The side that was not found is the next to go.
Found(c, id) ==
  IF c.kept[id] # NoPlace THEN c
  ELSE [c EXCEPT !.nextSide = IF c.entry[0] = id THEN 1 ELSE 0]

SetStatus(c, id, status) == [c EXCEPT !.status[id] = status]

SideStatus(c, side) == IF c.entry[side] = None THEN "NOT_LOADED" ELSE c.status[c.entry[side]]

\* A font left by its player goes first once none of its notes sounds.
Released(c, busy) ==
  [c EXCEPT !.status = [i \in DOMAIN c.status |->
     IF /\ c.status[i] = "MAYBE_DISCARDABLE"
        /\ \E s \in Sides : c.entry[s] = i
        /\ i \notin busy
     THEN "DISCARDABLE" ELSE c.status[i]]]

Lower(sides) == IF 0 \in sides THEN 0 ELSE 1

\* The side AudioHeap_AllocCached gives up: an empty one, a discardable one, an idle
\* one, and at last the one that is due, except if it is being loaded into.
\* (Mutated: without the exception.)
DueSide(c, busy) == IF c.entry[0] = None THEN 0 ELSE c.nextSide
ChosenSide(c, busy) ==
  LET Of(status) == {s \in Sides : SideStatus(c, s) = status}
      idle == {s \in Of("COMPLETE") : c.entry[s] \notin busy}
      free == Sides \ Of("IN_PROGRESS")
  IN  IF Of("NOT_LOADED") # {} THEN Lower(Of("NOT_LOADED"))
      ELSE IF Of("DISCARDABLE") = Sides THEN c.nextSide
      ELSE IF Of("DISCARDABLE") # {} THEN Lower(Of("DISCARDABLE"))
      ELSE IF idle # {} THEN Lower(idle)
      ELSE IF c.nextSide \in free THEN c.nextSide
      ELSE IF free # {} THEN 1 - c.nextSide
      ELSE NoSide

\* What an allocation finds in its memory is of no use.
Blank(c, place, size) ==
  [c EXCEPT !.mem = [a \in DOMAIN c.mem |->
     IF a \in place .. place + size - 1 THEN None ELSE c.mem[a]]]

Filled(c, id, place) ==
  [c EXCEPT !.mem = [a \in DOMAIN c.mem |->
     IF a \in place .. place + Size[id] - 1 THEN id ELSE c.mem[a]]]

\* The other entry is in the way of the new one.  (Mutated: one unit short.)
AlmostOverlaps(c, side, start, end) ==
  /\ c.entry[1 - side] # None
  /\ IF side = 0 THEN c.at[1] + 1 < end ELSE start + 1 < c.cur
Overlaps(c, side, start, end) ==
  /\ c.entry[1 - side] # None
  /\ IF side = 0 THEN c.at[1] < end ELSE start < c.cur

\* The entries that lose their data have their status cleared.  (Mutated: not the one
\* that is overlapped.)
ClearChosen(c, chosen, over) ==
  [i \in DOMAIN c.status |-> IF i \in chosen THEN "NOT_LOADED" ELSE c.status[i]]
ClearLost(c, chosen, over) ==
  [i \in DOMAIN c.status |-> IF i \in chosen \cup over THEN "NOT_LOADED" ELSE c.status[i]]

\* An entry in the temporary pool: side 0 at its start, side 1 at its end.
PlaceEntry(t, c, side, id) ==
  LET start  == IF side = 0 THEN 0 ELSE TempSize[t] - Size[id]
      end    == start + Size[id]
      over   == Overlaps(c, side, start, end)
      chosen == {c.entry[side]} \ {None}
      lost   == IF over THEN {c.entry[1 - side]} ELSE {}
      at     == [s \in Sides |-> IF s = side THEN start
                                 ELSE IF over /\ side = 0 THEN TempSize[t] ELSE c.at[s]]
      placed == [c EXCEPT
                  !.entry    = [s \in Sides |-> IF s = side THEN id ELSE IF over THEN None ELSE c.entry[s]],
                  !.at       = at,
                  !.cur      = IF side = 0 THEN end ELSE IF over THEN 0 ELSE @,
                  !.status   = ClearLost(c, chosen, lost),
                  !.nextSide = 1 - side]
  IN  [cache |-> Blank(placed, KeptSize[t] + start, Size[id]), place |-> KeptSize[t] + start,
       chosen |-> chosen, over |-> lost]

AllocTemporary(t, c, id, busy) ==
  LET released == Released(c, busy)
      side     == ChosenSide(released, busy)
  IN  IF side = NoSide THEN [cache |-> released, place |-> NoPlace, chosen |-> {}, over |-> {}]
      ELSE PlaceEntry(t, released, side, id)

\* AudioHeap_Alloc from the persistent pool.  (Mutated: the last one need not fit.)
HasAny(t, c, id) == c.used < KeptSize[t]
HasRoom(t, c, id) == c.used + Size[id] <= KeptSize[t]

\* AudioHeap_AllocCached for CACHE_EITHER.
AllocCached(t, c, id, busy) ==
  IF HasRoom(t, c, id)
  THEN [cache |-> Blank([c EXCEPT !.kept[id] = c.used, !.used = c.used + Size[id]], c.used, Size[id]),
        place |-> c.used, chosen |-> {}, over |-> {}]
  ELSE AllocTemporary(t, c, id, busy)
-----------------------------------------------------------------------------
(* The caches with those who read them.                                    *)

\* What is in active use: the fonts of sounding notes, the sequences being played.
Busy(w, t) ==
  IF t = "font" THEN {n[1] : n \in w.sounding}
  ELSE {w.players[p].seq : p \in {q \in Players : w.players[q].on}}

\* AudioHeap_DiscardFont: the notes that play from the font end.
DiscardNotes(w, fonts) == [w EXCEPT !.sounding = {n \in @ : n[1] \notin fonts}]

\* AudioSeq_SequencePlayerDisable leaves what it played for others to evict.
Left(c, id, status) == IF c.status[id] \in Usable THEN SetStatus(c, id, status) ELSE c

Disable(w, p) ==
  LET s == w.players[p].seq IN
  IF s = None THEN w
  ELSE LET f    == SeqFont[s]
           left == Left(w.caches["font"], f, "MAYBE_DISCARDABLE")
           side == IF left.entry[0] = f THEN 1 ELSE IF left.entry[1] = f THEN 0 ELSE left.nextSide
       IN  [w EXCEPT !.players[p] = [NoMusic EXCEPT !.seq = s],
                     !.caches = [t \in Tables |-> IF t = "seq" THEN Left(w.caches["seq"], s, "DISCARDABLE")
                                                  ELSE [left EXCEPT !.nextSide = side]]]

\* AudioHeap_DiscardSequence.
DisableIf(w, p, seqs) == IF w.players[p].on /\ w.players[p].seq \in seqs THEN Disable(w, p) ELSE w
DiscardSequences(w, seqs) == DisableIf(DisableIf(w, "bgm", seqs), "fanfare", seqs)

\* AudioHeap_AllocCached with the readers it stops: the notes of the fonts that go,
\* the players of a sequence that is overlapped.  (Mutated: not the notes of the font
\* on the chosen side.)
StopOverlapped(w, t, r) == DiscardNotes([w EXCEPT !.caches[t] = r.cache], r.over)
StopReaders(w, t, r) ==
  LET given == [w EXCEPT !.caches[t] = r.cache]
  IN  IF t = "font" THEN DiscardNotes(given, r.chosen \cup r.over)
      ELSE DiscardSequences(given, r.over)

\* AudioLoad_SyncLoad, for a font with its relocation.
SyncLoad(w, t, id) ==
  LET c == w.caches[t]
      r == AllocCached(t, c, id, Busy(w, t))
      v == StopReaders(w, t, r)
  IN  IF Find(t, c, id) # NoPlace
      THEN [w EXCEPT !.caches[t] = SetStatus(Found(c, id), id, "COMPLETE")]
      ELSE IF r.place = NoPlace THEN v
      ELSE [v EXCEPT !.caches[t] = SetStatus(Filled(v.caches[t], id, r.place), id, "COMPLETE"),
                     !.base = IF t = "font" THEN [@ EXCEPT ![id] = r.place] ELSE @]

\* AudioLoad_SyncInitSeqPlayerInternal.  (Mutated: the player goes on with what it has
\* while its sequence is loaded.)
InitUnstopped(w, p, s) ==
  LET v == SyncLoad(SyncLoad(w, "font", SeqFont[s]), "seq", s)
  IN  [v EXCEPT !.players[p].on = TRUE, !.players[p].seq = s]
InitPlayer(w, p, s) ==
  LET v == SyncLoad(SyncLoad(Disable(w, p), "font", SeqFont[s]), "seq", s)
  IN  [v EXCEPT !.players[p] = [on |-> TRUE, seq |-> s, data |-> Find("seq", v.caches["seq"], s),
                                insts |-> NoPlace]]

\* AudioLoad_DiscardSeqFonts: the memory of a persistent entry is not had back.
DiscardFont(w, f) ==
  LET c     == w.caches["font"]
      entry == [s \in Sides |-> IF c.entry[s] = f /\ (s = 1 => c.entry[0] # f) THEN None ELSE c.entry[s]]
  IN  DiscardNotes([w EXCEPT !.caches["font"] =
                      [SetStatus(c, f, "NOT_LOADED") EXCEPT !.entry = entry, !.kept[f] = NoPlace]], {f})

\* AudioLoad_StartAsyncLoad: nothing is started when every slot is taken.
StartLoad(w, f, place) ==
  LET idle == {i \in 1 .. NumLoads : ~w.loads[i].active}
      slot == CHOOSE i \in idle : \A j \in idle : i <= j
  IN  IF idle = {} THEN w
      ELSE [w EXCEPT !.loads[slot] =
              [active |-> TRUE, font |-> f, at |-> place, done |-> 0, delay |-> LoadDelay]]

\* AudioLoad_AsyncLoadInner, and the messages it sends itself.
AsyncLoad(w, f) ==
  LET c == w.caches["font"]
      r == AllocCached("font", c, f, Busy(w, "font"))
      v == StopReaders(w, "font", r)
  IN  IF c.status[f] = "IN_PROGRESS" THEN w
      ELSE IF Find("font", c, f) # NoPlace
      THEN [w EXCEPT !.caches["font"] = SetStatus(Found(c, f), f, "COMPLETE")]
      ELSE IF r.place = NoPlace THEN v
      ELSE [StartLoad(v, f, r.place) EXCEPT !.caches["font"] = SetStatus(@, f, "IN_PROGRESS")]
AnswersAtOnce(w, f) ==
  w.caches["font"].status[f] # "IN_PROGRESS" /\ Find("font", w.caches["font"], f) # NoPlace

Become(w) ==
  /\ caches' = w.caches
  /\ base' = w.base
  /\ loads' = w.loads
  /\ players' = w.players
  /\ sounding' = w.sounding
-----------------------------------------------------------------------------
(* A buffer: AudioLoad_ProcessAsyncLoads first.                            *)

NextLoad ==
  /\ phase = "loads"
  /\ turn' = turn + 1
  /\ UNCHANGED <<waiting, resetting, phase, asked>>

\* The delay of a load runs out before its first chunk.
LoadWaits ==
  /\ turn < NumLoads
  /\ LET load == loads[turn + 1] IN
       /\ load.active => load.delay > 1
       /\ loads' = [loads EXCEPT ![turn + 1].delay = IF load.active THEN @ - 1 ELSE @]
  /\ NextLoad
  /\ UNCHANGED <<caches, base, players, sounding, arrived>>

Processed(load) == load.active /\ load.delay <= 1
Cancels(load) == load.delay = 0 /\ resetting

\* A reset cancels a load between two chunks; it sends no message.
LoadCancelled ==
  /\ turn < NumLoads
  /\ Processed(loads[turn + 1])
  /\ Cancels(loads[turn + 1])
  /\ loads' = [loads EXCEPT ![turn + 1] = IdleLoad]
  /\ NextLoad
  /\ UNCHANGED <<caches, base, players, sounding, arrived>>

\* A chunk is copied; one cell stands for it.
LoadChunk ==
  /\ turn < NumLoads
  /\ LET load == loads[turn + 1] IN
       /\ Processed(load)
       /\ ~Cancels(load)
       /\ load.done < Size[load.font]
       /\ loads' = [loads EXCEPT ![turn + 1].done = @ + 1, ![turn + 1].delay = 0]
       /\ caches' = [caches EXCEPT !["font"].mem[load.at + load.done] = load.font]
  /\ NextLoad
  /\ UNCHANGED <<base, players, sounding, arrived>>

\* The last chunk is in: the font is relocated and the game thread told.
LoadComplete ==
  /\ turn < NumLoads
  /\ LET load == loads[turn + 1] IN
       /\ Processed(load)
       /\ ~Cancels(load)
       /\ load.done = Size[load.font]
       /\ caches' = [caches EXCEPT !["font"] = SetStatus(@, load.font, "COMPLETE")]
       /\ base' = [base EXCEPT ![load.font] = load.at]
  /\ loads' = [loads EXCEPT ![turn + 1] = IdleLoad]
  /\ arrived' = arrived + 1
  /\ NextLoad
  /\ UNCHANGED <<players, sounding>>

LoadsDone ==
  /\ phase = "loads"
  /\ turn = NumLoads
  /\ phase' = "cmds"
  /\ turn' = 0
  /\ UNCHANGED <<audio, waiting, arrived, resetting, asked>>
-----------------------------------------------------------------------------
(* Then the reset: AudioHeap_ResetStep, its first step and its last.        *)

ResetBegin ==
  /\ phase = "cmds"
  /\ ~resetting
  /\ ~asked
  /\ resetting' = TRUE
  /\ Become(Disable(Disable(W, "bgm"), "fanfare"))
  /\ UNCHANGED <<waiting, arrived, phase, turn, asked>>

\* In its last steps no command is looked at and no player runs.
ResetGoesOn ==
  /\ phase = "cmds"
  /\ resetting
  /\ ~asked
  /\ phase' = "loads"
  /\ UNCHANGED <<audio, waiting, arrived, resetting, turn, asked>>

\* AudioHeap_Init.  No load is left by then (AudioReset, NoLoadAcrossInit).
HeapInit ==
  /\ phase = "cmds"
  /\ resetting
  /\ ~asked
  /\ \A i \in 1 .. NumLoads : ~loads[i].active
  /\ resetting' = FALSE
  /\ caches' = [t \in Tables |-> EmptyCache(t)]
  /\ sounding' = {}
  /\ phase' = "loads"
  /\ UNCHANGED <<base, loads, players, waiting, arrived, turn, asked>>
-----------------------------------------------------------------------------
(* Then the commands of the game thread.                                   *)

\* A bound: one sequence is asked for between two buffers.  With a second one a font
\* can be evicted and back in another place before its player looks at the status.
Command ==
  /\ phase = "cmds"
  /\ ~asked
  /\ asked' = TRUE
  /\ UNCHANGED <<resetting, phase, turn>>

\* SEQCMD_OP_PLAY_SEQUENCE without SEQ_FLAG: AUDIOCMD_OP_GLOBAL_INIT_SEQPLAYER.
Play(p, s) ==
  /\ Command
  /\ IF p = "bgm" THEN waiting = None /\ s \in BgmSeqs \ Flagged ELSE s \in Fanfares
  /\ Become(InitPlayer(W, p, s))
  /\ UNCHANGED <<waiting, arrived>>

\* And with it: DISCARD_SEQ_FONTS if the font is thought to change, ASYNC_LOAD_FONT.
PlayFlagged(s, discard) ==
  LET w == IF discard THEN DiscardFont(W, SeqFont[s]) ELSE W IN
  /\ Command
  /\ waiting = None
  /\ s \in Flagged
  /\ waiting' = s
  /\ Become(AsyncLoad(w, SeqFont[s]))
  /\ arrived' = arrived + IF AnswersAtOnce(w, SeqFont[s]) THEN 1 ELSE 0

\* The message of a load starts the music that waits for it.
FontArrived ==
  /\ Command
  /\ waiting # None
  /\ arrived > 0
  /\ arrived' = arrived - 1
  /\ waiting' = None
  /\ Become(InitPlayer(W, "bgm", waiting))

\* AUDIOCMD_OP_GLOBAL_DISABLE_SEQPLAYER without a fade; with one, a player ends.
Stop(p) ==
  /\ phase = "cmds"
  /\ players[p].on
  /\ Become(Disable(W, p))
  /\ UNCHANGED <<waiting, arrived, resetting, phase, turn, asked>>

CmdsDone ==
  /\ phase = "cmds"
  /\ phase' = "players"
  /\ asked' = FALSE
  /\ UNCHANGED <<audio, waiting, arrived, resetting, turn>>
-----------------------------------------------------------------------------
(* Last the players: AudioSeq_SequencePlayerProcessSequence.               *)

Turns == <<"bgm", "fanfare">>
NextPlayer ==
  /\ phase = "players"
  /\ turn < 2
  /\ turn' = turn + 1
  /\ UNCHANGED <<waiting, arrived, resetting, phase, asked>>

\* Its data is there, as far as the load status tells.
MayRead(w, p) ==
  /\ w.caches["seq"].status[w.players[p].seq] \in Usable
  /\ w.caches["font"].status[SeqFont[w.players[p].seq]] \in Usable

PlayerStops(p) ==
  /\ NextPlayer
  /\ Turns[turn + 1] = p
  /\ Become(IF players[p].on THEN Disable(W, p) ELSE W)

\* It marks its data as used and reads its script.
Reading(w, p) ==
  [w EXCEPT !.caches = [t \in Tables |->
     SetStatus(w.caches[t], IF t = "seq" THEN w.players[p].seq ELSE SeqFont[w.players[p].seq], "COMPLETE")]]

PlayerRests(p) ==
  /\ NextPlayer
  /\ Turns[turn + 1] = p
  /\ players[p].on
  /\ MayRead(W, p)
  /\ Become(Reading(W, p))

\* A note takes its samples where the channel found its instrument, now or earlier.
PlayerPlays(p) ==
  LET f == SeqFont[players[p].seq]
      w == Reading(W, p)
  IN
  /\ NextPlayer
  /\ Turns[turn + 1] = p
  /\ players[p].on
  /\ MayRead(W, p)
  /\ \E insts \in {players[p].insts, base[f]} \ {NoPlace} :
       Become([w EXCEPT !.players[p].insts = insts, !.sounding = @ \cup {<<f, insts>>}])

\* AudioPlayback_ProcessNotes comes after the players.
NoteEnds ==
  /\ phase = "players"
  /\ turn = 2
  /\ \E n \in sounding : sounding' = sounding \ {n}
  /\ UNCHANGED <<caches, base, loads, players, waiting, arrived, resetting, phase, turn, asked>>

BufferDone ==
  /\ phase = "players"
  /\ turn = 2
  /\ phase' = "loads"
  /\ turn' = 0
  /\ UNCHANGED <<audio, waiting, arrived, resetting, asked>>
-----------------------------------------------------------------------------
Next ==
  \/ LoadWaits
  \/ LoadCancelled
  \/ LoadChunk
  \/ LoadComplete
  \/ LoadsDone
  \/ ResetBegin
  \/ ResetGoesOn
  \/ HeapInit
  \/ \E p \in Players, s \in Seqs : Play(p, s)
  \/ \E s \in Seqs, discard \in BOOLEAN : PlayFlagged(s, discard)
  \/ FontArrived
  \/ \E p \in Players : Stop(p) \/ PlayerStops(p) \/ PlayerRests(p) \/ PlayerPlays(p)
  \/ CmdsDone
  \/ NoteEnds
  \/ BufferDone

Spec == Init /\ [][Next]_vars
-----------------------------------------------------------------------------
Cache(t) ==
  [status: [Ids(t) -> Statuses], kept: [Ids(t) -> {NoPlace} \cup 0 .. KeptSize[t]], used: 0 .. KeptSize[t],
   nextSide: Sides, entry: [Sides -> Ids(t) \cup {None}], at: [Sides -> 0 .. TempSize[t]],
   cur: 0 .. TempSize[t], mem: [Cells(t) -> Ids(t) \cup {None}]]
Places(t) == {NoPlace} \cup Cells(t)
Load == [active: BOOLEAN, font: Fonts \cup {None}, at: Places("font"), done: Nat, delay: 0 .. LoadDelay]
Player == [on: BOOLEAN, seq: Seqs \cup {None}, data: Places("seq"), insts: Places("font")]

\* Every variable has its type; the persistent pools are not overdrawn.
TypeOK ==
  /\ DOMAIN caches = Tables
  /\ \A t \in Tables : caches[t] \in Cache(t)
  /\ base \in [Fonts -> Places("font")]
  /\ loads \in [1 .. NumLoads -> Load]
  /\ players \in [Players -> Player]
  /\ sounding \subseteq Fonts \X Cells("font")
  /\ waiting \in Flagged \cup {None}
  /\ arrived \in 0 .. 1
  /\ resetting \in BOOLEAN
  /\ phase \in {"loads", "cmds", "players"}
  /\ turn \in Nat
  /\ asked \in BOOLEAN

\* The entry of side 0 ends where that of side 1 begins, or before.
EntriesApart ==
  \A t \in Tables :
    LET c == caches[t] IN
    c.entry[0] # None /\ c.entry[1] # None => c.at[0] + Size[c.entry[0]] <= c.at[1]

Whole(t, id, place) == \A a \in place .. place + Size[id] - 1 : caches[t].mem[a] = id

\* What the load status says can be used is in the cache, whole, and for a font the
\* instruments lead there.
StatusTrue ==
  \A t \in Tables : \A i \in Ids(t) :
    caches[t].status[i] \in Usable =>
      /\ Find(t, caches[t], i) # NoPlace
      /\ Whole(t, i, Find(t, caches[t], i))
      /\ t = "font" => base[i] = Find(t, caches[t], i)

\* A load under way has a slot of its own, copies into the entry of its font, and
\* a music waits for it.
LoadsOwn ==
  \A i \in 1 .. NumLoads : loads[i].active =>
    LET f == loads[i].font IN
    /\ caches["font"].status[f] = "IN_PROGRESS"
    /\ Find("font", caches["font"], f) = loads[i].at
    /\ waiting # None /\ SeqFont[waiting] = f
    /\ \A j \in 1 .. NumLoads : loads[j].active => j = i

\* A player that takes its data for usable reads its own sequence, and through its
\* channels' instruments its own font.
PlayersRead ==
  \A p \in Players : players[p].on /\ MayRead(W, p) =>
    /\ players[p].data # NoPlace
    /\ Whole("seq", players[p].seq, players[p].data)
    /\ players[p].insts # NoPlace => Whole("font", SeqFont[players[p].seq], players[p].insts)

\* The samples of a sounding note are where it found them.
NotesIntact == \A n \in sounding : Whole("font", n[1], n[2])
=============================================================================
