------------------------------ MODULE AicaSynth ------------------------------
(***************************************************************************)
(* How the sequencer's notes are put on the AICA's channels                *)
(* (src/src/audio/aica_synth.c).  A note that plays a short sample or a    *)
(* wave is a voice; a sample too long for a channel is streamed through a  *)
(* ring by one of a few stream slots.  Short samples are loaded into sound *)
(* RAM on demand and kept in a cache; an entry counts the voices that play *)
(* from it, and one that nobody plays may be evicted.                      *)
(*                                                                         *)
(* The audio thread lets the sequences change the notes for a few ticks,   *)
(* copying them to a slice after each tick, and then puts the last slice   *)
(* on the channels, note by note.  The game thread throws the cache's idle *)
(* entries away when it loads a scene (AicaSynth_ClearSampleCache); the    *)
(* audio thread may preempt it there if Preemptive.                        *)
(***************************************************************************)
EXTENDS Integers, Sequences, FiniteSets

CONSTANTS
  NumNotes,        \* gNumNotes
  NumStreams,      \* MAX_STREAMS
  NumChannels,     \* NUM_AICA_CHANNELS
  NumEntries,      \* ARAM_CACHE_ENTRIES
  AramSize,        \* sound RAM for samples, in units
  TicksPerUpdate,  \* slices before one is put on the channels
  Short, Long, Wave, Unknown,  \* sounds: samples, streamed samples, waves, not in the table
  Units,           \* the units of sound RAM a short sample needs
  None,            \* KEY_EMPTY
  Preemptive       \* whether the audio thread preempts the scene load

Sounds   == Short \cup Long \cup Wave \cup Unknown
Notes    == 1 .. NumNotes
Streams  == 1 .. NumStreams
Channels == 1 .. NumChannels
Entries  == 1 .. NumEntries

ASSUME AicaAssumption ==
  /\ NumNotes \in Nat \ {0} /\ NumEntries \in Nat \ {0}
  /\ NumStreams \in Nat /\ NumChannels \in Nat /\ AramSize \in Nat
  /\ TicksPerUpdate \in Nat \ {0}
  /\ Units \in [Short -> Nat \ {0}]
  /\ None \notin Sounds
  /\ Short \cap (Long \cup Wave \cup Unknown) = {}
  /\ Long \cap (Wave \cup Unknown) = {}
  /\ Preemptive \in BOOLEAN

VARIABLES
  note,    \* gNotes[i].noteSubEu
  slice,   \* the gNoteSubsEu slice copied last
  tick,    \* ticks of this update that are done
  pos,     \* the note AicaSynth_Update is at; 0 outside
  aica,    \* the synth's state and the hardware's, see Idle
  clear    \* where the game thread is in AicaSynth_ClearSampleCache

vars == <<note, slice, tick, pos, aica, clear>>

\* What a note shows the synth.
Off == [enabled |-> FALSE, finished |-> FALSE, needsInit |-> FALSE, sound |-> None]

NoVoice  == [channel |-> 0, active |-> FALSE, sampleKey |-> None, entry |-> 0]
NoStream == [noteIndex |-> 0, channel |-> 0, key |-> None, done |-> FALSE]
NoEntry  == [key |-> None, aram |-> 0, refs |-> 0, lru |-> 0]
Silent   == [key |-> None, aram |-> 0]

\* Each channel appears once, the lowest on top.
Idle ==
  [voices  |-> [i \in Notes |-> NoVoice],
   streams |-> [s \in Streams |-> NoStream],
   free    |-> [n \in Channels |-> NumChannels + 1 - n],  \* sChanFree, its top last
   cache   |-> [e \in Entries |-> NoEntry],
   blocks  |-> {},                             \* snd_mem's blocks and what was loaded there
   hw      |-> [c \in Channels |-> Silent]]    \* what a channel plays and from where

Init ==
  /\ note = [i \in Notes |-> Off]
  /\ slice = [i \in Notes |-> Off]
  /\ tick = 0
  /\ pos = 0
  /\ aica = Idle
  /\ clear = <<"idle", 0>>
-----------------------------------------------------------------------------
(* Sound RAM: snd_mem_malloc takes the lowest gap that is wide enough.     *)

Gap(m, len, a) ==
  /\ a + len - 1 <= AramSize
  /\ \A b \in m.blocks : a + len <= b.base \/ b.base + b.len <= a

Gaps(m, len) == {a \in 1 .. AramSize : Gap(m, len, a)}

Lowest(S) == CHOOSE a \in S : \A b \in S : a <= b

FreeBlock(m, a) == [m EXCEPT !.blocks = {b \in @ : b.base # a}]
-----------------------------------------------------------------------------
(* The cache of samples.                                                   *)

Resident(m) == {e \in Entries : m.cache[e].key # None}

\* Entries that may be evicted.  (Mutated: any.)
AnyResident(m) == Resident(m)
Evictable(m) == {e \in Resident(m) : m.cache[e].refs = 0}

\* The n that go first: the least recently used, and of those the first in the table.
Before(m, e, f) ==
  m.cache[e].lru < m.cache[f].lru \/ (m.cache[e].lru = m.cache[f].lru /\ e < f)
Oldest(m, n) == {e \in Evictable(m) : Cardinality({f \in Evictable(m) : Before(m, f, e)}) < n}
Victim(m) == CHOOSE e \in Oldest(m, 1) : TRUE

\* (Mutated: the blocks are forgotten, not freed.)
Forget(m, E) ==
  [m EXCEPT !.cache = [e \in Entries |-> IF e \in E THEN [@[e] EXCEPT !.key = None, !.aram = 0] ELSE @[e]]]
Evict(m, E) == [Forget(m, E) EXCEPT !.blocks = {b \in @ : \A e \in E : b.base # m.cache[e].aram}]

\* The cache after n rounds of the loop that makes room.
Rounds(m, n) == Evict(m, Oldest(m, n))

\* sTick, above every lru of before: Aged ranks those anew at each update.
Now == NumEntries + 1

Aged(m) ==
  LET used == {m.cache[e].lru : e \in Resident(m)}
  IN  [m EXCEPT !.cache = [e \in Entries |->
        [@[e] EXCEPT !.lru = IF m.cache[e].key = None THEN 0
                             ELSE Cardinality({u \in used : u <= m.cache[e].lru})]]]

Load(m, e, key, a) ==
  [m EXCEPT !.cache[e] = [key |-> key, aram |-> a, refs |-> 1, lru |-> Now],
            !.blocks = @ \cup {[base |-> a, len |-> Units[key], key |-> key]}]

\* What cache_acquire returns: the new state and the entry, 0 for NULL.  A full table
\* gives up its least recently used entry, and the room is taken before that.
\* (Mutated: a hit is not counted.)
HitUncounted(m, e) == [m EXCEPT !.cache[e].lru = Now]
Hit(m, e) == [m EXCEPT !.cache[e].refs = @ + 1, !.cache[e].lru = Now]

Miss(m, key) ==
  LET enough == {n \in 0 .. NumEntries : Gaps(Rounds(m, n), Units[key]) # {}}
  IN  IF enough = {} THEN [m |-> Rounds(m, NumEntries), entry |-> 0]
      ELSE LET roomy == Rounds(m, Lowest(enough))
               a     == Lowest(Gaps(roomy, Units[key]))
               spare == Entries \ Resident(roomy)
           IN  CASE spare # {} -> [m |-> Load(roomy, Lowest(spare), key, a), entry |-> Lowest(spare)]
                 [] spare = {} /\ Evictable(roomy) # {} ->
                      LET e == Victim(roomy)
                      IN  [m |-> Load(Evict(roomy, {e}), e, key, a), entry |-> e]
                 [] OTHER -> [m |-> roomy, entry |-> 0]

Acquire(m, key) ==
  LET hits == {e \in Entries : m.cache[e].key = key}
  IN  IF hits # {} THEN [m |-> Hit(m, Lowest(hits)), entry |-> Lowest(hits)] ELSE Miss(m, key)

\* (Mutated: nothing is released.)
NoRelease(m, e) == m
Release(m, e) == IF e # 0 /\ m.cache[e].refs > 0 THEN [m EXCEPT !.cache[e].refs = @ - 1] ELSE m
-----------------------------------------------------------------------------
(* Channels, voices and streams.                                           *)

\* chan_stop and chan_release, which refuses a channel when all are free.  (Mutated:
\* the channel is not given back.)
KeepChannel(m, c) == [m EXCEPT !.hw[c] = Silent]
StopChannel(m, c) ==
  [m EXCEPT !.hw[c] = Silent, !.free = IF Len(@) < NumChannels THEN Append(@, c) ELSE @]

\* chan_alloc and the START command; the caller has seen that free is not empty.
Top(m) == m.free[Len(m.free)]
StartChannel(m, sound, a) ==
  [m EXCEPT !.hw[Top(m)] = [key |-> sound, aram |-> a],
            !.free = SubSeq(@, 1, Len(@) - 1)]

\* (Mutated: the entry is not released.)
KeepEntry(m, i) ==
  LET v == m.voices[i]
      quiet == IF v.channel # 0 THEN StopChannel(m, v.channel) ELSE m
  IN  [quiet EXCEPT !.voices[i] = NoVoice]
VoiceStop(m, i) ==
  LET v == m.voices[i]
      quiet == IF v.channel # 0 THEN StopChannel(m, v.channel) ELSE m
  IN  [Release(quiet, v.entry) EXCEPT !.voices[i] = NoVoice]

\* stream_for_note.
StreamsOf(m, i) == {s \in Streams : m.streams[s].noteIndex = i}

\* (Mutated: the slot is kept once it has played out.)
FreeUnlessDone(m, i) ==
  LET own == {s \in StreamsOf(m, i) : ~m.streams[s].done}
  IN  IF own = {} THEN m
      ELSE LET s == Lowest(own)
           IN  [StopChannel(m, m.streams[s].channel) EXCEPT !.streams[s] = NoStream]
StreamFree(m, i) ==
  IF StreamsOf(m, i) = {} THEN m
  ELSE LET s == Lowest(StreamsOf(m, i))
           quiet == IF m.streams[s].channel # 0 THEN StopChannel(m, m.streams[s].channel) ELSE m
       IN  [quiet EXCEPT !.streams[s].noteIndex = 0, !.streams[s].channel = 0, !.streams[s].key = None]

\* stream_start: without a slot or a channel the note is dropped.
StreamStart(m, i, key) ==
  LET spare == StreamsOf(m, 0)
  IN  IF spare = {} \/ m.free = <<>> THEN m
      ELSE [StartChannel(m, key, 0) EXCEPT
              !.streams[Lowest(spare)] =
                [noteIndex |-> i, channel |-> Top(m), key |-> key, done |-> FALSE]]

\* A new voice: without a channel the note is dropped and the entry released.
VoiceStart(m, i, key, e) ==
  IF m.free = <<>> THEN Release(m, e)
  ELSE [StartChannel(m, key, IF e = 0 THEN 0 ELSE m.cache[e].aram) EXCEPT
          !.voices[i] = [channel |-> Top(m), active |-> TRUE, sampleKey |-> key, entry |-> e]]
-----------------------------------------------------------------------------
(* The sequences change the notes of a tick.                               *)

AudioReady == Preemptive \/ clear[1] = "idle"

Sequencing == AudioReady /\ pos = 0 /\ tick < TicksPerUpdate

\* Audio_NoteInitForLayer.
NoteInit(i) ==
  /\ Sequencing
  /\ ~note[i].enabled
  /\ \E s \in Sounds :
       note' = [note EXCEPT ![i] =
                  [enabled |-> TRUE, finished |-> FALSE, needsInit |-> TRUE, sound |-> s]]
  /\ UNCHANGED <<slice, tick, pos, aica, clear>>

\* Audio_NoteDisable, for a note that is released or taken over.
NoteDisable(i) ==
  /\ Sequencing
  /\ note[i].enabled
  /\ note' = [note EXCEPT ![i] = Off]
  /\ UNCHANGED <<slice, tick, pos, aica, clear>>

\* Audio_InitSyntheticWave changes the harmonic of a note that plays.
NoteWave(i) ==
  /\ Sequencing
  /\ note[i].enabled
  /\ note[i].sound \in Wave
  /\ \E s \in Wave \ {note[i].sound} : note' = [note EXCEPT ![i].sound = s]
  /\ UNCHANGED <<slice, tick, pos, aica, clear>>

\* AudioSynth_SyncSampleStates ends the tick.  What a slice keeps of a note that is off
\* is never looked at.
Sync ==
  /\ Sequencing
  /\ tick' = tick + 1
  /\ slice' = [i \in Notes |-> IF note[i].enabled THEN note[i] ELSE Off]
  /\ note' = [i \in Notes |-> [note[i] EXCEPT !.needsInit = FALSE]]
  /\ UNCHANGED <<pos, aica, clear>>
-----------------------------------------------------------------------------
(* AicaSynth_Update, note by note.                                         *)

UpdateBegin ==
  /\ AudioReady
  /\ pos = 0
  /\ tick = TicksPerUpdate
  /\ pos' = 1
  /\ aica' = Aged(aica)
  /\ UNCHANGED <<note, slice, tick, clear>>

NextNote ==
  /\ pos' = IF pos = NumNotes THEN 0 ELSE pos + 1
  /\ tick' = IF pos = NumNotes THEN 0 ELSE tick
  /\ UNCHANGED <<slice, clear>>

Plays(i) == slice[i].enabled /\ ~slice[i].finished

\* The note is off, or its sound cannot be had.
Hush(m, i) == StreamFree(VoiceStop(m, i), i)

UpdateOff ==
  /\ pos # 0
  /\ ~Plays(pos)
  /\ aica' = Hush(aica, pos)
  /\ UNCHANGED note
  /\ NextNote

UpdateUnresolved ==
  /\ pos # 0
  /\ Plays(pos)
  /\ slice[pos].sound \in Unknown
  /\ aica' = Hush(aica, pos)
  /\ UNCHANGED note
  /\ NextNote

\* The note's stream goes on unless the sample is another or the note is begun anew.
\* (Mutated: whatever the sample.)
AnySample(i) == {s \in StreamsOf(aica, i) : ~slice[i].needsInit}
Resumed(i) ==
  {s \in StreamsOf(aica, i) : aica.streams[s].key = slice[i].sound /\ ~slice[i].needsInit}

\* stream_service finds that a stream has played out: the slot is held and the note
\* itself marked, for the sequences to release it.
PlayedOut(m, s) ==
  [StopChannel(m, m.streams[s].channel) EXCEPT !.streams[s].channel = 0, !.streams[s].done = TRUE]

UpdateStream ==
  /\ pos # 0
  /\ Plays(pos)
  /\ slice[pos].sound \in Long
  /\ LET quiet == VoiceStop(aica, pos)
     IN  \/ /\ Resumed(pos) = {}
            /\ aica' = StreamStart(StreamFree(quiet, pos), pos, slice[pos].sound)
            /\ UNCHANGED note
         \/ /\ Resumed(pos) # {}
            /\ aica' = quiet
            /\ UNCHANGED note
         \/ \E s \in Resumed(pos) :
              /\ ~aica.streams[s].done
              /\ aica' = PlayedOut(quiet, s)
              /\ note' = [note EXCEPT ![pos].finished = TRUE]
  /\ NextNote

\* A voice is started again for another sound or a note begun anew.  (Mutated: not
\* for another sound.)
OnlyAnew(i) == ~aica.voices[i].active \/ slice[i].needsInit
Retriggers(i) ==
  \/ ~aica.voices[i].active
  \/ aica.voices[i].sampleKey # slice[i].sound
  \/ slice[i].needsInit

UpdateVoice ==
  /\ pos # 0
  /\ Plays(pos)
  /\ slice[pos].sound \in Short \cup Wave
  /\ LET key == slice[pos].sound
         got == IF key \in Short THEN Acquire(aica, key) ELSE [m |-> aica, entry |-> 0]
         had == key \in Wave \/ got.entry # 0
     IN  \/ /\ ~had
            /\ aica' = Hush(got.m, pos)
         \/ /\ had /\ Retriggers(pos)
            /\ aica' = VoiceStart(VoiceStop(got.m, pos), pos, key, got.entry)
         \/ /\ had /\ ~Retriggers(pos)
            /\ aica' = Release(got.m, got.entry)
  /\ UNCHANGED note
  /\ NextNote
-----------------------------------------------------------------------------
(* AicaSynth_ClearSampleCache, which runs while the audio thread sleeps    *)
(* (notes may have changed already: it does not look at them).             *)

MainRuns == pos = 0 /\ tick = 0

ClearBegin ==
  /\ MainRuns
  /\ clear[1] = "idle"
  /\ clear' = <<"test", 1>>
  /\ UNCHANGED <<note, slice, tick, pos, aica>>

NextEntry == IF clear[2] = NumEntries THEN <<"idle", 0>> ELSE <<"test", clear[2] + 1>>

\* (Mutated: the players of an entry are not asked.)
Unasked(e) == aica.cache[e].key # None
Unplayed(e) == aica.cache[e].key # None /\ aica.cache[e].refs = 0

ClearTest ==
  /\ MainRuns
  /\ clear[1] = "test"
  /\ clear' = IF Unplayed(clear[2]) THEN <<"free", clear[2]>> ELSE NextEntry
  /\ UNCHANGED <<note, slice, tick, pos, aica>>

ClearFree ==
  /\ MainRuns
  /\ clear[1] = "free"
  /\ aica' = FreeBlock(aica, aica.cache[clear[2]].aram)
  /\ clear' = <<"forget", clear[2]>>
  /\ UNCHANGED <<note, slice, tick, pos>>

ClearForget ==
  /\ MainRuns
  /\ clear[1] = "forget"
  /\ aica' = [aica EXCEPT !.cache[clear[2]].key = None, !.cache[clear[2]].aram = 0]
  /\ clear' = NextEntry
  /\ UNCHANGED <<note, slice, tick, pos>>
-----------------------------------------------------------------------------
Sequence == \E i \in Notes : NoteInit(i) \/ NoteDisable(i) \/ NoteWave(i)

Update == UpdateBegin \/ UpdateOff \/ UpdateUnresolved \/ UpdateStream \/ UpdateVoice

Clear == ClearBegin \/ ClearTest \/ ClearFree \/ ClearForget

Next == Sequence \/ Sync \/ Update \/ Clear

Spec == Init /\ [][Next]_vars
-----------------------------------------------------------------------------
Rest == pos = 0 /\ tick = 0

TypeOK ==
  /\ \A f \in {note, slice} : f \in
       [Notes -> [enabled : BOOLEAN, finished : BOOLEAN, needsInit : BOOLEAN,
                  sound : Sounds \cup {None}]]
  /\ tick \in 0 .. TicksPerUpdate
  /\ pos \in 0 .. NumNotes
  /\ aica.voices \in [Notes -> [channel : 0 .. NumChannels, active : BOOLEAN,
                               sampleKey : Sounds \cup {None}, entry : 0 .. NumEntries]]
  /\ aica.streams \in [Streams -> [noteIndex : 0 .. NumNotes, channel : 0 .. NumChannels,
                                  key : Sounds \cup {None}, done : BOOLEAN]]
  /\ aica.free \in Seq(Channels)
  /\ aica.cache \in [Entries -> [key : Short \cup {None}, aram : 0 .. AramSize,
                                refs : 0 .. NumNotes, lru : 0 .. NumEntries + 1]]
  /\ aica.hw \in [Channels -> [key : Sounds \cup {None}, aram : 0 .. AramSize]]
  /\ clear \in {"idle", "test", "free", "forget"} \X (0 .. NumEntries)

\* Every channel is in one place: once on the free stack, with one voice, or with one
\* stream.  None is lost or released twice, and the hardware sounds just those in use.
ChannelsAccounted ==
  \A c \in Channels :
    LET freed == {n \in DOMAIN aica.free : aica.free[n] = c}
        users == {i \in Notes : aica.voices[i].channel = c}
        rings == {s \in Streams : aica.streams[s].channel = c}
    IN  /\ Cardinality(freed) + Cardinality(users) + Cardinality(rings) = 1
        /\ freed # {} <=> aica.hw[c] = Silent

\* An entry's count is the number of voices that play from it.
RefsCounted ==
  \A e \in Entries :
    aica.cache[e].refs = Cardinality({i \in Notes : aica.voices[i].entry = e})

\* A channel that plays a sample plays it from sound RAM that still holds it: no
\* entry is evicted, overwritten or thrown away under a voice.
SamplesIntact ==
  \A c \in Channels :
    aica.hw[c].key \in Short =>
      [base |-> aica.hw[c].aram, len |-> Units[aica.hw[c].key], key |-> aica.hw[c].key]
        \in aica.blocks

\* Sound RAM and the table agree: every block is some entry's and every entry has
\* its block, so none leaks; no sample is loaded twice.
RamAccounted ==
  LET kept == {e \in Resident(aica) : clear # <<"forget", e>>}
  IN  /\ Cardinality(aica.blocks) = Cardinality(kept)
      /\ \A e \in kept : \E b \in aica.blocks :
           b.base = aica.cache[e].aram /\ b.key = aica.cache[e].key
      /\ \A e, f \in Resident(aica) : aica.cache[e].key = aica.cache[f].key => e = f

\* After an update the channels do what the last slice says: a note that is off holds
\* none, and the voice or stream of one that is on plays its sound.
SoundsRight ==
  Rest => \A i \in Notes :
    LET v == aica.voices[i]
        mine == StreamsOf(aica, i)
    IN  /\ ~Plays(i) => ~v.active /\ mine = {}
        /\ v.active => aica.hw[v.channel].key = slice[i].sound
        /\ \A s \in mine : aica.streams[s].channel # 0 =>
             aica.hw[aica.streams[s].channel].key = aica.streams[s].key
        /\ Plays(i) /\ slice[i].sound \in Long =>
             \A s \in mine : aica.streams[s].key = slice[i].sound
=============================================================================
