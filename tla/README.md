# Star Fox 64 for the Dreamcast: a TLA+ model

The program is the Star Fox 64 decompilation with the Nintendo 64 below it
rebuilt on KallistiOS: threads, message queues, timers and EEPROM in
`src/src/ultra_reimpl.c` and `src/src/sys`, sound on the AICA in
`src/src/audio`, graphics on the PVR in `src/src/gfx`. The game (`engine`,
`overlays`) is single-threaded and mostly numeric. What is hard lies where
that game meets a second thread, an interrupt, memory that is handed out
again, and a memory card that can be pulled. This project models those parts.

## 1. The system

### Threads and how they meet

| who | where | priority |
|---|---|---|
| game thread | `Main_ThreadEntry`, `sys_main.c:321-344` | 10 |
| audio thread | `AudioThread`, `sys_main.c:463-508` | 9: preempts the game thread |
| vblank interrupt | `vblfunc`, `sys_main.c:38-43` | interrupt |
| maple callbacks | `Controller_Scan`, `Rumble_Scan`, `sys_joybus.c:150-197` | other threads of KallistiOS |
| rumble worker | `Controller_RumbleThread`, `sys_joybus.c:345-353` | default |

A frame of the game thread: timer messages, input, `Game_Update`, draw, wait
until `gVIsPerFrame` vblanks have passed since the last frame, `Audio_Update`,
rumble, yield. A turn of the audio thread: sleep until the vblank, count the
vblanks missed, and for each (three at most) make an audio buffer: loads, the
steps of a reset, the commands of the game, the sequences, the synth.

The two share: the command ring and four message queues (`audio_thread.c`),
`vblticker`, the sound RAM cache (the scene load clears it), and otherwise
nothing they write both. The message queues take no lock and never block.

### Components

| component | state | operations | what is hard | correct when |
|---|---|---|---|---|
| command ring (`audio_thread.c:171-310`) | 256 commands, two positions, a queue of four windows, the walker's statics | queue, schedule, discard, walk | two threads, an unlocked queue, a walk that stops in the middle | each announced command runs once and in order |
| spec change (`audio_general.c`, `audio_heap.c`, `audio_load.c`) | reset status and step, spec ids, queues, the font load | ask, fade, lay out, answer, start again | a handshake over lossy one-slot queues, polled by a busy wait | both threads agree, nothing plays from memory taken away, nobody waits forever |
| vblank pacing (`sys_main.c`, `gfx_dc.c`) | tick counters of both threads | tick, wait, catch up | lost wake-ups, hitches | no vblank lost below the cap, bounded lag |
| AICA synth (`aica_synth.c`) | voices, stream slots, channel stack, sample cache | update, clear | four resources that run out separately, a slice that is one tick of several | channels and memory accounted for, each note sounds as the sequence says |
| saved game (`fox_save.c`, `ultra_reimpl.c`) | save, card, two copies | boot, change, save | power off, card pulled or failing | a cut write costs at most itself |
| audio heap caches (`audio_heap.c`) | pools, two-sided temporary caches, load status | allocate, search, discard | eviction of what loads or plays; nothing counts references | a load status that says usable is true; nobody reads memory given away |
| audio loads (`audio_load.c`) | 16 asynchronous loads, sample DMA buffers | start, step, cancel | slots full, completion out of order, cancellation by a reset | a load copies into its own entry, never across a reset |
| note pools (`audio_playback.c`) | four lists of notes a pool, pointers to layers and back | allocate, release, decay, hand over, disable | pointers that live long, a note in two lists | notes and layers point at each other; a note is in one list; a promised note is delivered |
| sequence players (`audio_seqplayer.c`) | players, channels, layers | open, close, free; the bytecode | driven by data the repository does not hold | opening and closing with the note pools; whether a player is enabled with the spec change |
| sound requests (`audio_general.c`) | sound effect banks, active sequences | play, stop, prioritise | priorities, dropped requests | partly: the background music |
| message queues, timers (`ultra_reimpl.c`) | first, validCount; 64 timers | send, receive, set, stop | no locks | queues inside the components; one timer only is ever set |
| controllers, rumble (`sys_joybus.c`) | plugged, held, pressed; four jobs | scan, read, rumble | callbacks against the frame | not modelled: the order is KallistiOS's |
| scene load (`fox_load.c`) | file name of each segment | load, clear the caches | what was cached from the old scene | nothing cached survives: the clearing is with the synth and with the graphics |
| graphics (`gfx_*.c`) | registers, two setups, shadow registers, list headers, texture cache, video RAM | interpret, draw, cache, clear | five caches that each skip work when nothing changed | a primitive is drawn as the registers ask; ids and video RAM come back whole |
| game states (`fox_game.c`) | gGameState, gNextGameState | update | order of scene changes | boot only, with the save |
| levels, HUD, menus, radio | actors, scripts | update, draw | numeric simulation | not modelled |

`PROJECT.json` lists every component with its status, and under `hazards` each
place where this code is hard to test, with the property that watches it.

## 2. The modules

Names are the source's where TLA+ allows it. A comment `(Mutated: ...)` marks an
operator that states a plausible mistake in the definition below it; it is not
used by any behaviour.

**AudioCmdRing** (`AudioThread_QueueCmd`, `_ScheduleProcessCmds`,
`_ResetCmdQueue`, `_ProcessCmds`, `osSendMesg`, `osRecvMesg`). The ring, both
positions, the four-slot queue and the statics of `ProcessCmds` are variables.
A send is two steps, `ScheduleBegin` (reads) and `ScheduleEnd` (stores); the
audio thread may come between them when `PreemptSend`. An opcode is reduced to
what the walk tells apart: cleared, STOP, or anything dispatched. The pace of the two
threads is the bound `DrainCmds`: so many commands are queued at most from one buffer
that finds a message to the next. `PacedRing` is the size of ring this pace needs.

**AudioReset** (`Audio_StartReset`, `Audio_HandleReset`,
`Audio_RestartSeqPlayers`, `AudioThread_ResetComplete`, `AudioHeap_ResetStep`,
`AudioHeap_Init`, `AudioLoad_AsyncLoadInner`, `AudioLoad_ProcessAsyncLoad`,
`Audio_UpdateActiveSequences`). One step per access of the game thread to what is
shared; the audio thread's call runs between two of them, in its own steps. The
ring is taken as AudioCmdRing leaves it: a window brings its commands. The heap's
content is reduced to which spec it was laid out for. `hasty`, `lost` and
`early` are history variables. Specs matter only as far as `Audio_StartReset`
tells them apart.

**VblankPacing** (`vblfunc`, the loop of `AudioThread`, the end of the frame in
`gfx_dc.c:136-138`). Every read of the volatile `vblticker` is a step, as is the
entry into `genwait_wait`, so a vblank may fall between test and sleep.

**AicaSynth** (`AicaSynth_Update`, the cache, `AudioSynth_Update`'s slices,
`AicaSynth_ClearSampleCache`). `AicaSynth_Update` takes one step per note. The
sequencer is any change of notes between ticks (`NoteInit`, `NoteDisable`,
`NoteWave`). Sounds are short samples, streamed samples, waves and sounds that
are in no table. `snd_mem_malloc` is external: any free gap that fits. Volume,
pan and frequency are left out: no branch of the update but the sending of an
update command depends on them.

**AudioCache** (`AudioHeap_SearchRegularCaches`, `_AllocCached`, `_DiscardFont`,
`_DiscardSequence`, `AudioLoad_SyncLoad`, `_StartAsyncLoad`, `_ProcessAsyncLoads`,
`AudioSeq_SequencePlayerDisable`, the players' part of `Audio_ProcessSeqCmd`). The persistent and temporary caches of
sequences and fonts, as cells of memory of which each remembers whose data was last
copied into it; the loads that fill them, chunk by chunk or on the spot; the players
and the notes that read them. All of it runs in the audio thread; what interleaves is
loads, commands, players, notes and resets from one buffer to the next. `TableFacts`
names what the code relies on and only the data of `audio_tables.c` provides: the two
largest cached fonts fit together, stages and fanfares do not share fonts, all fanfares
have one font. `SEQ_ID_VE_CLEAR`, a music with the fanfares' font, breaks the pattern
and is left out, as are the permanent pool (filled at boot, discarded by nobody) and the
sample banks (their cache policy never caches them).

**NotePool** (the lists, allocation, release and hand-over of `audio_playback.c`,
`Audio_ProcessNotes`, the opening and closing of channels
and layers in `audio_seqplayer.c`, the note loops of `AudioHeap_DiscardFont` and of
the unmute). The four lists of every pool, and the three pointers a note holds to
layers: owner, former owner, claimant. A script may do anything between two notes of a
tick. Envelopes are abstracted to sounding, fading or off, and when a fade ends is open.

**SaveRegister** is the abstract specification of the saved game: one register, read
at the start and written whole, and what a cut write or a failing card may make of it.

**DrawState** (`gfx_retro_dc.c`: `gfx_sp_tri1_impl`, `gfx_sp_quad_2d`, the rectangles,
`import_texture`, the texture cache; `gfx_pvr.c`: headers, uploads,
`gfx_pvr_clear_all_textures`; `nuke_everything`). What a primitive is drawn with, over
whole display lists, frames and scene loads. Both the register state and every copy of
it the code keeps to skip work are variables; `wrong` names the fields in which the
primitive just drawn differs from what the registers ask. Left out: vertices, depth
values, the combiner's colours, sampler parameters, texture environment and blend
factors (shadowed in the same way as fog, which is modelled), palettes, the blur and
noise effects, textures that change their size, and that deferred lists read video RAM
at the end of the frame. Two guards state how the game draws: a list loads its texture
in the frame in which it draws with it, and a texture the game changes is drawn in one
variant only (`gfx_texture_cache_invalidate` stops at the first node of an address).
The assumption `TextureTable` says that a scene uses no more textures than the table has
ids: after that `gfx_pvr_new_texture` hands out the last id again and again.

**SaveStore** (`Save_Read`, `Save_Write`, `Save_Checksum`, `osEepromProbe`,
`osEepromLongRead`, `osEepromLongWrite`, `GSTATE_CHECK_SAVE`). The card, the
power and the writing of the card are external: a file is written front to back,
and a write that is cut leaves a prefix of the new over the old. Every open and
read may fail at any time.

**MC modules** give constants their values; **_proofs modules** hold the theorems.

The modules meet where one uses what another shows. AudioReset uses of the ring what
`cmd_ring_order` shows, and so does AudioCache, in which a request of the game and its
command are one step. AudioReset has one load and no contents, AudioCache the contents
and a reset reduced to its phases. NotePool ends in the note the synth reads, AicaSynth
begins there. SaveStore implements SaveRegister. AudioCmdRing bounds the commands between
two drains by `DrainCmds`; that such a bound exists is `Paced` of VblankPacing, at most two
frames between two buffers, and that a frame queues only so many commands.

## 3. The runs

| run | asks | bounds and why they are enough |
|---|---|---|
| `cmd_ring_order` | Do all announced commands run, in order, across a STOP and the wrap? | two commands between two drains, in any frames; a queue of one window: windows are refused and discarded as well as announced; `PacedRing` slots, which are 6, and 11 commands: slots are filled again behind a STOP that may be anywhere; one STOP until the walk has caught up |
| `cmd_ring_race` | Is the order kept when a vblank falls into the send? Violated. | the same pace with a ring of 8, larger than `PacedRing`, and 2 windows in the queue: that the send is preempted is the only premise of `CommandsInOrder` it lacks |
| `reset_safe` | Spec changes, one per drain, with a music that waits for its font. | four specs (every case of `Audio_StartReset`), two changes, one music, a load of one chunk, `LongFade` 2 instead of 16, at most two frames per buffer |
| `reset_burst` | A second change may overtake the first, windows are refused. | two specs, two changes, two musics, a load of four chunks, longer than a fade, five frames per buffer: more than the queue holds |
| `vblank` | Hitches and lost wake-ups. | the real cap of 3, hitches up to 4, ten vblanks, both frame rates |
| `aica_cache` | Cache entries, sound RAM and references. | two notes, four samples, two entries, three units of RAM with a sample of three units: the table and the RAM fill separately, and fragmentation defeats the large one |
| `aica_sounds` | Channels, and what sounds after an update. | two notes, one stream slot, three channels; every kind of sound and every change between them |
| `aica_clear` | What a comment says of the cache's clear. Violated. | a clear that the audio thread preempts |
| `save_store` | What cut writes, pulled cards and failing opens can do; that it is the register. | three versions of two bytes of three bits that differ in the first byte, the second and both: cuts at every byte; boots and writes are not bounded |
| `note_pool` | Pointers and lists of notes, under any script. | two notes, two layers, one channel, two priorities, a policy that looks in one pool and one that takes notes back and looks in all, pools of one note: the second layer finds no free note and takes, waits for, or is refused the first's; no bound on steps |
| `audio_cache` | Caches, loads and their readers. | two stages' musics whose fonts load behind the playing one, an intro and a fanfare that share a font and load on the spot; fonts of 1, 2 and 2 units in 1 persistent and 4 temporary ones, sequences of 3, 2, 2 and 1 units in 3: every pair of fonts fits, and the two large sequences do not; one load at a time, one buffer of delay; no bound on steps |
| `draw_state` | What every cache of the graphics skips. | two images, one of which the game changes, plain and inverted: three textures for two blocks of video RAM, so that an upload fails; a translucent surface and an opaque fill, with and without depth and fog: two of the lists, both paths of a fill, pinned backdrops; frames and scenes are not bounded |

The counters named `Max...` bound behaviours in the guards and stand in the
configurations. `vblank` turns the deadlock check off because its last vblank is
`MaxVblanks`; `Vblank` is enabled at every earlier state.

### What they show

*Command ring.* The overflow test of `AudioThread_QueueCmd` compares with what was
announced, not with what was executed, so what keeps a waiting command from being
overwritten is that the ring is large enough for the pace. With `D` commands between two
drains and `S` STOPs before the walk catches up it takes `2D + (D - 1)S + 1` slots
(`PacedRing`): a STOP ends the walk in the middle of a window, the next drain may bring
the next STOP, and each time the walk gains one command while the game thread gains `D`.
The size is exact: with one slot less TLC finds an announced command that never runs, for
one STOP and two or three commands and for two STOPs and two commands. For the
256 slots of the code it means at most 127 commands between two buffers when nothing is
stopped, 85 with the one STOP a spec change queues (`audio_general.c:890`), 43 with the
three more that `Audio_RestartSeqPlayers` queues (`:2737-2739`). The commands of a refused
window ride on the next one that is accepted. What `ResetCmdQueue` discards still runs
when the walker stands behind a STOP. What protects against a second execution is only
that a dispatched command is cleared (`cmd->op = 0`).

*Spec change.* For one spec change per drain of the queues the handshake is
right. With two in one drain it is not: the one-slot `gAudioSpecQueue` drops the
second while the game already believes in it, and the agreement, the end of the
reset and the protection of later commands are lost. `OnePerDrain` states the
condition under which the run passes; the game meets it as its spec changes are
scenes apart. A spec change that comes while commands wait (`hasty`) lets a
player start during the fade, which then plays across `AudioHeap_Init`. A reset
that cancels the load a music waits for, or whose `ResetCmdQueue` discards the
load command, leaves `isWaitingForFonts` set for good (`lost`).

*Pacing.* A vblank lost between test and sleep costs one vblank of delay, never
the wake-up. Hitches shorter than `CATCHUP_MAX` are made up in full. At most two
frames are announced between two buffers.

*Synth.* Channels, references and blocks are accounted for in every order of
notes. The cache's eviction spares what sounds.

One thing a comment of the synth promises is not kept, and the run's properties are
stated without it: "a note is voice XOR stream" (`aica_synth.c:80`). A streamed note
that is taken over by a short sample keeps its stream (`aica_synth.c:505`), and with it
a second channel, until it is off in the last slice of an update. `ChannelsAccounted`
holds all the same. And a note begun anew with the sample it already plays, in an earlier
slice of the same update, is not restarted (`aica_synth.c:486`).

*Save.* One cut write costs at most that write. After a fall back on the backup
the card is not repaired, so a second cut can lose both copies; a failed first
open blanks an existing file; any other failure at boot writes the defaults over
the player's progress. The register states exactly these exceptions (`lost`, `fails`).

*Notes.* Whatever scripts do, a note belongs only to a layer that points back at it, is
in one list, and reaches the layer it was promised to unless a layer of higher priority
takes it. The one exception is `AudioHeap_DiscardFont`: it puts a note that fades on the
free list and lets the claim of the layer that waits for it stand (`orphans`), to be
honoured, if at all, when a later sound of the note ends.

*Caches.* Nothing counts references, yet no reader is hurt: an eviction
silences the notes of the font that goes, a player stands still while the load status of
its sequence or font is not usable, and what it then reads is its own data again. This rests on the
sizes and on who uses which font (`TableFacts`): a third font loaded beside two that
play would be written over one of them.

*Drawing.* With two exceptions a primitive is drawn as the registers ask, whatever the
caches skip, and ids and video RAM are all given back by a scene load. A texture for
which video RAM had no room is drawn without image until it is loaded again with its
node dirty or the scene changes. And `gfx_pvr_end_frame` leaves the back end's depth test
and depth write on after the edge mask, "Frame is ending, so no need to restore"
(`gfx_pvr.c:881`), while `gfx_pvr.c:845-846` says the two "persist in lockstep with the
front-end's trackers": the front end still believes what it set last, and a primitive of
the next frame that wants them off is drawn with them on until they change. `DrawnAsAsked`
states both.

### Findings

| run | what the code says | what it does |
|---|---|---|
| `cmd_ring_race` | `audiothread_cmd.h:9-10`: commands "to safely transfer information/requests/data" | `validCount++` and `validCount--` race: windows already taken come back, and behind a STOP the walk runs round the ring |
| `aica_clear` | `aica_synth.c:158`: "safe to call at any time" | the audio thread may take an entry between the test of its count and its free |

### Fairness

The liveness properties of `reset_safe` (`ResetEnds`, `MusicStarts`,
`SfxReturns`) are checked under `FairSpec`: weak fairness of the audio
thread (the vblank wakes it and nothing outranks it) and strong fairness of the
game thread whenever the audio thread sleeps (it is preempted again and again,
but the audio thread blocks in `genwait_wait` every turn and no other thread of
that rank computes). No fairness is assumed of the player's actions: a music is
played or a spec asked for only if the game likes.

## 4. What is proved

With TLAPS, for every value of the constants that meets the named assumptions:

| theorem | statement |
|---|---|
| `AudioCmdRing_proofs!TypeCorrect` | all indices stay in the ring and the queue, with preemption |
| `AudioCmdRing_proofs!NoCommandTwice` | no command is executed twice: any ring size, pace, preemption |
| `AudioCmdRing_proofs!CommandsInOrder` | under `Paced`: commands run in the order they were queued in, and none before an announced one that waits |
| `AudioCmdRing_proofs!OnlyStopsHold` | under `Paced`: when the audio thread sleeps and no message waits, only a STOP holds a command back |
| `VblankPacing_proofs!PacingTypeCorrect` | types; at most `CATCHUP_MAX` buffers in a burst |
| `VblankPacing_proofs!VblanksAccounted` | every vblank passed was rendered, is about to be, or was dropped |
| `VblankPacing_proofs!NothingDropped` | hitches below the cap drop nothing |
| `VblankPacing_proofs!NeverOversleeps` | the audio thread does not sleep over more than a hitch |
| `VblankPacing_proofs!FramesPaced` | at most two frames end between two buffers, for every rate and hitch |
| `SaveStore_proofs!CopiesImplementRegister` | the two copies implement the register of SaveRegister |
| `SaveStore_proofs!SaveTypeCorrect` | types; what is written is one save twice, with its checksum |
| `SaveStore_proofs!NeverAMixture` | no boot accepts a mixture of two saves |
| `SaveStore_proofs!LastSaveRecovered` | after at most one cut write the boot finds the last save or the cut one |
| `SaveStore_proofs!SaveNeverReset` | the defaults replace a save only after a failing card or two cuts |
| `SaveStore_proofs!ChangedByteDetected` | a copy of which one byte has changed is not accepted |
| `NotePool_proofs!NotesOwned` | a note belongs or is promised only to a layer that points back at it |
| `NotePool_proofs!OwnersAlive` | owners and claimants are open layers of a channel that has a player |
| `NotePool_proofs!TypesKept` | types; between two calls every note is linked, in the pool its field names |
| `NotePool_proofs!NotesInOneList` | every note is in one list, of an open pool |
| `NotePool_proofs!ListsTell` | if no script asks for priority 0: the list says what the note does, and who waits waits for a fading note |
| `NotePool_proofs!OnlyHigherTakes` | no layer loses its note or its claim to one of the same or a lower priority |
| `NotePool_proofs!WaitsEndWell` | a tick hands a note to the layer that waits for it or leaves the claim |
| `AudioReset_proofs!ResetTypeCorrect` | queues, countdown and delays stay in their ranges, however fast specs change |
| `AudioReset_proofs!LoadsDrained` | the heap is never laid out anew while a font is copied into it |
| `AudioReset_proofs!SpecsAgree` | under `OnePerDrain` and `VersusEnds`: when no reset runs, both threads and the heap are at one spec |
| `AudioReset_proofs!NothingRunsEarly` | under the same: no command queued behind a spec change runs before the heap is laid out |
| `AudioReset_proofs!PlayersQuietAtInit` | under the same: no player is enabled at `AudioHeap_Init`, unless commands waited when the spec was asked for |
| `AicaSynth_proofs!SynthTypeCorrect` | types; no entry is counted oftener than there are notes |
| `AicaSynth_proofs!ChannelsKept` | every channel is free or has one holder, and just the held ones sound |
| `AicaSynth_proofs!SoundsAsAsked` | after an update the channels play what the last slice says |
| `AicaSynth_proofs!RefsKept` | without preemption of the clear: `refs` is the number of voices on the entry |
| `AicaSynth_proofs!SamplesKept` | the same: no sample is evicted or overwritten under a voice |
| `AicaSynth_proofs!RamKept` | the same: blocks and entries correspond, no sample is loaded twice |
| `AudioCache_proofs!TypesKept` | types; no persistent pool is overdrawn |
| `AudioCache_proofs!EntriesStayApart` | the two entries of a temporary pool never overlap |
| `AudioCache_proofs!StatusIsTrue` | what can be used by its load status is in the cache and whole, and a font's instruments lead to it |
| `AudioCache_proofs!LoadsStayOwn` | a load under way is the only one, and copies into its font's entry |
| `AudioCache_proofs!PlayersReadTheirs` | a player that takes its data for usable reads its own sequence and font |
| `AudioCache_proofs!NotesStayIntact` | nothing takes the samples of a sounding note |
| `DrawState_proofs!DrawTypeCorrect` | types; no texture is bound, drawn or given out whose id the table lacks |
| `DrawState_proofs!TexturesKept` | every texture has one node, every block of video RAM one texture |
| `DrawState_proofs!PrimitivesDrawnAsAsked` | a primitive is drawn as the registers ask, with the two known exceptions |

*NoCommandTwice.* That no id occurs twice in `executed` is not inductive: a slot
might hold an executed command. `IInv` adds that ids in slots and in `executed`
were issued, that no two slots hold the same one, and that a dispatchable slot's id
has not been executed. Only `QueueCmd`, which writes a new id, and `ExecuteCmd`,
which clears the slot it appends, touch it; the queue of windows does not occur
in the invariant, which is why the race in `osSendMesg` cannot harm it.

*CommandsInOrder.* The positions of the code wrap, so they cannot be compared. `Traced`
says that numbers which only grow stand behind them: the game thread fills position
`issued`, has announced what lies before `R`, the walk is at `C` and ends at `E`, message
`m` names the window from `a[m]` to `b[m]`, and position `p` is slot `p % RingSize` and
holds command `p + 1`. In these numbers the order is plain (`Announced`, `Owed`, `Done`);
what needs the size of the ring is that nothing still to be read is a whole ring behind
`issued` (`Near`). How far the walk may be behind depends on the STOPs it has met, hence
`K[p]`, the STOPs before `p` since the walk last caught up, and `Behind`. The lemmas
`Quotient` and `ModApart` lead back to slots: two positions less than a ring apart are two
slots. `Paced` says `~PreemptSend` and `RingSize >= PacedRing`; the run `cmd_ring_race` and
the smaller rings of section 3 show that neither can be left out.

*VblankPacing.* The invariant relates each program counter to what was last read:
`last_vbltick` behind `vblticker`, `behind` no larger than the ticks between
them, and the hitch so far to the largest one.

*SaveStore.* `IInv` says what the file can hold: two copies of which each is a
fragment (bytes of versions or of a blank file, with the checksum of a version or
of a blank file), equal to the last save when no write was cut since, and the tear
of two known saves when one was. The steps: a cut leaves one of the two copies
whole (`OneCut`), and an intact fragment is a version (`IntactVersion`). The
latter rests on the assumption `NoCollision`: the checksum tells every patchwork
of the saved versions from every version it is not. The checksum has eight bits, so
the assumption is one about the data, and the theorem does not hold without it:
a mixture passes for a save in one case of 256. The single changed byte
(`Detects`) is noticed always and without that assumption. The proof is an induction over
the bytes, made first-order (`SetInduction`: the numbers of which something holds are a
set, and the numbers outside it have a least one): the recursive function of the checksum
exists (`RunExists`) and is a byte after each step, two runs agree before the changed byte
and differ from it on (`ChangedByte`), since neither the exclusive or nor the rotation
loses a bit (`StepTells`).

The refinement (`CopiesImplementRegister`) maps the register to what the memory and the
card say: its values to what the next boot could find, its trust to whether a write was
cut since the last whole one. Every step of SaveStore is then a step of the register or
none; the steps that read use `IInv` to say that what is accepted is among the values.

*NotePool.* The invariant `Inv` is `Shape` (notes and layers have their fields), `OwnedIn`
(a note claims only a layer that has it) and `LiveIn` (and only an open one, in a channel
that is open), stated of a state as a value (`Good`), since the code's helpers are
functions from such a state to the next. Most helpers only let claims go (`Fewer`); an
allocation adds the one of the layer it serves (`Only`), which has just let go of all
others. The lists are not needed for that: whichever note an allocation finds will do.

The lists have an invariant of their own, `SInv`: some function `f` names the kind of list
each note is in, or none while a handler has it in its hands (`FiledBy`), the kind agrees
with what the note's record says (`Fits`), and the pools of all notes are open (`Pooled`).
That an `f` exists is what it means to be in one list. Each change of one note and its
place is a `Put`; the handlers are chains of them, and each chain ends `Sorted` again
(`Sorts`). The action properties say what a chain does to the claims: an end of a note
`LetsGo`, an allocation `Takes` only from a lower priority, a tick `Hands` over. `ListsTell`
needs that no channel asks for priority 0, which `Audio_ProcessNotes` takes for a note
that is off; a script could ask for it, and the scripts are not in the repository.

*AudioReset.* That no load crosses `AudioHeap_Init` needs more than types. `IInv` adds
`Pending` (every reset on its way, under way or done was asked for), `Quiet` (no command
runs in the last two steps, so no load starts there) and `Drained` (in step 2 a load's
delay runs out before the step does, and the next buffer cancels it).

The three theorems on the handshake use `HInv`. A spec change is in one of five places
(`Handshake`: `Idle`, `Asking`, `Sent`, `Fading`, `Answered`), each of which fixes both
queues, the step and which specs agree. `Ordered` says where the commands of the new spec
are: behind the barrier in the one window that may hold it, or not announced. `Hushed` adds,
for a change that no command preceded, that only that window is there and no player is
enabled. `OnePerDrain` is the condition explained in section 3. `VersusEnds` says that from
versus the game goes to the title or the opening only: for any other spec
`Audio_StartReset` changes the spec and leaves the status as it was
(`audio_general.c:2745-2754`), and the game would take the reset for done.

*AicaSynth.* `IInv` has five parts. `Good(aica)` is about channels: `Placed` says that each
channel is on the stack or held by one voice or stream, which is a count (a stack as long
as the channels nobody holds), so that `chan_alloc` on a stack that is not empty finds a
channel that is silent and nobody's. `Shelved` is about the cache: `Counted` makes `refs`
the number of voices on an entry, plus one for the entry the caller of `cache_acquire` holds
and has not yet given a voice; `Backed` matches entries and blocks; `Fed` says that a voice
plays the block of its entry. `Heard` says that an update is right about the notes it has
been at, `Clearing` where the clear stands, `Noted` types. The update of a note is treated as
a function from one state of the synth to the next that is `Right` for the note and leaves
the `Others` alone. Only the counts as equalities, `Backed` and `Fed` need `~Preemptive`;
`refs` is never more than the voices even so, hence the types. That the condition is needed is
what `aica_clear` shows.

*AudioCache.* None of the properties but the types is inductive, and they need each other:
a note is safe because the status of its font is true, and the status stays true because
whatever evicts an entry first stops those who read it. `IInv` starts from one cache:
`Layout` says where entries lie (the persistent ones one behind the other, those of the
temporary pool at its two ends and apart), and `Stored` adds that an entry without status
is not there and one that can be used is there and whole. Over both caches, as a value
(`Good`), it says who depends on them: the instruments of a font (`Based`), the load under
way (`Loading`: it is alone, and the cells it has filled are its font's), the notes
(`Ringing`) and the enabled players (`Playing`: they read what they hold if the status of
both lets them). Three parts are about the order of things in a buffer: a font on its way
is the one the music waits for (`Awaited`); outside the moment between a command and the
player's next turn, an enabled player whose sequence can be used has a font that can
(`Steady`), so that a load which ends never lets a player loose on a sequence it found long
ago; and `Clocked`. The commands, the loads and the players are then functions from one
such value to the next, of which each keeps `Good`: an eviction, being the only one that
makes entries vanish, silences notes and players in the same step. `TableFacts` is used
in three places: two fonts always fit, so that a font on its way is not evicted by the
next; a fanfare's font is never on its way when the fanfare starts; and a sequence of one
player is none of the other's.

*DrawState.* `TexturesOwned` is almost inductive: the invariant adds that a node
without id is no node and that only keys the game uses have nodes. That a new texture
finds an id is the pigeonhole principle (`Room`): the ids given out are those of the
nodes, and `TextureTable` says there are no more keys than ids.

*DrawnAsAsked.* What is drawn right now says little about what will be drawn next; the
invariant `DrawInv` says of each of the five caches what makes its check enough. The
headers are `Coherent`: dirty, or what they would be compiled to. What the front end has
`Told` the back end is so, but for the two settings the edge mask may have turned on. What
is `Uploaded` is the image of its node unless the node is dirty. A setup that counts as
done (`TriDone`, `QuadDone`) and a texture that counts as loaded (`LoadedBound`) have left
what they would set up again. Within a frame all five hold; between two frames, when the
game changes textures and scenes, only the middle two do, and `StartFrame` restores the
others. Each setter is a `Step`, which keeps them; `Shows` turns them into what is drawn.

Constants are assumed to be what their declarations say (`RingAssumption`,
`PacingAssumption`, `SaveSizes`, `ResetAssumption`, `AicaAssumption`, `NoteAssumptions`:
priorities are at most 16, the value that means no note; `CacheAssumptions`,
`DrawAssumption`). `AicaAssumption` includes that short samples, long ones and waves are
different sounds, `NoteAssumptions` that the pools are different lists. `TableFacts` and
`TextureTable` are explained in section 2. A theorem that needs more than its module
assumes has it as a premise (`Paced`, `OnePerDrain`, `VersusEnds`, `~Preemptive`,
`0 \notin Priorities`), and the passing runs meet each of these.

*Only model-checked*: the liveness of AudioReset, `ResetEnds`, `MusicStarts` and
`SfxReturns` (fairness and ENABLED are out of the prover's reach). Every safety property
that a passing run checks is also a theorem. `NoCommandTwice` in turn is only proved: TLC
would need the whole unpaced ring for it.

## 5. What is not modelled, and why

- The levels, actors, bosses, HUD, menus and radio, nearly all of the code by lines:
  single-threaded floating-point simulation and scripts, with no contract to check
  against.
- `Game_Update`'s scene changes and the sound effect banks: single-threaded tables and
  counters of the game thread, likewise without a contract.
- The sequence bytecode: its programs are not in the repository. NotePool lets a script
  do anything at any time.
- Controllers and rumble (`sys_joybus.c`): `Controller_Scan` clears its tables in a maple
  callback while the frame may read them, and a rumble job may be queued again while its
  predecessor waits. When a callback can fall into the frame and what a job queued twice
  does is decided by KallistiOS, which is not in the repository.
- The interpreter's numbers (matrices, lighting, clipping, the combiner), texture
  conversion and palettes: numeric, immediate, one thread.
- The reading of segment files (`fox_load.c`): synchronous; a missing file ends the
  program.
- `mixer.c`: unused on this machine. `sndwav.c`: its streams are never created.
  `sys_fault.c`: its thread is never started. `AudioThread_PreNMIReset`:
  `gStartNMI` is never set. Slow loads: never requested.
- `osStopTimer` and the timer pool: one timer is set, once, at boot.
- The audio buffer's cost in time; that a buffer takes a vblank or more appears as
  a hitch. The ends of fades: they are in the music's data, so that a note becomes free
  in the end is not stated.

## 6. What could come next

1. Joybus, once the order of KallistiOS's callbacks is written down.
2. The sound effect banks of `audio_general.c`: priorities and dropped requests.
3. The ring as a queue from which discarded windows are missing, as a refinement of the
   paced instance.
