------------------------------ MODULE NotePool ------------------------------
(***************************************************************************)
(* The notes of the sequencer and who owns them: the lists of the note     *)
(* pools, the allocation of a note to a layer, its release, decay and      *)
(* hand-over (src/src/audio/audio_playback.c), and the calls of the        *)
(* sequence player that open and close layers and channels                 *)
(* (src/src/audio/audio_seqplayer.c).                                      *)
(*                                                                         *)
(* All of it runs in the audio thread.  What is hard is the long life of   *)
(* the pointers: layers point to notes, notes to layers that own them      *)
(* (parentLayer), owned them (prevParentLayer) or wait for them to fade    *)
(* (wantedParentLayer), and music may start, stop, close and refill in any *)
(* order between two ticks.  A tick runs the scripts, then                 *)
(* Audio_ProcessNotes note by note; scripts run again when it is through.  *)
(*                                                                         *)
(* The music is data the repository does not hold, so what a script sets   *)
(* (priority, allocation policy, muteBehavior, pool sizes) is any value at *)
(* each use.  Envelopes are abstracted to whether they sound or fade; when *)
(* they end is open.  One sequence player; a layer is opened in any        *)
(* channel.  The order in which a channel's layers are freed is open.      *)
(***************************************************************************)
EXTENDS Integers, Sequences, FiniteSets

CONSTANTS
  NumNotes,    \* gNumNotes
  Layers,
  Channels,
  Priorities,  \* notePriority of the channels, at most the 16 that means no note
  Policies,    \* noteAllocPolicy: [retake |-> policy & 1, pools |-> where]
  PoolSizes,   \* sizes a script asks for; 0 gives the notes back
  Player,      \* the note pool of the sequence player
  Free,        \* gNoteFreeLists
  None         \* NO_LAYER, NULL

Notes == 1 .. NumNotes
Pools == Channels \cup {Player, Free}
Kinds == <<"disabled", "decaying", "releasing", "active">>
Kind  == {"disabled", "decaying", "releasing", "active"}
AllPolicies == [retake : BOOLEAN, pools : {"channel", "player", "free", "all"}]

ASSUME NoteAssumptions ==
  /\ NumNotes \in Nat \ {0}
  /\ Priorities \subseteq 0 .. 16
  /\ PoolSizes \subseteq Nat
  /\ Policies \subseteq AllPolicies
  /\ None \notin Layers \cup Notes \cup Channels
  /\ Player # Free /\ Player \notin Channels /\ Free \notin Channels

VARIABLES
  notes,    \* playbackState, noteSubEu.finished and listItem.pool of each note
  layers,   \* used: not in gLayerFreeList
  lists,    \* lists[pool][kind], front first
  open,     \* channels with a seqPlayer
  walk,     \* the channels whose layers a call is freeing
  turn,     \* the notes Audio_ProcessNotes has done in this tick
  orphans   \* history: notes whose claim outlived them in DiscardFont

vars == <<notes, layers, lists, open, walk, turn, orphans>>

\* What the helpers below read and return.
State(ns, ls, qs) == [notes |-> ns, layers |-> ls, lists |-> qs]
S == State(notes, layers, lists)

OffNote(pool) ==
  [parent |-> None, prevParent |-> None, wanted |-> None, priority |-> 0, unk_04 |-> FALSE,
   finished |-> FALSE, adsr |-> "off", linked |-> TRUE, pool |-> pool]

Init ==
  /\ notes = [n \in Notes |-> OffNote(Free)]
  /\ layers = [l \in Layers |-> [used |-> FALSE, channel |-> None, enabled |-> FALSE, note |-> None]]
  /\ lists = [p \in Pools |-> [k \in Kind |-> IF p = Free /\ k = "disabled"
                                               THEN [i \in Notes |-> i] ELSE <<>>]]
  /\ open = {}
  /\ walk = {}
  /\ turn = 0
  /\ orphans = {}
-----------------------------------------------------------------------------
(* The lists.  An item is in a list, or its prev is NULL and it may be      *)
(* pushed; a push of an item that is in a list does nothing.               *)

In(list, n) == \E i \in DOMAIN list : list[i] = n
Last(list) == list[Len(list)]
Without(list, n) ==
  IF ~In(list, n) THEN list
  ELSE LET i == CHOOSE i \in DOMAIN list : list[i] = n
       IN  SubSeq(list, 1, i - 1) \o SubSeq(list, i + 1, Len(list))
Unlinked(qs, n) == [p \in Pools |-> [k \in Kind |-> Without(qs[p][k], n)]]

AudioListRemove(s, n) ==
  State([s.notes EXCEPT ![n].linked = FALSE], s.layers, Unlinked(s.lists, n))

AudioListPushBack(s, p, k, n) ==
  IF s.notes[n].linked THEN s
  ELSE State([s.notes EXCEPT ![n].pool = p, ![n].linked = TRUE], s.layers,
             [s.lists EXCEPT ![p][k] = Append(@, n)])

\* (Mutated: a note that is pushed to a decaying list is lost.)
PushNowhere(s, p, k, n) ==
  IF k = "decaying" THEN s ELSE AudioListPushBack(s, p, k, n)
AudioListPushFront(s, p, k, n) ==
  IF s.notes[n].linked THEN s
  ELSE State([s.notes EXCEPT ![n].pool = p, ![n].linked = TRUE], s.layers,
             [s.lists EXCEPT ![p][k] = <<n>> \o @])

Moved(s, p, k, n) == AudioListPushBack(AudioListRemove(s, n), p, k, n)

Clear(s, p) ==
  LET freed == UNION {{s.lists[p][k][i] : i \in DOMAIN s.lists[p][k]} : k \in Kind}
  IN  IF p = Free THEN s
      ELSE State([n \in Notes |-> IF n \in freed THEN [s.notes[n] EXCEPT !.pool = Free] ELSE s.notes[n]],
                 s.layers,
                 [s.lists EXCEPT ![p] = [k \in Kind |-> <<>>],
                                 ![Free] = [k \in Kind |-> @[k] \o s.lists[p][k]]])

\* Notes go from the free lists to those of a pool.
Given(s, p, taken, rest) ==
  State([n \in Notes |-> IF \E k \in Kind : In(taken[k], n)
                         THEN [s.notes[n] EXCEPT !.pool = p] ELSE s.notes[n]],
        s.layers, [s.lists EXCEPT ![p] = taken, ![Free] = rest])

\* Clear, then take up to count notes from the backs of the free lists.
NotePoolFill(s, p, count) ==
  LET c == Clear(s, p)
      free == c.lists[Free]
      left[i \in 1 .. 5] ==
        IF i = 1 THEN count
        ELSE LET short == left[i - 1] - Len(free[Kinds[i - 1]]) IN IF short > 0 THEN short ELSE 0
      Kept(i) == IF left[i] < Len(free[Kinds[i]]) THEN Len(free[Kinds[i]]) - left[i] ELSE 0
      Index(k) == CHOOSE i \in 1 .. 4 : Kinds[i] = k
      Rest(k) == SubSeq(free[k], 1, Kept(Index(k)))
      Taken(k) == [j \in 1 .. Len(free[k]) - Kept(Index(k)) |-> free[k][Len(free[k]) + 1 - j]]
  IN  Given(c, p, [k \in Kind |-> Taken(k)], [k \in Kind |-> Rest(k)])
-----------------------------------------------------------------------------
(* A single note.                                                          *)

\* A request for a fade (adsr.action): Audio_AdsrUpdate takes it up at the next
\* tick unless the envelope is over.  Nothing looks at the state before, except
\* Audio_SeqLayerDecayRelease for an owned note, which never fades (SortedByState).
Asked(adsr) == IF adsr = "off" THEN "off" ELSE "fading"

\* Audio_AdsrUpdate: the envelope, or the fade, goes on or ends.
AdsrUpdate(adsr, ends) == IF ends THEN "off" ELSE adsr

\* wantedParentLayer stays.
NoteDisable(s, n) ==
  State([s.notes EXCEPT ![n] = [@ EXCEPT !.parent = None, !.prevParent = None, !.priority = 0,
                                         !.unk_04 = FALSE, !.finished = FALSE, !.adsr = "off"]],
        s.layers, s.lists)

NoteInitForLayer(s, n, l, prio) ==
  State([s.notes EXCEPT ![n] = [@ EXCEPT !.parent = l, !.prevParent = None, !.priority = prio,
                                         !.finished = FALSE, !.adsr = "on"]],
        [s.layers EXCEPT ![l].note = n], s.lists)

\* A note with another record.
Note(s, n, r) == State([s.notes EXCEPT ![n] = r], s.layers, s.lists)

\* Audio_SeqLayerDecayRelease; hushed: the player is muted and the channel's
\* muteBehavior has bit 8.
\* (Mutated: the claim of the layer is left in the note.)
DecayKeepingClaim(s, l, how, hushed) ==
  LET n == s.layers[l].note
      r == s.notes[n]
      owned == [r EXCEPT !.finished = @ \/ hushed, !.priority = 1, !.prevParent = l,
                         !.parent = None, !.adsr = Asked(@), !.unk_04 = TRUE]
      put(t) == IF how = "release" THEN t
                ELSE AudioListPushFront(AudioListRemove(t, n), r.pool, "decaying", n)
  IN  IF n = None THEN s
      ELSE IF r.parent # l THEN s
      ELSE put(Note(s, n, owned))
SeqLayerDecayRelease(s, l, how, hushed) ==
  LET n == s.layers[l].note
      r == [s.notes[n] EXCEPT !.wanted = IF @ = l THEN None ELSE @]
      late == r.parent = None /\ r.wanted = None /\ r.prevParent = l /\ how = "release"
      owned == [r EXCEPT !.finished = @ \/ hushed, !.priority = 1, !.prevParent = l,
                         !.parent = None, !.adsr = Asked(@), !.unk_04 = TRUE]
      put(t) == IF how = "release" THEN t
                ELSE AudioListPushFront(AudioListRemove(t, n), r.pool, "decaying", n)
  IN  IF n = None THEN s
      ELSE IF r.parent # l
      THEN Note(s, n, [r EXCEPT !.adsr = IF late THEN Asked(@) ELSE @])
      ELSE put(Note(s, n, owned))
-----------------------------------------------------------------------------
(* Audio_AllocNote.                                                        *)

TakeOwnership(s, n, l, prio) ==
  Note(s, n, [s.notes[n] EXCEPT !.wanted = l, !.priority = prio, !.adsr = Asked(@)])

PopBack(s, p, k) ==
  State([s.notes EXCEPT ![Last(s.lists[p][k])].linked = FALSE], s.layers,
        [s.lists EXCEPT ![p][k] = SubSeq(@, 1, Len(@) - 1)])

\* The last of the notes with the lowest priority, if it is below prio.
\* (Mutated: a note of the same priority will do.)
WeakestOrEqual(s, p, k, prio) ==
  LET list == s.lists[p][k]
      P(i) == s.notes[list[i]].priority
      low == {i \in DOMAIN list : P(i) <= prio /\ \A j \in DOMAIN list : P(i) <= P(j)}
  IN  IF low = {} THEN None ELSE list[CHOOSE i \in low : \A j \in low : j <= i]
FindNodeWithPrioLessThan(s, p, k, prio) ==
  LET list == s.lists[p][k]
      P(i) == s.notes[list[i]].priority
      low == {i \in DOMAIN list : P(i) < prio /\ \A j \in DOMAIN list : P(i) <= P(j)}
  IN  IF low = {} THEN None ELSE list[CHOOSE i \in low : \A j \in low : j <= i]

FromDisabled(s, p, l, prio) ==
  LET n == Last(s.lists[p]["disabled"])
  IN  AudioListPushFront(NoteInitForLayer(PopBack(s, p, "disabled"), n, l, prio), p, "active", n)

FromDecaying(s, p, l, prio) ==
  LET n == Last(s.lists[p]["decaying"])
  IN  AudioListPushBack(TakeOwnership(PopBack(s, p, "decaying"), n, l, prio), p, "releasing", n)

\* (Mutated: the note is claimed without being released.)
ClaimSounding(s, n, l, hushed) == Note(s, n, [s.notes[n] EXCEPT !.wanted = l])
func_80012E28(s, n, l, hushed) ==
  LET released == IF s.notes[n].parent = None THEN s
                  ELSE SeqLayerDecayRelease(s, s.notes[n].parent, "release", hushed)
  IN  Note(released, n, [released.notes[n] EXCEPT !.wanted = l])

\* 16 stands for no note.
FromActive(s, p, l, prio, hushed) ==
  LET r == FindNodeWithPrioLessThan(s, p, "releasing", prio)
      a == FindNodeWithPrioLessThan(s, p, "active", prio)
      rPriority == IF r = None THEN 16 ELSE s.notes[r].priority
      aPriority == IF a = None THEN 16 ELSE s.notes[a].priority
      moved == AudioListPushBack(func_80012E28(AudioListRemove(s, a), a, l, hushed), p, "releasing", a)
  IN  IF aPriority < rPriority
      THEN [s |-> Note(moved, a, [moved.notes[a] EXCEPT !.priority = prio]), n |-> a]
      ELSE [s |-> Note(s, r, [s.notes[r] EXCEPT !.wanted = l, !.priority = prio]), n |-> r]

PoolsFor(l, s, pools) ==
  LET c == s.layers[l].channel
  IN  CASE pools = "channel" -> <<c>>
        [] pools = "player"  -> <<c, Player>>
        [] pools = "free"    -> <<Free>>
        [] pools = "all"     -> <<c, Player, Free>>

AllocNote(s, l, prio, policy, hushed) ==
  LET own == s.layers[l].note
      pools == PoolsFor(l, s, policy.pools)
      Weaker(p, k) == FindNodeWithPrioLessThan(s, p, k, prio) # None
      silent == {i \in DOMAIN pools : s.lists[pools[i]]["disabled"] # <<>>}
      fading == {i \in DOMAIN pools : s.lists[pools[i]]["decaying"] # <<>>}
      weaker == {i \in DOMAIN pools : Weaker(pools[i], "releasing") \/ Weaker(pools[i], "active")}
      First(is) == pools[CHOOSE i \in is : \A j \in is : i <= j]
  IN  IF policy.retake /\ own # None /\ s.notes[own].prevParent = l /\ s.notes[own].wanted = None
      THEN [s |-> Moved(TakeOwnership(s, own, l, prio), s.notes[own].pool, "releasing", own), n |-> own]
      ELSE IF silent # {}
      THEN [s |-> FromDisabled(s, First(silent), l, prio), n |-> Last(s.lists[First(silent)]["disabled"])]
      ELSE IF fading # {}
      THEN [s |-> FromDecaying(s, First(fading), l, prio), n |-> Last(s.lists[First(fading)]["decaying"])]
      ELSE IF weaker # {} THEN FromActive(s, First(weaker), l, prio, hushed)
      ELSE [s |-> s, n |-> None]
-----------------------------------------------------------------------------
(* The sequence player: what scripts and commands do between two ticks.    *)

Becomes(s) == /\ notes' = s.notes
              /\ layers' = s.layers
              /\ lists' = s.lists

Track(lost) == orphans' = {n \in orphans \cup lost : /\ notes'[n].wanted # None
                                                     /\ notes'[n].wanted = notes[n].wanted}

Scripts == turn = 0 /\ walk = {}

\* Whether the layer is hushed matters only while it owns its note.
Hushes(l) == IF layers[l].note # None /\ notes[layers[l].note].parent = l
             THEN BOOLEAN ELSE {FALSE}
AnyHushes == IF \E l \in Layers : TRUE \in Hushes(l) THEN BOOLEAN ELSE {FALSE}

SetLayer(c, l, hushed) ==
  LET s == IF layers[l].used THEN SeqLayerDecayRelease(S, l, "decay", hushed) ELSE S
  IN  /\ Scripts
      /\ c \in open
      /\ layers[l].used => layers[l].channel = c
      /\ Becomes(State(s.notes, [s.layers EXCEPT ![l] = [used |-> TRUE, channel |-> c, enabled |-> TRUE,
                                                        note |-> None]], s.lists))
      /\ Track({})
      /\ UNCHANGED <<open, walk, turn>>

\* (Mutated: the layer goes back to the free list with its note sounding.)
FreeSounding(s, l, hushed) ==
  State(s.notes, [s.layers EXCEPT ![l].used = FALSE, ![l].enabled = FALSE], s.lists)
SeqLayerFree(s, l, hushed) ==
  LET t == SeqLayerDecayRelease(s, l, "decay", hushed)
  IN  State(t.notes, [t.layers EXCEPT ![l] = [@ EXCEPT !.used = FALSE, !.enabled = FALSE]], t.lists)

FreeLayer(l, hushed) ==
  /\ Scripts
  /\ layers[l].used
  /\ Becomes(SeqLayerFree(S, l, hushed))
  /\ Track({})
  /\ UNCHANGED <<open, walk, turn>>

\* A rest, the end of a gate, a muted layer, or the end of the layer's script.
StopNote(l, hushed) ==
  /\ Scripts
  /\ layers[l].used /\ layers[l].enabled
  /\ Becomes(SeqLayerDecayRelease(S, l, "decay", hushed))
  /\ Track({})
  /\ UNCHANGED <<open, walk, turn>>

\* A continuous note that the layer holds goes on and is no step.  In every
\* other case Audio_SeqLayerNoteDecay has come first or would change nothing.
StartNote(l, prio, policy, hushed) ==
  /\ Scripts
  /\ layers[l].used /\ layers[l].enabled
  /\ \E s \in {SeqLayerDecayRelease(S, l, "decay", hushed)} :
       \E a \in {AllocNote(s, l, prio, policy, hushed)} :
         Becomes(State(a.s.notes, [a.s.layers EXCEPT ![l].note = a.n], a.s.lists))
  /\ Track({})
  /\ UNCHANGED <<open, walk, turn>>

FillPool(p, count) ==
  /\ Scripts
  /\ p \in open \cup {Player}
  /\ Becomes(NotePoolFill(S, p, count))
  /\ Track({})
  /\ UNCHANGED <<open, walk, turn>>

\* The lists of a new channel are initialised, whatever they hold.
SetupChannel(c) ==
  /\ Scripts
  /\ c \notin open
  /\ open' = open \cup {c}
  /\ lists' = [lists EXCEPT ![c] = [k \in Kind |-> <<>>]]
  /\ UNCHANGED <<notes, layers, walk, turn, orphans>>

\* The calls that walk over the layers of channels: one channel's
\* AudioSeq_SequenceChannelEnable, ...Disable or ...SequencePlayerSetupChannels,
\* or AudioSeq_SequencePlayerDisable for all.  They differ after the walk, so a
\* single channel stands for its own call as well as for the last one of a player.
Walks(chans) ==
  \/ walk # {} /\ walk = chans
  \/ Scripts /\ chans # {} /\ chans \subseteq open

WalkLayer(chans, c, l, hushed) ==
  /\ Walks(chans) /\ c \in chans
  /\ layers[l].used /\ layers[l].channel = c
  /\ Becomes(SeqLayerFree(S, l, hushed))
  /\ Track({})
  /\ walk' = chans
  /\ UNCHANGED <<open, turn>>

Freed(c) == \A l \in Layers : layers[l].used => layers[l].channel # c

ChannelEnable(c) ==
  /\ Walks({c}) /\ Freed(c)
  /\ walk' = {}
  /\ UNCHANGED <<notes, layers, lists, open, turn, orphans>>

\* (Mutated: the notes of the channel's pool stay in it.)
KeepNotes(s, c) == s
ChannelClear(s, c) == Clear(s, c)

\* close: seqPlayer = NULL follows.
ChannelDisable(c, close) ==
  /\ Walks({c}) /\ Freed(c)
  /\ Becomes(ChannelClear(S, c))
  /\ open' = IF close THEN open \ {c} ELSE open
  /\ walk' = {}
  /\ UNCHANGED <<turn, orphans>>

PlayerDisable(c) ==
  LET last == open = {c}
      s == ChannelClear(S, c)
  IN  /\ Walks(open) /\ c \in open /\ Freed(c)
      /\ Becomes(IF last THEN Clear(s, Player) ELSE s)
      /\ open' = open \ {c}
      /\ walk' = open \ {c}
      /\ UNCHANGED <<turn, orphans>>

\* AUDIOCMD_OP_GLOBAL_UNMUTE ends notes of channels whose muteBehavior says so.
Unmute(chans) ==
  LET ended == {n \in Notes : /\ ~notes[n].unk_04 /\ notes[n].parent # None
                              /\ layers[notes[n].parent].channel \in chans}
  IN  /\ Scripts
      /\ notes' = [n \in Notes |-> IF n \in ended THEN [notes[n] EXCEPT !.finished = TRUE] ELSE notes[n]]
      /\ UNCHANGED <<layers, lists, open, walk, turn, orphans>>

\* AudioHeap_DiscardFont; gone: the notes that last played from the font.
DiscardFont(gone) ==
  LET off == {l \in Layers : \E n \in gone : /\ ~notes[n].unk_04 /\ notes[n].priority # 0
                                             /\ notes[n].parent = l}
      silenced[i \in 0 .. NumNotes] ==
        IF i = 0 THEN lists
        ELSE IF i \notin gone THEN silenced[i - 1]
        ELSE [Unlinked(silenced[i - 1], i) EXCEPT ![Free]["disabled"] = Append(@, i)]
  IN  /\ Scripts
      /\ layers' = [l \in Layers |-> IF l \in off THEN [layers[l] EXCEPT !.enabled = FALSE] ELSE layers[l]]
      /\ notes' = [n \in Notes |-> IF n \in gone
                                   THEN [NoteDisable(S, n).notes[n] EXCEPT !.pool = Free, !.linked = TRUE] ELSE notes[n]]
      /\ lists' = silenced[NumNotes]
      /\ Track(gone)
      /\ UNCHANGED <<open, walk, turn>>
-----------------------------------------------------------------------------
(* Audio_ProcessNotes for one note, in two halves as the code's goto has   *)
(* it: what its layer makes of it, and what its envelope does.             *)

\* "skip": continue, "disable": the channel has no player, "on": go on at out.
\* stop: the player is muted and the channel has MUTE_BEHAVIOR_STOP_NOTES.
ByLayer(s, n, stop, hushed) ==
  LET r == s.notes[n]
      l == r.parent
      Fading(t) == Note(t, n, [t.notes[n] EXCEPT !.priority = 1, !.unk_04 = TRUE])
      released == AudioListRemove(SeqLayerDecayRelease(s, l, "release", hushed), n)
  IN  IF l = None
      THEN [s |-> s, then |-> IF ~r.unk_04 /\ r.priority > 0 THEN "skip" ELSE "on"]
      ELSE IF s.layers[l].note # n /\ ~r.unk_04
      THEN [s |-> Fading(Note(s, n, [r EXCEPT !.adsr = Asked(@)])), then |-> "on"]
      ELSE IF s.layers[l].enabled \/ r.unk_04 \/ r.priority = 0
      THEN IF s.layers[l].channel \notin open
           THEN [s |-> Fading(s), then |-> "disable"]
           ELSE IF ~stop THEN [s |-> s, then |-> "on"]
           ELSE [s |-> Fading(AudioListPushFront(released, r.pool, "decaying", n)), then |-> "on"]
      ELSE [s |-> Fading(AudioListPushFront(released, r.pool, "decaying", n)), then |-> "on"]

\* (Mutated: a layer that waits for the note is forgotten.)
EnvelopeForgets(s, n, prio, ends) ==
  LET r == s.notes[n]
      over == r.adsr = "off" \/ r.finished
      off == NoteDisable(Note(s, n, [r EXCEPT !.wanted = None]), n)
      Updated(t) == Note(t, n, [t.notes[n] EXCEPT !.adsr = AdsrUpdate(@, ends)])
  IN  IF r.priority = 0 THEN s
      ELSE IF ~over THEN Updated(s)
      ELSE Moved(off, r.pool, "disabled", n)
ByEnvelope(s, n, prio, ends) ==
  LET r == s.notes[n]
      fades == r.unk_04 \/ r.finished
      over == r.adsr = "off" \/ r.finished
      off == NoteDisable(s, n)
      Unclaimed(t) == Note(t, n, [t.notes[n] EXCEPT !.wanted = None])
      given == Moved(NoteInitForLayer(off, n, r.wanted, prio), r.pool, "active", n)
      Updated(t) == Note(t, n, [t.notes[n] EXCEPT !.adsr = AdsrUpdate(@, ends)])
  IN  IF r.priority = 0 THEN s
      ELSE IF ~over THEN Updated(s)
      ELSE IF fades /\ r.wanted # None /\ s.layers[r.wanted].channel # None
      THEN Updated(Unclaimed(given))
      ELSE Moved(IF fades THEN Unclaimed(off) ELSE off, r.pool, "disabled", n)

ProcessNote(stop, hushed, prio, ends) ==
  LET n == turn + 1
      first == ByLayer(S, n, stop, hushed)
  IN  /\ walk = {}
      /\ stop \/ hushed => notes[n].parent # None
      /\ Becomes(IF first.then = "on" THEN ByEnvelope(first.s, n, prio, ends) ELSE first.s)
      /\ Track({})
      /\ walk' = IF first.then = "disable" THEN {layers[notes[n].parent].channel} ELSE {}
      /\ turn' = n % NumNotes
      /\ UNCHANGED open
-----------------------------------------------------------------------------
\* The priority is read only when the note is handed over.
Offers == IF notes[turn + 1].wanted = None THEN {0} ELSE Priorities

Tick == \/ \E stop, hushed, ends \in BOOLEAN, prio \in Offers :
             ProcessNote(stop, hushed, prio, ends)
        \/ \E c \in open, l \in Layers : \E chans \in {{c}, open}, hushed \in Hushes(l) :
             WalkLayer(chans, c, l, hushed)
        \/ \E c \in Channels : ChannelEnable(c) \/ PlayerDisable(c)
        \/ \E c \in Channels, close \in BOOLEAN : ChannelDisable(c, close)

Next ==
  \/ \E c \in Channels, l \in Layers : \E hushed \in Hushes(l) : SetLayer(c, l, hushed)
  \/ \E l \in Layers : \E hushed \in Hushes(l) : FreeLayer(l, hushed)
  \/ \E l \in Layers : \E hushed \in Hushes(l) : StopNote(l, hushed)
  \/ \E l \in Layers, prio \in Priorities, policy \in Policies, hushed \in AnyHushes :
       StartNote(l, prio, policy, hushed)
  \/ \E p \in Channels \cup {Player}, count \in PoolSizes : FillPool(p, count)
  \/ \E c \in Channels : SetupChannel(c)
  \/ \E chans \in SUBSET Channels \ {{}} : Unmute(chans)
  \/ \E gone \in SUBSET Notes \ {{}} : DiscardFont(gone)
  \/ Tick

Spec == Init /\ [][Next]_vars

-----------------------------------------------------------------------------
(* Properties.                                                             *)

NoteRec == [parent : Layers \cup {None}, prevParent : Layers \cup {None},
            wanted : Layers \cup {None}, priority : Nat, unk_04 : BOOLEAN, finished : BOOLEAN,
            adsr : {"on", "fading", "off"}, linked : {TRUE}, pool : Pools]
LayerRec == [used : BOOLEAN, channel : Channels \cup {None}, enabled : BOOLEAN,
             note : Notes \cup {None}]

\* Notes, layers and lists keep their types.
TypeOK ==
  /\ notes \in [Notes -> NoteRec]
  /\ layers \in [Layers -> LayerRec]
  /\ \A p \in Pools, k \in Kind : \A i \in DOMAIN lists[p][k] : lists[p][k][i] \in Notes
  /\ open \subseteq Channels
  /\ walk \subseteq Channels
  /\ turn \in 0 .. NumNotes - 1
  /\ orphans \subseteq Notes

\* A note belongs to, or is promised to, only a layer that points back at it:
\* no layer can close, or start another note, and leave a note behind that
\* still follows it.
Owned ==
  \A n \in Notes, l \in Layers :
    notes[n].parent = l \/ notes[n].wanted = l => layers[l].note = n

\* Owner and claimant of a note are open layers of a channel that has a player:
\* Audio_ProcessNotes and Audio_NoteInitForLayer follow
\* layer->channel->seqPlayer without a test.
OwnersLive ==
  \A n \in Notes : \A l \in {notes[n].parent, notes[n].wanted} \ {None} :
    layers[l].used /\ layers[l].channel \in open

\* Every note is in exactly one list, the one its pool field names, and no
\* pool of a closed channel keeps a note.
Slots == UNION {{<<p, k, i>> : i \in DOMAIN lists[p][k]} : p \in Pools, k \in Kind}
OneList ==
  \A n \in Notes :
    LET places == {x \in Slots : lists[x[1]][x[2]][x[3]] = n}
    IN  /\ Cardinality(places) = 1
        /\ \A x \in places : x[1] = notes[n].pool
        /\ notes[n].pool \in open \cup {Player, Free} \cup walk

\* The list a note is in says what it does: active notes have an owner and do
\* not fade, disabled ones are silent, and decaying and releasing ones are
\* seen to in every tick (a note of priority 0 would be passed over for ever:
\* the instance has none).  A layer that waits for a note waits for a releasing
\* one, so it will get it; only a claim that DiscardFont left behind is on another.
Listed(n, k) == \E p \in Pools : In(lists[p][k], n)
SortedByState ==
  \A n \in Notes :
    /\ Listed(n, "active") <=> notes[n].parent # None
    /\ Listed(n, "active") => notes[n].adsr # "fading"
    /\ Listed(n, "disabled") => notes[n].priority = 0 /\ ~notes[n].unk_04 /\ notes[n].adsr = "off"
    /\ Listed(n, "decaying") \/ Listed(n, "releasing") => notes[n].unk_04 /\ notes[n].priority > 0
    /\ notes[n].wanted # None /\ n \notin orphans => Listed(n, "releasing") /\ notes[n].adsr # "on"

\* A note that sounds for a layer or is promised to one changes its claimant
\* only to a layer of strictly higher priority.
TakenByHigher ==
  [][\A n \in Notes \ orphans :
       (/\ notes'[n].wanted \notin {None, notes[n].wanted}
        /\ notes[n].wanted # None \/ (notes[n].parent # None /\ notes'[n].prevParent # notes'[n].wanted))
       => notes'[n].priority > notes[n].priority]_vars

\* Audio_ProcessNotes ends the wait of a layer only by handing it the note.
ClaimsKept ==
  [][turn' # turn => \A n \in Notes : notes'[n].wanted # notes[n].wanted =>
       notes'[n].wanted = None /\ notes'[n].parent = notes[n].wanted]_vars
=============================================================================
