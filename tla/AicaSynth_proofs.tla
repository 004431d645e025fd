-------------------------- MODULE AicaSynth_proofs --------------------------
(***************************************************************************)
(* The synth's resources, for any number of notes, streams, channels and   *)
(* cache entries, any sounds and any size of sound RAM.  Channels and      *)
(* types do not depend on whether the audio thread preempts the scene      *)
(* load; references and sound RAM do (the run aica_clear).                 *)
(***************************************************************************)
EXTENDS AicaSynth, TLAPS, FiniteSetTheorems, SequenceTheorems, WellFoundedInduction

VoiceType == [channel : 0 .. NumChannels, active : BOOLEAN, sampleKey : Sounds \cup {None},
              entry : 0 .. NumEntries]
StreamType == [noteIndex : 0 .. NumNotes, channel : 0 .. NumChannels,
               key : Sounds \cup {None}, done : BOOLEAN]
EntryType == [key : Short \cup {None}, aram : 0 .. AramSize, refs : Nat, lru : 0 .. NumEntries + 1]
PlayType == [key : Sounds \cup {None}, aram : 0 .. AramSize]
BlockType == [base : 1 .. AramSize, len : Nat, key : Short]
NoteType == [enabled : BOOLEAN, finished : BOOLEAN, needsInit : BOOLEAN, sound : Sounds \cup {None}]

Synth == [voices : [Notes -> VoiceType], streams : [Streams -> StreamType],
          free : Seq(Channels), cache : [Entries -> EntryType],
          blocks : SUBSET BlockType, hw : [Channels -> PlayType]]

\* A channel is held by a voice or by a stream, or lies on the free stack.
Holders == {<<"voice", i>> : i \in Notes} \cup {<<"stream", s>> : s \in Streams}
Held(m) == [o \in Holders |-> IF o[1] = "voice" THEN m.voices[o[2]].channel
                              ELSE m.streams[o[2]].channel]
Stacked(f) == {f[p] : p \in 1 .. Len(f)}

Placed(f, h, held) ==
  /\ \A p, q \in 1 .. Len(f) : f[p] = f[q] => p = q
  /\ \A o, x \in Holders : held[o] # 0 /\ held[o] = held[x] => o = x
  /\ \A o \in Holders : held[o] \notin Stacked(f)
  /\ \A c \in Channels : c \in Stacked(f) \/ \E o \in Holders : held[o] = c
  /\ \A c \in Channels : h[c] = Silent <=> c \in Stacked(f)

Holding == [Holders -> 0 .. NumChannels]
Playing == [Channels -> PlayType]
-----------------------------------------------------------------------------
(* Least elements. *)

\* Lowest finds the least number of a set that is not empty.
LEMMA LowestIsLeast ==
  ASSUME NEW X \in SUBSET Nat, X # {}
  PROVE  Lowest(X) \in X /\ \A b \in X : Lowest(X) <= b
<1> DEFINE Below == {1 .. a : a \in X}
<1>1. IsWellFoundedOn(StrictSubsetOrdering(Nat), FiniteSubsetsOf(Nat))
  BY FS_StrictSubsetOrderingWellFounded
<1>2. Below \subseteq FiniteSubsetsOf(Nat)
  BY FS_Interval DEF FiniteSubsetsOf
<1>3. Below # {}
  OBVIOUS
<1>4. PICK T \in Below : \A U \in Below : ~(<<U, T>> \in StrictSubsetOrdering(Nat))
  <2> HIDE DEF Below
  <2> QED BY <1>1, <1>2, <1>3, WFMin
<1>5. PICK a \in X : T = 1 .. a
  OBVIOUS
<1>6. ASSUME NEW b \in X, b < a PROVE FALSE
  <2>1. 1 .. b \in Below
    OBVIOUS
  <2>2. 1 .. b \subseteq 1 .. a /\ a \in 1 .. a /\ a \notin 1 .. b
    BY <1>6
  <2>3. <<1 .. b, T>> \in StrictSubsetOrdering(Nat)
    BY <1>5, <2>2 DEF StrictSubsetOrdering
  <2> QED BY <1>4, <2>1, <2>3
<1>7. \A b \in X : a <= b
  BY <1>6
<1> QED BY <1>7 DEF Lowest

\* Something is the oldest of what may be evicted.
LEMMA VictimIsOldest ==
  ASSUME NEW m \in Synth, Evictable(m) # {}
  PROVE  Victim(m) \in Evictable(m)
<1> DEFINE E == Evictable(m)
           L == {m.cache[e].lru : e \in E}
<1>1. E \subseteq Entries /\ \A e \in E : m.cache[e].lru \in Nat
  BY AicaAssumption DEF Evictable, Resident, Synth, EntryType
<1>2. L \in SUBSET Nat /\ L # {}
  BY <1>1
<1>3. PICK l \in L : \A k \in L : l <= k
  BY <1>2, LowestIsLeast
<1> DEFINE F == {e \in E : m.cache[e].lru = l}
<1>4. F \in SUBSET Nat /\ F # {}
  BY <1>1 DEF Entries
<1>5. PICK e \in F : \A f \in F : e <= f
  BY <1>4, LowestIsLeast
<1>6. \A f \in E : ~Before(m, f, e)
  <2> SUFFICES ASSUME NEW f \in E, Before(m, f, e) PROVE FALSE
    OBVIOUS
  <2>1. m.cache[f].lru \in L /\ m.cache[f].lru \in Nat /\ m.cache[e].lru = l /\ l \in Nat
    BY <1>1
  <2>2. l <= m.cache[f].lru
    BY <1>3, <2>1
  <2>3. m.cache[f].lru = l /\ f < e
    <3> HIDE DEF E, L
    <3> QED BY <2>1, <2>2 DEF Before
  <2>4. f \in F /\ f \in Nat /\ e \in Nat
    BY <2>3, <1>1, <1>4
  <2> QED BY <1>5, <2>3, <2>4
<1>7. {f \in Evictable(m) : Before(m, f, e)} = {}
  BY <1>6
<1>8. Cardinality({f \in Evictable(m) : Before(m, f, e)}) = 0
  BY <1>7, FS_EmptySet
<1>9. e \in Oldest(m, 1)
  BY <1>8 DEF Oldest
<1>10. Victim(m) \in Oldest(m, 1)
  BY <1>9 DEF Victim
<1> QED BY <1>10 DEF Oldest
-----------------------------------------------------------------------------
(* The free stack. *)

\* A stack without repetitions that lacks a channel has room for it.
LEMMA StackHasRoom ==
  ASSUME NEW f \in Seq(Channels), NEW c \in Channels, c \notin Stacked(f),
         \A p, q \in 1 .. Len(f) : f[p] = f[q] => p = q
  PROVE  Len(f) < NumChannels
<1>1. Len(f) \in Nat /\ f \in [1 .. Len(f) -> Channels]
  BY LenProperties
<1>2. f \in Injection(1 .. Len(f), Channels \ {c})
  BY <1>1 DEF Injection, Stacked, IsInjective
<1>3. IsFiniteSet(Channels) /\ Cardinality(Channels) = NumChannels
  BY FS_Interval, AicaAssumption DEF Channels
<1>4. IsFiniteSet(Channels \ {c}) /\ Cardinality(Channels \ {c}) = NumChannels - 1
  BY <1>3, FS_RemoveElement
<1>5. Cardinality(1 .. Len(f)) <= Cardinality(Channels \ {c})
  BY <1>2, <1>4, FS_Injection
<1>6. Cardinality(1 .. Len(f)) = Len(f)
  BY <1>1, FS_Interval
<1> QED BY <1>1, <1>4, <1>5, <1>6, AicaAssumption

\* A channel that its holder gives up goes on the stack, where it is not yet.
LEMMA GivenBack ==
  ASSUME NEW f \in Seq(Channels), NEW h \in Playing, NEW held \in Holding, NEW o \in Holders,
         Placed(f, h, held), held[o] # 0
  PROVE  /\ Len(f) < NumChannels
         /\ Append(f, held[o]) \in Seq(Channels)
         /\ Placed(Append(f, held[o]), [h EXCEPT ![held[o]] = Silent], [held EXCEPT ![o] = 0])
<1> DEFINE c == held[o]
           g == Append(f, c)
<1>1. c \in Channels
  BY DEF Holding, Channels
<1>2. Len(f) \in Nat /\ f \in [1 .. Len(f) -> Channels]
  BY LenProperties
<1>3. /\ g \in Seq(Channels)
      /\ Len(g) = Len(f) + 1
      /\ \A i \in 1 .. Len(f) : g[i] = f[i]
      /\ g[Len(f) + 1] = c
  BY <1>1, AppendProperties
<1>4. c \notin Stacked(f)
  BY DEF Placed
<1>5. Len(f) < NumChannels
  BY <1>1, <1>4, StackHasRoom DEF Placed
<1>6. Stacked(g) = Stacked(f) \cup {c}
  BY <1>2, <1>3 DEF Stacked
<1>7. \A p, q \in 1 .. Len(g) : g[p] = g[q] => p = q
  BY <1>2, <1>3, <1>4 DEF Placed, Stacked
<1> HIDE DEF g, c
<1> DEFINE to == [held EXCEPT ![o] = 0]
<1>8. to[o] = 0 /\ \A x \in Holders : x # o => to[x] = held[x]
  BY DEF Holding
<1>9. \A x \in Holders : x # o => held[x] # c
  BY DEF Placed, c
<1>10. 0 \notin Stacked(g)
  <2>1. \A p \in 1 .. Len(f) : f[p] \in Channels
    BY <1>2
  <2>2. Stacked(f) \subseteq Channels
    BY <2>1 DEF Stacked
  <2>3. 0 \notin Channels
    BY DEF Channels
  <2> QED BY <1>1, <1>6, <2>2, <2>3
<1>11. \A x \in Holders : to[x] \notin Stacked(g)
  BY <1>6, <1>8, <1>9, <1>10 DEF Placed
<1>12. \A a \in Channels : a \in Stacked(g) \/ \E x \in Holders : to[x] = a
  <2> SUFFICES ASSUME NEW a \in Channels, a \notin Stacked(g) PROVE \E x \in Holders : to[x] = a
    OBVIOUS
  <2>1. PICK x \in Holders : held[x] = a
    BY <1>6 DEF Placed
  <2>2. x # o
    BY <2>1, <1>6 DEF c
  <2> QED BY <2>1, <2>2, <1>8
<1>13. \A x, y \in Holders : to[x] # 0 /\ to[x] = to[y] => x = y
  BY <1>8 DEF Placed
<1>14. \A a \in Channels : [h EXCEPT ![c] = Silent][a] = Silent <=> a \in Stacked(g)
  BY <1>6 DEF Placed, Playing
<1>15. Placed(g, [h EXCEPT ![c] = Silent], to)
  BY <1>7, <1>11, <1>12, <1>13, <1>14 DEF Placed
<1> QED BY <1>3, <1>5, <1>15 DEF g, c

\* The top of the stack goes to a holder that has no channel, and sounds.
LEMMA TakenUp ==
  ASSUME NEW f \in Seq(Channels), NEW h \in Playing, NEW held \in Holding, NEW o \in Holders,
         Placed(f, h, held), held[o] = 0, f # <<>>, NEW x \in PlayType, x # Silent
  PROVE  /\ f[Len(f)] \in Channels
         /\ SubSeq(f, 1, Len(f) - 1) \in Seq(Channels)
         /\ Placed(SubSeq(f, 1, Len(f) - 1), [h EXCEPT ![f[Len(f)]] = x],
                   [held EXCEPT ![o] = f[Len(f)]])
<1> DEFINE c == f[Len(f)]
           g == SubSeq(f, 1, Len(f) - 1)
           to == [held EXCEPT ![o] = c]
<1>1. Len(f) \in Nat \ {0} /\ f \in [1 .. Len(f) -> Channels]
  BY LenProperties, EmptySeq
<1>2. c \in Channels
  BY <1>1
<1>3. /\ g \in Seq(Channels)
      /\ Len(g) = Len(f) - 1
      /\ \A i \in 1 .. Len(f) - 1 : g[i] = f[i]
  <2>1. \A i \in 1 .. Len(f) - 1 : f[i] \in Channels
    BY <1>1
  <2> QED BY <1>1, <2>1, SubSeqProperties
<1>4. Stacked(g) = Stacked(f) \ {c}
  BY <1>1, <1>3 DEF Stacked, Placed
<1>5. \A p, q \in 1 .. Len(g) : g[p] = g[q] => p = q
  BY <1>1, <1>3 DEF Placed
<1>6. c \in Stacked(f) /\ c # 0
  BY <1>1, <1>2 DEF Stacked, Channels
<1> HIDE DEF c, g
<1>7. to[o] = c /\ \A y \in Holders : y # o => to[y] = held[y]
  BY DEF Holding
<1>8. \A y \in Holders : held[y] # c
  BY <1>6 DEF Placed
<1>9. \A y \in Holders : to[y] \notin Stacked(g)
  BY <1>4, <1>7 DEF Placed
<1>10. \A a \in Channels : a \in Stacked(g) \/ \E y \in Holders : to[y] = a
  <2> SUFFICES ASSUME NEW a \in Channels, a \notin Stacked(g) PROVE \E y \in Holders : to[y] = a
    OBVIOUS
  <2>1. CASE a = c
    BY <2>1, <1>7
  <2>2. CASE a # c
    <3>1. a \notin Stacked(f)
      BY <2>2, <1>4
    <3>2. PICK y \in Holders : held[y] = a
      BY <3>1 DEF Placed
    <3>3. y # o
      BY <3>2 DEF Channels
    <3> QED BY <3>2, <3>3, <1>7
  <2> QED BY <2>1, <2>2
<1>11. \A y, z \in Holders : to[y] # 0 /\ to[y] = to[z] => y = z
  BY <1>7, <1>8 DEF Placed
<1>12. \A a \in Channels : [h EXCEPT ![c] = x][a] = Silent <=> a \in Stacked(g)
  BY <1>4, <1>2 DEF Placed, Playing
<1>13. Placed(g, [h EXCEPT ![c] = x], to)
  BY <1>5, <1>9, <1>10, <1>11, <1>12 DEF Placed
<1> QED BY <1>2, <1>3, <1>13 DEF g, c
-----------------------------------------------------------------------------
(* What the operations do to the state of the synth. *)

PlacedIn(m) == Placed(m.free, m.hw, Held(m))

\* A slot in use has a channel until it has played out, an unused one has none, and
\* no note has two.
Slotted(st) ==
  /\ \A s \in Streams : st[s].noteIndex # 0 /\ ~st[s].done => st[s].channel # 0
  /\ \A s \in Streams : st[s].noteIndex = 0 => st[s].channel = 0
  /\ \A s, t \in Streams : st[s].noteIndex # 0 /\ st[s].noteIndex = st[t].noteIndex => s = t

\* What a channel plays is what its holder asked for.
Sounding(m) ==
  /\ \A i \in Notes : /\ m.voices[i].active <=> m.voices[i].channel # 0
                      /\ m.voices[i].channel # 0 =>
                           m.hw[m.voices[i].channel].key = m.voices[i].sampleKey
  /\ \A s \in Streams : m.streams[s].channel # 0 =>
       m.hw[m.streams[s].channel].key = m.streams[s].key

Good(m) == m \in Synth /\ PlacedIn(m) /\ Slotted(m.streams) /\ Sounding(m)

\* The voices, streams and channels of all notes but i are left alone.
Others(m, n, i) ==
  /\ \A j \in Notes \ {i} :
       /\ n.voices[j] = m.voices[j]
       /\ m.voices[j].channel # 0 => n.hw[m.voices[j].channel] = m.hw[m.voices[j].channel]
  /\ \A j \in Notes \ {i} : StreamsOf(n, j) = StreamsOf(m, j)
  /\ \A s \in Streams : m.streams[s].noteIndex \notin {0, i} => n.streams[s] = m.streams[s]

LEMMA OthersTransitive ==
  ASSUME NEW k, NEW m, NEW n, NEW i, Others(k, m, i), Others(m, n, i)
  PROVE  Others(k, n, i)
<1>1. \A j \in Notes \ {i} :
        /\ n.voices[j] = k.voices[j]
        /\ k.voices[j].channel # 0 => n.hw[k.voices[j].channel] = k.hw[k.voices[j].channel]
  BY DEF Others
<1>2. \A j \in Notes \ {i} : StreamsOf(n, j) = StreamsOf(k, j)
  BY DEF Others
<1>3. \A s \in Streams : k.streams[s].noteIndex \notin {0, i} => n.streams[s] = k.streams[s]
  BY DEF Others
<1> QED BY <1>1, <1>2, <1>3 DEF Others

LEMMA SilentIsNone == Silent \in PlayType /\ NoVoice \in VoiceType
BY AicaAssumption DEF Silent, PlayType, NoVoice, VoiceType

LEMMA HeldType ==
  ASSUME NEW m \in Synth
  PROVE  /\ Held(m) \in Holding
         /\ \A i \in Notes : <<"voice", i>> \in Holders /\ Held(m)[<<"voice", i>>] = m.voices[i].channel
         /\ \A s \in Streams : <<"stream", s>> \in Holders /\ Held(m)[<<"stream", s>>] = m.streams[s].channel
<1>1. \A i \in Notes : m.voices[i].channel \in 0 .. NumChannels
  BY DEF Synth, VoiceType
<1>2. \A s \in Streams : m.streams[s].channel \in 0 .. NumChannels
  BY DEF Synth, StreamType
<1>3. \A o \in Holders : \/ o[1] = "voice" /\ o[2] \in Notes
                         \/ o[1] = "stream" /\ o[2] \in Streams
  BY DEF Holders
<1>4. "voice" # "stream"
  OBVIOUS
<1> QED BY <1>1, <1>2, <1>3, <1>4 DEF Held, Holding, Holders

\* Only the channel that is stopped falls silent and goes back.
LEMMA StopFields ==
  ASSUME NEW m \in Synth, NEW c \in Channels, Len(m.free) < NumChannels,
         Append(m.free, c) \in Seq(Channels)
  PROVE  LET n == StopChannel(m, c)
         IN  /\ n \in Synth
             /\ n.voices = m.voices
             /\ n.streams = m.streams
             /\ n.cache = m.cache
             /\ n.blocks = m.blocks
             /\ n.free = Append(m.free, c)
             /\ n.hw = [m.hw EXCEPT ![c] = Silent]
<1>1. [m.hw EXCEPT ![c] = Silent] \in [Channels -> PlayType]
  BY SilentIsNone DEF Synth
<1>2. StopChannel(m, c) = [m EXCEPT !.hw = [m.hw EXCEPT ![c] = Silent], !.free = Append(m.free, c)]
  BY DEF StopChannel, Synth
<1> QED BY <1>1, <1>2 DEF Synth

LEMMA StartFields ==
  ASSUME NEW m \in Synth, NEW x \in Sounds, NEW a \in 0 .. AramSize, Top(m) \in Channels,
         SubSeq(m.free, 1, Len(m.free) - 1) \in Seq(Channels)
  PROVE  LET n == StartChannel(m, x, a)
         IN  /\ n \in Synth
             /\ n.voices = m.voices
             /\ n.streams = m.streams
             /\ n.cache = m.cache
             /\ n.blocks = m.blocks
             /\ n.free = SubSeq(m.free, 1, Len(m.free) - 1)
             /\ n.hw = [m.hw EXCEPT ![Top(m)] = [key |-> x, aram |-> a]]
<1>1. [m.hw EXCEPT ![Top(m)] = [key |-> x, aram |-> a]] \in [Channels -> PlayType]
  BY DEF Synth, PlayType
<1>2. StartChannel(m, x, a) =
        [m EXCEPT !.hw = [m.hw EXCEPT ![Top(m)] = [key |-> x, aram |-> a]],
                  !.free = SubSeq(m.free, 1, Len(m.free) - 1)]
  BY DEF StartChannel, Synth
<1> QED BY <1>1, <1>2 DEF Synth

LEMMA ReleaseFields ==
  ASSUME NEW m \in Synth, NEW e \in 0 .. NumEntries
  PROVE  LET n == Release(m, e)
         IN  /\ n \in Synth
             /\ n.voices = m.voices
             /\ n.streams = m.streams
             /\ n.free = m.free
             /\ n.hw = m.hw
             /\ n.blocks = m.blocks
             /\ \A f \in Entries :
                  /\ n.cache[f].key = m.cache[f].key
                  /\ n.cache[f].aram = m.cache[f].aram
                  /\ n.cache[f].lru = m.cache[f].lru
                  /\ n.cache[f].refs = IF f = e /\ m.cache[f].refs > 0 THEN m.cache[f].refs - 1
                                       ELSE m.cache[f].refs
<1>1. CASE e = 0 \/ ~(m.cache[e].refs > 0)
  <2>1. Release(m, e) = m
    BY <1>1 DEF Release
  <2>2. \A f \in Entries : f # 0
    BY DEF Entries
  <2> QED BY <1>1, <2>1, <2>2
<1>2. CASE e # 0 /\ m.cache[e].refs > 0
  <2> DEFINE new == [m.cache EXCEPT ![e].refs = m.cache[e].refs - 1]
  <2>1. e \in Entries /\ m.cache[e] \in EntryType
    <3>1. e \in Entries
      BY <1>2, AicaAssumption DEF Entries
    <3>2. m.cache \in [Entries -> EntryType]
      BY DEF Synth
    <3> QED BY <3>1, <3>2
  <2>2. Release(m, e) = [m EXCEPT !.cache = new]
    BY <1>2 DEF Release, Synth
  <2>3. m.cache[e].refs - 1 \in Nat
    BY <1>2, <2>1 DEF EntryType
  <2>4. [m.cache[e] EXCEPT !.refs = m.cache[e].refs - 1] \in EntryType
    BY <2>1, <2>3 DEF EntryType
  <2>5. m.cache \in [Entries -> EntryType]
    BY DEF Synth
  <2>6. new \in [Entries -> EntryType]
    BY <2>1, <2>4, <2>5
  <2>7. new[e] = [m.cache[e] EXCEPT !.refs = m.cache[e].refs - 1]
    BY <2>1, <2>5
  <2>8. /\ new[e].key = m.cache[e].key /\ new[e].aram = m.cache[e].aram
        /\ new[e].lru = m.cache[e].lru /\ new[e].refs = m.cache[e].refs - 1
    BY <2>7, <2>1 DEF EntryType
  <2>9. \A f \in Entries : f # e => new[f] = m.cache[f]
    BY <2>5
  <2> HIDE DEF new
  <2>10. [m EXCEPT !.cache = new] \in Synth
    BY <2>6 DEF Synth
  <2> QED BY <1>2, <2>2, <2>8, <2>9, <2>10 DEF Synth
<1> QED BY <1>1, <1>2
-----------------------------------------------------------------------------
(* The operations on voices and streams keep Good. *)

\* What remains of the state when the voice or stream o gives up its channel.
LEMMA QuietFields ==
  ASSUME NEW m, Good(m), NEW o \in Holders, Held(m)[o] # 0
  PROVE  LET n == StopChannel(m, Held(m)[o])
         IN  /\ n \in Synth
             /\ n.voices = m.voices
             /\ n.streams = m.streams
             /\ n.cache = m.cache
             /\ n.blocks = m.blocks
             /\ Placed(n.free, n.hw, [Held(m) EXCEPT ![o] = 0])
             /\ \A x \in Holders : x # o /\ Held(m)[x] # 0 => n.hw[Held(m)[x]] = m.hw[Held(m)[x]]
<1> DEFINE c == Held(m)[o]
           n == StopChannel(m, c)
<1>1. m \in Synth /\ Held(m) \in Holding /\ m.free \in Seq(Channels) /\ m.hw \in Playing
  BY HeldType DEF Good, Synth, Playing
<1>2. Placed(m.free, m.hw, Held(m))
  BY DEF Good, PlacedIn
<1>3. c \in Channels
  BY <1>1 DEF Holding, Channels
<1>4. /\ Len(m.free) < NumChannels
      /\ Append(m.free, c) \in Seq(Channels)
      /\ Placed(Append(m.free, c), [m.hw EXCEPT ![c] = Silent], [Held(m) EXCEPT ![o] = 0])
  BY <1>1, <1>2, GivenBack
<1>5. /\ n \in Synth
      /\ n.voices = m.voices
      /\ n.streams = m.streams
      /\ n.cache = m.cache
      /\ n.blocks = m.blocks
      /\ n.free = Append(m.free, c)
      /\ n.hw = [m.hw EXCEPT ![c] = Silent]
  BY <1>1, <1>3, <1>4, StopFields
<1>6. \A x \in Holders : x # o /\ Held(m)[x] # 0 => n.hw[Held(m)[x]] = m.hw[Held(m)[x]]
  <2> SUFFICES ASSUME NEW x \in Holders, x # o, Held(m)[x] # 0
               PROVE  n.hw[Held(m)[x]] = m.hw[Held(m)[x]]
    OBVIOUS
  <2>1. Held(m)[x] # c
    BY <1>2 DEF Placed
  <2>2. Held(m)[x] \in Channels
    BY <1>1 DEF Holding, Channels
  <2> QED BY <2>1, <2>2, <1>1, <1>5 DEF Playing
<1> QED BY <1>4, <1>5, <1>6

\* A voice that stops: its channel is given back, its entry released.
LEMMA VoiceStopFields ==
  ASSUME NEW m, Good(m), NEW i \in Notes
  PROVE  LET n == VoiceStop(m, i)
         IN  /\ Good(n)
             /\ n.voices = [m.voices EXCEPT ![i] = NoVoice]
             /\ n.streams = m.streams
             /\ n.blocks = m.blocks
             /\ n.cache = Release(m, m.voices[i].entry).cache
             /\ Others(m, n, i)
<1> DEFINE v == m.voices[i]
           o == <<"voice", i>>
           quiet == IF v.channel # 0 THEN StopChannel(m, v.channel) ELSE m
           less == Release(quiet, v.entry)
           n == [less EXCEPT !.voices[i] = NoVoice]
           to == [Held(m) EXCEPT ![o] = 0]
<1>1. /\ m \in Synth
      /\ v \in VoiceType
      /\ o \in Holders
      /\ Held(m) \in Holding
      /\ Held(m)[o] = v.channel
      /\ Placed(m.free, m.hw, Held(m))
  <2>1. m \in Synth
    BY DEF Good
  <2>2. v \in VoiceType
    BY <2>1 DEF Synth
  <2> QED BY <2>1, <2>2, HeldType DEF Good, PlacedIn
<1>2. v.entry \in 0 .. NumEntries
  BY <1>1 DEF VoiceType
<1>3. /\ quiet \in Synth
      /\ quiet.voices = m.voices
      /\ quiet.streams = m.streams
      /\ quiet.cache = m.cache
      /\ quiet.blocks = m.blocks
      /\ Placed(quiet.free, quiet.hw, to)
      /\ \A x \in Holders : x # o /\ Held(m)[x] # 0 => quiet.hw[Held(m)[x]] = m.hw[Held(m)[x]]
  <2>1. CASE v.channel = 0
    <3>1. to = Held(m)
      BY <2>1, <1>1 DEF Holding
    <3> QED BY <2>1, <3>1, <1>1
  <2>2. CASE v.channel # 0
    BY <2>2, <1>1, QuietFields
  <2> QED BY <2>1, <2>2
<1> HIDE DEF quiet
<1>4. /\ less \in Synth
      /\ less.voices = m.voices
      /\ less.streams = m.streams
      /\ less.blocks = m.blocks
      /\ less.free = quiet.free
      /\ less.hw = quiet.hw
  BY <1>2, <1>3, ReleaseFields
<1>5. less.cache = Release(m, v.entry).cache
  BY <1>1, <1>3 DEF Release, Synth
<1> HIDE DEF less
<1>6. /\ n \in Synth
      /\ n.voices = [m.voices EXCEPT ![i] = NoVoice]
      /\ n.streams = m.streams
      /\ n.blocks = m.blocks
      /\ n.free = quiet.free
      /\ n.hw = quiet.hw
      /\ n.cache = less.cache
  BY <1>4, SilentIsNone DEF Synth
<1>7. VoiceStop(m, i) = n
  BY DEF VoiceStop, n, less, quiet
<1> HIDE DEF n
<1>8. /\ n.voices[i] = NoVoice
      /\ \A j \in Notes : j # i => n.voices[j] = m.voices[j]
  BY <1>1, <1>6 DEF Synth
<1>9. Held(n) = to
  <2>1. \A x \in Holders : \/ x[1] = "voice" /\ x[2] \in Notes /\ x = <<"voice", x[2]>>
                           \/ x[1] = "stream" /\ x # o
    BY DEF Holders
  <2>2. to = [x \in Holders |-> IF x = o THEN 0 ELSE Held(m)[x]]
    BY <1>1 DEF Holding
  <2>3. \A x \in Holders : Held(n)[x] = to[x]
    BY <2>1, <2>2, <1>6, <1>8 DEF Held, NoVoice
  <2>4. Held(n) = [x \in Holders |-> Held(n)[x]]
    BY DEF Held
  <2> QED BY <2>2, <2>3, <2>4
<1>10. PlacedIn(n)
  BY <1>3, <1>6, <1>9 DEF PlacedIn
<1>11. \A j \in Notes : j # i /\ m.voices[j].channel # 0 =>
         n.hw[m.voices[j].channel] = m.hw[m.voices[j].channel]
  <2> SUFFICES ASSUME NEW j \in Notes, j # i, m.voices[j].channel # 0
               PROVE  n.hw[m.voices[j].channel] = m.hw[m.voices[j].channel]
    OBVIOUS
  <2>1. <<"voice", j>> \in Holders /\ Held(m)[<<"voice", j>>] = m.voices[j].channel
    BY <1>1, HeldType
  <2> QED BY <2>1, <1>3, <1>6
<1>12. \A s \in Streams : m.streams[s].channel # 0 =>
         n.hw[m.streams[s].channel] = m.hw[m.streams[s].channel]
  <2> SUFFICES ASSUME NEW s \in Streams, m.streams[s].channel # 0
               PROVE  n.hw[m.streams[s].channel] = m.hw[m.streams[s].channel]
    OBVIOUS
  <2>1. <<"stream", s>> \in Holders /\ Held(m)[<<"stream", s>>] = m.streams[s].channel
    BY <1>1, HeldType
  <2> QED BY <2>1, <1>3, <1>6
<1>13. Sounding(n)
  BY <1>6, <1>8, <1>11, <1>12 DEF Sounding, Good, NoVoice
<1>14. Good(n)
  BY <1>6, <1>10, <1>13 DEF Good
<1>15. Others(m, n, i)
  BY <1>6, <1>8, <1>11 DEF Others, StreamsOf
<1> QED BY <1>5, <1>6, <1>7, <1>14, <1>15

LEMMA StreamsOfType ==
  ASSUME NEW m, Good(m), NEW i \in 0 .. NumNotes, StreamsOf(m, i) # {}
  PROVE  Lowest(StreamsOf(m, i)) \in StreamsOf(m, i)
<1>1. StreamsOf(m, i) \in SUBSET Nat
  BY AicaAssumption DEF StreamsOf, Streams
<1> QED BY <1>1, LowestIsLeast

\* A note's stream is gone, with its channel.
LEMMA StreamFreeFields ==
  ASSUME NEW m, Good(m), NEW i \in Notes
  PROVE  LET n == StreamFree(m, i)
         IN  /\ Good(n)
             /\ n.voices = m.voices
             /\ n.cache = m.cache
             /\ n.blocks = m.blocks
             /\ StreamsOf(n, i) = {}
             /\ \A j \in Notes : m.voices[j].channel # 0 =>
                  n.hw[m.voices[j].channel] = m.hw[m.voices[j].channel]
             /\ \A s \in Streams : n.streams[s].channel # 0 => n.streams[s].key = m.streams[s].key
                                                             /\ m.streams[s].channel # 0
             /\ Others(m, n, i)
<1>1. CASE StreamsOf(m, i) = {}
  <2>1. StreamFree(m, i) = m
    BY <1>1 DEF StreamFree
  <2> QED BY <2>1, <1>1 DEF Others
<1>2. CASE StreamsOf(m, i) # {}
  <2> DEFINE s == Lowest(StreamsOf(m, i))
             o == <<"stream", s>>
             quiet == IF m.streams[s].channel # 0 THEN StopChannel(m, m.streams[s].channel) ELSE m
             n == [quiet EXCEPT !.streams[s].noteIndex = 0, !.streams[s].channel = 0,
                                !.streams[s].key = None]
             to == [Held(m) EXCEPT ![o] = 0]
  <2>0. i \in 0 .. NumNotes /\ i # 0
    BY AicaAssumption DEF Notes
  <2>1. s \in StreamsOf(m, i)
    BY <1>2, <2>0, StreamsOfType
  <2>2. s \in Streams /\ m.streams[s].noteIndex = i
    BY <2>1 DEF StreamsOf
  <2>3. StreamFree(m, i) = n
    BY <1>2 DEF StreamFree
  <2> HIDE DEF s
  <2>4. /\ m \in Synth
        /\ m.streams[s] \in StreamType
        /\ o \in Holders
        /\ Held(m) \in Holding
        /\ Held(m)[o] = m.streams[s].channel
        /\ Placed(m.free, m.hw, Held(m))
    <3>1. m \in Synth
      BY DEF Good
    <3>2. m.streams[s] \in StreamType
      BY <2>2, <3>1 DEF Synth
    <3> QED BY <2>2, <3>1, <3>2, HeldType DEF Good, PlacedIn
  <2>5. /\ quiet \in Synth
        /\ quiet.voices = m.voices
        /\ quiet.streams = m.streams
        /\ quiet.cache = m.cache
        /\ quiet.blocks = m.blocks
        /\ Placed(quiet.free, quiet.hw, to)
        /\ \A x \in Holders : x # o /\ Held(m)[x] # 0 => quiet.hw[Held(m)[x]] = m.hw[Held(m)[x]]
    <3>1. CASE m.streams[s].channel = 0
      <4>1. to = Held(m)
        BY <3>1, <2>4 DEF Holding
      <4> QED BY <3>1, <4>1, <2>4
    <3>2. CASE m.streams[s].channel # 0
      BY <3>2, <2>4, QuietFields
    <3> QED BY <3>1, <3>2
  <2> HIDE DEF quiet
  <2> DEFINE freed == [m.streams[s] EXCEPT !.noteIndex = 0, !.channel = 0, !.key = None]
  <2>6. /\ freed \in StreamType
        /\ freed.noteIndex = 0
        /\ freed.channel = 0
    <3>1. 0 \in 0 .. NumNotes /\ 0 \in 0 .. NumChannels /\ None \in Sounds \cup {None}
      BY AicaAssumption
    <3> QED BY <2>4, <3>1 DEF StreamType
  <2>7. n = [quiet EXCEPT !.streams = [m.streams EXCEPT ![s] = freed]]
    BY <2>2, <2>5 DEF Synth
  <2> HIDE DEF freed
  <2>8. [m.streams EXCEPT ![s] = freed] \in [Streams -> StreamType]
    BY <2>4, <2>6 DEF Synth
  <2>9. /\ n \in Synth
        /\ n.voices = m.voices
        /\ n.streams = [m.streams EXCEPT ![s] = freed]
        /\ n.blocks = m.blocks
        /\ n.cache = m.cache
        /\ n.free = quiet.free
        /\ n.hw = quiet.hw
    BY <2>5, <2>7, <2>8 DEF Synth
  <2> HIDE DEF n
  <2>10. /\ n.streams[s] = freed
         /\ \A t \in Streams : t # s => n.streams[t] = m.streams[t]
    BY <2>2, <2>4, <2>9 DEF Synth
  <2>11. Held(n) = to
    <3>1. \A x \in Holders : \/ x[1] = "stream" /\ x[2] \in Streams /\ x = <<"stream", x[2]>>
                             \/ x[1] = "voice" /\ x # o
      BY DEF Holders
    <3>2. to = [x \in Holders |-> IF x = o THEN 0 ELSE Held(m)[x]]
      BY <2>4 DEF Holding
    <3>3. \A x \in Holders : Held(n)[x] = to[x]
      BY <3>1, <3>2, <2>6, <2>9, <2>10 DEF Held
    <3>4. Held(n) = [x \in Holders |-> Held(n)[x]]
      BY DEF Held
    <3> QED BY <3>2, <3>3, <3>4
  <2>12. PlacedIn(n)
    BY <2>5, <2>9, <2>11 DEF PlacedIn
  <2>13. \A j \in Notes : m.voices[j].channel # 0 =>
           n.hw[m.voices[j].channel] = m.hw[m.voices[j].channel]
    <3> SUFFICES ASSUME NEW j \in Notes, m.voices[j].channel # 0
                 PROVE  n.hw[m.voices[j].channel] = m.hw[m.voices[j].channel]
      OBVIOUS
    <3>1. <<"voice", j>> \in Holders /\ Held(m)[<<"voice", j>>] = m.voices[j].channel
      BY <2>4, HeldType
    <3> QED BY <3>1, <2>5, <2>9
  <2>14. \A t \in Streams : t # s /\ m.streams[t].channel # 0 =>
           n.hw[m.streams[t].channel] = m.hw[m.streams[t].channel]
    <3> SUFFICES ASSUME NEW t \in Streams, t # s, m.streams[t].channel # 0
                 PROVE  n.hw[m.streams[t].channel] = m.hw[m.streams[t].channel]
      OBVIOUS
    <3>1. <<"stream", t>> \in Holders /\ Held(m)[<<"stream", t>>] = m.streams[t].channel
      BY <2>4, HeldType
    <3> QED BY <3>1, <2>5, <2>9
  <2>15. Sounding(n)
    BY <2>6, <2>9, <2>10, <2>13, <2>14 DEF Sounding, Good
  <2>16. Slotted(n.streams)
    BY <2>6, <2>10 DEF Slotted, Good
  <2>17. Good(n)
    BY <2>9, <2>12, <2>15, <2>16 DEF Good
  <2>18. StreamsOf(n, i) = {}
    BY <2>0, <2>2, <2>6, <2>10 DEF StreamsOf, Good, Slotted
  <2>19. Others(m, n, i)
    <3>1. \A j \in Notes \ {i} : j # 0
      BY DEF Notes
    <3>2. \A j \in Notes \ {i} : StreamsOf(n, j) = StreamsOf(m, j)
      BY <3>1, <2>2, <2>6, <2>10 DEF StreamsOf
    <3>3. \A t \in Streams : m.streams[t].noteIndex # i => n.streams[t] = m.streams[t]
      BY <2>2, <2>10
    <3> QED BY <3>2, <3>3, <2>9, <2>13 DEF Others
  <2> QED BY <2>3, <2>6, <2>9, <2>10, <2>13, <2>17, <2>18, <2>19
<1> QED BY <1>1, <1>2
\* What remains of the state when the holder o, which has no channel, takes the top one.
LEMMA SoundingFields ==
  ASSUME NEW m, Good(m), NEW o \in Holders, Held(m)[o] = 0, m.free # <<>>,
         NEW x \in Sounds, NEW a \in 0 .. AramSize
  PROVE  LET n == StartChannel(m, x, a)
         IN  /\ n \in Synth
             /\ n.voices = m.voices
             /\ n.streams = m.streams
             /\ n.cache = m.cache
             /\ n.blocks = m.blocks
             /\ Top(m) \in Channels
             /\ n.hw[Top(m)] = [key |-> x, aram |-> a]
             /\ Placed(n.free, n.hw, [Held(m) EXCEPT ![o] = Top(m)])
             /\ \A y \in Holders : Held(m)[y] # 0 => n.hw[Held(m)[y]] = m.hw[Held(m)[y]]
<1> DEFINE c == Top(m)
           p == [key |-> x, aram |-> a]
           n == StartChannel(m, x, a)
<1>1. m \in Synth /\ Held(m) \in Holding /\ m.free \in Seq(Channels) /\ m.hw \in Playing
  BY HeldType DEF Good, Synth, Playing
<1>2. Placed(m.free, m.hw, Held(m))
  BY DEF Good, PlacedIn
<1>3. p \in PlayType /\ p # Silent
  BY AicaAssumption DEF PlayType, Silent
<1> HIDE DEF p
<1>4. /\ c \in Channels
      /\ SubSeq(m.free, 1, Len(m.free) - 1) \in Seq(Channels)
      /\ Placed(SubSeq(m.free, 1, Len(m.free) - 1), [m.hw EXCEPT ![c] = p],
                [Held(m) EXCEPT ![o] = c])
  BY <1>1, <1>2, <1>3, TakenUp DEF Top
<1>5. /\ n \in Synth
      /\ n.voices = m.voices
      /\ n.streams = m.streams
      /\ n.cache = m.cache
      /\ n.blocks = m.blocks
      /\ n.free = SubSeq(m.free, 1, Len(m.free) - 1)
      /\ n.hw = [m.hw EXCEPT ![c] = p]
  BY <1>1, <1>4, StartFields DEF p
<1>6. n.hw[c] = p
  BY <1>1, <1>4, <1>5 DEF Playing
<1>7. \A y \in Holders : Held(m)[y] # 0 => n.hw[Held(m)[y]] = m.hw[Held(m)[y]]
  <2> SUFFICES ASSUME NEW y \in Holders, Held(m)[y] # 0
               PROVE  n.hw[Held(m)[y]] = m.hw[Held(m)[y]]
    OBVIOUS
  <2>1. Len(m.free) \in Nat \ {0}
    BY <1>1, EmptySeq
  <2>2. c \in Stacked(m.free)
    BY <2>1 DEF Stacked, Top
  <2>3. Held(m)[y] # c
    BY <1>2, <2>2 DEF Placed
  <2>4. Held(m)[y] \in Channels
    BY <1>1 DEF Holding, Channels
  <2> QED BY <2>3, <2>4, <1>1, <1>5 DEF Playing
<1> QED BY <1>4, <1>5, <1>6, <1>7 DEF p

\* A stream of the note i takes a free slot and a channel, or does not begin.
LEMMA StreamStartFields ==
  ASSUME NEW m, Good(m), NEW i \in Notes, NEW key \in Sounds, StreamsOf(m, i) = {}
  PROVE  LET n == StreamStart(m, i, key)
         IN  /\ Good(n)
             /\ n.voices = m.voices
             /\ n.cache = m.cache
             /\ n.blocks = m.blocks
             /\ \A s \in StreamsOf(n, i) : n.streams[s].key = key
             /\ \A j \in Notes : m.voices[j].channel # 0 =>
                  n.hw[m.voices[j].channel] = m.hw[m.voices[j].channel]
             /\ \A s \in Streams : n.streams[s].channel # 0 =>
                  \/ n.streams[s].key = key
                  \/ n.streams[s].key = m.streams[s].key /\ m.streams[s].channel # 0
             /\ Others(m, n, i)
<1>1. CASE StreamsOf(m, 0) = {} \/ m.free = <<>>
  <2>1. StreamStart(m, i, key) = m
    BY <1>1 DEF StreamStart
  <2> QED BY <2>1 DEF Others
<1>2. CASE StreamsOf(m, 0) # {} /\ m.free # <<>>
  <2> DEFINE s == Lowest(StreamsOf(m, 0))
             o == <<"stream", s>>
             c == Top(m)
             on == StartChannel(m, key, 0)
             begun == [noteIndex |-> i, channel |-> c, key |-> key, done |-> FALSE]
             n == [on EXCEPT !.streams[s] = begun]
             to == [Held(m) EXCEPT ![o] = c]
  <2>0. i \in 1 .. NumNotes /\ i # 0 /\ 0 \in 0 .. NumNotes /\ 0 \in 0 .. AramSize
    BY AicaAssumption DEF Notes
  <2>1. s \in StreamsOf(m, 0)
    BY <1>2, <2>0, StreamsOfType
  <2>2. s \in Streams /\ m.streams[s].noteIndex = 0
    BY <2>1 DEF StreamsOf
  <2>3. StreamStart(m, i, key) = n
    BY <1>2 DEF StreamStart
  <2> HIDE DEF s
  <2>4. /\ m \in Synth
        /\ o \in Holders
        /\ Held(m) \in Holding
        /\ Held(m)[o] = 0
    <3>1. m \in Synth
      BY DEF Good
    <3>2. m.streams[s].channel = 0
      BY <2>2 DEF Good, Slotted
    <3> QED BY <2>2, <3>1, <3>2, HeldType
  <2>5. /\ on \in Synth
        /\ on.voices = m.voices
        /\ on.streams = m.streams
        /\ on.cache = m.cache
        /\ on.blocks = m.blocks
        /\ c \in Channels
        /\ on.hw[c] = [key |-> key, aram |-> 0]
        /\ Placed(on.free, on.hw, to)
        /\ \A y \in Holders : Held(m)[y] # 0 => on.hw[Held(m)[y]] = m.hw[Held(m)[y]]
    BY <1>2, <2>0, <2>4, SoundingFields
  <2> HIDE DEF on
  <2>6. begun \in StreamType /\ begun.noteIndex = i /\ begun.channel = c /\ begun.key = key
        /\ begun.done = FALSE /\ c # 0
    BY <2>0, <2>5 DEF StreamType, Channels
  <2> HIDE DEF begun, c
  <2>7. n = [on EXCEPT !.streams = [m.streams EXCEPT ![s] = begun]]
    BY <2>2, <2>5 DEF Synth
  <2>8. [m.streams EXCEPT ![s] = begun] \in [Streams -> StreamType]
    BY <2>4, <2>6 DEF Synth
  <2>9. /\ n \in Synth
        /\ n.voices = m.voices
        /\ n.streams = [m.streams EXCEPT ![s] = begun]
        /\ n.blocks = m.blocks
        /\ n.cache = m.cache
        /\ n.free = on.free
        /\ n.hw = on.hw
    BY <2>5, <2>7, <2>8 DEF Synth
  <2> HIDE DEF n
  <2>10. /\ n.streams[s] = begun
         /\ \A t \in Streams : t # s => n.streams[t] = m.streams[t]
    BY <2>2, <2>4, <2>9 DEF Synth
  <2>11. Held(n) = to
    <3>1. \A x \in Holders : \/ x[1] = "stream" /\ x[2] \in Streams /\ x = <<"stream", x[2]>>
                             \/ x[1] = "voice" /\ x # o
      BY DEF Holders
    <3>2. to = [x \in Holders |-> IF x = o THEN c ELSE Held(m)[x]]
      BY <2>4 DEF Holding
    <3>3. \A x \in Holders : Held(n)[x] = to[x]
      BY <3>1, <3>2, <2>6, <2>9, <2>10 DEF Held
    <3>4. Held(n) = [x \in Holders |-> Held(n)[x]]
      BY DEF Held
    <3> QED BY <3>2, <3>3, <3>4
  <2>12. PlacedIn(n)
    BY <2>5, <2>9, <2>11 DEF PlacedIn
  <2>13. \A j \in Notes : m.voices[j].channel # 0 =>
           n.hw[m.voices[j].channel] = m.hw[m.voices[j].channel]
    <3> SUFFICES ASSUME NEW j \in Notes, m.voices[j].channel # 0
                 PROVE  n.hw[m.voices[j].channel] = m.hw[m.voices[j].channel]
      OBVIOUS
    <3>1. <<"voice", j>> \in Holders /\ Held(m)[<<"voice", j>>] = m.voices[j].channel
      BY <2>4, HeldType
    <3> QED BY <3>1, <2>5, <2>9
  <2>14. \A t \in Streams : m.streams[t].channel # 0 =>
           n.hw[m.streams[t].channel] = m.hw[m.streams[t].channel]
    <3> SUFFICES ASSUME NEW t \in Streams, m.streams[t].channel # 0
                 PROVE  n.hw[m.streams[t].channel] = m.hw[m.streams[t].channel]
      OBVIOUS
    <3>1. <<"stream", t>> \in Holders /\ Held(m)[<<"stream", t>>] = m.streams[t].channel
      BY <2>4, HeldType
    <3> QED BY <3>1, <2>5, <2>9
  <2>15. Sounding(n)
    <3>1. n.hw[c].key = key
      BY <2>5, <2>9
    <3> QED BY <3>1, <2>6, <2>9, <2>10, <2>13, <2>14 DEF Sounding, Good
  <2>16. \A t \in Streams : m.streams[t].noteIndex # i
    BY DEF StreamsOf
  <2>17. Slotted(n.streams)
    BY <2>0, <2>6, <2>10, <2>16 DEF Slotted, Good
  <2>18. Good(n)
    BY <2>9, <2>12, <2>15, <2>17 DEF Good
  <2>19. \A t \in StreamsOf(n, i) : n.streams[t].key = key
    BY <2>6, <2>10, <2>16 DEF StreamsOf
  <2>20. Others(m, n, i)
    <3>1. \A j \in Notes \ {i} : j # 0
      BY DEF Notes
    <3>2. \A j \in Notes \ {i} : StreamsOf(n, j) = StreamsOf(m, j)
      BY <3>1, <2>2, <2>6, <2>10 DEF StreamsOf
    <3>3. \A t \in Streams : m.streams[t].noteIndex # 0 => n.streams[t] = m.streams[t]
      BY <2>2, <2>10
    <3> QED BY <3>2, <3>3, <2>9, <2>13 DEF Others
  <2>21. \A t \in Streams : n.streams[t].channel # 0 =>
           \/ n.streams[t].key = key
           \/ n.streams[t].key = m.streams[t].key /\ m.streams[t].channel # 0
    BY <2>6, <2>10
  <2> QED BY <2>3, <2>9, <2>13, <2>18, <2>19, <2>20, <2>21
<1> QED BY <1>1, <1>2

\* A stream that has played out keeps its slot and gives back its channel.
LEMMA PlayedOutFields ==
  ASSUME NEW m, Good(m), NEW i \in Notes, NEW s \in StreamsOf(m, i), m.streams[s].done = FALSE
  PROVE  LET n == PlayedOut(m, s)
         IN  /\ Good(n)
             /\ n.voices = m.voices
             /\ n.cache = m.cache
             /\ n.blocks = m.blocks
             /\ \A t \in Streams : n.streams[t].key = m.streams[t].key
                                   /\ (n.streams[t].channel # 0 => m.streams[t].channel # 0)
             /\ StreamsOf(n, i) = StreamsOf(m, i)
             /\ \A j \in Notes : m.voices[j].channel # 0 =>
                  n.hw[m.voices[j].channel] = m.hw[m.voices[j].channel]
             /\ Others(m, n, i)
<1> DEFINE o == <<"stream", s>>
           quiet == StopChannel(m, m.streams[s].channel)
           n == [quiet EXCEPT !.streams[s].channel = 0, !.streams[s].done = TRUE]
           to == [Held(m) EXCEPT ![o] = 0]
<1>1. i # 0 /\ s \in Streams /\ m.streams[s].noteIndex = i
  BY DEF StreamsOf, Notes
<1>2. PlayedOut(m, s) = n
  BY DEF PlayedOut
<1>3. /\ m \in Synth
      /\ m.streams[s] \in StreamType
      /\ o \in Holders
      /\ Held(m) \in Holding
      /\ Held(m)[o] = m.streams[s].channel
      /\ m.streams[s].channel # 0
  <2>1. m \in Synth
    BY DEF Good
  <2>2. m.streams[s] \in StreamType
    BY <1>1, <2>1 DEF Synth
  <2>3. m.streams[s].channel # 0
    BY <1>1 DEF Good, Slotted
  <2> QED BY <1>1, <2>1, <2>2, <2>3, HeldType
<1>4. /\ quiet \in Synth
      /\ quiet.voices = m.voices
      /\ quiet.streams = m.streams
      /\ quiet.cache = m.cache
      /\ quiet.blocks = m.blocks
      /\ Placed(quiet.free, quiet.hw, to)
      /\ \A x \in Holders : x # o /\ Held(m)[x] # 0 => quiet.hw[Held(m)[x]] = m.hw[Held(m)[x]]
  BY <1>3, QuietFields
<1> HIDE DEF quiet
<1> DEFINE out == [m.streams[s] EXCEPT !.channel = 0, !.done = TRUE]
<1>5. /\ out \in StreamType
      /\ out.noteIndex = i
      /\ out.channel = 0
      /\ out.key = m.streams[s].key
      /\ out.done = TRUE
  <2>1. 0 \in 0 .. NumChannels
    BY AicaAssumption
  <2> QED BY <1>1, <1>3, <2>1 DEF StreamType
<1>6. n = [quiet EXCEPT !.streams = [m.streams EXCEPT ![s] = out]]
  BY <1>1, <1>4 DEF Synth
<1> HIDE DEF out
<1>7. [m.streams EXCEPT ![s] = out] \in [Streams -> StreamType]
  BY <1>3, <1>5 DEF Synth
<1>8. /\ n \in Synth
      /\ n.voices = m.voices
      /\ n.streams = [m.streams EXCEPT ![s] = out]
      /\ n.blocks = m.blocks
      /\ n.cache = m.cache
      /\ n.free = quiet.free
      /\ n.hw = quiet.hw
  BY <1>4, <1>6, <1>7 DEF Synth
<1> HIDE DEF n
<1>9. /\ n.streams[s] = out
      /\ \A t \in Streams : t # s => n.streams[t] = m.streams[t]
  BY <1>1, <1>3, <1>8 DEF Synth
<1>10. Held(n) = to
  <2>1. \A x \in Holders : \/ x[1] = "stream" /\ x[2] \in Streams /\ x = <<"stream", x[2]>>
                           \/ x[1] = "voice" /\ x # o
    BY DEF Holders
  <2>2. to = [x \in Holders |-> IF x = o THEN 0 ELSE Held(m)[x]]
    BY <1>3 DEF Holding
  <2>3. \A x \in Holders : Held(n)[x] = to[x]
    BY <2>1, <2>2, <1>5, <1>8, <1>9 DEF Held
  <2>4. Held(n) = [x \in Holders |-> Held(n)[x]]
    BY DEF Held
  <2> QED BY <2>2, <2>3, <2>4
<1>11. PlacedIn(n)
  BY <1>4, <1>8, <1>10 DEF PlacedIn
<1>12. \A j \in Notes : m.voices[j].channel # 0 =>
         n.hw[m.voices[j].channel] = m.hw[m.voices[j].channel]
  <2> SUFFICES ASSUME NEW j \in Notes, m.voices[j].channel # 0
               PROVE  n.hw[m.voices[j].channel] = m.hw[m.voices[j].channel]
    OBVIOUS
  <2>1. <<"voice", j>> \in Holders /\ Held(m)[<<"voice", j>>] = m.voices[j].channel
    BY <1>3, HeldType
  <2> QED BY <2>1, <1>4, <1>8
<1>13. \A t \in Streams : t # s /\ m.streams[t].channel # 0 =>
         n.hw[m.streams[t].channel] = m.hw[m.streams[t].channel]
  <2> SUFFICES ASSUME NEW t \in Streams, t # s, m.streams[t].channel # 0
               PROVE  n.hw[m.streams[t].channel] = m.hw[m.streams[t].channel]
    OBVIOUS
  <2>1. <<"stream", t>> \in Holders /\ Held(m)[<<"stream", t>>] = m.streams[t].channel
    BY <1>3, HeldType
  <2> QED BY <2>1, <1>4, <1>8
<1>14. Sounding(n)
  BY <1>5, <1>8, <1>9, <1>12, <1>13 DEF Sounding, Good
<1>15. Slotted(n.streams)
  BY <1>1, <1>5, <1>9 DEF Slotted, Good
<1>16. Good(n)
  BY <1>8, <1>11, <1>14, <1>15 DEF Good
<1>17. \A j \in Notes : StreamsOf(n, j) = StreamsOf(m, j)
  BY <1>1, <1>5, <1>9 DEF StreamsOf
<1>18. Others(m, n, i)
  <2>1. \A t \in Streams : m.streams[t].noteIndex # i => n.streams[t] = m.streams[t]
    BY <1>1, <1>9
  <2> QED BY <2>1, <1>8, <1>12, <1>17 DEF Others
<1>19. \A t \in Streams : n.streams[t].key = m.streams[t].key
                          /\ (n.streams[t].channel # 0 => m.streams[t].channel # 0)
  BY <1>5, <1>9
<1> QED BY <1>2, <1>8, <1>12, <1>16, <1>17, <1>18, <1>19

\* A voice of the note i, which had none, starts and plays the entry e, or without a
\* channel releases it.
LEMMA VoiceStartFields ==
  ASSUME NEW m, Good(m), NEW i \in Notes, m.voices[i] = NoVoice,
         NEW key \in Sounds, NEW e \in 0 .. NumEntries
  PROVE  LET n == VoiceStart(m, i, key, e)
             v == [channel |-> Top(m), active |-> TRUE, sampleKey |-> key, entry |-> e]
         IN  /\ Good(n)
             /\ n.streams = m.streams
             /\ n.blocks = m.blocks
             /\ \/ n = Release(m, e) /\ n.voices = m.voices /\ n.hw = m.hw
                \/ /\ Top(m) \in Channels
                   /\ n.voices = [m.voices EXCEPT ![i] = v]
                   /\ n.cache = m.cache
                   /\ n.hw[Top(m)] = [key |-> key, aram |-> IF e = 0 THEN 0 ELSE m.cache[e].aram]
                   /\ \A y \in Holders : Held(m)[y] # 0 => n.hw[Held(m)[y]] = m.hw[Held(m)[y]]
             /\ Others(m, n, i)
<1>0. m \in Synth
  BY DEF Good
<1>1. CASE m.free = <<>>
  <2> DEFINE n == Release(m, e)
  <2>1. VoiceStart(m, i, key, e) = n
    BY <1>1 DEF VoiceStart
  <2>2. /\ n \in Synth
        /\ n.voices = m.voices
        /\ n.streams = m.streams
        /\ n.free = m.free
        /\ n.hw = m.hw
        /\ n.blocks = m.blocks
    BY <1>0, ReleaseFields
  <2> HIDE DEF n
  <2>3. Held(n) = Held(m)
    BY <2>2 DEF Held
  <2>4. Good(n)
    BY <2>2, <2>3 DEF Good, PlacedIn, Sounding
  <2>5. Others(m, n, i)
    BY <2>2 DEF Others, StreamsOf
  <2> QED BY <2>1, <2>2, <2>4, <2>5 DEF n
<1>2. CASE m.free # <<>>
  <2>0. PICK a \in 0 .. AramSize : a = IF e = 0 THEN 0 ELSE m.cache[e].aram
    <3>1. CASE e = 0
      BY <3>1, AicaAssumption
    <3>2. CASE e # 0
      <4>1. e \in Entries
        BY <3>2, AicaAssumption DEF Entries
      <4>2. m.cache[e] \in EntryType
        BY <4>1, <1>0 DEF Synth
      <4> QED BY <3>2, <4>2 DEF EntryType
    <3> QED BY <3>1, <3>2
  <2> DEFINE o == <<"voice", i>>
             c == Top(m)
             on == StartChannel(m, key, a)
             v == [channel |-> c, active |-> TRUE, sampleKey |-> key, entry |-> e]
             n == [on EXCEPT !.voices[i] = v]
             to == [Held(m) EXCEPT ![o] = c]
  <2>1. VoiceStart(m, i, key, e) = n
    BY <1>2, <2>0 DEF VoiceStart
  <2>3. /\ o \in Holders
        /\ Held(m) \in Holding
        /\ Held(m)[o] = 0
    BY <1>0, HeldType DEF NoVoice
  <2>4. /\ on \in Synth
        /\ on.voices = m.voices
        /\ on.streams = m.streams
        /\ on.cache = m.cache
        /\ on.blocks = m.blocks
        /\ c \in Channels
        /\ on.hw[c] = [key |-> key, aram |-> a]
        /\ Placed(on.free, on.hw, to)
        /\ \A y \in Holders : Held(m)[y] # 0 => on.hw[Held(m)[y]] = m.hw[Held(m)[y]]
    <3> HIDE DEF o
    <3>1. a \in 0 .. AramSize /\ key \in Sounds
      OBVIOUS
    <3> QED BY <1>2, <2>3, <3>1, SoundingFields, ZenonT(60)
  <2> HIDE DEF on
  <2>5. v \in VoiceType /\ v.channel = c /\ c # 0
    BY <2>4 DEF VoiceType, Channels
  <2>6. v.active = TRUE /\ v.sampleKey = key
    OBVIOUS
  <2> HIDE DEF v, c
  <2>7. n = [on EXCEPT !.voices = [m.voices EXCEPT ![i] = v]]
    BY <2>4 DEF Synth
  <2>8. [m.voices EXCEPT ![i] = v] \in [Notes -> VoiceType]
    BY <1>0, <2>5 DEF Synth
  <2>9. /\ n \in Synth
        /\ n.voices = [m.voices EXCEPT ![i] = v]
        /\ n.streams = m.streams
        /\ n.blocks = m.blocks
        /\ n.cache = m.cache
        /\ n.free = on.free
        /\ n.hw = on.hw
    BY <2>4, <2>7, <2>8 DEF Synth
  <2> HIDE DEF n
  <2>10. /\ n.voices[i] = v
         /\ \A j \in Notes : j # i => n.voices[j] = m.voices[j]
    BY <1>0, <2>9 DEF Synth
  <2>11. Held(n) = to
    <3>1. \A x \in Holders : \/ x[1] = "voice" /\ x[2] \in Notes /\ x = <<"voice", x[2]>>
                             \/ x[1] = "stream" /\ x # o
      BY DEF Holders
    <3>2. to = [x \in Holders |-> IF x = o THEN c ELSE Held(m)[x]]
      BY <2>3 DEF Holding
    <3>3. \A x \in Holders : Held(n)[x] = to[x]
      BY <3>1, <3>2, <2>5, <2>9, <2>10 DEF Held
    <3>4. Held(n) = [x \in Holders |-> Held(n)[x]]
      BY DEF Held
    <3> QED BY <3>2, <3>3, <3>4
  <2>12. PlacedIn(n)
    BY <2>4, <2>9, <2>11 DEF PlacedIn
  <2>13. \A j \in Notes : m.voices[j].channel # 0 =>
           n.hw[m.voices[j].channel] = m.hw[m.voices[j].channel]
    <3> SUFFICES ASSUME NEW j \in Notes, m.voices[j].channel # 0
                 PROVE  n.hw[m.voices[j].channel] = m.hw[m.voices[j].channel]
      OBVIOUS
    <3>1. <<"voice", j>> \in Holders /\ Held(m)[<<"voice", j>>] = m.voices[j].channel
      BY <1>0, HeldType
    <3> QED BY <3>1, <2>4, <2>9
  <2>14. \A t \in Streams : m.streams[t].channel # 0 =>
           n.hw[m.streams[t].channel] = m.hw[m.streams[t].channel]
    <3> SUFFICES ASSUME NEW t \in Streams, m.streams[t].channel # 0
                 PROVE  n.hw[m.streams[t].channel] = m.hw[m.streams[t].channel]
      OBVIOUS
    <3>1. <<"stream", t>> \in Holders /\ Held(m)[<<"stream", t>>] = m.streams[t].channel
      BY <1>0, HeldType
    <3> QED BY <3>1, <2>4, <2>9
  <2>15. Sounding(n)
    <3>1. n.hw[c].key = key
      BY <2>4, <2>9
    <3> QED BY <3>1, <2>5, <2>6, <2>9, <2>10, <2>13, <2>14 DEF Sounding, Good
  <2>16. Good(n)
    BY <2>9, <2>12, <2>15 DEF Good
  <2>17. Others(m, n, i)
    BY <2>9, <2>10, <2>13 DEF Others, StreamsOf
  <2> QED BY <2>0, <2>1, <2>4, <2>9, <2>16, <2>17 DEF v, c
<1> QED BY <1>1, <1>2
-----------------------------------------------------------------------------
(* The cache: references and sound RAM. *)

\* The counts, when the caller of cache_acquire still holds h.
Users(v, e) == {i \in Notes : v[i].entry = e}
Counted(m, h) == \A e \in Entries :
  LET n == Cardinality(Users(m.voices, e)) + (IF e = h THEN 1 ELSE 0)
  IN  m.cache[e].refs <= n /\ (~Preemptive => m.cache[e].refs = n)

Emptied(m) == ~Preemptive => \A e \in Entries : m.cache[e].key = None => m.cache[e].refs = 0

\* Blocks and entries, but for those whose block is freed and that are not yet forgotten.
Whole(c) == [base |-> c.aram, len |-> Units[c.key], key |-> c.key]
Backed(m, gone) ==
  /\ \A e \in Resident(m) \ gone : Whole(m.cache[e]) \in m.blocks
  /\ \A b \in m.blocks : \E e \in Resident(m) \ gone : b = Whole(m.cache[e])
  /\ \A e, f \in Resident(m) \ gone : m.cache[e].aram = m.cache[f].aram => e = f
  /\ \A e, f \in Resident(m) : m.cache[e].key = m.cache[f].key => e = f

\* A voice that plays a sample plays its entry's block; a stream plays no short sample.
Fed(m) ==
  /\ \A i \in Notes : m.voices[i].entry # 0 =>
       /\ m.voices[i].channel # 0
       /\ m.cache[m.voices[i].entry].key = m.voices[i].sampleKey
       /\ m.voices[i].sampleKey \in Short
       /\ m.hw[m.voices[i].channel].aram = m.cache[m.voices[i].entry].aram
  /\ \A i \in Notes : m.voices[i].channel # 0 /\ m.voices[i].sampleKey \in Short =>
       m.voices[i].entry # 0
  /\ \A s \in Streams : m.streams[s].channel # 0 => m.streams[s].key \notin Short

Cached(m, h) ==
  /\ m \in Synth
  /\ Counted(m, h)
  /\ Emptied(m)
  /\ ~Preemptive => Backed(m, {}) /\ Fed(m)

\* n differs from m in the cache and in sound RAM only.
CacheOnly(m, n) ==
  /\ n \in Synth
  /\ n.voices = m.voices
  /\ n.streams = m.streams
  /\ n.free = m.free
  /\ n.hw = m.hw

LEMMA CacheOnlyGood ==
  ASSUME NEW m, NEW n, Good(m), CacheOnly(m, n), NEW i
  PROVE  Good(n) /\ Others(m, n, i)
<1>1. Held(n) = Held(m)
  BY DEF Held, CacheOnly
<1>2. Sounding(n)
  BY DEF Good, Sounding, CacheOnly
<1>3. Good(n)
  BY <1>1, <1>2 DEF Good, PlacedIn, CacheOnly
<1>4. Others(m, n, i)
  BY DEF Others, StreamsOf, CacheOnly
<1> QED BY <1>3, <1>4

LEMMA UsersType ==
  ASSUME NEW v, NEW e
  PROVE  /\ IsFiniteSet(Users(v, e)) /\ Cardinality(Users(v, e)) \in 0 .. NumNotes
         /\ Cardinality(Users(v, e)) = 0 => \A i \in Notes : v[i].entry # e
<1>1. IsFiniteSet(Notes) /\ Cardinality(Notes) = NumNotes
  BY FS_Interval, AicaAssumption DEF Notes
<1>2. Users(v, e) \in SUBSET Notes
  BY DEF Users
<1>3. IsFiniteSet(Users(v, e)) /\ Cardinality(Users(v, e)) <= NumNotes
  BY <1>1, <1>2, FS_Subset
<1>4. Cardinality(Users(v, e)) \in Nat
  BY <1>3, FS_CardinalityType
<1>5. Cardinality(Users(v, e)) = 0 => Users(v, e) = {}
  BY <1>3, FS_EmptySet
<1> QED BY <1>3, <1>4, <1>5, AicaAssumption DEF Users

LEMMA EntryFields ==
  ASSUME NEW m \in Synth, NEW e \in Entries
  PROVE  /\ m.cache[e] \in EntryType
         /\ m.cache[e].key \in Short \cup {None}
         /\ m.cache[e].aram \in 0 .. AramSize
         /\ m.cache[e].refs \in Nat
         /\ m.cache[e].lru \in 0 .. NumEntries + 1
<1>1. m.cache \in [Entries -> EntryType]
  BY DEF Synth
<1> QED BY <1>1 DEF EntryType

\* An entry whose count is zero has no voice, unless the audio thread preempts.
LEMMA UncountedUnused ==
  ASSUME NEW m, NEW h, Counted(m, h), ~Preemptive, NEW e \in Entries, m.cache[e].refs = 0
  PROVE  e # h /\ \A i \in Notes : m.voices[i].entry # e
<1> DEFINE u == Cardinality(Users(m.voices, e))
<1>1. u \in Nat
  BY UsersType
<1>2. 0 = u + (IF e = h THEN 1 ELSE 0)
  BY DEF Counted
<1>3. e # h /\ u = 0
  BY <1>1, <1>2
<1> QED BY <1>3, UsersType

LEMMA EvictFields ==
  ASSUME NEW m \in Synth, NEW E \in SUBSET Entries
  PROVE  LET n == Evict(m, E)
         IN  /\ CacheOnly(m, n)
             /\ n.blocks = {b \in m.blocks : \A e \in E : b.base # m.cache[e].aram}
             /\ \A f \in E : /\ n.cache[f].key = None
                             /\ n.cache[f].aram = 0
                             /\ n.cache[f].refs = m.cache[f].refs
             /\ \A f \in Entries \ E : n.cache[f] = m.cache[f]
<1> DEFINE new == [e \in Entries |-> IF e \in E THEN [m.cache[e] EXCEPT !.key = None, !.aram = 0]
                                     ELSE m.cache[e]]
           left == {b \in m.blocks : \A e \in E : b.base # m.cache[e].aram}
           n == Evict(m, E)
<1>1. \A e \in Entries : m.cache[e] \in EntryType
  BY EntryFields
<1>2. None \in Short \cup {None} /\ 0 \in 0 .. AramSize
  BY AicaAssumption
<1>3. \A e \in Entries : [m.cache[e] EXCEPT !.key = None, !.aram = 0] \in EntryType
  BY <1>1, <1>2 DEF EntryType
<1>4. \A e \in Entries :
        /\ [m.cache[e] EXCEPT !.key = None, !.aram = 0].key = None
        /\ [m.cache[e] EXCEPT !.key = None, !.aram = 0].aram = 0
        /\ [m.cache[e] EXCEPT !.key = None, !.aram = 0].refs = m.cache[e].refs
  BY <1>1 DEF EntryType
<1>5. new \in [Entries -> EntryType]
  BY <1>1, <1>3
<1>6. /\ \A f \in E : new[f].key = None /\ new[f].aram = 0 /\ new[f].refs = m.cache[f].refs
      /\ \A f \in Entries \ E : new[f] = m.cache[f]
  BY <1>4
<1>7. Forget(m, E) = [m EXCEPT !.cache = new]
  BY DEF Forget
<1> HIDE DEF new
<1>8. Forget(m, E).blocks = m.blocks /\ Forget(m, E) \in Synth
  BY <1>5, <1>7 DEF Synth
<1>9. Evict(m, E) = [Forget(m, E) EXCEPT !.blocks = left]
  BY <1>8 DEF Evict, Synth
<1>10. left \in SUBSET BlockType
  BY DEF Synth
<1> HIDE DEF left
<1>11. /\ n \in Synth
       /\ n.blocks = left
       /\ n.cache = new
       /\ n.voices = m.voices
       /\ n.streams = m.streams
       /\ n.free = m.free
       /\ n.hw = m.hw
  BY <1>5, <1>7, <1>8, <1>9, <1>10 DEF Synth
<1> HIDE DEF n
<1>12. CacheOnly(m, n)
  BY <1>11 DEF CacheOnly
<1> QED BY <1>6, <1>11, <1>12 DEF left, n

\* Nothing that is played or counted goes with what may be evicted.
LEMMA EvictKeeps ==
  ASSUME NEW m, Cached(m, 0), NEW E \in SUBSET Evictable(m)
  PROVE  Cached(Evict(m, E), 0) /\ CacheOnly(m, Evict(m, E))
<1> DEFINE n == Evict(m, E)
<1>1. m \in Synth /\ E \in SUBSET Entries /\ \A e \in E : m.cache[e].refs = 0 /\ m.cache[e].key # None
  BY DEF Cached, Evictable, Resident
<1>2. /\ CacheOnly(m, n)
      /\ n.blocks = {b \in m.blocks : \A e \in E : b.base # m.cache[e].aram}
      /\ \A f \in E : /\ n.cache[f].key = None
                      /\ n.cache[f].aram = 0
                      /\ n.cache[f].refs = m.cache[f].refs
      /\ \A f \in Entries \ E : n.cache[f] = m.cache[f]
  BY <1>1, EvictFields
<1> HIDE DEF n
<1>3. \A f \in Entries : n.cache[f].refs = m.cache[f].refs
  BY <1>2
<1>4. Counted(n, 0)
  BY <1>2, <1>3 DEF Cached, Counted, CacheOnly
<1>5. Emptied(n)
  BY <1>1, <1>2 DEF Cached, Emptied
<1>6. ASSUME ~Preemptive PROVE Backed(n, {}) /\ Fed(n)
  <2>1. Resident(n) = Resident(m) \ E
    BY <1>1, <1>2 DEF Resident
  <2>2. \A e \in Resident(n) : n.cache[e] = m.cache[e]
    BY <2>1, <1>2 DEF Resident
  <2>3. Backed(m, {}) /\ Fed(m)
    BY <1>6 DEF Cached
  <2>4. E \subseteq Resident(m)
    BY <1>1 DEF Resident
  <2>5. \A e \in Resident(n) : Whole(n.cache[e]) \in n.blocks
    <3> SUFFICES ASSUME NEW e \in Resident(n) PROVE Whole(n.cache[e]) \in n.blocks
      OBVIOUS
    <3>1. Whole(n.cache[e]) \in m.blocks /\ Whole(n.cache[e]).base = m.cache[e].aram
      BY <2>1, <2>2, <2>3 DEF Backed, Whole
    <3>2. \A f \in E : m.cache[e].aram # m.cache[f].aram
      BY <2>1, <2>3, <2>4 DEF Backed
    <3> QED BY <3>1, <3>2, <1>2
  <2>6. \A b \in n.blocks : \E e \in Resident(n) : b = Whole(n.cache[e])
    <3> SUFFICES ASSUME NEW b \in n.blocks PROVE \E e \in Resident(n) : b = Whole(n.cache[e])
      OBVIOUS
    <3>1. b \in m.blocks /\ \A e \in E : b.base # m.cache[e].aram
      BY <1>2
    <3>2. PICK e \in Resident(m) : b = Whole(m.cache[e])
      BY <3>1, <2>3 DEF Backed
    <3>3. e \notin E
      BY <3>1, <3>2 DEF Whole
    <3> QED BY <3>2, <3>3, <2>1, <2>2
  <2>7. \A e, f \in Resident(n) : n.cache[e].aram = n.cache[f].aram => e = f
    BY <2>1, <2>2, <2>3 DEF Backed
  <2>8. \A e, f \in Resident(n) : n.cache[e].key = n.cache[f].key => e = f
    BY <2>1, <2>2, <2>3 DEF Backed
  <2>9. Backed(n, {})
    BY <2>5, <2>6, <2>7, <2>8 DEF Backed
  <2>10. \A i \in Notes : m.voices[i].entry # 0 => m.voices[i].entry \in Entries \ E
    <3> SUFFICES ASSUME NEW i \in Notes, m.voices[i].entry # 0
                 PROVE  m.voices[i].entry \in Entries \ E
      OBVIOUS
    <3>1. m.voices[i].entry \in 0 .. NumEntries
      BY <1>1 DEF Synth, VoiceType
    <3>2. m.voices[i].entry \in Entries
      BY <3>1, AicaAssumption DEF Entries
    <3>3. m.voices[i].entry \notin E
      BY <1>1, <1>6, UncountedUnused DEF Cached
    <3> QED BY <3>2, <3>3
  <2>11. Fed(n)
    BY <1>2, <2>3, <2>10 DEF Fed, CacheOnly
  <2> QED BY <2>9, <2>11
<1>7. Cached(n, 0)
  BY <1>2, <1>4, <1>5, <1>6 DEF Cached, CacheOnly
<1> QED BY <1>2, <1>7 DEF n
LEMMA EvictablePart ==
  ASSUME NEW m, NEW n
  PROVE  Oldest(m, n) \in SUBSET Evictable(m) /\ Evictable(m) \in SUBSET Entries
BY DEF Oldest, Evictable, Resident

LEMMA LoadFields ==
  ASSUME NEW m \in Synth, NEW e \in Entries, NEW key \in Short, NEW a \in 1 .. AramSize
  PROVE  LET n == Load(m, e, key, a)
         IN  /\ CacheOnly(m, n)
             /\ n.cache[e] = [key |-> key, aram |-> a, refs |-> 1, lru |-> Now]
             /\ \A f \in Entries \ {e} : n.cache[f] = m.cache[f]
             /\ n.blocks = m.blocks \cup {[base |-> a, len |-> Units[key], key |-> key]}
<1> DEFINE c == [key |-> key, aram |-> a, refs |-> 1, lru |-> Now]
           b == [base |-> a, len |-> Units[key], key |-> key]
           n == Load(m, e, key, a)
<1>1. Now \in 0 .. NumEntries + 1 /\ Units[key] \in Nat
  BY AicaAssumption DEF Now
<1>2. c \in EntryType /\ b \in BlockType
  BY <1>1 DEF EntryType, BlockType
<1>3. m.cache \in [Entries -> EntryType] /\ m.blocks \in SUBSET BlockType
  BY DEF Synth
<1>4. n = [m EXCEPT !.cache = [m.cache EXCEPT ![e] = c], !.blocks = m.blocks \cup {b}]
  BY DEF Load, Synth
<1> HIDE DEF c, b
<1>5. /\ [m.cache EXCEPT ![e] = c] \in [Entries -> EntryType]
      /\ m.blocks \cup {b} \in SUBSET BlockType
  BY <1>2, <1>3
<1> HIDE DEF n
<1>6. /\ n \in Synth
      /\ n.cache = [m.cache EXCEPT ![e] = c]
      /\ n.blocks = m.blocks \cup {b}
      /\ n.voices = m.voices
      /\ n.streams = m.streams
      /\ n.free = m.free
      /\ n.hw = m.hw
  BY <1>4, <1>5 DEF Synth
<1>7. n.cache[e] = c /\ \A f \in Entries \ {e} : n.cache[f] = m.cache[f]
  BY <1>3, <1>6
<1> QED BY <1>6, <1>7 DEF CacheOnly, c, b, n

\* An entry nobody counts takes a sample that is not loaded; the caller holds it.
LEMMA LoadKeeps ==
  ASSUME NEW m, Cached(m, 0), NEW e \in Entries, NEW key \in Short, NEW a \in 1 .. AramSize,
         Gap(m, Units[key], a),
         m.cache[e].key = None,
         \A f \in Entries : m.cache[f].key # key
  PROVE  Cached(Load(m, e, key, a), e) /\ CacheOnly(m, Load(m, e, key, a))
<1> DEFINE n == Load(m, e, key, a)
           b == [base |-> a, len |-> Units[key], key |-> key]
           c == [key |-> key, aram |-> a, refs |-> 1, lru |-> Now]
<1>1. m \in Synth /\ key # None
  BY AicaAssumption DEF Cached, Sounds
<1>2. /\ CacheOnly(m, n)
      /\ n.cache[e] = c
      /\ \A f \in Entries \ {e} : n.cache[f] = m.cache[f]
      /\ n.blocks = m.blocks \cup {b}
  BY <1>1, LoadFields
<1> HIDE DEF n
<1>3. \A f \in Entries : Cardinality(Users(m.voices, f)) \in Nat
  BY UsersType
<1>4. n.voices = m.voices /\ \A f \in Entries : f # 0
  BY <1>2 DEF CacheOnly, Entries
<1>5. ASSUME NEW f \in Entries
      PROVE  LET u == Cardinality(Users(n.voices, f)) + (IF f = e THEN 1 ELSE 0)
             IN  n.cache[f].refs <= u /\ (~Preemptive => n.cache[f].refs = u)
  <2>1. CASE f = e
    <3>1. n.cache[e].refs = 1
      BY <1>2
    <3>2. ~Preemptive => m.cache[e].refs = 0
      BY DEF Cached, Emptied
    <3>3. ~Preemptive => Cardinality(Users(m.voices, e)) = 0
      BY <3>2, <1>3, <1>4 DEF Cached, Counted
    <3> QED BY <2>1, <3>1, <3>3, <1>3, <1>4
  <2>2. CASE f # e
    BY <2>2, <1>2, <1>4 DEF Cached, Counted
  <2> QED BY <2>1, <2>2
<1>6. Counted(n, e)
  BY <1>5 DEF Counted
<1>7. Emptied(n)
  BY <1>1, <1>2 DEF Cached, Emptied
<1>8. ASSUME ~Preemptive PROVE Backed(n, {}) /\ Fed(n)
  <2>1. Backed(m, {}) /\ Fed(m)
    BY <1>8 DEF Cached
  <2>2. Resident(n) = Resident(m) \cup {e} /\ e \notin Resident(m)
    BY <1>1, <1>2 DEF Resident
  <2>3. \A f \in Resident(m) : n.cache[f] = m.cache[f] /\ m.cache[f].key # key
    BY <1>2, <2>2 DEF Resident
  <2>4. Whole(n.cache[e]) = b
    BY <1>2 DEF Whole
  <2>5. \A f \in Resident(m) : m.cache[f].aram # a
    <3> SUFFICES ASSUME NEW f \in Resident(m), m.cache[f].aram = a PROVE FALSE
      OBVIOUS
    <3>1. Whole(m.cache[f]) \in m.blocks
      BY <2>1 DEF Backed
    <3>2. m.cache[f].key \in Short
      BY <1>1, EntryFields DEF Resident
    <3>3. Units[key] \in Nat \ {0} /\ Units[m.cache[f].key] \in Nat \ {0}
      BY <3>2, AicaAssumption
    <3>4. Whole(m.cache[f]).base = a /\ Whole(m.cache[f]).len = Units[m.cache[f].key]
      BY DEF Whole
    <3>5. a + Units[key] <= a \/ a + Units[m.cache[f].key] <= a
      BY <3>1, <3>4 DEF Gap
    <3> QED BY <3>3, <3>5
  <2>6. \A f \in Resident(n) : Whole(n.cache[f]) \in n.blocks
    BY <1>2, <2>1, <2>2, <2>3, <2>4 DEF Backed
  <2>7. \A x \in n.blocks : \E f \in Resident(n) : x = Whole(n.cache[f])
    BY <1>2, <2>1, <2>2, <2>3, <2>4 DEF Backed
  <2>8. \A f, g \in Resident(n) : n.cache[f].aram = n.cache[g].aram => f = g
    <3>1. n.cache[e].aram = a
      BY <1>2
    <3> QED BY <3>1, <2>1, <2>2, <2>3, <2>5 DEF Backed
  <2>9. \A f, g \in Resident(n) : n.cache[f].key = n.cache[g].key => f = g
    <3>1. n.cache[e].key = key
      BY <1>2
    <3> QED BY <3>1, <2>1, <2>2, <2>3 DEF Backed
  <2>10. Backed(n, {})
    BY <2>6, <2>7, <2>8, <2>9 DEF Backed
  <2>11. \A i \in Notes : m.voices[i].entry # 0 => m.voices[i].entry \in Entries \ {e}
    <3> SUFFICES ASSUME NEW i \in Notes, m.voices[i].entry # 0
                 PROVE  m.voices[i].entry \in Entries \ {e}
      OBVIOUS
    <3>1. m.voices[i].entry \in 0 .. NumEntries
      BY <1>1 DEF Synth, VoiceType
    <3>2. m.voices[i].entry \in Entries
      BY <3>1, AicaAssumption DEF Entries
    <3>3. m.cache[e].refs = 0
      BY <1>8 DEF Cached, Emptied
    <3>4. m.voices[i].entry # e
      BY <1>8, <3>3, UncountedUnused DEF Cached
    <3> QED BY <3>2, <3>4
  <2>12. Fed(n)
    BY <1>2, <2>1, <2>11 DEF Fed, CacheOnly
  <2> QED BY <2>10, <2>12
<1>9. Cached(n, e)
  BY <1>2, <1>6, <1>7, <1>8 DEF Cached, CacheOnly
<1> QED BY <1>2, <1>9 DEF n

LEMMA HitKeeps ==
  ASSUME NEW m, Cached(m, 0), NEW e \in Entries, m.cache[e].key # None
  PROVE  /\ Cached(Hit(m, e), e) /\ CacheOnly(m, Hit(m, e))
         /\ Hit(m, e).cache[e].key = m.cache[e].key
<1> DEFINE c == [m.cache[e] EXCEPT !.refs = m.cache[e].refs + 1, !.lru = Now]
           n == Hit(m, e)
<1>1. m \in Synth
  BY DEF Cached
<1>2. /\ m.cache[e] \in EntryType
      /\ m.cache[e].refs \in Nat
      /\ m.cache \in [Entries -> EntryType]
  BY <1>1, EntryFields DEF Synth
<1>3. m.cache[e].refs + 1 \in Nat /\ Now \in 0 .. NumEntries + 1
  BY <1>2, AicaAssumption DEF Now
<1>4. /\ c \in EntryType
      /\ c.key = m.cache[e].key
      /\ c.aram = m.cache[e].aram
      /\ c.refs = m.cache[e].refs + 1
  BY <1>2, <1>3 DEF EntryType
<1>5. n = [m EXCEPT !.cache = [m.cache EXCEPT ![e] = c]]
  BY <1>1, <1>2 DEF Hit, Synth
<1> HIDE DEF c
<1>6. [m.cache EXCEPT ![e] = c] \in [Entries -> EntryType]
  BY <1>2, <1>4
<1>7. /\ n \in Synth
      /\ n.cache = [m.cache EXCEPT ![e] = c]
      /\ n.blocks = m.blocks
      /\ n.voices = m.voices
      /\ n.streams = m.streams
      /\ n.free = m.free
      /\ n.hw = m.hw
  BY <1>1, <1>5, <1>6 DEF Synth
<1> HIDE DEF n
<1>8. n.cache[e] = c /\ \A f \in Entries \ {e} : n.cache[f] = m.cache[f]
  BY <1>2, <1>7
<1>9. /\ \A f \in Entries : n.cache[f].key = m.cache[f].key /\ n.cache[f].aram = m.cache[f].aram
      /\ \A f \in Entries : f # e => n.cache[f].refs = m.cache[f].refs
      /\ n.cache[e].refs = m.cache[e].refs + 1
  BY <1>4, <1>8
<1>10. \A f \in Entries : Cardinality(Users(m.voices, f)) \in Nat /\ m.cache[f].refs \in Nat /\ f # 0
  BY <1>1, UsersType, EntryFields DEF Entries
<1>11. Counted(n, e)
  BY <1>7, <1>9, <1>10 DEF Cached, Counted
<1>12. Emptied(n)
  BY <1>9 DEF Cached, Emptied
<1>13. ASSUME ~Preemptive PROVE Backed(n, {}) /\ Fed(n)
  <2>1. Backed(m, {}) /\ Fed(m)
    BY <1>13 DEF Cached
  <2>2. Resident(n) = Resident(m)
    BY <1>9 DEF Resident
  <2>3. \A f \in Entries : Whole(n.cache[f]) = Whole(m.cache[f])
    BY <1>9 DEF Whole
  <2>4. \A f \in Resident(m) : f \in Entries
    BY DEF Resident
  <2>5. Backed(n, {})
    BY <1>7, <1>9, <2>1, <2>2, <2>3, <2>4 DEF Backed
  <2>6. \A i \in Notes : m.voices[i].entry # 0 => m.voices[i].entry \in Entries
    BY <1>1, AicaAssumption DEF Synth, VoiceType, Entries
  <2>7. Fed(n)
    BY <1>7, <1>9, <2>1, <2>6 DEF Fed
  <2> QED BY <2>5, <2>7
<1>14. Cached(n, e)
  BY <1>7, <1>11, <1>12, <1>13 DEF Cached
<1> QED BY <1>7, <1>9, <1>14 DEF n, CacheOnly

LEMMA CacheOnlyTransitive ==
  ASSUME NEW k, NEW m, NEW n, CacheOnly(k, m), CacheOnly(m, n)
  PROVE  CacheOnly(k, n)
BY DEF CacheOnly

\* A sample that is not loaded evicts what it needs, and is loaded or not.
LEMMA MissKeeps ==
  ASSUME NEW m, Cached(m, 0), NEW key \in Short, \A f \in Entries : m.cache[f].key # key
  PROVE  LET r == Miss(m, key)
         IN  /\ r.entry \in 0 .. NumEntries
             /\ Cached(r.m, r.entry)
             /\ CacheOnly(m, r.m)
             /\ r.entry # 0 => r.m.cache[r.entry].key = key
<1> DEFINE len == Units[key]
           enough == {n \in 0 .. NumEntries : Gaps(Rounds(m, n), len) # {}}
<1>1. \A n : Cached(Rounds(m, n), 0) /\ CacheOnly(m, Rounds(m, n))
  BY EvictablePart, EvictKeeps DEF Rounds
<1>2. key # None /\ 0 \in 0 .. NumEntries
  BY AicaAssumption DEF Sounds
<1>3. m \in Synth
  BY DEF Cached
<1>4. \A n, E : E \in SUBSET Entries => \A f \in Entries : Evict(m, E).cache[f].key # key
  BY <1>2, <1>3, EvictFields
<1>5. CASE enough = {}
  <2>1. Miss(m, key) = [m |-> Rounds(m, NumEntries), entry |-> 0]
    BY <1>5 DEF Miss
  <2> QED BY <2>1, <1>1, <1>2
<1>6. CASE enough # {}
  <2> DEFINE n == Lowest(enough)
             roomy == Rounds(m, n)
             a == Lowest(Gaps(roomy, len))
             spare == Entries \ Resident(roomy)
  <2>1. n \in enough
    <3>1. enough \in SUBSET Nat
      BY AicaAssumption
    <3> HIDE DEF enough
    <3> QED BY <1>6, <3>1, LowestIsLeast
  <2>2. Gaps(roomy, len) # {}
    BY <2>1
  <2>3. Cached(roomy, 0) /\ CacheOnly(m, roomy)
    BY <1>1
  <2>4. \A f \in Entries : roomy.cache[f].key # key
    <3>1. Oldest(m, n) \in SUBSET Entries
      BY EvictablePart
    <3> HIDE DEF n
    <3> QED BY <3>1, <1>4 DEF Rounds
  <2>5. Miss(m, key) =
          CASE spare # {} -> [m |-> Load(roomy, Lowest(spare), key, a), entry |-> Lowest(spare)]
            [] spare = {} /\ Evictable(roomy) # {} ->
                 [m |-> Load(Evict(roomy, {Victim(roomy)}), Victim(roomy), key, a),
                  entry |-> Victim(roomy)]
            [] OTHER -> [m |-> roomy, entry |-> 0]
    BY <1>6 DEF Miss
  <2> HIDE DEF n, roomy
  <2>6. a \in Gaps(roomy, len)
    <3>1. Gaps(roomy, len) \in SUBSET Nat
      BY AicaAssumption DEF Gaps
    <3> QED BY <2>2, <3>1, LowestIsLeast
  <2>7. a \in 1 .. AramSize /\ Gap(roomy, len, a)
    BY <2>6 DEF Gaps
  <2> HIDE DEF a
  <2>8. CASE spare # {}
    <3> DEFINE e == Lowest(spare)
    <3>1. spare \in SUBSET Nat
      BY DEF Entries
    <3>2. e \in spare
      <4> HIDE DEF spare
      <4> QED BY <2>8, <3>1, LowestIsLeast
    <3>3. e \in Entries /\ roomy.cache[e].key = None
      BY <3>2 DEF Resident
    <3>4. e \in 0 .. NumEntries
      BY <3>3 DEF Entries
    <3>5. Miss(m, key) = [m |-> Load(roomy, e, key, a), entry |-> e]
      BY <2>5, <2>8
    <3> HIDE DEF e
    <3>6. Cached(Load(roomy, e, key, a), e) /\ CacheOnly(roomy, Load(roomy, e, key, a))
      BY <2>3, <2>4, <2>7, <3>3, LoadKeeps
    <3>7. Load(roomy, e, key, a).cache[e].key = key
      <4>1. roomy \in Synth
        BY <2>3 DEF Cached
      <4>2. Load(roomy, e, key, a).cache[e] = [key |-> key, aram |-> a, refs |-> 1, lru |-> Now]
        BY <2>7, <3>3, <4>1, LoadFields
      <4> QED BY <4>2
    <3>8. CacheOnly(m, Load(roomy, e, key, a))
      BY <2>3, <3>6, CacheOnlyTransitive
    <3> QED BY <3>4, <3>5, <3>6, <3>7, <3>8
  <2>9. CASE spare = {} /\ Evictable(roomy) # {}
    <3> DEFINE e == Victim(roomy)
               less == Evict(roomy, {e})
    <3>1. roomy \in Synth
      BY <2>3 DEF Cached
    <3>2. e \in Evictable(roomy)
      BY <2>9, <3>1, VictimIsOldest
    <3>3. e \in Entries /\ e \in 0 .. NumEntries /\ e # 0 /\ {e} \in SUBSET Entries
      BY <3>2, EvictablePart DEF Entries
    <3>4. Miss(m, key) = [m |-> Load(less, e, key, a), entry |-> e]
      BY <2>5, <2>9
    <3> HIDE DEF e
    <3>5. Cached(less, 0) /\ CacheOnly(roomy, less)
      BY <2>3, <3>2, EvictKeeps
    <3>6. /\ less.blocks = {b \in roomy.blocks : \A f \in {e} : b.base # roomy.cache[f].aram}
          /\ less.cache[e].key = None
          /\ \A f \in Entries \ {e} : less.cache[f] = roomy.cache[f]
      BY <3>1, <3>3, EvictFields
    <3>7. Gap(less, len, a)
      BY <2>7, <3>6 DEF Gap
    <3>8. \A f \in Entries : less.cache[f].key # key
      BY <1>2, <2>4, <3>6
    <3> HIDE DEF less
    <3>9. Cached(Load(less, e, key, a), e) /\ CacheOnly(less, Load(less, e, key, a))
      BY <2>7, <3>3, <3>5, <3>6, <3>7, <3>8, LoadKeeps
    <3>10. Load(less, e, key, a).cache[e].key = key
      <4>1. less \in Synth
        BY <3>5 DEF Cached
      <4>2. Load(less, e, key, a).cache[e] = [key |-> key, aram |-> a, refs |-> 1, lru |-> Now]
        BY <2>7, <3>3, <4>1, LoadFields
      <4> QED BY <4>2
    <3>11. CacheOnly(m, Load(less, e, key, a))
      BY <2>3, <3>5, <3>9, CacheOnlyTransitive
    <3> QED BY <3>3, <3>4, <3>9, <3>10, <3>11
  <2>10. CASE spare = {} /\ Evictable(roomy) = {}
    <3>1. Miss(m, key) = [m |-> roomy, entry |-> 0]
      BY <2>5, <2>10
    <3> QED BY <3>1, <2>3, <1>2
  <2> QED BY <2>8, <2>9, <2>10
<1> QED BY <1>5, <1>6

\* cache_acquire hands out an entry with the sample, counted, or none.
LEMMA AcquireKeeps ==
  ASSUME NEW m, Cached(m, 0), NEW key \in Short
  PROVE  LET r == Acquire(m, key)
         IN  /\ r.entry \in 0 .. NumEntries
             /\ Cached(r.m, r.entry)
             /\ CacheOnly(m, r.m)
             /\ r.entry # 0 => r.m.cache[r.entry].key = key
<1> DEFINE hits == {e \in Entries : m.cache[e].key = key}
<1>1. CASE hits = {}
  <2>1. Acquire(m, key) = Miss(m, key)
    BY <1>1 DEF Acquire
  <2>2. \A f \in Entries : m.cache[f].key # key
    BY <1>1
  <2> QED BY <2>1, <2>2, MissKeeps
<1>2. CASE hits # {}
  <2> DEFINE e == Lowest(hits)
  <2>1. hits \in SUBSET Nat
    BY DEF Entries
  <2>2. e \in hits
    <3> HIDE DEF hits
    <3> QED BY <1>2, <2>1, LowestIsLeast
  <2>3. e \in Entries /\ e \in 0 .. NumEntries /\ m.cache[e].key = key /\ key # None
    BY <2>2, AicaAssumption DEF Entries, Sounds
  <2>4. Acquire(m, key) = [m |-> Hit(m, e), entry |-> e]
    BY <1>2 DEF Acquire
  <2> HIDE DEF e
  <2> QED BY <2>3, <2>4, HitKeeps
<1> QED BY <1>1, <1>2
-----------------------------------------------------------------------------
(* The operations on voices and streams, and the aging, keep Cached. *)

LEMMA EntryOfVoice ==
  ASSUME NEW m \in Synth, NEW i \in Notes
  PROVE  /\ m.voices[i] \in VoiceType
         /\ m.voices[i].entry \in 0 .. NumEntries
         /\ m.voices[i].entry # 0 => m.voices[i].entry \in Entries
<1>1. m.voices[i] \in VoiceType
  BY DEF Synth
<1> QED BY <1>1, AicaAssumption DEF VoiceType, Entries

\* The entry h that the caller holds is given back.
LEMMA ReleaseKeeps ==
  ASSUME NEW m, NEW h \in 0 .. NumEntries, Cached(m, h)
  PROVE  Cached(Release(m, h), 0) /\ CacheOnly(m, Release(m, h))
<1> DEFINE n == Release(m, h)
<1>1. m \in Synth
  BY DEF Cached
<1>2. /\ n \in Synth
      /\ n.voices = m.voices
      /\ n.streams = m.streams
      /\ n.free = m.free
      /\ n.hw = m.hw
      /\ n.blocks = m.blocks
      /\ \A f \in Entries :
           /\ n.cache[f].key = m.cache[f].key
           /\ n.cache[f].aram = m.cache[f].aram
           /\ n.cache[f].refs = IF f = h /\ m.cache[f].refs > 0 THEN m.cache[f].refs - 1
                                ELSE m.cache[f].refs
  BY <1>1, ReleaseFields
<1> HIDE DEF n
<1>3. \A f \in Entries : Cardinality(Users(m.voices, f)) \in Nat /\ m.cache[f].refs \in Nat /\ f # 0
  BY <1>1, UsersType, EntryFields DEF Entries
<1>4. Counted(n, 0)
  <2> SUFFICES ASSUME NEW f \in Entries
               PROVE  LET u == Cardinality(Users(m.voices, f))
                      IN  n.cache[f].refs <= u /\ (~Preemptive => n.cache[f].refs = u)
    BY <1>2, <1>3 DEF Counted
  <2> DEFINE u == Cardinality(Users(m.voices, f))
             r == m.cache[f].refs
  <2>1. u \in Nat /\ r \in Nat
    BY <1>3
  <2>2. r <= u + (IF f = h THEN 1 ELSE 0) /\ (~Preemptive => r = u + (IF f = h THEN 1 ELSE 0))
    BY DEF Cached, Counted
  <2>3. n.cache[f].refs = IF f = h /\ r > 0 THEN r - 1 ELSE r
    BY <1>2
  <2> HIDE DEF u, r
  <2>4. n.cache[f].refs <= u /\ (~Preemptive => n.cache[f].refs = u)
    BY <2>1, <2>2, <2>3
  <2> QED BY <2>4 DEF u
<1>5. Emptied(n)
  BY <1>2 DEF Cached, Emptied
<1>6. ASSUME ~Preemptive PROVE Backed(n, {}) /\ Fed(n)
  <2>1. Backed(m, {}) /\ Fed(m)
    BY <1>6 DEF Cached
  <2>2. Resident(n) = Resident(m)
    BY <1>2 DEF Resident
  <2>3. \A f \in Entries : Whole(n.cache[f]) = Whole(m.cache[f])
    BY <1>2 DEF Whole
  <2>4. \A f \in Resident(m) : f \in Entries
    BY DEF Resident
  <2>5. Backed(n, {})
    BY <1>2, <2>1, <2>2, <2>3, <2>4 DEF Backed
  <2>6. \A i \in Notes : m.voices[i].entry # 0 => m.voices[i].entry \in Entries
    BY <1>1, EntryOfVoice
  <2>7. Fed(n)
    BY <1>2, <2>1, <2>6 DEF Fed
  <2> QED BY <2>5, <2>7
<1>7. Cached(n, 0)
  BY <1>2, <1>4, <1>5, <1>6 DEF Cached
<1> QED BY <1>2, <1>7 DEF n, CacheOnly

\* What a voice does not hold, its end does not release.
LEMMA StopCounts ==
  ASSUME NEW m \in Synth, NEW i \in Notes, NEW f \in Entries,
         NEW w, w = [m.voices EXCEPT ![i] = NoVoice]
  PROVE  Cardinality(Users(w, f)) = Cardinality(Users(m.voices, f))
                                    - (IF m.voices[i].entry = f THEN 1 ELSE 0)
<1>1. m.voices \in [Notes -> VoiceType]
  BY DEF Synth
<1>2. w[i] = NoVoice /\ \A j \in Notes : j # i => w[j] = m.voices[j]
  BY <1>1
<1>3. NoVoice.entry = 0 /\ f # 0
  BY DEF NoVoice, Entries
<1>4. IsFiniteSet(Users(m.voices, f)) /\ Cardinality(Users(m.voices, f)) \in Nat
  BY UsersType
<1>5. CASE m.voices[i].entry = f
  <2>1. Users(w, f) = Users(m.voices, f) \ {i} /\ i \in Users(m.voices, f)
    BY <1>2, <1>3, <1>5 DEF Users
  <2>2. Cardinality(Users(m.voices, f) \ {i}) = Cardinality(Users(m.voices, f)) - 1
    BY <2>1, <1>4, FS_RemoveElement
  <2> QED BY <2>1, <2>2, <1>5
<1>6. CASE m.voices[i].entry # f
  <2>1. Users(w, f) = Users(m.voices, f)
    BY <1>2, <1>3, <1>6 DEF Users
  <2> QED BY <2>1, <1>4, <1>6
<1> QED BY <1>5, <1>6

LEMMA VoiceStopKeeps ==
  ASSUME NEW m, Good(m), NEW h, Cached(m, h), NEW i \in Notes
  PROVE  Cached(VoiceStop(m, i), h)
<1> DEFINE n == VoiceStop(m, i)
           e == m.voices[i].entry
<1>1. m \in Synth /\ e \in 0 .. NumEntries
  BY EntryOfVoice DEF Good
<1>2. /\ Good(n)
      /\ n.voices = [m.voices EXCEPT ![i] = NoVoice]
      /\ n.streams = m.streams
      /\ n.blocks = m.blocks
      /\ n.cache = Release(m, e).cache
      /\ Others(m, n, i)
  BY VoiceStopFields
<1> HIDE DEF n
<1>3. n \in Synth
  BY <1>2 DEF Good
<1>4. \A f \in Entries :
        /\ n.cache[f].key = m.cache[f].key
        /\ n.cache[f].aram = m.cache[f].aram
        /\ n.cache[f].refs = IF f = e /\ m.cache[f].refs > 0 THEN m.cache[f].refs - 1
                             ELSE m.cache[f].refs
  BY <1>1, <1>2, ReleaseFields
<1>5. Counted(n, h)
  <2> SUFFICES ASSUME NEW f \in Entries
               PROVE  LET u == Cardinality(Users(n.voices, f)) + (IF f = h THEN 1 ELSE 0)
                      IN  n.cache[f].refs <= u /\ (~Preemptive => n.cache[f].refs = u)
    BY DEF Counted
  <2> DEFINE old == Cardinality(Users(m.voices, f))
             u == Cardinality(Users(n.voices, f))
             r == m.cache[f].refs
             x == IF f = h THEN 1 ELSE 0
  <2>1. old \in Nat /\ u \in Nat /\ r \in Nat /\ x \in {0, 1}
    BY <1>1, UsersType, EntryFields
  <2>2. r <= old + x /\ (~Preemptive => r = old + x)
    BY DEF Cached, Counted
  <2>3. u = old - (IF e = f THEN 1 ELSE 0)
    BY <1>1, <1>2, StopCounts
  <2>4. n.cache[f].refs = IF f = e /\ r > 0 THEN r - 1 ELSE r
    BY <1>4
  <2> HIDE DEF old, u, r, x, e
  <2>5. n.cache[f].refs <= u + x /\ (~Preemptive => n.cache[f].refs = u + x)
    BY <2>1, <2>2, <2>3, <2>4
  <2> QED BY <2>5 DEF u, x
<1>6. Emptied(n)
  BY <1>4 DEF Cached, Emptied
<1>7. ASSUME ~Preemptive PROVE Backed(n, {}) /\ Fed(n)
  <2>1. Backed(m, {}) /\ Fed(m)
    BY <1>7 DEF Cached
  <2>2. Resident(n) = Resident(m)
    BY <1>4 DEF Resident
  <2>3. \A f \in Entries : Whole(n.cache[f]) = Whole(m.cache[f])
    BY <1>4 DEF Whole
  <2>4. \A f \in Resident(m) : f \in Entries
    BY DEF Resident
  <2>5. Backed(n, {})
    BY <1>2, <1>4, <2>1, <2>2, <2>3, <2>4 DEF Backed
  <2>6. \A j \in Notes : m.voices[j].entry # 0 => m.voices[j].entry \in Entries
    BY <1>1, EntryOfVoice
  <2>7. n.voices[i] = NoVoice
    BY <1>1, <1>2 DEF Synth
  <2>8. \A j \in Notes : j # i =>
          /\ n.voices[j] = m.voices[j]
          /\ m.voices[j].channel # 0 => n.hw[m.voices[j].channel] = m.hw[m.voices[j].channel]
    BY <1>2 DEF Others
  <2>9. NoVoice.entry = 0 /\ NoVoice.channel = 0
    BY DEF NoVoice
  <2>10. ASSUME NEW j \in Notes, n.voices[j].entry # 0
         PROVE  /\ n.voices[j].channel # 0
                /\ n.cache[n.voices[j].entry].key = n.voices[j].sampleKey
                /\ n.voices[j].sampleKey \in Short
                /\ n.hw[n.voices[j].channel].aram = n.cache[n.voices[j].entry].aram
    <3>1. j # i /\ n.voices[j] = m.voices[j]
      BY <2>7, <2>8, <2>9, <2>10
    <3>2. /\ m.voices[j].channel # 0
          /\ m.cache[m.voices[j].entry].key = m.voices[j].sampleKey
          /\ m.voices[j].sampleKey \in Short
          /\ m.hw[m.voices[j].channel].aram = m.cache[m.voices[j].entry].aram
      BY <2>1, <2>10, <3>1 DEF Fed
    <3>3. m.voices[j].entry \in Entries
      BY <2>6, <2>10, <3>1
    <3> QED BY <1>4, <2>8, <3>1, <3>2, <3>3
  <2>11. \A j \in Notes : n.voices[j].channel # 0 /\ n.voices[j].sampleKey \in Short =>
           n.voices[j].entry # 0
    BY <2>1, <2>7, <2>8, <2>9 DEF Fed
  <2>12. Fed(n)
    BY <1>2, <2>1, <2>10, <2>11 DEF Fed
  <2> QED BY <2>5, <2>12
<1>8. Cached(n, h)
  BY <1>3, <1>5, <1>6, <1>7 DEF Cached
<1> QED BY <1>8 DEF n

\* An operation on the streams, which takes up no short sample.
LEMMA StreamKeeps ==
  ASSUME NEW m, NEW n, NEW h, Cached(m, h), n \in Synth,
         n.voices = m.voices, n.cache = m.cache, n.blocks = m.blocks,
         \A j \in Notes : m.voices[j].channel # 0 =>
           n.hw[m.voices[j].channel] = m.hw[m.voices[j].channel],
         \A s \in Streams : n.streams[s].channel # 0 =>
           \/ n.streams[s].key \notin Short
           \/ n.streams[s].key = m.streams[s].key /\ m.streams[s].channel # 0
  PROVE  Cached(n, h)
<1>1. Counted(n, h) /\ Emptied(n)
  BY DEF Cached, Counted, Emptied
<1>2. Resident(n) = Resident(m)
  BY DEF Resident
<1>3. Backed(m, {}) => Backed(n, {})
  BY <1>2 DEF Backed
<1>4. Fed(m) => Fed(n)
  BY DEF Fed
<1> QED BY <1>1, <1>3, <1>4 DEF Cached

LEMMA StartCounts ==
  ASSUME NEW m \in Synth, NEW i \in Notes, NEW f \in Entries, m.voices[i] = NoVoice,
         NEW v, NEW w, w = [m.voices EXCEPT ![i] = v]
  PROVE  Cardinality(Users(w, f)) = Cardinality(Users(m.voices, f))
                                    + (IF v.entry = f THEN 1 ELSE 0)
<1>1. m.voices \in [Notes -> VoiceType]
  BY DEF Synth
<1>2. w[i] = v /\ \A j \in Notes : j # i => w[j] = m.voices[j]
  BY <1>1
<1>3. NoVoice.entry = 0 /\ f # 0
  BY DEF NoVoice, Entries
<1>4. IsFiniteSet(Users(m.voices, f)) /\ Cardinality(Users(m.voices, f)) \in Nat
  BY UsersType
<1>5. CASE v.entry = f
  <2>1. Users(w, f) = Users(m.voices, f) \cup {i} /\ i \notin Users(m.voices, f)
    BY <1>2, <1>3, <1>5 DEF Users
  <2>2. Cardinality(Users(m.voices, f) \cup {i}) = Cardinality(Users(m.voices, f)) + 1
    BY <2>1, <1>4, FS_AddElement
  <2> QED BY <2>1, <2>2, <1>5
<1>6. CASE v.entry # f
  <2>1. Users(w, f) = Users(m.voices, f)
    BY <1>2, <1>3, <1>6 DEF Users
  <2> QED BY <2>1, <1>4, <1>6
<1> QED BY <1>5, <1>6

\* A voice that starts takes the entry over from the caller, or the entry is released.
LEMMA VoiceStartKeeps ==
  ASSUME NEW m, Good(m), NEW i \in Notes, m.voices[i] = NoVoice,
         NEW key \in Sounds, NEW e \in 0 .. NumEntries, Cached(m, e),
         e # 0 => key \in Short /\ m.cache[e].key = key,
         key \in Short => e # 0
  PROVE  Cached(VoiceStart(m, i, key, e), 0)
<1> DEFINE n == VoiceStart(m, i, key, e)
           v == [channel |-> Top(m), active |-> TRUE, sampleKey |-> key, entry |-> e]
<1>1. m \in Synth
  BY DEF Good
<1>2. /\ Good(n)
      /\ n.streams = m.streams
      /\ n.blocks = m.blocks
      /\ \/ n = Release(m, e) /\ n.voices = m.voices /\ n.hw = m.hw
         \/ /\ Top(m) \in Channels
            /\ n.voices = [m.voices EXCEPT ![i] = v]
            /\ n.cache = m.cache
            /\ n.hw[Top(m)] = [key |-> key, aram |-> IF e = 0 THEN 0 ELSE m.cache[e].aram]
            /\ \A y \in Holders : Held(m)[y] # 0 => n.hw[Held(m)[y]] = m.hw[Held(m)[y]]
      /\ Others(m, n, i)
  BY VoiceStartFields
<1> HIDE DEF n
<1>3. CASE n = Release(m, e)
  BY <1>3, ReleaseKeeps DEF n
<1>4. CASE /\ Top(m) \in Channels
           /\ n.voices = [m.voices EXCEPT ![i] = v]
           /\ n.cache = m.cache
           /\ n.hw[Top(m)] = [key |-> key, aram |-> IF e = 0 THEN 0 ELSE m.cache[e].aram]
  <2>1. n \in Synth
    BY <1>2 DEF Good
  <2>2. v.channel = Top(m) /\ v.sampleKey = key /\ v.entry = e /\ Top(m) # 0
    BY <1>4 DEF Channels
  <2> HIDE DEF v
  <2>3. n.voices[i] = v /\ \A j \in Notes : j # i => n.voices[j] = m.voices[j]
    BY <1>1, <1>4 DEF Synth
  <2>4. \A f \in Entries : Cardinality(Users(n.voices, f)) =
                             Cardinality(Users(m.voices, f)) + (IF v.entry = f THEN 1 ELSE 0)
    BY <1>1, <1>4, StartCounts
  <2>5. Counted(n, 0)
    <3> SUFFICES ASSUME NEW f \in Entries
                 PROVE  LET u == Cardinality(Users(n.voices, f)) + (IF f = 0 THEN 1 ELSE 0)
                        IN  n.cache[f].refs <= u /\ (~Preemptive => n.cache[f].refs = u)
      BY DEF Counted
    <3> DEFINE old == Cardinality(Users(m.voices, f))
               u == Cardinality(Users(n.voices, f))
               r == m.cache[f].refs
               x == IF f = e THEN 1 ELSE 0
    <3>1. old \in Nat /\ u \in Nat /\ r \in Nat /\ f # 0
      BY <1>1, UsersType, EntryFields DEF Entries
    <3>2. r <= old + x /\ (~Preemptive => r = old + x)
      BY DEF Cached, Counted
    <3>3. u = old + x
      BY <2>2, <2>4
    <3>4. n.cache[f].refs = r
      BY <1>4
    <3> HIDE DEF old, u, r, x
    <3>5. n.cache[f].refs <= u /\ (~Preemptive => n.cache[f].refs = u)
      BY <3>1, <3>2, <3>3, <3>4
    <3>6. u + (IF f = 0 THEN 1 ELSE 0) = u
      BY <3>1
    <3> QED BY <3>5, <3>6 DEF u
  <2>6. Emptied(n)
    BY <1>4 DEF Cached, Emptied
  <2>7. ASSUME ~Preemptive PROVE Backed(n, {}) /\ Fed(n)
    <3>1. Backed(m, {}) /\ Fed(m)
      BY <2>7 DEF Cached
    <3>2. Resident(n) = Resident(m)
      BY <1>4 DEF Resident
    <3>3. Backed(n, {})
      BY <1>2, <1>4, <3>1, <3>2 DEF Backed
    <3>4. \A j \in Notes : j # i =>
            /\ n.voices[j] = m.voices[j]
            /\ m.voices[j].channel # 0 => n.hw[m.voices[j].channel] = m.hw[m.voices[j].channel]
      BY <1>2 DEF Others
    <3>5. \A j \in Notes : j # i /\ n.voices[j].entry # 0 =>
            /\ n.voices[j].channel # 0
            /\ n.cache[n.voices[j].entry].key = n.voices[j].sampleKey
            /\ n.voices[j].sampleKey \in Short
            /\ n.hw[n.voices[j].channel].aram = n.cache[n.voices[j].entry].aram
      BY <1>4, <3>1, <3>4 DEF Fed
    <3>6. e # 0 => /\ v.channel # 0
                   /\ n.cache[e].key = key
                   /\ key \in Short
                   /\ n.hw[v.channel].aram = n.cache[e].aram
      BY <1>4, <2>2
    <3>7. \A j \in Notes : n.voices[j].channel # 0 /\ n.voices[j].sampleKey \in Short =>
            n.voices[j].entry # 0
      BY <2>2, <2>3, <3>1 DEF Fed
    <3>8. Fed(n)
      BY <1>2, <2>2, <2>3, <3>1, <3>5, <3>6, <3>7 DEF Fed
    <3> QED BY <3>3, <3>8
  <2>8. Cached(n, 0)
    BY <2>1, <2>5, <2>6, <2>7 DEF Cached
  <2> QED BY <2>8 DEF n
<1> QED BY <1>2, <1>3, <1>4

\* Aging ranks what was used last; nothing else changes.
LEMMA AgedKeeps ==
  ASSUME NEW m, Cached(m, 0)
  PROVE  Cached(Aged(m), 0) /\ CacheOnly(m, Aged(m)) /\ Aged(m).blocks = m.blocks
<1> DEFINE used == {m.cache[e].lru : e \in Resident(m)}
           rank(e) == IF m.cache[e].key = None THEN 0
                      ELSE Cardinality({u \in used : u <= m.cache[e].lru})
           new == [e \in Entries |-> [m.cache[e] EXCEPT !.lru = rank(e)]]
           n == Aged(m)
<1>1. m \in Synth
  BY DEF Cached
<1>2. \A e \in Entries : m.cache[e] \in EntryType
  BY <1>1, EntryFields
<1>3. \A e \in Entries : rank(e) \in 0 .. NumEntries + 1
  <2> SUFFICES ASSUME NEW e \in Entries PROVE rank(e) \in 0 .. NumEntries + 1
    OBVIOUS
  <2>1. CASE m.cache[e].key = None
    BY <2>1, AicaAssumption
  <2>2. CASE m.cache[e].key # None
    <3> DEFINE below == {u \in used : u <= m.cache[e].lru}
    <3>1. Resident(m) \in SUBSET Entries
      BY DEF Resident
    <3>2. IsFiniteSet(Entries) /\ Cardinality(Entries) = NumEntries
      BY FS_Interval, AicaAssumption DEF Entries
    <3>3. IsFiniteSet(Resident(m)) /\ Cardinality(Resident(m)) <= NumEntries
      BY <3>1, <3>2, FS_Subset
    <3> DEFINE g == [f \in Resident(m) |-> m.cache[f].lru]
    <3>4. g \in Surjection(Resident(m), used)
      BY DEF Surjection
    <3>5. IsFiniteSet(used) /\ Cardinality(used) <= Cardinality(Resident(m))
      BY <3>3, <3>4, FS_Surjection
    <3>6. below \in SUBSET used
      OBVIOUS
    <3> HIDE DEF used
    <3>7. IsFiniteSet(below) /\ Cardinality(below) <= Cardinality(used)
      BY <3>5, <3>6, FS_Subset
    <3>8. /\ Cardinality(below) \in Nat
          /\ Cardinality(used) \in Nat
          /\ Cardinality(Resident(m)) \in Nat
      BY <3>3, <3>5, <3>7, FS_CardinalityType
    <3>9. Cardinality(below) \in 0 .. NumEntries + 1
      BY <3>3, <3>5, <3>7, <3>8, AicaAssumption
    <3> QED BY <2>2, <3>9
  <2> QED BY <2>1, <2>2
<1>4. n = [m EXCEPT !.cache = new]
  BY <1>1 DEF Aged, Synth
<1> HIDE DEF rank
<1>5. /\ new \in [Entries -> EntryType]
      /\ \A e \in Entries : /\ new[e].key = m.cache[e].key
                            /\ new[e].aram = m.cache[e].aram
                            /\ new[e].refs = m.cache[e].refs
  BY <1>2, <1>3 DEF EntryType
<1> HIDE DEF new, n
<1>6. /\ n \in Synth
      /\ n.cache = new
      /\ n.blocks = m.blocks
      /\ n.voices = m.voices
      /\ n.streams = m.streams
      /\ n.free = m.free
      /\ n.hw = m.hw
  BY <1>1, <1>4, <1>5 DEF Synth
<1>7. Counted(n, 0) /\ Emptied(n)
  BY <1>5, <1>6 DEF Cached, Counted, Emptied
<1>8. ASSUME ~Preemptive PROVE Backed(n, {}) /\ Fed(n)
  <2>1. Backed(m, {}) /\ Fed(m)
    BY <1>8 DEF Cached
  <2>2. Resident(n) = Resident(m)
    BY <1>5, <1>6 DEF Resident
  <2>3. \A f \in Entries : Whole(n.cache[f]) = Whole(m.cache[f])
    BY <1>5, <1>6 DEF Whole
  <2>4. \A f \in Resident(m) : f \in Entries
    BY DEF Resident
  <2>5. Backed(n, {})
    BY <1>5, <1>6, <2>1, <2>2, <2>3, <2>4 DEF Backed
  <2>6. \A i \in Notes : m.voices[i].entry # 0 => m.voices[i].entry \in Entries
    BY <1>1, EntryOfVoice
  <2>7. Fed(n)
    BY <1>5, <1>6, <2>1, <2>6 DEF Fed
  <2> QED BY <2>5, <2>7
<1>9. Cached(n, 0)
  BY <1>6, <1>7, <1>8 DEF Cached
<1> QED BY <1>6, <1>9 DEF n, CacheOnly
-----------------------------------------------------------------------------
(* What a note's update leaves behind. *)

\* The voice and the stream of the note i are as the slice says.
Right(m, i) ==
  /\ ~Plays(i) => ~m.voices[i].active /\ StreamsOf(m, i) = {}
  /\ m.voices[i].active => m.voices[i].sampleKey = slice[i].sound
  /\ Plays(i) /\ slice[i].sound \in Long =>
       \A s \in StreamsOf(m, i) : m.streams[s].key = slice[i].sound

LEMMA RightKept ==
  ASSUME NEW m, NEW n, NEW i, Others(m, n, i), NEW j \in Notes \ {i}, Right(m, j)
  PROVE  Right(n, j)
<1>1. n.voices[j] = m.voices[j] /\ StreamsOf(n, j) = StreamsOf(m, j)
  BY DEF Others
<1>2. \A s \in StreamsOf(m, j) : n.streams[s] = m.streams[s]
  BY DEF Others, StreamsOf, Notes
<1> QED BY <1>1, <1>2 DEF Right

\* From m to n the update of the note i is done.
Updated(m, n, i) == Good(n) /\ Cached(n, 0) /\ Others(m, n, i) /\ Right(n, i)

LEMMA HushKeeps ==
  ASSUME NEW m, Good(m), Cached(m, 0), NEW i \in Notes
  PROVE  LET n == Hush(m, i)
         IN  /\ Good(n) /\ Cached(n, 0) /\ Others(m, n, i)
             /\ n.voices[i] = NoVoice
             /\ StreamsOf(n, i) = {}
<1> DEFINE quiet == VoiceStop(m, i)
           n == StreamFree(quiet, i)
<1>1. /\ Good(quiet)
      /\ quiet.voices = [m.voices EXCEPT ![i] = NoVoice]
      /\ Others(m, quiet, i)
  BY VoiceStopFields
<1>2. Cached(quiet, 0)
  BY VoiceStopKeeps
<1>3. Hush(m, i) = n
  BY DEF Hush
<1> HIDE DEF quiet
<1>4. /\ Good(n)
      /\ n.voices = quiet.voices
      /\ n.cache = quiet.cache
      /\ n.blocks = quiet.blocks
      /\ StreamsOf(n, i) = {}
      /\ \A j \in Notes : quiet.voices[j].channel # 0 =>
           n.hw[quiet.voices[j].channel] = quiet.hw[quiet.voices[j].channel]
      /\ \A s \in Streams : n.streams[s].channel # 0 => n.streams[s].key = quiet.streams[s].key
                                                      /\ quiet.streams[s].channel # 0
      /\ Others(quiet, n, i)
  BY <1>1, StreamFreeFields
<1> HIDE DEF n
<1>5. n \in Synth /\ m \in Synth
  BY <1>4 DEF Good
<1>6. Cached(n, 0)
  BY <1>2, <1>4, <1>5, StreamKeeps
<1>7. Others(m, n, i)
  BY <1>1, <1>4, OthersTransitive
<1>8. n.voices[i] = NoVoice
  BY <1>1, <1>4, <1>5 DEF Synth
<1> QED BY <1>3, <1>4, <1>6, <1>7, <1>8

LEMMA OffUpdated ==
  ASSUME Good(aica), Cached(aica, 0), pos \in Notes, UpdateOff \/ UpdateUnresolved
  PROVE  Updated(aica, aica', pos)
<1>1. aica' = Hush(aica, pos)
  BY DEF UpdateOff, UpdateUnresolved
<1>2. /\ Good(aica') /\ Cached(aica', 0) /\ Others(aica, aica', pos)
      /\ aica'.voices[pos] = NoVoice
      /\ StreamsOf(aica', pos) = {}
  BY <1>1, HushKeeps
<1>3. Right(aica', pos)
  BY <1>2 DEF Right, NoVoice
<1> QED BY <1>2, <1>3 DEF Updated

LEMMA StreamUpdated ==
  ASSUME Good(aica), Cached(aica, 0), pos \in Notes, UpdateStream
  PROVE  Updated(aica, aica', pos)
<1> DEFINE key == slice[pos].sound
           quiet == VoiceStop(aica, pos)
<1>1. /\ Plays(pos) /\ key \in Long
      /\ \/ Resumed(pos) = {} /\ aica' = StreamStart(StreamFree(quiet, pos), pos, key)
         \/ Resumed(pos) # {} /\ aica' = quiet
         \/ \E s \in Resumed(pos) : ~aica.streams[s].done /\ aica' = PlayedOut(quiet, s)
  BY DEF UpdateStream
<1>2. key \in Sounds /\ key \notin Short
  BY <1>1, AicaAssumption DEF Sounds
<1>3. /\ Good(quiet)
      /\ quiet.voices = [aica.voices EXCEPT ![pos] = NoVoice]
      /\ quiet.streams = aica.streams
      /\ Others(aica, quiet, pos)
  BY VoiceStopFields
<1>4. Cached(quiet, 0)
  BY VoiceStopKeeps
<1>5. quiet.voices[pos].active = FALSE
  BY <1>3 DEF Good, Synth, NoVoice
<1>6. \A s \in Streams : aica.streams[s].done \in BOOLEAN
  BY DEF Good, Synth, StreamType
<1> HIDE DEF quiet
\* Whoever has one stream, and that of its sound, has none of another.
<1>7. Resumed(pos) # {} => \A s \in StreamsOf(quiet, pos) : quiet.streams[s].key = key
  <2>1. \A s, t \in StreamsOf(aica, pos) : s = t
    BY DEF Good, Slotted, StreamsOf, Notes
  <2>2. StreamsOf(quiet, pos) = StreamsOf(aica, pos)
    BY <1>3 DEF StreamsOf
  <2>3. \A s \in Resumed(pos) : s \in StreamsOf(aica, pos) /\ aica.streams[s].key = key
    BY DEF Resumed
  <2> QED BY <1>3, <2>1, <2>2, <2>3
<1>8. ASSUME NEW n, n.voices = quiet.voices,
             \A s \in StreamsOf(n, pos) : n.streams[s].key = key
      PROVE  Right(n, pos)
  BY <1>1, <1>5, <1>8 DEF Right
<1>9. CASE aica' = StreamStart(StreamFree(quiet, pos), pos, key)
  <2> DEFINE less == StreamFree(quiet, pos)
             n == StreamStart(less, pos, key)
  <2>1. /\ Good(less)
        /\ less.voices = quiet.voices
        /\ less.cache = quiet.cache
        /\ less.blocks = quiet.blocks
        /\ StreamsOf(less, pos) = {}
        /\ \A j \in Notes : quiet.voices[j].channel # 0 =>
             less.hw[quiet.voices[j].channel] = quiet.hw[quiet.voices[j].channel]
        /\ \A s \in Streams : less.streams[s].channel # 0 =>
             less.streams[s].key = quiet.streams[s].key /\ quiet.streams[s].channel # 0
        /\ Others(quiet, less, pos)
    BY <1>3, StreamFreeFields
  <2> HIDE DEF less
  <2>2. less \in Synth
    BY <2>1 DEF Good
  <2>3. Cached(less, 0)
    BY <1>4, <2>1, <2>2, StreamKeeps
  <2>4. /\ Good(n)
        /\ n.voices = less.voices
        /\ n.cache = less.cache
        /\ n.blocks = less.blocks
        /\ \A s \in StreamsOf(n, pos) : n.streams[s].key = key
        /\ \A j \in Notes : less.voices[j].channel # 0 =>
             n.hw[less.voices[j].channel] = less.hw[less.voices[j].channel]
        /\ \A s \in Streams : n.streams[s].channel # 0 =>
             \/ n.streams[s].key = key
             \/ n.streams[s].key = less.streams[s].key /\ less.streams[s].channel # 0
        /\ Others(less, n, pos)
    BY <1>2, <2>1, StreamStartFields
  <2>5. aica' = n
    BY <1>9 DEF less
  <2> HIDE DEF n, key
  <2>6. n \in Synth
    BY <2>4 DEF Good
  <2>7. Cached(n, 0)
    BY <1>2, <2>3, <2>4, <2>6, StreamKeeps
  <2>8. Others(aica, n, pos)
    BY <1>3, <2>1, <2>4, OthersTransitive
  <2>9. Right(n, pos)
    BY <1>8, <2>1, <2>4
  <2> QED BY <2>4, <2>5, <2>7, <2>8, <2>9 DEF Updated
<1>10. CASE Resumed(pos) # {} /\ aica' = quiet
  <2>1. Right(quiet, pos)
    BY <1>7, <1>8, <1>10
  <2> QED BY <1>3, <1>4, <1>10, <2>1 DEF Updated
<1>11. CASE \E s \in Resumed(pos) : ~aica.streams[s].done /\ aica' = PlayedOut(quiet, s)
  <2>1. PICK s \in Resumed(pos) : ~aica.streams[s].done /\ aica' = PlayedOut(quiet, s)
    BY <1>11
  <2> DEFINE n == PlayedOut(quiet, s)
  <2>2. s \in StreamsOf(quiet, pos) /\ s \in Streams
    BY <1>3 DEF Resumed, StreamsOf
  <2>3. quiet.streams[s].done = FALSE
    BY <1>3, <1>6, <2>1, <2>2
  <2>4. /\ Good(n)
        /\ n.voices = quiet.voices
        /\ n.cache = quiet.cache
        /\ n.blocks = quiet.blocks
        /\ \A t \in Streams : n.streams[t].key = quiet.streams[t].key
                              /\ (n.streams[t].channel # 0 => quiet.streams[t].channel # 0)
        /\ StreamsOf(n, pos) = StreamsOf(quiet, pos)
        /\ \A j \in Notes : quiet.voices[j].channel # 0 =>
             n.hw[quiet.voices[j].channel] = quiet.hw[quiet.voices[j].channel]
        /\ Others(quiet, n, pos)
    BY <1>3, <2>2, <2>3, PlayedOutFields
  <2> HIDE DEF n
  <2>5. n \in Synth
    BY <2>4 DEF Good
  <2>6. Cached(n, 0)
    BY <1>4, <2>4, <2>5, StreamKeeps
  <2>7. Others(aica, n, pos)
    BY <1>3, <2>4, OthersTransitive
  <2>8. \A t \in StreamsOf(n, pos) : n.streams[t].key = key
    <3>1. \A t \in StreamsOf(quiet, pos) : t \in Streams
      BY DEF StreamsOf
    <3> QED BY <1>7, <2>1, <2>4, <3>1
  <2>9. Right(n, pos)
    BY <1>8, <2>4, <2>8
  <2> QED BY <2>1, <2>4, <2>6, <2>7, <2>9 DEF Updated, n
<1> QED BY <1>1, <1>9, <1>10, <1>11

\* The voice that is begun, if any, plays what was asked for.
LEMMA VoiceBegun ==
  ASSUME NEW q, Good(q), NEW i \in Notes, q.voices[i] = NoVoice,
         NEW key \in Sounds, NEW e \in 0 .. NumEntries
  PROVE  LET n == VoiceStart(q, i, key, e)
         IN  /\ Good(n)
             /\ Others(q, n, i)
             /\ n.voices[i].active => n.voices[i].sampleKey = key
<1> DEFINE n == VoiceStart(q, i, key, e)
           v == [channel |-> Top(q), active |-> TRUE, sampleKey |-> key, entry |-> e]
<1>1. /\ Good(n)
      /\ n.streams = q.streams
      /\ n.blocks = q.blocks
      /\ \/ n = Release(q, e) /\ n.voices = q.voices /\ n.hw = q.hw
         \/ /\ Top(q) \in Channels
            /\ n.voices = [q.voices EXCEPT ![i] = v]
            /\ n.cache = q.cache
            /\ n.hw[Top(q)] = [key |-> key, aram |-> IF e = 0 THEN 0 ELSE q.cache[e].aram]
            /\ \A y \in Holders : Held(q)[y] # 0 => n.hw[Held(q)[y]] = q.hw[Held(q)[y]]
      /\ Others(q, n, i)
  BY VoiceStartFields
<1> HIDE DEF n, v
<1>2. n.voices[i] = NoVoice \/ n.voices[i] = v
  BY <1>1 DEF Good, Synth
<1>3. n.voices[i].active => n.voices[i].sampleKey = key
  BY <1>2 DEF NoVoice, v
<1> QED BY <1>1, <1>3 DEF n

LEMMA VoiceUpdated ==
  ASSUME Good(aica), Cached(aica, 0), pos \in Notes, UpdateVoice
  PROVE  Updated(aica, aica', pos)
<1> DEFINE key == slice[pos].sound
           got == IF key \in Short THEN Acquire(aica, key) ELSE [m |-> aica, entry |-> 0]
           had == key \in Wave \/ got.entry # 0
           m == got.m
           e == got.entry
<1>1. /\ Plays(pos) /\ key \in Short \cup Wave
      /\ \/ ~had /\ aica' = Hush(m, pos)
         \/ had /\ Retriggers(pos) /\ aica' = VoiceStart(VoiceStop(m, pos), pos, key, e)
         \/ had /\ ~Retriggers(pos) /\ aica' = Release(m, e)
  BY DEF UpdateVoice
<1>2. key \in Sounds /\ key \notin Long /\ (key \in Wave => key \notin Short)
  BY <1>1, AicaAssumption DEF Sounds
<1>3. /\ e \in 0 .. NumEntries
      /\ Cached(m, e)
      /\ CacheOnly(aica, m)
      /\ e # 0 => key \in Short /\ m.cache[e].key = key
      /\ had /\ key \in Short => e # 0
      /\ ~had => e = 0
  <2>1. CASE key \in Short
    BY <1>2, <2>1, AcquireKeeps
  <2>2. CASE key \notin Short
    <3>1. m = aica /\ e = 0
      BY <2>2
    <3>2. CacheOnly(aica, aica)
      BY DEF CacheOnly, Good
    <3> QED BY <2>2, <3>1, <3>2, AicaAssumption
  <2> QED BY <2>1, <2>2
<1> HIDE DEF got, had, m, e
<1>4. Good(m) /\ Others(aica, m, pos)
  BY <1>3, CacheOnlyGood
<1> HIDE DEF key
<1>5. ASSUME NEW n, n.voices[pos].active => n.voices[pos].sampleKey = key PROVE Right(n, pos)
  BY <1>1, <1>2, <1>5 DEF Right, key
<1>6. CASE ~had /\ aica' = Hush(m, pos)
  <2>1. /\ Good(aica') /\ Cached(aica', 0) /\ Others(m, aica', pos)
        /\ aica'.voices[pos] = NoVoice
    BY <1>3, <1>4, <1>6, HushKeeps
  <2>2. Right(aica', pos)
    BY <1>5, <2>1 DEF NoVoice
  <2>3. Others(aica, aica', pos)
    BY <1>4, <2>1, OthersTransitive
  <2> QED BY <2>1, <2>2, <2>3 DEF Updated
<1>7. CASE had /\ aica' = VoiceStart(VoiceStop(m, pos), pos, key, e)
  <2> DEFINE quiet == VoiceStop(m, pos)
             n == VoiceStart(quiet, pos, key, e)
  <2>1. /\ Good(quiet)
        /\ quiet.voices = [m.voices EXCEPT ![pos] = NoVoice]
        /\ quiet.cache = Release(m, m.voices[pos].entry).cache
        /\ Others(m, quiet, pos)
    BY <1>4, VoiceStopFields
  <2>2. Cached(quiet, e)
    BY <1>3, <1>4, VoiceStopKeeps
  <2>3. quiet.voices[pos] = NoVoice
    BY <1>4, <2>1 DEF Good, Synth
  <2>4. e # 0 => key \in Short /\ quiet.cache[e].key = key
    <3>1. m \in Synth /\ m.voices[pos].entry \in 0 .. NumEntries
      BY <1>4, EntryOfVoice DEF Good
    <3>2. \A f \in Entries : quiet.cache[f].key = m.cache[f].key
      BY <2>1, <3>1, ReleaseFields
    <3>3. e # 0 => e \in Entries
      BY <1>3, AicaAssumption DEF Entries
    <3> QED BY <1>3, <3>2, <3>3
  <2> HIDE DEF quiet
  <2>5. Cached(n, 0)
    BY <1>2, <1>3, <1>7, <2>1, <2>2, <2>3, <2>4, VoiceStartKeeps
  <2>6. /\ Good(n)
        /\ Others(quiet, n, pos)
        /\ n.voices[pos].active => n.voices[pos].sampleKey = key
    <3> HIDE DEF n
    <3>1. n = VoiceStart(quiet, pos, key, e)
      BY DEF n
    <3>2. pos \in Notes /\ key \in Sounds /\ e \in 0 .. NumEntries
      BY <1>2, <1>3
    <3> QED BY <2>1, <2>3, <3>1, <3>2, VoiceBegun
  <2> HIDE DEF n
  <2>8. Right(n, pos)
    BY <1>5, <2>6
  <2>9. Others(aica, n, pos)
    BY <1>4, <2>1, <2>6, OthersTransitive
  <2>10. aica' = n
    BY <1>7 DEF n, quiet
  <2> QED BY <2>5, <2>6, <2>8, <2>9, <2>10 DEF Updated
<1>8. CASE ~Retriggers(pos) /\ aica' = Release(m, e)
  <2> DEFINE n == Release(m, e)
  <2>1. Cached(n, 0) /\ CacheOnly(m, n)
    BY <1>3, ReleaseKeeps
  <2> HIDE DEF n
  <2>2. Good(n) /\ Others(m, n, pos)
    BY <1>4, <2>1, CacheOnlyGood
  <2>3. n.voices = aica.voices
    BY <1>3, <2>1 DEF CacheOnly
  <2>4. aica.voices[pos].sampleKey = key
    BY <1>8 DEF Retriggers, key
  <2>5. Right(n, pos)
    BY <1>5, <2>3, <2>4
  <2>6. Others(aica, n, pos)
    BY <1>4, <2>2, OthersTransitive
  <2> QED BY <1>8, <2>1, <2>2, <2>5, <2>6 DEF Updated, n
<1> QED BY <1>1, <1>6, <1>7, <1>8
-----------------------------------------------------------------------------
(* The inductive invariant. *)

\* An entry whose block is freed already is about to be forgotten.
Gone == IF clear[1] = "forget" THEN {clear[2]} ELSE {}

Noted ==
  /\ note \in [Notes -> NoteType]
  /\ slice \in [Notes -> NoteType]
  /\ tick \in 0 .. TicksPerUpdate
  /\ pos \in 0 .. NumNotes

Shelved ==
  /\ Counted(aica, 0)
  /\ Emptied(aica)
  /\ ~Preemptive => Backed(aica, Gone) /\ Fed(aica)

\* Without preemption the entry that is freed stays unplayed until it is forgotten.
Clearing ==
  /\ clear \in {"idle", "test", "free", "forget"} \X (0 .. NumEntries)
  /\ clear[1] # "idle" => clear[2] # 0
  /\ ~Preemptive /\ clear[1] # "idle" => pos = 0 /\ tick = 0
  /\ ~Preemptive /\ clear[1] \in {"free", "forget"} =>
       aica.cache[clear[2]].key # None /\ aica.cache[clear[2]].refs = 0

\* The notes that an update has been at are as the slice says.
Heard ==
  /\ pos # 0 => tick = TicksPerUpdate /\ \A i \in 1 .. pos - 1 : Right(aica, i)
  /\ Rest => \A i \in Notes : Right(aica, i)

IInv == Noted /\ Good(aica) /\ Shelved /\ Clearing /\ Heard

LEMMA CachedInUpdate ==
  ASSUME IInv, pos # 0 \/ AudioReady
  PROVE  Cached(aica, 0)
<1>1. ~Preemptive => Gone = {}
  BY DEF IInv, Clearing, Gone, AudioReady
<1> QED BY <1>1 DEF IInv, Shelved, Good, Cached

LEMMA RightPrimed ==
  ASSUME slice' = slice, NEW i, Right(aica', i)
  PROVE  Right(aica, i)'
BY DEF Right, Plays, StreamsOf

LEMMA SameRight ==
  ASSUME slice' = slice, aica'.voices = aica.voices, aica'.streams = aica.streams,
         NEW i, Right(aica, i)
  PROVE  Right(aica, i)'
BY DEF Right, Plays, StreamsOf

\* The update of one note.
LEMMA UpdateKeeps ==
  ASSUME IInv, pos # 0, Updated(aica, aica', pos), NextNote, note' \in [Notes -> NoteType]
  PROVE  IInv'
<1>1. pos \in Notes /\ pos \in 1 .. NumNotes /\ NumNotes \in Nat \ {0} /\ TicksPerUpdate \in Nat \ {0}
  BY AicaAssumption DEF IInv, Noted, Notes
<1>2. /\ slice' = slice /\ clear' = clear
      /\ pos' = IF pos = NumNotes THEN 0 ELSE pos + 1
      /\ tick' = IF pos = NumNotes THEN 0 ELSE tick
  BY DEF NextNote
<1>3. Noted'
  BY <1>1, <1>2 DEF IInv, Noted
<1>4. Good(aica')
  BY DEF Updated
<1>5. ~Preemptive => clear[1] = "idle"
  BY DEF IInv, Clearing
<1>6. Clearing'
  BY <1>2, <1>5 DEF IInv, Clearing
<1>7. ~Preemptive => Gone' = {}
  BY <1>2, <1>5 DEF Gone
<1>8. Shelved'
  BY <1>7 DEF Updated, Cached, Shelved
<1>9. \A i \in 1 .. pos : Right(aica, i)'
  <2> SUFFICES ASSUME NEW i \in 1 .. pos PROVE Right(aica, i)'
    OBVIOUS
  <2>1. CASE i = pos
    BY <1>2, <2>1, RightPrimed DEF Updated
  <2>2. CASE i # pos
    <3>1. i \in 1 .. pos - 1 /\ i \in Notes \ {pos}
      BY <1>1, <2>2 DEF Notes
    <3>2. Right(aica, i)
      BY <3>1 DEF IInv, Heard
    <3>3. Right(aica', i)
      BY <3>1, <3>2, RightKept DEF Updated
    <3> QED BY <3>3, <1>2, RightPrimed
  <2> QED BY <2>1, <2>2
<1>10. tick = TicksPerUpdate
  BY DEF IInv, Heard
<1>11. Heard'
  <2>1. CASE pos = NumNotes
    <3>1. pos' = 0 /\ 1 .. pos = Notes
      BY <1>2, <2>1 DEF Notes
    <3> QED BY <3>1, <1>9 DEF Heard, Notes
  <2>2. CASE pos # NumNotes
    <3>1. pos' = pos + 1 /\ pos' # 0 /\ tick' = TicksPerUpdate /\ 1 .. pos' - 1 = 1 .. pos
      BY <1>1, <1>2, <1>10, <2>2
    <3> QED BY <3>1, <1>9 DEF Heard, Rest
  <2> QED BY <2>1, <2>2
<1> QED BY <1>3, <1>4, <1>6, <1>8, <1>11 DEF IInv

\* Only the notes and the slice change.
LEMMA TickKeeps ==
  ASSUME IInv, UNCHANGED <<pos, aica, clear>>, Noted', AudioReady, pos = 0,
         \/ UNCHANGED <<slice, tick>>
         \/ tick' = tick + 1
  PROVE  IInv'
<1>1. Good(aica)'
  BY DEF IInv
<1>2. ~Preemptive => clear[1] = "idle" /\ clear'[1] = "idle"
  BY DEF AudioReady
<1>3. Clearing'
  BY <1>2 DEF IInv, Clearing
<1>4. Gone' = Gone
  BY DEF Gone
<1>5. Shelved'
  BY <1>4 DEF IInv, Shelved
<1>6. Heard'
  <2>1. CASE UNCHANGED <<slice, tick>>
    <3>1. \A i : Right(aica, i) => Right(aica, i)'
      BY <2>1, SameRight
    <3> QED BY <2>1, <3>1 DEF IInv, Heard, Rest
  <2>2. CASE tick' = tick + 1
    BY <2>2 DEF IInv, Noted, Heard, Rest
  <2> QED BY <2>1, <2>2
<1> QED BY <1>1, <1>3, <1>5, <1>6 DEF IInv

LEMMA SequenceKeeps ==
  ASSUME IInv, Sequence \/ Sync
  PROVE  IInv'
<1> USE DEF Sequencing
<1>0. note \in [Notes -> NoteType] /\ slice \in [Notes -> NoteType] /\ Off \in NoteType
  BY DEF IInv, Noted, Off, NoteType
<1>1. ASSUME NEW i \in Notes, NoteInit(i) PROVE IInv'
  <2>1. note' \in [Notes -> NoteType]
    <3>1. PICK s \in Sounds : note' = [note EXCEPT ![i] =
                     [enabled |-> TRUE, finished |-> FALSE, needsInit |-> TRUE, sound |-> s]]
      BY <1>1 DEF NoteInit
    <3>2. [enabled |-> TRUE, finished |-> FALSE, needsInit |-> TRUE, sound |-> s] \in NoteType
      BY DEF NoteType
    <3> QED BY <1>0, <3>1, <3>2
  <2>2. Noted'
    BY <1>1, <2>1 DEF IInv, Noted, NoteInit
  <2> QED BY <1>1, <2>2, TickKeeps DEF NoteInit
<1>2. ASSUME NEW i \in Notes, NoteDisable(i) PROVE IInv'
  <2>1. note' \in [Notes -> NoteType]
    BY <1>0, <1>2 DEF NoteDisable
  <2>2. Noted'
    BY <1>2, <2>1 DEF IInv, Noted, NoteDisable
  <2> QED BY <1>2, <2>2, TickKeeps DEF NoteDisable
<1>3. ASSUME NEW i \in Notes, NoteWave(i) PROVE IInv'
  <2>1. note' \in [Notes -> NoteType]
    <3>1. PICK s \in Wave : note' = [note EXCEPT ![i].sound = s]
      BY <1>3 DEF NoteWave
    <3>2. [note[i] EXCEPT !.sound = s] \in NoteType
      BY <1>0 DEF NoteType, Sounds
    <3> QED BY <1>0, <3>1, <3>2
  <2>2. Noted'
    BY <1>3, <2>1 DEF IInv, Noted, NoteWave
  <2> QED BY <1>3, <2>2, TickKeeps DEF NoteWave
<1>4. ASSUME Sync PROVE IInv'
  <2>1. \A i \in Notes : [note[i] EXCEPT !.needsInit = FALSE] \in NoteType
    BY <1>0 DEF NoteType
  <2>2. note' \in [Notes -> NoteType] /\ slice' \in [Notes -> NoteType]
    BY <1>0, <1>4, <2>1 DEF Sync
  <2>3. tick' = tick + 1 /\ tick' \in 0 .. TicksPerUpdate
    BY <1>4, AicaAssumption DEF IInv, Noted, Sync
  <2>4. Noted'
    BY <1>4, <2>2, <2>3 DEF IInv, Noted, Sync
  <2> QED BY <1>4, <2>3, <2>4, TickKeeps DEF Sync
<1> QED BY <1>1, <1>2, <1>3, <1>4 DEF Sequence

LEMMA UpdateStepKeeps ==
  ASSUME IInv, Update
  PROVE  IInv'
<1>1. ASSUME UpdateBegin PROVE IInv'
  <2>1. Cached(aica, 0)
    BY <1>1, CachedInUpdate DEF UpdateBegin
  <2>2. Cached(aica', 0) /\ CacheOnly(aica, aica')
    BY <1>1, <2>1, AgedKeeps DEF UpdateBegin
  <2>3. Good(aica')
    BY <2>2, CacheOnlyGood DEF IInv
  <2>4. ~Preemptive => clear[1] = "idle" /\ clear' = clear
    BY <1>1 DEF UpdateBegin, AudioReady
  <2>5. Shelved'
    BY <2>2, <2>4 DEF Cached, Shelved, Gone
  <2>6. clear' = clear /\ pos' = 1
    BY <1>1 DEF UpdateBegin
  <2>7. Clearing'
    BY <2>4, <2>6 DEF IInv, Clearing
  <2>8. Noted'
    BY <1>1, <2>6, AicaAssumption DEF UpdateBegin, IInv, Noted
  <2>9. Heard'
    BY <1>1, <2>6 DEF UpdateBegin, Heard, Rest
  <2> QED BY <2>3, <2>5, <2>7, <2>8, <2>9 DEF IInv
<1>2. ASSUME pos # 0 PROVE /\ Good(aica) /\ Cached(aica, 0) /\ pos \in Notes
                           /\ note \in [Notes -> NoteType]
  <2>1. pos \in Notes
    BY <1>2, AicaAssumption DEF IInv, Noted, Notes
  <2> QED BY <1>2, <2>1, CachedInUpdate DEF IInv, Noted
<1>3. ASSUME UpdateOff \/ UpdateUnresolved PROVE IInv'
  <2>1. pos # 0 /\ NextNote /\ note' = note
    BY <1>3 DEF UpdateOff, UpdateUnresolved
  <2>2. Updated(aica, aica', pos)
    BY <1>2, <1>3, <2>1, OffUpdated
  <2> QED BY <1>2, <2>1, <2>2, UpdateKeeps
<1>4. ASSUME UpdateStream PROVE IInv'
  <2>1. pos # 0 /\ NextNote
    BY <1>4 DEF UpdateStream
  <2>2. Updated(aica, aica', pos)
    BY <1>2, <1>4, <2>1, StreamUpdated
  <2>3. note' = note \/ note' = [note EXCEPT ![pos].finished = TRUE]
    BY <1>4 DEF UpdateStream
  <2>4. [note[pos] EXCEPT !.finished = TRUE] \in NoteType
    BY <1>2, <2>1 DEF NoteType
  <2>5. note' \in [Notes -> NoteType]
    BY <1>2, <2>1, <2>3, <2>4
  <2> QED BY <2>1, <2>2, <2>5, UpdateKeeps
<1>5. ASSUME UpdateVoice PROVE IInv'
  <2>1. pos # 0 /\ NextNote /\ note' = note
    BY <1>5 DEF UpdateVoice
  <2>2. Updated(aica, aica', pos)
    BY <1>2, <1>5, <2>1, VoiceUpdated
  <2> QED BY <1>2, <2>1, <2>2, UpdateKeeps
<1> QED BY <1>1, <1>3, <1>4, <1>5 DEF Update

\* What a step of AicaSynth_ClearSampleCache leaves alone.
LEMMA ClearKeeps ==
  ASSUME IInv, UNCHANGED <<note, slice, tick, pos>>, CacheOnly(aica, aica'), Shelved', Clearing'
  PROVE  IInv'
<1>1. Noted'
  BY DEF IInv, Noted
<1>2. Good(aica')
  BY CacheOnlyGood DEF IInv
<1>3. \A i : Right(aica, i) => Right(aica, i)'
  BY SameRight DEF CacheOnly
<1>4. Heard'
  BY <1>3 DEF IInv, Heard, Rest
<1> QED BY <1>1, <1>2, <1>4 DEF IInv

LEMMA NextEntryFields ==
  ASSUME IInv, clear[2] # 0
  PROVE  /\ NextEntry \in {"idle", "test", "free", "forget"} \X (0 .. NumEntries)
         /\ NextEntry[1] \in {"idle", "test"}
         /\ NextEntry[1] = "test" => NextEntry[2] # 0
         /\ clear[2] \in Entries
<1>1. clear[2] \in 0 .. NumEntries /\ NumEntries \in Nat \ {0}
  BY AicaAssumption DEF IInv, Clearing
<1>2. CASE clear[2] = NumEntries
  BY <1>1, <1>2 DEF NextEntry, Entries
<1>3. CASE clear[2] # NumEntries
  <2>1. clear[2] + 1 \in 0 .. NumEntries /\ clear[2] + 1 # 0
    BY <1>1, <1>3
  <2> QED BY <1>1, <1>3, <2>1 DEF NextEntry, Entries
<1> QED BY <1>2, <1>3

LEMMA ClearStepKeeps ==
  ASSUME IInv, Clear
  PROVE  IInv'
<1> USE DEF MainRuns
<1>0. Good(aica) /\ Shelved /\ Clearing /\ aica \in Synth
  BY DEF IInv, Good
<1>1. ASSUME aica' = aica, Gone' = Gone PROVE CacheOnly(aica, aica') /\ Shelved'
  BY <1>0, <1>1 DEF CacheOnly, Shelved
<1>2. ASSUME ClearBegin PROVE IInv'
  <2>1. clear' = <<"test", 1>> /\ clear[1] = "idle"
    BY <1>2 DEF ClearBegin
  <2>2. CacheOnly(aica, aica') /\ Shelved'
    BY <1>1, <1>2, <2>1 DEF ClearBegin, Gone
  <2>3. <<"test", 1>> \in {"idle", "test", "free", "forget"} \X (0 .. NumEntries)
    BY AicaAssumption
  <2>4. Clearing'
    BY <1>2, <2>1, <2>3 DEF ClearBegin, Clearing
  <2> QED BY <1>2, <2>2, <2>4, ClearKeeps DEF ClearBegin
<1>3. ASSUME ClearTest PROVE IInv'
  <2>0. clear[1] = "test" /\ clear[2] # 0 /\ clear[2] \in 0 .. NumEntries /\ aica' = aica
    BY <1>0, <1>3 DEF ClearTest, Clearing
  <2>1. clear' = IF Unplayed(clear[2]) THEN <<"free", clear[2]>> ELSE NextEntry
    BY <1>3 DEF ClearTest
  <2>2. Gone' = Gone
    BY <2>0, <2>1, NextEntryFields DEF Gone
  <2>3. CacheOnly(aica, aica') /\ Shelved'
    BY <1>1, <2>0, <2>2
  <2>4. Clearing'
    <3>1. CASE Unplayed(clear[2])
      <4>1. clear' = <<"free", clear[2]>>
        BY <2>1, <3>1
      <4> QED BY <4>1, <1>3, <2>0, <3>1 DEF Clearing, Unplayed, ClearTest
    <3>2. CASE ~Unplayed(clear[2])
      <4>1. clear' = NextEntry
        BY <2>1, <3>2
      <4> QED BY <4>1, <1>3, <2>0, NextEntryFields DEF Clearing, ClearTest
    <3> QED BY <3>1, <3>2
  <2> QED BY <1>3, <2>3, <2>4, ClearKeeps DEF ClearTest
<1>4. ASSUME ClearFree PROVE IInv'
  <2> DEFINE f == clear[2]
             left == {b \in aica.blocks : b.base # aica.cache[f].aram}
  <2>0. clear[1] = "free" /\ f # 0 /\ f \in 0 .. NumEntries /\ f \in Entries /\ clear' = <<"forget", f>>
    BY <1>0, <1>4, NextEntryFields DEF ClearFree, Clearing
  <2>1. aica' = [aica EXCEPT !.blocks = left]
    BY <1>0, <1>4 DEF ClearFree, FreeBlock, Synth
  <2>2. left \in SUBSET BlockType
    BY <1>0 DEF Synth
  <2>3. /\ aica'.blocks = left
        /\ aica'.cache = aica.cache
        /\ CacheOnly(aica, aica')
    BY <1>0, <2>1, <2>2 DEF CacheOnly, Synth
  <2>4. Clearing'
    BY <1>0, <1>4, <2>0, <2>3 DEF Clearing, ClearFree
  <2>5. Counted(aica', 0) /\ Emptied(aica')
    BY <1>0, <2>3 DEF Shelved, Counted, Emptied, CacheOnly
  <2>6. ASSUME ~Preemptive PROVE Backed(aica', {f}) /\ Fed(aica')
    <3>1. Backed(aica, {}) /\ Fed(aica)
      BY <1>0, <2>0, <2>6 DEF Shelved, Gone
    <3>2. Fed(aica')
      BY <3>1, <2>3 DEF Fed, CacheOnly
    <3>3. f \in Resident(aica) /\ Resident(aica') = Resident(aica)
      BY <1>0, <2>0, <2>3, <2>6 DEF Clearing, Resident
    <3>4. \A e \in Resident(aica) \ {f} : Whole(aica'.cache[e]) \in aica'.blocks
      <4> SUFFICES ASSUME NEW e \in Resident(aica) \ {f} PROVE Whole(aica.cache[e]) \in left
        BY <2>3
      <4>1. Whole(aica.cache[e]) \in aica.blocks /\ aica.cache[e].aram # aica.cache[f].aram
        BY <3>1, <3>3 DEF Backed
      <4> QED BY <4>1 DEF Whole
    <3>5. \A b \in left : \E e \in Resident(aica) \ {f} : b = Whole(aica.cache[e])
      <4> SUFFICES ASSUME NEW b \in left
                   PROVE  \E e \in Resident(aica) \ {f} : b = Whole(aica.cache[e])
        OBVIOUS
      <4>1. PICK e \in Resident(aica) : b = Whole(aica.cache[e])
        BY <3>1 DEF Backed
      <4>2. e # f
        BY <4>1 DEF Whole
      <4> QED BY <4>1, <4>2
    <3>6. Backed(aica', {f})
      <4> HIDE DEF left
      <4> QED BY <2>3, <3>1, <3>3, <3>4, <3>5 DEF Backed
    <3> QED BY <3>2, <3>6
  <2>7. Shelved'
    BY <2>0, <2>5, <2>6 DEF Shelved, Gone
  <2> QED BY <1>4, <2>3, <2>4, <2>7, ClearKeeps DEF ClearFree
<1>5. ASSUME ClearForget PROVE IInv'
  <2> DEFINE f == clear[2]
             E == {f}
             new == [aica.cache EXCEPT ![f] = [aica.cache[f] EXCEPT !.key = None, !.aram = 0]]
  <2>0. clear[1] = "forget" /\ f # 0 /\ f \in Entries /\ clear' = NextEntry
    BY <1>0, <1>5, NextEntryFields DEF ClearForget, Clearing
  <2>1. aica' = [aica EXCEPT !.cache = new]
    BY <1>0, <1>5, <2>0 DEF ClearForget, Synth
  <2>2. aica.cache \in [Entries -> EntryType] /\ aica.cache[f] \in EntryType
    BY <1>0, <2>0 DEF Synth
  <2>3. None \in Short \cup {None} /\ 0 \in 0 .. AramSize
    BY AicaAssumption
  <2>4. [aica.cache[f] EXCEPT !.key = None, !.aram = 0] \in EntryType
    BY <2>2, <2>3 DEF EntryType
  <2>5. /\ new \in [Entries -> EntryType]
        /\ \A e \in Entries : e # f => new[e] = aica.cache[e]
        /\ new[f] = [aica.cache[f] EXCEPT !.key = None, !.aram = 0]
    BY <2>0, <2>2, <2>4
  <2>6. new[f].key = None /\ new[f].refs = aica.cache[f].refs
    BY <2>2, <2>5 DEF EntryType
  <2> HIDE DEF new
  <2>7. /\ aica'.cache = new
        /\ aica'.blocks = aica.blocks
        /\ CacheOnly(aica, aica')
    BY <1>0, <2>1, <2>5 DEF CacheOnly, Synth
  <2>8. \A e \in Entries : new[e].refs = aica.cache[e].refs
    BY <2>5, <2>6
  <2>9. Counted(aica', 0)
    BY <1>0, <2>7, <2>8 DEF Shelved, Counted, CacheOnly
  <2>10. ~Preemptive => aica.cache[f].refs = 0
    BY <1>0, <2>0 DEF Clearing
  <2>11. Emptied(aica')
    BY <1>0, <2>5, <2>7, <2>8, <2>10 DEF Shelved, Emptied
  <2>12. NextEntry[1] \in {"idle", "test"} /\ Gone' = {}
    BY <2>0, NextEntryFields DEF Gone
  <2>13. ASSUME ~Preemptive PROVE Backed(aica', {}) /\ Fed(aica')
    <3>1. Backed(aica, {f}) /\ Fed(aica)
      BY <1>0, <2>0, <2>13 DEF Shelved, Gone
    <3>2. Resident(aica') = Resident(aica) \ {f}
      BY <2>5, <2>6, <2>7 DEF Resident
    <3>3. \A e \in Resident(aica') : aica'.cache[e] = aica.cache[e]
      BY <3>2, <2>5, <2>7 DEF Resident
    <3>4. Backed(aica', {})
      BY <2>7, <3>1, <3>2, <3>3 DEF Backed
    <3>5. Counted(aica, 0)
      BY <1>0 DEF Shelved
    <3>6. \A i \in Notes : aica.voices[i].entry # 0 =>
            aica'.cache[aica.voices[i].entry] = aica.cache[aica.voices[i].entry]
      <4> SUFFICES ASSUME NEW i \in Notes, aica.voices[i].entry # 0
                   PROVE  new[aica.voices[i].entry] = aica.cache[aica.voices[i].entry]
        BY <2>7
      <4>1. aica.voices[i].entry \in Entries
        BY <1>0, EntryOfVoice
      <4>2. aica.voices[i].entry # f
        BY <2>0, <2>10, <2>13, <3>5, UncountedUnused
      <4> QED BY <2>5, <4>1, <4>2
    <3>7. Fed(aica')
      BY <2>7, <3>1, <3>6 DEF Fed, CacheOnly
    <3> QED BY <3>4, <3>7
  <2>14. Shelved'
    BY <2>9, <2>11, <2>12, <2>13 DEF Shelved
  <2>15. Clearing'
    BY <1>5, <2>0, NextEntryFields DEF Clearing, ClearForget
  <2> QED BY <1>5, <2>7, <2>14, <2>15, ClearKeeps DEF ClearForget
<1> QED BY <1>2, <1>3, <1>4, <1>5 DEF Clear

LEMMA InitHolds == Init => IInv
<1> SUFFICES ASSUME Init PROVE IInv
  OBVIOUS
<1> DEFINE voices == [i \in Notes |-> NoVoice]
           streams == [s \in Streams |-> NoStream]
           free == [n \in Channels |-> NumChannels + 1 - n]
           cache == [e \in Entries |-> NoEntry]
           hw == [c \in Channels |-> Silent]
<1>1. /\ aica.voices = voices
      /\ aica.streams = streams
      /\ aica.free = free
      /\ aica.cache = cache
      /\ aica.blocks = {}
      /\ aica.hw = hw
      /\ aica = [voices |-> voices, streams |-> streams, free |-> free, cache |-> cache,
                 blocks |-> {}, hw |-> hw]
  BY DEF Init, Idle
<1>2. /\ note = [i \in Notes |-> Off] /\ slice = [i \in Notes |-> Off]
      /\ tick = 0 /\ pos = 0 /\ clear = <<"idle", 0>>
  BY DEF Init
<1>3. Off \in NoteType /\ Off.enabled = FALSE
  BY DEF Off, NoteType
<1>4. Noted
  BY <1>2, <1>3, AicaAssumption DEF Noted
<1>5. NoVoice \in VoiceType /\ NoVoice.channel = 0 /\ NoVoice.entry = 0 /\ NoVoice.active = FALSE
  BY SilentIsNone DEF NoVoice
<1>6. NoStream \in StreamType /\ NoStream.channel = 0 /\ NoStream.noteIndex = 0
  BY AicaAssumption DEF NoStream, StreamType
<1>7. NoEntry \in EntryType /\ NoEntry.key = None /\ NoEntry.refs = 0
  BY AicaAssumption DEF NoEntry, EntryType
<1>8. Silent \in PlayType
  BY SilentIsNone
<1>9. free \in [1 .. NumChannels -> Channels] /\ NumChannels \in Nat
  <2>1. \A n \in Channels : NumChannels + 1 - n \in Channels
    BY AicaAssumption DEF Channels
  <2>2. free \in [Channels -> Channels]
    BY <2>1
  <2> QED BY <2>2, AicaAssumption DEF Channels
<1>10. free \in Seq(Channels) /\ Len(free) = NumChannels
  <2>1. free \in Seq(Channels)
    BY <1>9, SeqDef
  <2> HIDE DEF free
  <2> QED BY <1>9, <2>1, LenProperties
<1>11. \A n \in Channels : free[n] = NumChannels + 1 - n
  OBVIOUS
<1> HIDE DEF free
<1>12. aica \in Synth
  BY <1>1, <1>5, <1>6, <1>7, <1>8, <1>10 DEF Synth
<1>13. \A i \in Notes : aica.voices[i] = NoVoice
  BY <1>1
<1>14. \A s \in Streams : aica.streams[s] = NoStream
  BY <1>1
<1>15. \A e \in Entries : aica.cache[e] = NoEntry
  BY <1>1
<1>16. \A o \in Holders : Held(aica)[o] = 0
  BY <1>5, <1>6, <1>13, <1>14 DEF Held, Holders
<1>17. Stacked(free) = Channels
  <2>1. \A c \in Channels : NumChannels + 1 - c \in Channels /\ free[NumChannels + 1 - c] = c
    BY <1>11, AicaAssumption DEF Channels
  <2>2. Channels \subseteq Stacked(free)
    BY <1>10, <2>1 DEF Stacked, Channels
  <2> QED BY <1>9, <1>10, <2>2 DEF Stacked
<1>18. \A p, q \in 1 .. Len(free) : free[p] = free[q] => p = q
  BY <1>10, <1>11, AicaAssumption DEF Channels
<1>19. 0 \notin Channels /\ \A c \in Channels : aica.hw[c] = Silent
  BY <1>1 DEF Channels
<1>20. PlacedIn(aica)
  BY <1>1, <1>16, <1>17, <1>18, <1>19 DEF PlacedIn, Placed
<1>21. Slotted(aica.streams)
  BY <1>6, <1>14 DEF Slotted
<1>22. Sounding(aica)
  BY <1>5, <1>6, <1>13, <1>14 DEF Sounding
<1>23. \A e \in Entries : Users(aica.voices, e) = {} /\ e # 0
  BY <1>5, <1>13 DEF Users, Entries
<1>24. Counted(aica, 0) /\ Emptied(aica)
  <2>1. Cardinality({}) = 0
    BY FS_EmptySet
  <2> QED BY <1>7, <1>15, <1>23, <2>1 DEF Counted, Emptied
<1>25. Resident(aica) = {}
  BY <1>7, <1>15 DEF Resident
<1>26. Backed(aica, Gone)
  BY <1>1, <1>25 DEF Backed
<1>27. Fed(aica)
  BY <1>5, <1>6, <1>13, <1>14 DEF Fed
<1>28. Clearing
  BY <1>2, AicaAssumption DEF Clearing
<1>29. Heard
  <2>1. \A i \in Notes : ~Plays(i)
    BY <1>2, <1>3 DEF Plays
  <2>2. \A i \in Notes : StreamsOf(aica, i) = {}
    BY <1>6, <1>14 DEF StreamsOf, Notes
  <2> QED BY <1>2, <1>5, <1>13, <2>1, <2>2 DEF Heard, Right
<1> QED BY <1>4, <1>12, <1>20, <1>21, <1>22, <1>24, <1>26, <1>27, <1>28, <1>29
        DEF IInv, Good, Shelved

LEMMA NextKeeps == IInv /\ [Next]_vars => IInv'
<1> SUFFICES ASSUME IInv, [Next]_vars PROVE IInv'
  OBVIOUS
<1>1. CASE UNCHANGED vars
  <2>1. UNCHANGED <<note, slice, tick, pos, aica, clear>>
    BY <1>1 DEF vars
  <2> QED BY <2>1 DEF IInv, Noted, Shelved, Clearing, Heard, Gone, Rest, Right, Plays, StreamsOf
<1>2. CASE Next
  BY <1>2, SequenceKeeps, UpdateStepKeeps, ClearStepKeeps DEF Next
<1> QED BY <1>1, <1>2

LEMMA IInvHolds == Spec => []IInv
BY InitHolds, NextKeeps, PTL DEF Spec
-----------------------------------------------------------------------------
(* What it implies. *)

LEMMA TypesFollow == IInv => TypeOK
<1> SUFFICES ASSUME IInv PROVE TypeOK
  OBVIOUS
<1>1. aica \in Synth
  BY DEF IInv, Good
<1>2. \A e \in Entries : aica.cache[e].refs \in 0 .. NumNotes
  <2> SUFFICES ASSUME NEW e \in Entries PROVE aica.cache[e].refs \in 0 .. NumNotes
    OBVIOUS
  <2>1. aica.cache[e].refs \in Nat
    BY <1>1, EntryFields
  <2>2. Cardinality(Users(aica.voices, e)) \in 0 .. NumNotes
    BY UsersType
  <2>3. e # 0 /\ NumNotes \in Nat
    BY AicaAssumption DEF Entries
  <2>4. aica.cache[e].refs <= Cardinality(Users(aica.voices, e))
    BY <2>2, <2>3 DEF IInv, Shelved, Counted
  <2> QED BY <2>1, <2>2, <2>3, <2>4
<1>3. aica.cache \in [Entries -> [key : Short \cup {None}, aram : 0 .. AramSize,
                                  refs : 0 .. NumNotes, lru : 0 .. NumEntries + 1]]
  BY <1>1, <1>2 DEF Synth, EntryType
<1>4. /\ aica.voices \in [Notes -> VoiceType]
      /\ aica.streams \in [Streams -> StreamType]
      /\ aica.free \in Seq(Channels)
      /\ aica.hw \in [Channels -> PlayType]
  BY <1>1 DEF Synth
<1> QED BY <1>3, <1>4 DEF IInv, Noted, Clearing, TypeOK, NoteType, VoiceType, StreamType, PlayType

\* A channel that is in one place only, and in some.
LEMMA OnePlace ==
  ASSUME IInv, NEW c \in Channels
  PROVE  LET freed == {n \in DOMAIN aica.free : aica.free[n] = c}
             users == {i \in Notes : aica.voices[i].channel = c}
             rings == {s \in Streams : aica.streams[s].channel = c}
         IN  \/ (\E n : freed = {n}) /\ users = {} /\ rings = {}
             \/ freed = {} /\ (\E i : users = {i}) /\ rings = {}
             \/ freed = {} /\ users = {} /\ \E s : rings = {s}
<1> DEFINE freed == {n \in DOMAIN aica.free : aica.free[n] = c}
           users == {i \in Notes : aica.voices[i].channel = c}
           rings == {s \in Streams : aica.streams[s].channel = c}
           held == Held(aica)
<1>1. aica \in Synth /\ Placed(aica.free, aica.hw, held)
  BY DEF IInv, Good, PlacedIn
<1>2. DOMAIN aica.free = 1 .. Len(aica.free)
  BY <1>1, LenProperties DEF Synth
<1>3. /\ \A i \in Notes : <<"voice", i>> \in Holders /\ held[<<"voice", i>>] = aica.voices[i].channel
      /\ \A s \in Streams : <<"stream", s>> \in Holders /\ held[<<"stream", s>>] = aica.streams[s].channel
  BY <1>1, HeldType
<1> HIDE DEF held
<1>4. c # 0
  BY DEF Channels
<1>5. \A o, x \in Holders : held[o] = c /\ held[x] = c => o = x
  BY <1>1, <1>4 DEF Placed
<1>6. \A o \in Holders : held[o] \notin Stacked(aica.free)
  BY <1>1 DEF Placed
<1>7. \A i \in users, j \in Notes : aica.voices[j].channel = c => i = j
  BY <1>3, <1>5
<1>8. \A s \in rings, t \in Streams : aica.streams[t].channel = c => s = t
  BY <1>3, <1>5
<1>9. \A i \in users : rings = {}
  BY <1>3, <1>5
<1>10. CASE c \in Stacked(aica.free)
  <2>1. PICK n \in 1 .. Len(aica.free) : aica.free[n] = c
    BY <1>10 DEF Stacked
  <2>2. freed = {n}
    BY <1>1, <1>2, <2>1 DEF Placed
  <2>3. users = {} /\ rings = {}
    BY <1>3, <1>6, <1>10
  <2> QED BY <2>2, <2>3
<1>11. CASE c \notin Stacked(aica.free)
  <2>1. freed = {}
    BY <1>2, <1>11 DEF Stacked
  <2>2. PICK o \in Holders : held[o] = c
    BY <1>1, <1>11 DEF Placed
  <2>3. CASE \E i \in Notes : o = <<"voice", i>>
    <3>1. PICK i \in Notes : o = <<"voice", i>>
      BY <2>3
    <3>2. i \in users
      BY <1>3, <2>2, <3>1
    <3>3. users = {i}
      BY <3>2, <1>7
    <3> QED BY <2>1, <3>2, <3>3, <1>9
  <2>4. CASE \E s \in Streams : o = <<"stream", s>>
    <3>1. PICK s \in Streams : o = <<"stream", s>>
      BY <2>4
    <3>2. s \in rings
      BY <1>3, <2>2, <3>1
    <3>3. rings = {s}
      BY <3>2, <1>8
    <3> QED BY <2>1, <3>2, <3>3, <1>9
  <2> QED BY <2>3, <2>4 DEF Holders
<1> QED BY <1>10, <1>11

LEMMA ChannelsFollow == IInv => ChannelsAccounted
<1> SUFFICES ASSUME IInv, NEW c \in Channels
             PROVE LET freed == {n \in DOMAIN aica.free : aica.free[n] = c}
                       users == {i \in Notes : aica.voices[i].channel = c}
                       rings == {s \in Streams : aica.streams[s].channel = c}
                   IN  /\ Cardinality(freed) + Cardinality(users) + Cardinality(rings) = 1
                       /\ freed # {} <=> aica.hw[c] = Silent
  BY DEF ChannelsAccounted
<1> DEFINE freed == {n \in DOMAIN aica.free : aica.free[n] = c}
           users == {i \in Notes : aica.voices[i].channel = c}
           rings == {s \in Streams : aica.streams[s].channel = c}
<1>1. \/ (\E n : freed = {n}) /\ users = {} /\ rings = {}
      \/ freed = {} /\ (\E i : users = {i}) /\ rings = {}
      \/ freed = {} /\ users = {} /\ \E s : rings = {s}
  BY OnePlace
<1>2. aica \in Synth /\ Placed(aica.free, aica.hw, Held(aica))
  BY DEF IInv, Good, PlacedIn
<1>3. DOMAIN aica.free = 1 .. Len(aica.free)
  BY <1>2, LenProperties DEF Synth
<1>4. freed # {} <=> c \in Stacked(aica.free)
  BY <1>3 DEF Stacked
<1>5. freed # {} <=> aica.hw[c] = Silent
  BY <1>2, <1>4 DEF Placed
<1> HIDE DEF freed, users, rings
<1>6. Cardinality({}) = 0 /\ \A x : Cardinality({x}) = 1
  BY FS_EmptySet, FS_Singleton
<1>7. Cardinality(freed) + Cardinality(users) + Cardinality(rings) = 1
  <2>1. \/ Cardinality(freed) = 1 /\ Cardinality(users) = 0 /\ Cardinality(rings) = 0
        \/ Cardinality(freed) = 0 /\ Cardinality(users) = 1 /\ Cardinality(rings) = 0
        \/ Cardinality(freed) = 0 /\ Cardinality(users) = 0 /\ Cardinality(rings) = 1
    BY <1>1, <1>6, Zenon
  <2> QED BY <2>1
<1> QED BY <1>5, <1>7 DEF freed, users, rings

LEMMA SoundsFollow == IInv => SoundsRight
<1> SUFFICES ASSUME IInv, Rest, NEW i \in Notes
             PROVE LET v == aica.voices[i]
                       mine == StreamsOf(aica, i)
                   IN  /\ ~Plays(i) => ~v.active /\ mine = {}
                       /\ v.active => aica.hw[v.channel].key = slice[i].sound
                       /\ \A s \in mine : aica.streams[s].channel # 0 =>
                            aica.hw[aica.streams[s].channel].key = aica.streams[s].key
                       /\ Plays(i) /\ slice[i].sound \in Long =>
                            \A s \in mine : aica.streams[s].key = slice[i].sound
  BY DEF SoundsRight
<1>1. Right(aica, i) /\ Sounding(aica)
  BY DEF IInv, Heard, Good
<1>2. \A s \in StreamsOf(aica, i) : s \in Streams
  BY DEF StreamsOf
<1>3. aica.voices[i].active =>
        aica.hw[aica.voices[i].channel].key = aica.voices[i].sampleKey
  BY <1>1 DEF Sounding
<1> QED BY <1>1, <1>2, <1>3 DEF Right, Sounding

LEMMA RefsFollow == ~Preemptive /\ IInv => RefsCounted
<1> SUFFICES ASSUME ~Preemptive, IInv, NEW e \in Entries
             PROVE  aica.cache[e].refs = Cardinality(Users(aica.voices, e))
  BY DEF RefsCounted, Users
<1>1. Cardinality(Users(aica.voices, e)) \in 0 .. NumNotes /\ e # 0
  BY UsersType DEF Entries
<1> QED BY <1>1 DEF IInv, Shelved, Counted

LEMMA SamplesFollow == ~Preemptive /\ IInv => SamplesIntact
<1> SUFFICES ASSUME ~Preemptive, IInv, NEW c \in Channels, aica.hw[c].key \in Short
             PROVE  [base |-> aica.hw[c].aram, len |-> Units[aica.hw[c].key],
                     key |-> aica.hw[c].key] \in aica.blocks
  BY DEF SamplesIntact
<1>1. /\ aica \in Synth /\ Sounding(aica) /\ Fed(aica) /\ Backed(aica, Gone)
      /\ Placed(aica.free, aica.hw, Held(aica)) /\ Counted(aica, 0)
  BY DEF IInv, Good, PlacedIn, Shelved
<1>2. aica.hw[c] # Silent
  BY AicaAssumption DEF Silent, Sounds
<1>3. PICK o \in Holders : Held(aica)[o] = c
  BY <1>1, <1>2 DEF Placed
<1>4. c # 0
  BY DEF Channels
<1>5. CASE \E s \in Streams : o = <<"stream", s>>
  <2>1. PICK s \in Streams : aica.streams[s].channel = c
    BY <1>1, <1>3, <1>5, HeldType
  <2> QED BY <2>1, <1>1, <1>4 DEF Fed, Sounding
<1>6. CASE \E i \in Notes : o = <<"voice", i>>
  <2>1. PICK i \in Notes : aica.voices[i].channel = c
    BY <1>1, <1>3, <1>6, HeldType
  <2> DEFINE e == aica.voices[i].entry
  <2>2. aica.voices[i].sampleKey = aica.hw[c].key
    BY <1>1, <1>4, <2>1 DEF Sounding
  <2>3. e # 0 /\ aica.cache[e].key = aica.hw[c].key /\ aica.cache[e].aram = aica.hw[c].aram
    BY <1>1, <1>4, <2>1, <2>2 DEF Fed
  <2>4. e \in Entries
    BY <1>1, <2>3, EntryOfVoice
  <2>5. e \in Resident(aica)
    BY <2>3, <2>4, AicaAssumption DEF Resident, Sounds
  <2>6. e \notin Gone
    <3> SUFFICES ASSUME e \in Gone PROVE FALSE
      OBVIOUS
    <3>1. aica.cache[e].refs = 0
      BY DEF Gone, IInv, Clearing
    <3> QED BY <1>1, <2>4, <3>1, UncountedUnused
  <2>7. Whole(aica.cache[e]) \in aica.blocks
    BY <1>1, <2>5, <2>6 DEF Backed
  <2> QED BY <2>3, <2>7 DEF Whole
<1> QED BY <1>5, <1>6 DEF Holders

LEMMA RamFollows == ~Preemptive /\ IInv => RamAccounted
<1> SUFFICES ASSUME ~Preemptive, IInv PROVE RamAccounted
  OBVIOUS
<1> DEFINE kept == {e \in Resident(aica) : clear # <<"forget", e>>}
           f == [e \in kept |-> Whole(aica.cache[e])]
<1>1. Backed(aica, Gone) /\ aica \in Synth /\ clear \in {"idle", "test", "free", "forget"} \X (0 .. NumEntries)
  BY DEF IInv, Shelved, Good, Clearing
<1>2. kept = Resident(aica) \ Gone
  BY <1>1 DEF Gone
<1>3. \A e \in kept : f[e] \in aica.blocks /\ f[e].base = aica.cache[e].aram /\ f[e].key = aica.cache[e].key
  BY <1>1, <1>2 DEF Backed, Whole
<1>4. \A b \in aica.blocks : \E e \in kept : b = f[e]
  BY <1>1, <1>2 DEF Backed
<1>5. \A e, g \in kept : f[e] = f[g] => e = g
  <2> SUFFICES ASSUME NEW e \in kept, NEW g \in kept, f[e] = f[g] PROVE e = g
    OBVIOUS
  <2>1. aica.cache[e].aram = aica.cache[g].aram
    BY <1>3
  <2> QED BY <1>1, <1>2, <2>1 DEF Backed
<1>6. f \in Bijection(kept, aica.blocks)
  <2>1. f \in [kept -> aica.blocks]
    BY <1>3
  <2> HIDE DEF f, kept
  <2> QED BY <1>4, <1>5, <2>1 DEF Bijection, Injection, Surjection, IsInjective
<1>7. IsFiniteSet(kept)
  <2>1. kept \in SUBSET Entries /\ IsFiniteSet(Entries)
    BY FS_Interval, AicaAssumption DEF Resident, Entries
  <2> QED BY <2>1, FS_Subset
<1>8. Cardinality(aica.blocks) = Cardinality(kept)
  <2> HIDE DEF f, kept
  <2>1. Bijection(kept, aica.blocks) # {}
    BY <1>6
  <2> QED BY <1>7, <2>1, FS_Bijection DEF ExistsBijection
<1>9. \A e \in kept : \E b \in aica.blocks : b.base = aica.cache[e].aram /\ b.key = aica.cache[e].key
  BY <1>3
<1>10. \A e, g \in Resident(aica) : aica.cache[e].key = aica.cache[g].key => e = g
  BY <1>1 DEF Backed
<1> QED BY <1>8, <1>9, <1>10 DEF RamAccounted
-----------------------------------------------------------------------------
(* The theorems. *)

\* The state of the synth, of its caches and of the hardware keeps its types; an entry
\* is never counted oftener than there are notes.
THEOREM SynthTypeCorrect == Spec => []TypeOK
BY IInvHolds, TypesFollow, PTL

\* chan_alloc, chan_release, voice_stop and the streams neither lose a channel nor give
\* it away twice, and what sounds is just what is in use.
THEOREM ChannelsKept == Spec => []ChannelsAccounted
BY IInvHolds, ChannelsFollow, PTL

\* After each AicaSynth_Update the channels do what the last slice says.
THEOREM SoundsAsAsked == Spec => []SoundsRight
BY IInvHolds, SoundsFollow, PTL

\* cache_acquire and cache_release balance, on every way through the update of a note:
\* as long as the audio thread does not preempt the scene load, refs is the number of
\* voices.
THEOREM RefsKept ==
  ASSUME ~Preemptive
  PROVE  Spec => []RefsCounted
<1>1. IInv => RefsCounted
  BY RefsFollow
<1> QED BY <1>1, IInvHolds, PTL

\* No sample is evicted, overwritten or thrown away under a voice.
THEOREM SamplesKept ==
  ASSUME ~Preemptive
  PROVE  Spec => []SamplesIntact
<1>1. IInv => SamplesIntact
  BY SamplesFollow
<1> QED BY <1>1, IInvHolds, PTL

\* Sound RAM does not leak and no sample is loaded twice.
THEOREM RamKept ==
  ASSUME ~Preemptive
  PROVE  Spec => []RamAccounted
<1>1. IInv => RamAccounted
  BY RamFollows
<1> QED BY <1>1, IInvHolds, PTL
=============================================================================
