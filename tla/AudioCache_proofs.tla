-------------------------- MODULE AudioCache_proofs --------------------------
(***************************************************************************)
(* The caches of the audio heap, for any sequences, fonts, sizes and       *)
(* numbers of loads that meet CacheAssumptions and TableFacts.             *)
(***************************************************************************)
EXTENDS AudioCache, TLAPS
-----------------------------------------------------------------------------
(* One cache. *)

\* Where the entries lie: the persistent ones one behind the other, that of side 0 at the
\* start of the temporary pool, that of side 1 at its end, and the two apart.
Layout(t, c) ==
  /\ c \in Cache(t)
  /\ \A i \in Ids(t) : c.kept[i] # NoPlace => c.kept[i] + Size[i] <= c.used
  /\ \A i, j \in Ids(t) : i # j /\ c.kept[i] # NoPlace /\ c.kept[j] # NoPlace =>
       c.kept[i] + Size[i] <= c.kept[j] \/ c.kept[j] + Size[j] <= c.kept[i]
  /\ \A s \in Sides : c.entry[s] # None => c.kept[c.entry[s]] = NoPlace
  /\ c.entry[0] # None => c.at[0] = 0 /\ c.cur = Size[c.entry[0]]
  /\ c.entry[1] # None => c.at[1] = TempSize[t] - Size[c.entry[1]]
  /\ c.entry[0] # None /\ c.entry[1] # None =>
       c.entry[0] # c.entry[1] /\ Size[c.entry[0]] + Size[c.entry[1]] <= TempSize[t]

\* The first n cells at a place are of id's data.
Holds(c, id, place, n) == \A a \in place .. place + n - 1 : c.mem[a] = id

\* What is in the cache has a status, and what can be used is there; only fonts are
\* loaded in steps.
Stored(t, c) ==
  /\ Layout(t, c)
  /\ \A i \in Ids(t) : c.status[i] = "NOT_LOADED" <=> Find(t, c, i) = NoPlace
  /\ \A i \in Ids(t) : c.status[i] \in Usable => Holds(c, i, Find(t, c, i), Size[i])
  /\ t = "seq" => \A i \in Ids(t) : c.status[i] # "IN_PROGRESS"
-----------------------------------------------------------------------------
(* The caches with those who read them. *)

Shaped(w) ==
  /\ w = World(w.caches, w.base, w.loads, w.players, w.sounding)
  /\ w.caches = [t \in Tables |-> w.caches[t]]
  /\ w.base \in [Fonts -> Places("font")]
  /\ w.loads \in [1 .. NumLoads -> Load]
  /\ w.players \in [Players -> Player]
  /\ w.sounding \subseteq Fonts \X Cells("font")

SeqCache(w)  == w.caches["seq"]
FontCache(w) == w.caches["font"]
HasSeq(w, s)  == SeqCache(w).status[s] \in Usable
HasFont(w, f) == FontCache(w).status[f] \in Usable
SeqAt(w, s)   == Find("seq", SeqCache(w), s)
FontAt(w, f)  == Find("font", FontCache(w), f)

\* The instruments of a font that can be used lead to it.
Based(w) == \A f \in Fonts : HasFont(w, f) => w.base[f] = FontAt(w, f)

\* A load copies into the entry of its font, and is the only one.
Copies(w, load) ==
  /\ load.font \in Fonts
  /\ FontCache(w).status[load.font] = "IN_PROGRESS"
  /\ load.at = FontAt(w, load.font)
  /\ load.done <= Size[load.font]
  /\ Holds(FontCache(w), load.font, load.at, load.done)
Loading(w) ==
  /\ \A i \in 1 .. NumLoads : w.loads[i].active => Copies(w, w.loads[i])
  /\ \A i, j \in 1 .. NumLoads : w.loads[i].active /\ w.loads[j].active => i = j

\* A note plays from a font that is where the note found it.
Ringing(w) == \A n \in w.sounding : HasFont(w, n[1]) /\ FontAt(w, n[1]) = n[2]

\* What a player reads, if the load status of its sequence and its font let it.
Repertoire(p) == IF p = "bgm" THEN BgmSeqs ELSE Fanfares
Reads(w, m) ==
  /\ m.seq # None
  /\ HasSeq(w, m.seq) => m.data = SeqAt(w, m.seq)
  /\ HasSeq(w, m.seq) /\ HasFont(w, SeqFont[m.seq]) /\ m.insts # NoPlace =>
       m.insts = FontAt(w, SeqFont[m.seq])
Playing(w) == \A p \in Players :
  /\ w.players[p].seq \in Repertoire(p) \cup {None}
  /\ w.players[p].on => Reads(w, w.players[p])

Good(w) ==
  /\ Shaped(w)
  /\ \A t \in Tables : Stored(t, w.caches[t])
  /\ Based(w)
  /\ Loading(w)
  /\ Ringing(w)
  /\ Playing(w)
-----------------------------------------------------------------------------
(* The buffers. *)

\* A font on its way is the one the music waits for, and no message is here yet.
Awaited ==
  /\ \A f \in Fonts : FontCache(W).status[f] = "IN_PROGRESS" =>
       waiting # None /\ SeqFont[waiting] = f /\ arrived = 0
  /\ arrived # 0 => waiting # None

\* A player that has looked at the status since a command last changed it.
Looked(p) == \/ phase = "loads"
             \/ phase = "cmds" /\ ~asked
             \/ phase = "players" /\ turn > IF p = "bgm" THEN 0 ELSE 1
Stays(w, p) == /\ w.players[p].on
               /\ HasSeq(w, w.players[p].seq)
               => HasFont(w, SeqFont[w.players[p].seq])
Steady == \A p \in Players : Looked(p) => Stays(W, p)

Clocked ==
  /\ waiting \in Flagged \cup {None}
  /\ arrived \in 0 .. 1
  /\ resetting \in BOOLEAN
  /\ phase \in {"loads", "cmds", "players"}
  /\ turn \in Nat
  /\ asked \in BOOLEAN
  /\ asked => phase = "cmds"
  /\ phase = "cmds" => turn = 0

IInv == Good(W) /\ Awaited /\ Steady /\ Clocked
-----------------------------------------------------------------------------
LEMMA SizeFacts ==
  ASSUME NEW t \in Tables
  PROVE  /\ KeptSize[t] \in Nat /\ TempSize[t] \in Nat
         /\ \A i \in Ids(t) : Size[i] \in Nat /\ Size[i] > 0 /\ Size[i] <= TempSize[t] /\ i # None
  BY CacheAssumptions DEF Ids

\* The four answers of AudioHeap_SearchRegularCaches.
LEMMA FindCases ==
  ASSUME NEW t \in Tables, NEW c, Layout(t, c), NEW i \in Ids(t)
  PROVE  \/ /\ c.kept[i] # NoPlace /\ Find(t, c, i) = c.kept[i]
            /\ c.kept[i] \in Nat /\ c.kept[i] + Size[i] <= c.used
         \/ /\ c.kept[i] = NoPlace /\ c.entry[0] = i /\ c.entry[1] # i
            /\ Find(t, c, i) = KeptSize[t]
         \/ /\ c.kept[i] = NoPlace /\ c.entry[0] # i /\ c.entry[1] = i
            /\ Find(t, c, i) = KeptSize[t] + (TempSize[t] - Size[i])
         \/ /\ c.kept[i] = NoPlace /\ c.entry[0] # i /\ c.entry[1] # i
            /\ Find(t, c, i) = NoPlace
<1>1. c.kept \in [Ids(t) -> {NoPlace} \cup 0 .. KeptSize[t]] /\ 0 \in Sides /\ 1 \in Sides
  BY DEF Layout, Cache, Sides
<1>2. KeptSize[t] \in Nat /\ TempSize[t] \in Nat /\ i # None
  BY SizeFacts
<1>3. CASE c.kept[i] # NoPlace
  <2>1. c.kept[i] \in Nat /\ c.kept[i] + Size[i] <= c.used
    BY <1>1, <1>2, <1>3 DEF Layout
  <2> QED BY <1>3, <2>1 DEF Find
<1>4. CASE c.kept[i] = NoPlace /\ c.entry[0] = i
  <2>1. c.at[0] = 0 /\ c.entry[1] # i
    BY <1>2, <1>4 DEF Layout
  <2>2. Find(t, c, i) = KeptSize[t] + c.at[0]
    BY <1>4 DEF Find
  <2> QED BY <1>2, <1>4, <2>1, <2>2
<1>5. CASE c.kept[i] = NoPlace /\ c.entry[0] # i /\ c.entry[1] = i
  <2>1. c.at[1] = TempSize[t] - Size[i]
    BY <1>2, <1>5 DEF Layout
  <2>2. Find(t, c, i) = KeptSize[t] + c.at[1]
    BY <1>5 DEF Find
  <2> QED BY <1>5, <2>1, <2>2
<1>6. CASE c.kept[i] = NoPlace /\ c.entry[0] # i /\ c.entry[1] # i
  BY <1>6 DEF Find
<1> QED BY <1>3, <1>4, <1>5, <1>6

\* What is found lies in the memory of the table.
LEMMA FoundInside ==
  ASSUME NEW t \in Tables, NEW c, Layout(t, c), NEW i \in Ids(t), Find(t, c, i) # NoPlace
  PROVE  /\ Find(t, c, i) \in Nat
         /\ Find(t, c, i) + Size[i] <= KeptSize[t] + TempSize[t]
<1>1. /\ KeptSize[t] \in Nat /\ TempSize[t] \in Nat
      /\ Size[i] \in Nat /\ Size[i] > 0 /\ Size[i] <= TempSize[t]
  BY SizeFacts
<1>2. c.used \in Nat /\ c.used <= KeptSize[t]
  BY <1>1 DEF Layout, Cache
<1>3. \/ Find(t, c, i) \in Nat /\ Find(t, c, i) + Size[i] <= c.used
      \/ Find(t, c, i) = KeptSize[t]
      \/ Find(t, c, i) = KeptSize[t] + (TempSize[t] - Size[i])
  BY FindCases
<1> QED BY ONLY <1>1, <1>2, <1>3

\* Two that are found lie apart.
LEMMA FoundApart ==
  ASSUME NEW t \in Tables, NEW c, Layout(t, c), NEW i \in Ids(t), NEW j \in Ids(t), i # j,
         Find(t, c, i) # NoPlace, Find(t, c, j) # NoPlace
  PROVE  \/ Find(t, c, i) + Size[i] <= Find(t, c, j)
         \/ Find(t, c, j) + Size[j] <= Find(t, c, i)
<1>1. /\ KeptSize[t] \in Nat /\ TempSize[t] \in Nat
      /\ Size[i] \in Nat /\ Size[i] > 0 /\ Size[i] <= TempSize[t]
      /\ Size[j] \in Nat /\ Size[j] > 0 /\ Size[j] <= TempSize[t] /\ i # None /\ j # None
  BY SizeFacts
<1>2. c.used \in Nat /\ c.used <= KeptSize[t]
  BY <1>1 DEF Layout, Cache
<1>3. PICK x : x = Find(t, c, i)
  OBVIOUS
<1>4. PICK y : y = Find(t, c, j)
  OBVIOUS
<1>5. \/ c.kept[i] # NoPlace /\ x = c.kept[i] /\ x \in Nat /\ x + Size[i] <= c.used
      \/ c.entry[0] = i /\ x = KeptSize[t]
      \/ c.entry[1] = i /\ x = KeptSize[t] + (TempSize[t] - Size[i])
  BY <1>3, FindCases
<1>6. \/ c.kept[j] # NoPlace /\ y = c.kept[j] /\ y \in Nat /\ y + Size[j] <= c.used
      \/ c.entry[0] = j /\ y = KeptSize[t]
      \/ c.entry[1] = j /\ y = KeptSize[t] + (TempSize[t] - Size[j])
  BY <1>4, FindCases
<1>7. /\ c.kept[i] # NoPlace /\ c.kept[j] # NoPlace =>
           c.kept[i] + Size[i] <= c.kept[j] \/ c.kept[j] + Size[j] <= c.kept[i]
      /\ c.entry[0] = i /\ c.entry[1] = j => Size[i] + Size[j] <= TempSize[t]
      /\ c.entry[0] = j /\ c.entry[1] = i => Size[j] + Size[i] <= TempSize[t]
  BY <1>1 DEF Layout
<1>8. x + Size[i] <= y \/ y + Size[j] <= x
  BY ONLY <1>1, <1>2, <1>5, <1>6, <1>7, i # j
<1> QED BY <1>3, <1>4, <1>8
-----------------------------------------------------------------------------
(* An allocation. *)

\* The data of j is where it was, and what its status said of it still holds.
Carried(t, c, d, j) ==
  /\ Find(t, d, j) = Find(t, c, j)
  /\ d.status[j] = c.status[j] \/ (d.status[j] \in Usable /\ c.status[j] \in Usable)
  /\ Find(t, c, j) # NoPlace =>
       \A a \in Find(t, c, j) .. Find(t, c, j) + Size[j] - 1 : d.mem[a] = c.mem[a]

\* It is gone, and its status says so.
Lost(t, c, d, j) ==
  c.status[j] # "IN_PROGRESS" /\ d.status[j] = "NOT_LOADED" /\ Find(t, d, j) = NoPlace

\* id has a place; what had to give way is in gone.
Gives(t, c, d, id, place, gone) ==
  /\ Layout(t, d)
  /\ place # NoPlace /\ Find(t, d, id) = place
  /\ d.status[id] = "NOT_LOADED"
  /\ \A j \in Ids(t) \ {id} : (Lost(t, c, d, j) /\ j \in gone) \/ Carried(t, c, d, j)
  /\ id \notin gone

LEMMA BlankFields ==
  ASSUME NEW t \in Tables, NEW c \in Cache(t), NEW p, NEW n
  PROVE  /\ Blank(c, p, n) \in Cache(t)
         /\ Blank(c, p, n).status = c.status /\ Blank(c, p, n).kept = c.kept
         /\ Blank(c, p, n).used = c.used /\ Blank(c, p, n).entry = c.entry
         /\ Blank(c, p, n).at = c.at /\ Blank(c, p, n).cur = c.cur
         /\ Blank(c, p, n).nextSide = c.nextSide
         /\ \A a \in Cells(t) : a \notin p .. p + n - 1 => Blank(c, p, n).mem[a] = c.mem[a]
<1>1. PICK m : m = [a \in Cells(t) |-> IF a \in p .. p + n - 1 THEN None ELSE c.mem[a]]
  OBVIOUS
<1>2. m \in [Cells(t) -> Ids(t) \cup {None}]
  BY <1>1 DEF Cache
<1>3. \A a \in Cells(t) : a \notin p .. p + n - 1 => m[a] = c.mem[a]
  BY <1>1
<1>4. Blank(c, p, n) = [c EXCEPT !.mem = m]
  BY <1>1 DEF Blank, Cache
<1> QED BY <1>2, <1>3, <1>4 DEF Cache

\* What PlaceEntry returns, field by field.
LEMMA EntryFields ==
  ASSUME NEW t \in Tables, NEW c, Layout(t, c), NEW id \in Ids(t), NEW side \in Sides,
         NEW r, r = PlaceEntry(t, c, side, id), NEW start,
         start = IF side = 0 THEN 0 ELSE TempSize[t] - Size[id]
  PROVE  /\ r.place = KeptSize[t] + start
         /\ r.chosen = {c.entry[side]} \ {None}
         /\ r.over = IF Overlaps(c, side, start, start + Size[id]) THEN {c.entry[1 - side]} ELSE {}
         /\ r.cache \in Cache(t)
         /\ r.cache.kept = c.kept /\ r.cache.used = c.used
         /\ r.cache.entry[side] = id
         /\ r.cache.entry[1 - side] = IF Overlaps(c, side, start, start + Size[id]) THEN None ELSE c.entry[1 - side]
         /\ r.cache.at[side] = start
         /\ ~Overlaps(c, side, start, start + Size[id]) \/ side = 1 => r.cache.at[1 - side] = c.at[1 - side]
         /\ r.cache.cur = IF side = 0 THEN Size[id] ELSE IF Overlaps(c, side, start, start + Size[id]) THEN 0 ELSE c.cur
         /\ \A j \in Ids(t) : r.cache.status[j] =
              IF j \in r.chosen \cup r.over THEN "NOT_LOADED" ELSE c.status[j]
         /\ \A a \in Cells(t) : a < r.place \/ a >= r.place + Size[id] => r.cache.mem[a] = c.mem[a]
<1> DEFINE lost == Overlaps(c, side, start, start + Size[id])
<1>1. c \in Cache(t) /\ side \in {0, 1} /\ 1 - side \in Sides /\ 1 - side # side
  BY DEF Layout, Sides
<1>2. /\ KeptSize[t] \in Nat /\ TempSize[t] \in Nat
      /\ Size[id] \in Nat /\ Size[id] > 0 /\ Size[id] <= TempSize[t] /\ id # None
  BY SizeFacts
<1>3. start \in 0 .. TempSize[t] /\ start + Size[id] <= TempSize[t] /\ start \in Nat
  BY ONLY <1>1, <1>2, start = IF side = 0 THEN 0 ELSE TempSize[t] - Size[id]
<1>4. PICK entry : entry = [s \in Sides |-> IF s = side THEN id ELSE IF lost THEN None ELSE c.entry[s]]
  OBVIOUS
<1>5. PICK at : at = [s \in Sides |-> IF s = side THEN start
                                     ELSE IF lost /\ side = 0 THEN TempSize[t] ELSE c.at[s]]
  OBVIOUS
<1>6. PICK cur : cur = IF side = 0 THEN start + Size[id] ELSE IF lost THEN 0 ELSE c.cur
  OBVIOUS
<1>7. PICK chosen : chosen = {c.entry[side]} \ {None}
  OBVIOUS
<1>8. PICK over : over = IF lost THEN {c.entry[1 - side]} ELSE {}
  OBVIOUS
<1>9. PICK status : status = ClearLost(c, chosen, over)
  OBVIOUS
<1>10. PICK d : d = [c EXCEPT !.entry = entry, !.at = at, !.cur = cur, !.status = status,
                              !.nextSide = 1 - side]
  OBVIOUS
<1>11. /\ r.cache = Blank(d, KeptSize[t] + start, Size[id])
       /\ r.place = KeptSize[t] + start /\ r.chosen = chosen /\ r.over = over
  BY <1>4, <1>5, <1>6, <1>7, <1>8, <1>9, <1>10 DEF PlaceEntry
<1>12. entry \in [Sides -> Ids(t) \cup {None}]
  BY <1>1, <1>4 DEF Cache
<1>13. at \in [Sides -> 0 .. TempSize[t]]
  <2>1. TempSize[t] \in 0 .. TempSize[t]
    BY <1>2
  <2> QED BY <1>1, <1>3, <1>5, <2>1 DEF Cache
<1>14. cur \in 0 .. TempSize[t]
  <2>1. start + Size[id] \in 0 .. TempSize[t] /\ 0 \in 0 .. TempSize[t]
    BY <1>2, <1>3
  <2> QED BY <1>1, <1>6, <2>1 DEF Cache
<1>15. status \in [Ids(t) -> Statuses]
  BY <1>1, <1>9 DEF Cache, ClearLost, Statuses
<1>16. d \in Cache(t)
  BY <1>1, <1>10, <1>12, <1>13, <1>14, <1>15 DEF Cache
<1>17. /\ d.kept = c.kept /\ d.used = c.used /\ d.entry = entry /\ d.at = at /\ d.cur = cur
       /\ d.status = status /\ d.mem = c.mem
  BY <1>1, <1>10 DEF Cache
<1>18. /\ r.cache \in Cache(t)
       /\ r.cache.status = d.status /\ r.cache.kept = d.kept
       /\ r.cache.used = d.used /\ r.cache.entry = d.entry
       /\ r.cache.at = d.at /\ r.cache.cur = d.cur
       /\ \A a \in Cells(t) : a \notin r.place .. r.place + Size[id] - 1 => r.cache.mem[a] = d.mem[a]
  BY <1>11, <1>16, BlankFields
<1>19. \A j \in Ids(t) : status[j] = IF j \in chosen \cup over THEN "NOT_LOADED" ELSE c.status[j]
  BY <1>1, <1>9 DEF Cache, ClearLost
<1>20. entry[side] = id /\ entry[1 - side] = (IF lost THEN None ELSE c.entry[1 - side])
  BY <1>1, <1>4
<1>21. at[side] = start /\ (~lost \/ side = 1 => at[1 - side] = c.at[1 - side])
  BY <1>1, <1>5
<1>22. \A a \in Cells(t) : a < r.place \/ a >= r.place + Size[id] => r.cache.mem[a] = c.mem[a]
  <2>1. r.place \in Nat
    BY <1>2, <1>3, <1>11
  <2>2. \A a \in Cells(t) : a \in Int
    BY <1>2 DEF Cells
  <2>3. \A a \in Int : a < r.place \/ a >= r.place + Size[id] => a \notin r.place .. r.place + Size[id] - 1
    BY ONLY <2>1, <1>2
  <2> QED BY <1>17, <1>18, <2>2, <2>3
<1>23. cur = IF side = 0 THEN Size[id] ELSE IF lost THEN 0 ELSE c.cur
  BY <1>2, <1>6
<1> QED BY <1>7, <1>8, <1>11, <1>17, <1>18, <1>19, <1>20, <1>21, <1>22, <1>23

\* A new entry of the temporary pool moves nothing that it does not throw out.
LEMMA PlaceEntryGives ==
  ASSUME NEW t \in Tables, NEW c, Layout(t, c), NEW id \in Ids(t), NEW side \in Sides,
         Find(t, c, id) = NoPlace, c.status[id] = "NOT_LOADED",
         NEW r, r = PlaceEntry(t, c, side, id),
         \A j \in r.chosen \cup r.over : c.status[j] # "IN_PROGRESS"
  PROVE  Gives(t, c, r.cache, id, r.place, r.chosen \cup r.over)
<1>1. /\ c \in Cache(t) /\ side \in {0, 1} /\ 1 - side \in Sides /\ 1 - side # side
      /\ c.used \in Nat /\ c.used <= KeptSize[t] /\ c.cur \in Nat /\ c.at[0] \in Nat /\ c.at[1] \in Nat
  BY SizeFacts DEF Layout, Sides, Cache
<1>2. /\ KeptSize[t] \in Nat /\ TempSize[t] \in Nat
      /\ \A j \in Ids(t) : Size[j] \in Nat /\ Size[j] > 0 /\ Size[j] <= TempSize[t] /\ j # None
  BY SizeFacts
<1>3. PICK start : start = IF side = 0 THEN 0 ELSE TempSize[t] - Size[id]
  OBVIOUS
<1> DEFINE lost == Overlaps(c, side, start, start + Size[id])
<1>5. /\ r.place = KeptSize[t] + start
      /\ r.chosen = {c.entry[side]} \ {None}
      /\ r.over = IF lost THEN {c.entry[1 - side]} ELSE {}
      /\ r.cache \in Cache(t)
      /\ r.cache.kept = c.kept /\ r.cache.used = c.used
      /\ r.cache.entry[side] = id
      /\ r.cache.entry[1 - side] = IF lost THEN None ELSE c.entry[1 - side]
      /\ r.cache.at[side] = start
      /\ ~lost \/ side = 1 => r.cache.at[1 - side] = c.at[1 - side]
      /\ r.cache.cur = IF side = 0 THEN Size[id] ELSE IF lost THEN 0 ELSE c.cur
      /\ \A j \in Ids(t) : r.cache.status[j] =
           IF j \in r.chosen \cup r.over THEN "NOT_LOADED" ELSE c.status[j]
      /\ \A a \in Cells(t) : a < r.place \/ a >= r.place + Size[id] => r.cache.mem[a] = c.mem[a]
  BY ONLY <1>3, t \in Tables, Layout(t, c), id \in Ids(t), side \in Sides,
          r = PlaceEntry(t, c, side, id), EntryFields
<1>6. PICK d : d = r.cache
  OBVIOUS
<1>7. c.kept[id] = NoPlace /\ c.entry[0] # id /\ c.entry[1] # id
  <2>1. NoPlace \notin Nat
    BY DEF NoPlace
  <2>2. KeptSize[t] \in Nat /\ KeptSize[t] + (TempSize[t] - Size[id]) \in Nat
    BY <1>2
  <2> QED BY <2>1, <2>2, FindCases
<1>8. lost <=> /\ c.entry[1 - side] # None
               /\ IF side = 0 THEN c.at[1] < Size[id] ELSE TempSize[t] - Size[id] < c.cur
  BY <1>1, <1>2, <1>3 DEF Overlaps
<1>9. Layout(t, d)
  <2>1. \A s \in Sides : d.entry[s] # None => d.kept[d.entry[s]] = NoPlace
    <3>1. \A s \in Sides : s = side \/ s = 1 - side
      BY <1>1 DEF Sides
    <3>2. \A s \in Sides : c.entry[s] # None => c.kept[c.entry[s]] = NoPlace
      BY DEF Layout
    <3> QED BY <1>5, <1>6, <1>7, <3>1, <3>2
  <2>2. /\ c.entry[0] # None => c.at[0] = 0 /\ c.cur = Size[c.entry[0]]
        /\ c.entry[1] # None => c.at[1] = TempSize[t] - Size[c.entry[1]]
        /\ c.entry[0] # None => c.entry[0] \in Ids(t)
        /\ c.entry[1] # None => c.entry[1] \in Ids(t)
    BY DEF Layout, Cache, Sides
  <2>3. CASE side = 0
    <3>1. d.entry[0] = id /\ d.at[0] = 0 /\ d.cur = Size[id]
      BY <1>3, <1>5, <1>6, <2>3
    <3>2. d.entry[1] # None => d.entry[1] = c.entry[1] /\ d.at[1] = c.at[1] /\ ~(c.at[1] < Size[id])
      BY <1>5, <1>6, <1>8, <2>3
    <3>3. d.entry[1] # None => Size[id] + Size[d.entry[1]] <= TempSize[t]
      <4> SUFFICES ASSUME d.entry[1] # None PROVE Size[id] + Size[d.entry[1]] <= TempSize[t]
        OBVIOUS
      <4>1. PICK n \in Nat : n = Size[d.entry[1]]
        BY <1>2, <2>2, <3>2
      <4>2. c.at[1] = TempSize[t] - n /\ ~(c.at[1] < Size[id])
        BY <2>2, <3>2, <4>1
      <4>3. Size[id] \in Nat
        BY <1>2
      <4> QED BY <1>2, <4>1, <4>2, <4>3
    <3> QED BY <1>2, <1>5, <1>6, <1>7, <2>1, <2>2, <3>1, <3>2, <3>3 DEF Layout
  <2>4. CASE side = 1
    <3>1. d.entry[1] = id /\ d.at[1] = TempSize[t] - Size[id]
      BY <1>3, <1>5, <1>6, <2>4
    <3>2. d.entry[0] # None => d.entry[0] = c.entry[0] /\ d.at[0] = c.at[0] /\ d.cur = c.cur
                               /\ ~(TempSize[t] - Size[id] < c.cur)
      BY <1>5, <1>6, <1>8, <2>4
    <3>3. d.entry[0] # None => Size[d.entry[0]] + Size[id] <= TempSize[t]
      <4> SUFFICES ASSUME d.entry[0] # None PROVE Size[d.entry[0]] + Size[id] <= TempSize[t]
        OBVIOUS
      <4>1. PICK n \in Nat : n = Size[d.entry[0]]
        BY <1>2, <2>2, <3>2
      <4>2. c.cur = n /\ ~(TempSize[t] - Size[id] < c.cur)
        BY <2>2, <3>2, <4>1
      <4>3. Size[id] \in Nat
        BY <1>2
      <4> QED BY <1>2, <4>1, <4>2, <4>3
    <3> QED BY <1>2, <1>5, <1>6, <1>7, <2>1, <2>2, <3>1, <3>2, <3>3 DEF Layout
  <2> QED BY <1>1, <2>3, <2>4
<1>10. Find(t, d, id) = r.place /\ r.place \in Nat
  <2>1. d.kept[id] = NoPlace
    BY <1>5, <1>6, <1>7
  <2>2. NoPlace \notin Nat
    BY DEF NoPlace
  <2>3. r.place = KeptSize[t] + start
    BY <1>5
  <2>4. CASE side = 0
    <3>1. d.entry[0] = id /\ r.place = KeptSize[t]
      BY <1>2, <1>3, <1>5, <1>6, <2>3, <2>4
    <3>2. Find(t, d, id) = KeptSize[t]
      BY <1>9, <2>1, <3>1, FindCases
    <3> QED BY <1>2, <3>1, <3>2
  <2>5. CASE side = 1
    <3>1. d.entry[1] = id /\ r.place = KeptSize[t] + (TempSize[t] - Size[id])
      BY <1>2, <1>3, <1>5, <1>6, <2>3, <2>5
    <3>2. Find(t, d, id) = KeptSize[t] + (TempSize[t] - Size[id])
      BY <1>9, <2>1, <3>1, FindCases
    <3>3. KeptSize[t] + (TempSize[t] - Size[id]) \in Nat
      BY <1>2
    <3> QED BY <3>1, <3>2, <3>3
  <2> QED BY <1>1, <2>4, <2>5
<1>11. id \notin r.chosen \cup r.over
  BY <1>1, <1>5, <1>7
<1>12. d.status[id] = "NOT_LOADED"
  BY <1>5, <1>6, <1>11
<1>13. ASSUME NEW j \in Ids(t) \ {id}, j \in r.chosen \cup r.over PROVE Lost(t, c, d, j)
  <2>1. c.kept[j] = NoPlace
    BY <1>1, <1>2, <1>5, <1>13 DEF Layout
  <2>2. d.entry[0] # j /\ d.entry[1] # j
    <3>1. d.entry[side] = id
      BY <1>5, <1>6
    <3>2. d.entry[1 - side] # j
      <4>1. CASE j \in r.over
        BY <1>2, <1>5, <1>6, <4>1
      <4>2. CASE j \in r.chosen /\ j \notin r.over
        <5>1. j = c.entry[side]
          BY <1>5, <4>2
        <5>2. c.entry[1 - side] # j
          <6>1. c.entry[0] # None /\ c.entry[1] # None => c.entry[0] # c.entry[1]
            BY DEF Layout
          <6> QED BY <1>1, <1>2, <5>1, <6>1
        <5> QED BY <1>2, <1>5, <1>6, <5>2
      <4> QED BY <1>13, <4>1, <4>2
    <3> QED BY <1>1, <1>13, <3>1, <3>2
  <2>3. d.kept[j] = NoPlace
    BY <1>5, <1>6, <2>1
  <2>4. Find(t, d, j) = NoPlace
    BY <2>2, <2>3 DEF Find
  <2>5. d.status[j] = "NOT_LOADED"
    BY <1>5, <1>6, <1>13
  <2> QED BY <1>13, <2>4, <2>5 DEF Lost
<1>14. ASSUME NEW j \in Ids(t) \ {id}, j \notin r.chosen \cup r.over PROVE Carried(t, c, d, j)
  <2>1. d.status[j] = c.status[j]
    BY <1>5, <1>6, <1>14
  <2>2. j # c.entry[side] /\ (lost => j # c.entry[1 - side])
    BY <1>2, <1>5, <1>14
  <2>3. d.kept[j] = c.kept[j]
    BY <1>5, <1>6
  <2>4. (d.entry[0] = j <=> c.entry[0] = j) /\ (d.entry[1] = j <=> c.entry[1] = j)
    <3>1. (d.entry[side] = j <=> c.entry[side] = j) /\ (d.entry[1 - side] = j <=> c.entry[1 - side] = j)
      BY <1>2, <1>5, <1>6, <1>14, <2>2
    <3> QED BY <1>1, <3>1
  <2>5. Find(t, d, j) = Find(t, c, j)
    BY <1>9, <2>3, <2>4, FindCases
  <2>6. ASSUME Find(t, c, j) # NoPlace,
               NEW a \in Find(t, c, j) .. Find(t, c, j) + Size[j] - 1
        PROVE  d.mem[a] = c.mem[a]
    <3>1. Find(t, c, j) \in Nat /\ Find(t, c, j) + Size[j] <= KeptSize[t] + TempSize[t]
      BY <2>6, FoundInside
    <3>2. \/ Find(t, c, j) + Size[j] <= r.place
          \/ r.place + Size[id] <= Find(t, c, j)
      <4>1. Find(t, d, j) # NoPlace /\ Find(t, d, id) # NoPlace
        BY <1>10, <2>5, <2>6 DEF NoPlace
      <4>2. \/ Find(t, d, j) + Size[j] <= Find(t, d, id)
            \/ Find(t, d, id) + Size[id] <= Find(t, d, j)
        BY <1>9, <4>1, FoundApart
      <4> QED BY <1>10, <2>5, <4>2
    <3>3. PICK p \in Nat : p = Find(t, c, j)
      BY <3>1
    <3>4. a \in Cells(t) /\ (a < r.place \/ a >= r.place + Size[id])
      <4>1. Size[j] \in Nat /\ Size[id] \in Nat
        BY <1>2
      <4>2. a \in p .. p + Size[j] - 1 /\ p + Size[j] <= KeptSize[t] + TempSize[t]
        BY <2>6, <3>1, <3>3
      <4>3. p + Size[j] <= r.place \/ r.place + Size[id] <= p
        BY <3>2, <3>3
      <4>4. a \in 0 .. KeptSize[t] + TempSize[t] - 1 /\ (a < r.place \/ a >= r.place + Size[id])
        BY ONLY <1>2, <1>10, <4>1, <4>2, <4>3, p \in Nat
      <4> QED BY <4>4 DEF Cells
    <3> QED BY <1>5, <1>6, <3>4
  <2> QED BY <2>1, <2>5, <2>6 DEF Carried
<1> QED BY <1>6, <1>9, <1>10, <1>11, <1>12, <1>13, <1>14 DEF Gives, NoPlace

\* d differs from c in what is due next and in how it can be used.
Alike(t, c, d) ==
  /\ d \in Cache(t)
  /\ d.kept = c.kept /\ d.used = c.used /\ d.entry = c.entry /\ d.at = c.at
  /\ d.cur = c.cur /\ d.mem = c.mem
  /\ \A i \in Ids(t) : d.status[i] = c.status[i] \/ (d.status[i] \in Usable /\ c.status[i] \in Usable)

LEMMA AlikeFind ==
  ASSUME NEW t, NEW c, NEW d, Alike(t, c, d), NEW i PROVE Find(t, d, i) = Find(t, c, i)
  BY DEF Alike, Find

LEMMA AlikeLayout ==
  ASSUME NEW t, NEW c, NEW d, Layout(t, c), Alike(t, c, d) PROVE Layout(t, d)
  BY DEF Alike, Layout

LEMMA AlikeCarried ==
  ASSUME NEW t, NEW c, NEW d, Alike(t, c, d), NEW i \in Ids(t) PROVE Carried(t, c, d, i)
  BY AlikeFind DEF Alike, Carried

LEMMA AlikeStored ==
  ASSUME NEW t, NEW c, NEW d, Stored(t, c), Alike(t, c, d) PROVE Stored(t, d)
<1>1. Layout(t, d)
  BY AlikeLayout DEF Stored
<1>2. \A i \in Ids(t) : d.status[i] = "NOT_LOADED" <=> Find(t, d, i) = NoPlace
  BY AlikeFind DEF Alike, Stored, Usable
<1>3. \A i \in Ids(t) : d.status[i] \in Usable => Holds(d, i, Find(t, d, i), Size[i])
  <2>1. \A i \in Ids(t) : d.status[i] \in Usable => c.status[i] \in Usable
    BY DEF Alike
  <2> QED BY <2>1, AlikeFind DEF Alike, Stored, Holds
<1>4. t = "seq" => \A i \in Ids(t) : d.status[i] # "IN_PROGRESS"
  BY DEF Alike, Stored, Usable
<1> QED BY <1>1, <1>2, <1>3, <1>4 DEF Stored

LEMMA AlikeSelf == ASSUME NEW t, NEW c \in Cache(t) PROVE Alike(t, c, c)
  BY DEF Alike

\* Before or after such a change an allocation gives the same.
LEMMA AlikeGives ==
  ASSUME NEW t, NEW b, NEW c, NEW d, NEW e, NEW id \in Ids(t), NEW place, NEW gone,
         Alike(t, b, c), Gives(t, c, d, id, place, gone), Alike(t, d, e)
  PROVE  Gives(t, b, e, id, place, gone)
<1>1. Layout(t, e) /\ Find(t, e, id) = place /\ place # NoPlace /\ id \notin gone
  BY AlikeFind, AlikeLayout DEF Gives
<1>2. e.status[id] = "NOT_LOADED"
  BY DEF Gives, Alike, Usable
<1>3. ASSUME NEW j \in Ids(t) \ {id} PROVE (Lost(t, b, e, j) /\ j \in gone) \/ Carried(t, b, e, j)
  <2>1. Find(t, e, j) = Find(t, d, j) /\ Find(t, c, j) = Find(t, b, j)
    BY AlikeFind
  <2>2. e.status[j] = d.status[j] \/ (e.status[j] \in Usable /\ d.status[j] \in Usable)
    BY DEF Alike
  <2>3. c.status[j] = b.status[j] \/ (c.status[j] \in Usable /\ b.status[j] \in Usable)
    BY DEF Alike
  <2>4. e.mem = d.mem /\ c.mem = b.mem
    BY DEF Alike
  <2>5. CASE Lost(t, c, d, j) /\ j \in gone
    BY <2>1, <2>2, <2>3, <2>5 DEF Lost, Usable
  <2>6. CASE Carried(t, c, d, j)
    BY <2>1, <2>2, <2>3, <2>4, <2>6 DEF Carried
  <2> QED BY <2>5, <2>6 DEF Gives
<1> QED BY <1>1, <1>2, <1>3 DEF Gives

LEMMA ReleasedAlike ==
  ASSUME NEW t, NEW c \in Cache(t), NEW busy PROVE Alike(t, c, Released(c, busy))
<1>1. PICK status : status = [i \in Ids(t) |->
        IF /\ c.status[i] = "MAYBE_DISCARDABLE"
           /\ \E s \in Sides : c.entry[s] = i
           /\ i \notin busy
        THEN "DISCARDABLE" ELSE c.status[i]]
  OBVIOUS
<1>2. Released(c, busy) = [c EXCEPT !.status = status]
  BY <1>1 DEF Released, Cache
<1>3. status \in [Ids(t) -> Statuses]
  BY <1>1 DEF Cache, Statuses
<1>4. \A i \in Ids(t) : status[i] = c.status[i] \/ (status[i] \in Usable /\ c.status[i] \in Usable)
  BY <1>1 DEF Usable
<1> QED BY <1>2, <1>3, <1>4 DEF Alike, Cache

LEMMA LowerOf == ASSUME NEW sides \in SUBSET Sides, sides # {} PROVE Lower(sides) \in sides
  BY DEF Lower, Sides

\* The side given up is not being loaded into.
LEMMA ChosenIdle ==
  ASSUME NEW c, NEW busy, c.nextSide \in Sides, ChosenSide(c, busy) # NoSide
  PROVE  /\ ChosenSide(c, busy) \in Sides
         /\ SideStatus(c, ChosenSide(c, busy)) # "IN_PROGRESS"
<1> DEFINE Of(status) == {s \in Sides : SideStatus(c, s) = status}
           idle == {s \in Of("COMPLETE") : c.entry[s] \notin busy}
           free == Sides \ Of("IN_PROGRESS")
<1>1. PICK side : side = ChosenSide(c, busy)
  OBVIOUS
<1>2. side = IF Of("NOT_LOADED") # {} THEN Lower(Of("NOT_LOADED"))
             ELSE IF Of("DISCARDABLE") = Sides THEN c.nextSide
             ELSE IF Of("DISCARDABLE") # {} THEN Lower(Of("DISCARDABLE"))
             ELSE IF idle # {} THEN Lower(idle)
             ELSE IF c.nextSide \in free THEN c.nextSide
             ELSE IF free # {} THEN 1 - c.nextSide
             ELSE NoSide
  BY <1>1 DEF ChosenSide
<1>3. \A status : Of(status) \in SUBSET Sides /\ \A s \in Of(status) : SideStatus(c, s) = status
  OBVIOUS
<1>4. idle \in SUBSET Sides /\ idle \subseteq Of("COMPLETE")
  OBVIOUS
<1>5. free \subseteq Sides /\ \A s \in free : SideStatus(c, s) # "IN_PROGRESS"
  OBVIOUS
<1> HIDE DEF Of, idle, free
<1>6. \A status : status # "IN_PROGRESS" =>
        \A s \in Of(status) : s \in Sides /\ SideStatus(c, s) # "IN_PROGRESS"
  BY <1>3
<1>7. CASE Of("NOT_LOADED") # {}
  <2>1. side \in Of("NOT_LOADED")
    BY <1>2, <1>3, <1>7, LowerOf
  <2> QED BY <1>1, <1>6, <2>1
<1>8. CASE Of("NOT_LOADED") = {} /\ Of("DISCARDABLE") = Sides
  <2>1. side \in Of("DISCARDABLE")
    BY <1>2, <1>8
  <2> QED BY <1>1, <1>6, <2>1
<1>9. CASE Of("NOT_LOADED") = {} /\ Of("DISCARDABLE") # Sides /\ Of("DISCARDABLE") # {}
  <2>1. side \in Of("DISCARDABLE")
    BY <1>2, <1>3, <1>9, LowerOf
  <2> QED BY <1>1, <1>6, <2>1
<1>10. CASE Of("NOT_LOADED") = {} /\ Of("DISCARDABLE") = {} /\ idle # {}
  <2>1. Sides # {}
    BY DEF Sides
  <2>2. side \in idle
    BY <1>2, <1>4, <1>10, <2>1, LowerOf
  <2> QED BY <1>1, <1>4, <1>6, <2>2
<1>11. CASE Of("NOT_LOADED") = {} /\ Of("DISCARDABLE") = {} /\ idle = {}
  <2>1. Sides # {}
    BY DEF Sides
  <2>2. side = IF c.nextSide \in free THEN c.nextSide ELSE IF free # {} THEN 1 - c.nextSide ELSE NoSide
    BY <1>2, <1>11, <2>1
  <2>3. side \in free
    <3>1. ASSUME c.nextSide \notin free, free # {} PROVE 1 - c.nextSide \in free
      <4>1. PICK x : x \in free
        BY <3>1
      <4>2. x \in {0, 1} /\ c.nextSide \in {0, 1} /\ x # c.nextSide
        BY <1>5, <3>1, <4>1 DEF Sides
      <4>3. x = 1 - c.nextSide
        BY ONLY <4>2
      <4> QED BY <4>1, <4>3
    <3> QED BY <1>1, <2>2, <3>1
  <2> QED BY <1>1, <1>5, <2>3
<1> QED BY <1>7, <1>8, <1>9, <1>10, <1>11

\* Two fonts always fit the temporary pool, so none is thrown out for being in the way.
LEMMA FontsFit ==
  ASSUME NEW c, Layout("font", c), NEW id \in Fonts, NEW side \in Sides,
         Find("font", c, id) = NoPlace, NEW start,
         start = IF side = 0 THEN 0 ELSE TempSize["font"] - Size[id]
  PROVE  ~Overlaps(c, side, start, start + Size[id])
<1> SUFFICES ASSUME c.entry[1 - side] # None
             PROVE  ~(IF side = 0 THEN c.at[1] < start + Size[id] ELSE start < c.cur)
  BY DEF Overlaps
<1> DEFINE g == c.entry[1 - side]
<1>1. "font" \in Tables /\ Ids("font") = Fonts /\ side \in {0, 1} /\ 1 - side \in Sides
  BY DEF Tables, Ids, Sides
<1>2. g \in Fonts
  BY <1>1 DEF Layout, Cache
<1>3. c.kept[id] = NoPlace /\ c.entry[0] # id /\ c.entry[1] # id
  <2>1. NoPlace \notin Nat
    BY DEF NoPlace
  <2>2. KeptSize["font"] \in Nat /\ KeptSize["font"] + (TempSize["font"] - Size[id]) \in Nat
    BY <1>1, SizeFacts
  <2> QED BY <1>1, <2>1, <2>2, FindCases
<1>4. g # id
  BY <1>1, <1>3
<1>5. Size[g] \in Nat /\ Size[id] \in Nat /\ TempSize["font"] \in Nat
  BY <1>1, <1>2, SizeFacts
<1>6. Size[id] + Size[g] <= TempSize["font"]
  BY <1>2, <1>4, TableFacts
<1>7. CASE side = 0
  <2>1. c.at[1] = TempSize["font"] - Size[g]
    BY <1>7 DEF Layout
  <2> QED BY <1>5, <1>6, <1>7, <2>1
<1>8. CASE side = 1
  <2>1. c.cur = Size[g]
    BY <1>8 DEF Layout
  <2> QED BY <1>5, <1>6, <1>8, <2>1
<1> QED BY <1>1, <1>7, <1>8

\* AudioHeap_AllocCached fails and leaves everything as it was, or finds a place.
LEMMA AllocGives ==
  ASSUME NEW t \in Tables, NEW c, Stored(t, c), NEW id \in Ids(t), Find(t, c, id) = NoPlace,
         NEW busy, NEW r, r = AllocCached(t, c, id, busy)
  PROVE  \/ /\ r.place = NoPlace /\ r.chosen \cup r.over = {} /\ Alike(t, c, r.cache)
         \/ Gives(t, c, r.cache, id, r.place, r.chosen \cup r.over)
<1>1. c \in Cache(t) /\ Layout(t, c) /\ c.status[id] = "NOT_LOADED"
  BY DEF Stored, Layout
<1>2. /\ KeptSize[t] \in Nat /\ TempSize[t] \in Nat
      /\ \A j \in Ids(t) : Size[j] \in Nat /\ Size[j] > 0 /\ Size[j] <= TempSize[t] /\ j # None
  BY SizeFacts
<1>3. CASE HasRoom(t, c, id)
  <2> DEFINE used == c.used
             full == c.used + Size[id]
  <2>1. PICK d : d = [c EXCEPT !.kept[id] = used, !.used = full]
    OBVIOUS
  <2>2. /\ r.cache = Blank(d, used, Size[id]) /\ r.place = used
        /\ r.chosen = {} /\ r.over = {}
    BY <1>3, <2>1 DEF AllocCached
  <2>3. used \in 0 .. KeptSize[t] /\ full \in 0 .. KeptSize[t] /\ used \in Nat /\ full \in Nat
    BY <1>1, <1>2, <1>3 DEF HasRoom, Cache
  <2>4. d \in Cache(t)
    <3>1. [c.kept EXCEPT ![id] = used] \in [Ids(t) -> {NoPlace} \cup 0 .. KeptSize[t]]
      BY <1>1, <2>3 DEF Cache
    <3>2. d = [c EXCEPT !.kept = [c.kept EXCEPT ![id] = used], !.used = full]
      BY <1>1, <2>1 DEF Cache
    <3> QED BY <1>1, <2>3, <3>1, <3>2 DEF Cache
  <2>5. /\ d.kept = [c.kept EXCEPT ![id] = used] /\ d.used = full
        /\ d.entry = c.entry /\ d.at = c.at /\ d.cur = c.cur /\ d.status = c.status /\ d.mem = c.mem
    BY <1>1, <2>1 DEF Cache
  <2>6. PICK e : e = r.cache
    OBVIOUS
  <2>7. /\ e \in Cache(t) /\ e.status = c.status /\ e.kept = [c.kept EXCEPT ![id] = used]
        /\ e.used = full /\ e.entry = c.entry /\ e.at = c.at /\ e.cur = c.cur
        /\ \A a \in Cells(t) : a \notin used .. used + Size[id] - 1 => e.mem[a] = c.mem[a]
    BY <2>2, <2>4, <2>5, <2>6, BlankFields
  <2> HIDE DEF used, full
  <2>8. e.kept[id] = used /\ \A j \in Ids(t) \ {id} : e.kept[j] = c.kept[j]
    BY <1>1, <2>7 DEF Cache
  <2>9. used # NoPlace /\ full = used + Size[id] /\ used = c.used
    BY <2>3 DEF NoPlace, used, full
  <2>10. \A s \in Sides : c.entry[s] # id
    <3>1. NoPlace \notin Nat
      BY DEF NoPlace
    <3>2. KeptSize[t] \in Nat /\ KeptSize[t] + (TempSize[t] - Size[id]) \in Nat
      BY <1>2
    <3> QED BY <1>1, <3>1, <3>2, FindCases DEF Sides
  <2>11. Layout(t, e)
    <3>1. \A i \in Ids(t) : e.kept[i] # NoPlace => e.kept[i] + Size[i] <= full
      <4> SUFFICES ASSUME NEW i \in Ids(t), e.kept[i] # NoPlace PROVE e.kept[i] + Size[i] <= full
        OBVIOUS
      <4>1. CASE i = id
        BY <1>2, <2>3, <2>8, <2>9, <4>1
      <4>2. CASE i # id
        <5>1. e.kept[i] = c.kept[i]
          BY <2>8, <4>2
        <5>2. c.kept[i] \in Nat /\ c.kept[i] + Size[i] <= c.used
          BY <1>1, <1>2, <5>1 DEF Layout, Cache
        <5>3. Size[i] \in Nat /\ Size[id] \in Nat
          BY <1>2
        <5> QED BY ONLY <2>3, <2>9, <5>1, <5>2, <5>3
      <4> QED BY <4>1, <4>2
    <3>2. \A i \in Ids(t) \ {id} : e.kept[i] # NoPlace => e.kept[i] + Size[i] <= e.kept[id]
      BY <1>1, <2>8, <2>9 DEF Layout
    <3>3. \A i, j \in Ids(t) : i # j /\ e.kept[i] # NoPlace /\ e.kept[j] # NoPlace =>
            e.kept[i] + Size[i] <= e.kept[j] \/ e.kept[j] + Size[j] <= e.kept[i]
      <4> SUFFICES ASSUME NEW i \in Ids(t), NEW j \in Ids(t), i # j, e.kept[i] # NoPlace, e.kept[j] # NoPlace
                   PROVE  e.kept[i] + Size[i] <= e.kept[j] \/ e.kept[j] + Size[j] <= e.kept[i]
        OBVIOUS
      <4>1. CASE i = id \/ j = id
        BY <3>2, <4>1
      <4>2. CASE i # id /\ j # id
        BY <1>1, <2>8, <4>2 DEF Layout
      <4> QED BY <4>1, <4>2
    <3>4. \A s \in Sides : e.entry[s] # None => e.kept[e.entry[s]] = NoPlace
      BY <1>1, <2>7, <2>8, <2>10 DEF Layout, Cache
    <3> QED BY <1>1, <2>7, <3>1, <3>3, <3>4 DEF Layout
  <2>12. Find(t, e, id) = used
    BY <2>8, <2>9 DEF Find
  <2>13. ASSUME NEW j \in Ids(t) \ {id} PROVE Carried(t, c, e, j)
    <3>1. Find(t, e, j) = Find(t, c, j)
      BY <2>7, <2>8 DEF Find
    <3>2. ASSUME Find(t, c, j) # NoPlace,
                 NEW a \in Find(t, c, j) .. Find(t, c, j) + Size[j] - 1
          PROVE  e.mem[a] = c.mem[a]
      <4>1. Find(t, c, j) \in Nat /\ Find(t, c, j) + Size[j] <= KeptSize[t] + TempSize[t]
        BY <1>1, <3>2, FoundInside
      <4>2. \/ Find(t, c, j) + Size[j] <= used
            \/ used + Size[id] <= Find(t, c, j)
        <5>1. \/ Find(t, e, j) + Size[j] <= Find(t, e, id)
              \/ Find(t, e, id) + Size[id] <= Find(t, e, j)
          BY <2>9, <2>11, <2>12, <3>1, <3>2, FoundApart
        <5> QED BY <2>12, <3>1, <5>1
      <4>3. PICK p \in Nat : p = Find(t, c, j)
        BY <4>1
      <4>4. a \in Cells(t) /\ a \notin used .. used + Size[id] - 1
        <5>1. Size[j] \in Nat /\ Size[id] \in Nat
          BY <1>2
        <5>2. a \in p .. p + Size[j] - 1 /\ p + Size[j] <= KeptSize[t] + TempSize[t]
          BY <3>2, <4>1, <4>3
        <5>3. p + Size[j] <= used \/ used + Size[id] <= p
          BY <4>2, <4>3
        <5>4. a \in 0 .. KeptSize[t] + TempSize[t] - 1 /\ a \notin used .. used + Size[id] - 1
          BY ONLY <1>2, <2>3, <5>1, <5>2, <5>3, p \in Nat
        <5> QED BY <5>4 DEF Cells
      <4> QED BY <2>7, <4>4
    <3> QED BY <2>7, <3>1, <3>2 DEF Carried
  <2>14. r.chosen \cup r.over = {} /\ r.place = used
    BY <2>2 DEF used
  <2>15. Gives(t, c, e, id, used, {})
    BY <1>1, <2>7, <2>9, <2>11, <2>12, <2>13 DEF Gives
  <2> QED BY <2>6, <2>14, <2>15
<1>4. CASE ~HasRoom(t, c, id)
  <2>1. r = AllocTemporary(t, c, id, busy)
    BY <1>4 DEF AllocCached
  <2>2. PICK b : b = Released(c, busy)
    OBVIOUS
  <2>3. Alike(t, c, b)
    BY <1>1, <2>2, ReleasedAlike
  <2>4. PICK side : side = ChosenSide(b, busy)
    OBVIOUS
  <2>5. CASE side = NoSide
    BY <2>1, <2>2, <2>3, <2>4, <2>5 DEF AllocTemporary
  <2>6. CASE side # NoSide
    <3>1. r = PlaceEntry(t, b, side, id)
      BY <2>1, <2>2, <2>4, <2>6 DEF AllocTemporary
    <3>2. Stored(t, b) /\ Layout(t, b) /\ Find(t, b, id) = NoPlace /\ b \in Cache(t)
      BY <2>3, AlikeStored, AlikeFind DEF Stored, Alike
    <3>3. b.status[id] = "NOT_LOADED"
      BY <3>2 DEF Stored
    <3>4. side \in Sides /\ SideStatus(b, side) # "IN_PROGRESS"
      <4>1. b.nextSide \in Sides
        BY <3>2 DEF Cache
      <4> QED BY <2>4, <2>6, <4>1, ChosenIdle
    <3>5. PICK start : start = IF side = 0 THEN 0 ELSE TempSize[t] - Size[id]
      OBVIOUS
    <3>6. /\ r.chosen = {b.entry[side]} \ {None}
          /\ r.over = IF Overlaps(b, side, start, start + Size[id]) THEN {b.entry[1 - side]} ELSE {}
      BY ONLY <3>1, <3>5 DEF PlaceEntry
    <3>7. \A j \in r.chosen : b.status[j] # "IN_PROGRESS"
      BY <3>4, <3>6 DEF SideStatus
    <3>8. \A j \in r.over : b.status[j] # "IN_PROGRESS"
      <4>1. CASE t = "font"
        <5>1. r.over = {}
          BY <3>2, <3>4, <3>5, <3>6, <4>1, FontsFit DEF Ids
        <5> QED BY <5>1
      <4>2. CASE t = "seq"
        <5>1. Overlaps(b, side, start, start + Size[id]) => b.entry[1 - side] \in Ids(t)
          BY <3>2, <3>4 DEF Overlaps, Cache, Sides
        <5> QED BY <3>2, <3>6, <4>2, <5>1 DEF Stored
      <4> QED BY <4>1, <4>2 DEF Tables
    <3>9. Gives(t, b, r.cache, id, r.place, r.chosen \cup r.over)
      BY <3>1, <3>2, <3>3, <3>4, <3>7, <3>8, PlaceEntryGives
    <3>10. Alike(t, r.cache, r.cache)
      BY <3>9, AlikeSelf DEF Gives, Layout
    <3> QED BY <2>3, <3>9, <3>10, AlikeGives
  <2> QED BY <2>5, <2>6
<1> QED BY <1>3, <1>4

\* What could not be used has data, or gets some.
Gained(c, d, j) == c.status[j] \notin Usable /\ d.status[j] # "NOT_LOADED"

\* From c to d entries are lost to gone and gained for new; all others are carried.
CacheStep(t, c, d, gone, new) ==
  /\ Stored(t, d)
  /\ \A j \in Ids(t) : \/ Lost(t, c, d, j) /\ j \in gone
                       \/ Carried(t, c, d, j)
                       \/ j \in new /\ Gained(c, d, j)

LEMMA AlikeStep ==
  ASSUME NEW t, NEW c, NEW d, Stored(t, c), Alike(t, c, d), NEW gone, NEW new
  PROVE  CacheStep(t, c, d, gone, new)
  BY AlikeStored, AlikeCarried DEF CacheStep

LEMMA SetStatusFields ==
  ASSUME NEW t, NEW c \in Cache(t), NEW id \in Ids(t), NEW s \in Statuses
  PROVE  /\ SetStatus(c, id, s) \in Cache(t)
         /\ SetStatus(c, id, s).kept = c.kept /\ SetStatus(c, id, s).used = c.used
         /\ SetStatus(c, id, s).entry = c.entry /\ SetStatus(c, id, s).at = c.at
         /\ SetStatus(c, id, s).cur = c.cur /\ SetStatus(c, id, s).mem = c.mem
         /\ SetStatus(c, id, s).nextSide = c.nextSide
         /\ SetStatus(c, id, s).status[id] = s
         /\ \A j \in Ids(t) \ {id} : SetStatus(c, id, s).status[j] = c.status[j]
<1>1. PICK status : status = [c.status EXCEPT ![id] = s]
  OBVIOUS
<1>2. status \in [Ids(t) -> Statuses] /\ status[id] = s /\ \A j \in Ids(t) \ {id} : status[j] = c.status[j]
  BY <1>1 DEF Cache
<1>3. SetStatus(c, id, s) = [c EXCEPT !.status = status]
  BY <1>1 DEF SetStatus, Cache
<1> QED BY <1>2, <1>3 DEF Cache

\* To set the status of what can be used leaves the cache as it was.
LEMMA SetStatusAlike ==
  ASSUME NEW t, NEW c \in Cache(t), NEW id \in Ids(t), NEW s \in Usable, c.status[id] \in Usable
  PROVE  Alike(t, c, SetStatus(c, id, s))
<1>1. s \in Statuses
  BY DEF Usable, Statuses
<1> QED BY <1>1, SetStatusFields DEF Alike

LEMMA FilledFields ==
  ASSUME NEW t, NEW c \in Cache(t), NEW id \in Ids(t), NEW p
  PROVE  /\ Filled(c, id, p) \in Cache(t)
         /\ Filled(c, id, p).kept = c.kept /\ Filled(c, id, p).used = c.used
         /\ Filled(c, id, p).entry = c.entry /\ Filled(c, id, p).at = c.at
         /\ Filled(c, id, p).cur = c.cur /\ Filled(c, id, p).status = c.status
         /\ \A a \in Cells(t) : Filled(c, id, p).mem[a] = IF a \in p .. p + Size[id] - 1 THEN id ELSE c.mem[a]
<1>1. PICK m : m = [a \in Cells(t) |-> IF a \in p .. p + Size[id] - 1 THEN id ELSE c.mem[a]]
  OBVIOUS
<1>2. m \in [Cells(t) -> Ids(t) \cup {None}]
  BY <1>1 DEF Cache
<1>3. Filled(c, id, p) = [c EXCEPT !.mem = m]
  BY <1>1 DEF Filled, Cache
<1>4. \A a \in Cells(t) : m[a] = IF a \in p .. p + Size[id] - 1 THEN id ELSE c.mem[a]
  BY <1>1
<1> QED BY <1>2, <1>3, <1>4 DEF Cache

\* The same layout finds the same.
LEMMA SameFind ==
  ASSUME NEW t, NEW c, NEW d, d.kept = c.kept, d.entry = c.entry, d.at = c.at, NEW i
  PROVE  Find(t, d, i) = Find(t, c, i)
  BY DEF Find

LEMMA SameLayout ==
  ASSUME NEW t, NEW c, NEW d \in Cache(t), Layout(t, c), d.kept = c.kept, d.used = c.used, d.entry = c.entry,
         d.at = c.at, d.cur = c.cur
  PROVE  Layout(t, d)
  BY DEF Layout

\* The cells of another's data are not those of id.
LEMMA OtherCells ==
  ASSUME NEW t \in Tables, NEW c, Layout(t, c), NEW id \in Ids(t), NEW j \in Ids(t) \ {id},
         Find(t, c, id) # NoPlace, Find(t, c, j) # NoPlace,
         NEW a \in Find(t, c, j) .. Find(t, c, j) + Size[j] - 1
  PROVE  a \in Cells(t) /\ a \notin Find(t, c, id) .. Find(t, c, id) + Size[id] - 1
<1>1. PICK p \in Nat : p = Find(t, c, j)
  BY FoundInside
<1>2. PICK q \in Nat : q = Find(t, c, id)
  BY FoundInside
<1>3. p + Size[j] <= KeptSize[t] + TempSize[t]
  BY <1>1, FoundInside
<1>4. p + Size[j] <= q \/ q + Size[id] <= p
  BY <1>1, <1>2, FoundApart
<1>5. /\ KeptSize[t] \in Nat /\ TempSize[t] \in Nat /\ Size[j] \in Nat /\ Size[id] \in Nat
  BY SizeFacts
<1>6. a \in p .. p + Size[j] - 1
  BY <1>1
<1>7. a \in 0 .. KeptSize[t] + TempSize[t] - 1 /\ a \notin q .. q + Size[id] - 1
  BY ONLY <1>3, <1>4, <1>5, <1>6, p \in Nat, q \in Nat
<1> QED BY <1>2, <1>7 DEF Cells

LEMMA OwnCells ==
  ASSUME NEW t \in Tables, NEW c, Layout(t, c), NEW j \in Ids(t), Find(t, c, j) # NoPlace,
         NEW a \in Find(t, c, j) .. Find(t, c, j) + Size[j] - 1
  PROVE  a \in Cells(t)
<1>1. PICK p \in Nat : p = Find(t, c, j)
  BY FoundInside
<1>2. p + Size[j] <= KeptSize[t] + TempSize[t]
  BY <1>1, FoundInside
<1>3. /\ KeptSize[t] \in Nat /\ TempSize[t] \in Nat /\ Size[j] \in Nat
  BY SizeFacts
<1>4. a \in p .. p + Size[j] - 1
  BY <1>1
<1>5. a \in 0 .. KeptSize[t] + TempSize[t] - 1
  BY ONLY <1>2, <1>3, <1>4, p \in Nat
<1> QED BY <1>5 DEF Cells

\* An allocation whose data comes with it, and one that a load will fill.
Fills(t, d, id, place, f, s) ==
  \/ s = "COMPLETE" /\ f = Filled(d, id, place)
  \/ s = "IN_PROGRESS" /\ f = d /\ t = "font"

LEMMA FillStep ==
  ASSUME NEW t \in Tables, NEW c, Stored(t, c), NEW id \in Ids(t), NEW d, NEW place, NEW gone,
         Gives(t, c, d, id, place, gone), c.status[id] = "NOT_LOADED",
         NEW f \in Cache(t), NEW s, NEW e, e = SetStatus(f, id, s),
         Fills(t, d, id, place, f, s)
  PROVE  CacheStep(t, c, e, gone, {id}) /\ Find(t, e, id) = place /\ e.status[id] = s
<1>1. Layout(t, d) /\ d \in Cache(t) /\ Find(t, d, id) = place /\ place # NoPlace
  BY DEF Gives, Layout
<1>2. /\ f.kept = d.kept /\ f.used = d.used /\ f.entry = d.entry /\ f.at = d.at /\ f.cur = d.cur
      /\ f.status = d.status
      /\ s = "COMPLETE" => \A a \in Cells(t) :
           f.mem[a] = IF a \in place .. place + Size[id] - 1 THEN id ELSE d.mem[a]
      /\ s = "IN_PROGRESS" => f.mem = d.mem
  BY <1>1, FilledFields DEF Fills
<1>3. /\ e \in Cache(t)
      /\ e.kept = d.kept /\ e.used = d.used /\ e.entry = d.entry /\ e.at = d.at /\ e.cur = d.cur
      /\ e.mem = f.mem /\ e.status[id] = s
      /\ \A j \in Ids(t) \ {id} : e.status[j] = d.status[j]
  <2>1. s \in Statuses
    BY DEF Fills, Statuses
  <2> QED BY <1>2, <2>1, SetStatusFields
<1>4. Layout(t, e)
  BY <1>1, <1>3, SameLayout
<1>5. \A i : Find(t, e, i) = Find(t, d, i)
  BY <1>3, SameFind
<1>6. ASSUME NEW j \in Ids(t) \ {id} PROVE (Lost(t, c, e, j) /\ j \in gone) \/ Carried(t, c, e, j)
  <2>1. CASE Lost(t, c, d, j) /\ j \in gone
    BY <1>3, <1>5, <2>1 DEF Lost
  <2>2. CASE Carried(t, c, d, j)
    <3>1. ASSUME Find(t, c, j) # NoPlace,
                 NEW a \in Find(t, c, j) .. Find(t, c, j) + Size[j] - 1
          PROVE  e.mem[a] = c.mem[a]
      <4>1. d.mem[a] = c.mem[a] /\ Find(t, d, j) = Find(t, c, j)
        BY <2>2, <3>1 DEF Carried
      <4>2. a \in Cells(t) /\ a \notin place .. place + Size[id] - 1
        BY <1>1, <3>1, <4>1, OtherCells
      <4>3. f.mem[a] = d.mem[a]
        BY <1>2, <4>2 DEF Fills
      <4> QED BY ONLY <1>3, <4>1, <4>3
    <3> QED BY <1>3, <1>5, <2>2, <3>1 DEF Carried
  <2> QED BY <2>1, <2>2 DEF Gives
<1>7. \A i \in Ids(t) : e.status[i] = "NOT_LOADED" <=> Find(t, e, i) = NoPlace
  <2> SUFFICES ASSUME NEW i \in Ids(t) PROVE e.status[i] = "NOT_LOADED" <=> Find(t, e, i) = NoPlace
    OBVIOUS
  <2>1. CASE i = id
    BY <1>1, <1>3, <1>5, <2>1 DEF Fills
  <2>2. CASE i # id
    <3>1. c.status[i] = "NOT_LOADED" <=> Find(t, c, i) = NoPlace
      BY DEF Stored
    <3> QED BY <1>6, <2>2, <3>1 DEF Lost, Carried, Usable
  <2> QED BY <2>1, <2>2
<1>8. \A i \in Ids(t) : e.status[i] \in Usable => Holds(e, i, Find(t, e, i), Size[i])
  <2> SUFFICES ASSUME NEW i \in Ids(t), e.status[i] \in Usable,
                      NEW a \in Find(t, e, i) .. Find(t, e, i) + Size[i] - 1
               PROVE  e.mem[a] = i
    BY DEF Holds
  <2>1. Find(t, e, i) # NoPlace
    BY <1>7 DEF Usable
  <2>2. CASE i = id
    <3>1. s = "COMPLETE"
      BY <1>3, <2>2 DEF Fills, Usable
    <3>2. a \in Cells(t)
      BY <1>4, <2>1, OwnCells
    <3> QED BY <1>1, <1>2, <1>3, <1>5, <2>2, <3>1, <3>2
  <2>3. CASE i # id
    <3>1. Carried(t, c, e, i)
      BY <1>6, <2>3 DEF Lost, Usable
    <3>2. c.status[i] \in Usable /\ Find(t, e, i) = Find(t, c, i)
      BY <3>1 DEF Carried
    <3>3. c.mem[a] = i
      BY <3>2 DEF Stored, Holds
    <3> QED BY <2>1, <3>1, <3>2, <3>3 DEF Carried
  <2> QED BY <2>2, <2>3
<1>9. t = "seq" => \A i \in Ids(t) : e.status[i] # "IN_PROGRESS"
  <2> SUFFICES ASSUME t = "seq", NEW i \in Ids(t) PROVE e.status[i] # "IN_PROGRESS"
    OBVIOUS
  <2>1. CASE i = id
    BY <1>3, <2>1 DEF Fills
  <2>2. CASE i # id
    <3>1. c.status[i] # "IN_PROGRESS"
      BY DEF Stored
    <3> QED BY <1>6, <2>2, <3>1 DEF Lost, Carried, Usable
  <2> QED BY <2>1, <2>2
<1>10. Stored(t, e)
  BY <1>4, <1>7, <1>8, <1>9 DEF Stored
<1>11. Gained(c, e, id)
  BY <1>3 DEF Fills, Gained, Usable
<1> QED BY <1>1, <1>3, <1>5, <1>6, <1>10, <1>11 DEF CacheStep

LEMMA FilledStep ==
  ASSUME NEW t \in Tables, NEW c, Stored(t, c), NEW id \in Ids(t), NEW d, NEW place, NEW gone,
         Gives(t, c, d, id, place, gone), c.status[id] = "NOT_LOADED",
         NEW e, e = SetStatus(Filled(d, id, place), id, "COMPLETE")
  PROVE  CacheStep(t, c, e, gone, {id}) /\ Find(t, e, id) = place /\ e.status[id] = "COMPLETE"
<1>1. PICK f : f = Filled(d, id, place)
  OBVIOUS
<1>2. PICK s : s = "COMPLETE"
  OBVIOUS
<1>3. f \in Cache(t) /\ e = SetStatus(f, id, s)
  BY <1>1, <1>2, FilledFields DEF Gives, Layout
<1>4. Fills(t, d, id, place, f, s)
  BY <1>1, <1>2 DEF Fills
<1>5. CacheStep(t, c, e, gone, {id}) /\ Find(t, e, id) = place /\ e.status[id] = s
  BY <1>3, <1>4, FillStep
<1> QED BY <1>2, <1>5

LEMMA PendingStep ==
  ASSUME NEW c, Stored("font", c), NEW id \in Fonts, NEW d \in Cache("font"), NEW place, NEW gone,
         Gives("font", c, d, id, place, gone), c.status[id] = "NOT_LOADED",
         NEW e, e = SetStatus(d, id, "IN_PROGRESS")
  PROVE  CacheStep("font", c, e, gone, {id}) /\ Find("font", e, id) = place /\ e.status[id] = "IN_PROGRESS"
<1>1. PICK t : t = "font"
  OBVIOUS
<1>2. PICK s : s = "IN_PROGRESS"
  OBVIOUS
<1>3. t \in Tables /\ Stored(t, c) /\ id \in Ids(t) /\ d \in Cache(t) /\ Gives(t, c, d, id, place, gone)
  BY <1>1 DEF Tables, Ids
<1>4. PICK f : f = d
  OBVIOUS
<1>5. f \in Cache(t) /\ e = SetStatus(f, id, s)
  BY <1>2, <1>3, <1>4
<1>6. Fills(t, d, id, place, f, s)
  BY <1>1, <1>2, <1>4 DEF Fills
<1>7. CacheStep(t, c, e, gone, {id}) /\ Find(t, e, id) = place /\ e.status[id] = s
  BY ONLY <1>3, c.status[id] = "NOT_LOADED", <1>5, <1>6, FillStep
<1> QED BY <1>1, <1>2, <1>7
-----------------------------------------------------------------------------
(* The caches with those who read them. *)

LEMMA WorldFields ==
  ASSUME NEW c, NEW b, NEW l, NEW p, NEW n
  PROVE  /\ World(c, b, l, p, n).caches = c /\ World(c, b, l, p, n).base = b
         /\ World(c, b, l, p, n).loads = l /\ World(c, b, l, p, n).players = p
         /\ World(c, b, l, p, n).sounding = n
  BY DEF World

\* One cache is replaced.
Put(w, t, c) == [w EXCEPT !.caches[t] = c]

LEMMA PutFields ==
  ASSUME NEW w, Shaped(w), NEW t \in Tables, NEW c, NEW v, v = Put(w, t, c)
  PROVE  /\ Shaped(v)
         /\ v.caches[t] = c /\ \A u \in Tables \ {t} : v.caches[u] = w.caches[u]
         /\ v.base = w.base /\ v.loads = w.loads /\ v.players = w.players /\ v.sounding = w.sounding
<1>1. PICK x : x = [w.caches EXCEPT ![t] = c]
  OBVIOUS
<1>2. v = World(x, w.base, w.loads, w.players, w.sounding)
  BY <1>1 DEF Put, Shaped, World
<1>3. /\ v.caches = x /\ v.base = w.base /\ v.loads = w.loads /\ v.players = w.players
      /\ v.sounding = w.sounding
  BY ONLY <1>2 DEF World
<1>4. x = [u \in Tables |-> x[u]] /\ x[t] = c /\ \A u \in Tables \ {t} : x[u] = w.caches[u]
  BY <1>1 DEF Shaped
<1> QED BY <1>2, <1>3, <1>4 DEF Shaped

\* What a step of the caches may do to those who read them: fonts in gone have no
\* notes, and a player goes on or ends.
WorldStep(w, v, gone, fonts, seqs) ==
  /\ Shaped(v)
  /\ CacheStep("font", FontCache(w), FontCache(v), gone, fonts)
  /\ CacheStep("seq", SeqCache(w), SeqCache(v), Seqs, seqs)
  /\ v.loads = w.loads
  /\ \A f \in Fonts \ fonts : v.base[f] = w.base[f]
  /\ \A f \in fonts : HasFont(v, f) => v.base[f] = FontAt(v, f)
  /\ v.sounding \subseteq w.sounding /\ \A n \in v.sounding : n[1] \notin gone
  /\ \A p \in Players : /\ v.players[p].seq = w.players[p].seq
                        /\ v.players[p].on => v.players[p] = w.players[p]

LEMMA StepFont ==
  ASSUME NEW w, NEW v, NEW gone, NEW fonts, NEW seqs, WorldStep(w, v, gone, fonts, seqs), NEW f \in Fonts
  PROVE  \/ Lost("font", FontCache(w), FontCache(v), f) /\ f \in gone
         \/ Carried("font", FontCache(w), FontCache(v), f)
         \/ f \in fonts /\ Gained(FontCache(w), FontCache(v), f)
  BY DEF WorldStep, CacheStep, Ids

LEMMA StepSeq ==
  ASSUME NEW w, NEW v, NEW gone, NEW fonts, NEW seqs, WorldStep(w, v, gone, fonts, seqs), NEW s \in Seqs
  PROVE  \/ Lost("seq", SeqCache(w), SeqCache(v), s)
         \/ Carried("seq", SeqCache(w), SeqCache(v), s)
         \/ s \in seqs /\ Gained(SeqCache(w), SeqCache(v), s)
  BY DEF WorldStep, CacheStep, Ids

LEMMA FontOf == \A s \in Seqs : SeqFont[s] \in Fonts
  BY DEF Fonts

LEMMA SeqOf == ASSUME NEW w, Playing(w), NEW p \in Players, w.players[p].seq # None
               PROVE  w.players[p].seq \in Seqs
  BY DEF Playing, Repertoire, Seqs

\* Such a step keeps what the readers rely on, if it takes no load's place and no player
\* can be misled: none that
\* goes on awaits a sequence that is new, nor a font that is back.
LEMMA StepGood ==
  ASSUME NEW w, Good(w), NEW v, NEW gone, NEW fonts \in SUBSET Fonts, NEW seqs,
         WorldStep(w, v, gone, fonts, seqs),
         \A i \in 1 .. NumLoads : w.loads[i].active => w.loads[i].font \notin fonts,
         \A p \in Players : v.players[p].on =>
           /\ w.players[p].seq \notin seqs
           /\ SeqFont[w.players[p].seq] \in fonts =>
                Stays(w, p) \/ ~HasFont(v, SeqFont[w.players[p].seq])
  PROVE  Good(v)
<1>1. Shaped(v) /\ \A t \in Tables : Stored(t, v.caches[t])
  BY DEF WorldStep, CacheStep, FontCache, SeqCache, Tables
<1>2. Based(v)
  <2> SUFFICES ASSUME NEW f \in Fonts, HasFont(v, f) PROVE v.base[f] = FontAt(v, f)
    BY DEF Based
  <2>1. CASE f \in fonts
    BY <2>1 DEF WorldStep
  <2>2. CASE f \notin fonts
    <3>1. Carried("font", FontCache(w), FontCache(v), f)
      BY <2>2, StepFont DEF HasFont, Lost, Usable
    <3>2. HasFont(w, f) /\ FontAt(v, f) = FontAt(w, f)
      BY <3>1 DEF Carried, HasFont, FontAt
    <3>3. v.base[f] = w.base[f]
      BY <2>2 DEF WorldStep
    <3> QED BY <3>2, <3>3 DEF Good, Based
  <2> QED BY <2>1, <2>2
<1>3. Loading(v)
  <2>1. v.loads = w.loads
    BY DEF WorldStep
  <2>2. ASSUME NEW load \in Load, Copies(w, load), load.font \notin fonts PROVE Copies(v, load)
    <3> DEFINE f == load.font
    <3>1. f \in Fonts /\ FontCache(w).status[f] = "IN_PROGRESS"
      BY <2>2 DEF Copies
    <3>2. Carried("font", FontCache(w), FontCache(v), f)
      BY <2>2, <3>1, StepFont DEF Lost
    <3>3. FontCache(v).status[f] = "IN_PROGRESS" /\ FontAt(v, f) = FontAt(w, f)
      BY <3>1, <3>2 DEF Carried, Usable, FontAt
    <3>4. Holds(FontCache(v), f, load.at, load.done)
      <4>1. PICK place : place = load.at
        OBVIOUS
      <4>2. place = FontAt(w, f) /\ place # NoPlace
        <5>1. Stored("font", FontCache(w))
          BY DEF Good, FontCache, Tables
        <5> QED BY <2>2, <3>1, <4>1, <5>1 DEF Copies, Stored, Ids, FontAt
      <4>3. \A a \in place .. place + Size[f] - 1 : FontCache(v).mem[a] = FontCache(w).mem[a]
        BY <3>2, <4>2 DEF Carried, FontAt
      <4>4. place \in Nat /\ Size[f] \in Nat
        <5>1. "font" \in Tables /\ Ids("font") = Fonts
          BY DEF Tables, Ids
        <5>2. Layout("font", FontCache(w))
          BY <5>1 DEF Good, FontCache, Stored
        <5> QED BY <3>1, <4>2, <5>1, <5>2, FoundInside, SizeFacts DEF FontAt
      <4>5. load.done <= Size[f] /\ \A a \in place .. place + load.done - 1 : FontCache(w).mem[a] = f
        BY <2>2, <4>1 DEF Copies, Holds
      <4>6. load.done \in Nat
        BY <2>2 DEF Load
      <4>7. ASSUME NEW a \in place .. place + load.done - 1 PROVE a \in place .. place + Size[f] - 1
        <5>1. PICK done \in Nat : done = load.done
          BY <4>6
        <5>2. a \in place .. place + done - 1 /\ done <= Size[f]
          BY <4>5, <4>7, <5>1
        <5> QED BY ONLY <4>4, <5>1, <5>2
      <4> QED BY <4>1, <4>3, <4>5, <4>7 DEF Holds
    <3> QED BY <2>2, <3>1, <3>3, <3>4 DEF Copies
  <2> QED BY <2>1, <2>2 DEF Good, Loading, Shaped, Load
<1>4. Ringing(v)
  <2> SUFFICES ASSUME NEW n \in v.sounding PROVE HasFont(v, n[1]) /\ FontAt(v, n[1]) = n[2]
    BY DEF Ringing
  <2>1. n \in w.sounding /\ n[1] \notin gone
    BY DEF WorldStep
  <2>2. n[1] \in Fonts /\ HasFont(w, n[1]) /\ FontAt(w, n[1]) = n[2]
    BY <2>1 DEF Good, Ringing, Shaped
  <2>3. Carried("font", FontCache(w), FontCache(v), n[1])
    BY <2>1, <2>2, StepFont DEF HasFont, Gained, Usable
  <2> QED BY <2>2, <2>3 DEF Carried, HasFont, FontAt
<1>5. Playing(v)
  <2> SUFFICES ASSUME NEW p \in Players
               PROVE  /\ v.players[p].seq \in Repertoire(p) \cup {None}
                      /\ v.players[p].on => Reads(v, v.players[p])
    BY DEF Playing
  <2>1. v.players[p].seq = w.players[p].seq
    BY DEF WorldStep
  <2>2. v.players[p].seq \in Repertoire(p) \cup {None}
    BY <2>1 DEF Good, Playing
  <2>3. ASSUME v.players[p].on PROVE Reads(v, v.players[p])
    <3> DEFINE m == w.players[p]
    <3>1. v.players[p] = m /\ m.on
      BY <2>3 DEF WorldStep
    <3>2. Reads(w, m)
      BY <3>1 DEF Good, Playing
    <3>3. m.seq \in Seqs /\ SeqFont[m.seq] \in Fonts
      BY <3>2, FontOf, SeqOf DEF Reads, Good
    <3>4. /\ m.seq \notin seqs
          /\ SeqFont[m.seq] \in fonts => Stays(w, p) \/ ~HasFont(v, SeqFont[m.seq])
      BY <2>3
    <3>5. ASSUME HasSeq(v, m.seq) PROVE HasSeq(w, m.seq) /\ SeqAt(v, m.seq) = SeqAt(w, m.seq)
      <4>1. Carried("seq", SeqCache(w), SeqCache(v), m.seq)
        BY <3>3, <3>4, <3>5, StepSeq DEF HasSeq, Lost, Usable
      <4> QED BY <3>5, <4>1 DEF Carried, HasSeq, SeqAt
    <3>6. ASSUME HasSeq(v, m.seq), HasFont(v, SeqFont[m.seq])
          PROVE  HasFont(w, SeqFont[m.seq]) /\ FontAt(v, SeqFont[m.seq]) = FontAt(w, SeqFont[m.seq])
      <4>1. Carried("font", FontCache(w), FontCache(v), SeqFont[m.seq])
        <5>1. CASE Lost("font", FontCache(w), FontCache(v), SeqFont[m.seq])
          BY <3>6, <5>1 DEF Lost, HasFont, Usable
        <5>2. CASE SeqFont[m.seq] \in fonts /\ Gained(FontCache(w), FontCache(v), SeqFont[m.seq])
          BY <3>1, <3>4, <3>5, <3>6, <5>2 DEF Stays, HasFont, Gained, Usable
        <5> QED BY <3>3, <5>1, <5>2, StepFont
      <4> QED BY <3>6, <4>1 DEF Carried, HasFont, FontAt
    <3> QED BY <3>1, <3>2, <3>5, <3>6 DEF Reads
  <2> QED BY <2>2, <2>3
<1> QED BY <1>1, <1>2, <1>3, <1>4, <1>5 DEF Good
-----------------------------------------------------------------------------
(* The end of a player. *)

\* v is w with some of its players ended.
Hushed(w, v) ==
  /\ Shaped(v)
  /\ \A t \in Tables : Alike(t, w.caches[t], v.caches[t])
  /\ v.base = w.base /\ v.loads = w.loads /\ v.sounding = w.sounding
  /\ \A p \in Players : /\ v.players[p].seq = w.players[p].seq
                        /\ v.players[p].on => v.players[p] = w.players[p]

LEMMA AlikeTrans ==
  ASSUME NEW t, NEW b, NEW c, NEW d, Alike(t, b, c), Alike(t, c, d) PROVE Alike(t, b, d)
  BY DEF Alike

LEMMA HushedSelf ==
  ASSUME NEW w, Shaped(w), \A t \in Tables : w.caches[t] \in Cache(t) PROVE Hushed(w, w)
  BY AlikeSelf DEF Hushed

LEMMA HushedTrans ==
  ASSUME NEW u, NEW v, NEW w, Hushed(u, v), Hushed(v, w) PROVE Hushed(u, w)
<1>1. \A t \in Tables : Alike(t, u.caches[t], w.caches[t])
  BY AlikeTrans DEF Hushed
<1> QED BY <1>1 DEF Hushed

LEMMA LeftAlike ==
  ASSUME NEW t, NEW c \in Cache(t), NEW id \in Ids(t), NEW s \in Usable
  PROVE  Alike(t, c, Left(c, id, s))
  BY SetStatusAlike, AlikeSelf DEF Left

LEMMA SideAlike ==
  ASSUME NEW t, NEW c, NEW d, Alike(t, c, d), NEW side \in Sides
  PROVE  Alike(t, c, [d EXCEPT !.nextSide = side])
<1>1. d \in Cache(t)
  BY DEF Alike
<1>2. PICK e : e = [d EXCEPT !.nextSide = side]
  OBVIOUS
<1>3. /\ e \in Cache(t) /\ e.kept = d.kept /\ e.used = d.used /\ e.entry = d.entry /\ e.at = d.at
      /\ e.cur = d.cur /\ e.mem = d.mem /\ e.status = d.status
  BY <1>1, <1>2 DEF Cache
<1> QED BY <1>2, <1>3 DEF Alike

\* AudioSeq_SequencePlayerDisable.
LEMMA DisableHushed ==
  ASSUME NEW w, Shaped(w), \A t \in Tables : w.caches[t] \in Cache(t), NEW p \in Players
  PROVE  /\ Hushed(w, Disable(w, p))
         /\ w.players[p].seq # None => ~Disable(w, p).players[p].on
<1>1. CASE w.players[p].seq = None
  BY <1>1, HushedSelf DEF Disable
<1>2. CASE w.players[p].seq # None
  <2>1. PICK s : s = w.players[p].seq
    OBVIOUS
  <2>2. PICK f : f = SeqFont[s]
    OBVIOUS
  <2>3. s \in Seqs /\ f \in Fonts
    BY <1>2, <2>1, <2>2 DEF Shaped, Player, Fonts
  <2>4. PICK c : c = Left(w.caches["seq"], s, "DISCARDABLE")
    OBVIOUS
  <2>5. PICK d : d = Left(w.caches["font"], f, "MAYBE_DISCARDABLE")
    OBVIOUS
  <2>6. PICK side : side = IF d.entry[0] = f THEN 1 ELSE IF d.entry[1] = f THEN 0 ELSE d.nextSide
    OBVIOUS
  <2>7. PICK e : e = [d EXCEPT !.nextSide = side]
    OBVIOUS
  <2>8. PICK m : m = [w.players EXCEPT ![p] = [NoMusic EXCEPT !.seq = s]]
    OBVIOUS
  <2>9. PICK x : x = [t \in Tables |-> IF t = "seq" THEN c ELSE e]
    OBVIOUS
  <2>10. Disable(w, p) = [w EXCEPT !.players = m, !.caches = x]
    BY <1>2, <2>1, <2>2, <2>4, <2>5, <2>6, <2>7, <2>8, <2>9 DEF Disable
  <2>11. PICK v : v = Disable(w, p)
    OBVIOUS
  <2>12. v = World(x, w.base, w.loads, m, w.sounding)
    <3>1. w = World(w.caches, w.base, w.loads, w.players, w.sounding)
      BY DEF Shaped
    <3> QED BY ONLY <2>10, <2>11, <3>1 DEF World
  <2>13. /\ v.caches = x /\ v.base = w.base /\ v.loads = w.loads /\ v.players = m
         /\ v.sounding = w.sounding
    BY ONLY <2>12 DEF World
  <2>14. Alike("seq", w.caches["seq"], c)
    BY <2>3, <2>4, LeftAlike DEF Ids, Usable, Tables
  <2>15. Alike("font", w.caches["font"], d)
    BY <2>3, <2>5, LeftAlike DEF Ids, Usable, Tables
  <2>16. side \in Sides
    BY <2>6, <2>15 DEF Alike, Cache, Sides
  <2>17. Alike("font", w.caches["font"], e)
    BY <2>7, <2>15, <2>16, SideAlike
  <2>18. \A t \in Tables : Alike(t, w.caches[t], v.caches[t])
    BY <2>9, <2>13, <2>14, <2>17 DEF Tables
  <2>19. /\ m \in [Players -> Player] /\ m[p].seq = s /\ ~m[p].on
         /\ \A q \in Players \ {p} : m[q] = w.players[q]
    <3>1. w.players \in [Players -> Player]
      BY DEF Shaped
    <3>2. PICK n : n = [NoMusic EXCEPT !.seq = s]
      OBVIOUS
    <3>3. n \in Player /\ n.seq = s /\ ~n.on
      BY <2>3, <3>2 DEF Player, NoMusic, Places
    <3>4. m = [w.players EXCEPT ![p] = n]
      BY <2>8, <3>2
    <3> QED BY ONLY <3>1, <3>3, <3>4, p \in Players
  <2>20. Shaped(v)
    <3>1. x = [t \in Tables |-> x[t]]
      BY <2>9
    <3> QED BY <2>12, <2>13, <2>19, <3>1 DEF Shaped
  <2> QED BY <2>1, <2>11, <2>13, <2>18, <2>19, <2>20 DEF Hushed
<1> QED BY <1>1, <1>2

LEMMA HushedCaches ==
  ASSUME NEW w, NEW v, Hushed(w, v) PROVE Shaped(v) /\ \A t \in Tables : v.caches[t] \in Cache(t)
  BY DEF Hushed, Alike

LEMMA DisableIfHushed ==
  ASSUME NEW w, Shaped(w), \A t \in Tables : w.caches[t] \in Cache(t), NEW p \in Players, NEW seqs
  PROVE  /\ Hushed(w, DisableIf(w, p, seqs))
         /\ DisableIf(w, p, seqs).players[p].on =>
              w.players[p].seq \notin seqs \/ w.players[p].seq = None
  BY DisableHushed, HushedSelf DEF DisableIf

\* AudioHeap_DiscardSequence, for those who play.
LEMMA DiscardHushed ==
  ASSUME NEW w, Shaped(w), \A t \in Tables : w.caches[t] \in Cache(t), NEW seqs
  PROVE  Hushed(w, DiscardSequences(w, seqs))
<1>1. "bgm" \in Players /\ "fanfare" \in Players
  BY DEF Players
<1>2. PICK v : v = DisableIf(w, "bgm", seqs)
  OBVIOUS
<1>3. Hushed(w, v)
  BY <1>1, <1>2, DisableIfHushed
<1>4. Shaped(v) /\ \A t \in Tables : v.caches[t] \in Cache(t)
  BY <1>3, HushedCaches
<1>5. Hushed(v, DisableIf(v, "fanfare", seqs))
  BY <1>1, <1>4, DisableIfHushed
<1>6. DiscardSequences(w, seqs) = DisableIf(v, "fanfare", seqs)
  BY <1>2 DEF DiscardSequences
<1> QED BY <1>3, <1>5, <1>6, HushedTrans

\* To end players is a step of the world that brings nothing in.
LEMMA HushedStep ==
  ASSUME NEW w, Good(w), NEW v, Hushed(w, v)
  PROVE  WorldStep(w, v, {}, {}, {})
<1>1. CacheStep("font", FontCache(w), FontCache(v), {}, {})
  BY AlikeStep DEF Good, Hushed, FontCache, Tables
<1>2. CacheStep("seq", SeqCache(w), SeqCache(v), Seqs, {})
  BY AlikeStep DEF Good, Hushed, SeqCache, Tables
<1> QED BY <1>1, <1>2 DEF WorldStep, Hushed

LEMMA HushedGood ==
  ASSUME NEW w, Good(w), NEW v, Hushed(w, v)
  PROVE  Good(v)
  BY HushedStep, StepGood

LEMMA GoodCaches ==
  ASSUME NEW w, Good(w) PROVE Shaped(w) /\ \A t \in Tables : w.caches[t] \in Cache(t)
  BY DEF Good, Stored, Layout
-----------------------------------------------------------------------------
(* A load on the spot. *)

LEMMA FoundStatus ==
  ASSUME NEW t, NEW c, Stored(t, c), NEW id \in Ids(t), c.status[id] # "IN_PROGRESS"
  PROVE  IF Find(t, c, id) = NoPlace THEN c.status[id] = "NOT_LOADED" ELSE c.status[id] \in Usable
<1>1. c.status[id] \in Statuses /\ (c.status[id] = "NOT_LOADED" <=> Find(t, c, id) = NoPlace)
  BY DEF Stored, Layout, Cache
<1> QED BY <1>1 DEF Statuses, Usable

\* What is found is marked as complete, and the other side is due.
LEMMA FoundAlike ==
  ASSUME NEW t, NEW c, Stored(t, c), NEW id \in Ids(t), c.status[id] # "IN_PROGRESS",
         Find(t, c, id) # NoPlace
  PROVE  Alike(t, c, SetStatus(Found(c, id), id, "COMPLETE"))
<1>1. c \in Cache(t) /\ c.status[id] \in Usable
  BY FoundStatus DEF Stored, Layout
<1>2. PICK d : d = Found(c, id)
  OBVIOUS
<1>3. Alike(t, c, c)
  BY <1>1, AlikeSelf
<1>4. PICK side : side = IF c.entry[0] = id THEN 1 ELSE 0
  OBVIOUS
<1>5. side \in Sides
  BY <1>4 DEF Sides
<1>6. Alike(t, c, [c EXCEPT !.nextSide = side])
  BY <1>3, <1>5, SideAlike
<1>7. Alike(t, c, d)
  BY <1>2, <1>3, <1>4, <1>6 DEF Found
<1>8. d \in Cache(t) /\ d.status[id] \in Usable
  BY <1>1, <1>7 DEF Alike
<1>9. Alike(t, d, SetStatus(d, id, "COMPLETE"))
  BY <1>8, SetStatusAlike DEF Usable
<1> QED BY <1>2, <1>7, <1>9, AlikeTrans

LEMMA GivenPlace ==
  ASSUME NEW t \in Tables, NEW c, NEW d, NEW id \in Ids(t), NEW place, NEW gone,
         Gives(t, c, d, id, place, gone)
  PROVE  place \in Cells(t) /\ d \in Cache(t)
<1>1. Layout(t, d) /\ Find(t, d, id) = place /\ place # NoPlace
  BY DEF Gives
<1>2. place \in Nat /\ place + Size[id] <= KeptSize[t] + TempSize[t]
  BY <1>1, FoundInside
<1>3. KeptSize[t] \in Nat /\ TempSize[t] \in Nat /\ Size[id] \in Nat /\ Size[id] > 0
  BY SizeFacts
<1>4. place \in 0 .. KeptSize[t] + TempSize[t] - 1
  BY ONLY <1>2, <1>3
<1> QED BY <1>1, <1>4 DEF Cells, Layout

\* One cache is replaced and notes end.
LEMMA NotesFields ==
  ASSUME NEW w, Shaped(w), NEW t \in Tables, NEW c, NEW gone,
         NEW v, v = DiscardNotes(Put(w, t, c), gone)
  PROVE  /\ Shaped(v)
         /\ v.caches[t] = c /\ \A u \in Tables \ {t} : v.caches[u] = w.caches[u]
         /\ v.base = w.base /\ v.loads = w.loads /\ v.players = w.players
         /\ v.sounding = {n \in w.sounding : n[1] \notin gone}
<1>1. PICK u : u = Put(w, t, c)
  OBVIOUS
<1>2. /\ Shaped(u)
      /\ u.caches[t] = c /\ \A q \in Tables \ {t} : u.caches[q] = w.caches[q]
      /\ u.base = w.base /\ u.loads = w.loads /\ u.players = w.players /\ u.sounding = w.sounding
  BY ONLY <1>1, Shaped(w), t \in Tables, PutFields
<1>3. PICK x : x = {n \in w.sounding : n[1] \notin gone}
  OBVIOUS
<1>4. v = [u EXCEPT !.sounding = x]
  BY <1>1, <1>2, <1>3 DEF DiscardNotes
<1>5. v = World(u.caches, u.base, u.loads, u.players, x)
  <2>1. u = World(u.caches, u.base, u.loads, u.players, u.sounding)
    BY <1>2 DEF Shaped
  <2> QED BY ONLY <1>4, <2>1 DEF World
<1>6. /\ v.caches = u.caches /\ v.base = u.base /\ v.loads = u.loads /\ v.players = u.players
      /\ v.sounding = x
  BY ONLY <1>5 DEF World
<1>7. Shaped(v)
  BY <1>2, <1>3, <1>5, <1>6 DEF Shaped
<1> QED BY <1>2, <1>3, <1>6, <1>7

\* A font is loaded, and relocated.
Relocated(w, c, f, place) == [w EXCEPT !.caches["font"] = c, !.base = [@ EXCEPT ![f] = place]]

LEMMA FontFields ==
  ASSUME NEW w, Shaped(w), NEW c, NEW f \in Fonts, NEW place \in Places("font"),
         NEW v, v = Relocated(w, c, f, place)
  PROVE  /\ Shaped(v)
         /\ FontCache(v) = c /\ SeqCache(v) = SeqCache(w)
         /\ v.base[f] = place /\ \A g \in Fonts \ {f} : v.base[g] = w.base[g]
         /\ v.loads = w.loads /\ v.players = w.players /\ v.sounding = w.sounding
<1>1. PICK u : u = Put(w, "font", c)
  OBVIOUS
<1>2. "font" \in Tables /\ "seq" \in Tables \ {"font"}
  BY DEF Tables
<1>3. /\ Shaped(u)
      /\ u.caches["font"] = c /\ u.caches["seq"] = w.caches["seq"]
      /\ u.base = w.base /\ u.loads = w.loads /\ u.players = w.players /\ u.sounding = w.sounding
  <2>1. /\ Shaped(u)
        /\ u.caches["font"] = c /\ \A q \in Tables \ {"font"} : u.caches[q] = w.caches[q]
        /\ u.base = w.base /\ u.loads = w.loads /\ u.players = w.players /\ u.sounding = w.sounding
    BY ONLY <1>1, <1>2, Shaped(w), PutFields
  <2> QED BY <1>2, <2>1
<1>4. PICK x : x = [w.base EXCEPT ![f] = place]
  OBVIOUS
<1>5. v = [u EXCEPT !.base = x]
  BY <1>1, <1>4 DEF Put, Relocated
<1>6. v = World(u.caches, x, u.loads, u.players, u.sounding)
  <2>1. u = World(u.caches, u.base, u.loads, u.players, u.sounding)
    BY <1>3 DEF Shaped
  <2> QED BY ONLY <1>5, <2>1 DEF World
<1>7. /\ v.caches = u.caches /\ v.base = x /\ v.loads = u.loads /\ v.players = u.players
      /\ v.sounding = u.sounding
  BY ONLY <1>6 DEF World
<1>8. /\ x \in [Fonts -> Places("font")] /\ x[f] = place
      /\ \A g \in Fonts \ {f} : x[g] = w.base[g]
  BY <1>4 DEF Shaped
<1>9. Shaped(v)
  BY <1>3, <1>6, <1>7, <1>8 DEF Shaped
<1> QED BY <1>3, <1>7, <1>8, <1>9 DEF FontCache, SeqCache

\* The notes of the fonts that go end.
LEMMA NotesStopped ==
  ASSUME NEW w, Shaped(w), NEW r, NEW u, u = StopReaders(w, "font", r)
  PROVE  /\ Shaped(u)
         /\ FontCache(u) = r.cache /\ SeqCache(u) = SeqCache(w)
         /\ u.base = w.base /\ u.loads = w.loads /\ u.players = w.players
         /\ u.sounding \subseteq w.sounding /\ \A n \in u.sounding : n[1] \notin r.chosen \cup r.over
<1>1. "font" \in Tables /\ "seq" \in Tables \ {"font"}
  BY DEF Tables
<1>2. PICK b : b = r.cache
  OBVIOUS
<1>3. PICK gone : gone = r.chosen \cup r.over
  OBVIOUS
<1>4. u = DiscardNotes(Put(w, "font", b), gone)
  BY <1>2, <1>3 DEF StopReaders, Put
<1>5. /\ Shaped(u)
      /\ u.caches["font"] = b /\ \A q \in Tables \ {"font"} : u.caches[q] = w.caches[q]
      /\ u.base = w.base /\ u.loads = w.loads /\ u.players = w.players
      /\ u.sounding = {n \in w.sounding : n[1] \notin gone}
  BY ONLY <1>1, <1>4, Shaped(w), NotesFields
<1> QED BY <1>1, <1>2, <1>3, <1>5 DEF FontCache, SeqCache

\* Nothing is marked as on its way that was not.
NoneStarted(w, v) == \A f \in Fonts : FontCache(v).status[f] = "IN_PROGRESS" => FontCache(w).status[f] = "IN_PROGRESS"

LEMMA StepNoneStarted ==
  ASSUME NEW w, NEW v, NEW gone, NEW fonts, NEW seqs, WorldStep(w, v, gone, fonts, seqs),
         \A f \in fonts : FontCache(v).status[f] = "COMPLETE"
  PROVE  NoneStarted(w, v)
<1> SUFFICES ASSUME NEW f \in Fonts, FontCache(v).status[f] = "IN_PROGRESS"
             PROVE  FontCache(w).status[f] = "IN_PROGRESS"
  BY DEF NoneStarted
<1>1. f \notin fonts
  OBVIOUS
<1>2. Carried("font", FontCache(w), FontCache(v), f)
  BY <1>1, StepFont DEF Lost
<1> QED BY <1>2 DEF Carried, Usable

\* AudioLoad_SyncLoad of a font.
LEMMA SyncFontStep ==
  ASSUME NEW w, Good(w), NEW f \in Fonts, FontCache(w).status[f] # "IN_PROGRESS",
         NEW v, v = SyncLoad(w, "font", f)
  PROVE  /\ v.players = w.players
         /\ NoneStarted(w, v)
         /\ \E gone : \E fonts \in {{}, {f}} : WorldStep(w, v, gone, fonts, {})
<1>1. "font" \in Tables /\ "seq" \in Tables \ {"font"} /\ f \in Ids("font")
  BY DEF Tables, Ids
<1>2. PICK c : c = w.caches["font"]
  OBVIOUS
<1>3. Stored("font", c) /\ Stored("seq", w.caches["seq"]) /\ c = FontCache(w) /\ Shaped(w)
  BY <1>1, <1>2 DEF Good, FontCache
<1>4. ASSUME NEW gone, NEW new PROVE CacheStep("seq", SeqCache(w), SeqCache(w), gone, new)
  BY <1>3, AlikeSelf, AlikeStep DEF SeqCache, Stored, Layout
<1>5. PICK r : r = AllocCached("font", c, f, Busy(w, "font"))
  OBVIOUS
<1>6. PICK gone : gone = r.chosen \cup r.over
  OBVIOUS
<1>7. PICK b : b = r.cache
  OBVIOUS
<1>8. PICK place : place = r.place
  OBVIOUS
<1>9. PICK u : u = StopReaders(w, "font", r)
  OBVIOUS
<1>10. /\ Shaped(u)
       /\ FontCache(u) = b /\ SeqCache(u) = SeqCache(w)
       /\ u.base = w.base /\ u.loads = w.loads /\ u.players = w.players
       /\ u.sounding \subseteq w.sounding /\ \A n \in u.sounding : n[1] \notin gone
  <2>1. /\ Shaped(u)
        /\ FontCache(u) = r.cache /\ SeqCache(u) = SeqCache(w)
        /\ u.base = w.base /\ u.loads = w.loads /\ u.players = w.players
        /\ u.sounding \subseteq w.sounding /\ \A n \in u.sounding : n[1] \notin r.chosen \cup r.over
    <3>1. Shaped(w)
      BY ONLY <1>3
    <3> QED BY ONLY <1>9, <3>1, NotesStopped, ZenonT(60)
  <2> QED BY <1>6, <1>7, <2>1
<1>11. CASE Find("font", c, f) # NoPlace
  <2>1. PICK e : e = SetStatus(Found(c, f), f, "COMPLETE")
    OBVIOUS
  <2>2. Alike("font", c, e)
    BY <1>1, <1>3, <1>11, <2>1, FoundAlike
  <2>3. v = Put(w, "font", e)
    BY <1>2, <1>11, <2>1 DEF SyncLoad, Put
  <2>4. /\ Shaped(v)
        /\ FontCache(v) = e /\ SeqCache(v) = SeqCache(w)
        /\ v.base = w.base /\ v.loads = w.loads /\ v.players = w.players /\ v.sounding = w.sounding
    <3>1. /\ Shaped(v)
          /\ v.caches["font"] = e /\ \A q \in Tables \ {"font"} : v.caches[q] = w.caches[q]
          /\ v.base = w.base /\ v.loads = w.loads /\ v.players = w.players /\ v.sounding = w.sounding
      BY ONLY <1>1, <1>3, <2>3, PutFields
    <3> QED BY <1>1, <3>1 DEF FontCache, SeqCache
  <2>5. CacheStep("font", FontCache(w), FontCache(v), {}, {})
    BY <1>3, <2>2, <2>4, AlikeStep
  <2>6. WorldStep(w, v, {}, {}, {})
    BY <1>4, <2>4, <2>5 DEF WorldStep
  <2> QED BY <2>4, <2>6, StepNoneStarted
<1>12. CASE Find("font", c, f) = NoPlace /\ place = NoPlace
  <2>1. gone = {} /\ Alike("font", c, b)
    <3>1. \/ /\ r.place = NoPlace /\ r.chosen \cup r.over = {} /\ Alike("font", c, r.cache)
          \/ Gives("font", c, r.cache, f, r.place, r.chosen \cup r.over)
      BY ONLY <1>1, <1>3, <1>5, <1>12, AllocGives
    <3> QED BY <1>6, <1>7, <1>8, <1>12, <3>1 DEF Gives
  <2>2. v = u
    BY <1>2, <1>5, <1>8, <1>9, <1>12 DEF SyncLoad
  <2>3. /\ Shaped(v)
        /\ FontCache(v) = b /\ SeqCache(v) = SeqCache(w)
        /\ v.base = w.base /\ v.loads = w.loads /\ v.players = w.players /\ v.sounding \subseteq w.sounding
    BY <1>10, <2>2
  <2>4. CacheStep("font", FontCache(w), FontCache(v), {}, {})
    BY <1>3, <2>1, <2>3, AlikeStep
  <2>5. WorldStep(w, v, {}, {}, {})
    BY <1>4, <2>3, <2>4 DEF WorldStep
  <2> QED BY <2>3, <2>5, StepNoneStarted
<1>13. CASE Find("font", c, f) = NoPlace /\ place # NoPlace
  <2>1. Gives("font", c, b, f, place, gone)
    <3>1. \/ /\ r.place = NoPlace /\ r.chosen \cup r.over = {} /\ Alike("font", c, r.cache)
          \/ Gives("font", c, r.cache, f, r.place, r.chosen \cup r.over)
      BY ONLY <1>1, <1>3, <1>5, <1>13, AllocGives
    <3> QED BY <1>6, <1>7, <1>8, <1>13, <3>1
  <2>2. PICK d : d = Filled(b, f, place)
    OBVIOUS
  <2>3. PICK e : e = SetStatus(d, f, "COMPLETE")
    OBVIOUS
  <2>4. place \in Places("font") /\ d \in Cache("font")
    BY <1>1, <2>1, <2>2, GivenPlace, FilledFields DEF Places
  <2>5. c.status[f] = "NOT_LOADED"
    BY <1>1, <1>3, <1>13, FoundStatus
  <2>6. CacheStep("font", c, e, gone, {f}) /\ Find("font", e, f) = place /\ e.status[f] = "COMPLETE"
    BY ONLY <1>1, <1>3, <2>1, <2>2, <2>3, <2>5, FilledStep
  <2>7. v = Relocated(u, e, f, place)
    BY <1>2, <1>5, <1>8, <1>9, <1>10, <1>13, <2>2, <2>3 DEF SyncLoad, Relocated, FontCache
  <2>8. /\ Shaped(v)
        /\ FontCache(v) = e /\ SeqCache(v) = SeqCache(u)
        /\ v.base[f] = place /\ \A g \in Fonts \ {f} : v.base[g] = u.base[g]
        /\ v.loads = u.loads /\ v.players = u.players /\ v.sounding = u.sounding
    BY ONLY <1>10, <2>4, <2>7, f \in Fonts, FontFields
  <2>9. WorldStep(w, v, gone, {f}, {})
    <3>1. CacheStep("font", FontCache(w), FontCache(v), gone, {f})
      BY <1>3, <2>6, <2>8
    <3>2. CacheStep("seq", SeqCache(w), SeqCache(v), Seqs, {})
      BY <1>4, <1>10, <2>8
    <3>3. v.base[f] = FontAt(v, f)
      BY <2>6, <2>8 DEF FontAt
    <3> QED BY <1>10, <2>8, <3>1, <3>2, <3>3 DEF WorldStep
  <2>10. NoneStarted(w, v)
    BY <2>6, <2>8, <2>9, StepNoneStarted
  <2> QED BY <1>10, <2>8, <2>9, <2>10
<1> QED BY <1>11, <1>12, <1>13

\* The players of a sequence that goes end.
LEMMA PlayersStopped ==
  ASSUME NEW w, Shaped(w), w.caches["font"] \in Cache("font"), NEW r, r.cache \in Cache("seq"),
         NEW u, u = StopReaders(w, "seq", r)
  PROVE  /\ Shaped(u)
         /\ Alike("seq", r.cache, SeqCache(u)) /\ Alike("font", FontCache(w), FontCache(u))
         /\ u.base = w.base /\ u.loads = w.loads /\ u.sounding = w.sounding
         /\ \A p \in Players : /\ u.players[p].seq = w.players[p].seq
                               /\ u.players[p].on => u.players[p] = w.players[p]
<1>1. "seq" \in Tables /\ "font" \in Tables \ {"seq"} /\ Tables = {"seq", "font"}
  BY DEF Tables
<1>2. PICK b : b = r.cache
  OBVIOUS
<1>3. PICK x : x = Put(w, "seq", b)
  OBVIOUS
<1>4. /\ Shaped(x)
      /\ x.caches["seq"] = b /\ \A q \in Tables \ {"seq"} : x.caches[q] = w.caches[q]
      /\ x.base = w.base /\ x.loads = w.loads /\ x.players = w.players /\ x.sounding = w.sounding
  BY ONLY <1>1, <1>3, Shaped(w), PutFields
<1>5. u = DiscardSequences(x, r.over)
  BY <1>2, <1>3 DEF StopReaders, Put
<1>6. \A t \in Tables : x.caches[t] \in Cache(t)
  BY <1>1, <1>2, <1>4
<1>7. Hushed(x, u)
  BY <1>4, <1>5, <1>6, DiscardHushed
<1> QED BY <1>1, <1>2, <1>4, <1>7 DEF Hushed, SeqCache, FontCache

\* AudioLoad_SyncLoad of a sequence.
LEMMA SyncSeqStep ==
  ASSUME NEW w, Good(w), NEW s \in Seqs, NEW v, v = SyncLoad(w, "seq", s)
  PROVE  \E seqs \in {{}, {s}} : WorldStep(w, v, {}, {}, seqs)
<1>1. "seq" \in Tables /\ "font" \in Tables \ {"seq"} /\ s \in Ids("seq")
  BY DEF Tables, Ids
<1>2. PICK c : c = w.caches["seq"]
  OBVIOUS
<1>3. Stored("seq", c) /\ Stored("font", w.caches["font"]) /\ c = SeqCache(w) /\ Shaped(w)
  BY <1>1, <1>2 DEF Good, SeqCache
<1>4. c \in Cache("seq") /\ w.caches["font"] \in Cache("font") /\ c.status[s] # "IN_PROGRESS"
  BY <1>1, <1>3 DEF Stored, Layout
<1>5. PICK r : r = AllocCached("seq", c, s, Busy(w, "seq"))
  OBVIOUS
<1>6. PICK place : place = r.place
  OBVIOUS
<1>7. PICK u : u = StopReaders(w, "seq", r)
  OBVIOUS
<1>8. CASE Find("seq", c, s) # NoPlace
  <2>1. PICK e : e = SetStatus(Found(c, s), s, "COMPLETE")
    OBVIOUS
  <2>2. Alike("seq", c, e)
    BY <1>1, <1>3, <1>4, <1>8, <2>1, FoundAlike
  <2>3. v = Put(w, "seq", e)
    <3>1. v = [w EXCEPT !.caches["seq"] = e]
      BY <1>2, <1>8, <2>1 DEF SyncLoad
    <3> QED BY ONLY <3>1 DEF Put
  <2>4. /\ Shaped(v)
        /\ v.caches["seq"] = e /\ \A q \in Tables \ {"seq"} : v.caches[q] = w.caches[q]
        /\ v.base = w.base /\ v.loads = w.loads /\ v.players = w.players /\ v.sounding = w.sounding
    BY ONLY <1>1, <1>3, <2>3, PutFields
  <2>5. CacheStep("seq", SeqCache(w), SeqCache(v), Seqs, {})
    BY <1>3, <2>2, <2>4, AlikeStep DEF SeqCache
  <2>6. CacheStep("font", FontCache(w), FontCache(v), {}, {})
    BY <1>1, <1>3, <1>4, <2>4, AlikeSelf, AlikeStep DEF FontCache
  <2> QED BY <2>4, <2>5, <2>6 DEF WorldStep
<1>9. ASSUME Find("seq", c, s) = NoPlace, r.cache \in Cache("seq")
      PROVE  /\ Shaped(u)
             /\ Alike("seq", r.cache, SeqCache(u))
             /\ CacheStep("font", FontCache(w), FontCache(u), {}, {})
             /\ u.base = w.base /\ u.loads = w.loads /\ u.sounding = w.sounding
             /\ \A p \in Players : /\ u.players[p].seq = w.players[p].seq
                                   /\ u.players[p].on => u.players[p] = w.players[p]
  <2>1. /\ Shaped(u)
        /\ Alike("seq", r.cache, SeqCache(u)) /\ Alike("font", FontCache(w), FontCache(u))
        /\ u.base = w.base /\ u.loads = w.loads /\ u.sounding = w.sounding
        /\ \A p \in Players : /\ u.players[p].seq = w.players[p].seq
                              /\ u.players[p].on => u.players[p] = w.players[p]
    BY ONLY <1>3, <1>4, <1>7, <1>9, PlayersStopped
  <2>2. CacheStep("font", FontCache(w), FontCache(u), {}, {})
    BY <1>3, <2>1, AlikeStep DEF FontCache
  <2> QED BY <2>1, <2>2
<1>10. \/ /\ r.place = NoPlace /\ r.chosen \cup r.over = {} /\ Alike("seq", c, r.cache)
       \/ Gives("seq", c, r.cache, s, r.place, r.chosen \cup r.over)
       \/ Find("seq", c, s) # NoPlace
  BY ONLY <1>1, <1>3, <1>5, AllocGives
<1>11. CASE Find("seq", c, s) = NoPlace /\ place = NoPlace
  <2>1. Alike("seq", c, r.cache) /\ r.cache \in Cache("seq")
    BY <1>6, <1>10, <1>11 DEF Gives, Alike
  <2>2. v = u
    BY <1>2, <1>5, <1>6, <1>7, <1>11 DEF SyncLoad
  <2>3. Alike("seq", c, SeqCache(v))
    BY <1>9, <1>11, <2>1, <2>2, AlikeTrans
  <2>4. CacheStep("seq", SeqCache(w), SeqCache(v), Seqs, {})
    BY <1>3, <2>3, AlikeStep
  <2> QED BY <1>9, <1>11, <2>1, <2>2, <2>4 DEF WorldStep
<1>12. CASE Find("seq", c, s) = NoPlace /\ place # NoPlace
  <2>1. PICK gone : gone = r.chosen \cup r.over
    OBVIOUS
  <2>2. PICK b : b = r.cache
    OBVIOUS
  <2>3. Gives("seq", c, b, s, place, gone)
    BY <1>6, <1>10, <1>12, <2>1, <2>2
  <2>4. b \in Cache("seq")
    BY <1>1, <2>3, GivenPlace
  <2>5. PICK a : a = SeqCache(u)
    OBVIOUS
  <2>6. Gives("seq", c, a, s, place, gone)
    <3>1. Alike("seq", c, c) /\ Alike("seq", b, a)
      BY <1>4, <1>9, <1>12, <2>2, <2>4, <2>5, AlikeSelf
    <3> QED BY ONLY <1>1, <2>3, <3>1, AlikeGives
  <2>7. PICK e : e = SetStatus(Filled(a, s, place), s, "COMPLETE")
    OBVIOUS
  <2>8. c.status[s] = "NOT_LOADED"
    BY <1>1, <1>3, <1>4, <1>12, FoundStatus
  <2>9. CacheStep("seq", c, e, gone, {s}) /\ Find("seq", e, s) = place /\ e.status[s] = "COMPLETE"
    BY ONLY <1>1, <1>3, <2>6, <2>7, <2>8, FilledStep
  <2>10. v = Put(u, "seq", e)
    <3>1. v = [u EXCEPT !.caches["seq"] = e, !.base = u.base]
      BY <1>2, <1>5, <1>6, <1>7, <1>12, <2>5, <2>7 DEF SyncLoad, SeqCache
    <3>2. u = World(u.caches, u.base, u.loads, u.players, u.sounding)
      BY <1>9, <1>12, <2>2, <2>4 DEF Shaped
    <3> QED BY ONLY <3>1, <3>2 DEF Put, World
  <2>11. Shaped(u)
    BY <1>9, <1>12, <2>2, <2>4
  <2>12. /\ Shaped(v)
         /\ v.caches["seq"] = e /\ \A q \in Tables \ {"seq"} : v.caches[q] = u.caches[q]
         /\ v.base = u.base /\ v.loads = u.loads /\ v.players = u.players /\ v.sounding = u.sounding
    BY ONLY <1>1, <2>10, <2>11, PutFields
  <2>13. SeqCache(v) = e /\ FontCache(v) = FontCache(u)
    BY <1>1, <2>12 DEF SeqCache, FontCache
  <2>14. CacheStep("seq", SeqCache(w), SeqCache(v), Seqs, {s})
    <3>1. \A j \in Ids("seq") : j \in Seqs
      BY DEF Ids
    <3> QED BY <1>3, <2>9, <2>13, <3>1 DEF CacheStep
  <2>15. WorldStep(w, v, {}, {}, {s})
    BY <1>9, <1>12, <2>2, <2>4, <2>12, <2>13, <2>14 DEF WorldStep
  <2> QED BY <2>15
<1> QED BY <1>8, <1>11, <1>12
-----------------------------------------------------------------------------
(* A player begins. *)

LEMMA SyncFontGood ==
  ASSUME NEW w, Good(w), NEW f \in Fonts, FontCache(w).status[f] # "IN_PROGRESS",
         \A p \in Players : w.players[p].on /\ SeqFont[w.players[p].seq] = f => Stays(w, p),
         NEW v, v = SyncLoad(w, "font", f)
  PROVE  Good(v) /\ NoneStarted(w, v) /\ v.players = w.players
<1>1. /\ v.players = w.players
      /\ NoneStarted(w, v)
      /\ \E gone : \E fonts \in {{}, {f}} : WorldStep(w, v, gone, fonts, {})
  BY SyncFontStep
<1>2. PICK gone : \E fonts \in {{}, {f}} : WorldStep(w, v, gone, fonts, {})
  BY <1>1
<1>3. PICK fonts : fonts \in {{}, {f}} /\ WorldStep(w, v, gone, fonts, {})
  BY <1>2
<1>4. fonts \in SUBSET Fonts /\ \A g \in fonts : g = f
  BY <1>3
<1>5. \A p \in Players : v.players[p].on =>
        /\ w.players[p].seq \notin {}
        /\ SeqFont[w.players[p].seq] \in fonts => Stays(w, p)
  BY <1>1, <1>4
<1>6. \A i \in 1 .. NumLoads : w.loads[i].active => w.loads[i].font \notin fonts
  BY <1>4 DEF Good, Loading, Copies
<1>7. Good(v)
  BY <1>3, <1>4, <1>5, <1>6, StepGood
<1> QED BY <1>1, <1>7

LEMMA SyncSeqGood ==
  ASSUME NEW w, Good(w), NEW s \in Seqs,
         \A p \in Players : w.players[p].on => w.players[p].seq # s,
         NEW v, v = SyncLoad(w, "seq", s)
  PROVE  Good(v) /\ NoneStarted(w, v)
<1>1. PICK seqs : seqs \in {{}, {s}} /\ WorldStep(w, v, {}, {}, seqs)
  <2>1. \E seqs \in {{}, {s}} : WorldStep(w, v, {}, {}, seqs)
    BY SyncSeqStep
  <2> QED BY <2>1
<1>2. \A r \in seqs : r = s
  BY <1>1
<1>3. \A p \in Players : v.players[p].on =>
        /\ w.players[p].seq \notin seqs
        /\ SeqFont[w.players[p].seq] \in {} => Stays(w, p)
  <2> SUFFICES ASSUME NEW p \in Players, v.players[p].on PROVE w.players[p].seq \notin seqs
    OBVIOUS
  <2>1. v.players[p] = w.players[p]
    BY <1>1 DEF WorldStep
  <2> QED BY <1>2, <2>1
<1>4. Good(v)
  BY <1>1, <1>3, StepGood
<1>5. NoneStarted(w, v)
  BY <1>1, StepNoneStarted
<1> QED BY <1>4, <1>5

LEMMA HushedNoneStarted ==
  ASSUME NEW w, Good(w), NEW v, Hushed(w, v) PROVE NoneStarted(w, v)
  BY HushedStep, StepNoneStarted

LEMMA HushedStays ==
  ASSUME NEW w, Good(w), NEW v, Hushed(w, v), NEW p \in Players, Stays(w, p) PROVE Stays(v, p)
<1> SUFFICES ASSUME v.players[p].on, HasSeq(v, v.players[p].seq)
             PROVE  HasFont(v, SeqFont[v.players[p].seq])
  BY DEF Stays
<1>1. v.players[p] = w.players[p]
  BY DEF Hushed
<1>2. w.players[p].seq \in Seqs /\ SeqFont[w.players[p].seq] \in Fonts
  BY <1>1, FontOf, SeqOf DEF Good, Playing, Reads
<1>3. Alike("seq", SeqCache(w), SeqCache(v)) /\ Alike("font", FontCache(w), FontCache(v))
  BY DEF Hushed, Tables, SeqCache, FontCache
<1>4. HasSeq(w, w.players[p].seq)
  BY <1>1, <1>2, <1>3 DEF Alike, HasSeq, Ids
<1>5. HasFont(w, SeqFont[w.players[p].seq])
  BY <1>1, <1>4 DEF Stays
<1> QED BY <1>1, <1>2, <1>3, <1>5 DEF Alike, HasFont, Ids

LEMMA FindPlaces ==
  ASSUME NEW t \in Tables, NEW c, Layout(t, c), NEW i \in Ids(t) PROVE Find(t, c, i) \in Places(t)
<1>1. CASE Find(t, c, i) = NoPlace
  BY <1>1 DEF Places
<1>2. CASE Find(t, c, i) # NoPlace
  <2>1. PICK x : x = Find(t, c, i)
    OBVIOUS
  <2>2. x \in Nat /\ x + Size[i] <= KeptSize[t] + TempSize[t]
    BY <1>2, <2>1, FoundInside
  <2>3. KeptSize[t] \in Nat /\ TempSize[t] \in Nat /\ Size[i] \in Nat /\ Size[i] > 0
    BY SizeFacts
  <2>4. x \in 0 .. KeptSize[t] + TempSize[t] - 1
    BY ONLY <2>2, <2>3
  <2> QED BY <2>1, <2>4 DEF Places, Cells
<1> QED BY <1>1, <1>2

\* A player is set.
Seat(w, p, m) == [w EXCEPT !.players[p] = m]

LEMMA SeatFields ==
  ASSUME NEW w, Shaped(w), NEW p \in Players, NEW m \in Player, NEW v, v = Seat(w, p, m)
  PROVE  /\ Shaped(v)
         /\ v.caches = w.caches /\ v.base = w.base /\ v.loads = w.loads /\ v.sounding = w.sounding
         /\ v.players[p] = m /\ \A q \in Players \ {p} : v.players[q] = w.players[q]
<1>1. PICK x : x = [w.players EXCEPT ![p] = m]
  OBVIOUS
<1>2. v = [w EXCEPT !.players = x]
  BY <1>1 DEF Seat
<1>3. v = World(w.caches, w.base, w.loads, x, w.sounding)
  <2>1. w = World(w.caches, w.base, w.loads, w.players, w.sounding)
    BY DEF Shaped
  <2> QED BY ONLY <1>2, <2>1 DEF World
<1>4. /\ v.caches = w.caches /\ v.base = w.base /\ v.loads = w.loads /\ v.players = x
      /\ v.sounding = w.sounding
  BY ONLY <1>3 DEF World
<1>5. x \in [Players -> Player] /\ x[p] = m /\ \A q \in Players \ {p} : x[q] = w.players[q]
  BY <1>1 DEF Shaped
<1>6. Shaped(v)
  BY <1>3, <1>4, <1>5 DEF Shaped
<1> QED BY <1>4, <1>5, <1>6

\* The rest of the world does not look at the players.
LEMMA SeatGood ==
  ASSUME NEW w, Good(w), NEW p \in Players, NEW m \in Player, NEW v, v = Seat(w, p, m),
         m.seq \in Repertoire(p) \cup {None}, m.on => Reads(w, m)
  PROVE  Good(v) /\ FontCache(v) = FontCache(w)
<1>1. /\ Shaped(v)
      /\ v.caches = w.caches /\ v.base = w.base /\ v.loads = w.loads /\ v.sounding = w.sounding
      /\ v.players[p] = m /\ \A q \in Players \ {p} : v.players[q] = w.players[q]
  BY SeatFields DEF Good
<1>2. FontCache(v) = FontCache(w) /\ SeqCache(v) = SeqCache(w)
  BY <1>1 DEF FontCache, SeqCache
<1>3. \A t \in Tables : Stored(t, v.caches[t])
  BY <1>1 DEF Good
<1>4. Based(v)
  BY <1>1, <1>2 DEF Good, Based, HasFont, FontAt
<1>5. Loading(v)
  BY <1>1, <1>2 DEF Good, Loading, Copies, FontAt
<1>6. Ringing(v)
  BY <1>1, <1>2 DEF Good, Ringing, HasFont, FontAt
<1>7. Playing(v)
  <2>1. ASSUME NEW n, Reads(w, n) PROVE Reads(v, n)
    BY <1>2, <2>1 DEF Reads, HasSeq, HasFont, SeqAt, FontAt
  <2> QED BY <1>1, <2>1 DEF Good, Playing
<1> QED BY <1>1, <1>2, <1>3, <1>4, <1>5, <1>6, <1>7 DEF Good

\* AudioLoad_SyncInitSeqPlayerInternal.
LEMMA InitPlayerGood ==
  ASSUME NEW w, Good(w), NEW p \in Players, NEW s \in Repertoire(p),
         FontCache(w).status[SeqFont[s]] # "IN_PROGRESS",
         \A q \in Players : Stays(w, q),
         NEW v, v = InitPlayer(w, p, s)
  PROVE  Good(v) /\ NoneStarted(w, v)
<1>1. PICK f : f = SeqFont[s]
  OBVIOUS
<1>2. s \in Seqs /\ f \in Fonts /\ \A q \in Players \ {p} : s \notin Repertoire(q) \cup {None}
  <2>1. s \in Seqs /\ s # None
    BY CacheAssumptions DEF Repertoire, Seqs
  <2> QED BY <1>1, <2>1, FontOf, TableFacts DEF Repertoire, Players
<1>3. PICK x : x = Disable(w, p)
  OBVIOUS
<1>4. Hushed(w, x) /\ (w.players[p].seq # None => ~x.players[p].on)
  BY <1>3, GoodCaches, DisableHushed
<1>5. Good(x) /\ NoneStarted(w, x) /\ \A q \in Players : Stays(x, q)
  BY <1>4, HushedGood, HushedNoneStarted, HushedStays
<1>6. FontCache(x).status[f] # "IN_PROGRESS"
  BY <1>1, <1>2, <1>5 DEF NoneStarted
<1>7. ~x.players[p].on
  <2>1. x.players[p].on => x.players[p].seq # None
    BY <1>5 DEF Good, Playing, Reads
  <2>2. x.players[p].seq = w.players[p].seq
    BY <1>4 DEF Hushed
  <2> QED BY <1>4, <2>1, <2>2
<1>8. PICK y : y = SyncLoad(x, "font", f)
  OBVIOUS
<1>9. Good(y) /\ NoneStarted(x, y) /\ y.players = x.players
  BY <1>2, <1>5, <1>6, <1>8, SyncFontGood
<1>10. \A q \in Players : y.players[q].on => y.players[q].seq # s
  BY <1>2, <1>7, <1>9 DEF Good, Playing
<1>11. PICK z : z = SyncLoad(y, "seq", s)
  OBVIOUS
<1>12. Good(z) /\ NoneStarted(y, z)
  BY <1>2, <1>9, <1>10, <1>11, SyncSeqGood
<1>13. PICK m : m = [on |-> TRUE, seq |-> s, data |-> SeqAt(z, s), insts |-> NoPlace]
  OBVIOUS
<1>14. v = Seat(z, p, m)
  BY <1>1, <1>3, <1>8, <1>11, <1>13 DEF InitPlayer, Seat, SeqAt, SeqCache
<1>15. m.seq = s /\ m.on /\ m.data = SeqAt(z, s) /\ m.insts = NoPlace
  BY <1>13
<1>16. m \in Player
  <2>1. "seq" \in Tables /\ s \in Ids("seq")
    BY <1>2 DEF Tables, Ids
  <2>2. Layout("seq", SeqCache(z))
    BY <1>12, <2>1 DEF Good, SeqCache, Stored
  <2>3. SeqAt(z, s) \in Places("seq")
    BY <2>1, <2>2, FindPlaces DEF SeqAt
  <2>4. NoPlace \in Places("font")
    BY DEF Places
  <2> QED BY <1>2, <1>13, <2>3, <2>4 DEF Player
<1>17. Reads(z, m)
  <2>1. s # None
    BY <1>2, CacheAssumptions
  <2> QED BY <1>15, <2>1 DEF Reads
<1>18. Good(v) /\ FontCache(v) = FontCache(z)
  BY <1>12, <1>14, <1>15, <1>16, <1>17, SeatGood
<1> QED BY <1>5, <1>9, <1>12, <1>18 DEF NoneStarted
-----------------------------------------------------------------------------
(* A font is discarded, or loaded in steps. *)

\* AudioLoad_DiscardSeqFonts, the cache.
Dropped(c, f) ==
  LET entry == [s \in Sides |-> IF c.entry[s] = f /\ (s = 1 => c.entry[0] # f) THEN None ELSE c.entry[s]]
  IN  [SetStatus(c, f, "NOT_LOADED") EXCEPT !.entry = entry, !.kept[f] = NoPlace]

LEMMA DroppedFields ==
  ASSUME NEW c, Layout("font", c), NEW f \in Fonts, NEW d, d = Dropped(c, f)
  PROVE  /\ d \in Cache("font")
         /\ d.used = c.used /\ d.at = c.at /\ d.cur = c.cur /\ d.mem = c.mem
         /\ d.kept[f] = NoPlace /\ \A i \in Fonts \ {f} : d.kept[i] = c.kept[i]
         /\ d.status[f] = "NOT_LOADED" /\ \A i \in Fonts \ {f} : d.status[i] = c.status[i]
         /\ \A s \in Sides : d.entry[s] = IF c.entry[s] = f THEN None ELSE c.entry[s]
<1>1. c \in Cache("font") /\ Ids("font") = Fonts /\ f # None /\ f \in Ids("font")
  BY CacheAssumptions DEF Layout, Ids
<1>2. PICK b : b = SetStatus(c, f, "NOT_LOADED")
  OBVIOUS
<1>3. /\ b \in Cache("font")
      /\ b.kept = c.kept /\ b.used = c.used /\ b.entry = c.entry /\ b.at = c.at
      /\ b.cur = c.cur /\ b.mem = c.mem
      /\ b.status[f] = "NOT_LOADED" /\ \A i \in Fonts \ {f} : b.status[i] = c.status[i]
  <2>1. "NOT_LOADED" \in Statuses
    BY DEF Statuses
  <2> QED BY <1>1, <1>2, <2>1, SetStatusFields
<1>4. PICK entry : entry = [s \in Sides |-> IF c.entry[s] = f /\ (s = 1 => c.entry[0] # f) THEN None ELSE c.entry[s]]
  OBVIOUS
<1>5. PICK kept : kept = [c.kept EXCEPT ![f] = NoPlace]
  OBVIOUS
<1>6. d = [b EXCEPT !.entry = entry, !.kept = kept]
  BY <1>2, <1>3, <1>4, <1>5 DEF Dropped
<1>7. entry \in [Sides -> Fonts \cup {None}]
  BY <1>1, <1>4 DEF Cache
<1>8. \A s \in Sides : entry[s] = IF c.entry[s] = f THEN None ELSE c.entry[s]
  <2>1. c.entry[0] = f => c.entry[1] # f
    BY <1>1 DEF Layout
  <2> QED BY <1>4, <2>1 DEF Sides
<1>9. /\ kept \in [Fonts -> {NoPlace} \cup 0 .. KeptSize["font"]]
      /\ kept[f] = NoPlace /\ \A i \in Fonts \ {f} : kept[i] = c.kept[i]
  BY <1>1, <1>5 DEF Cache
<1>10. /\ d \in Cache("font")
       /\ d.kept = kept /\ d.entry = entry /\ d.used = b.used /\ d.at = b.at /\ d.cur = b.cur
       /\ d.mem = b.mem /\ d.status = b.status
  BY ONLY <1>1, <1>3, <1>6, <1>7, <1>9 DEF Cache
<1> QED BY <1>3, <1>8, <1>9, <1>10

LEMMA DroppedStep ==
  ASSUME NEW c, Stored("font", c), NEW f \in Fonts, c.status[f] # "IN_PROGRESS",
         NEW d, d = Dropped(c, f)
  PROVE  CacheStep("font", c, d, {f}, {})
<1>1. Layout("font", c) /\ Ids("font") = Fonts /\ "font" \in Tables /\ 0 \in Sides /\ 1 \in Sides
  BY DEF Stored, Ids, Tables, Sides
<1>2. /\ d \in Cache("font")
      /\ d.used = c.used /\ d.at = c.at /\ d.cur = c.cur /\ d.mem = c.mem
      /\ d.kept[f] = NoPlace /\ \A i \in Fonts \ {f} : d.kept[i] = c.kept[i]
      /\ d.status[f] = "NOT_LOADED" /\ \A i \in Fonts \ {f} : d.status[i] = c.status[i]
      /\ \A s \in Sides : d.entry[s] = IF c.entry[s] = f THEN None ELSE c.entry[s]
  BY <1>1, DroppedFields
<1>3. None \notin Fonts
  BY CacheAssumptions
<1>4. Layout("font", d)
  <2>1. \A i \in Fonts : d.kept[i] # NoPlace => i # f /\ d.kept[i] = c.kept[i]
    BY <1>2
  <2>2. \A s \in Sides : d.entry[s] # None => d.entry[s] # f /\ d.entry[s] = c.entry[s] /\ d.entry[s] \in Fonts
    BY <1>1, <1>2 DEF Cache
  <2>3. \A i \in Fonts : d.kept[i] # NoPlace => d.kept[i] + Size[i] <= d.used
    BY <1>1, <1>2, <2>1 DEF Layout
  <2>4. \A i, j \in Fonts : i # j /\ d.kept[i] # NoPlace /\ d.kept[j] # NoPlace =>
          d.kept[i] + Size[i] <= d.kept[j] \/ d.kept[j] + Size[j] <= d.kept[i]
    BY <1>1, <2>1 DEF Layout
  <2>5. \A s \in Sides : d.entry[s] # None => d.kept[d.entry[s]] = NoPlace
    BY <1>1, <1>2, <2>2 DEF Layout
  <2>6. /\ d.entry[0] # None => d.at[0] = 0 /\ d.cur = Size[d.entry[0]]
        /\ d.entry[1] # None => d.at[1] = TempSize["font"] - Size[d.entry[1]]
        /\ d.entry[0] # None /\ d.entry[1] # None =>
             d.entry[0] # d.entry[1] /\ Size[d.entry[0]] + Size[d.entry[1]] <= TempSize["font"]
    BY <1>1, <1>2, <2>2 DEF Layout
  <2> QED BY <1>1, <1>2, <2>3, <2>4, <2>5, <2>6 DEF Layout
<1>5. Find("font", d, f) = NoPlace
  BY <1>1, <1>2, <1>3 DEF Find
<1>6. ASSUME NEW i \in Fonts \ {f} PROVE Find("font", d, i) = Find("font", c, i)
  BY <1>1, <1>2, <1>3 DEF Find
<1>7. Lost("font", c, d, f)
  BY <1>2, <1>5 DEF Lost
<1>8. \A i \in Fonts \ {f} : Carried("font", c, d, i)
  BY <1>2, <1>6 DEF Carried
<1>9. Stored("font", d)
  <2>1. \A i \in Fonts : d.status[i] = "NOT_LOADED" <=> Find("font", d, i) = NoPlace
    BY <1>1, <1>2, <1>5, <1>6 DEF Stored
  <2>2. \A i \in Fonts : d.status[i] \in Usable => i # f /\ c.status[i] \in Usable
    BY <1>2 DEF Usable
  <2>3. \A i \in Fonts : d.status[i] \in Usable => Holds(d, i, Find("font", d, i), Size[i])
    BY <1>1, <1>2, <1>6, <2>2 DEF Stored, Holds
  <2> QED BY <1>1, <1>4, <2>1, <2>3 DEF Stored
<1> QED BY <1>1, <1>7, <1>8, <1>9 DEF CacheStep

LEMMA DiscardGood ==
  ASSUME NEW w, Good(w), NEW f \in Fonts, FontCache(w).status[f] # "IN_PROGRESS",
         NEW v, v = DiscardFont(w, f)
  PROVE  Good(v) /\ NoneStarted(w, v)
<1>1. "font" \in Tables /\ "seq" \in Tables \ {"font"}
  BY DEF Tables
<1>2. Stored("font", FontCache(w)) /\ Stored("seq", SeqCache(w)) /\ Shaped(w)
  BY <1>1 DEF Good, FontCache, SeqCache
<1>3. PICK d : d = Dropped(FontCache(w), f)
  OBVIOUS
<1>4. PICK gone : gone = {f}
  OBVIOUS
<1>5. v = DiscardNotes(Put(w, "font", d), gone)
  BY <1>3, <1>4 DEF DiscardFont, Dropped, FontCache, Put
<1>6. /\ Shaped(v)
      /\ v.caches["font"] = d /\ \A q \in Tables \ {"font"} : v.caches[q] = w.caches[q]
      /\ v.base = w.base /\ v.loads = w.loads /\ v.players = w.players
      /\ v.sounding = {n \in w.sounding : n[1] \notin gone}
  BY ONLY <1>1, <1>2, <1>5, NotesFields
<1>7. FontCache(v) = d /\ SeqCache(v) = SeqCache(w)
  BY <1>1, <1>6 DEF FontCache, SeqCache
<1>8. CacheStep("font", FontCache(w), d, gone, {})
  BY <1>2, <1>3, <1>4, DroppedStep
<1>9. CacheStep("seq", SeqCache(w), SeqCache(w), Seqs, {})
  BY <1>2, AlikeSelf, AlikeStep DEF Stored, Layout
<1>10. WorldStep(w, v, gone, {}, {})
  BY <1>6, <1>7, <1>8, <1>9 DEF WorldStep
<1> QED BY <1>10, StepGood, StepNoneStarted

\* The first load of all takes the first slot.
Started(f, place) == [active |-> TRUE, font |-> f, at |-> place, done |-> 0, delay |-> LoadDelay]

LEMMA StartFirst ==
  ASSUME NEW w, Shaped(w), \A i \in 1 .. NumLoads : ~w.loads[i].active, NEW f, NEW place
  PROVE  \E slot \in 1 .. NumLoads :
           StartLoad(w, f, place) = [w EXCEPT !.loads[slot] = Started(f, place)]
<1>1. PICK idle : idle = {i \in 1 .. NumLoads : ~w.loads[i].active}
  OBVIOUS
<1>2. 1 \in idle /\ idle \subseteq 1 .. NumLoads /\ \A j \in idle : 1 <= j
  BY <1>1, CacheAssumptions
<1>3. PICK slot : slot = CHOOSE i \in idle : \A j \in idle : i <= j
  OBVIOUS
<1>4. slot \in idle
  <2>1. \E i \in idle : \A j \in idle : i <= j
    BY <1>2
  <2> QED BY <1>3, <2>1
<1>5. idle # {}
  BY <1>2
<1>6. StartLoad(w, f, place) = [w EXCEPT !.loads[slot] = Started(f, place)]
  BY <1>1, <1>3, <1>5 DEF StartLoad, Started
<1> QED BY <1>2, <1>4, <1>6

Slot(w, slot, load) == [w EXCEPT !.loads[slot] = load]

LEMMA LoadsFields ==
  ASSUME NEW w, Shaped(w), NEW slot \in 1 .. NumLoads, NEW load \in Load,
         NEW v, v = Slot(w, slot, load)
  PROVE  /\ Shaped(v)
         /\ v.caches = w.caches /\ v.base = w.base /\ v.players = w.players /\ v.sounding = w.sounding
         /\ v.loads[slot] = load /\ \A i \in (1 .. NumLoads) \ {slot} : v.loads[i] = w.loads[i]
<1>1. PICK x : x = [w.loads EXCEPT ![slot] = load]
  OBVIOUS
<1>2. v = [w EXCEPT !.loads = x]
  BY <1>1 DEF Slot
<1>3. v = World(w.caches, w.base, x, w.players, w.sounding)
  <2>1. w = World(w.caches, w.base, w.loads, w.players, w.sounding)
    BY DEF Shaped
  <2> QED BY ONLY <1>2, <2>1 DEF World
<1>4. /\ v.caches = w.caches /\ v.base = w.base /\ v.loads = x /\ v.players = w.players
      /\ v.sounding = w.sounding
  BY ONLY <1>3 DEF World
<1>5. x \in [1 .. NumLoads -> Load] /\ x[slot] = load /\ \A i \in (1 .. NumLoads) \ {slot} : x[i] = w.loads[i]
  BY <1>1 DEF Shaped
<1>6. Shaped(v)
  BY <1>3, <1>4, <1>5 DEF Shaped
<1> QED BY <1>4, <1>5, <1>6

\* A slot is taken by a load that copies for itself, or left.
LEMMA SlotGood ==
  ASSUME NEW w, Good(w), NEW slot \in 1 .. NumLoads, NEW load \in Load,
         load.active => /\ Copies(w, load)
                        /\ \A i \in (1 .. NumLoads) \ {slot} : ~w.loads[i].active,
         NEW v, v = Slot(w, slot, load)
  PROVE  Good(v) /\ v.caches = w.caches /\ v.base = w.base /\ v.players = w.players
<1>1. Shaped(w)
  BY DEF Good
<1>2. /\ Shaped(v)
      /\ v.caches = w.caches /\ v.base = w.base /\ v.players = w.players /\ v.sounding = w.sounding
      /\ v.loads[slot] = load /\ \A i \in (1 .. NumLoads) \ {slot} : v.loads[i] = w.loads[i]
  BY <1>1, LoadsFields
<1>3. FontCache(v) = FontCache(w) /\ SeqCache(v) = SeqCache(w)
  BY <1>2 DEF FontCache, SeqCache
<1>4. \A t \in Tables : Stored(t, v.caches[t])
  BY <1>2 DEF Good
<1>5. Based(v)
  BY <1>2, <1>3 DEF Good, Based, HasFont, FontAt
<1>6. Loading(v)
  <2>1. ASSUME NEW l, Copies(w, l) PROVE Copies(v, l)
    BY <1>3, <2>1 DEF Copies, FontAt
  <2> QED BY <1>2, <2>1 DEF Good, Loading
<1>7. Ringing(v)
  BY <1>2, <1>3 DEF Good, Ringing, HasFont, FontAt
<1>8. Playing(v)
  <2>1. ASSUME NEW n, Reads(w, n) PROVE Reads(v, n)
    BY <1>3, <2>1 DEF Reads, HasSeq, HasFont, SeqAt, FontAt
  <2> QED BY <1>2, <2>1 DEF Good, Playing
<1> QED BY <1>2, <1>4, <1>5, <1>6, <1>7, <1>8 DEF Good

\* AudioLoad_AsyncLoadInner, with no font on its way.
LEMMA AsyncGood ==
  ASSUME NEW w, Good(w), NEW f \in Fonts, \A g \in Fonts : FontCache(w).status[g] # "IN_PROGRESS",
         NEW v, v = AsyncLoad(w, f)
  PROVE  /\ Good(v)
         /\ \A g \in Fonts : FontCache(v).status[g] = "IN_PROGRESS" => g = f /\ ~AnswersAtOnce(w, f)
<1>1. "font" \in Tables /\ "seq" \in Tables \ {"font"} /\ f \in Ids("font")
  BY DEF Tables, Ids
<1>2. PICK c : c = w.caches["font"]
  OBVIOUS
<1>3. /\ Stored("font", c) /\ Stored("seq", w.caches["seq"]) /\ c = FontCache(w) /\ Shaped(w)
      /\ c.status[f] # "IN_PROGRESS"
  BY <1>1, <1>2 DEF Good, FontCache
<1>4. CacheStep("seq", SeqCache(w), SeqCache(w), Seqs, {})
  BY <1>3, AlikeSelf, AlikeStep DEF SeqCache, Stored, Layout
<1>5. PICK r : r = AllocCached("font", c, f, Busy(w, "font"))
  OBVIOUS
<1>6. PICK gone : gone = r.chosen \cup r.over
  OBVIOUS
<1>7. PICK b : b = r.cache
  OBVIOUS
<1>8. PICK place : place = r.place
  OBVIOUS
<1>9. PICK u : u = StopReaders(w, "font", r)
  OBVIOUS
<1>10. /\ Shaped(u)
       /\ FontCache(u) = b /\ SeqCache(u) = SeqCache(w)
       /\ u.base = w.base /\ u.loads = w.loads /\ u.players = w.players
       /\ u.sounding \subseteq w.sounding /\ \A n \in u.sounding : n[1] \notin gone
  <2>1. /\ Shaped(u)
        /\ FontCache(u) = r.cache /\ SeqCache(u) = SeqCache(w)
        /\ u.base = w.base /\ u.loads = w.loads /\ u.players = w.players
        /\ u.sounding \subseteq w.sounding /\ \A n \in u.sounding : n[1] \notin r.chosen \cup r.over
    <3>1. Shaped(w)
      BY ONLY <1>3
    <3> QED BY ONLY <1>9, <3>1, NotesStopped, ZenonT(60)
  <2> QED BY <1>6, <1>7, <2>1
<1>11. CASE Find("font", c, f) # NoPlace
  <2>1. PICK e : e = SetStatus(Found(c, f), f, "COMPLETE")
    OBVIOUS
  <2>2. Alike("font", c, e)
    BY <1>1, <1>3, <1>11, <2>1, FoundAlike
  <2>3. v = Put(w, "font", e)
    BY <1>2, <1>3, <1>11, <2>1 DEF AsyncLoad, Put
  <2>4. /\ Shaped(v)
        /\ v.caches["font"] = e /\ \A q \in Tables \ {"font"} : v.caches[q] = w.caches[q]
        /\ v.base = w.base /\ v.loads = w.loads /\ v.players = w.players /\ v.sounding = w.sounding
    BY ONLY <1>1, <1>3, <2>3, PutFields
  <2>5. FontCache(v) = e /\ SeqCache(v) = SeqCache(w)
    BY <1>1, <2>4 DEF FontCache, SeqCache
  <2>6. CacheStep("font", FontCache(w), FontCache(v), {}, {})
    BY <1>3, <2>2, <2>5, AlikeStep
  <2>7. WorldStep(w, v, {}, {}, {})
    BY <1>4, <2>4, <2>5, <2>6 DEF WorldStep
  <2> QED BY <2>7, StepGood, StepNoneStarted DEF NoneStarted
<1>12. CASE Find("font", c, f) = NoPlace /\ place = NoPlace
  <2>1. gone = {} /\ Alike("font", c, b)
    <3>1. \/ /\ r.place = NoPlace /\ r.chosen \cup r.over = {} /\ Alike("font", c, r.cache)
          \/ Gives("font", c, r.cache, f, r.place, r.chosen \cup r.over)
      BY ONLY <1>1, <1>3, <1>5, <1>12, AllocGives
    <3> QED BY <1>6, <1>7, <1>8, <1>12, <3>1 DEF Gives
  <2>2. v = u
    BY <1>2, <1>3, <1>5, <1>8, <1>9, <1>12 DEF AsyncLoad
  <2>3. CacheStep("font", FontCache(w), FontCache(v), {}, {})
    BY <1>3, <1>10, <2>1, <2>2, AlikeStep
  <2>4. WorldStep(w, v, {}, {}, {})
    BY <1>4, <1>10, <2>2, <2>3 DEF WorldStep
  <2> QED BY <2>4, StepGood, StepNoneStarted DEF NoneStarted
<1>13. CASE Find("font", c, f) = NoPlace /\ place # NoPlace
  <2>1. Gives("font", c, b, f, place, gone)
    <3>1. \/ /\ r.place = NoPlace /\ r.chosen \cup r.over = {} /\ Alike("font", c, r.cache)
          \/ Gives("font", c, r.cache, f, r.place, r.chosen \cup r.over)
      BY ONLY <1>1, <1>3, <1>5, <1>13, AllocGives
    <3> QED BY <1>6, <1>7, <1>8, <1>13, <3>1
  <2>2. place \in Places("font") /\ b \in Cache("font")
    BY <1>1, <2>1, GivenPlace DEF Places
  <2>3. PICK e : e = SetStatus(b, f, "IN_PROGRESS")
    OBVIOUS
  <2>4. c.status[f] = "NOT_LOADED"
    BY <1>1, <1>3, <1>13, FoundStatus
  <2>5. CacheStep("font", c, e, gone, {f}) /\ Find("font", e, f) = place /\ e.status[f] = "IN_PROGRESS"
    BY ONLY <1>1, <1>3, <2>1, <2>2, <2>3, <2>4, PendingStep
  <2>6. PICK x : x = Put(u, "font", e)
    OBVIOUS
  <2>7. /\ Shaped(x)
        /\ x.caches["font"] = e /\ \A q \in Tables \ {"font"} : x.caches[q] = u.caches[q]
        /\ x.base = u.base /\ x.loads = u.loads /\ x.players = u.players /\ x.sounding = u.sounding
    BY ONLY <1>1, <1>10, <2>6, PutFields
  <2>8. FontCache(x) = e /\ SeqCache(x) = SeqCache(u)
    BY <1>1, <2>7 DEF FontCache, SeqCache
  <2>9. WorldStep(w, x, gone, {f}, {})
    <3>1. CacheStep("font", FontCache(w), FontCache(x), gone, {f})
      BY <1>3, <2>5, <2>8
    <3>2. CacheStep("seq", SeqCache(w), SeqCache(x), Seqs, {})
      BY <1>4, <1>10, <2>8
    <3>3. ~HasFont(x, f)
      BY <2>5, <2>8 DEF HasFont, Usable
    <3> QED BY <1>10, <2>7, <3>1, <3>2, <3>3 DEF WorldStep
  <2>10. Good(x)
    <3>1. PICK fonts : fonts = {f}
      OBVIOUS
    <3>2. fonts \in SUBSET Fonts /\ WorldStep(w, x, gone, fonts, {})
      BY <2>9, <3>1
    <3>3. \A p \in Players : x.players[p].on =>
            /\ w.players[p].seq \notin {}
            /\ SeqFont[w.players[p].seq] \in fonts =>
                 Stays(w, p) \/ ~HasFont(x, SeqFont[w.players[p].seq])
      BY <2>5, <2>8, <3>1 DEF HasFont, Usable
    <3>4. \A i \in 1 .. NumLoads : w.loads[i].active => w.loads[i].font \notin fonts
      BY <3>1 DEF Good, Loading, Copies
    <3> QED BY <3>2, <3>3, <3>4, StepGood
  <2>11. \A i \in 1 .. NumLoads : ~w.loads[i].active
    BY DEF Good, Loading, Copies
  <2>12. PICK slot \in 1 .. NumLoads : StartLoad(u, f, place) = [u EXCEPT !.loads[slot] = Started(f, place)]
    <3>1. \A i \in 1 .. NumLoads : ~u.loads[i].active
      BY <1>10, <2>11
    <3>2. \E slot \in 1 .. NumLoads : StartLoad(u, f, place) = [u EXCEPT !.loads[slot] = Started(f, place)]
      BY <1>10, <3>1, StartFirst
    <3> QED BY <3>2
  <2>13. v = [x EXCEPT !.loads[slot] = Started(f, place)]
    <3>1. v = [StartLoad(u, f, place) EXCEPT !.caches["font"] = SetStatus(@, f, "IN_PROGRESS")]
      BY <1>2, <1>3, <1>5, <1>8, <1>9, <1>13 DEF AsyncLoad
    <3>2. PICK ls : ls = [u.loads EXCEPT ![slot] = Started(f, place)]
      OBVIOUS
    <3>3. PICK y : y = StartLoad(u, f, place)
      OBVIOUS
    <3>4. u = World(u.caches, u.base, u.loads, u.players, u.sounding) /\ u.caches["font"] = b
      BY <1>10 DEF Shaped, FontCache
    <3>5. y = World(u.caches, u.base, ls, u.players, u.sounding)
      BY ONLY <2>12, <3>2, <3>3, <3>4 DEF World
    <3>6. v = [y EXCEPT !.caches = [u.caches EXCEPT !["font"] = e]]
      BY ONLY <2>3, <3>1, <3>3, <3>4, <3>5 DEF World
    <3>7. v = World([u.caches EXCEPT !["font"] = e], u.base, ls, u.players, u.sounding)
      BY ONLY <3>5, <3>6 DEF World
    <3>8. x = World([u.caches EXCEPT !["font"] = e], u.base, u.loads, u.players, u.sounding)
      BY ONLY <2>6, <3>4 DEF World, Put
    <3> QED BY ONLY <3>2, <3>7, <3>8 DEF World
  <2>14. Good(v) /\ FontCache(v) = FontCache(x)
    <3>1. PICK load : load = Started(f, place)
      OBVIOUS
    <3>2. load \in Load /\ load.font = f /\ load.at = place /\ load.done = 0
      BY <2>2, <3>1, CacheAssumptions DEF Started, Load
    <3>3. Copies(x, load)
      <4>1. Size[f] \in Nat /\ KeptSize["font"] \in Nat /\ TempSize["font"] \in Nat
        BY <1>1, SizeFacts
      <4>2. place \in Int
        BY <2>2, <4>1 DEF Places, Cells, NoPlace
      <4>3. load.done <= Size[f] /\ Holds(FontCache(x), load.font, load.at, load.done)
        BY <3>2, <4>1, <4>2 DEF Holds
      <4> QED BY <2>5, <2>8, <3>2, <4>3 DEF Copies, FontAt
    <3>4. \A i \in (1 .. NumLoads) \ {slot} : ~x.loads[i].active
      BY <1>10, <2>7, <2>11
    <3>5. v = Slot(x, slot, load)
      BY <2>13, <3>1 DEF Slot
    <3> QED BY <2>10, <3>2, <3>3, <3>4, <3>5, SlotGood DEF FontCache
  <2>15. ~AnswersAtOnce(w, f)
    BY <1>2, <1>13 DEF AnswersAtOnce
  <2>16. \A g \in Fonts \ {f} : FontCache(x).status[g] # "IN_PROGRESS"
    <3> SUFFICES ASSUME NEW g \in Fonts \ {f} PROVE FontCache(x).status[g] # "IN_PROGRESS"
      OBVIOUS
    <3>1. \/ Lost("font", FontCache(w), FontCache(x), g)
          \/ Carried("font", FontCache(w), FontCache(x), g)
      BY <2>9, StepFont
    <3> QED BY <3>1 DEF Lost, Carried, Usable
  <2> QED BY <2>14, <2>15, <2>16
<1> QED BY <1>11, <1>12, <1>13
-----------------------------------------------------------------------------
(* A load goes on, and ends. *)

LEMMA IdleIsLoad == IdleLoad \in Load /\ ~IdleLoad.active
  BY CacheAssumptions DEF IdleLoad, Load, Places

Written(c, a, f) == [c EXCEPT !.mem[a] = f]

\* A cell of f is written with its data.
LEMMA WrittenStored ==
  ASSUME NEW c, Stored("font", c), NEW f \in Fonts, c.status[f] = "IN_PROGRESS",
         NEW a \in Find("font", c, f) .. Find("font", c, f) + Size[f] - 1,
         NEW d, d = Written(c, a, f)
  PROVE  /\ Stored("font", d) /\ d.status = c.status
         /\ \A i : Find("font", d, i) = Find("font", c, i)
         /\ d.mem[a] = f /\ \A b \in Cells("font") \ {a} : d.mem[b] = c.mem[b]
<1>1. "font" \in Tables /\ Ids("font") = Fonts
  BY DEF Tables, Ids
<1>2. Layout("font", c) /\ c \in Cache("font") /\ Find("font", c, f) # NoPlace
  BY <1>1 DEF Stored, Layout
<1>3. a \in Cells("font")
  BY <1>1, <1>2, OwnCells
<1>4. PICK m : m = [c.mem EXCEPT ![a] = f]
  OBVIOUS
<1>5. /\ m \in [Cells("font") -> Fonts \cup {None}]
      /\ m[a] = f /\ \A b \in Cells("font") \ {a} : m[b] = c.mem[b]
  BY <1>1, <1>2, <1>3, <1>4 DEF Cache
<1>6. d = [c EXCEPT !.mem = m]
  BY <1>4 DEF Written
<1>7. /\ d \in Cache("font")
      /\ d.kept = c.kept /\ d.used = c.used /\ d.entry = c.entry /\ d.at = c.at /\ d.cur = c.cur
      /\ d.status = c.status /\ d.mem = m
  BY ONLY <1>1, <1>2, <1>5, <1>6 DEF Cache
<1>8. Layout("font", d)
  BY <1>2, <1>7, SameLayout
<1>9. \A i : Find("font", d, i) = Find("font", c, i)
  BY <1>7, SameFind
<1>10. \A i \in Fonts : d.status[i] \in Usable => Holds(d, i, Find("font", d, i), Size[i])
  <2> SUFFICES ASSUME NEW i \in Fonts, d.status[i] \in Usable,
                      NEW b \in Find("font", c, i) .. Find("font", c, i) + Size[i] - 1
               PROVE  m[b] = i
    BY <1>7, <1>9 DEF Holds
  <2>1. i # f /\ Find("font", c, i) # NoPlace
    BY <1>1, <1>7 DEF Stored, Usable
  <2>2. b \in Cells("font")
    BY <1>1, <1>2, <2>1, OwnCells
  <2>3. a \notin Find("font", c, i) .. Find("font", c, i) + Size[i] - 1
    <3>1. f \in Ids("font") \ {i} /\ i \in Ids("font")
      BY <1>1, <2>1
    <3> QED BY <1>1, <1>2, <2>1, <3>1, OtherCells
  <2>4. c.mem[b] = i
    BY <1>1, <1>7 DEF Stored, Holds
  <2> QED BY <1>5, <2>2, <2>3, <2>4
<1>11. Stored("font", d)
  BY <1>1, <1>7, <1>8, <1>9, <1>10 DEF Stored
<1> QED BY <1>5, <1>7, <1>9, <1>11

\* AudioLoad_ProcessAsyncLoad copies a chunk.
LEMMA ChunkGood ==
  ASSUME NEW w, Good(w), NEW slot \in 1 .. NumLoads, NEW load, load = w.loads[slot],
         load.active, load.done < Size[load.font],
         NEW x, x = Put(w, "font", Written(FontCache(w), load.at + load.done, load.font)),
         NEW next \in Load, next.font = load.font, next.at = load.at, next.done = load.done + 1,
         NEW v, v = Slot(x, slot, next)
  PROVE  Good(v) /\ v.players = w.players /\ v.caches = x.caches /\ FontCache(v).status = FontCache(w).status
         /\ SeqCache(v) = SeqCache(w)
<1>1. "font" \in Tables /\ "seq" \in Tables \ {"font"} /\ Tables = {"font", "seq"}
  BY DEF Tables
<1>2. PICK f : f = load.font
  OBVIOUS
<1>3. Copies(w, load) /\ f \in Fonts /\ load \in Load
  BY <1>2 DEF Good, Loading, Copies, Shaped
<1>4. PICK c : c = FontCache(w)
  OBVIOUS
<1>5. Stored("font", c) /\ c.status[f] = "IN_PROGRESS" /\ load.at = Find("font", c, f) /\ Shaped(w)
  BY <1>1, <1>2, <1>3, <1>4 DEF Good, FontCache, Copies, FontAt
<1>6. /\ load.at \in Nat /\ load.done \in Nat /\ Size[f] \in Nat
      /\ load.at + Size[f] <= KeptSize["font"] + TempSize["font"]
      /\ KeptSize["font"] \in Nat /\ TempSize["font"] \in Nat
  <2>1. Find("font", c, f) # NoPlace /\ f \in Ids("font") /\ Layout("font", c)
    BY <1>3, <1>5 DEF Stored, Ids
  <2> QED BY <1>1, <1>3, <1>5, <2>1, FoundInside, SizeFacts DEF Load
<1>7. PICK at : at = load.at
  OBVIOUS
<1>8. PICK done : done = load.done
  OBVIOUS
<1>9. PICK a : a = at + done
  OBVIOUS
<1>10. /\ a \in at .. at + Size[f] - 1 /\ done + 1 <= Size[f]
       /\ \A b : b \in at .. at + (done + 1) - 1 => b = a \/ b \in at .. at + done - 1
       /\ \A b : b \in at .. at + (done + 1) - 1 => b \in 0 .. KeptSize["font"] + TempSize["font"] - 1
  <2>1. done < Size[f] /\ at \in Nat /\ done \in Nat /\ at + Size[f] <= KeptSize["font"] + TempSize["font"]
    BY <1>2, <1>6, <1>7, <1>8
  <2> QED BY ONLY <1>6, <1>9, <2>1
<1>11. PICK d : d = Written(c, a, f)
  OBVIOUS
<1>12. /\ Stored("font", d) /\ d.status = c.status
       /\ \A i : Find("font", d, i) = Find("font", c, i)
       /\ d.mem[a] = f /\ \A b \in Cells("font") \ {a} : d.mem[b] = c.mem[b]
  BY <1>3, <1>5, <1>7, <1>10, <1>11, WrittenStored
<1>13. x = Put(w, "font", d)
  BY <1>2, <1>4, <1>7, <1>8, <1>9, <1>11
<1>14. /\ Shaped(x)
       /\ x.caches["font"] = d /\ \A q \in Tables \ {"font"} : x.caches[q] = w.caches[q]
       /\ x.base = w.base /\ x.loads = w.loads /\ x.players = w.players /\ x.sounding = w.sounding
  BY ONLY <1>1, <1>5, <1>13, PutFields
<1>15. FontCache(x) = d /\ SeqCache(x) = SeqCache(w)
  BY <1>1, <1>14 DEF FontCache, SeqCache
<1>16. \A g : (HasFont(x, g) <=> HasFont(w, g)) /\ FontAt(x, g) = FontAt(w, g)
  BY <1>4, <1>12, <1>15 DEF HasFont, FontAt
<1>17. \A t \in Tables : Stored(t, x.caches[t])
  <2>1. \A t \in Tables : Stored(t, w.caches[t])
    BY DEF Good
  <2>2. Stored("font", x.caches["font"])
    BY ONLY <1>12, <1>14
  <2> QED BY ONLY <1>14, <2>1, <2>2
<1>18. Holds(d, f, at, done + 1)
  <2>1. Holds(c, f, at, done)
    BY <1>2, <1>3, <1>4, <1>7, <1>8 DEF Copies
  <2> SUFFICES ASSUME NEW b \in at .. at + (done + 1) - 1 PROVE d.mem[b] = f
    BY DEF Holds
  <2>2. b \in Cells("font")
    BY <1>10 DEF Cells
  <2>3. b = a \/ b \in at .. at + done - 1
    BY <1>10
  <2> QED BY <1>12, <2>1, <2>2, <2>3 DEF Holds
<1>19. Copies(x, load) /\ Copies(x, next)
  <2>1. Holds(d, f, at, done)
    <3>1. \A b \in at .. at + done - 1 : b \in at .. at + (done + 1) - 1
      <4>1. at \in Nat /\ done \in Nat
        BY <1>6, <1>7, <1>8
      <4> QED BY ONLY <4>1
    <3> QED BY <1>18, <3>1 DEF Holds
  <2>2. FontCache(x).status[f] = "IN_PROGRESS" /\ FontAt(x, f) = at
    BY <1>5, <1>7, <1>12, <1>15 DEF FontAt
  <2>3. load.done <= Size[f]
    BY <1>2, <1>3 DEF Copies
  <2> QED BY <1>2, <1>3, <1>7, <1>8, <1>10, <1>15, <1>18, <2>1, <2>2, <2>3 DEF Copies
<1>20. Good(x)
  <2>1. Based(x)
    <3>1. Based(w) /\ x.base = w.base
      BY <1>14 DEF Good
    <3> QED BY ONLY <1>16, <3>1 DEF Based
  <2>2. Loading(x)
    BY <1>14, <1>19 DEF Good, Loading
  <2>3. Ringing(x)
    <3>1. Ringing(w) /\ x.sounding = w.sounding
      BY <1>14 DEF Good
    <3> QED BY ONLY <1>16, <3>1 DEF Ringing
  <2>4. Playing(x)
    <3>1. ASSUME NEW n, Reads(w, n) PROVE Reads(x, n)
      BY <1>15, <1>16, <3>1 DEF Reads, HasSeq, SeqAt
    <3> QED BY <1>14, <3>1 DEF Good, Playing
  <2> QED BY <1>14, <1>17, <2>1, <2>2, <2>3, <2>4 DEF Good
<1>21. \A i \in (1 .. NumLoads) \ {slot} : ~x.loads[i].active
  BY <1>14 DEF Good, Loading
<1>22. Good(v) /\ v.caches = x.caches /\ v.base = x.base /\ v.players = x.players
  <2>1. next.active => /\ Copies(x, next)
                       /\ \A i \in (1 .. NumLoads) \ {slot} : ~x.loads[i].active
    BY ONLY <1>19, <1>21
  <2> QED BY ONLY slot \in 1 .. NumLoads, next \in Load, v = Slot(x, slot, next), <1>20, <2>1, SlotGood
<1>23. FontCache(v) = FontCache(x) /\ SeqCache(v) = SeqCache(x)
  BY ONLY <1>22 DEF FontCache, SeqCache
<1> QED BY ONLY <1>4, <1>12, <1>14, <1>15, <1>22, <1>23

\* AudioLoad_FinishAsyncLoad: the font can be used.
LEMMA CompleteGood ==
  ASSUME NEW w, Good(w), NEW slot \in 1 .. NumLoads, NEW load, load = w.loads[slot],
         load.active, load.done = Size[load.font],
         \A p \in Players : Stays(w, p),
         NEW x, x = Slot(w, slot, IdleLoad),
         NEW v, v = Relocated(x, SetStatus(FontCache(w), load.font, "COMPLETE"), load.font, load.at)
  PROVE  /\ Good(v) /\ \A p \in Players : Stays(v, p)
         /\ \A g \in Fonts : FontCache(v).status[g] = "IN_PROGRESS" =>
              FontCache(w).status[g] = "IN_PROGRESS" /\ g # load.font
<1>1. "font" \in Tables /\ Ids("font") = Fonts
  BY DEF Tables, Ids
<1>2. PICK f : f = load.font
  OBVIOUS
<1>3. Copies(w, load) /\ f \in Fonts /\ load \in Load
  BY <1>2 DEF Good, Loading, Copies, Shaped
<1>4. PICK c : c = FontCache(w)
  OBVIOUS
<1>5. PICK at : at = load.at
  OBVIOUS
<1>6. /\ Stored("font", c) /\ Layout("font", c) /\ c \in Cache("font") /\ c.status[f] = "IN_PROGRESS"
      /\ at = Find("font", c, f) /\ at \in Places("font") /\ Holds(c, f, at, Size[f])
  <2>1. Stored("font", c)
    BY ONLY Good(w), <1>1, <1>4 DEF Good, FontCache
  <2>2. Layout("font", c) /\ c \in Cache("font")
    BY ONLY <2>1 DEF Stored, Layout
  <2>3. /\ c.status[f] = "IN_PROGRESS" /\ at = Find("font", c, f)
        /\ Holds(c, f, at, load.done)
    BY ONLY <1>2, <1>3, <1>4, <1>5 DEF Copies, FontAt
  <2>4. at \in Places("font")
    BY ONLY <1>3, <1>5 DEF Load
  <2> QED BY <1>2, <2>1, <2>2, <2>3, <2>4
<1>7. Good(x) /\ x.caches = w.caches /\ x.base = w.base /\ x.players = w.players
  BY IdleIsLoad, SlotGood
<1>8. \A i \in 1 .. NumLoads : ~x.loads[i].active
  <2>1. /\ x.loads[slot] = IdleLoad /\ \A i \in (1 .. NumLoads) \ {slot} : x.loads[i] = w.loads[i]
    BY IdleIsLoad, LoadsFields DEF Good
  <2> QED BY <2>1, IdleIsLoad DEF Good, Loading
<1>9. FontCache(x) = c /\ SeqCache(x) = SeqCache(w)
  BY <1>4, <1>7 DEF FontCache, SeqCache
<1>10. PICK e : e = SetStatus(c, f, "COMPLETE")
  OBVIOUS
<1>11. v = Relocated(x, e, f, at)
  BY <1>2, <1>4, <1>5, <1>10
<1>12. /\ e \in Cache("font")
       /\ e.kept = c.kept /\ e.used = c.used /\ e.entry = c.entry /\ e.at = c.at
       /\ e.cur = c.cur /\ e.mem = c.mem
       /\ e.status[f] = "COMPLETE" /\ \A j \in Fonts \ {f} : e.status[j] = c.status[j]
  <2>1. "COMPLETE" \in Statuses
    BY DEF Statuses
  <2> QED BY <1>1, <1>3, <1>6, <1>10, <2>1, SetStatusFields
<1>13. Layout("font", e) /\ \A i : Find("font", e, i) = Find("font", c, i)
  BY <1>6, <1>12, SameLayout, SameFind
<1>14. Stored("font", e)
  <2>1. \A i \in Fonts : e.status[i] = "NOT_LOADED" <=> Find("font", e, i) = NoPlace
    BY <1>1, <1>6, <1>12, <1>13 DEF Stored
  <2>2. \A i \in Fonts : e.status[i] \in Usable => Holds(e, i, Find("font", e, i), Size[i])
    BY <1>1, <1>6, <1>12, <1>13 DEF Stored, Holds
  <2> QED BY <1>1, <1>13, <2>1, <2>2 DEF Stored
<1>15. CacheStep("font", c, e, {}, {f})
  <2>1. Gained(c, e, f)
    BY <1>6, <1>12 DEF Gained, Usable
  <2>2. \A i \in Fonts \ {f} : Carried("font", c, e, i)
    BY <1>12, <1>13 DEF Carried
  <2> QED BY <1>1, <1>14, <2>1, <2>2 DEF CacheStep
<1>16. /\ Shaped(v)
       /\ FontCache(v) = e /\ SeqCache(v) = SeqCache(x)
       /\ v.base[f] = at /\ \A g \in Fonts \ {f} : v.base[g] = x.base[g]
       /\ v.loads = x.loads /\ v.players = x.players /\ v.sounding = x.sounding
  <2>1. Shaped(x)
    BY <1>7 DEF Good
  <2> QED BY ONLY <1>3, <1>6, <1>11, <2>1, FontFields
<1>17. WorldStep(x, v, {}, {f}, {})
  <2>1. CacheStep("font", FontCache(x), FontCache(v), {}, {f})
    BY <1>9, <1>15, <1>16
  <2>2. CacheStep("seq", SeqCache(x), SeqCache(v), Seqs, {})
    <3>1. Stored("seq", SeqCache(x))
      BY <1>7 DEF Good, SeqCache, Tables
    <3> QED BY <1>16, <3>1, AlikeSelf, AlikeStep DEF Stored, Layout
  <2>3. v.base[f] = FontAt(v, f)
    BY ONLY <1>6, <1>13, <1>16 DEF FontAt
  <2> QED BY <1>16, <2>1, <2>2, <2>3 DEF WorldStep
<1>18. \A p \in Players : Stays(x, p)
  BY <1>7, <1>9, <1>4 DEF Stays, HasSeq, HasFont
<1>19. Good(v)
  <2>1. PICK fonts : fonts = {f}
    OBVIOUS
  <2>2. fonts \in SUBSET Fonts /\ WorldStep(x, v, {}, fonts, {})
    BY <1>3, <1>17, <2>1
  <2>3. \A p \in Players : v.players[p].on =>
          /\ x.players[p].seq \notin {}
          /\ SeqFont[x.players[p].seq] \in fonts =>
               Stays(x, p) \/ ~HasFont(v, SeqFont[x.players[p].seq])
    BY <1>18
  <2>4. \A i \in 1 .. NumLoads : x.loads[i].active => x.loads[i].font \notin fonts
    BY ONLY <1>8
  <2> QED BY ONLY <1>7, <2>2, <2>3, <2>4, StepGood
<1>20. ASSUME NEW p \in Players PROVE Stays(v, p)
  <2> SUFFICES ASSUME v.players[p].on, HasSeq(v, v.players[p].seq)
               PROVE  HasFont(v, SeqFont[v.players[p].seq])
    BY DEF Stays
  <2>1. w.players[p] = v.players[p] /\ HasSeq(w, v.players[p].seq)
    <3>1. w.players = v.players /\ SeqCache(v) = SeqCache(w)
      BY ONLY <1>7, <1>9, <1>16
    <3> QED BY ONLY HasSeq(v, v.players[p].seq), <3>1 DEF HasSeq
  <2>2. HasFont(w, SeqFont[v.players[p].seq])
    BY <2>1 DEF Stays
  <2>3. SeqFont[v.players[p].seq] \in Fonts
    BY <1>19, FontOf, SeqOf DEF Good, Playing, Reads
  <2>4. PICK g : g = SeqFont[v.players[p].seq]
    OBVIOUS
  <2>5. g \in Fonts /\ c.status[g] \in Usable /\ FontCache(v).status = e.status
    BY <1>4, <1>16, <2>2, <2>3, <2>4 DEF HasFont
  <2>6. e.status[g] \in Usable
    BY ONLY <1>12, <2>5 DEF Usable
  <2> QED BY <2>4, <2>5, <2>6 DEF HasFont
<1>21. \A g \in Fonts : FontCache(v).status[g] = "IN_PROGRESS" =>
         FontCache(w).status[g] = "IN_PROGRESS" /\ g # f
  <2>1. FontCache(v) = e /\ FontCache(w) = c
    BY ONLY <1>4, <1>16
  <2> QED BY ONLY <1>12, <2>1
<1> QED BY <1>2, <1>19, <1>20, <1>21
-----------------------------------------------------------------------------
(* The heap is set up; a player reads; a note ends. *)

LEMMA EmptyStored == ASSUME NEW t \in Tables PROVE Stored(t, EmptyCache(t))
<1>1. PICK c : c = EmptyCache(t)
  OBVIOUS
<1>2. /\ KeptSize[t] \in Nat /\ TempSize[t] \in Nat
  BY SizeFacts
<1>3. /\ c.status = [i \in Ids(t) |-> "NOT_LOADED"] /\ c.kept = [i \in Ids(t) |-> NoPlace]
      /\ c.used = 0 /\ c.nextSide = 0 /\ c.entry = [s \in Sides |-> None]
      /\ c.at = [s \in Sides |-> IF s = 0 THEN 0 ELSE TempSize[t]] /\ c.cur = 0
      /\ c.mem = [a \in Cells(t) |-> None]
  BY <1>1 DEF EmptyCache
<1>4. c \in Cache(t)
  <2>1. c = [status |-> c.status, kept |-> c.kept, used |-> c.used, nextSide |-> c.nextSide,
             entry |-> c.entry, at |-> c.at, cur |-> c.cur, mem |-> c.mem]
    BY <1>1 DEF EmptyCache
  <2>2. /\ c.status \in [Ids(t) -> Statuses]
        /\ c.kept \in [Ids(t) -> {NoPlace} \cup 0 .. KeptSize[t]]
        /\ c.mem \in [Cells(t) -> Ids(t) \cup {None}]
    BY <1>3 DEF Statuses
  <2>3. /\ c.used \in 0 .. KeptSize[t] /\ c.cur \in 0 .. TempSize[t] /\ c.nextSide \in Sides
        /\ c.entry \in [Sides -> Ids(t) \cup {None}] /\ c.at \in [Sides -> 0 .. TempSize[t]]
    BY <1>2, <1>3 DEF Sides
  <2> QED BY ONLY <2>1, <2>2, <2>3 DEF Cache
<1>5. \A s \in Sides : c.entry[s] = None
  BY <1>3
<1>6. \A i \in Ids(t) : c.kept[i] = NoPlace /\ c.status[i] = "NOT_LOADED"
  BY <1>3
<1>7. Layout(t, c)
  BY <1>4, <1>5, <1>6 DEF Layout, Sides
<1>8. \A i \in Ids(t) : Find(t, c, i) = NoPlace
  <2>1. \A i \in Ids(t) : i # None
    BY SizeFacts
  <2> QED BY <1>5, <1>6, <2>1 DEF Find, Sides
<1>9. Stored(t, c)
  BY <1>6, <1>7, <1>8 DEF Stored, Usable
<1> QED BY <1>1, <1>9

\* With empty caches, no load and no note, all is well.
LEMMA EmptyGood ==
  ASSUME NEW v, Shaped(v), v.caches = [t \in Tables |-> EmptyCache(t)],
         \A i \in 1 .. NumLoads : ~v.loads[i].active, v.sounding = {},
         \A p \in Players : /\ v.players[p].seq \in Repertoire(p) \cup {None}
                            /\ v.players[p].on => v.players[p].seq # None
  PROVE  /\ Good(v) /\ \A p \in Players : Stays(v, p)
         /\ \A f \in Fonts : FontCache(v).status[f] # "IN_PROGRESS"
<1>1. \A t \in Tables : Stored(t, v.caches[t])
  BY EmptyStored
<1>2. FontCache(v).status = [f \in Fonts |-> "NOT_LOADED"]
  BY DEF FontCache, Tables, EmptyCache, Ids
<1>3. SeqCache(v).status = [s \in Seqs |-> "NOT_LOADED"]
  BY DEF SeqCache, Tables, EmptyCache, Ids
<1>4. \A f \in Fonts : ~HasFont(v, f)
  BY <1>2 DEF HasFont, Usable
<1>5. \A p \in Players : v.players[p].on => ~HasSeq(v, v.players[p].seq)
  BY <1>3 DEF HasSeq, Usable, Shaped, Player
<1>6. Playing(v)
  BY <1>5 DEF Playing, Reads
<1>7. Based(v) /\ Loading(v) /\ Ringing(v)
  BY <1>4 DEF Based, Loading, Ringing
<1>8. Good(v)
  BY <1>1, <1>6, <1>7 DEF Good
<1>9. \A p \in Players : Stays(v, p)
  BY <1>5 DEF Stays
<1> QED BY <1>2, <1>8, <1>9

\* Other notes sound.
LEMMA RingGood ==
  ASSUME NEW w, Good(w), NEW n \in SUBSET (Fonts \X Cells("font")),
         \A m \in n : m \in w.sounding \/ (HasFont(w, m[1]) /\ FontAt(w, m[1]) = m[2]),
         NEW v, v = World(w.caches, w.base, w.loads, w.players, n)
  PROVE  Good(v) /\ v.caches = w.caches /\ v.players = w.players
<1>1. /\ v.caches = w.caches /\ v.base = w.base /\ v.loads = w.loads /\ v.players = w.players
      /\ v.sounding = n
  BY DEF World
<1>2. Shaped(v)
  BY <1>1 DEF Good, Shaped
<1>3. FontCache(v) = FontCache(w) /\ SeqCache(v) = SeqCache(w)
  BY <1>1 DEF FontCache, SeqCache
<1>4. \A t \in Tables : Stored(t, v.caches[t])
  BY <1>1 DEF Good
<1>5. Based(v)
  BY <1>1, <1>3 DEF Good, Based, HasFont, FontAt
<1>6. Loading(v)
  <2>1. ASSUME NEW l, Copies(w, l) PROVE Copies(v, l)
    BY <1>3, <2>1 DEF Copies, FontAt
  <2> QED BY <1>1, <2>1 DEF Good, Loading
<1>7. Ringing(v)
  BY <1>1, <1>3 DEF Good, Ringing, HasFont, FontAt
<1>8. Playing(v)
  <2>1. ASSUME NEW m, Reads(w, m) PROVE Reads(v, m)
    BY <1>3, <2>1 DEF Reads, HasSeq, HasFont, SeqAt, FontAt
  <2> QED BY <1>1, <2>1 DEF Good, Playing
<1> QED BY <1>1, <1>2, <1>4, <1>5, <1>6, <1>7, <1>8 DEF Good

\* A player that may read marks what it reads.
LEMMA ReadingHushed ==
  ASSUME NEW w, Good(w), NEW p \in Players, w.players[p].on, MayRead(w, p),
         NEW v, v = Reading(w, p)
  PROVE  /\ Hushed(w, v) /\ v.players = w.players
         /\ w.players[p].seq \in Seqs /\ HasFont(v, SeqFont[w.players[p].seq])
         /\ HasSeq(v, w.players[p].seq)
<1>1. PICK s : s = w.players[p].seq
  OBVIOUS
<1>2. PICK f : f = SeqFont[s]
  OBVIOUS
<1>3. s \in Seqs /\ f \in Fonts
  BY <1>1, <1>2, FontOf, SeqOf DEF Good, Playing, Reads
<1>4. w.caches["seq"].status[s] \in Usable /\ w.caches["font"].status[f] \in Usable
  BY <1>1, <1>2 DEF MayRead
<1>5. Shaped(w) /\ w.caches["seq"] \in Cache("seq") /\ w.caches["font"] \in Cache("font")
  BY GoodCaches DEF Tables
<1>6. PICK c : c = SetStatus(w.caches["seq"], s, "COMPLETE")
  OBVIOUS
<1>7. PICK d : d = SetStatus(w.caches["font"], f, "COMPLETE")
  OBVIOUS
<1>8. Alike("seq", w.caches["seq"], c)
  BY <1>3, <1>4, <1>5, <1>6, SetStatusAlike DEF Ids, Usable
<1>9. Alike("font", w.caches["font"], d)
  BY <1>3, <1>4, <1>5, <1>7, SetStatusAlike DEF Ids, Usable
<1>10. PICK x : x = [t \in Tables |-> IF t = "seq" THEN c ELSE d]
  OBVIOUS
<1>11. v = [w EXCEPT !.caches = x]
  <2>1. [t \in Tables |->
           SetStatus(w.caches[t], IF t = "seq" THEN w.players[p].seq ELSE SeqFont[w.players[p].seq], "COMPLETE")] = x
    BY <1>1, <1>2, <1>6, <1>7, <1>10 DEF Tables
  <2> QED BY <2>1 DEF Reading
<1>12. v = World(x, w.base, w.loads, w.players, w.sounding)
  <2>1. w = World(w.caches, w.base, w.loads, w.players, w.sounding)
    BY <1>5 DEF Shaped
  <2> QED BY ONLY <1>11, <2>1 DEF World
<1>13. /\ v.caches = x /\ v.base = w.base /\ v.loads = w.loads /\ v.players = w.players
       /\ v.sounding = w.sounding
  BY ONLY <1>12 DEF World
<1>14. x = [t \in Tables |-> x[t]] /\ x["seq"] = c /\ x["font"] = d
  BY <1>10 DEF Tables
<1>15. Shaped(v)
  BY <1>5, <1>12, <1>13, <1>14 DEF Shaped
<1>16. Hushed(w, v)
  BY <1>8, <1>9, <1>13, <1>14, <1>15 DEF Hushed, Tables
<1>17. HasSeq(v, s) /\ HasFont(v, f)
  BY <1>3, <1>4, <1>8, <1>9, <1>13, <1>14 DEF Alike, HasSeq, HasFont, SeqCache, FontCache, Ids, Usable
<1> QED BY <1>1, <1>2, <1>3, <1>13, <1>16, <1>17

\* It plays from its font, found now or earlier.
Sounds(x, p, insts, f) == [x EXCEPT !.players[p].insts = insts, !.sounding = @ \cup {<<f, insts>>}]

Offered(w, p, insts) ==
  insts # NoPlace /\ (insts = w.players[p].insts \/ insts = w.base[SeqFont[w.players[p].seq]])
SameSeqs(v, x) ==
  \A p \in Players : v.players[p].on = x.players[p].on /\ v.players[p].seq = x.players[p].seq

LEMMA PlaysGood ==
  ASSUME NEW w, Good(w), NEW p \in Players, w.players[p].on, MayRead(w, p),
         NEW x, x = Reading(w, p),
         NEW insts, Offered(w, p, insts),
         NEW v, v = Sounds(x, p, insts, SeqFont[w.players[p].seq])
  PROVE  Good(v) /\ v.caches = x.caches /\ SameSeqs(v, x)
<1>1. PICK s : s = w.players[p].seq
  OBVIOUS
<1>2. PICK f : f = SeqFont[s]
  OBVIOUS
<1>3. /\ Hushed(w, x) /\ x.players = w.players
      /\ s \in Seqs /\ HasFont(x, f) /\ HasSeq(x, s)
  BY ONLY Good(w), p \in Players, w.players[p].on, MayRead(w, p), x = Reading(w, p), <1>1, <1>2, ReadingHushed
<1>4. Good(x) /\ f \in Fonts /\ x.base = w.base
  BY <1>2, <1>3, HushedGood, FontOf DEF Hushed
<1>5. PICK n : n = x.players[p]
  OBVIOUS
<1>6. Reads(x, n) /\ n.seq = s /\ n.on /\ n \in Player /\ n.seq \in Repertoire(p) \cup {None}
  BY <1>1, <1>3, <1>4, <1>5 DEF Good, Playing, Shaped
<1>7. insts # NoPlace /\ (insts = n.insts \/ insts = x.base[f])
  BY <1>1, <1>2, <1>3, <1>4, <1>5 DEF Offered
<1>8. insts = FontAt(x, f)
  BY <1>2, <1>3, <1>4, <1>6, <1>7 DEF Good, Based, Reads
<1>9. insts \in Cells("font") /\ insts \in Places("font")
  <2>1. "font" \in Tables /\ f \in Ids("font")
    BY <1>4 DEF Tables, Ids
  <2>2. Layout("font", FontCache(x))
    BY <1>4, <2>1 DEF Good, FontCache, Stored
  <2>3. FontAt(x, f) \in Places("font")
    BY <2>1, <2>2, FindPlaces DEF FontAt
  <2> QED BY <1>7, <1>8, <2>3 DEF Places
<1>10. PICK m : m = [n EXCEPT !.insts = insts]
  OBVIOUS
<1>11. m \in Player /\ m.seq = n.seq /\ m.on = n.on /\ m.data = n.data /\ m.insts = insts
  BY <1>6, <1>9, <1>10 DEF Player
<1>12. Reads(x, m)
  BY <1>2, <1>6, <1>8, <1>11 DEF Reads
<1>13. PICK y : y = Seat(x, p, m)
  OBVIOUS
<1>14. Good(y) /\ FontCache(y) = FontCache(x)
  BY <1>4, <1>6, <1>11, <1>12, <1>13, SeatGood
<1>15. /\ y.caches = x.caches /\ y.base = x.base /\ y.loads = x.loads /\ y.sounding = x.sounding
       /\ y.players[p] = m /\ \A q \in Players \ {p} : y.players[q] = x.players[q]
  BY <1>4, <1>11, <1>13, SeatFields DEF Good
<1>16. PICK z : z = x.sounding \cup {<<f, insts>>}
  OBVIOUS
<1>17. v = World(y.caches, y.base, y.loads, y.players, z)
  <2>1. x = World(x.caches, x.base, x.loads, x.players, x.sounding)
    BY <1>4 DEF Good, Shaped
  <2>2. PICK ps : ps = [x.players EXCEPT ![p] = m]
    OBVIOUS
  <2>3. y = World(x.caches, x.base, x.loads, ps, x.sounding)
    BY ONLY <1>13, <2>1, <2>2 DEF Seat, World
  <2>4. v = [x EXCEPT !.players = ps, !.sounding = z]
    <3>1. v = Sounds(x, p, insts, f)
      BY <1>1, <1>2
    <3>2. v = [x EXCEPT !.players = [x.players EXCEPT ![p] = [x.players[p] EXCEPT !.insts = insts]],
                        !.sounding = x.sounding \cup {<<f, insts>>}]
      BY ONLY <3>1 DEF Sounds
    <3> QED BY ONLY <1>5, <1>10, <1>16, <2>2, <3>2
  <2>5. v = World(x.caches, x.base, x.loads, ps, z)
    BY ONLY <2>1, <2>4 DEF World
  <2> QED BY ONLY <2>3, <2>5 DEF World
<1>18. z \in SUBSET (Fonts \X Cells("font"))
  <2>1. x.sounding \subseteq Fonts \X Cells("font")
    BY <1>4 DEF Good, Shaped
  <2> QED BY <1>4, <1>9, <1>16, <2>1
<1>19. \A k \in z : k \in y.sounding \/ (HasFont(y, k[1]) /\ FontAt(y, k[1]) = k[2])
  BY <1>3, <1>8, <1>14, <1>15, <1>16 DEF HasFont, FontAt
<1>20. Good(v) /\ v.caches = y.caches /\ v.players = y.players
  BY ONLY <1>14, <1>17, <1>18, <1>19, RingGood
<1>21. SameSeqs(v, x)
  BY ONLY <1>5, <1>11, <1>15, <1>20 DEF SameSeqs
<1> QED BY ONLY <1>15, <1>20, <1>21
-----------------------------------------------------------------------------
(* The actions. *)

LEMMA Becomes == ASSUME NEW v, Good(v), Become(v) PROVE W' = v
<1>1. W' = World(v.caches, v.base, v.loads, v.players, v.sounding)
  BY DEF Become, W
<1> QED BY <1>1 DEF Good, Shaped

LEMMA WorldIs == /\ W.caches = caches /\ W.base = base /\ W.loads = loads /\ W.players = players
                 /\ W.sounding = sounding
  BY DEF W, World

LEMMA SameWorld == ASSUME IInv, UNCHANGED audio PROVE W' = W
  BY DEF audio, W

\* What is on its way stays so, and the music waits as before.
LEMMA StillAwaited ==
  ASSUME Awaited, NEW v, W' = v, NoneStarted(W, v), UNCHANGED <<waiting, arrived>> PROVE Awaited'
<1>1. \A f \in Fonts : FontCache(v).status[f] = "IN_PROGRESS" => FontCache(W).status[f] = "IN_PROGRESS"
  BY DEF NoneStarted
<1> QED BY <1>1 DEF Awaited

LEMMA NoneOnItsWay ==
  ASSUME Awaited, Clocked, waiting = None \/ arrived > 0
  PROVE  \A f \in Fonts : FontCache(W).status[f] # "IN_PROGRESS"
  BY DEF Awaited, Clocked

\* A slot of gAsyncLoads in the phase of the loads.
LEMMA TheLoad ==
  ASSUME IInv, NextLoad, turn < NumLoads
  PROVE  /\ turn + 1 \in 1 .. NumLoads /\ W.loads[turn + 1] = loads[turn + 1] /\ loads[turn + 1] \in Load
         /\ \A p \in Players : Stays(W, p)
         /\ turn' \in Nat /\ phase' = "loads" /\ ~asked' /\ phase = "loads" /\ UNCHANGED <<waiting, resetting>>
<1>1. turn \in Nat /\ NumLoads \in Nat
  BY CacheAssumptions DEF IInv, Clocked
<1>2. turn + 1 \in 1 .. NumLoads
  BY <1>1
<1>3. W.loads = loads /\ loads \in [1 .. NumLoads -> Load]
  BY WorldIs DEF IInv, Good, Shaped
<1>4. phase = "loads" /\ ~asked
  BY DEF NextLoad, IInv, Clocked
<1>5. \A p \in Players : Stays(W, p)
  BY <1>4 DEF IInv, Steady, Looked
<1> QED BY <1>1, <1>2, <1>3, <1>4, <1>5 DEF NextLoad

\* Steady and Clocked after a load.
LEMMA LoadKeeps ==
  ASSUME IInv, NextLoad, turn < NumLoads, NEW v, W' = v, \A p \in Players : Stays(v, p), arrived' \in 0 .. 1
  PROVE  Steady' /\ Clocked'
<1>1. Steady'
  BY DEF Steady
<1>2. turn' \in Nat /\ phase' = "loads" /\ ~asked' /\ UNCHANGED <<waiting, resetting>>
  BY TheLoad
<1>3. waiting \in Flagged \cup {None} /\ resetting \in BOOLEAN /\ asked' \in BOOLEAN
  BY DEF IInv, Clocked, NextLoad
<1>4. Clocked'
  BY <1>2, <1>3 DEF Clocked
<1> QED BY <1>1, <1>4

\* The slot changes and nothing else.
LEMMA SlotStep ==
  ASSUME IInv, NextLoad, turn < NumLoads, NEW next \in Load,
         next.active => loads[turn + 1].active /\ Copies(W, next),
         loads' = [loads EXCEPT ![turn + 1] = next], UNCHANGED <<caches, base, players, sounding, arrived>>
  PROVE  IInv'
<1>1. PICK w : w = W
  OBVIOUS
<1>2. PICK slot : slot = turn + 1
  OBVIOUS
<1>3. Good(w) /\ slot \in 1 .. NumLoads /\ w.loads[slot] = loads[turn + 1] /\ \A p \in Players : Stays(w, p)
  BY <1>1, <1>2, TheLoad DEF IInv
<1>4. PICK v : v = Slot(w, slot, next)
  OBVIOUS
<1>5. next.active => /\ Copies(w, next)
                     /\ \A i \in (1 .. NumLoads) \ {slot} : ~w.loads[i].active
  BY <1>1, <1>3 DEF Good, Loading
<1>6. Good(v) /\ v.caches = w.caches /\ v.base = w.base /\ v.players = w.players
  BY <1>3, <1>4, <1>5, SlotGood
<1>7. W' = v
  BY <1>1, <1>2, <1>4 DEF W, World, Slot
<1>8. \A p \in Players : Stays(v, p)
  BY <1>3, <1>6 DEF Stays, HasSeq, HasFont, SeqCache, FontCache
<1>9. Awaited'
  <2>1. NoneStarted(w, v)
    BY <1>6 DEF NoneStarted, FontCache
  <2>2. NoneStarted(W, v)
    BY <1>1, <2>1
  <2> QED BY <1>7, <2>2, StillAwaited, TheLoad DEF IInv
<1>10. arrived' \in 0 .. 1
  BY DEF IInv, Clocked
<1> QED BY <1>6, <1>7, <1>8, <1>9, <1>10, LoadKeeps DEF IInv

LEMMA LoadWaitsInv == ASSUME IInv, LoadWaits PROVE IInv'
<1>1. PICK load : load = loads[turn + 1]
  OBVIOUS
<1>2. NextLoad /\ turn < NumLoads /\ UNCHANGED <<caches, base, players, sounding, arrived>>
  BY DEF LoadWaits
<1>3. turn + 1 \in 1 .. NumLoads /\ load \in Load /\ loads \in [1 .. NumLoads -> Load] /\ W.loads = loads
  BY <1>1, <1>2, TheLoad, WorldIs DEF IInv, Good, Shaped
<1>4. PICK next : next = [load EXCEPT !.delay = IF load.active THEN @ - 1 ELSE @]
  OBVIOUS
<1>5. loads' = [loads EXCEPT ![turn + 1] = next]
  BY <1>1, <1>4 DEF LoadWaits
<1>6. load.active => load.delay > 1
  BY <1>1 DEF LoadWaits
<1>7. /\ next \in Load
      /\ next.active = load.active /\ next.font = load.font /\ next.at = load.at /\ next.done = load.done
  <2>1. LoadDelay \in Nat
    BY CacheAssumptions
  <2>2. (IF load.active THEN load.delay - 1 ELSE load.delay) \in 0 .. LoadDelay
    BY <1>3, <1>6, <2>1 DEF Load
  <2> QED BY <1>3, <1>4, <2>2 DEF Load
<1>8. next.active => loads[turn + 1].active /\ Copies(W, next)
  <2>1. load.active => Copies(W, load)
    BY <1>1, <1>3 DEF IInv, Good, Loading
  <2> QED BY <1>1, <1>7, <2>1 DEF Copies
<1> QED BY <1>2, <1>5, <1>7, <1>8, SlotStep

LEMMA LoadCancelledInv == ASSUME IInv, LoadCancelled PROVE IInv'
<1>1. /\ NextLoad /\ turn < NumLoads /\ UNCHANGED <<caches, base, players, sounding, arrived>>
      /\ loads' = [loads EXCEPT ![turn + 1] = IdleLoad]
  BY DEF LoadCancelled
<1> QED BY <1>1, IdleIsLoad, SlotStep

LEMMA LoadChunkInv == ASSUME IInv, LoadChunk PROVE IInv'
<1>1. PICK w : w = W
  OBVIOUS
<1>2. PICK slot : slot = turn + 1
  OBVIOUS
<1>3. PICK load : load = loads[slot]
  OBVIOUS
<1>4. NextLoad /\ turn < NumLoads /\ UNCHANGED <<base, players, sounding, arrived>>
  BY DEF LoadChunk
<1>5. /\ Good(w) /\ slot \in 1 .. NumLoads /\ load = w.loads[slot] /\ load \in Load
      /\ \A p \in Players : Stays(w, p)
  BY <1>1, <1>2, <1>3, <1>4, TheLoad DEF IInv
<1>6. load.active /\ load.done < Size[load.font]
  BY <1>2, <1>3 DEF LoadChunk, Processed
<1>7. PICK next : next = [load EXCEPT !.done = @ + 1, !.delay = 0]
  OBVIOUS
<1>8. next \in Load /\ next.font = load.font /\ next.at = load.at /\ next.done = load.done + 1
  <2>1. 0 \in 0 .. LoadDelay
    BY CacheAssumptions
  <2>2. load \in Load
    BY <1>5
  <2>3. load.done \in Nat
    BY ONLY <2>2 DEF Load
  <2>4. PICK done \in Nat : done = load.done + 1
    BY ONLY <2>3
  <2>5. next = [load EXCEPT !.done = done, !.delay = 0]
    BY ONLY <1>7, <2>4
  <2>6. /\ load = [active |-> load.active, font |-> load.font, at |-> load.at, done |-> load.done,
                   delay |-> load.delay]
        /\ load.active \in BOOLEAN /\ load.font \in Fonts \cup {None} /\ load.at \in Places("font")
    BY ONLY <2>2 DEF Load
  <2>7. next = [active |-> load.active, font |-> load.font, at |-> load.at, done |-> done, delay |-> 0]
    BY ONLY <2>5, <2>6
  <2>8. next \in Load
    BY ONLY <2>1, <2>6, <2>7, done \in Nat DEF Load
  <2> QED BY ONLY <2>4, <2>7, <2>8
<1>9. loads' = [loads EXCEPT ![slot] = next]
  <2>1. loads \in [1 .. NumLoads -> Load]
    BY WorldIs DEF IInv, Good, Shaped
  <2> QED BY <1>2, <1>3, <1>5, <1>7, <2>1 DEF LoadChunk
<1>10. PICK x : x = Put(w, "font", Written(FontCache(w), load.at + load.done, load.font))
  OBVIOUS
<1>11. PICK v : v = Slot(x, slot, next)
  OBVIOUS
<1>12. /\ Good(v) /\ v.players = w.players /\ v.caches = x.caches
       /\ FontCache(v).status = FontCache(w).status /\ SeqCache(v) = SeqCache(w)
  BY <1>5, <1>6, <1>8, <1>10, <1>11, ChunkGood
<1>13. W' = v
  <2>1. caches' = [caches EXCEPT !["font"].mem[load.at + load.done] = load.font]
    BY <1>2, <1>3 DEF LoadChunk
  <2>2. PICK a : a = load.at + load.done
    OBVIOUS
  <2>3. PICK d : d = [caches["font"] EXCEPT !.mem[a] = load.font]
    OBVIOUS
  <2>4. caches' = [caches EXCEPT !["font"] = d]
    BY <2>1, <2>2, <2>3
  <2>5. x = World([caches EXCEPT !["font"] = d], base, loads, players, sounding)
    <3>1. d = Written(FontCache(w), load.at + load.done, load.font)
      BY <1>1, <2>2, <2>3 DEF Written, FontCache, W, World
    <3> QED BY <1>1, <1>10, <3>1 DEF Put, W, World
  <2>6. v = World(caches', base, loads', players, sounding)
    BY ONLY <1>9, <1>11, <2>4, <2>5 DEF Slot, World
  <2> QED BY <1>4, <2>6 DEF W
<1>14. \A p \in Players : Stays(v, p)
  BY <1>5, <1>12 DEF Stays, HasSeq, HasFont
<1>15. Awaited'
  <2>1. NoneStarted(w, v)
    BY <1>12 DEF NoneStarted
  <2> QED BY <1>1, <1>4, <1>13, <2>1, StillAwaited, TheLoad DEF IInv
<1>16. arrived' \in 0 .. 1
  BY <1>4 DEF IInv, Clocked
<1> QED BY <1>4, <1>12, <1>13, <1>14, <1>15, <1>16, LoadKeeps DEF IInv

LEMMA LoadCompleteInv == ASSUME IInv, LoadComplete PROVE IInv'
<1>1. PICK w : w = W
  OBVIOUS
<1>2. PICK slot : slot = turn + 1
  OBVIOUS
<1>3. PICK load : load = loads[slot]
  OBVIOUS
<1>4. NextLoad /\ turn < NumLoads /\ UNCHANGED <<players, sounding>> /\ arrived' = arrived + 1
  BY DEF LoadComplete
<1>5. /\ Good(w) /\ slot \in 1 .. NumLoads /\ load = w.loads[slot] /\ load \in Load
      /\ \A p \in Players : Stays(w, p)
  BY <1>1, <1>2, <1>3, <1>4, TheLoad DEF IInv
<1>6. load.active /\ load.done = Size[load.font]
  BY <1>2, <1>3 DEF LoadComplete, Processed
<1>7. PICK x : x = Slot(w, slot, IdleLoad)
  OBVIOUS
<1>8. PICK v : v = Relocated(x, SetStatus(FontCache(w), load.font, "COMPLETE"), load.font, load.at)
  OBVIOUS
<1>9. /\ Good(v) /\ \A p \in Players : Stays(v, p)
      /\ \A g \in Fonts : FontCache(v).status[g] = "IN_PROGRESS" =>
           FontCache(w).status[g] = "IN_PROGRESS" /\ g # load.font
  BY <1>5, <1>6, <1>7, <1>8, CompleteGood
<1>10. W' = v
  <2>1. PICK e : e = SetStatus(FontCache(w), load.font, "COMPLETE")
    OBVIOUS
  <2>2. /\ caches' = [caches EXCEPT !["font"] = e]
        /\ base' = [base EXCEPT ![load.font] = load.at]
        /\ loads' = [loads EXCEPT ![slot] = IdleLoad]
    <3>1. FontCache(w) = caches["font"]
      BY <1>1 DEF FontCache, W, World
    <3> QED BY <1>2, <1>3, <2>1, <3>1 DEF LoadComplete
  <2>3. x = World(caches, base, loads', players, sounding)
    BY <1>1, <1>7, <2>2 DEF Slot, W, World
  <2>4. v = World(caches', base', loads', players, sounding)
    <3>1. v = Relocated(x, e, load.font, load.at)
      BY <1>8, <2>1
    <3> QED BY ONLY <2>2, <2>3, <3>1 DEF Relocated, World
  <2> QED BY <1>4, <2>4 DEF W
<1>11. FontCache(W).status[load.font] = "IN_PROGRESS" /\ load.font \in Fonts
  BY <1>1, <1>5, <1>6 DEF Good, Loading, Copies
<1>12. waiting # None /\ SeqFont[waiting] = load.font /\ arrived = 0
  BY <1>11 DEF IInv, Awaited
<1>13. waiting' = waiting
  BY <1>4, TheLoad
<1>14. Awaited'
  <2>1. \A g \in Fonts : FontCache(v).status[g] # "IN_PROGRESS"
    BY <1>1, <1>9, <1>12 DEF IInv, Awaited
  <2> QED BY <1>10, <1>12, <1>13, <2>1 DEF Awaited
<1>15. arrived' \in 0 .. 1
  BY <1>4, <1>12
<1> QED BY <1>4, <1>9, <1>10, <1>14, <1>15, LoadKeeps DEF IInv

\* The world stays as it is.
LEMMA SameKept ==
  ASSUME IInv, UNCHANGED audio, UNCHANGED <<waiting, arrived>> PROVE Good(W') /\ W' = W /\ Awaited'
<1>1. W' = W
  BY SameWorld
<1>2. PICK w : w = W
  OBVIOUS
<1>3. W' = w /\ Good(w) /\ NoneStarted(W, w)
  BY <1>1, <1>2 DEF IInv, NoneStarted
<1>4. Awaited'
  BY <1>3, StillAwaited DEF IInv
<1> QED BY <1>1, <1>3, <1>4

LEMMA LoadsDoneInv == ASSUME IInv, LoadsDone PROVE IInv'
<1>1. Good(W') /\ W' = W /\ Awaited'
  BY SameKept DEF LoadsDone
<1>2. Steady'
  BY <1>1 DEF LoadsDone, IInv, Steady, Looked
<1>3. Clocked'
  BY DEF LoadsDone, IInv, Clocked
<1> QED BY <1>1, <1>2, <1>3 DEF IInv

LEMMA ResetGoesOnInv == ASSUME IInv, ResetGoesOn PROVE IInv'
<1>1. Good(W') /\ W' = W /\ Awaited'
  BY SameKept DEF ResetGoesOn
<1>2. Steady'
  BY <1>1 DEF ResetGoesOn, IInv, Steady, Looked
<1>3. Clocked'
  BY DEF ResetGoesOn, IInv, Clocked
<1> QED BY <1>1, <1>2, <1>3 DEF IInv

LEMMA CmdsDoneInv == ASSUME IInv, CmdsDone PROVE IInv'
<1>1. Good(W') /\ W' = W /\ Awaited'
  BY SameKept DEF CmdsDone
<1>2. phase' = "players" /\ turn' = 0 /\ ~asked' /\ asked' \in BOOLEAN
  BY DEF CmdsDone, IInv, Clocked
<1>3. Steady'
  BY <1>2 DEF Steady, Looked
<1>4. Clocked'
  BY <1>2 DEF CmdsDone, IInv, Clocked
<1> QED BY <1>1, <1>3, <1>4 DEF IInv

LEMMA BufferDoneInv == ASSUME IInv, BufferDone PROVE IInv'
<1>1. Good(W') /\ W' = W /\ Awaited'
  BY SameKept DEF BufferDone
<1>2. Steady'
  BY <1>1 DEF BufferDone, IInv, Steady, Looked
<1>3. Clocked'
  BY DEF BufferDone, IInv, Clocked
<1> QED BY <1>1, <1>2, <1>3 DEF IInv

\* Players end: what was awaited and what was steady stay so.
LEMMA HushedKept ==
  ASSUME IInv, NEW v, Hushed(W, v), Become(v), UNCHANGED <<waiting, arrived>>
  PROVE  /\ Good(W') /\ W' = v /\ Awaited'
         /\ \A p \in Players : Stays(W, p) => Stays(v, p)
<1>1. PICK w : w = W
  OBVIOUS
<1>2. Good(w) /\ Hushed(w, v)
  BY <1>1 DEF IInv
<1>3. Good(v) /\ NoneStarted(w, v) /\ \A p \in Players : Stays(w, p) => Stays(v, p)
  BY <1>2, HushedGood, HushedNoneStarted, HushedStays
<1>4. W' = v
  BY <1>3, Becomes
<1>5. NoneStarted(W, v)
  BY <1>1, <1>3
<1>6. Awaited'
  BY <1>4, <1>5, StillAwaited DEF IInv
<1> QED BY <1>1, <1>3, <1>4, <1>6

LEMMA ResetBeginInv == ASSUME IInv, ResetBegin PROVE IInv'
<1>1. PICK w : w = W
  OBVIOUS
<1>2. PICK x : x = Disable(w, "bgm")
  OBVIOUS
<1>3. PICK v : v = Disable(x, "fanfare")
  OBVIOUS
<1>4. Good(w) /\ "bgm" \in Players /\ "fanfare" \in Players
  BY <1>1 DEF IInv, Players
<1>5. Hushed(w, x)
  BY <1>2, <1>4, GoodCaches, DisableHushed
<1>6. Good(x)
  BY <1>4, <1>5, HushedGood
<1>7. Hushed(x, v)
  BY <1>3, <1>4, <1>6, GoodCaches, DisableHushed
<1>8. Hushed(W, v) /\ Become(v)
  <2>1. Hushed(w, v)
    BY <1>5, <1>7, HushedTrans
  <2> QED BY <1>1, <1>2, <1>3, <2>1 DEF ResetBegin
<1>9. /\ Good(W') /\ W' = v /\ Awaited'
      /\ \A p \in Players : Stays(W, p) => Stays(v, p)
  BY <1>8, HushedKept DEF ResetBegin
<1>10. \A p \in Players : Stays(W, p)
  BY DEF ResetBegin, IInv, Steady, Looked
<1>11. Steady'
  BY <1>9, <1>10 DEF Steady
<1>12. Clocked'
  BY DEF ResetBegin, IInv, Clocked
<1> QED BY <1>9, <1>11, <1>12 DEF IInv

LEMMA StopInv == ASSUME IInv, NEW p \in Players, Stop(p) PROVE IInv'
<1>1. PICK w : w = W
  OBVIOUS
<1>2. PICK v : v = Disable(w, p)
  OBVIOUS
<1>3. Good(w)
  BY <1>1 DEF IInv
<1>4. Hushed(w, v)
  BY <1>2, <1>3, GoodCaches, DisableHushed
<1>5. Hushed(W, v) /\ Become(v) /\ UNCHANGED <<waiting, arrived>>
  BY <1>1, <1>2, <1>4 DEF Stop
<1>6. /\ Good(W') /\ W' = v /\ Awaited'
      /\ \A q \in Players : Stays(W, q) => Stays(v, q)
  BY <1>5, HushedKept
<1>7. Steady'
  BY <1>6 DEF Stop, IInv, Steady, Looked
<1>8. Clocked'
  BY DEF Stop, IInv, Clocked
<1> QED BY <1>6, <1>7, <1>8 DEF IInv

\* AudioHeap_Init, and the start.
LEMMA HeapInitInv == ASSUME IInv, HeapInit PROVE IInv'
<1>1. PICK w : w = W
  OBVIOUS
<1>2. PICK x : x = [t \in Tables |-> EmptyCache(t)]
  OBVIOUS
<1>3. PICK v : v = World(x, w.base, w.loads, w.players, {})
  OBVIOUS
<1>4. /\ v.caches = x /\ v.base = w.base /\ v.loads = w.loads /\ v.players = w.players
      /\ v.sounding = {}
  BY ONLY <1>3 DEF World
<1>5. Good(w) /\ w.base = base /\ w.loads = loads /\ w.players = players
  BY <1>1, WorldIs DEF IInv
<1>6. Shaped(v)
  <2>1. x = [t \in Tables |-> x[t]]
    BY <1>2
  <2> QED BY <1>3, <1>4, <1>5, <2>1 DEF Good, Shaped
<1>7. W' = v
  <2>1. caches' = x /\ sounding' = {} /\ base' = base /\ loads' = loads /\ players' = players
    BY <1>2 DEF HeapInit
  <2> QED BY <1>3, <1>5, <2>1 DEF W
<1>8. \A p \in Players : /\ v.players[p].seq \in Repertoire(p) \cup {None}
                         /\ v.players[p].on => v.players[p].seq # None
  BY <1>4, <1>5 DEF Good, Playing, Reads
<1>9. \A i \in 1 .. NumLoads : ~v.loads[i].active
  BY <1>4, <1>5 DEF HeapInit
<1>10. /\ Good(v) /\ \A p \in Players : Stays(v, p)
       /\ \A f \in Fonts : FontCache(v).status[f] # "IN_PROGRESS"
  BY <1>2, <1>4, <1>6, <1>8, <1>9, EmptyGood
<1>11. Awaited' /\ Steady'
  BY <1>7, <1>10 DEF HeapInit, IInv, Awaited, Steady
<1>12. Clocked'
  BY DEF HeapInit, IInv, Clocked
<1> QED BY <1>7, <1>10, <1>11, <1>12 DEF IInv

LEMMA InitInv == ASSUME Init PROVE IInv
<1>1. PICK w : w = W
  OBVIOUS
<1>2. w.caches = caches /\ w.base = base /\ w.loads = loads /\ w.players = players /\ w.sounding = sounding
  BY <1>1, WorldIs
<1>3. /\ caches = [t \in Tables |-> EmptyCache(t)] /\ base = [f \in Fonts |-> NoPlace]
      /\ loads = [i \in 1 .. NumLoads |-> IdleLoad] /\ players = [p \in Players |-> NoMusic]
      /\ sounding = {} /\ arrived = 0
  BY DEF Init
<1>4. Shaped(w)
  <2>1. w = World(w.caches, w.base, w.loads, w.players, w.sounding)
    BY <1>1 DEF W, World
  <2>2. caches = [t \in Tables |-> caches[t]]
    BY <1>3
  <2>3. base \in [Fonts -> Places("font")]
    BY <1>3 DEF Places
  <2>4. loads \in [1 .. NumLoads -> Load]
    BY <1>3, IdleIsLoad
  <2>5. NoMusic \in Player
    BY DEF NoMusic, Player, Places
  <2>6. players \in [Players -> Player]
    BY <1>3, <2>5
  <2> QED BY <1>2, <1>3, <2>1, <2>2, <2>3, <2>4, <2>6 DEF Shaped
<1>5. \A i \in 1 .. NumLoads : ~w.loads[i].active
  BY <1>2, <1>3, IdleIsLoad
<1>6. \A p \in Players : /\ w.players[p].seq \in Repertoire(p) \cup {None}
                         /\ w.players[p].on => w.players[p].seq # None
  BY <1>2, <1>3 DEF NoMusic
<1>7. /\ Good(w) /\ \A p \in Players : Stays(w, p)
      /\ \A f \in Fonts : FontCache(w).status[f] # "IN_PROGRESS"
  BY <1>2, <1>3, <1>4, <1>5, <1>6, EmptyGood
<1>8. Awaited /\ Steady
  BY <1>1, <1>3, <1>7 DEF Awaited, Steady
<1>9. Clocked
  <2>1. /\ waiting = None /\ arrived = 0 /\ resetting = FALSE /\ phase = "loads" /\ turn = 0
        /\ asked = FALSE
    BY DEF Init
  <2>2. waiting \in Flagged \cup {None} /\ arrived \in 0 .. 1 /\ turn \in Nat
    BY ONLY <2>1
  <2>3. /\ resetting \in BOOLEAN /\ phase \in {"loads", "cmds", "players"} /\ asked \in BOOLEAN
    BY ONLY <2>1
  <2>4. (asked => phase = "cmds") /\ (phase = "cmds" => turn = 0)
    BY ONLY <2>1
  <2> QED BY ONLY <2>2, <2>3, <2>4 DEF Clocked
<1> QED BY <1>1, <1>7, <1>8, <1>9 DEF IInv
-----------------------------------------------------------------------------
(* The commands. *)

LEMMA TheCommand ==
  ASSUME IInv, Command
  PROVE  /\ \A p \in Players : Stays(W, p)
         /\ Steady'
         /\ waiting' \in Flagged \cup {None} /\ arrived' \in 0 .. 1 => Clocked'
<1>1. \A p \in Players : Stays(W, p)
  BY DEF Command, IInv, Steady, Looked
<1>2. phase' = "cmds" /\ asked'
  BY DEF Command
<1>3. Steady'
  BY <1>2 DEF Steady, Looked
<1>4. waiting' \in Flagged \cup {None} /\ arrived' \in 0 .. 1 => Clocked'
  BY DEF Command, IInv, Clocked
<1> QED BY <1>1, <1>3, <1>4

LEMMA PlayInv == ASSUME IInv, NEW p \in Players, NEW s \in Seqs, Play(p, s) PROVE IInv'
<1>1. PICK w : w = W
  OBVIOUS
<1>2. PICK v : v = InitPlayer(w, p, s)
  OBVIOUS
<1>3. Command /\ UNCHANGED <<waiting, arrived>> /\ Become(v)
  BY <1>1, <1>2 DEF Play
<1>4. Good(w) /\ \A q \in Players : Stays(w, q)
  BY <1>1, <1>3, TheCommand DEF IInv
<1>5. s \in Repertoire(p) /\ FontCache(w).status[SeqFont[s]] # "IN_PROGRESS"
  <2>1. SeqFont[s] \in Fonts
    BY FontOf
  <2>2. CASE p = "bgm"
    <3>1. waiting = None /\ s \in BgmSeqs
      BY <2>2 DEF Play
    <3>2. FontCache(W).status[SeqFont[s]] # "IN_PROGRESS"
      BY <2>1, <3>1, NoneOnItsWay DEF IInv
    <3> QED BY <1>1, <2>2, <3>1, <3>2 DEF Repertoire
  <2>3. CASE p # "bgm"
    <3>1. s \in Fanfares
      BY <2>3 DEF Play
    <3>2. waiting # None => SeqFont[waiting] # SeqFont[s]
      BY <3>1, TableFacts DEF IInv, Clocked
    <3>3. FontCache(W).status[SeqFont[s]] # "IN_PROGRESS"
      BY <2>1, <3>2 DEF IInv, Awaited
    <3> QED BY <1>1, <2>3, <3>1, <3>3 DEF Repertoire
  <2> QED BY <2>2, <2>3
<1>6. Good(v) /\ NoneStarted(w, v)
  BY <1>2, <1>4, <1>5, InitPlayerGood
<1>7. W' = v
  BY <1>3, <1>6, Becomes
<1>8. Awaited'
  BY <1>1, <1>3, <1>6, <1>7, StillAwaited DEF IInv
<1>9. Steady' /\ Clocked'
  BY <1>3, TheCommand DEF IInv, Clocked
<1> QED BY <1>6, <1>7, <1>8, <1>9 DEF IInv

LEMMA FontArrivedInv == ASSUME IInv, FontArrived PROVE IInv'
<1>1. PICK w : w = W
  OBVIOUS
<1>2. PICK s : s = waiting
  OBVIOUS
<1>3. PICK v : v = InitPlayer(w, "bgm", s)
  OBVIOUS
<1>4. /\ Command /\ waiting # None /\ arrived > 0 /\ arrived' = arrived - 1 /\ waiting' = None
      /\ Become(v)
  BY <1>1, <1>2, <1>3 DEF FontArrived
<1>5. Good(w) /\ "bgm" \in Players /\ \A q \in Players : Stays(w, q)
  BY <1>1, <1>4, TheCommand DEF IInv, Players
<1>6. s \in Repertoire("bgm") /\ s \in Seqs
  BY <1>2, <1>4, CacheAssumptions DEF IInv, Clocked, Repertoire, Seqs
<1>7. \A f \in Fonts : FontCache(w).status[f] # "IN_PROGRESS"
  BY <1>1, <1>4, NoneOnItsWay DEF IInv
<1>8. Good(v) /\ NoneStarted(w, v)
  <2>1. FontCache(w).status[SeqFont[s]] # "IN_PROGRESS"
    BY <1>6, <1>7, FontOf
  <2> QED BY <1>3, <1>5, <1>6, <2>1, InitPlayerGood
<1>9. W' = v
  BY <1>4, <1>8, Becomes
<1>10. arrived' = 0
  BY <1>4 DEF IInv, Clocked
<1>11. Awaited'
  <2>1. \A f \in Fonts : FontCache(v).status[f] # "IN_PROGRESS"
    BY <1>7, <1>8 DEF NoneStarted
  <2> QED BY <1>9, <1>10, <2>1 DEF Awaited
<1>12. Steady' /\ Clocked'
  <2>0. waiting' = None
    BY ONLY <1>4
  <2>1. waiting' \in Flagged \cup {None} /\ arrived' \in 0 .. 1
    BY ONLY <2>0, <1>10
  <2>2. /\ Steady'
        /\ waiting' \in Flagged \cup {None} /\ arrived' \in 0 .. 1 => Clocked'
    BY ONLY IInv, <1>4, TheCommand
  <2> QED BY ONLY <2>1, <2>2
<1> QED BY <1>8, <1>9, <1>11, <1>12 DEF IInv

LEMMA PlayFlaggedInv == ASSUME IInv, NEW s \in Seqs, NEW discard \in BOOLEAN, PlayFlagged(s, discard) PROVE IInv'
<1>1. PICK w : w = W
  OBVIOUS
<1>2. PICK f : f = SeqFont[s]
  OBVIOUS
<1>3. PICK x : x = IF discard THEN DiscardFont(w, f) ELSE w
  OBVIOUS
<1>4. PICK v : v = AsyncLoad(x, f)
  OBVIOUS
<1>5. /\ Command /\ waiting = None /\ s \in Flagged /\ waiting' = s /\ Become(v)
      /\ arrived' = arrived + IF AnswersAtOnce(x, f) THEN 1 ELSE 0
  BY <1>1, <1>2, <1>3, <1>4 DEF PlayFlagged
<1>6. Good(w) /\ f \in Fonts
  BY <1>1, <1>2, FontOf DEF IInv
<1>7. \A g \in Fonts : FontCache(w).status[g] # "IN_PROGRESS"
  BY <1>1, <1>5, NoneOnItsWay DEF IInv
<1>8. Good(x) /\ \A g \in Fonts : FontCache(x).status[g] # "IN_PROGRESS"
  <2>1. CASE ~discard
    BY <1>3, <1>6, <1>7, <2>1
  <2>2. CASE discard
    <3>1. x = DiscardFont(w, f)
      BY <1>3, <2>2
    <3>2. Good(x) /\ NoneStarted(w, x)
      BY <1>6, <1>7, <3>1, DiscardGood
    <3> QED BY <1>7, <3>2 DEF NoneStarted
  <2> QED BY <2>1, <2>2
<1>9. /\ Good(v)
      /\ \A g \in Fonts : FontCache(v).status[g] = "IN_PROGRESS" => g = f /\ ~AnswersAtOnce(x, f)
  BY <1>4, <1>6, <1>8, AsyncGood
<1>10. W' = v
  BY <1>5, <1>9, Becomes
<1>11. arrived = 0 /\ s # None
  BY <1>5, CacheAssumptions DEF IInv, Awaited, Clocked, Seqs
<1>12. Awaited'
  BY <1>2, <1>5, <1>9, <1>10, <1>11 DEF Awaited
<1>13. arrived' \in 0 .. 1
  BY <1>5, <1>11
<1>14. Steady' /\ Clocked'
  BY <1>5, <1>13, TheCommand
<1> QED BY <1>9, <1>10, <1>12, <1>14 DEF IInv
-----------------------------------------------------------------------------
(* The players. *)

\* A player that has had its turn is steady; those of earlier turns stay so.
LEMMA TurnKeeps ==
  ASSUME IInv, NEW p \in Players, NextPlayer, Turns[turn + 1] = p, NEW v, W' = v, Stays(v, p),
         \A q \in Players \ {p} : Stays(W, q) => Stays(v, q), UNCHANGED arrived
  PROVE  Steady' /\ Clocked'
<1>1. phase = "players" /\ phase' = "players" /\ turn \in {0, 1} /\ turn' = turn + 1 /\ ~asked'
  BY DEF NextPlayer, IInv, Clocked
<1>2. p = IF turn = 0 THEN "bgm" ELSE "fanfare"
  BY <1>1 DEF Turns
<1>3. ASSUME NEW q \in Players, q # p, turn' > IF q = "bgm" THEN 0 ELSE 1
      PROVE  turn > IF q = "bgm" THEN 0 ELSE 1
  BY <1>1, <1>2, <1>3 DEF Players
<1>4. \A q \in Players : Looked(q)' => q = p \/ Looked(q)
  BY <1>1, <1>3 DEF Looked
<1>5. Steady'
  BY <1>4 DEF IInv, Steady
<1>6. turn' \in Nat /\ UNCHANGED <<waiting, resetting, asked>>
  BY <1>1 DEF NextPlayer
<1>7. Clocked'
  BY <1>1, <1>6 DEF IInv, Clocked
<1> QED BY <1>5, <1>7

LEMMA PlayerStopsInv == ASSUME IInv, NEW p \in Players, PlayerStops(p) PROVE IInv'
<1>1. PICK w : w = W
  OBVIOUS
<1>2. PICK v : v = IF w.players[p].on THEN Disable(w, p) ELSE w
  OBVIOUS
<1>3. Good(w) /\ w.players = players
  BY <1>1, WorldIs DEF IInv
<1>4. NextPlayer /\ Turns[turn + 1] = p /\ UNCHANGED <<waiting, arrived>> /\ Become(v)
  BY <1>1, <1>2, <1>3 DEF PlayerStops, NextPlayer, Become, Disable
<1>5. Hushed(w, v) /\ ~v.players[p].on
  <2>1. CASE ~w.players[p].on
    BY <1>2, <1>3, <2>1, GoodCaches, HushedSelf
  <2>2. CASE w.players[p].on
    <3>1. v = Disable(w, p) /\ w.players[p].seq # None
      BY <1>2, <1>3, <2>2 DEF Good, Playing, Reads
    <3> QED BY <1>3, <3>1, GoodCaches, DisableHushed
  <2> QED BY <2>1, <2>2
<1>6. /\ Good(W') /\ W' = v /\ Awaited'
      /\ \A q \in Players : Stays(W, q) => Stays(v, q)
  BY <1>1, <1>4, <1>5, HushedKept
<1>7. Stays(v, p)
  BY <1>5 DEF Stays
<1>8. Steady' /\ Clocked'
  BY <1>4, <1>6, <1>7, TurnKeeps
<1> QED BY <1>6, <1>8 DEF IInv

LEMMA PlayerRestsInv == ASSUME IInv, NEW p \in Players, PlayerRests(p) PROVE IInv'
<1>1. PICK w : w = W
  OBVIOUS
<1>2. PICK v : v = Reading(w, p)
  OBVIOUS
<1>3. Good(w) /\ w.players = players
  BY <1>1, WorldIs DEF IInv
<1>4. /\ NextPlayer /\ Turns[turn + 1] = p /\ UNCHANGED <<waiting, arrived>> /\ Become(v)
      /\ w.players[p].on /\ MayRead(w, p)
  BY <1>1, <1>2, <1>3 DEF PlayerRests, NextPlayer, Become, Reading
<1>5. /\ Hushed(w, v) /\ v.players = w.players
      /\ HasFont(v, SeqFont[w.players[p].seq])
  BY <1>2, <1>3, <1>4, ReadingHushed
<1>6. /\ Good(W') /\ W' = v /\ Awaited'
      /\ \A q \in Players : Stays(W, q) => Stays(v, q)
  BY <1>1, <1>4, <1>5, HushedKept
<1>7. Stays(v, p)
  BY <1>5 DEF Stays
<1>8. Steady' /\ Clocked'
  BY <1>4, <1>6, <1>7, TurnKeeps
<1> QED BY <1>6, <1>8 DEF IInv

LEMMA PlayerPlaysInv == ASSUME IInv, NEW p \in Players, PlayerPlays(p) PROVE IInv'
<1>1. PICK w : w = W
  OBVIOUS
<1>2. PICK x : x = Reading(w, p)
  OBVIOUS
<1>3. Good(w) /\ w.players = players /\ w.base = base
  BY <1>1, WorldIs DEF IInv
<1>4. PICK insts \in {w.players[p].insts, w.base[SeqFont[w.players[p].seq]]} \ {NoPlace} :
        Become(Sounds(x, p, insts, SeqFont[w.players[p].seq]))
  <2>1. \E insts \in {players[p].insts, base[SeqFont[players[p].seq]]} \ {NoPlace} :
          Become(Sounds(Reading(W, p), p, insts, SeqFont[players[p].seq]))
    BY ONLY PlayerPlays(p), Zenon DEF PlayerPlays, Sounds
  <2> QED BY ONLY <1>1, <1>2, <1>3, <2>1
<1>5. /\ NextPlayer /\ Turns[turn + 1] = p
      /\ w.players[p].on /\ MayRead(w, p)
  BY <1>1, <1>3 DEF PlayerPlays
<1>6. UNCHANGED <<waiting, arrived>>
  BY <1>5 DEF NextPlayer
<1>7. PICK v : v = Sounds(x, p, insts, SeqFont[w.players[p].seq])
  OBVIOUS
<1>8. Good(v) /\ v.caches = x.caches /\ SameSeqs(v, x)
  <2>1. Offered(w, p, insts)
    BY ONLY <1>4 DEF Offered
  <2>2. Good(w) /\ w.players[p].on /\ MayRead(w, p)
    BY ONLY <1>3, <1>5
  <2> QED BY ONLY <1>2, <1>7, <2>1, <2>2, p \in Players, PlaysGood
<1>9. /\ Hushed(w, x) /\ x.players = w.players
      /\ HasFont(x, SeqFont[w.players[p].seq])
  BY ONLY <1>2, <1>3, <1>5, p \in Players, ReadingHushed
<1>10. W' = v
  BY ONLY <1>4, <1>7, <1>8, Becomes
<1>11. NoneStarted(w, v)
  <2>1. NoneStarted(w, x)
    BY <1>3, <1>9, HushedNoneStarted
  <2> QED BY ONLY <1>8, <2>1 DEF NoneStarted, FontCache
<1>12. Awaited'
  BY ONLY IInv, <1>1, <1>6, <1>10, <1>11, StillAwaited DEF IInv
<1>13. \A q \in Players : Stays(x, q) => Stays(v, q)
  BY ONLY <1>8 DEF SameSeqs, Stays, HasSeq, HasFont, SeqCache, FontCache
<1>14. \A q \in Players : Stays(w, q) => Stays(v, q)
  <2>1. \A q \in Players : Stays(w, q) => Stays(x, q)
    BY ONLY <1>3, <1>9, HushedStays
  <2> QED BY ONLY <1>13, <2>1
<1>15. Stays(v, p)
  <2>1. Stays(x, p)
    BY ONLY <1>9 DEF Stays
  <2> QED BY <1>13, <2>1
<1>16. Steady' /\ Clocked'
  BY ONLY IInv, p \in Players, <1>1, <1>5, <1>6, <1>10, <1>14, <1>15, TurnKeeps
<1> QED BY ONLY IInv, <1>8, <1>10, <1>12, <1>16 DEF IInv

LEMMA NoteEndsInv == ASSUME IInv, NoteEnds PROVE IInv'
<1>1. PICK w : w = W
  OBVIOUS
<1>2. PICK n : n = sounding'
  OBVIOUS
<1>3. Good(w) /\ n \subseteq w.sounding
  BY <1>1, <1>2, WorldIs DEF IInv, NoteEnds
<1>4. PICK v : v = World(w.caches, w.base, w.loads, w.players, n)
  OBVIOUS
<1>5. W' = v
  BY <1>1, <1>2, <1>4, WorldIs DEF NoteEnds, W
<1>6. Good(v) /\ v.caches = w.caches /\ v.players = w.players
  <2>1. n \in SUBSET (Fonts \X Cells("font"))
    BY <1>3 DEF Good, Shaped
  <2>2. \A m \in n : m \in w.sounding \/ (HasFont(w, m[1]) /\ FontAt(w, m[1]) = m[2])
    BY <1>3
  <2> QED BY ONLY <1>3, <1>4, <2>1, <2>2, RingGood
<1>7. NoneStarted(w, v)
  BY <1>6 DEF NoneStarted, FontCache
<1>8. Awaited'
  BY <1>1, <1>5, <1>7, StillAwaited DEF IInv, NoteEnds
<1>9. \A p \in Players : Stays(W, p) => Stays(v, p)
  BY ONLY <1>1, <1>6 DEF Stays, HasSeq, HasFont, SeqCache, FontCache
<1>10. Steady'
  BY <1>5, <1>9 DEF NoteEnds, IInv, Steady, Looked
<1>11. Clocked'
  BY DEF NoteEnds, IInv, Clocked
<1> QED BY <1>5, <1>6, <1>8, <1>10, <1>11 DEF IInv
-----------------------------------------------------------------------------
(* The theorems. *)

LEMMA StutterInv == ASSUME IInv, UNCHANGED vars PROVE IInv'
<1>1. UNCHANGED audio /\ UNCHANGED <<waiting, arrived>>
  BY DEF vars
<1>2. Good(W') /\ W' = W /\ Awaited'
  BY <1>1, SameKept
<1>3. Steady'
  BY <1>2 DEF vars, IInv, Steady, Looked
<1>4. Clocked'
  BY DEF vars, IInv, Clocked
<1> QED BY <1>2, <1>3, <1>4 DEF IInv

LEMMA StepInv == IInv /\ [Next]_vars => IInv'
<1> SUFFICES ASSUME IInv, [Next]_vars PROVE IInv'
  OBVIOUS
<1>1. CASE LoadWaits
  BY <1>1, LoadWaitsInv
<1>2. CASE LoadCancelled
  BY <1>2, LoadCancelledInv
<1>3. CASE LoadChunk
  BY <1>3, LoadChunkInv
<1>4. CASE LoadComplete
  BY <1>4, LoadCompleteInv
<1>5. CASE LoadsDone
  BY <1>5, LoadsDoneInv
<1>6. CASE ResetBegin
  BY <1>6, ResetBeginInv
<1>7. CASE ResetGoesOn
  BY <1>7, ResetGoesOnInv
<1>8. CASE HeapInit
  BY <1>8, HeapInitInv
<1>9. ASSUME NEW p \in Players, NEW s \in Seqs, Play(p, s) PROVE IInv'
  BY <1>9, PlayInv
<1>10. ASSUME NEW s \in Seqs, NEW discard \in BOOLEAN, PlayFlagged(s, discard) PROVE IInv'
  BY <1>10, PlayFlaggedInv
<1>11. CASE FontArrived
  BY <1>11, FontArrivedInv
<1>12. ASSUME NEW p \in Players, Stop(p) \/ PlayerStops(p) \/ PlayerRests(p) \/ PlayerPlays(p)
       PROVE  IInv'
  BY <1>12, StopInv, PlayerStopsInv, PlayerRestsInv, PlayerPlaysInv
<1>13. CASE CmdsDone
  BY <1>13, CmdsDoneInv
<1>14. CASE NoteEnds
  BY <1>14, NoteEndsInv
<1>15. CASE BufferDone
  BY <1>15, BufferDoneInv
<1>16. CASE UNCHANGED vars
  BY <1>16, StutterInv
<1> QED BY <1>1, <1>2, <1>3, <1>4, <1>5, <1>6, <1>7, <1>8, <1>9, <1>10, <1>11, <1>12, <1>13, <1>14,
           <1>15, <1>16 DEF Next

LEMMA AlwaysIInv == Spec => []IInv
  BY InitInv, StepInv, PTL DEF Spec

\* The parts of the world are those of the variables.
LEMMA TheWorld ==
  ASSUME IInv
  PROVE  /\ \A t \in Tables : Stored(t, caches[t])
         /\ FontCache(W) = caches["font"] /\ SeqCache(W) = caches["seq"]
<1>1. \A t \in Tables : Stored(t, W.caches[t])
  BY DEF IInv, Good
<1> QED BY <1>1, WorldIs DEF FontCache, SeqCache

\* Every variable has its type, and the persistent pools of gSeqCache and gFontCache are
\* never overdrawn (AudioHeap_Alloc).
THEOREM TypesKept == Spec => []TypeOK
<1>1. IInv => TypeOK
  <2> SUFFICES ASSUME IInv PROVE TypeOK
    OBVIOUS
  <2>1. Shaped(W)
    BY DEF IInv, Good
  <2>2. caches = [t \in Tables |-> caches[t]]
    BY ONLY <2>1, WorldIs DEF Shaped
  <2>3. DOMAIN caches = Tables
    BY ONLY <2>2
  <2>4. /\ base \in [Fonts -> Places("font")] /\ loads \in [1 .. NumLoads -> Load]
        /\ players \in [Players -> Player] /\ sounding \subseteq Fonts \X Cells("font")
    BY ONLY <2>1, WorldIs DEF Shaped
  <2>5. \A t \in Tables : caches[t] \in Cache(t)
    BY TheWorld DEF Stored, Layout
  <2> QED BY <2>3, <2>4, <2>5 DEF TypeOK, IInv, Clocked
<1> QED BY <1>1, AlwaysIInv, PTL

\* The two entries of a temporary pool, which grow towards each other, never overlap
\* (AudioHeap_AllocCached).
THEOREM EntriesStayApart == Spec => []EntriesApart
<1>1. IInv => EntriesApart
  <2> SUFFICES ASSUME IInv, NEW t \in Tables, NEW c, c = caches[t], c.entry[0] # None, c.entry[1] # None
               PROVE  c.at[0] + Size[c.entry[0]] <= c.at[1]
    BY DEF EntriesApart
  <2>1. Layout(t, c)
    BY TheWorld DEF Stored
  <2>2. PICK i, j : i = c.entry[0] /\ j = c.entry[1]
    OBVIOUS
  <2>3. i \in Ids(t) /\ j \in Ids(t)
    BY <2>1, <2>2 DEF Layout, Cache, Sides
  <2>4. c.at[0] = 0 /\ c.at[1] = TempSize[t] - Size[j] /\ Size[i] + Size[j] <= TempSize[t]
    BY <2>1, <2>2 DEF Layout
  <2>5. Size[i] \in Nat /\ Size[j] \in Nat /\ TempSize[t] \in Nat
    BY <2>3, SizeFacts
  <2>6. 0 + Size[i] <= TempSize[t] - Size[j]
    BY ONLY <2>4, <2>5
  <2> QED BY <2>2, <2>4, <2>6
<1> QED BY <1>1, AlwaysIInv, PTL

\* What its load status says can be used is in the cache, whole, and the instruments of a
\* font lead there, whatever was evicted, discarded, reloaded or reset before.
THEOREM StatusIsTrue == Spec => []StatusTrue
<1>1. IInv => StatusTrue
  <2> SUFFICES ASSUME IInv, NEW t \in Tables, NEW i \in Ids(t), caches[t].status[i] \in Usable
               PROVE  /\ Find(t, caches[t], i) # NoPlace
                      /\ Whole(t, i, Find(t, caches[t], i))
                      /\ t = "font" => base[i] = Find(t, caches[t], i)
    BY DEF StatusTrue
  <2>1. Stored(t, caches[t])
    BY TheWorld
  <2>2. Find(t, caches[t], i) # NoPlace /\ Whole(t, i, Find(t, caches[t], i))
    BY <2>1 DEF Stored, Usable, Holds, Whole
  <2>3. t = "font" => base[i] = Find(t, caches[t], i)
    BY TheWorld, WorldIs DEF IInv, Good, Based, HasFont, FontAt, Ids
  <2> QED BY <2>2, <2>3
<1> QED BY <1>1, AlwaysIInv, PTL

\* A load under way has a slot of its own and copies into the entry of its font, for the
\* music that waits (AudioLoad_ProcessAsyncLoads, gAsyncLoads).
THEOREM LoadsStayOwn == Spec => []LoadsOwn
<1>1. IInv => LoadsOwn
  <2> SUFFICES ASSUME IInv, NEW i \in 1 .. NumLoads, loads[i].active
               PROVE  /\ caches["font"].status[loads[i].font] = "IN_PROGRESS"
                      /\ Find("font", caches["font"], loads[i].font) = loads[i].at
                      /\ waiting # None /\ SeqFont[waiting] = loads[i].font
                      /\ \A j \in 1 .. NumLoads : loads[j].active => j = i
    BY DEF LoadsOwn
  <2>1. Copies(W, loads[i]) /\ \A j \in 1 .. NumLoads : loads[j].active => j = i
    BY WorldIs DEF IInv, Good, Loading
  <2>2. /\ loads[i].font \in Fonts /\ caches["font"].status[loads[i].font] = "IN_PROGRESS"
        /\ Find("font", caches["font"], loads[i].font) = loads[i].at
    BY <2>1, TheWorld DEF Copies, FontAt
  <2>3. waiting # None /\ SeqFont[waiting] = loads[i].font
    BY <2>2, TheWorld DEF IInv, Awaited
  <2> QED BY <2>1, <2>2, <2>3
<1> QED BY <1>1, AlwaysIInv, PTL

\* A player that takes its data for usable reads its own sequence, and through the
\* instruments of its channels its own font (AudioSeq_SequencePlayerProcessSequence).
THEOREM PlayersReadTheirs == Spec => []PlayersRead
<1>1. IInv => PlayersRead
  <2> SUFFICES ASSUME IInv, NEW p \in Players, players[p].on, MayRead(W, p)
               PROVE  /\ players[p].data # NoPlace
                      /\ Whole("seq", players[p].seq, players[p].data)
                      /\ players[p].insts # NoPlace =>
                           Whole("font", SeqFont[players[p].seq], players[p].insts)
    BY DEF PlayersRead
  <2>1. PICK s : s = players[p].seq
    OBVIOUS
  <2>2. PICK f : f = SeqFont[s]
    OBVIOUS
  <2>3. Reads(W, players[p]) /\ s \in Seqs /\ f \in Fonts
    <3>1. Playing(W) /\ W.players = players
      BY WorldIs DEF IInv, Good
    <3>2. Reads(W, players[p])
      BY <3>1 DEF Playing
    <3>3. s \in Seqs
      BY <2>1, <3>1, <3>2, SeqOf DEF Reads
    <3> QED BY <2>2, <3>2, <3>3, FontOf
  <2>4. HasSeq(W, s) /\ HasFont(W, f)
    BY <2>1, <2>2, WorldIs DEF MayRead, HasSeq, HasFont, SeqCache, FontCache
  <2>5. /\ players[p].data = SeqAt(W, s)
        /\ players[p].insts # NoPlace => players[p].insts = FontAt(W, f)
    BY <2>1, <2>2, <2>3, <2>4 DEF Reads
  <2>6. SeqAt(W, s) # NoPlace /\ Whole("seq", s, SeqAt(W, s))
    BY <2>3, <2>4, TheWorld DEF Stored, Usable, Holds, Whole, HasSeq, SeqAt, Tables, Ids
  <2>7. Whole("font", f, FontAt(W, f))
    BY <2>3, <2>4, TheWorld DEF Stored, Usable, Holds, Whole, HasFont, FontAt, Tables, Ids
  <2> QED BY <2>1, <2>2, <2>5, <2>6, <2>7
<1> QED BY <1>1, AlwaysIInv, PTL

\* The samples of a sounding note are where it found them: no eviction, discard or load
\* takes their memory while it sounds.
THEOREM NotesStayIntact == Spec => []NotesIntact
<1>1. IInv => NotesIntact
  <2> SUFFICES ASSUME IInv, NEW n \in sounding PROVE Whole("font", n[1], n[2])
    BY DEF NotesIntact
  <2>1. n[1] \in Fonts /\ HasFont(W, n[1]) /\ FontAt(W, n[1]) = n[2]
    BY WorldIs DEF IInv, Good, Shaped, Ringing
  <2>2. Whole("font", n[1], FontAt(W, n[1]))
    BY <2>1, TheWorld DEF Stored, Usable, Holds, Whole, HasFont, FontAt, Tables, Ids
  <2> QED BY <2>1, <2>2
<1> QED BY <1>1, AlwaysIInv, PTL
=============================================================================
