----------------------------- MODULE SaveStore -----------------------------
(***************************************************************************)
(* The saved game: gSaveFile in memory, two checksummed copies of the      *)
(* game's data in the file sf64.rec on a memory card, and the read at boot *)
(* (GSTATE_CHECK_SAVE in src/src/engine/fox_game.c, Save_Read and          *)
(* Save_Write in src/src/engine/fox_save.c, the EEPROM calls rebuilt on    *)
(* the memory card in src/src/ultra_reimpl.c).                             *)
(*                                                                         *)
(* The player pulls the card, puts it back and cuts the power whenever he  *)
(* likes; the card writes a file front to back, so what is cut leaves a    *)
(* prefix of the new file over the old.  The unit of writing here is a     *)
(* byte, finer than the card's.  The game thread waits for every call, so  *)
(* gSaveIOBuffer equals what is read into it or written from it and has no *)
(* variable.                                                               *)
(***************************************************************************)
EXTENDS Integers

CONSTANTS
  W,             \* bits in a byte
  N,             \* bytes of data, sizeof(SaveData)
  Versions,      \* the data the game ever saves
  gDefaultSave,
  None

Byte == [0 .. W - 1 -> BOOLEAN]
Data == [1 .. N -> Byte]
ZeroByte == [b \in 0 .. W - 1 |-> FALSE]

ASSUME SaveSizes ==
  /\ W \in Nat \ {0}
  /\ N \in Nat \ {0}
  /\ Versions \subseteq Data
  /\ gDefaultSave \in Versions
  /\ None \notin Versions
-----------------------------------------------------------------------------
(* The checksum: an exclusive or and a rotation for each byte, and a mark  *)
(* (0x95 in the upper half) that a file of zeroes does not carry.          *)

Xor(a, b) == [i \in 0 .. W - 1 |-> a[i] # b[i]]

\* (Mutated: the bit shifted out is lost.)
Shifted(a) == [i \in 0 .. W - 1 |-> i > 0 /\ a[i - 1]]
Rotated(a) == [i \in 0 .. W - 1 |-> IF i = 0 THEN a[W - 1] ELSE a[i - 1]]

Save_Checksum(d) ==
  LET sum[i \in 0 .. N] == IF i = 0 THEN ZeroByte ELSE Rotated(Xor(sum[i - 1], d[i]))
  IN  [mark |-> TRUE, low |-> sum[N]]

\* A copy of the save, as Save_Write leaves it, and the two of a file.
Copy(d) == [data |-> d, sum |-> Save_Checksum(d)]
SaveFile(d) == [save |-> Copy(d), backup |-> Copy(d)]

ZeroCopy == [data |-> [i \in 1 .. N |-> ZeroByte], sum |-> [mark |-> FALSE, low |-> ZeroByte]]
ZeroFile == [save |-> ZeroCopy, backup |-> ZeroCopy]

Intact(c) == c.sum = Save_Checksum(c.data)

\* What a torn copy can hold: in every place a byte of some version or the
\* zero of a new file.
Patchwork == {d \in Data : \A i \in 1 .. N : d[i] \in {v[i] : v \in Versions} \cup {ZeroByte}}

\* The checksum tells every patchwork from every version it is not.  It has
\* eight bits, so of the game's own versions this is true but for one pair in
\* 256.
ASSUME NoCollision ==
  \A d \in Patchwork, v \in Versions : Save_Checksum(d) = Save_Checksum(v) => d = v
-----------------------------------------------------------------------------
VARIABLES
  pc,          \* the game thread: "check", "read", "loaded", "probe", "write", "play"
  gSaveFile,
  card,        \* TRUE iff the card is in its slot
  kind,        \* "none", "save" or "other": a file of that name with another size
  disk,        \* the 512 bytes of the file when kind is "save"
  written,     \* history: the data of the last write that was completed
  tried,       \* history: the data of the last write that was cut
  harm,        \* history: writes cut since then, 2 for more and for a file blanked
  flaky        \* history: the card was out or failed since the boot

vars == <<pc, gSaveFile, card, kind, disk, written, tried, harm, flaky>>
file == <<kind, disk>>
hist == <<written, tried, harm>>

Init ==
  /\ pc = "check"
  /\ gSaveFile = ZeroFile
  /\ card \in BOOLEAN
  /\ kind \in {"none", "other"}
  /\ disk = ZeroFile
  /\ written = None
  /\ tried = gDefaultSave
  /\ harm = 0
  /\ flaky = FALSE
-----------------------------------------------------------------------------
\* osEepromProbe.  It finds the card; opens the file and opens it again to
\* write; or makes it, blank, if the first open fails, whatever the reason:
\* an open that failed on a file that is there blanks it too.  A file that
\* cannot be made passes for one that is there.
Blanked == harm' = IF kind = "save" THEN 2 ELSE harm

Probe(found, lost) ==
  \/ /\ ~card
     /\ pc' = lost /\ flaky' = TRUE
     /\ UNCHANGED <<file, hist>>
  \/ /\ card /\ kind # "none"
     /\ pc' = found
     /\ UNCHANGED <<file, hist, flaky>>
  \/ /\ card /\ kind # "none"      \* the second open fails
     /\ pc' = lost /\ flaky' = TRUE
     /\ UNCHANGED <<file, hist>>
  \/ /\ card                       \* made, or blanked
     /\ kind' = "save" /\ disk' = ZeroFile /\ Blanked
     /\ pc' = found /\ flaky' = (flaky \/ kind # "none")
     /\ UNCHANGED <<written, tried>>
  \/ /\ card                       \* neither open works
     /\ pc' = found /\ flaky' = TRUE
     /\ UNCHANGED <<file, hist>>
  \/ /\ card /\ kind = "none"      \* made, but its header could not be built
     /\ kind' = "other"
     /\ pc' = lost
     /\ UNCHANGED <<disk, hist, flaky>>

\* Save_Read: the first copy if its checksum is right, or the second.
\* (Mutated: the second is not looked at.)
ReadFirst(f) == [ok |-> Intact(f.save), file |-> f]
Save_Read(f) ==
  IF Intact(f.save)
    THEN [ok |-> TRUE, file |-> f]
    ELSE [ok |-> Intact(f.backup), file |-> [f EXCEPT !.save = f.backup]]

CheckProbe ==
  /\ pc = "check"
  /\ Probe("read", "default")
  /\ UNCHANGED <<gSaveFile, card>>

\* osEepromLongRead: the card out, the file gone or of another size, or an
\* open or a read that fails.
ReadFails ==
  /\ pc = "read"
  /\ pc' = "default"
  /\ flaky' = (flaky \/ ~card \/ kind = "save")
  /\ UNCHANGED <<gSaveFile, card, file, hist>>

ReadFile ==
  /\ pc = "read" /\ card /\ kind = "save"
  /\ gSaveFile' = Save_Read(disk).file
  /\ pc' = IF Save_Read(disk).ok THEN "loaded" ELSE "default"
  /\ UNCHANGED <<card, file, hist, flaky>>

\* gGameState++.
GameStart ==
  /\ pc = "loaded"
  /\ pc' = "play"
  /\ UNCHANGED <<gSaveFile, card, file, hist, flaky>>
-----------------------------------------------------------------------------
\* Save_Write gives the save its checksum and copies it over the backup.
\* (Mutated: the backup stays as it was.)
StaleBackup(f) == [f EXCEPT !.save = Copy(f.save.data)]
Save_Write(f) == [save |-> Copy(f.save.data), backup |-> Copy(f.save.data)]

\* gDefaultSave carries no checksum of its own.
Default == [ZeroCopy EXCEPT !.data = gDefaultSave]

SaveDefault ==
  /\ pc = "default"
  /\ gSaveFile' = Save_Write([save |-> Default, backup |-> Default])
  /\ pc' = "probe"
  /\ UNCHANGED <<card, file, hist, flaky>>

\* The menus and the map change the data...
Change(v) ==
  /\ pc = "play"
  /\ gSaveFile' = [gSaveFile EXCEPT !.save.data = v]
  /\ UNCHANGED <<pc, card, file, hist, flaky>>

\* ... and save it.  None looks at the result.
SaveGame ==
  /\ pc = "play"
  /\ gSaveFile' = Save_Write(gSaveFile)
  /\ pc' = "probe"
  /\ UNCHANGED <<card, file, hist, flaky>>

WriteProbe ==
  /\ pc = "probe"
  /\ Probe("write", "play")
  /\ UNCHANGED <<gSaveFile, card>>

WriteFails ==
  /\ pc = "write"
  /\ pc' = "play"
  /\ UNCHANGED <<gSaveFile, card, file, hist, flaky>>

WriteFile ==
  /\ pc = "write" /\ card /\ kind = "save"
  /\ disk' = gSaveFile
  /\ pc' = "play"
  /\ written' = gSaveFile.save.data
  /\ harm' = 0
  /\ UNCHANGED <<gSaveFile, card, kind, tried, flaky>>
-----------------------------------------------------------------------------
\* The first k units of the new copy over the old: its bytes, then its sum.
Tear(old, new, k) ==
  [data |-> [i \in 1 .. N |-> IF i <= k THEN new.data[i] ELSE old.data[i]],
   sum  |-> IF k > N THEN new.sum ELSE old.sum]

TearFile(old, new, k) ==
  [save |-> Tear(old.save, new.save, k), backup |-> Tear(old.backup, new.backup, k - (N + 1))]

Torn(k) ==
  /\ pc = "write" /\ card /\ kind = "save"
  /\ disk' = TearFile(disk, gSaveFile, k)
  /\ tried' = gSaveFile.save.data
  /\ harm' = IF harm = 0 THEN 1 ELSE 2
  /\ UNCHANGED <<kind, written>>

\* The card is pulled while it is written; the game goes on.
PullTorn(k) ==
  /\ Torn(k)
  /\ card' = FALSE
  /\ pc' = "play"
  /\ UNCHANGED <<gSaveFile, flaky>>

PullOrInsert ==
  /\ card' = ~card
  /\ UNCHANGED <<pc, gSaveFile, file, hist, flaky>>

Boot ==
  /\ pc' = "check"
  /\ gSaveFile' = ZeroFile
  /\ flaky' = FALSE
  /\ UNCHANGED card

PowerCut     == Boot /\ UNCHANGED <<file, hist>>
PowerTorn(k) == Boot /\ Torn(k)

Cuts == 0 .. 2 * (N + 1)

Next ==
  \/ CheckProbe \/ ReadFails \/ ReadFile \/ GameStart
  \/ SaveDefault \/ (\E v \in Versions : Change(v)) \/ SaveGame
  \/ WriteProbe \/ WriteFails \/ WriteFile
  \/ \E k \in Cuts : PullTorn(k) \/ PowerTorn(k)
  \/ PullOrInsert \/ PowerCut

Spec == Init /\ [][Next]_vars
-----------------------------------------------------------------------------
(* Properties. *)

Sums   == {Save_Checksum(d) : d \in Data} \cup {ZeroCopy.sum}
Copies == [data : Data, sum : Sums]
Files  == [save : Copies, backup : Copies]

\* Every variable has its type, and the file about to be written holds the same
\* data twice, each with its checksum (fox_save.c:145-148).
TypeOK ==
  /\ pc \in {"check", "read", "loaded", "default", "probe", "write", "play"}
  /\ gSaveFile \in Files
  /\ card \in BOOLEAN
  /\ kind \in {"none", "save", "other"}
  /\ disk \in Files
  /\ written \in Versions \cup {None}
  /\ tried \in Versions
  /\ harm \in 0 .. 2
  /\ flaky \in BOOLEAN
  /\ pc \in {"probe", "write"} => gSaveFile = SaveFile(gSaveFile.save.data)

\* Whatever was cut, and however often, the game never plays on a mixture of two
\* saves: what the boot accepts, from either copy, is data that the game once
\* saved (fox_save.c:157-181).
Genuine == pc = "loaded" => gSaveFile.save.data \in Versions

\* One cut write costs at most that write: what the boot accepts is the last save
\* completed or the one that was cut, never an older one.
Recovered ==
  pc = "loaded" /\ written # None =>
    \/ harm = 0 /\ gSaveFile.save.data = written
    \/ harm = 1 /\ gSaveFile.save.data \in {written, tried}
    \/ harm = 2

\* The defaults replace a save at boot only if the card was out or failed during
\* the boot, or if more than one write was cut since the last complete one
\* (fox_game.c:433-441).
NeverReset == pc = "default" /\ written # None => flaky \/ harm = 2

\* A copy of which one byte has changed is not accepted, whichever byte it is and
\* whatever it became (fox_save.c:129-142).
Detects ==
  \A c \in {disk.save, disk.backup} : Intact(c) =>
    \A i \in 1 .. N : \A b \in Byte \ {c.data[i]} : ~Intact([c EXCEPT !.data[i] = b])
-----------------------------------------------------------------------------
(* The register of SaveRegister, as the two copies keep it. *)

Started == pc \in {"loaded", "play", "probe", "write"}
Sure == written # None /\ harm < 2

RegisterGame == IF Started THEN gSaveFile.save.data ELSE None
RegisterKept == IF ~Sure THEN Versions ELSE IF harm = 0 THEN {written} ELSE {written, tried}
RegisterTrust == IF ~Sure THEN "lost" ELSE IF harm = 0 THEN "whole" ELSE "torn"

Register == INSTANCE SaveRegister
  WITH game <- RegisterGame, kept <- RegisterKept, trust <- RegisterTrust, fails <- flaky

\* The two copies and their checksums implement the register: whatever is cut,
\* pulled, blanked or switched off, the game starts on a value that the register
\* may hold, and writes like one write to it.
ImplementsRegister == Register!Spec
=============================================================================
