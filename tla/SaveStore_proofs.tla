-------------------------- MODULE SaveStore_proofs --------------------------
(***************************************************************************)
(* The promises of the saved game, for every size of a byte and of a save, *)
(* every set of versions whose checksums do not collide, and any number of *)
(* cuts.  The invariant says what the file holds: patchwork of versions,   *)
(* always; the last completed save twice, if nothing was cut since; and    *)
(* that save with a prefix of another over it, if one write was cut.       *)
(***************************************************************************)
EXTENDS SaveStore, WellFoundedInduction, TLAPS

VersionSums == {Save_Checksum(v) : v \in Versions}
Fragments == [data : Patchwork, sum : VersionSums \cup {ZeroCopy.sum}]

\* What the file holds is patchwork.
Held == disk \in [save : Fragments, backup : Fragments]

\* From the boot on the game plays on a version.
Ram == pc \in {"loaded", "play", "probe", "write"} => gSaveFile.save.data \in Versions

\* What is on the card after a completed write and at most one cut.
Durable ==
  written # None =>
    /\ kind = "save"
    /\ harm = 0 => disk = SaveFile(written)
    /\ harm = 1 => \E k \in Cuts : disk = TearFile(SaveFile(written), SaveFile(tried), k)

IInv == TypeOK /\ Held /\ Ram /\ Durable /\ Recovered /\ NeverReset
-----------------------------------------------------------------------------
(* The copies of a save. *)

\* A version is data, and made of the bytes of versions.
LEMMA VersionFacts == ASSUME NEW v \in Versions PROVE v \in Data /\ v \in Patchwork
  BY SaveSizes DEF Patchwork, Data

\* A copy that Save_Write makes is well formed and intact.
LEMMA CopyFacts ==
  ASSUME NEW d \in Data
  PROVE  Copy(d) \in Copies /\ Intact(Copy(d)) /\ Copy(d).data = d
  BY DEF Copy, Copies, Sums, Intact

\* A copy of a version is a fragment.
LEMMA CopyFragment == ASSUME NEW v \in Versions PROVE Copy(v) \in Fragments
  BY VersionFacts DEF Copy, Fragments, VersionSums

\* A blank file is well formed, and patchwork.
LEMMA ZeroFacts == ZeroFile \in Files /\ ZeroFile \in [save : Fragments, backup : Fragments]
<1>1. ZeroByte \in Byte
  BY DEF ZeroByte, Byte
<1>2. ZeroCopy.data \in Data
  BY <1>1 DEF ZeroCopy, Data
<1>3. ZeroCopy.data \in Patchwork
  BY <1>1, <1>2 DEF ZeroCopy, Patchwork, Data
<1>4. ZeroCopy \in Copies
  BY <1>2 DEF ZeroCopy, Copies, Sums
<1>5. ZeroCopy \in Fragments
  BY <1>3 DEF ZeroCopy, Fragments
<1> QED BY <1>4, <1>5 DEF ZeroFile, Files

\* An intact fragment holds a version: its sum is not that of a blank copy, and
\* by NoCollision its data is the version whose sum it carries.
LEMMA IntactVersion ==
  ASSUME NEW c \in Fragments, Intact(c)
  PROVE  c.data \in Versions /\ \A v \in Versions : c.sum = Save_Checksum(v) => c.data = v
<1>1. c.data \in Patchwork /\ c.sum \in VersionSums \cup {ZeroCopy.sum} /\ c.sum = Save_Checksum(c.data)
  BY DEF Fragments, Intact
<1>2. Save_Checksum(c.data).mark = TRUE /\ ZeroCopy.sum.mark = FALSE
  BY DEF Save_Checksum, ZeroCopy
<1>3. c.sum \in VersionSums
  BY <1>1, <1>2
<1>4. \A v \in Versions : c.sum = Save_Checksum(v) => c.data = v
  BY <1>1, NoCollision
<1> QED BY <1>3, <1>4 DEF VersionSums
-----------------------------------------------------------------------------
(* A write that is cut. *)

\* Fragments torn over fragments are fragments.
LEMMA TearFragment ==
  ASSUME NEW a \in Fragments, NEW b \in Fragments, NEW k \in Int
  PROVE  Tear(a, b, k) \in Fragments
<1> DEFINE t == [i \in 1 .. N |-> IF i <= k THEN b.data[i] ELSE a.data[i]]
<1>1. a.data \in Patchwork /\ b.data \in Patchwork
  BY DEF Fragments
<1>2. t \in Data
  BY <1>1 DEF Patchwork, Data
<1>3. \A i \in 1 .. N : t[i] \in {v[i] : v \in Versions} \cup {ZeroByte}
  BY <1>1 DEF Patchwork
<1>4. t \in Patchwork
  BY <1>2, <1>3 DEF Patchwork
<1> QED BY <1>4 DEF Tear, Fragments

\* So are well-formed copies.
LEMMA TearCopy ==
  ASSUME NEW a \in Copies, NEW b \in Copies, NEW k \in Int
  PROVE  Tear(a, b, k) \in Copies
<1> DEFINE t == [i \in 1 .. N |-> IF i <= k THEN b.data[i] ELSE a.data[i]]
<1>1. t \in Data
  BY DEF Copies, Data
<1> QED BY <1>1 DEF Tear, Copies

\* A tear before a copy leaves it as it was, and one after it has replaced it.
LEMMA TearWhole ==
  ASSUME NEW v \in Data, NEW w \in Data, NEW k \in Int
  PROVE  /\ k <= 0 => Tear(Copy(v), Copy(w), k) = Copy(v)
         /\ k > N => Tear(Copy(v), Copy(w), k) = Copy(w)
  BY SaveSizes DEF Tear, Copy, Data

\* After one cut: the first copy is untouched data under the old sum and the second
\* is the completed save; or the first is the new save.
LEMMA OneCut ==
  ASSUME NEW v \in Versions, NEW w \in Versions, NEW k \in Cuts,
         NEW f, f = TearFile(SaveFile(v), SaveFile(w), k)
  PROVE  \/ f.save.sum = Save_Checksum(v) /\ f.backup = Copy(v)
         \/ f.save = Copy(w)
<1>1. v \in Data /\ w \in Data /\ k \in Int /\ k - (N + 1) \in Int
  BY VersionFacts, SaveSizes DEF Cuts
<1>2. /\ f.save = Tear(Copy(v), Copy(w), k)
      /\ f.backup = Tear(Copy(v), Copy(w), k - (N + 1))
  BY DEF TearFile, SaveFile
<1>3. CASE k > N
  BY <1>1, <1>2, <1>3, TearWhole
<1>4. CASE ~(k > N)
  <2>1. k - (N + 1) <= 0
    BY <1>1, <1>4, SaveSizes
  <2>2. f.backup = Copy(v)
    BY <1>1, <1>2, <2>1, TearWhole
  <2>3. f.save.sum = Save_Checksum(v)
    BY <1>2, <1>4 DEF Tear, Copy
  <2> QED BY <2>2, <2>3
<1> QED BY <1>3, <1>4
-----------------------------------------------------------------------------
(* The steps. *)

\* What Save_Read makes of the file: a version or a failure, the completed save if
\* nothing was cut, and that one or the cut one if one write was.
LEMMA ReadFacts ==
  ASSUME IInv
  PROVE  /\ Save_Read(disk).file \in Files
         /\ Save_Read(disk).ok => Save_Read(disk).file.save.data \in Versions
         /\ written # None /\ harm = 0 =>
              Save_Read(disk).ok /\ Save_Read(disk).file.save.data = written
         /\ written # None /\ harm = 1 =>
              Save_Read(disk).ok /\ Save_Read(disk).file.save.data \in {written, tried}
<1>1. disk \in Files /\ disk.save \in Fragments /\ disk.backup \in Fragments
  BY DEF IInv, TypeOK, Held
<1>2. written \in Versions \cup {None} /\ tried \in Versions
  BY DEF IInv, TypeOK
<1>3. Save_Read(disk).file \in Files
  BY <1>1 DEF Save_Read, Files
<1>4. /\ Intact(disk.save) => Save_Read(disk).ok /\ Save_Read(disk).file.save = disk.save
      /\ ~Intact(disk.save) => /\ Save_Read(disk).ok = Intact(disk.backup)
                               /\ Save_Read(disk).file.save = disk.backup
  BY <1>1 DEF Save_Read, Files
<1>5. Save_Read(disk).ok => Save_Read(disk).file.save.data \in Versions
  BY <1>1, <1>4, IntactVersion
<1>6. ASSUME written # None, harm = 0
      PROVE  Save_Read(disk).ok /\ Save_Read(disk).file.save.data = written
  <2>1. disk.save = Copy(written)
    BY <1>6 DEF IInv, Durable, SaveFile
  <2>2. Intact(disk.save) /\ disk.save.data = written
    BY <1>2, <1>6, <2>1, VersionFacts, CopyFacts
  <2> QED BY <1>4, <2>2
<1>7. ASSUME written # None, harm = 1
      PROVE  Save_Read(disk).ok /\ Save_Read(disk).file.save.data \in {written, tried}
  <2>1. PICK k \in Cuts : disk = TearFile(SaveFile(written), SaveFile(tried), k)
    BY <1>7 DEF IInv, Durable
  <2>2. /\ Intact(Copy(written)) /\ Copy(written).data = written
        /\ Intact(Copy(tried)) /\ Copy(tried).data = tried
    BY <1>2, <1>7, VersionFacts, CopyFacts
  <2>3. CASE disk.save = Copy(tried)
    BY <1>4, <2>2, <2>3
  <2>4. CASE disk.save.sum = Save_Checksum(written) /\ disk.backup = Copy(written)
    <3>1. Intact(disk.save) => disk.save.data = written
      BY <1>1, <1>2, <1>7, <2>4, IntactVersion
    <3> QED BY <1>4, <2>2, <2>4, <3>1
  <2> QED BY <1>2, <1>7, <2>1, <2>3, <2>4, OneCut
<1> QED BY <1>3, <1>5, <1>6, <1>7

\* osEepromProbe leaves the file as it is, blanks it or spoils one never written,
\* and reports failure only for a failing card or for a file never written.
LEMMA ProbeFacts ==
  ASSUME IInv, NEW found, NEW lost, Probe(found, lost)
  PROVE  /\ pc' \in {found, lost}
         /\ pc' = lost => lost = found \/ flaky' \/ written = None
         /\ kind' \in {"none", "save", "other"} /\ flaky' \in BOOLEAN
         /\ disk' \in Files /\ Held'
         /\ harm' \in 0 .. 2 /\ written' = written /\ tried' = tried
         /\ Durable'
<1> USE DEF Probe, file, hist
<1>1. kind \in {"none", "save", "other"} /\ flaky \in BOOLEAN /\ disk \in Files /\ harm \in 0 .. 2
  BY DEF IInv, TypeOK
<1>2. written # None => kind = "save"
  BY DEF IInv, Durable
<1>3. CASE UNCHANGED <<kind, disk, written, tried, harm>>
  <2>1. Held' /\ Durable'
    BY <1>3 DEF IInv, Held, Durable
  <2> QED BY <1>1, <1>2, <1>3, <2>1
<1>4. CASE /\ kind' = "save" /\ disk' = ZeroFile /\ Blanked
           /\ pc' = found /\ flaky' = (flaky \/ kind # "none")
           /\ UNCHANGED <<written, tried>>
  <2>1. harm' \in 0 .. 2 /\ (written # None => harm' = 2)
    BY <1>1, <1>2, <1>4 DEF Blanked
  <2>2. Held' /\ Durable'
    BY <1>4, <2>1, ZeroFacts DEF Held, Durable
  <2> QED BY <1>1, <1>4, <2>1, <2>2, ZeroFacts
<1>5. CASE /\ kind = "none" /\ kind' = "other" /\ pc' = lost
           /\ UNCHANGED <<disk, hist, flaky>>
  <2>1. written = None
    BY <1>2, <1>5
  <2>2. Held' /\ Durable'
    BY <1>5, <2>1 DEF IInv, Held, Durable
  <2> QED BY <1>1, <1>5, <2>1, <2>2
<1> QED BY <1>3, <1>4, <1>5

\* A torn write, whether the card is pulled or the power cut.
LEMMA TornFacts ==
  ASSUME IInv, NEW k \in Cuts, Torn(k)
  PROVE  /\ disk' \in Files /\ Held' /\ Durable'
         /\ kind' = kind /\ written' = written
         /\ tried' \in Versions /\ harm' \in {1, 2}
<1> DEFINE g == gSaveFile.save.data
<1>1. g \in Versions /\ gSaveFile = SaveFile(g)
  BY DEF IInv, TypeOK, Ram, Torn
<1>2. k \in Int /\ k - (N + 1) \in Int
  BY SaveSizes DEF Cuts
<1>3. Copy(g) \in Copies /\ Copy(g) \in Fragments
  BY <1>1, VersionFacts, CopyFacts, CopyFragment
<1>4. disk' = [save |-> Tear(disk.save, Copy(g), k),
               backup |-> Tear(disk.backup, Copy(g), k - (N + 1))]
  BY <1>1 DEF Torn, TearFile, SaveFile
<1>5. /\ disk.save \in Copies /\ disk.backup \in Copies
      /\ disk.save \in Fragments /\ disk.backup \in Fragments
  BY DEF IInv, TypeOK, Files, Held
<1>6. disk' \in Files
  BY <1>2, <1>3, <1>4, <1>5, TearCopy DEF Files
<1>7. Held'
  BY <1>2, <1>3, <1>4, <1>5, TearFragment DEF Held
<1>8. kind' = kind /\ kind = "save" /\ written' = written /\ tried' = g
  BY DEF Torn
<1>9. harm' \in {1, 2} /\ (harm' = 1 => harm = 0)
  BY DEF Torn
<1>10. ASSUME written # None, harm' = 1
       PROVE  disk' = TearFile(SaveFile(written), SaveFile(g), k)
  BY <1>1, <1>9, <1>10 DEF IInv, Durable, Torn
<1>11. Durable'
  BY <1>8, <1>9, <1>10 DEF Durable
<1> QED BY <1>1, <1>6, <1>7, <1>8, <1>9, <1>11

\* The initial state satisfies the inductive invariant.
LEMMA InitIInv == Init => IInv
<1> SUFFICES ASSUME Init PROVE IInv
  OBVIOUS
<1>0. card \in BOOLEAN /\ flaky \in BOOLEAN
  BY Zenon DEF Init
<1>1. TypeOK
  <2>1. /\ pc = "check" /\ gSaveFile = ZeroFile /\ kind \in {"none", "other"} /\ disk = ZeroFile
        /\ written = None /\ tried = gDefaultSave /\ harm = 0
    BY DEF Init
  <2> QED BY <1>0, <2>1, ZeroFacts, SaveSizes DEF TypeOK
<1>2. Held
  BY ZeroFacts DEF Init, Held
<1>3. Ram /\ Durable /\ Recovered /\ NeverReset
  BY DEF Init, Ram, Durable, Recovered, NeverReset
<1> QED BY <1>1, <1>2, <1>3 DEF IInv

\* Steps that leave the card and what was written to it alone keep what is said of it.
LEMMA FileKept ==
  ASSUME IInv, UNCHANGED <<kind, disk, written, tried, harm>>
  PROVE  /\ Held' /\ Durable'
         /\ disk' \in Files /\ kind' \in {"none", "save", "other"}
         /\ written' \in Versions \cup {None} /\ tried' \in Versions /\ harm' \in 0 .. 2
  BY DEF IInv, TypeOK, Held, Durable

\* Save_Write makes a file of two copies of its data.
LEMMA WriteFacts ==
  ASSUME NEW f, f.save.data \in Versions
  PROVE  /\ Save_Write(f) \in Files
         /\ Save_Write(f) = SaveFile(f.save.data)
         /\ Save_Write(f).save.data = f.save.data
<1>1. Copy(f.save.data) \in Copies /\ Copy(f.save.data).data = f.save.data
  BY VersionFacts, CopyFacts
<1> QED BY <1>1 DEF Save_Write, SaveFile, Files

\* Every step preserves the inductive invariant.
LEMMA NextIInv == IInv /\ [Next]_vars => IInv'
<1> SUFFICES ASSUME IInv, [Next]_vars PROVE IInv'
  OBVIOUS
<1>0. TypeOK /\ Ram /\ Recovered /\ NeverReset
  BY DEF IInv
<1>1. CASE CheckProbe
  <2>1. Probe("read", "default") /\ UNCHANGED <<gSaveFile, card>>
    BY <1>1 DEF CheckProbe
  <2>2. TypeOK' /\ Held' /\ Durable'
    BY <1>0, <2>1, ProbeFacts DEF TypeOK
  <2>3. Ram' /\ Recovered' /\ NeverReset'
    BY <2>1, ProbeFacts DEF Ram, Recovered, NeverReset
  <2> QED BY <2>2, <2>3 DEF IInv
<1>2. CASE ReadFails
  <2>1. TypeOK' /\ Held' /\ Durable'
    BY <1>0, <1>2, FileKept DEF ReadFails, file, hist, TypeOK
  <2>2. Ram' /\ Recovered' /\ NeverReset'
    BY <1>0, <1>2 DEF ReadFails, file, hist, Ram, Recovered, NeverReset, IInv, Durable
  <2> QED BY <2>1, <2>2 DEF IInv
<1>3. CASE ReadFile
  <2>1. UNCHANGED <<card, kind, disk, written, tried, harm, flaky>>
    BY <1>3 DEF ReadFile, file, hist
  <2>2. /\ gSaveFile' = Save_Read(disk).file
        /\ pc' = IF Save_Read(disk).ok THEN "loaded" ELSE "default"
    BY <1>3 DEF ReadFile
  <2>3. TypeOK' /\ Held' /\ Durable'
    BY <1>0, <2>1, <2>2, FileKept, ReadFacts DEF TypeOK
  <2>4. Ram' /\ Recovered' /\ NeverReset'
    BY <1>0, <2>1, <2>2, ReadFacts DEF TypeOK, Ram, Recovered, NeverReset
  <2> QED BY <2>3, <2>4 DEF IInv
<1>4. CASE GameStart
  <2>1. TypeOK' /\ Held' /\ Durable'
    BY <1>0, <1>4, FileKept DEF GameStart, file, hist, TypeOK
  <2>2. Ram' /\ Recovered' /\ NeverReset'
    BY <1>0, <1>4 DEF GameStart, file, hist, Ram, Recovered, NeverReset
  <2> QED BY <2>1, <2>2 DEF IInv
<1>5. CASE SaveDefault
  <2> DEFINE f == [save |-> Default, backup |-> Default]
  <2>1. f.save.data \in Versions
    BY SaveSizes DEF Default, ZeroCopy
  <2>2. gSaveFile' = Save_Write(f) /\ pc' = "probe" /\ UNCHANGED <<card, kind, disk, written, tried, harm, flaky>>
    BY <1>5 DEF SaveDefault, file, hist
  <2> HIDE DEF f
  <2>3. TypeOK' /\ Held' /\ Durable'
    BY <1>0, <2>1, <2>2, FileKept, WriteFacts DEF TypeOK
  <2>4. Ram' /\ Recovered' /\ NeverReset'
    BY <2>1, <2>2, WriteFacts DEF Ram, Recovered, NeverReset
  <2> QED BY <2>3, <2>4 DEF IInv
<1>6. ASSUME NEW v \in Versions, Change(v) PROVE IInv'
  <2>1. gSaveFile' \in Files /\ gSaveFile'.save.data = v
    BY <1>0, <1>6, VersionFacts DEF Change, TypeOK, Files, Copies
  <2>2. TypeOK' /\ Held' /\ Durable'
    BY <1>0, <1>6, <2>1, FileKept DEF Change, file, hist, TypeOK
  <2>3. Ram' /\ Recovered' /\ NeverReset'
    BY <1>6, <2>1 DEF Change, Ram, Recovered, NeverReset
  <2> QED BY <2>2, <2>3 DEF IInv
<1>7. CASE SaveGame
  <2>1. gSaveFile.save.data \in Versions
    BY <1>0, <1>7 DEF SaveGame, Ram
  <2>2. gSaveFile' = Save_Write(gSaveFile) /\ pc' = "probe" /\ UNCHANGED <<card, kind, disk, written, tried, harm, flaky>>
    BY <1>7 DEF SaveGame, file, hist
  <2>3. TypeOK' /\ Held' /\ Durable'
    BY <1>0, <2>1, <2>2, FileKept, WriteFacts DEF TypeOK
  <2>4. Ram' /\ Recovered' /\ NeverReset'
    BY <2>1, <2>2, WriteFacts DEF Ram, Recovered, NeverReset
  <2> QED BY <2>3, <2>4 DEF IInv
<1>8. CASE WriteProbe
  <2>1. Probe("write", "play") /\ UNCHANGED <<gSaveFile, card>> /\ pc = "probe"
    BY <1>8 DEF WriteProbe
  <2>2. TypeOK' /\ Held' /\ Durable'
    BY <1>0, <2>1, ProbeFacts DEF TypeOK
  <2>3. Ram' /\ Recovered' /\ NeverReset'
    BY <1>0, <2>1, ProbeFacts DEF Ram, Recovered, NeverReset
  <2> QED BY <2>2, <2>3 DEF IInv
<1>9. CASE WriteFails
  <2>1. TypeOK' /\ Held' /\ Durable'
    BY <1>0, <1>9, FileKept DEF WriteFails, file, hist, TypeOK
  <2>2. Ram' /\ Recovered' /\ NeverReset'
    BY <1>0, <1>9 DEF WriteFails, Ram, Recovered, NeverReset
  <2> QED BY <2>1, <2>2 DEF IInv
<1>10. CASE WriteFile
  <2> DEFINE g == gSaveFile.save.data
  <2>1. g \in Versions /\ gSaveFile = SaveFile(g) /\ gSaveFile \in Files
    BY <1>0, <1>10 DEF WriteFile, TypeOK, Ram
  <2>2. /\ disk' = SaveFile(g) /\ written' = g /\ harm' = 0 /\ kind' = "save" /\ pc' = "play"
        /\ UNCHANGED <<gSaveFile, card, tried, flaky>>
    BY <1>10, <2>1 DEF WriteFile
  <2>3. Held' /\ Durable'
    BY <2>1, <2>2, CopyFragment DEF Held, Durable, SaveFile
  <2>4. TypeOK'
    BY <1>0, <2>1, <2>2 DEF TypeOK
  <2>5. Ram' /\ Recovered' /\ NeverReset'
    BY <2>1, <2>2 DEF Ram, Recovered, NeverReset
  <2> QED BY <2>3, <2>4, <2>5 DEF IInv
<1>11. ASSUME NEW k \in Cuts, PullTorn(k) PROVE IInv'
  <2>1. Torn(k) /\ pc = "write" /\ pc' = "play" /\ card' \in BOOLEAN /\ UNCHANGED <<gSaveFile, flaky>>
    BY <1>11 DEF PullTorn, Torn
  <2>2. /\ disk' \in Files /\ Held' /\ Durable' /\ kind' = kind /\ written' = written
        /\ tried' \in Versions /\ harm' \in {1, 2}
    BY <2>1, TornFacts
  <2>4. TypeOK'
    BY <1>0, <2>1, <2>2 DEF TypeOK
  <2>3. Ram' /\ Recovered' /\ NeverReset'
    BY <1>0, <2>1 DEF Ram, Recovered, NeverReset
  <2> QED BY <2>2, <2>3, <2>4 DEF IInv
<1>12. ASSUME NEW k \in Cuts, PowerTorn(k) PROVE IInv'
  <2>1. Torn(k) /\ pc' = "check" /\ gSaveFile' = ZeroFile /\ flaky' \in BOOLEAN /\ UNCHANGED card
    BY <1>12 DEF PowerTorn, Boot
  <2>2. /\ disk' \in Files /\ Held' /\ Durable' /\ kind' = kind /\ written' = written
        /\ tried' \in Versions /\ harm' \in {1, 2}
    BY <2>1, TornFacts
  <2>4. TypeOK'
    BY <1>0, <2>1, <2>2, ZeroFacts DEF TypeOK
  <2>3. Ram' /\ Recovered' /\ NeverReset'
    BY <2>1 DEF Ram, Recovered, NeverReset
  <2> QED BY <2>2, <2>3, <2>4 DEF IInv
<1>13. CASE PullOrInsert
  <2>1. TypeOK' /\ Held' /\ Durable'
    BY <1>0, <1>13, FileKept DEF PullOrInsert, file, hist, TypeOK
  <2>2. Ram' /\ Recovered' /\ NeverReset'
    BY <1>0, <1>13 DEF PullOrInsert, file, hist, Ram, Recovered, NeverReset
  <2> QED BY <2>1, <2>2 DEF IInv
<1>14. CASE PowerCut
  <2>1. TypeOK' /\ Held' /\ Durable'
    BY <1>0, <1>14, FileKept, ZeroFacts DEF PowerCut, Boot, file, hist, TypeOK
  <2>2. Ram' /\ Recovered' /\ NeverReset'
    BY <1>14 DEF PowerCut, Boot, Ram, Recovered, NeverReset
  <2> QED BY <2>1, <2>2 DEF IInv
<1>15. CASE UNCHANGED vars
  <2>1. TypeOK' /\ Held' /\ Durable'
    BY <1>0, <1>15, FileKept DEF vars, TypeOK
  <2>2. Ram' /\ Recovered' /\ NeverReset'
    BY <1>0, <1>15 DEF vars, Ram, Recovered, NeverReset
  <2> QED BY <2>1, <2>2 DEF IInv
<1> QED
  BY <1>1, <1>2, <1>3, <1>4, <1>5, <1>6, <1>7, <1>8, <1>9, <1>10, <1>11, <1>12, <1>13, <1>14, <1>15 DEF Next

\* The inductive invariant holds in every reachable state.
LEMMA InvariantHolds == Spec => []IInv
  BY InitIInv, NextIInv, PTL DEF Spec
-----------------------------------------------------------------------------
\* Save_Write and Save_Read keep their data's shape, and what is about to be written
\* is the same data twice with its checksum.
THEOREM SaveTypeCorrect == Spec => []TypeOK
<1>1. IInv => TypeOK
  BY DEF IInv
<1> QED BY <1>1, InvariantHolds, PTL

\* Whatever is cut, and however often, Save_Read accepts data that was saved or none.
THEOREM NeverAMixture == Spec => []Genuine
<1>1. IInv => Genuine
  BY DEF IInv, Ram, Genuine
<1> QED BY <1>1, InvariantHolds, PTL

\* A boot after one cut write finds the last save completed or the one that was cut.
THEOREM LastSaveRecovered == Spec => []Recovered
<1>1. IInv => Recovered
  BY DEF IInv
<1> QED BY <1>1, InvariantHolds, PTL

\* The defaults replace a save at boot only after a failing card or two cut writes.
THEOREM SaveNeverReset == Spec => []NeverReset
<1>1. IInv => NeverReset
  BY DEF IInv
<1> QED BY <1>1, InvariantHolds, PTL
-----------------------------------------------------------------------------
(* The register. *)

\* It sees of the file only what was written and cut.
LEMMA RegisterKeeps ==
  ASSUME UNCHANGED <<written, tried, harm>>
  PROVE  RegisterKept' = RegisterKept /\ RegisterTrust' = RegisterTrust
  BY DEF RegisterKept, RegisterTrust, Sure

\* Steps it does not see, and those in which the card fails.
LEMMA RegisterRests ==
  ASSUME UNCHANGED <<written, tried, harm>>, RegisterGame' = RegisterGame, flaky' \in {flaky, TRUE}
  PROVE  [Register!Next]_(Register!vars)
<1>1. CASE flaky' = flaky
  BY <1>1, RegisterKeeps DEF Register!vars
<1>2. CASE flaky' = TRUE
  BY <1>2, RegisterKeeps DEF Register!Next, Register!Fail
<1> QED BY <1>1, <1>2

\* osEepromProbe fails, or not, and blanks a file only by a failure.
LEMMA ProbeRegister ==
  ASSUME IInv, NEW found, NEW lost, Probe(found, lost), RegisterGame' = RegisterGame
  PROVE  [Register!Next]_(Register!vars)
<1>1. flaky \in BOOLEAN
  BY DEF IInv, TypeOK
<1>2. \/ UNCHANGED <<written, tried, harm>> /\ flaky' \in {flaky, TRUE}
      \/ harm' = 2 /\ flaky' = TRUE
  BY <1>1 DEF Probe, Blanked, file, hist
<1>3. CASE harm' = 2 /\ flaky' = TRUE
  <2>1. RegisterKept' = Versions /\ RegisterTrust' = "lost"
    BY <1>3 DEF RegisterKept, RegisterTrust, Sure
  <2> QED BY <1>3, <2>1 DEF Register!Next, Register!Fail, Register!Lose
<1> QED BY <1>2, <1>3, RegisterRests

\* A torn write is a cut of the register, whether the card is pulled or the power cut.
LEMMA TornRegister ==
  ASSUME IInv, NEW k \in Cuts, Torn(k)
  PROVE  Register!Cut
<1>1. /\ written' = written /\ tried' = gSaveFile.save.data
      /\ harm' = (IF harm = 0 THEN 1 ELSE 2) /\ pc = "write"
  BY DEF Torn
<1>2. harm \in 0 .. 2 /\ None \notin Versions /\ gSaveFile.save.data \in Versions
  BY <1>1, SaveSizes DEF IInv, TypeOK, Ram
<1>3. RegisterGame = gSaveFile.save.data /\ RegisterGame # None
  BY <1>1, <1>2 DEF RegisterGame, Started
<1>4. CASE Sure /\ harm = 0
  <2>1. RegisterTrust = "whole" /\ RegisterKept = {written}
    BY <1>4 DEF RegisterKept, RegisterTrust
  <2>2. Sure' /\ harm' = 1
    BY <1>1, <1>4 DEF Sure
  <2>3. RegisterTrust' = "torn" /\ RegisterKept' = {written, gSaveFile.save.data}
    BY <1>1, <2>2 DEF RegisterKept, RegisterTrust
  <2> QED BY <1>3, <2>1, <2>3 DEF Register!Cut
<1>5. CASE ~(Sure /\ harm = 0)
  <2>1. RegisterTrust # "whole"
    BY <1>5 DEF RegisterTrust
  <2>2. ~Sure'
    BY <1>1, <1>2, <1>5 DEF Sure
  <2>3. RegisterTrust' = "lost" /\ RegisterKept' = Versions
    BY <2>2 DEF RegisterKept, RegisterTrust
  <2> QED BY <1>3, <2>1, <2>3 DEF Register!Cut, Register!Lose
<1> QED BY <1>4, <1>5

\* Every step of the two copies is a step of the register or none.
LEMMA StepRegister == IInv /\ [Next]_vars => [Register!Next]_(Register!vars)
<1> SUFFICES ASSUME IInv, [Next]_vars PROVE [Register!Next]_(Register!vars)
  OBVIOUS
<1>0. /\ TypeOK /\ Ram /\ NeverReset /\ None \notin Versions
      /\ written \in Versions \cup {None} /\ harm \in 0 .. 2 /\ flaky \in BOOLEAN
  BY SaveSizes DEF IInv, TypeOK
<1>1. CASE CheckProbe
  <2>1. RegisterGame' = RegisterGame
    BY <1>1, ProbeFacts DEF CheckProbe, RegisterGame, Started
  <2> QED BY <1>1, <2>1, ProbeRegister DEF CheckProbe
<1>2. CASE ReadFails
  BY <1>0, <1>2, RegisterRests DEF ReadFails, hist, RegisterGame, Started
<1>3. CASE ReadFile
  <2>1. /\ pc = "read" /\ gSaveFile' = Save_Read(disk).file
        /\ pc' = IF Save_Read(disk).ok THEN "loaded" ELSE "default"
        /\ UNCHANGED <<written, tried, harm, flaky>>
    BY <1>3 DEF ReadFile, hist
  <2>2. RegisterGame = None
    BY <2>1 DEF RegisterGame, Started
  <2>3. CASE ~Save_Read(disk).ok
    <3>1. RegisterGame' = RegisterGame
      BY <2>1, <2>2, <2>3 DEF RegisterGame, Started
    <3> QED BY <2>1, <3>1, RegisterRests
  <2>4. CASE Save_Read(disk).ok
    <3>1. RegisterGame' = Save_Read(disk).file.save.data
      BY <2>1, <2>4 DEF RegisterGame, Started
    <3>2. RegisterGame' \in RegisterKept
      BY <1>0, <2>4, <3>1, ReadFacts DEF RegisterKept, Sure
    <3> QED BY <2>1, <2>2, <3>2, RegisterKeeps DEF Register!Next, Register!Start
  <2> QED BY <2>3, <2>4
<1>4. CASE GameStart
  BY <1>4, RegisterRests DEF GameStart, hist, RegisterGame, Started
<1>5. CASE SaveDefault
  <2> DEFINE f == [save |-> Default, backup |-> Default]
  <2>1. f.save.data = gDefaultSave /\ gDefaultSave \in Versions
    BY SaveSizes DEF Default, ZeroCopy
  <2>2. gSaveFile' = Save_Write(f) /\ pc = "default" /\ pc' = "probe" /\ UNCHANGED <<written, tried, harm, flaky>>
    BY <1>5 DEF SaveDefault, hist
  <2> HIDE DEF f
  <2>3. RegisterGame = None /\ RegisterGame' = gDefaultSave
    BY <2>1, <2>2, WriteFacts DEF RegisterGame, Started
  <2>4. RegisterTrust = "lost" \/ flaky
    BY <1>0, <2>2 DEF NeverReset, RegisterTrust, Sure
  <2> QED BY <2>2, <2>3, <2>4, RegisterKeeps DEF Register!Next, Register!StartAnew
<1>6. ASSUME NEW v \in Versions, Change(v) PROVE [Register!Next]_(Register!vars)
  <2>1. pc = "play" /\ pc' = pc /\ UNCHANGED <<written, tried, harm, flaky>>
    BY <1>6 DEF Change, hist
  <2>2. gSaveFile'.save.data = v
    BY <1>0, <1>6 DEF Change, TypeOK, Files, Copies
  <2>3. RegisterGame # None /\ RegisterGame' \in Versions
    BY <1>0, <2>1, <2>2 DEF RegisterGame, Started, Ram
  <2> QED BY <2>1, <2>3, RegisterKeeps DEF Register!Next, Register!Change
<1>7. CASE SaveGame
  <2>1. gSaveFile' = Save_Write(gSaveFile) /\ pc = "play" /\ pc' = "probe" /\ UNCHANGED <<written, tried, harm, flaky>>
    BY <1>7 DEF SaveGame, hist
  <2>2. gSaveFile'.save.data = gSaveFile.save.data
    BY <1>0, <2>1, WriteFacts DEF Ram
  <2>3. RegisterGame' = RegisterGame
    BY <2>1, <2>2 DEF RegisterGame, Started
  <2> QED BY <2>1, <2>3, RegisterRests
<1>8. CASE WriteProbe
  <2>1. Probe("write", "play") /\ gSaveFile' = gSaveFile /\ pc = "probe"
    BY <1>8 DEF WriteProbe
  <2>2. pc' \in {"write", "play"}
    BY <2>1, ProbeFacts
  <2>3. RegisterGame' = RegisterGame
    BY <2>1, <2>2 DEF RegisterGame, Started
  <2> QED BY <2>1, <2>3, ProbeRegister
<1>9. CASE WriteFails
  BY <1>9, RegisterRests DEF WriteFails, hist, RegisterGame, Started
<1>10. CASE WriteFile
  <2> DEFINE g == gSaveFile.save.data
  <2>1. g \in Versions /\ pc = "write"
    BY <1>0, <1>10 DEF WriteFile, Ram
  <2>2. written' = g /\ harm' = 0 /\ pc' = "play" /\ gSaveFile' = gSaveFile /\ flaky' = flaky
    BY <1>10 DEF WriteFile
  <2>3. RegisterGame = g /\ RegisterGame' = g
    BY <2>1, <2>2 DEF RegisterGame, Started
  <2>4. Sure'
    BY <1>0, <2>1, <2>2 DEF Sure
  <2>5. RegisterKept' = {g} /\ RegisterTrust' = "whole"
    BY <2>2, <2>4 DEF RegisterKept, RegisterTrust
  <2>6. g # None
    BY <1>0, <2>1
  <2> QED BY <2>2, <2>3, <2>5, <2>6 DEF Register!Next, Register!Save
<1>11. ASSUME NEW k \in Cuts, PullTorn(k) PROVE [Register!Next]_(Register!vars)
  <2>1. Torn(k) /\ pc = "write" /\ pc' = "play" /\ UNCHANGED <<gSaveFile, flaky>>
    BY <1>11 DEF PullTorn, Torn
  <2>2. RegisterGame' = RegisterGame
    BY <2>1 DEF RegisterGame, Started
  <2> QED BY <2>1, <2>2, TornRegister DEF Register!Next, Register!CutByCard
<1>12. ASSUME NEW k \in Cuts, PowerTorn(k) PROVE [Register!Next]_(Register!vars)
  <2>1. Torn(k) /\ pc' = "check" /\ flaky' = FALSE
    BY <1>12 DEF PowerTorn, Boot
  <2>2. RegisterGame' = None
    BY <2>1 DEF RegisterGame, Started
  <2> QED BY <2>1, <2>2, TornRegister DEF Register!Next, Register!CutByPower, Register!Off
<1>13. CASE PullOrInsert
  BY <1>13, RegisterRests DEF PullOrInsert, hist, RegisterGame, Started
<1>14. CASE PowerCut
  <2>1. pc' = "check" /\ flaky' = FALSE /\ UNCHANGED <<written, tried, harm>>
    BY <1>14 DEF PowerCut, Boot, hist
  <2>2. RegisterGame' = None
    BY <2>1 DEF RegisterGame, Started
  <2> QED BY <2>1, <2>2, RegisterKeeps DEF Register!Next, Register!SwitchedOff, Register!Off
<1>15. CASE UNCHANGED vars
  BY <1>15, RegisterRests DEF vars, RegisterGame, Started
<1> QED
  BY <1>1, <1>2, <1>3, <1>4, <1>5, <1>6, <1>7, <1>8, <1>9, <1>10, <1>11, <1>12, <1>13, <1>14, <1>15 DEF Next

\* The two copies implement the register: its value survives one cut
\* write, and a new game replaces it only when the card fails or it may be lost.
THEOREM CopiesImplementRegister == Spec => ImplementsRegister
<1>1. Init => Register!Init
  BY DEF Init, Register!Init, RegisterGame, RegisterKept, RegisterTrust, Started, Sure
<1>2. IInv /\ [Next]_vars => [Register!Next]_(Register!vars)
  BY StepRegister
<1> QED BY <1>1, <1>2, InvariantHolds, PTL DEF Spec, ImplementsRegister, Register!Spec
-----------------------------------------------------------------------------
(* The checksum of a changed byte. *)

\* Induction over the numbers, with a set for the property.
LEMMA SetInduction ==
  ASSUME NEW T, 0 \in T, \A n \in Nat : n \in T => n + 1 \in T
  PROVE  \A n \in Nat : n \in T
<1> SUFFICES ASSUME NEW m \in Nat, m \notin T PROVE FALSE
  OBVIOUS
<1>1. PICK R : R = {ss \in Nat \X Nat : ss[1] < ss[2]}
  OBVIOUS
<1>2. IsWellFoundedOn(R, Nat)
  BY <1>1, NatLessThanWellFounded DEF OpToRel
<1>3. PICK D : D = Nat \ T
  OBVIOUS
<1>4. D \subseteq Nat /\ D # {}
  BY <1>3
<1>5. \E x \in D : \A y \in D : ~ (<<y, x>> \in R)
  BY ONLY <1>2, <1>4, WFMin
<1>6. PICK x \in D : \A y \in D : ~ (<<y, x>> \in R)
  BY <1>5
<1>7. x \in Nat /\ x \notin T /\ x # 0 /\ x - 1 \in Nat /\ (x - 1) + 1 = x
  BY <1>3, <1>6
<1>8. x - 1 \notin T
  BY <1>7
<1>9. x - 1 \in D /\ <<x - 1, x>> \in R
  BY <1>1, <1>3, <1>7, <1>8
<1> QED BY <1>6, <1>9

\* The sums after each of the first n bytes.
IsRun(d, n, f) == f = [i \in 0 .. n |-> IF i = 0 THEN ZeroByte ELSE Rotated(Xor(f[i - 1], d[i]))]
Run(d) == CHOOSE f : IsRun(d, N, f)

LEMMA ChecksumIsRun == ASSUME NEW d PROVE Save_Checksum(d) = [mark |-> TRUE, low |-> Run(d)[N]]
  BY DEF Save_Checksum, Run, IsRun

LEMMA RunExists == ASSUME NEW d PROVE \E f : IsRun(d, N, f)
<1>1. PICK T : T = {n \in Nat : \E f : IsRun(d, n, f)}
  OBVIOUS
<1>2. 0 \in T
  <2>1. PICK f : f = [i \in 0 .. 0 |-> ZeroByte]
    OBVIOUS
  <2>2. f = [i \in 0 .. 0 |-> IF i = 0 THEN ZeroByte ELSE Rotated(Xor(f[i - 1], d[i]))]
    BY <2>1
  <2> QED BY <1>1, <2>2 DEF IsRun
<1>3. ASSUME NEW n \in Nat, n \in T PROVE n + 1 \in T
  <2>1. PICK f : IsRun(d, n, f)
    BY <1>1, <1>3
  <2>2. PICK last : last = Rotated(Xor(f[n], d[n + 1]))
    OBVIOUS
  <2>3. PICK g : g = [i \in 0 .. n + 1 |-> IF i <= n THEN f[i] ELSE last]
    OBVIOUS
  <2>4. ASSUME NEW i \in 0 .. n + 1
        PROVE  g[i] = IF i = 0 THEN ZeroByte ELSE Rotated(Xor(g[i - 1], d[i]))
    <3>1. CASE i = 0
      BY <2>1, <2>3, <3>1 DEF IsRun
    <3>2. CASE i \in 1 .. n
      <4>1. f[i] = Rotated(Xor(f[i - 1], d[i]))
        BY <2>1, <3>2 DEF IsRun
      <4>2. g[i] = f[i] /\ g[i - 1] = f[i - 1]
        BY <2>3, <3>2
      <4> QED BY <3>2, <4>1, <4>2
    <3>3. CASE i = n + 1
      <4>1. g[i] = last /\ g[i - 1] = f[n] /\ i # 0
        BY <2>3, <3>3
      <4> QED BY <2>2, <3>3, <4>1
    <3> QED BY <3>1, <3>2, <3>3
  <2>5. g = [i \in 0 .. n + 1 |-> IF i = 0 THEN ZeroByte ELSE Rotated(Xor(g[i - 1], d[i]))]
    BY <2>3, <2>4
  <2> QED BY <1>1, <2>5 DEF IsRun
<1>4. \A n \in Nat : n \in T
  BY ONLY <1>2, <1>3, SetInduction
<1> QED BY <1>1, <1>4, SaveSizes

LEMMA RunSteps ==
  ASSUME NEW d
  PROVE  /\ Run(d)[0] = ZeroByte
         /\ \A i \in 1 .. N : Run(d)[i] = Rotated(Xor(Run(d)[i - 1], d[i]))
<1>1. PICK f : f = Run(d)
  OBVIOUS
<1>2. IsRun(d, N, f)
  BY <1>1, RunExists DEF Run
<1>3. f[0] = ZeroByte /\ \A i \in 1 .. N : f[i] = Rotated(Xor(f[i - 1], d[i]))
  BY <1>2, SaveSizes DEF IsRun
<1> QED BY <1>1, <1>3

\* Whatever was summed before, the result is a byte.
LEMMA StepByte == ASSUME NEW a, NEW b PROVE Rotated(Xor(a, b)) \in Byte
<1>1. PICK x : x = Xor(a, b)
  OBVIOUS
<1>2. x \in Byte
  BY <1>1 DEF Xor, Byte
<1>3. \A i \in 0 .. W - 1 : (IF i = 0 THEN x[W - 1] ELSE x[i - 1]) \in BOOLEAN
  BY <1>2, SaveSizes DEF Byte
<1> QED BY <1>1, <1>3 DEF Rotated, Byte

LEMMA RunBytes == ASSUME NEW d, NEW i \in 0 .. N PROVE Run(d)[i] \in Byte
<1>1. ZeroByte \in Byte
  BY DEF ZeroByte, Byte
<1> QED BY <1>1, RunSteps, StepByte, SaveSizes

LEMMA BytesDiffer ==
  ASSUME NEW x \in Byte, NEW y \in Byte, x # y PROVE \E k \in 0 .. W - 1 : x[k] # y[k]
<1> SUFFICES ASSUME \A k \in 0 .. W - 1 : x[k] = y[k] PROVE x = y
  OBVIOUS
<1>1. x = [k \in 0 .. W - 1 |-> x[k]] /\ y = [k \in 0 .. W - 1 |-> y[k]]
  BY DEF Byte
<1> QED BY <1>1

\* Neither the exclusive or nor the rotation loses a bit.
LEMMA RotatedTells ==
  ASSUME NEW x \in Byte, NEW y \in Byte, x # y PROVE Rotated(x) # Rotated(y)
<1>1. PICK k \in 0 .. W - 1 : x[k] # y[k]
  BY BytesDiffer
<1>2. CASE k = W - 1
  <2>1. Rotated(x)[0] = x[k] /\ Rotated(y)[0] = y[k]
    BY <1>2, SaveSizes DEF Rotated
  <2> QED BY <1>1, <2>1
<1>3. CASE k # W - 1
  <2>1. k + 1 \in 0 .. W - 1 /\ k + 1 # 0 /\ (k + 1) - 1 = k
    BY <1>3, SaveSizes
  <2>2. Rotated(x)[k + 1] = x[k] /\ Rotated(y)[k + 1] = y[k]
    BY <2>1 DEF Rotated
  <2> QED BY <1>1, <2>2
<1> QED BY <1>2, <1>3

LEMMA XorTells ==
  ASSUME NEW a \in Byte, NEW b \in Byte, NEW p \in Byte, NEW q \in Byte,
         (a # p /\ b = q) \/ (a = p /\ b # q)
  PROVE  Xor(a, b) # Xor(p, q)
<1>1. PICK k \in 0 .. W - 1 : (a[k] # p[k] /\ b[k] = q[k]) \/ (a[k] = p[k] /\ b[k] # q[k])
  BY BytesDiffer
<1>2. a[k] \in BOOLEAN /\ b[k] \in BOOLEAN /\ p[k] \in BOOLEAN /\ q[k] \in BOOLEAN
  BY DEF Byte
<1>3. (a[k] # b[k]) # (p[k] # q[k])
  BY <1>1, <1>2
<1>4. Xor(a, b)[k] = (a[k] # b[k]) /\ Xor(p, q)[k] = (p[k] # q[k])
  BY DEF Xor
<1> QED BY <1>3, <1>4

LEMMA StepTells ==
  ASSUME NEW a \in Byte, NEW b \in Byte, NEW p \in Byte, NEW q \in Byte,
         (a # p /\ b = q) \/ (a = p /\ b # q)
  PROVE  Rotated(Xor(a, b)) # Rotated(Xor(p, q))
<1>1. Xor(a, b) \in Byte /\ Xor(p, q) \in Byte
  BY DEF Xor, Byte
<1>2. Xor(a, b) # Xor(p, q)
  BY XorTells
<1> QED BY <1>1, <1>2, RotatedTells

\* Two saves that differ in one byte have the same sums before it and others from it on.
LEMMA ChangedByte ==
  ASSUME NEW d \in Data, NEW j \in 1 .. N, NEW b \in Byte, b # d[j],
         NEW e, e = [d EXCEPT ![j] = b]
  PROVE  Save_Checksum(d) # Save_Checksum(e)
<1>1. PICK f : f = Run(d)
  OBVIOUS
<1>2. PICK g : g = Run(e)
  OBVIOUS
<1>3. e[j] = b /\ d[j] \in Byte /\ \A i \in 1 .. N : i # j => e[i] = d[i] /\ d[i] \in Byte
  BY DEF Data
<1>4. PICK T : T = {n \in Nat : n <= N => (f[n] = g[n] <=> n < j)}
  OBVIOUS
<1>5. 0 \in T
  BY <1>1, <1>2, <1>4, RunSteps
<1>6. ASSUME NEW n \in Nat, n \in T PROVE n + 1 \in T
  <2> SUFFICES ASSUME n + 1 <= N PROVE f[n + 1] = g[n + 1] <=> n + 1 < j
    BY <1>4
  <2>1. n \in 0 .. N /\ n + 1 \in 1 .. N /\ (n + 1) - 1 = n
    BY SaveSizes
  <2>2. f[n] = g[n] <=> n < j
    BY <1>4, <1>6, <2>1
  <2>3. /\ f[n + 1] = Rotated(Xor(f[n], d[n + 1]))
        /\ g[n + 1] = Rotated(Xor(g[n], e[n + 1]))
    BY <1>1, <1>2, <2>1, RunSteps
  <2>4. f[n] \in Byte /\ g[n] \in Byte
    BY <1>1, <1>2, <2>1, RunBytes
  <2>5. CASE n + 1 < j
    BY <1>3, <2>1, <2>2, <2>3, <2>5
  <2>6. CASE n + 1 = j
    BY <1>3, <2>1, <2>2, <2>3, <2>4, <2>6, StepTells
  <2>7. CASE n + 1 > j
    BY <1>3, <2>1, <2>2, <2>3, <2>4, <2>7, StepTells
  <2> QED BY <2>1, <2>5, <2>6, <2>7
<1>7. \A n \in Nat : n \in T
  BY ONLY <1>5, <1>6, SetInduction
<1>8. f[N] # g[N]
  BY <1>4, <1>7, SaveSizes
<1> QED BY <1>1, <1>2, <1>8, ChecksumIsRun

\* A copy of which one byte has changed is not accepted, whichever byte it is and
\* whatever it became (Save_Checksum, Save_Read): for any number of bytes and of bits.
THEOREM ChangedByteDetected == Spec => []Detects
<1>1. TypeOK => Detects
  <2> SUFFICES ASSUME NEW c \in Copies, Intact(c), NEW i \in 1 .. N, NEW b \in Byte \ {c.data[i]}
               PROVE  ~ Intact([c EXCEPT !.data[i] = b])
    BY DEF TypeOK, Files, Detects
  <2>1. PICK e : e = [c.data EXCEPT ![i] = b]
    OBVIOUS
  <2>2. c.data \in Data
    BY DEF Copies
  <2>3. Save_Checksum(c.data) # Save_Checksum(e)
    BY <2>1, <2>2, ChangedByte
  <2>4. PICK x : x = [c EXCEPT !.data[i] = b]
    OBVIOUS
  <2>5. x.sum = c.sum /\ x.data = e
    BY <2>1, <2>4 DEF Copies
  <2>6. ~ Intact(x)
    BY <2>3, <2>5 DEF Intact
  <2> QED BY <2>4, <2>6
<1> QED BY <1>1, SaveTypeCorrect, PTL
=============================================================================
