-------------------------- MODULE DrawState_proofs --------------------------
(***************************************************************************)
(* Textures and video RAM, for any images, modes, combiners and sizes of   *)
(* the table and of video RAM: TypeOK and TexturesOwned.  Only four parts  *)
(* of gfx matter, and only the texture cache touches them; all other       *)
(* operators are Quiet.  That a new texture finds an id is the pigeonhole  *)
(* principle: the ids given out are those of the nodes, and there are no   *)
(* more keys than ids.                                                     *)
(*                                                                         *)
(* Then DrawnAsAsked, for the same.  DrawInv says of every cache what it   *)
(* must be for its check to be enough: the headers are Coherent, what the  *)
(* front end has Told the back end is so but for the edge mask, what is    *)
(* Uploaded is the image of its node, and a setup that counts as done      *)
(* (TriDone, QuadDone, LoadedBound) has left what it would set up again.   *)
(***************************************************************************)
EXTENDS DrawState, FiniteSetTheorems, TLAPS

Rs == [test : BOOLEAN, write : BOOLEAN, fog : BOOLEAN, prg : {<<>>} \cup Texels \X Modes]
Pvr == [test : BOOLEAN, write : BOOLEAN, fog : BOOLEAN, textured : BOOLEAN, bound : 0 .. MaxTextures]
Quads == {NoSetup} \cup [other : Modes, ext : BOOLEAN, kind : Lists]
Nodes == [Keys -> [id : 0 .. MaxTextures, dirty : BOOLEAN]]
Tex == [Ids -> [image : Keys \cup {NoImage, Stale}, block : BOOLEAN]]
Gfx == [rs : Rs, kind : Lists, mask : BOOLEAN, changed : BOOLEAN, tri : BOOLEAN, quad : Quads,
        nodes : Nodes, pvr : Pvr, tex : Tex, texCount : 0 .. MaxTextures,
        free : 0 .. VramBlocks, hdr : [Lists -> Headers \cup {Dirty}]]

\* The blocks in use, and the ids of the nodes.
Blocks(g) == {i \in 1 .. g.texCount : g.tex[i].block}
IdsOf(g) == {g.nodes[k].id : k \in Keys} \ {0}

Owned(g) ==
  /\ \A k \in Keys : g.nodes[k].id = 0 => g.nodes[k] = NoNode
  /\ \A k \in Keys \ UsedKeys : g.nodes[k] = NoNode
  /\ \A k, j \in Keys : g.nodes[k] # NoNode /\ g.nodes[j] # NoNode /\ k # j => g.nodes[k].id # g.nodes[j].id
  /\ IdsOf(g) = 1 .. g.texCount
  /\ g.free + Cardinality(Blocks(g)) = VramBlocks

Good(g) == g \in Gfx /\ Owned(g)

Rdp == [geometry : GeometryModes, other : OtherModes, combine : Combiners, loaded : Addrs]
IInv ==
  /\ rdp \in Rdp
  /\ Good(gfx)
  /\ wrong \subseteq {"list", "image", "test", "write", "fog"}

\* From g to h neither nodes, nor ids, nor video RAM change.
Quiet(g, h) ==
  /\ h \in Gfx
  /\ h.nodes = g.nodes /\ h.tex = g.tex /\ h.texCount = g.texCount /\ h.free = g.free

\* From g to h the settings and the setups stay as they are.
Rest(g, h) ==
  /\ h.rs = g.rs /\ h.kind = g.kind /\ h.mask = g.mask /\ h.changed = g.changed
  /\ h.tri = g.tri /\ h.quad = g.quad
  /\ h.pvr.test = g.pvr.test /\ h.pvr.write = g.pvr.write /\ h.pvr.fog = g.pvr.fog
  /\ h.pvr.textured = g.pvr.textured

\* Within a frame a header is dirty or what it would be compiled to.
Coherent(g) == \A l \in Lists : g.hdr[l] = Dirty \/ g.hdr[l] = Header(g)
-----------------------------------------------------------------------------
(* What leaves the textures alone.                                         *)

LEMMA QuietGood == ASSUME NEW g, NEW h, Good(g), Quiet(g, h) PROVE Good(h)
BY DEF Good, Quiet, Owned, IdsOf, Blocks

LEMMA QuietTwice == ASSUME NEW g, NEW h, NEW f, Quiet(g, h), Quiet(h, f) PROVE Quiet(g, f)
BY DEF Quiet

LEMMA ModesTyped == OtherModes \subseteq Modes
BY DrawAssumption DEF Modes

LEMMA HeaderTyped == ASSUME NEW g \in Gfx PROVE Header(g) \in Headers
<1>1. g.pvr \in Pvr
  BY DEF Gfx
<1> QED BY <1>1, DrawAssumption DEF Header, Headers, Pvr

LEMMA SubmitQuiet == ASSUME NEW g \in Gfx, NEW l \in Lists PROVE Quiet(g, Submit(g, l))
<1>1. Header(g) \in Headers
  BY HeaderTyped
<1> DEFINE h == Header(g)
<1>2. h \in Headers
  BY <1>1
<1> HIDE DEF h
<1>3. [g EXCEPT !.hdr[l] = h] \in Gfx
  BY <1>2 DEF Gfx
<1>4. Quiet(g, [g EXCEPT !.hdr[l] = h])
  BY <1>3 DEF Quiet, Gfx
<1> QED BY <1>4 DEF Submit, Quiet, h

LEMMA FlagQuiet ==
  ASSUME NEW g \in Gfx, NEW field \in {"test", "write", "fog", "textured"}, NEW v \in BOOLEAN
  PROVE  Quiet(g, Change(g, field, v))
<1>1. AllDirty \in [Lists -> Headers \cup {Dirty}]
  BY DEF AllDirty
<1>2. [g.pvr EXCEPT ![field] = v] \in Pvr
  BY DEF Gfx, Pvr
<1> DEFINE h == [g EXCEPT !.pvr[field] = v, !.hdr = AllDirty]
<1>3. h \in Gfx
  BY <1>1, <1>2 DEF Gfx
<1>4. Quiet(g, h)
  BY <1>3 DEF Quiet, Gfx
<1> QED BY <1>4 DEF Change, Quiet

LEMMA DirtyCoherent == ASSUME NEW g, g.hdr = AllDirty PROVE Coherent(g)
BY DEF Coherent, AllDirty

LEMMA BindQuiet ==
  ASSUME NEW g \in Gfx, NEW v \in 0 .. MaxTextures
  PROVE  LET h == Change(g, "bound", v)
         IN  Quiet(g, h) /\ Rest(g, h) /\ h.pvr.bound = v /\ (Coherent(g) => Coherent(h))
<1>1. AllDirty \in [Lists -> Headers \cup {Dirty}]
  BY DEF AllDirty
<1>2. [g.pvr EXCEPT !["bound"] = v] \in Pvr
  BY DEF Gfx, Pvr
<1> DEFINE h == [g EXCEPT !.pvr["bound"] = v, !.hdr = AllDirty]
<1>3. h \in Gfx
  BY <1>1, <1>2 DEF Gfx
<1>4. Quiet(g, h)
  BY <1>3 DEF Quiet, Gfx
<1>5. h.pvr.bound = v /\ Rest(g, h) /\ h.hdr = AllDirty
  BY DEF Gfx, Pvr, Rest
<1> HIDE DEF h
<1>6. Coherent(h)
  BY <1>5, DirtyCoherent
<1>7. Change(g, "bound", v) = IF g.pvr.bound = v THEN g ELSE h
  BY DEF Change, h
<1>8. Quiet(g, g) /\ Rest(g, g)
  BY DEF Quiet, Rest
<1> QED BY <1>4, <1>5, <1>6, <1>7, <1>8

LEMMA TrackQuiet ==
  ASSUME NEW g \in Gfx, NEW field \in {"test", "write", "fog"}, NEW v \in BOOLEAN
  PROVE  Quiet(g, Track(g, field, v))
<1> DEFINE h == Change(g, field, v)
<1>1. Quiet(g, h)
  BY FlagQuiet
<1> HIDE DEF h
<1>2. [h.rs EXCEPT ![field] = v] \in Rs
  BY <1>1 DEF Quiet, Gfx, Rs
<1>3. [h EXCEPT !.rs[field] = v] \in Gfx
  BY <1>1, <1>2 DEF Quiet, Gfx
<1>4. Quiet(g, [h EXCEPT !.rs[field] = v])
  BY <1>1, <1>3 DEF Quiet, Gfx
<1> QED BY <1>4 DEF Track, Quiet, h

LEMMA ShaderQuiet ==
  ASSUME NEW g \in Gfx, NEW c \in Texels, NEW o \in Modes
  PROVE  Quiet(g, LoadShader(g, c, o))
<1>1. AllDirty \in [Lists -> Headers \cup {Dirty}]
  BY DEF AllDirty
<1>2. [g.rs EXCEPT !.prg = <<c, o>>] \in Rs
  BY DEF Gfx, Rs
<1> DEFINE h == [g EXCEPT !.rs.prg = <<c, o>>, !.hdr = AllDirty]
<1>3. h \in Gfx
  BY <1>1, <1>2 DEF Gfx
<1>4. Quiet(g, h)
  BY <1>3 DEF Quiet, Gfx
<1> QED BY <1>4 DEF LoadShader, Quiet
-----------------------------------------------------------------------------
(* The texture cache.                                                      *)

LEMMA CountFinite ==
  ASSUME NEW g, g.texCount \in Nat
  PROVE  IsFiniteSet(Blocks(g)) /\ Cardinality(Blocks(g)) \in Nat
<1>1. IsFiniteSet(1 .. g.texCount)
  BY FS_Interval
<1>2. Blocks(g) \in SUBSET (1 .. g.texCount)
  BY DEF Blocks
<1>3. IsFiniteSet(Blocks(g))
  BY <1>1, <1>2, FS_Subset
<1> QED BY <1>3, FS_CardinalityType

\* As long as a key has no node, there is an id for it.
LEMMA Room ==
  ASSUME NEW g, Good(g), NEW k \in UsedKeys, g.nodes[k] = NoNode
  PROVE  g.texCount < MaxTextures
<1> DEFINE n == g.texCount
           K == UsedKeys \ {k}
           f == [i \in 1 .. n |-> CHOOSE j \in Keys : g.nodes[j].id = i]
<1>1. n \in Nat
  BY DEF Good, Gfx
<1>2. \A i \in 1 .. n : f[i] \in Keys /\ g.nodes[f[i]].id = i
  <2> SUFFICES ASSUME NEW i \in 1 .. n PROVE f[i] \in Keys /\ g.nodes[f[i]].id = i
    OBVIOUS
  <2>1. i \in IdsOf(g)
    BY DEF Good, Owned
  <2>2. \E j \in Keys : g.nodes[j].id = i
    BY <2>1 DEF IdsOf
  <2> QED BY <2>2
<1>f. f = [i \in 1 .. n |-> f[i]]
  OBVIOUS
<1> HIDE DEF f
<1>3. \A i \in 1 .. n : f[i] \in K
  <2> SUFFICES ASSUME NEW i \in 1 .. n PROVE f[i] \in K
    OBVIOUS
  <2>1. f[i] \in Keys /\ g.nodes[f[i]].id # 0
    BY <1>2, <1>1
  <2>2. g.nodes[f[i]] # NoNode
    BY <2>1 DEF NoNode
  <2> QED BY <2>1, <2>2 DEF Good, Owned
<1>4. f \in Injection(1 .. n, K)
  <2>1. f \in [1 .. n -> K]
    BY <1>3, <1>f
  <2>2. \A i, j \in 1 .. n : f[i] = f[j] => i = j
    BY <1>2
  <2> HIDE DEF n, K
  <2> QED BY <2>1, <2>2 DEF Injection, IsInjective
<1>5. IsFiniteSet(K) /\ Cardinality(K) = Cardinality(UsedKeys) - 1
  BY TextureTable, FS_RemoveElement
<1>6. Cardinality(1 .. n) <= Cardinality(K)
  BY <1>4, <1>5, FS_Injection
<1>7. Cardinality(1 .. n) = n
  BY <1>1, FS_Interval
<1>8. Cardinality(UsedKeys) \in Nat
  BY TextureTable, FS_CardinalityType
<1> QED BY <1>1, <1>5, <1>6, <1>7, <1>8, TextureTable, DrawAssumption

\* A lookup binds the id of the key's node, an old one or a new one.
LEMMA LookupOld ==
  ASSUME NEW g, Good(g), NEW k \in Keys, g.nodes[k] # NoNode
  PROVE  LET t == Lookup(g, k)
         IN  /\ t \in Gfx /\ Rest(g, t) /\ g.nodes[k].id \in 1 .. g.texCount
             /\ t.pvr.bound = g.nodes[k].id
             /\ t.nodes[k].id = g.nodes[k].id /\ ~t.nodes[k].dirty
             /\ \A j \in Keys : j # k => t.nodes[j] = g.nodes[j]
             /\ t.tex = g.tex /\ t.texCount = g.texCount /\ t.free = g.free
             /\ Coherent(g) => Coherent(t)
<1> DEFINE v == g.nodes[k].id
           h == Change(g, "bound", v)
           t == [h EXCEPT !.nodes[k].dirty = FALSE]
<1>1. v \in 1 .. g.texCount
  <2>1. v # 0
    BY DEF Good, Owned
  <2>2. v \in IdsOf(g)
    BY <2>1 DEF IdsOf
  <2> QED BY <2>2 DEF Good, Owned
<1>2. v \in 0 .. MaxTextures /\ g \in Gfx
  BY <1>1, DrawAssumption DEF Good, Gfx
<1>3. Quiet(g, h) /\ Rest(g, h) /\ h.pvr.bound = v /\ (Coherent(g) => Coherent(h))
  BY <1>2, BindQuiet
<1>4. Lookup(g, k) = t
  BY DEF Lookup
<1> HIDE DEF h
<1>5. h.nodes = g.nodes /\ g.nodes \in Nodes /\ h \in Gfx
  BY <1>3 DEF Quiet, Good, Gfx
<1> DEFINE nodes == [g.nodes EXCEPT ![k] = [g.nodes[k] EXCEPT !.dirty = FALSE]]
<1>6. nodes \in Nodes
  BY <1>5 DEF Nodes
<1>n. /\ nodes[k].id = v /\ ~nodes[k].dirty
      /\ \A j \in Keys : j # k => nodes[j] = g.nodes[j]
  BY <1>5 DEF Nodes
<1>7. t = [h EXCEPT !.nodes = nodes]
  BY <1>5, <1>6 DEF Gfx
<1> HIDE DEF nodes, t
<1>8. t \in Gfx /\ t.nodes = nodes /\ t.tex = g.tex /\ t.texCount = g.texCount /\ t.free = g.free
  BY <1>3, <1>5, <1>6, <1>7 DEF Quiet, Gfx
<1>9. t.pvr = h.pvr /\ t.hdr = h.hdr /\ t.rs = h.rs /\ t.kind = h.kind /\ t.mask = h.mask
      /\ t.changed = h.changed /\ t.tri = h.tri /\ t.quad = h.quad /\ t.tex = h.tex
  BY <1>5, <1>7 DEF Gfx
<1>10. Rest(g, t) /\ t.pvr.bound = v
  BY <1>3, <1>9 DEF Rest
<1>11. Coherent(h) => Coherent(t)
  BY <1>9 DEF Coherent, Header
<1> QED BY <1>n, <1>1, <1>3, <1>4, <1>8, <1>10, <1>11

LEMMA LookupNew ==
  ASSUME NEW g, Good(g), NEW k \in UsedKeys, g.nodes[k] = NoNode
  PROVE  LET t == Lookup(g, k)
             n == g.texCount + 1
         IN  /\ t \in Gfx /\ Rest(g, t) /\ n \in Ids /\ t.pvr.bound = n
             /\ t.nodes = [g.nodes EXCEPT ![k] = [id |-> n, dirty |-> FALSE]]
             /\ t.tex = [g.tex EXCEPT ![n] = Empty] /\ t.texCount = n /\ t.free = g.free
<1> DEFINE n == g.texCount + 1
           f == NewTexture(g)
           h == Change(f, "bound", n)
           node == [id |-> n, dirty |-> FALSE]
           t == [h EXCEPT !.nodes[k] = node]
<1>0. g \in Gfx /\ k \in Keys /\ g.texCount \in Nat
  BY DEF Good, UsedKeys, Gfx
<1>1. g.texCount < MaxTextures
  BY Room
<1>2. NewId(g) = n /\ n \in Ids /\ n \in 0 .. MaxTextures
  BY <1>0, <1>1, DrawAssumption DEF NewId, Ids
<1>3. Empty \in [image : Keys \cup {NoImage, Stale}, block : BOOLEAN]
  BY DEF Empty
<1>4. [g.tex EXCEPT ![n] = Empty] \in Tex
  BY <1>0, <1>2, <1>3 DEF Gfx, Tex
<1>5. /\ f \in Gfx /\ Rest(g, f)
      /\ f.tex = [g.tex EXCEPT ![n] = Empty]
      /\ f.texCount = n /\ f.nodes = g.nodes /\ f.free = g.free
  BY <1>0, <1>2, <1>4 DEF NewTexture, Gfx, Rest
<1> HIDE DEF f
<1>6. Quiet(f, h) /\ Rest(f, h) /\ h.pvr.bound = n
  BY <1>2, <1>5, BindQuiet
<1>7. Lookup(g, k) = t
  BY <1>2 DEF Lookup, f
<1> HIDE DEF h
<1>8. [h.nodes EXCEPT ![k] = node] \in Nodes
  BY <1>0, <1>2, <1>6 DEF Quiet, Gfx, Nodes
<1>9. t \in Gfx /\ t.nodes = [g.nodes EXCEPT ![k] = node] /\ t.tex = [g.tex EXCEPT ![n] = Empty]
      /\ t.texCount = n /\ t.free = g.free /\ t.pvr.bound = n
  BY <1>5, <1>6, <1>8 DEF Quiet, Gfx
<1>10. Rest(h, t)
  BY <1>6 DEF Quiet, Gfx, Rest
<1> HIDE DEF t
<1>11. Rest(g, t)
  BY <1>5, <1>6, <1>10 DEF Rest
<1> QED BY <1>2, <1>7, <1>9, <1>11

LEMMA LookupGood ==
  ASSUME NEW g, Good(g), NEW k \in UsedKeys
  PROVE  Good(Lookup(g, k)) /\ Lookup(g, k).pvr.bound \in 1 .. Lookup(g, k).texCount
<1> DEFINE t == Lookup(g, k)
<1>0. g \in Gfx /\ k \in Keys /\ g.texCount \in Nat /\ g.nodes \in Nodes /\ g.tex \in Tex
      /\ g.texCount <= MaxTextures
  BY DrawAssumption DEF Good, UsedKeys, Gfx
<1>1. CASE g.nodes[k] # NoNode
  <2> DEFINE v == g.nodes[k].id
             nodes == t.nodes
  <2>1. /\ v \in 1 .. g.texCount /\ t \in Gfx /\ t.pvr.bound = v
        /\ t.nodes = nodes /\ t.tex = g.tex /\ t.texCount = g.texCount /\ t.free = g.free
    BY <1>0, <1>1, LookupOld
  <2>2. \A j \in Keys : /\ nodes[j].id = g.nodes[j].id
                        /\ j # k => nodes[j] = g.nodes[j]
    BY <1>0, <1>1, LookupOld
  <2> HIDE DEF t
  <2>3. v # 0
    BY <2>1
  <2> HIDE DEF nodes
  <2>4. IdsOf(t) = IdsOf(g)
    BY <2>1, <2>2 DEF IdsOf
  <2>5. Blocks(t) = Blocks(g)
    BY <2>1 DEF Blocks
  <2>6. \A j \in Keys : t.nodes[j].id = 0 => t.nodes[j] = NoNode
    BY <2>1, <2>2, <2>3 DEF Good, Owned
  <2>7. \A j \in Keys \ UsedKeys : t.nodes[j] = NoNode
    BY <2>1, <2>2 DEF Good, Owned
  <2>8. \A i, j \in Keys : t.nodes[i] # NoNode /\ t.nodes[j] # NoNode /\ i # j => t.nodes[i].id # t.nodes[j].id
    BY <2>1, <2>2, <1>1 DEF Good, Owned
  <2>9. Owned(t)
    BY <2>1, <2>4, <2>5, <2>6, <2>7, <2>8 DEF Good, Owned
  <2> QED BY <2>1, <2>9 DEF Good, t
<1>2. CASE g.nodes[k] = NoNode
  <2> DEFINE n == g.texCount + 1
             node == [id |-> n, dirty |-> FALSE]
  <2>1. /\ t \in Gfx /\ n \in Ids /\ t.pvr.bound = n
        /\ t.nodes = [g.nodes EXCEPT ![k] = node]
        /\ t.tex = [g.tex EXCEPT ![n] = Empty] /\ t.texCount = n /\ t.free = g.free
    BY <1>2, LookupNew
  <2> HIDE DEF t
  <2>2. t.nodes[k] = node /\ \A j \in Keys : j # k => t.nodes[j] = g.nodes[j]
    BY <1>0, <2>1 DEF Nodes
  <2>3. g.nodes[k].id = 0
    BY <1>2 DEF NoNode
  <2>4. n # 0 /\ node # NoNode
    BY <1>0 DEF NoNode
  <2>5. IdsOf(t) = IdsOf(g) \cup {n}
    BY <1>0, <2>2, <2>3, <2>4 DEF IdsOf
  <2>6. IdsOf(t) = 1 .. n
    BY <1>0, <2>5 DEF Good, Owned
  <2>7. Blocks(t) = Blocks(g)
    <3>1. \A i \in 1 .. g.texCount : t.tex[i] = g.tex[i]
      BY <1>0, <2>1 DEF Tex, Ids
    <3>2. ~t.tex[n].block
      BY <1>0, <2>1 DEF Tex, Empty
    <3> QED BY <1>0, <2>1, <3>1, <3>2 DEF Blocks
  <2>8. \A j \in Keys : t.nodes[j].id = 0 => t.nodes[j] = NoNode
    BY <2>2, <2>4 DEF Good, Owned
  <2>9. \A j \in Keys \ UsedKeys : t.nodes[j] = NoNode
    BY <2>2 DEF Good, Owned
  <2>10. \A j \in Keys : j # k => t.nodes[j].id # n
    <3>1. \A j \in Keys : g.nodes[j].id # 0 => g.nodes[j].id \in 1 .. g.texCount
      BY DEF Good, Owned, IdsOf
    <3> QED BY <1>0, <2>2, <2>4, <3>1
  <2>11. \A i, j \in Keys : t.nodes[i] # NoNode /\ t.nodes[j] # NoNode /\ i # j => t.nodes[i].id # t.nodes[j].id
    BY <2>2, <2>10 DEF Good, Owned
  <2>12. t.free + Cardinality(Blocks(t)) = VramBlocks
    BY <2>1, <2>7 DEF Good, Owned
  <2>13. Owned(t)
    BY <2>1, <2>6, <2>8, <2>9, <2>11, <2>12 DEF Owned
  <2> QED BY <1>0, <2>1, <2>13 DEF Good, t
<1> QED BY <1>1, <1>2

\* An upload takes a block for a texture that has none.
LEMMA UploadGood ==
  ASSUME NEW g, Good(g), g.pvr.bound \in 1 .. g.texCount, NEW image \in Keys
  PROVE  Good(UploadTexture(g, image))
<1> DEFINE id == g.pvr.bound
           h == [g EXCEPT !.hdr = AllDirty]
           new == [image |-> image, block |-> TRUE]
<1>1. g \in Gfx /\ g.texCount \in Nat /\ g.free \in Nat /\ id \in Ids
  BY DrawAssumption DEF Good, Gfx, Ids
<1>r. \A i \in 1 .. g.texCount : i \in Ids
  BY DrawAssumption DEF Good, Gfx, Ids
<1>2. AllDirty \in [Lists -> Headers \cup {Dirty}]
  BY DEF AllDirty
<1>3. Quiet(g, h)
  BY <1>1, <1>2 DEF Quiet, Gfx
<1> HIDE DEF h
<1>4. CASE g.tex[id].block
  <2> DEFINE t == [h EXCEPT !.tex[id].image = image]
             tex == [h.tex EXCEPT ![id] = [h.tex[id] EXCEPT !.image = image]]
  <2>1. tex \in Tex
    BY <1>1, <1>3 DEF Quiet, Gfx, Tex
  <2>2. t \in Gfx /\ t.nodes = g.nodes /\ t.tex = tex /\ t.texCount = g.texCount /\ t.free = g.free
    BY <1>3, <2>1 DEF Quiet, Gfx
  <2>3. \A i \in Ids : tex[i].block = g.tex[i].block
    BY <1>1, <1>3 DEF Quiet, Gfx, Tex
  <2> HIDE DEF t, tex
  <2>4. Blocks(t) = Blocks(g)
    BY <1>r, <2>2, <2>3 DEF Blocks
  <2>5. UploadTexture(g, image) = t
    BY <1>4 DEF UploadTexture, t, h
  <2> QED BY <2>2, <2>4, <2>5 DEF Good, Owned, IdsOf
<1>5. CASE ~g.tex[id].block /\ g.free > 0
  <2> DEFINE t == [h EXCEPT !.tex[id] = new, !.free = @ - 1]
             tex == [g.tex EXCEPT ![id] = new]
  <2>1. tex \in Tex
    BY <1>1 DEF Gfx, Tex
  <2>2. g.free - 1 \in 0 .. VramBlocks
    BY <1>1, <1>5, DrawAssumption DEF Gfx
  <2>3. t \in Gfx /\ t.nodes = g.nodes /\ t.tex = tex /\ t.texCount = g.texCount /\ t.free = g.free - 1
    BY <1>3, <2>1, <2>2 DEF Quiet, Gfx
  <2>4. tex[id].block /\ \A i \in Ids : i # id => tex[i] = g.tex[i]
    BY <1>1 DEF Gfx, Tex
  <2> HIDE DEF t, tex
  <2>5. Blocks(t) = Blocks(g) \cup {id}
    BY <1>r, <2>3, <2>4 DEF Blocks
  <2>6. id \notin Blocks(g)
    BY <1>5 DEF Blocks
  <2>7. Cardinality(Blocks(t)) = Cardinality(Blocks(g)) + 1
    BY <1>1, <2>5, <2>6, CountFinite, FS_AddElement
  <2>8. t.free + Cardinality(Blocks(t)) = VramBlocks
    BY <1>1, <2>3, <2>7, CountFinite, DrawAssumption DEF Good, Owned
  <2>9. UploadTexture(g, image) = t
    BY <1>5 DEF UploadTexture, t, h
  <2> QED BY <2>3, <2>8, <2>9 DEF Good, Owned, IdsOf
<1>6. CASE ~g.tex[id].block /\ ~(g.free > 0)
  <2>1. UploadTexture(g, image) = h
    BY <1>6 DEF UploadTexture, h
  <2> QED BY <1>3, <2>1, QuietGood
<1> QED BY <1>4, <1>5, <1>6

LEMMA ImportGood ==
  ASSUME NEW g, Good(g), NEW a \in Addrs, g.mask => a \notin Dynamic
  PROVE  Good(ImportTexture(g, a))
<1> DEFINE k == <<a, g.mask>>
<1>1. k \in UsedKeys /\ k \in Keys
  BY DEF Good, Gfx, UsedKeys, Keys
<1> HIDE DEF k
<1>2. Good(Lookup(g, k)) /\ Lookup(g, k).pvr.bound \in 1 .. Lookup(g, k).texCount
  BY <1>1, LookupGood
<1>3. Good(UploadTexture(Lookup(g, k), k))
  BY <1>1, <1>2, UploadGood
<1> QED BY <1>2, <1>3 DEF ImportTexture, k

LEMMA BindGood ==
  ASSUME NEW g, Good(g), NEW inverted \in BOOLEAN, rdp.loaded \in Addrs,
         inverted => rdp.loaded \notin Dynamic
  PROVE  Good(BindTexture(g, inverted))
<1> DEFINE h == Remask(g, inverted)
           t == ImportTexture(h, rdp.loaded)
<1>1. Quiet(g, h) /\ h.mask = inverted
  BY DEF Remask, Good, Quiet, Gfx
<1> HIDE DEF h
<1>2. Good(h)
  BY <1>1, QuietGood
<1>3. Good(t)
  BY <1>1, <1>2, ImportGood
<1> HIDE DEF t
<1>4. Quiet(t, [t EXCEPT !.changed = FALSE])
  BY <1>3 DEF Good, Quiet, Gfx
<1>5. Good([t EXCEPT !.changed = FALSE])
  BY <1>3, <1>4, QuietGood
<1> QED BY <1>2, <1>5 DEF BindTexture, h, t

\* The game marks a node that is there.
LEMMA InvalidateGood ==
  ASSUME NEW g, Good(g), NEW a \in Addrs
  PROVE  Good(Invalidate(g, a))
<1> DEFINE ks == NodesOf(g, a)
           k == First(g, ks)
           t == [g EXCEPT !.nodes[k].dirty = TRUE]
<1>1. CASE ks = {}
  BY <1>1 DEF Invalidate
<1>2. CASE ks # {}
  <2>1. \A j \in ks : j = <<a, TRUE>> \/ j = <<a, FALSE>>
    <3> SUFFICES ASSUME NEW j \in ks PROVE j = <<a, TRUE>> \/ j = <<a, FALSE>>
      OBVIOUS
    <3>1. PICK b \in Addrs, c \in BOOLEAN : j = <<b, c>>
      BY DEF NodesOf, Keys
    <3>2. b = a
      BY <3>1 DEF NodesOf
    <3> QED BY <3>1, <3>2
  <2>2. \A j \in ks : j \in Keys /\ g.nodes[j].id \in Nat
    BY DEF NodesOf, Good, Gfx, Nodes
  <2>3. \E j \in ks : \A i \in ks : g.nodes[j].id <= g.nodes[i].id
    <3> DEFINE p == <<a, TRUE>>
               q == <<a, FALSE>>
               N(j) == g.nodes[j].id
    <3>1. \A j \in ks : (j = p \/ j = q) /\ N(j) \in Nat
      BY <2>1, <2>2
    <3> HIDE DEF ks, p, q, N
    <3>2. \E j \in ks : \A i \in ks : N(j) <= N(i)
      <4>1. CASE p \in ks /\ (q \in ks => N(p) <= N(q))
        BY <3>1, <4>1
      <4>2. CASE q \in ks /\ (p \in ks => N(q) <= N(p))
        BY <3>1, <4>2
      <4> QED BY <1>2, <3>1, <4>1, <4>2
    <3> QED BY <3>2 DEF N
  <2>4. k \in ks
    BY <2>3 DEF First
  <2> HIDE DEF k
  <2>5. k \in Keys /\ g.nodes[k] # NoNode /\ g.nodes[k].id # 0
    BY <2>4 DEF NodesOf, Good, Owned
  <2> DEFINE nodes == [g.nodes EXCEPT ![k] = [g.nodes[k] EXCEPT !.dirty = TRUE]]
  <2>6. nodes \in Nodes
    BY <2>5 DEF Good, Gfx, Nodes
  <2>7. t \in Gfx /\ t.nodes = nodes /\ t.tex = g.tex /\ t.texCount = g.texCount /\ t.free = g.free
    BY <2>6 DEF Good, Gfx
  <2>8. \A j \in Keys : /\ nodes[j].id = g.nodes[j].id
                        /\ j # k => nodes[j] = g.nodes[j]
    BY <2>5 DEF Good, Gfx, Nodes
  <2>9. Invalidate(g, a) = t
    BY <1>2 DEF Invalidate, k
  <2> HIDE DEF t, nodes
  <2>10. IdsOf(t) = IdsOf(g) /\ Blocks(t) = Blocks(g)
    BY <2>7, <2>8 DEF IdsOf, Blocks
  <2>11. \A j \in Keys : t.nodes[j].id = 0 => t.nodes[j] = NoNode
    BY <2>5, <2>7, <2>8 DEF Good, Owned
  <2>12. \A j \in Keys \ UsedKeys : t.nodes[j] = NoNode
    BY <2>5, <2>7, <2>8 DEF Good, Owned
  <2>13. \A i, j \in Keys : t.nodes[i] # NoNode /\ t.nodes[j] # NoNode /\ i # j => t.nodes[i].id # t.nodes[j].id
    BY <2>5, <2>7, <2>8 DEF Good, Owned
  <2> QED BY <2>7, <2>9, <2>10, <2>11, <2>12, <2>13 DEF Good, Owned
<1> QED BY <1>1, <1>2

\* A scene load gives everything back.
LEMMA ClearGood ==
  ASSUME NEW g, Good(g)
  PROVE  Good([ClearAllTextures(g) EXCEPT !.nodes = [k \in Keys |-> NoNode]])
<1> DEFINE tex == [i \in Ids |-> IF i \in Cleared(g) THEN Empty ELSE g.tex[i]]
           nodes == [k \in Keys |-> NoNode]
           t == [ClearAllTextures(g) EXCEPT !.nodes = nodes]
<1>1. Cleared(g) = Blocks(g)
  BY DrawAssumption DEF Cleared, Blocks, Good, Gfx, Ids
<1>2. g.free + Cardinality(Cleared(g)) = VramBlocks
  BY <1>1 DEF Good, Owned
<1>3. tex \in Tex
  BY DEF Good, Gfx, Tex, Empty
<1>4. nodes \in Nodes
  BY DrawAssumption DEF Nodes, NoNode
<1>5. /\ t \in Gfx
      /\ t.nodes = nodes /\ t.texCount = 0 /\ t.free = VramBlocks
  <2> HIDE DEF nodes
  <2>1. ClearAllTextures(g) = [g EXCEPT !.tex = tex, !.free = VramBlocks, !.texCount = 0, !.pvr.bound = 0]
    BY <1>2 DEF ClearAllTextures, Good, Gfx
  <2>2. [g.pvr EXCEPT !.bound = 0] \in Pvr
    BY DrawAssumption DEF Good, Gfx, Pvr
  <2> HIDE DEF tex
  <2> DEFINE u == [g EXCEPT !.tex = tex, !.free = VramBlocks, !.texCount = 0, !.pvr.bound = 0]
  <2>3. u \in Gfx /\ u.texCount = 0 /\ u.free = VramBlocks
    <3>1. g \in Gfx /\ 0 \in 0 .. MaxTextures /\ VramBlocks \in 0 .. VramBlocks
      BY DrawAssumption DEF Good
    <3> HIDE DEF t
    <3> QED BY <1>3, <2>2, <3>1 DEF Gfx
  <2>4. t = [u EXCEPT !.nodes = nodes]
    BY <2>1
  <2> HIDE DEF u, t
  <2> QED BY <2>3, <2>4, <1>4 DEF Gfx
<1> HIDE DEF t
<1>6. IdsOf(t) = {}
  BY <1>5 DEF IdsOf, NoNode
<1>7. Blocks(t) = {}
  BY <1>5 DEF Blocks
<1>8. 1 .. 0 = {}
  OBVIOUS
<1>9. t.free + Cardinality(Blocks(t)) = VramBlocks
  BY <1>5, <1>7, FS_EmptySet, DrawAssumption
<1>10. \A k \in Keys : t.nodes[k] = NoNode
  BY <1>5
<1>11. Owned(t)
  BY <1>5, <1>6, <1>8, <1>9, <1>10 DEF Owned
<1> QED BY <1>5, <1>11 DEF Good, t
-----------------------------------------------------------------------------
(* The setups.                                                             *)

LEMMA KindQuiet == ASSUME NEW g \in Gfx, NEW l \in Lists PROVE Quiet(g, [g EXCEPT !.kind = l])
BY DEF Quiet, Gfx

LEMMA TriFlagQuiet == ASSUME NEW g \in Gfx, NEW b \in BOOLEAN PROVE Quiet(g, [g EXCEPT !.tri = b])
BY DEF Quiet, Gfx

LEMMA QuadRecQuiet == ASSUME NEW g \in Gfx, NEW q \in Quads PROVE Quiet(g, [g EXCEPT !.quad = q])
BY DEF Quiet, Gfx

LEMMA QuietIn == ASSUME NEW g, NEW h, Quiet(g, h) PROVE h \in Gfx
BY DEF Quiet

LEMMA DepthQuiet ==
  ASSUME NEW g \in Gfx, NEW t \in BOOLEAN, NEW w \in BOOLEAN
  PROVE  Quiet(g, Track(Track(g, "test", t), "write", w))
<1>1. Quiet(g, Track(g, "test", t))
  BY TrackQuiet
<1>2. Quiet(Track(g, "test", t), Track(Track(g, "test", t), "write", w))
  BY <1>1, TrackQuiet, QuietIn
<1> QED BY <1>1, <1>2, QuietTwice

LEMMA TriSetupGood ==
  ASSUME NEW g, Good(g), rdp \in Rdp, Inverted(rdp.combine) => rdp.loaded \notin Dynamic
  PROVE  Good(TriSetup(g))
<1> DEFINE c == rdp.combine
           o == rdp.other
           test == rdp.geometry.zbuffer /\ o.zcmp
           depth == Track(Track(g, "test", test), "write", o.zupd)
           shaded == LoadShader(depth, c, o)
           bound == IF UsesTexel(c) THEN BindTexture(shaded, Inverted(c)) ELSE shaded
           kind == [bound EXCEPT !.kind = KindOf(o)]
           textured == Change(kind, "textured", UsesTexel(c))
           fog == Track(textured, "fog", rdp.geometry.fog)
<1>1. /\ c \in Texels /\ o \in Modes /\ rdp.loaded \in Addrs
      /\ rdp.geometry \in [zbuffer : BOOLEAN, fog : BOOLEAN]
  BY DrawAssumption, ModesTyped DEF Rdp
<1>2. /\ test \in BOOLEAN /\ o.zupd \in BOOLEAN /\ rdp.geometry.fog \in BOOLEAN
      /\ UsesTexel(c) \in BOOLEAN /\ Inverted(c) \in BOOLEAN /\ KindOf(o) \in Lists
  BY <1>1 DEF Modes, UsesTexel, Inverted, KindOf, Lists
<1>3. TriSetup(g) = [fog EXCEPT !.tri = TRUE]
  BY DEF TriSetup
<1>t. Inverted(c) => rdp.loaded \notin Dynamic
  OBVIOUS
<1> HIDE DEF c, o, test
<1>4. Quiet(g, depth)
  BY <1>2, DepthQuiet DEF Good
<1> HIDE DEF depth
<1>5. Quiet(depth, shaded)
  BY <1>1, <1>4, ShaderQuiet, QuietIn
<1>6. Good(shaded)
  BY <1>4, <1>5, QuietGood
<1> HIDE DEF shaded
<1>7. Good(bound)
  BY <1>1, <1>2, <1>6, <1>t, BindGood
<1> HIDE DEF bound
<1>8. Quiet(bound, kind)
  BY <1>2, <1>7, KindQuiet DEF Good
<1> HIDE DEF kind
<1>9. Quiet(kind, textured)
  BY <1>2, <1>8, FlagQuiet, QuietIn
<1> HIDE DEF textured
<1>10. Quiet(textured, fog)
  BY <1>2, <1>9, TrackQuiet, QuietIn
<1> HIDE DEF fog
<1>11. Quiet(fog, [fog EXCEPT !.tri = TRUE])
  BY <1>10, TriFlagQuiet, QuietIn
<1> QED BY <1>3, <1>7, <1>8, <1>9, <1>10, <1>11, QuietGood

LEMMA QuadSetupGood ==
  ASSUME NEW g, Good(g), rdp \in Rdp, NEW c \in Texels, NEW o \in Modes, NEW ext \in BOOLEAN
  PROVE  Good(QuadSetup(g, c, o, ext)) /\ QuadSetup(g, c, o, ext).quad.kind \in Lists
<1> DEFINE depth == Track(Track(g, "test", FALSE), "write", QuadWrites(o))
           shaded == LoadShader(depth, c, o)
           bound == IF UsesTexel(c) THEN BindTexture(shaded, FALSE) ELSE shaded
           textured == Change(bound, "textured", UsesTexel(c) /\ ~ext)
           fog == Track(textured, "fog", FALSE)
           quad == [other |-> o, ext |-> ext, kind |-> QuadKind(o)]
           t == [fog EXCEPT !.quad = quad]
<1>1. /\ QuadWrites(o) \in BOOLEAN /\ (UsesTexel(c) /\ ~ext) \in BOOLEAN
      /\ quad \in Quads /\ quad.kind \in Lists /\ rdp.loaded \in Addrs
  BY DEF Modes, QuadWrites, UsesTexel, Quads, QuadKind, KindOf, Lists, Rdp
<1>2. QuadSetup(g, c, o, ext) = t
  BY DEF QuadSetup
<1> HIDE DEF quad
<1>3. Quiet(g, depth)
  BY <1>1, DepthQuiet DEF Good
<1> HIDE DEF depth
<1>4. Quiet(depth, shaded)
  BY <1>3, ShaderQuiet, QuietIn
<1>5. Good(shaded)
  BY <1>3, <1>4, QuietGood
<1> HIDE DEF shaded
<1>6. Good(bound)
  BY <1>1, <1>5, BindGood
<1> HIDE DEF bound
<1>7. Quiet(bound, textured)
  BY <1>1, <1>6, FlagQuiet DEF Good
<1> HIDE DEF textured
<1>8. Quiet(textured, fog)
  BY <1>7, TrackQuiet, QuietIn
<1> HIDE DEF fog
<1>9. Quiet(fog, t) /\ t.quad = quad
  BY <1>1, <1>8, QuadRecQuiet, QuietIn DEF Quiet, Gfx
<1> HIDE DEF t
<1> QED BY <1>1, <1>2, <1>6, <1>7, <1>8, <1>9, QuietGood

LEMMA FarPinGood == ASSUME NEW g, Good(g) PROVE Good(FarPin(g)) /\ FarPin(g).kind \in Lists
<1> DEFINE depth == Track(Track(g, "test", TRUE), "write", FALSE)
           t == [depth EXCEPT !.kind = "OP", !.quad = NoSetup]
<1>1. Quiet(g, depth)
  BY DepthQuiet DEF Good
<1>2. FarPin(g) = t
  BY DEF FarPin
<1> HIDE DEF depth
<1>3. NoSetup \in Quads /\ "OP" \in Lists
  BY DEF Quads, Lists
<1>4. Quiet(depth, t) /\ t.kind \in Lists
  BY <1>1, <1>3 DEF Quiet, Gfx
<1> HIDE DEF t
<1> QED BY <1>1, <1>2, <1>4, QuietGood

LEMMA QuadGood ==
  ASSUME NEW g, Good(g), rdp \in Rdp, NEW c \in Texels, NEW o \in Modes, NEW ext \in BOOLEAN,
         NEW pinned \in BOOLEAN
  PROVE  Good(Quad(g, c, o, ext, pinned)) /\ Quad(g, c, o, ext, pinned).kind \in Lists
<1> DEFINE f == IF QuadReady(g, o, ext) THEN g ELSE QuadSetup(g, c, o, ext)
           h == [f EXCEPT !.tri = FALSE]
           t == [h EXCEPT !.kind = h.quad.kind]
<1>1. Good(f) /\ f.quad.kind \in Lists
  <2>1. CASE QuadReady(g, o, ext)
    <3>1. g.quad \in Quads /\ g.quad # NoSetup
      BY <2>1 DEF QuadReady, Good, Gfx
    <3> QED BY <2>1, <3>1 DEF Quads
  <2>2. CASE ~QuadReady(g, o, ext)
    BY <2>2, QuadSetupGood
  <2> QED BY <2>1, <2>2
<1>2. Quad(g, c, o, ext, pinned) = IF pinned THEN FarPin(h) ELSE t
  BY DEF Quad
<1> HIDE DEF f
<1>3. Quiet(f, h) /\ h.quad = f.quad
  BY <1>1, TriFlagQuiet DEF Good, Quiet, Gfx
<1> HIDE DEF h
<1>4. Good(h)
  BY <1>1, <1>3, QuietGood
<1>5. Good(FarPin(h)) /\ FarPin(h).kind \in Lists
  BY <1>4, FarPinGood
<1>6. Quiet(h, t) /\ t.kind \in Lists
  BY <1>1, <1>3, <1>4, KindQuiet DEF Good, Gfx
<1> HIDE DEF t
<1>7. Good(t)
  BY <1>4, <1>6, QuietGood
<1> QED BY <1>2, <1>5, <1>6, <1>7

LEMMA OutdatedQuiet == ASSUME NEW g \in Gfx PROVE Quiet(g, Outdated(g))
BY DEF Outdated, Quiet, Gfx, Quads

LEMMA SubmitGood == ASSUME NEW g, Good(g), NEW l \in Lists PROVE Good(Submit(g, l))
BY SubmitQuiet, QuietGood DEF Good

LEMMA DifferingFields ==
  ASSUME NEW shown, NEW list, NEW textured, NEW inverted, NEW test, NEW write, NEW fog
  PROVE  Differing(shown, Asked(list, textured, inverted, test, write, fog))
           \subseteq {"list", "image", "test", "write", "fog"}
BY DEF Differing, Asked
-----------------------------------------------------------------------------
LEMMA InitGood == Init => IInv
<1> SUFFICES ASSUME Init PROVE IInv
  OBVIOUS
<1>1. rdp \in Rdp
  <2>1. (CHOOSE c \in Combiners : TRUE) \in Combiners /\ (CHOOSE a \in Addrs : TRUE) \in Addrs
    BY DrawAssumption
  <2> QED BY <2>1 DEF Init, Rdp
<1>2. gfx \in Gfx
  <2>1. AllDirty \in [Lists -> Headers \cup {Dirty}]
    BY DEF AllDirty
  <2>2. [k \in Keys |-> NoNode] \in Nodes
    BY DrawAssumption DEF Nodes, NoNode
  <2>3. [i \in Ids |-> Empty] \in Tex
    BY DEF Tex, Empty
  <2>4. /\ [test |-> FALSE, write |-> FALSE, fog |-> FALSE, prg |-> <<>>] \in Rs
        /\ [test |-> TRUE, write |-> TRUE, fog |-> FALSE, textured |-> FALSE, bound |-> 0] \in Pvr
        /\ NoSetup \in Quads /\ "OP" \in Lists
        /\ 0 \in 0 .. MaxTextures /\ VramBlocks \in 0 .. VramBlocks
    BY DrawAssumption DEF Rs, Pvr, Quads, Lists
  <2> QED BY <2>1, <2>2, <2>3, <2>4 DEF Init, Gfx
<1>3. Owned(gfx)
  <2>1. /\ \A k \in Keys : gfx.nodes[k] = NoNode
        /\ gfx.texCount = 0 /\ gfx.free = VramBlocks
    BY DEF Init
  <2>2. Blocks(gfx) = {} /\ IdsOf(gfx) = {} /\ 1 .. 0 = {}
    BY <2>1 DEF Blocks, IdsOf, NoNode
  <2>3. gfx.free + Cardinality(Blocks(gfx)) = VramBlocks
    BY <2>1, <2>2, FS_EmptySet, DrawAssumption
  <2> QED BY <2>1, <2>2, <2>3 DEF Owned
<1> QED BY <1>1, <1>2, <1>3 DEF Init, IInv, Good

LEMMA DrawGood ==
  ASSUME IInv, NEW c \in Texels, NEW o \in Modes, NEW ext \in BOOLEAN, NEW pinned \in BOOLEAN,
         DrawRectangle(c, o, ext, pinned)
  PROVE  IInv'
<1> DEFINE h == Quad(gfx, c, o, ext, pinned)
<1>1. Good(h) /\ h.kind \in Lists
  BY QuadGood DEF IInv
<1>2. gfx' = Submit(h, h.kind) /\ rdp' = rdp
  BY DEF DrawRectangle
<1> HIDE DEF h
<1>3. Good(gfx')
  BY <1>1, <1>2, SubmitGood
<1>4. wrong' \subseteq {"list", "image", "test", "write", "fog"}
  <2> DEFINE textured == UsesTexel(c) /\ ~ext
             k == Quad(gfx, c, o, ext, pinned).kind
             shown == Shown(gfx', k)
  <2>1. CASE pinned
    <3>1. wrong' = Differing(shown, Asked("OP", textured, FALSE, TRUE, FALSE, FALSE))
      BY <2>1 DEF DrawRectangle
    <3> HIDE DEF shown, textured
    <3> QED BY <3>1, DifferingFields
  <2>2. CASE ~pinned
    <3>1. wrong' = Differing(shown, Asked(QuadKind(o), textured, FALSE, FALSE, QuadWrites(o), FALSE))
      BY <2>2 DEF DrawRectangle
    <3> HIDE DEF shown, textured
    <3> QED BY <3>1, DifferingFields
  <2> QED BY <2>1, <2>2
<1> QED BY <1>2, <1>3, <1>4 DEF IInv

LEMMA RegisterGood ==
  ASSUME IInv, NEW field, NEW value, Register(field, value),
         [rdp EXCEPT ![field] = value] \in Rdp
  PROVE  IInv'
<1>1. Good(Outdated(gfx))
  BY OutdatedQuiet, QuietGood DEF IInv, Good
<1> QED BY <1>1 DEF Register, IInv

LEMMA NextGood == IInv /\ [Next]_vars => IInv'
<1> SUFFICES ASSUME IInv, [Next]_vars PROVE IInv'
  OBVIOUS
<1>0. gfx \in Gfx /\ Good(gfx) /\ rdp \in Rdp
  BY DEF IInv, Good
<1>1. ASSUME NEW a \in Dynamic, ChangeTexture(a) PROVE IInv'
  <2> DEFINE tex == [i \in Ids |-> IF gfx.tex[i].image # NoImage /\ gfx.tex[i].image[1] = a
                                    THEN [gfx.tex[i] EXCEPT !.image = Stale] ELSE gfx.tex[i]]
             h == [gfx EXCEPT !.tex = tex]
  <2>1. tex \in Tex /\ \A i \in Ids : tex[i].block = gfx.tex[i].block
    BY <1>0 DEF Gfx, Tex
  <2>2. gfx' = Invalidate(h, a)
    BY <1>1 DEF ChangeTexture
  <2> HIDE DEF tex
  <2>3. h \in Gfx /\ h.nodes = gfx.nodes /\ h.tex = tex /\ h.texCount = gfx.texCount /\ h.free = gfx.free
    BY <1>0, <2>1 DEF Gfx
  <2>4. \A i \in 1 .. gfx.texCount : i \in Ids
    BY <1>0, DrawAssumption DEF Gfx, Ids
  <2> HIDE DEF h
  <2>5. Blocks(h) = Blocks(gfx)
    BY <2>1, <2>3, <2>4 DEF Blocks
  <2>6. Good(h)
    BY <1>0, <2>3, <2>5 DEF Good, Owned, IdsOf
  <2>7. Good(gfx')
    BY <2>2, <2>6, InvalidateGood, DrawAssumption
  <2> QED BY <1>1, <2>7 DEF ChangeTexture, Between, IInv
<1>2. ASSUME LoadScene PROVE IInv'
  <2>1. Good(gfx')
    BY <1>0, <1>2, ClearGood DEF LoadScene
  <2> QED BY <1>2, <2>1 DEF LoadScene, Between, IInv
<1>3. ASSUME StartFrame PROVE IInv'
  <2> DEFINE h == [gfx EXCEPT !.hdr = AllDirty]
  <2>1. AllDirty \in [Lists -> Headers \cup {Dirty}]
    BY DEF AllDirty
  <2>2. Quiet(gfx, h)
    BY <1>0, <2>1 DEF Quiet, Gfx
  <2>3. gfx' = Outdated(h)
    BY <1>3 DEF StartFrame
  <2> HIDE DEF h
  <2>4. Good(gfx')
    BY <1>0, <2>2, <2>3, OutdatedQuiet, QuietGood, QuietIn
  <2> QED BY <1>3, <2>4 DEF StartFrame, IInv
<1>4. ASSUME EndFrame PROVE IInv'
  <2> DEFINE pvr == [gfx.pvr EXCEPT !.textured = FALSE, !.test = TRUE, !.write = TRUE]
             hdr == [gfx.hdr EXCEPT !["OP"] = Dirty]
             h == [gfx EXCEPT !.pvr.textured = FALSE, !.pvr.test = TRUE, !.pvr.write = TRUE,
                              !.hdr["OP"] = Dirty]
  <2>1. pvr \in Pvr
    BY <1>0 DEF Gfx, Pvr
  <2>2. hdr \in [Lists -> Headers \cup {Dirty}]
    BY <1>0 DEF Gfx
  <2>3. h = [gfx EXCEPT !.pvr = pvr, !.hdr = hdr]
    BY <1>0 DEF Gfx
  <2>4. gfx' = Submit(h, "OP") /\ "OP" \in Lists
    BY <1>4 DEF EndFrame, Lists
  <2> HIDE DEF pvr, hdr, h
  <2>5. Quiet(gfx, h)
    BY <1>0, <2>1, <2>2, <2>3 DEF Quiet, Gfx
  <2>6. Good(gfx')
    BY <1>0, <2>4, <2>5, QuietGood, SubmitGood
  <2> QED BY <1>4, <2>6 DEF EndFrame, IInv
<1>5. ASSUME NEW m \in GeometryModes, SetGeometryMode(m) PROVE IInv'
  <2>1. [rdp EXCEPT !["geometry"] = m] \in Rdp
    BY <1>0 DEF Rdp
  <2> QED BY <1>5, <2>1, RegisterGood DEF SetGeometryMode
<1>6. ASSUME NEW o \in OtherModes, SetOtherMode(o) PROVE IInv'
  <2>1. [rdp EXCEPT !["other"] = o] \in Rdp
    BY <1>0 DEF Rdp
  <2> QED BY <1>6, <2>1, RegisterGood DEF SetOtherMode
<1>7. ASSUME NEW c \in Combiners, SetCombine(c) PROVE IInv'
  <2>1. [rdp EXCEPT !["combine"] = c] \in Rdp
    BY <1>0 DEF Rdp
  <2> QED BY <1>7, <2>1, RegisterGood DEF SetCombine
<1>8. ASSUME NEW a \in Addrs, LoadBlock(a) PROVE IInv'
  <2> DEFINE h == Outdated(gfx)
  <2>1. Quiet(gfx, h)
    BY <1>0, OutdatedQuiet
  <2>2. gfx' = [h EXCEPT !.changed = TRUE] /\ rdp' = [rdp EXCEPT !.loaded = a] /\ wrong' = {}
    BY <1>8 DEF LoadBlock
  <2> HIDE DEF h
  <2>3. Quiet(h, [h EXCEPT !.changed = TRUE])
    BY <2>1 DEF Quiet, Gfx
  <2>4. Good(gfx')
    BY <1>0, <2>1, <2>2, <2>3, QuietGood
  <2>5. rdp' \in Rdp
    BY <1>0, <2>2 DEF Rdp
  <2> QED BY <2>2, <2>4, <2>5 DEF IInv
<1>9. ASSUME NEW perspective \in BOOLEAN, NEW clipped \in BOOLEAN, Tri(perspective, clipped) PROVE IInv'
  <2> DEFINE f == IF gfx.tri THEN gfx ELSE TriSetup(gfx)
             h == [f EXCEPT !.quad = NoSetup]
  <2>1. Inverted(rdp.combine) => rdp.loaded \notin Dynamic
    BY <1>9 DEF Tri
  <2>2. Good(f)
    BY <1>0, <2>1, TriSetupGood
  <2>3. /\ gfx' = IF clipped THEN h ELSE Submit(h, h.kind)
        /\ rdp' = rdp
        /\ wrong' \subseteq {"list", "image", "test", "write", "fog"}
    BY <1>9, DifferingFields DEF Tri
  <2> HIDE DEF f
  <2>4. Quiet(f, h)
    BY <2>2, QuadRecQuiet DEF Good, Quads
  <2> HIDE DEF h
  <2>5. Good(h) /\ h.kind \in Lists
    BY <2>2, <2>4, QuietGood DEF Quiet, Gfx
  <2>6. Good(gfx')
    BY <2>3, <2>5, SubmitGood
  <2> QED BY <1>0, <2>3, <2>6 DEF IInv
<1>10. ASSUME NEW pinned \in BOOLEAN, TextureRectangle(pinned) PROVE IInv'
  <2> DEFINE c == IF rdp.other.cycle = "copy" THEN "texel" ELSE rdp.combine
  <2>1. c \in Texels /\ rdp.other \in Modes
    BY <1>0, ModesTyped, DrawAssumption DEF Rdp, Texels
  <2>2. DrawRectangle(c, rdp.other, FALSE, pinned)
    BY <1>10 DEF TextureRectangle
  <2> HIDE DEF c
  <2> QED BY <2>1, <2>2, DrawGood
<1>11. ASSUME NEW pinned \in BOOLEAN, FillRectangle(pinned) PROVE IInv'
  <2>1. FillMode(rdp.other) \in Modes /\ rdp.combine \in Texels
    BY <1>0, ModesTyped, DrawAssumption DEF Rdp, FillMode, Modes
  <2>2. DrawRectangle(rdp.combine, FillMode(rdp.other), TRUE, pinned)
    BY <1>11 DEF FillRectangle
  <2> QED BY <2>1, <2>2, DrawGood
<1>12. ASSUME FillRectangleFast PROVE IInv'
  <2> DEFINE h == [gfx EXCEPT !.tri = FALSE, !.kind = "OP"]
  <2>1. Quiet(gfx, h)
    BY <1>0 DEF Quiet, Gfx, Lists
  <2>2. gfx' = Submit(h, "OP") /\ "OP" \in Lists /\ rdp' = rdp
    BY <1>12 DEF FillRectangleFast, Lists
  <2> HIDE DEF h
  <2>3. Good(gfx')
    BY <1>0, <2>1, <2>2, QuietGood, SubmitGood
  <2>4. wrong' \subseteq {"list", "image", "test", "write", "fog"}
    BY <1>12, DifferingFields DEF FillRectangleFast
  <2> QED BY <1>0, <2>2, <2>3, <2>4 DEF IInv
<1>13. CASE UNCHANGED vars
  BY <1>13 DEF vars, IInv, Good, Owned, IdsOf, Blocks
<1> QED
  BY <1>1, <1>2, <1>3, <1>4, <1>5, <1>6, <1>7, <1>8, <1>9, <1>10, <1>11, <1>12, <1>13 DEF Next

LEMMA Invariant == Spec => []IInv
BY InitGood, NextGood, PTL DEF Spec

\* Registers, caches and headers keep their types: no texture is bound, named by a
\* header or given out whose id the table does not have.
THEOREM DrawTypeCorrect == Spec => []TypeOK
<1>1. IInv => TypeOK
  BY DEF IInv, Good, Gfx, Rs, Pvr, Nodes, Tex, Rdp, TypeOK
<1> QED BY <1>1, Invariant, PTL

\* However many scenes are loaded and uploads fail: every texture has one node, every
\* block of video RAM one texture, and what a scene took it gives back.
THEOREM TexturesKept == Spec => []TexturesOwned
<1>1. IInv => TexturesOwned
  BY DEF IInv, Good, Owned, IdsOf, Blocks, TexturesOwned
<1> QED BY <1>1, Invariant, PTL
-----------------------------------------------------------------------------
(* DrawnAsAsked. *)

Told(g) == /\ g.pvr.fog = g.rs.fog
           /\ g.rs.test => g.pvr.test
           /\ g.rs.write => g.pvr.write

\* The image of one node, and of all.
ImageRight(g, k) ==
  g.nodes[k] # NoNode /\ ~g.nodes[k].dirty /\ g.tex[g.nodes[k].id].block => g.tex[g.nodes[k].id].image = k
Uploaded(g) ==
  /\ \A k \in Keys : ImageRight(g, k)
  /\ \A i \in 1 .. g.texCount : ~g.tex[i].block => g.free = 0

Bound(g, k) == g.nodes[k] # NoNode /\ ~g.nodes[k].dirty /\ g.pvr.bound = g.nodes[k].id

TriDone(g) == g.tri =>
  /\ g.rs.test = (rdp.geometry.zbuffer /\ rdp.other.zcmp)
  /\ g.rs.write = rdp.other.zupd
  /\ g.rs.fog = rdp.geometry.fog
  /\ g.kind = KindOf(rdp.other)
  /\ g.pvr.textured = UsesTexel(rdp.combine)
  /\ UsesTexel(rdp.combine) => Bound(g, <<rdp.loaded, Inverted(rdp.combine)>>)

RectCombine == IF rdp.other.cycle = "copy" THEN "texel" ELSE rdp.combine
QuadDone(g) == g.quad # NoSetup =>
  /\ ~g.rs.test /\ ~g.rs.fog
  /\ g.rs.write = QuadWrites(g.quad.other)
  /\ g.quad.kind = QuadKind(g.quad.other)
  /\ g.pvr.textured = (UsesTexel(RectCombine) /\ ~g.quad.ext)
  /\ g.pvr.textured => Bound(g, <<rdp.loaded, FALSE>>)

LoadedBound(g) == reloaded /\ ~g.changed => Bound(g, <<rdp.loaded, g.mask>>)

Sound(g) == Good(g) /\ Told(g) /\ Uploaded(g) /\ Coherent(g)

\* What DrawnAsAsked says of w, the differences of the primitive drawn last.
Fine(w, g) ==
  /\ w \subseteq {"image", "test", "write"}
  /\ "image" \in w => g.free = 0 /\ ~g.tex[g.pvr.bound].block
  /\ \A field \in w \ {"image"} : g.pvr[field] /\ ~g.rs[field]

DrawInv ==
  /\ IInv
  /\ Told(gfx) /\ Uploaded(gfx)
  /\ phase = "walk" => Coherent(gfx) /\ TriDone(gfx) /\ QuadDone(gfx) /\ LoadedBound(gfx)
  /\ phase # "walk" => wrong = {}
  /\ Fine(wrong, gfx)

\* From g to h the texture bound stays, and only settings may change.
Step(g, h) ==
  /\ Quiet(g, h)
  /\ h.pvr.bound = g.pvr.bound
  /\ h.mask = g.mask /\ h.changed = g.changed
  /\ Told(g) => Told(h)
  /\ Coherent(g) => Coherent(h)
SameSetups(g, h) == h.kind = g.kind /\ h.tri = g.tri /\ h.quad = g.quad
-----------------------------------------------------------------------------
LEMMA StepTwice == ASSUME NEW f, NEW g, NEW h, Step(f, g), Step(g, h) PROVE Step(f, h)
BY DEF Step, Quiet

LEMMA StepSound == ASSUME NEW g, NEW h, Sound(g), Step(g, h) PROVE Sound(h)
<1>1. Good(h)
  BY QuietGood DEF Sound, Step
<1>2. Uploaded(h)
  BY DEF Sound, Step, Quiet, Uploaded, ImageRight
<1> QED BY <1>1, <1>2 DEF Sound, Step

LEMMA StepBound == ASSUME NEW g, NEW h, NEW k, Step(g, h), Bound(g, k) PROVE Bound(h, k)
BY DEF Step, Quiet, Bound

LEMMA StepLoaded == ASSUME NEW g, NEW h, LoadedBound(g), Step(g, h) PROVE LoadedBound(h)
BY DEF Step, Quiet, LoadedBound, Bound

LEMMA StepIn == ASSUME NEW g, NEW h, Step(g, h) PROVE h \in Gfx
BY DEF Step, Quiet

\* A change the back end is told of.
LEMMA ChangeParts ==
  ASSUME NEW g \in Gfx, NEW field \in {"test", "write", "fog", "textured"}, NEW v \in BOOLEAN
  PROVE  LET h == Change(g, field, v)
         IN  /\ Quiet(g, h) /\ SameSetups(g, h)
             /\ h.mask = g.mask /\ h.changed = g.changed /\ h.rs = g.rs
             /\ h.pvr = [g.pvr EXCEPT ![field] = v]
             /\ Coherent(g) => Coherent(h)
<1> DEFINE h == [g EXCEPT !.pvr[field] = v, !.hdr = AllDirty]
<1>1. h.hdr = AllDirty
  BY DEF Gfx
<1>2. Coherent(h)
  BY <1>1, DirtyCoherent
<1>3. /\ h.mask = g.mask /\ h.changed = g.changed /\ h.rs = g.rs
      /\ h.pvr = [g.pvr EXCEPT ![field] = v] /\ SameSetups(g, h)
  BY DEF Gfx, SameSetups
<1>4. Change(g, field, v) = IF g.pvr[field] = v THEN g ELSE h
  BY DEF Change
<1> HIDE DEF h
<1>5. g.pvr[field] = v => g.pvr = [g.pvr EXCEPT ![field] = v]
  BY DEF Gfx, Pvr
<1>6. SameSetups(g, g)
  BY DEF SameSetups
<1> QED BY <1>2, <1>3, <1>4, <1>5, <1>6, FlagQuiet

LEMMA TexturedStep ==
  ASSUME NEW g \in Gfx, NEW v \in BOOLEAN
  PROVE  LET h == Change(g, "textured", v)
         IN  Step(g, h) /\ SameSetups(g, h) /\ h.rs = g.rs /\ h.pvr.textured = v
<1> DEFINE h == Change(g, "textured", v)
<1>1. /\ Quiet(g, h) /\ SameSetups(g, h)
      /\ h.mask = g.mask /\ h.changed = g.changed /\ h.rs = g.rs
      /\ h.pvr = [g.pvr EXCEPT !["textured"] = v]
      /\ Coherent(g) => Coherent(h)
  BY ChangeParts
<1> HIDE DEF h
<1>2. /\ h.pvr.textured = v /\ h.pvr.bound = g.pvr.bound
      /\ h.pvr.test = g.pvr.test /\ h.pvr.write = g.pvr.write /\ h.pvr.fog = g.pvr.fog
  BY <1>1 DEF Gfx, Pvr
<1>3. Told(g) => Told(h)
  BY <1>1, <1>2 DEF Told
<1> QED BY <1>1, <1>2, <1>3 DEF Step, h

LEMMA TrackStep ==
  ASSUME NEW g \in Gfx, NEW field \in {"test", "write", "fog"}, NEW v \in BOOLEAN
  PROVE  LET h == Track(g, field, v)
         IN  /\ Step(g, h) /\ SameSetups(g, h) /\ h.pvr.textured = g.pvr.textured
             /\ h.rs[field] = v
             /\ \A f \in {"test", "write", "fog"} : f # field => h.rs[f] = g.rs[f]
<1> DEFINE c == Change(g, field, v)
           h == [c EXCEPT !.rs[field] = v]
<1>1. /\ Quiet(g, c) /\ SameSetups(g, c)
      /\ c.mask = g.mask /\ c.changed = g.changed /\ c.rs = g.rs
      /\ c.pvr = [g.pvr EXCEPT ![field] = v]
      /\ Coherent(g) => Coherent(c)
  BY ChangeParts
<1>2. Track(g, field, v) = IF g.rs[field] = v THEN g ELSE h
  BY DEF Track
<1>3. Quiet(g, Track(g, field, v))
  BY TrackQuiet
<1> HIDE DEF c
<1>4. /\ h.mask = c.mask /\ h.changed = c.changed /\ h.pvr = c.pvr /\ h.hdr = c.hdr
      /\ h.rs = [g.rs EXCEPT ![field] = v] /\ h.tex = c.tex /\ SameSetups(c, h)
  BY <1>1 DEF Quiet, Gfx, SameSetups
<1> HIDE DEF h
<1>5. /\ h.pvr[field] = v /\ h.pvr.bound = g.pvr.bound /\ h.pvr.textured = g.pvr.textured
      /\ \A f \in {"test", "write", "fog"} : f # field => h.pvr[f] = g.pvr[f]
  BY <1>1, <1>4 DEF Gfx, Pvr
<1>6. /\ h.rs[field] = v
      /\ \A f \in {"test", "write", "fog"} : f # field => h.rs[f] = g.rs[f]
  BY <1>4 DEF Gfx, Rs
<1>7. Told(g) => Told(h)
  BY <1>5, <1>6 DEF Told
<1>8. Coherent(g) => Coherent(h)
  BY <1>1, <1>4 DEF Coherent, Header
<1>9. SameSetups(g, g) /\ SameSetups(g, h)
  BY <1>1, <1>4 DEF SameSetups
<1>10. CASE g.rs[field] = v
  BY <1>2, <1>3, <1>9, <1>10 DEF Step
<1>11. CASE g.rs[field] # v
  BY <1>1, <1>2, <1>3, <1>4, <1>5, <1>6, <1>7, <1>8, <1>9, <1>11 DEF Step
<1> QED BY <1>10, <1>11

LEMMA ShaderStep ==
  ASSUME NEW g \in Gfx, NEW c \in Texels, NEW o \in Modes
  PROVE  LET h == LoadShader(g, c, o)
         IN  /\ Step(g, h) /\ SameSetups(g, h) /\ h.pvr = g.pvr
             /\ h.rs.test = g.rs.test /\ h.rs.write = g.rs.write /\ h.rs.fog = g.rs.fog
<1> DEFINE h == [g EXCEPT !.rs.prg = <<c, o>>, !.hdr = AllDirty]
<1>1. LoadShader(g, c, o) = IF g.rs.prg = <<c, o>> THEN g ELSE h
  BY DEF LoadShader
<1>2. Quiet(g, LoadShader(g, c, o))
  BY ShaderQuiet
<1>3. /\ h.mask = g.mask /\ h.changed = g.changed /\ h.pvr = g.pvr /\ h.hdr = AllDirty
      /\ h.rs.test = g.rs.test /\ h.rs.write = g.rs.write /\ h.rs.fog = g.rs.fog
      /\ SameSetups(g, h)
  BY DEF Gfx, Rs, SameSetups
<1> HIDE DEF h
<1>4. Coherent(h) /\ (Told(g) => Told(h)) /\ SameSetups(g, g)
  BY <1>3, DirtyCoherent DEF Told, SameSetups
<1> QED BY <1>1, <1>2, <1>3, <1>4 DEF Step
-----------------------------------------------------------------------------
(* The texture cache.                                                      *)

\* Between a lookup and an upload only the texture just bound may be wrong.
Looked(g, k) ==
  /\ Good(g) /\ Bound(g, k) /\ g.pvr.bound \in 1 .. g.texCount
  /\ \A j \in Keys : j # k => ImageRight(g, j)
  /\ \A i \in 1 .. g.texCount : i # g.pvr.bound /\ ~g.tex[i].block => g.free = 0

LEMMA LookupSound ==
  ASSUME NEW g, Good(g), Uploaded(g), NEW k \in UsedKeys
  PROVE  Looked(Lookup(g, k), k) /\ Rest(g, Lookup(g, k))
<1> DEFINE t == Lookup(g, k)
<1>1. Good(t) /\ t.pvr.bound \in 1 .. t.texCount
  BY LookupGood
<1>2. k \in Keys /\ g.nodes \in Nodes /\ g.tex \in Tex /\ g.texCount \in Nat
  BY DEF UsedKeys, Good, Gfx
<1>3. CASE g.nodes[k] # NoNode
  <2>1. /\ Rest(g, t) /\ t.pvr.bound = g.nodes[k].id
        /\ t.nodes[k].id = g.nodes[k].id /\ ~t.nodes[k].dirty
        /\ \A j \in Keys : j # k => t.nodes[j] = g.nodes[j]
        /\ t.tex = g.tex /\ t.texCount = g.texCount /\ t.free = g.free
        /\ g.nodes[k].id \in 1 .. g.texCount
    BY <1>2, <1>3, LookupOld
  <2> HIDE DEF t
  <2>2. t.nodes[k] # NoNode
    BY <2>1 DEF NoNode
  <2>3. \A j \in Keys : j # k => ImageRight(t, j)
    BY <2>1 DEF Uploaded, ImageRight
  <2>4. \A i \in 1 .. t.texCount : ~t.tex[i].block => t.free = 0
    BY <2>1 DEF Uploaded
  <2> QED BY <1>1, <2>1, <2>2, <2>3, <2>4 DEF Looked, Bound, t
<1>4. CASE g.nodes[k] = NoNode
  <2> DEFINE n == g.texCount + 1
             node == [id |-> n, dirty |-> FALSE]
  <2>1. /\ Rest(g, t) /\ n \in Ids /\ t.pvr.bound = n
        /\ t.nodes = [g.nodes EXCEPT ![k] = node]
        /\ t.tex = [g.tex EXCEPT ![n] = Empty] /\ t.texCount = n /\ t.free = g.free
    BY <1>4, LookupNew
  <2> HIDE DEF t
  <2>2. t.nodes[k] = node /\ \A j \in Keys : j # k => t.nodes[j] = g.nodes[j]
    BY <1>2, <2>1 DEF Nodes
  <2>3. t.nodes[k] # NoNode
    BY <1>2, <2>2 DEF NoNode
  <2>4. \A i \in 1 .. g.texCount : t.tex[i] = g.tex[i]
    BY <1>2, <2>1 DEF Tex, Ids
  <2>5. \A j \in Keys : g.nodes[j] # NoNode => g.nodes[j].id \in 1 .. g.texCount
    BY DEF Good, Owned, IdsOf
  <2>6. \A j \in Keys : j # k => ImageRight(t, j)
    BY <2>2, <2>4, <2>5 DEF Uploaded, ImageRight
  <2>7. \A i \in 1 .. t.texCount : i # t.pvr.bound /\ ~t.tex[i].block => t.free = 0
    <3> SUFFICES ASSUME NEW i \in 1 .. t.texCount, i # t.pvr.bound PROVE ~t.tex[i].block => t.free = 0
      OBVIOUS
    <3>1. i \in 1 .. g.texCount
      BY <1>2, <2>1
    <3> QED BY <2>1, <2>4, <3>1 DEF Uploaded
  <2> QED BY <1>1, <2>1, <2>2, <2>3, <2>6, <2>7 DEF Looked, Bound, t
<1> QED BY <1>3, <1>4

LEMMA UploadSound ==
  ASSUME NEW g, NEW k \in UsedKeys, Looked(g, k)
  PROVE  LET t == UploadTexture(g, k)
         IN  Good(t) /\ Uploaded(t) /\ Coherent(t) /\ Bound(t, k) /\ Rest(g, t)
<1> DEFINE id == g.pvr.bound
           h == [g EXCEPT !.hdr = AllDirty]
           new == [image |-> k, block |-> TRUE]
           t == UploadTexture(g, k)
<1>1. g \in Gfx /\ g.texCount \in Nat /\ g.free \in Nat /\ id \in Ids /\ k \in Keys
  BY DrawAssumption DEF Looked, Good, Gfx, Ids, UsedKeys
<1>2. Good(t)
  BY <1>1, UploadGood DEF Looked
<1>3. \A j \in Keys : g.nodes[j] # NoNode => g.nodes[j].id \in Ids /\ (j # k => g.nodes[j].id # id)
  <2>1. \A j \in Keys : g.nodes[j] # NoNode => g.nodes[j].id \in 1 .. g.texCount
    BY DEF Looked, Good, Owned, IdsOf
  <2> QED BY <1>1, <2>1, DrawAssumption DEF Looked, Good, Owned, Bound, Gfx, Ids
<1>4. \A i \in 1 .. g.texCount : i \in Ids
  BY <1>1, DrawAssumption DEF Gfx, Ids
<1>5. /\ h \in Gfx /\ h.hdr = AllDirty /\ Rest(g, h)
      /\ h.pvr = g.pvr /\ h.nodes = g.nodes /\ h.tex = g.tex /\ h.texCount = g.texCount /\ h.free = g.free
  <2>1. AllDirty \in [Lists -> Headers \cup {Dirty}]
    BY DEF AllDirty
  <2> QED BY <1>1, <2>1 DEF Gfx, Rest
<1>6. t = IF g.tex[id].block THEN [h EXCEPT !.tex[id].image = k]
          ELSE IF g.free > 0 THEN [h EXCEPT !.tex[id] = new, !.free = @ - 1]
          ELSE h
  BY DEF UploadTexture
<1> HIDE DEF h, t
\* Whatever is uploaded, only the tables of textures and of free blocks differ from h.
<1>7. /\ t.hdr = AllDirty /\ t.pvr = g.pvr /\ t.nodes = g.nodes /\ t.texCount = g.texCount
      /\ Rest(h, t)
  BY <1>5, <1>6 DEF Gfx, Rest
<1>8. /\ \A i \in Ids : i # id => t.tex[i] = g.tex[i]
      /\ t.tex[id].block => t.tex[id].image = k
      /\ g.free = 0 => t.free = 0
      /\ ~t.tex[id].block => t.free = 0
  <2>1. CASE g.tex[id].block
    <3>1. t.tex = [g.tex EXCEPT ![id] = [g.tex[id] EXCEPT !.image = k]] /\ t.free = g.free
      BY <1>5, <1>6, <2>1 DEF Gfx
    <3> QED BY <1>1, <2>1, <3>1 DEF Gfx, Tex
  <2>2. CASE ~g.tex[id].block /\ g.free > 0
    <3>1. t.tex = [g.tex EXCEPT ![id] = new]
      BY <1>5, <1>6, <2>2 DEF Gfx
    <3> QED BY <1>1, <2>2, <3>1 DEF Gfx, Tex
  <2>3. CASE ~g.tex[id].block /\ ~(g.free > 0)
    BY <1>1, <1>5, <1>6, <2>3
  <2> QED BY <2>1, <2>2, <2>3
<1>9. Bound(t, k)
  BY <1>7 DEF Looked, Bound
<1>10. Uploaded(t)
  <2>1. ImageRight(t, k)
    BY <1>7, <1>8, <1>9 DEF Bound, ImageRight
  <2>2. \A j \in Keys : j # k => ImageRight(t, j)
    BY <1>3, <1>7, <1>8 DEF Looked, ImageRight
  <2>3. \A i \in 1 .. t.texCount : ~t.tex[i].block => t.free = 0
    BY <1>4, <1>7, <1>8 DEF Looked
  <2> QED BY <2>1, <2>2, <2>3 DEF Uploaded
<1>11. Coherent(t) /\ Rest(g, t)
  BY <1>5, <1>7, DirtyCoherent DEF Rest
<1> QED BY <1>2, <1>9, <1>10, <1>11 DEF t

LEMMA ImportSound ==
  ASSUME NEW g, Sound(g), NEW a \in Addrs, g.mask => a \notin Dynamic
  PROVE  LET t == ImportTexture(g, a)
         IN  Sound(t) /\ Bound(t, <<a, g.mask>>) /\ Rest(g, t)
<1> DEFINE k == <<a, g.mask>>
           l == Lookup(g, k)
           u == UploadTexture(l, k)
           t == ImportTexture(g, a)
<1>1. k \in UsedKeys /\ k \in Keys
  BY DEF Sound, Good, Gfx, UsedKeys, Keys
<1> HIDE DEF k
<1>2. Looked(l, k) /\ Rest(g, l)
  BY <1>1, LookupSound DEF Sound
<1>3. t = IF g.nodes[k] # NoNode /\ ~g.nodes[k].dirty THEN l ELSE u
  BY DEF ImportTexture, k
<1>4. CASE g.nodes[k] # NoNode /\ ~g.nodes[k].dirty
  <2>1. /\ Coherent(l) /\ l.nodes[k].id = g.nodes[k].id
        /\ l.tex = g.tex /\ l.texCount = g.texCount /\ l.free = g.free
    BY <1>1, <1>4, LookupOld DEF Sound
  <2> HIDE DEF l
  <2>2. ImageRight(l, k)
    BY <1>1, <1>4, <2>1 DEF Sound, Uploaded, ImageRight
  <2>3. Uploaded(l)
    BY <1>2, <2>1, <2>2 DEF Sound, Looked, Uploaded
  <2>4. Told(l)
    BY <1>2 DEF Sound, Told, Rest
  <2> QED BY <1>2, <1>3, <1>4, <2>1, <2>3, <2>4 DEF Looked, Sound, k
<1>5. CASE ~(g.nodes[k] # NoNode /\ ~g.nodes[k].dirty)
  <2> HIDE DEF l
  <2>1. Good(u) /\ Uploaded(u) /\ Coherent(u) /\ Bound(u, k) /\ Rest(l, u)
    BY <1>1, <1>2, UploadSound
  <2> HIDE DEF u
  <2>2. Rest(g, u)
    BY <1>2, <2>1 DEF Rest
  <2>3. Told(u)
    BY <2>2 DEF Sound, Told, Rest
  <2>4. t = u
    BY <1>3, <1>5
  <2> HIDE DEF t
  <2> QED BY <2>1, <2>2, <2>3, <2>4 DEF Sound, k, t
<1> QED BY <1>4, <1>5

\* After the texture is bound it is the one loaded, with the channels asked for.
LEMMA BindSound ==
  ASSUME NEW g, Sound(g), LoadedBound(g), NEW inverted \in BOOLEAN, rdp.loaded \in Addrs,
         inverted => rdp.loaded \notin Dynamic
  PROVE  LET t == BindTexture(g, inverted)
         IN  /\ Sound(t) /\ LoadedBound(t) /\ (reloaded => Bound(t, <<rdp.loaded, inverted>>))
             /\ SameSetups(g, t) /\ t.rs = g.rs
<1> DEFINE h == Remask(g, inverted)
           i == ImportTexture(h, rdp.loaded)
           u == [i EXCEPT !.changed = FALSE]
           t == BindTexture(g, inverted)
<1>1. /\ Quiet(g, h) /\ h.mask = inverted /\ SameSetups(g, h) /\ h.rs = g.rs
      /\ h.pvr = g.pvr /\ h.hdr = g.hdr
      /\ h.changed = (g.changed \/ g.mask # inverted)
  BY DEF Remask, Sound, Good, Quiet, Gfx, SameSetups
<1>2. t = IF h.changed THEN u ELSE h
  BY DEF BindTexture
<1> HIDE DEF h
<1>3. Sound(h)
  <2>1. Good(h)
    BY <1>1, QuietGood DEF Sound
  <2>2. Told(h) /\ Uploaded(h)
    BY <1>1 DEF Sound, Told, Quiet, Uploaded, ImageRight
  <2>3. Coherent(h)
    BY <1>1 DEF Sound, Coherent, Header, Quiet
  <2> QED BY <2>1, <2>2, <2>3 DEF Sound
<1>4. CASE h.changed
  <2>1. Sound(i) /\ Bound(i, <<rdp.loaded, inverted>>) /\ Rest(h, i)
    BY <1>1, <1>3, ImportSound
  <2> HIDE DEF i
  <2>2. /\ Quiet(i, u) /\ SameSetups(i, u) /\ u.rs = i.rs /\ u.pvr = i.pvr /\ u.hdr = i.hdr
        /\ u.mask = i.mask
    BY <2>1 DEF Sound, Good, Quiet, Gfx, SameSetups
  <2>3. Bound(u, <<rdp.loaded, inverted>>) /\ u.mask = inverted
    BY <1>1, <2>1, <2>2 DEF Bound, Quiet, Rest
  <2>4. Good(u)
    BY <2>1, <2>2, QuietGood DEF Sound
  <2>5. Told(u) /\ Uploaded(u)
    BY <2>1, <2>2 DEF Sound, Told, Quiet, Uploaded, ImageRight
  <2>6. Coherent(u)
    BY <2>1, <2>2 DEF Sound, Coherent, Header, Quiet
  <2>7. SameSetups(g, u) /\ u.rs = g.rs
    BY <1>1, <2>1, <2>2 DEF SameSetups, Rest
  <2> HIDE DEF u
  <2> QED BY <1>2, <1>4, <2>3, <2>4, <2>5, <2>6, <2>7 DEF Sound, LoadedBound
<1>5. CASE ~h.changed
  <2>1. reloaded => Bound(h, <<rdp.loaded, inverted>>)
    BY <1>1, <1>5 DEF LoadedBound, Bound, Quiet
  <2> QED BY <1>1, <1>2, <1>3, <1>5, <2>1 DEF LoadedBound
<1> QED BY <1>4, <1>5
-----------------------------------------------------------------------------
(* The setups.                                                             *)

\* A step that changes neither settings nor textures, but what is marked as done.
Marks(g, h) ==
  /\ Quiet(g, h) /\ h.rs = g.rs /\ h.pvr = g.pvr /\ h.hdr = g.hdr
  /\ h.mask = g.mask /\ h.changed = g.changed

LEMMA MarksStep == ASSUME NEW g, NEW h, Marks(g, h) PROVE Step(g, h)
BY DEF Marks, Step, Quiet, Told, Coherent, Header

LEMMA KindMarks ==
  ASSUME NEW g \in Gfx, NEW l \in Lists
  PROVE  LET h == [g EXCEPT !.kind = l]
         IN  Marks(g, h) /\ h.kind = l /\ h.tri = g.tri /\ h.quad = g.quad
BY DEF Marks, Quiet, Gfx

LEMMA TriMarks ==
  ASSUME NEW g \in Gfx, NEW b \in BOOLEAN
  PROVE  LET h == [g EXCEPT !.tri = b]
         IN  Marks(g, h) /\ h.kind = g.kind /\ h.tri = b /\ h.quad = g.quad
BY DEF Marks, Quiet, Gfx

LEMMA QuadMarks ==
  ASSUME NEW g \in Gfx, NEW q \in Quads
  PROVE  LET h == [g EXCEPT !.quad = q]
         IN  Marks(g, h) /\ h.kind = g.kind /\ h.tri = g.tri /\ h.quad = q
BY DEF Marks, Quiet, Gfx

LEMMA WriteStep ==
  ASSUME NEW g \in Gfx, NEW v \in BOOLEAN
  PROVE  LET h == Track(g, "write", v)
         IN  /\ Step(g, h) /\ SameSetups(g, h) /\ h.pvr.textured = g.pvr.textured
             /\ h.rs.write = v /\ h.rs.test = g.rs.test /\ h.rs.fog = g.rs.fog
BY TrackStep

LEMMA FogStep ==
  ASSUME NEW g \in Gfx, NEW v \in BOOLEAN
  PROVE  LET h == Track(g, "fog", v)
         IN  /\ Step(g, h) /\ SameSetups(g, h) /\ h.pvr.textured = g.pvr.textured
             /\ h.rs.fog = v /\ h.rs.test = g.rs.test /\ h.rs.write = g.rs.write
BY TrackStep

LEMMA DepthStep ==
  ASSUME NEW g \in Gfx, NEW t \in BOOLEAN, NEW w \in BOOLEAN
  PROVE  LET h == Track(Track(g, "test", t), "write", w)
         IN  /\ Step(g, h) /\ SameSetups(g, h) /\ h.pvr.textured = g.pvr.textured
             /\ h.rs.test = t /\ h.rs.write = w /\ h.rs.fog = g.rs.fog
<1> DEFINE f == Track(g, "test", t)
           h == Track(f, "write", w)
<1>1. /\ Step(g, f) /\ SameSetups(g, f) /\ f.pvr.textured = g.pvr.textured
      /\ f.rs.test = t /\ f.rs.fog = g.rs.fog
  BY TrackStep
<1> HIDE DEF f
<1>f. f \in Gfx
  BY <1>1, StepIn
<1>2. /\ Step(f, h) /\ SameSetups(f, h) /\ h.pvr.textured = f.pvr.textured
      /\ h.rs.write = w /\ h.rs.test = f.rs.test /\ h.rs.fog = f.rs.fog
  BY <1>f, WriteStep
<1> HIDE DEF h
<1>3. Step(g, h)
  BY <1>1, <1>2, StepTwice
<1> QED BY <1>1, <1>2, <1>3 DEF SameSetups, h, f

LEMMA TriSetupSound ==
  ASSUME NEW g, Sound(g), LoadedBound(g), rdp \in Rdp, UsesTexel(rdp.combine) => reloaded,
         Inverted(rdp.combine) => rdp.loaded \notin Dynamic
  PROVE  LET t == TriSetup(g) IN Sound(t) /\ LoadedBound(t) /\ TriDone(t) /\ t.tri
<1> DEFINE c == rdp.combine
           o == rdp.other
           test == rdp.geometry.zbuffer /\ o.zcmp
           depth == Track(Track(g, "test", test), "write", o.zupd)
           shaded == LoadShader(depth, c, o)
           bound == IF UsesTexel(c) THEN BindTexture(shaded, Inverted(c)) ELSE shaded
           kind == [bound EXCEPT !.kind = KindOf(o)]
           textured == Change(kind, "textured", UsesTexel(c))
           fog == Track(textured, "fog", rdp.geometry.fog)
           t == [fog EXCEPT !.tri = TRUE]
           image == <<rdp.loaded, Inverted(c)>>
<1>1. /\ c \in Texels /\ o \in Modes /\ rdp.loaded \in Addrs
      /\ rdp.geometry \in [zbuffer : BOOLEAN, fog : BOOLEAN]
  BY DrawAssumption, ModesTyped DEF Rdp
<1>2. /\ test \in BOOLEAN /\ o.zupd \in BOOLEAN /\ rdp.geometry.fog \in BOOLEAN
      /\ UsesTexel(c) \in BOOLEAN /\ Inverted(c) \in BOOLEAN /\ KindOf(o) \in Lists
  BY <1>1 DEF Modes, UsesTexel, Inverted, KindOf, Lists
<1>3. TriSetup(g) = t
  BY DEF TriSetup
<1>t. (Inverted(c) => rdp.loaded \notin Dynamic) /\ (UsesTexel(c) => reloaded)
  OBVIOUS
<1>4. Step(g, depth) /\ depth.rs.test = test /\ depth.rs.write = o.zupd
  <2> HIDE DEF test
  <2> QED BY <1>2, DepthStep DEF Sound, Good
<1> HIDE DEF depth
<1>5. /\ Step(depth, shaded)
      /\ shaded.rs.test = test /\ shaded.rs.write = o.zupd
  <2> HIDE DEF c, o, test
  <2> QED BY <1>1, <1>4, ShaderStep, StepIn
<1>6. Sound(shaded) /\ LoadedBound(shaded)
  <2> HIDE DEF shaded
  <2> QED BY <1>4, <1>5, StepSound, StepLoaded
<1> HIDE DEF shaded
<1>7. /\ Sound(bound) /\ LoadedBound(bound)
      /\ UsesTexel(c) => Bound(bound, image)
      /\ bound.rs.test = test /\ bound.rs.write = o.zupd
  <2> HIDE DEF c, o, test
  <2>1. CASE UsesTexel(c)
    BY <1>1, <1>2, <1>5, <1>6, <1>t, <2>1, BindSound
  <2>2. CASE ~UsesTexel(c)
    BY <1>5, <1>6, <2>2
  <2> QED BY <2>1, <2>2
<1> HIDE DEF bound
<1>8. Step(bound, kind) /\ kind.kind = KindOf(o) /\ kind.rs = bound.rs
  <2> HIDE DEF o
  <2> QED BY <1>2, <1>7, KindMarks, MarksStep DEF Marks, Sound, Good
<1> HIDE DEF kind
<1>9. /\ Step(kind, textured) /\ textured.kind = KindOf(o) /\ textured.rs = bound.rs
      /\ textured.pvr.textured = UsesTexel(c)
  <2>1. kind \in Gfx
    BY <1>8, StepIn
  <2> HIDE DEF c, o
  <2>2. Step(kind, textured) /\ SameSetups(kind, textured) /\ textured.rs = kind.rs
        /\ textured.pvr.textured = UsesTexel(c)
    BY <1>2, <2>1, TexturedStep
  <2> QED BY <1>8, <2>2 DEF SameSetups
<1> HIDE DEF textured
<1>10. /\ Step(textured, fog) /\ fog.kind = KindOf(o) /\ fog.pvr.textured = UsesTexel(c)
       /\ fog.rs.fog = rdp.geometry.fog
       /\ fog.rs.test = bound.rs.test /\ fog.rs.write = bound.rs.write
  <2>1. textured \in Gfx
    BY <1>9, StepIn
  <2> HIDE DEF c, o
  <2>2. /\ Step(textured, fog) /\ SameSetups(textured, fog) /\ fog.pvr.textured = textured.pvr.textured
        /\ fog.rs.fog = rdp.geometry.fog
        /\ fog.rs.test = textured.rs.test /\ fog.rs.write = textured.rs.write
    BY <1>2, <2>1, FogStep
  <2> QED BY <1>9, <2>2 DEF SameSetups
<1> HIDE DEF fog
<1>11. Step(fog, t) /\ t.tri /\ t.kind = fog.kind /\ t.rs = fog.rs /\ t.pvr = fog.pvr
  BY <1>10, TriMarks, MarksStep, StepIn DEF Marks
<1> HIDE DEF t
<1>12. Step(bound, t)
  BY <1>8, <1>9, <1>10, <1>11, StepTwice
<1>13. Sound(t) /\ LoadedBound(t) /\ (UsesTexel(c) => Bound(t, image))
  BY <1>7, <1>12, StepSound, StepLoaded, StepBound
<1>14. TriDone(t)
  BY <1>7, <1>10, <1>11, <1>13 DEF TriDone
<1> QED BY <1>3, <1>11, <1>13, <1>14

\* The texture a rectangle asks for.
RectImage == <<rdp.loaded, FALSE>>

LEMMA QuadSetupSound ==
  ASSUME NEW g, Sound(g), LoadedBound(g), rdp \in Rdp, NEW c \in Texels, NEW o \in Modes,
         NEW ext \in BOOLEAN, UsesTexel(c) /\ ~ext => reloaded
  PROVE  LET t == QuadSetup(g, c, o, ext)
         IN  /\ Sound(t) /\ LoadedBound(t)
             /\ ~t.rs.test /\ ~t.rs.fog /\ t.rs.write = QuadWrites(o)
             /\ t.pvr.textured = (UsesTexel(c) /\ ~ext)
             /\ t.pvr.textured => Bound(t, RectImage)
             /\ t.quad = [other |-> o, ext |-> ext, kind |-> QuadKind(o)]
<1> DEFINE depth == Track(Track(g, "test", FALSE), "write", QuadWrites(o))
           shaded == LoadShader(depth, c, o)
           bound == IF UsesTexel(c) THEN BindTexture(shaded, FALSE) ELSE shaded
           texel == UsesTexel(c) /\ ~ext
           textured == Change(bound, "textured", texel)
           fog == Track(textured, "fog", FALSE)
           quad == [other |-> o, ext |-> ext, kind |-> QuadKind(o)]
           t == [fog EXCEPT !.quad = quad]
<1>1. /\ QuadWrites(o) \in BOOLEAN /\ texel \in BOOLEAN /\ quad \in Quads /\ rdp.loaded \in Addrs
  BY DEF Modes, QuadWrites, UsesTexel, Quads, QuadKind, KindOf, Lists, Rdp
<1>2. QuadSetup(g, c, o, ext) = t
  BY DEF QuadSetup
<1> HIDE DEF quad
<1>3. Step(g, depth) /\ ~depth.rs.test /\ depth.rs.write = QuadWrites(o)
  BY <1>1, DepthStep DEF Sound, Good
<1> HIDE DEF depth
<1>4. Step(depth, shaded) /\ ~shaded.rs.test /\ shaded.rs.write = QuadWrites(o)
  BY <1>3, ShaderStep, StepIn
<1> HIDE DEF shaded
<1>5. Sound(shaded) /\ LoadedBound(shaded)
  BY <1>3, <1>4, StepSound, StepLoaded
<1>6. /\ Sound(bound) /\ LoadedBound(bound)
      /\ UsesTexel(c) /\ reloaded => Bound(bound, RectImage)
      /\ ~bound.rs.test /\ bound.rs.write = QuadWrites(o)
  <2>1. CASE UsesTexel(c)
    BY <1>1, <1>4, <1>5, <2>1, BindSound DEF RectImage
  <2>2. CASE ~UsesTexel(c)
    BY <1>4, <1>5, <2>2
  <2> QED BY <2>1, <2>2
<1> HIDE DEF bound
<1>t. texel => UsesTexel(c) /\ reloaded
  OBVIOUS
<1>7. Step(bound, textured) /\ textured.rs = bound.rs /\ textured.pvr.textured = texel
  <2> HIDE DEF texel
  <2> QED BY <1>1, <1>6, TexturedStep DEF Sound, Good
<1> HIDE DEF textured
<1>8. /\ Step(textured, fog) /\ fog.pvr.textured = texel /\ ~fog.rs.fog
      /\ fog.rs.test = bound.rs.test /\ fog.rs.write = bound.rs.write
  <2>1. textured \in Gfx
    BY <1>7, StepIn
  <2> HIDE DEF texel
  <2>2. /\ Step(textured, fog) /\ fog.pvr.textured = textured.pvr.textured /\ fog.rs.fog = FALSE
        /\ fog.rs.test = textured.rs.test /\ fog.rs.write = textured.rs.write
    BY <2>1, FogStep
  <2> QED BY <1>7, <2>2
<1> HIDE DEF fog
<1>9. Step(fog, t) /\ t.quad = quad /\ t.rs = fog.rs /\ t.pvr = fog.pvr
  <2>1. fog \in Gfx
    BY <1>8, StepIn
  <2>2. Marks(fog, t) /\ t.quad = quad
    BY <1>1, <2>1, QuadMarks
  <2> HIDE DEF t
  <2> QED BY <2>2, MarksStep DEF Marks
<1> HIDE DEF t
<1>10. Step(bound, t)
  BY <1>7, <1>8, <1>9, StepTwice
<1>11. Sound(t) /\ LoadedBound(t) /\ (texel => Bound(t, RectImage))
  BY <1>6, <1>t, <1>10, StepSound, StepLoaded, StepBound
<1> QED BY <1>2, <1>6, <1>8, <1>9, <1>11 DEF quad

\* The setup of a pinned backdrop is its own.
LEMMA FarPinSound ==
  ASSUME NEW g, Sound(g), LoadedBound(g), NEW k, g.pvr.textured => Bound(g, k)
  PROVE  LET t == FarPin(g)
         IN  /\ Sound(t) /\ LoadedBound(t)
             /\ t.rs.test /\ ~t.rs.write /\ t.rs.fog = g.rs.fog
             /\ t.pvr.textured = g.pvr.textured
             /\ t.pvr.textured => Bound(t, k)
             /\ t.kind = "OP" /\ t.quad = NoSetup /\ t.tri = g.tri
<1> DEFINE depth == Track(Track(g, "test", TRUE), "write", FALSE)
           t == [depth EXCEPT !.kind = "OP", !.quad = NoSetup]
<1>1. /\ Step(g, depth) /\ SameSetups(g, depth) /\ depth.pvr.textured = g.pvr.textured
      /\ depth.rs.test /\ ~depth.rs.write /\ depth.rs.fog = g.rs.fog
  BY DepthStep DEF Sound, Good
<1>2. FarPin(g) = t
  BY DEF FarPin
<1> HIDE DEF depth
<1>3. depth \in Gfx
  BY <1>1, StepIn
<1>4. Marks(depth, t) /\ t.kind = "OP" /\ t.quad = NoSetup /\ t.tri = depth.tri
  BY <1>3 DEF Marks, Quiet, Gfx, Lists, Quads
<1> HIDE DEF t
<1>5. Step(depth, t)
  BY <1>4, MarksStep
<1>6. Step(g, t)
  BY <1>1, <1>5, StepTwice
<1>7. Sound(t) /\ LoadedBound(t)
  BY <1>6, StepSound, StepLoaded
<1>8. Bound(g, k) => Bound(t, k)
  BY <1>6, StepBound
<1> QED BY <1>1, <1>2, <1>4, <1>7, <1>8 DEF Marks, SameSetups

\* A rectangle is set up as its modes and its list ask, in both paths.
LEMMA QuadSound ==
  ASSUME NEW g, Sound(g), LoadedBound(g), QuadDone(g), rdp \in Rdp, NEW c \in Texels, NEW o \in Modes,
         NEW ext \in BOOLEAN, NEW pinned \in BOOLEAN,
         UsesTexel(c) /\ ~ext => reloaded, ~ext => c = RectCombine
  PROVE  LET t == Quad(g, c, o, ext, pinned)
         IN  /\ Sound(t) /\ LoadedBound(t) /\ QuadDone(t) /\ ~t.tri
             /\ t.rs.test = pinned /\ ~t.rs.fog
             /\ t.rs.write = (~pinned /\ QuadWrites(o))
             /\ t.pvr.textured = (UsesTexel(c) /\ ~ext)
             /\ t.pvr.textured => Bound(t, RectImage)
             /\ t.kind = IF pinned THEN "OP" ELSE QuadKind(o)
<1> DEFINE f == IF QuadReady(g, o, ext) THEN g ELSE QuadSetup(g, c, o, ext)
           h == [f EXCEPT !.tri = FALSE]
           p == FarPin(h)
           t == [h EXCEPT !.kind = h.quad.kind]
           texel == UsesTexel(c) /\ ~ext
<1>w. QuadWrites(o) \in BOOLEAN /\ QuadKind(o) \in Lists /\ texel = (UsesTexel(RectCombine) /\ ~ext)
  BY DEF QuadWrites, Modes, QuadKind, KindOf, Lists
<1>1. /\ Sound(f) /\ LoadedBound(f)
      /\ ~f.rs.test /\ ~f.rs.fog /\ f.rs.write = QuadWrites(o)
      /\ f.pvr.textured = texel
      /\ f.pvr.textured => Bound(f, RectImage)
      /\ f.quad # NoSetup /\ f.quad.other = o /\ f.quad.ext = ext /\ f.quad.kind = QuadKind(o)
  <2>1. CASE QuadReady(g, o, ext)
    BY <1>w, <2>1 DEF QuadReady, QuadDone, RectImage
  <2>2. CASE ~QuadReady(g, o, ext)
    <3> DEFINE s == QuadSetup(g, c, o, ext)
               q == [other |-> o, ext |-> ext, kind |-> QuadKind(o)]
    <3>1. /\ Sound(s) /\ LoadedBound(s)
          /\ ~s.rs.test /\ ~s.rs.fog /\ s.rs.write = QuadWrites(o)
          /\ s.pvr.textured = texel
          /\ s.pvr.textured => Bound(s, RectImage)
          /\ s.quad = q
      BY QuadSetupSound
    <3>2. q # NoSetup /\ q.other = o /\ q.ext = ext /\ q.kind = QuadKind(o)
      BY DEF NoSetup
    <3> HIDE DEF s, q
    <3>3. f = s
      BY <2>2 DEF s
    <3> QED BY <3>1, <3>2, <3>3
  <2> QED BY <2>1, <2>2
<1>2. Quad(g, c, o, ext, pinned) = IF pinned THEN p ELSE t
  BY DEF Quad
<1> HIDE DEF f
<1>3. Marks(f, h) /\ h.quad = f.quad /\ h.tri = FALSE
  BY <1>1, TriMarks DEF Sound, Good
<1> HIDE DEF h, texel
<1>4. Step(f, h)
  BY <1>3, MarksStep
<1>5. /\ Sound(h) /\ LoadedBound(h)
      /\ ~h.rs.test /\ ~h.rs.fog /\ h.rs.write = QuadWrites(o)
      /\ h.pvr.textured = texel
      /\ h.pvr.textured => Bound(h, RectImage)
  BY <1>1, <1>3, <1>4, StepSound, StepLoaded, StepBound DEF Marks
<1>6. CASE pinned
  <2>1. /\ Sound(p) /\ LoadedBound(p)
        /\ p.rs.test /\ ~p.rs.write /\ p.rs.fog = h.rs.fog
        /\ p.pvr.textured = h.pvr.textured
        /\ p.pvr.textured => Bound(p, RectImage)
        /\ p.kind = "OP" /\ p.quad = NoSetup /\ p.tri = h.tri
    BY <1>5, FarPinSound
  <2> HIDE DEF p
  <2>2. QuadDone(p)
    BY <2>1 DEF QuadDone
  <2>3. p.rs.test = TRUE /\ p.rs.write = FALSE /\ Quad(g, c, o, ext, pinned) = p
    BY <1>2, <1>6, <2>1 DEF Sound, Good, Gfx, Rs
  <2>4. ~p.tri /\ ~p.rs.fog /\ p.pvr.textured = (UsesTexel(c) /\ ~ext)
    BY <1>3, <1>5, <2>1 DEF texel
  <2>5. pinned = TRUE
    BY <1>6
  <2> QED BY <2>1, <2>2, <2>3, <2>4, <2>5
<1>7. CASE ~pinned
  <2>1. h \in Gfx
    BY <1>5 DEF Sound, Good
  <2>2. h.quad.kind = QuadKind(o) /\ h.quad # NoSetup /\ h.quad.other = o /\ h.quad.ext = ext
    BY <1>1, <1>3
  <2>3. Marks(h, t) /\ t.kind = QuadKind(o) /\ t.tri = h.tri /\ t.quad = h.quad
    BY <1>w, <2>1, <2>2, KindMarks
  <2> HIDE DEF t
  <2>4. Step(h, t)
    BY <2>3, MarksStep
  <2>5. Sound(t) /\ LoadedBound(t) /\ (h.pvr.textured => Bound(t, RectImage))
    BY <1>5, <2>4, StepSound, StepLoaded, StepBound
  <2>6. t.rs = h.rs /\ t.pvr = h.pvr
    BY <2>3 DEF Marks
  <2>7. QuadDone(t)
    BY <1>5, <1>w, <2>2, <2>3, <2>5, <2>6 DEF QuadDone, RectImage
  <2>8. t.rs.test = FALSE /\ t.rs.write = QuadWrites(o) /\ Quad(g, c, o, ext, pinned) = t
    BY <1>2, <1>5, <1>7, <2>5, <2>6 DEF Sound, Good, Gfx, Rs
  <2>9. ~t.tri /\ ~t.rs.fog /\ t.pvr.textured = (UsesTexel(c) /\ ~ext)
        /\ (t.pvr.textured => Bound(t, RectImage))
    BY <1>3, <1>5, <2>3, <2>5, <2>6 DEF texel
  <2>10. pinned = FALSE
    BY <1>7
  <2> QED BY <1>w, <2>3, <2>5, <2>7, <2>8, <2>9, <2>10
<1> QED BY <1>6, <1>7
-----------------------------------------------------------------------------
(* What is drawn.                                                          *)

LEMMA SubmitStep ==
  ASSUME NEW g, Sound(g), NEW l \in Lists
  PROVE  LET t == Submit(g, l)
         IN  /\ Step(g, t) /\ SameSetups(g, t) /\ t.rs = g.rs /\ t.pvr = g.pvr
             /\ t.hdr[l] = Header(t)
<1> DEFINE head == Header(g)
           h == [g EXCEPT !.hdr[l] = head]
           t == Submit(g, l)
<1>1. g \in Gfx /\ Coherent(g) /\ Quiet(g, t)
  BY SubmitQuiet DEF Sound, Good
<1>2. t = IF g.hdr[l] = Dirty THEN h ELSE g
  BY DEF Submit
<1> HIDE DEF head
<1>3. /\ h.rs = g.rs /\ h.pvr = g.pvr /\ h.tex = g.tex /\ h.mask = g.mask /\ h.changed = g.changed
      /\ SameSetups(g, h)
      /\ h.hdr[l] = head /\ \A m \in Lists : m # l => h.hdr[m] = g.hdr[m]
  BY <1>1 DEF Gfx, SameSetups
<1> HIDE DEF h
<1>4. Header(h) = head
  BY <1>3 DEF Header, head
<1>5. Coherent(h) /\ Told(g) => Told(h)
  BY <1>1, <1>3, <1>4 DEF Coherent, Told, head
<1>6. SameSetups(g, g) /\ (g.hdr[l] # Dirty => g.hdr[l] = Header(g))
  BY <1>1 DEF SameSetups, Coherent
<1>7. CASE g.hdr[l] = Dirty
  <2>1. t = h
    BY <1>2, <1>7
  <2>2. Coherent(h)
    BY <1>1, <1>3, <1>4 DEF Coherent, head
  <2> HIDE DEF t
  <2> QED BY <1>1, <1>3, <1>4, <1>5, <2>1, <2>2 DEF Step, t
<1>8. CASE g.hdr[l] # Dirty
  BY <1>1, <1>2, <1>6, <1>8 DEF Step
<1> QED BY <1>7, <1>8

\* A compiled header draws the texture bound with the settings told.
LEMMA Shows ==
  ASSUME NEW h, Sound(h), NEW l \in Lists, h.hdr[l] = Header(h), rdp.loaded \in Addrs,
         NEW textured \in BOOLEAN, NEW inverted \in BOOLEAN, h.pvr.textured = textured,
         textured => Bound(h, <<rdp.loaded, inverted>>)
  PROVE  Fine(Differing(Shown(h, l), Asked(l, textured, inverted, h.rs.test, h.rs.write, h.rs.fog)), h)
<1> DEFINE shown == Shown(h, l)
           asked == Asked(l, textured, inverted, h.rs.test, h.rs.write, h.rs.fog)
           w == Differing(shown, asked)
           k == <<rdp.loaded, inverted>>
<1>1. w \subseteq {"list", "image", "test", "write", "fog"}
  <2> HIDE DEF shown
  <2> QED BY DifferingFields
<1>2. /\ shown.list = l /\ asked.list = l
      /\ shown.test = h.pvr.test /\ asked.test = h.rs.test
      /\ shown.write = h.pvr.write /\ asked.write = h.rs.write
      /\ shown.fog = h.pvr.fog /\ asked.fog = h.rs.fog
      /\ asked.image = IF textured THEN k ELSE NoImage
      /\ shown.image = IF h.hdr[l].tex = 0 THEN NoImage ELSE h.tex[h.hdr[l].tex].image
  BY DEF Shown, Asked, Header
<1>3. h.hdr[l].tex = IF textured /\ h.pvr.bound # 0 /\ h.tex[h.pvr.bound].block THEN h.pvr.bound ELSE 0
  BY DEF Header
<1>4. \A f \in w : shown[f] # asked[f]
  BY DEF Differing
<1> HIDE DEF shown, asked, w
<1>5. "list" \notin w /\ "fog" \notin w
  BY <1>2, <1>4 DEF Sound, Told
<1>6. /\ "test" \in w => h.pvr.test /\ ~h.rs.test
      /\ "write" \in w => h.pvr.write /\ ~h.rs.write
  <2>1. /\ h.pvr.test \in BOOLEAN /\ h.pvr.write \in BOOLEAN
        /\ h.rs.test \in BOOLEAN /\ h.rs.write \in BOOLEAN
    BY DEF Sound, Good, Gfx, Rs, Pvr
  <2> QED BY <1>2, <1>4, <2>1 DEF Sound, Told
<1>7. "image" \in w => h.free = 0 /\ ~h.tex[h.pvr.bound].block
  <2>1. CASE ~textured
    BY <1>2, <1>3, <1>4, <2>1
  <2>2. CASE textured
    <3>1. k \in Keys /\ h.nodes[k] # NoNode /\ ~h.nodes[k].dirty /\ h.pvr.bound = h.nodes[k].id
      BY <2>2 DEF Bound, Keys
    <3> HIDE DEF k
    <3>2. h.pvr.bound # 0
      BY <3>1 DEF Sound, Good, Owned
    <3>3. h.pvr.bound \in 1 .. h.texCount
      BY <3>1, <3>2 DEF Sound, Good, Owned, IdsOf
    <3>4. CASE h.tex[h.pvr.bound].block
      <4>1. h.tex[h.pvr.bound].image = k
        BY <3>1, <3>4 DEF Sound, Uploaded, ImageRight
      <4> QED BY <1>2, <1>3, <1>4, <2>2, <3>2, <3>4, <4>1
    <3>5. CASE ~h.tex[h.pvr.bound].block
      BY <3>3, <3>5 DEF Sound, Uploaded
    <3> QED BY <3>4, <3>5
  <2> QED BY <2>1, <2>2
<1>8. Fine(w, h)
  BY <1>1, <1>5, <1>6, <1>7 DEF Fine
<1> QED BY <1>8 DEF w, shown, asked

LEMMA FineNone == ASSUME NEW g PROVE Fine({}, g)
BY DEF Fine

LEMMA OutdatedMarks ==
  ASSUME NEW g \in Gfx
  PROVE  LET h == Outdated(g) IN Marks(g, h) /\ h.tri = FALSE /\ h.quad = NoSetup
BY DEF Outdated, Marks, Quiet, Gfx, Quads

\* What a step within a frame has to establish.
LEMMA WithinFrame ==
  ASSUME IInv', phase' = "walk", rdp' = rdp, reloaded' = reloaded, Sound(gfx'), TriDone(gfx'), QuadDone(gfx'),
         LoadedBound(gfx'), Fine(wrong', gfx')
  PROVE  DrawInv'
<1>1. Told(gfx)' /\ Uploaded(gfx)' /\ Coherent(gfx)' /\ Fine(wrong, gfx)'
  BY DEF Sound, Told, Uploaded, ImageRight, Coherent, Header, Fine
<1>2. TriDone(gfx)' /\ QuadDone(gfx)' /\ LoadedBound(gfx)'
  BY DEF TriDone, QuadDone, LoadedBound, Bound, RectCombine
<1> QED BY <1>1, <1>2 DEF DrawInv
-----------------------------------------------------------------------------
(* Between two frames.                                                     *)

\* The node of an image that has changed is marked: there is only one.
LEMMA ChangeSound ==
  ASSUME NEW g, Good(g), Told(g), Uploaded(g), NEW a \in Dynamic
  PROVE  LET t == Invalidate([g EXCEPT !.tex = [i \in Ids |->
                    IF @[i].image # NoImage /\ @[i].image[1] = a THEN [@[i] EXCEPT !.image = Stale] ELSE @[i]]], a)
         IN  Told(t) /\ Uploaded(t)
<1> DEFINE tex == [i \in Ids |-> IF g.tex[i].image # NoImage /\ g.tex[i].image[1] = a
                                  THEN [g.tex[i] EXCEPT !.image = Stale] ELSE g.tex[i]]
           h == [g EXCEPT !.tex = tex]
           q == <<a, FALSE>>
           ks == NodesOf(h, a)
           t == Invalidate(h, a)
<1>1. /\ h.nodes = g.nodes /\ h.tex = tex /\ h.texCount = g.texCount /\ h.free = g.free
      /\ h.rs = g.rs /\ h.pvr = g.pvr /\ h \in [rs : Rs, kind : Lists, mask : BOOLEAN, changed : BOOLEAN,
           tri : BOOLEAN, quad : Quads, nodes : Nodes, pvr : Pvr, tex : {tex}, texCount : 0 .. MaxTextures,
           free : 0 .. VramBlocks, hdr : [Lists -> Headers \cup {Dirty}]]
  BY DEF Good, Gfx
<1>2. \A i \in Ids : /\ tex[i].block = g.tex[i].block
                     /\ g.tex[i].image[1] # a => tex[i] = g.tex[i]
  BY DEF Good, Gfx, Tex
<1> HIDE DEF tex
<1>3. q \in Keys /\ g.nodes \in Nodes
  BY DrawAssumption DEF Keys, Good, Gfx
<1>4. \A k \in Keys : k[1] = a /\ g.nodes[k] # NoNode => k = q
  <2> SUFFICES ASSUME NEW k \in Keys, k[1] = a, g.nodes[k] # NoNode PROVE k = q
    OBVIOUS
  <2>1. k \in UsedKeys
    BY DEF Good, Owned
  <2>2. PICK b \in Addrs, c \in BOOLEAN : k = <<b, c>>
    BY DEF Keys
  <2> QED BY <2>1, <2>2 DEF UsedKeys
<1>5. \A k \in Keys : g.nodes[k] # NoNode => g.nodes[k].id \in Ids
  BY DrawAssumption DEF Good, Owned, IdsOf, Gfx, Ids
<1>6. \A i \in 1 .. g.texCount : i \in Ids
  BY DrawAssumption DEF Good, Gfx, Ids
<1>7. /\ t.tex = tex /\ t.texCount = g.texCount /\ t.free = g.free /\ t.rs = g.rs /\ t.pvr = g.pvr
      /\ \A k \in Keys : k # q => t.nodes[k] = g.nodes[k]
      /\ t.nodes[q] # NoNode => t.nodes[q].dirty
  <2>1. CASE ks = {}
    <3>1. g.nodes[q] = NoNode
      BY <1>1, <1>3, <2>1 DEF NodesOf
    <3>2. t = h
      BY <2>1 DEF Invalidate
    <3> HIDE DEF h, t
    <3> QED BY <1>1, <3>1, <3>2
  <2>2. CASE ks # {}
    <3>1. ks = {q} /\ g.nodes[q] # NoNode
      BY <1>1, <1>4, <2>2 DEF NodesOf
    <3>2. g.nodes[q].id \in Nat /\ g.nodes[q].id # 0
      BY <1>3, <3>1 DEF Good, Owned, Nodes
    <3>n. h.nodes = g.nodes
      BY <1>1
    <3> HIDE DEF ks
    <3>3. First(h, ks) = q
      <4> HIDE DEF h, q
      <4>1. \E k \in ks : \A j \in ks : h.nodes[k].id <= h.nodes[j].id
        BY <3>1, <3>2, <3>n
      <4>2. First(h, ks) \in ks
        BY <4>1 DEF First
      <4> QED BY <3>1, <4>2
    <3>4. t = [h EXCEPT !.nodes[q].dirty = TRUE]
      BY <2>2, <3>3 DEF Invalidate, ks
    <3> HIDE DEF h, t, q
    <3>5. t.nodes = [g.nodes EXCEPT ![q].dirty = TRUE]
      BY <1>1, <3>4
    <3>6. t.tex = tex /\ t.texCount = g.texCount /\ t.free = g.free /\ t.rs = g.rs /\ t.pvr = g.pvr
      BY <1>1, <3>4
    <3>7. t.nodes[q].dirty /\ \A k \in Keys : k # q => t.nodes[k] = g.nodes[k]
      BY <1>3, <3>5 DEF Nodes
    <3> QED BY <3>6, <3>7
  <2> QED BY <2>1, <2>2
<1> HIDE DEF t, h
<1>8. Told(t)
  BY <1>7 DEF Told
<1>9. \A k \in Keys : ImageRight(t, k)
  <2> SUFFICES ASSUME NEW k \in Keys PROVE ImageRight(t, k)
    OBVIOUS
  <2>1. CASE k = q
    BY <1>7, <2>1 DEF ImageRight
  <2>2. CASE k # q /\ g.nodes[k] # NoNode
    <3>1. k[1] # a
      BY <1>4, <2>2
    <3>2. t.nodes[k] = g.nodes[k] /\ g.nodes[k].id \in Ids
      BY <1>5, <1>7, <2>2
    <3> QED BY <1>2, <1>7, <2>2, <3>1, <3>2 DEF Uploaded, ImageRight
  <2>3. CASE k # q /\ g.nodes[k] = NoNode
    BY <1>7, <2>3 DEF ImageRight
  <2> QED BY <2>1, <2>2, <2>3
<1>10. \A i \in 1 .. t.texCount : ~t.tex[i].block => t.free = 0
  BY <1>2, <1>6, <1>7 DEF Uploaded
<1>11. Uploaded(t)
  BY <1>9, <1>10 DEF Uploaded
<1> QED BY <1>8, <1>11 DEF t, h, tex

LEMMA ClearSound ==
  ASSUME NEW g, Good(g), Told(g)
  PROVE  LET t == [ClearAllTextures(g) EXCEPT !.nodes = [k \in Keys |-> NoNode]]
         IN  Told(t) /\ Uploaded(t)
<1> DEFINE nodes == [k \in Keys |-> NoNode]
           f == g.free + Cardinality(Cleared(g))
           tex == [i \in Ids |-> IF i \in Cleared(g) THEN Empty ELSE g.tex[i]]
           u == [g EXCEPT !.tex = tex, !.free = f, !.texCount = 0, !.pvr.bound = 0]
           t == [ClearAllTextures(g) EXCEPT !.nodes = nodes]
<1>1. ClearAllTextures(g) = u
  BY DEF ClearAllTextures, Good, Gfx
<1> HIDE DEF nodes, f, tex
<1>2. t = [u EXCEPT !.nodes = nodes]
  BY <1>1
<1>u. /\ u.texCount = 0 /\ u.rs = g.rs /\ u.pvr = [g.pvr EXCEPT !.bound = 0]
      /\ u \in [rs : Rs, kind : Lists, mask : BOOLEAN, changed : BOOLEAN, tri : BOOLEAN, quad : Quads,
               nodes : Nodes, pvr : {[g.pvr EXCEPT !.bound = 0]}, tex : {tex}, texCount : {0},
               free : {f}, hdr : [Lists -> Headers \cup {Dirty}]]
  BY DEF Good, Gfx
<1> HIDE DEF t, u
<1>3. /\ t.nodes = nodes /\ t.texCount = 0 /\ t.rs = g.rs
      /\ t.pvr.test = g.pvr.test /\ t.pvr.write = g.pvr.write /\ t.pvr.fog = g.pvr.fog
  <2>1. t.nodes = nodes /\ t.texCount = 0 /\ t.rs = g.rs /\ t.pvr = u.pvr
    BY <1>2, <1>u
  <2> QED BY <1>u, <2>1 DEF Good, Gfx, Pvr
<1>4. Told(t)
  BY <1>3 DEF Told
<1>5. \A k \in Keys : ImageRight(t, k)
  BY <1>3 DEF ImageRight, nodes
<1>6. Uploaded(t)
  BY <1>3, <1>5 DEF Uploaded
<1> QED BY <1>4, <1>6 DEF t, nodes

\* What a step between two frames has to establish.
LEMMA BetweenFrames ==
  ASSUME IInv', phase' = "game", wrong' = {}, Told(gfx'), Uploaded(gfx')
  PROVE  DrawInv'
<1>1. Told(gfx)' /\ Uploaded(gfx)' /\ Fine(wrong, gfx)'
  BY DEF Told, Uploaded, ImageRight, Fine
<1> QED BY <1>1 DEF DrawInv
-----------------------------------------------------------------------------
LEMMA InitDrawn == Init => DrawInv
<1> SUFFICES ASSUME Init PROVE DrawInv
  OBVIOUS
<1>1. IInv
  BY InitGood
<1>2. Told(gfx)
  BY DEF Init, Told
<1>3. /\ \A k \in Keys : gfx.nodes[k] = NoNode
      /\ gfx.texCount = 0 /\ wrong = {} /\ phase = "game"
  BY DEF Init
<1>4. Uploaded(gfx)
  BY <1>3 DEF Uploaded, ImageRight
<1> QED BY <1>1, <1>2, <1>3, <1>4, FineNone DEF DrawInv

\* A rectangle, textured or filled.
LEMMA RectangleDrawn ==
  ASSUME DrawInv, IInv', NEW c \in Texels, NEW o \in Modes, NEW ext \in BOOLEAN, NEW pinned \in BOOLEAN,
         ~ext => c = RectCombine, DrawRectangle(c, o, ext, pinned)
  PROVE  DrawInv'
<1> DEFINE h == Quad(gfx, c, o, ext, pinned)
           l == h.kind
           textured == UsesTexel(c) /\ ~ext
           shown == Shown(gfx', l)
           writes == ~pinned /\ QuadWrites(o)
           asked == Asked(l, textured, FALSE, pinned, writes, FALSE)
<1>1. /\ phase = "walk" /\ phase' = "walk" /\ rdp' = rdp /\ reloaded' = reloaded
      /\ gfx' = Submit(h, l) /\ (textured => reloaded)
  BY DEF DrawRectangle
<1>2. Sound(gfx) /\ LoadedBound(gfx) /\ QuadDone(gfx) /\ rdp \in Rdp /\ rdp.loaded \in Addrs
  BY <1>1 DEF DrawInv, IInv, Sound, Rdp
<1>3. /\ Sound(h) /\ LoadedBound(h) /\ QuadDone(h) /\ ~h.tri
      /\ h.rs.test = pinned /\ ~h.rs.fog
      /\ h.rs.write = writes
      /\ h.pvr.textured = textured
      /\ h.pvr.textured => Bound(h, RectImage)
      /\ l = IF pinned THEN "OP" ELSE QuadKind(o)
  BY <1>1, <1>2, QuadSound
<1>w. textured \in BOOLEAN /\ (QuadWrites(o) \in BOOLEAN) /\ h.rs.fog \in BOOLEAN /\ l \in Lists
  BY <1>3 DEF UsesTexel, QuadWrites, Modes, Sound, Good, Gfx, Rs
<1>4. wrong' = Differing(shown, asked)
  <2>1. CASE pinned
    BY <1>3, <2>1 DEF DrawRectangle
  <2>2. CASE ~pinned
    <3>1. /\ wrong' = Differing(shown, Asked(QuadKind(o), textured, FALSE, FALSE, QuadWrites(o), FALSE))
      BY <2>2 DEF DrawRectangle
    <3>2. pinned = FALSE /\ writes = QuadWrites(o) /\ l = QuadKind(o)
      BY <1>3, <1>w, <2>2
    <3> HIDE DEF h, l, textured, shown, writes
    <3> QED BY <3>1, <3>2
  <2> QED BY <2>1, <2>2
<1> HIDE DEF h, textured, writes
<1>5. /\ Step(h, gfx') /\ SameSetups(h, gfx') /\ gfx'.rs = h.rs /\ gfx'.pvr = h.pvr
      /\ gfx'.hdr[l] = Header(gfx')
  BY <1>1, <1>3, <1>w, SubmitStep
<1> HIDE DEF l, shown
<1>6. Sound(gfx') /\ LoadedBound(gfx') /\ (textured => Bound(gfx', RectImage))
  BY <1>3, <1>5, StepSound, StepLoaded, StepBound
<1>7. TriDone(gfx') /\ QuadDone(gfx')
  <2>1. ~gfx'.tri /\ gfx'.quad = h.quad
    BY <1>3, <1>5 DEF SameSetups
  <2>2. Bound(h, RectImage) => Bound(gfx', RectImage)
    BY <1>5, StepBound
  <2> QED BY <1>3, <1>5, <2>1, <2>2 DEF TriDone, QuadDone, RectImage
<1>8. Fine(wrong', gfx')
  <2>1. gfx'.rs.test = pinned /\ gfx'.rs.write = writes /\ gfx'.rs.fog = FALSE
    BY <1>3, <1>5, <1>w
  <2>2. Fine(Differing(Shown(gfx', l), Asked(l, textured, FALSE, gfx'.rs.test, gfx'.rs.write, gfx'.rs.fog)), gfx')
    BY <1>2, <1>3, <1>5, <1>6, <1>w, Shows DEF RectImage
  <2> QED BY <1>4, <2>1, <2>2 DEF shown
<1> QED BY <1>1, <1>6, <1>7, <1>8, WithinFrame

LEMMA TriangleDrawn ==
  ASSUME DrawInv, IInv', NEW perspective \in BOOLEAN, NEW clipped \in BOOLEAN, Tri(perspective, clipped)
  PROVE  DrawInv'
<1> DEFINE c == rdp.combine
           o == rdp.other
           f == IF gfx.tri THEN gfx ELSE TriSetup(gfx)
           h == [f EXCEPT !.quad = NoSetup]
           l == h.kind
           test == rdp.geometry.zbuffer /\ o.zcmp
           asked == Asked(KindOf(o), UsesTexel(c), Inverted(c), test, o.zupd, rdp.geometry.fog)
           shown == Shown(gfx', l)
<1>1. /\ phase = "walk" /\ phase' = "walk" /\ rdp' = rdp /\ reloaded' = reloaded
      /\ (UsesTexel(c) => reloaded) /\ (Inverted(c) => rdp.loaded \notin Dynamic)
      /\ gfx' = IF clipped THEN h ELSE Submit(h, l)
      /\ wrong' = IF clipped THEN {} ELSE Differing(shown, asked)
  BY DEF Tri
<1>2. Sound(gfx) /\ LoadedBound(gfx) /\ TriDone(gfx) /\ rdp \in Rdp /\ rdp.loaded \in Addrs
  BY <1>1 DEF DrawInv, IInv, Sound, Rdp
<1>w. UsesTexel(c) \in BOOLEAN /\ Inverted(c) \in BOOLEAN
  BY DEF UsesTexel, Inverted
<1>3. Sound(f) /\ LoadedBound(f) /\ TriDone(f) /\ f.tri
  BY <1>1, <1>2, TriSetupSound
<1> HIDE DEF f
<1>4. /\ f.rs.test = test /\ f.rs.write = o.zupd /\ f.rs.fog = rdp.geometry.fog
      /\ f.kind = KindOf(o) /\ f.pvr.textured = UsesTexel(c)
      /\ UsesTexel(c) => Bound(f, <<rdp.loaded, Inverted(c)>>)
  BY <1>3 DEF TriDone
<1>5. Marks(f, h) /\ h.kind = f.kind /\ h.tri = f.tri /\ h.quad = NoSetup
  BY <1>3, QuadMarks DEF Sound, Good, Quads
<1> HIDE DEF h
<1>6. Step(f, h)
  BY <1>5, MarksStep
<1>7. /\ Sound(h) /\ LoadedBound(h) /\ (UsesTexel(c) => Bound(h, <<rdp.loaded, Inverted(c)>>))
      /\ h.rs = f.rs /\ h.pvr = f.pvr /\ l \in Lists /\ h.tri
  BY <1>3, <1>4, <1>5, <1>6, StepSound, StepLoaded, StepBound DEF Marks, Sound, Good, Gfx
<1>8. /\ Step(h, Submit(h, l)) /\ SameSetups(h, Submit(h, l))
      /\ Submit(h, l).rs = h.rs /\ Submit(h, l).pvr = h.pvr
      /\ Submit(h, l).hdr[l] = Header(Submit(h, l))
  BY <1>7, SubmitStep
<1>9. /\ Sound(gfx') /\ LoadedBound(gfx') /\ (UsesTexel(c) => Bound(gfx', <<rdp.loaded, Inverted(c)>>))
      /\ gfx'.rs = f.rs /\ gfx'.pvr = f.pvr /\ gfx'.kind = KindOf(o) /\ gfx'.quad = NoSetup
  <2>1. CASE clipped
    BY <1>1, <1>4, <1>5, <1>7, <2>1
  <2>2. CASE ~clipped
    <3>1. gfx' = Submit(h, l)
      BY <1>1, <2>2
    <3> HIDE DEF l, c, o
    <3> QED BY <1>4, <1>5, <1>7, <1>8, <3>1, StepSound, StepLoaded, StepBound DEF SameSetups
  <2> QED BY <2>1, <2>2
<1>10. TriDone(gfx') /\ QuadDone(gfx')
  BY <1>4, <1>9 DEF TriDone, QuadDone
<1>11. Fine(wrong', gfx')
  <2>1. CASE clipped
    BY <1>1, <2>1, FineNone
  <2>2. CASE ~clipped
    <3>1. gfx' = Submit(h, l) /\ wrong' = Differing(shown, asked) /\ l = KindOf(o)
      BY <1>1, <1>4, <1>5, <2>2
    <3>2. gfx'.hdr[l] = Header(gfx')
      BY <1>8, <3>1
    <3> HIDE DEF l, c, o, test
    <3>3. /\ gfx'.rs.test = test /\ gfx'.rs.write = o.zupd /\ gfx'.rs.fog = rdp.geometry.fog
          /\ gfx'.pvr.textured = UsesTexel(c)
      BY <1>4, <1>9
    <3>4. Fine(Differing(Shown(gfx', l), Asked(l, UsesTexel(c), Inverted(c), gfx'.rs.test, gfx'.rs.write, gfx'.rs.fog)), gfx')
      BY <1>2, <1>7, <1>9, <1>w, <3>2, <3>3, Shows
    <3> QED BY <3>1, <3>3, <3>4 DEF shown
  <2> QED BY <2>1, <2>2
<1> QED BY <1>1, <1>9, <1>10, <1>11, WithinFrame

\* An opcode that draws nothing leaves no setup behind that counts as done.
LEMMA NothingDrawn ==
  ASSUME IInv', phase' = "walk", wrong' = {}, Sound(gfx'), ~gfx'.tri, gfx'.quad = NoSetup,
         reloaded' /\ ~gfx'.changed => Bound(gfx', <<rdp'.loaded, gfx'.mask>>)
  PROVE  DrawInv'
<1>1. Told(gfx)' /\ Uploaded(gfx)' /\ Coherent(gfx)' /\ Fine(wrong, gfx)'
  BY DEF Sound, Told, Uploaded, ImageRight, Coherent, Header, Fine
<1>2. TriDone(gfx)' /\ QuadDone(gfx)' /\ LoadedBound(gfx)'
  BY DEF TriDone, QuadDone, LoadedBound, Bound
<1> QED BY <1>1, <1>2 DEF DrawInv

LEMMA RegisterDrawn ==
  ASSUME DrawInv, IInv', NEW field \in {"geometry", "other", "combine"}, NEW value, Register(field, value)
  PROVE  DrawInv'
<1> DEFINE h == Outdated(gfx)
<1>1. /\ phase = "walk" /\ phase' = "walk" /\ wrong' = {} /\ reloaded' = reloaded
      /\ gfx' = h /\ rdp' = [rdp EXCEPT ![field] = value]
  BY DEF Register
<1>2. Sound(gfx) /\ LoadedBound(gfx) /\ gfx \in Gfx /\ rdp \in Rdp
  BY <1>1 DEF DrawInv, IInv, Sound, Good
<1>3. Marks(gfx, h) /\ h.tri = FALSE /\ h.quad = NoSetup
  BY <1>2, OutdatedMarks
<1> HIDE DEF h
<1>4. Sound(h) /\ LoadedBound(h)
  BY <1>2, <1>3, MarksStep, StepSound, StepLoaded
<1>5. rdp'.loaded = rdp.loaded
  BY <1>1, <1>2 DEF Rdp
<1> QED BY <1>1, <1>3, <1>4, <1>5, NothingDrawn DEF LoadedBound

LEMMA NextDrawn == DrawInv /\ [Next]_vars => DrawInv'
<1> SUFFICES ASSUME DrawInv, [Next]_vars PROVE DrawInv'
  OBVIOUS
<1>0. IInv /\ gfx \in Gfx /\ Good(gfx) /\ Told(gfx) /\ Uploaded(gfx) /\ rdp \in Rdp
  BY DEF DrawInv, IInv, Good
<1>i. IInv'
  BY <1>0, NextGood
<1>1. ASSUME NEW a \in Dynamic, ChangeTexture(a) PROVE DrawInv'
  <2>1. Told(gfx') /\ Uploaded(gfx')
    BY <1>0, <1>1, ChangeSound DEF ChangeTexture
  <2>2. phase' = "game" /\ wrong' = {}
    BY <1>1 DEF ChangeTexture, Between, DrawInv
  <2> QED BY <1>i, <2>1, <2>2, BetweenFrames
<1>2. ASSUME LoadScene PROVE DrawInv'
  <2>1. Told(gfx') /\ Uploaded(gfx')
    BY <1>0, <1>2, ClearSound DEF LoadScene
  <2>2. phase' = "game" /\ wrong' = {}
    BY <1>2 DEF LoadScene, Between, DrawInv
  <2> QED BY <1>i, <2>1, <2>2, BetweenFrames
<1>3. ASSUME StartFrame PROVE DrawInv'
  <2> DEFINE h == [gfx EXCEPT !.hdr = AllDirty]
  <2>1. AllDirty \in [Lists -> Headers \cup {Dirty}]
    BY DEF AllDirty
  <2>2. Quiet(gfx, h) /\ h.rs = gfx.rs /\ h.pvr = gfx.pvr /\ h.hdr = AllDirty
    BY <1>0, <2>1 DEF Quiet, Gfx
  <2>3. /\ gfx' = Outdated(h) /\ phase' = "walk" /\ ~reloaded' /\ wrong' = {}
    BY <1>3 DEF StartFrame, DrawInv
  <2> HIDE DEF h
  <2>4. Sound(h)
    BY <1>0, <2>2, QuietGood, DirtyCoherent DEF Sound, Told, Quiet, Uploaded, ImageRight
  <2>5. Marks(h, gfx') /\ gfx'.tri = FALSE /\ gfx'.quad = NoSetup
    BY <2>2, <2>3, OutdatedMarks, QuietIn
  <2>6. Sound(gfx')
    BY <2>4, <2>5, MarksStep, StepSound
  <2> QED BY <1>i, <2>3, <2>5, <2>6, NothingDrawn
<1>4. ASSUME EndFrame PROVE DrawInv'
  <2> DEFINE h == [gfx EXCEPT !.pvr.textured = FALSE, !.pvr.test = TRUE, !.pvr.write = TRUE,
                              !.hdr["OP"] = Dirty]
             t == Submit(h, "OP")
  <2>1. gfx' = t /\ phase' = "game" /\ wrong' = {}
    BY <1>4 DEF EndFrame
  <2>2. /\ h.nodes = gfx.nodes /\ h.tex = gfx.tex /\ h.texCount = gfx.texCount /\ h.free = gfx.free
        /\ h.rs = gfx.rs /\ h.pvr.test = TRUE /\ h.pvr.write = TRUE /\ h.pvr.fog = gfx.pvr.fog
        /\ DOMAIN h = DOMAIN gfx
    BY <1>0 DEF Gfx, Pvr
  <2> HIDE DEF h
  <2>3. /\ t.nodes = h.nodes /\ t.tex = h.tex /\ t.texCount = h.texCount /\ t.free = h.free
        /\ t.rs = h.rs /\ t.pvr = h.pvr
    BY DEF Submit
  <2> HIDE DEF t
  <2>4. Told(t) /\ Uploaded(t)
    BY <1>0, <2>2, <2>3 DEF Told, Uploaded, ImageRight
  <2> QED BY <1>i, <2>1, <2>4, BetweenFrames
<1>5. ASSUME NEW m \in GeometryModes, SetGeometryMode(m) PROVE DrawInv'
  BY <1>5, <1>i, RegisterDrawn DEF SetGeometryMode
<1>6. ASSUME NEW o \in OtherModes, SetOtherMode(o) PROVE DrawInv'
  BY <1>6, <1>i, RegisterDrawn DEF SetOtherMode
<1>7. ASSUME NEW c \in Combiners, SetCombine(c) PROVE DrawInv'
  BY <1>7, <1>i, RegisterDrawn DEF SetCombine
<1>8. ASSUME NEW a \in Addrs, LoadBlock(a) PROVE DrawInv'
  <2> DEFINE h == Outdated(gfx)
             t == [h EXCEPT !.changed = TRUE]
  <2>1. /\ phase = "walk" /\ phase' = "walk" /\ wrong' = {} /\ gfx' = t
    BY <1>8 DEF LoadBlock
  <2>2. Sound(gfx)
    BY <1>0, <2>1 DEF DrawInv, Sound
  <2>3. Marks(gfx, h) /\ h.tri = FALSE /\ h.quad = NoSetup /\ h \in Gfx
    BY <1>0, OutdatedMarks, OutdatedQuiet DEF Quiet
  <2> HIDE DEF h
  <2>4. Sound(h)
    BY <2>2, <2>3, MarksStep, StepSound
  <2>5. /\ Quiet(h, t) /\ t.rs = h.rs /\ t.pvr = h.pvr /\ t.hdr = h.hdr
        /\ t.tri = FALSE /\ t.quad = NoSetup /\ t.changed = TRUE
    BY <2>3 DEF Quiet, Gfx
  <2> HIDE DEF t
  <2>6. Good(t) /\ Told(t) /\ Uploaded(t) /\ Coherent(t)
    BY <2>4, <2>5, QuietGood DEF Sound, Told, Quiet, Uploaded, ImageRight, Coherent, Header
  <2> QED BY <1>i, <2>1, <2>5, <2>6, NothingDrawn DEF Sound
<1>9. ASSUME NEW perspective \in BOOLEAN, NEW clipped \in BOOLEAN, Tri(perspective, clipped) PROVE DrawInv'
  BY <1>9, <1>i, TriangleDrawn
<1>10. ASSUME NEW pinned \in BOOLEAN, TextureRectangle(pinned) PROVE DrawInv'
  <2>1. RectCombine \in Texels /\ rdp.other \in Modes
    BY <1>0, ModesTyped, DrawAssumption DEF Rdp, Texels, RectCombine
  <2>2. DrawRectangle(RectCombine, rdp.other, FALSE, pinned)
    BY <1>10 DEF TextureRectangle, RectCombine
  <2> QED BY <1>i, <2>1, <2>2, RectangleDrawn
<1>11. ASSUME NEW pinned \in BOOLEAN, FillRectangle(pinned) PROVE DrawInv'
  <2>1. FillMode(rdp.other) \in Modes /\ rdp.combine \in Texels
    BY <1>0, ModesTyped, DrawAssumption DEF Rdp, FillMode, Modes
  <2>2. DrawRectangle(rdp.combine, FillMode(rdp.other), TRUE, pinned)
    BY <1>11 DEF FillRectangle
  <2> QED BY <1>i, <2>1, <2>2, RectangleDrawn
<1>12. ASSUME FillRectangleFast PROVE DrawInv'
  <2> DEFINE o == FillMode(rdp.other)
             h == [gfx EXCEPT !.tri = FALSE, !.kind = "OP"]
             shown == Shown(gfx', "OP")
  <2>1. /\ phase = "walk" /\ phase' = "walk" /\ rdp' = rdp /\ reloaded' = reloaded
        /\ QuadReady(gfx, o, TRUE) /\ gfx' = Submit(h, "OP")
        /\ wrong' = Differing(shown, Asked("OP", FALSE, FALSE, FALSE, QuadWrites(o), FALSE))
    BY <1>12 DEF FillRectangleFast, FillIsFast
  <2>2. Sound(gfx) /\ LoadedBound(gfx) /\ QuadDone(gfx) /\ rdp.loaded \in Addrs /\ "OP" \in Lists
    BY <1>0, <2>1 DEF DrawInv, Sound, Rdp, Lists
  <2>3. Marks(gfx, h) /\ h.tri = FALSE /\ h.quad = gfx.quad
    BY <1>0, <2>2 DEF Marks, Quiet, Gfx
  <2> HIDE DEF h, o
  <2>4. Sound(h) /\ LoadedBound(h) /\ (Bound(gfx, RectImage) => Bound(h, RectImage))
    BY <2>2, <2>3, MarksStep, StepSound, StepLoaded, StepBound
  <2>5. /\ Step(h, gfx') /\ SameSetups(h, gfx') /\ gfx'.rs = h.rs /\ gfx'.pvr = h.pvr
        /\ gfx'.hdr["OP"] = Header(gfx')
    BY <2>1, <2>2, <2>4, SubmitStep
  <2>6. Sound(gfx') /\ LoadedBound(gfx') /\ (Bound(gfx, RectImage) => Bound(gfx', RectImage))
    BY <2>4, <2>5, StepSound, StepLoaded, StepBound
  <2>7. TriDone(gfx') /\ QuadDone(gfx')
    BY <2>2, <2>3, <2>5, <2>6 DEF TriDone, QuadDone, SameSetups, Marks, RectImage
  <2>8. gfx'.rs.test = FALSE /\ gfx'.rs.write = QuadWrites(o) /\ gfx'.rs.fog = FALSE /\ gfx'.pvr.textured = FALSE
    <3>1. /\ ~gfx.rs.test /\ ~gfx.rs.fog /\ gfx.rs.write = QuadWrites(o) /\ gfx.pvr.textured = FALSE
      BY <2>1, <2>2 DEF QuadReady, QuadDone
    <3>2. gfx.rs.test \in BOOLEAN /\ gfx.rs.fog \in BOOLEAN
      BY <1>0 DEF Gfx, Rs
    <3> QED BY <2>3, <2>5, <3>1, <3>2 DEF Marks
  <2>9. Fine(wrong', gfx')
    <3>1. Fine(Differing(shown, Asked("OP", FALSE, FALSE, gfx'.rs.test, gfx'.rs.write, gfx'.rs.fog)), gfx')
      BY <2>2, <2>5, <2>6, <2>8, Shows
    <3> HIDE DEF shown
    <3> QED BY <2>1, <2>8, <3>1
  <2> QED BY <1>i, <2>1, <2>6, <2>7, <2>9, WithinFrame
<1>13. CASE UNCHANGED vars
  BY <1>13, <1>i DEF vars, DrawInv, Told, Uploaded, ImageRight, Coherent, Header, TriDone, QuadDone,
                     LoadedBound, Bound, RectCombine, Fine
<1> QED
  BY <1>1, <1>2, <1>3, <1>4, <1>5, <1>6, <1>7, <1>8, <1>9, <1>10, <1>11, <1>12, <1>13 DEF Next

\* Whatever the display list sets and draws, across frames, texture changes and scene
\* loads: a triangle or rectangle is drawn as the registers ask, but for the textures
\* video RAM has no room for and for what the edge mask has left on.
THEOREM PrimitivesDrawnAsAsked == Spec => []DrawnAsAsked
<1>1. DrawInv => DrawnAsAsked
  BY DEF DrawInv, Fine, DrawnAsAsked
<1> QED BY <1>1, InitDrawn, NextDrawn, PTL DEF Spec
=============================================================================
