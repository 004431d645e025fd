------------------------------ MODULE DrawState ------------------------------
(***************************************************************************)
(* The state a primitive is drawn with.  The display list sets registers   *)
(* and draws triangles and rectangles (gfx_retro_dc.c); the PVR back end   *)
(* (gfx_pvr.c) draws each with the header of its list.  Between the two    *)
(* stand five caches: the setups of the 3D and of the 2D path, run only    *)
(* when a register may have changed; the shadow copies of what the back    *)
(* end was last told; the headers of the three lists, compiled only when   *)
(* marked dirty; the texture cache; and the texture the last lookup bound. *)
(*                                                                         *)
(* Generation counters are kept as the comparison they serve.  Left out:   *)
(* vertices, depth values, the combiner's colours, sampler parameters,     *)
(* texture environment and blend factors (shadowed as fog is), palettes,   *)
(* the blur and noise effects, and textures that change their size.        *)
(***************************************************************************)
EXTENDS Naturals, FiniteSets

CONSTANTS
  Addrs,          \* texture images in memory
  Dynamic,        \* those the game changes while it plays
  GeometryModes,  \* records [zbuffer, fog]
  OtherModes,     \* records [cycle, zcmp, zupd, blend, edge]
  Combiners,      \* a subset of Texels
  MaxTextures,    \* PVR_TEX_MAX - 1
  VramBlocks      \* textures that fit in video RAM

Texels == {"shade", "texel", "inverted"}   \* what a combiner makes of the texture

ASSUME DrawAssumption ==
  /\ Dynamic \subseteq Addrs
  /\ GeometryModes \subseteq [zbuffer : BOOLEAN, fog : BOOLEAN]
  /\ OtherModes \subseteq [cycle : {"one", "copy", "fill"}, zcmp : BOOLEAN, zupd : BOOLEAN,
                           blend : BOOLEAN, edge : BOOLEAN]
  /\ Combiners \subseteq Texels
  /\ Addrs # {} /\ Combiners # {}
  /\ MaxTextures \in Nat \ {0} /\ VramBlocks \in Nat

Keys == Addrs \X BOOLEAN     \* address and inverted channels

\* A texture the game changes is drawn in one variant only, and a scene does not use
\* more textures than the table has ids (gfx_pvr.c:444-447).
UsedKeys == {k \in Keys : k[2] => k[1] \notin Dynamic}
ASSUME TextureTable == IsFiniteSet(UsedKeys) /\ Cardinality(UsedKeys) <= MaxTextures

VARIABLES
  rdp,       \* the registers the display list sets
  gfx,       \* the front end's caches and the back end
  persp,     \* cur_frame_persp, has_drawn_persp_tri
  hadPersp,  \* prev_frame_had_persp
  phase,     \* the game works between two frames, then gfx_run walks the list
  reloaded,  \* the list has loaded its texture in this frame
  wrong      \* where the primitive just drawn differs from what was asked for
vars == <<rdp, gfx, persp, hadPersp, phase, reloaded, wrong>>

Lists == {"OP", "PT", "TR"}
Ids == 1 .. MaxTextures
NoNode == [id |-> 0, dirty |-> FALSE]
NoImage == <<>>
Stale == <<"stale">>
Empty == [image |-> NoImage, block |-> FALSE]
Dirty == [tex |-> 0]
AllDirty == [l \in Lists |-> Dirty]
NoSetup == [ext |-> FALSE]

UsesTexel(c) == c # "shade"
Inverted(c) == c = "inverted"
-----------------------------------------------------------------------------
(* The back end.                                                           *)

\* pvr_compile_header
Header(g) ==
  [tex |-> IF g.pvr.textured /\ g.pvr.bound # 0 /\ g.tex[g.pvr.bound].block THEN g.pvr.bound ELSE 0,
   test |-> g.pvr.test, write |-> g.pvr.write, fog |-> g.pvr.fog]

\* The header of a list is compiled again when something has marked it dirty.
Submit(g, list) == IF g.hdr[list] = Dirty THEN [g EXCEPT !.hdr[list] = Header(g)] ELSE g

Change(g, field, value) ==
  IF g.pvr[field] = value THEN g ELSE [g EXCEPT !.pvr[field] = value, !.hdr = AllDirty]

NewId(g) == IF g.texCount < MaxTextures THEN g.texCount + 1 ELSE MaxTextures
NewTexture(g) == [g EXCEPT !.texCount = @ + 1, !.tex[NewId(g)] = Empty]

\* Video RAM is taken at the first upload; when there is none the texture has no image.
UploadTexture(g, image) ==
  LET id == g.pvr.bound
      h  == [g EXCEPT !.hdr = AllDirty]
  IN  IF g.tex[id].block THEN [h EXCEPT !.tex[id].image = image]
      ELSE IF g.free > 0 THEN [h EXCEPT !.tex[id] = [image |-> image, block |-> TRUE], !.free = @ - 1]
      ELSE h

\* (Mutated: the last texture is left out.)
ClearedBelow(g) == {i \in Ids : i < g.texCount /\ g.tex[i].block}
Cleared(g) == {i \in Ids : i <= g.texCount /\ g.tex[i].block}

\* (Mutated: ids are not given out anew.)
ClearKeepingCount(g) ==
  [g EXCEPT !.tex = [i \in Ids |-> IF i \in Cleared(g) THEN Empty ELSE @[i]],
            !.free = @ + Cardinality(Cleared(g)), !.pvr.bound = 0]
ClearAllTextures(g) ==
  [g EXCEPT !.tex = [i \in Ids |-> IF i \in Cleared(g) THEN Empty ELSE @[i]],
            !.free = @ + Cardinality(Cleared(g)), !.texCount = 0, !.pvr.bound = 0]
-----------------------------------------------------------------------------
(* The texture cache.                                                      *)

NodesOf(g, a) == {k \in Keys : k[1] = a /\ g.nodes[k] # NoNode}

\* gfx_texture_cache_invalidate stops at the first node of the address.
First(g, ks) == CHOOSE k \in ks : \A j \in ks : g.nodes[k].id <= g.nodes[j].id
Invalidate(g, a) ==
  IF NodesOf(g, a) = {} THEN g ELSE [g EXCEPT !.nodes[First(g, NodesOf(g, a))].dirty = TRUE]

Lookup(g, k) ==
  IF g.nodes[k] # NoNode
  THEN [Change(g, "bound", g.nodes[k].id) EXCEPT !.nodes[k].dirty = FALSE]
  ELSE [Change(NewTexture(g), "bound", NewId(g)) EXCEPT !.nodes[k] = [id |-> NewId(g), dirty |-> FALSE]]

ImportTexture(g, a) ==
  LET k == <<a, g.mask>>
  IN  IF g.nodes[k] # NoNode /\ ~g.nodes[k].dirty
      THEN Lookup(g, k)
      ELSE UploadTexture(Lookup(g, k), k)

\* A change of the inverted channels is a change of the texture.
Remask(g, inverted) ==
  IF g.mask = inverted THEN g ELSE [g EXCEPT !.mask = inverted, !.changed = TRUE]
BindTexture(g, inverted) ==
  LET h == Remask(g, inverted)
  IN  IF h.changed THEN [ImportTexture(h, rdp.loaded) EXCEPT !.changed = FALSE] ELSE h
-----------------------------------------------------------------------------
(* The front end's setups.                                                 *)

\* A setting the front end has told the back end before is not sent again.
Track(g, field, value) ==
  IF g.rs[field] = value THEN g ELSE [Change(g, field, value) EXCEPT !.rs[field] = value]

LoadShader(g, combine, other) ==
  IF g.rs.prg = <<combine, other>> THEN g
  ELSE [g EXCEPT !.rs.prg = <<combine, other>>, !.hdr = AllDirty]

KindOf(other) == IF other.blend THEN "TR" ELSE IF other.edge THEN "PT" ELSE "OP"

TriSetup(g) ==
  LET c == rdp.combine
      o == rdp.other
      depth  == Track(Track(g, "test", rdp.geometry.zbuffer /\ o.zcmp), "write", o.zupd)
      shaded == LoadShader(depth, c, o)
      bound  == IF UsesTexel(c) THEN BindTexture(shaded, Inverted(c)) ELSE shaded
  IN  [Track(Change([bound EXCEPT !.kind = KindOf(o)], "textured", UsesTexel(c)), "fog", rdp.geometry.fog)
         EXCEPT !.tri = TRUE]

\* Rectangles: opaque ones write depth, fills cannot blend, nothing tests depth.
QuadWrites(o) == o.zupd \/ (~o.blend /\ ~o.edge)
QuadKind(o) == IF o.cycle = "fill" THEN "OP" ELSE KindOf(o)
QuadSetup(g, c, o, ext) ==
  LET depth  == Track(Track(g, "test", FALSE), "write", QuadWrites(o))
      shaded == LoadShader(depth, c, o)
      bound  == IF UsesTexel(c) THEN BindTexture(shaded, FALSE) ELSE shaded
  IN  [Track(Change(bound, "textured", UsesTexel(c) /\ ~ext), "fog", FALSE)
         EXCEPT !.quad = [other |-> o, ext |-> ext, kind |-> QuadKind(o)]]

\* The setup of the 2D path serves rectangles with the same modes.  (Mutated: fills
\* and textured ones share it.)
AnyQuad(g, o, ext) == g.quad # NoSetup /\ g.quad.other = o
QuadReady(g, o, ext) == g.quad # NoSetup /\ g.quad.other = o /\ g.quad.ext = ext

\* An opaque backdrop of the blended list is drawn far away in the opaque list.
\* (Mutated: the setup still counts as done.)
FarPinKeeping(g) == [Track(Track(g, "test", TRUE), "write", FALSE) EXCEPT !.kind = "OP"]
FarPin(g) == [Track(Track(g, "test", TRUE), "write", FALSE) EXCEPT !.kind = "OP", !.quad = NoSetup]

\* gfx_sp_quad_2d
Quad(g, c, o, ext, pinned) ==
  LET h == [IF QuadReady(g, o, ext) THEN g ELSE QuadSetup(g, c, o, ext) EXCEPT !.tri = FALSE]
  IN  IF pinned THEN FarPin(h) ELSE [h EXCEPT !.kind = h.quad.kind]

\* Any other opcode moves on the state generation.
Outdated(g) == [g EXCEPT !.tri = FALSE, !.quad = NoSetup]
-----------------------------------------------------------------------------
Init ==
  /\ rdp \in [geometry : GeometryModes, other : OtherModes, combine : {CHOOSE c \in Combiners : TRUE},
             loaded : {CHOOSE a \in Addrs : TRUE}]
  /\ gfx = [rs |-> [test |-> FALSE, write |-> FALSE, fog |-> FALSE, prg |-> <<>>],
            kind |-> "OP", mask |-> FALSE, changed |-> FALSE, tri |-> FALSE, quad |-> NoSetup,
            nodes |-> [k \in Keys |-> NoNode],
            pvr |-> [test |-> TRUE, write |-> TRUE, fog |-> FALSE, textured |-> FALSE, bound |-> 0],
            tex |-> [i \in Ids |-> Empty], texCount |-> 0, free |-> VramBlocks, hdr |-> AllDirty]
  /\ persp = FALSE
  /\ hadPersp = FALSE
  /\ phase = "game"
  /\ reloaded = FALSE
  /\ wrong = {}

(* The game, between two frames.                                           *)

Between == phase = "game" /\ UNCHANGED <<rdp, persp, hadPersp, phase, reloaded, wrong>>

\* The game changes an image in memory and tells the texture cache.
ChangeTexture(a) ==
  /\ Between
  /\ gfx' = Invalidate([gfx EXCEPT !.tex = [i \in Ids |->
                IF @[i].image # NoImage /\ @[i].image[1] = a THEN [@[i] EXCEPT !.image = Stale] ELSE @[i]]], a)

\* nuke_everything, before the files of a scene are read
LoadScene ==
  /\ Between
  /\ gfx' = [ClearAllTextures(gfx) EXCEPT !.nodes = [k \in Keys |-> NoNode]]

StartFrame ==
  /\ phase = "game"
  /\ phase' = "walk"
  /\ gfx' = Outdated([gfx EXCEPT !.hdr = AllDirty])
  /\ hadPersp' = persp
  /\ persp' = FALSE
  /\ reloaded' = FALSE
  /\ UNCHANGED <<rdp, wrong>>

\* The edge mask is drawn untextured, with depth test and write on, and they stay on.
EndFrame ==
  /\ phase = "walk"
  /\ phase' = "game"
  /\ gfx' = Submit([gfx EXCEPT !.pvr.textured = FALSE, !.pvr.test = TRUE, !.pvr.write = TRUE,
                               !.hdr["OP"] = Dirty], "OP")
  /\ wrong' = {}
  /\ UNCHANGED <<rdp, persp, hadPersp, reloaded>>
-----------------------------------------------------------------------------
(* The display list.                                                       *)

Register(field, value) ==
  /\ phase = "walk"
  /\ rdp' = [rdp EXCEPT ![field] = value]
  /\ gfx' = Outdated(gfx)
  /\ wrong' = {}
  /\ UNCHANGED <<persp, hadPersp, phase, reloaded>>

SetGeometryMode(m) == Register("geometry", m)
SetOtherMode(o) == Register("other", o)
SetCombine(c) == Register("combine", c)
LoadBlock(a) ==
  /\ phase = "walk"
  /\ rdp' = [rdp EXCEPT !.loaded = a]
  /\ gfx' = [Outdated(gfx) EXCEPT !.changed = TRUE]
  /\ reloaded' = TRUE
  /\ wrong' = {}
  /\ UNCHANGED <<persp, hadPersp, phase>>

\* What a header makes of a primitive, and what the registers ask for.
Shown(g, list) ==
  LET h == g.hdr[list]
  IN  [list |-> list, image |-> IF h.tex = 0 THEN NoImage ELSE g.tex[h.tex].image,
       test |-> h.test, write |-> h.write, fog |-> h.fog]
Asked(list, textured, inverted, test, write, fog) ==
  [list |-> list, image |-> IF textured THEN <<rdp.loaded, inverted>> ELSE NoImage,
   test |-> test, write |-> write, fog |-> fog]
Differing(shown, asked) == {field \in DOMAIN asked : shown[field] # asked[field]}

\* A triangle that is not culled; one that is clipped away is only set up for.
Tri(perspective, clipped) ==
  LET c == rdp.combine
      o == rdp.other
      h == [IF gfx.tri THEN gfx ELSE TriSetup(gfx) EXCEPT !.quad = NoSetup]
  IN  /\ phase = "walk"
      /\ UsesTexel(c) => reloaded
      /\ Inverted(c) => rdp.loaded \notin Dynamic
      /\ gfx' = IF clipped THEN h ELSE Submit(h, h.kind)
      /\ wrong' = IF clipped THEN {}
                  ELSE Differing(Shown(gfx', h.kind),
                                 Asked(KindOf(o), UsesTexel(c), Inverted(c),
                                       rdp.geometry.zbuffer /\ o.zcmp, o.zupd, rdp.geometry.fog))
      /\ persp' = (persp \/ (perspective /\ ~clipped))
      /\ UNCHANGED <<rdp, hadPersp, phase, reloaded>>

DrawRectangle(c, o, ext, pinned) ==
  LET h == Quad(gfx, c, o, ext, pinned)
      textured == UsesTexel(c) /\ ~ext
  IN  /\ phase = "walk"
      /\ textured => reloaded
      /\ pinned => QuadKind(o) = "TR" /\ hadPersp /\ ~persp
      /\ gfx' = Submit(h, h.kind)
      /\ wrong' = Differing(Shown(gfx', h.kind),
                            IF pinned THEN Asked("OP", textured, FALSE, TRUE, FALSE, FALSE)
                            ELSE Asked(QuadKind(o), textured, FALSE, FALSE, QuadWrites(o), FALSE))
      /\ UNCHANGED <<rdp, persp, hadPersp, phase, reloaded>>

\* In copy mode the combiner is off.
TextureRectangle(pinned) ==
  DrawRectangle(IF rdp.other.cycle = "copy" THEN "texel" ELSE rdp.combine, rdp.other, FALSE, pinned)

\* Fills do not update depth unless they go through the combiner.
FillMode(o) == IF o.cycle = "one" THEN o ELSE [o EXCEPT !.zupd = FALSE]

\* The fast path takes over once the first fill of a run has done the setup.
FillIsFast ==
  /\ rdp.other.cycle = "fill"
  /\ QuadReady(gfx, FillMode(rdp.other), TRUE)
  /\ gfx.quad.kind = "OP"
FillRectangle(pinned) ==
  ~FillIsFast /\ DrawRectangle(rdp.combine, FillMode(rdp.other), TRUE, pinned)
FillRectangleFast ==
  /\ phase = "walk"
  /\ FillIsFast
  /\ gfx' = Submit([gfx EXCEPT !.tri = FALSE, !.kind = "OP"], "OP")
  /\ wrong' = Differing(Shown(gfx', "OP"),
                        Asked("OP", FALSE, FALSE, FALSE, QuadWrites(FillMode(rdp.other)), FALSE))
  /\ UNCHANGED <<rdp, persp, hadPersp, phase, reloaded>>

Next ==
  \/ \E a \in Dynamic : ChangeTexture(a)
  \/ LoadScene
  \/ StartFrame
  \/ EndFrame
  \/ \E m \in GeometryModes : SetGeometryMode(m)
  \/ \E o \in OtherModes : SetOtherMode(o)
  \/ \E c \in Combiners : SetCombine(c)
  \/ \E a \in Addrs : LoadBlock(a)
  \/ \E perspective, clipped \in BOOLEAN : Tri(perspective, clipped)
  \/ \E pinned \in BOOLEAN : TextureRectangle(pinned)
  \/ \E pinned \in BOOLEAN : FillRectangle(pinned)
  \/ FillRectangleFast

Spec == Init /\ [][Next]_vars
-----------------------------------------------------------------------------
\* Every variable has its type, and no more ids are given out than the table has.
Modes == [cycle : {"one", "copy", "fill"}, zcmp : BOOLEAN, zupd : BOOLEAN, blend : BOOLEAN, edge : BOOLEAN]
Headers == [tex : 0 .. MaxTextures, test : BOOLEAN, write : BOOLEAN, fog : BOOLEAN]
TypeOK ==
  /\ rdp \in [geometry : GeometryModes, other : OtherModes, combine : Combiners, loaded : Addrs]
  /\ gfx.rs \in [test : BOOLEAN, write : BOOLEAN, fog : BOOLEAN, prg : {<<>>} \cup Texels \X Modes]
  /\ gfx.kind \in Lists
  /\ gfx.nodes \in [Keys -> [id : 0 .. MaxTextures, dirty : BOOLEAN]]
  /\ gfx.tex \in [Ids -> [image : Keys \cup {NoImage, Stale}, block : BOOLEAN]]
  /\ gfx.texCount \in 0 .. MaxTextures
  /\ gfx.free \in 0 .. VramBlocks
  /\ gfx.pvr \in [test : BOOLEAN, write : BOOLEAN, fog : BOOLEAN, textured : BOOLEAN, bound : 0 .. MaxTextures]
  /\ gfx.hdr \in [Lists -> Headers \cup {Dirty}]
  /\ wrong \subseteq {"list", "image", "test", "write", "fog"}

\* A primitive is drawn into the list, with the texture, the depth and the fog modes
\* that the registers ask for at that moment.  Known exceptions: a texture for which
\* video RAM had no room, and depth modes that the last frame's edge mask has turned
\* on behind the front end's back.
DrawnAsAsked ==
  /\ wrong \subseteq {"image", "test", "write"}
  /\ "image" \in wrong => gfx.free = 0 /\ ~gfx.tex[gfx.pvr.bound].block
  /\ \A field \in wrong \ {"image"} : gfx.pvr[field] /\ ~gfx.rs[field]

\* Every texture has one node and every block of video RAM one texture, across scene
\* loads and failed uploads; nothing outlives a scene.
TexturesOwned ==
  /\ \A k, j \in Keys : gfx.nodes[k] # NoNode /\ gfx.nodes[j] # NoNode /\ k # j => gfx.nodes[k].id # gfx.nodes[j].id
  /\ {gfx.nodes[k].id : k \in Keys} \ {0} = 1 .. gfx.texCount
  /\ gfx.free + Cardinality({i \in 1 .. gfx.texCount : gfx.tex[i].block}) = VramBlocks
=============================================================================
