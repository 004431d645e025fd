--------------------------- MODULE NotePool_proofs ---------------------------
(***************************************************************************)
(* Who owns a note and which list it is in, for any number of notes,       *)
(* layers and channels, any music, and any order of the calls.             *)
(*                                                                         *)
(* Owned and OwnersLive need nothing of the lists: whichever note an       *)
(* allocation finds, the layer it is for has just let go of all others,    *)
(* because the invariant Inv makes its note field name the only note it    *)
(* could still hold.                                                       *)
(*                                                                         *)
(* The rest is about the lists.  SInv says that some f names the kind of   *)
(* list every note is in, that the lists of all pools hold each note once, *)
(* where f and its pool field say (FiledBy), and that a note in such a     *)
(* list has the owner, the claim and the envelope that go with it (Fits).  *)
(* Each change of a note is a Put, one record and one list, and a handler  *)
(* is a chain of them; the calls that move whole lists are by themselves.  *)
(***************************************************************************)
EXTENDS NotePool, SequenceTheorems, FiniteSetTheorems, WellFoundedInduction, TLAPS

\* The form of what the operators pass on.  Only the pointers have types; all
\* else, and the lists, may be any.
Typed(V) == [parent : Layers \cup {None}, prevParent : V, wanted : Layers \cup {None}, priority : V,
             unk_04 : V, finished : V, adsr : V, linked : V, pool : V]
NoteForm(r) == \E V : r \in Typed(V)
LayerForm(r) == \E V : r \in [used : V, channel : V, enabled : V, note : V]
Shape(s) ==
  /\ s.notes = [n \in Notes |-> s.notes[n]]
  /\ \A n \in Notes : NoteForm(s.notes[n])
  /\ s.layers = [l \in Layers |-> s.layers[l]]
  /\ \A l \in Layers : LayerForm(s.layers[l])

\* A note whose owner is a and whose claimant is b.
Links(q, a, b) == NoteForm(q) /\ q.parent = a /\ q.wanted = b
Claims(s, n, l) == s.notes[n].parent = l \/ s.notes[n].wanted = l

\* From s to t claims only go away, and no layer changes its note.
Fewer(s, t) ==
  /\ Shape(t)
  /\ \A x \in Layers : /\ t.layers[x].used = s.layers[x].used
                       /\ t.layers[x].channel = s.layers[x].channel
                       /\ t.layers[x].note = s.layers[x].note
  /\ \A m \in Notes, x \in Layers : Claims(t, m, x) => Claims(s, m, x)

\* The same, but n may claim l, and l may change its note.
Only(s, t, l, n) ==
  /\ Shape(t)
  /\ \A x \in Layers : /\ t.layers[x].used = s.layers[x].used
                       /\ t.layers[x].channel = s.layers[x].channel
                       /\ x # l => t.layers[x].note = s.layers[x].note
  /\ \A m \in Notes, x \in Layers : Claims(t, m, x) => Claims(s, m, x) \/ (m = n /\ x = l)

\* The inductive invariant: a note claims only a layer that has it, and only
\* one that is open in a channel that is.
OwnedIn(s) == \A n \in Notes, l \in Layers : Claims(s, n, l) => s.layers[l].note = n
LiveIn(s, chans) == \A l \in Layers :
  /\ s.layers[l].used => s.layers[l].channel \in chans
  /\ \A n \in Notes : Claims(s, n, l) => s.layers[l].used
Good(s, chans) == Shape(s) /\ OwnedIn(s) /\ LiveIn(s, chans)

Inv == Good(S, open)
-----------------------------------------------------------------------------
(* Records. *)

\* A record of more values is still one of these.
LEMMA Wider == ASSUME NEW V, NEW W, NEW r \in Typed(V) PROVE r \in Typed(V \cup W)
BY DEF Typed

\* What each of the assignments to a note makes of its two pointers.
LEMMA Fields ==
  ASSUME NEW r, NoteForm(r), NEW a \in Layers \cup {None}, NEW x, NEW y, NEW z
  PROVE  /\ Links([r EXCEPT !.pool = x, !.linked = TRUE], r.parent, r.wanted)
         /\ Links([r EXCEPT !.pool = x], r.parent, r.wanted)
         /\ Links([r EXCEPT !.linked = FALSE], r.parent, r.wanted)
         /\ Links([r EXCEPT !.adsr = x], r.parent, r.wanted)
         /\ Links([r EXCEPT !.finished = TRUE], r.parent, r.wanted)
         /\ Links([r EXCEPT !.priority = x], r.parent, r.wanted)
         /\ Links([r EXCEPT !.priority = x, !.unk_04 = TRUE], r.parent, r.wanted)
         /\ Links([r EXCEPT !.wanted = a], r.parent, a)
         /\ Links([r EXCEPT !.wanted = a, !.priority = x], r.parent, a)
         /\ Links([r EXCEPT !.wanted = a, !.priority = x, !.adsr = y], r.parent, a)
         /\ Links([r EXCEPT !.finished = x, !.priority = 1, !.prevParent = y, !.parent = None,
                            !.adsr = z, !.unk_04 = TRUE], None, r.wanted)
         /\ Links([r EXCEPT !.parent = None, !.prevParent = None, !.priority = 0, !.unk_04 = FALSE,
                            !.finished = FALSE, !.adsr = "off"], None, r.wanted)
         /\ Links([r EXCEPT !.parent = a, !.prevParent = None, !.priority = x, !.finished = FALSE,
                            !.adsr = "on"], a, r.wanted)
<1>1. PICK V : r \in Typed(V)
  BY DEF NoteForm
<1> DEFINE W == V \cup {x, y, z, None, TRUE, FALSE, 0, 1, "on", "off"}
<1>2. r \in Typed(W)
  BY <1>1, Wider
<1>3. /\ x \in W /\ y \in W /\ z \in W /\ None \in W /\ TRUE \in W /\ FALSE \in W
      /\ 0 \in W /\ 1 \in W /\ "on" \in W /\ "off" \in W
  OBVIOUS
<1> HIDE DEF W
<1>4. \A q, b, c : q \in Typed(W) /\ q.parent = b /\ q.wanted = c => Links(q, b, c)
  BY DEF Links, NoteForm
<1> HIDE DEF Links, NoteForm
<1> USE <1>2, <1>3, <1>4 DEF Typed
<1>5. Links([r EXCEPT !.pool = x, !.linked = TRUE], r.parent, r.wanted)
  OBVIOUS
<1>6. Links([r EXCEPT !.pool = x], r.parent, r.wanted)
  OBVIOUS
<1>7. Links([r EXCEPT !.linked = FALSE], r.parent, r.wanted)
  OBVIOUS
<1>8. Links([r EXCEPT !.adsr = x], r.parent, r.wanted)
  OBVIOUS
<1>9. Links([r EXCEPT !.finished = TRUE], r.parent, r.wanted)
  OBVIOUS
<1>10. Links([r EXCEPT !.priority = x], r.parent, r.wanted)
  OBVIOUS
<1>11. Links([r EXCEPT !.priority = x, !.unk_04 = TRUE], r.parent, r.wanted)
  OBVIOUS
<1>12. Links([r EXCEPT !.wanted = a], r.parent, a)
  OBVIOUS
<1>13. Links([r EXCEPT !.wanted = a, !.priority = x], r.parent, a)
  OBVIOUS
<1>14. Links([r EXCEPT !.wanted = a, !.priority = x, !.adsr = y], r.parent, a)
  OBVIOUS
<1>15. Links([r EXCEPT !.finished = x, !.priority = 1, !.prevParent = y, !.parent = None,
                       !.adsr = z, !.unk_04 = TRUE], None, r.wanted)
  OBVIOUS
<1>16. Links([r EXCEPT !.parent = None, !.prevParent = None, !.priority = 0, !.unk_04 = FALSE,
                       !.finished = FALSE, !.adsr = "off"], None, r.wanted)
  OBVIOUS
<1>17. Links([r EXCEPT !.parent = a, !.prevParent = None, !.priority = x, !.finished = FALSE,
                       !.adsr = "on"], a, r.wanted)
  OBVIOUS
<1> QED BY <1>5, <1>6, <1>7, <1>8, <1>9, <1>10, <1>11, <1>12, <1>13, <1>14, <1>15, <1>16, <1>17

\* Owner and claimant are layers or none.
LEMMA Pointers ==
  ASSUME NEW r, NoteForm(r)
  PROVE  r.parent \in Layers \cup {None} /\ r.wanted \in Layers \cup {None} /\ Links(r, r.parent, r.wanted)
BY DEF NoteForm, Typed, Links

\* What the assignments to a layer leave of it.
LEMMA LayerFields ==
  ASSUME NEW r, LayerForm(r), NEW x
  PROVE  /\ LayerForm([r EXCEPT !.note = x])
         /\ [r EXCEPT !.note = x].note = x
         /\ [r EXCEPT !.note = x].used = r.used
         /\ [r EXCEPT !.note = x].channel = r.channel
         /\ LayerForm([r EXCEPT !.enabled = FALSE])
         /\ [r EXCEPT !.enabled = FALSE].note = r.note
         /\ [r EXCEPT !.enabled = FALSE].used = r.used
         /\ [r EXCEPT !.enabled = FALSE].channel = r.channel
         /\ LayerForm([r EXCEPT !.used = FALSE, !.enabled = FALSE])
         /\ [r EXCEPT !.used = FALSE, !.enabled = FALSE].used = FALSE
<1>1. PICK V : r \in [used : V, channel : V, enabled : V, note : V]
  BY DEF LayerForm
<1> DEFINE W == V \cup {x, FALSE}
<1>2. r \in [used : W, channel : W, enabled : W, note : W] /\ x \in W /\ FALSE \in W
  BY <1>1
<1> HIDE DEF W
<1>3. /\ [r EXCEPT !.note = x] \in [used : W, channel : W, enabled : W, note : W]
      /\ [r EXCEPT !.enabled = FALSE] \in [used : W, channel : W, enabled : W, note : W]
      /\ [r EXCEPT !.used = FALSE, !.enabled = FALSE] \in [used : W, channel : W, enabled : W, note : W]
  BY <1>2
<1>4. LayerForm([r EXCEPT !.note = x])
  BY <1>3 DEF LayerForm
<1>5. LayerForm([r EXCEPT !.enabled = FALSE])
  BY <1>3 DEF LayerForm
<1>6. LayerForm([r EXCEPT !.used = FALSE, !.enabled = FALSE])
  BY <1>3 DEF LayerForm
<1> QED BY <1>2, <1>4, <1>5, <1>6
-----------------------------------------------------------------------------
(* Changes of one note. *)

\* Another record in one place.
LEMMA NoteChange ==
  ASSUME NEW s, Shape(s), NEW n, NEW r, n \in Notes => NoteForm(r), NEW t,
         t.layers = s.layers, t.notes = [s.notes EXCEPT ![n] = r]
  PROVE  Shape(t) /\ \A m \in Notes : t.notes[m] = IF m = n THEN r ELSE s.notes[m]
<1>1. \A m \in Notes : t.notes[m] = IF m = n THEN r ELSE s.notes[m]
  BY DEF Shape
<1>2. t.notes = [m \in Notes |-> t.notes[m]]
  BY DEF Shape
<1>3. \A m \in Notes : NoteForm(t.notes[m])
  BY <1>1 DEF Shape
<1> QED BY <1>1, <1>2, <1>3 DEF Shape

\* A record that points nowhere new.
LEMMA NoteFewer ==
  ASSUME NEW s, Shape(s), NEW n, NEW r, NEW a, NEW b, NEW t,
         n \in Notes => /\ Links(r, a, b)
                        /\ a \in {s.notes[n].parent, None}
                        /\ b \in {s.notes[n].wanted, None},
         t.layers = s.layers, t.notes = [s.notes EXCEPT ![n] = r]
  PROVE  Fewer(s, t)
<1>0. n \in Notes => NoteForm(r)
  BY DEF Links
<1>1. Shape(t)
  BY <1>0, NoteChange
<1>2. \A m \in Notes : t.notes[m] = IF m = n THEN r ELSE s.notes[m]
  BY DEF Shape
<1>3. None \notin Layers
  BY NoteAssumptions
<1>4. \A m \in Notes, x \in Layers : Claims(t, m, x) => Claims(s, m, x)
  BY <1>2, <1>3 DEF Claims, Links
<1> QED BY <1>1, <1>4 DEF Fewer

\* A record that points at l.
LEMMA NoteOnly ==
  ASSUME NEW s, Shape(s), NEW n, NEW r, NEW a, NEW b, NEW l, NEW t,
         n \in Notes => /\ Links(r, a, b)
                        /\ a \in {s.notes[n].parent, None, l}
                        /\ b \in {s.notes[n].wanted, None, l},
         t.layers = s.layers, t.notes = [s.notes EXCEPT ![n] = r]
  PROVE  Only(s, t, l, n)
<1>0. n \in Notes => NoteForm(r)
  BY DEF Links
<1>1. Shape(t)
  BY <1>0, NoteChange
<1>2. \A m \in Notes : t.notes[m] = IF m = n THEN r ELSE s.notes[m]
  BY DEF Shape
<1>3. None \notin Layers
  BY NoteAssumptions
<1>4. \A m \in Notes, x \in Layers : Claims(t, m, x) => Claims(s, m, x) \/ (m = n /\ x = l)
  BY <1>2, <1>3 DEF Claims, Links
<1> QED BY <1>1, <1>4 DEF Only

\* The relations compose.
LEMMA FewerTwice == ASSUME NEW s, NEW t, NEW u, Fewer(s, t), Fewer(t, u) PROVE Fewer(s, u)
BY DEF Fewer
\* A step may do nothing.
LEMMA FewerSelf == ASSUME NEW s, Shape(s) PROVE Fewer(s, s)
BY DEF Fewer
\* Two steps for one layer and one note.
LEMMA OnlyTwice ==
  ASSUME NEW s, NEW t, NEW u, NEW l, NEW n, Only(s, t, l, n), Only(t, u, l, n) PROVE Only(s, u, l, n)
BY DEF Only
\* Fewer is the stronger relation.
LEMMA FewerOnly == ASSUME NEW s, NEW t, NEW l, NEW n, Fewer(s, t) PROVE Only(s, t, l, n)
BY DEF Fewer, Only
\* A claim, then a step that makes none.
LEMMA OnlyFewer ==
  ASSUME NEW s, NEW t, NEW u, NEW l, NEW n, Only(s, t, l, n), Fewer(t, u) PROVE Only(s, u, l, n)
BY FewerOnly, OnlyTwice
\* A step that makes no claim, then one.
LEMMA FewerThenOnly ==
  ASSUME NEW s, NEW t, NEW u, NEW l, NEW n, Fewer(s, t), Only(t, u, l, n) PROVE Only(s, u, l, n)
BY FewerOnly, OnlyTwice

\* The invariant survives.
LEMMA FewerGood == ASSUME NEW s, NEW t, NEW chans, Good(s, chans), Fewer(s, t) PROVE Good(t, chans)
BY DEF Good, Fewer, OwnedIn, LiveIn
-----------------------------------------------------------------------------
(* The lists leave the claims alone. *)

\* The same for the operator Note.
LEMMA NoteWith ==
  ASSUME NEW s, Shape(s), NEW n, NEW r, NEW a, NEW b,
         n \in Notes => /\ Links(r, a, b)
                        /\ a \in {s.notes[n].parent, None}
                        /\ b \in {s.notes[n].wanted, None}
  PROVE  Fewer(s, Note(s, n, r))
<1> DEFINE t == Note(s, n, r)
<1>1. t.layers = s.layers /\ t.notes = [s.notes EXCEPT ![n] = r]
  BY DEF Note, State
<1> HIDE DEF t
<1>2. Fewer(s, t)
  BY <1>1, NoteFewer
<1> QED BY <1>2 DEF t

\* The note changes, its pointers do not.
LEMMA SameLinks ==
  ASSUME NEW s, Shape(s), NEW n, NEW r, NEW t,
         n \in Notes => Links(r, s.notes[n].parent, s.notes[n].wanted),
         t.layers = s.layers, t.notes = [s.notes EXCEPT ![n] = r]
  PROVE  Fewer(s, t)
BY NoteFewer

\* AudioListRemove.
LEMMA RemoveFewer == ASSUME NEW s, Shape(s), NEW n PROVE Fewer(s, AudioListRemove(s, n))
<1> DEFINE r == [s.notes[n] EXCEPT !.linked = FALSE]
           t == AudioListRemove(s, n)
<1>1. n \in Notes => Links(r, s.notes[n].parent, s.notes[n].wanted)
  BY Fields DEF Shape
<1>2. t.layers = s.layers /\ t.notes = [s.notes EXCEPT ![n] = r]
  BY DEF AudioListRemove, State
<1> HIDE DEF r, t
<1>3. Fewer(s, t)
  BY <1>1, <1>2, SameLinks
<1> QED BY <1>3 DEF t

\* Audio_AudioListPopBack.
LEMMA PopFewer == ASSUME NEW s, Shape(s), NEW p, NEW k PROVE Fewer(s, PopBack(s, p, k))
<1> DEFINE t == PopBack(s, p, k)
<1>1. PICK n : n = Last(s.lists[p][k])
  OBVIOUS
<1> DEFINE r == [s.notes[n] EXCEPT !.linked = FALSE]
<1>2. n \in Notes => Links(r, s.notes[n].parent, s.notes[n].wanted)
  BY Fields DEF Shape
<1>3. t.layers = s.layers /\ t.notes = [s.notes EXCEPT ![n] = r]
  BY <1>1 DEF PopBack, State
<1> HIDE DEF r, t
<1>4. Fewer(s, t)
  BY <1>2, <1>3, SameLinks
<1> QED BY <1>4 DEF t

\* Audio_AudioListPushBack.
LEMMA PushBackFewer ==
  ASSUME NEW s, Shape(s), NEW p, NEW k, NEW n PROVE Fewer(s, AudioListPushBack(s, p, k, n))
<1>1. CASE s.notes[n].linked
  BY <1>1, FewerSelf DEF AudioListPushBack
<1>2. CASE ~s.notes[n].linked
  <2> DEFINE r == [s.notes[n] EXCEPT !.pool = p, !.linked = TRUE]
             t == AudioListPushBack(s, p, k, n)
  <2>1. n \in Notes => Links(r, s.notes[n].parent, s.notes[n].wanted)
    BY Fields DEF Shape
  <2>2. t.layers = s.layers /\ t.notes = [s.notes EXCEPT ![n] = r]
    BY <1>2 DEF AudioListPushBack, State
  <2> HIDE DEF r, t
  <2>3. Fewer(s, t)
    BY <2>1, <2>2, SameLinks
  <2> QED BY <2>3 DEF t
<1> QED BY <1>1, <1>2

\* Audio_AudioListPushFront.
LEMMA PushFrontFewer ==
  ASSUME NEW s, Shape(s), NEW p, NEW k, NEW n PROVE Fewer(s, AudioListPushFront(s, p, k, n))
<1>1. CASE s.notes[n].linked
  BY <1>1, FewerSelf DEF AudioListPushFront
<1>2. CASE ~s.notes[n].linked
  <2> DEFINE r == [s.notes[n] EXCEPT !.pool = p, !.linked = TRUE]
             t == AudioListPushFront(s, p, k, n)
  <2>1. n \in Notes => Links(r, s.notes[n].parent, s.notes[n].wanted)
    BY Fields DEF Shape
  <2>2. t.layers = s.layers /\ t.notes = [s.notes EXCEPT ![n] = r]
    BY <1>2 DEF AudioListPushFront, State
  <2> HIDE DEF r, t
  <2>3. Fewer(s, t)
    BY <2>1, <2>2, SameLinks
  <2> QED BY <2>3 DEF t
<1> QED BY <1>1, <1>2

\* A note goes to another list.
LEMMA MovedFewer ==
  ASSUME NEW s, Shape(s), NEW p, NEW k, NEW n PROVE Fewer(s, Moved(s, p, k, n))
<1>1. Fewer(s, AudioListRemove(s, n)) /\ Shape(AudioListRemove(s, n))
  BY RemoveFewer DEF Fewer
<1>2. Fewer(AudioListRemove(s, n), AudioListPushBack(AudioListRemove(s, n), p, k, n))
  BY <1>1, PushBackFewer
<1> QED BY <1>1, <1>2, FewerTwice DEF Moved

\* It goes to the front of another list.
LEMMA FrontFewer ==
  ASSUME NEW s, Shape(s), NEW p, NEW k, NEW n
  PROVE  Fewer(s, AudioListPushFront(AudioListRemove(s, n), p, k, n))
<1>1. Fewer(s, AudioListRemove(s, n)) /\ Shape(AudioListRemove(s, n))
  BY RemoveFewer DEF Fewer
<1>2. Fewer(AudioListRemove(s, n), AudioListPushFront(AudioListRemove(s, n), p, k, n))
  BY <1>1, PushFrontFewer
<1> QED BY <1>1, <1>2, FewerTwice

\* A set of notes goes to a pool.
LEMMA SetFewer ==
  ASSUME NEW s, Shape(s), NEW p, NEW t, t.layers = s.layers,
         t.notes = [n \in Notes |-> t.notes[n]],
         \A n \in Notes : t.notes[n] \in {s.notes[n], [s.notes[n] EXCEPT !.pool = p]}
  PROVE  Fewer(s, t)
<1>1. \A n \in Notes : Links(t.notes[n], s.notes[n].parent, s.notes[n].wanted)
  <2> SUFFICES ASSUME NEW n \in Notes PROVE Links(t.notes[n], s.notes[n].parent, s.notes[n].wanted)
    OBVIOUS
  <2>1. NoteForm(s.notes[n])
    BY DEF Shape
  <2>2. Links([s.notes[n] EXCEPT !.pool = p], s.notes[n].parent, s.notes[n].wanted)
    BY <2>1, Fields
  <2>3. Links(s.notes[n], s.notes[n].parent, s.notes[n].wanted)
    BY <2>1, Pointers
  <2>4. t.notes[n] = [s.notes[n] EXCEPT !.pool = p] \/ t.notes[n] = s.notes[n]
    OBVIOUS
  <2> QED BY <2>2, <2>3, <2>4
<1>2. Shape(t)
  BY <1>1 DEF Shape, Links
<1> QED BY <1>1, <1>2 DEF Fewer, Claims, Links

\* Audio_NotePoolClear.
LEMMA ClearFewer == ASSUME NEW s, Shape(s), NEW p PROVE Fewer(s, Clear(s, p))
<1> DEFINE freed == UNION {{s.lists[p][k][i] : i \in DOMAIN s.lists[p][k]} : k \in Kind}
           t == Clear(s, p)
<1>1. CASE p = Free
  BY <1>1, FewerSelf DEF Clear
<1>2. CASE p # Free
  <2>1. /\ t.layers = s.layers
        /\ t.notes = [n \in Notes |-> IF n \in freed THEN [s.notes[n] EXCEPT !.pool = Free] ELSE s.notes[n]]
    BY <1>2 DEF Clear, State
  <2> HIDE DEF freed, t
  <2>2. t.notes = [n \in Notes |-> t.notes[n]]
    BY <2>1
  <2>3. \A n \in Notes : t.notes[n] \in {s.notes[n], [s.notes[n] EXCEPT !.pool = Free]}
    BY <2>1
  <2>4. Fewer(s, t)
    BY <2>1, <2>2, <2>3, SetFewer
  <2> QED BY <2>4 DEF t
<1> QED BY <1>1, <1>2

\* Notes of the free lists given to a pool.
LEMMA GivenFewer ==
  ASSUME NEW s, Shape(s), NEW p, NEW taken, NEW rest PROVE Fewer(s, Given(s, p, taken, rest))
<1> DEFINE got == {n \in Notes : \E k \in Kind : In(taken[k], n)}
           t == Given(s, p, taken, rest)
<1>1. /\ t.layers = s.layers
      /\ t.notes = [n \in Notes |-> IF n \in got THEN [s.notes[n] EXCEPT !.pool = p] ELSE s.notes[n]]
  BY DEF Given, State
<1> HIDE DEF got, t
<1>2. t.notes = [n \in Notes |-> t.notes[n]]
  BY <1>1
<1>3. \A n \in Notes : t.notes[n] \in {s.notes[n], [s.notes[n] EXCEPT !.pool = p]}
  BY <1>1
<1>4. Fewer(s, t)
  BY <1>1, <1>2, <1>3, SetFewer
<1> QED BY <1>4 DEF t

\* Audio_NotePoolFill.
LEMMA FillFewer ==
  ASSUME NEW s, Shape(s), NEW p, NEW count PROVE Fewer(s, NotePoolFill(s, p, count))
<1> DEFINE c == Clear(s, p)
<1>1. Fewer(s, c) /\ Shape(c)
  BY ClearFewer DEF Fewer
<1>2. \A taken, rest : Fewer(c, Given(c, p, taken, rest))
  BY <1>1, GivenFewer
<1>3. \A taken, rest : Fewer(s, Given(c, p, taken, rest))
  BY <1>1, <1>2, FewerTwice
<1> QED BY <1>3 DEF NotePoolFill
-----------------------------------------------------------------------------
(* A layer lets go of its note. *)

\* Audio_SeqLayerDecayRelease makes no claim, and the layer's note does not
\* claim the layer any more.
LEMMA DecayFewer ==
  ASSUME NEW s, Shape(s), NEW l, NEW how, NEW hushed
  PROVE  /\ Fewer(s, SeqLayerDecayRelease(s, l, how, hushed))
         /\ l \in Layers /\ s.layers[l].note \in Notes
              => ~Claims(SeqLayerDecayRelease(s, l, how, hushed), s.layers[l].note, l)
<1> DEFINE n == s.layers[l].note
           r == [s.notes[n] EXCEPT !.wanted = IF @ = l THEN None ELSE @]
           w == IF s.notes[n].wanted = l THEN None ELSE s.notes[n].wanted
           late == r.parent = None /\ r.wanted = None /\ r.prevParent = l /\ how = "release"
           later == [r EXCEPT !.adsr = IF late THEN Asked(@) ELSE @]
           owned == [r EXCEPT !.finished = @ \/ hushed, !.priority = 1, !.prevParent = l,
                              !.parent = None, !.adsr = Asked(@), !.unk_04 = TRUE]
           t == SeqLayerDecayRelease(s, l, how, hushed)
<1>1. None \notin Layers /\ None \notin Notes
  BY NoteAssumptions
<1>2. n \in Notes => Links(r, s.notes[n].parent, w)
  <2> SUFFICES ASSUME n \in Notes PROVE Links(r, s.notes[n].parent, w)
    OBVIOUS
  <2>1. NoteForm(s.notes[n]) /\ w \in Layers \cup {None}
    BY Pointers DEF Shape
  <2>2. r = [s.notes[n] EXCEPT !.wanted = w]
    OBVIOUS
  <2> HIDE DEF r, w
  <2> QED BY <2>1, <2>2, Fields
<1>3. n \in Notes => w # l \/ l = None
  OBVIOUS
<1>4. n \in Notes => w \in {s.notes[n].wanted, None}
  OBVIOUS
<1>5. n \in Notes => Links(later, r.parent, r.wanted)
  <2> HIDE DEF r, w, n, late
  <2> DEFINE x == IF late THEN Asked(r.adsr) ELSE r.adsr
  <2>1. later = [r EXCEPT !.adsr = x]
    OBVIOUS
  <2>2. n \in Notes => NoteForm(r)
    BY <1>2 DEF Links
  <2> HIDE DEF x, later
  <2>3. NoteForm(r) => Links([r EXCEPT !.adsr = x], r.parent, r.wanted)
    BY Fields
  <2> QED BY <2>1, <2>2, <2>3
<1>6. n \in Notes => Links(owned, None, r.wanted)
  <2> HIDE DEF r, w, n
  <2> DEFINE x == r.finished \/ hushed
             z == Asked(r.adsr)
  <2>1. owned = [r EXCEPT !.finished = x, !.priority = 1, !.prevParent = l, !.parent = None,
                          !.adsr = z, !.unk_04 = TRUE]
    OBVIOUS
  <2>2. n \in Notes => NoteForm(r)
    BY <1>2 DEF Links
  <2> HIDE DEF x, z, owned
  <2>3. NoteForm(r) => Links([r EXCEPT !.finished = x, !.priority = 1, !.prevParent = l, !.parent = None,
                                       !.adsr = z, !.unk_04 = TRUE], None, r.wanted)
    BY Fields
  <2> QED BY <2>1, <2>2, <2>3
<1>7. CASE n = None
  BY <1>1, <1>7, FewerSelf DEF SeqLayerDecayRelease
<1>8. CASE n # None /\ r.parent # l
  <2>1. t = Note(s, n, later)
    BY <1>8 DEF SeqLayerDecayRelease
  <2>2. n \in Notes => Links(later, s.notes[n].parent, w)
    BY <1>2, <1>5 DEF Links
  <2>3. n \in Notes => s.notes[n].parent # l
    BY <1>2, <1>8 DEF Links
  <2> HIDE DEF n, w, r, late, later, owned, t
  <2>4. Fewer(s, t)
    BY <1>4, <2>1, <2>2, NoteWith
  <2>5. n \in Notes => t.notes[n] = later
    BY <2>1 DEF Note, State, Shape
  <2>6. l \in Layers /\ n \in Notes => ~Claims(t, n, l)
    BY <1>1, <1>3, <2>2, <2>3, <2>5 DEF Claims, Links
  <2> QED BY <2>4, <2>6 DEF n, t
<1>9. CASE n # None /\ r.parent = l
  <2> DEFINE u == Note(s, n, owned)
  <2>1. t = u \/ t = AudioListPushFront(AudioListRemove(u, n), r.pool, "decaying", n)
    BY <1>9 DEF SeqLayerDecayRelease
  <2>2. n \in Notes => Links(owned, None, w)
    BY <1>2, <1>6 DEF Links
  <2> HIDE DEF n, w, r, late, later, owned, t
  <2>3. Fewer(s, u)
    BY <1>4, <2>2, NoteWith
  <2>4. n \in Notes => u.notes[n] = owned
    BY DEF Note, State, Shape
  <2> HIDE DEF u
  <2>5. l \in Layers /\ n \in Notes => ~Claims(u, n, l)
    BY <1>1, <1>3, <2>2, <2>4 DEF Claims, Links
  <2>6. Fewer(u, t)
    BY <2>1, <2>3, FewerSelf, FrontFewer DEF Fewer
  <2>7. Fewer(s, t)
    BY <2>3, <2>6, FewerTwice
  <2>8. l \in Layers /\ n \in Notes => ~Claims(t, n, l)
    BY <2>5, <2>6 DEF Fewer
  <2> QED BY <2>7, <2>8 DEF n, t
<1> QED BY <1>7, <1>8, <1>9

\* Once a layer has let go, no note claims it.
LEMMA DecayFrees ==
  ASSUME NEW s, NEW chans, Good(s, chans), NEW l \in Layers, NEW how, NEW hushed
  PROVE  /\ Good(SeqLayerDecayRelease(s, l, how, hushed), chans)
         /\ Fewer(s, SeqLayerDecayRelease(s, l, how, hushed))
         /\ \A m \in Notes : ~Claims(SeqLayerDecayRelease(s, l, how, hushed), m, l)
<1> DEFINE t == SeqLayerDecayRelease(s, l, how, hushed)
<1>1. Fewer(s, t) /\ (s.layers[l].note \in Notes => ~Claims(t, s.layers[l].note, l))
  BY DecayFewer DEF Good
<1> HIDE DEF t
<1>2. Good(t, chans)
  BY <1>1, FewerGood
<1>3. \A m \in Notes : ~Claims(t, m, l)
  BY <1>1 DEF Good, OwnedIn, Fewer
<1> QED BY <1>1, <1>2, <1>3 DEF t
-----------------------------------------------------------------------------
(* An allocation for a layer makes one claim, by the note it returns. *)

\* A record of one note that points at l.
LEMMA NoteWithOnly ==
  ASSUME NEW s, Shape(s), NEW n, NEW r, NEW a, NEW b, NEW l,
         n \in Notes => /\ Links(r, a, b)
                        /\ a \in {s.notes[n].parent, None, l}
                        /\ b \in {s.notes[n].wanted, None, l}
  PROVE  Only(s, Note(s, n, r), l, n)
<1> DEFINE t == Note(s, n, r)
<1>1. t.layers = s.layers /\ t.notes = [s.notes EXCEPT ![n] = r]
  BY DEF Note, State
<1> HIDE DEF t
<1>2. Only(s, t, l, n)
  BY <1>1, NoteOnly
<1> QED BY <1>2 DEF t

\* The note is promised to l.
LEMMA WantedOnly ==
  ASSUME NEW s, Shape(s), NEW n, NEW l \in Layers
  PROVE  Only(s, Note(s, n, [s.notes[n] EXCEPT !.wanted = l]), l, n)
<1> DEFINE r == [s.notes[n] EXCEPT !.wanted = l]
<1>1. n \in Notes => Links(r, s.notes[n].parent, l)
  BY Fields DEF Shape
<1> HIDE DEF r
<1>2. Only(s, Note(s, n, r), l, n)
  BY <1>1, NoteWithOnly
<1> QED BY <1>2 DEF r

\* Audio_NoteReleaseAndTakeOwnership.
LEMMA TakeOnly ==
  ASSUME NEW s, Shape(s), NEW n, NEW l \in Layers, NEW prio
  PROVE  Only(s, TakeOwnership(s, n, l, prio), l, n)
<1> DEFINE x == Asked(s.notes[n].adsr)
           r == [s.notes[n] EXCEPT !.wanted = l, !.priority = prio, !.adsr = x]
<1>1. TakeOwnership(s, n, l, prio) = Note(s, n, r)
  BY DEF TakeOwnership
<1> HIDE DEF x
<1>2. n \in Notes => Links(r, s.notes[n].parent, l)
  BY Fields DEF Shape
<1> HIDE DEF r
<1>3. Only(s, Note(s, n, r), l, n)
  BY <1>2, NoteWithOnly
<1> QED BY <1>1, <1>3

\* The new priority of a note that is taken over.
LEMMA PriorityFewer ==
  ASSUME NEW s, Shape(s), NEW n, NEW prio
  PROVE  Fewer(s, Note(s, n, [s.notes[n] EXCEPT !.priority = prio]))
<1> DEFINE r == [s.notes[n] EXCEPT !.priority = prio]
<1>1. n \in Notes => Links(r, s.notes[n].parent, s.notes[n].wanted)
  BY Fields DEF Shape
<1> HIDE DEF r
<1>2. Fewer(s, Note(s, n, r))
  BY <1>1, NoteWith
<1> QED BY <1>2 DEF r

\* Audio_NoteInitForLayer: the layer gets the note.
LEMMA InitOnly ==
  ASSUME NEW s, Shape(s), NEW n, NEW l \in Layers, NEW prio
  PROVE  /\ Only(s, NoteInitForLayer(s, n, l, prio), l, n)
         /\ NoteInitForLayer(s, n, l, prio).layers[l].note = n
<1> DEFINE r == [s.notes[n] EXCEPT !.parent = l, !.prevParent = None, !.priority = prio,
                                   !.finished = FALSE, !.adsr = "on"]
           u == Note(s, n, r)
           t == NoteInitForLayer(s, n, l, prio)
<1>1. n \in Notes => Links(r, l, s.notes[n].wanted)
  BY Fields DEF Shape
<1>2. u.layers = s.layers /\ t.notes = u.notes /\ t.layers = [s.layers EXCEPT ![l].note = n]
  BY DEF NoteInitForLayer, Note, State
<1> HIDE DEF r
<1>3. Only(s, u, l, n)
  BY <1>1, NoteWithOnly
<1> HIDE DEF u, t
<1>4. \A x \in Layers : t.layers[x] = IF x = l THEN [s.layers[l] EXCEPT !.note = n] ELSE s.layers[x]
  BY <1>2 DEF Shape
<1>5. t.layers = [x \in Layers |-> t.layers[x]]
  BY <1>2 DEF Shape
<1>6. \A x \in Layers : LayerForm(t.layers[x]) /\ t.layers[x].used = s.layers[x].used
                                               /\ t.layers[x].channel = s.layers[x].channel
  <2>1. \A x \in Layers : LayerForm(s.layers[x])
    BY DEF Shape
  <2>2. /\ LayerForm([s.layers[l] EXCEPT !.note = n])
        /\ [s.layers[l] EXCEPT !.note = n].used = s.layers[l].used
        /\ [s.layers[l] EXCEPT !.note = n].channel = s.layers[l].channel
    BY <2>1, LayerFields
  <2> QED BY <1>4, <2>1, <2>2
<1>7. Shape(t)
  BY <1>2, <1>3, <1>5, <1>6 DEF Shape, Only
<1>8. Only(s, t, l, n)
  BY <1>2, <1>3, <1>4, <1>6, <1>7 DEF Only, Claims
<1>9. t.layers[l].note = n
  <2>1. LayerForm(s.layers[l])
    BY DEF Shape
  <2>2. [s.layers[l] EXCEPT !.note = n].note = n
    BY <2>1, LayerFields
  <2> QED BY <1>4, <2>2
<1> QED BY <1>8, <1>9 DEF t

\* Audio_AllocNoteFromDisabled.
LEMMA DisabledOnly ==
  ASSUME NEW s, Shape(s), NEW p, NEW l \in Layers, NEW prio
  PROVE  Only(s, FromDisabled(s, p, l, prio), l, Last(s.lists[p]["disabled"]))
<1> DEFINE n == Last(s.lists[p]["disabled"])
           t == PopBack(s, p, "disabled")
           u == NoteInitForLayer(t, n, l, prio)
<1> HIDE DEF n
<1>1. Fewer(s, t) /\ Shape(t)
  BY PopFewer DEF Fewer
<1> HIDE DEF t
<1>2. Only(t, u, l, n) /\ Shape(u)
  BY <1>1, InitOnly DEF Only
<1> HIDE DEF u
<1>3. Fewer(u, AudioListPushFront(u, p, "active", n))
  BY <1>2, PushFrontFewer
<1>4. Only(s, AudioListPushFront(u, p, "active", n), l, n)
  BY <1>1, <1>2, <1>3, FewerThenOnly, OnlyFewer
<1> QED BY <1>4 DEF FromDisabled, n, t, u

\* Audio_AllocNoteFromDecaying.
LEMMA DecayingOnly ==
  ASSUME NEW s, Shape(s), NEW p, NEW l \in Layers, NEW prio
  PROVE  Only(s, FromDecaying(s, p, l, prio), l, Last(s.lists[p]["decaying"]))
<1> DEFINE n == Last(s.lists[p]["decaying"])
           t == PopBack(s, p, "decaying")
           u == TakeOwnership(t, n, l, prio)
<1> HIDE DEF n
<1>1. Fewer(s, t) /\ Shape(t)
  BY PopFewer DEF Fewer
<1> HIDE DEF t
<1>2. Only(t, u, l, n) /\ Shape(u)
  BY <1>1, TakeOnly DEF Only
<1> HIDE DEF u
<1>3. Fewer(u, AudioListPushBack(u, p, "releasing", n))
  BY <1>2, PushBackFewer
<1>4. Only(s, AudioListPushBack(u, p, "releasing", n), l, n)
  BY <1>1, <1>2, <1>3, FewerThenOnly, OnlyFewer
<1> QED BY <1>4 DEF FromDecaying, n, t, u

\* A sounding note is released for another layer.
LEMMA ClaimOnly ==
  ASSUME NEW s, Shape(s), NEW n, NEW l \in Layers, NEW hushed
  PROVE  Only(s, func_80012E28(s, n, l, hushed), l, n)
<1> DEFINE t == IF s.notes[n].parent = None THEN s
                ELSE SeqLayerDecayRelease(s, s.notes[n].parent, "release", hushed)
<1>1. Fewer(s, t) /\ Shape(t)
  <2>1. Fewer(s, SeqLayerDecayRelease(s, s.notes[n].parent, "release", hushed))
    BY DecayFewer
  <2>2. Fewer(s, s)
    BY FewerSelf
  <2> QED BY <2>1, <2>2 DEF Fewer
<1>2. func_80012E28(s, n, l, hushed) = Note(t, n, [t.notes[n] EXCEPT !.wanted = l])
  BY DEF func_80012E28
<1> HIDE DEF t
<1>3. Only(t, Note(t, n, [t.notes[n] EXCEPT !.wanted = l]), l, n)
  BY <1>1, WantedOnly
<1>4. Only(s, Note(t, n, [t.notes[n] EXCEPT !.wanted = l]), l, n)
  BY <1>1, <1>3, FewerThenOnly
<1> QED BY <1>2, <1>4

\* Audio_AllocNoteFromActive.
LEMMA ActiveOnly ==
  ASSUME NEW s, Shape(s), NEW p, NEW l \in Layers, NEW prio, NEW hushed
  PROVE  Only(s, FromActive(s, p, l, prio, hushed).s, l, FromActive(s, p, l, prio, hushed).n)
<1> DEFINE r == FindNodeWithPrioLessThan(s, p, "releasing", prio)
           a == FindNodeWithPrioLessThan(s, p, "active", prio)
           c == AudioListRemove(s, a)
           f == func_80012E28(c, a, l, hushed)
           moved == AudioListPushBack(f, p, "releasing", a)
           last == Note(moved, a, [moved.notes[a] EXCEPT !.priority = prio])
           v == Note(s, r, [s.notes[r] EXCEPT !.wanted = l, !.priority = prio])
           res == FromActive(s, p, l, prio, hushed)
<1>1. (res.s = last /\ res.n = a) \/ (res.s = v /\ res.n = r)
  BY DEF FromActive
<1> HIDE DEF r, a
<1>2. Fewer(s, c) /\ Shape(c)
  BY RemoveFewer DEF Fewer
<1> HIDE DEF c
<1>3. Only(c, f, l, a) /\ Shape(f)
  BY <1>2, ClaimOnly DEF Only
<1> HIDE DEF f
<1>4. Fewer(f, moved) /\ Shape(moved)
  BY <1>3, PushBackFewer DEF Fewer
<1> HIDE DEF moved
<1>5. Fewer(moved, last)
  BY <1>4, PriorityFewer
<1> HIDE DEF last
<1>6. Only(s, last, l, a)
  BY <1>2, <1>3, <1>4, <1>5, FewerThenOnly, OnlyFewer
<1>7. Only(s, v, l, r)
  <2> DEFINE q == [s.notes[r] EXCEPT !.wanted = l, !.priority = prio]
  <2>1. r \in Notes => Links(q, s.notes[r].parent, l)
    BY Fields DEF Shape
  <2> HIDE DEF q
  <2>2. Only(s, Note(s, r, q), l, r)
    BY <2>1, NoteWithOnly
  <2> QED BY <2>2 DEF q
<1> HIDE DEF v, res
<1>8. Only(s, res.s, l, res.n)
  BY <1>1, <1>6, <1>7
<1> QED BY <1>8 DEF res

\* Audio_AllocNote.
LEMMA AllocOnly ==
  ASSUME NEW s, Shape(s), NEW l \in Layers, NEW prio, NEW policy, NEW hushed,
         policy.pools \in {"channel", "player", "free", "all"}
  PROVE  Only(s, AllocNote(s, l, prio, policy, hushed).s, l, AllocNote(s, l, prio, policy, hushed).n)
<1> DEFINE res == AllocNote(s, l, prio, policy, hushed)
           own == s.layers[l].note
           taken == TakeOwnership(s, own, l, prio)
<1>1. \/ res = [s |-> Moved(taken, s.notes[own].pool, "releasing", own), n |-> own]
      \/ res = [s |-> s, n |-> None]
      \/ \E p : res = [s |-> FromDisabled(s, p, l, prio), n |-> Last(s.lists[p]["disabled"])]
      \/ \E p : res = [s |-> FromDecaying(s, p, l, prio), n |-> Last(s.lists[p]["decaying"])]
      \/ \E p : res = FromActive(s, p, l, prio, hushed)
  BY DEF AllocNote
<1> HIDE DEF res, own
<1>2. Only(s, taken, l, own)
  BY TakeOnly
<1> HIDE DEF taken
<1>3. Only(s, Moved(taken, s.notes[own].pool, "releasing", own), l, own)
  <2>1. Shape(taken)
    BY <1>2 DEF Only
  <2> QED BY <1>2, <2>1, MovedFewer, OnlyFewer
<1>4. Only(s, s, l, None)
  BY FewerSelf, FewerOnly
<1>5. Only(s, res.s, l, res.n)
  <2>1. CASE res = [s |-> Moved(taken, s.notes[own].pool, "releasing", own), n |-> own]
    BY <1>3, <2>1
  <2>2. CASE res = [s |-> s, n |-> None]
    BY <1>4, <2>2
  <2>3. CASE \E p : res = [s |-> FromDisabled(s, p, l, prio), n |-> Last(s.lists[p]["disabled"])]
    <3>1. PICK p : res = [s |-> FromDisabled(s, p, l, prio), n |-> Last(s.lists[p]["disabled"])]
      BY <2>3
    <3>2. Only(s, FromDisabled(s, p, l, prio), l, Last(s.lists[p]["disabled"]))
      BY DisabledOnly
    <3> QED BY <3>1, <3>2
  <2>4. CASE \E p : res = [s |-> FromDecaying(s, p, l, prio), n |-> Last(s.lists[p]["decaying"])]
    <3>1. PICK p : res = [s |-> FromDecaying(s, p, l, prio), n |-> Last(s.lists[p]["decaying"])]
      BY <2>4
    <3>2. Only(s, FromDecaying(s, p, l, prio), l, Last(s.lists[p]["decaying"]))
      BY DecayingOnly
    <3> QED BY <3>1, <3>2
  <2>5. CASE \E p : res = FromActive(s, p, l, prio, hushed)
    <3>1. PICK p : res = FromActive(s, p, l, prio, hushed)
      BY <2>5
    <3> QED BY <3>1, ActiveOnly
  <2> QED BY <1>1, <2>1, <2>2, <2>3, <2>4, <2>5
<1> QED BY <1>5 DEF res
-----------------------------------------------------------------------------
(* A note in a tick. *)

\* Audio_NoteDisable.
LEMMA DisableFewer == ASSUME NEW s, Shape(s), NEW n PROVE Fewer(s, NoteDisable(s, n))
<1> DEFINE r == [s.notes[n] EXCEPT !.parent = None, !.prevParent = None, !.priority = 0,
                                   !.unk_04 = FALSE, !.finished = FALSE, !.adsr = "off"]
<1>1. NoteDisable(s, n) = Note(s, n, r)
  BY DEF NoteDisable, Note
<1>2. n \in Notes => Links(r, None, s.notes[n].wanted)
  BY Fields DEF Shape
<1> HIDE DEF r
<1>3. Fewer(s, Note(s, n, r))
  BY <1>2, NoteWith
<1> QED BY <1>1, <1>3

\* A claim is dropped.
LEMMA UnclaimedFewer ==
  ASSUME NEW s, Shape(s), NEW n PROVE Fewer(s, Note(s, n, [s.notes[n] EXCEPT !.wanted = None]))
<1> DEFINE r == [s.notes[n] EXCEPT !.wanted = None]
<1>1. n \in Notes => Links(r, s.notes[n].parent, None)
  BY Fields DEF Shape
<1> HIDE DEF r
<1>2. Fewer(s, Note(s, n, r))
  BY <1>1, NoteWith
<1> QED BY <1>2 DEF r

\* An envelope goes on.
LEMMA EnvelopeChangeFewer ==
  ASSUME NEW s, Shape(s), NEW n, NEW x PROVE Fewer(s, Note(s, n, [s.notes[n] EXCEPT !.adsr = x]))
<1> DEFINE r == [s.notes[n] EXCEPT !.adsr = x]
<1>1. n \in Notes => Links(r, s.notes[n].parent, s.notes[n].wanted)
  BY Fields DEF Shape
<1> HIDE DEF r
<1>2. Fewer(s, Note(s, n, r))
  BY <1>1, NoteWith
<1> QED BY <1>2 DEF r

\* A note begins to fade.
LEMMA FadingFewer ==
  ASSUME NEW s, Shape(s), NEW n
  PROVE  Fewer(s, Note(s, n, [s.notes[n] EXCEPT !.priority = 1, !.unk_04 = TRUE]))
<1> DEFINE r == [s.notes[n] EXCEPT !.priority = 1, !.unk_04 = TRUE]
<1>1. n \in Notes => Links(r, s.notes[n].parent, s.notes[n].wanted)
  BY Fields DEF Shape
<1> HIDE DEF r
<1>2. Fewer(s, Note(s, n, r))
  BY <1>1, NoteWith
<1> QED BY <1>2 DEF r

\* What its layer makes of a note.
LEMMA ByLayerFewer ==
  ASSUME NEW s, Shape(s), NEW n, NEW stop, NEW hushed PROVE Fewer(s, ByLayer(s, n, stop, hushed).s)
<1> DEFINE r == s.notes[n]
           l == r.parent
           Fading(t) == Note(t, n, [t.notes[n] EXCEPT !.priority = 1, !.unk_04 = TRUE])
           asked == Note(s, n, [s.notes[n] EXCEPT !.adsr = Asked(r.adsr)])
           d == SeqLayerDecayRelease(s, l, "release", hushed)
           f == AudioListPushFront(AudioListRemove(d, n), r.pool, "decaying", n)
           t == ByLayer(s, n, stop, hushed).s
<1>1. t = s \/ t = Fading(asked) \/ t = Fading(s) \/ t = Fading(f)
  BY DEF ByLayer
<1>2. \A u : Fewer(s, u) => Fewer(s, Fading(u))
  <2> SUFFICES ASSUME NEW u, Fewer(s, u) PROVE Fewer(s, Fading(u))
    OBVIOUS
  <2>1. Shape(u)
    BY DEF Fewer
  <2>2. Fewer(u, Fading(u))
    BY <2>1, FadingFewer
  <2> QED BY <2>2, FewerTwice
<1>3. Fewer(s, asked)
  BY EnvelopeChangeFewer
<1>4. Fewer(s, d) /\ Shape(d)
  BY DecayFewer DEF Fewer
<1>5. Fewer(s, f)
  <2> HIDE DEF d
  <2>1. Fewer(d, f)
    BY <1>4, FrontFewer
  <2> QED BY <1>4, <2>1, FewerTwice
<1>6. Fewer(s, s)
  BY FewerSelf
<1> HIDE DEF t, f, asked, Fading, r, l
<1>7. Fewer(s, t)
  BY <1>1, <1>2, <1>3, <1>5, <1>6
<1> QED BY <1>7 DEF t

\* What its envelope does: the layer that gets the note had a claim on it.
LEMMA ByEnvelopeFewer ==
  ASSUME NEW s, NEW chans, Good(s, chans), NEW n \in Notes, NEW prio, NEW ends
  PROVE  Fewer(s, ByEnvelope(s, n, prio, ends))
<1> DEFINE r == s.notes[n]
           w == r.wanted
           off == NoteDisable(s, n)
           Unclaimed(u) == Note(u, n, [u.notes[n] EXCEPT !.wanted = None])
           init == NoteInitForLayer(off, n, w, prio)
           given == Moved(init, r.pool, "active", n)
           Updated(u) == Note(u, n, [u.notes[n] EXCEPT !.adsr = AdsrUpdate(@, ends)])
           t == ByEnvelope(s, n, prio, ends)
<1>1. \/ t = s \/ t = Updated(s)
      \/ w # None /\ t = Updated(Unclaimed(given))
      \/ t = Moved(Unclaimed(off), r.pool, "disabled", n)
      \/ t = Moved(off, r.pool, "disabled", n)
  BY DEF ByEnvelope
<1>2. Shape(s) /\ Fewer(s, s)
  BY FewerSelf DEF Good
<1>3. \A u : Fewer(s, u) => Fewer(s, Unclaimed(u))
  BY UnclaimedFewer, FewerTwice DEF Fewer
<1>4. \A u : Fewer(s, u) => Fewer(s, Updated(u))
  <2> SUFFICES ASSUME NEW u, Fewer(s, u) PROVE Fewer(s, Updated(u))
    OBVIOUS
  <2>1. Shape(u)
    BY DEF Fewer
  <2> DEFINE x == AdsrUpdate(u.notes[n].adsr, ends)
  <2>2. Updated(u) = Note(u, n, [u.notes[n] EXCEPT !.adsr = x])
    OBVIOUS
  <2> HIDE DEF x, Updated
  <2>3. Fewer(u, Updated(u))
    BY <2>1, <2>2, EnvelopeChangeFewer
  <2> QED BY <2>3, FewerTwice
<1>5. \A u, k : Fewer(s, u) => Fewer(s, Moved(u, r.pool, k, n))
  BY MovedFewer, FewerTwice DEF Fewer
<1>6. Fewer(s, off) /\ Shape(off)
  BY <1>2, DisableFewer DEF Fewer
<1>7. ASSUME w # None PROVE Fewer(s, init)
  <2>1. w \in Layers
    BY <1>2, <1>7, Pointers DEF Shape
  <2> HIDE DEF off
  <2>2. Only(off, init, w, n) /\ init.layers[w].note = n
    BY <1>6, <2>1, InitOnly
  <2>3. Claims(s, n, w) /\ s.layers[w].note = n
    BY <2>1 DEF Claims, Good, OwnedIn
  <2> HIDE DEF init, w
  <2>4. Only(s, init, w, n)
    BY <1>6, <2>2, FewerThenOnly
  <2> QED BY <2>2, <2>3, <2>4 DEF Only, Fewer
<1> HIDE DEF t, off, init, Unclaimed, Updated, w, r
<1>8. w # None => Fewer(s, given)
  BY <1>5, <1>7
<1> HIDE DEF given
<1>9. Fewer(s, t)
  BY <1>1, <1>2, <1>3, <1>4, <1>5, <1>6, <1>8
<1> QED BY <1>9 DEF t
-----------------------------------------------------------------------------
(* The invariant over changes of layers. *)

\* Only notes and layers count.
LEMMA SameGood ==
  ASSUME NEW s, NEW t, NEW chans, Good(s, chans), t.notes = s.notes, t.layers = s.layers
  PROVE  Good(t, chans)
BY DEF Good, Shape, OwnedIn, LiveIn, Claims

\* A layer that no note claims may become anything.
LEMMA LayerGood ==
  ASSUME NEW s, NEW t, NEW chans, Good(s, chans), NEW l \in Layers, NEW r, LayerForm(r),
         \A m \in Notes : ~Claims(s, m, l), r.used => r.channel \in chans,
         t.notes = s.notes, t.layers = [s.layers EXCEPT ![l] = r]
  PROVE  Good(t, chans)
<1>1. \A x \in Layers : t.layers[x] = IF x = l THEN r ELSE s.layers[x]
  BY DEF Good, Shape
<1>2. t.layers = [x \in Layers |-> t.layers[x]]
  BY DEF Good, Shape
<1>3. Shape(t)
  BY <1>1, <1>2 DEF Good, Shape
<1>4. \A m \in Notes, x \in Layers : Claims(t, m, x) => Claims(s, m, x) /\ x # l
  BY DEF Claims
<1>5. OwnedIn(t)
  BY <1>1, <1>4 DEF Good, OwnedIn
<1>6. LiveIn(t, chans)
  BY <1>1, <1>4 DEF Good, LiveIn
<1> QED BY <1>3, <1>5, <1>6 DEF Good

\* A layer that has let go of its note takes the one that was allocated.
LEMMA OnlyGood ==
  ASSUME NEW s, NEW u, NEW t, NEW chans, Good(s, chans), NEW l \in Layers, s.layers[l].used,
         \A m \in Notes : ~Claims(s, m, l), NEW n, Only(s, u, l, n),
         t.notes = u.notes, t.layers = [u.layers EXCEPT ![l].note = n]
  PROVE  Good(t, chans)
<1> DEFINE r == [u.layers[l] EXCEPT !.note = n]
<1>1. Shape(u) /\ LayerForm(u.layers[l])
  BY DEF Only, Shape
<1>2. LayerForm(r) /\ r.note = n /\ r.used = u.layers[l].used /\ r.channel = u.layers[l].channel
  <2>1. LayerForm(r)
    BY <1>1, LayerFields
  <2>2. r.note = n
    <3>1. LayerForm(u.layers[l])
      BY <1>1
    <3>2. PICK V : u.layers[l] \in [used : V, channel : V, enabled : V, note : V]
      BY <3>1 DEF LayerForm
    <3> QED BY <3>2
  <2>3. r.used = u.layers[l].used
    BY <1>1, LayerFields
  <2>4. r.channel = u.layers[l].channel
    BY <1>1, LayerFields
  <2> QED BY <2>1, <2>2, <2>3, <2>4
<1>3. \A x \in Layers : t.layers[x] = IF x = l THEN r ELSE u.layers[x]
  BY <1>1 DEF Shape
<1>4. t.layers = [x \in Layers |-> t.layers[x]]
  BY <1>1 DEF Shape
<1> HIDE DEF r
<1>5. Shape(t)
  BY <1>1, <1>2, <1>3, <1>4 DEF Shape
<1>6. \A m \in Notes, x \in Layers : Claims(t, m, x) => Claims(s, m, x) \/ (m = n /\ x = l)
  BY DEF Claims, Only
<1>7. \A x \in Layers : /\ t.layers[x].used = s.layers[x].used
                        /\ t.layers[x].channel = s.layers[x].channel
                        /\ t.layers[x].note = IF x = l THEN n ELSE s.layers[x].note
  BY <1>2, <1>3 DEF Only
<1>8. OwnedIn(t)
  BY <1>6, <1>7 DEF Good, OwnedIn
<1>9. LiveIn(t, chans)
  BY <1>6, <1>7 DEF Good, LiveIn
<1> QED BY <1>5, <1>8, <1>9 DEF Good

\* Audio_SeqLayerFree.
LEMMA FreeGood ==
  ASSUME NEW s, NEW chans, Good(s, chans), NEW l \in Layers, NEW hushed
  PROVE  Good(SeqLayerFree(s, l, hushed), chans)
<1> DEFINE d == SeqLayerDecayRelease(s, l, "decay", hushed)
           r == [d.layers[l] EXCEPT !.used = FALSE, !.enabled = FALSE]
           t == SeqLayerFree(s, l, hushed)
<1>1. Good(d, chans) /\ \A m \in Notes : ~Claims(d, m, l)
  BY DecayFrees
<1>2. t.notes = d.notes /\ t.layers = [d.layers EXCEPT ![l] = r]
  BY DEF SeqLayerFree, State
<1> HIDE DEF d, t
<1>3. LayerForm(r) /\ r.used = FALSE
  BY <1>1, LayerFields DEF Good, Shape
<1> HIDE DEF r
<1>4. Good(t, chans)
  BY <1>1, <1>2, <1>3, LayerGood
<1> QED BY <1>4 DEF t
-----------------------------------------------------------------------------
(* The actions. *)

\* What an operator returns becomes the next state.
LEMMA BecomesGood ==
  ASSUME NEW s, NEW chans, Good(s, chans), Becomes(s) PROVE Good(S', chans)
<1> DEFINE t == S'
<1>1. t.notes = s.notes /\ t.layers = s.layers
  BY DEF Becomes, S, State
<1> HIDE DEF t
<1>2. Good(t, chans)
  BY <1>1, SameGood
<1> QED BY <1>2 DEF t

\* AudioSeq_SeqChannelSetLayer.
LEMMA SetLayerInv ==
  ASSUME Inv, NEW c, NEW l \in Layers, NEW hushed, SetLayer(c, l, hushed) PROVE Inv'
<1> DEFINE s == IF layers[l].used THEN SeqLayerDecayRelease(S, l, "decay", hushed) ELSE S
           r == [used |-> TRUE, channel |-> c, enabled |-> TRUE, note |-> None]
           t == State(s.notes, [s.layers EXCEPT ![l] = r], s.lists)
<1>1. Good(S, open)
  BY DEF Inv
<1>2. Good(s, open) /\ \A m \in Notes : ~Claims(s, m, l)
  <2>1. CASE layers[l].used
    BY <1>1, <2>1, DecayFrees
  <2>2. CASE ~layers[l].used
    <3>1. S.layers[l].used = layers[l].used
      BY DEF S, State
    <3>2. \A m \in Notes : ~Claims(S, m, l)
      BY <1>1, <2>2, <3>1 DEF Good, LiveIn
    <3> QED BY <1>1, <2>2, <3>2
  <2> QED BY <2>1, <2>2
<1>3. Becomes(t) /\ c \in open /\ open' = open
  BY DEF SetLayer
<1>4. t.notes = s.notes /\ t.layers = [s.layers EXCEPT ![l] = r]
  BY DEF State
<1>5. LayerForm(r) /\ (r.used => r.channel \in open)
  <2>1. r \in [used : {TRUE, c, None}, channel : {TRUE, c, None}, enabled : {TRUE, c, None},
               note : {TRUE, c, None}]
    OBVIOUS
  <2>2. LayerForm(r)
    BY <2>1 DEF LayerForm
  <2> QED BY <1>3, <2>2
<1> HIDE DEF s, r, t
<1>6. Good(t, open)
  BY <1>2, <1>4, <1>5, LayerGood
<1> QED BY <1>3, <1>6, BecomesGood DEF Inv

\* FreeLayer, and the walk of a call over the layers of a channel.
LEMMA FreeInv ==
  ASSUME Inv, NEW l \in Layers, NEW hushed, Becomes(SeqLayerFree(S, l, hushed)), open' = open PROVE Inv'
<1>1. Good(SeqLayerFree(S, l, hushed), open)
  BY FreeGood DEF Inv
<1> QED BY <1>1, BecomesGood DEF Inv

\* Whatever makes no claim.
LEMMA FewerInv == ASSUME Inv, NEW s, Fewer(S, s), Becomes(s), open' = open PROVE Inv'
<1>1. Good(s, open)
  BY FewerGood DEF Inv
<1> QED BY <1>1, BecomesGood DEF Inv

\* A layer stops its note.
LEMMA StopNoteInv ==
  ASSUME Inv, NEW l \in Layers, NEW hushed, StopNote(l, hushed) PROVE Inv'
<1>1. Fewer(S, SeqLayerDecayRelease(S, l, "decay", hushed))
  BY DecayFewer DEF Inv, Good
<1> QED BY <1>1, FewerInv DEF StopNote

\* A layer starts a note.
LEMMA StartNoteInv ==
  ASSUME Inv, NEW l \in Layers, NEW prio, NEW policy \in Policies, NEW hushed,
         StartNote(l, prio, policy, hushed)
  PROVE  Inv'
<1> DEFINE s == SeqLayerDecayRelease(S, l, "decay", hushed)
           a == AllocNote(s, l, prio, policy, hushed)
           t == State(a.s.notes, [a.s.layers EXCEPT ![l].note = a.n], a.s.lists)
<1>1. Good(s, open) /\ Fewer(S, s) /\ \A m \in Notes : ~Claims(s, m, l)
  BY DecayFrees DEF Inv
<1>2. S.layers[l].used /\ Becomes(t) /\ open' = open
  BY DEF StartNote, S, State
<1>3. t.notes = a.s.notes /\ t.layers = [a.s.layers EXCEPT ![l].note = a.n]
  BY DEF State
<1>4. policy.pools \in {"channel", "player", "free", "all"}
  BY NoteAssumptions DEF AllPolicies
<1> HIDE DEF s, t
<1>5. Only(s, a.s, l, a.n)
  BY <1>1, <1>4, AllocOnly DEF Good
<1> HIDE DEF a
<1>6. s.layers[l].used
  BY <1>1, <1>2 DEF Fewer
<1>7. Good(t, open)
  BY <1>1, <1>3, <1>5, <1>6, OnlyGood
<1> QED BY <1>2, <1>7, BecomesGood DEF Inv

\* A script asks for a pool.
LEMMA FillPoolInv == ASSUME Inv, NEW p, NEW count, FillPool(p, count) PROVE Inv'
<1>1. Fewer(S, NotePoolFill(S, p, count))
  BY FillFewer DEF Inv, Good
<1> QED BY <1>1, FewerInv DEF FillPool

\* A channel opens.
LEMMA SetupChannelInv == ASSUME Inv, NEW c, SetupChannel(c) PROVE Inv'
<1>1. Good(S, open') 
  BY DEF Inv, Good, LiveIn, SetupChannel
<1>2. S'.notes = S.notes /\ S'.layers = S.layers
  BY DEF SetupChannel, S, State
<1> QED BY <1>1, <1>2, SameGood DEF Inv

\* A channel without open layers can be closed.
LEMMA CloseGood ==
  ASSUME NEW s, Good(s, open), NEW c, \A l \in Layers : s.layers[l].used => s.layers[l].channel # c
  PROVE  Good(s, open \ {c})
BY DEF Good, LiveIn

\* AudioSeq_SequenceChannelDisable.
LEMMA ChannelDisableInv == ASSUME Inv, NEW c, NEW close, ChannelDisable(c, close) PROVE Inv'
<1> DEFINE t == Clear(S, c)
<1>1. Fewer(S, t) /\ Good(t, open)
  BY ClearFewer, FewerGood DEF Inv, Good
<1>2. Becomes(t)
  BY DEF ChannelDisable, ChannelClear
<1>3. \A l \in Layers : S.layers[l].used => S.layers[l].channel # c
  BY DEF ChannelDisable, Freed, S, State
<1> HIDE DEF t
<1>4. Good(t, open \ {c})
  BY <1>1, <1>3, CloseGood DEF Fewer
<1>5. open' = open \ {c} \/ open' = open
  BY DEF ChannelDisable
<1> QED BY <1>1, <1>2, <1>4, <1>5, BecomesGood DEF Inv

\* AudioSeq_SequencePlayerDisable, channel by channel.
LEMMA PlayerDisableInv == ASSUME Inv, NEW c, PlayerDisable(c) PROVE Inv'
<1> DEFINE s == Clear(S, c)
           t == Clear(s, Player)
           u == IF open = {c} THEN t ELSE s
<1>1. Fewer(S, s) /\ Shape(s)
  BY ClearFewer DEF Inv, Good, Fewer
<1>2. Becomes(u) /\ open' = open \ {c}
  BY DEF PlayerDisable, ChannelClear
<1>3. \A l \in Layers : S.layers[l].used => S.layers[l].channel # c
  BY DEF PlayerDisable, Freed, S, State
<1> HIDE DEF s
<1>4. Fewer(S, t)
  BY <1>1, ClearFewer, FewerTwice
<1>5. Fewer(S, u)
  BY <1>1, <1>4
<1> HIDE DEF t, u
<1>6. Good(u, open)
  BY <1>5, FewerGood DEF Inv
<1>7. Good(u, open \ {c})
  BY <1>3, <1>5, <1>6, CloseGood DEF Fewer
<1> QED BY <1>2, <1>7, BecomesGood DEF Inv

\* Audio_ProcessNotes for one note.
LEMMA ProcessNoteInv ==
  ASSUME Inv, NEW stop, NEW hushed, NEW prio, NEW ends, turn + 1 \in Notes,
         ProcessNote(stop, hushed, prio, ends)
  PROVE  Inv'
<1> DEFINE n == turn + 1
           first == ByLayer(S, n, stop, hushed)
           t == IF first.then = "on" THEN ByEnvelope(first.s, n, prio, ends) ELSE first.s
<1>1. Fewer(S, first.s) /\ Good(first.s, open)
  BY ByLayerFewer, FewerGood DEF Inv, Good
<1>2. Becomes(t) /\ open' = open
  BY DEF ProcessNote
<1> HIDE DEF first
<1>3. Fewer(first.s, ByEnvelope(first.s, n, prio, ends))
  BY <1>1, ByEnvelopeFewer
<1>4. Fewer(S, t)
  BY <1>1, <1>3, FewerTwice
<1> QED BY <1>2, <1>4, FewerInv

\* AUDIOCMD_OP_GLOBAL_UNMUTE.
LEMMA UnmuteInv == ASSUME Inv, NEW chans, Unmute(chans) PROVE Inv'
<1> DEFINE ended == {n \in Notes : /\ ~notes[n].unk_04 /\ notes[n].parent # None
                                   /\ layers[notes[n].parent].channel \in chans}
           ns == [n \in Notes |-> IF n \in ended THEN [notes[n] EXCEPT !.finished = TRUE] ELSE notes[n]]
           t == State(ns, layers, lists)
<1>1. Becomes(t) /\ open' = open
  BY DEF Unmute, Becomes, State
<1>2. t.layers = S.layers /\ t.notes = ns /\ S.notes = notes
  BY DEF State, S
<1> HIDE DEF ended
<1>3. \A n \in Notes : Links(t.notes[n], S.notes[n].parent, S.notes[n].wanted)
  <2> SUFFICES ASSUME NEW n \in Notes PROVE Links(t.notes[n], S.notes[n].parent, S.notes[n].wanted)
    OBVIOUS
  <2>1. NoteForm(notes[n])
    BY <1>2 DEF Inv, Good, Shape
  <2>2. Links([notes[n] EXCEPT !.finished = TRUE], notes[n].parent, notes[n].wanted)
    BY <2>1, Fields
  <2>3. Links(notes[n], notes[n].parent, notes[n].wanted)
    BY <2>1, Pointers
  <2>4. t.notes[n] = [notes[n] EXCEPT !.finished = TRUE] \/ t.notes[n] = notes[n]
    BY <1>2
  <2> HIDE DEF ns, t
  <2> QED BY <1>2, <2>2, <2>3, <2>4
<1>4. t.notes = [n \in Notes |-> t.notes[n]]
  BY <1>2
<1> HIDE DEF ns, t
<1>5. Shape(t)
  BY <1>2, <1>3, <1>4 DEF Shape, Links, Inv, Good
<1>6. Fewer(S, t)
  BY <1>2, <1>3, <1>5 DEF Fewer, Claims, Links
<1> QED BY <1>1, <1>6, FewerInv

\* AudioHeap_DiscardFont.
LEMMA DiscardFontInv == ASSUME Inv, NEW gone, DiscardFont(gone) PROVE Inv'
<1>1. /\ notes' = [n \in Notes |-> IF n \in gone
                     THEN [NoteDisable(S, n).notes[n] EXCEPT !.pool = Free, !.linked = TRUE] ELSE notes[n]]
      /\ open' = open
  BY DEF DiscardFont
<1>2. PICK off : layers' = [l \in Layers |-> IF l \in off THEN [layers[l] EXCEPT !.enabled = FALSE]
                                             ELSE layers[l]]
  BY DEF DiscardFont
<1> DEFINE t == State(notes', layers', lists')
<1>3. S.notes = notes /\ S.layers = layers /\ t.notes = notes' /\ t.layers = layers' /\ Shape(S)
  BY DEF S, State, Inv, Good
<1>4. \A n \in Notes : Links(notes'[n], notes'[n].parent, notes[n].wanted)
                       /\ notes'[n].parent \in {notes[n].parent, None}
  <2> SUFFICES ASSUME NEW n \in Notes
               PROVE  Links(notes'[n], notes'[n].parent, notes[n].wanted)
                      /\ notes'[n].parent \in {notes[n].parent, None}
    OBVIOUS
  <2>1. NoteForm(notes[n])
    BY <1>3 DEF Shape
  <2> DEFINE r == [notes[n] EXCEPT !.parent = None, !.prevParent = None, !.priority = 0,
                                   !.unk_04 = FALSE, !.finished = FALSE, !.adsr = "off"]
             q == [r EXCEPT !.pool = Free, !.linked = TRUE]
  <2>2. NoteDisable(S, n).notes[n] = r
    BY <1>3 DEF NoteDisable, State, Shape
  <2>3. notes'[n] = q \/ notes'[n] = notes[n]
    BY <1>1, <2>2
  <2>4. Links(r, None, notes[n].wanted)
    BY <2>1, Fields
  <2> HIDE DEF r
  <2>5. Links(q, None, notes[n].wanted)
    <3>1. NoteForm(r) /\ r.parent = None /\ r.wanted = notes[n].wanted
      BY <2>4 DEF Links
    <3>2. Links(q, r.parent, r.wanted)
      BY <3>1, Fields
    <3> QED BY <3>1, <3>2
  <2>6. Links(notes[n], notes[n].parent, notes[n].wanted)
    BY <2>1, Pointers
  <2> HIDE DEF q
  <2> QED BY <2>3, <2>5, <2>6 DEF Links
<1>5. \A x \in Layers : LayerForm(layers'[x]) /\ layers'[x].used = layers[x].used
                     /\ layers'[x].channel = layers[x].channel /\ layers'[x].note = layers[x].note
  <2> SUFFICES ASSUME NEW x \in Layers
               PROVE  LayerForm(layers'[x]) /\ layers'[x].used = layers[x].used
                     /\ layers'[x].channel = layers[x].channel /\ layers'[x].note = layers[x].note
    OBVIOUS
  <2>1. LayerForm(layers[x])
    BY <1>3 DEF Shape
  <2> DEFINE q == [layers[x] EXCEPT !.enabled = FALSE]
  <2>2. layers'[x] = q \/ layers'[x] = layers[x]
    BY <1>2
  <2>3. LayerForm(q)
    BY <2>1, LayerFields
  <2>4. q.used = layers[x].used /\ q.channel = layers[x].channel /\ q.note = layers[x].note
    BY <2>1, LayerFields
  <2> HIDE DEF q
  <2> QED BY <2>1, <2>2, <2>3, <2>4
<1>6. t.notes = [n \in Notes |-> t.notes[n]] /\ t.layers = [l \in Layers |-> t.layers[l]]
  BY <1>1, <1>2, <1>3
<1> HIDE DEF t
<1>7. Shape(t)
  BY <1>3, <1>4, <1>5, <1>6 DEF Shape, Links
<1>8. \A m \in Notes, x \in Layers : Claims(t, m, x) => Claims(S, m, x)
  <2>1. None \notin Layers
    BY NoteAssumptions
  <2> QED BY <1>3, <1>4, <2>1 DEF Claims, Links
<1>9. Fewer(S, t)
  BY <1>3, <1>5, <1>7, <1>8 DEF Fewer
<1>10. Becomes(t)
  BY DEF Becomes, t, State
<1> QED BY <1>1, <1>9, <1>10, FewerInv
-----------------------------------------------------------------------------
(* The theorems. *)

\* Nothing is claimed at first.
LEMMA InitInv == Init => Inv
<1> SUFFICES ASSUME Init PROVE Inv
  OBVIOUS
<1>1. S.notes = [n \in Notes |-> OffNote(Free)]
      /\ S.layers = [l \in Layers |-> [used |-> FALSE, channel |-> None, enabled |-> FALSE, note |-> None]]
  BY DEF Init, S, State
<1>2. NoteForm(OffNote(Free)) /\ OffNote(Free).parent = None /\ OffNote(Free).wanted = None
  <2>1. OffNote(Free) \in Typed({None, 0, FALSE, TRUE, "off", Free})
    BY DEF OffNote, Typed
  <2> QED BY <2>1 DEF NoteForm, OffNote
<1>3. LayerForm([used |-> FALSE, channel |-> None, enabled |-> FALSE, note |-> None])
  <2>1. [used |-> FALSE, channel |-> None, enabled |-> FALSE, note |-> None]
          \in [used : {FALSE, None}, channel : {FALSE, None}, enabled : {FALSE, None}, note : {FALSE, None}]
    OBVIOUS
  <2> QED BY <2>1 DEF LayerForm
<1>4. None \notin Layers
  BY NoteAssumptions
<1>5. Shape(S)
  BY <1>1, <1>2, <1>3 DEF Shape
<1>6. \A n \in Notes, l \in Layers : ~Claims(S, n, l)
  BY <1>1, <1>2, <1>4 DEF Claims
<1>7. \A l \in Layers : ~S.layers[l].used
  BY <1>1
<1> QED BY <1>5, <1>6, <1>7 DEF Inv, Good, OwnedIn, LiveIn

\* Audio_ProcessNotes goes through the notes.
Turning == turn \in 0 .. NumNotes - 1

\* The note that is next is one.
LEMMA TurningSpec == Spec => []Turning
<1>1. Init => Turning
  BY NoteAssumptions DEF Init, Turning
<1>2. Turning /\ [Next]_vars => Turning'
  <2> SUFFICES ASSUME Turning, [Next]_vars PROVE Turning'
    OBVIOUS
  <2>1. turn' = turn \/ turn' = (turn + 1) % NumNotes
    BY DEF Next, Tick, vars, SetLayer, FreeLayer, StopNote, StartNote, FillPool, SetupChannel,
           Unmute, DiscardFont, ProcessNote, WalkLayer, ChannelEnable, PlayerDisable, ChannelDisable
  <2> QED BY <2>1, NoteAssumptions DEF Turning
<1> QED BY <1>1, <1>2, PTL DEF Spec

\* Every step keeps the invariant.
LEMMA StepInv == Inv /\ Turning /\ [Next]_vars => Inv'
<1> SUFFICES ASSUME Inv, Turning, [Next]_vars PROVE Inv'
  OBVIOUS
<1>1. ASSUME NEW c \in Channels, NEW l \in Layers, NEW hushed, SetLayer(c, l, hushed) PROVE Inv'
  BY <1>1, SetLayerInv
<1>2. ASSUME NEW l \in Layers, NEW hushed, FreeLayer(l, hushed) PROVE Inv'
  BY <1>2, FreeInv DEF FreeLayer
<1>3. ASSUME NEW l \in Layers, NEW hushed, StopNote(l, hushed) PROVE Inv'
  BY <1>3, StopNoteInv
<1>4. ASSUME NEW l \in Layers, NEW prio \in Priorities, NEW policy \in Policies, NEW hushed,
             StartNote(l, prio, policy, hushed) PROVE Inv'
  BY <1>4, StartNoteInv
<1>5. ASSUME NEW p, NEW count, FillPool(p, count) PROVE Inv'
  BY <1>5, FillPoolInv
<1>6. ASSUME NEW c, SetupChannel(c) PROVE Inv'
  BY <1>6, SetupChannelInv
<1>7. ASSUME UNCHANGED <<notes, layers, lists, open>> PROVE Inv'
  <2>1. S' = S /\ open' = open
    BY <1>7 DEF S, State
  <2> QED BY <2>1 DEF Inv
<1>8. ASSUME NEW chans, Unmute(chans) PROVE Inv'
  BY <1>8, UnmuteInv
<1>9. ASSUME NEW gone, DiscardFont(gone) PROVE Inv'
  BY <1>9, DiscardFontInv
<1>10. ASSUME NEW stop, NEW hushed, NEW prio, NEW ends, ProcessNote(stop, hushed, prio, ends) PROVE Inv'
  <2>1. turn + 1 \in Notes
    BY NoteAssumptions DEF Turning, Notes
  <2> QED BY <1>10, <2>1, ProcessNoteInv
<1>11. ASSUME NEW chans, NEW c, NEW l \in Layers, NEW hushed, WalkLayer(chans, c, l, hushed) PROVE Inv'
  BY <1>11, FreeInv DEF WalkLayer
<1>12. ASSUME NEW c, NEW close, ChannelDisable(c, close) PROVE Inv'
  BY <1>12, ChannelDisableInv
<1>13. ASSUME NEW c, PlayerDisable(c) PROVE Inv'
  BY <1>13, PlayerDisableInv
<1>14. ASSUME Tick PROVE Inv'
  BY <1>7, <1>10, <1>11, <1>12, <1>13, <1>14 DEF Tick, ChannelEnable
<1>15. ASSUME UNCHANGED vars PROVE Inv'
  BY <1>7, <1>15 DEF vars
<1> QED BY <1>1, <1>2, <1>3, <1>4, <1>5, <1>6, <1>8, <1>9, <1>14, <1>15 DEF Next

\* The invariant holds in every state.
LEMMA Invariance == Spec => []Inv
<1>1. Inv /\ Turning /\ [Next]_vars => Inv'
  BY StepInv
<1> QED BY InitInv, TurningSpec, <1>1, PTL DEF Spec

\* No layer can close, start another note or be given away and leave a note
\* behind that still belongs to it or is promised to it: Audio_ProcessNotes
\* never plays a note by the envelope and channel of a layer that is not its own.
THEOREM NotesOwned == Spec => []Owned
<1>1. Inv => Owned
  BY DEF Inv, Good, OwnedIn, Claims, Owned, S, State
<1> QED BY <1>1, Invariance, PTL

\* Whoever owns or awaits a note is an open layer of an open channel, so the
\* pointers Audio_ProcessNotes and Audio_NoteInitForLayer follow without a
\* test are there.
THEOREM OwnersAlive == Spec => []OwnersLive
<1>1. Inv => OwnersLive
  <2> SUFFICES ASSUME Inv, NEW n \in Notes, NEW l \in {notes[n].parent, notes[n].wanted} \ {None}
               PROVE  layers[l].used /\ layers[l].channel \in open
    BY DEF OwnersLive
  <2>1. S.notes = notes /\ S.layers = layers
    BY DEF S, State
  <2>2. NoteForm(notes[n])
    BY <2>1 DEF Inv, Good, Shape
  <2>3. l \in Layers
    BY <2>2, Pointers
  <2> QED BY <2>1, <2>3 DEF Inv, Good, LiveIn, Claims
<1> QED BY <1>1, Invariance, PTL
-----------------------------------------------------------------------------
(* Lists without repetitions. *)

List(q) == q \in Seq(Notes) /\ \A i, j \in 1 .. Len(q) : q[i] = q[j] => i = j

\* What a sequence is made of.
LEMMA ListForm ==
  ASSUME NEW q \in Seq(Notes)
  PROVE  /\ Len(q) \in Nat /\ DOMAIN q = 1 .. Len(q) /\ \A i \in 1 .. Len(q) : q[i] \in Notes
         /\ q = << >> <=> Len(q) = 0
  OBVIOUS

\* A sequence given by its elements.
LEMMA ListOf ==
  ASSUME NEW m \in Nat, NEW q, q = [i \in 1 .. m |-> q[i]], \A i \in 1 .. m : q[i] \in Notes
  PROVE  q \in Seq(Notes) /\ Len(q) = m
<1>1. q \in [1 .. m -> Notes]
  OBVIOUS
<1>2. q \in Seq(Notes)
  BY <1>1
<1>3. DOMAIN q = 1 .. m /\ DOMAIN q = 1 .. Len(q) /\ Len(q) \in Nat
  BY <1>2
<1> QED BY <1>2, <1>3

\* A note in a list has one place in it.
LEMMA Place ==
  ASSUME NEW q, List(q), NEW n, In(q, n)
  PROVE  \E i \in 1 .. Len(q) : q[i] = n /\ \A j \in 1 .. Len(q) : q[j] = n => j = i
BY ListForm DEF List, In

\* The list without one of its notes.
LEMMA WithoutList ==
  ASSUME NEW q, List(q), NEW n
  PROVE  List(Without(q, n)) /\ \A x : In(Without(q, n), x) <=> In(q, x) /\ x # n
<1>0. q \in Seq(Notes) /\ Len(q) \in Nat /\ DOMAIN q = 1 .. Len(q) /\ \A k \in 1 .. Len(q) : q[k] \in Notes
  BY ListForm DEF List
<1>1. CASE ~In(q, n)
  BY <1>1 DEF Without, In
<1>2. CASE In(q, n)
  <2> DEFINE i == CHOOSE k \in DOMAIN q : q[k] = n
             a == SubSeq(q, 1, i - 1)
             b == SubSeq(q, i + 1, Len(q))
             w == a \o b
             m == Len(q) - 1
  <2>1. i \in 1 .. Len(q) /\ q[i] = n
    BY <1>0, <1>2 DEF In
  <2>2. Without(q, n) = w
    BY <1>2 DEF Without
  <2> HIDE DEF i
  <2>3. /\ a \in Seq(Notes) /\ Len(a) = i - 1 /\ \A j \in 1 .. i - 1 : a[j] = q[j]
    BY <1>0, <2>1, SubSeqProperties
  <2>4. /\ b \in Seq(Notes) /\ Len(b) = Len(q) - i /\ \A j \in 1 .. Len(q) - i : b[j] = q[j + i]
    <3>1. i + 1 \in Int /\ Len(q) \in Int /\ \A j \in i + 1 .. Len(q) : q[j] \in Notes
      BY <1>0, <2>1
    <3>2. /\ b \in Seq(Notes) /\ Len(b) = IF i + 1 <= Len(q) THEN Len(q) - (i + 1) + 1 ELSE 0
          /\ \A j \in 1 .. Len(q) - (i + 1) + 1 : b[j] = q[i + 1 + j - 1]
      BY <3>1, SubSeqProperties
    <3> HIDE DEF b
    <3>3. Len(b) = Len(q) - i /\ Len(q) - (i + 1) + 1 = Len(q) - i
      <4>1. PICK z : z = Len(b)
        OBVIOUS
      <4>2. PICK y : y = Len(q)
        OBVIOUS
      <4>3. y \in Nat /\ i \in 1 .. y /\ z = IF i + 1 <= y THEN y - (i + 1) + 1 ELSE 0
        BY <1>0, <2>1, <3>2, <4>1, <4>2
      <4>4. z = y - i /\ y - (i + 1) + 1 = y - i
        BY <4>3
      <4> QED BY <4>1, <4>2, <4>4
    <3>4. \A j \in 1 .. Len(q) - i : i + 1 + j - 1 = j + i
      BY <1>0, <2>1
    <3> QED BY <3>2, <3>3, <3>4
  <2> HIDE DEF a, b
  <2>5. w \in Seq(Notes) /\ Len(w) = m /\ m \in Nat
        /\ \A j \in 1 .. m : w[j] = IF j <= i - 1 THEN a[j] ELSE b[j - (i - 1)]
    <3>1. /\ w \in Seq(Notes) /\ Len(w) = Len(a) + Len(b)
          /\ \A j \in 1 .. Len(a) + Len(b) : w[j] = IF j <= Len(a) THEN a[j] ELSE b[j - Len(a)]
      BY <2>3, <2>4, ConcatProperties
    <3>2. Len(a) + Len(b) = m /\ m \in Nat
      BY <1>0, <2>1, <2>3, <2>4
    <3> HIDE DEF w, m
    <3> QED BY <2>3, <3>1, <3>2
  <2> HIDE DEF w
  <2>6. ASSUME NEW j \in 1 .. m
        PROVE  w[j] = IF j < i THEN q[j] ELSE q[j + 1]
    <3>1. CASE j < i
      BY <2>1, <2>3, <2>5, <3>1
    <3>2. CASE ~(j < i)
      <4>1. j - (i - 1) \in 1 .. Len(q) - i /\ j - (i - 1) + i = j + 1 /\ ~(j <= i - 1)
        BY <1>0, <2>1, <3>2
      <4> QED BY <2>4, <2>5, <3>2, <4>1
    <3> QED BY <3>1, <3>2
  <2> DEFINE At(j) == IF j < i THEN j ELSE j + 1
  <2>7. \A j \in 1 .. m : At(j) \in 1 .. Len(q) /\ At(j) # i /\ w[j] = q[At(j)]
    BY <1>0, <2>1, <2>6
  <2>8. \A j, k \in 1 .. m : At(j) = At(k) => j = k
    BY <1>0, <2>1
  <2>9. \A k \in 1 .. Len(q) : k # i => \E j \in 1 .. m : At(j) = k
    <3> SUFFICES ASSUME NEW k \in 1 .. Len(q), k # i PROVE \E j \in 1 .. m : At(j) = k
      OBVIOUS
    <3>1. CASE k < i
      BY <1>0, <2>1, <3>1
    <3>2. CASE ~(k < i)
      <4>1. k - 1 \in 1 .. m /\ ~(k - 1 < i) /\ k - 1 + 1 = k
        BY <1>0, <2>1, <3>2
      <4> QED BY <4>1
    <3> QED BY <3>1, <3>2
  <2> HIDE DEF At, m
  <2>10. List(w)
    BY <2>5, <2>7, <2>8 DEF List
  <2>11. DOMAIN w = 1 .. m
    BY <2>5
  <2>12. ASSUME NEW x PROVE In(w, x) <=> In(q, x) /\ x # n
    <3>1. ASSUME In(w, x) PROVE In(q, x) /\ x # n
      <4>1. PICK j \in 1 .. m : w[j] = x
        BY <2>11, <3>1 DEF In
      <4>2. At(j) \in 1 .. Len(q) /\ At(j) # i /\ q[At(j)] = x
        BY <2>7, <4>1
      <4>3. x # n
        BY <2>1, <4>2 DEF List
      <4> QED BY <1>0, <4>2, <4>3 DEF In
    <3>2. ASSUME In(q, x), x # n PROVE In(w, x)
      <4>1. PICK k \in 1 .. Len(q) : q[k] = x
        BY <1>0, <3>2 DEF In
      <4>2. PICK j \in 1 .. m : At(j) = k
        BY <2>1, <2>9, <3>2, <4>1
      <4> QED BY <2>7, <2>11, <4>1, <4>2 DEF In
    <3> QED BY <3>1, <3>2
  <2> QED BY <2>2, <2>10, <2>12
<1> QED BY <1>1, <1>2

\* One list behind another that shares no note with it.
LEMMA JoinList ==
  ASSUME NEW q, NEW r, List(q), List(r), \A x : ~(In(q, x) /\ In(r, x))
  PROVE  List(q \o r) /\ \A x : In(q \o r, x) <=> In(q, x) \/ In(r, x)
<1> DEFINE w == q \o r
           a == Len(q)
           b == Len(r)
<1>0. /\ q \in Seq(Notes) /\ a \in Nat /\ DOMAIN q = 1 .. a
      /\ r \in Seq(Notes) /\ b \in Nat /\ DOMAIN r = 1 .. b
  BY ListForm DEF List
<1>1. /\ w \in Seq(Notes) /\ Len(w) = a + b
      /\ \A i \in 1 .. a + b : w[i] = IF i <= a THEN q[i] ELSE r[i - a]
  BY <1>0, ConcatProperties
<1>2. DOMAIN w = 1 .. a + b
  BY <1>1
<1> HIDE DEF w
<1>3. \A i \in 1 .. a : i \in 1 .. a + b /\ w[i] = q[i]
  BY <1>0, <1>1
<1>4. \A i \in 1 .. b : i + a \in 1 .. a + b /\ w[i + a] = r[i]
  BY <1>0, <1>1
<1>5. \A i \in 1 .. a + b : i \in 1 .. a \/ (i - a \in 1 .. b /\ i - a + a = i)
  BY <1>0
<1>6. ASSUME NEW x PROVE In(w, x) <=> In(q, x) \/ In(r, x)
  <2>1. ASSUME In(w, x) PROVE In(q, x) \/ In(r, x)
    <3>1. PICK i \in 1 .. a + b : w[i] = x
      BY <1>2, <2>1 DEF In
    <3>2. CASE i \in 1 .. a
      BY <1>0, <1>3, <3>1, <3>2 DEF In
    <3>3. CASE i - a \in 1 .. b /\ i - a + a = i
      <4>1. r[i - a] = x
        BY <1>4, <3>1, <3>3
      <4> QED BY <1>0, <3>3, <4>1 DEF In
    <3> QED BY <1>5, <3>2, <3>3
  <2>2. ASSUME In(q, x) PROVE In(w, x)
    BY <1>0, <1>2, <1>3, <2>2 DEF In
  <2>3. ASSUME In(r, x) PROVE In(w, x)
    BY <1>0, <1>2, <1>4, <2>3 DEF In
  <2> QED BY <2>1, <2>2, <2>3
<1>7. ASSUME NEW i \in 1 .. a + b, NEW j \in 1 .. a + b, w[i] = w[j] PROVE i = j
  <2>1. CASE i \in 1 .. a /\ j \in 1 .. a
    BY <1>3, <1>7, <2>1 DEF List
  <2>2. CASE i - a \in 1 .. b /\ j - a \in 1 .. b /\ i - a + a = i /\ j - a + a = j
    <3>1. r[i - a] = r[j - a]
      BY <1>4, <1>7, <2>2
    <3>2. i - a = j - a
      BY <2>2, <3>1 DEF List
    <3> QED BY <2>2, <3>2
  <2>3. CASE i \in 1 .. a /\ j - a \in 1 .. b /\ j - a + a = j
    <3>1. q[i] = r[j - a]
      BY <1>3, <1>4, <1>7, <2>3
    <3> QED BY <1>0, <2>3, <3>1 DEF In
  <2>4. CASE j \in 1 .. a /\ i - a \in 1 .. b /\ i - a + a = i
    <3>1. q[j] = r[i - a]
      BY <1>3, <1>4, <1>7, <2>4
    <3> QED BY <1>0, <2>4, <3>1 DEF In
  <2> QED BY <1>5, <2>1, <2>2, <2>3, <2>4
<1>8. List(w)
  BY <1>1, <1>7 DEF List
<1> QED BY <1>6, <1>8 DEF w

\* A list of one note.
LEMMA SingleList == ASSUME NEW n \in Notes PROVE List(<<n>>) /\ \A x : In(<<n>>, x) <=> x = n
<1>1. <<n>> \in Seq(Notes) /\ Len(<<n>>) = 1 /\ DOMAIN <<n>> = {1} /\ 1 .. 1 = {1}
  OBVIOUS
<1> QED BY <1>1 DEF List, In

\* A note at the end of a list, or in front.
LEMMA LongerList ==
  ASSUME NEW q, List(q), NEW n \in Notes, ~In(q, n)
  PROVE  /\ List(Append(q, n)) /\ \A x : In(Append(q, n), x) <=> In(q, x) \/ x = n
         /\ List(<<n>> \o q) /\ \A x : In(<<n>> \o q, x) <=> In(q, x) \/ x = n
<1>1. Append(q, n) = q \o <<n>>
  BY DEF List
<1>2. List(<<n>>) /\ \A x : In(<<n>>, x) <=> x = n
  BY SingleList
<1>3. List(q \o <<n>>) /\ \A x : In(q \o <<n>>, x) <=> In(q, x) \/ In(<<n>>, x)
  BY <1>2, JoinList
<1>4. List(<<n>> \o q) /\ \A x : In(<<n>> \o q, x) <=> In(<<n>>, x) \/ In(q, x)
  BY <1>2, JoinList
<1> QED BY <1>1, <1>2, <1>3, <1>4

\* The list without its last note.
LEMMA ShorterList ==
  ASSUME NEW q, List(q), q # << >>
  PROVE  /\ Last(q) \in Notes /\ In(q, Last(q))
         /\ List(SubSeq(q, 1, Len(q) - 1))
         /\ \A x : In(SubSeq(q, 1, Len(q) - 1), x) <=> In(q, x) /\ x # Last(q)
<1> DEFINE m == Len(q) - 1
           w == SubSeq(q, 1, m)
<1>0. q \in Seq(Notes) /\ Len(q) \in Nat \ {0} /\ DOMAIN q = 1 .. Len(q) /\ \A i \in 1 .. Len(q) : q[i] \in Notes
  BY ListForm DEF List
<1>1. Last(q) = q[Len(q)] /\ Len(q) \in 1 .. Len(q)
  BY <1>0 DEF Last
<1>2. w \in Seq(Notes) /\ Len(w) = m /\ \A i \in 1 .. m : w[i] = q[i]
  BY <1>0, SubSeqProperties
<1>3. m \in Nat /\ DOMAIN w = 1 .. m /\ 1 .. Len(q) = 1 .. m \cup {Len(q)} /\ Len(q) \notin 1 .. m
  BY <1>0, <1>2
<1> HIDE DEF w, m
<1>4. List(w)
  BY <1>2, <1>3 DEF List
<1>5. \A x : In(w, x) <=> In(q, x) /\ x # Last(q)
  BY <1>0, <1>1, <1>2, <1>3 DEF List, In
<1> QED BY <1>0, <1>1, <1>4, <1>5 DEF In, w, m

\* A list cut in two, the back one turned round.
LEMMA CutList ==
  ASSUME NEW q, List(q), NEW c \in 0 .. Len(q)
  PROVE  LET rest == SubSeq(q, 1, c)
             taken == [j \in 1 .. Len(q) - c |-> q[Len(q) + 1 - j]]
         IN  /\ List(rest) /\ List(taken)
             /\ \A x : In(q, x) <=> In(rest, x) \/ In(taken, x)
             /\ \A x : ~(In(rest, x) /\ In(taken, x))
<1> DEFINE rest == SubSeq(q, 1, c)
           taken == [j \in 1 .. Len(q) - c |-> q[Len(q) + 1 - j]]
           m == Len(q)
<1>0. q \in Seq(Notes) /\ m \in Nat /\ DOMAIN q = 1 .. m /\ \A i \in 1 .. m : q[i] \in Notes
  BY ListForm DEF List
<1>1. rest \in Seq(Notes) /\ Len(rest) = c /\ \A i \in 1 .. c : rest[i] = q[i]
  BY <1>0, SubSeqProperties
<1>2. DOMAIN rest = 1 .. c /\ \A i \in 1 .. c : i \in 1 .. m
  BY <1>0, <1>1
<1>3. \A j \in 1 .. m - c : m + 1 - j \in 1 .. m /\ m + 1 - j \notin 1 .. c
  BY <1>0
<1>4. taken \in Seq(Notes) /\ Len(taken) = m - c
  <2>1. m - c \in Nat
    BY <1>0
  <2>2. taken = [i \in 1 .. m - c |-> taken[i]] /\ \A i \in 1 .. m - c : taken[i] \in Notes
    BY <1>0, <1>3
  <2> HIDE DEF taken
  <2> QED BY <2>1, <2>2, ListOf
<1>5. DOMAIN taken = 1 .. m - c /\ \A j \in 1 .. m - c : taken[j] = q[m + 1 - j]
  OBVIOUS
<1> HIDE DEF rest, taken
<1>6. List(rest)
  BY <1>1, <1>2 DEF List
<1>7. List(taken)
  <2> SUFFICES ASSUME NEW i \in 1 .. m - c, NEW j \in 1 .. m - c, taken[i] = taken[j] PROVE i = j
    BY <1>4 DEF List
  <2>1. m + 1 - i = m + 1 - j
    BY <1>3, <1>5 DEF List
  <2> QED BY <1>0, <2>1
<1>8. \A x : ~(In(rest, x) /\ In(taken, x))
  <2> SUFFICES ASSUME NEW i \in 1 .. c, NEW j \in 1 .. m - c, rest[i] = taken[j] PROVE FALSE
    BY <1>2, <1>5 DEF In
  <2>1. i = m + 1 - j
    BY <1>1, <1>2, <1>3, <1>5 DEF List
  <2> QED BY <1>3, <2>1
<1>9. ASSUME NEW x PROVE In(q, x) <=> In(rest, x) \/ In(taken, x)
  <2>1. In(rest, x) \/ In(taken, x) => In(q, x)
    BY <1>0, <1>1, <1>2, <1>3, <1>5 DEF In
  <2>2. ASSUME In(q, x) PROVE In(rest, x) \/ In(taken, x)
    <3>1. PICK i \in 1 .. m : q[i] = x
      BY <1>0, <2>2 DEF In
    <3>2. CASE i \in 1 .. c
      BY <1>1, <1>2, <3>1, <3>2 DEF In
    <3>3. CASE i \notin 1 .. c
      <4>1. m + 1 - i \in 1 .. m - c /\ m + 1 - (m + 1 - i) = i
        BY <1>0, <3>3
      <4>2. taken[m + 1 - i] = x
        BY <1>5, <3>1, <4>1
      <4> QED BY <1>5, <4>1, <4>2 DEF In
    <3> QED BY <3>2, <3>3
  <2> QED BY <2>1, <2>2
<1> QED BY <1>6, <1>7, <1>8, <1>9 DEF rest, taken
-----------------------------------------------------------------------------
(* Which list a note is in.                                                *)

RecType == [parent : Layers \cup {None}, prevParent : Layers \cup {None},
            wanted : Layers \cup {None}, priority : 0 .. 16, unk_04 : BOOLEAN, finished : BOOLEAN,
            adsr : {"on", "fading", "off"}, linked : BOOLEAN, pool : Pools]

\* f names the kind of list each note is in, or none while a function holds it in its
\* hands; the pool is the one its pool field names.
Filings == [Notes -> Kind \cup {"none"}]
FiledBy(s, f) ==
  /\ f \in Filings
  /\ s.notes \in [Notes -> RecType]
  /\ s.lists \in [Pools -> [Kind -> Seq(Notes)]]
  /\ \A p \in Pools, k \in Kind : List(s.lists[p][k])
  /\ \A n \in Notes : s.notes[n].linked = (f[n] # "none")
  /\ \A p \in Pools, k \in Kind, n \in Notes :
       In(s.lists[p][k], n) <=> p = s.notes[n].pool /\ k = f[n]

\* A note with another record and in another list, all others as before.
Put(s, t, f, n, r, k) ==
  /\ t.notes = [s.notes EXCEPT ![n] = r]
  /\ FiledBy(t, [f EXCEPT ![n] = k])

\* A record whose note leaves or enters a list.
LEMMA LinkFields ==
  ASSUME NEW r \in RecType, NEW p \in Pools
  PROVE  /\ [r EXCEPT !.linked = FALSE] \in RecType
         /\ [r EXCEPT !.linked = FALSE].pool = r.pool
         /\ [r EXCEPT !.linked = FALSE].linked = FALSE
         /\ [r EXCEPT !.pool = p, !.linked = TRUE] \in RecType
         /\ [r EXCEPT !.pool = p, !.linked = TRUE].pool = p
         /\ [r EXCEPT !.pool = p, !.linked = TRUE].linked = TRUE
BY DEF RecType

\* Audio_AudioListRemove.
LEMMA RemovePut ==
  ASSUME NEW s, NEW f, FiledBy(s, f), NEW n \in Notes
  PROVE  Put(s, AudioListRemove(s, n), f, n, [s.notes[n] EXCEPT !.linked = FALSE], "none")
<1> DEFINE t == AudioListRemove(s, n)
           g == [f EXCEPT ![n] = "none"]
           r == [s.notes[n] EXCEPT !.linked = FALSE]
<1>1. /\ t.notes = [s.notes EXCEPT ![n].linked = FALSE] /\ t.layers = s.layers
      /\ t.lists = [p \in Pools |-> [k \in Kind |-> Without(s.lists[p][k], n)]]
  BY DEF AudioListRemove, State, Unlinked
<1>2. t.notes = [s.notes EXCEPT ![n] = r]
  BY <1>1
<1> HIDE DEF t
<1>3. s.notes \in [Notes -> RecType] /\ f \in Filings
  BY DEF FiledBy
<1>4. r \in RecType /\ r.pool = s.notes[n].pool /\ r.linked = FALSE
  <2>1. s.notes[n] \in RecType /\ s.notes[n].pool \in Pools
    BY <1>3 DEF RecType
  <2> QED BY <2>1, LinkFields
<1> HIDE DEF r
<1>5. t.notes \in [Notes -> RecType] /\ g \in Filings
  BY <1>2, <1>3, <1>4 DEF Filings
<1>6. \A m \in Notes : /\ t.notes[m] = IF m = n THEN r ELSE s.notes[m]
                       /\ g[m] = IF m = n THEN "none" ELSE f[m]
  BY <1>2, <1>3 DEF Filings
<1> HIDE DEF g
<1>7. \A p \in Pools, k \in Kind : /\ t.lists[p][k] = Without(s.lists[p][k], n)
                                   /\ List(s.lists[p][k])
  BY <1>1 DEF FiledBy
<1>8. ASSUME NEW p \in Pools, NEW k \in Kind
      PROVE  /\ List(t.lists[p][k])
             /\ \A m \in Notes : In(t.lists[p][k], m) <=> p = t.notes[m].pool /\ k = g[m]
  <2>1. /\ List(Without(s.lists[p][k], n))
        /\ \A x : In(Without(s.lists[p][k], n), x) <=> In(s.lists[p][k], x) /\ x # n
    BY <1>7, WithoutList
  <2>2. "none" \notin Kind
    BY DEF Kind
  <2>3. \A m \in Notes : In(s.lists[p][k], m) <=> p = s.notes[m].pool /\ k = f[m]
    BY DEF FiledBy
  <2> QED BY <1>4, <1>6, <1>7, <2>1, <2>2, <2>3
<1>9. \A m \in Notes : t.notes[m].linked = (g[m] # "none")
  BY <1>4, <1>6 DEF FiledBy
<1>10. t.lists \in [Pools -> [Kind -> Seq(Notes)]]
  <2>1. \A p \in Pools, k \in Kind : Without(s.lists[p][k], n) \in Seq(Notes)
    BY <1>7, <1>8 DEF List
  <2> QED BY <1>1, <2>1
<1>11. FiledBy(t, g)
  BY <1>5, <1>8, <1>9, <1>10 DEF FiledBy
<1> QED BY <1>1, <1>2, <1>11 DEF Put, t, g, r

\* A note in the hands goes to a list, at its front or its end.
LEMMA PushPut ==
  ASSUME NEW s, NEW f, FiledBy(s, f), NEW n \in Notes, f[n] = "none", NEW p \in Pools, NEW k \in Kind,
         NEW t,
         t.notes = [s.notes EXCEPT ![n].pool = p, ![n].linked = TRUE],
         \/ t.lists = [s.lists EXCEPT ![p][k] = Append(@, n)]
         \/ t.lists = [s.lists EXCEPT ![p][k] = <<n>> \o @]
  PROVE  Put(s, t, f, n, [s.notes[n] EXCEPT !.pool = p, !.linked = TRUE], k)
<1> DEFINE g == [f EXCEPT ![n] = k]
           r == [s.notes[n] EXCEPT !.pool = p, !.linked = TRUE]
<1>1. s.notes \in [Notes -> RecType] /\ f \in Filings
      /\ s.lists \in [Pools -> [Kind -> Seq(Notes)]]
  BY DEF FiledBy
<1>2. t.notes = [s.notes EXCEPT ![n] = r]
  BY <1>1
<1>3. r \in RecType /\ r.pool = p /\ r.linked = TRUE
  <2>1. s.notes[n] \in RecType
    BY <1>1
  <2> QED BY <2>1, LinkFields
<1> HIDE DEF r
<1>4. t.notes \in [Notes -> RecType] /\ g \in Filings
  <2>1. t.notes \in [Notes -> RecType]
    BY <1>1, <1>2, <1>3
  <2>2. g \in Filings
    BY <1>1 DEF Filings
  <2> QED BY <2>1, <2>2
<1>5. \A m \in Notes : /\ t.notes[m] = IF m = n THEN r ELSE s.notes[m]
                       /\ g[m] = IF m = n THEN k ELSE f[m]
  BY <1>1, <1>2 DEF Filings
<1> HIDE DEF g
<1> DEFINE old == s.lists[p][k]
<1>6. List(old) /\ ~In(old, n)
  BY DEF FiledBy, Kind
<1>7. PICK new : /\ t.lists = [s.lists EXCEPT ![p][k] = new]
                 /\ List(new) /\ \A x : In(new, x) <=> In(old, x) \/ x = n
  <2>1. CASE t.lists = [s.lists EXCEPT ![p][k] = Append(@, n)]
    <3>1. t.lists = [s.lists EXCEPT ![p][k] = Append(old, n)]
      BY <1>1, <2>1
    <3>2. List(Append(old, n)) /\ \A x : In(Append(old, n), x) <=> In(old, x) \/ x = n
      BY <1>6, LongerList
    <3> QED BY <3>1, <3>2
  <2>2. CASE t.lists = [s.lists EXCEPT ![p][k] = <<n>> \o @]
    <3>1. t.lists = [s.lists EXCEPT ![p][k] = <<n>> \o old]
      BY <1>1, <2>2
    <3>2. List(<<n>> \o old) /\ \A x : In(<<n>> \o old, x) <=> In(old, x) \/ x = n
      BY <1>6, LongerList
    <3> QED BY <3>1, <3>2
  <2> QED BY <2>1, <2>2
<1>8. \A y \in Pools, x \in Kind : t.lists[y][x] = IF y = p /\ x = k THEN new ELSE s.lists[y][x]
  BY <1>1, <1>7
<1>9. t.lists \in [Pools -> [Kind -> Seq(Notes)]]
  <2>1. new \in Seq(Notes)
    BY <1>7 DEF List
  <2> QED BY <1>1, <1>7, <2>1
<1>10. ASSUME NEW y \in Pools, NEW x \in Kind
       PROVE  /\ List(t.lists[y][x])
              /\ \A m \in Notes : In(t.lists[y][x], m) <=> y = t.notes[m].pool /\ x = g[m]
  <2>1. List(s.lists[y][x]) /\ \A m \in Notes : In(s.lists[y][x], m) <=> y = s.notes[m].pool /\ x = f[m]
    BY DEF FiledBy
  <2>2. "none" \notin Kind
    BY DEF Kind
  <2>3. CASE y = p /\ x = k
    <3>1. t.lists[y][x] = new /\ List(new)
      BY <1>7, <1>8, <2>3
    <3>2. ASSUME NEW m \in Notes PROVE In(new, m) <=> y = t.notes[m].pool /\ x = g[m]
      <4>1. In(new, m) <=> In(old, m) \/ m = n
        BY <1>7
      <4>2. In(old, m) <=> y = s.notes[m].pool /\ x = f[m]
        BY <2>1, <2>3
      <4> QED BY <1>3, <1>5, <2>2, <2>3, <4>1, <4>2
    <3> QED BY <3>1, <3>2
  <2>4. CASE ~(y = p /\ x = k)
    BY <1>3, <1>5, <1>8, <2>1, <2>2, <2>4
  <2> QED BY <2>3, <2>4
<1>11. \A m \in Notes : t.notes[m].linked = (g[m] # "none")
  <2>1. k # "none" /\ \A m \in Notes : s.notes[m].linked = (f[m] # "none")
    BY DEF FiledBy, Kind
  <2> QED BY <1>3, <1>5, <2>1
<1>12. FiledBy(t, g)
  BY <1>4, <1>9, <1>10, <1>11 DEF FiledBy
<1> QED BY <1>2, <1>12 DEF Put, g, r

\* Audio_AudioListPushBack and AudioListPushFront.
LEMMA PushesPut ==
  ASSUME NEW s, NEW f, FiledBy(s, f), NEW n \in Notes, f[n] = "none", NEW p \in Pools, NEW k \in Kind
  PROVE  LET r == [s.notes[n] EXCEPT !.pool = p, !.linked = TRUE]
         IN  Put(s, AudioListPushBack(s, p, k, n), f, n, r, k)
             /\ Put(s, AudioListPushFront(s, p, k, n), f, n, r, k)
<1>1. ~s.notes[n].linked
  BY DEF FiledBy
<1> DEFINE t == AudioListPushBack(s, p, k, n)
           u == AudioListPushFront(s, p, k, n)
<1>2. /\ t.layers = s.layers /\ t.notes = [s.notes EXCEPT ![n].pool = p, ![n].linked = TRUE]
      /\ t.lists = [s.lists EXCEPT ![p][k] = Append(@, n)]
  BY <1>1 DEF AudioListPushBack, State
<1>3. /\ u.layers = s.layers /\ u.notes = [s.notes EXCEPT ![n].pool = p, ![n].linked = TRUE]
      /\ u.lists = [s.lists EXCEPT ![p][k] = <<n>> \o @]
  BY <1>1 DEF AudioListPushFront, State
<1> HIDE DEF t, u
<1>4. Put(s, t, f, n, [s.notes[n] EXCEPT !.pool = p, !.linked = TRUE], k)
  BY <1>2, PushPut
<1>5. Put(s, u, f, n, [s.notes[n] EXCEPT !.pool = p, !.linked = TRUE], k)
  BY <1>3, PushPut
<1> QED BY <1>4, <1>5 DEF t, u

\* One change of a note after another.
LEMMA PutTwice ==
  ASSUME NEW s, NEW f, FiledBy(s, f), NEW n \in Notes, NEW t, NEW u, NEW r, NEW q, NEW k, NEW l,
         Put(s, t, f, n, r, k), Put(t, u, [f EXCEPT ![n] = k], n, q, l)
  PROVE  Put(s, u, f, n, q, l)
<1>1. s.notes \in [Notes -> RecType] /\ f \in Filings
  BY DEF FiledBy
<1>2. u.notes = [s.notes EXCEPT ![n] = q]
  BY <1>1 DEF Put
<1>3. [[f EXCEPT ![n] = k] EXCEPT ![n] = l] = [f EXCEPT ![n] = l]
  BY <1>1 DEF Filings
<1> QED BY <1>2, <1>3 DEF Put

\* What a change leaves in hand.
LEMMA PutGives ==
  ASSUME NEW s, NEW f, FiledBy(s, f), NEW n \in Notes, NEW t, NEW r, NEW k, Put(s, t, f, n, r, k)
  PROVE  /\ FiledBy(t, [f EXCEPT ![n] = k]) /\ [f EXCEPT ![n] = k][n] = k
         /\ t.notes[n] = r /\ r \in RecType /\ r.linked = (k # "none") /\ k \in Kind \cup {"none"}
         /\ \A m \in Notes : m # n => t.notes[m] = s.notes[m]
<1>1. s.notes \in [Notes -> RecType] /\ f \in Filings
  BY DEF FiledBy
<1> DEFINE g == [f EXCEPT ![n] = k]
<1>2. g[n] = k
  BY <1>1 DEF Filings
<1>3. FiledBy(t, g) /\ g \in Filings
  BY DEF Put, FiledBy
<1> HIDE DEF g
<1>4. t.notes[n] = r /\ \A m \in Notes : m # n => t.notes[m] = s.notes[m]
  BY <1>1 DEF Put
<1>5. r \in RecType /\ r.linked = (k # "none") /\ k \in Kind \cup {"none"}
  BY <1>2, <1>3, <1>4 DEF FiledBy, Filings
<1> QED BY <1>2, <1>3, <1>4, <1>5 DEF g

\* A note goes to another list, at its end or its front.
LEMMA MovedPut ==
  ASSUME NEW s, NEW f, FiledBy(s, f), NEW n \in Notes, NEW p \in Pools, NEW k \in Kind
  PROVE  LET r == [s.notes[n] EXCEPT !.pool = p, !.linked = TRUE]
         IN  Put(s, Moved(s, p, k, n), f, n, r, k)
             /\ Put(s, AudioListPushFront(AudioListRemove(s, n), p, k, n), f, n, r, k)
<1> DEFINE t == AudioListRemove(s, n)
           q == [s.notes[n] EXCEPT !.linked = FALSE]
           g == [f EXCEPT ![n] = "none"]
           r == [s.notes[n] EXCEPT !.pool = p, !.linked = TRUE]
<1>1. Put(s, t, f, n, q, "none")
  BY RemovePut
<1>2. FiledBy(t, g) /\ g[n] = "none" /\ t.notes[n] = q
  BY <1>1, PutGives
<1>3. [q EXCEPT !.pool = p, !.linked = TRUE] = r
  <2>1. s.notes[n] \in RecType
    BY DEF FiledBy
  <2> QED BY <2>1 DEF RecType
<1> HIDE DEF t, q, g, r
<1>4. Put(t, AudioListPushBack(t, p, k, n), g, n, r, k) /\ Put(t, AudioListPushFront(t, p, k, n), g, n, r, k)
  BY <1>2, <1>3, PushesPut
<1>5. Put(s, AudioListPushBack(t, p, k, n), f, n, r, k) /\ Put(s, AudioListPushFront(t, p, k, n), f, n, r, k)
  BY <1>1, <1>4, PutTwice DEF g
<1> QED BY <1>5 DEF Moved, t, r

\* Audio_AudioListPopBack: the note was in that list.
LEMMA PopPut ==
  ASSUME NEW s, NEW f, FiledBy(s, f), NEW p \in Pools, NEW k \in Kind, s.lists[p][k] # << >>
  PROVE  LET n == Last(s.lists[p][k])
         IN  /\ n \in Notes /\ s.notes[n].pool = p /\ f[n] = k
             /\ Put(s, PopBack(s, p, k), f, n, [s.notes[n] EXCEPT !.linked = FALSE], "none")
<1> DEFINE q == s.lists[p][k]
           t == PopBack(s, p, k)
<1>1. PICK n : n = Last(q)
  OBVIOUS
<1> DEFINE g == [f EXCEPT ![n] = "none"]
           r == [s.notes[n] EXCEPT !.linked = FALSE]
<1>2. PICK w : /\ w = SubSeq(q, 1, Len(q) - 1)
               /\ n \in Notes /\ In(q, n) /\ List(w)
               /\ \A x : In(w, x) <=> In(q, x) /\ x # n
  <2>1. List(q)
    BY DEF FiledBy
  <2> QED BY <1>1, <2>1, ShorterList
<1>3. s.notes[n].pool = p /\ f[n] = k
  BY <1>2 DEF FiledBy
<1>4. s.notes \in [Notes -> RecType] /\ f \in Filings
      /\ s.lists \in [Pools -> [Kind -> Seq(Notes)]]
  BY DEF FiledBy
<1>5. t.notes = [s.notes EXCEPT ![n] = r] /\ t.layers = s.layers /\ t.lists = [s.lists EXCEPT ![p][k] = w]
  BY <1>1, <1>2, <1>4 DEF PopBack, State
<1> HIDE DEF t
<1>6. r \in RecType /\ r.pool = p /\ r.linked = FALSE
  <2>1. s.notes[n] \in RecType
    BY <1>2, <1>4
  <2> QED BY <1>3, <2>1, LinkFields
<1> HIDE DEF r
<1>7. t.notes \in [Notes -> RecType] /\ g \in Filings
  BY <1>2, <1>4, <1>5, <1>6 DEF Filings
<1>8. \A m \in Notes : /\ t.notes[m] = IF m = n THEN r ELSE s.notes[m]
                       /\ g[m] = IF m = n THEN "none" ELSE f[m]
  BY <1>2, <1>4, <1>5 DEF Filings
<1> HIDE DEF g
<1>9. \A y \in Pools, x \in Kind : t.lists[y][x] = IF y = p /\ x = k THEN w ELSE s.lists[y][x]
  BY <1>4, <1>5
<1>10. t.lists \in [Pools -> [Kind -> Seq(Notes)]]
  <2>1. w \in Seq(Notes)
    BY <1>2 DEF List
  <2> QED BY <1>4, <1>5, <2>1
<1>11. ASSUME NEW y \in Pools, NEW x \in Kind
       PROVE  /\ List(t.lists[y][x])
              /\ \A m \in Notes : In(t.lists[y][x], m) <=> y = t.notes[m].pool /\ x = g[m]
  <2>1. List(s.lists[y][x]) /\ \A m \in Notes : In(s.lists[y][x], m) <=> y = s.notes[m].pool /\ x = f[m]
    BY DEF FiledBy
  <2>2. "none" \notin Kind
    BY DEF Kind
  <2>3. CASE y = p /\ x = k
    BY <1>2, <1>6, <1>8, <1>9, <2>1, <2>2, <2>3
  <2>4. CASE ~(y = p /\ x = k)
    BY <1>3, <1>6, <1>8, <1>9, <2>1, <2>2, <2>4
  <2> QED BY <2>3, <2>4
<1>12. \A m \in Notes : t.notes[m].linked = (g[m] # "none")
  BY <1>6, <1>8 DEF FiledBy
<1>13. FiledBy(t, g)
  BY <1>7, <1>10, <1>11, <1>12 DEF FiledBy
<1>14. Put(s, t, f, n, r, "none")
  BY <1>5, <1>13 DEF Put, g
<1> QED BY <1>1, <1>2, <1>3, <1>14 DEF t, r

\* A note with another record where it is.
LEMMA NotePut ==
  ASSUME NEW s, NEW f, FiledBy(s, f), NEW n \in Notes, NEW r \in RecType,
         r.pool = s.notes[n].pool, r.linked = s.notes[n].linked,
         NEW t, t.notes = [s.notes EXCEPT ![n] = r], t.lists = s.lists
  PROVE  Put(s, t, f, n, r, f[n])
<1>1. s.notes \in [Notes -> RecType] /\ f \in Filings
  BY DEF FiledBy
<1>2. [f EXCEPT ![n] = f[n]] = f
  BY <1>1 DEF Filings
<1>3. t.notes \in [Notes -> RecType]
      /\ \A m \in Notes : t.notes[m].pool = s.notes[m].pool /\ t.notes[m].linked = s.notes[m].linked
  BY <1>1
<1>4. FiledBy(t, f)
  BY <1>3 DEF FiledBy
<1> QED BY <1>2, <1>4 DEF Put
-----------------------------------------------------------------------------
(* The pools.                                                              *)

\* No function holds a note in its hands.
Settled(f) == \A n \in Notes : f[n] \in Kind

\* Audio_NotePoolClear: what was in the pool is in the free lists, in the same kinds.
LEMMA ClearFiled ==
  ASSUME NEW s, NEW f, FiledBy(s, f), Settled(f), NEW p \in Pools
  PROVE  /\ FiledBy(Clear(s, p), f) /\ Clear(s, p).layers = s.layers
         /\ Clear(s, p).notes = [n \in Notes |-> IF s.notes[n].pool = p
                                                 THEN [s.notes[n] EXCEPT !.pool = Free] ELSE s.notes[n]]
<1> DEFINE t == Clear(s, p)
           freed == UNION {{s.lists[p][k][i] : i \in DOMAIN s.lists[p][k]} : k \in Kind}
           ns == [n \in Notes |-> IF s.notes[n].pool = p
                                  THEN [s.notes[n] EXCEPT !.pool = Free] ELSE s.notes[n]]
<1>0. /\ s.notes \in [Notes -> RecType] /\ f \in Filings
      /\ s.lists \in [Pools -> [Kind -> Seq(Notes)]]
      /\ \A y \in Pools, k \in Kind : List(s.lists[y][k])
      /\ \A y \in Pools, k \in Kind, n \in Notes :
           In(s.lists[y][k], n) <=> y = s.notes[n].pool /\ k = f[n]
      /\ \A n \in Notes : s.notes[n].linked = (f[n] # "none")
  BY DEF FiledBy
<1>1. Free \in Pools
  BY DEF Pools
<1>2. ASSUME NEW r \in RecType PROVE [r EXCEPT !.pool = Free] \in RecType /\ [r EXCEPT !.pool = Free].pool = Free
                                     /\ [r EXCEPT !.pool = Free].linked = r.linked
                                     /\ (r.pool = Free => [r EXCEPT !.pool = Free] = r)
  BY <1>1 DEF RecType
<1>3. CASE p = Free
  <2>1. t = s
    BY <1>3 DEF Clear
  <2>2. \A n \in Notes : ns[n] = s.notes[n]
    BY <1>0, <1>2, <1>3
  <2>3. ns = s.notes
    <3>1. s.notes = [n \in Notes |-> s.notes[n]]
      BY <1>0
    <3>2. DOMAIN ns = Notes
      OBVIOUS
    <3> QED BY <2>2, <3>1
  <2> QED BY <2>1, <2>3
<1>4. CASE p # Free
  <2>1. \A n \in Notes : n \in freed <=> s.notes[n].pool = p
    <3>1. \A n \in Notes : n \in freed <=> \E k \in Kind : In(s.lists[p][k], n)
      BY DEF In
    <3> QED BY <1>0, <3>1 DEF Settled
  <2>2. /\ t.notes = [n \in Notes |-> IF n \in freed THEN [s.notes[n] EXCEPT !.pool = Free] ELSE s.notes[n]]
        /\ t.layers = s.layers
        /\ t.lists = [s.lists EXCEPT ![p] = [k \in Kind |-> <<>>],
                                     ![Free] = [k \in Kind |-> @[k] \o s.lists[p][k]]]
    BY <1>4 DEF Clear, State
  <2> HIDE DEF t, freed
  <2>3. t.notes = ns
    BY <2>1, <2>2
  <2>4. ns \in [Notes -> RecType]
    BY <1>0, <1>2
  <2>5. \A n \in Notes : /\ ns[n].pool = IF s.notes[n].pool = p THEN Free ELSE s.notes[n].pool
                         /\ ns[n].linked = s.notes[n].linked
    BY <1>0, <1>2
  <2>6. ASSUME NEW k \in Kind
        PROVE  /\ List(s.lists[Free][k] \o s.lists[p][k])
               /\ \A x : In(s.lists[Free][k] \o s.lists[p][k], x)
                           <=> In(s.lists[Free][k], x) \/ In(s.lists[p][k], x)
    <3>1. List(s.lists[Free][k]) /\ List(s.lists[p][k])
      BY <1>0, <1>1
    <3>2. \A x : ~(In(s.lists[Free][k], x) /\ In(s.lists[p][k], x))
      <4>1. \A x : In(s.lists[Free][k], x) => x \in Notes
        BY <3>1, ListForm DEF List, In
      <4> QED BY <1>0, <1>1, <1>4, <4>1
    <3> QED BY <3>1, <3>2, JoinList
  <2>7. List(<< >>) /\ \A x : ~In(<< >>, x)
    BY DEF List, In
  <2>8. \A y \in Pools, k \in Kind :
          t.lists[y][k] = IF y = Free THEN s.lists[Free][k] \o s.lists[p][k]
                          ELSE IF y = p THEN << >> ELSE s.lists[y][k]
    BY <1>0, <1>1, <1>4, <2>2
  <2>9. ASSUME NEW y \in Pools, NEW k \in Kind PROVE List(t.lists[y][k])
    <3>1. CASE y = Free
      BY <1>1, <2>6, <2>8, <3>1
    <3>2. CASE y = p
      BY <1>4, <2>7, <2>8, <3>2
    <3>3. CASE y \notin {p, Free}
      BY <1>0, <2>8, <3>3
    <3> QED BY <3>1, <3>2, <3>3
  <2>10. ASSUME NEW y \in Pools, NEW k \in Kind, NEW n \in Notes
         PROVE  In(t.lists[y][k], n) <=> y = ns[n].pool /\ k = f[n]
    <3>1. CASE y = Free
      <4>1. t.lists[y][k] = s.lists[Free][k] \o s.lists[p][k]
        BY <2>8, <3>1
      <4>2. In(t.lists[y][k], n) <=> In(s.lists[Free][k], n) \/ In(s.lists[p][k], n)
        BY <2>6, <4>1
      <4>3. In(s.lists[Free][k], n) <=> Free = s.notes[n].pool /\ k = f[n]
        BY <1>0, <1>1
      <4>4. In(s.lists[p][k], n) <=> p = s.notes[n].pool /\ k = f[n]
        BY <1>0
      <4>5. ns[n].pool = IF s.notes[n].pool = p THEN Free ELSE s.notes[n].pool
        BY <2>5
      <4> HIDE DEF ns
      <4> QED BY <3>1, <4>2, <4>3, <4>4, <4>5
    <3>2. CASE y = p
      BY <1>0, <1>4, <2>5, <2>7, <2>8, <3>2
    <3>3. CASE y \notin {p, Free}
      BY <1>0, <2>5, <2>8, <3>3
    <3> QED BY <3>1, <3>2, <3>3
  <2>11. t.lists \in [Pools -> [Kind -> Seq(Notes)]]
    <3>1. \A k \in Kind : s.lists[Free][k] \o s.lists[p][k] \in Seq(Notes)
      BY <2>6 DEF List
    <3> DEFINE e == [k \in Kind |-> << >>]
               j == [k \in Kind |-> s.lists[Free][k] \o s.lists[p][k]]
    <3>2. e \in [Kind -> Seq(Notes)] /\ j \in [Kind -> Seq(Notes)]
      BY <3>1
    <3>3. t.lists = [[s.lists EXCEPT ![p] = e] EXCEPT ![Free] = j]
      BY <1>0, <1>1, <1>4, <2>2
    <3> HIDE DEF e, j
    <3>4. [s.lists EXCEPT ![p] = e] \in [Pools -> [Kind -> Seq(Notes)]]
      BY <1>0, <3>2
    <3> QED BY <3>2, <3>3, <3>4
  <2>12. FiledBy(t, f)
    BY <1>0, <2>3, <2>4, <2>5, <2>9, <2>10, <2>11 DEF FiledBy
  <2> QED BY <2>2, <2>3, <2>12 DEF t
<1> QED BY <1>3, <1>4

\* Notes go from the free lists to an empty pool.
LEMMA GivenFiled ==
  ASSUME NEW s, NEW f, FiledBy(s, f), NEW p \in Pools, p # Free, NEW taken, NEW rest,
         taken = [k \in Kind |-> taken[k]], rest = [k \in Kind |-> rest[k]],
         \A n \in Notes : s.notes[n].pool # p,
         \A k \in Kind : /\ List(taken[k]) /\ List(rest[k])
                         /\ \A x : In(s.lists[Free][k], x) <=> In(rest[k], x) \/ In(taken[k], x)
                         /\ \A x : ~(In(rest[k], x) /\ In(taken[k], x))
  PROVE  LET t == Given(s, p, taken, rest)
         IN  /\ FiledBy(t, f) /\ t.layers = s.layers
             /\ \A n \in Notes : t.notes[n] \in {s.notes[n], [s.notes[n] EXCEPT !.pool = p]}
<1> DEFINE t == Given(s, p, taken, rest)
<1>0. /\ s.notes \in [Notes -> RecType] /\ f \in Filings
      /\ s.lists \in [Pools -> [Kind -> Seq(Notes)]]
      /\ \A y \in Pools, k \in Kind : List(s.lists[y][k])
      /\ \A y \in Pools, k \in Kind, n \in Notes :
           In(s.lists[y][k], n) <=> y = s.notes[n].pool /\ k = f[n]
      /\ \A n \in Notes : s.notes[n].linked = (f[n] # "none")
  BY DEF FiledBy
<1>1. Free \in Pools
  BY DEF Pools
<1>2. ASSUME NEW r \in RecType PROVE [r EXCEPT !.pool = p] \in RecType /\ [r EXCEPT !.pool = p].pool = p
                                     /\ [r EXCEPT !.pool = p].linked = r.linked
  BY DEF RecType
<1>3. /\ t.notes = [n \in Notes |-> IF \E k \in Kind : In(taken[k], n)
                                    THEN [s.notes[n] EXCEPT !.pool = p] ELSE s.notes[n]]
      /\ t.layers = s.layers
      /\ t.lists = [s.lists EXCEPT ![p] = taken, ![Free] = rest]
  BY DEF Given, State
<1> HIDE DEF t
<1>4. t.notes \in [Notes -> RecType]
  BY <1>0, <1>2, <1>3
<1>5. \A n \in Notes : /\ t.notes[n].linked = s.notes[n].linked
                       /\ t.notes[n].pool = IF \E k \in Kind : In(taken[k], n) THEN p ELSE s.notes[n].pool
                       /\ t.notes[n] \in {s.notes[n], [s.notes[n] EXCEPT !.pool = p]}
  BY <1>0, <1>2, <1>3
<1>6. taken \in [Kind -> Seq(Notes)] /\ rest \in [Kind -> Seq(Notes)]
  BY DEF List
<1>7. t.lists \in [Pools -> [Kind -> Seq(Notes)]]
  <2>1. [s.lists EXCEPT ![p] = taken] \in [Pools -> [Kind -> Seq(Notes)]]
    BY <1>0, <1>6
  <2>2. t.lists = [[s.lists EXCEPT ![p] = taken] EXCEPT ![Free] = rest]
    BY <1>3
  <2> QED BY <1>6, <2>1, <2>2
<1>8. \A y \in Pools, k \in Kind :
        t.lists[y][k] = IF y = Free THEN rest[k] ELSE IF y = p THEN taken[k] ELSE s.lists[y][k]
  BY <1>0, <1>3
<1>9. ASSUME NEW y \in Pools, NEW k \in Kind PROVE List(t.lists[y][k])
  <2>1. List(taken[k]) /\ List(rest[k]) /\ List(s.lists[y][k])
    BY <1>0
  <2>2. t.lists[y][k] \in {taken[k], rest[k], s.lists[y][k]}
    BY <1>8
  <2> QED BY <2>1, <2>2
<1>10. ASSUME NEW n \in Notes, NEW k \in Kind, In(taken[k], n)
       PROVE  k = f[n] /\ s.notes[n].pool = Free /\ t.notes[n].pool = p /\ ~In(rest[k], n)
  BY <1>0, <1>1, <1>5, <1>10
<1>11. ASSUME NEW y \in Pools, NEW k \in Kind, NEW n \in Notes
       PROVE  In(t.lists[y][k], n) <=> y = t.notes[n].pool /\ k = f[n]
  <2>1. In(s.lists[y][k], n) <=> y = s.notes[n].pool /\ k = f[n]
    BY <1>0
  <2>2. In(s.lists[Free][k], n) <=> Free = s.notes[n].pool /\ k = f[n]
    BY <1>0, <1>1
  <2>3. s.notes[n].pool # p
    OBVIOUS
  <2>4. In(s.lists[Free][k], n) <=> In(rest[k], n) \/ In(taken[k], n)
    OBVIOUS
  <2>5. CASE \E x \in Kind : In(taken[x], n)
    <3>1. PICK x \in Kind : In(taken[x], n)
      BY <2>5
    <3>2. x = f[n] /\ s.notes[n].pool = Free /\ t.notes[n].pool = p /\ ~In(rest[x], n)
      BY <1>10, <3>1
    <3>3. CASE y = Free
      BY <1>8, <2>2, <2>4, <3>1, <3>2, <3>3
    <3>4. CASE y = p
      BY <1>8, <1>10, <3>1, <3>2, <3>4
    <3>5. CASE y # Free /\ y # p
      BY <1>8, <2>1, <3>2, <3>5
    <3> QED BY <3>3, <3>4, <3>5
  <2>6. CASE ~\E x \in Kind : In(taken[x], n)
    <3>1. t.notes[n].pool = s.notes[n].pool /\ ~In(taken[k], n)
      BY <1>5, <2>6
    <3>2. CASE y = Free
      BY <1>8, <2>2, <2>4, <3>1, <3>2
    <3>3. CASE y = p
      BY <1>8, <2>3, <3>1, <3>3
    <3>4. CASE y # Free /\ y # p
      BY <1>8, <2>1, <3>1, <3>4
    <3> QED BY <3>2, <3>3, <3>4
  <2> QED BY <2>5, <2>6
<1>12. FiledBy(t, f)
  BY <1>0, <1>4, <1>5, <1>7, <1>9, <1>11 DEF FiledBy
<1> QED BY <1>3, <1>5, <1>12 DEF t

\* How many notes are still wanted, list by list.
LEMMA LeftOver ==
  ASSUME NEW count \in Nat, NEW free, \A k \in Kind : Len(free[k]) \in Nat
  PROVE  LET left[i \in 1 .. 5] ==
               IF i = 1 THEN count
               ELSE LET short == left[i - 1] - Len(free[Kinds[i - 1]]) IN IF short > 0 THEN short ELSE 0
         IN  \A i \in 1 .. 4 : left[i] \in Nat
<1> DEFINE left[i \in 1 .. 5] ==
             IF i = 1 THEN count
             ELSE LET short == left[i - 1] - Len(free[Kinds[i - 1]]) IN IF short > 0 THEN short ELSE 0
           Less(x, k) == IF x - Len(free[k]) > 0 THEN x - Len(free[k]) ELSE 0
           a == Less(count, "disabled")
           b == Less(a, "decaying")
           c == Less(b, "releasing")
           d == Less(c, "active")
           g == [i \in 1 .. 5 |-> IF i = 1 THEN count ELSE IF i = 2 THEN a ELSE IF i = 3 THEN b
                                  ELSE IF i = 4 THEN c ELSE d]
           Short(h) == [i \in 1 .. 5 |-> IF i = 1 THEN count ELSE Less(h[i - 1], Kinds[i - 1])]
<1>1. /\ Kinds[1] = "disabled" /\ Kinds[2] = "decaying" /\ Kinds[3] = "releasing" /\ Kinds[4] = "active"
  BY DEF Kinds
<1>2. left = CHOOSE h : h = Short(h)
  OBVIOUS
<1>3. g = Short(g)
  <2>1. ASSUME NEW i \in 1 .. 5 PROVE g[i] = Short(g)[i]
    <3> HIDE DEF a, b, c, d, Less
    <3>1. g[1] = count /\ g[2] = a /\ g[3] = b /\ g[4] = c /\ g[5] = d
      OBVIOUS
    <3> HIDE DEF g
    <3>2. CASE i = 1
      BY <3>1, <3>2
    <3>3. CASE i = 2
      BY <1>1, <3>1, <3>3 DEF a
    <3>4. CASE i = 3
      BY <1>1, <3>1, <3>4 DEF b
    <3>5. CASE i = 4
      BY <1>1, <3>1, <3>5 DEF c
    <3>6. CASE i = 5
      BY <1>1, <3>1, <3>6 DEF d
    <3> QED BY <3>2, <3>3, <3>4, <3>5, <3>6
  <2> HIDE DEF a, b, c, d, Less
  <2> QED BY <2>1
<1>4. left = Short(left)
  <2> HIDE DEF left, Short, g
  <2> QED BY <1>2, <1>3
<1> HIDE DEF left
<1>5. left[1] = count /\ \A i \in 2 .. 4 : left[i] = Less(left[i - 1], Kinds[i - 1])
  <2> HIDE DEF Less
  <2> QED BY <1>4
<1>6. \A x \in Nat, k \in Kind : Less(x, k) \in Nat
  OBVIOUS
<1> HIDE DEF Less
<1>7. left[1] \in Nat /\ left[2] \in Nat /\ left[3] \in Nat /\ left[4] \in Nat
  <2>1. left[2] = Less(left[1], "disabled") /\ left[3] = Less(left[2], "decaying") /\ left[4] = Less(left[3], "releasing")
    BY <1>1, <1>5
  <2>2. "disabled" \in Kind /\ "decaying" \in Kind /\ "releasing" \in Kind
    BY DEF Kind
  <2> QED BY <1>5, <1>6, <2>1, <2>2
<1> QED BY <1>7 DEF left

\* Where notes are depends on no other field of theirs.
LEMMA SameFiled ==
  ASSUME NEW s, NEW f, FiledBy(s, f), NEW t, t.lists = s.lists, t.notes \in [Notes -> RecType],
         \A n \in Notes : t.notes[n].pool = s.notes[n].pool /\ t.notes[n].linked = s.notes[n].linked
  PROVE  FiledBy(t, f)
BY DEF FiledBy

\* NotePoolFill.
LEMMA FillFiled ==
  ASSUME NEW s, NEW f, FiledBy(s, f), Settled(f), NEW p \in Pools, p # Free, NEW count \in Nat
  PROVE  LET t == NotePoolFill(s, p, count)
         IN  /\ FiledBy(t, f) /\ t.layers = s.layers
             /\ \A n \in Notes : t.notes[n] \in {s.notes[n], [s.notes[n] EXCEPT !.pool = p],
                                                [s.notes[n] EXCEPT !.pool = Free]}
<1> DEFINE c == Clear(s, p)
           free == c.lists[Free]
           left[i \in 1 .. 5] ==
             IF i = 1 THEN count
             ELSE LET short == left[i - 1] - Len(free[Kinds[i - 1]]) IN IF short > 0 THEN short ELSE 0
           Kept(i) == IF left[i] < Len(free[Kinds[i]]) THEN Len(free[Kinds[i]]) - left[i] ELSE 0
           Index(k) == CHOOSE i \in 1 .. 4 : Kinds[i] = k
           Rest(k) == SubSeq(free[k], 1, Kept(Index(k)))
           Taken(k) == [j \in 1 .. Len(free[k]) - Kept(Index(k)) |-> free[k][Len(free[k]) + 1 - j]]
           taken == [k \in Kind |-> Taken(k)]
           rest == [k \in Kind |-> Rest(k)]
<1>1. /\ FiledBy(c, f) /\ c.layers = s.layers
      /\ c.notes = [n \in Notes |-> IF s.notes[n].pool = p
                                    THEN [s.notes[n] EXCEPT !.pool = Free] ELSE s.notes[n]]
  BY ClearFiled
<1>2. s.notes \in [Notes -> RecType] /\ Free \in Pools
  BY DEF FiledBy, Pools
<1>3. NotePoolFill(s, p, count) = Given(c, p, taken, rest)
  BY DEF NotePoolFill
<1> HIDE DEF c
<1>4. \A k \in Kind : List(free[k]) /\ Len(free[k]) \in Nat
  BY <1>1, <1>2, ListForm DEF FiledBy, List
<1>5. \A i \in 1 .. 4 : left[i] \in Nat
  <2> HIDE DEF free
  <2> QED BY <1>4, LeftOver
<1> HIDE DEF left, free
<1>6. \A k \in Kind : Index(k) \in 1 .. 4 /\ Kinds[Index(k)] = k
  <2>1. \A k \in Kind : \E i \in 1 .. 4 : Kinds[i] = k
    <3>1. Kinds[1] = "disabled" /\ Kinds[2] = "decaying" /\ Kinds[3] = "releasing" /\ Kinds[4] = "active"
      BY DEF Kinds
    <3> QED BY <3>1 DEF Kind
  <2> QED BY <2>1
<1> HIDE DEF Index
<1>7. ASSUME NEW k \in Kind PROVE Kept(Index(k)) \in 0 .. Len(free[k])
  <2>1. left[Index(k)] \in Nat /\ Len(free[k]) \in Nat /\ Kinds[Index(k)] = k
    BY <1>4, <1>5, <1>6
  <2> QED BY <2>1
<1> HIDE DEF Kept
<1>8. ASSUME NEW k \in Kind
      PROVE  /\ List(taken[k]) /\ List(rest[k])
             /\ \A x : In(free[k], x) <=> In(rest[k], x) \/ In(taken[k], x)
             /\ \A x : ~(In(rest[k], x) /\ In(taken[k], x))
  <2>1. taken[k] = Taken(k) /\ rest[k] = Rest(k)
    OBVIOUS
  <2>2. List(free[k]) /\ Kept(Index(k)) \in 0 .. Len(free[k])
    BY <1>4, <1>7
  <2> QED BY <2>1, <2>2, CutList
<1>9. taken = [k \in Kind |-> taken[k]] /\ rest = [k \in Kind |-> rest[k]]
  <2> HIDE DEF Taken, Rest
  <2> QED OBVIOUS
<1>10. \A n \in Notes : c.notes[n].pool # p
  <2>1. ASSUME NEW r \in RecType PROVE [r EXCEPT !.pool = Free].pool = Free
    BY DEF RecType
  <2> QED BY <1>1, <1>2, <2>1
<1> HIDE DEF taken, rest
<1> DEFINE t == Given(c, p, taken, rest)
<1>11. /\ FiledBy(t, f) /\ t.layers = c.layers
       /\ \A n \in Notes : t.notes[n] \in {c.notes[n], [c.notes[n] EXCEPT !.pool = p]}
  <2>1. \A k \in Kind : /\ List(taken[k]) /\ List(rest[k])
                        /\ \A x : In(c.lists[Free][k], x) <=> In(rest[k], x) \/ In(taken[k], x)
                        /\ \A x : ~(In(rest[k], x) /\ In(taken[k], x))
    BY <1>8 DEF free
  <2> QED BY <1>1, <1>9, <1>10, <2>1, GivenFiled
<1> HIDE DEF t
<1>12. ASSUME NEW n \in Notes
       PROVE  t.notes[n] \in {s.notes[n], [s.notes[n] EXCEPT !.pool = p], [s.notes[n] EXCEPT !.pool = Free]}
  <2>1. \A r \in RecType : [[r EXCEPT !.pool = Free] EXCEPT !.pool = p] = [r EXCEPT !.pool = p]
    BY DEF RecType
  <2>2. c.notes[n] \in {s.notes[n], [s.notes[n] EXCEPT !.pool = Free]} /\ s.notes[n] \in RecType
    BY <1>1, <1>2
  <2> QED BY <1>11, <2>1, <2>2
<1> QED BY <1>1, <1>3, <1>11, <1>12 DEF t

\* A set of numbers that is not empty has a least one.
LEMMA LeastOf ==
  ASSUME NEW X \in SUBSET Nat, X # {}
  PROVE  \E a \in X : \A b \in X : a <= b
<1> DEFINE Below == {1 .. a : a \in X}
<1>1. IsWellFoundedOn(StrictSubsetOrdering(Nat), FiniteSubsetsOf(Nat))
  BY FS_StrictSubsetOrderingWellFounded
<1>2. Below \subseteq FiniteSubsetsOf(Nat)
  BY FS_Interval DEF FiniteSubsetsOf
<1>3. Below # {}
  OBVIOUS
<1>4. PICK T \in Below : \A U \in Below : ~(<<U, T>> \in StrictSubsetOrdering(Nat))
  <2> HIDE DEF Below
  <2> QED BY <1>1, <1>2, <1>3, WFMin
<1>5. PICK a \in X : T = 1 .. a
  OBVIOUS
<1>6. ASSUME NEW b \in X, b < a PROVE FALSE
  <2>1. 1 .. b \in Below
    OBVIOUS
  <2>2. 1 .. b \subseteq 1 .. a /\ a \in 1 .. a /\ a \notin 1 .. b
    BY <1>6
  <2>3. <<1 .. b, T>> \in StrictSubsetOrdering(Nat)
    BY <1>5, <2>2 DEF StrictSubsetOrdering
  <2> QED BY <1>4, <2>1, <2>3
<1> QED BY <1>6

\* A set of places in a list that is not empty has a last one.
LEMMA LastOf ==
  ASSUME NEW m \in Nat, NEW X \in SUBSET (1 .. m), X # {}
  PROVE  \E a \in X : \A b \in X : b <= a
<1> DEFINE Y == {m - x : x \in X}
<1>1. Y \in SUBSET Nat /\ Y # {}
  <2>1. \A x \in X : m - x \in Nat
    OBVIOUS
  <2> QED BY <2>1
<1>2. PICK y \in Y : \A z \in Y : y <= z
  <2> HIDE DEF Y
  <2> QED BY <1>1, LeastOf
<1>3. PICK a \in X : y = m - a
  OBVIOUS
<1>4. \A b \in X : b <= a
  <2> SUFFICES ASSUME NEW b \in X PROVE b <= a
    OBVIOUS
  <2>1. m - b \in Y
    OBVIOUS
  <2>2. m - a <= m - b
    BY <1>2, <1>3, <2>1
  <2> QED BY <2>2
<1> QED BY <1>4

\* The lists of a pool without notes are set up again.
LEMMA SetupFiled ==
  ASSUME NEW s, NEW f, FiledBy(s, f), NEW c \in Pools, \A n \in Notes : s.notes[n].pool # c,
         NEW t, t.notes = s.notes, t.lists = [s.lists EXCEPT ![c] = [k \in Kind |-> <<>>]]
  PROVE  FiledBy(t, f)
<1>1. [k \in Kind |-> <<>>] \in [Kind -> Seq(Notes)]
  OBVIOUS
<1>2. List(<< >>) /\ \A x : ~In(<< >>, x)
  BY DEF List, In
<1>3. s.lists \in [Pools -> [Kind -> Seq(Notes)]] /\ s.notes \in [Notes -> RecType] /\ f \in Filings
  BY DEF FiledBy
<1>4. t.lists \in [Pools -> [Kind -> Seq(Notes)]]
  <2> DEFINE e == [k \in Kind |-> << >>]
  <2> HIDE DEF e
  <2>1. e \in [Kind -> Seq(Notes)] /\ t.lists = [s.lists EXCEPT ![c] = e]
    BY <1>1 DEF e
  <2> QED BY <1>3, <2>1
<1>5. \A y \in Pools, k \in Kind : t.lists[y][k] = IF y = c THEN << >> ELSE s.lists[y][k]
  BY <1>3
<1>6. ASSUME NEW y \in Pools, NEW k \in Kind
      PROVE  /\ List(t.lists[y][k])
             /\ \A n \in Notes : In(t.lists[y][k], n) <=> y = t.notes[n].pool /\ k = f[n]
  <2>1. List(s.lists[y][k]) /\ \A n \in Notes : In(s.lists[y][k], n) <=> y = s.notes[n].pool /\ k = f[n]
    BY DEF FiledBy
  <2>2. CASE y = c
    BY <1>2, <1>5, <2>2
  <2>3. CASE y # c
    BY <1>5, <2>1, <2>3
  <2> QED BY <2>2, <2>3
<1> QED BY <1>3, <1>4, <1>6 DEF FiledBy

\* What AudioHeap_DiscardFont makes of a note.
Discarded(r) == [r EXCEPT !.parent = None, !.prevParent = None, !.priority = 0, !.unk_04 = FALSE,
                          !.finished = FALSE, !.adsr = "off", !.pool = Free, !.linked = TRUE]

\* What it leaves in it: the claim, and nothing else of a layer.
LEMMA DiscardedField ==
  ASSUME NEW r \in RecType
  PROVE  /\ Discarded(r) \in RecType
         /\ Discarded(r).pool = Free /\ Discarded(r).linked = TRUE /\ Discarded(r).parent = None
         /\ Discarded(r).priority = 0 /\ Discarded(r).unk_04 = FALSE /\ Discarded(r).adsr = "off"
         /\ Discarded(r).wanted = r.wanted
<1>1. None \in Layers \cup {None} /\ 0 \in 0 .. 16 /\ Free \in Pools
  BY DEF Pools
<1>2. Discarded(r) \in RecType
  BY <1>1 DEF Discarded, RecType
<1> QED BY <1>2 DEF Discarded, RecType

\* Its loop over the notes.
Silenced(gone, qs) ==
  LET silenced[i \in 0 .. NumNotes] ==
        IF i = 0 THEN qs
        ELSE IF i \notin gone THEN silenced[i - 1]
        ELSE [Unlinked(silenced[i - 1], i) EXCEPT ![Free]["disabled"] = Append(@, i)]
  IN  silenced[NumNotes]

\* Each note that goes is taken from its list and put behind the disabled ones of the free
\* lists.
LEMMA DiscardFiled ==
  ASSUME NEW s, NEW f, FiledBy(s, f), NEW gone,
         NEW last, last.lists = Silenced(gone, s.lists),
         last.notes = [n \in Notes |-> IF n \in gone THEN Discarded(s.notes[n]) ELSE s.notes[n]],
         NEW kinds, kinds = [n \in Notes |-> IF n \in gone THEN "disabled" ELSE f[n]]
  PROVE  FiledBy(last, kinds)
<1>00. PICK qs : qs = s.lists
  OBVIOUS
<1> DEFINE silenced[i \in 0 .. NumNotes] ==
             IF i = 0 THEN qs
             ELSE IF i \notin gone THEN silenced[i - 1]
             ELSE [Unlinked(silenced[i - 1], i) EXCEPT ![Free]["disabled"] = Append(@, i)]
           Next1(ls, i) == IF i \notin gone THEN ls
                           ELSE [Unlinked(ls, i) EXCEPT ![Free]["disabled"] = Append(@, i)]
           Loop(h, m) == [i \in 0 .. m |-> IF i = 0 THEN qs ELSE Next1(h[i - 1], i)]
           Bad == {m \in 0 .. NumNotes : ~ \E h : h = Loop(h, m)}
           N(i) == [n \in Notes |-> IF n \in gone /\ n <= i THEN Discarded(s.notes[n]) ELSE s.notes[n]]
           F(i) == [n \in Notes |-> IF n \in gone /\ n <= i THEN "disabled" ELSE f[n]]
<1>0. NumNotes \in Nat \ {0}
  BY NoteAssumptions
<1>1. silenced = CHOOSE h : h = Loop(h, NumNotes)
  OBVIOUS
<1>2. Bad = {}
  <2> SUFFICES ASSUME Bad # {} PROVE FALSE
    OBVIOUS
  <2>1. Bad \in SUBSET Nat
    OBVIOUS
  <2>2. PICK m \in Bad : \A b \in Bad : m <= b
    <3> HIDE DEF Bad
    <3> QED BY <2>1, LeastOf
  <2>3. m \in 0 .. NumNotes /\ ~ \E h : h = Loop(h, m)
    OBVIOUS
  <2>4. m # 0
    <3>1. [i \in 0 .. 0 |-> qs] = Loop([i \in 0 .. 0 |-> qs], 0)
      <4> HIDE DEF Next1
      <4> QED OBVIOUS
    <3> HIDE DEF Loop
    <3> QED BY <2>3, <3>1
  <2>5. m - 1 \in 0 .. NumNotes /\ m - 1 \notin Bad
    <3> HIDE DEF Bad
    <3> QED BY <1>0, <2>2, <2>3, <2>4
  <2>6. PICK h : h = Loop(h, m - 1)
    <3> HIDE DEF Loop
    <3> QED BY <2>5
  <2> DEFINE x == Next1(h[m - 1], m)
             g == [i \in 0 .. m |-> IF i = m THEN x ELSE h[i]]
  <2>7. g = Loop(g, m)
    <3>1. x = Next1(h[m - 1], m)
      OBVIOUS
    <3> HIDE DEF Next1, x
    <3>2. ASSUME NEW i \in 0 .. m PROVE g[i] = Loop(g, m)[i]
      <4>1. CASE i = 0
        <5>1. h[0] = qs
          BY <2>3, <2>4, <2>6
        <5> QED BY <2>3, <2>4, <4>1, <5>1
      <4>2. CASE i = m
        <5>1. g[m - 1] = h[m - 1] /\ g[m] = x
          BY <2>3, <2>4
        <5>2. Loop(g, m)[m] = Next1(g[m - 1], m)
          BY <2>3, <2>4
        <5> QED BY <3>1, <4>2, <5>1, <5>2
      <4>3. CASE i # 0 /\ i # m
        <5>1. i \in 0 .. m - 1 /\ i - 1 \in 0 .. m /\ i - 1 # m
          BY <2>3, <4>3
        <5>2. h[i] = Next1(h[i - 1], i)
          BY <2>6, <4>3, <5>1
        <5>3. g[i] = h[i] /\ g[i - 1] = h[i - 1]
          BY <4>3, <5>1
        <5>4. Loop(g, m)[i] = Next1(g[i - 1], i)
          BY <4>3
        <5> QED BY <5>2, <5>3, <5>4
      <4> QED BY <4>1, <4>2, <4>3
    <3> HIDE DEF x
    <3>3. DOMAIN g = 0 .. m /\ DOMAIN Loop(g, m) = 0 .. m /\ g = [i \in 0 .. m |-> g[i]]
          /\ Loop(g, m) = [i \in 0 .. m |-> Loop(g, m)[i]]
      OBVIOUS
    <3> HIDE DEF g, Loop
    <3> QED BY <3>2, <3>3
  <2> HIDE DEF g, Loop
  <2> QED BY <2>3, <2>7
<1>3. silenced = Loop(silenced, NumNotes)
  <2>1. NumNotes \in 0 .. NumNotes
    BY <1>0
  <2>2. \E h : h = Loop(h, NumNotes)
    <3> HIDE DEF Loop
    <3> QED BY <1>2, <2>1
  <2> HIDE DEF silenced, Loop
  <2> QED BY <1>1, <2>2
<1> HIDE DEF silenced
<1>4. silenced[0] = qs /\ \A i \in Notes : silenced[i] = Next1(silenced[i - 1], i)
  <2> HIDE DEF Next1
  <2> QED BY <1>0, <1>3 DEF Notes
<1> DEFINE T(i) == State(N(i), s.layers, silenced[i])
           Wrong == {i \in 0 .. NumNotes : ~FiledBy(T(i), F(i))}
<1>5. s.notes \in [Notes -> RecType] /\ f \in Filings /\ "disabled" \in Kind /\ Free \in Pools
  BY DEF FiledBy, Kind, Pools
<1>6. \A i : N(i) \in [Notes -> RecType] /\ F(i) \in Filings
  BY <1>5, DiscardedField DEF Filings
<1>7. FiledBy(T(0), F(0))
  <2>1. \A n \in Notes : ~(n <= 0)
    BY DEF Notes
  <2>2. N(0) = s.notes /\ F(0) = f
    BY <1>5, <2>1 DEF Filings
  <2>3. T(0).lists = s.lists /\ T(0).notes = s.notes
    BY <1>00, <1>4, <2>2 DEF State
  <2> HIDE DEF T, F
  <2> QED BY <1>5, <2>2, <2>3, SameFiled
<1>8. ASSUME NEW i \in Notes, FiledBy(T(i - 1), F(i - 1)) PROVE FiledBy(T(i), F(i))
  <2>0. i \in Nat /\ \A n \in Notes : /\ n <= i <=> n <= i - 1 \/ n = i
                                      /\ ~(i <= i - 1)
    BY DEF Notes
  <2>1. CASE i \notin gone
    <3>1. N(i) = N(i - 1) /\ F(i) = F(i - 1)
      BY <2>0, <2>1
    <3>2. silenced[i] = silenced[i - 1]
      BY <1>4, <2>1
    <3> QED BY <1>8, <3>1, <3>2
  <2>2. CASE i \in gone
    <3> DEFINE t == T(i - 1)
               u == Moved(t, Free, "disabled", i)
               q == [t.notes[i] EXCEPT !.pool = Free, !.linked = TRUE]
    <3>1. Put(t, u, F(i - 1), i, q, "disabled")
      <4> HIDE DEF T, F
      <4> QED BY <1>5, <1>8, MovedPut
    <3>2. t.notes = N(i - 1) /\ t.lists = silenced[i - 1]
      BY DEF State
    <3>3. u.lists = silenced[i]
      <4>1. AudioListRemove(t, i).notes[i].linked = FALSE
        <5>1. t.notes \in [Notes -> RecType]
          BY <1>6, <3>2
        <5>2. AudioListRemove(t, i).notes = [t.notes EXCEPT ![i].linked = FALSE]
          BY DEF AudioListRemove, State
        <5> HIDE DEF T
        <5> QED BY <5>1, <5>2 DEF RecType
      <4>2. AudioListRemove(t, i).lists = Unlinked(silenced[i - 1], i)
        BY <3>2 DEF AudioListRemove, State
      <4>3. u.lists = [Unlinked(silenced[i - 1], i) EXCEPT ![Free]["disabled"] = Append(@, i)]
        <5> HIDE DEF T
        <5> QED BY <4>1, <4>2 DEF Moved, AudioListPushBack, State
      <4> QED BY <1>4, <2>2, <4>3
    <3>4. T(i).lists = silenced[i] /\ T(i).notes = N(i)
      BY DEF State
    <3> HIDE DEF T, u
    <3>5. FiledBy(u, [F(i - 1) EXCEPT ![i] = "disabled"]) /\ u.notes = [t.notes EXCEPT ![i] = q]
      BY <3>1 DEF Put
    <3>6. [F(i - 1) EXCEPT ![i] = "disabled"] = F(i)
      <4>1. \A n \in Notes : [F(i - 1) EXCEPT ![i] = "disabled"][n] = F(i)[n]
        BY <2>0, <2>2
      <4>2. F(i - 1) \in Filings /\ F(i) \in Filings /\ [F(i - 1) EXCEPT ![i] = "disabled"] \in Filings
        BY <1>5, <1>6 DEF Filings
      <4> HIDE DEF F
      <4> QED BY <4>1, <4>2 DEF Filings
    <3>7. \A n \in Notes : N(i)[n].pool = u.notes[n].pool /\ N(i)[n].linked = u.notes[n].linked
      <4> SUFFICES ASSUME NEW n \in Notes
                   PROVE  N(i)[n].pool = u.notes[n].pool /\ N(i)[n].linked = u.notes[n].linked
        OBVIOUS
      <4>1. CASE n = i
        <5>1. N(i)[n] = Discarded(s.notes[i])
          BY <2>0, <2>2, <4>1
        <5>2. t.notes \in [Notes -> RecType] /\ t.notes[i] \in RecType
          <6> HIDE DEF N
          <6> QED BY <1>6, <3>2
        <5>3. u.notes[n] = q
          BY <3>5, <4>1, <5>2
        <5>4. q.pool = Free /\ q.linked = TRUE
          BY <1>5, <5>2, LinkFields
        <5>5. s.notes[i] \in RecType
          BY <1>5
        <5> HIDE DEF q, N
        <5> QED BY <5>1, <5>3, <5>4, <5>5, DiscardedField
      <4>2. CASE n # i
        <5>1. N(i)[n] = N(i - 1)[n]
          BY <2>0, <4>2
        <5>2. u.notes[n] = t.notes[n]
          BY <3>5, <4>2
        <5> QED BY <3>2, <5>1, <5>2
      <4> QED BY <4>1, <4>2
    <3> HIDE DEF N, F
    <3>8. FiledBy(u, F(i))
      BY <3>5, <3>6
    <3> QED BY <1>6, <3>3, <3>4, <3>7, <3>8, SameFiled
  <2> QED BY <2>1, <2>2
<1> HIDE DEF T, F
<1>9. Wrong = {}
  <2> SUFFICES ASSUME Wrong # {} PROVE FALSE
    OBVIOUS
  <2>1. Wrong \in SUBSET Nat
    OBVIOUS
  <2>2. PICK i \in Wrong : \A b \in Wrong : i <= b
    <3> HIDE DEF Wrong
    <3> QED BY <2>1, LeastOf
  <2>3. i \in 0 .. NumNotes /\ ~FiledBy(T(i), F(i)) /\ i # 0
    BY <1>7
  <2>4. i \in Notes /\ i - 1 \in 0 .. NumNotes
    BY <1>0, <2>3 DEF Notes
  <2>5. i - 1 \notin Wrong
    <3> HIDE DEF Wrong
    <3> QED BY <2>1, <2>2, <2>4 DEF Notes
  <2> QED BY <1>8, <2>3, <2>4, <2>5
<1>10. FiledBy(T(NumNotes), F(NumNotes))
  BY <1>0, <1>9
<1>11. \A n \in Notes : n <= NumNotes
  BY DEF Notes
<1>12. /\ N(NumNotes) = [n \in Notes |-> IF n \in gone THEN Discarded(s.notes[n]) ELSE s.notes[n]]
       /\ F(NumNotes) = [n \in Notes |-> IF n \in gone THEN "disabled" ELSE f[n]]
  BY <1>11 DEF F
<1>13. last.lists = silenced[NumNotes]
  BY <1>00 DEF Silenced, silenced
<1>14. T(NumNotes).lists = last.lists /\ T(NumNotes).notes = last.notes /\ F(NumNotes) = kinds
  <2> HIDE DEF N, silenced
  <2> QED BY <1>12, <1>13 DEF T, State
<1> HIDE DEF N
<1> QED BY ONLY <1>10, <1>14 DEF FiledBy
-----------------------------------------------------------------------------
(* The state of a note and the list it is in.                              *)

\* r is the record of a note in a list of kind k; o: its claim outlived the note.
Fits(r, k, o) ==
  /\ k \in Kind
  /\ k = "active" <=> r.parent # None
  /\ k = "active" => r.adsr # "fading" /\ ~r.unk_04 /\ r.parent # r.wanted
  /\ k = "disabled" => r.priority = 0 /\ ~r.unk_04 /\ r.adsr = "off"
  /\ k \in {"decaying", "releasing"} =>
       r.unk_04 /\ r.adsr # "on" /\ (r.priority > 0 \/ 0 \in Priorities)
  /\ r.prevParent # None => k \in {"decaying", "releasing"}
  /\ r.wanted # None /\ ~o => k = "releasing" /\ r.adsr # "on"

\* Every note is in the list for its state; O are the notes whose claim outlived them.
Sorted(s, f, O) ==
  /\ FiledBy(s, f)
  /\ s.layers \in [Layers -> LayerRec]
  /\ \A n \in Notes : Fits(s.notes[n], f[n], n \in O)

\* A step that leaves it so, and every note in its pool.
StillOf(s, t, O) == {n \in O : t.notes[n].wanted = s.notes[n].wanted}
Sorts(s, t, O) ==
  /\ \E g : Sorted(t, g, StillOf(s, t, O))
  /\ \A n \in Notes : t.notes[n].pool = s.notes[n].pool

\* A sorted note is in some list.
LEMMA SortedSettled == ASSUME NEW s, NEW f, NEW O, Sorted(s, f, O) PROVE FiledBy(s, f) /\ Settled(f)
BY DEF Sorted, Settled, Fits

\* One note changes.
LEMMA PutSorts ==
  ASSUME NEW s, NEW f, NEW O, Sorted(s, f, O), NEW n \in Notes, NEW t, NEW r, NEW k, Put(s, t, f, n, r, k),
         t.layers \in [Layers -> LayerRec], r.pool = s.notes[n].pool,
         Fits(r, k, n \in O /\ r.wanted = s.notes[n].wanted)
  PROVE  Sorts(s, t, O)
<1> DEFINE g == [f EXCEPT ![n] = k]
           Q == StillOf(s, t, O)
<1>1. FiledBy(s, f) /\ f \in Filings
  BY DEF Sorted, FiledBy
<1>2. /\ FiledBy(t, g) /\ g[n] = k /\ t.notes[n] = r
      /\ \A m \in Notes : m # n => t.notes[m] = s.notes[m]
  BY <1>1, PutGives
<1>3. \A m \in Notes : m # n => g[m] = f[m]
  BY <1>1 DEF Filings
<1> HIDE DEF g
<1>4. ASSUME NEW m \in Notes PROVE Fits(t.notes[m], g[m], m \in Q)
  <2>1. CASE m = n
    <3>1. (m \in Q) = (n \in O /\ r.wanted = s.notes[n].wanted)
      BY <1>2, <2>1 DEF StillOf
    <3> QED BY <1>2, <2>1, <3>1
  <2>2. CASE m # n
    <3>1. (m \in Q) = (m \in O)
      BY <1>2, <2>2 DEF StillOf
    <3>2. Fits(s.notes[m], f[m], m \in O)
      BY DEF Sorted
    <3> QED BY <1>2, <1>3, <2>2, <3>1, <3>2
  <2> QED BY <2>1, <2>2
<1>5. Sorted(t, g, Q)
  BY <1>2, <1>4 DEF Sorted
<1>6. \A m \in Notes : t.notes[m].pool = s.notes[m].pool
  BY <1>2
<1> QED BY <1>5, <1>6 DEF Sorts

\* A step may do nothing.
LEMMA SortsSelf == ASSUME NEW s, NEW f, NEW O, Sorted(s, f, O) PROVE Sorts(s, s, O)
<1>1. \A n \in Notes : (n \in StillOf(s, s, O)) = (n \in O)
  BY DEF StillOf
<1>2. \A n \in Notes : Fits(s.notes[n], f[n], n \in StillOf(s, s, O))
  <2> SUFFICES ASSUME NEW n \in Notes PROVE Fits(s.notes[n], f[n], n \in StillOf(s, s, O))
    OBVIOUS
  <2>1. Fits(s.notes[n], f[n], n \in O)
    BY DEF Sorted
  <2> QED BY <1>1, <2>1
<1> QED BY <1>2 DEF Sorts, Sorted

\* More claims may have outlived their notes.
LEMMA FitsMore ==
  ASSUME NEW r, NEW k, NEW o \in BOOLEAN, NEW p \in BOOLEAN, Fits(r, k, o), o => p PROVE Fits(r, k, p)
BY DEF Fits

\* One step after another.
LEMMA SortsTwice ==
  ASSUME NEW s, NEW t, NEW u, NEW O, Sorts(s, t, O), Sorts(t, u, StillOf(s, t, O)) PROVE Sorts(s, u, O)
<1> DEFINE P == StillOf(s, t, O)
           Q == StillOf(t, u, P)
<1>1. PICK g : Sorted(u, g, Q)
  BY DEF Sorts
<1>2. ASSUME NEW n \in Notes PROVE Fits(u.notes[n], g[n], n \in StillOf(s, u, O))
  <2>1. Fits(u.notes[n], g[n], n \in Q)
    BY <1>1 DEF Sorted
  <2>2. n \in Q => n \in StillOf(s, u, O)
    BY DEF StillOf
  <2>3. (n \in Q) \in BOOLEAN /\ (n \in StillOf(s, u, O)) \in BOOLEAN
    BY DEF StillOf
  <2> HIDE DEF Q
  <2> QED BY <2>1, <2>2, <2>3, FitsMore
<1>3. Sorted(u, g, StillOf(s, u, O))
  BY <1>1, <1>2 DEF Sorted
<1>4. \A n \in Notes : u.notes[n].pool = s.notes[n].pool
  BY DEF Sorts
<1> QED BY <1>3, <1>4 DEF Sorts

\* A note with another record where it is, or at the end or the front of another list of
\* its pool.
LEMMA NoteMoved ==
  ASSUME NEW s, NEW f, FiledBy(s, f), NEW n \in Notes, f[n] \in Kind, NEW r \in RecType,
         r.pool = s.notes[n].pool, r.linked = s.notes[n].linked, NEW k \in Kind,
         NEW v, v.notes = [s.notes EXCEPT ![n] = r], v.lists = s.lists
  PROVE  /\ Put(s, v, f, n, r, f[n])
         /\ Put(s, Moved(v, r.pool, k, n), f, n, r, k)
         /\ Put(s, AudioListPushFront(AudioListRemove(v, n), r.pool, k, n), f, n, r, k)
<1>1. PICK j : j = f[n]
  OBVIOUS
<1> DEFINE g == [f EXCEPT ![n] = j]
<1>2. Put(s, v, f, n, r, j)
  BY <1>1, NotePut
<1>3. FiledBy(v, g) /\ v.notes[n] = r
  <2>1. /\ FiledBy(v, [f EXCEPT ![n] = j]) /\ [f EXCEPT ![n] = j][n] = j
        /\ v.notes[n] = r /\ r \in RecType /\ r.linked = (j # "none") /\ j \in Kind \cup {"none"}
        /\ \A m \in Notes : m # n => v.notes[m] = s.notes[m]
    BY ONLY FiledBy(s, f), n \in Notes, <1>2, PutGives
  <2> QED BY <2>1
<1>4. r.linked = TRUE /\ r.pool \in Pools
  <2>1. s.notes[n].linked = (f[n] # "none") /\ "none" \notin Kind
    BY DEF FiledBy, Kind
  <2> QED BY <2>1 DEF RecType
<1>5. [v.notes[n] EXCEPT !.pool = r.pool, !.linked = TRUE] = r
  BY <1>3, <1>4 DEF RecType
<1> HIDE DEF g
<1>6. Put(v, Moved(v, r.pool, k, n), g, n, r, k)
      /\ Put(v, AudioListPushFront(AudioListRemove(v, n), r.pool, k, n), g, n, r, k)
  <2>1. r.pool \in Pools /\ k \in Kind /\ n \in Notes
    BY <1>4
  <2>2. LET q == [v.notes[n] EXCEPT !.pool = r.pool, !.linked = TRUE]
        IN  Put(v, Moved(v, r.pool, k, n), g, n, q, k)
            /\ Put(v, AudioListPushFront(AudioListRemove(v, n), r.pool, k, n), g, n, q, k)
    BY ONLY <1>3, <2>1, MovedPut
  <2> QED BY ONLY <1>5, <2>2
<1>7. Put(s, Moved(v, r.pool, k, n), f, n, r, k)
      /\ Put(s, AudioListPushFront(AudioListRemove(v, n), r.pool, k, n), f, n, r, k)
  BY <1>2, <1>6, PutTwice DEF g
<1> QED BY <1>1, <1>2, <1>7
-----------------------------------------------------------------------------
(* What the operations make of a note.                                     *)

\* Audio_SeqLayerDecayRelease on a note its layer owns.
Released(r, l, hushed) ==
  [[r EXCEPT !.wanted = IF @ = l THEN None ELSE @]
     EXCEPT !.finished = @ \/ hushed, !.priority = 1, !.prevParent = l,
            !.parent = None, !.adsr = Asked(@), !.unk_04 = TRUE]

\* A fade that is asked for never leaves a note on.
LEMMA AskedType == ASSUME NEW x PROVE Asked(x) \in {"fading", "off"} /\ (x = "off" => Asked(x) = "off")
BY DEF Asked

\* What is left of it.
Fades(r, q, l) ==
  /\ q \in RecType /\ q.pool = r.pool /\ q.linked = r.linked
  /\ q.parent = None /\ q.prevParent = l /\ q.priority = 1 /\ q.unk_04 = TRUE
  /\ q.adsr \in {"fading", "off"}
  /\ q.wanted = r.wanted \/ (r.wanted = l /\ q.wanted = None)

\* A note that is released belongs to nobody and fades.
LEMMA ReleasedField ==
  ASSUME NEW r \in RecType, NEW l \in Layers, NEW hushed \in BOOLEAN, NEW q, q = Released(r, l, hushed)
  PROVE  Fades(r, q, l)
<1>1. PICK w : w = IF r.wanted = l THEN None ELSE r.wanted
  OBVIOUS
<1>2. PICK v : v = [r EXCEPT !.wanted = w]
  OBVIOUS
<1>3. w \in Layers \cup {None}
  BY <1>1 DEF RecType
<1>4. v \in RecType /\ v.pool = r.pool /\ v.linked = r.linked /\ v.wanted = w
  BY <1>2, <1>3 DEF RecType
<1>5. PICK a : a = Asked(v.adsr)
  OBVIOUS
<1>6. PICK h : h = (v.finished \/ hushed)
  OBVIOUS
<1>7. a \in {"fading", "off"} /\ h \in BOOLEAN
  BY <1>4, <1>5, <1>6, AskedType DEF RecType
<1>8. q = [v EXCEPT !.finished = h, !.priority = 1, !.prevParent = l,
                    !.parent = None, !.adsr = a, !.unk_04 = TRUE]
  BY <1>1, <1>2, <1>5, <1>6 DEF Released
<1>9. q \in RecType
  <2>1. None \in Layers \cup {None} /\ l \in Layers \cup {None} /\ 1 \in 0 .. 16 /\ TRUE \in BOOLEAN
        /\ a \in {"on", "fading", "off"} /\ h \in BOOLEAN
    BY <1>7
  <2> QED BY ONLY <1>4, <1>8, <2>1 DEF RecType
<1>10. /\ q.pool = v.pool /\ q.linked = v.linked /\ q.wanted = v.wanted
       /\ q.parent = None /\ q.prevParent = l /\ q.priority = 1 /\ q.unk_04 = TRUE /\ q.adsr = a
  BY <1>4, <1>8 DEF RecType
<1> QED BY <1>1, <1>4, <1>7, <1>9, <1>10 DEF Fades

\* Only a note in an active list has an owner, and it is not fading.
LEMMA OwnerActive ==
  ASSUME NEW s, NEW f, NEW O, Sorted(s, f, O), NEW n \in Notes
  PROVE  /\ s.notes[n] \in RecType /\ f[n] \in Kind /\ Fits(s.notes[n], f[n], n \in O)
         /\ f[n] = "active" <=> s.notes[n].parent # None
         /\ s.notes[n].linked = TRUE
<1>1. FiledBy(s, f) /\ Fits(s.notes[n], f[n], n \in O)
  BY DEF Sorted
<1>2. s.notes[n] \in RecType /\ s.notes[n].linked = (f[n] # "none")
  BY <1>1 DEF FiledBy
<1> QED BY <1>1, <1>2 DEF Fits, Kind

\* What a layer that lets go makes of a note: it gives up its claim, and a note it owns
\* remembers it.
LetGo(r, q, l) ==
  /\ q.wanted = r.wanted \/ (q.wanted = None /\ r.wanted = l)
  /\ \/ q.parent = r.parent /\ q.priority = r.priority /\ q.prevParent = r.prevParent
     \/ q.parent = None /\ r.parent = l /\ q.prevParent = l
LetsGo(s, t, l) == \A m \in Notes : LetGo(s.notes[m], t.notes[m], l)

\* One note is let go.
LEMMA PutLetsGo ==
  ASSUME NEW s, NEW f, FiledBy(s, f), NEW n \in Notes, NEW t, NEW r, NEW k, Put(s, t, f, n, r, k),
         NEW l, LetGo(s.notes[n], r, l)
  PROVE  LetsGo(s, t, l)
<1>1. /\ FiledBy(t, [f EXCEPT ![n] = k]) /\ [f EXCEPT ![n] = k][n] = k
      /\ t.notes[n] = r /\ r \in RecType /\ r.linked = (k # "none") /\ k \in Kind \cup {"none"}
      /\ \A m \in Notes : m # n => t.notes[m] = s.notes[m]
  BY ONLY FiledBy(s, f), n \in Notes, Put(s, t, f, n, r, k), PutGives
<1> QED BY <1>1 DEF LetsGo, LetGo

\* Audio_SeqLayerNoteDecay: the note goes to the decaying list of its pool.
LEMMA DecaySorts ==
  ASSUME NEW s, NEW f, NEW O, Sorted(s, f, O), NEW l \in Layers, NEW hushed \in BOOLEAN
  PROVE  LET t == SeqLayerDecayRelease(s, l, "decay", hushed)
         IN  Sorts(s, t, O) /\ t.layers = s.layers /\ LetsGo(s, t, l)
<1>1. PICK t : t = SeqLayerDecayRelease(s, l, "decay", hushed)
  OBVIOUS
<1>2. PICK n : n = s.layers[l].note
  OBVIOUS
<1>3. None \notin Layers /\ None \notin Notes
  BY NoteAssumptions
<1>4. FiledBy(s, f)
  BY DEF Sorted
<1>5. n \in Notes \cup {None} /\ s.layers \in [Layers -> LayerRec]
  BY <1>2 DEF Sorted, LayerRec
<1>6. CASE n = None
  <2>1. t = s
    BY <1>1, <1>2, <1>6 DEF SeqLayerDecayRelease
  <2>2. LetsGo(s, s, l)
    BY DEF LetsGo, LetGo
  <2> QED BY <1>1, <2>1, <2>2, SortsSelf
<1>7. ASSUME n \in Notes, s.notes[n].parent # l
      PROVE  Sorts(s, t, O) /\ t.layers = s.layers /\ LetsGo(s, t, l)
  <2>1. PICK x : x = s.notes[n]
    OBVIOUS
  <2>2. PICK w : w = IF x.wanted = l THEN None ELSE x.wanted
    OBVIOUS
  <2>3. PICK r : r = [x EXCEPT !.wanted = w]
    OBVIOUS
  <2>4. x \in RecType /\ f[n] \in Kind /\ Fits(x, f[n], n \in O)
    <3>1. /\ s.notes[n] \in RecType /\ f[n] \in Kind /\ Fits(s.notes[n], f[n], n \in O)
          /\ f[n] = "active" <=> s.notes[n].parent # None
          /\ s.notes[n].linked = TRUE
      BY ONLY Sorted(s, f, O), <1>7, OwnerActive
    <3> QED BY <2>1, <3>1
  <2>5. w \in Layers \cup {None}
    BY <2>2, <2>4 DEF RecType
  <2>6. /\ r \in RecType /\ r.pool = x.pool /\ r.linked = x.linked /\ r.wanted = w
        /\ r.parent = x.parent /\ r.prevParent = x.prevParent /\ r.priority = x.priority
        /\ r.unk_04 = x.unk_04 /\ r.adsr = x.adsr
    BY ONLY <2>3, <2>4, <2>5 DEF RecType
  <2>7. t.notes = [s.notes EXCEPT ![n] = r] /\ t.layers = s.layers /\ t.lists = s.lists
    <3>1. [x EXCEPT !.wanted = IF @ = l THEN None ELSE @] = r
      BY <2>2, <2>3
    <3>2. [r EXCEPT !.adsr = r.adsr] = r
      BY <2>6 DEF RecType
    <3>3. t = Note(s, n, [r EXCEPT !.adsr = r.adsr])
      BY <1>1, <1>2, <1>3, <1>7, <2>1, <2>6, <3>1 DEF SeqLayerDecayRelease
    <3> QED BY <3>2, <3>3 DEF Note, State
  <2>8. Put(s, t, f, n, r, f[n])
    BY <1>4, <1>7, <2>1, <2>6, <2>7, NotePut
  <2>9. Fits(r, f[n], n \in O /\ r.wanted = x.wanted)
    BY <1>3, <2>2, <2>4, <2>6 DEF Fits
  <2>10. LetGo(x, r, l)
    BY <2>2, <2>6 DEF LetGo
  <2>11. Sorts(s, t, O)
    BY <1>5, <1>7, <2>1, <2>6, <2>7, <2>8, <2>9, PutSorts
  <2>12. LetsGo(s, t, l)
    BY <1>4, <1>7, <2>1, <2>8, <2>10, PutLetsGo
  <2> QED BY <2>7, <2>11, <2>12
<1>8. ASSUME n \in Notes, s.notes[n].parent = l
      PROVE  Sorts(s, t, O) /\ t.layers = s.layers /\ LetsGo(s, t, l)
  <2>1. PICK x : x = s.notes[n]
    OBVIOUS
  <2>2. PICK r : r = Released(x, l, hushed)
    OBVIOUS
  <2>3. x \in RecType /\ f[n] \in Kind /\ Fits(x, f[n], n \in O) /\ f[n] = "active"
    <3>1. /\ s.notes[n] \in RecType /\ f[n] \in Kind /\ Fits(s.notes[n], f[n], n \in O)
          /\ f[n] = "active" <=> s.notes[n].parent # None
          /\ s.notes[n].linked = TRUE
      BY ONLY Sorted(s, f, O), <1>8, OwnerActive
    <3> QED BY <1>3, <1>8, <2>1, <3>1
  <2>4. /\ r \in RecType /\ r.pool = x.pool /\ r.linked = x.linked
        /\ r.parent = None /\ r.prevParent = l /\ r.priority = 1 /\ r.unk_04 = TRUE
        /\ r.adsr \in {"fading", "off"} /\ (r.wanted = x.wanted \/ (x.wanted = l /\ r.wanted = None))
    <3>1. Fades(x, r, l)
      BY <2>2, <2>3, ReleasedField
    <3> QED BY <3>1 DEF Fades
  <2>5. PICK v : v = Note(s, n, r)
    OBVIOUS
  <2>6. v.notes = [s.notes EXCEPT ![n] = r] /\ v.layers = s.layers /\ v.lists = s.lists
    BY <2>5 DEF Note, State
  <2>7. t = AudioListPushFront(AudioListRemove(v, n), r.pool, "decaying", n)
    <3>1. [x EXCEPT !.wanted = IF @ = l THEN None ELSE @].pool = x.pool
          /\ [x EXCEPT !.wanted = IF @ = l THEN None ELSE @].parent = l
      BY <1>8, <2>1, <2>3 DEF RecType
    <3> QED BY <1>1, <1>2, <1>3, <1>8, <2>1, <2>2, <2>4, <2>5, <3>1 DEF SeqLayerDecayRelease, Released
  <2>8. t.layers = s.layers
    BY <2>6, <2>7 DEF AudioListPushFront, AudioListRemove, State
  <2>9. Put(s, t, f, n, r, "decaying")
    <3>1. "decaying" \in Kind
      BY DEF Kind
    <3> QED BY ONLY <1>4, <1>8, <2>1, <2>3, <2>4, <2>6, <2>7, <3>1, NoteMoved
  <2>10. Fits(r, "decaying", n \in O /\ r.wanted = x.wanted)
    <3>1. x.wanted # None => n \in O
      BY <2>3 DEF Fits
    <3>2. 1 > 0
      OBVIOUS
    <3> QED BY <1>3, <2>4, <3>1, <3>2 DEF Fits, Kind
  <2>11. LetGo(x, r, l)
    BY <1>8, <2>1, <2>4 DEF LetGo
  <2>12. Sorts(s, t, O)
    BY <1>5, <1>8, <2>1, <2>4, <2>8, <2>9, <2>10, PutSorts
  <2>13. LetsGo(s, t, l)
    BY <1>4, <1>8, <2>1, <2>9, <2>11, PutLetsGo
  <2> QED BY <2>8, <2>12, <2>13
<1> QED BY <1>1, <1>5, <1>6, <1>7, <1>8
-----------------------------------------------------------------------------
(* The allocation.                                                         *)

\* What an allocation for layer l makes of a note: it is promised to the layer at the
\* priority asked for, which is above its own unless it is fading for nobody.
Takes(r, q, l, prio, o) ==
  \/ q.wanted = r.wanted
  \/ /\ q.wanted = l /\ q.priority = prio
     /\ r.parent # None => r.priority < prio
     /\ r.parent = None => q.prevParent = r.prevParent
     /\ o \/ r.wanted = None \/ r.priority < prio
AllTake(s, t, l, prio, O) == \A m \in Notes : Takes(s.notes[m], t.notes[m], l, prio, m \in O)

\* What a change leaves of the other notes.
LEMMA PutOne ==
  ASSUME NEW s, NEW f, FiledBy(s, f), NEW n \in Notes, NEW t, NEW r, NEW k, Put(s, t, f, n, r, k)
  PROVE  t.notes[n] = r /\ \A m \in Notes : m # n => t.notes[m] = s.notes[m]
<1>1. /\ FiledBy(t, [f EXCEPT ![n] = k]) /\ [f EXCEPT ![n] = k][n] = k
      /\ t.notes[n] = r /\ r \in RecType /\ r.linked = (k # "none") /\ k \in Kind \cup {"none"}
      /\ \A m \in Notes : m # n => t.notes[m] = s.notes[m]
  BY ONLY FiledBy(s, f), n \in Notes, Put(s, t, f, n, r, k), PutGives
<1> QED BY <1>1

\* One note is taken.
LEMMA PutTakes ==
  ASSUME NEW s, NEW f, FiledBy(s, f), NEW n \in Notes, NEW t, NEW r, NEW k, Put(s, t, f, n, r, k),
         NEW l, NEW prio, NEW O, Takes(s.notes[n], r, l, prio, n \in O)
  PROVE  AllTake(s, t, l, prio, O)
<1>1. t.notes[n] = r /\ \A m \in Notes : m # n => t.notes[m] = s.notes[m]
  BY ONLY FiledBy(s, f), n \in Notes, Put(s, t, f, n, r, k), PutOne
<1> QED BY <1>1 DEF AllTake, Takes

\* A note that was taken out of its list.
LEMMA InHand ==
  ASSUME NEW s, NEW f, FiledBy(s, f), NEW n \in Notes, NEW t, NEW r, Put(s, t, f, n, r, "none")
  PROVE  /\ FiledBy(t, [f EXCEPT ![n] = "none"]) /\ [f EXCEPT ![n] = "none"][n] = "none"
         /\ t.notes[n] = r /\ r.linked = FALSE
<1>1. PICK k : k = "none"
  OBVIOUS
<1>2. /\ FiledBy(t, [f EXCEPT ![n] = k]) /\ [f EXCEPT ![n] = k][n] = k
      /\ t.notes[n] = r /\ r \in RecType /\ r.linked = (k # "none") /\ k \in Kind \cup {"none"}
      /\ \A m \in Notes : m # n => t.notes[m] = s.notes[m]
  <2>1. Put(s, t, f, n, r, k)
    BY <1>1
  <2> QED BY ONLY FiledBy(s, f), n \in Notes, <2>1, PutGives
<1> QED BY <1>1, <1>2

\* A note in the hands gets a new record and goes to a list of its pool.
LEMMA InHandPush ==
  ASSUME NEW s, NEW f, FiledBy(s, f), NEW n \in Notes, NEW u, NEW q, Put(s, u, f, n, q, "none"),
         NEW r \in RecType, r.linked = TRUE, NEW p, q.pool = p, r.pool = p, NEW v,
         v.notes = [u.notes EXCEPT ![n] = [r EXCEPT !.linked = FALSE]], v.lists = u.lists, NEW k \in Kind
  PROVE  Put(s, AudioListPushBack(v, p, k, n), f, n, r, k) /\ Put(s, AudioListPushFront(v, p, k, n), f, n, r, k)
<1>1. PICK y : y = [r EXCEPT !.linked = FALSE]
  OBVIOUS
<1>2. y \in RecType /\ y.pool = p /\ y.linked = FALSE
  BY <1>1 DEF RecType
<1> DEFINE g == [f EXCEPT ![n] = "none"]
<1>3. FiledBy(u, g) /\ g[n] = "none" /\ u.notes[n] = q /\ q.linked = FALSE
  <2>1. /\ FiledBy(u, [f EXCEPT ![n] = "none"]) /\ [f EXCEPT ![n] = "none"][n] = "none"
        /\ u.notes[n] = q /\ q.linked = FALSE
    BY ONLY FiledBy(s, f), n \in Notes, Put(s, u, f, n, q, "none"), InHand
  <2> QED BY <2>1
<1> HIDE DEF g
<1>4. Put(u, v, g, n, y, "none")
  <2>1. y.pool = u.notes[n].pool /\ y.linked = u.notes[n].linked
    BY <1>2, <1>3
  <2>2. v.notes = [u.notes EXCEPT ![n] = y] /\ v.lists = u.lists
    BY <1>1
  <2>3. Put(u, v, g, n, y, g[n])
    BY ONLY n \in Notes, <1>2, <1>3, <2>1, <2>2, NotePut
  <2> QED BY <1>3, <2>3
<1>5. Put(s, v, f, n, y, "none")
  BY <1>4, PutTwice DEF g
<1>6. FiledBy(v, g) /\ v.notes[n] = y
  <2>1. /\ FiledBy(v, [f EXCEPT ![n] = "none"]) /\ [f EXCEPT ![n] = "none"][n] = "none"
        /\ v.notes[n] = y /\ y.linked = FALSE
    BY ONLY FiledBy(s, f), n \in Notes, <1>5, InHand
  <2> QED BY <2>1 DEF g
<1>7. [v.notes[n] EXCEPT !.pool = p, !.linked = TRUE] = r
  BY <1>1, <1>6 DEF RecType
<1>8. Put(v, AudioListPushBack(v, p, k, n), g, n, r, k) /\ Put(v, AudioListPushFront(v, p, k, n), g, n, r, k)
  <2>1. p \in Pools
    BY DEF RecType
  <2>2. LET x == [v.notes[n] EXCEPT !.pool = p, !.linked = TRUE]
        IN  Put(v, AudioListPushBack(v, p, k, n), g, n, x, k)
            /\ Put(v, AudioListPushFront(v, p, k, n), g, n, x, k)
    BY ONLY n \in Notes, k \in Kind, <1>3, <1>6, <2>1, PushesPut
  <2> QED BY ONLY <1>7, <2>2
<1> QED BY <1>5, <1>8, PutTwice DEF g

\* FindNodeWithPrioLessThan finds a note of the list, and one of lower priority.
LEMMA WeakerFound ==
  ASSUME NEW s, NEW f, FiledBy(s, f), NEW p \in Pools, NEW k \in Kind, NEW prio,
         NEW n, n = FindNodeWithPrioLessThan(s, p, k, prio), n # None
  PROVE  n \in Notes /\ s.notes[n].pool = p /\ f[n] = k /\ s.notes[n].priority < prio
<1>1. PICK list : list = s.lists[p][k]
  OBVIOUS
<1> DEFINE P(i) == s.notes[list[i]].priority
           low == {i \in DOMAIN list : P(i) < prio /\ \A j \in DOMAIN list : P(i) <= P(j)}
<1>2. n = list[CHOOSE i \in low : \A j \in low : j <= i] /\ low # {}
  BY <1>1 DEF FindNodeWithPrioLessThan
<1>3. List(list) /\ \A m \in Notes : In(list, m) <=> p = s.notes[m].pool /\ k = f[m]
  BY <1>1 DEF FiledBy
<1>4. PICK len : len \in Nat /\ DOMAIN list = 1 .. len /\ \A i \in 1 .. len : list[i] \in Notes
  BY <1>3, ListForm DEF List
<1>5. low \in SUBSET (1 .. len)
  BY <1>4
<1>6. \E a \in low : \A b \in low : b <= a
  <2> HIDE DEF low
  <2> QED BY <1>2, <1>4, <1>5, LastOf
<1>7. PICK i : i \in low /\ n = list[i]
  BY <1>2, <1>6
<1>8. n \in Notes /\ In(list, n) /\ s.notes[n].priority < prio
  BY <1>4, <1>7 DEF In
<1> QED BY <1>3, <1>8

\* A layer that has a note.
LEMMA LayerNote ==
  ASSUME NEW ls \in [Layers -> LayerRec], NEW l \in Layers, NEW n \in Notes \cup {None}
  PROVE  [ls EXCEPT ![l].note = n] \in [Layers -> LayerRec]
<1>1. [ls[l] EXCEPT !.note = n] \in LayerRec
  BY DEF LayerRec
<1>2. [ls EXCEPT ![l].note = n] = [ls EXCEPT ![l] = [ls[l] EXCEPT !.note = n]]
  OBVIOUS
<1> QED BY <1>1, <1>2

\* What an allocation leaves: a sorted state, and notes taken as they may be.
Allocs(s, t, l, prio, O, n) ==
  /\ Sorts(s, t, O)
  /\ AllTake(s, t, l, prio, O)
  /\ n \in Notes \cup {None}

\* Audio_AllocNoteFromDisabled.
LEMMA DisabledSorts ==
  ASSUME NEW s, NEW f, NEW O, Sorted(s, f, O), NEW p \in Pools, NEW l \in Layers, NEW prio \in 0 .. 16,
         s.lists[p]["disabled"] # << >>, \A m \in Notes : s.notes[m].wanted # l
  PROVE  Allocs(s, FromDisabled(s, p, l, prio), l, prio, O, Last(s.lists[p]["disabled"]))
<1>1. PICK n : n = Last(s.lists[p]["disabled"])
  OBVIOUS
<1>2. PICK u : u = PopBack(s, p, "disabled")
  OBVIOUS
<1>3. PICK x : x = s.notes[n]
  OBVIOUS
<1>4. FiledBy(s, f) /\ s.layers \in [Layers -> LayerRec] /\ None \notin Layers
  BY NoteAssumptions DEF Sorted
<1>5. n \in Notes /\ x.pool = p /\ f[n] = "disabled"
      /\ Put(s, u, f, n, [x EXCEPT !.linked = FALSE], "none")
  <2>1. "disabled" \in Kind
    BY DEF Kind
  <2> QED BY <1>1, <1>2, <1>3, <1>4, <2>1, PopPut
<1>6. x \in RecType /\ Fits(x, f[n], n \in O) /\ x.linked = TRUE
  BY <1>3, <1>5, OwnerActive
<1>7. PICK r : r = [x EXCEPT !.parent = l, !.prevParent = None, !.priority = prio,
                             !.finished = FALSE, !.adsr = "on"]
  OBVIOUS
<1>8. /\ r \in RecType /\ r.pool = p /\ r.linked = TRUE /\ r.parent = l /\ r.prevParent = None
      /\ r.adsr = "on" /\ r.unk_04 = x.unk_04 /\ r.wanted = x.wanted
  BY <1>5, <1>6, <1>7 DEF RecType
<1>9. PICK v : v = NoteInitForLayer(u, n, l, prio)
  OBVIOUS
<1>10. v.notes = [u.notes EXCEPT ![n] = [r EXCEPT !.linked = FALSE]] /\ v.lists = u.lists
  <2>1. u.notes[n] = [x EXCEPT !.linked = FALSE]
    <3>1. /\ FiledBy(u, [f EXCEPT ![n] = "none"]) /\ [f EXCEPT ![n] = "none"][n] = "none"
          /\ u.notes[n] = [x EXCEPT !.linked = FALSE] /\ [x EXCEPT !.linked = FALSE].linked = FALSE
      BY ONLY <1>4, <1>5, InHand
    <3> QED BY <3>1
  <2>2. [u.notes[n] EXCEPT !.parent = l, !.prevParent = None, !.priority = prio,
                           !.finished = FALSE, !.adsr = "on"] = [r EXCEPT !.linked = FALSE]
    BY <1>6, <1>7, <2>1 DEF RecType
  <2> QED BY <1>9, <2>2 DEF NoteInitForLayer, State
<1>11. PICK t : t = FromDisabled(s, p, l, prio)
  OBVIOUS
<1>12. t = AudioListPushFront(v, p, "active", n)
  BY <1>1, <1>2, <1>9, <1>11 DEF FromDisabled
<1>13. Put(s, t, f, n, r, "active")
  <2>1. "active" \in Kind /\ [x EXCEPT !.linked = FALSE].pool = p
    BY <1>5, <1>6 DEF Kind, RecType
  <2> QED BY ONLY <1>4, <1>5, <1>8, <1>10, <1>12, <2>1, InHandPush
<1>14. t.layers \in [Layers -> LayerRec]
  <2>1. u.layers = s.layers
    BY <1>2 DEF PopBack, State
  <2>2. v.layers = [s.layers EXCEPT ![l].note = n]
    BY <1>9, <2>1 DEF NoteInitForLayer, State
  <2>3. t.layers = v.layers
    BY <1>12 DEF AudioListPushFront, State
  <2> QED BY <1>4, <1>5, <2>2, <2>3, LayerNote
<1>15. Fits(r, "active", n \in O /\ r.wanted = x.wanted)
  <2>1. x.wanted # None => n \in O
    BY <1>5, <1>6 DEF Fits
  <2>2. x.wanted # l /\ ~x.unk_04
    BY <1>3, <1>5, <1>6 DEF Fits
  <2> QED BY <1>4, <1>8, <2>1, <2>2 DEF Fits, Kind
<1>16. Sorts(s, t, O)
  BY <1>3, <1>5, <1>8, <1>13, <1>14, <1>15, PutSorts
<1>17. AllTake(s, t, l, prio, O)
  <2>1. Takes(x, r, l, prio, n \in O)
    BY <1>8 DEF Takes
  <2> QED BY <1>3, <1>4, <1>5, <1>13, <2>1, PutTakes
<1> QED BY <1>1, <1>5, <1>11, <1>16, <1>17 DEF Allocs

\* Audio_NoteReleaseAndTakeOwnership: a note that fades for nobody is promised to l.
Taken(x, l, prio) == [x EXCEPT !.wanted = l, !.priority = prio, !.adsr = Asked(@)]

\* What is left of it.
TakenFrom(x, r, l, prio) ==
  /\ r \in RecType /\ r.pool = x.pool /\ r.linked = x.linked /\ r.parent = x.parent
  /\ r.prevParent = x.prevParent /\ r.unk_04 = x.unk_04 /\ r.wanted = l /\ r.priority = prio
  /\ r.adsr \in {"fading", "off"} /\ (prio > 0 \/ 0 \in Priorities)
\* A note that is promised to l keeps its place and its fade.
LEMMA TakenField ==
  ASSUME NEW x \in RecType, NEW l \in Layers, NEW prio \in Priorities, NEW r, r = Taken(x, l, prio)
  PROVE  TakenFrom(x, r, l, prio)
<1>1. prio \in 0 .. 16 /\ (prio > 0 \/ 0 \in Priorities)
  BY NoteAssumptions
<1>2. PICK a : a = Asked(x.adsr)
  OBVIOUS
<1>3. a \in {"fading", "off"}
  BY <1>2, AskedType
<1>4. r = [x EXCEPT !.wanted = l, !.priority = prio, !.adsr = a]
  BY <1>2 DEF Taken
<1>5. r \in RecType
  BY <1>1, <1>3, <1>4 DEF RecType
<1>6. /\ r.pool = x.pool /\ r.linked = x.linked /\ r.parent = x.parent /\ r.prevParent = x.prevParent
      /\ r.unk_04 = x.unk_04 /\ r.wanted = l /\ r.priority = prio /\ r.adsr = a
  BY <1>4 DEF RecType
<1> QED BY <1>1, <1>3, <1>5, <1>6 DEF TakenFrom

\* Audio_AllocNoteFromDecaying.
LEMMA DecayingSorts ==
  ASSUME NEW s, NEW f, NEW O, Sorted(s, f, O), NEW p \in Pools, NEW l \in Layers, NEW prio \in Priorities,
         s.lists[p]["decaying"] # << >>
  PROVE  Allocs(s, FromDecaying(s, p, l, prio), l, prio, O, Last(s.lists[p]["decaying"]))
<1>1. PICK n : n = Last(s.lists[p]["decaying"])
  OBVIOUS
<1>2. PICK u : u = PopBack(s, p, "decaying")
  OBVIOUS
<1>3. PICK x : x = s.notes[n]
  OBVIOUS
<1>4. FiledBy(s, f) /\ s.layers \in [Layers -> LayerRec] /\ None \notin Layers
  BY NoteAssumptions DEF Sorted
<1>5. n \in Notes /\ x.pool = p /\ f[n] = "decaying"
      /\ Put(s, u, f, n, [x EXCEPT !.linked = FALSE], "none")
  <2>1. "decaying" \in Kind
    BY DEF Kind
  <2> QED BY <1>1, <1>2, <1>3, <1>4, <2>1, PopPut
<1>6. x \in RecType /\ Fits(x, f[n], n \in O) /\ x.linked = TRUE
  BY <1>3, <1>5, OwnerActive
<1>7. PICK r : r = Taken(x, l, prio)
  OBVIOUS
<1>8. /\ r \in RecType /\ r.pool = p /\ r.linked = TRUE
      /\ Fits(r, "releasing", n \in O /\ r.wanted = x.wanted) /\ Takes(x, r, l, prio, n \in O)
  <2>1. x.wanted = None \/ n \in O
    BY <1>5, <1>6 DEF Fits
  <2>2. x.parent = None /\ x.unk_04
    BY <1>5, <1>6 DEF Fits
  <2>3. TakenFrom(x, r, l, prio)
    BY <1>6, <1>7, TakenField
  <2>4. Fits(r, "releasing", n \in O /\ r.wanted = x.wanted)
    BY <1>4, <2>2, <2>3 DEF Fits, Kind, TakenFrom
  <2>5. Takes(x, r, l, prio, n \in O)
    BY <2>1, <2>2, <2>3 DEF Takes, TakenFrom
  <2> QED BY <1>5, <1>6, <2>3, <2>4, <2>5 DEF TakenFrom
<1>9. PICK v : v = TakeOwnership(u, n, l, prio)
  OBVIOUS
<1>10. v.notes = [u.notes EXCEPT ![n] = [r EXCEPT !.linked = FALSE]] /\ v.lists = u.lists
       /\ v.layers = s.layers
  <2>1. u.notes[n] = [x EXCEPT !.linked = FALSE]
    <3>1. /\ FiledBy(u, [f EXCEPT ![n] = "none"]) /\ [f EXCEPT ![n] = "none"][n] = "none"
          /\ u.notes[n] = [x EXCEPT !.linked = FALSE] /\ [x EXCEPT !.linked = FALSE].linked = FALSE
      BY ONLY <1>4, <1>5, InHand
    <3> QED BY <3>1
  <2>2. [u.notes[n] EXCEPT !.wanted = l, !.priority = prio, !.adsr = Asked(u.notes[n].adsr)]
          = [r EXCEPT !.linked = FALSE]
    <3>1. u.notes[n].adsr = x.adsr
      BY <1>6, <2>1 DEF RecType
    <3>2. PICK a : a = Asked(x.adsr)
      OBVIOUS
    <3>3. r = [x EXCEPT !.wanted = l, !.priority = prio, !.adsr = a]
      BY <1>7, <3>2 DEF Taken
    <3> QED BY <1>6, <2>1, <3>1, <3>2, <3>3 DEF RecType
  <2> QED BY <1>2, <1>9, <2>2 DEF TakeOwnership, Note, State, PopBack
<1>11. PICK t : t = FromDecaying(s, p, l, prio)
  OBVIOUS
<1>12. t = AudioListPushBack(v, p, "releasing", n)
  BY <1>1, <1>2, <1>9, <1>11 DEF FromDecaying
<1>13. Put(s, t, f, n, r, "releasing")
  <2>1. "releasing" \in Kind /\ [x EXCEPT !.linked = FALSE].pool = p
    BY <1>5, <1>6 DEF Kind, RecType
  <2> QED BY ONLY <1>4, <1>5, <1>8, <1>10, <1>12, <2>1, InHandPush
<1>14. t.layers \in [Layers -> LayerRec]
  <2>1. t.layers = v.layers
    BY <1>12 DEF AudioListPushBack, State
  <2> QED BY <1>4, <1>10, <2>1
<1>15. Sorts(s, t, O)
  BY <1>3, <1>5, <1>8, <1>13, <1>14, PutSorts
<1>16. AllTake(s, t, l, prio, O)
  BY <1>3, <1>4, <1>5, <1>8, <1>13, PutTakes
<1> QED BY <1>1, <1>5, <1>11, <1>15, <1>16 DEF Allocs

\* A layer takes back the note that fades for it.
LEMMA RetakeSorts ==
  ASSUME NEW s, NEW f, NEW O, Sorted(s, f, O), NEW n \in Notes, NEW l \in Layers, NEW prio \in Priorities,
         s.notes[n].prevParent = l, s.notes[n].wanted = None
  PROVE  Allocs(s, Moved(TakeOwnership(s, n, l, prio), s.notes[n].pool, "releasing", n), l, prio, O, n)
<1>1. PICK x : x = s.notes[n]
  OBVIOUS
<1>2. FiledBy(s, f) /\ s.layers \in [Layers -> LayerRec] /\ None \notin Layers
  BY NoteAssumptions DEF Sorted
<1>3. x \in RecType /\ f[n] \in Kind /\ Fits(x, f[n], n \in O) /\ x.linked = TRUE
  BY <1>1, OwnerActive
<1>4. PICK r : r = Taken(x, l, prio)
  OBVIOUS
<1>5. /\ r \in RecType /\ r.pool = x.pool /\ r.linked = x.linked
      /\ Fits(r, "releasing", n \in O /\ r.wanted = x.wanted) /\ Takes(x, r, l, prio, n \in O)
  <2>1. x.wanted = None
    BY <1>1
  <2>2. x.parent = None /\ x.unk_04
    BY <1>1, <1>2, <1>3 DEF Fits
  <2>3. TakenFrom(x, r, l, prio)
    BY <1>3, <1>4, TakenField
  <2>4. Fits(r, "releasing", n \in O /\ r.wanted = x.wanted)
    BY <1>2, <2>2, <2>3 DEF Fits, Kind, TakenFrom
  <2>5. Takes(x, r, l, prio, n \in O)
    BY <2>1, <2>2, <2>3 DEF Takes, TakenFrom
  <2> QED BY <2>3, <2>4, <2>5 DEF TakenFrom
<1>6. PICK v : v = TakeOwnership(s, n, l, prio)
  OBVIOUS
<1>7. v.notes = [s.notes EXCEPT ![n] = r] /\ v.layers = s.layers /\ v.lists = s.lists
  BY <1>1, <1>4, <1>6 DEF TakeOwnership, Taken, Note, State
<1>8. PICK t : t = Moved(v, x.pool, "releasing", n)
  OBVIOUS
<1>9. Put(s, t, f, n, r, "releasing")
  <2>1. "releasing" \in Kind
    BY DEF Kind
  <2>2. r.pool = s.notes[n].pool /\ r.linked = s.notes[n].linked /\ x.pool = r.pool
    BY <1>1, <1>5
  <2>3. Put(s, Moved(v, r.pool, "releasing", n), f, n, r, "releasing")
    BY ONLY n \in Notes, <1>2, <1>3, <1>5, <1>7, <2>1, <2>2, NoteMoved
  <2> QED BY <1>8, <2>2, <2>3
<1>10. t.layers \in [Layers -> LayerRec]
  BY <1>2, <1>7, <1>8 DEF Moved, AudioListPushBack, AudioListRemove, State
<1>11. Sorts(s, t, O)
  BY <1>1, <1>5, <1>9, <1>10, PutSorts
<1>12. AllTake(s, t, l, prio, O)
  BY <1>1, <1>2, <1>5, <1>9, PutTakes
<1> QED BY <1>1, <1>6, <1>8, <1>11, <1>12 DEF Allocs

\* A note of the releasing list is promised to another layer.
LEMMA WaiterSorts ==
  ASSUME NEW s, NEW f, NEW O, Sorted(s, f, O), NEW n \in Notes, f[n] = "releasing", NEW l \in Layers,
         NEW prio \in Priorities, s.notes[n].priority < prio
  PROVE  Allocs(s, Note(s, n, [s.notes[n] EXCEPT !.wanted = l, !.priority = prio]), l, prio, O, n)
<1>1. PICK x : x = s.notes[n]
  OBVIOUS
<1>2. FiledBy(s, f) /\ s.layers \in [Layers -> LayerRec] /\ None \notin Layers
  BY NoteAssumptions DEF Sorted
<1>3. x \in RecType /\ f[n] \in Kind /\ Fits(x, f[n], n \in O) /\ x.linked = TRUE
  BY <1>1, OwnerActive
<1>4. PICK r : r = [x EXCEPT !.wanted = l, !.priority = prio]
  OBVIOUS
<1>5. prio \in 0 .. 16 /\ x.priority \in 0 .. 16
  BY <1>3, NoteAssumptions DEF RecType
<1>6. /\ r \in RecType /\ r.pool = x.pool /\ r.linked = x.linked /\ r.parent = x.parent
      /\ r.prevParent = x.prevParent /\ r.unk_04 = x.unk_04 /\ r.wanted = l /\ r.priority = prio
      /\ r.adsr = x.adsr
  BY <1>3, <1>4, <1>5 DEF RecType
<1>7. PICK t : t = Note(s, n, r)
  OBVIOUS
<1>8. t.notes = [s.notes EXCEPT ![n] = r] /\ t.layers = s.layers /\ t.lists = s.lists
  BY <1>7 DEF Note, State
<1>9. Put(s, t, f, n, r, "releasing")
  <2>1. r.pool = s.notes[n].pool /\ r.linked = s.notes[n].linked
    BY <1>1, <1>6
  <2>2. Put(s, t, f, n, r, f[n])
    BY ONLY n \in Notes, <1>2, <1>6, <1>8, <2>1, NotePut
  <2> QED BY <2>2
<1>10. x.parent = None /\ x.unk_04 /\ x.adsr # "on" /\ prio > 0 /\ x.priority < prio
  BY <1>1, <1>3, <1>5 DEF Fits
<1>11. Fits(r, "releasing", n \in O /\ r.wanted = x.wanted)
  BY <1>2, <1>6, <1>10 DEF Fits, Kind
<1>12. Takes(x, r, l, prio, n \in O)
  BY <1>6, <1>10 DEF Takes
<1>13. Sorts(s, t, O)
  BY <1>1, <1>2, <1>6, <1>8, <1>9, <1>11, PutSorts
<1>14. AllTake(s, t, l, prio, O)
  BY <1>1, <1>2, <1>9, <1>12, PutTakes
<1> QED BY <1>1, <1>4, <1>7, <1>13, <1>14 DEF Allocs

\* A note that sounds for a layer of lower priority is released and promised to l.
LEMMA SoundingSorts ==
  ASSUME NEW s, NEW f, NEW O, Sorted(s, f, O), OwnedIn(s), NEW n \in Notes, f[n] = "active",
         NEW p, s.notes[n].pool = p, NEW l \in Layers, NEW prio \in Priorities,
         s.notes[n].priority < prio, NEW hushed \in BOOLEAN,
         NEW moved, moved = AudioListPushBack(func_80012E28(AudioListRemove(s, n), n, l, hushed),
                                              p, "releasing", n)
  PROVE  Allocs(s, Note(moved, n, [moved.notes[n] EXCEPT !.priority = prio]), l, prio, O, n)
<1>1. PICK x : x = s.notes[n]
  OBVIOUS
<1>2. FiledBy(s, f) /\ s.layers \in [Layers -> LayerRec] /\ None \notin Layers /\ "releasing" \in Kind
  BY NoteAssumptions DEF Sorted, Kind
<1>3. x \in RecType /\ f[n] \in Kind /\ Fits(x, f[n], n \in O) /\ x.linked = TRUE
  BY <1>1, OwnerActive
<1>4. PICK m : m = x.parent
  OBVIOUS
<1>5. m \in Layers /\ s.layers[m].note = n
  <2>1. m \in Layers
    BY <1>3, <1>4 DEF Fits, RecType
  <2> QED BY <1>1, <1>4, <2>1 DEF OwnedIn, Claims
<1>6. prio \in 0 .. 16 /\ x.priority \in 0 .. 16 /\ x.priority < prio /\ prio > 0
  BY <1>1, <1>3, NoteAssumptions DEF RecType
\* The note is taken out of its list.
<1>7. PICK c : c = AudioListRemove(s, n)
  OBVIOUS
<1>8. PICK y : y = [x EXCEPT !.linked = FALSE]
  OBVIOUS
<1>9. y \in RecType /\ y.parent = m /\ y.pool = p /\ y.wanted = x.wanted /\ y.linked = FALSE
  BY <1>1, <1>3, <1>4, <1>8 DEF RecType
<1>10. Put(s, c, f, n, y, "none") /\ c.layers = s.layers
  <2>1. Put(s, c, f, n, y, "none")
    BY <1>1, <1>2, <1>7, <1>8, RemovePut
  <2> QED BY <1>7, <2>1 DEF AudioListRemove, State
<1>11. c.notes[n] = y
  <2>1. /\ FiledBy(c, [f EXCEPT ![n] = "none"]) /\ [f EXCEPT ![n] = "none"][n] = "none"
        /\ c.notes[n] = y /\ y.linked = FALSE
    BY ONLY n \in Notes, <1>2, <1>10, InHand
  <2> QED BY <2>1
\* Its owner lets go.
<1>12. PICK z : z = Released(y, m, hushed)
  OBVIOUS
<1>13. Fades(y, z, m)
  BY <1>5, <1>9, <1>12, ReleasedField
<1>14. SeqLayerDecayRelease(c, m, "release", hushed) = Note(c, n, z)
  <2>1. None \notin Notes
    BY NoteAssumptions
  <2>2. [y EXCEPT !.wanted = IF @ = m THEN None ELSE @].parent = m
    BY <1>9 DEF RecType
  <2> QED BY <1>5, <1>10, <1>11, <1>12, <2>1, <2>2 DEF SeqLayerDecayRelease, Released
<1>15. PICK w : w = [z EXCEPT !.wanted = l]
  OBVIOUS
<1>16. /\ w \in RecType /\ w.pool = p /\ w.linked = FALSE /\ w.parent = None /\ w.prevParent = m
       /\ w.unk_04 = TRUE /\ w.adsr \in {"fading", "off"} /\ w.wanted = l
  BY <1>9, <1>13, <1>15 DEF Fades, RecType
<1>17. PICK v : v = func_80012E28(c, n, l, hushed)
  OBVIOUS
<1>18. v.notes = [c.notes EXCEPT ![n] = w] /\ v.lists = c.lists /\ v.layers = s.layers
  <2>1. v = Note(Note(c, n, z), n, [Note(c, n, z).notes[n] EXCEPT !.wanted = l])
    BY <1>2, <1>5, <1>9, <1>11, <1>14, <1>17 DEF func_80012E28
  <2>2. c.notes \in [Notes -> RecType]
    BY <1>10 DEF Put, FiledBy
  <2> QED BY <1>10, <1>15, <2>1, <2>2 DEF Note, State
\* It goes to the releasing list.
<1>19. PICK r : r = [w EXCEPT !.linked = TRUE]
  OBVIOUS
<1>20. /\ r \in RecType /\ r.pool = p /\ r.linked = TRUE /\ r.parent = None /\ r.prevParent = m
       /\ r.unk_04 = TRUE /\ r.adsr \in {"fading", "off"} /\ r.wanted = l
       /\ [r EXCEPT !.linked = FALSE] = w
  BY <1>16, <1>19 DEF RecType
<1>21. Put(s, moved, f, n, r, "releasing")
  <2>1. v.notes = [c.notes EXCEPT ![n] = [r EXCEPT !.linked = FALSE]] /\ v.lists = c.lists
    BY <1>18, <1>20
  <2>2. moved = AudioListPushBack(v, p, "releasing", n)
    BY <1>7, <1>17
  <2> QED BY ONLY n \in Notes, <1>2, <1>9, <1>10, <1>20, <2>1, <2>2, InHandPush
<1>22. PICK q : q = [r EXCEPT !.priority = prio]
  OBVIOUS
<1>23. /\ q \in RecType /\ q.pool = p /\ q.linked = TRUE /\ q.parent = None /\ q.prevParent = m
       /\ q.unk_04 = TRUE /\ q.adsr \in {"fading", "off"} /\ q.wanted = l /\ q.priority = prio
  BY <1>6, <1>20, <1>22 DEF RecType
<1>24. PICK t : t = Note(moved, n, [moved.notes[n] EXCEPT !.priority = prio])
  OBVIOUS
<1> DEFINE g == [f EXCEPT ![n] = "releasing"]
<1>25. moved.notes[n] = r /\ FiledBy(moved, g) /\ g[n] = "releasing"
  <2>1. moved.notes[n] = r /\ \A i \in Notes : i # n => moved.notes[i] = s.notes[i]
    BY ONLY n \in Notes, <1>2, <1>21, PutOne
  <2>2. FiledBy(moved, g)
    BY <1>21 DEF Put
  <2> QED BY <1>2, <2>1, <2>2 DEF FiledBy, Filings
<1> HIDE DEF g
<1>26. t.notes = [moved.notes EXCEPT ![n] = q] /\ t.lists = moved.lists /\ t.layers = moved.layers
  BY <1>22, <1>24, <1>25 DEF Note, State
<1>27. Put(s, t, f, n, q, "releasing")
  <2>1. q.pool = moved.notes[n].pool /\ q.linked = moved.notes[n].linked
    BY <1>20, <1>23, <1>25
  <2>2. Put(moved, t, g, n, q, g[n])
    BY ONLY n \in Notes, <1>23, <1>25, <1>26, <2>1, NotePut
  <2> QED BY <1>2, <1>21, <1>25, <2>2, PutTwice DEF g
<1>28. t.layers = s.layers
  BY <1>7, <1>17, <1>18, <1>26 DEF AudioListPushBack, State
<1>29. Fits(q, "releasing", n \in O /\ q.wanted = x.wanted)
  BY <1>2, <1>6, <1>23 DEF Fits
<1>30. Takes(x, q, l, prio, n \in O)
  BY <1>2, <1>4, <1>5, <1>6, <1>23 DEF Takes
<1>31. Sorts(s, t, O)
  BY <1>1, <1>2, <1>23, <1>27, <1>28, <1>29, PutSorts
<1>32. AllTake(s, t, l, prio, O)
  BY <1>1, <1>2, <1>27, <1>30, PutTakes
<1> QED BY <1>24, <1>31, <1>32 DEF Allocs

\* Audio_AllocNoteFromActive.
LEMMA ActiveSorts ==
  ASSUME NEW s, NEW f, NEW O, Sorted(s, f, O), OwnedIn(s), NEW p \in Pools, NEW l \in Layers,
         NEW prio \in Priorities, NEW hushed \in BOOLEAN,
         \/ FindNodeWithPrioLessThan(s, p, "releasing", prio) # None
         \/ FindNodeWithPrioLessThan(s, p, "active", prio) # None
  PROVE  LET found == FromActive(s, p, l, prio, hushed)
         IN  Allocs(s, found.s, l, prio, O, found.n)
<1>1. PICK r : r = FindNodeWithPrioLessThan(s, p, "releasing", prio)
  OBVIOUS
<1>2. PICK a : a = FindNodeWithPrioLessThan(s, p, "active", prio)
  OBVIOUS
<1>3. FiledBy(s, f) /\ "releasing" \in Kind /\ "active" \in Kind
  BY DEF Sorted, Kind
<1>4. r # None => r \in Notes /\ s.notes[r].pool = p /\ f[r] = "releasing" /\ s.notes[r].priority < prio
  BY <1>1, <1>3, WeakerFound
<1>5. a # None => a \in Notes /\ s.notes[a].pool = p /\ f[a] = "active" /\ s.notes[a].priority < prio
  BY <1>2, <1>3, WeakerFound
<1>6. \A n \in Notes : s.notes[n].priority \in 0 .. 16
  BY <1>3 DEF FiledBy, RecType
<1>7. prio \in 0 .. 16
  BY NoteAssumptions
<1>8. PICK rp : rp = IF r = None THEN 16 ELSE s.notes[r].priority
  OBVIOUS
<1>9. PICK ap : ap = IF a = None THEN 16 ELSE s.notes[a].priority
  OBVIOUS
<1>10. rp \in 0 .. 16 /\ ap \in 0 .. 16
  BY <1>4, <1>5, <1>6, <1>8, <1>9
<1>11. PICK found : found = FromActive(s, p, l, prio, hushed)
  OBVIOUS
<1>12. CASE ap < rp
  <2>1. a # None
    BY <1>9, <1>10, <1>12
  <2>2. PICK moved : moved = AudioListPushBack(func_80012E28(AudioListRemove(s, a), a, l, hushed),
                                               p, "releasing", a)
    OBVIOUS
  <2>3. Allocs(s, Note(moved, a, [moved.notes[a] EXCEPT !.priority = prio]), l, prio, O, a)
    BY <1>5, <2>1, <2>2, SoundingSorts
  <2>4. found = [s |-> Note(moved, a, [moved.notes[a] EXCEPT !.priority = prio]), n |-> a]
    BY <1>1, <1>2, <1>8, <1>9, <1>11, <1>12, <2>2 DEF FromActive
  <2> QED BY <1>11, <2>3, <2>4
<1>13. CASE ~(ap < rp)
  <2>1. r # None
    <3>1. r = None => a = None
      BY <1>5, <1>6, <1>7, <1>8, <1>9, <1>10, <1>13
    <3> QED BY <1>1, <1>2, <3>1
  <2>2. Allocs(s, Note(s, r, [s.notes[r] EXCEPT !.wanted = l, !.priority = prio]), l, prio, O, r)
    BY <1>4, <2>1, WaiterSorts
  <2>3. found = [s |-> Note(s, r, [s.notes[r] EXCEPT !.wanted = l, !.priority = prio]), n |-> r]
    BY <1>1, <1>2, <1>8, <1>9, <1>11, <1>13 DEF FromActive
  <2> QED BY <1>11, <2>2, <2>3
<1> QED BY <1>12, <1>13

\* The pools of a policy are pools.
LEMMA PoolsForType ==
  ASSUME NEW s, NEW l, s.layers[l].channel \in Channels, NEW c \in {"channel", "player", "free", "all"}
  PROVE  \E m \in Nat : /\ DOMAIN PoolsFor(l, s, c) = 1 .. m
                        /\ \A i \in 1 .. m : PoolsFor(l, s, c)[i] \in Pools
<1>1. PICK h : h = s.layers[l].channel
  OBVIOUS
<1>2. h \in Pools /\ Player \in Pools /\ Free \in Pools
  BY <1>1 DEF Pools
<1>3. PICK q : q = PoolsFor(l, s, c)
  OBVIOUS
<1>4. q = <<h>> \/ q = <<h, Player>> \/ q = <<Free>> \/ q = <<h, Player, Free>>
  BY <1>1, <1>3 DEF PoolsFor
<1>5. CASE q = <<h>>
  <2>1. DOMAIN q = 1 .. 1 /\ \A i \in 1 .. 1 : q[i] \in Pools
    BY <1>2, <1>5
  <2> QED BY <1>3, <2>1
<1>6. CASE q = <<h, Player>>
  <2>1. DOMAIN q = 1 .. 2 /\ \A i \in 1 .. 2 : q[i] \in Pools
    BY <1>2, <1>6
  <2> QED BY <1>3, <2>1
<1>7. CASE q = <<Free>>
  <2>1. DOMAIN q = 1 .. 1 /\ \A i \in 1 .. 1 : q[i] \in Pools
    BY <1>2, <1>7
  <2> QED BY <1>3, <2>1
<1>8. CASE q = <<h, Player, Free>>
  <2>1. DOMAIN q = 1 .. 3 /\ \A i \in 1 .. 3 : q[i] \in Pools
    BY <1>2, <1>8
  <2> QED BY <1>3, <2>1
<1> QED BY <1>4, <1>5, <1>6, <1>7, <1>8

\* Audio_AllocNote.
LEMMA AllocSorts ==
  ASSUME NEW s, NEW f, NEW O, Sorted(s, f, O), OwnedIn(s), NEW l \in Layers,
         s.layers[l].channel \in Channels, NEW prio \in Priorities, NEW policy \in Policies,
         NEW hushed \in BOOLEAN, \A m \in Notes : s.notes[m].wanted # l
  PROVE  LET got == AllocNote(s, l, prio, policy, hushed)
         IN  Allocs(s, got.s, l, prio, O, got.n)
<1> DEFINE own == s.layers[l].note
           pools == PoolsFor(l, s, policy.pools)
           Weaker(p, k) == FindNodeWithPrioLessThan(s, p, k, prio) # None
           silent == {i \in DOMAIN pools : s.lists[pools[i]]["disabled"] # <<>>}
           fading == {i \in DOMAIN pools : s.lists[pools[i]]["decaying"] # <<>>}
           weaker == {i \in DOMAIN pools : Weaker(pools[i], "releasing") \/ Weaker(pools[i], "active")}
           First(is) == pools[CHOOSE i \in is : \A j \in is : i <= j]
           retakes == policy.retake /\ own # None /\ s.notes[own].prevParent = l /\ s.notes[own].wanted = None
<1>1. PICK got : got = AllocNote(s, l, prio, policy, hushed)
  OBVIOUS
<1>2. got = IF retakes
            THEN [s |-> Moved(TakeOwnership(s, own, l, prio), s.notes[own].pool, "releasing", own), n |-> own]
            ELSE IF silent # {}
            THEN [s |-> FromDisabled(s, First(silent), l, prio), n |-> Last(s.lists[First(silent)]["disabled"])]
            ELSE IF fading # {}
            THEN [s |-> FromDecaying(s, First(fading), l, prio), n |-> Last(s.lists[First(fading)]["decaying"])]
            ELSE IF weaker # {} THEN FromActive(s, First(weaker), l, prio, hushed)
            ELSE [s |-> s, n |-> None]
  BY <1>1 DEF AllocNote
<1>3. own = s.layers[l].note
  OBVIOUS
<1>4. pools = PoolsFor(l, s, policy.pools)
  OBVIOUS
<1> HIDE DEF own, pools
<1>5. PICK m \in Nat : DOMAIN pools = 1 .. m /\ \A i \in 1 .. m : pools[i] \in Pools
  <2>1. policy.pools \in {"channel", "player", "free", "all"}
    BY NoteAssumptions DEF AllPolicies
  <2> QED BY <1>4, <2>1, PoolsForType
<1>6. own \in Notes \cup {None}
  BY <1>3 DEF Sorted, LayerRec
<1>7. prio \in 0 .. 16
  BY NoteAssumptions
<1>8. \A X \in SUBSET (1 .. m) : X # {} => \E i \in X : First(X) = pools[i]
  <2> SUFFICES ASSUME NEW X \in SUBSET (1 .. m), X # {} PROVE \E i \in X : First(X) = pools[i]
    OBVIOUS
  <2>1. X \in SUBSET Nat
    OBVIOUS
  <2>2. \E a \in X : \A b \in X : a <= b
    BY <2>1, LeastOf
  <2>3. PICK i : i = CHOOSE a \in X : \A j \in X : a <= j
    OBVIOUS
  <2>4. i \in X
    BY <2>2, <2>3
  <2> QED BY <2>3, <2>4
<1>9. /\ silent # {} => First(silent) \in Pools /\ s.lists[First(silent)]["disabled"] # << >>
      /\ fading # {} => First(fading) \in Pools /\ s.lists[First(fading)]["decaying"] # << >>
      /\ weaker # {} => First(weaker) \in Pools /\ (Weaker(First(weaker), "releasing") \/ Weaker(First(weaker), "active"))
  <2>1. silent \in SUBSET (1 .. m) /\ fading \in SUBSET (1 .. m) /\ weaker \in SUBSET (1 .. m)
    BY <1>5
  <2>2. ASSUME silent # {} PROVE First(silent) \in Pools /\ s.lists[First(silent)]["disabled"] # << >>
    <3>1. PICK i \in silent : First(silent) = pools[i]
      BY <1>8, <2>1, <2>2
    <3> QED BY <1>5, <3>1
  <2>3. ASSUME fading # {} PROVE First(fading) \in Pools /\ s.lists[First(fading)]["decaying"] # << >>
    <3>1. PICK i \in fading : First(fading) = pools[i]
      BY <1>8, <2>1, <2>3
    <3> QED BY <1>5, <3>1
  <2>4. ASSUME weaker # {}
        PROVE  First(weaker) \in Pools /\ (Weaker(First(weaker), "releasing") \/ Weaker(First(weaker), "active"))
    <3>1. PICK i \in weaker : First(weaker) = pools[i]
      BY <1>8, <2>1, <2>4
    <3> QED BY <1>5, <3>1
  <2> QED BY <2>2, <2>3, <2>4
<1> HIDE DEF First, silent, fading, weaker
<1>10. CASE retakes
  <2>1. own \in Notes /\ s.notes[own].prevParent = l /\ s.notes[own].wanted = None
    BY <1>6, <1>10
  <2>2. Allocs(s, Moved(TakeOwnership(s, own, l, prio), s.notes[own].pool, "releasing", own), l, prio, O, own)
    BY <2>1, RetakeSorts
  <2>3. got = [s |-> Moved(TakeOwnership(s, own, l, prio), s.notes[own].pool, "releasing", own), n |-> own]
    BY <1>2, <1>10
  <2> QED BY <1>1, <2>2, <2>3
<1>11. CASE ~retakes /\ silent # {}
  <2>1. Allocs(s, FromDisabled(s, First(silent), l, prio), l, prio, O, Last(s.lists[First(silent)]["disabled"]))
    BY <1>7, <1>9, <1>11, DisabledSorts
  <2>2. got = [s |-> FromDisabled(s, First(silent), l, prio), n |-> Last(s.lists[First(silent)]["disabled"])]
    BY <1>2, <1>11
  <2> QED BY <1>1, <2>1, <2>2
<1>12. CASE ~retakes /\ silent = {} /\ fading # {}
  <2>1. Allocs(s, FromDecaying(s, First(fading), l, prio), l, prio, O, Last(s.lists[First(fading)]["decaying"]))
    BY <1>9, <1>12, DecayingSorts
  <2>2. got = [s |-> FromDecaying(s, First(fading), l, prio), n |-> Last(s.lists[First(fading)]["decaying"])]
    BY <1>2, <1>12
  <2> QED BY <1>1, <2>1, <2>2
<1>13. CASE ~retakes /\ silent = {} /\ fading = {} /\ weaker # {}
  <2>1. PICK p : p = First(weaker)
    OBVIOUS
  <2>2. got = FromActive(s, p, l, prio, hushed)
    BY <1>2, <1>13, <2>1
  <2>3. p \in Pools /\ (Weaker(p, "releasing") \/ Weaker(p, "active"))
    BY <1>9, <1>13, <2>1
  <2>4. LET found == FromActive(s, p, l, prio, hushed)
        IN  Allocs(s, found.s, l, prio, O, found.n)
    BY <2>3, ActiveSorts
  <2> QED BY <1>1, <2>2, <2>4
<1>14. CASE ~retakes /\ silent = {} /\ fading = {} /\ weaker = {}
  <2>1. got = [s |-> s, n |-> None]
    BY <1>2, <1>14
  <2>2. Sorts(s, s, O)
    BY SortsSelf
  <2>3. AllTake(s, s, l, prio, O)
    BY DEF AllTake, Takes
  <2> QED BY <1>1, <2>1, <2>2, <2>3 DEF Allocs
<1> QED BY <1>10, <1>11, <1>12, <1>13, <1>14
-----------------------------------------------------------------------------
(* A note in a tick, and its state.                                        *)

\* A note that was put gets another record.
LEMMA PutNote ==
  ASSUME NEW s, NEW f, FiledBy(s, f), NEW n \in Notes, NEW t, NEW r, NEW k, Put(s, t, f, n, r, k),
         NEW q \in RecType, q.pool = r.pool, q.linked = r.linked, NEW u, u = Note(t, n, q)
  PROVE  Put(s, u, f, n, q, k)
<1> DEFINE g == [f EXCEPT ![n] = k]
<1>1. t.notes[n] = r /\ FiledBy(t, g) /\ g[n] = k
  <2>1. /\ FiledBy(t, [f EXCEPT ![n] = k]) /\ [f EXCEPT ![n] = k][n] = k
        /\ t.notes[n] = r /\ r \in RecType /\ r.linked = (k # "none") /\ k \in Kind \cup {"none"}
        /\ \A m \in Notes : m # n => t.notes[m] = s.notes[m]
    BY ONLY FiledBy(s, f), n \in Notes, Put(s, t, f, n, r, k), PutGives
  <2> QED BY <2>1
<1> HIDE DEF g
<1>2. u.notes = [t.notes EXCEPT ![n] = q] /\ u.lists = t.lists
  BY DEF Note, State
<1>3. Put(t, u, g, n, q, g[n])
  <2>1. q.pool = t.notes[n].pool /\ q.linked = t.notes[n].linked
    BY <1>1
  <2> QED BY ONLY n \in Notes, q \in RecType, <1>1, <1>2, <2>1, NotePut
<1> QED BY <1>1, <1>3, PutTwice DEF g

\* What its layer makes of a note: it goes on, or is released and put to the decaying.
LEMMA ByLayerSorts ==
  ASSUME NEW s, NEW f, NEW O, Sorted(s, f, O), Good(s, open), NEW n \in Notes,
         NEW stop \in BOOLEAN, NEW hushed \in BOOLEAN, NEW b, b = ByLayer(s, n, stop, hushed)
  PROVE  /\ b.then = "on" /\ Sorts(s, b.s, O) /\ b.s.layers = s.layers
         /\ \A m \in Notes : b.s.notes[m].wanted = s.notes[m].wanted
<1>1. PICK x : x = s.notes[n]
  OBVIOUS
<1>2. PICK l : l = x.parent
  OBVIOUS
<1>3. FiledBy(s, f) /\ s.layers \in [Layers -> LayerRec] /\ None \notin Layers /\ None \notin Notes
      /\ "decaying" \in Kind
  BY NoteAssumptions DEF Sorted, Kind
<1>4. x \in RecType /\ f[n] \in Kind /\ Fits(x, f[n], n \in O) /\ x.linked = TRUE
  BY <1>1, OwnerActive
<1>5. Sorts(s, s, O)
  BY SortsSelf
<1>6. CASE l = None
  <2>1. ~(~x.unk_04 /\ x.priority > 0)
    BY <1>2, <1>4, <1>6 DEF Fits, Kind, RecType
  <2>2. b = [s |-> s, then |-> "on"]
    BY <1>1, <1>2, <1>6, <2>1 DEF ByLayer
  <2> QED BY <1>5, <2>2
<1>7. ASSUME l # None
      PROVE  /\ b.then = "on" /\ Sorts(s, b.s, O) /\ b.s.layers = s.layers
             /\ \A m \in Notes : b.s.notes[m].wanted = s.notes[m].wanted
  <2>1. l \in Layers
    BY <1>2, <1>4, <1>7 DEF RecType
  <2>2. s.layers[l].note = n /\ s.layers[l].channel \in open
    BY <1>1, <1>2, <2>1 DEF Good, OwnedIn, LiveIn, Claims
  <2>3. f[n] = "active" /\ x.unk_04 = FALSE /\ x.parent # x.wanted
    BY <1>2, <1>4, <1>7 DEF Fits, RecType
  <2>4. PICK v : v = SeqLayerDecayRelease(s, l, "release", hushed)
    OBVIOUS
  <2>5. PICK w : w = AudioListPushFront(AudioListRemove(v, n), x.pool, "decaying", n)
    OBVIOUS
  <2>6. PICK t : t = Note(w, n, [w.notes[n] EXCEPT !.priority = 1, !.unk_04 = TRUE])
    OBVIOUS
  <2>7. b = [s |-> s, then |-> "on"] \/ b = [s |-> t, then |-> "on"]
    <3> DEFINE Fading(i) == Note(i, n, [i.notes[n] EXCEPT !.priority = 1, !.unk_04 = TRUE])
    <3>1. Fading(w) = t
      BY <2>6
    <3>2. w = AudioListPushFront(AudioListRemove(SeqLayerDecayRelease(s, l, "release", hushed), n),
                                 x.pool, "decaying", n)
      BY <2>4, <2>5
    <3>3. b = [s |-> s, then |-> "on"] \/ b = [s |-> Fading(w), then |-> "on"]
      BY <1>1, <1>2, <1>7, <2>2, <2>3, <3>2 DEF ByLayer
    <3> HIDE DEF Fading
    <3> QED BY <3>1, <3>3
  <2>8. PICK z : z = Released(x, l, hushed)
    OBVIOUS
  <2>9. Fades(x, z, l)
    BY <1>4, <2>1, <2>8, ReleasedField
  <2>10. z.wanted = x.wanted /\ z \in RecType /\ z.pool = x.pool /\ z.linked = x.linked
    BY <1>2, <2>3, <2>9 DEF Fades
  <2>11. v.notes = [s.notes EXCEPT ![n] = z] /\ v.lists = s.lists /\ v.layers = s.layers
    <3>1. [x EXCEPT !.wanted = IF @ = l THEN None ELSE @].parent = l
      BY <1>2, <1>4 DEF RecType
    <3>2. v = Note(s, n, z)
      BY <1>1, <1>3, <2>2, <2>4, <2>8, <3>1 DEF SeqLayerDecayRelease, Released
    <3> QED BY <3>2 DEF Note, State
  <2>12. Put(s, w, f, n, z, "decaying")
    <3>1. z.pool = s.notes[n].pool /\ z.linked = s.notes[n].linked
      BY <1>1, <2>10
    <3>2. Put(s, AudioListPushFront(AudioListRemove(v, n), z.pool, "decaying", n), f, n, z, "decaying")
      BY ONLY n \in Notes, <1>3, <1>4, <2>10, <2>11, <3>1, NoteMoved
    <3> QED BY <2>5, <2>10, <3>2
  <2>13. Put(s, t, f, n, z, "decaying")
    <3>1. w.notes[n] = z
      <4>1. w.notes[n] = z /\ \A m \in Notes : m # n => w.notes[m] = s.notes[m]
        BY ONLY n \in Notes, <1>3, <2>12, PutOne
      <4> QED BY <4>1
    <3>2. [z EXCEPT !.priority = 1, !.unk_04 = TRUE] = z
      <4>1. z \in RecType /\ z.priority = 1 /\ z.unk_04 = TRUE
        BY <2>9 DEF Fades
      <4> QED BY <4>1 DEF RecType
    <3>3. t = Note(w, n, z)
      BY <2>6, <3>1, <3>2
    <3> QED BY <1>3, <2>10, <2>12, <3>3, PutNote
  <2>14. t.layers = s.layers
    BY <2>5, <2>6, <2>11 DEF Note, AudioListPushFront, AudioListRemove, State
  <2>15. Fits(z, "decaying", n \in O /\ z.wanted = x.wanted)
    <3>1. x.wanted # None => n \in O
      BY <1>4, <2>3 DEF Fits
    <3>2. 1 > 0
      OBVIOUS
    <3> QED BY <1>3, <2>1, <2>9, <2>10, <3>1, <3>2 DEF Fits, Fades
  <2>16. Sorts(s, t, O)
    BY <1>1, <1>3, <2>10, <2>13, <2>14, <2>15, PutSorts
  <2>17. \A m \in Notes : t.notes[m].wanted = s.notes[m].wanted
    <3>1. t.notes[n] = z /\ \A m \in Notes : m # n => t.notes[m] = s.notes[m]
      BY ONLY n \in Notes, <1>3, <2>13, PutOne
    <3> QED BY <1>1, <2>10, <3>1
  <2> QED BY <1>5, <2>7, <2>14, <2>16, <2>17
<1> QED BY <1>6, <1>7

\* What the envelope makes of a claim: it stays, or is dropped by handing the note over.
Hands(s, t) ==
  \A m \in Notes : \/ t.notes[m].wanted = s.notes[m].wanted
                   \/ t.notes[m].wanted = None /\ t.notes[m].parent = s.notes[m].wanted

\* One note is handed over, or none.
LEMMA PutHands ==
  ASSUME NEW s, NEW f, FiledBy(s, f), NEW n \in Notes, NEW t, NEW r, NEW k, Put(s, t, f, n, r, k),
         r.wanted = s.notes[n].wanted \/ (r.wanted = None /\ r.parent = s.notes[n].wanted)
  PROVE  Hands(s, t)
<1>1. t.notes[n] = r /\ \A m \in Notes : m # n => t.notes[m] = s.notes[m]
  BY ONLY FiledBy(s, f), n \in Notes, Put(s, t, f, n, r, k), PutOne
<1> QED BY <1>1 DEF Hands

\* Audio_NoteDisable, Audio_NoteInitForLayer, and what follows.
Disabled(x) == [x EXCEPT !.parent = None, !.prevParent = None, !.priority = 0,
                         !.unk_04 = FALSE, !.finished = FALSE, !.adsr = "off"]
\* A disabled note keeps only its claim, and its place.
LEMMA DisabledField ==
  ASSUME NEW x \in RecType, NEW r, r = Disabled(x)
  PROVE  /\ r \in RecType /\ r.pool = x.pool /\ r.linked = x.linked /\ r.wanted = x.wanted
         /\ r.parent = None /\ r.prevParent = None /\ r.priority = 0 /\ r.unk_04 = FALSE /\ r.adsr = "off"
<1>1. r = [x EXCEPT !.parent = None, !.prevParent = None, !.priority = 0,
                    !.unk_04 = FALSE, !.finished = FALSE, !.adsr = "off"]
  BY DEF Disabled
<1>2. r \in RecType
  <2>1. None \in Layers \cup {None} /\ 0 \in 0 .. 16 /\ FALSE \in BOOLEAN /\ "off" \in {"on", "fading", "off"}
    OBVIOUS
  <2> QED BY ONLY x \in RecType, <1>1, <2>1 DEF RecType
<1>3. /\ r.pool = x.pool /\ r.linked = x.linked /\ r.wanted = x.wanted
      /\ r.parent = None /\ r.prevParent = None /\ r.priority = 0 /\ r.unk_04 = FALSE /\ r.adsr = "off"
  BY <1>1 DEF RecType
<1> QED BY <1>2, <1>3

\* What its envelope does to a note that goes on.
LEMMA UpdatedSorts ==
  ASSUME NEW s, NEW f, NEW O, Sorted(s, f, O), NEW n \in Notes, NEW a \in {s.notes[n].adsr, "off"},
         NEW t, t = Note(s, n, [s.notes[n] EXCEPT !.adsr = a])
  PROVE  Sorts(s, t, O) /\ Hands(s, t)
<1>1. PICK x : x = s.notes[n]
  OBVIOUS
<1>2. FiledBy(s, f) /\ s.layers \in [Layers -> LayerRec]
  BY DEF Sorted
<1>3. x \in RecType /\ f[n] \in Kind /\ Fits(x, f[n], n \in O) /\ x.linked = TRUE
  BY <1>1, OwnerActive
<1>4. PICK r : r = [x EXCEPT !.adsr = a]
  OBVIOUS
<1>5. a \in {"on", "fading", "off"} /\ (a = x.adsr \/ a = "off")
  BY <1>1, <1>3 DEF RecType
<1>6. /\ r \in RecType /\ r.pool = x.pool /\ r.linked = x.linked /\ r.wanted = x.wanted
      /\ r.parent = x.parent /\ r.prevParent = x.prevParent /\ r.priority = x.priority
      /\ r.unk_04 = x.unk_04 /\ r.adsr = a
  BY <1>3, <1>4, <1>5 DEF RecType
<1>7. t.notes = [s.notes EXCEPT ![n] = r] /\ t.layers = s.layers /\ t.lists = s.lists
  BY <1>1, <1>4 DEF Note, State
<1>8. Put(s, t, f, n, r, f[n])
  <2>1. r.pool = s.notes[n].pool /\ r.linked = s.notes[n].linked
    BY <1>1, <1>6
  <2> QED BY ONLY n \in Notes, <1>2, <1>6, <1>7, <2>1, NotePut
<1>9. Fits(r, f[n], n \in O /\ r.wanted = x.wanted)
  BY <1>3, <1>5, <1>6 DEF Fits
<1>10. Sorts(s, t, O)
  BY <1>1, <1>2, <1>6, <1>7, <1>8, <1>9, PutSorts
<1>11. Hands(s, t)
  BY <1>1, <1>2, <1>6, <1>8, PutHands
<1> QED BY <1>10, <1>11

\* A note that is over goes to the disabled list; a claim on one that fades is gone with it.
LEMMA OverSorts ==
  ASSUME NEW s, NEW f, NEW O, Sorted(s, f, O), NEW n \in Notes, NEW fades,
         fades \/ s.notes[n].unk_04 = FALSE, fades => s.notes[n].wanted = None,
         NEW off, off = NoteDisable(s, n), NEW u,
         u = IF fades THEN Note(off, n, [off.notes[n] EXCEPT !.wanted = None]) ELSE off,
         NEW t, t = Moved(u, s.notes[n].pool, "disabled", n)
  PROVE  Sorts(s, t, O) /\ Hands(s, t)
<1>1. PICK x : x = s.notes[n]
  OBVIOUS
<1>2. FiledBy(s, f) /\ s.layers \in [Layers -> LayerRec] /\ "disabled" \in Kind
  BY DEF Sorted, Kind
<1>3. x \in RecType /\ f[n] \in Kind /\ Fits(x, f[n], n \in O) /\ x.linked = TRUE
  BY <1>1, OwnerActive
<1>4. PICK r : r = Disabled(x)
  OBVIOUS
<1>5. /\ r \in RecType /\ r.pool = x.pool /\ r.linked = x.linked /\ r.wanted = x.wanted
      /\ r.parent = None /\ r.prevParent = None /\ r.priority = 0 /\ r.unk_04 = FALSE /\ r.adsr = "off"
  BY <1>3, <1>4, DisabledField
<1>6. s.notes \in [Notes -> RecType]
  BY <1>2 DEF FiledBy
<1>7. off.notes = [s.notes EXCEPT ![n] = r] /\ off.layers = s.layers /\ off.lists = s.lists
  BY <1>1, <1>4 DEF NoteDisable, Disabled, State
<1>8. u.notes = [s.notes EXCEPT ![n] = r] /\ u.layers = s.layers /\ u.lists = s.lists
  <2>1. CASE fades
    <3>1. off.notes[n] = r
      BY <1>6, <1>7
    <3>2. [r EXCEPT !.wanted = None] = r
      <4>1. r.wanted = None
        BY <1>1, <1>5, <2>1
      <4> QED BY <1>5, <4>1 DEF RecType
    <3>3. u = Note(off, n, r)
      BY <2>1, <3>1, <3>2
    <3> QED BY <1>6, <1>7, <3>3 DEF Note, State
  <2>2. CASE ~fades
    BY <1>7, <2>2
  <2> QED BY <2>1, <2>2
<1>9. Put(s, t, f, n, r, "disabled")
  <2>1. r.pool = s.notes[n].pool /\ r.linked = s.notes[n].linked
    BY <1>1, <1>5
  <2>2. Put(s, Moved(u, r.pool, "disabled", n), f, n, r, "disabled")
    BY ONLY n \in Notes, <1>2, <1>3, <1>5, <1>8, <2>1, NoteMoved
  <2> QED BY <2>1, <2>2
<1>10. t.layers = s.layers
  BY <1>8 DEF Moved, AudioListPushBack, AudioListRemove, State
<1>11. Fits(r, "disabled", n \in O /\ r.wanted = x.wanted)
  <2>1. x.wanted # None => n \in O
    BY <1>1, <1>3 DEF Fits
  <2> QED BY <1>2, <1>5, <2>1 DEF Fits
<1>12. Sorts(s, t, O)
  BY <1>1, <1>2, <1>5, <1>9, <1>10, <1>11, PutSorts
<1>13. Hands(s, t)
  BY <1>1, <1>2, <1>5, <1>9, PutHands
<1> QED BY <1>12, <1>13

\* A note that is over goes to the layer that waits for it.
LEMMA HandedSorts ==
  ASSUME NEW s, NEW f, NEW O, Sorted(s, f, O), NEW n \in Notes, NEW l \in Layers, s.notes[n].wanted = l,
         NEW prio \in Priorities, NEW ends,
         NEW given, given = Moved(NoteInitForLayer(NoteDisable(s, n), n, l, prio), s.notes[n].pool, "active", n),
         NEW u, u = Note(given, n, [given.notes[n] EXCEPT !.wanted = None]),
         NEW t, t = Note(u, n, [u.notes[n] EXCEPT !.adsr = AdsrUpdate(u.notes[n].adsr, ends)])
  PROVE  Sorts(s, t, O) /\ Hands(s, t)
<1>1. PICK x : x = s.notes[n]
  OBVIOUS
<1>2. /\ FiledBy(s, f) /\ s.layers \in [Layers -> LayerRec] /\ "active" \in Kind /\ None \notin Layers
      /\ s.notes \in [Notes -> RecType] /\ prio \in 0 .. 16
  BY NoteAssumptions DEF Sorted, Kind, FiledBy
<1>3. x \in RecType /\ f[n] \in Kind /\ Fits(x, f[n], n \in O) /\ x.linked = TRUE
  BY <1>1, OwnerActive
<1>4. PICK d : d = Disabled(x)
  OBVIOUS
<1>5. /\ d \in RecType /\ d.pool = x.pool /\ d.linked = x.linked /\ d.wanted = x.wanted
      /\ d.parent = None /\ d.prevParent = None /\ d.priority = 0 /\ d.unk_04 = FALSE /\ d.adsr = "off"
  BY <1>3, <1>4, DisabledField
<1>6. PICK i : i = [d EXCEPT !.parent = l, !.prevParent = None, !.priority = prio,
                             !.finished = FALSE, !.adsr = "on"]
  OBVIOUS
<1>7. /\ i \in RecType /\ i.pool = x.pool /\ i.linked = x.linked /\ i.parent = l /\ i.prevParent = None
      /\ i.unk_04 = FALSE /\ i.adsr = "on"
  BY <1>2, <1>5, <1>6 DEF RecType
<1>8. PICK v : v = NoteInitForLayer(NoteDisable(s, n), n, l, prio)
  OBVIOUS
<1>9. v.notes = [s.notes EXCEPT ![n] = i] /\ v.layers = [s.layers EXCEPT ![l].note = n] /\ v.lists = s.lists
  <2>1. PICK off : off = NoteDisable(s, n)
    OBVIOUS
  <2>2. off.notes = [s.notes EXCEPT ![n] = d] /\ off.layers = s.layers /\ off.lists = s.lists
    BY <1>1, <1>4, <2>1 DEF NoteDisable, Disabled, State
  <2>3. off.notes[n] = d
    BY <1>2, <2>2
  <2> QED BY <1>2, <1>6, <1>8, <2>1, <2>2, <2>3 DEF NoteInitForLayer, State
<1>10. Put(s, given, f, n, i, "active")
  <2>1. i.pool = s.notes[n].pool /\ i.linked = s.notes[n].linked
    BY <1>1, <1>7
  <2>2. Put(s, Moved(v, i.pool, "active", n), f, n, i, "active")
    BY ONLY n \in Notes, <1>2, <1>3, <1>7, <1>9, <2>1, NoteMoved
  <2> QED BY <1>8, <2>1, <2>2
<1>11. PICK q : q = [i EXCEPT !.wanted = None]
  OBVIOUS
<1>12. /\ q \in RecType /\ q.pool = i.pool /\ q.linked = i.linked /\ q.parent = l /\ q.prevParent = None
       /\ q.unk_04 = FALSE /\ q.adsr = "on" /\ q.wanted = None
  BY <1>7, <1>11 DEF RecType
<1>13. Put(s, u, f, n, q, "active")
  <2>1. given.notes[n] = i
    <3>1. given.notes[n] = i /\ \A m \in Notes : m # n => given.notes[m] = s.notes[m]
      BY ONLY n \in Notes, <1>2, <1>10, PutOne
    <3> QED BY <3>1
  <2>2. u = Note(given, n, q)
    BY <1>11, <2>1
  <2> QED BY ONLY n \in Notes, <1>2, <1>10, <1>12, <2>2, PutNote
<1>14. PICK a : a = AdsrUpdate(q.adsr, ends)
  OBVIOUS
<1>15. a \in {"on", "off"}
  BY <1>12, <1>14 DEF AdsrUpdate
<1>16. PICK r : r = [q EXCEPT !.adsr = a]
  OBVIOUS
<1>17. /\ r \in RecType /\ r.pool = q.pool /\ r.linked = q.linked /\ r.parent = l /\ r.prevParent = None
       /\ r.unk_04 = FALSE /\ r.adsr = a /\ r.wanted = None
  BY <1>12, <1>15, <1>16 DEF RecType
<1>18. Put(s, t, f, n, r, "active")
  <2>1. u.notes[n] = q
    <3>1. u.notes[n] = q /\ \A m \in Notes : m # n => u.notes[m] = s.notes[m]
      BY ONLY n \in Notes, <1>2, <1>13, PutOne
    <3> QED BY <3>1
  <2>2. t = Note(u, n, r)
    BY <1>14, <1>16, <2>1
  <2> QED BY ONLY n \in Notes, <1>2, <1>13, <1>17, <2>2, PutNote
<1>19. t.layers \in [Layers -> LayerRec]
  <2>1. t.layers = v.layers
    BY <1>8 DEF Note, Moved, AudioListPushBack, AudioListRemove, State
  <2>2. n \in Notes \cup {None}
    OBVIOUS
  <2>3. [s.layers EXCEPT ![l].note = n] \in [Layers -> LayerRec]
    BY ONLY l \in Layers, <1>2, <2>2, LayerNote
  <2> QED BY ONLY <1>9, <2>1, <2>3
<1>20. Fits(r, "active", n \in O /\ r.wanted = x.wanted)
  BY <1>2, <1>15, <1>17 DEF Fits
<1>21. Sorts(s, t, O)
  <2>1. r.pool = s.notes[n].pool
    BY <1>1, <1>7, <1>12, <1>17
  <2>2. Fits(r, "active", n \in O /\ r.wanted = s.notes[n].wanted)
    BY <1>1, <1>20
  <2> QED BY ONLY Sorted(s, f, O), n \in Notes, <1>18, <1>19, <2>1, <2>2, PutSorts
<1>22. Hands(s, t)
  BY <1>2, <1>17, <1>18, PutHands
<1> QED BY <1>21, <1>22

\* What the envelope of a note does.
LEMMA ByEnvelopeSorts ==
  ASSUME NEW s, NEW f, NEW O, Sorted(s, f, O), Good(s, open), open \subseteq Channels, NEW n \in Notes,
         NEW prio, s.notes[n].wanted # None => prio \in Priorities, NEW ends,
         NEW t, t = ByEnvelope(s, n, prio, ends)
  PROVE  Sorts(s, t, O) /\ Hands(s, t)
<1>1. PICK r : r = s.notes[n]
  OBVIOUS
<1>2. PICK fades : fades = (r.unk_04 \/ r.finished)
  OBVIOUS
<1>3. PICK over : over = (r.adsr = "off" \/ r.finished)
  OBVIOUS
<1>4. PICK off : off = NoteDisable(s, n)
  OBVIOUS
<1>5. PICK given : given = Moved(NoteInitForLayer(off, n, r.wanted, prio), r.pool, "active", n)
  OBVIOUS
<1>6. PICK u : u = Note(given, n, [given.notes[n] EXCEPT !.wanted = None])
  OBVIOUS
<1>7. PICK handed : handed = Note(u, n, [u.notes[n] EXCEPT !.adsr = AdsrUpdate(u.notes[n].adsr, ends)])
  OBVIOUS
<1>8. PICK w : w = IF fades THEN Note(off, n, [off.notes[n] EXCEPT !.wanted = None]) ELSE off
  OBVIOUS
<1>9. PICK goes : goes = Note(s, n, [r EXCEPT !.adsr = AdsrUpdate(r.adsr, ends)])
  OBVIOUS
<1>10. t = IF r.priority = 0 THEN s ELSE IF ~over THEN goes
           ELSE IF fades /\ r.wanted # None /\ s.layers[r.wanted].channel # None THEN handed
           ELSE Moved(w, r.pool, "disabled", n)
  <2> DEFINE Unclaimed(i) == Note(i, n, [i.notes[n] EXCEPT !.wanted = None])
             Updated(i) == Note(i, n, [i.notes[n] EXCEPT !.adsr = AdsrUpdate(@, ends)])
  <2>1. Updated(s) = goes /\ Updated(u) = handed
    BY <1>1, <1>7, <1>9
  <2>2. Unclaimed(given) = u /\ w = IF fades THEN Unclaimed(off) ELSE off
    BY <1>6, <1>8
  <2>3. t = IF r.priority = 0 THEN s ELSE IF ~over THEN Updated(s)
            ELSE IF fades /\ r.wanted # None /\ s.layers[r.wanted].channel # None
            THEN Updated(Unclaimed(given))
            ELSE Moved(IF fades THEN Unclaimed(off) ELSE off, r.pool, "disabled", n)
    BY <1>1, <1>2, <1>3, <1>4, <1>5 DEF ByEnvelope
  <2> HIDE DEF Unclaimed, Updated
  <2> QED BY <2>1, <2>2, <2>3
<1>11. s.notes[n] \in RecType /\ None \notin Channels
  BY OwnerActive, NoteAssumptions
<1>12. CASE t = s
  <2>1. Hands(s, s)
    BY DEF Hands
  <2> QED BY <1>12, <2>1, SortsSelf
<1>13. CASE t = goes
  <2>1. PICK a : a = AdsrUpdate(r.adsr, ends)
    OBVIOUS
  <2>2. a \in {s.notes[n].adsr, "off"}
    BY <1>1, <2>1 DEF AdsrUpdate
  <2>3. t = Note(s, n, [s.notes[n] EXCEPT !.adsr = a])
    BY <1>1, <1>9, <1>13, <2>1
  <2> QED BY ONLY Sorted(s, f, O), n \in Notes, <2>2, <2>3, UpdatedSorts
<1>14. ASSUME fades, r.wanted # None, t = handed PROVE Sorts(s, t, O) /\ Hands(s, t)
  <2>1. r.wanted \in Layers /\ prio \in Priorities
    BY <1>1, <1>11, <1>14 DEF RecType
  <2>2. PICK l : l = r.wanted
    OBVIOUS
  <2>3. given = Moved(NoteInitForLayer(NoteDisable(s, n), n, l, prio), s.notes[n].pool, "active", n)
    BY <1>1, <1>4, <1>5, <2>2
  <2>4. s.notes[n].wanted = l /\ l \in Layers
    BY <1>1, <2>1, <2>2
  <2>5. t = Note(u, n, [u.notes[n] EXCEPT !.adsr = AdsrUpdate(u.notes[n].adsr, ends)])
    BY <1>7, <1>14
  <2> QED BY ONLY Sorted(s, f, O), n \in Notes, <1>6, <2>1, <2>3, <2>4, <2>5, HandedSorts
<1>15. ASSUME ~(fades /\ r.wanted # None), t = Moved(w, r.pool, "disabled", n) PROVE Sorts(s, t, O) /\ Hands(s, t)
  <2>1. fades \/ s.notes[n].unk_04 = FALSE
    BY <1>1, <1>2, <1>11 DEF RecType
  <2>2. fades => s.notes[n].wanted = None
    BY <1>1, <1>15
  <2>3. t = Moved(w, s.notes[n].pool, "disabled", n)
    BY <1>1, <1>15
  <2> QED BY ONLY Sorted(s, f, O), n \in Notes, <1>4, <1>8, <2>1, <2>2, <2>3, OverSorts
<1>16. r.wanted # None => s.layers[r.wanted].channel # None
  <2>1. r.wanted # None => r.wanted \in Layers
    BY <1>1, <1>11 DEF RecType
  <2>2. \A l \in Layers : Claims(s, n, l) => s.layers[l].channel \in open
    BY DEF Good, LiveIn
  <2> QED BY <1>1, <1>11, <2>1, <2>2 DEF Claims
<1> QED BY <1>10, <1>12, <1>13, <1>14, <1>15, <1>16
-----------------------------------------------------------------------------
(* The calls, one by one.                                                  *)

\* A claim that outlived its note counts only while it is there.
LEMMA FitsLess ==
  ASSUME NEW r, NEW k, NEW o \in BOOLEAN, NEW p \in BOOLEAN, Fits(r, k, o), o /\ r.wanted # None => p
  PROVE  Fits(r, k, p)
BY DEF Fits

\* The layers may become others.
LEMMA LayersSorts ==
  ASSUME NEW s, NEW t, NEW O, Sorts(s, t, O), NEW u, u.notes = t.notes, u.lists = t.lists,
         u.layers \in [Layers -> LayerRec]
  PROVE  Sorts(s, u, O)
<1>1. PICK g : Sorted(t, g, StillOf(s, t, O))
  BY DEF Sorts
<1>2. FiledBy(u, g)
  BY <1>1 DEF Sorted, FiledBy
<1>3. StillOf(s, u, O) = StillOf(s, t, O)
  BY DEF StillOf
<1>4. Sorted(u, g, StillOf(s, u, O))
  BY <1>1, <1>2, <1>3 DEF Sorted
<1> QED BY <1>4 DEF Sorts

\* The invariant of the lists: every note is sorted by its state, into a pool that is open.
Arranged == \E f : Sorted(S, f, orphans)
Pooled == \A n \in Notes : notes[n].pool \in open \cup {Player, Free}
Places == open \subseteq Channels /\ walk \subseteq Channels /\ orphans \subseteq Notes
SInv == Arranged /\ Pooled /\ Places

\* No note is promised to another layer.
NoPromise == \A n \in Notes : notes'[n].wanted \in {notes[n].wanted, None}

\* What a call that sorts the notes leaves.
LEMMA SortedStep ==
  ASSUME NEW t, NEW f, NEW O \in SUBSET Notes, Sorted(t, f, O), Becomes(t),
         \A n \in O : t.notes[n].wanted # None => n \in orphans',
         \A n \in Notes : t.notes[n].pool \in open' \cup {Player, Free},
         Places'
  PROVE  SInv'
<1>1. S'.notes = t.notes /\ S'.layers = t.layers /\ S'.lists = t.lists /\ notes' = t.notes
  BY DEF Becomes, S, State
<1>2. FiledBy(S', f)
  BY <1>1 DEF Sorted, FiledBy
<1>3. ASSUME NEW n \in Notes PROVE Fits(S'.notes[n], f[n], n \in orphans')
  <2>1. Fits(t.notes[n], f[n], n \in O)
    BY DEF Sorted
  <2>2. (n \in O) \in BOOLEAN /\ (n \in orphans') \in BOOLEAN
    BY DEF Places
  <2>3. Fits(t.notes[n], f[n], n \in orphans')
    BY <2>1, <2>2, FitsLess
  <2> QED BY <1>1, <2>3
<1>4. Sorted(S', f, orphans')
  BY <1>1, <1>2, <1>3 DEF Sorted
<1>5. Arranged'
  BY <1>4 DEF Arranged
<1>6. Pooled'
  BY <1>1 DEF Pooled
<1> QED BY <1>5, <1>6 DEF SInv

\* The claims that outlived their notes, after a call.
LEMMA TrackType == ASSUME Places, NEW lost \in SUBSET Notes, Track(lost) PROVE orphans' \subseteq Notes
BY DEF Places, Track

\* A call that leaves every note in its pool.
LEMMA SortsStep ==
  ASSUME SInv, NEW t, Sorts(S, t, orphans), Becomes(t), Track({}), open' = open, walk' \subseteq Channels
  PROVE  SInv'
<1>1. PICK f : Sorted(t, f, StillOf(S, t, orphans))
  BY DEF Sorts
<1> DEFINE O == StillOf(S, t, orphans)
<1>2. O \in SUBSET Notes
  BY DEF StillOf, SInv, Places
<1>3. S.notes = notes /\ notes' = t.notes
  BY DEF S, State, Becomes
<1>4. \A n \in O : t.notes[n].wanted # None => n \in orphans'
  BY <1>3 DEF StillOf, Track
<1>5. \A n \in Notes : t.notes[n].pool \in open' \cup {Player, Free}
  BY <1>3 DEF Sorts, SInv, Pooled
<1>6. Places'
  BY TrackType DEF SInv, Places
<1> HIDE DEF O
<1> QED BY <1>1, <1>2, <1>4, <1>5, <1>6, SortedStep DEF O

\* Layers that let go of notes do not promise any.
LEMMA LetsGoPromise ==
  ASSUME NEW t, NEW l, LetsGo(S, t, l), notes' = t.notes PROVE NoPromise
BY DEF LetsGo, LetGo, NoPromise, S, State

\* Whether a layer is hushed is yes or no.
LEMMA HushesType == ASSUME NEW l, NEW hushed \in Hushes(l) PROVE hushed \in BOOLEAN
BY DEF Hushes

\* A layer lets go of its note.
LEMMA LetsGoStep ==
  ASSUME SInv, NEW l \in Layers, NEW hushed \in BOOLEAN
  PROVE  LET t == SeqLayerDecayRelease(S, l, "decay", hushed)
         IN  Sorts(S, t, orphans) /\ t.layers = layers /\ LetsGo(S, t, l)
<1>1. PICK f : Sorted(S, f, orphans)
  BY DEF SInv, Arranged
<1>2. S.layers = layers
  BY DEF S, State
<1>3. LET t == SeqLayerDecayRelease(S, l, "decay", hushed)
      IN  Sorts(S, t, orphans) /\ t.layers = S.layers /\ LetsGo(S, t, l)
  BY ONLY <1>1, l \in Layers, hushed \in BOOLEAN, DecaySorts
<1> QED BY ONLY <1>2, <1>3

\* The layers are records.
LEMMA LayersType == ASSUME SInv PROVE layers \in [Layers -> LayerRec]
BY DEF SInv, Arranged, Sorted, S, State

\* Another record for a layer.
LEMMA LayerPut ==
  ASSUME NEW ls \in [Layers -> LayerRec], NEW l \in Layers
  PROVE  /\ \A c \in Channels : [ls EXCEPT ![l] = [used |-> TRUE, channel |-> c, enabled |-> TRUE,
                                                  note |-> None]] \in [Layers -> LayerRec]
         /\ [ls EXCEPT ![l] = [@ EXCEPT !.used = FALSE, !.enabled = FALSE]] \in [Layers -> LayerRec]
BY DEF LayerRec

\* AudioSeq_SeqChannelSetLayer.
LEMMA SetLayerSorts ==
  ASSUME SInv, NEW c, NEW l \in Layers, NEW hushed \in Hushes(l), SetLayer(c, l, hushed)
  PROVE  SInv' /\ NoPromise
<1>1. PICK s : s = IF layers[l].used THEN SeqLayerDecayRelease(S, l, "decay", hushed) ELSE S
  OBVIOUS
<1>2. PICK t : t = State(s.notes, [s.layers EXCEPT ![l] = [used |-> TRUE, channel |-> c, enabled |-> TRUE,
                                                           note |-> None]], s.lists)
  OBVIOUS
<1>3. c \in open /\ Becomes(t) /\ Track({}) /\ open' = open /\ walk' = walk
  BY <1>1, <1>2 DEF SetLayer
<1>4. Sorts(S, s, orphans) /\ s.layers = layers /\ LetsGo(S, s, l)
  <2>1. CASE layers[l].used
    <3>1. hushed \in BOOLEAN
      BY HushesType
    <3> QED BY <1>1, <2>1, <3>1, LetsGoStep
  <2>2. CASE ~layers[l].used
    <3>1. s = S
      BY <1>1, <2>2
    <3>2. PICK f : Sorted(S, f, orphans)
      BY DEF SInv, Arranged
    <3>3. Sorts(S, S, orphans)
      BY ONLY <3>2, SortsSelf
    <3>4. LetsGo(S, S, l)
      BY DEF LetsGo, LetGo
    <3>5. S.layers = layers
      BY DEF S, State
    <3> QED BY <3>1, <3>3, <3>4, <3>5
  <2> QED BY <2>1, <2>2
<1>5. t.notes = s.notes /\ t.lists = s.lists /\ t.layers \in [Layers -> LayerRec]
  <2>1. c \in Channels
    BY <1>3 DEF SInv, Places
  <2> QED BY <1>2, <1>4, <2>1, LayersType, LayerPut DEF State
<1>6. Sorts(S, t, orphans)
  BY ONLY <1>4, <1>5, LayersSorts
<1>7. LetsGo(S, t, l) /\ notes' = t.notes
  BY <1>3, <1>4, <1>5 DEF LetsGo, Becomes
<1>8. NoPromise
  BY ONLY <1>7, LetsGoPromise
<1>9. SInv'
  BY <1>3, <1>6, SortsStep DEF SInv, Places
<1> QED BY <1>8, <1>9

\* AudioSeq_SeqLayerFree, alone or in the walk over the layers of channels.
LEMMA FreeSorts ==
  ASSUME SInv, NEW l \in Layers, NEW hushed \in Hushes(l), Becomes(SeqLayerFree(S, l, hushed)),
         Track({}), open' = open, walk' \subseteq Channels
  PROVE  SInv' /\ NoPromise
<1>1. PICK s : s = SeqLayerDecayRelease(S, l, "decay", hushed)
  OBVIOUS
<1>2. PICK t : t = SeqLayerFree(S, l, hushed)
  OBVIOUS
<1>3. t = State(s.notes, [s.layers EXCEPT ![l] = [@ EXCEPT !.used = FALSE, !.enabled = FALSE]], s.lists)
  BY <1>1, <1>2 DEF SeqLayerFree
<1>4. Sorts(S, s, orphans) /\ s.layers = layers /\ LetsGo(S, s, l)
  BY <1>1, HushesType, LetsGoStep
<1>5. t.notes = s.notes /\ t.lists = s.lists /\ t.layers \in [Layers -> LayerRec]
  BY <1>3, <1>4, LayersType, LayerPut DEF State
<1>6. Sorts(S, t, orphans)
  BY ONLY <1>4, <1>5, LayersSorts
<1>7. LetsGo(S, t, l) /\ notes' = t.notes /\ Becomes(t)
  BY <1>2, <1>4, <1>5 DEF LetsGo, Becomes
<1>8. NoPromise
  BY ONLY <1>7, LetsGoPromise
<1>9. SInv'
  BY <1>6, <1>7, SortsStep
<1> QED BY <1>8, <1>9

\* A layer stops its note.
LEMMA StopSorts ==
  ASSUME SInv, NEW l \in Layers, NEW hushed \in Hushes(l), StopNote(l, hushed) PROVE SInv' /\ NoPromise
<1>1. PICK t : t = SeqLayerDecayRelease(S, l, "decay", hushed)
  OBVIOUS
<1>2. Sorts(S, t, orphans) /\ LetsGo(S, t, l)
  BY <1>1, HushesType, LetsGoStep
<1>3. Becomes(t) /\ Track({}) /\ open' = open /\ walk' = walk
  BY <1>1 DEF StopNote
<1>4. NoPromise
  BY <1>2, <1>3, LetsGoPromise DEF Becomes
<1> QED BY <1>2, <1>3, <1>4, SortsStep DEF SInv, Places

\* A note that differs at most in its pool is sorted as before.
Repooled(r, q) ==
  /\ q.parent = r.parent /\ q.prevParent = r.prevParent /\ q.wanted = r.wanted
  /\ q.priority = r.priority /\ q.unk_04 = r.unk_04 /\ q.adsr = r.adsr

\* A note whose pool is assigned.
LEMMA RepooledField ==
  ASSUME NEW r \in RecType, NEW p, NEW q, q = [r EXCEPT !.pool = p] PROVE Repooled(r, q) /\ q.pool = p
BY DEF RecType, Repooled

\* Notes go to other pools.
LEMMA PoolsSorted ==
  ASSUME NEW s, NEW f, NEW O, Sorted(s, f, O), NEW t, FiledBy(t, f), t.layers = s.layers,
         \A n \in Notes : Repooled(s.notes[n], t.notes[n])
  PROVE  Sorted(t, f, O) /\ \A n \in Notes : t.notes[n].wanted = s.notes[n].wanted
<1>1. ASSUME NEW n \in Notes PROVE Fits(t.notes[n], f[n], n \in O)
  <2>1. Fits(s.notes[n], f[n], n \in O) /\ Repooled(s.notes[n], t.notes[n])
    BY DEF Sorted
  <2> QED BY ONLY <2>1 DEF Fits, Repooled
<1>2. \A n \in Notes : t.notes[n].wanted = s.notes[n].wanted
  BY DEF Repooled
<1> QED BY <1>1, <1>2 DEF Sorted

\* What a call leaves that moves notes between the pools.
LEMMA PoolsStep ==
  ASSUME SInv, NEW f, Sorted(S, f, orphans), NEW t, Sorted(t, f, orphans), Becomes(t),
         \A n \in Notes : t.notes[n].wanted = S.notes[n].wanted,
         orphans' = orphans \/ Track({}),
         \A n \in Notes : t.notes[n].pool \in open' \cup {Player, Free},
         open' \subseteq Channels, walk' \subseteq Channels
  PROVE  SInv' /\ NoPromise
<1>1. S.notes = notes /\ notes' = t.notes
  BY DEF S, State, Becomes
<1>2. orphans \in SUBSET Notes
  BY DEF SInv, Places
<1>3. \A n \in orphans : t.notes[n].wanted # None => n \in orphans'
  BY <1>1, <1>2 DEF Track
<1>4. Places'
  BY TrackType DEF SInv, Places
<1>5. SInv'
  BY <1>2, <1>3, <1>4, SortedStep
<1> QED BY <1>1, <1>5 DEF NoPromise

\* The notes are sorted by some f.
LEMMA SInvSorted ==
  ASSUME SInv
  PROVE  \E f : Sorted(S, f, orphans) /\ FiledBy(S, f) /\ Settled(f)
<1>1. PICK f : Sorted(S, f, orphans)
  BY DEF SInv, Arranged
<1> QED BY <1>1, SortedSettled

\* Audio_NotePoolFill for a script.
LEMMA FillPoolSorts ==
  ASSUME SInv, NEW p, NEW count \in PoolSizes, FillPool(p, count) PROVE SInv' /\ NoPromise
<1>1. PICK f : Sorted(S, f, orphans) /\ FiledBy(S, f) /\ Settled(f)
  BY SInvSorted
<1>2. PICK t : t = NotePoolFill(S, p, count)
  OBVIOUS
<1>3. Becomes(t) /\ Track({}) /\ open' = open /\ walk' = walk /\ p \in open \cup {Player}
  BY <1>2 DEF FillPool
<1>4. p \in Pools /\ p # Free /\ count \in Nat
  BY <1>3, NoteAssumptions DEF Pools, SInv, Places
<1>5. /\ FiledBy(t, f) /\ t.layers = S.layers
      /\ \A n \in Notes : t.notes[n] \in {S.notes[n], [S.notes[n] EXCEPT !.pool = p],
                                         [S.notes[n] EXCEPT !.pool = Free]}
  <2>1. LET u == NotePoolFill(S, p, count)
        IN  /\ FiledBy(u, f) /\ u.layers = S.layers
            /\ \A n \in Notes : u.notes[n] \in {S.notes[n], [S.notes[n] EXCEPT !.pool = p],
                                               [S.notes[n] EXCEPT !.pool = Free]}
    BY ONLY <1>1, <1>4, FillFiled
  <2> QED BY ONLY <1>2, <2>1
<1>6. ASSUME NEW n \in Notes
      PROVE  Repooled(S.notes[n], t.notes[n]) /\ t.notes[n].pool \in open' \cup {Player, Free}
  <2>1. S.notes[n] \in RecType
    BY <1>1 DEF FiledBy
  <2>2. S.notes[n].pool \in open \cup {Player, Free}
    BY DEF SInv, Pooled, S, State
  <2>3. CASE t.notes[n] = S.notes[n]
    BY <1>3, <2>2, <2>3 DEF Repooled
  <2>4. CASE t.notes[n] = [S.notes[n] EXCEPT !.pool = p]
    <3>1. Repooled(S.notes[n], t.notes[n]) /\ t.notes[n].pool = p
      BY ONLY <2>1, <2>4, RepooledField
    <3> QED BY <1>3, <3>1
  <2>5. CASE t.notes[n] = [S.notes[n] EXCEPT !.pool = Free]
    <3>1. Repooled(S.notes[n], t.notes[n]) /\ t.notes[n].pool = Free
      BY ONLY <2>1, <2>5, RepooledField
    <3> QED BY <3>1
  <2> QED BY <1>5, <2>3, <2>4, <2>5
<1>7. Sorted(t, f, orphans) /\ \A n \in Notes : t.notes[n].wanted = S.notes[n].wanted
  <2>1. Sorted(S, f, orphans) /\ FiledBy(t, f) /\ t.layers = S.layers
        /\ \A n \in Notes : Repooled(S.notes[n], t.notes[n])
    BY <1>1, <1>5, <1>6
  <2> QED BY ONLY <2>1, PoolsSorted
<1>8. \A n \in Notes : t.notes[n].pool \in open' \cup {Player, Free}
  BY <1>6
<1> QED BY <1>1, <1>3, <1>7, <1>8, PoolsStep DEF SInv, Places

\* Audio_NotePoolClear for a pool: its notes are free.
LEMMA ClearSorts ==
  ASSUME NEW s, NEW f, NEW O, Sorted(s, f, O), NEW p \in Pools, NEW t, t = Clear(s, p)
  PROVE  /\ Sorted(t, f, O)
         /\ \A n \in Notes : /\ t.notes[n].wanted = s.notes[n].wanted
                             /\ t.notes[n].pool = IF s.notes[n].pool = p THEN Free ELSE s.notes[n].pool
<1>1. FiledBy(s, f) /\ Settled(f)
  BY SortedSettled
<1>2. /\ FiledBy(t, f) /\ t.layers = s.layers
      /\ t.notes = [n \in Notes |-> IF s.notes[n].pool = p
                                    THEN [s.notes[n] EXCEPT !.pool = Free] ELSE s.notes[n]]
  <2>1. /\ FiledBy(Clear(s, p), f) /\ Clear(s, p).layers = s.layers
        /\ Clear(s, p).notes = [n \in Notes |-> IF s.notes[n].pool = p
                                                THEN [s.notes[n] EXCEPT !.pool = Free] ELSE s.notes[n]]
    BY ONLY <1>1, p \in Pools, ClearFiled
  <2> QED BY ONLY <2>1, t = Clear(s, p)
<1>3. ASSUME NEW n \in Notes
      PROVE  /\ Repooled(s.notes[n], t.notes[n])
             /\ t.notes[n].pool = IF s.notes[n].pool = p THEN Free ELSE s.notes[n].pool
  <2>1. s.notes[n] \in RecType
    BY <1>1 DEF FiledBy
  <2>2. CASE s.notes[n].pool = p
    <3>1. t.notes[n] = [s.notes[n] EXCEPT !.pool = Free]
      BY <1>2, <2>2
    <3>2. Repooled(s.notes[n], t.notes[n]) /\ t.notes[n].pool = Free
      BY ONLY <2>1, <3>1, RepooledField
    <3> QED BY <2>2, <3>2
  <2>3. CASE s.notes[n].pool # p
    BY <1>2, <2>3 DEF Repooled
  <2> QED BY <2>2, <2>3
<1>4. Sorted(t, f, O) /\ \A n \in Notes : t.notes[n].wanted = s.notes[n].wanted
  <2>1. Sorted(s, f, O) /\ FiledBy(t, f) /\ t.layers = s.layers
        /\ \A n \in Notes : Repooled(s.notes[n], t.notes[n])
    BY <1>2, <1>3
  <2> QED BY ONLY <2>1, PoolsSorted
<1> QED BY <1>3, <1>4

\* AudioSeq_SequenceChannelDisable.
LEMMA ChannelDisableSorts ==
  ASSUME SInv, NEW c \in Channels, NEW close, ChannelDisable(c, close) PROVE SInv' /\ NoPromise
<1>1. PICK f : Sorted(S, f, orphans)
  BY DEF SInv, Arranged
<1>2. PICK t : t = Clear(S, c)
  OBVIOUS
<1>3. Becomes(t) /\ orphans' = orphans /\ open' \in {open, open \ {c}} /\ walk' = {}
  BY <1>2 DEF ChannelDisable, ChannelClear
<1>4. c \in Pools
  BY DEF Pools
<1>5. /\ Sorted(t, f, orphans)
      /\ \A n \in Notes : /\ t.notes[n].wanted = S.notes[n].wanted
                          /\ t.notes[n].pool = IF S.notes[n].pool = c THEN Free ELSE S.notes[n].pool
  BY ONLY <1>1, <1>2, <1>4, ClearSorts
<1>6. \A n \in Notes : S.notes[n].pool \in open \cup {Player, Free}
  BY DEF SInv, Pooled, S, State
<1>7. \A n \in Notes : t.notes[n].pool \in open' \cup {Player, Free}
  BY <1>3, <1>5, <1>6
<1>8. open' \subseteq Channels /\ walk' \subseteq Channels
  BY <1>3 DEF SInv, Places
<1> QED BY <1>1, <1>3, <1>5, <1>7, <1>8, PoolsStep

\* AudioSeq_SequencePlayerDisable, channel by channel.
LEMMA PlayerDisableSorts ==
  ASSUME SInv, NEW c \in Channels, PlayerDisable(c) PROVE SInv' /\ NoPromise
<1>1. PICK f : Sorted(S, f, orphans)
  BY DEF SInv, Arranged
<1>2. PICK s : s = Clear(S, c)
  OBVIOUS
<1>3. PICK u : u = Clear(s, Player)
  OBVIOUS
<1>4. PICK t : t = IF open = {c} THEN u ELSE s
  OBVIOUS
<1>5. Becomes(t) /\ orphans' = orphans /\ open' = open \ {c} /\ walk' = open \ {c}
  BY <1>2, <1>3, <1>4 DEF PlayerDisable, ChannelClear
<1>6. c \in Pools /\ Player \in Pools
  BY DEF Pools
<1>7. /\ Sorted(s, f, orphans)
      /\ \A n \in Notes : /\ s.notes[n].wanted = S.notes[n].wanted
                          /\ s.notes[n].pool = IF S.notes[n].pool = c THEN Free ELSE S.notes[n].pool
  BY ONLY <1>1, <1>2, <1>6, ClearSorts
<1>8. /\ Sorted(u, f, orphans)
      /\ \A n \in Notes : /\ u.notes[n].wanted = s.notes[n].wanted
                          /\ u.notes[n].pool = IF s.notes[n].pool = Player THEN Free ELSE s.notes[n].pool
  BY ONLY <1>3, <1>6, <1>7, ClearSorts
<1>9. \A n \in Notes : S.notes[n].pool \in open \cup {Player, Free}
  BY DEF SInv, Pooled, S, State
<1>10. /\ Sorted(t, f, orphans)
       /\ \A n \in Notes : /\ t.notes[n].wanted = S.notes[n].wanted
                           /\ t.notes[n].pool \in open' \cup {Player, Free}
  <2>1. CASE t = s
    BY <1>5, <1>7, <1>9, <2>1
  <2>2. CASE t = u
    BY <1>5, <1>7, <1>8, <1>9, <2>2
  <2> QED BY <1>4, <2>1, <2>2
<1>11. open' \subseteq Channels /\ walk' \subseteq Channels
  BY <1>5 DEF SInv, Places
<1> QED BY <1>1, <1>5, <1>10, <1>11, PoolsStep

\* A channel opens: it keeps no note, so none is lost with its lists.
LEMMA SetupChannelSorts ==
  ASSUME SInv, NEW c \in Channels, SetupChannel(c) PROVE SInv' /\ NoPromise
<1>1. PICK f : Sorted(S, f, orphans) /\ FiledBy(S, f) /\ Settled(f)
  BY SInvSorted
<1>2. PICK t : t = State(notes, layers, [lists EXCEPT ![c] = [k \in Kind |-> <<>>]])
  OBVIOUS
<1>3. /\ Becomes(t) /\ orphans' = orphans /\ open' = open \cup {c} /\ walk' = walk /\ c \notin open
      /\ t.notes = S.notes /\ t.layers = S.layers
      /\ t.lists = [S.lists EXCEPT ![c] = [k \in Kind |-> <<>>]]
  BY <1>2 DEF SetupChannel, State, S, Becomes
<1>4. c \in Pools /\ \A n \in Notes : S.notes[n].pool \in open \cup {Player, Free}
  BY DEF Pools, SInv, Pooled, S, State
<1>5. \A n \in Notes : S.notes[n].pool # c
  BY <1>3, <1>4, NoteAssumptions
<1>6. FiledBy(t, f)
  BY <1>1, <1>3, <1>4, <1>5, SetupFiled
<1>7. Sorted(t, f, orphans)
  BY <1>1, <1>3, <1>6 DEF Sorted
<1>8. open' \subseteq Channels /\ walk' \subseteq Channels
  BY <1>3 DEF SInv, Places
<1>9. \A n \in Notes : t.notes[n].pool \in open' \cup {Player, Free} /\ t.notes[n].wanted = S.notes[n].wanted
  BY <1>3, <1>4
<1> QED BY <1>1, <1>3, <1>7, <1>8, <1>9, PoolsStep

\* AUDIOCMD_OP_GLOBAL_UNMUTE.
LEMMA UnmuteSorts == ASSUME SInv, NEW chans, Unmute(chans) PROVE SInv' /\ NoPromise
<1>1. PICK f : Sorted(S, f, orphans) /\ FiledBy(S, f) /\ Settled(f)
  BY SInvSorted
<1>2. PICK ended : notes' = [n \in Notes |-> IF n \in ended THEN [notes[n] EXCEPT !.finished = TRUE]
                                            ELSE notes[n]]
  BY DEF Unmute
<1>3. PICK t : t = State(notes', layers, lists)
  OBVIOUS
<1>4. /\ Becomes(t) /\ orphans' = orphans /\ open' = open /\ walk' = walk
      /\ t.layers = S.layers /\ t.lists = S.lists /\ t.notes = notes' /\ S.notes = notes
  BY <1>3 DEF Unmute, State, S, Becomes
<1>5. ASSUME NEW n \in Notes
      PROVE  /\ t.notes[n] \in RecType /\ t.notes[n].pool = S.notes[n].pool
             /\ t.notes[n].linked = S.notes[n].linked /\ t.notes[n].wanted = S.notes[n].wanted
             /\ Fits(t.notes[n], f[n], n \in orphans)
  <2>1. S.notes[n] \in RecType /\ Fits(S.notes[n], f[n], n \in orphans)
    BY <1>1 DEF Sorted, FiledBy
  <2>2. PICK r : r = [S.notes[n] EXCEPT !.finished = TRUE]
    OBVIOUS
  <2>3. r \in RecType
    BY ONLY <2>1, <2>2, TRUE \in BOOLEAN DEF RecType
  <2>4. r.pool = S.notes[n].pool /\ r.linked = S.notes[n].linked /\ r.wanted = S.notes[n].wanted
        /\ r.parent = S.notes[n].parent /\ r.prevParent = S.notes[n].prevParent
        /\ r.priority = S.notes[n].priority /\ r.unk_04 = S.notes[n].unk_04 /\ r.adsr = S.notes[n].adsr
    BY ONLY <2>1, <2>2 DEF RecType
  <2>5. Fits(r, f[n], n \in orphans)
    BY ONLY <2>1, <2>4 DEF Fits
  <2>6. t.notes[n] = r \/ t.notes[n] = S.notes[n]
    BY <1>2, <1>4, <2>2
  <2> QED BY <2>1, <2>3, <2>4, <2>5, <2>6
<1>6. t.notes \in [Notes -> RecType]
  BY <1>2, <1>4, <1>5
<1>7. FiledBy(t, f)
  BY <1>1, <1>4, <1>5, <1>6, SameFiled
<1>8. Sorted(t, f, orphans)
  BY <1>1, <1>4, <1>5, <1>7 DEF Sorted
<1>9. open' \subseteq Channels /\ walk' \subseteq Channels
  BY <1>4 DEF SInv, Places
<1>10. \A n \in Notes : t.notes[n].pool \in open' \cup {Player, Free} /\ t.notes[n].wanted = S.notes[n].wanted
  BY <1>4, <1>5 DEF SInv, Pooled
<1> QED BY <1>1, <1>4, <1>8, <1>9, <1>10, PoolsStep

\* AudioHeap_DiscardFont: the claims on the notes that go are left behind in them.
LEMMA DiscardFontSorts ==
  ASSUME SInv, NEW gone \in SUBSET Notes, DiscardFont(gone) PROVE SInv' /\ NoPromise
<1>1. PICK f : Sorted(S, f, orphans) /\ FiledBy(S, f) /\ Settled(f)
  BY SInvSorted
<1> DEFINE off == {l \in Layers : \E n \in gone : /\ ~notes[n].unk_04 /\ notes[n].priority # 0
                                                  /\ notes[n].parent = l}
           ns == [n \in Notes |-> IF n \in gone THEN Discarded(S.notes[n]) ELSE S.notes[n]]
           g == [n \in Notes |-> IF n \in gone THEN "disabled" ELSE f[n]]
<1>2. /\ Scripts
      /\ layers' = [l \in Layers |-> IF l \in off THEN [layers[l] EXCEPT !.enabled = FALSE] ELSE layers[l]]
      /\ notes' = [n \in Notes |-> IF n \in gone
                                   THEN [NoteDisable(S, n).notes[n] EXCEPT !.pool = Free, !.linked = TRUE] ELSE notes[n]]
      /\ lists' = Silenced(gone, lists)
      /\ Track(gone)
      /\ UNCHANGED <<open, walk, turn>>
  BY ONLY DiscardFont(gone) DEF DiscardFont, Silenced, off
<1>3. lists = S.lists /\ notes = S.notes /\ layers = S.layers
  BY DEF S, State
<1>5. ASSUME NEW n \in Notes PROVE notes'[n] = ns[n]
  <2>1. notes[n] \in RecType /\ notes \in [Notes -> RecType]
    BY <1>1, <1>3 DEF FiledBy
  <2>2. NoteDisable(S, n).notes[n] = Disabled(notes[n])
    BY <1>3, <2>1 DEF NoteDisable, State, Disabled
  <2>3. [Disabled(notes[n]) EXCEPT !.pool = Free, !.linked = TRUE] = Discarded(notes[n])
    BY <2>1 DEF Disabled, Discarded, RecType
  <2> QED BY <1>2, <1>3, <2>2, <2>3
<1>6. notes' = ns
  BY <1>2, <1>5
<1>7. PICK t : t = State(notes', layers', lists')
  OBVIOUS
<1>8. t.notes = ns /\ t.lists = Silenced(gone, S.lists) /\ t.layers = layers' /\ Becomes(t)
  BY <1>2, <1>3, <1>6, <1>7 DEF State, Becomes
<1>9. FiledBy(t, g)
  BY ONLY <1>1, <1>8, DiscardFiled DEF ns, g
<1>10. t.layers \in [Layers -> LayerRec]
  <2>1. layers \in [Layers -> LayerRec]
    BY LayersType
  <2> HIDE DEF off
  <2>2. \A l \in Layers : [layers[l] EXCEPT !.enabled = FALSE] \in LayerRec
    BY <2>1 DEF LayerRec
  <2>3. \A l \in Layers : layers'[l] \in LayerRec
    BY ONLY <1>2, <2>1, <2>2
  <2>4. layers' = [l \in Layers |-> layers'[l]]
    BY ONLY <1>2
  <2> QED BY ONLY <1>8, <2>3, <2>4
<1> DEFINE O == orphans \cup gone
<1>11. ASSUME NEW n \in Notes
       PROVE  /\ Fits(t.notes[n], g[n], n \in O)
              /\ t.notes[n].wanted = notes[n].wanted
              /\ t.notes[n].pool \in {notes[n].pool, Free}
  <2>1. notes[n] \in RecType /\ Fits(notes[n], f[n], n \in orphans)
    BY <1>1, <1>3 DEF Sorted, FiledBy
  <2>2. CASE n \in gone
    <3>1. t.notes[n] = Discarded(notes[n]) /\ g[n] = "disabled" /\ (n \in O) = TRUE
      BY <1>3, <1>8, <2>2
    <3>2. PICK q : q = Discarded(notes[n])
      OBVIOUS
    <3>3. /\ q.pool = Free /\ q.parent = None /\ q.prevParent = None /\ q.priority = 0 /\ q.unk_04 = FALSE
          /\ q.adsr = "off" /\ q.wanted = notes[n].wanted
      BY ONLY <2>1, <3>2 DEF Discarded, RecType
    <3>4. Fits(q, "disabled", TRUE)
      BY ONLY <3>3 DEF Fits, Kind
    <3> HIDE DEF g
    <3> QED BY <3>1, <3>2, <3>3, <3>4
  <2>3. CASE n \notin gone
    <3>1. t.notes[n] = notes[n] /\ g[n] = f[n] /\ (n \in O) = (n \in orphans)
      BY <1>3, <1>8, <2>3
    <3> HIDE DEF g
    <3> QED BY <2>1, <3>1
  <2> QED BY <2>2, <2>3
<1>12. Sorted(t, g, O)
  <2> HIDE DEF g, O
  <2> QED BY <1>9, <1>10, <1>11 DEF Sorted
<1>13. O \in SUBSET Notes
  BY DEF SInv, Places
<1>14. \A n \in O : t.notes[n].wanted # None => n \in orphans'
  BY <1>2, <1>8, <1>11, <1>13 DEF Track, Becomes
<1>15. \A n \in Notes : t.notes[n].pool \in open' \cup {Player, Free}
  BY <1>2, <1>11 DEF SInv, Pooled
<1>16. Places'
  <2>1. orphans' \subseteq Notes
    BY <1>2, TrackType DEF SInv
  <2> QED BY <1>2, <2>1 DEF SInv, Places
<1> HIDE DEF O, g
<1>17. SInv'
  BY <1>8, <1>12, <1>13, <1>14, <1>15, <1>16, SortedStep
<1>18. NoPromise
  BY <1>8, <1>11 DEF NoPromise, Becomes
<1> QED BY <1>17, <1>18

\* A note goes to another layer only at a higher priority, unless it fades for nobody or the
\* layer has just let it go.
Higher(n) ==
  (/\ notes'[n].wanted \notin {None, notes[n].wanted}
   /\ notes[n].wanted # None \/ (notes[n].parent # None /\ notes'[n].prevParent # notes'[n].wanted))
  => notes'[n].priority > notes[n].priority

\* A layer lets a note go, or not, and is then given it.
LEMMA GivenHigher ==
  ASSUME NEW r \in RecType, NEW q \in RecType, NEW u, NEW l \in Layers, NEW prio \in 0 .. 16,
         LetGo(r, q, l), Takes(q, u, l, prio, FALSE), r.parent # None => r.wanted = None,
         u.wanted \notin {None, r.wanted},
         r.wanted # None \/ (r.parent # None /\ u.prevParent # u.wanted)
  PROVE  u.priority > r.priority
<1>1. r.priority \in 0 .. 16
  BY DEF RecType
<1>2. u.wanted # q.wanted
  BY DEF LetGo
<1>3. /\ u.wanted = l /\ u.priority = prio
      /\ q.parent # None => q.priority < prio
      /\ q.parent = None => u.prevParent = q.prevParent
      /\ q.wanted = None \/ q.priority < prio
  BY <1>2 DEF Takes
<1>4. CASE q.parent = r.parent /\ q.priority = r.priority /\ q.prevParent = r.prevParent
  <2>1. CASE r.wanted # None
    <3>1. q.wanted = r.wanted
      BY <1>3 DEF LetGo
    <3> QED BY <1>1, <1>3, <1>4, <2>1, <3>1
  <2>2. CASE r.wanted = None
    BY <1>1, <1>3, <1>4, <2>2
  <2> QED BY <2>1, <2>2
<1>5. CASE q.parent = None /\ r.parent = l /\ q.prevParent = l
  <2>1. l # None
    BY NoteAssumptions
  <2> QED BY <1>3, <1>5, <2>1
<1> QED BY <1>4, <1>5 DEF LetGo

\* AudioSeq_SeqLayerProcessScript: a layer starts a note.
LEMMA StartSorts ==
  ASSUME SInv, Inv, NEW l \in Layers, NEW prio \in Priorities, NEW policy \in Policies,
         NEW hushed \in AnyHushes, StartNote(l, prio, policy, hushed)
  PROVE  SInv' /\ \A n \in Notes \ orphans : Higher(n)
<1>1. PICK s : s = SeqLayerDecayRelease(S, l, "decay", hushed)
  OBVIOUS
<1>2. PICK a : a = AllocNote(s, l, prio, policy, hushed)
  OBVIOUS
<1>3. PICK t : t = State(a.s.notes, [a.s.layers EXCEPT ![l].note = a.n], a.s.lists)
  OBVIOUS
<1>4. Becomes(t) /\ Track({}) /\ open' = open /\ walk' = walk /\ layers[l].used
  BY <1>1, <1>2, <1>3 DEF StartNote
<1>5. hushed \in BOOLEAN /\ prio \in 0 .. 16
  BY NoteAssumptions DEF AnyHushes
<1>6. Sorts(S, s, orphans) /\ s.layers = layers /\ LetsGo(S, s, l)
  BY <1>1, <1>5, LetsGoStep
<1>7. Good(s, open) /\ \A m \in Notes : ~Claims(s, m, l)
  BY <1>1, DecayFrees DEF Inv
<1>8. PICK O : O = StillOf(S, s, orphans)
  OBVIOUS
<1>9. PICK f : Sorted(s, f, O)
  BY <1>6, <1>8 DEF Sorts
<1>10. s.layers[l].channel \in Channels
  BY <1>4, <1>6, <1>7 DEF Good, LiveIn, SInv, Places
<1>11. OwnedIn(s) /\ \A m \in Notes : s.notes[m].wanted # l
  BY <1>7 DEF Good, Claims
<1>12. Allocs(s, a.s, l, prio, O, a.n)
  <2>1. LET got == AllocNote(s, l, prio, policy, hushed)
        IN  Allocs(s, got.s, l, prio, O, got.n)
    BY ONLY <1>5, <1>9, <1>10, <1>11, l \in Layers, prio \in Priorities, policy \in Policies, AllocSorts
  <2> QED BY ONLY <1>2, <2>1
<1>13. Sorts(S, a.s, orphans)
  <2>1. Sorts(s, a.s, StillOf(S, s, orphans))
    BY <1>8, <1>12 DEF Allocs
  <2> QED BY ONLY <1>6, <2>1, SortsTwice
<1>14. t.notes = a.s.notes /\ t.lists = a.s.lists /\ t.layers \in [Layers -> LayerRec]
  <2>1. a.s.layers \in [Layers -> LayerRec] /\ a.n \in Notes \cup {None}
    BY <1>12 DEF Allocs, Sorts, Sorted
  <2>2. [a.s.layers EXCEPT ![l].note = a.n] \in [Layers -> LayerRec]
    BY ONLY <2>1, l \in Layers, LayerNote
  <2> QED BY ONLY <1>3, <2>2 DEF State
<1>15. Sorts(S, t, orphans)
  BY ONLY <1>13, <1>14, LayersSorts
<1>16. SInv'
  BY <1>4, <1>15, SortsStep DEF SInv, Places
<1>17. ASSUME NEW n \in Notes \ orphans PROVE Higher(n)
  <2>1. notes[n] = S.notes[n] /\ notes'[n] = t.notes[n] /\ t.notes[n] = a.s.notes[n]
    BY <1>4, <1>14 DEF S, State, Becomes
  <2>2. PICK g : Sorted(S, g, orphans)
    BY DEF SInv, Arranged
  <2>3. notes[n] \in RecType /\ Fits(notes[n], g[n], n \in orphans)
    BY <2>1, <2>2 DEF Sorted, FiledBy
  <2>4. s.notes[n] \in RecType
    BY <1>9 DEF Sorted, FiledBy
  <2>5. notes[n].parent # None => notes[n].wanted = None
    BY <2>3 DEF Fits
  <2>6. LetGo(notes[n], s.notes[n], l)
    BY <1>6, <2>1 DEF LetsGo
  <2>7. Takes(s.notes[n], notes'[n], l, prio, FALSE)
    <3>1. Takes(s.notes[n], notes'[n], l, prio, n \in O)
      BY <1>12, <2>1 DEF Allocs, AllTake
    <3>2. n \notin O
      BY <1>8 DEF StillOf
    <3> QED BY <3>1, <3>2 DEF Takes
  <2>8. SUFFICES ASSUME notes'[n].wanted \notin {None, notes[n].wanted},
                        notes[n].wanted # None \/ (notes[n].parent # None /\ notes'[n].prevParent # notes'[n].wanted)
                 PROVE  notes'[n].priority > notes[n].priority
    BY DEF Higher
  <2> QED BY ONLY <1>5, <2>3, <2>4, <2>5, <2>6, <2>7, <2>8, l \in Layers, GivenHigher
<1> QED BY <1>16, <1>17

\* A tick ends a wait only by handing the note over.
Handed == \A n \in Notes : notes'[n].wanted # notes[n].wanted =>
            notes'[n].wanted = None /\ notes'[n].parent = notes[n].wanted

\* Audio_ProcessNotes for one note.
LEMMA ProcessSorts ==
  ASSUME SInv, Inv, turn + 1 \in Notes, NEW stop \in BOOLEAN, NEW hushed \in BOOLEAN, NEW prio \in Offers,
         NEW ends, ProcessNote(stop, hushed, prio, ends)
  PROVE  SInv' /\ NoPromise /\ Handed
<1>1. PICK n : n = turn + 1
  OBVIOUS
<1>2. PICK b : b = ByLayer(S, n, stop, hushed)
  OBVIOUS
<1>3. PICK t : t = ByEnvelope(b.s, n, prio, ends)
  OBVIOUS
<1>4. PICK f : Sorted(S, f, orphans)
  BY DEF SInv, Arranged
<1>5. n \in Notes /\ Good(S, open)
  BY <1>1 DEF Inv
<1>6. /\ b.then = "on" /\ Sorts(S, b.s, orphans) /\ b.s.layers = S.layers
      /\ \A m \in Notes : b.s.notes[m].wanted = S.notes[m].wanted
  BY ONLY <1>2, <1>4, <1>5, stop \in BOOLEAN, hushed \in BOOLEAN, ByLayerSorts
<1>7. /\ Becomes(IF b.then = "on" THEN ByEnvelope(b.s, n, prio, ends) ELSE b.s)
      /\ Track({})
      /\ walk' = IF b.then = "disable" THEN {layers[notes[n].parent].channel} ELSE {}
      /\ open' = open
  BY <1>1, <1>2 DEF ProcessNote
<1>8. Becomes(t) /\ walk' = {}
  BY <1>3, <1>6, <1>7
<1>9. PICK O : O = StillOf(S, b.s, orphans)
  OBVIOUS
<1>10. PICK g : Sorted(b.s, g, O)
  BY <1>6, <1>9 DEF Sorts
<1>11. Good(b.s, open)
  <2>1. Fewer(S, b.s)
    BY <1>2, <1>5, ByLayerFewer DEF Good
  <2> QED BY <1>5, <2>1, FewerGood
<1>12. b.s.notes[n].wanted # None => prio \in Priorities
  BY <1>1, <1>5, <1>6 DEF Offers, S, State
<1>13. open \subseteq Channels
  BY DEF SInv, Places
<1>14. Sorts(b.s, t, O) /\ Hands(b.s, t)
  BY ONLY <1>3, <1>5, <1>10, <1>11, <1>12, <1>13, ByEnvelopeSorts
<1>15. Sorts(S, t, orphans)
  BY ONLY <1>6, <1>9, <1>14, SortsTwice
<1>16. SInv'
  BY <1>7, <1>8, <1>15, SortsStep
<1>17. S.notes = notes /\ t.notes = notes'
  BY <1>8 DEF S, State, Becomes
<1>18. NoPromise /\ Handed
  BY <1>6, <1>14, <1>17 DEF NoPromise, Handed, Hands
<1> QED BY <1>16, <1>18
-----------------------------------------------------------------------------
(* The lists: the theorems.                                                *)

\* At first every note is disabled, in the free lists.
LEMMA InitSorts == Init => SInv
<1> SUFFICES ASSUME Init PROVE SInv
  OBVIOUS
<1>1. PICK f : f = [n \in Notes |-> "disabled"]
  OBVIOUS
<1>2. PICK q : q = [i \in Notes |-> i]
  OBVIOUS
<1>3. List(q) /\ \A n \in Notes : In(q, n)
  <2>1. NumNotes \in Nat /\ q = [i \in 1 .. NumNotes |-> q[i]] /\ \A i \in 1 .. NumNotes : q[i] = i /\ q[i] \in Notes
    BY <1>2, NoteAssumptions DEF Notes
  <2>2. q \in Seq(Notes) /\ Len(q) = NumNotes
    BY <2>1, ListOf
  <2> QED BY <2>1, <2>2 DEF List, In, Notes
<1>4. List(<< >>) /\ \A n : ~In(<< >>, n)
  BY DEF List, In
<1>5. /\ S.notes = [n \in Notes |-> OffNote(Free)]
      /\ S.layers = [l \in Layers |-> [used |-> FALSE, channel |-> None, enabled |-> FALSE, note |-> None]]
      /\ S.lists = [p \in Pools |-> [k \in Kind |-> IF p = Free /\ k = "disabled" THEN q ELSE <<>>]]
  BY <1>2 DEF Init, S, State
<1>6. PICK r : r = OffNote(Free)
  OBVIOUS
<1>7. /\ r \in RecType /\ r.parent = None /\ r.prevParent = None /\ r.wanted = None /\ r.priority = 0
      /\ r.unk_04 = FALSE /\ r.adsr = "off" /\ r.linked = TRUE /\ r.pool = Free
  <2>1. r = [parent |-> None, prevParent |-> None, wanted |-> None, priority |-> 0, unk_04 |-> FALSE,
             finished |-> FALSE, adsr |-> "off", linked |-> TRUE, pool |-> Free]
    BY <1>6 DEF OffNote
  <2>2. Free \in Pools /\ None \in Layers \cup {None} /\ 0 \in 0 .. 16 /\ TRUE \in BOOLEAN /\ FALSE \in BOOLEAN
        /\ "off" \in {"on", "fading", "off"}
    BY DEF Pools
  <2>3. r \in RecType
    BY ONLY <2>1, <2>2 DEF RecType
  <2> QED BY ONLY <2>1, <2>3
<1>8. "disabled" \in Kind /\ "none" \notin Kind /\ Free \in Pools
  BY DEF Kind, Pools
<1>9. \A n \in Notes : S.notes[n] = r /\ f[n] = "disabled"
  BY <1>1, <1>5, <1>6
<1>10. f \in Filings /\ S.notes \in [Notes -> RecType]
  BY <1>1, <1>5, <1>6, <1>7, <1>8 DEF Filings
<1>11. ASSUME NEW p \in Pools, NEW k \in Kind
       PROVE  /\ List(S.lists[p][k])
              /\ \A n \in Notes : In(S.lists[p][k], n) <=> p = S.notes[n].pool /\ k = f[n]
  <2>1. S.lists[p][k] = IF p = Free /\ k = "disabled" THEN q ELSE << >>
    BY <1>5
  <2>2. CASE p = Free /\ k = "disabled"
    BY <1>3, <1>7, <1>9, <2>1, <2>2
  <2>3. CASE ~(p = Free /\ k = "disabled")
    BY <1>4, <1>7, <1>9, <2>1, <2>3
  <2> QED BY <2>2, <2>3
<1>12. S.lists \in [Pools -> [Kind -> Seq(Notes)]]
  <2>1. q \in Seq(Notes) /\ << >> \in Seq(Notes)
    BY <1>3, <1>4 DEF List
  <2> QED BY <1>5, <2>1
<1>13. FiledBy(S, f)
  <2>1. \A n \in Notes : S.notes[n].linked = (f[n] # "none")
    BY <1>7, <1>9
  <2> QED BY <1>10, <1>11, <1>12, <2>1 DEF FiledBy
<1>14. S.layers \in [Layers -> LayerRec]
  BY <1>5 DEF LayerRec
<1>15. orphans = {}
  BY DEF Init
<1>16. ASSUME NEW n \in Notes PROVE Fits(S.notes[n], f[n], n \in orphans)
  <2>1. Fits(r, "disabled", n \in orphans)
    BY ONLY <1>7, <1>8 DEF Fits
  <2> QED BY ONLY <1>9, <2>1, n \in Notes
<1>17. Arranged
  BY <1>13, <1>14, <1>16 DEF Arranged, Sorted
<1>18. Pooled
  BY <1>5, <1>7, <1>9 DEF Pooled, S, State
<1> QED BY <1>15, <1>17, <1>18 DEF SInv, Places, Init

\* What every step does to the promises.
Stepped == /\ SInv'
           /\ \A n \in Notes \ orphans : Higher(n)
           /\ turn' # turn => Handed

\* A step without a promise.
LEMMA NoneStepped == ASSUME SInv', NoPromise, turn' = turn \/ Handed PROVE Stepped
BY DEF NoPromise, Stepped, Higher

\* A step that changes no note.
LEMMA SameStepped ==
  ASSUME SInv, UNCHANGED <<notes, layers, lists, open, turn, orphans>>, walk' \subseteq Channels PROVE Stepped
<1>1. S' = S
  BY DEF S, State
<1>2. SInv'
  BY <1>1 DEF SInv, Arranged, Pooled, Places
<1>3. NoPromise
  BY DEF NoPromise
<1> QED BY <1>2, <1>3, NoneStepped

\* Every step keeps the notes sorted.
LEMMA StepSorts == SInv /\ Inv /\ Turning /\ [Next]_vars => Stepped
<1> SUFFICES ASSUME SInv, Inv, Turning, [Next]_vars PROVE Stepped
  OBVIOUS
<1>1. ASSUME NEW c \in Channels, NEW l \in Layers, NEW hushed \in Hushes(l), SetLayer(c, l, hushed)
      PROVE  Stepped
  <2>1. SInv' /\ NoPromise
    BY <1>1, SetLayerSorts
  <2> QED BY <1>1, <2>1, NoneStepped DEF SetLayer
<1>2. ASSUME NEW l \in Layers, NEW hushed \in Hushes(l), FreeLayer(l, hushed) PROVE Stepped
  <2>1. /\ Becomes(SeqLayerFree(S, l, hushed)) /\ Track({}) /\ open' = open /\ walk' \subseteq Channels
        /\ turn' = turn
    BY <1>2 DEF FreeLayer, SInv, Places
  <2>2. SInv' /\ NoPromise
    BY <1>2, <2>1, FreeSorts
  <2> QED BY <2>1, <2>2, NoneStepped
<1>3. ASSUME NEW l \in Layers, NEW hushed \in Hushes(l), StopNote(l, hushed) PROVE Stepped
  <2>1. SInv' /\ NoPromise
    BY <1>3, StopSorts
  <2> QED BY <1>3, <2>1, NoneStepped DEF StopNote
<1>4. ASSUME NEW l \in Layers, NEW prio \in Priorities, NEW policy \in Policies, NEW hushed \in AnyHushes,
             StartNote(l, prio, policy, hushed) PROVE Stepped
  <2>1. SInv' /\ \A n \in Notes \ orphans : Higher(n)
    BY <1>4, StartSorts
  <2>2. turn' = turn
    BY <1>4 DEF StartNote
  <2> QED BY <2>1, <2>2 DEF Stepped
<1>5. ASSUME NEW p, NEW count \in PoolSizes, FillPool(p, count) PROVE Stepped
  <2>1. SInv' /\ NoPromise
    BY <1>5, FillPoolSorts
  <2> QED BY <1>5, <2>1, NoneStepped DEF FillPool
<1>6. ASSUME NEW c \in Channels, SetupChannel(c) PROVE Stepped
  <2>1. SInv' /\ NoPromise
    BY <1>6, SetupChannelSorts
  <2> QED BY <1>6, <2>1, NoneStepped DEF SetupChannel
<1>7. ASSUME NEW chans, Unmute(chans) PROVE Stepped
  <2>1. SInv' /\ NoPromise
    BY <1>7, UnmuteSorts
  <2> QED BY <1>7, <2>1, NoneStepped DEF Unmute
<1>8. ASSUME NEW gone \in SUBSET Notes, DiscardFont(gone) PROVE Stepped
  <2>1. SInv' /\ NoPromise
    BY <1>8, DiscardFontSorts
  <2> QED BY <1>8, <2>1, NoneStepped DEF DiscardFont
<1>9. ASSUME NEW stop \in BOOLEAN, NEW hushed \in BOOLEAN, NEW ends, NEW prio \in Offers,
             ProcessNote(stop, hushed, prio, ends) PROVE Stepped
  <2>1. turn + 1 \in Notes
    BY NoteAssumptions DEF Turning, Notes
  <2>2. SInv' /\ NoPromise /\ Handed
    BY <1>9, <2>1, ProcessSorts
  <2> QED BY <2>2, NoneStepped
<1>10. ASSUME NEW c \in open, NEW l \in Layers, NEW chans \in {{c}, open}, NEW hushed \in Hushes(l),
              WalkLayer(chans, c, l, hushed) PROVE Stepped
  <2>1. /\ Becomes(SeqLayerFree(S, l, hushed)) /\ Track({}) /\ open' = open /\ walk' \subseteq Channels
        /\ turn' = turn
    BY <1>10 DEF WalkLayer, SInv, Places
  <2>2. SInv' /\ NoPromise
    BY <1>10, <2>1, FreeSorts
  <2> QED BY <2>1, <2>2, NoneStepped
<1>11. ASSUME NEW c \in Channels, ChannelEnable(c) PROVE Stepped
  BY <1>11, SameStepped DEF ChannelEnable
<1>12. ASSUME NEW c \in Channels, PlayerDisable(c) PROVE Stepped
  <2>1. SInv' /\ NoPromise
    BY <1>12, PlayerDisableSorts
  <2> QED BY <1>12, <2>1, NoneStepped DEF PlayerDisable
<1>13. ASSUME NEW c \in Channels, NEW close, ChannelDisable(c, close) PROVE Stepped
  <2>1. SInv' /\ NoPromise
    BY <1>13, ChannelDisableSorts
  <2> QED BY <1>13, <2>1, NoneStepped DEF ChannelDisable
<1>14. ASSUME Tick PROVE Stepped
  BY <1>9, <1>10, <1>11, <1>12, <1>13, <1>14 DEF Tick
<1>15. ASSUME UNCHANGED vars PROVE Stepped
  BY <1>15, SameStepped DEF vars, SInv, Places
<1> QED BY <1>1, <1>2, <1>3, <1>4, <1>5, <1>6, <1>7, <1>8, <1>14, <1>15 DEF Next

\* The notes are sorted in every state.
LEMMA Sorting == Spec => []SInv
<1>1. SInv /\ Inv /\ Turning /\ [Next]_vars => SInv'
  BY StepSorts DEF Stepped
<1> QED BY InitSorts, Invariance, TurningSpec, <1>1, PTL DEF Spec

\* What the invariant says of one note.
LEMMA NoteSorted ==
  ASSUME SInv
  PROVE  \E f : /\ Sorted(S, f, orphans) /\ FiledBy(S, f) /\ Settled(f)
                /\ \A n \in Notes, k \in Kind : Listed(n, k) <=> f[n] = k
<1>1. PICK f : Sorted(S, f, orphans) /\ FiledBy(S, f) /\ Settled(f)
  BY SInvSorted
<1>2. S.notes = notes /\ S.lists = lists
  BY DEF S, State
<1>3. \A n \in Notes : notes[n].pool \in Pools
  BY <1>1, <1>2 DEF FiledBy, RecType
<1>4. \A n \in Notes, k \in Kind : Listed(n, k) <=> f[n] = k
  BY <1>1, <1>2, <1>3 DEF Listed, FiledBy
<1> QED BY <1>1, <1>4

\* Notes, layers and lists keep their types: a priority never leaves the values
\* of notePriority, and between two calls every note is linked.
THEOREM TypesKept == Spec => []TypeOK
<1>1. SInv /\ Turning => TypeOK
  <2> SUFFICES ASSUME SInv, Turning PROVE TypeOK
    OBVIOUS
  <2>1. PICK f : Sorted(S, f, orphans) /\ FiledBy(S, f) /\ Settled(f)
    BY SInvSorted
  <2>2. S.notes = notes /\ S.lists = lists
    BY DEF S, State
  <2>3. ASSUME NEW n \in Notes PROVE notes[n] \in NoteRec
    <3>1. notes[n] \in RecType
      BY <2>1, <2>2 DEF FiledBy
    <3>2. notes[n].linked = TRUE
      BY <2>1, <2>2 DEF FiledBy, Settled, Kind
    <3>3. PICK r : r = notes[n]
      OBVIOUS
    <3>4. r \in RecType /\ r.linked \in {TRUE} /\ r.priority \in Nat
      <4>1. r \in RecType
        BY <3>1, <3>3
      <4>2. r.linked \in {TRUE}
        BY <3>2, <3>3
      <4>3. r.priority \in 0 .. 16
        BY <4>1 DEF RecType
      <4>4. r.priority \in Nat
        BY ONLY <4>3
      <4> QED BY <4>1, <4>2, <4>4
    <3>5. r \in NoteRec
      BY ONLY <3>4 DEF RecType, NoteRec
    <3> QED BY <3>3, <3>5
  <2>4. notes \in [Notes -> NoteRec]
    BY <2>1, <2>2, <2>3 DEF FiledBy
  <2>5. ASSUME NEW p \in Pools, NEW k \in Kind, NEW i \in DOMAIN lists[p][k] PROVE lists[p][k][i] \in Notes
    <3>1. lists[p][k] \in Seq(Notes)
      BY <2>1, <2>2 DEF FiledBy
    <3> QED BY <3>1
  <2> QED BY <2>4, <2>5, LayersType DEF TypeOK, Turning, SInv, Places
<1> QED BY <1>1, Sorting, TurningSpec, PTL

\* However lists are cleared, filled, walked and set up again, no note is lost and none is
\* in two lists: each is where its pool field says, in a pool that is open.
THEOREM NotesInOneList == Spec => []OneList
<1>1. SInv => OneList
  <2> SUFFICES ASSUME SInv, NEW n \in Notes
               PROVE  LET places == {x \in Slots : lists[x[1]][x[2]][x[3]] = n}
                      IN  /\ Cardinality(places) = 1
                          /\ \A x \in places : x[1] = notes[n].pool
                          /\ notes[n].pool \in open \cup {Player, Free} \cup walk
    BY DEF OneList
  <2>1. PICK f : Sorted(S, f, orphans) /\ FiledBy(S, f) /\ Settled(f)
    BY SInvSorted
  <2>2. S.notes = notes /\ S.lists = lists
    BY DEF S, State
  <2>3. PICK p : p = notes[n].pool
    OBVIOUS
  <2>4. PICK k : k = f[n]
    OBVIOUS
  <2>5. p \in Pools /\ k \in Kind
    BY <2>1, <2>2, <2>3, <2>4 DEF FiledBy, RecType, Settled
  <2>6. \A a \in Pools, b \in Kind : List(lists[a][b]) /\ (In(lists[a][b], n) <=> a = p /\ b = k)
    BY <2>1, <2>2, <2>3, <2>4 DEF FiledBy
  <2>7. PICK i \in 1 .. Len(lists[p][k]) :
          lists[p][k][i] = n /\ \A j \in 1 .. Len(lists[p][k]) : lists[p][k][j] = n => j = i
    <3>1. List(lists[p][k]) /\ In(lists[p][k], n)
      BY <2>5, <2>6
    <3> QED BY <3>1, Place
  <2>8. \A a \in Pools, b \in Kind : DOMAIN lists[a][b] = 1 .. Len(lists[a][b])
    BY <2>6, ListForm DEF List
  <2>9. {x \in Slots : lists[x[1]][x[2]][x[3]] = n} = {<<p, k, i>>}
    <3>1. <<p, k, i>> \in Slots
      <4>1. <<p, k, i>> \in {<<p, k, j>> : j \in DOMAIN lists[p][k]}
        BY <2>5, <2>7, <2>8
      <4> DEFINE In3(a, b) == {<<a, b, j>> : j \in DOMAIN lists[a][b]}
      <4>2. <<p, k, i>> \in In3(p, k)
        BY <4>1
      <4>3. Slots = UNION {In3(a, b) : a \in Pools, b \in Kind}
        BY DEF Slots
      <4> HIDE DEF In3
      <4> QED BY <2>5, <4>2, <4>3
    <3>2. ASSUME NEW x \in Slots, lists[x[1]][x[2]][x[3]] = n PROVE x = <<p, k, i>>
      <4>0. PICK a \in Pools, b \in Kind : \E j \in DOMAIN lists[a][b] : x = <<a, b, j>>
        BY DEF Slots
      <4>1. PICK j \in DOMAIN lists[a][b] : x = <<a, b, j>>
        BY <4>0
      <4>2. lists[a][b][j] = n
        BY <3>2, <4>1
      <4>3. a = p /\ b = k
        BY <2>6, <4>2 DEF In
      <4>4. j = i
        BY <2>5, <2>7, <2>8, <4>2, <4>3
      <4> QED BY <4>1, <4>3, <4>4
    <3> QED BY <2>7, <3>1, <3>2
  <2>10. Cardinality({<<p, k, i>>}) = 1
    BY FS_Singleton
  <2>11. notes[n].pool \in open \cup {Player, Free}
    BY DEF SInv, Pooled
  <2>12. \A x \in {<<p, k, i>>} : x[1] = p
    OBVIOUS
  <2> QED BY ONLY <2>3, <2>9, <2>10, <2>11, <2>12
<1> QED BY <1>1, Sorting, PTL

\* The list a note is in says what it does, so a tick passes over none that still sounds,
\* and a layer that waits for a note waits for one that fades.  A script could ask for
\* priority 0, the one Audio_ProcessNotes takes for a note that is off.
THEOREM ListsTell == ASSUME 0 \notin Priorities PROVE Spec => []SortedByState
<1>1. SInv => SortedByState
  <2> SUFFICES ASSUME SInv PROVE SortedByState
    OBVIOUS
  <2>1. PICK f : /\ Sorted(S, f, orphans) /\ FiledBy(S, f) /\ Settled(f)
                 /\ \A n \in Notes, k \in Kind : Listed(n, k) <=> f[n] = k
    BY NoteSorted
  <2>2. S.notes = notes
    BY DEF S, State
  <2>3. \A n \in Notes : Fits(notes[n], f[n], n \in orphans)
    BY <2>1, <2>2 DEF Sorted
  <2>4. "disabled" \in Kind /\ "decaying" \in Kind /\ "releasing" \in Kind /\ "active" \in Kind
    BY DEF Kind
  <2>5. ASSUME NEW n \in Notes
        PROVE  /\ Listed(n, "active") <=> notes[n].parent # None
               /\ Listed(n, "active") => notes[n].adsr # "fading"
               /\ Listed(n, "disabled") => notes[n].priority = 0 /\ ~notes[n].unk_04 /\ notes[n].adsr = "off"
               /\ Listed(n, "decaying") \/ Listed(n, "releasing") => notes[n].unk_04 /\ notes[n].priority > 0
               /\ notes[n].wanted # None /\ n \notin orphans => Listed(n, "releasing") /\ notes[n].adsr # "on"
    <3>1. /\ Listed(n, "active") <=> f[n] = "active"
          /\ Listed(n, "disabled") <=> f[n] = "disabled"
          /\ Listed(n, "decaying") <=> f[n] = "decaying"
          /\ Listed(n, "releasing") <=> f[n] = "releasing"
      BY <2>1, <2>4
    <3>2. Fits(notes[n], f[n], n \in orphans)
      BY <2>3
    <3> QED BY <3>1, <3>2 DEF Fits
  <2> QED BY <2>5 DEF SortedByState
<1> QED BY <1>1, Sorting, PTL

\* No layer loses its note, or the note it waits for, to one of the same or a lower
\* priority: whatever Audio_AllocNote finds.
THEOREM OnlyHigherTakes == Spec => TakenByHigher
<1>1. SInv /\ Inv /\ Turning /\ [Next]_vars =>
        [\A n \in Notes \ orphans :
           (/\ notes'[n].wanted \notin {None, notes[n].wanted}
            /\ notes[n].wanted # None \/ (notes[n].parent # None /\ notes'[n].prevParent # notes'[n].wanted))
           => notes'[n].priority > notes[n].priority]_vars
  BY StepSorts DEF Stepped, Higher
<1> QED BY <1>1, Sorting, Invariance, TurningSpec, PTL DEF Spec, TakenByHigher

\* A layer that waits for a note gets it, or gives it up itself: a tick never forgets it.
THEOREM WaitsEndWell == Spec => ClaimsKept
<1>1. SInv /\ Inv /\ Turning /\ [Next]_vars =>
        [turn' # turn => \A n \in Notes : notes'[n].wanted # notes[n].wanted =>
           notes'[n].wanted = None /\ notes'[n].parent = notes[n].wanted]_vars
  BY StepSorts DEF Stepped, Handed
<1> QED BY <1>1, Sorting, Invariance, TurningSpec, PTL DEF Spec, ClaimsKept
=============================================================================
