-------------------------- MODULE WorkstationProofs --------------------------
(* What the window of the workbench does with its editors while they are busy,  *)
(* for any number of editors and recordings and whatever the calls return: a    *)
(* recording has one track, and no edit is dropped; and what its program leaves *)
(* of the tunnel to the database.                                               *)
EXTENDS Workstation, WellFoundedInduction, SequenceTheorems, TLAPS
-----------------------------------------------------------------------------
(* Only a track has a session with changes, and a call under way fits the editor *)
(* it was made for: an open or an import fills an editor that has no session yet, *)
(* a save answers without one, and a retry finds nothing to lose.                *)
Clean(s) == ~s.dirty /\ s.sync = "synced"

WorkSound(d) ==
  /\ d.work.op \in {"open", "import"} =>
       d.place = "pending" /\ d.session = None /\ d.work.rec # None
  /\ d.work.op \in {"save", "retry"} => d.place = "track" /\ d.work.rec = d.session.rec
  /\ d.work.op = "retry" => ~d.session.dirty
  /\ d.work.op = "save" => d.work.session = None
  /\ d.work.session # None => Clean(d.work.session) /\ d.work.session.rec = d.work.rec

EditorSound(d) ==
  /\ d.place \in {"unused", "gone"} => d.session = None /\ d.work = None
  /\ d.place = "track" => d.session # None
  /\ d.place # "track" /\ d.session # None => Clean(d.session)
  /\ d.work # None => WorkSound(d)

\* An editor that nothing has been asked of yet.
Blank(d) == d.place = "pending" /\ d.session = None /\ d.work = None /\ ~d.doomed

Stays(d) == d.place \in {"track", "gone"}

Distinct(s) == \A i, j \in DOMAIN s : s[i] = s[j] => i = j

(* The window and its editors.                                                  *)
TracksSound(x, w) ==
  /\ Distinct(w.tracks)
  /\ \A e \in Editors : x[e].place = "track" <=> e \in Tracks(w)
  /\ \A e, f \in Tracks(w) : x[e].session.rec = x[f].session.rec => e = f
  /\ w.removing # None => w.removing \in Tracks(w)
  /\ \A i \in DOMAIN w.queue : Stays(x[w.queue[i]])

FramesSound(x, w, m) ==
  /\ \A i \in DOMAIN w.frames :
       /\ w.frames[i].kind \in SaveDialogs => Stays(x[w.frames[i].editor])
       /\ w.frames[i].kind = "import" =>
            Blank(x[w.frames[i].editor]) /\ w.frames[i].editor # m.editor
  /\ \A i, j \in DOMAIN w.frames :
       w.frames[i].kind = "import" /\ w.frames[j] = w.frames[i] => i = j

MicSound(x, m) ==
  m.editor # None =>
    /\ x[m.editor].place # "unused" /\ ~x[m.editor].doomed
    /\ m.state \in {"ready", "capturing", "take"} => Blank(x[m.editor])

Sound(x, w, m) ==
  /\ \A e \in Editors : EditorSound(x[e])
  /\ TracksSound(x, w)
  /\ FramesSound(x, w, m)
  /\ MicSound(x, m)

WindowInv == TypeOK /\ Sound(ed, win, mic)
-----------------------------------------------------------------------------
(* Editors.                                                                     *)
LEMMA NoneIsNothing ==
  None \notin Recordings /\ None \notin Session /\ None \notin Work /\ None \notin Editors
BY ServiceAssumption, EditorAssumption, WindowAssumption

LEMMA CallType ==
  ASSUME NEW op \in Ops, NEW r \in Recordings \cup {None}
  PROVE  /\ Call(op, r) \in Work /\ Call(op, r) # None
         /\ Call(op, r).op = op /\ Call(op, r).rec = r /\ Call(op, r).session = None
<1>1. Call(op, r) \in Work
  BY DEF Call, Work, Stages
<1> QED BY <1>1, NoneIsNothing DEF Call

LEMMA EditorFields ==
  ASSUME NEW d \in Editor
  PROVE  /\ d.place \in {"unused", "pending", "track", "gone"} /\ d.session \in Session \cup {None}
         /\ d.reading \in BOOLEAN /\ d.work \in Work \cup {None}
         /\ d.target \in Recordings \cup {None} /\ d.doomed \in BOOLEAN
BY DEF Editor

LEMMA UnusedType ==
  /\ Unused \in Editor /\ EditorSound(Unused) /\ Unused.place = "unused"
  /\ [Unused EXCEPT !.place = "gone"] \in Editor
  /\ EditorSound([Unused EXCEPT !.place = "gone"])
  /\ [Unused EXCEPT !.place = "gone"].place = "gone"
  /\ Unused.session = None /\ [Unused EXCEPT !.place = "gone"].session = None
BY DEF Unused, Editor, EditorSound

LEMMA CreatedType ==
  Created \in Editor /\ EditorSound(Created) /\ Blank(Created)
BY DEF Created, Unused, Editor, EditorSound, Blank

(* The requests.                                                                *)
LEMMA FillingType ==
  ASSUME NEW d \in Editor, EditorSound(d), Blank(d), NEW r \in Recordings,
         NEW t, t = Opening(d, r) \/ t = Importing(d, r)
  PROVE  /\ t \in Editor /\ EditorSound(t)
         /\ t.place = "pending" /\ t.session = None /\ ~t.doomed
<1>1. CASE t = Opening(d, r)
  <2>1. PICK call \in Work : /\ call = Call("open", r) /\ call # None
                             /\ call.op = "open" /\ call.session = None /\ call.rec # None
    BY CallType, NoneIsNothing DEF Ops
  <2>2. t = [d EXCEPT !.work = call, !.target = r]
    BY <1>1, <2>1 DEF Opening
  <2>3. t \in Editor /\ t.work = call /\ t.place = "pending" /\ t.session = None /\ ~t.doomed
    BY <2>1, <2>2 DEF Editor, Blank
  <2> QED BY <2>1, <2>3 DEF EditorSound, WorkSound
<1>2. CASE t = Importing(d, r)
  <2>1. PICK call \in Work : /\ call = Call("import", r) /\ call # None
                             /\ call.op = "import" /\ call.session = None /\ call.rec # None
    BY CallType, NoneIsNothing DEF Ops
  <2>2. t = [d EXCEPT !.work = call]
    BY <1>2, <2>1 DEF Importing
  <2>3. t \in Editor /\ t.work = call /\ t.place = "pending" /\ t.session = None /\ ~t.doomed
    BY <2>1, <2>2 DEF Editor, Blank
  <2> QED BY <2>1, <2>3 DEF EditorSound, WorkSound
<1> QED BY <1>1, <1>2

\* What a request leaves alone.
SameEditor(d, t) == t.place = d.place /\ t.session = d.session /\ t.doomed = d.doomed

LEMMA SavingType ==
  ASSUME NEW d \in Editor, EditorSound(d), Stays(d)
  PROVE  Saving(d) \in Editor /\ EditorSound(Saving(d)) /\ SameEditor(d, Saving(d))
<1>1. CASE d.session = None \/ BusyEditor(d)
  BY <1>1 DEF Saving, SameEditor
<1>2. CASE d.session # None /\ ~BusyEditor(d)
  <2>1. d.session \in Session /\ d.session.rec \in Recordings /\ d.place = "track"
    BY <1>2, EditorFields DEF Session, Stays, EditorSound
  <2>2. PICK call \in Work : /\ call = Call("save", d.session.rec) /\ call.op = "save"
                             /\ call.rec = d.session.rec /\ call.session = None
    BY <2>1, CallType DEF Ops
  <2>3. PICK t : t = Saving(d) /\ t = [d EXCEPT !.work = call]
    BY <1>2, <2>2 DEF Saving
  <2>4. t \in Editor /\ t.work = call /\ SameEditor(d, t)
    BY <2>3 DEF Editor, SameEditor
  <2>5. EditorSound(t)
    BY <1>2, <2>1, <2>2, <2>4 DEF EditorSound, WorkSound, SameEditor
  <2> QED BY <2>3, <2>4, <2>5
<1> QED BY <1>1, <1>2

LEMMA RetryingType ==
  ASSUME NEW d \in Editor, EditorSound(d), d.place = "track", ~d.session.dirty
  PROVE  Retrying(d) \in Editor /\ EditorSound(Retrying(d)) /\ SameEditor(d, Retrying(d))
<1>1. d.session # None /\ d.session \in Session /\ d.session.rec \in Recordings
  BY EditorFields DEF Session, EditorSound
<1>2. PICK call \in Work : /\ call = Call("retry", d.session.rec) /\ call.op = "retry"
                           /\ call.rec = d.session.rec /\ call.session = None
  BY <1>1, CallType DEF Ops
<1>3. PICK t : t = Retrying(d) /\ t = [d EXCEPT !.work = call]
  BY <1>1, <1>2 DEF Retrying
<1>4. t \in Editor /\ t.work = call /\ SameEditor(d, t)
  BY <1>3 DEF Editor, SameEditor
<1>5. EditorSound(t)
  BY <1>1, <1>2, <1>4 DEF EditorSound, WorkSound, SameEditor
<1> QED BY <1>3, <1>4, <1>5

LEMMA RefreshingType ==
  ASSUME NEW d \in Editor, EditorSound(d)
  PROVE  /\ Refreshing(d) \in Editor /\ EditorSound(Refreshing(d))
         /\ SameEditor(d, Refreshing(d)) /\ Refreshing(d).work = d.work
<1>1. PICK t : t = Refreshing(d) /\ t = [d EXCEPT !.reading = TRUE]
  BY DEF Refreshing
<1>2. t \in Editor /\ t.work = d.work /\ SameEditor(d, t)
  BY <1>1 DEF Editor, SameEditor
<1>3. EditorSound(t)
  BY <1>2 DEF EditorSound, WorkSound, SameEditor
<1> QED BY <1>1, <1>2, <1>3

-----------------------------------------------------------------------------
(* The window: what callbacks and timers change of it never touches its tracks,  *)
(* its dialogs and what it has still to retry.                                   *)
SameLayout(w, v) ==
  /\ v.tracks = w.tracks /\ v.frames = w.frames /\ v.queue = w.queue
  /\ v.removing = w.removing \/ v.removing = None

LEMMA WindowFields ==
  ASSUME NEW w \in Window
  PROVE  /\ w.tracks \in Seq(Editors) /\ w.closing \in BOOLEAN
         /\ w.removing \in Editors \cup {None} /\ w.retrying \in BOOLEAN
         /\ w.queue \in Seq(Editors) /\ w.awaiting \in Editors \cup {None}
         /\ w.posted \in Seq({"next", "close"}) /\ w.locked \in BOOLEAN /\ w.frames \in Seq(Frame)
BY DEF Window

LEMMA RelockedType ==
  ASSUME NEW w \in Window
  PROVE  Relocked(w) \in Window /\ SameLayout(w, Relocked(w))
BY DEF Window, Relocked, SameLayout

LEMMA PostedType ==
  ASSUME NEW w \in Window, NEW timer \in {"next", "close"}
  PROVE  Posted(w, timer) \in Window /\ SameLayout(w, Posted(w, timer))
<1>1. PICK posted \in Seq({"next", "close"}) : posted = Append(w.posted, timer)
  BY WindowFields, AppendProperties
<1>2. PICK v : v = Posted(w, timer) /\ v = [w EXCEPT !.posted = posted]
  BY <1>1 DEF Posted
<1>3. v \in Window /\ SameLayout(w, v)
  BY <1>2 DEF Window, SameLayout
<1> QED BY <1>2, <1>3

LEMMA LayoutIsTransitive ==
  ASSUME NEW w, NEW v, NEW u, SameLayout(w, v), SameLayout(v, u)
  PROVE  SameLayout(w, u)
BY DEF SameLayout

LEMMA WithdrawnType ==
  ASSUME NEW w \in Window
  PROVE  Withdrawn(w) \in Window /\ SameLayout(w, Withdrawn(w))
<1>1. PICK v : v = [w EXCEPT !.closing = FALSE, !.removing = None]
  OBVIOUS
<1>2. v \in Window /\ SameLayout(w, v)
  BY <1>1 DEF Window, SameLayout
<1>3. Withdrawn(w) = Relocked(v)
  BY <1>1 DEF Withdrawn
<1> QED BY <1>2, <1>3, RelockedType, LayoutIsTransitive

LEMMA HeardType ==
  ASSUME NEW w \in Window, NEW before, NEW after
  PROVE  Heard(w, before, after) \in Window /\ SameLayout(w, Heard(w, before, after))
<1>1. PICK v \in Window : v = Relocked(w) /\ SameLayout(w, v)
  BY RelockedType
<1>2. Posted(v, "close") \in Window /\ SameLayout(v, Posted(v, "close"))
  BY PostedType
<1>3. SameLayout(w, Posted(v, "close"))
  BY <1>1, <1>2, LayoutIsTransitive
<1>4. Heard(w, before, after) \in {w, v, Posted(v, "close")}
  BY <1>1 DEF Heard, BusyChanged
<1>5. SameLayout(w, w)
  BY DEF SameLayout
<1> QED BY <1>1, <1>2, <1>3, <1>4, <1>5

LEMMA SaveFinishedType ==
  ASSUME NEW w \in Window, NEW ok
  PROVE  SaveFinished(w, ok) \in Window /\ SameLayout(w, SaveFinished(w, ok))
<1>1. SaveFinished(w, ok) \in {w, Withdrawn(w)}
  BY DEF SaveFinished
<1>2. SameLayout(w, w)
  BY DEF SameLayout
<1> QED BY <1>1, <1>2, WithdrawnType

LEMMA RecoveryFinishedType ==
  ASSUME NEW w \in Window, NEW e \in Editors, NEW ok
  PROVE  RecoveryFinished(w, e, ok) \in Window /\ SameLayout(w, RecoveryFinished(w, e, ok))
<1>1. PICK v \in Window : v = SaveFinished(w, ok) /\ SameLayout(w, v)
  BY SaveFinishedType
<1>2. PICK u : u = [v EXCEPT !.awaiting = None]
  OBVIOUS
<1>3. u \in Window /\ SameLayout(v, u)
  BY <1>2 DEF Window, SameLayout
<1>4. PICK t : t = [v EXCEPT !.awaiting = None, !.retrying = FALSE]
  OBVIOUS
<1>5. t \in Window /\ SameLayout(v, t)
  BY <1>4 DEF Window, SameLayout
<1>6. RecoveryFinished(w, e, ok) \in {v, Posted(u, "next"), Relocked(t)}
  BY <1>1, <1>2, <1>4 DEF RecoveryFinished
<1>7. Posted(u, "next") \in Window /\ SameLayout(u, Posted(u, "next"))
  BY <1>3, PostedType
<1>8. Relocked(t) \in Window /\ SameLayout(t, Relocked(t))
  BY <1>5, RelockedType
<1> QED BY <1>1, <1>3, <1>5, <1>6, <1>7, <1>8, LayoutIsTransitive
-----------------------------------------------------------------------------
(* Changes of the window and of one editor.                                     *)
Mic == [state : Microphone!States, editor : Editors \cup {None}]

LEMMA FrameType ==
  ASSUME NEW w \in Window, NEW i \in DOMAIN w.frames
  PROVE  /\ w.frames[i] \in Frame
         /\ w.frames[i].kind \in SaveDialogs \cup {"import"} => w.frames[i].editor \in Editors
         /\ w.frames[i].kind \in SaveDialogs \cup {"import", "microphone"}
<1>1. w.frames \in Seq(Frame)
  BY WindowFields
<1>2. w.frames[i] \in Frame
  BY <1>1, ElementOfSeq, LenProperties
<1> QED BY <1>2 DEF Frame, SaveDialogs

LEMMA TracksType ==
  ASSUME NEW w \in Window
  PROVE  /\ Tracks(w) \subseteq Editors
         /\ \A i \in DOMAIN w.tracks : w.tracks[i] \in Tracks(w)
         /\ \A i \in DOMAIN w.queue : w.queue[i] \in Editors
<1>1. w.tracks \in Seq(Editors) /\ w.queue \in Seq(Editors)
  BY WindowFields
<1>2. /\ \A i \in DOMAIN w.tracks : w.tracks[i] \in Editors
      /\ \A i \in DOMAIN w.queue : w.queue[i] \in Editors
  BY <1>1, ElementOfSeq, LenProperties
<1> QED BY <1>2 DEF Tracks

\* A window that has its tracks still, and nothing else to show or to retry.
Narrower(w, v) ==
  /\ v.tracks = w.tracks
  /\ v.removing = w.removing \/ v.removing = None
  /\ \A i \in DOMAIN v.queue : \E j \in DOMAIN w.queue : v.queue[i] = w.queue[j]
  /\ \A i \in DOMAIN v.frames : i \in DOMAIN w.frames /\ v.frames[i] = w.frames[i]

LEMMA LayoutIsNarrower ==
  ASSUME NEW w, NEW v, SameLayout(w, v)
  PROVE  Narrower(w, v)
BY DEF SameLayout, Narrower

LEMMA NarrowerIsSound ==
  ASSUME NEW x, NEW w, NEW v, NEW m, Sound(x, w, m), Narrower(w, v)
  PROVE  Sound(x, v, m)
<1>1. Tracks(v) = Tracks(w)
  BY DEF Tracks, Narrower
<1>2. TracksSound(x, v)
  BY <1>1 DEF Sound, TracksSound, Narrower
<1>3. FramesSound(x, v, m)
  BY DEF Sound, FramesSound, Narrower
<1> QED BY <1>2, <1>3 DEF Sound

LEMMA LayoutIsSound ==
  ASSUME NEW x, NEW w, NEW v, NEW m, Sound(x, w, m), SameLayout(w, v)
  PROVE  Sound(x, v, m)
BY LayoutIsNarrower, NarrowerIsSound

LEMMA EditorChanges ==
  ASSUME NEW x \in [Editors -> Editor], NEW w \in Window, NEW m \in Mic, NEW n \in Mic,
         Sound(x, w, m), NEW e \in Editors, NEW d \in Editor, EditorSound(d),
         d.place = "track" <=> x[e].place = "track",
         d.place = "track" => d.session.rec = x[e].session.rec,
         Stays(x[e]) => Stays(d),
         \A i \in DOMAIN w.frames : w.frames[i].kind = "import" =>
           w.frames[i].editor # n.editor /\ (w.frames[i].editor = e => Blank(d)),
         MicSound([x EXCEPT ![e] = d], n)
  PROVE  [x EXCEPT ![e] = d] \in [Editors -> Editor] /\ Sound([x EXCEPT ![e] = d], w, n)
<1>1. PICK y \in [Editors -> Editor] : y = [x EXCEPT ![e] = d]
  OBVIOUS
<1>2. y[e] = d /\ \A f \in Editors : f # e => y[f] = x[f]
  BY <1>1
<1>3. \A f \in Editors : EditorSound(y[f])
  BY <1>2 DEF Sound
<1>4. TracksSound(y, w)
  <2>1. \A f \in Editors : y[f].place = "track" <=> f \in Tracks(w)
    BY <1>2 DEF Sound, TracksSound
  <2>2. \A f \in Tracks(w) : y[f].session.rec = x[f].session.rec
    BY <1>2, <2>1, TracksType
  <2>3. \A f, g \in Tracks(w) : y[f].session.rec = y[g].session.rec => f = g
    BY <2>2 DEF Sound, TracksSound
  <2>4. \A i \in DOMAIN w.queue : Stays(y[w.queue[i]])
    BY <1>2, TracksType DEF Sound, TracksSound
  <2> QED BY <2>1, <2>3, <2>4 DEF Sound, TracksSound
<1>5. FramesSound(y, w, n)
  <2>1. ASSUME NEW i \in DOMAIN w.frames
        PROVE  /\ w.frames[i].kind \in SaveDialogs => Stays(y[w.frames[i].editor])
               /\ w.frames[i].kind = "import" =>
                    Blank(y[w.frames[i].editor]) /\ w.frames[i].editor # n.editor
    <3>1. CASE w.frames[i].kind \in SaveDialogs
      <4>1. w.frames[i].editor \in Editors /\ Stays(x[w.frames[i].editor])
        BY <3>1, FrameType DEF Sound, FramesSound
      <4>2. w.frames[i].kind # "import"
        BY <3>1 DEF SaveDialogs
      <4> QED BY <1>2, <4>1, <4>2
    <3>2. CASE w.frames[i].kind = "import"
      <4>1. w.frames[i].editor \in Editors /\ Blank(x[w.frames[i].editor])
        BY <3>2, FrameType DEF Sound, FramesSound
      <4>2. w.frames[i].kind \notin SaveDialogs
        BY <3>2 DEF SaveDialogs
      <4> QED BY <1>2, <3>2, <4>1, <4>2
    <3> QED BY <3>1, <3>2
  <2> QED BY <2>1 DEF Sound, FramesSound
<1> QED BY <1>1, <1>3, <1>4, <1>5 DEF Sound

\* Where a session with changes is after a step of the GUI thread.
SameSession(s, t) == t # None /\ t.rec = s.rec /\ t.base = s.base
Retains(x, y) ==
  \A e \in Editors :
    x[e].session # None /\ x[e].session.dirty => SameSession(x[e].session, y[e].session)

LEMMA RetainsAll ==
  ASSUME NEW x
  PROVE  Retains(x, x)
BY DEF Retains, SameSession

LEMMA RetainsOne ==
  ASSUME NEW x \in [Editors -> Editor], NEW e \in Editors, NEW d,
         x[e].session # None /\ x[e].session.dirty => SameSession(x[e].session, d.session)
  PROVE  Retains(x, [x EXCEPT ![e] = d])
<1>1. \A f \in Editors : [x EXCEPT ![e] = d][f] = IF f = e THEN d ELSE x[f]
  OBVIOUS
<1> QED BY <1>1 DEF Retains, SameSession

-----------------------------------------------------------------------------
LEMMA LeastNumber ==
  ASSUME NEW T \in SUBSET Nat, T # {}
  PROVE  \E m \in T : \A k \in T : m <= k
<1> DEFINE R == {pair \in Nat \X Nat : pair[1] < pair[2]}
<1>1. IsWellFoundedOn(R, Nat)
  BY NatLessThanWellFounded DEF OpToRel
<1>2. PICK m \in T : \A k \in T : ~(<<k, m>> \in R)
  BY <1>1, WFMin
<1>3. \A k \in T : ~(k < m)
  BY <1>2
<1> QED BY <1>3

LEMMA MicKept ==
  ASSUME NEW x \in [Editors -> Editor], NEW e \in Editors, NEW d, NEW m \in Mic, MicSound(x, m),
         m.editor = e =>
           /\ d.place # "unused" /\ ~d.doomed
           /\ m.state \in {"ready", "capturing", "take"} => Blank(d)
  PROVE  MicSound([x EXCEPT ![e] = d], m)
<1>1. m.editor \in Editors \cup {None}
  BY DEF Mic
<1> QED BY <1>1 DEF MicSound

\* An editor that something has been asked of goes on where it is.
LEMMA EngagedChanges ==
  ASSUME NEW x \in [Editors -> Editor], NEW w \in Window, NEW m \in Mic, Sound(x, w, m),
         NEW e \in Editors, NEW d \in Editor, EditorSound(d),
         ~Blank(x[e]), d.place = x[e].place, d.doomed = x[e].doomed,
         d.place = "track" => d.session.rec = x[e].session.rec
  PROVE  [x EXCEPT ![e] = d] \in [Editors -> Editor] /\ Sound([x EXCEPT ![e] = d], w, m)
<1>1. \A i \in DOMAIN w.frames : w.frames[i].kind = "import" =>
        w.frames[i].editor # m.editor /\ w.frames[i].editor # e
  BY DEF Sound, FramesSound
<1>2. MicSound([x EXCEPT ![e] = d], m)
  <2>1. m.editor = e => x[e].place # "unused" /\ ~x[e].doomed
                        /\ ~(m.state \in {"ready", "capturing", "take"})
    BY NoneIsNothing DEF Sound, MicSound
  <2> QED BY <2>1, MicKept DEF Sound
<1> QED BY <1>1, <1>2, EditorChanges DEF Stays

\* A new editor.
LEMMA UnmadeChanges ==
  ASSUME NEW x \in [Editors -> Editor], NEW w \in Window, NEW m \in Mic, Sound(x, w, m),
         NEW e \in Editors, x[e].place = "unused",
         NEW d \in Editor, EditorSound(d), d.place = "pending"
  PROVE  /\ [x EXCEPT ![e] = d] \in [Editors -> Editor] /\ Sound([x EXCEPT ![e] = d], w, m)
         /\ Retains(x, [x EXCEPT ![e] = d]) /\ e # m.editor
<1>1. m.editor # e
  BY NoneIsNothing DEF Sound, MicSound
<1>2. \A i \in DOMAIN w.frames : w.frames[i].kind = "import" =>
        w.frames[i].editor # m.editor /\ w.frames[i].editor # e
  BY DEF Sound, FramesSound, Blank
<1>3. MicSound([x EXCEPT ![e] = d], m)
  BY <1>1, MicKept DEF Sound
<1>4. x[e].session = None
  BY DEF Sound, EditorSound
<1> QED BY <1>1, <1>2, <1>3, <1>4, EditorChanges, RetainsOne DEF Stays

LEMMA OpenedSound ==
  ASSUME NEW x, NEW w \in Window, NEW m, Sound(x, w, m), NEW f \in Frame,
         f.kind \in SaveDialogs => Stays(x[f.editor]),
         f.kind = "import" => w.frames = <<>> /\ Blank(x[f.editor]) /\ f.editor # m.editor
  PROVE  LET v == [w EXCEPT !.frames = Append(@, f)] IN v \in Window /\ Sound(x, v, m)
<1>0. /\ Append(w.frames, f) \in Seq(Frame)
      /\ Len(Append(w.frames, f)) = Len(w.frames) + 1
      /\ \A i \in 1..Len(w.frames) : Append(w.frames, f)[i] = w.frames[i]
      /\ Append(w.frames, f)[Len(w.frames) + 1] = f
  <2>1. w.frames \in Seq(Frame)
    BY WindowFields
  <2> QED BY <2>1, AppendProperties
<1>1. PICK frames \in Seq(Frame) :
        /\ frames = Append(w.frames, f) /\ Len(frames) = Len(w.frames) + 1
        /\ \A i \in 1..Len(w.frames) : frames[i] = w.frames[i]
        /\ frames[Len(w.frames) + 1] = f
  BY <1>0
<1>2. PICK v : v = [w EXCEPT !.frames = Append(@, f)] /\ v = [w EXCEPT !.frames = frames]
  BY <1>1
<1>3. /\ v \in Window /\ v.tracks = w.tracks /\ v.removing = w.removing
      /\ v.queue = w.queue /\ v.frames = frames
  BY <1>2 DEF Window
<1>4. TracksSound(x, v)
  BY <1>3 DEF Sound, TracksSound, Tracks
<1>5. /\ DOMAIN w.frames = 1..Len(w.frames) /\ Len(w.frames) \in Nat
      /\ DOMAIN frames = 1..(Len(w.frames) + 1)
  BY <1>1, WindowFields, LenProperties
<1>6. \A i \in DOMAIN frames : frames[i] = f \/ (i \in DOMAIN w.frames /\ frames[i] = w.frames[i])
  BY <1>1, <1>5
<1>7. \A i \in DOMAIN frames :
        /\ frames[i].kind \in SaveDialogs => Stays(x[frames[i].editor])
        /\ frames[i].kind = "import" => Blank(x[frames[i].editor]) /\ frames[i].editor # m.editor
  BY <1>6 DEF Sound, FramesSound
<1>8. \A i, j \in DOMAIN frames : frames[i].kind = "import" /\ frames[j] = frames[i] => i = j
  <2>1. CASE f.kind = "import"
    <3>1. Len(w.frames) = 0
      BY <2>1
    <3> QED BY <1>5, <3>1
  <2>2. CASE f.kind # "import"
    <3>1. ASSUME NEW i \in DOMAIN frames, NEW j \in DOMAIN frames,
                 frames[i].kind = "import", frames[j] = frames[i]
          PROVE  i = j
      <4>1. i \in DOMAIN w.frames /\ frames[i] = w.frames[i]
        BY <1>6, <2>2, <3>1
      <4>2. j \in DOMAIN w.frames /\ frames[j] = w.frames[j]
        BY <1>6, <2>2, <3>1
      <4> QED BY <3>1, <4>1, <4>2 DEF Sound, FramesSound
    <3> QED BY <3>1
  <2> QED BY <2>1, <2>2
<1>9. FramesSound(x, v, m)
  BY <1>3, <1>7, <1>8 DEF FramesSound
<1> QED BY <1>2, <1>3, <1>4, <1>9 DEF Sound

LEMMA NextEditorIsUnmade ==
  ASSUME Unmade # {}
  PROVE  NextEditor \in Editors /\ ed[NextEditor].place = "unused"
<1>1. Editors \in SUBSET Nat
  BY WindowAssumption
<1>2. Unmade \in SUBSET Nat /\ Unmade \subseteq Editors
  BY <1>1 DEF Unmade
<1>3. \E e \in Unmade : \A f \in Unmade : e <= f
  BY <1>2, LeastNumber
<1>4. NextEditor \in Unmade
  BY <1>3 DEF NextEditor
<1> QED BY <1>4 DEF Unmade

-----------------------------------------------------------------------------
(* What every step of the GUI thread does.                                      *)
GuiInv(x, w, m) == x \in [Editors -> Editor] /\ w \in Window /\ m \in Mic /\ Sound(x, w, m)
GuiStep == GuiInv(ed', win', mic') /\ Retains(ed, ed')

LEMMA WindowOnly ==
  ASSUME NEW w, GuiInv(ed, w, mic), UNCHANGED <<ed, mic>>,
         win' \in Window, SameLayout(w, win')
  PROVE  GuiStep
BY LayoutIsSound, RetainsAll DEF GuiInv, GuiStep

\* A request to a track, of which the window hears.
LEMMA TrackIsAsked ==
  ASSUME NEW w, GuiInv(ed, w, mic), NEW e \in Editors, Stays(ed[e]), NEW d \in Editor,
         EditorSound(d), SameEditor(ed[e], d), NEW before, NEW after, NEW v \in Window,
         SameLayout(w, v), ed' = [ed EXCEPT ![e] = d], win' = Heard(v, before, after), UNCHANGED mic
  PROVE  GuiStep
<1>1. ed' \in [Editors -> Editor] /\ Sound(ed', w, mic)
  <2>1. ~Blank(ed[e])
    BY DEF Stays, Blank
  <2> QED BY <2>1, EngagedChanges DEF GuiInv, SameEditor
<1>2. win' \in Window /\ SameLayout(w, win')
  BY HeardType, LayoutIsTransitive
<1>3. Sound(ed', win', mic')
  BY <1>1, <1>2, LayoutIsSound
<1>4. Retains(ed, ed')
  <2>1. ed[e].session # None => SameSession(ed[e].session, d.session)
    BY DEF SameEditor, SameSession
  <2> QED BY <2>1, RetainsOne DEF GuiInv
<1> QED BY <1>1, <1>2, <1>3, <1>4 DEF GuiInv, GuiStep

LEMMA TrackStays ==
  ASSUME NEW x, NEW w, GuiInv(x, w, mic), NEW e \in Tracks(w)
  PROVE  /\ e \in Editors /\ x[e] \in Editor /\ EditorSound(x[e]) /\ x[e].place = "track"
         /\ Stays(x[e]) /\ x[e].session \in Session /\ x[e].session # None
<1>1. e \in Editors /\ x[e].place = "track" /\ x[e] \in Editor /\ EditorSound(x[e])
  BY TracksType DEF GuiInv, Sound, TracksSound
<1> QED BY <1>1, EditorFields DEF Stays, EditorSound

LEMMA AddRecordingStep ==
  ASSUME GuiInv(ed, win, mic), NEW r \in Recordings, AddRecording(r)
  PROVE  GuiStep
<1>1. NextEditor \in Editors /\ ed[NextEditor].place = "unused"
  BY NextEditorIsUnmade DEF AddRecording
<1>2. Opening(Created, r) \in Editor /\ EditorSound(Opening(Created, r))
      /\ Opening(Created, r).place = "pending"
  BY CreatedType, FillingType
<1>3. ed' = [ed EXCEPT ![NextEditor] = Opening(Created, r)] /\ win' = win /\ mic' = mic
  BY DEF AddRecording
<1> QED BY <1>1, <1>2, <1>3, UnmadeChanges DEF GuiInv, GuiStep

LEMMA ImportAudioStep ==
  ASSUME GuiInv(ed, win, mic), ImportAudio
  PROVE  GuiStep
<1>1. NextEditor \in Editors /\ ed[NextEditor].place = "unused"
  BY NextEditorIsUnmade DEF ImportAudio
<1>2. Created \in Editor /\ EditorSound(Created) /\ Blank(Created) /\ Created.place = "pending"
  BY CreatedType DEF Blank
<1>3. PICK e \in Editors : e = NextEditor /\ ed[e].place = "unused"
  BY <1>1
<1>4. PICK f : f = [kind |-> "import", editor |-> e]
  OBVIOUS
<1>5. /\ ed' = [ed EXCEPT ![e] = Created] /\ mic' = mic /\ win.frames = <<>>
      /\ win' = [win EXCEPT !.frames = Append(@, f)]
  BY <1>3, <1>4 DEF ImportAudio, Free, OpenDialog
<1>6. /\ ed' \in [Editors -> Editor] /\ Sound(ed', win, mic) /\ Retains(ed, ed')
      /\ e # mic.editor
  BY <1>2, <1>3, <1>5, UnmadeChanges DEF GuiInv
<1>7. f \in Frame /\ f.kind = "import" /\ f.kind \notin SaveDialogs /\ f.editor = e
  BY <1>4 DEF Frame, SaveDialogs
<1>8. Blank(ed'[e])
  BY <1>2, <1>5 DEF GuiInv
<1>9. win' \in Window /\ Sound(ed', win', mic)
  BY <1>5, <1>6, <1>7, <1>8, OpenedSound DEF GuiInv
<1> QED BY <1>5, <1>6, <1>9 DEF GuiInv, GuiStep

LEMMA RecordAudioStep ==
  ASSUME GuiInv(ed, win, mic), RecordAudio
  PROVE  GuiStep
<1>1. PICK f : f = [kind |-> "microphone", editor |-> None]
  OBVIOUS
<1>2. /\ win.frames = <<>> /\ win' = [win EXCEPT !.frames = Append(@, f)] /\ ed' = ed
      /\ mic' = [Microphone!NoDialog EXCEPT !.state = "ready"]
  BY <1>1 DEF RecordAudio, Free, OpenDialog, Microphone!MicOpens
<1>3. mic' \in Mic /\ mic'.editor = None
  BY <1>2 DEF Microphone!NoDialog, Microphone!States, Mic
<1>4. Sound(ed, win, mic')
  BY <1>2, <1>3 DEF GuiInv, Sound, FramesSound, MicSound
<1>5. f \in Frame /\ f.kind \notin SaveDialogs /\ f.kind # "import"
  BY <1>1 DEF Frame, SaveDialogs
<1>6. win' \in Window /\ Sound(ed, win', mic')
  BY <1>2, <1>4, <1>5, OpenedSound DEF GuiInv
<1> QED BY <1>2, <1>3, <1>6, RetainsAll DEF GuiInv, GuiStep

LEMMA EditStep ==
  ASSUME GuiInv(ed, win, mic), NEW e \in Editors, Edit(e)
  PROVE  GuiStep
<1>1. PICK dirty \in BOOLEAN : ed' = [ed EXCEPT ![e].session.dirty = dirty]
  BY DEF Edit
<1>2. /\ ed[e].place = "track" /\ ed[e].work = None /\ win' = Relocked(win) /\ mic' = mic
      /\ ed[e] \in Editor /\ EditorSound(ed[e])
  BY DEF Edit, Editable, Busy, BusyEditor, GuiInv, Sound
<1>3. ed[e].session \in Session /\ ed[e].session # None
  BY <1>2, EditorFields DEF EditorSound
<1>4. PICK s \in Session : /\ s = [ed[e].session EXCEPT !.dirty = dirty]
                           /\ s.rec = ed[e].session.rec /\ s.base = ed[e].session.base
  <2>1. PICK t \in Session : t = ed[e].session
    BY <1>3
  <2>2. [t EXCEPT !.dirty = dirty] \in Session
    BY <1>1 DEF Session
  <2>3. /\ [t EXCEPT !.dirty = dirty].rec = t.rec
        /\ [t EXCEPT !.dirty = dirty].base = t.base
    BY DEF Session
  <2> QED BY <2>1, <2>2, <2>3
<1>5. s # None
  BY NoneIsNothing
<1>6. PICK d : d = [ed[e] EXCEPT !.session = s]
  OBVIOUS
<1>7. /\ d \in Editor /\ d.place = "track" /\ d.doomed = ed[e].doomed /\ d.work = None
      /\ d.session = s
  BY <1>2, <1>6 DEF Editor
<1>8. EditorSound(d)
  BY <1>5, <1>7 DEF EditorSound
<1>9. ed' = [ed EXCEPT ![e] = d]
  BY <1>1, <1>4, <1>6 DEF GuiInv
<1>10. ed' \in [Editors -> Editor] /\ Sound(ed', win, mic)
  BY <1>2, <1>4, <1>7, <1>8, <1>9, EngagedChanges DEF GuiInv, Blank
<1>11. Retains(ed, ed')
  BY <1>4, <1>5, <1>7, <1>9, RetainsOne DEF GuiInv, SameSession
<1>12. win' \in Window /\ SameLayout(win, win')
  BY <1>2, RelockedType DEF GuiInv
<1> QED BY <1>2, <1>10, <1>11, <1>12, LayoutIsSound DEF GuiInv, GuiStep

LEMMA SaveRevisionStep ==
  ASSUME GuiInv(ed, win, mic), NEW e \in Editors, SaveRevision(e)
  PROVE  GuiStep
<1>1. PICK f : f = [kind |-> "save", editor |-> e]
  OBVIOUS
<1>2. /\ win' = [win EXCEPT !.frames = Append(@, f)] /\ ed' = ed /\ mic' = mic
      /\ ed[e].place = "track"
  BY <1>1 DEF SaveRevision, OpenDialog, Editable
<1>3. f \in Frame /\ f.kind # "import" /\ f.editor = e
  BY <1>1 DEF Frame, SaveDialogs
<1>4. win' \in Window /\ Sound(ed, win', mic)
  BY <1>2, <1>3, OpenedSound DEF GuiInv, Stays
<1> QED BY <1>2, <1>4, RetainsAll DEF GuiInv, GuiStep

LEMMA RefreshDefinitionsStep ==
  ASSUME GuiInv(ed, win, mic), NEW e \in Editors, RefreshDefinitions(e)
  PROVE  GuiStep
<1>1. Stays(ed[e]) /\ ed[e] \in Editor /\ EditorSound(ed[e])
  BY DEF RefreshDefinitions, Stays, GuiInv, Sound
<1>2. /\ Refreshing(ed[e]) \in Editor /\ EditorSound(Refreshing(ed[e]))
      /\ SameEditor(ed[e], Refreshing(ed[e]))
  BY <1>1, RefreshingType
<1>3. /\ ed' = [ed EXCEPT ![e] = Refreshing(ed[e])] /\ mic' = mic
      /\ win' = Heard(win, ed[e], Refreshing(ed[e]))
  BY DEF RefreshDefinitions
<1>4. win \in Window /\ SameLayout(win, win)
  BY DEF GuiInv, SameLayout
<1> QED BY <1>1, <1>2, <1>3, <1>4, TrackIsAsked

-----------------------------------------------------------------------------
(* Closing the window, and removing a track.                                    *)
LEMMA WidgetsType ==
  ASSUME NEW w, GuiInv(ed, w, mic), Requested(w), NEW i \in DOMAIN Widgets(w)
  PROVE  Widgets(w)[i] \in Tracks(w)
<1>1. CASE w.closing
  BY <1>1, TracksType DEF GuiInv, Widgets
<1>2. CASE ~w.closing
  <2>1. w.removing \in Tracks(w)
    BY <1>2 DEF Requested, GuiInv, Sound, TracksSound
  <2> QED BY <1>2, <2>1 DEF Widgets
<1> QED BY <1>1, <1>2

LEMMA SaveTrackStep ==
  ASSUME NEW w, GuiInv(ed, w, mic), NEW e \in Tracks(w), SaveTrack(w, e)
  PROVE  GuiStep
<1>1. /\ e \in Editors /\ ed[e] \in Editor /\ EditorSound(ed[e]) /\ ed[e].place = "track"
      /\ Stays(ed[e]) /\ ed[e].session \in Session
  BY TrackStays
<1>2. mic' = mic /\ w \in Window
  BY DEF SaveTrack, GuiInv
<1>3. CASE win' = SaveFinished(w, FALSE) /\ ed' = ed
  BY <1>2, <1>3, SaveFinishedType, WindowOnly
<1>4. CASE win' = Withdrawn(w) /\ ed' = ed
  BY <1>2, <1>4, WithdrawnType, WindowOnly
<1>5. CASE /\ ed' = ed
           /\ win' = [Relocked(w) EXCEPT !.frames = Append(@, [kind |-> "close", editor |-> e])]
  <2>1. PICK v : v = Relocked(w)
    OBVIOUS
  <2>2. v \in Window /\ Sound(ed, v, mic)
    BY <1>2, <2>1, RelockedType, LayoutIsSound DEF GuiInv
  <2>3. PICK f : f = [kind |-> "close", editor |-> e]
    OBVIOUS
  <2>4. f \in Frame /\ f.kind # "import" /\ f.editor = e
    BY <1>1, <2>3 DEF Frame, SaveDialogs
  <2>5. win' = [v EXCEPT !.frames = Append(@, f)]
    BY <1>5, <2>1, <2>3
  <2>6. win' \in Window /\ Sound(ed, win', mic)
    BY <1>1, <2>2, <2>4, <2>5, OpenedSound
  <2> QED BY <1>2, <1>5, <2>6, RetainsAll DEF GuiInv, GuiStep
<1>6. CASE /\ ~ed[e].session.dirty
           /\ ed' = [ed EXCEPT ![e] = Retrying(ed[e])]
           /\ win' = Heard(w, ed[e], Retrying(ed[e]))
  <2>1. /\ Retrying(ed[e]) \in Editor /\ EditorSound(Retrying(ed[e]))
        /\ SameEditor(ed[e], Retrying(ed[e]))
    BY <1>1, <1>6, RetryingType
  <2>2. SameLayout(w, w)
    BY DEF SameLayout
  <2> QED BY <1>1, <1>2, <1>6, <2>1, <2>2, TrackIsAsked
<1> QED BY <1>3, <1>4, <1>5, <1>6 DEF SaveTrack

LEMMA RemoveOne ==
  ASSUME NEW s \in Seq(Editors), Distinct(s), NEW i \in DOMAIN s
  PROVE  /\ RemoveAt(s, i) \in Seq(Editors) /\ Distinct(RemoveAt(s, i))
         /\ ToSet(RemoveAt(s, i)) = ToSet(s) \ {s[i]}
<1> DEFINE before == SubSeq(s, 1, i - 1)
           after == SubSeq(s, i + 1, Len(s))
<1>1. Len(s) \in Nat /\ DOMAIN s = 1..Len(s) /\ \A j \in 1..Len(s) : s[j] \in Editors
  BY LenProperties, ElementOfSeq
<1>2. /\ before \in Seq(Editors) /\ Len(before) = i - 1
      /\ \A j \in 1..(i - 1) : before[j] = s[j]
  BY <1>1, SubSeqProperties
<1>3. /\ after \in Seq(Editors) /\ Len(after) = Len(s) - i
      /\ \A j \in 1..(Len(s) - i) : after[j] = s[i + j]
  BY <1>1, SubSeqProperties
<1> HIDE DEF before, after
<1> DEFINE r == before \o after
<1>4. /\ r \in Seq(Editors) /\ Len(r) = Len(s) - 1
      /\ \A j \in 1..Len(r) : r[j] = IF j < i THEN s[j] ELSE s[j + 1]
  <2>0. /\ r \in Seq(Editors) /\ Len(r) = Len(before) + Len(after)
        /\ \A j \in 1..(Len(before) + Len(after)) :
             r[j] = IF j <= Len(before) THEN before[j] ELSE after[j - Len(before)]
    BY <1>2, <1>3, ConcatProperties
  <2>1. r \in Seq(Editors) /\ Len(r) = Len(s) - 1
    BY <1>1, <1>2, <1>3, <2>0
  <2> HIDE DEF r
  <2>2. \A j \in 1..Len(r) : r[j] = IF j <= Len(before) THEN before[j] ELSE after[j - Len(before)]
    BY <1>1, <1>2, <1>3, <2>0, <2>1
  <2>3. ASSUME NEW j \in 1..Len(r) PROVE r[j] = IF j < i THEN s[j] ELSE s[j + 1]
    <3>1. CASE j < i
      BY <1>1, <1>2, <2>1, <2>2, <3>1
    <3>2. CASE ~(j < i)
      <4>1. r[j] = after[j - (i - 1)] /\ j - (i - 1) \in 1..(Len(s) - i)
        BY <1>1, <1>2, <2>1, <2>2, <3>2
      <4>2. after[j - (i - 1)] = s[i + (j - (i - 1))]
        BY <1>3, <4>1
      <4>3. i + (j - (i - 1)) = j + 1
        BY <1>1
      <4> QED BY <3>2, <4>1, <4>2, <4>3
    <3> QED BY <3>1, <3>2
  <2> QED BY <2>1, <2>3
<1>5. DOMAIN r = 1..Len(r)
  BY <1>4, LenProperties
<1> HIDE DEF r
<1>a. \A j \in 1..Len(s) : \A m \in 1..Len(s) : s[j] = s[m] => j = m
  BY <1>1 DEF Distinct
<1>b. ASSUME NEW j \in 1..Len(r)
      PROVE  \E p \in 1..Len(s) : r[j] = s[p] /\ p = IF j < i THEN j ELSE j + 1
  <2>1. CASE j < i
    <3>1. j \in 1..Len(s) /\ r[j] = s[j]
      BY <1>1, <1>4, <2>1
    <3> QED BY <2>1, <3>1
  <2>2. CASE ~(j < i)
    <3>1. j + 1 \in 1..Len(s) /\ r[j] = s[j + 1]
      BY <1>1, <1>4, <2>2
    <3> QED BY <2>2, <3>1
  <2> QED BY <2>1, <2>2
<1>6. Distinct(r)
  <2> SUFFICES ASSUME NEW j \in 1..Len(r), NEW m \in 1..Len(r), r[j] = r[m] PROVE j = m
    BY <1>5 DEF Distinct
  <2>1. PICK p \in 1..Len(s) : r[j] = s[p] /\ p = IF j < i THEN j ELSE j + 1
    BY <1>b
  <2>2. PICK q \in 1..Len(s) : r[m] = s[q] /\ q = IF m < i THEN m ELSE m + 1
    BY <1>b
  <2>3. p = q
    BY <1>a, <2>1, <2>2
  <2>4. Len(r) \in Nat /\ i \in Nat
    BY <1>1, <1>4
  <2> QED BY <2>1, <2>2, <2>3, <2>4
<1>7. ToSet(r) = ToSet(s) \ {s[i]}
  <2>1. ASSUME NEW j \in 1..Len(r) PROVE r[j] \in ToSet(s) \ {s[i]}
    <3>1. PICK p \in 1..Len(s) : r[j] = s[p] /\ p = IF j < i THEN j ELSE j + 1
      BY <1>b
    <3>2. p # i
      BY <1>1, <1>4, <3>1
    <3>3. s[p] # s[i]
      BY <1>1, <1>a, <3>2
    <3>4. s[p] \in ToSet(s)
      BY <1>1 DEF ToSet
    <3> QED BY <3>1, <3>3, <3>4
  <2>2. ASSUME NEW j \in 1..Len(s), s[j] # s[i] PROVE s[j] \in ToSet(r)
    <3>1. CASE j < i
      <4>1. j \in 1..Len(r) /\ r[j] = s[j]
        BY <1>1, <1>4, <3>1
      <4> QED BY <1>5, <4>1 DEF ToSet
    <3>2. CASE j > i
      <4>1. j - 1 \in 1..Len(r) /\ r[j - 1] = s[j - 1 + 1] /\ j - 1 + 1 = j
        BY <1>1, <1>4, <3>2
      <4> QED BY <1>5, <4>1 DEF ToSet
    <3> QED BY <1>1, <2>2, <3>1, <3>2
  <2> QED BY <1>1, <1>5, <2>1, <2>2 DEF ToSet
<1>8. RemoveAt(s, i) = r
  BY DEF RemoveAt, r, before, after
<1> QED BY <1>4, <1>6, <1>7, <1>8

\* Before the window opens, and after it has closed.
LEMMA ClearedIsSound ==
  GuiInv([e \in Editors |-> Unused], NoWindow, Microphone!NoDialog)
<1>1. PICK x \in [Editors -> Editor] : x = [e \in Editors |-> Unused]
  BY UnusedType
<1>w. PICK w : w = NoWindow
  OBVIOUS
<1>m. PICK m : m = Microphone!NoDialog
  OBVIOUS
<1>2. x \in [Editors -> Editor] /\ w \in Window /\ m \in Mic /\ m.editor = None
  BY <1>1, <1>w, <1>m, UnusedType DEF NoWindow, Window, Mic, Microphone!NoDialog, Microphone!States
<1>3. w.tracks = <<>> /\ w.frames = <<>> /\ w.queue = <<>> /\ w.removing = None
  BY <1>w DEF NoWindow
<1>4. \A e \in Editors : x[e] = Unused
  BY <1>1
<1>5. Tracks(w) = {}
  BY <1>3 DEF Tracks
<1>6. Distinct(w.tracks)
  BY <1>3 DEF Distinct
<1>7. TracksSound(x, w)
  BY <1>3, <1>4, <1>5, <1>6, UnusedType DEF TracksSound
<1>8. FramesSound(x, w, m) /\ MicSound(x, m)
  BY <1>2, <1>3 DEF FramesSound, MicSound
<1> QED BY <1>1, <1>w, <1>m, <1>2, <1>4, <1>7, <1>8, UnusedType DEF GuiInv, Sound

LEMMA LeaveStep ==
  ASSUME NEW w, GuiInv(ed, w, mic), Requested(w), Leave(w),
         \A i \in DOMAIN Widgets(w) : ~Unsaved(Widgets(w)[i])
  PROVE  GuiStep
<1>1. w \in Window /\ ed \in [Editors -> Editor] /\ mic \in Mic /\ Sound(ed, w, mic)
  BY DEF GuiInv
<1>2. CASE w.closing
  <2>1. /\ ed' = [e \in Editors |-> Unused] /\ win' = NoWindow /\ mic' = Microphone!NoDialog
    BY <1>2 DEF Leave
  <2>9. GuiInv(ed', win', mic')
    BY <2>1, ClearedIsSound
  <2>10. ASSUME NEW e \in Editors, ed[e].session # None, ed[e].session.dirty PROVE FALSE
    <3>1. e \in Tracks(w)
      BY <1>1, <2>10 DEF Sound, EditorSound, Clean, TracksSound
    <3>2. PICK i \in DOMAIN w.tracks : e = w.tracks[i]
      BY <3>1 DEF Tracks
    <3>3. i \in DOMAIN Widgets(w) /\ e = Widgets(w)[i]
      BY <1>2, <3>2 DEF Widgets
    <3> QED BY <2>10, <3>3 DEF Unsaved
  <2> QED BY <2>9, <2>10 DEF GuiStep, Retains
<1>3. CASE ~w.closing
  <2>1. PICK e \in Tracks(w) : e = w.removing /\ e # None
    <3>1. w.removing # None
      BY <1>3 DEF Requested
    <3> QED BY <1>1, <3>1 DEF Sound, TracksSound
  <2>2. /\ e \in Editors /\ ed[e].place = "track" /\ ed[e].session # None /\ Stays(ed[e])
    BY TrackStays
  <2>3. PICK d \in Editor : d = [Unused EXCEPT !.place = "gone"] /\ EditorSound(d)
                            /\ d.place = "gone" /\ ~d.doomed
    BY UnusedType DEF Unused
  <2>4. PICK i \in DOMAIN w.tracks : /\ e = w.tracks[i]
                                     /\ i = CHOOSE j \in DOMAIN w.tracks : w.tracks[j] = e
    BY DEF Tracks
  <2>5. PICK left \in Seq(Editors) : /\ left = RemoveAt(w.tracks, i) /\ Distinct(left)
                                     /\ ToSet(left) = ToSet(w.tracks) \ {e}
    <3>1. w.tracks \in Seq(Editors) /\ Distinct(w.tracks)
      BY <1>1, WindowFields DEF Sound, TracksSound
    <3> QED BY <2>4, <3>1, RemoveOne
  <2>6. /\ ed' = [ed EXCEPT ![e] = d] /\ mic' = mic
        /\ win' = [w EXCEPT !.removing = None, !.tracks = left]
    BY <1>3, <2>1, <2>3, <2>4, <2>5 DEF Leave, Without
  <2>7. /\ win' \in Window /\ win'.tracks = left /\ win'.removing = None
        /\ win'.queue = w.queue /\ win'.frames = w.frames
    BY <1>1, <2>6 DEF Window
  <2>8. Tracks(win') = Tracks(w) \ {e}
    BY <2>5, <2>7 DEF Tracks, ToSet
  <2>9. ed' \in [Editors -> Editor] /\ ed'[e] = d /\ \A f \in Editors : f # e => ed'[f] = ed[f]
    BY <1>1, <2>2, <2>6
  <2>10. \A f \in Editors : Stays(ed[f]) => Stays(ed'[f])
    BY <2>3, <2>9 DEF Stays
  <2>11. \A f \in Editors : Blank(ed[f]) => ed'[f] = ed[f]
    BY <2>2, <2>9 DEF Blank
  <2>12. TracksSound(ed', win')
    <3>1. \A f \in Editors : ed'[f].place = "track" <=> f \in Tracks(win')
      BY <1>1, <2>3, <2>8, <2>9 DEF Sound, TracksSound
    <3>2. \A f \in Tracks(win') : f \in Tracks(w) /\ f \in Editors /\ ed'[f] = ed[f]
      BY <1>1, <2>8, <2>9, TracksType
    <3>3. \A f, g \in Tracks(win') : ed'[f].session.rec = ed'[g].session.rec => f = g
      BY <1>1, <3>2 DEF Sound, TracksSound
    <3>4. \A j \in DOMAIN win'.queue : Stays(ed'[win'.queue[j]])
      BY <1>1, <2>7, <2>10, TracksType DEF Sound, TracksSound
    <3> QED BY <2>5, <2>7, <3>1, <3>3, <3>4 DEF TracksSound
  <2>13. FramesSound(ed', win', mic')
    <3>1. ASSUME NEW j \in DOMAIN w.frames
          PROVE  /\ w.frames[j].kind \in SaveDialogs => Stays(ed'[w.frames[j].editor])
                 /\ w.frames[j].kind = "import" =>
                      Blank(ed'[w.frames[j].editor]) /\ w.frames[j].editor # mic.editor
      BY <1>1, <2>10, <2>11, FrameType DEF Sound, FramesSound
    <3> QED BY <1>1, <2>6, <2>7, <3>1 DEF Sound, FramesSound
  <2>14. MicSound(ed', mic')
    <3>1. mic.editor \in Editors \cup {None}
      BY <1>1 DEF Mic
    <3> QED BY <1>1, <2>3, <2>6, <2>9, <2>11, <3>1 DEF Sound, MicSound
  <2>15. Sound(ed', win', mic')
    BY <1>1, <2>3, <2>9, <2>12, <2>13, <2>14 DEF Sound
  <2>16. ~ed[e].session.dirty
    BY <1>3, <2>1, <2>2 DEF Widgets, Unsaved
  <2>17. Retains(ed, ed')
    BY <2>9, <2>16 DEF Retains, SameSession
  <2> QED BY <1>1, <2>6, <2>7, <2>9, <2>15, <2>17 DEF GuiInv, GuiStep
<1> QED BY <1>2, <1>3

LEMMA ContinueCloseStep ==
  ASSUME NEW w, GuiInv(ed, w, mic), ContinueClose(w)
  PROVE  GuiStep
<1>1. CASE win' = w /\ UNCHANGED <<ed, phase, mic>>
  BY <1>1, RetainsAll DEF GuiInv, GuiStep
<1>2. CASE Requested(w) /\ (\A i \in DOMAIN Widgets(w) : ~Unsaved(Widgets(w)[i])) /\ Leave(w)
  BY <1>2, LeaveStep
<1>3. CASE Requested(w) /\ \E i \in DOMAIN Widgets(w) : SaveTrack(w, Widgets(w)[i])
  BY <1>3, WidgetsType, SaveTrackStep
<1> QED BY <1>1, <1>2, <1>3 DEF ContinueClose

-----------------------------------------------------------------------------
(* Retrying, the timers and the requests to close.                              *)
LEMMA RetriedStep ==
  ASSUME NEW w, GuiInv(ed, w, mic), NEW e \in Editors, ed[e].place = "track",
         Retried(w, e), UNCHANGED mic
  PROVE  GuiStep
<1>1. /\ w \in Window /\ ed[e] \in Editor /\ EditorSound(ed[e]) /\ Stays(ed[e])
      /\ ed[e].session # None
  BY DEF GuiInv, Sound, Stays, EditorSound
<1>2. CASE win' = RecoveryFinished(w, e, FALSE) /\ ed' = ed
  BY <1>1, <1>2, RecoveryFinishedType, WindowOnly
<1>3. CASE /\ ~ed[e].session.dirty /\ ed' = [ed EXCEPT ![e] = Retrying(ed[e])]
           /\ win' = Heard(w, ed[e], Retrying(ed[e]))
  <2>1. /\ Retrying(ed[e]) \in Editor /\ EditorSound(Retrying(ed[e]))
        /\ SameEditor(ed[e], Retrying(ed[e]))
    BY <1>1, <1>3, RetryingType
  <2>2. SameLayout(w, w)
    BY DEF SameLayout
  <2> QED BY <1>1, <1>3, <2>1, <2>2, TrackIsAsked
<1> QED BY <1>1, <1>2, <1>3 DEF Retried

LEMMA AwaitingType ==
  ASSUME NEW w \in Window, w.queue # <<>>
  PROVE  /\ Awaiting(w) \in Window /\ [w EXCEPT !.queue = Tail(@)] \in Window
         /\ Narrower(w, Awaiting(w)) /\ Narrower(w, [w EXCEPT !.queue = Tail(@)])
         /\ Head(w.queue) \in Editors /\ Head(w.queue) = w.queue[1] /\ 1 \in DOMAIN w.queue
<1>1. w.queue \in Seq(Editors)
  BY WindowFields
<1>2. /\ Head(w.queue) \in Editors /\ Tail(w.queue) \in Seq(Editors)
      /\ Len(Tail(w.queue)) = Len(w.queue) - 1
      /\ \A i \in 1..Len(Tail(w.queue)) : Tail(w.queue)[i] = w.queue[i + 1]
      /\ Head(w.queue) = w.queue[1] /\ Len(w.queue) \in Nat /\ Len(w.queue) # 0
  BY <1>1, HeadTailProperties, EmptySeq, LenProperties
<1>3. PICK q \in Seq(Editors) : q = Tail(w.queue)
  BY <1>2
<1>4. /\ DOMAIN w.queue = 1..Len(w.queue) /\ DOMAIN q = 1..Len(q)
  BY <1>1, <1>3, LenProperties
<1>5. \A i \in DOMAIN q : i + 1 \in DOMAIN w.queue /\ q[i] = w.queue[i + 1]
  BY <1>2, <1>3, <1>4
<1>6. PICK e \in Editors : e = Head(w.queue)
  BY <1>2
<1>7. PICK v : v = Awaiting(w) /\ v = [w EXCEPT !.queue = q, !.awaiting = e]
  BY <1>3, <1>6 DEF Awaiting
<1>8. v \in Window /\ Narrower(w, v)
  <2>1. /\ v \in Window /\ v.tracks = w.tracks /\ v.removing = w.removing
        /\ v.frames = w.frames /\ v.queue = q
    BY <1>7 DEF Window
  <2> QED BY <1>5, <2>1 DEF Narrower
<1>9. PICK u : u = [w EXCEPT !.queue = Tail(@)] /\ u = [w EXCEPT !.queue = q]
  BY <1>3
<1>10. u \in Window /\ Narrower(w, u)
  <2>1. /\ u \in Window /\ u.tracks = w.tracks /\ u.removing = w.removing
        /\ u.frames = w.frames /\ u.queue = q
    BY <1>9 DEF Window
  <2> QED BY <1>5, <2>1 DEF Narrower
<1>11. 1 \in DOMAIN w.queue
  BY <1>2, <1>4
<1> QED BY <1>2, <1>7, <1>8, <1>9, <1>10, <1>11

LEMMA NarrowerStep ==
  ASSUME NEW w, GuiInv(ed, w, mic), UNCHANGED <<ed, mic>>, win' \in Window, Narrower(w, win')
  PROVE  GuiStep
BY NarrowerIsSound, RetainsAll DEF GuiInv, GuiStep

LEMMA RetryNextStep ==
  ASSUME NEW w, GuiInv(ed, w, mic), RetryNext(w), UNCHANGED mic
  PROVE  GuiStep
<1>1. w \in Window /\ Sound(ed, w, mic)
  BY DEF GuiInv
<1>2. CASE w.queue = <<>>
  <2>1. win' = Relocked([w EXCEPT !.retrying = FALSE]) /\ ed' = ed
    BY <1>2 DEF RetryNext
  <2>2. PICK v : v = [w EXCEPT !.retrying = FALSE]
    OBVIOUS
  <2>3. v \in Window /\ SameLayout(w, v)
    BY <1>1, <2>2 DEF Window, SameLayout
  <2>4. win' \in Window /\ SameLayout(w, win')
    BY <2>1, <2>2, <2>3, RelockedType, LayoutIsTransitive
  <2> QED BY <2>1, <2>4, WindowOnly
<1>3. CASE w.queue # <<>>
  <2>1. PICK e \in Editors : e = Head(w.queue) /\ Stays(ed[e])
    BY <1>1, <1>3, AwaitingType DEF Sound, TracksSound
  <2>2. CASE win' = [w EXCEPT !.queue = Tail(@)] /\ ed' = ed
    BY <1>1, <1>3, <2>2, AwaitingType, NarrowerStep
  <2>3. CASE win' = Awaiting(w) /\ ed' = ed
    BY <1>1, <1>3, <2>3, AwaitingType, NarrowerStep
  <2>4. CASE ed[e].place # "gone" /\ Retried(Awaiting(w), e)
    <3>1. GuiInv(ed, Awaiting(w), mic)
      BY <1>1, <1>3, AwaitingType, NarrowerIsSound DEF GuiInv
    <3>2. ed[e].place = "track"
      BY <2>1, <2>4 DEF Stays
    <3> QED BY <2>4, <3>1, <3>2, RetriedStep
  <2> QED BY <1>3, <2>1, <2>2, <2>3, <2>4 DEF RetryNext
<1> QED BY <1>2, <1>3

LEMMA TimerFiresStep ==
  ASSUME GuiInv(ed, win, mic), TimerFires
  PROVE  GuiStep
<1>1. win \in Window /\ win.posted # <<>>
  BY DEF GuiInv, TimerFires
<1>2. PICK posted \in Seq({"next", "close"}) : posted = Tail(win.posted)
  <2>1. win.posted \in Seq({"next", "close"})
    BY <1>1, WindowFields
  <2> QED BY <1>1, <2>1, HeadTailProperties
<1>3. PICK w : w = [win EXCEPT !.posted = Tail(@)] /\ w = [win EXCEPT !.posted = posted]
  BY <1>2
<1>4. w \in Window /\ SameLayout(win, w)
  BY <1>1, <1>3 DEF Window, SameLayout
<1>5. GuiInv(ed, w, mic)
  BY <1>4, LayoutIsSound DEF GuiInv
<1>6. (RetryNext(w) /\ UNCHANGED <<phase, mic>>) \/ ContinueClose(w)
  BY <1>3 DEF TimerFires
<1> QED BY <1>5, <1>6, RetryNextStep, ContinueCloseStep

LEMMA CloseWindowStep ==
  ASSUME GuiInv(ed, win, mic), CloseWindow
  PROVE  GuiStep
<1>1. PICK w : w = [win EXCEPT !.closing = TRUE]
  OBVIOUS
<1>2. w \in Window /\ SameLayout(win, w)
  BY <1>1 DEF GuiInv, Window, SameLayout
<1>3. GuiInv(ed, w, mic)
  BY <1>2, LayoutIsSound DEF GuiInv
<1> QED BY <1>1, <1>3, ContinueCloseStep DEF CloseWindow

LEMMA RemoveTrackStep ==
  ASSUME GuiInv(ed, win, mic), NEW e \in Editors, RemoveTrack(e)
  PROVE  GuiStep
<1>1. PICK w : w = [win EXCEPT !.removing = e]
  OBVIOUS
<1>2. /\ w \in Window /\ w.tracks = win.tracks /\ w.frames = win.frames /\ w.queue = win.queue
      /\ w.removing = e
  BY <1>1 DEF GuiInv, Window
<1>3. e \in Tracks(win) /\ Tracks(w) = Tracks(win)
  BY <1>2 DEF RemoveTrack, GuiInv, Sound, TracksSound, Tracks
<1>4. TracksSound(ed, w)
  BY <1>2, <1>3 DEF GuiInv, Sound, TracksSound
<1>5. FramesSound(ed, w, mic)
  BY <1>2 DEF GuiInv, Sound, FramesSound
<1>6. GuiInv(ed, w, mic)
  BY <1>2, <1>4, <1>5 DEF GuiInv, Sound
<1> QED BY <1>1, <1>6, ContinueCloseStep DEF RemoveTrack

LEMMA RetryPendingStep ==
  ASSUME GuiInv(ed, win, mic), RetryPending
  PROVE  GuiStep
<1>1. PICK v : v = [win EXCEPT !.retrying = TRUE]
  OBVIOUS
<1>2. v \in Window /\ SameLayout(win, v)
  BY <1>1 DEF GuiInv, Window, SameLayout
<1>3. PICK w \in Window : w = Relocked(v) /\ SameLayout(win, w)
  BY <1>2, RelockedType, LayoutIsTransitive
<1>4. GuiInv(ed, w, mic) /\ mic' = mic
  BY <1>3, LayoutIsSound DEF GuiInv, RetryPending
<1>5. CASE win.tracks # <<>> /\ Retried(Awaiting([w EXCEPT !.queue = win.tracks]), Head(win.tracks))
  <2>1. PICK u : u = [w EXCEPT !.queue = win.tracks]
    OBVIOUS
  <2>2. win.tracks \in Seq(Editors)
    BY WindowFields DEF GuiInv
  <2>3. /\ u \in Window /\ u.queue = win.tracks /\ u.tracks = w.tracks
        /\ u.removing = w.removing /\ u.frames = w.frames
    BY <1>3, <2>1, <2>2 DEF Window
  <2>4. \A i \in DOMAIN win.tracks : Stays(ed[win.tracks[i]])
    BY TracksType DEF GuiInv, Sound, TracksSound, Stays
  <2>5. TracksSound(ed, u) /\ FramesSound(ed, u, mic)
    BY <1>4, <2>3, <2>4 DEF GuiInv, Sound, TracksSound, FramesSound, Tracks
  <2>6. Sound(ed, u, mic)
    BY <1>4, <2>5 DEF GuiInv, Sound
  <2>7. /\ GuiInv(ed, Awaiting(u), mic) /\ Head(u.queue) \in Editors
        /\ Head(u.queue) = u.queue[1] /\ 1 \in DOMAIN u.queue
    BY <1>4, <1>5, <2>3, <2>6, AwaitingType, NarrowerIsSound DEF GuiInv
  <2>8. ed[Head(u.queue)].place = "track"
    BY <2>3, <2>7, TracksType DEF GuiInv, Sound, TracksSound
  <2> QED BY <1>4, <1>5, <2>1, <2>3, <2>7, <2>8, RetriedStep
<1>6. CASE /\ Unmade # {} /\ ed' = [ed EXCEPT ![NextEditor] = Created]
           /\ win' = [w EXCEPT !.awaiting = NextEditor]
  <2>1. PICK e \in Editors : e = NextEditor /\ ed[e].place = "unused"
    BY <1>6, NextEditorIsUnmade
  <2>2. Created \in Editor /\ EditorSound(Created) /\ Created.place = "pending"
    BY CreatedType DEF Blank
  <2>3. ed' \in [Editors -> Editor] /\ Sound(ed', w, mic) /\ Retains(ed, ed')
    BY <1>4, <1>6, <2>1, <2>2, UnmadeChanges DEF GuiInv
  <2>4. win' \in Window /\ SameLayout(w, win')
    BY <1>3, <1>6, <2>1 DEF Window, SameLayout
  <2> QED BY <1>4, <2>3, <2>4, LayoutIsSound DEF GuiInv, GuiStep
<1> QED BY <1>1, <1>3, <1>5, <1>6 DEF RetryPending

-----------------------------------------------------------------------------
(* The answers to dialogs.                                                      *)
LEMMA PoppedType ==
  ASSUME win \in Window, win.frames # <<>>
  PROVE  /\ Popped \in Window /\ Narrower(win, Popped)
         /\ Len(win.frames) \in DOMAIN win.frames /\ Top = win.frames[Len(win.frames)]
         /\ Top \in Frame /\ Top.kind \in SaveDialogs \cup {"import"} => Top.editor \in Editors
         /\ DOMAIN Popped.frames = 1..(Len(win.frames) - 1)
<1>1. win.frames \in Seq(Frame)
  BY WindowFields
<1>2. /\ Len(win.frames) \in Nat /\ Len(win.frames) # 0
      /\ DOMAIN win.frames = 1..Len(win.frames)
  BY <1>1, EmptySeq, LenProperties
<1>3. /\ SubSeq(win.frames, 1, Len(win.frames) - 1) \in Seq(Frame)
      /\ Len(SubSeq(win.frames, 1, Len(win.frames) - 1)) = Len(win.frames) - 1
      /\ \A i \in 1..(Len(win.frames) - 1) :
           SubSeq(win.frames, 1, Len(win.frames) - 1)[i] = win.frames[i]
  <2>1. /\ \A i \in 1..(Len(win.frames) - 1) : win.frames[i] \in Frame
        /\ Len(win.frames) - 1 \in Nat
    BY <1>1, <1>2, ElementOfSeq
  <2> QED BY <1>1, <1>2, <2>1, SubSeqProperties
<1>4. PICK q \in Seq(Frame) :
        /\ q = SubSeq(win.frames, 1, Len(win.frames) - 1) /\ Len(q) = Len(win.frames) - 1
        /\ \A i \in 1..(Len(win.frames) - 1) : q[i] = win.frames[i]
  BY <1>3
<1>5. PICK v : v = Popped /\ v = [win EXCEPT !.frames = q]
  BY <1>4 DEF Popped
<1>6. /\ v \in Window /\ v.tracks = win.tracks /\ v.removing = win.removing
      /\ v.queue = win.queue /\ v.frames = q
  BY <1>5 DEF Window
<1>7. DOMAIN q = 1..(Len(win.frames) - 1)
  BY <1>4, LenProperties
<1>8. Narrower(win, v)
  BY <1>2, <1>4, <1>6, <1>7 DEF Narrower
<1>9. Len(win.frames) \in DOMAIN win.frames
  BY <1>2
<1> QED BY <1>5, <1>6, <1>7, <1>8, <1>9, FrameType DEF Top

LEMMA AcceptSaveStep ==
  ASSUME GuiInv(ed, win, mic), AcceptSave
  PROVE  GuiStep
<1>1. /\ win \in Window /\ win.frames # <<>> /\ Top.kind \in SaveDialogs
  BY DEF AcceptSave, OnTop, GuiInv
<1>2. PICK e \in Editors : e = Top.editor /\ Stays(ed[e])
  <2>1. PICK n \in DOMAIN win.frames : Top = win.frames[n]
    BY <1>1, PoppedType
  <2>2. Top.editor \in Editors /\ Stays(ed[Top.editor])
    BY <1>1, <2>1, FrameType DEF GuiInv, Sound, FramesSound
  <2> QED BY <2>2
<1>3. GuiInv(ed, Popped, mic) /\ SameLayout(Popped, Popped)
  BY <1>1, PoppedType, NarrowerIsSound DEF GuiInv, SameLayout
<1>4. /\ Saving(ed[e]) \in Editor /\ EditorSound(Saving(ed[e])) /\ SameEditor(ed[e], Saving(ed[e]))
  BY <1>2, SavingType DEF GuiInv, Sound
<1>5. /\ ed' = [ed EXCEPT ![e] = Saving(ed[e])] /\ mic' = mic
      /\ win' = Heard(Popped, ed[e], Saving(ed[e]))
  BY <1>2 DEF AcceptSave
<1> QED BY <1>1, <1>2, <1>3, <1>4, <1>5, PoppedType, TrackIsAsked

LEMMA CancelSaveStep ==
  ASSUME GuiInv(ed, win, mic), CancelSave
  PROVE  GuiStep
<1>1. win \in Window /\ win.frames # <<>> /\ ed' = ed /\ mic' = mic
  BY DEF CancelSave, OnTop, GuiInv
<1>2. Popped \in Window /\ GuiInv(ed, Popped, mic) /\ SameLayout(Popped, Popped)
  BY <1>1, PoppedType, NarrowerIsSound DEF GuiInv, SameLayout
<1>3. win' = Withdrawn(Popped) \/ win' = Popped
  BY DEF CancelSave
<1> QED BY <1>1, <1>2, <1>3, WithdrawnType, WindowOnly

\* The editor that an import was asked for: no other dialog is about it.
LEMMA ImportOnTop ==
  ASSUME GuiInv(ed, win, mic), OnTop({"import"})
  PROVE  /\ Top.editor \in Editors /\ Blank(ed[Top.editor]) /\ Top.editor # mic.editor
         /\ Popped \in Window /\ Sound(ed, Popped, mic)
         /\ \A i \in DOMAIN Popped.frames : Popped.frames[i].kind = "import" =>
              Popped.frames[i].editor # mic.editor /\ Popped.frames[i].editor # Top.editor
<1>1. win \in Window /\ win.frames # <<>> /\ Top.kind = "import"
  BY DEF OnTop, GuiInv
<1>2. PICK n \in DOMAIN win.frames : n = Len(win.frames) /\ Top = win.frames[n]
  BY <1>1, PoppedType
<1>3. Top.editor \in Editors /\ Blank(ed[Top.editor]) /\ Top.editor # mic.editor
  BY <1>1, <1>2, FrameType DEF GuiInv, Sound, FramesSound
<1>4. Popped \in Window /\ Sound(ed, Popped, mic)
  BY <1>1, PoppedType, NarrowerIsSound DEF GuiInv
<1>5. ASSUME NEW i \in DOMAIN Popped.frames, Popped.frames[i].kind = "import"
      PROVE  Popped.frames[i].editor # mic.editor /\ Popped.frames[i].editor # Top.editor
  <2>1. i \in DOMAIN win.frames /\ Popped.frames[i] = win.frames[i]
    BY <1>1, PoppedType DEF Narrower
  <2>2. Len(win.frames) \in Nat
    BY <1>1, WindowFields, LenProperties
  <2>3. i # n
    BY <1>1, <1>2, <2>2, PoppedType
  <2>4. win.frames[i] # Top
    BY <1>1, <1>2, <1>5, <2>1, <2>3 DEF GuiInv, Sound, FramesSound
  <2>5. /\ win.frames[i] \in [kind : SaveDialogs \cup {"import"}, editor : Editors]
        /\ Top \in [kind : SaveDialogs \cup {"import"}, editor : Editors]
    BY <1>1, <1>2, <1>5, <2>1, FrameType DEF Frame
  <2>6. win.frames[i].editor # Top.editor
    BY <1>1, <1>5, <2>1, <2>4, <2>5
  <2> QED BY <1>5, <2>1, <2>6 DEF GuiInv, Sound, FramesSound
<1> QED BY <1>3, <1>4, <1>5

\* The editor of an import that is asked for or given up.
LEMMA AcceptImportStep ==
  ASSUME GuiInv(ed, win, mic), AcceptImport
  PROVE  GuiStep
<1>1. PICK e \in Editors : e = Top.editor
  BY ImportOnTop DEF AcceptImport
<1>2. PICK r \in Imported :
        /\ ed' = [ed EXCEPT ![e] = Importing(ed[e], r)]
        /\ win' = Heard(Popped, ed[e], Importing(ed[e], r))
  BY <1>1 DEF AcceptImport
<1>3. r \in Recordings /\ mic' = mic
  BY ServiceAssumption DEF AcceptImport
<1>4. /\ Blank(ed[e]) /\ e # mic.editor /\ ed[e] \in Editor /\ EditorSound(ed[e])
      /\ Popped \in Window /\ Sound(ed, Popped, mic)
      /\ \A i \in DOMAIN Popped.frames : Popped.frames[i].kind = "import" =>
           Popped.frames[i].editor # mic.editor /\ Popped.frames[i].editor # e
  BY <1>1, ImportOnTop DEF AcceptImport, GuiInv, Sound
<1>5. PICK d \in Editor : /\ d = Importing(ed[e], r) /\ EditorSound(d)
                          /\ d.place = "pending" /\ d.session = None /\ ~d.doomed
  BY <1>3, <1>4, FillingType
<1>6. MicSound([ed EXCEPT ![e] = d], mic)
  BY <1>4, MicKept DEF GuiInv, Sound
<1>7. ed' \in [Editors -> Editor] /\ Sound(ed', Popped, mic)
  BY <1>2, <1>4, <1>5, <1>6, EditorChanges DEF GuiInv, Blank, Stays
<1>8. Retains(ed, ed')
  BY <1>2, <1>4, <1>5, RetainsOne DEF GuiInv, Blank
<1>9. win' \in Window /\ SameLayout(Popped, win')
  BY <1>2, <1>4, HeardType
<1> QED BY <1>3, <1>7, <1>8, <1>9, LayoutIsSound DEF GuiInv, GuiStep

LEMMA CancelImportStep ==
  ASSUME GuiInv(ed, win, mic), CancelImport
  PROVE  GuiStep
<1>1. PICK e \in Editors : e = Top.editor
  BY ImportOnTop DEF CancelImport
<1>2. win' = Popped /\ mic' = mic
  BY DEF CancelImport
<1>3. /\ Blank(ed[e]) /\ e # mic.editor
      /\ Popped \in Window /\ Sound(ed, Popped, mic)
      /\ \A i \in DOMAIN Popped.frames : Popped.frames[i].kind = "import" =>
           Popped.frames[i].editor # mic.editor /\ Popped.frames[i].editor # e
  BY <1>1, ImportOnTop DEF CancelImport
<1>4. CASE ed' = ed
  BY <1>2, <1>3, <1>4, RetainsAll DEF GuiInv, GuiStep
<1>5. CASE ed' = [ed EXCEPT ![e] = [Unused EXCEPT !.place = "gone"]]
  <2>1. PICK d \in Editor : /\ d = [Unused EXCEPT !.place = "gone"] /\ EditorSound(d)
                            /\ d.place = "gone"
    BY UnusedType
  <2>2. MicSound([ed EXCEPT ![e] = d], mic)
    BY <1>3, MicKept DEF GuiInv, Sound
  <2>3. ed' \in [Editors -> Editor] /\ Sound(ed', Popped, mic)
    BY <1>3, <1>5, <2>1, <2>2, EditorChanges DEF GuiInv, Blank, Stays
  <2>4. Retains(ed, ed')
    BY <1>3, <1>5, <2>1, RetainsOne DEF GuiInv, Blank
  <2> QED BY <1>2, <1>3, <2>3, <2>4 DEF GuiInv, GuiStep
<1> QED BY <1>1, <1>4, <1>5 DEF CancelImport

LEMMA UseMicrophoneStep ==
  ASSUME GuiInv(ed, win, mic), UseMicrophone
  PROVE  GuiStep
<1>1. /\ ed' = ed /\ win' = win
      /\ Microphone!MicStarts \/ Microphone!MicStops \/ Microphone!MicRejects
  BY DEF UseMicrophone
<1>2. /\ mic.state \in {"ready", "capturing", "take"}
      /\ mic' \in Mic /\ mic'.editor = mic.editor
  BY <1>1 DEF GuiInv, Mic, Microphone!States, Microphone!MicStarts, Microphone!MicStops,
              Microphone!MicRejects
<1>3. FramesSound(ed, win, mic') /\ MicSound(ed, mic')
  BY <1>2 DEF GuiInv, Sound, FramesSound, MicSound
<1> QED BY <1>1, <1>2, <1>3, RetainsAll DEF GuiInv, GuiStep, Sound

LEMMA AddTakeStep ==
  ASSUME GuiInv(ed, win, mic), AddTake
  PROVE  GuiStep
<1>e. PICK e : e = IF mic.editor = None THEN NextEditor ELSE mic.editor
  OBVIOUS
<1>b. PICK before : before = IF mic.editor = None THEN Created ELSE ed[e]
  OBVIOUS
<1>1. PICK r \in Imported :
        /\ Microphone!MicAdds(e)
        /\ ed' = [ed EXCEPT ![e] = Importing(before, r)]
        /\ win' = Heard(win, before, Importing(before, r))
  BY <1>e, <1>b DEF AddTake
<1>2. r \in Recordings /\ mic.state = "take" /\ mic' = [state |-> "saving", editor |-> e]
  BY <1>1, ServiceAssumption DEF Microphone!MicAdds
<1>3. /\ e \in Editors /\ before \in Editor /\ EditorSound(before) /\ Blank(before)
      /\ e = mic.editor \/ ed[e].place = "unused"
      /\ ed[e].place # "track" /\ ~Stays(ed[e]) /\ ed[e].session = None
  <2>1. CASE mic.editor = None
    <3>1. e \in Editors /\ ed[e].place = "unused"
      BY <1>e, <2>1, NextEditorIsUnmade DEF AddTake
    <3>2. ed[e].session = None
      BY <3>1 DEF GuiInv, Sound, EditorSound
    <3> QED BY <1>b, <2>1, <3>1, <3>2, CreatedType DEF Stays
  <2>2. CASE mic.editor # None
    <3>1. e = mic.editor /\ e \in Editors /\ before = ed[e]
      BY <1>e, <1>b, <2>2 DEF GuiInv, Mic
    <3>2. Blank(ed[e]) /\ EditorSound(ed[e]) /\ ed[e] \in Editor
      BY <1>2, <2>2, <3>1 DEF GuiInv, Sound, MicSound
    <3> QED BY <3>1, <3>2 DEF Blank, Stays
  <2> QED BY <2>1, <2>2
<1>4. PICK d \in Editor : /\ d = Importing(before, r) /\ EditorSound(d)
                          /\ d.place = "pending" /\ d.session = None /\ ~d.doomed
  BY <1>2, <1>3, FillingType
<1>5. mic' \in Mic /\ mic'.editor = e /\ mic'.state = "saving"
  BY <1>2, <1>3 DEF Mic, Microphone!States
<1>6. \A i \in DOMAIN win.frames : win.frames[i].kind = "import" => win.frames[i].editor # e
  BY <1>3 DEF GuiInv, Sound, FramesSound, Blank
<1>7. MicSound([ed EXCEPT ![e] = d], mic')
  BY <1>3, <1>4, <1>5 DEF GuiInv, MicSound
<1>8. ed' \in [Editors -> Editor] /\ Sound(ed', win, mic')
  <2>1. ed \in [Editors -> Editor] /\ win \in Window /\ mic \in Mic /\ Sound(ed, win, mic)
    BY DEF GuiInv
  <2>2. PICK n \in Mic : n = mic' /\ n.editor = e
    BY <1>5
  <2>3. MicSound([ed EXCEPT ![e] = d], n)
    BY <1>7, <2>2
  <2>4. [ed EXCEPT ![e] = d] \in [Editors -> Editor] /\ Sound([ed EXCEPT ![e] = d], win, n)
    BY <1>3, <1>4, <1>6, <2>1, <2>2, <2>3, EditorChanges
  <2> QED BY <1>1, <1>4, <2>2, <2>4
<1>9. Retains(ed, ed')
  BY <1>1, <1>3, <1>4, RetainsOne DEF GuiInv
<1>10. win' \in Window /\ SameLayout(win, win')
  BY <1>1, HeardType DEF GuiInv
<1> QED BY <1>5, <1>8, <1>9, <1>10, LayoutIsSound DEF GuiInv, GuiStep

LEMMA CloseMicrophoneStep ==
  ASSUME GuiInv(ed, win, mic), CloseMicrophone
  PROVE  GuiStep
<1>1. /\ win' = Popped /\ mic' = Microphone!NoDialog /\ win \in Window /\ win.frames # <<>>
  BY DEF CloseMicrophone, OnTop, GuiInv, Microphone!MicReturns
<1>2. mic' \in Mic /\ mic'.editor = None
  BY <1>1 DEF Mic, Microphone!NoDialog, Microphone!States
<1>3. Popped \in Window /\ Sound(ed, Popped, mic)
  BY <1>1, PoppedType, NarrowerIsSound DEF GuiInv
<1>4. \A i \in DOMAIN Popped.frames : Popped.frames[i].kind = "import" =>
        /\ Popped.frames[i].editor # mic'.editor /\ Popped.frames[i].editor # mic.editor
  <2>1. \A i \in DOMAIN Popped.frames : Popped.frames[i].kind = "import" =>
          Popped.frames[i].editor \in Editors
    BY <1>3, FrameType
  <2> QED BY <1>2, <1>3, <2>1, NoneIsNothing DEF Sound, FramesSound
<1>5. CASE ed' = ed
  <2>1. FramesSound(ed, Popped, mic') /\ MicSound(ed, mic')
    BY <1>2, <1>3, <1>4 DEF Sound, FramesSound, MicSound
  <2> QED BY <1>1, <1>2, <1>3, <1>5, <2>1, RetainsAll DEF GuiInv, GuiStep, Sound
<1>6. ASSUME NEW e \in Editors, e = mic.editor, ed[e].place = "pending", NEW d \in Editor,
             EditorSound(d), d.place \in {"pending", "gone"},
             d.session = ed[e].session \/ d.place = "gone",
             ed' = [ed EXCEPT ![e] = d]
      PROVE  GuiStep
  <2>1. MicSound(ed', mic')
    BY <1>2 DEF MicSound
  <2>2. ed' \in [Editors -> Editor] /\ Sound(ed', Popped, mic')
    BY <1>2, <1>3, <1>4, <1>6, <2>1, EditorChanges DEF GuiInv, Stays
  <2>3. ~(ed[e].session # None /\ ed[e].session.dirty)
    BY <1>6 DEF GuiInv, Sound, EditorSound, Clean
  <2>4. Retains(ed, ed')
    BY <1>6, <2>3, RetainsOne DEF GuiInv
  <2> QED BY <1>1, <1>2, <1>3, <2>2, <2>4 DEF GuiInv, GuiStep
<1>7. CASE mic.editor # None /\ ed[mic.editor].place = "pending"
  <2>1. PICK e \in Editors : /\ e = mic.editor /\ ed[e].place = "pending"
                             /\ ed[e] \in Editor /\ EditorSound(ed[e])
    BY <1>7 DEF GuiInv, Mic, Sound
  <2>2. CASE ed' = [ed EXCEPT ![e].doomed = TRUE]
    <3>1. PICK d : d = [ed[e] EXCEPT !.doomed = TRUE]
      OBVIOUS
    <3>2. /\ d \in Editor /\ d.place = "pending" /\ d.session = ed[e].session
          /\ d.work = ed[e].work
      BY <2>1, <3>1 DEF Editor
    <3>3. EditorSound(d)
      BY <2>1, <3>2 DEF EditorSound, WorkSound
    <3>4. ed' = [ed EXCEPT ![e] = d]
      BY <2>2, <3>1 DEF GuiInv
    <3> QED BY <1>6, <2>1, <3>2, <3>3, <3>4
  <2>3. CASE ed' = [ed EXCEPT ![e] = [Unused EXCEPT !.place = "gone"]]
    <3>1. PICK d \in Editor : /\ d = [Unused EXCEPT !.place = "gone"] /\ EditorSound(d)
                              /\ d.place = "gone"
      BY UnusedType
    <3> QED BY <1>6, <2>1, <2>3, <3>1
  <2> QED BY <1>7, <2>1, <2>2, <2>3 DEF CloseMicrophone
<1> QED BY <1>5, <1>7 DEF CloseMicrophone

-----------------------------------------------------------------------------
(* The answers of workers.                                                      *)
LEMMA WorkFields ==
  ASSUME NEW w \in Work
  PROVE  w.op \in Ops /\ w.session \in Session \cup {None} /\ w.rec \in Recordings \cup {None}
BY DEF Work

LEMMA AnsweredType ==
  ASSUME NEW d \in Editor, EditorSound(d), d.work # None
  PROVE  /\ Answered(d) \in Editor /\ EditorSound(Answered(d))
         /\ Answered(d).place = d.place /\ Answered(d).doomed = d.doomed
         /\ Answered(d).work = None /\ d.place \in {"pending", "track"}
         /\ d.place = "track" => Answered(d).session.rec = d.session.rec
         /\ d.place = "track" /\ d.session.dirty => Answered(d).session = d.session
         /\ ~Succeeded(d.work) => Answered(d).session = d.session
         /\ Succeeded(d.work) /\ d.work.session # None => Answered(d).session = d.work.session
         /\ d.place = "track" /\ d.work.session # None => d.work.session.rec = d.session.rec
<1>1. PICK w \in Work : w = d.work
  BY EditorFields
<1>2. /\ w.session \in Session \cup {None} /\ d.session \in Session \cup {None}
      /\ d.reading \in BOOLEAN
  BY <1>1, WorkFields, EditorFields
<1>3. /\ w.op \in {"open", "import"} => d.place = "pending" /\ d.session = None
      /\ w.op \in {"save", "retry"} => d.place = "track" /\ w.rec = d.session.rec
      /\ w.op = "retry" => ~d.session.dirty
      /\ w.op = "save" => w.session = None
      /\ w.session # None => Clean(w.session) /\ w.session.rec = w.rec
      /\ w.op \in {"open", "import"} \/ w.op \in {"save", "retry"}
  BY <1>1, WorkFields DEF EditorSound, WorkSound, Ops
<1>4. PICK s \in Session \cup {None} :
        s = IF Succeeded(w) /\ w.session # None THEN w.session ELSE d.session
  BY <1>2
<1>5. PICK reading \in BOOLEAN :
        reading = (d.reading \/ (Succeeded(w) /\ w.op \in {"save", "retry"}))
  BY <1>2
<1>6. PICK a : a = Answered(d) /\ a = [d EXCEPT !.work = None, !.session = s, !.reading = reading]
  BY <1>1, <1>4, <1>5, Zenon DEF Answered
<1>7. /\ a \in Editor /\ a.place = d.place /\ a.doomed = d.doomed /\ a.work = None
      /\ a.session = s
  BY <1>6 DEF Editor
<1>8. d.place \in {"pending", "track"}
  BY <1>3
<1>9. d.place = "track" => w.op \in {"save", "retry"} /\ d.session # None
  BY <1>3 DEF EditorSound
<1>10. /\ d.place = "track" => s # None /\ s.rec = d.session.rec
       /\ d.place = "track" /\ d.session.dirty => s = d.session
       /\ d.place = "track" /\ w.session # None => w.session.rec = d.session.rec
       /\ d.place # "track" /\ s # None => Clean(s)
  BY <1>3, <1>4, <1>8, <1>9
<1>11. EditorSound(a)
  BY <1>7, <1>8, <1>10 DEF EditorSound
<1> QED BY <1>1, <1>4, <1>6, <1>7, <1>8, <1>10, <1>11

LEMMA SettledType ==
  ASSUME NEW b, NEW a \in Editor, EditorSound(a)
  PROVE  /\ Settled(b, a) \in Editor /\ EditorSound(Settled(b, a))
         /\ \/ SameEditor(a, Settled(b, a)) /\ Settled(b, a).work = a.work
            \/ /\ a.doomed /\ a.place = "pending"
               /\ Settled(b, a).place = "gone" /\ Settled(b, a).session = None
<1>1. PICK t : t = [a EXCEPT !.target = None]
  OBVIOUS
<1>2. t \in Editor /\ SameEditor(a, t) /\ t.work = a.work
  BY <1>1 DEF Editor, SameEditor
<1>3. EditorSound(t)
  BY <1>2 DEF EditorSound, WorkSound, SameEditor
<1>4. SameEditor(a, a)
  BY DEF SameEditor
<1>5. CASE Settled(b, a) = a
  BY <1>4, <1>5
<1>6. CASE Settled(b, a) = t
  BY <1>2, <1>3, <1>6
<1>7. CASE a.doomed /\ a.place = "pending" /\ Settled(b, a) = [Unused EXCEPT !.place = "gone"]
  BY <1>7, UnusedType
<1> QED BY <1>1, <1>5, <1>6, <1>7 DEF Settled

\* A busy editor of which a call ends, without a new track.
LEMMA SettledChanges ==
  ASSUME NEW x \in [Editors -> Editor], NEW w \in Window, NEW m \in Mic, Sound(x, w, m),
         NEW e \in Editors, NEW t \in Editor, EditorSound(t),
         \/ /\ ~Blank(x[e]) \/ (t.session = x[e].session /\ t.work = x[e].work)
            /\ t.place = x[e].place /\ t.doomed = x[e].doomed
         \/ x[e].doomed /\ x[e].place = "pending" /\ t.place = "gone",
         t.place = "track" => t.session.rec = x[e].session.rec
  PROVE  [x EXCEPT ![e] = t] \in [Editors -> Editor] /\ Sound([x EXCEPT ![e] = t], w, m)
<1>1. CASE ~Blank(x[e]) /\ t.place = x[e].place /\ t.doomed = x[e].doomed
  BY <1>1, EngagedChanges
<1>2. CASE /\ t.session = x[e].session /\ t.work = x[e].work
           /\ t.place = x[e].place /\ t.doomed = x[e].doomed
  <2>1. Blank(x[e]) => Blank(t)
    BY <1>2 DEF Blank
  <2>2. \A i \in DOMAIN w.frames : w.frames[i].kind = "import" =>
          w.frames[i].editor # m.editor /\ (w.frames[i].editor = e => Blank(t))
    BY <2>1 DEF Sound, FramesSound
  <2>3. MicSound([x EXCEPT ![e] = t], m)
    <3>1. m.editor = e => /\ x[e].place # "unused" /\ ~x[e].doomed
                          /\ m.state \in {"ready", "capturing", "take"} => Blank(x[e])
      BY NoneIsNothing DEF Sound, MicSound
    <3> QED BY <1>2, <2>1, <3>1, MicKept DEF Sound
  <2> QED BY <1>2, <2>2, <2>3, EditorChanges DEF Stays
<1>3. CASE x[e].doomed /\ x[e].place = "pending" /\ t.place = "gone"
  <2>1. \A i \in DOMAIN w.frames : w.frames[i].kind = "import" =>
          w.frames[i].editor # m.editor /\ w.frames[i].editor # e
    BY <1>3 DEF Sound, FramesSound, Blank
  <2>2. m.editor # e
    BY <1>3, NoneIsNothing DEF Sound, MicSound
  <2>3. MicSound([x EXCEPT ![e] = t], m)
    BY <2>2, MicKept DEF Sound
  <2> QED BY <1>3, <2>1, <2>3, EditorChanges DEF Stays
<1> QED BY <1>1, <1>2, <1>3

LEMMA ReadDoneStep ==
  ASSUME GuiInv(ed, win, mic), NEW e \in Editors, ReadDone(e)
  PROVE  GuiStep
<1>1. ed[e] \in Editor /\ EditorSound(ed[e])
  BY DEF GuiInv, Sound
<1>2. PICK a : a = [ed[e] EXCEPT !.reading = FALSE]
  OBVIOUS
<1>3. a \in Editor /\ SameEditor(ed[e], a) /\ a.work = ed[e].work
  BY <1>1, <1>2 DEF Editor, SameEditor
<1>4. EditorSound(a)
  BY <1>1, <1>3 DEF EditorSound, WorkSound, SameEditor
<1>5. PICK t \in Editor : /\ t = Settled(ed[e], a) /\ EditorSound(t)
                          /\ \/ SameEditor(a, t) /\ t.work = a.work
                             \/ /\ a.doomed /\ a.place = "pending"
                                /\ t.place = "gone" /\ t.session = None
  BY <1>3, <1>4, SettledType
<1>6. ed' = [ed EXCEPT ![e] = t] /\ win' = Heard(win, ed[e], a) /\ mic' = mic
  BY <1>2, <1>5 DEF ReadDone
<1>7. ed' \in [Editors -> Editor] /\ Sound(ed', win, mic)
  BY <1>3, <1>5, <1>6, SettledChanges DEF GuiInv, SameEditor
<1>8. Retains(ed, ed')
  <2>1. ed[e].session # None /\ ed[e].session.dirty => SameSession(ed[e].session, t.session)
    BY <1>1, <1>3, <1>5 DEF SameEditor, SameSession, EditorSound, Clean
  <2> QED BY <1>6, <2>1, RetainsOne DEF GuiInv
<1>9. win' \in Window /\ SameLayout(win, win')
  BY <1>6, HeardType DEF GuiInv
<1> QED BY <1>6, <1>7, <1>8, <1>9, LayoutIsSound DEF GuiInv, GuiStep

LEMMA AppendOne ==
  ASSUME NEW s \in Seq(Editors), Distinct(s), NEW t \in Editors, t \notin ToSet(s)
  PROVE  /\ Append(s, t) \in Seq(Editors) /\ Distinct(Append(s, t))
         /\ ToSet(Append(s, t)) = ToSet(s) \cup {t}
<1>1. /\ Append(s, t) \in Seq(Editors) /\ Len(Append(s, t)) = Len(s) + 1
      /\ Append(s, t)[Len(s) + 1] = t
      /\ \A i \in 1..Len(s) : Append(s, t)[i] = s[i]
  BY AppendProperties
<1>2. /\ Len(s) \in Nat /\ DOMAIN s = 1..Len(s)
      /\ DOMAIN Append(s, t) = 1..(Len(s) + 1)
  BY <1>1, LenProperties
<1> QED BY <1>1, <1>2 DEF Distinct, ToSet

\* The session that an editor has got becomes a track.
LEMMA NewTrackChanges ==
  ASSUME NEW x \in [Editors -> Editor], NEW w \in Window, NEW m \in Mic, Sound(x, w, m),
         NEW e \in Editors, NEW d \in Editor, EditorSound(d),
         x[e].place = "pending", ~Blank(x[e]), d.place = "track", d.doomed = x[e].doomed,
         \A f \in Tracks(w) : x[f].session.rec # d.session.rec
  PROVE  LET y == [x EXCEPT ![e] = d]
             v == [w EXCEPT !.tracks = Append(@, e)]
         IN y \in [Editors -> Editor] /\ v \in Window /\ Sound(y, v, m)
<1>1. e \notin Tracks(w)
  BY DEF Sound, TracksSound
<1>2. PICK tracks \in Seq(Editors) : /\ tracks = Append(w.tracks, e) /\ Distinct(tracks)
                                     /\ ToSet(tracks) = ToSet(w.tracks) \cup {e}
  <2>1. w.tracks \in Seq(Editors) /\ Distinct(w.tracks) /\ e \notin ToSet(w.tracks)
    BY <1>1, WindowFields DEF Sound, TracksSound, Tracks, ToSet
  <2> QED BY <2>1, AppendOne
<1>3. PICK v : v = [w EXCEPT !.tracks = Append(@, e)] /\ v = [w EXCEPT !.tracks = tracks]
  BY <1>2
<1>4. /\ v \in Window /\ v.tracks = tracks /\ v.removing = w.removing /\ v.queue = w.queue
      /\ v.frames = w.frames
  BY <1>3 DEF Window
<1>5. Tracks(v) = Tracks(w) \cup {e}
  BY <1>2, <1>4 DEF Tracks, ToSet
<1>6. PICK y \in [Editors -> Editor] : y = [x EXCEPT ![e] = d]
  OBVIOUS
<1>7. y[e] = d /\ \A f \in Editors : f # e => y[f] = x[f]
  BY <1>6
<1>8. \A f \in Editors : Stays(x[f]) => Stays(y[f])
  BY <1>7 DEF Stays
<1>9. \A f \in Editors : Blank(x[f]) => y[f] = x[f]
  BY <1>7
<1>10. TracksSound(y, v)
  <2>1. \A f \in Editors : y[f].place = "track" <=> f \in Tracks(v)
    BY <1>5, <1>7 DEF Sound, TracksSound
  <2>2. \A f \in Tracks(w) : f \in Editors /\ y[f] = x[f] /\ y[f].session.rec # d.session.rec
    BY <1>1, <1>7, TracksType
  <2>3. \A f, g \in Tracks(w) : y[f].session.rec = y[g].session.rec => f = g
    BY <2>2 DEF Sound, TracksSound
  <2>4. \A f, g \in Tracks(v) : y[f].session.rec = y[g].session.rec => f = g
    BY <1>5, <1>7, <2>2, <2>3
  <2>5. \A j \in DOMAIN v.queue : Stays(y[v.queue[j]])
    BY <1>4, <1>8, TracksType DEF Sound, TracksSound
  <2> QED BY <1>2, <1>4, <1>5, <2>1, <2>4, <2>5 DEF Sound, TracksSound
<1>11. FramesSound(y, v, m)
  <2>1. ASSUME NEW j \in DOMAIN w.frames
        PROVE  /\ w.frames[j].kind \in SaveDialogs => Stays(y[w.frames[j].editor])
               /\ w.frames[j].kind = "import" =>
                    Blank(y[w.frames[j].editor]) /\ w.frames[j].editor # m.editor
    BY <1>8, <1>9, FrameType DEF Sound, FramesSound
  <2> QED BY <1>4, <2>1 DEF Sound, FramesSound
<1>12. MicSound(y, m)
  <2>1. m.editor \in Editors \cup {None}
    BY DEF Mic
  <2> QED BY <1>7, <1>9, <2>1 DEF Sound, MicSound
<1> QED BY <1>3, <1>4, <1>6, <1>7, <1>10, <1>11, <1>12 DEF Sound


\* What the dialog makes of the answer to an import of its take.
LEMMA ImportIsHeard ==
  ASSUME NEW y \in [Editors -> Editor], NEW w, mic \in Mic, Sound(y, w, mic), NEW e \in Editors,
         NEW ok \in BOOLEAN, Microphone!ImportFinished(e, ok),
         ~ok /\ mic.editor = e => Blank(y[e])
  PROVE  mic' \in Mic /\ Sound(y, w, mic')
<1>1. CASE mic.state = "saving" /\ mic.editor = e
  <2>1. mic' = [mic EXCEPT !.state = IF ok THEN "finished" ELSE "take"]
    BY <1>1 DEF Microphone!ImportFinished
  <2>2. PICK s : s = (IF ok THEN "finished" ELSE "take")
    OBVIOUS
  <2>3. s \in Microphone!States /\ (s = "finished" \/ ~ok)
        /\ s \notin {"ready", "capturing"}
    BY <2>2 DEF Microphone!States
  <2>4. mic' = [mic EXCEPT !.state = s]
    BY <2>1, <2>2
  <2>5. mic' \in Mic /\ mic'.editor = mic.editor /\ mic'.state = s
    BY <2>3, <2>4 DEF Mic
  <2>6. FramesSound(y, w, mic')
    BY <2>5 DEF Sound, FramesSound
  <2>7. MicSound(y, mic')
    BY <1>1, <2>3, <2>5 DEF Sound, MicSound
  <2> QED BY <2>5, <2>6, <2>7 DEF Sound
<1>2. CASE ~(mic.state = "saving" /\ mic.editor = e)
  <2>1. mic' = mic
    BY <1>2 DEF Microphone!ImportFinished
  <2> QED BY <2>1
<1> QED BY <1>1, <1>2

LEMMA AnswerKeeps ==
  ASSUME GuiInv(ed, win, mic), NEW e \in Editors, Answer(e)
  PROVE  GuiStep
<1>1. /\ ed[e] \in Editor /\ EditorSound(ed[e]) /\ ed[e].work # None
      /\ ~Blank(ed[e])
  BY DEF GuiInv, Sound, Answer, Blank
<1>2. PICK ok \in BOOLEAN : ok = Succeeded(ed[e].work)
  BY DEF Succeeded
<1>3. PICK a \in Editor :
        /\ a = Answered(ed[e]) /\ EditorSound(a) /\ a.place = ed[e].place
        /\ a.doomed = ed[e].doomed /\ a.work = None /\ a.place \in {"pending", "track"}
        /\ a.place = "track" => a.session.rec = ed[e].session.rec
        /\ a.place = "track" /\ ed[e].session.dirty => a.session = ed[e].session
        /\ ~ok => a.session = ed[e].session
        /\ ok /\ ed[e].work.session # None => a.session = ed[e].work.session
        /\ a.place = "track" /\ ed[e].work.session # None =>
             ed[e].work.session.rec = ed[e].session.rec
  BY <1>1, <1>2, AnsweredType
<1>4. PICK placed : placed = IF ok /\ New(e) THEN [a EXCEPT !.place = "track"] ELSE a
  OBVIOUS
<1>5. PICK shown : shown = IF ok /\ New(e)
                           THEN Relocked([win EXCEPT !.tracks = Append(@, e)])
                           ELSE IF ok THEN Relocked(win) ELSE win
  OBVIOUS
<1>6. PICK told :
        told = IF ed[e].work.op = "save" THEN SaveFinished(shown, ed[e].work.answer = "saved")
               ELSE IF ed[e].work.op = "retry" THEN RecoveryFinished(shown, e, ok) ELSE shown
  OBVIOUS
<1>7. /\ ed' = [ed EXCEPT ![e] = Settled(ed[e], placed)] /\ win' = Heard(told, ed[e], placed)
      /\ IF ed[e].work.op = "import" THEN Microphone!ImportFinished(e, ok) ELSE UNCHANGED mic
  BY <1>2, <1>3, <1>4, <1>5, <1>6, Zenon DEF Answer
<1>8. ASSUME shown \in Window
      PROVE  win' \in Window /\ SameLayout(shown, win')
  <2>1. SameLayout(shown, shown)
    BY DEF SameLayout
  <2>2. told \in Window /\ SameLayout(shown, told)
    BY <1>6, <1>8, <2>1, SaveFinishedType, RecoveryFinishedType
  <2> QED BY <1>7, <2>2, HeardType, LayoutIsTransitive
<1>9. ASSUME ed[e].work.op = "import"
      PROVE  ed[e].session = None /\ ed[e].place = "pending"
  BY <1>1, <1>9 DEF EditorSound, WorkSound
<1>10. ASSUME ed' \in [Editors -> Editor], Sound(ed', win', mic),
              ~ok /\ mic.editor = e /\ ed[e].work.op = "import" => Blank(ed'[e])
       PROVE  mic' \in Mic /\ Sound(ed', win', mic')
  <2>1. CASE ed[e].work.op = "import"
    BY <1>7, <1>10, <2>1, ImportIsHeard DEF GuiInv
  <2>2. CASE ed[e].work.op # "import"
    BY <1>7, <1>10, <2>2 DEF GuiInv
  <2> QED BY <2>1, <2>2
<1>11. CASE ok /\ New(e)
  <2>1. /\ ed[e].work.session # None
        /\ \A f \in Tracks(win) : ed[f].session.rec # ed[e].work.session.rec
    BY <1>11 DEF New, Shown
  <2>2. a.place = "pending"
    BY <1>1, <1>3, <2>1 DEF GuiInv, Sound, TracksSound
  <2>3. placed = [a EXCEPT !.place = "track"] /\ a.session = ed[e].work.session
    BY <1>3, <1>4, <1>11, <2>1
  <2>4. /\ placed \in Editor /\ placed.place = "track" /\ placed.session = a.session
        /\ placed.work = None /\ placed.doomed = a.doomed
    BY <1>3, <2>3 DEF Editor
  <2>5. EditorSound(placed)
    BY <2>1, <2>3, <2>4 DEF EditorSound
  <2>6. PICK t \in Editor : /\ t = Settled(ed[e], placed) /\ EditorSound(t)
                            /\ SameEditor(placed, t) /\ t.work = None
    BY <2>4, <2>5, SettledType
  <2>7. PICK v : v = [win EXCEPT !.tracks = Append(@, e)]
    OBVIOUS
  <2>8. ed' \in [Editors -> Editor] /\ v \in Window /\ Sound(ed', v, mic)
    <3>1. /\ t.place = "track" /\ t.doomed = ed[e].doomed
          /\ \A f \in Tracks(win) : ed[f].session.rec # t.session.rec
      BY <1>3, <2>1, <2>3, <2>4, <2>6 DEF SameEditor
    <3>2. ed' = [ed EXCEPT ![e] = t]
      BY <1>7, <2>6
    <3>3. ed \in [Editors -> Editor] /\ win \in Window /\ mic \in Mic /\ Sound(ed, win, mic)
      BY DEF GuiInv
    <3>4. ed[e].place = "pending" /\ ~Blank(ed[e])
      BY <1>1, <1>3, <2>2
    <3>5. /\ [ed EXCEPT ![e] = t] \in [Editors -> Editor]
          /\ [win EXCEPT !.tracks = Append(@, e)] \in Window
          /\ Sound([ed EXCEPT ![e] = t], [win EXCEPT !.tracks = Append(@, e)], mic)
      BY <2>6, <3>1, <3>3, <3>4, NewTrackChanges
    <3> QED BY <2>7, <3>2, <3>5
  <2>9. shown \in Window /\ SameLayout(v, shown)
    BY <1>5, <1>11, <2>7, <2>8, RelockedType
  <2>10. win' \in Window /\ Sound(ed', win', mic)
    BY <1>8, <2>8, <2>9, LayoutIsSound
  <2>11. mic' \in Mic /\ Sound(ed', win', mic')
    BY <1>10, <1>11, <2>8, <2>10
  <2>12. Retains(ed, ed')
    <3>1. ~(ed[e].session # None /\ ed[e].session.dirty)
      BY <1>1, <1>3, <2>2 DEF EditorSound, Clean
    <3> QED BY <1>7, <3>1, RetainsOne DEF GuiInv
  <2> QED BY <2>8, <2>10, <2>11, <2>12 DEF GuiInv, GuiStep
<1>12. CASE ~(ok /\ New(e))
  <2>1. placed = a
    BY <1>4, <1>12
  <2>2. PICK t \in Editor : /\ t = Settled(ed[e], a) /\ EditorSound(t)
                            /\ \/ SameEditor(a, t) /\ t.work = a.work
                               \/ /\ a.doomed /\ a.place = "pending"
                                  /\ t.place = "gone" /\ t.session = None
    BY <1>3, SettledType
  <2>3. ed' = [ed EXCEPT ![e] = t]
    BY <1>7, <2>1, <2>2
  <2>4. ed' \in [Editors -> Editor] /\ Sound(ed', win, mic) /\ ed'[e] = t
    <3>1. ed \in [Editors -> Editor] /\ win \in Window /\ mic \in Mic /\ Sound(ed, win, mic)
      BY DEF GuiInv
    <3>2. \/ /\ ~Blank(ed[e]) \/ (t.session = ed[e].session /\ t.work = ed[e].work)
             /\ t.place = ed[e].place /\ t.doomed = ed[e].doomed
          \/ ed[e].doomed /\ ed[e].place = "pending" /\ t.place = "gone"
      BY <1>1, <1>3, <2>2 DEF SameEditor
    <3>3. t.place = "track" => t.session.rec = ed[e].session.rec
      BY <1>3, <2>2 DEF SameEditor
    <3>4. [ed EXCEPT ![e] = t] \in [Editors -> Editor] /\ Sound([ed EXCEPT ![e] = t], win, mic)
      BY <1>1, <2>2, <3>1, <3>2, <3>3, SettledChanges
    <3> QED BY <2>3, <3>1, <3>4
  <2>5. shown \in Window /\ SameLayout(win, shown)
    BY <1>5, <1>12, RelockedType DEF GuiInv, SameLayout
  <2>6. win' \in Window /\ Sound(ed', win', mic)
    BY <1>8, <2>4, <2>5, LayoutIsSound
  <2>7. ASSUME ~ok, mic.editor = e, ed[e].work.op = "import"
        PROVE  Blank(ed'[e])
    <3>1. ~ed[e].doomed
      BY <2>7, NoneIsNothing DEF GuiInv, Sound, MicSound
    <3> QED BY <1>3, <1>9, <2>2, <2>4, <2>7, <3>1 DEF SameEditor, Blank
  <2>8. mic' \in Mic /\ Sound(ed', win', mic')
    BY <1>10, <2>4, <2>6, <2>7
  <2>9. Retains(ed, ed')
    <3>1. ASSUME ed[e].session # None, ed[e].session.dirty
          PROVE  SameSession(ed[e].session, t.session)
      <4>1. ed[e].place = "track"
        BY <1>1, <3>1 DEF EditorSound, Clean
      <4>2. t.session = ed[e].session
        BY <1>3, <2>2, <3>1, <4>1 DEF SameEditor
      <4> QED BY <3>1, <4>2 DEF SameSession
    <3> QED BY <2>3, <3>1, RetainsOne DEF GuiInv
  <2> QED BY <2>4, <2>6, <2>8, <2>9 DEF GuiInv, GuiStep
<1> QED BY <1>11, <1>12

-----------------------------------------------------------------------------
(* The calls, made on worker threads.                                           *)
Queue == [saves : Nat, base : Nat, conflict : BOOLEAN]
Answers == {"none", "failed", "opened", "saved", "queued", "conflict", "done"}

\* A session that a call has read from the database.
Read(session, r) == session # None => session \in Session /\ Clean(session) /\ session.rec = r

LEMMA FetchedType ==
  ASSUME ServiceTypeOK, NEW r \in Recordings
  PROVE  /\ Fetched(r) \in Session /\ Clean(Fetched(r)) /\ Fetched(r).rec = r
         /\ [Fetched(r) EXCEPT !.base = 1] \in Session
         /\ Clean([Fetched(r) EXCEPT !.base = 1]) /\ [Fetched(r) EXCEPT !.base = 1].rec = r
BY DEF ServiceTypeOK, Fetched, Session, Clean

LEMMA EnqueuedType ==
  ASSUME ServiceTypeOK, NEW r \in Recordings, NEW base \in Nat
  PROVE  /\ Enqueued(r, base) \in Queue /\ Enqueued(r, base).saves > outbox[r].saves
         /\ [Enqueued(r, base) EXCEPT !.conflict = TRUE] \in Queue
<1>1. PICK q \in Queue : q = outbox[r]
  BY DEF ServiceTypeOK, Queue
<1>2. PICK b \in Nat : b = IF q.saves = 0 THEN base ELSE q.base
  BY <1>1 DEF Queue
<1>3. PICK n \in Nat : n = q.saves + 1 /\ n > q.saves
  BY <1>1 DEF Queue
<1>4. PICK p : p = Enqueued(r, base) /\ p = [q EXCEPT !.saves = n, !.base = b]
  BY <1>1, <1>2, <1>3 DEF Enqueued
<1>5. p \in Queue /\ p.saves = n /\ [p EXCEPT !.conflict = TRUE] \in Queue
  BY <1>4 DEF Queue
<1> QED BY <1>1, <1>3, <1>4, <1>5

LEMMA OpenOutcomeType ==
  ASSUME ServiceTypeOK, NEW r \in Recordings, NEW o \in OpenOutcomes(r)
  PROVE  /\ o.answer \in Answers /\ Read(o.session, r)
         /\ o.answer = "opened" => o.session \in Session
<1>1. CASE o = Refused(r)
  BY <1>1 DEF Refused, Unchanged, Outcome, Answers, Read
<1>2. CASE o = Unchanged(r, "opened", Fetched(r))
  BY <1>2, FetchedType DEF Unchanged, Outcome, Answers, Read
<1> QED BY <1>1, <1>2 DEF OpenOutcomes

LEMMA CreateOutcomeType ==
  ASSUME ServiceTypeOK, NEW r \in Recordings, NEW o \in CreateOutcomes(r)
  PROVE  o.answer \in Answers /\ Read(o.session, r) /\ o.head \in Nat /\ o.outbox \in Queue
<1>1. head[r] \in Nat /\ outbox[r] \in Queue /\ NothingQueued \in Queue
  BY DEF ServiceTypeOK, Queue, NothingQueued
<1>2. CASE o = Refused(r)
  BY <1>1, <1>2 DEF Refused, Unchanged, Outcome, Answers, Read
<1>3. CASE o = Outcome("failed", None, 0, Enqueued(r, 0))
  BY <1>3, EnqueuedType DEF Outcome, Answers, Read
<1>4. CASE o = Outcome("opened", [Fetched(r) EXCEPT !.base = 1], 1, NothingQueued)
  BY <1>1, <1>4, FetchedType DEF Outcome, Answers, Read
<1>5. CASE o = Outcome("failed", None, 1, NothingQueued)
  BY <1>1, <1>5 DEF Outcome, Answers, Read
<1> QED BY <1>2, <1>3, <1>4, <1>5 DEF CreateOutcomes

\* A save keeps the session's base, or the revision it leaves it for is stored or queued.
LEMMA SaveOutcomeType ==
  ASSUME ServiceTypeOK, NEW s \in Session, NEW o \in SaveOutcomes(s)
  PROVE  /\ o.answer \in Answers /\ o.head \in Nat /\ o.outbox \in Queue
         /\ o.session \in Session /\ o.session.rec = s.rec
         /\ o.session.base # s.base =>
              o.head > head[s.rec] \/ o.outbox.saves > outbox[s.rec].saves
<1>1. /\ s.rec \in Recordings /\ s.base \in Nat /\ head[s.rec] \in Nat
      /\ outbox[s.rec] \in Queue
  BY DEF Session, ServiceTypeOK, Queue
<1>2. PICK c : c = [s EXCEPT !.sync = "conflict"]
  OBVIOUS
<1>3. c \in Session /\ c.rec = s.rec /\ c.base = s.base
  BY <1>2 DEF Session
<1>0. PICK b \in Nat : b = s.base + 1
  BY <1>1
<1>4. PICK t : t = Captured(s) /\ t = [s EXCEPT !.base = b, !.dirty = FALSE, !.sync = "pending"]
  BY <1>0 DEF Captured
<1>5. t \in Session /\ t.rec = s.rec
  BY <1>4 DEF Session
<1>6. PICK u : /\ u = [s EXCEPT !.base = @ + 1, !.dirty = FALSE, !.sync = "synced"]
               /\ u = [s EXCEPT !.base = b, !.dirty = FALSE, !.sync = "synced"]
  BY <1>0
<1>7. u \in Session /\ u.rec = s.rec
  BY <1>6 DEF Session
<1>8. CASE o = Unchanged(s.rec, "failed", c)
  BY <1>1, <1>3, <1>8 DEF Unchanged, Outcome, Answers
<1>9. CASE o = Unchanged(s.rec, "failed", s)
  BY <1>1, <1>9 DEF Unchanged, Outcome, Answers
<1>10. CASE o = Outcome("queued", t, head[s.rec], Enqueued(s.rec, s.base))
  BY <1>1, <1>5, <1>10, EnqueuedType DEF Outcome, Answers
<1>11. CASE o = Outcome("saved", u, head[s.rec] + 1, outbox[s.rec])
  BY <1>1, <1>7, <1>11 DEF Outcome, Answers
<1>12. CASE o = Outcome("conflict", c, head[s.rec],
                        [Enqueued(s.rec, s.base) EXCEPT !.conflict = TRUE])
  BY <1>1, <1>3, <1>12, EnqueuedType DEF Outcome, Answers
<1> QED BY <1>2, <1>4, <1>6, <1>8, <1>9, <1>10, <1>11, <1>12 DEF SaveOutcomes

LEMMA PerformedType ==
  ASSUME ServiceTypeOK, NEW r \in Recordings, NEW o, o.head \in Nat, o.outbox \in Queue,
         Performed(r, o)
  PROVE  ServiceTypeOK' /\ head'[r] = o.head /\ outbox'[r] = o.outbox
BY DEF ServiceTypeOK, Performed, Queue

LEMMA RetryAllType ==
  ASSUME ServiceTypeOK, RetryAll
  PROVE  ServiceTypeOK'
<1>1. PICK n \in [Recordings -> Revision] :
        /\ \A r \in Recordings : n[r] <= outbox[r].saves
        /\ head' = [r \in Recordings |-> Resent(r, n[r]).head]
        /\ outbox' = [r \in Recordings |-> Resent(r, n[r]).outbox]
  BY DEF RetryAll
<1>2. ASSUME NEW r \in Recordings
      PROVE  Resent(r, n[r]).head \in Nat /\ Resent(r, n[r]).outbox \in Queue
  <2>1. PICK q \in Queue : q = outbox[r] /\ q.saves \in Nat /\ q.base \in Nat
    BY DEF ServiceTypeOK, Queue
  <2>2. PICK k \in Nat : k = n[r] /\ k <= q.saves
    BY <1>1, <2>1 DEF Revision
  <2>3. head[r] \in Nat /\ NothingQueued \in Queue
    BY DEF ServiceTypeOK, NothingQueued, Queue
  <2>4. [q EXCEPT !.conflict = TRUE] \in Queue
    BY DEF Queue
  <2>5. q.saves - k \in Nat /\ q.base + k \in Nat /\ head[r] + k \in Nat
    BY <2>1, <2>2, <2>3
  <2>6. PICK p : p = [q EXCEPT !.saves = @ - k, !.base = @ + k]
    OBVIOUS
  <2>7. p \in Queue
    BY <2>5, <2>6 DEF Queue
  <2>8. Resent(r, k) \in {Unchanged(r, "done", None),
                          Outcome("done", None, head[r], [q EXCEPT !.conflict = TRUE]),
                          Outcome("done", None, head[r] + k, NothingQueued),
                          Outcome("done", None, head[r] + k, p)}
    BY <2>1, <2>6 DEF Resent
  <2>9. Resent(r, k).head \in Nat /\ Resent(r, k).outbox \in Queue
    <3>1. CASE Resent(r, k) = Unchanged(r, "done", None)
      BY <2>1, <2>3, <3>1 DEF Unchanged, Outcome
    <3>2. CASE Resent(r, k) = Outcome("done", None, head[r], [q EXCEPT !.conflict = TRUE])
      BY <2>3, <2>4, <3>2 DEF Outcome
    <3>3. CASE Resent(r, k) = Outcome("done", None, head[r] + k, NothingQueued)
      BY <2>3, <2>5, <3>3 DEF Outcome
    <3>4. CASE Resent(r, k) = Outcome("done", None, head[r] + k, p)
      BY <2>5, <2>7, <3>4 DEF Outcome
    <3> QED BY <2>8, <3>1, <3>2, <3>3, <3>4
  <2> QED BY <2>2, <2>9
<1> QED BY <1>1, <1>2 DEF ServiceTypeOK, Queue


LEMMA AnsweringIs ==
  ASSUME ed \in [Editors -> Editor], NEW e \in Editors, ed[e].work \in Work,
         NEW answer \in Answers, NEW session \in Session \cup {None}
  PROVE  \E call \in Work :
           /\ call.op = ed[e].work.op /\ call.rec = ed[e].work.rec /\ call.session = session
           /\ Answering(e, answer, session) = [ed EXCEPT ![e] = [ed[e] EXCEPT !.work = call]]
<1>1. PICK work \in Work : work = ed[e].work
  OBVIOUS
<1>2. PICK call : call = [work EXCEPT !.stage = "answer", !.answer = answer, !.session = session]
  OBVIOUS
<1>3. call \in Work /\ call.op = work.op /\ call.rec = work.rec /\ call.session = session
  BY <1>2 DEF Work, Stages, Answers
<1>4. Answering(e, answer, session) = [ed EXCEPT ![e] = [ed[e] EXCEPT !.work = call]]
  BY <1>1, <1>2, Zenon DEF Answering
<1> QED BY <1>1, <1>3, <1>4

\* An editor whose call is made, with the answer and the session it has then.
Called(d, call, session) == [d EXCEPT !.work = call, !.session = session]
MadeOf(d, call, session) ==
  /\ d.work # None /\ call.op = d.work.op /\ call.rec = d.work.rec
  /\ Read(call.session, call.rec)
  /\ call.op = "save" => call.session = None
  /\ call.op = "retry" => session = d.session
  /\ d.place # "track" => session = d.session
  /\ d.place = "track" => session # None /\ session.rec = d.session.rec

LEMMA CalledChanges ==
  ASSUME GuiInv(ed, win, mic), UNCHANGED <<win, mic>>, NEW e \in Editors, NEW call \in Work,
         NEW session \in Session \cup {None}, MadeOf(ed[e], call, session),
         ed' = [ed EXCEPT ![e] = Called(ed[e], call, session)]
  PROVE  GuiInv(ed', win', mic') /\ ed'[e].session = session
         /\ \A f \in Editors : f # e => ed'[f] = ed[f]
<1>1. /\ ed[e] \in Editor /\ EditorSound(ed[e]) /\ WorkSound(ed[e]) /\ ~Blank(ed[e])
      /\ call # None
  BY NoneIsNothing DEF GuiInv, Sound, EditorSound, Blank, MadeOf
<1>2. PICK d : d = Called(ed[e], call, session)
  OBVIOUS
<1>3. /\ d \in Editor /\ d.place = ed[e].place /\ d.doomed = ed[e].doomed /\ d.work = call
      /\ d.session = session
  BY <1>1, <1>2 DEF Editor, Called
<1>4. WorkSound(d)
  BY <1>1, <1>3 DEF WorkSound, Read, MadeOf
<1>5. EditorSound(d)
  BY <1>1, <1>3, <1>4 DEF EditorSound, MadeOf
<1>6. ed' = [ed EXCEPT ![e] = d] /\ win' = win /\ mic' = mic
  BY <1>2
<1>7. ed' \in [Editors -> Editor] /\ Sound(ed', win, mic)
  <2>1. ed \in [Editors -> Editor] /\ win \in Window /\ mic \in Mic /\ Sound(ed, win, mic)
    BY DEF GuiInv
  <2>2. d.place = "track" => d.session.rec = ed[e].session.rec
    BY <1>3 DEF MadeOf
  <2>3. [ed EXCEPT ![e] = d] \in [Editors -> Editor] /\ Sound([ed EXCEPT ![e] = d], win, mic)
    BY <1>1, <1>3, <1>5, <2>1, <2>2, EngagedChanges
  <2> QED BY <1>6, <2>3
<1> QED BY <1>3, <1>6, <1>7 DEF GuiInv

\* A call that leaves the session alone.
LEMMA CalledStep ==
  ASSUME GuiInv(ed, win, mic), NEW e \in Editors, ed[e].work # None, NEW call \in Work,
         call.op = ed[e].work.op, call.rec = ed[e].work.rec, Read(call.session, call.rec),
         call.op # "save", UNCHANGED <<win, mic>>,
         ed' = [ed EXCEPT ![e] = [ed[e] EXCEPT !.work = call]]
  PROVE  GuiStep
<1>1. PICK session \in Session \cup {None} : session = ed[e].session
  BY EditorFields DEF GuiInv
<1>2. [ed[e] EXCEPT !.work = call] = Called(ed[e], call, session)
  BY <1>1 DEF GuiInv, Editor, Called
<1>3. ed[e].place = "track" => session # None
  BY <1>1 DEF GuiInv, Sound, EditorSound
<1>4. GuiInv(ed', win', mic') /\ ed'[e].session = session
      /\ \A f \in Editors : f # e => ed'[f] = ed[f]
  <2>1. ed' = [ed EXCEPT ![e] = Called(ed[e], call, session)]
    BY <1>2
  <2>2. MadeOf(ed[e], call, session)
    BY <1>1, <1>3 DEF MadeOf
  <2> QED BY <2>1, <2>2, CalledChanges
<1> QED BY <1>1, <1>4 DEF GuiStep, Retains, SameSession

\* What a step of the whole program keeps of a session with changes.
KeepsEdits == \A e \in Editors : ed[e].session # None /\ ed[e].session.dirty => Kept(e)

LEMMA GuiStepKeepsEdits ==
  ASSUME GuiStep
  PROVE  KeepsEdits
BY DEF GuiStep, Retains, SameSession, KeepsEdits, Kept

LEMMA WorkerKeeps ==
  ASSUME GuiInv(ed, win, mic), ServiceTypeOK, NEW e \in Editors, Worker(e), UNCHANGED <<win, mic>>
  PROVE  GuiInv(ed', win', mic') /\ ServiceTypeOK' /\ KeepsEdits
<1>1. /\ ed \in [Editors -> Editor] /\ ed[e] \in Editor /\ EditorSound(ed[e])
      /\ ed[e].work # None
  BY DEF GuiInv, Sound, Worker, WorkerOpens, WorkerImports, WorkerSaves, WorkerRetries,
         WorkerReopens, At
<1>2. /\ ed[e].work \in Work /\ WorkSound(ed[e]) /\ ed[e].work.rec \in Recordings \cup {None}
  BY <1>1, EditorFields, WorkFields DEF EditorSound
<1>3. CASE WorkerOpens(e)
  <2>1. PICK o \in OpenOutcomes(ed[e].work.rec) :
          ed' = Answering(e, o.answer, o.session) /\ UNCHANGED serviceVars
    BY <1>3 DEF WorkerOpens
  <2>2. ed[e].work.op = "open" /\ ed[e].work.rec \in Recordings
    BY <1>2, <1>3 DEF WorkerOpens, At, WorkSound
  <2>3. o.answer \in Answers /\ Read(o.session, ed[e].work.rec) /\ o.session \in Session \cup {None}
    BY <2>2, OpenOutcomeType DEF Read
  <2>a. PICK answer \in Answers, session \in Session \cup {None} :
          answer = o.answer /\ session = o.session
    BY <2>3
  <2>4. PICK call \in Work :
          /\ call.op = ed[e].work.op /\ call.rec = ed[e].work.rec /\ call.session = session
          /\ Answering(e, answer, session) = [ed EXCEPT ![e] = [ed[e] EXCEPT !.work = call]]
    BY <1>1, <1>2, AnsweringIs
  <2>5. GuiStep
    <3>1. ed' = [ed EXCEPT ![e] = [ed[e] EXCEPT !.work = call]]
      BY <2>1, <2>a, <2>4
    <3>2. call.op # "save" /\ Read(call.session, call.rec)
      BY <2>2, <2>3, <2>a, <2>4
    <3> QED BY <1>1, <2>4, <3>1, <3>2, CalledStep
  <2>6. ServiceTypeOK'
    BY <2>1 DEF ServiceTypeOK, serviceVars
  <2> QED BY <2>5, <2>6, GuiStepKeepsEdits DEF GuiStep
<1>4. CASE WorkerImports(e)
  <2>1. PICK o \in CreateOutcomes(ed[e].work.rec) :
          Performed(ed[e].work.rec, o) /\ ed' = Answering(e, o.answer, o.session)
    BY <1>4 DEF WorkerImports
  <2>2. ed[e].work.op = "import" /\ ed[e].work.rec \in Recordings
    BY <1>2, <1>4 DEF WorkerImports, At, WorkSound
  <2>3. /\ o.answer \in Answers /\ Read(o.session, ed[e].work.rec)
        /\ o.session \in Session \cup {None} /\ o.head \in Nat /\ o.outbox \in Queue
    BY <2>2, CreateOutcomeType DEF Read
  <2>a. PICK answer \in Answers, session \in Session \cup {None} :
          answer = o.answer /\ session = o.session
    BY <2>3
  <2>4. PICK call \in Work :
          /\ call.op = ed[e].work.op /\ call.rec = ed[e].work.rec /\ call.session = session
          /\ Answering(e, answer, session) = [ed EXCEPT ![e] = [ed[e] EXCEPT !.work = call]]
    BY <1>1, <1>2, AnsweringIs
  <2>5. GuiStep
    <3>1. ed' = [ed EXCEPT ![e] = [ed[e] EXCEPT !.work = call]]
      BY <2>1, <2>a, <2>4
    <3>2. call.op # "save" /\ Read(call.session, call.rec)
      BY <2>2, <2>3, <2>a, <2>4
    <3> QED BY <1>1, <2>4, <3>1, <3>2, CalledStep
  <2>6. ServiceTypeOK'
    BY <2>1, <2>2, <2>3, PerformedType
  <2> QED BY <2>5, <2>6, GuiStepKeepsEdits DEF GuiStep
<1>5. CASE WorkerSaves(e)
  <2>1. PICK o \in SaveOutcomes(ed[e].session) :
          /\ Performed(ed[e].work.rec, o)
          /\ ed' = [Answering(e, o.answer, None) EXCEPT ![e].session = o.session]
    BY <1>5 DEF WorkerSaves
  <2>2. /\ ed[e].work.op = "save" /\ ed[e].place = "track" /\ ed[e].session \in Session
        /\ ed[e].session # None /\ ed[e].work.rec = ed[e].session.rec
        /\ ed[e].session.rec \in Recordings
    BY <1>1, <1>2, <1>5, EditorFields DEF WorkerSaves, At, WorkSound, EditorSound, Session
  <2>3. PICK s \in Session :
          /\ s = o.session /\ s.rec = ed[e].session.rec
          /\ o.answer \in Answers /\ o.head \in Nat /\ o.outbox \in Queue
          /\ s.base # ed[e].session.base =>
               \/ o.head > head[ed[e].session.rec]
               \/ o.outbox.saves > outbox[ed[e].session.rec].saves
    BY <2>2, SaveOutcomeType
  <2>a. PICK answer \in Answers, none \in Session \cup {None} : answer = o.answer /\ none = None
    BY <2>3
  <2>4. PICK call \in Work :
          /\ call.op = ed[e].work.op /\ call.rec = ed[e].work.rec /\ call.session = none
          /\ Answering(e, answer, none) = [ed EXCEPT ![e] = [ed[e] EXCEPT !.work = call]]
    BY <1>1, <1>2, AnsweringIs
  <2>5. ed' = [ed EXCEPT ![e] = Called(ed[e], call, s)]
    <3>1. ed' = [[ed EXCEPT ![e] = [ed[e] EXCEPT !.work = call]] EXCEPT ![e].session = s]
      BY <2>1, <2>3, <2>a, <2>4
    <3>2. PICK d : d = [ed[e] EXCEPT !.work = call]
      OBVIOUS
    <3>3. ed' = [ed EXCEPT ![e] = [d EXCEPT !.session = s]]
      BY <1>1, <3>1, <3>2
    <3>4. [d EXCEPT !.session = s] = Called(ed[e], call, s)
      BY <1>1, <3>2 DEF Editor, Called
    <3> QED BY <3>3, <3>4
  <2>6. s # None /\ Read(call.session, call.rec)
    BY <2>a, <2>4, NoneIsNothing DEF Read
  <2>7. GuiInv(ed', win', mic') /\ ed'[e].session = s
        /\ \A f \in Editors : f # e => ed'[f] = ed[f]
    <3>1. MadeOf(ed[e], call, s)
      BY <1>1, <2>2, <2>3, <2>a, <2>4, <2>6 DEF MadeOf
    <3> QED BY <2>5, <3>1, CalledChanges
  <2>8. /\ ServiceTypeOK' /\ head'[ed[e].session.rec] = o.head
        /\ outbox'[ed[e].session.rec] = o.outbox
    BY <2>1, <2>2, <2>3, PerformedType
  <2>9. Kept(e)
    BY <2>3, <2>6, <2>7, <2>8 DEF Kept
  <2> QED BY <2>7, <2>8, <2>9 DEF KeepsEdits, Kept
<1>6. CASE WorkerRetries(e)
  <2>1. RetryAll /\ ed' = [ed EXCEPT ![e].work.stage = "reopen"]
    BY <1>6 DEF WorkerRetries
  <2>2. PICK call : call = [ed[e].work EXCEPT !.stage = "reopen"]
    OBVIOUS
  <2>3. /\ call \in Work /\ call.op = ed[e].work.op /\ call.rec = ed[e].work.rec
        /\ call.session = ed[e].work.session
    BY <1>2, <2>2 DEF Work, Stages
  <2>4. ed' = [ed EXCEPT ![e] = [ed[e] EXCEPT !.work = call]]
    BY <2>1, <2>2, Zenon
  <2>5. call.op # "save" /\ Read(call.session, call.rec)
    BY <1>2, <1>6, <2>3, WorkFields DEF WorkSound, Read, WorkerRetries, At
  <2>6. GuiStep
    BY <1>1, <2>3, <2>4, <2>5, CalledStep
  <2> QED BY <2>1, <2>6, RetryAllType, GuiStepKeepsEdits DEF GuiStep
<1>7. CASE WorkerReopens(e)
  <2>1. PICK answer \in Answers, session \in Session \cup {None} :
          ed' = Answering(e, answer, session) /\ Read(session, ed[e].work.rec)
    <3>1. CASE \/ ed' = Answering(e, "failed", None) \/ ed' = Answering(e, "done", None)
      BY <3>1 DEF Answers, Read
    <3>2. CASE /\ ed[e].work.rec # None
               /\ \E o \in OpenOutcomes(ed[e].work.rec) : ed' = Answering(e, o.answer, o.session)
      BY <1>2, <3>2, OpenOutcomeType DEF Read
    <3> QED BY <1>7, <3>1, <3>2 DEF WorkerReopens
  <2>2. ed[e].work.op = "retry" /\ UNCHANGED serviceVars
    BY <1>7 DEF WorkerReopens, At
  <2>3. PICK call \in Work :
          /\ call.op = "retry" /\ call.rec = ed[e].work.rec /\ call.session = session
          /\ ed' = [ed EXCEPT ![e] = [ed[e] EXCEPT !.work = call]]
    BY <1>1, <1>2, <2>1, <2>2, AnsweringIs
  <2>4. GuiStep
    BY <1>1, <2>1, <2>2, <2>3, CalledStep
  <2>5. ServiceTypeOK'
    BY <2>2 DEF ServiceTypeOK, serviceVars
  <2> QED BY <2>4, <2>5, GuiStepKeepsEdits DEF GuiStep
<1> QED BY <1>3, <1>4, <1>5, <1>6, <1>7 DEF Worker

-----------------------------------------------------------------------------
(* The browser, and the steps of the whole program.                             *)
LEMMA BrowserKeeps ==
  ASSUME ServiceTypeOK, BrowserTypeOK,
         \/ EditMetadata /\ UNCHANGED serviceVars
         \/ BrowserOpens \/ BrowserSaves
  PROVE  ServiceTypeOK' /\ BrowserTypeOK'
<1>1. Idle \in [saving : BOOLEAN, updates : SUBSET Update, session : Session \cup {None}]
  BY DEF Idle
<1>2. ASSUME NEW u
      PROVE  Done(u) \in [saving : BOOLEAN, updates : SUBSET Update, session : Session \cup {None}]
  BY <1>1 DEF Done, BrowserTypeOK
<1>3. CASE EditMetadata /\ UNCHANGED serviceVars
  <2>1. PICK u \in Listings : browser' = [saving |-> TRUE, updates |-> u, session |-> None]
    BY <1>3 DEF EditMetadata
  <2>2. u \in SUBSET Update
    BY DEF Listings
  <2> QED BY <1>3, <2>1, <2>2 DEF BrowserTypeOK, ServiceTypeOK, serviceVars
<1>4. CASE BrowserOpens
  <2>0. PICK u \in browser.updates : \E o \in OpenOutcomes(u.rec) :
          browser' = IF o.answer = "opened" /\ o.session.base = u.listed
                     THEN [browser EXCEPT !.session = [o.session EXCEPT !.dirty = TRUE]]
                     ELSE Done(u)
    BY <1>4 DEF BrowserOpens
  <2>1. PICK o \in OpenOutcomes(u.rec) :
          browser' = IF o.answer = "opened" /\ o.session.base = u.listed
                     THEN [browser EXCEPT !.session = [o.session EXCEPT !.dirty = TRUE]]
                     ELSE Done(u)
    BY <2>0
  <2>2. u.rec \in Recordings
    BY <2>0 DEF BrowserTypeOK, Update
  <2>3. o.answer = "opened" => o.session \in Session
    BY <2>1, <2>2, OpenOutcomeType
  <2>4. ASSUME NEW s \in Session, browser' = [browser EXCEPT !.session = [s EXCEPT !.dirty = TRUE]]
        PROVE  BrowserTypeOK'
    <3>1. PICK t \in Session : t = [s EXCEPT !.dirty = TRUE]
      BY DEF Session
    <3> QED BY <2>4, <3>1 DEF BrowserTypeOK
  <2>5. BrowserTypeOK'
    <3>1. CASE o.answer = "opened" /\ o.session.base = u.listed
      BY <2>1, <2>3, <2>4, <3>1
    <3>2. CASE ~(o.answer = "opened" /\ o.session.base = u.listed)
      BY <1>2, <2>1, <3>2 DEF BrowserTypeOK
    <3> QED BY <3>1, <3>2
  <2> QED BY <1>4, <2>5 DEF BrowserOpens, ServiceTypeOK, serviceVars
<1>5. CASE BrowserSaves
  <2>1. PICK u \in browser.updates : \E o \in SaveOutcomes(browser.session) :
          /\ u.rec = browser.session.rec /\ Performed(u.rec, o) /\ browser' = Done(u)
    BY <1>5 DEF BrowserSaves
  <2>a. PICK o \in SaveOutcomes(browser.session) :
          /\ u.rec = browser.session.rec /\ Performed(u.rec, o) /\ browser' = Done(u)
    BY <2>1
  <2>2. browser.session \in Session /\ u.rec \in Recordings
    BY <1>5, <2>1 DEF BrowserSaves, BrowserTypeOK, Update
  <2>3. o.head \in Nat /\ o.outbox \in Queue
    BY <2>a, <2>2, SaveOutcomeType
  <2> QED BY <1>2, <2>a, <2>2, <2>3, PerformedType DEF BrowserTypeOK
<1> QED BY <1>3, <1>4, <1>5

\* The tunnel and the phases of the program, which the window only ends.
LEMMA AppKeeps ==
  ASSUME AppTypeOK,
         \/ StartTunnel \/ TunnelIsReady \/ TunnelFails \/ Probe \/ SshOpens
         \/ GuardianSpawns \/ GuardianTerminates \/ GuardianEnds \/ SshExits
         \/ StopTunnel \/ Dies
  PROVE  AppTypeOK'
BY DEF AppTypeOK, StartTunnel, TunnelIsReady, TunnelFails, Probe, SshOpens, GuardianSpawns,
       GuardianTerminates, GuardianEnds, SshExits, StopTunnel, Dies

ProgramInv == /\ AppTypeOK /\ ServiceTypeOK /\ BrowserTypeOK /\ GuiInv(ed, win, mic)

LEMMA ProgramInvIsWindowInv ==
  ProgramInv <=> WindowInv
<1>1. Microphone!MicTypeOK <=> mic \in Mic
  BY DEF Microphone!MicTypeOK, Mic
<1>2. EditorsTypeOK <=> ed \in [Editors -> Editor]
  BY DEF EditorsTypeOK
<1> QED BY <1>1, <1>2 DEF ProgramInv, WindowInv, TypeOK, GuiInv

\* Every event of the GUI thread.
GuiEvent ==
  \/ Request \/ RareRequest \/ AnswerDialog \/ TimerFires
  \/ \E e \in Editors : Answer(e) \/ ReadDone(e)

LEMMA GuiEventStep ==
  ASSUME GuiInv(ed, win, mic), GuiEvent
  PROVE  GuiStep
<1>1. CASE Request
  BY <1>1, RetryPendingStep, CloseWindowStep, AddRecordingStep, EditStep, SaveRevisionStep,
     RemoveTrackStep, UseMicrophoneStep, AddTakeStep, CloseMicrophoneStep DEF Request
<1>2. CASE RareRequest
  BY <1>2, ImportAudioStep, RecordAudioStep, RefreshDefinitionsStep DEF RareRequest
<1>3. CASE AnswerDialog
  BY <1>3, AcceptSaveStep, CancelSaveStep, AcceptImportStep, CancelImportStep DEF AnswerDialog
<1>4. CASE TimerFires
  BY <1>4, TimerFiresStep
<1>5. CASE \E e \in Editors : Answer(e) \/ ReadDone(e)
  BY <1>5, AnswerKeeps, ReadDoneStep
<1> QED BY <1>1, <1>2, <1>3, <1>4, <1>5 DEF GuiEvent

\* The window leaves the program's phase alone, or ends it.
LEMMA GuiEventEnds ==
  ASSUME GuiEvent, OnGuiThread
  PROVE  phase' \in {phase, "stopping"}
<1>1. \A w : ContinueClose(w) => phase' \in {phase, "stopping"}
  BY DEF ContinueClose, Leave, SaveTrack
<1> QED BY <1>1 DEF GuiEvent, Request, RareRequest, AnswerDialog, TimerFires, Answer, ReadDone,
     RetryPending, CloseWindow, AddRecording, Edit, SaveRevision, RemoveTrack, UseMicrophone,
     AddTake, CloseMicrophone, ImportAudio, RecordAudio, RefreshDefinitions, AcceptSave,
     CancelSave, AcceptImport, CancelImport

LEMMA GuiEventPhase ==
  ASSUME GuiEvent, OnGuiThread, AppTypeOK, ServiceTypeOK, BrowserTypeOK
  PROVE  AppTypeOK' /\ ServiceTypeOK' /\ BrowserTypeOK'
BY GuiEventEnds DEF OnGuiThread, AppTypeOK, ServiceTypeOK, BrowserTypeOK, serviceVars

LEMMA ProgramStep ==
  ASSUME ProgramInv, Next
  PROVE  ProgramInv' /\ (phase' # "stopped" => KeepsEdits)
<1>1. CASE GuiEvent /\ OnGuiThread
  BY <1>1, GuiEventStep, GuiEventPhase, GuiStepKeepsEdits DEF ProgramInv, GuiStep
<1>2. CASE \E e \in Editors : WorkerStep(e)
  <2>1. PICK e \in Editors : WorkerStep(e)
    BY <1>2
  <2>2. Worker(e) /\ UNCHANGED <<appVars, browser, win, mic>>
    BY <2>1 DEF WorkerStep
  <2>3. GuiInv(ed', win', mic') /\ ServiceTypeOK' /\ KeepsEdits
    BY <2>2, WorkerKeeps DEF ProgramInv
  <2> QED BY <2>2, <2>3 DEF ProgramInv, AppTypeOK, appVars, BrowserTypeOK
<1>3. ASSUME UNCHANGED <<ed, win, mic>>
      PROVE  GuiInv(ed', win', mic') /\ KeepsEdits
  <2>1. GuiStep
    BY <1>3, RetainsAll DEF ProgramInv, GuiStep
  <2> QED BY <2>1, GuiStepKeepsEdits DEF GuiStep
<1>4. CASE BrowserStep
  <2>1. ServiceTypeOK' /\ BrowserTypeOK'
    BY <1>4, BrowserKeeps DEF BrowserStep, ProgramInv
  <2>2. UNCHANGED <<appVars, ed, win, mic>>
    BY <1>4 DEF BrowserStep
  <2> QED BY <1>3, <2>1, <2>2 DEF ProgramInv, AppTypeOK, appVars
<1>5. CASE TunnelStep \/ GuardianStep \/ TunnelLoss \/ StopStep
  <2>1. AppTypeOK'
    BY <1>5, AppKeeps DEF TunnelStep, GuardianStep, TunnelLoss, StopStep, ProgramInv
  <2>2. UNCHANGED <<serviceVars, ed, win, mic>> /\ (UNCHANGED browser \/ browser' = Idle)
    BY <1>5 DEF TunnelStep, GuardianStep, TunnelLoss, StopStep, windowVars
  <2>3. BrowserTypeOK'
    <3>1. CASE UNCHANGED browser
      BY <3>1 DEF ProgramInv, BrowserTypeOK
    <3>2. CASE browser' = Idle
      BY <3>2 DEF BrowserTypeOK, Idle
    <3> QED BY <2>2, <3>1, <3>2
  <2>4. ServiceTypeOK'
    BY <2>2 DEF ProgramInv, ServiceTypeOK, serviceVars
  <2> QED BY <2>4, <1>3, <2>1, <2>2, <2>3 DEF ProgramInv
<1>6. CASE DeathStep
  <2>1. AppTypeOK' /\ phase' = "stopped"
    BY <1>6, AppKeeps DEF DeathStep, ProgramInv, Dies
  <2>2. GuiInv(ed', win', mic')
    BY <1>6, ClearedIsSound DEF DeathStep
  <2>3. ServiceTypeOK' /\ BrowserTypeOK'
    BY <1>6 DEF DeathStep, ProgramInv, ServiceTypeOK, serviceVars, BrowserTypeOK, Idle
  <2> QED BY <2>1, <2>2, <2>3 DEF ProgramInv
<1> QED
  <2>1. (UserStep \/ DialogStep \/ TimerStep \/ \E e \in Editors : AnswerStep(e) \/ ReadStep(e)) =>
          GuiEvent /\ OnGuiThread
    BY DEF UserStep, DialogStep, TimerStep, AnswerStep, ReadStep, GuiEvent
  <2> QED BY <1>1, <1>2, <1>4, <1>5, <1>6, <2>1 DEF Next

LEMMA ProgramStarts ==
  ASSUME Init
  PROVE  ProgramInv
<1>1. /\ ed = [e \in Editors |-> Unused] /\ win = NoWindow /\ mic = Microphone!NoDialog
  BY DEF Init, EditorsInit, Microphone!MicInit
<1>2. GuiInv(ed, win, mic)
  BY <1>1, ClearedIsSound
<1>3. AppTypeOK /\ ServiceTypeOK /\ BrowserTypeOK
  BY DEF Init, AppInit, AppTypeOK, ServiceInit, ServiceTypeOK, NothingQueued, BrowserInit,
         BrowserTypeOK, Idle
<1> QED BY <1>2, <1>3 DEF ProgramInv

LEMMA ProgramStutters ==
  ASSUME ProgramInv, UNCHANGED vars
  PROVE  ProgramInv'
<1>1. /\ UNCHANGED <<phase, guardian, ssh, head, outbox, ed, browser, win, mic>>
  BY DEF vars, appVars, serviceVars
<1> QED BY <1>1 DEF ProgramInv, AppTypeOK, ServiceTypeOK, BrowserTypeOK, GuiInv

\* The values of all variables, for any number of editors and recordings: in
\* particular the window refers to editors and recordings that exist.
THEOREM Types == Spec => []TypeOK
<1>1. ProgramInv /\ [Next]_vars => ProgramInv'
  BY ProgramStep, ProgramStutters
<1>2. ProgramInv => TypeOK
  BY ProgramInvIsWindowInv DEF WindowInv
<1> QED BY <1>1, <1>2, ProgramStarts, PTL DEF Spec

\* A recording that is opened twice, by an import and from the browser, has one
\* track, and an editor that is no track has nothing unsaved: whatever the user
\* does while workers answer (_install() of workstation_window.py).
THEOREM EachRecordingHasOneTrack == Spec => []OneTrackPerRecording
<1>1. ProgramInv /\ [Next]_vars => ProgramInv'
  BY ProgramStep, ProgramStutters
<1>2. ProgramInv => OneTrackPerRecording
  <2>1. SUFFICES ASSUME GuiInv(ed, win, mic) PROVE OneTrackPerRecording
    BY DEF ProgramInv
  <2>2. ASSUME NEW e \in Pending PROVE ~Unsaved(e)
    <3>1. e \in Editors /\ ed[e].place = "pending" /\ EditorSound(ed[e])
      BY <2>1 DEF Pending, GuiInv, Sound
    <3>2. ed[e].session # None => Clean(ed[e].session)
      BY <3>1 DEF EditorSound
    <3> QED BY <3>2 DEF Clean, Unsaved
  <2> QED BY <2>1, <2>2 DEF GuiInv, Sound, TracksSound, OneTrackPerRecording
<1> QED BY <1>1, <1>2, ProgramStarts, PTL DEF Spec

\* Unless the program dies, a session with changes is not closed, and its base
\* moves only with a revision that is stored or queued, whatever is closed,
\* removed, retried or answered in the meantime.
THEOREM EditsAreKept == Spec => NoEditDropped
<1>1. ProgramInv /\ [Next]_vars => ProgramInv'
  BY ProgramStep, ProgramStutters
<1>2. ProgramInv /\ [Next]_vars =>
        [phase' # "stopped" =>
           \A e \in Editors : ed[e].session # None /\ ed[e].session.dirty => Kept(e)]_vars
  BY ProgramStep DEF KeepsEdits
<1> QED BY <1>1, <1>2, ProgramStarts, PTL DEF Spec, NoEditDropped

-----------------------------------------------------------------------------
(* The processes of application/ssh_tunnel.py and tunnel_guardian.py: a living   *)
(* ssh process has a guardian that will end it, and while the window works, the  *)
(* tunnel has been open.                                                        *)
SshIsGuarded ==
  /\ SshAlive => guardian = "up"
  /\ phase = "running" => ssh \in {"open", "dead"}

\* Besides, nothing is left of ssh when the guardian is gone.
Guarded ==
  /\ SshIsGuarded
  /\ phase = "off" => guardian = "none" /\ ssh = "none"
  /\ guardian = "gone" => ssh = "dead"
  /\ phase = "probing" => ssh \in {"open", "dead"}

LEMMA GuardedKeeps ==
  ASSUME Guarded,
         \/ StartTunnel \/ TunnelIsReady \/ TunnelFails \/ Probe \/ SshOpens
         \/ GuardianSpawns \/ GuardianTerminates \/ GuardianEnds \/ SshExits
         \/ StopTunnel \/ Dies
         \/ UNCHANGED appVars
         \/ phase = "running" /\ phase' \in {phase, "stopping"} /\ UNCHANGED <<guardian, ssh>>
  PROVE  Guarded'
BY DEF Guarded, SshIsGuarded, SshAlive, StartTunnel, TunnelIsReady, TunnelFails, Probe, SshOpens,
       GuardianSpawns, GuardianTerminates, GuardianEnds, SshExits, StopTunnel, Dies, appVars

LEMMA GuardedStep ==
  ASSUME Guarded, [Next]_vars
  PROVE  Guarded' /\ (StopStep => ~SshAlive')
<1>1. CASE GuiEvent /\ OnGuiThread
  <2>1. phase = "running" /\ UNCHANGED <<guardian, ssh>> /\ phase' \in {phase, "stopping"}
    BY <1>1, GuiEventEnds DEF OnGuiThread
  <2>2. Guarded'
    BY <2>1, GuardedKeeps
  <2>3. ~StopStep
    BY <2>1 DEF StopStep, StopTunnel
  <2> QED BY <2>2, <2>3
<1>2. CASE \/ TunnelStep \/ GuardianStep \/ TunnelLoss \/ StopStep \/ DeathStep
  <2>1. Guarded'
    BY <1>2, GuardedKeeps DEF TunnelStep, GuardianStep, TunnelLoss, StopStep, DeathStep
  <2>2. StopStep => ~SshAlive'
    BY DEF StopStep, StopTunnel, Guarded, SshAlive
  <2> QED BY <2>1, <2>2
<1>3. CASE BrowserStep \/ (\E e \in Editors : WorkerStep(e)) \/ UNCHANGED vars
  <2>1. UNCHANGED appVars
    BY <1>3 DEF BrowserStep, WorkerStep, vars
  <2>2. ~StopStep
    BY <2>1 DEF StopStep, StopTunnel, appVars
  <2> QED BY <2>1, <2>2, GuardedKeeps
<1> QED
  <2>1. (UserStep \/ DialogStep \/ TimerStep \/ \E e \in Editors : AnswerStep(e) \/ ReadStep(e)) =>
          GuiEvent /\ OnGuiThread
    BY DEF UserStep, DialogStep, TimerStep, AnswerStep, ReadStep, GuiEvent
  <2> QED BY <1>1, <1>2, <1>3, <2>1 DEF Next

\* However the program, its guardian and ssh end or fail, a living ssh process has
\* a guardian, and the window only works once the tunnel was open.
THEOREM TunnelIsGuarded == Spec => []SshIsGuarded
<1>1. Init => Guarded
  BY DEF Init, AppInit, Guarded, SshIsGuarded, SshAlive
<1>2. Guarded /\ [Next]_vars => Guarded'
  BY GuardedStep
<1>3. Guarded => SshIsGuarded
  BY DEF Guarded
<1> QED BY <1>1, <1>2, <1>3, PTL DEF Spec

\* An orderly stop of the program leaves no ssh process behind (stop() of
\* ssh_tunnel.py waits for the guardian).
THEOREM StopEndsTunnel == Spec => [][StopStep => ~SshAlive']_vars
<1>1. Init => Guarded
  BY DEF Init, AppInit, Guarded, SshIsGuarded, SshAlive
<1>2. Guarded /\ [Next]_vars => Guarded' /\ [StopStep => ~SshAlive']_vars
  BY GuardedStep
<1> QED BY <1>1, <1>2, PTL DEF Spec

=============================================================================
