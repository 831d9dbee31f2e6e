---------------------------- MODULE WorkspaceTracks ----------------------------
(* gui/workspace.py, with the parts of gui/track_widget.py and gui/waveform.py   *)
(* that share its selection: the clips on one timeline, the active track and     *)
(* the one selection, which each track shows in samples of its own.  Time is     *)
(* counted in frames of one rate; the viewport is left out.                      *)
EXTENDS Integers, Sequences, FiniteSetsExt, SequencesExt

CONSTANTS Track,     \* recordings that may become tracks
          Length,    \* frames of each recording
          MaxOffset, \* bound: the latest start of a clip
          None

ASSUME TrackAssumption ==
  IsFiniteSet(Track) /\ None \notin Track /\ Length \in [Track -> Nat \ {0}]
ASSUME OffsetAssumption == MaxOffset \in Nat

VARIABLES arr,       \* the arrangement: order, offsets, mute and solo
          activeId,  \* the track that is active
          selection, \* the track that is selected in, and the interval in its samples
          views,     \* the interval that each track's waveform shows
          gesture,   \* the mouse drag in a waveform
          apart      \* (no variable of the program) tracks whose waveforms were dragged
                     \* in or reopened while not active, since all were told last

trackVars == <<arr, activeId, selection, views, gesture, apart>>

Interval == {i \in Int \X Int : i[1] < i[2]}
Offset == 0..MaxOffset

On(a) == ToSet(a.order)
TracksTypeOK ==
  /\ arr \in [order: Seq(Track), offset: [Track -> Offset],
              muted: SUBSET Track, soloed: SUBSET Track]
  /\ activeId \in Track \cup {None}
  /\ selection \in [track: Track, interval: Interval] \cup {None}
  /\ views \in [Track -> Interval \cup {None}]
  /\ gesture \in [track: Track, original: Interval \cup {None}, dragged: BOOLEAN] \cup {None}
  /\ apart \in SUBSET Track

TracksInit ==
  /\ arr = [order |-> <<>>, offset |-> [t \in Track |-> 0], muted |-> {}, soloed |-> {}]
  /\ activeId = None /\ selection = None /\ gesture = None
  /\ views = [t \in Track |-> None]
  /\ apart = {}

\* Workspace seconds of the end of the last clip, and the tracks that are heard.
Duration(a) == Max({0} \cup {a.offset[t] + Length[t] : t \in On(a)})
Audible(a) ==
  {t \in On(a) : t \notin a.muted /\ (On(a) \cap a.soloed # {} => t \in a.soloed)}

\* _shared_selection: a selection in the samples of track t.
Shown(a, sel, t) ==
  IF sel = None THEN None
  ELSE LET d == a.offset[sel.track] - a.offset[t]
       IN <<sel.interval[1] + d, sel.interval[2] + d>>

\* selection_changed, heard by every track that is on the timeline.
Show(a, sel) ==
  /\ views' = [t \in Track |-> IF t \in On(a) THEN Shown(a, sel, t) ELSE None]
  /\ apart' = {}

\* select(): what is selected belongs to the active track u.
Select(a, u, interval) ==
  /\ selection' = IF u = None \/ interval = None THEN None
                  ELSE [track |-> u, interval |-> interval]
  /\ Show(a, selection')

\* Faulty variant: the selection of the last track is kept.
ActivateOnly(a, u) ==
  /\ activeId' = u
  /\ UNCHANGED <<selection, views, apart>>

\* activate(): another track becomes active without a selection.
Activate(a, u) ==
  /\ activeId' = u
  /\ IF activeId = u THEN UNCHANGED <<selection, views, apart>> ELSE Select(a, u, None)

-----------------------------------------------------------------------------
(* What changes the arrangement; the player hears of each of them. *)
Index(t) == CHOOSE i \in DOMAIN arr.order : arr.order[i] = t

AddTrack(t) ==
  /\ t \notin On(arr)
  /\ arr' = [arr EXCEPT !.order = Append(@, t)]
  /\ Activate(arr', t)
  /\ UNCHANGED gesture

RemoveTrack(t) ==
  /\ t \in On(arr)
  /\ arr' = [order |-> RemoveAt(arr.order, Index(t)), offset |-> [arr.offset EXCEPT ![t] = 0],
             muted |-> arr.muted \ {t}, soloed |-> arr.soloed \ {t}]
  /\ IF activeId = t THEN Activate(arr', IF On(arr') = {} THEN None ELSE Head(arr'.order))
     ELSE UNCHANGED <<activeId, selection, apart>> /\ views' = [views EXCEPT ![t] = None]
  /\ gesture' = IF gesture # None /\ gesture.track = t THEN None ELSE gesture

\* A clip that is dragged by its header stays at or after the start.
Place(t, x) ==
  /\ t \in On(arr)
  /\ arr' = [arr EXCEPT !.offset[t] = Max({0, x})]
  /\ Show(arr', selection)
  /\ UNCHANGED <<activeId, selection, gesture>>

SetMix(t, muted, solo) ==
  /\ t \in On(arr)
  /\ arr' = [arr EXCEPT !.muted = IF muted THEN @ \cup {t} ELSE @ \ {t},
                        !.soloed = IF solo THEN @ \cup {t} ELSE @ \ {t}]
  /\ UNCHANGED <<activeId, selection, views, gesture, apart>>

MoveOrder(t, delta) ==
  /\ t \in On(arr)
  /\ LET k == Max({1, Min({Len(arr.order), Index(t) + delta})})
     IN arr' = [arr EXCEPT !.order = InsertAt(RemoveAt(@, Index(t)), k, t)]
  /\ UNCHANGED <<activeId, selection, views, gesture, apart>>

-----------------------------------------------------------------------------
(* The mouse in a waveform.  A press activates the track first.               *)
Press(t) ==
  /\ gesture = None /\ t \in On(arr)
  /\ Activate(arr, t)
  /\ gesture' = [track |-> t, original |-> views'[t], dragged |-> FALSE]
  /\ UNCHANGED arr

\* What the waveform shows goes to the workspace only from the active track.
Drawn(t, interval) ==
  IF activeId = t THEN Select(arr, t, interval)
  ELSE /\ views' = [views EXCEPT ![t] = interval]
       /\ apart' = apart \cup {t}
       /\ UNCHANGED selection

Drag ==
  /\ gesture # None
  /\ LET last == Length[gesture.track] IN
     \E interval \in {i \in (0..last) \X (0..last) : i[1] < i[2]} \cup {None} :
       Drawn(gesture.track, interval)
  /\ gesture' = [gesture EXCEPT !.dragged = TRUE]
  /\ UNCHANGED <<arr, activeId>>

\* Escape, a change of the view and a controller that becomes busy.
CancelGesture ==
  /\ gesture # None
  /\ Drawn(gesture.track, gesture.original)
  /\ gesture' = None
  /\ UNCHANGED <<arr, activeId>>

Release ==
  /\ gesture # None /\ gesture.dragged
  /\ gesture' = None
  /\ UNCHANGED <<arr, activeId, selection, views, apart>>

\* A click without a drag clears the selection; the player seeks.
Click ==
  /\ gesture # None /\ ~gesture.dragged
  /\ gesture' = None
  /\ Select(arr, activeId, None)
  /\ UNCHANGED <<arr, activeId>>

\* A press on the track's header, or on a waveform that is not ready; closing a
\* track with changes activates it too.
ActivateTrack(t) ==
  /\ t \in On(arr)
  /\ Activate(arr, t)
  /\ UNCHANGED <<arr, gesture>>

\* A click on an annotation, and the toolbar's Clear selection.
ClickAnnotation(t) ==
  /\ gesture = None /\ t \in On(arr)
  /\ activeId' = t
  /\ Select(arr, t, None)
  /\ UNCHANGED <<arr, gesture>>

ClearSelection ==
  /\ gesture = None
  /\ Select(arr, activeId, None)
  /\ UNCHANGED <<arr, activeId, gesture>>

\* Pending saves were retried: the session of a track is closed and opened anew,
\* and its waveform is cleared with what it had selected.
ReopenTrack(t) ==
  /\ t \in On(arr)
  /\ Drawn(t, None)
  /\ gesture' = IF gesture # None /\ gesture.track = t THEN None ELSE gesture
  /\ UNCHANGED <<arr, activeId>>

-----------------------------------------------------------------------------
\* There is one selection (Reference_Client.md:56): it belongs to the active track,
\* which is on the timeline and whose waveform shows exactly what is selected;
\* and every other track shows it in its own samples.  Two kinds of them do not,
\* until the selection changes or a clip is moved: a track that is still being
\* dragged in when another one is added, and one whose session was reopened.
OneSelection ==
  /\ IF On(arr) = {} THEN activeId = None ELSE activeId \in On(arr) \ apart
  /\ selection # None => selection.track = activeId
  /\ \A t \in On(arr) \ apart : views[t] = Shown(arr, selection, t)
=============================================================================
