-------------------------- MODULE PlaygroundProject --------------------------
(***************************************************************************)
(* The project of the spectrogram playground, from                         *)
(* spectrogram_playground/model/: its tracks in their order, the selection *)
(* of each track, and the active track, whose selection is the project's.  *)
(***************************************************************************)
EXTENDS AudioEditing, FiniteSetsExt, SequencesExt, TLC

CONSTANTS
    TrackId,      \* the identifiers of the tracks that are ever added
    None          \* no track, no selection, no clip

ASSUME TrackIdAssumption == IsFiniteSet(TrackId) /\ None \notin TrackId

VARIABLES
    order,        \* Project.tracks: the identifiers, from top to bottom
    audio,        \* the track objects, by identifier; a worker may still hold
                  \* one that has been removed
    selections,   \* Project.selections: <<start, end>>, or None when empty
    active        \* Project.active_track_id

projectVars == <<order, audio, selections, active>>

Tracks == ToSet(order)

\* The frames of the longest track.
TotalFramesOf(ids, tracks) == Max({0} \cup {Duration(tracks[t]) : t \in ids})

TotalFrames == TotalFramesOf(Tracks, audio)

SelectionOf(id, selected) == IF id = None THEN None ELSE selected[id]

Selection == SelectionOf(active, selections)

\* Selection.set: a selection with no width counts as none.
Selected(first, second, duration) ==
    LET start == Within(Least(first, second), duration)
        end   == Within(Greatest(first, second), duration)
    IN  IF start < end THEN <<start, end>> ELSE None

ProjectInit ==
    /\ order = <<>>
    /\ audio = <<>>
    /\ selections = <<>>
    /\ active = None

\* Project.add_track: identifiers are never used again.
AddToProject(id, samples) ==
    /\ id \notin DOMAIN audio
    /\ order' = Append(order, id)
    /\ audio' = [t \in DOMAIN audio \cup {id} |->
                   IF t = id THEN Untrimmed(samples) ELSE audio[t]]
    /\ selections' = [t \in DOMAIN selections \cup {id} |->
                        IF t = id THEN None ELSE selections[t]]
    /\ active' = id

\* Where a track is among the tracks.
Index(id) == CHOOSE i \in DOMAIN order : order[i] = id

\* Project.remove_track: the track below becomes active, or else the last one.
RemoveFromProject(id) ==
    LET left == RemoveAt(order, Index(id))
    IN  /\ order' = left
        /\ selections' = [t \in DOMAIN selections \ {id} |-> selections[t]]
        /\ active' = IF active # id THEN active
                     ELSE IF left = <<>> THEN None
                     ELSE left[Least(Index(id), Len(left))]
        /\ UNCHANGED audio

\* Project.move_track by one place.
MoveInProject(id, delta) ==
    LET new == Greatest(1, Least(Index(id) + delta, Len(order)))
    IN  /\ order' = InsertAt(RemoveAt(order, Index(id)), new, id)
        /\ UNCHANGED <<audio, selections, active>>
=============================================================================
