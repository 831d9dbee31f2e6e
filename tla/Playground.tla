----------------------------- MODULE Playground -----------------------------
(***************************************************************************)
(* The main window of the spectrogram playground, from                     *)
(* spectrogram_playground/ui/main_window.py, and its microphone, from      *)
(* audio/recording.py: what the user does to the project, while the audio  *)
(* thread plays it, the microphone fills a take, and workers analyse it.   *)
(* The viewport, the lanes' heights and the look of a track are left out.  *)
(***************************************************************************)
EXTENDS FourierView

CONSTANTS
    FileFrames,   \* the frames of every audio file
    MaxTake,      \* bound: the frames of a take
    MaxFrames,    \* bound: the frames of a track
    MaxGestures   \* bound: what the user does, together

ASSUME FileAssumption == FileFrames \in Nat \ {0}  \* a file without audio is not decoded
ASSUME BoundsAssumption == MaxTake \in Nat /\ MaxFrames \in Nat /\ MaxGestures \in Nat

VARIABLES
    clipboard,    \* MainWindow.audio_clipboard: samples, or None
    take,         \* Recorder: frames captured, or None when it is not active
    gestures      \* how much of MaxGestures has happened

allViewVars == <<viewVars, fourierVars>>

vars == <<projectVars, engineVars, allViewVars, clipboard, take, gestures>>

Init ==
    /\ ProjectInit
    /\ EngineInit
    /\ ViewsInit
    /\ FourierInit
    /\ clipboard = None
    /\ take = None
    /\ gestures = 0

\* track_from_samples: frames that differ from each other.
Samples(frames) == [i \in 1 .. frames |-> i]

ActiveTrack == audio[active]

\* rebuild_views, of all three tabs.
RebuildAll == RebuildViews /\ SpectraRebuild

RebuildAllEdited(id) == RebuildEdited(id) /\ SpectraRebuildEdited(id)

-----------------------------------------------------------------------------
(* Tracks *)

AddTrack(id, samples) ==
    /\ AddToProject(id, samples)
    /\ RebuildAll

\* load_track: the frames of a file; one that cannot be decoded changes nothing.
Loaded == Samples(FileFrames)

\* choose_tracks, for one file, and add_demo_track
OpenFile(id) ==
    /\ UNCHANGED <<engineVars, clipboard, take>>
    /\ AddTrack(id, Loaded)

\* Faulty variant: the playhead stays where it is when the track is gone.
RemoveTrackOnly(id) ==
    /\ StopPlayback
    /\ RemoveFromProject(id)
    /\ RebuildAllEdited(id)
    /\ UNCHANGED <<clipboard, take>>

\* remove_track
RemoveTrack(id) ==
    /\ StopAt(Within(StopPosition, TotalFramesOf(Tracks \ {id}, audio)))
    /\ RemoveFromProject(id)
    /\ RebuildAllEdited(id)
    /\ UNCHANGED <<clipboard, take>>

\* move_track
MoveTrack(id, delta) ==
    /\ MoveInProject(id, delta)
    /\ UNCHANGED <<engineVars, clipboard, take>>
    /\ RebuildAll

\* activate_track
ActivateTrack(id) ==
    /\ active' = id
    /\ SelectionChanges(id, selections)
    /\ UNCHANGED <<order, audio, selections>>
    /\ RebuildAll
    /\ UNCHANGED <<clipboard, take>>

-----------------------------------------------------------------------------
(* Selections *)

\* set_track_selection, from a drag in a lane; from the ruler it is the active track.
SelectIn(id, first, second) ==
    LET selected == [selections EXCEPT ![id] =
                        Selected(first, second, Duration(audio[id]))]
    IN  /\ active' = id
        /\ selections' = selected
        /\ SelectionChanges(id, selected)
        /\ UNCHANGED <<order, audio, viewVars, clipboard, take>>
        /\ SpectraRebuild

\* keyPressEvent: the Escape key
ClearSelection ==
    /\ active # None
    /\ LET cleared == [selections EXCEPT ![active] = None]
       IN  /\ selections' = cleared
           /\ SelectionChanges(active, cleared)
    /\ UNCHANGED <<order, audio, active, allViewVars, clipboard, take>>

-----------------------------------------------------------------------------
(* Edits of the active track.  Each stops playback first. *)

\* copy_selection
CopySelection ==
    /\ active # None /\ Selection # None
    /\ clipboard' = CopyRegion(ActiveTrack, Selection[1], Selection[2])
    /\ UNCHANGED <<projectVars, engineVars, allViewVars, take>>

(***************************************************************************)
(* _finish_audio_edit: the track after the edit, the new selection, and    *)
(* where the playhead goes.                                                *)
(***************************************************************************)
FinishEdit(track, playhead, selection) ==
    LET edited == [audio EXCEPT ![active] = track]
        total  == TotalFramesOf(Tracks, edited)
    IN  /\ Len(track.samples) <= MaxFrames
        /\ audio' = edited
        /\ selections' = [selections EXCEPT ![active] =
                            IF selection = None THEN None
                            ELSE Selected(selection[1], selection[2], total)]
        /\ UNCHANGED <<order, active>>
        /\ StopAt(Within(playhead, total))
        /\ RebuildAllEdited(active)

DeleteThenFinish ==
    LET bounds == Bounds(Selection[1], Selection[2], Duration(ActiveTrack))
    IN  FinishEdit(DeleteRegion(ActiveTrack, Selection[1], Selection[2]), bounds[1], None)

\* What delete_region refuses only stops playback.
DeleteSelected ==
    /\ active # None /\ Selection # None
    /\ IF CanDelete(ActiveTrack, Selection[1], Selection[2])
       THEN DeleteThenFinish
       ELSE StopPlayback /\ UNCHANGED <<projectVars, allViewVars>>

\* delete_selection
DeleteSelection ==
    /\ DeleteSelected
    /\ UNCHANGED <<clipboard, take>>

\* cut_selection: what is copied stays copied when the whole track is refused.
CutSelection ==
    /\ DeleteSelected
    /\ clipboard' = CopyRegion(ActiveTrack, Selection[1], Selection[2])
    /\ UNCHANGED take

\* paste_selection, at the frame that is heard
PasteSelection ==
    /\ active # None /\ clipboard # None
    /\ \E target \in AudibleFrames :
         LET first == Within(target, Duration(ActiveTrack))
             last  == first + Len(clipboard)
         IN  FinishEdit(PasteClip(ActiveTrack, target, clipboard), last, <<first, last>>)
    /\ UNCHANGED <<clipboard, take>>

\* move_selection_to_playhead
MoveSelection ==
    /\ active # None /\ Selection # None
    /\ \E target \in AudibleFrames :
         LET moved == MoveRegion(ActiveTrack, Selection[1], Selection[2], target)
         IN  FinishEdit(moved.track, moved.region[2], moved.region)
    /\ UNCHANGED <<clipboard, take>>

(***************************************************************************)
(* _apply_trim and reset_active_trim: the selection is cleared, and the    *)
(* playhead goes to the beginning.  A refused trim only stops playback.    *)
(***************************************************************************)
FinishTrim(track) == FinishEdit(track, 0, None)

ApplyTrim(start, end) ==
    /\ IF CanTrim(ActiveTrack, start, end)
       THEN FinishTrim(Trimmed(ActiveTrack, start, end))
       ELSE StopPlayback /\ UNCHANGED <<projectVars, allViewVars>>
    /\ UNCHANGED <<clipboard, take>>

TrimStartToPlayhead ==
    /\ active # None
    /\ \E frame \in AudibleFrames : ApplyTrim(frame, Duration(ActiveTrack))

TrimEndToPlayhead ==
    /\ active # None
    /\ \E frame \in AudibleFrames : ApplyTrim(0, frame)

TrimToSelection ==
    /\ active # None /\ Selection # None
    /\ ApplyTrim(Selection[1], Selection[2])

ResetTrim ==
    /\ active # None
    /\ FinishTrim(Untrimmed(ActiveTrack.samples))
    /\ UNCHANGED <<clipboard, take>>

-----------------------------------------------------------------------------
(* The microphone *)

\* Recorder.start: a new take, unless the microphone cannot be opened.
OpenMicrophone == take' \in {0, None}

\* Recorder.stop: a take without audio becomes one silent frame.
Captured == Greatest(1, take)

\* toggle_recording: playback is paused first.
StartRecording ==
    /\ take = None
    /\ Pause
    /\ OpenMicrophone
    /\ UNCHANGED <<projectVars, allViewVars, clipboard>>

\* The callback of the input stream
Capture ==
    /\ take # None /\ take < MaxTake
    /\ take' = take + 1
    /\ UNCHANGED <<projectVars, engineVars, allViewVars, clipboard, gestures>>

\* toggle_recording: the take becomes a track.
StopRecording(id) ==
    /\ take # None
    /\ take' = None
    /\ UNCHANGED <<engineVars, clipboard>>
    /\ AddTrack(id, Samples(Captured))

\* The stream cannot be closed: the take is lost.
StopRecordingFails ==
    /\ take # None
    /\ take' = None
    /\ UNCHANGED <<projectVars, engineVars, allViewVars, clipboard>>

-----------------------------------------------------------------------------
Playback ==
    \/ transport.state # "playing" /\ (Play \/ PlayFails)
    \/ transport.state = "playing" /\ Pause
    \/ StopPlayback
    \/ \E frame \in 0 .. TotalFrames : Seek(frame)
    \/ ToggleLoop

UserStep ==
    /\ gestures < MaxGestures
    /\ gestures' = gestures + 1
    /\ \/ \E id \in TrackId : OpenFile(id) \/ StopRecording(id)
       \/ \E id \in Tracks :
            \/ RemoveTrack(id)
            \/ ActivateTrack(id)
            \/ \E delta \in {-1, 1} : MoveTrack(id, delta)
            \/ \E first \in 0 .. MaxFrames :
                 \E second \in first + 1 .. MaxFrames : SelectIn(id, first, second)
       \/ ClearSelection
       \/ CopySelection \/ CutSelection \/ DeleteSelection \/ PasteSelection \/ MoveSelection
       \/ TrimStartToPlayhead \/ TrimEndToPlayhead \/ TrimToSelection \/ ResetTrim
       \/ StartRecording \/ StopRecordingFails
       \/ Playback /\ UNCHANGED <<projectVars, allViewVars, clipboard, take>>
       \/ /\ UNCHANGED <<projectVars, engineVars, viewVars, clipboard, take>>
          /\ ChangeLook \/ \E t \in {"lanes", "fourier"} : ShowTab(t)

AudioStep ==
    \/ AudioCallback /\ UNCHANGED <<projectVars, allViewVars, clipboard, take, gestures>>
    \/ Capture

AnalysisStep ==
    /\ \/ \E v \in View : (WorkerStep(v) \/ AnswerArrives(v)) /\ UNCHANGED fourierVars
       \/ FourierStep /\ UNCHANGED viewVars
    /\ UNCHANGED <<projectVars, engineVars, clipboard, take, gestures>>

Next == UserStep \/ AudioStep \/ AnalysisStep

Spec == Init /\ [][Next]_vars

-----------------------------------------------------------------------------
(***************************************************************************)
(* Between two events, what the audio thread reads fits together: every    *)
(* track has audio in its trim, every selection lies in its track, the     *)
(* playhead and the anchor in the project.  Edits, trims, removals and     *)
(* playback change these separately.                                       *)
(***************************************************************************)
InBounds ==
    /\ DOMAIN selections = Tracks
    /\ active \in Tracks \cup {None} /\ (active = None <=> order = <<>>)
    /\ \A id \in Tracks :
         /\ 0 <= audio[id].first /\ audio[id].first < audio[id].last
         /\ audio[id].last <= Len(audio[id].samples)
         /\ selections[id] # None =>
              /\ 0 <= selections[id][1] /\ selections[id][1] < selections[id][2]
              /\ selections[id][2] <= Duration(audio[id])
    /\ transport.state \in {"stopped", "playing", "paused"}
    /\ transport.position \in 0 .. TotalFrames
    /\ anchor # None => anchor \in 0 .. TotalFrames
    /\ stream = "none" => transport.state # "playing"

LanesShowAudio ==
    \A v \in View, id \in Tracks :
      \/ \E i \in DOMAIN tasks[v] : tasks[v][i].track = id /\ tasks[v][i].latest
      \/ \E i \in DOMAIN answers[v] : answers[v][i].track = id
      \/ <<v, id>> \in overtaken
      \/ lanes[v][id] \in {Picture(PlaybackView(audio[id])), Failed}

SpectraShowAudio ==
    \/ tab # "fourier"
    \/ \E i \in DOMAIN spectrumTasks : spectrumTasks[i].latest
    \/ spectrumAnswer # <<>>
    \/ spectra = Failed
    \/ spectra = Nothing /\ order = <<>>
    \/ /\ spectra.shows = "spectra"
       /\ \A id \in Tracks \ overtakenSpectra :
            spectra.of[id] = Job(id, audio[id], region).samples

(***************************************************************************)
(* When no analysis of a track is on its way to a view, the view shows the *)
(* track's audio as it is, or reported a failure: the waveforms and        *)
(* spectrograms of the whole track, and the spectra, when their tab is     *)
(* visible, of the region analysed last.  The only exceptions are the      *)
(* tracks edited while a worker was reading them, or while a task held     *)
(* samples of them for their spectrum: those may store the old result      *)
(* after the edit has invalidated the cache.                               *)
(***************************************************************************)
ViewsShowAudio == LanesShowAudio /\ SpectraShowAudio
=============================================================================
