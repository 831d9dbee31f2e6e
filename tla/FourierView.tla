----------------------------- MODULE FourierView -----------------------------
(***************************************************************************)
(* The spectra of the tracks, from                                         *)
(* spectrogram_playground/ui/fourier_view.py: one task for all tracks, of  *)
(* the audio as it is when the view is refreshed, and a pool of one        *)
(* worker.  A spectrum is the audio it was computed from.  The window      *)
(* function, the scale and the tracks' visibility are left out.            *)
(***************************************************************************)
EXTENDS AudioEngine, AnalysisViews

CONSTANT
    HalfWindow    \* half of default_spectrum_window_seconds, in frames

ASSUME HalfWindowAssumption == HalfWindow \in Nat \ {0}

VARIABLES
    tab,          \* the visible tab: "lanes" or "fourier"
    region,       \* FourierView.last_interval
    spectrumTasks,   \* the tasks of the pool; the first is running
    spectrumAnswer,  \* the signal of the latest task, when it is not yet handled
    spectra,         \* what the canvas shows
    spectrumCache,   \* AnalysisCache: the feature "spectrum"
    overtakenSpectra \* history: tracks edited while a task held their old audio

fourierVars == <<tab, region, spectrumTasks, spectrumAnswer, spectra, spectrumCache,
                 overtakenSpectra>>

Nothing == [shows |-> "nothing", of |-> <<>>]

FourierInit ==
    /\ tab = "lanes"
    /\ region = <<0, 0>>
    /\ spectrumTasks = <<>>
    /\ spectrumAnswer = <<>>
    /\ spectra = Nothing
    /\ spectrumCache = <<>>
    /\ overtakenSpectra = {}

(***************************************************************************)
(* analyzed_interval: the selection, or else a window around the playhead, *)
(* which is moved when it lies behind the end.                             *)
(***************************************************************************)
AnalyzedInterval(selection, position, total) ==
    LET start == Greatest(0, position - HalfWindow)
        end   == Least(total, position + HalfWindow)
    IN  IF selection # None THEN selection
        ELSE IF start < end THEN <<start, end>>
        ELSE <<start, Least(total, start + 2 * HalfWindow)>>

\* SpectrumJob: the frames of a track in the interval, none if the track ends before it.
Job(id, track, interval) ==
    LET samples == PlaybackView(track)
        first   == Least(Len(samples), interval[1])
        last    == Least(Len(samples), Greatest(first + 1, interval[2]))
    IN  [key |-> <<id, first, last, track.first, track.last>>,
         samples |-> SubSeq(samples, first + 1, last)]

(***************************************************************************)
(* refresh: the canvas is cleared, answers of older tasks are ignored from *)
(* now on, and a task gets a job for every track.                          *)
(***************************************************************************)
Refresh ==
    LET interval == AnalyzedInterval(Selection', transport'.position, TotalFrames')
        jobs     == [i \in DOMAIN order' |-> Job(order'[i], audio'[order'[i]], interval)]
        nothing  == jobs = <<>> \/ interval[2] <= interval[1]
    IN  /\ region' = interval
        /\ spectra' = IF nothing THEN Nothing ELSE Preparing
        /\ spectrumTasks' = Outdated(spectrumTasks) \o
               IF nothing THEN <<>>
               ELSE <<[jobs |-> jobs, latest |-> TRUE, computing |-> FALSE, results |-> <<>>]>>
        /\ spectrumAnswer' = <<>>
        /\ Len(spectrumTasks') <= MaxTasks

\* rebuild_views and set_track_selection refresh the view when its tab is visible.
RefreshIfShown ==
    IF tab = "fourier" THEN Refresh
    ELSE UNCHANGED <<region, spectra, spectrumTasks, spectrumAnswer>>

\* After a change that leaves the audio alone.
SpectraRebuild == RefreshIfShown /\ UNCHANGED <<tab, spectrumCache, overtakenSpectra>>

HeldByTask(id) ==
    \E i \in DOMAIN spectrumTasks :
      \E k \in DOMAIN spectrumTasks[i].jobs : spectrumTasks[i].jobs[k].key[1] = id

\* After a change of a track's audio.
SpectraRebuildEdited(id) ==
    /\ spectrumCache' = Invalidated(spectrumCache, id)
    /\ overtakenSpectra' = (overtakenSpectra \ {id}) \cup (IF HeldByTask(id) THEN {id} ELSE {})
    /\ RefreshIfShown
    /\ UNCHANGED tab

\* _tab_changed
ShowTab(t) ==
    /\ t # tab
    /\ tab' = t
    /\ IF t = "fourier" THEN Refresh
       ELSE UNCHANGED <<region, spectra, spectrumTasks, spectrumAnswer>>
    /\ UNCHANGED <<spectrumCache, overtakenSpectra>>

\* The layout, the scale and the logarithmic axis refresh the view, too.
ChangeLook ==
    /\ tab = "fourier"
    /\ Refresh
    /\ UNCHANGED <<tab, spectrumCache, overtakenSpectra>>

-----------------------------------------------------------------------------
(* FourierTask.run: the jobs one after the other. *)

Worked == Head(spectrumTasks)
WorkedJob == Head(Worked.jobs)

EndSpectra(shown) ==
    /\ spectrumTasks' = Tail(spectrumTasks)
    /\ spectrumAnswer' = IF Worked.latest THEN <<shown>> ELSE spectrumAnswer

\* The task when its first job has a result.
WithResult(task, spectrum) ==
    [task EXCEPT !.jobs = Tail(task.jobs),
                 !.results = Kept(task.results, Head(task.jobs).key[1], spectrum),
                 !.computing = FALSE]

\* The last result ends the task.
JobDone(spectrum) ==
    LET task == WithResult(Worked, spectrum)
    IN  IF task.jobs = <<>>
        THEN EndSpectra([shows |-> "spectra", of |-> task.results])
        ELSE /\ spectrumTasks' = [spectrumTasks EXCEPT ![1] = task]
             /\ UNCHANGED spectrumAnswer

SpectrumLookUp ==
    /\ spectrumTasks # <<>> /\ ~Worked.computing
    /\ IF WorkedJob.key \in DOMAIN spectrumCache
       THEN JobDone(spectrumCache[WorkedJob.key])
       ELSE /\ spectrumTasks' = [spectrumTasks EXCEPT ![1].computing = TRUE]
            /\ UNCHANGED spectrumAnswer
    /\ UNCHANGED <<tab, region, spectra, spectrumCache, overtakenSpectra>>

\* The job's samples do not change while it computes.
SpectrumStore ==
    /\ spectrumTasks # <<>> /\ Worked.computing
    /\ LET kept == Kept(spectrumCache, WorkedJob.key, WorkedJob.samples)
       IN  /\ spectrumCache' = kept
           /\ JobDone(kept[WorkedJob.key])
    /\ UNCHANGED <<tab, region, spectra, overtakenSpectra>>

\* One failing job ends the task.
SpectrumFails ==
    /\ spectrumTasks # <<>> /\ Worked.computing
    /\ EndSpectra(Failed)
    /\ UNCHANGED <<tab, region, spectra, spectrumCache, overtakenSpectra>>

\* _analysis_ready and _analysis_failed, for the latest task.
SpectrumArrives ==
    /\ spectrumAnswer # <<>>
    /\ spectra' = Head(spectrumAnswer)
    /\ spectrumAnswer' = <<>>
    /\ UNCHANGED <<tab, region, spectrumTasks, spectrumCache, overtakenSpectra>>

FourierStep == SpectrumLookUp \/ SpectrumStore \/ SpectrumFails \/ SpectrumArrives
=============================================================================
