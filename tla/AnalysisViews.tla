---------------------------- MODULE AnalysisViews ----------------------------
(***************************************************************************)
(* The waveform and the spectrogram of every track, from                   *)
(* spectrogram_playground/analysis/cache.py, ui/track_workspace.py,        *)
(* ui/waveform_view.py and ui/spectrogram_view.py.  A view has a lane for  *)
(* every track and a pool of one worker; a worker reads the track object   *)
(* while the GUI edits it.  The result of an analysis is the audio it was  *)
(* computed from.                                                          *)
(***************************************************************************)
EXTENDS PlaygroundProject

CONSTANTS
    View,         \* "waveform" and "spectrogram"
    MaxTasks      \* bound: the tasks of a view that have not ended

VARIABLES
    lanes,        \* what a view shows of each track
    tasks,        \* the tasks of a view's pool; the first is running
    answers,      \* the signals of ended tasks of the latest rebuild, not yet handled
    cache,        \* AnalysisCache: for each view, from a track and its trim to audio
    overtaken     \* history: <<view, track>> edited while the view's worker was
                  \* between reading the track and storing the result

viewVars == <<lanes, tasks, answers, cache, overtaken>>

ViewsInit ==
    /\ lanes = [v \in View |-> <<>>]
    /\ tasks = [v \in View |-> <<>>]
    /\ answers = [v \in View |-> <<>>]
    /\ cache = [v \in View |-> <<>>]
    /\ overtaken = {}

\* AnalysisCache.key for the features of a track under the present settings.
Key(id, track) == <<id, track.first, track.last>>

\* Faulty variant: an edit leaves the results of the track in the cache.
InvalidatedNever(results, id) == results

\* AnalysisCache.invalidate_track, for the results of one feature.
Invalidated(results, id) ==
    [key \in {k \in DOMAIN results : k[1] # id} |-> results[key]]

\* dict.setdefault: the value there is, or else this one.
Kept(results, key, value) ==
    [k \in DOMAIN results \cup {key} |-> IF k \in DOMAIN results THEN results[k] ELSE value]

\* What a lane shows: the picture of some audio, or none with or without an error.
Picture(samples) == [shows |-> "audio", of |-> samples]
Preparing == [shows |-> "preparing", of |-> <<>>]
Failed == [shows |-> "error", of |-> <<>>]

\* Only the waveform looks into the cache before it starts a task.
ShownAtOnce(v, id, tracks, cached) ==
    v = "waveform" /\ Key(id, tracks[id]) \in DOMAIN cached[v]

(***************************************************************************)
(* rebuild: new lanes, and a task for every lane that is not shown at      *)
(* once.  The generation advances, so that the answers of older tasks are  *)
(* ignored.                                                                *)
(***************************************************************************)
NewTask(id) == [track |-> id, latest |-> TRUE, step |-> "queued",
                key |-> None, result |-> None]

Outdated(queue) == [i \in DOMAIN queue |-> [queue[i] EXCEPT !.latest = FALSE]]

\* The tracks that are not shown at once, from top to bottom.
Unshown(ids, atOnce) ==
    LET left[n \in 0 .. Len(ids)] ==
            IF n = 0 THEN <<>>
            ELSE IF ids[n] \in atOnce THEN left[n - 1]
            ELSE Append(left[n - 1], ids[n])
    IN  left[Len(ids)]

NewTasks(ids) == [i \in DOMAIN ids |-> NewTask(ids[i])]

Rebuilt(ids, tracks, cached) ==
    /\ lanes' = [v \in View |-> [id \in ToSet(ids) |->
                    IF ShownAtOnce(v, id, tracks, cached)
                    THEN Picture(cached[v][Key(id, tracks[id])])
                    ELSE Preparing]]
    /\ tasks' = [v \in View |->
                    LET atOnce == {id \in ToSet(ids) : ShownAtOnce(v, id, tracks, cached)}
                    IN  Outdated(tasks[v]) \o NewTasks(Unshown(ids, atOnce))]
    /\ answers' = [v \in View |-> <<>>]
    /\ cache' = cached
    /\ \A v \in View : Len(tasks'[v]) <= MaxTasks

Running(v) == Head(tasks[v])

Reads(v, id) ==
    /\ tasks[v] # <<>>
    /\ Running(v).track = id
    /\ Running(v).step # "queued"

\* rebuild_views, when no audio has changed.
RebuildViews ==
    /\ Rebuilt(order', audio', cache)
    /\ UNCHANGED overtaken

\* The audio of a track has changed: its results are dropped, and the views rebuilt.
RebuildEdited(id) ==
    /\ Rebuilt(order', audio', [v \in View |-> Invalidated(cache[v], id)])
    /\ overtaken' = {pair \in overtaken : pair[2] # id} \cup
                    {<<v, id>> : v \in {w \in View : Reads(w, id)}}

(***************************************************************************)
(* A worker.  get_or_compute looks for the key of the track as it is now,  *)
(* computes from the audio as it is then, and keeps the result unless      *)
(* there is one by now.                                                    *)
(***************************************************************************)
Ends(v, shown) ==
    /\ tasks' = [tasks EXCEPT ![v] = Tail(@)]
    /\ answers' = IF Running(v).latest
                  THEN [answers EXCEPT ![v] =
                          Append(@, [track |-> Running(v).track, shown |-> shown])]
                  ELSE answers

LookUp(v) ==
    /\ tasks[v] # <<>> /\ Running(v).step = "queued"
    /\ LET id  == Running(v).track
           key == Key(id, audio[id])
       IN  IF key \in DOMAIN cache[v]
           THEN Ends(v, Picture(cache[v][key]))
           ELSE /\ tasks' = [tasks EXCEPT ![v][1] =
                                [@ EXCEPT !.step = "compute", !.key = key]]
                /\ UNCHANGED answers
    /\ UNCHANGED <<lanes, cache, overtaken>>

Compute(v) ==
    /\ tasks[v] # <<>> /\ Running(v).step = "compute"
    /\ tasks' = [tasks EXCEPT ![v][1] =
                    [@ EXCEPT !.step = "store",
                              !.result = PlaybackView(audio[Running(v).track])]]
    /\ UNCHANGED <<lanes, answers, cache, overtaken>>

\* setdefault, and the signal with what the cache holds.
Store(v) ==
    /\ tasks[v] # <<>> /\ Running(v).step = "store"
    /\ LET key  == Running(v).key
           kept == Kept(cache[v], key, Running(v).result)
       IN  /\ cache' = [cache EXCEPT ![v] = kept]
           /\ Ends(v, Picture(kept[key]))
    /\ UNCHANGED <<lanes, overtaken>>

AnalysisFails(v) ==
    /\ tasks[v] # <<>> /\ Running(v).step = "compute"
    /\ Ends(v, Failed)
    /\ UNCHANGED <<lanes, cache, overtaken>>

(***************************************************************************)
(* _analysis_ready and _analysis_failed, in the GUI: the answers of the    *)
(* latest generation are shown, if the lane is still there.                *)
(***************************************************************************)
Show(v, answer) == lanes' = [lanes EXCEPT ![v][answer.track] = answer.shown]

AnswerArrives(v) ==
    /\ answers[v] # <<>>
    /\ answers' = [answers EXCEPT ![v] = Tail(@)]
    /\ Show(v, Head(answers[v]))
    /\ UNCHANGED <<tasks, cache, overtaken>>

WorkerStep(v) == LookUp(v) \/ Compute(v) \/ Store(v) \/ AnalysisFails(v)
=============================================================================
