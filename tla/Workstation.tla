----------------------------- MODULE Workstation -----------------------------
(* gui/workstation_window.py over its editors, its browser, its recording       *)
(* dialog and the program they run in.  The GUI thread runs one event at a      *)
(* time: an action of the user, an answer of a worker, a timer.  A signal is a  *)
(* call, so what a callback does to the window is an operator from one state of *)
(* the window to the next.  exec() of a dialog is a loop of events inside an    *)
(* event: the user sees only the topmost dialog, answers and timers go on.      *)
EXTENDS EditorController, RecordingsBrowser, SequencesExt

CONSTANTS MaxEditors,  \* bound: editors, numbered as they are made
          MaxPosted,   \* bound: timers posted when the user does something
          MaxIncidents \* bound: imports, takes, metadata edits, reads on request and
                       \* losses of the tunnel, together

ASSUME WindowAssumption ==
  MaxEditors \in Nat /\ Editors = 1..MaxEditors /\ None \notin Editors

VARIABLES win,      \* the window
          mic,      \* the dialog that records a take
          incidents \* how much of MaxIncidents has happened

vars == <<appVars, serviceVars, ed, browser, win, mic, incidents>>

Microphone == INSTANCE MicrophoneDialog

SaveDialogs == {"close", "save"}
Frame == [kind : SaveDialogs \cup {"import"}, editor : Editors] \cup
         {[kind |-> "microphone", editor |-> None]}
Window == [tracks : Seq(Editors), closing : BOOLEAN, removing : Editors \cup {None},
           retrying : BOOLEAN, queue : Seq(Editors), awaiting : Editors \cup {None},
           posted : Seq({"next", "close"}), locked : BOOLEAN, frames : Seq(Frame)]

NoWindow == [tracks |-> <<>>, closing |-> FALSE, removing |-> None, retrying |-> FALSE,
             queue |-> <<>>, awaiting |-> None, posted |-> <<>>, locked |-> FALSE,
             frames |-> <<>>]

Init ==
  /\ AppInit /\ ServiceInit /\ EditorsInit /\ BrowserInit /\ Microphone!MicInit
  /\ win = NoWindow
  /\ incidents = 0

Incident == incidents < MaxIncidents /\ incidents' = incidents + 1

Tracks(w) == {w.tracks[i] : i \in DOMAIN w.tracks}
Shown == {ed[e].session.rec : e \in Tracks(win)}
Unmade == {e \in Editors : ed[e].place = "unused"}
NextEditor == CHOOSE e \in Unmade : \A f \in Unmade : e <= f
Pending == {e \in Editors : ed[e].place = "pending"}
OpeningNow == {ed[e].target : e \in Editors} \ {None}

\* _active(): the buttons and forms follow the flags when it is called.
Relocked(w) == [w EXCEPT !.locked = w.closing \/ w.retrying]
Posted(w, timer) == [w EXCEPT !.posted = Append(@, timer)]
Requested(w) == w.closing \/ w.removing # None
Withdrawn(w) == Relocked([w EXCEPT !.closing = FALSE, !.removing = None])

\* Faulty variant: only the removal of a track is taken up again.
BusyChangedRemoving(w) ==
  IF w.removing # None THEN Posted(Relocked(w), "close") ELSE Relocked(w)

\* _busy_finished(), for the first call of a controller and the end of its last.
BusyChanged(w) == IF Requested(w) THEN Posted(Relocked(w), "close") ELSE Relocked(w)
Heard(w, before, after) ==
  IF BusyEditor(before) # BusyEditor(after) THEN BusyChanged(w) ELSE w

\* What else hears the end: the recording is no longer being opened, and an
\* editor whose dialog is gone is disposed of.
Settled(before, after) ==
  IF ~BusyEditor(before) \/ BusyEditor(after) THEN after
  ELSE IF after.doomed /\ after.place = "pending" THEN [Unused EXCEPT !.place = "gone"]
  ELSE [after EXCEPT !.target = None]

SaveFinished(w, ok) == IF ok THEN w ELSE Withdrawn(w)

\* _save_finished() hears it first, then done() of the retry that waits for it.
RecoveryFinished(w, e, ok) ==
  LET v == SaveFinished(w, ok) IN
  IF v.awaiting # e THEN v
  ELSE IF ok THEN Posted([v EXCEPT !.awaiting = None], "next")
  ELSE Relocked([v EXCEPT !.awaiting = None, !.retrying = FALSE])

\* Faulty variant: every session becomes a track.
NewAnyway(e) == ed[e].work.session # None

\* _install(): a session becomes a track unless its recording is one.
New(e) == ed[e].work.session # None /\ ed[e].work.session.rec \notin Shown

Answer(e) ==
  LET before == ed[e]
      work == before.work
      after == Answered(before)
      ok == Succeeded(work)
      new == ok /\ New(e)
      placed == IF new THEN [after EXCEPT !.place = "track"] ELSE after
      shown == IF new THEN Relocked([win EXCEPT !.tracks = Append(@, e)])
               ELSE IF ok THEN Relocked(win) ELSE win
      told == IF work.op = "save" THEN SaveFinished(shown, work.answer = "saved")
              ELSE IF work.op = "retry" THEN RecoveryFinished(shown, e, ok) ELSE shown
  IN /\ work # None /\ work.stage = "answer"
     /\ ed' = [ed EXCEPT ![e] = Settled(before, placed)]
     /\ win' = Heard(told, before, placed)
     /\ IF work.op = "import" THEN Microphone!ImportFinished(e, ok) ELSE UNCHANGED mic
     /\ UNCHANGED phase

ReadDone(e) ==
  LET after == [ed[e] EXCEPT !.reading = FALSE] IN
  /\ ed[e].reading
  /\ ed' = [ed EXCEPT ![e] = Settled(ed[e], after)]
  /\ win' = Heard(win, ed[e], after)
  /\ UNCHANGED <<phase, mic>>

-----------------------------------------------------------------------------
\* _continue_close(), for the window or for one track.
Widgets(w) == IF w.closing THEN w.tracks ELSE <<w.removing>>
Waiting(w) ==
  \E e \in Pending \cup {Widgets(w)[i] : i \in DOMAIN Widgets(w)} : Busy(e)
\* Faulty variant: only the queued saves are asked about.
UnsavedQueued(e) == ed[e].session # None /\ ed[e].session.sync # "synced"

Unsaved(e) ==
  /\ ed[e].session # None
  /\ ed[e].session.dirty \/ ed[e].session.sync # "synced"
SaveDialogIsOpen(w, e) ==
  \E i \in DOMAIN w.frames : w.frames[i].kind \in SaveDialogs /\ w.frames[i].editor = e

\* A save dialog that is already open answers exec() at once, without the user.
SaveTrack(w, e) ==
  LET s == ed[e].session
      retried == Retrying(ed[e])
  IN /\ \/ /\ s.sync = "conflict"
           /\ win' = SaveFinished(w, FALSE)
           /\ UNCHANGED ed
        \/ /\ s.sync # "conflict" /\ s.dirty
           /\ win' = IF SaveDialogIsOpen(w, e) THEN Withdrawn(w)
                     ELSE [Relocked(w) EXCEPT !.frames =
                             Append(@, [kind |-> "close", editor |-> e])]
           /\ UNCHANGED ed
        \/ /\ s.sync = "pending" /\ ~s.dirty
           /\ ed' = [ed EXCEPT ![e] = retried]
           /\ win' = Heard(w, ed[e], retried)
     /\ UNCHANGED <<phase, mic>>

\* The tracks without that of a recording that is removed.
Without(tracks, e) == RemoveAt(tracks, CHOOSE i \in DOMAIN tracks : tracks[i] = e)

\* shutdown() and close(), or the end of one track; the sessions are closed and
\* what is unsaved in them is discarded.
Leave(w) ==
  IF w.closing
  THEN /\ phase' = "stopping"
       /\ ed' = [e \in Editors |-> Unused]
       /\ win' = NoWindow
       /\ mic' = Microphone!NoDialog
  ELSE /\ ed' = [ed EXCEPT ![w.removing] = [Unused EXCEPT !.place = "gone"]]
       /\ win' = [w EXCEPT !.removing = None, !.tracks = Without(@, w.removing)]
       /\ UNCHANGED <<phase, mic>>

ContinueClose(w) ==
  \/ /\ Requested(w) => Waiting(w)
     /\ win' = w
     /\ UNCHANGED <<ed, phase, mic>>
  \/ /\ Requested(w) /\ ~Waiting(w)
     /\ \/ (\A i \in DOMAIN Widgets(w) : ~Unsaved(Widgets(w)[i])) /\ Leave(w)
        \/ \E i \in DOMAIN Widgets(w) :
             /\ Unsaved(Widgets(w)[i])
             /\ \A j \in 1..(i - 1) : ~Unsaved(Widgets(w)[j])
             /\ SaveTrack(w, Widgets(w)[i])

\* retry_recovery() of a controller that is not busy, for the window that waits.
Retried(w, e) ==
  IF ed[e].session # None /\ ed[e].session.dirty
  THEN win' = RecoveryFinished(w, e, FALSE) /\ UNCHANGED ed
  ELSE /\ ed' = [ed EXCEPT ![e] = Retrying(@)]
       /\ win' = Heard(w, ed[e], Retrying(ed[e]))

Awaiting(w) == [w EXCEPT !.queue = Tail(@), !.awaiting = Head(w.queue)]

\* _retry_next(): a controller that is busy returns at once, and its end is waited
\* for all the same; an editor that is gone raises.
RetryNext(w) ==
  LET e == Head(w.queue) IN
  \/ /\ w.queue = <<>>
     /\ win' = Relocked([w EXCEPT !.retrying = FALSE])
     /\ UNCHANGED ed
  \/ /\ w.queue # <<>> /\ ed[e].place = "gone"
     /\ win' = [w EXCEPT !.queue = Tail(@)]
     /\ UNCHANGED ed
  \/ /\ w.queue # <<>> /\ ed[e].place # "gone" /\ Busy(e)
     /\ win' = Awaiting(w)
     /\ UNCHANGED ed
  \/ /\ w.queue # <<>> /\ ed[e].place # "gone" /\ ~Busy(e)
     /\ Retried(Awaiting(w), e)

TimerFires ==
  /\ win.posted # <<>>
  /\ LET w == [win EXCEPT !.posted = Tail(@)] IN
     IF Head(win.posted) = "next" THEN RetryNext(w) /\ UNCHANGED <<phase, mic>>
     ELSE ContinueClose(w)

-----------------------------------------------------------------------------
\* The user, who reaches the windows while no dialog is open.
Free == win.frames = <<>>

AddRecording(r) ==
  /\ Free /\ ~browser.saving
  /\ head[r] > 0 /\ r \notin Shown /\ r \notin OpeningNow
  /\ Unmade # {}
  /\ ed' = [ed EXCEPT ![NextEditor] = Opening(Created, r)]
  /\ UNCHANGED <<win, mic, phase>>

Creatable(r) == Fresh(r) /\ \A e \in Editors : ed[e].work # None => ed[e].work.rec # r

OpenDialog(kind, e) == [win EXCEPT !.frames = Append(@, [kind |-> kind, editor |-> e])]

ImportAudio ==
  /\ Free /\ ~win.locked /\ Unmade # {}
  /\ ed' = [ed EXCEPT ![NextEditor] = Created]
  /\ win' = OpenDialog("import", NextEditor)
  /\ UNCHANGED <<mic, phase>>

RecordAudio ==
  /\ Free /\ ~win.locked
  /\ win' = OpenDialog("microphone", None)
  /\ Microphone!MicOpens
  /\ UNCHANGED <<ed, phase>>

\* _update_actions(): what an idle controller's widgets let the user do.
Editable(e) == ~win.locked /\ ~Busy(e) /\ ed[e].place = "track"

\* A change of a session's content, or the undo of every change since its base.
Edit(e) ==
  /\ Free /\ Editable(e)
  /\ \E dirty \in BOOLEAN : ed' = [ed EXCEPT ![e].session.dirty = dirty]
  /\ win' = Relocked(win)
  /\ UNCHANGED <<mic, phase>>

SaveRevision(e) ==
  /\ Free /\ Editable(e)
  /\ ed[e].session.sync # "conflict"
  /\ win' = OpenDialog("save", e)
  /\ UNCHANGED <<ed, mic, phase>>

RefreshDefinitions(e) ==
  /\ Free /\ ed[e].place = "track"
  /\ ed' = [ed EXCEPT ![e] = Refreshing(@)]
  /\ win' = Heard(win, ed[e], Refreshing(ed[e]))
  /\ UNCHANGED <<mic, phase>>

\* retry(), refused while a track is busy or dirty.  Without a track there is a
\* new editor, which is busy with its first reads.
RetryPending ==
  LET w == Relocked([win EXCEPT !.retrying = TRUE]) IN
  /\ Free /\ ~win.retrying
  /\ \A e \in Tracks(win) : ~Busy(e) /\ ~ed[e].session.dirty
  /\ \/ /\ win.tracks # <<>>
        /\ Retried(Awaiting([w EXCEPT !.queue = win.tracks]), Head(win.tracks))
     \/ /\ win.tracks = <<>> /\ Unmade # {}
        /\ ed' = [ed EXCEPT ![NextEditor] = Created]
        /\ win' = [w EXCEPT !.awaiting = NextEditor]
  /\ UNCHANGED <<mic, phase>>

RemoveTrack(e) ==
  /\ Free /\ ed[e].place = "track"
  /\ ContinueClose([win EXCEPT !.removing = e])

CloseWindow ==
  /\ Free
  /\ ContinueClose([win EXCEPT !.closing = TRUE])

-----------------------------------------------------------------------------
\* The user's answer to the topmost dialog.
Top == win.frames[Len(win.frames)]
Popped == [win EXCEPT !.frames = SubSeq(@, 1, Len(@) - 1)]
OnTop(kinds) == win.frames # <<>> /\ Top.kind \in kinds

AcceptSave ==
  /\ OnTop(SaveDialogs)
  /\ ed' = [ed EXCEPT ![Top.editor] = Saving(@)]
  /\ win' = Heard(Popped, ed[Top.editor], Saving(ed[Top.editor]))
  /\ UNCHANGED <<mic, phase>>

CancelSave ==
  /\ OnTop(SaveDialogs)
  /\ win' = IF Top.kind = "close" THEN Withdrawn(Popped) ELSE Popped
  /\ UNCHANGED <<ed, mic, phase>>

AcceptImport ==
  /\ OnTop({"import"})
  /\ \E r \in Imported :
       /\ Creatable(r)
       /\ ed' = [ed EXCEPT ![Top.editor] = Importing(@, r)]
       /\ win' = Heard(Popped, ed[Top.editor], Importing(ed[Top.editor], r))
  /\ UNCHANGED <<mic, phase>>

\* A cancelled import leaves its editor behind while the editor is still reading.
CancelImport ==
  /\ OnTop({"import"})
  /\ win' = Popped
  /\ ed' = IF Busy(Top.editor) THEN ed
           ELSE [ed EXCEPT ![Top.editor] = [Unused EXCEPT !.place = "gone"]]
  /\ UNCHANGED <<mic, phase>>

UseMicrophone ==
  /\ OnTop({"microphone"})
  /\ Microphone!MicStarts \/ Microphone!MicStops \/ Microphone!MicRejects
  /\ UNCHANGED <<ed, win, phase>>

AddTake ==
  /\ OnTop({"microphone"})
  /\ mic.editor # None \/ Unmade # {}
  /\ \E r \in Imported :
       LET e == IF mic.editor = None THEN NextEditor ELSE mic.editor
           before == IF mic.editor = None THEN Created ELSE ed[e]
       IN /\ Creatable(r)
          /\ Microphone!MicAdds(e)
          /\ ed' = [ed EXCEPT ![e] = Importing(before, r)]
          /\ win' = Heard(win, before, Importing(before, r))
  /\ UNCHANGED phase

\* exec() returns: the dialog's editor is disposed of, now or when it is not busy.
CloseMicrophone ==
  /\ OnTop({"microphone"})
  /\ Microphone!MicReturns
  /\ win' = Popped
  /\ ed' = IF mic.editor = None \/ ed[mic.editor].place # "pending" THEN ed
           ELSE IF Busy(mic.editor) THEN [ed EXCEPT ![mic.editor].doomed = TRUE]
           ELSE [ed EXCEPT ![mic.editor] = [Unused EXCEPT !.place = "gone"]]
  /\ UNCHANGED phase

-----------------------------------------------------------------------------
Request ==
  \/ RetryPending \/ CloseWindow
  \/ \E r \in Recordings : AddRecording(r)
  \/ \E e \in Editors : Edit(e) \/ SaveRevision(e) \/ RemoveTrack(e)
  \/ UseMicrophone \/ AddTake \/ CloseMicrophone

RareRequest ==
  \/ ImportAudio \/ RecordAudio
  \/ \E e \in Editors : RefreshDefinitions(e)

AnswerDialog == AcceptSave \/ CancelSave \/ AcceptImport \/ CancelImport

OnGuiThread ==
  /\ phase = "running"
  /\ UNCHANGED <<guardian, ssh, serviceVars, browser>>

UserStep ==
  /\ Len(win.posted) < MaxPosted
  /\ \/ Request /\ OnGuiThread /\ UNCHANGED incidents
     \/ RareRequest /\ OnGuiThread /\ Incident
DialogStep == AnswerDialog /\ OnGuiThread /\ UNCHANGED incidents
TimerStep == TimerFires /\ OnGuiThread /\ UNCHANGED incidents
AnswerStep(e) == Answer(e) /\ OnGuiThread /\ UNCHANGED incidents
ReadStep(e) == ReadDone(e) /\ OnGuiThread /\ UNCHANGED incidents
WorkerStep(e) ==
  phase = "running" /\ Worker(e) /\ UNCHANGED <<appVars, browser, win, mic, incidents>>

\* A worker of the browser is not waited for: it ends with the program.
BrowserStep ==
  /\ \/ phase = "running" /\ Free /\ EditMetadata /\ Incident /\ UNCHANGED serviceVars
     \/ /\ phase \in {"running", "stopping"}
        /\ BrowserOpens \/ BrowserSaves
        /\ UNCHANGED incidents
  /\ UNCHANGED <<appVars, ed, win, mic>>

windowVars == <<serviceVars, ed, win, mic>>
TunnelStep ==
  /\ StartTunnel \/ TunnelIsReady \/ TunnelFails \/ Probe \/ SshOpens
  /\ UNCHANGED <<windowVars, browser, incidents>>
GuardianStep ==
  /\ GuardianSpawns \/ GuardianTerminates \/ GuardianEnds
  /\ UNCHANGED <<windowVars, browser, incidents>>
TunnelLoss == SshExits /\ Incident /\ UNCHANGED <<windowVars, browser>>
StopStep == StopTunnel /\ browser' = Idle /\ UNCHANGED <<windowVars, incidents>>
DeathStep ==
  /\ Dies
  /\ ed' = [e \in Editors |-> Unused]
  /\ win' = NoWindow /\ mic' = Microphone!NoDialog /\ browser' = Idle
  /\ UNCHANGED <<serviceVars, incidents>>

Next ==
  \/ UserStep \/ DialogStep \/ TimerStep \/ BrowserStep
  \/ \E e \in Editors : AnswerStep(e) \/ ReadStep(e) \/ WorkerStep(e)
  \/ TunnelStep \/ GuardianStep \/ TunnelLoss \/ StopStep \/ DeathStep

\* Worker threads and the event loop go on, and the user answers dialogs.  A close
\* that waits is served at last at a moment when nothing is busy: the user does
\* not start something new before every timer.
ServeClose == Requested(win) /\ ~Waiting(win) /\ TimerStep /\ Head(win.posted) = "close"
Fairness ==
  /\ WF_vars(TimerStep) /\ WF_vars(DialogStep) /\ SF_vars(ServeClose)
  /\ \A e \in Editors :
       WF_vars(AnswerStep(e)) /\ WF_vars(ReadStep(e)) /\ WF_vars(WorkerStep(e))
  /\ WF_vars(GuardianStep)

Spec == Init /\ [][Next]_vars /\ Fairness

-----------------------------------------------------------------------------
TypeOK ==
  /\ AppTypeOK /\ ServiceTypeOK /\ EditorsTypeOK /\ BrowserTypeOK /\ Microphone!MicTypeOK
  /\ win \in Window

\* A recording has one track, and only a track holds changes: a recording that is
\* imported and added from the browser at the same time is opened twice, and the
\* session that comes second is left in an editor that nobody sees.
OneTrackPerRecording ==
  /\ \A e, f \in Tracks(win) : ed[e].session.rec = ed[f].session.rec => e = f
  /\ \A e \in Pending : ~Unsaved(e)

\* Unless the program dies, a session with unsaved changes is not closed or
\* replaced: it leaves its base only for a revision that is stored or queued
\* (Reference_Client.md: "saves every dirty track before closing any sessions").
Kept(e) ==
  LET s == ed[e].session
      t == ed'[e].session
  IN /\ t # None /\ t.rec = s.rec
     /\ t.base # s.base => \/ head'[s.rec] > head[s.rec]
                           \/ outbox'[s.rec].saves > outbox[s.rec].saves
NoEditDropped ==
  [][phase' # "stopped" =>
       \A e \in Editors : ed[e].session # None /\ ed[e].session.dirty => Kept(e)]_vars

\* A request to close comes to its end: the window closes or stays open.
CloseEnds == win.closing ~> ~win.closing

\* However the program ends, the ssh process ends after it.
TunnelEnds == phase = "stopped" ~> ~SshAlive
=============================================================================
