-------------------------- MODULE EditorController --------------------------
(* gui/controller.py with the parts of gui/main_window.py, gui/track_widget.py  *)
(* and gui/tasks.py that a track's editor keeps of them.  A controller runs its *)
(* calls on worker threads; each comes back as an answer on the GUI thread, and *)
(* the controller is busy until every one has.  The catalogue and definition    *)
(* reads change nothing but that: one flag stands for them.                     *)
EXTENDS WorkbenchService

CONSTANTS Editors \* bound: the editors the window ever makes

VARIABLE ed \* the editors of the window

Ops == {"open", "import", "save", "retry"}
Stages == {"worker", "reopen", "answer"}
Work == [op : Ops, rec : Recordings \cup {None}, stage : Stages,
         answer : {"none", "failed", "opened", "saved", "queued", "conflict", "done"},
         session : Session \cup {None}]
Editor == [place : {"unused", "pending", "track", "gone"}, session : Session \cup {None},
           reading : BOOLEAN, work : Work \cup {None},
           target : Recordings \cup {None}, doomed : BOOLEAN]

ASSUME EditorAssumption == None \notin Work

Unused == [place |-> "unused", session |-> None, reading |-> FALSE, work |-> None,
           target |-> None, doomed |-> FALSE]

EditorsTypeOK == ed \in [Editors -> Editor]
EditorsInit == ed = [e \in Editors |-> Unused]

BusyEditor(d) == d.reading \/ d.work # None
Busy(e) == BusyEditor(ed[e])

Call(op, r) == [op |-> op, rec |-> r, stage |-> "worker", answer |-> "none", session |-> None]

\* MainWindow.__init__: a new editor reads the catalogue and the definitions.
Created == [Unused EXCEPT !.place = "pending", !.reading = TRUE]

\* The requests that a controller takes; refresh_libraries never waits.
Opening(d, r) == [d EXCEPT !.work = Call("open", r), !.target = r]
Importing(d, r) == [d EXCEPT !.work = Call("import", r)]
Saving(d) ==
  IF d.session = None \/ BusyEditor(d) THEN d ELSE [d EXCEPT !.work = Call("save", d.session.rec)]
Retrying(d) ==
  [d EXCEPT !.work = Call("retry", IF d.session = None THEN None ELSE d.session.rec)]
Refreshing(d) == [d EXCEPT !.reading = TRUE]

\* The worker thread of an editor: the call is made.
Answering(e, answer, session) ==
  [ed EXCEPT ![e].work.stage = "answer", ![e].work.answer = answer, ![e].work.session = session]

At(e, op, stage) == ed[e].work # None /\ ed[e].work.op = op /\ ed[e].work.stage = stage

WorkerOpens(e) ==
  /\ At(e, "open", "worker")
  /\ \E o \in OpenOutcomes(ed[e].work.rec) : ed' = Answering(e, o.answer, o.session)
  /\ UNCHANGED serviceVars

WorkerImports(e) ==
  /\ At(e, "import", "worker")
  /\ \E o \in CreateOutcomes(ed[e].work.rec) :
       /\ Performed(ed[e].work.rec, o)
       /\ ed' = Answering(e, o.answer, o.session)

\* save() changes the session itself, on the worker thread.
WorkerSaves(e) ==
  /\ At(e, "save", "worker")
  /\ \E o \in SaveOutcomes(ed[e].session) :
       /\ Performed(ed[e].work.rec, o)
       /\ ed' = [Answering(e, o.answer, None) EXCEPT ![e].session = o.session]

WorkerRetries(e) ==
  /\ At(e, "retry", "worker")
  /\ RetryAll
  /\ ed' = [ed EXCEPT ![e].work.stage = "reopen"]

\* The outbox is listed after the retry, and the session read again if nothing is left.
WorkerReopens(e) ==
  /\ At(e, "retry", "reopen")
  /\ \/ /\ \E r \in Recordings : Active(r)
        /\ ed' = Answering(e, "failed", None)
     \/ /\ \A r \in Recordings : ~Active(r)
        /\ IF ed[e].work.rec = None THEN ed' = Answering(e, "done", None)
           ELSE \E o \in OpenOutcomes(ed[e].work.rec) : ed' = Answering(e, o.answer, o.session)
  /\ UNCHANGED serviceVars

Worker(e) ==
  WorkerOpens(e) \/ WorkerImports(e) \/ WorkerSaves(e) \/ WorkerRetries(e) \/ WorkerReopens(e)

\* What the callback of an answer leaves of the editor, before the window hears
\* of it.  A save or a completed retry has the catalogue read again.
Succeeded(w) == w.answer \notin {"none", "failed"}
Answered(d) ==
  LET w == d.work IN
  [d EXCEPT !.work = None,
            !.session = IF Succeeded(w) /\ w.session # None THEN w.session ELSE @,
            !.reading = @ \/ (Succeeded(w) /\ w.op \in {"save", "retry"})]
=============================================================================
