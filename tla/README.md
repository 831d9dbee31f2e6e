# Formal models of the language exploration tools

This directory holds TLA+ models of the programs of the repository, the TLC
configurations that check them on small instances, and TLAPS proofs of the
properties that matter most. The repository holds four programs:

- the **alignment workbench** (`alignment-workbench/`), which annotates
  recordings and keeps every saved state as an immutable revision in PostgreSQL;
- the **registry aligner** (`registry-aligner/`), a batch pipeline that aligns
  recordings with their text and stores segments;
- the **spectrogram playground** (`spectrogram-playground/`), which records,
  plays and analyses sound;
- its predecessor (`voice-spectrogram-playground-DEPRICATED/`), not maintained.

Paths below are relative to `alignment-workbench/src/`,
`registry-aligner/src/registry_align/` or
`spectrogram-playground/spectrogram_playground/`, whichever the section is about.

## The system and its hard parts

### Alignment workbench

| Component | State | Operations | Talks to | What makes it correct |
|---|---|---|---|---|
| Revision store (`persistence/sqlalchemy/recording_repository.py`, `unit_of_work.py`, `rows.py`) | rows of `recordings` (with `head_revision_id`) and `recording_revisions`, unique indexes | `create`, `save`, each one transaction; idempotent on the revision id | PostgreSQL, called by handlers and sessions from several threads and programs | one numbered chain per recording; a refusal has a reason; a retry of a committed request succeeds |
| Recovery outbox (`application/recovery.py`) | envelope files in `pending/`, `conflicts/`, `applied/`, `archive/` | `enqueue`, `mark_applied`, `mark_conflict`, `archive`, listing | the file system, shared by all programs on the machine | no record is lost by an error or a crash between two file operations |
| Recording handler (`application/handlers.py:195-350`) | none of its own | `create`, `open` | store, outbox, audio storage | audio of a committed recording is never discarded |
| Edit session (`application/edit_session.py`) | `_state`, `_checkpoint`, undo and redo stacks, `_base_revision_id`, `_sync_state` | edits, undo, redo, restore, reload, discard, save, close | store, outbox; called by the GUI thread and, for saves, by a worker | what save reports stays true; nothing unsaved disappears in silence; every reachable state can be saved |
| Recovery handler (`application/handlers.py:360-483`) | none of its own | `retry`, `retry_all`, `archive` | store, outbox | every queued save is sent in order or is a conflict; children of a conflict are not sent |
| Managed audio storage (`application/audio_storage.py`) | content-addressed files | `ingest`, `verify`, `discard`, `publish` | file system | a file under its final name is complete |
| Annotation libraries (`application/core_library.py`, `bundled_libraries.py`, `persistence/sqlalchemy/library_repository.py`) | rows of `annotation_libraries`, `library_versions`, `library_entries` | `ensure_publication` at every start, import and "Use core library" | PostgreSQL, shared with programs of other releases | a running program finds exactly its libraries; losing a race to an equal program is no error |
| Application runtime, SSH tunnel, guardian (`application/runtime.py`, `ssh_tunnel.py`, `tunnel_guardian.py`) | processes, port, connection pool | `start`, `shutdown`, supervision | `ssh`, PostgreSQL | no tunnel outlives the program; a failed start undoes what it did |
| GUI controller and tasks (`gui/controller.py`, `tasks.py`) | open session, busy count, generation, calls under way | open, import, save, retry, close | worker threads; signals to the window | no late result is installed; a session that is replaced takes no edit with it |
| Workstation window and dialogs (`gui/workstation_window.py`, `main_window.py`, `recordings_browser.py`, `microphone.py`) | tracks, pending editors, retry, removal and close in progress, open dialogs, posted timers | add, import, record, edit metadata, save all, retry all, remove, close | every controller, dialogs with an event loop of their own | a recording is one track; closing loses nothing and comes to an end |
| Workspace and its player (`gui/workspace.py`, `workspace_player.py`, `track_widget.py`, `waveform.py`) | order, offsets, mute and solo, active track, the one selection and each waveform's copy of it; the sink, what is queued in it, the playhead | place, mix, reorder, select with the mouse, play, pause, seek | the audio device, a timer | what is queued is what the tracks are now; there is one selection, the active track's; playback ends |
| Library, speaker and query repositories, mappers, migrations | immutable content | publish, read | PostgreSQL | content hashes match |

How a save runs: the controller starts a worker; the session lists the outbox,
builds its request, enqueues an envelope, and asks the store. An answer makes
the session *synced* and moves the envelope to `applied/`; a lost connection
makes it *pending*, and further saves are queued behind, each with the
unconfirmed revision as parent; a moved head makes it *conflict*. Retries read
the envelopes and send the same requests again, in the same or another program.

How a window runs: everything happens on one GUI thread, one event at a time:
an action of the user, the answer of a worker, a timer. A dialog runs a loop of
events inside an event, so answers and timers arrive while the code that opened
it waits. Closing is a loop of such events: it asks, saves, retries, and goes on
from a timer that is posted when a busy editor becomes idle.

Hard behaviours: transactions that interleave under READ COMMITTED; commits
whose answer is lost; retries that race the first attempt or each other; crashes
between file operations and transactions; chains of unconfirmed saves; errors
that are swallowed on purpose (`mark_applied`); edits, undo and saves that
interleave with a worker; Qt callbacks that come late or never.

### Registry aligner

| Component | State | Operations | What makes it correct |
|---|---|---|---|
| Alignment store (`storage/postgres.py`, `tables.py`) | recordings, content versions, alignment results with leases, segments, runs and their items | `ingest_version`, `claim_alignment`, `complete_alignment`, `fail_alignment`, `prune_runs` | readers see complete alignments only, also when an import's answer is lost |
| Pipeline service (`pipeline/service.py`) | a run, the outcome of each entry, upload futures | process entries: check, probe, upload, ingest, claim, align, import, finish | every entry ends in one outcome, which is true; a version never names audio that is not there |
| Segment topology and review (`domain/topology.py`, `workbench.py`) | append-only revisions of an alignment | update, split, merge, replay; `save_revision` | what is stored can be replayed; siblings do not overlap; no edit is overwritten unseen |
| Remote audio (`remote_audio.py`) | staged and final objects | `ensure_many` in four remote commands, `fetch` | a final object is whole and never replaced |
| Registry loader (`registry/loader.py`) | none | refuse a document or note what is wrong with it, accept or reject entries, duplicates, fail fast | no two entries of a run describe one recording |
| MFA backend, decoder, text, QC, export | none (calls of other programs, conversions) | | |

A run is a process of its own; several share one database and one server. It
prepares and uploads in batches on threads, ingests entry by entry, aligns
outside any transaction under a lease, and imports results one by one. Each of
these is a transaction that may fail, or commit and lose its answer; the process
may die between any two.

### Spectrogram playground

| Component | State | Operations | What makes it correct |
|---|---|---|---|
| Project and editing (`model/`, `audio/editing.py`) | tracks, order, active track, selection and trim of each | open, remove, move, select, copy, cut, paste, move region, trim | playhead, selections and trims lie within the audio |
| Transport, mixer, engine (`model/transport.py`, `audio/mixer.py`, `audio/engine.py`) | state, frame, loop, stream, anchor of the audible position | play, pause, stop, seek, loop; the callback of the audio thread | the callback reads a consistent project |
| Microphone (`audio/recording.py`) | frames captured | start, capture, stop | a take becomes a track |
| Waveform and spectrogram views (`analysis/cache.py`, `ui/track_workspace.py`) | lanes, tasks, a cache by track and trim | rebuild, look up, compute, store, show | a view comes to show the audio as it is |
| Fourier view (`ui/fourier_view.py`) | tasks for all tracks, spectra, a cache | refresh, work, show | the same, for the region last analysed |

`PROJECT.json` lists every component with its status and the hazards, each at
its line.

## Modules

| Module | Models |
|---|---|
| `RevisionHistory` | abstract: what the store promises, one append-only chain per recording |
| `RecordingStore` | `create` and `save`, one action per SQL statement; implements `RevisionHistory` |
| `LibraryPublication` | `ensure_publication` of several programs, one action per statement |
| `WorkbenchDatabase` | the two modules above over one database: a program saves once it has started |
| `SaveContract` | abstract: what the sessions of a machine, its outbox and the store owe each other |
| `SaveRecovery` | save, create, open, reload, retry, retry_all, archive over the outbox, one action per access to a directory or transaction; uses `RevisionHistory` as its store; implements `SaveContract` |
| `EditTimeline` | abstract: what undo and redo promise |
| `EditSession` | what a session holds: edits, undo, redo, restore, reload, discard, close, and a save in a worker thread; store and outbox in outline; implements `EditTimeline` and `SaveContract` |
| `AppLifecycle` | program, guardian and ssh process: start, failed start, shutdown, death |
| `WorkbenchService` | the calls of the client's controllers as sets of outcomes |
| `EditorController` | the controller of one track's editor with its tasks |
| `MicrophoneDialog`, `RecordingsBrowser` | the recording dialog; the metadata worker of the browser |
| `Workstation` | the window over all of these: one action per event of the GUI thread |
| `WorkspaceTracks` | the arrangement, the shared selection and the mouse |
| `WorkspacePlayer` | the sink, the pump and the device, composed with `WorkspaceTracks` |
| `RegistryLoader` | a registry document as accepted entries (operators) |
| `RemoteAudio` | upload of batches in remote commands that fail or tear |
| `AlignmentStore` | the transactions of the aligner's tables |
| `AlignmentPipeline` | runs of `process_entries` over the three modules above |
| `SegmentTopology` | validation, application and replay of segment operations (operators) |
| `SegmentReview` | editors that save revisions over one locked history |
| `AudioEditing`, `PlaygroundProject` | edits of a track; tracks, order, selections |
| `AudioEngine` | transport, mixer and the audio callback |
| `AnalysisViews`, `FourierView` | the two kinds of views with their workers and caches |
| `Playground` | the main window and the microphone over the five modules above |
| `WorkbenchDatabaseProofs`, `SaveRecoveryProofs`, `EditSessionProofs`, `AlignmentProofs`, `SegmentReviewProofs`, `WorkspacePlayerProofs`, `PlaygroundProofs`, `WorkstationProofs` | theorems |
| `MC...` | what TLC needs: symmetry, small inputs |

The three models of saving form a stack. `RecordingStore` shows that its
transactions are atomic appends; `SaveRecovery` builds on those appends and shows
what happens to requests; `EditSession` takes the answers of a save as given and
shows what happens to the work of the user. `SaveContract` joins the last two: it
says in what steps a session, its requests and their files may move, and both
modules implement it. `Workstation` stands beside the
stack: it takes each call of a controller as one of its outcomes
(`WorkbenchService`) and shows what the window makes of them.

### RecordingStore

- `recordings`, `head`, `revisions` are the committed tables; `added[c]` is what
  the transaction of call `c` has inserted and not committed. `pc[c]` is the next
  statement: `CheckIdempotent`, `LookupRecording`, `AddRecording`, `ReadHead`,
  `InsertRevision`, `AdvanceHead`, `Commit`.
- A statement sees committed rows and its own. An insert waits for the
  transaction that holds the same unique key, and the update of the head waits
  for the row lock; after the wait the statement sees what was committed.
- `RefuseContent` stands for all checks of libraries, annotations, speakers and
  audio; they read only immutable content and can refuse any request.
- `LoseConnection` ends a call with or without its commit taking place.
- Left out: the content of a revision (a request is a function of its id, as
  fresh UUIDs are), read-only queries, connection pooling.

### LibraryPublication and WorkbenchDatabase

- `release[p]` is the sequence of bundles program `p` is delivered with; a version
  is its namespace, label and content (for which its SHA-256 stands). `libraries`
  and `versions` are the committed tables, `step[p]` the next statement of
  `ensure_publication`: list, create, list versions, publish, look again, verify.
- Two programs run the same or different releases; `CreateLibrary` and
  `PublishVersion` wait for a transaction that holds the same unique key and fail if
  it committed. The program may lose the database at any statement, with or without
  a commit taking place, end, and start again over what it left half done.
- `up[p]` is set when `start()` returns. `StoreStep` lets a program call the store
  only then (`WorkbenchApplication.api` raises before).
- Bound of the composition: the store and the libraries do not work at the same time
  (`LibrariesAtRest`, `StoreAtRest`); their tables are disjoint and their statements
  commute.
- Left out: row ids of libraries (always taken from a list), what a definition says,
  `LibraryCatalog` (it caches rows that never change), an invalid bundle (the call
  ends before its first write), the owner-only `migrate_core_placeholder.py`, which
  does rewrite a version.

### SaveRecovery

- A client is a worker thread or a program; it has at most one session (`rec`,
  `base`, `sync`) and one call (`task`, `pc`, `current`).
- An operation id and the revision id of its request are drawn together in
  `save`, so one value stands for both. `target` and `parent` are the request.
- The directories of the outbox are sets. `mark_conflict` finds and reads the
  envelope (`ReadEnvelope`), writes it to `conflicts/` (`WriteConflict`) and removes
  it from `pending/` (`UnlinkPending`), each a step of its own; `pc` remembers which
  file was read ("write": the one in `pending/`, "rewrite": the one in `conflicts/`).
  Another client may settle the operation in between, and the write then puts a file
  of a stored or archived request into `conflicts/` again.
- `mark_applied` and `archive` find a file and rename it in one step, but the file
  may be gone when it is renamed: with several clients, or where files fail, a move
  can fail at any time (`MoveMayFail`).
- `MayHappen` names the events of an instance: the store is unreachable, it
  refuses the content of a request, a file operation fails, a client crashes,
  the user archives, another machine saves.
- `create` ingests the audio file first and discards it when the store refuses
  (`DiscardAudio`); `audio` is the set of recordings whose file exists.
- `ack` and `abandoned` record what callers were told, for the properties only.
- Left out: quarantine of malformed envelopes (the program writes its own), and
  time stamps: `retry_all` may take any ready envelope, which covers the order
  of creation.

### SaveContract

- Its state is what both modules speak of: the committed operations and the newest
  of each recording, what each request is for and builds on, the operations on file
  (`pending` and `conflicts`, together `waiting`) and those given up on request
  (`withdrawn`), and each session's recording, base and sync state.
- A step is a conjunction of what the store (`StoreStep`), the requests
  (`RequestStep`), the files (`FileStep`), archiving (`WithdrawStep`) and each session
  (`SessionStep`) may do in it, whoever takes it. A save of `EditSession`, which
  requests, commits and moves the session at once, is one such step; in
  `SaveRecovery` the same save is many.
- A session advances from its base to the request it has just made, stops only while
  its recording has a file, and is loaded from the newest revision only when what it
  was based on is committed or was withdrawn. A file is removed only when its request is
  committed, was withdrawn, or nothing builds on it.
- Nothing comes to `pending/` but a request that is neither committed nor withdrawn.
  `conflicts/` is weaker: `mark_conflict` writes what it read a moment ago, so a
  request that another client has settled in between is on file once more. That is
  why a session may be loaded when the revision it was based on is committed or
  withdrawn, whatever is on file.
- `Sound` is what this is for: no link of a recording's line is lost.

### EditSession

- `state`, `checkpoint`, `undo`, `redo`, `base`, `sync`, `closed` are the
  session's fields. A state holds the pinned libraries, the annotations, one
  value for the other fields, and the two caches that equality ignores: the
  validator (`validation`, the set of pinned libraries) and the annotation
  `index`.
- An annotation is reduced to its id and the library version of its concept:
  what the checks of duplicates, pins and unpinning look at. Geometry and
  attributes are validated by pure functions and left out.
- `Save` is the part of `save` up to the request; `Answer` is the rest, in the
  worker. Between the two the GUI thread is stopped only by the busy guard of
  `WorkbenchController` (`Free`).
- Retries, archive and saves of others are single steps; their detail is in
  `SaveRecovery`. What they leave in the outbox is the same: an envelope that could
  not be moved stays (`Drop` or nothing), and a conflict that cannot be marked leaves
  the session as it was, with or without a file in `conflicts/` (`ConflictFails`).

### AppLifecycle, WorkbenchService, EditorController

- `phase`, `guardian`, `ssh` are the three processes. The pipe whose closing tells
  the guardian that the program is gone is `ParentHolds`: the program holds its
  end from the start of the tunnel to its shutdown or death. `StartTunnel`,
  `TunnelIsReady`, `TunnelFails`, `Probe`, `StopTunnel` are the stages of
  `WorkbenchApplication.start` and `shutdown`; `GuardianSpawns`,
  `GuardianTerminates`, `GuardianEnds` are the loop of `supervise`; `Dies` is the
  death of the program at any time.
- `head` and `outbox` are a recording's number of revisions and its queued saves.
  A call of a handler or session is a set of outcomes (`OpenOutcomes`,
  `CreateOutcomes`, `SaveOutcomes`), each an answer with what it leaves behind;
  `Performed` applies one. While the tunnel is open a call may succeed or be
  refused, otherwise it is queued or fails.
- An editor has at most one call of the kinds open, import, save and retry under
  way (`work`), and `reading` for all catalogue reads. A call is in the worker,
  then in the answer; a retry is followed by reopening (`reopen`).
- Left out: a commit whose answer is lost (it is queued and is in `SaveRecovery`), and
  the kill of a guardian that does not end within 5 s (`ssh_tunnel.py:177`).

### Workstation

- `win` holds the tracks, the flags `closing`, `removing`, `retrying`, `locked`,
  the queue of a retry, the posted timers (`posted`), and the dialogs that are
  open, innermost last (`frames`). `ed[e]`, `browser` and `mic` are the parts.
- Qt signals are direct calls, so a callback is an operator on windows
  (`BusyChanged`, `SaveFinished`, `RecoveryFinished`, `Heard`, `ContinueClose`,
  `RetryNext`) and an action composes them in the order the code emits.
- `exec()` of a dialog is a frame: the user sees only the innermost one, while
  `AnswerStep`, `ReadStep` and `TimerStep` go on underneath.
- `Edit` is one flag (`dirty`): what edits do is in `EditSession`. A metadata
  edit of the browser is one worker that opens, saves and closes sessions of its
  own.
- Left out: fields, tables, filters and shortcuts; the single-recording use of
  `MainWindow` outside the workstation; what a drawn boundary looks like.

### WorkspaceTracks, WorkspacePlayer

- `arr` is the arrangement (order, offsets, mute, solo), `activeId` and
  `selection` the workspace's, `views` each waveform's own selection in its own
  samples, `gesture` the button held down in a waveform. `Press`, `Drag`,
  `Release`, `Click` and `CancelGesture` are the mouse handlers. `ReopenTrack` is the
  end of a retry of pending saves: the session is closed and opened anew, which clears
  its waveform (`gui/controller.py:711-714`, `waveform.py:241-253`); the workspace
  hears of it only when the track is active (`track_widget.py:214-217`).
- `apart` is no variable of the program: it names the tracks whose waveforms were
  dragged in or reopened while another track was active, for `OneSelection`.
- A frame of sound is the set of tracks heard in it, each with the place in its
  clip; `MixBlock` computes a block as `mix_block` does. The queue of the sink
  and the block it has not taken (`pending`) hold such frames.
- The methods of the player are operators from a player to the players it may
  become: how much of a block the sink takes is open (`Written`: at least one
  frame when it has room).
- `Pump` is the timer, `DevicePlays` the device, `PumpFails` an error of the sink.
  `Rearrange` and `RemoveTrackPaused` are changes while playing.
- Left out: gain, the viewport, panning, drawing, dragging an annotation's
  boundary. Clips have one sample rate.

### AlignmentStore, AlignmentPipeline, RemoteAudio, RegistryLoader

- A content stands for audio, transcript, language and speaker; a version is a
  recording and a content, an alignment a version and a profile. The operators
  ending in `Tx` are the effect of one committed transaction.
- `worker[r]` is the process of a run: its place in `process_entries` (`at`), the
  entries left, what it found about the present one, the jobs to align. The
  actions follow the code's order: `CheckExisting`, `CompleteAllSkipped` or
  `Doctor`, `StartRun`, `Prepare`, `UploadStep`, `AwaitUploads`, then for each
  entry `SkipEntry` or `Ingest`, `Claim`, `Note`; then `Align`, `ImportJob` or
  `FailJob` for each job, and `FinishRun`.
- A transaction may fail (`FailEntry`, `FailJob`), or commit and lose its answer. An
  import that does (`ImportJob` to the place "fail") is failed by its own run
  (`pipeline/service.py:709-734`): `fail_alignment` leaves an alignment that is not
  running as it is, and the run's item is overwritten by "failed". `unheard` names
  the entries of such imports, for `ReportIsTrue` only. A process
  may die at any place (`Crash`); its leases run out (`LeaseExpires`).
- A batch is uploaded by `Preflight`, `Stage`, `FinalizeObject` and `Cleanup`,
  each remote command failing or, for the copy, tearing files; batches of all
  runs interleave.
- `FetchAudio` is what a reader of a version finds on the server.
- A registry document has a number of issues of its own (version, defaults) and may
  lack its list of entries; `LoadRegistry` refuses it or goes through the entries
  (`LoadEntries`), which are accepted one by one.
- Left out: what FFmpeg, MFA and the quality checks compute; exports and status
  reports, which only read; probing is any subset of the candidates.

### SegmentTopology, SegmentReview

- A segment has bounds, a kind, a parent, and the segment of the aligner it
  descends from. A revision is an update, split or merge with its targets, state
  (accepted or proposed) and the version it was based on.
- `Fits` and `Applied` are `validate` and `apply`; `Replay` folds them over the
  accepted revisions. `topology` is the replay of what is stored.
- `Load` gives an editor a view, `BeginSave` takes the lock of the alignment's
  row and validates against the present replay, `Insert` commits it. The stored
  order is by the editor's clock, which may be behind by `Skew` places
  (`InsertAt`).
- Left out: labels, confidences and notes of segments.

### Playground

- A track is a sequence of samples with the frames of its trim; the edits are
  operators (`DeleteRegion`, `PasteClip`, `MoveRegion`, `Trimmed`).
- `AudioCallback` is the audio thread, one block at a time under the mixer's
  lock. The GUI changes selections without that lock, so a callback that found
  the selection active may find no start afterwards; it then raises and the
  stream stops (`SelectionChanges`). Starting the stream may fail whether it is opened
  or started again (`PlayFails`), also within a seek (`Seek`).
- A cut copies first: when the deletion is refused, because nothing would be left, the
  clipboard has the region and playback is stopped (`DeleteSelected`).
- An analysis is the audio it was computed from. A worker goes through `LookUp`,
  `Compute`, `Store`, and its answer arrives later; the GUI edits in between.
  `overtaken` and `overtakenSpectra` record the tracks for which this happened.
- A Fourier task holds jobs for all tracks, taken when it was queued.
- Left out: gain, mute, solo, visibility, viewport and lane heights; the window
  function and other settings; exports (among them the worker of the CSV export, which
  computes through the same analysis cache and so may fill it with what the views'
  workers would); closing; the choice of devices; samples
  at the analysis rate; what an analysis computes.

## Runs

| Run | Instance | States | Shows |
|---|---|---|---|
| `workbench_database` | 2 programs of 3 pairs of releases with 2 libraries; 2 recordings, 3 revisions, 2 calls | 341 132 | running programs have their libraries, only other content refuses them; `NumberedChain`, `OkIsStored`, `ConcurrentIsJustified`, `CallReturns`, and that the store implements `RevisionHistory` |
| `save_recovery` | 1 recording, 3 operations, 2 clients; unavailable, crash, storage | 3.0 million | acknowledgements hold, no record is lost, and the calls implement `SaveContract` |
| `one_client` | 2 recordings, 4 operations, 1 client; all events but failing files | 367 835 | refusals are genuine, `retry_all` stops at conflicts and finds no cycle, stored recordings have audio |
| `pending_drains` | 2 recordings, 3 operations, 1 client; unavailable, remote, crash | 67 285 | liveness of `retry_all` |
| `edit_session` | 1 annotation, 2 libraries, 2 names, 2 edits, 3 revisions | 914 108 | checkpoint equals base, every state within reach can be saved, caches are fresh, unsaved work stays within reach, implements `EditTimeline` and `SaveContract` |
| `alignment` | 2 recordings, 3 contents with 2 audios, 2 runs; torn uploads, lost answers, crashes, expiry, pruning | 2.0 million | versions have audio, published alignments are complete, reports are true, a run always has a step, objects are immutable |
| `segment_review` | 2 words with 3 phones in 2 shapes, 2 editors, 2 revisions, clocks one place apart | 428 858 | history replays while clocks agree, siblings never overlap, no blind edit |
| `workstation` | 2 recordings (one to be imported), 3 revisions, 2 editors, 1 incident | 267 476 | one track per recording, no edit dropped, closing ends, the tunnel ends with the program |
| `playground` | 2 tracks, up to 3 frames, blocks of 2, 5 gestures | 993 895 | playhead, selections and trims within the audio; views come to show it |
| `workspace_player` | clips of 1 and 2 frames, buffer of 3, 5 gestures | 19 425 | the queue is current, one selection, a change resumes in place, playback ends |
| `audio_race` | 1 recording, 2 operations, 2 clients, no failures | violation | finding 1 |
| `stale_work` | as `alignment` | violation | finding 2 |

Why the bounds are enough. Store: two calls are needed for a race, three
revisions for a chain with a fork and for a retry beside another save, two
recordings for a clash of keys across recordings. Libraries: the second program's
release is equal, or has other content under the second label, or the same content
under another one, behind a first library both agree on. Recovery: with three
operations a session has a queued chain of length two behind a first revision
while a second client retries or saves; that the store refuses the content of a request
is left to `one_client`, and to the theorems, which hold for any events; the fourth
operation of `one_client` gives a conflict with two descendants. Sessions: two edits on the undo stack are
enough for undo, undo, redo, edit; two libraries for pinning, moving an
annotation, unpinning and returning; three revisions for a base, a save and a
save from elsewhere. `TwoRevisionsFirst` bounds that run further: once all three
revisions are in use it explores histories of one edit and no second name, so the
long histories are those over one or two revisions; while a request is on file then,
it explores no history at all.

Alignment: two runs over documents that share a recording race on every table;
one recording changes its transcript and keeps its audio, so that two versions
share an object; a third document describes one recording twice, and a fourth is
refused for what is wrong with it as a whole. Batches of one
entry make two uploads of a run. Review: two revisions, each of any kind, from
views of any age; the second alignment has a boundary that is wrong by one
sample. Workstation (`MaxPosted` = 2 timers, `MaxSelected` = 1 recording edited
in the browser, `MaxIncidents` = 1 loss of the tunnel or death of the program):
two editors are a track and another that is opened, imported, retried or removed
meanwhile, three revisions a base, a save and one more. Playground (`MaxLag`,
`HalfWindow`, `MaxTake` = 1, `FileFrames` = 2, `MaxTasks` = 2): a block that ends
inside, at and past a loop or the end, one task under way and one waiting.
Player (`MaxOffset` = 1, `Block` = 2): clips that overlap in part, a block of
which the sink takes only a part; five gestures select, place, play, change and
seek. `MaxGestures` counts the user's actions only; callbacks, workers and
devices go on after the last.

Each property is violated by a mutant of the model (`PROJECT.json`, "mutants": a
dropped guard, a lost reset, a swapped order), so each bound lets its property
fail. Type invariants are proved for
`RecordingStore`, `LibraryPublication`, `SaveRecovery` and `EditSession`; the other
modules state theirs as documentation of their state.

### Fairness

- `WorkbenchDatabase!DatabaseSpec`: strong fairness of the store's statements per call.
  PostgreSQL executes what it is sent and grants locks first come, first served,
  so a statement that is possible again and again is executed.
- `SaveRecovery!FairSpec`: weak fairness of a call in progress (its thread
  runs); strong fairness of starting `retry_all` (the user presses "Retry
  pending saves", `docs/gui/Reference_Client.md:132`, again and again); strong
  fairness of the store's answer per request: it is not unreachable at
  every single attempt of the same request; and there is a last crash: nothing
  helps a queued save whose program dies before every `mark_applied`. How many
  crashes come before, and where they strike, is open. No fairness is assumed of users'
  other actions.
- `Workstation`: weak fairness of timers, of workers and their answers per
  editor (threads run, Qt delivers events) and of the guardian; a dialog that is
  open is answered at last; strong fairness of the timer that serves a close
  request while no editor is busy (`ServeClose`: each editor's work ends, and
  between two calls of the user there is such a moment again and again).
- `WorkspacePlayer`: weak fairness of the pump's timer and of the device. A
  failing sink is an action of its own without fairness.
- `EditSession`, `AlignmentPipeline`, `SegmentReview` and `Playground` have no
  liveness property. `RunGoesOn` says that a run is never stuck; that it ends
  depends on programs outside.

### Findings

1. `StoredHasAudio` fails with two clients (`audio_race`). `create` writes its
   envelope before its transaction runs. A retry of that envelope commits the
   revision; the insert of `create` then fails on a key, which `create` takes
   for a refused import, and it deletes the audio file of a committed recording.
   The refusal is false as well: the revision is stored, and
   `Recovery_Handler_API.md:27` promises to treat it as applied. With one client
   neither happens (`one_client`: `StoredHasAudio`, `RefusalIsGenuine`).
2. `StaleWorkIsReclaimed` fails (`stale_work`). The aligner's README (lines 141-142)
   says that a lease lets stale work be reclaimed, and `claim_alignment` has the
   branch (`postgres.py:322-335`). But a run comes to the claim only for a version it
   has just inserted: the alignment of a run that died stays `running` for good, its
   lease long expired, and a run that would overwrite is answered `unchanged`
   (`service.py:508-523`). `StaleWorkIsLeft` proves this of every instance.

Both have a finding in `PROJECT.json` with the sentence of the documentation
they contradict.

### What else the models show

These are behaviours the models reach. The properties are stated around them,
each with its exception named where it stands.

Registry aligner. A version is claimed once only, by the run that inserted it, so
the branches of `claim_alignment` for reuse and reclaim are not reached by the
pipeline (finding 2). An import that was committed and lost its answer is reported as
failed by its own run although readers see its alignment (`service.py:709-734`);
`ReportIsTrue` names that case, and no other complete alignment is called failed.
Content that
returns to an earlier state is reported as unchanged and the current version
stays where it was (`postgres.py:257`). The row of a crashed run stays "running"
and is never pruned. Replays go by the clocks of clients: with clocks that
disagree a saved revision may make the recording unreadable (`topology.py:43`),
which is why `HistoryReplays` assumes `InOrder`. Once a word was split, its phones
cannot be updated; once two words were merged, phones of the second have no bounds
to respect.

Workbench windows. A recording that is imported and at the same moment added from
the browser is opened twice; the second session stays in an editor nobody sees.
`retry_recovery` returns in silence when its editor is busy (`controller.py:675`),
and the window then stays in its retry until it is closed. A second removal
replaces the first that still waits. A conflict in one recording blocks the retry
of all. A cancelled import leaves its editor behind; an import that is only queued
reports a failure, so adding the take again creates a second recording. A
placement that ends the workspace before the playhead restarts playback from the
beginning. `Reference_Client.md:56` promises one shared selection; two waveforms may
differ from it until it changes again. A track that is added during a drag leaves a
selection in the waveform of the dragged track that the workspace does not have, and a
track whose pending saves are retried while another is active comes back with an empty
waveform while the workspace keeps its selection. `OneSelection` names both: what the
workspace has is always the active track's, and that track's waveform shows it.

Workbench outbox, with two programs on one machine. `mark_conflict` writes what it has
read, so a request that the other program has stored or archived meanwhile may be in
`conflicts/` again. Nothing is lost by it, and what it asks of the user is to decide
once more; `SaveContract` allows it. Of two programs that send one request at the same
time the loser is refused although the revision is stored (`RefusalIsGenuine` is
checked and proved for one client).

Playground. An edit while a worker is between reading the track and storing its
result leaves an outdated result under the present key (`analysis/cache.py:25`);
a Fourier job does the same with a spectrum. The selection is cleared without the
mixer's lock (`ui/main_window.py:705`), which may stop the stream until the next
pause or seek; so may a resize or an activation of the window in the middle of a
callback. A take is lost when the stream cannot be closed
(`audio/recording.py:134`).

## Proofs

All theorems hold for every value of the constants: any number of recordings,
revisions, programs, clients, runs, annotations, tracks and libraries, any bounds.
Each proof module gives an inductive invariant, shows that every action keeps it,
and draws the properties of the runs from it.

**WorkbenchDatabaseProofs.** First the store, in three modules' terms. Its
inductive invariant is `TypeOK`, `NumberedChain`, `UniqueKeys` (no two transactions
hold the same unique key), `RowsAsRequested` (a row, committed or not, is what its
request says), `CallProgress` (what a call has inserted fits the statement it is
at) and `OkIsStored`. `NumberedChain` alone is not inductive: that a commit
continues the chain follows from what the call read and from the row lock it has
held since. Proved: type correctness, `NumberedChain`, `OkIsStored`,
`ConcurrentIsJustified`, and the refinement of `RevisionHistory`: `ChainOf` is well
defined in every state with the invariant, a commit appends one link, every other
step stutters.
Then the programs over it. `LibraryInvariant` adds to the types, for each program:
`CallInOrder` (all bundles before the present one are published, and a starting
program goes through all), `ReadingsHold` (what a step read, or why an insert
failed, still stands when a later step relies on it: rows never change) and
`HasRequired`. Each way a step can end has its lemma (`GoOnKeepsTheInvariant`,
`LeaveKeepsTheInvariant`, `FindingKeepsTheInvariant`, ...), which handles bystanders
once (`BystanderKeepsItsPart`). Proved: `RequiredIsPublished`,
`LibraryRefusalIsGenuine`, that the composition implies `RecordingStore!Spec`, and so
the theorems of the store for the composition (`ProgramsKeepTheStore`).
Assumptions: `NoRevision` and `NoVersion` are no revision and no version; bundles are
nonempty sequences of versions.

**SaveRecoveryProofs.** The inductive invariant is `TypeOK`; `Located` (every
request made is committed, on file, or in a call that has not enqueued it yet);
`RecordInv` (what is told and applied against what is stored); `ParentInv`
(parents of requests are stored or on file, in the same recording); `CallInv`
(where a call can be, with which operation); `SessionInv`; `OneOwner` (a request
not yet on file belongs to one call). Each action is proved to change few
components (`Step`, `Preserves`, `Undisturbed`), so each leaf deals with one
conjunct. Proved: `AcknowledgedSaveSurvives`, `RecordsAreRetained`,
`NoDependencyCycle`, for any `MayHappen`.
The refinement of `SaveContract` (`SessionsKeepContract`) follows action by action.
The invariant above does not suffice for it, since it does not relate a call to the
session of its client: `LineInv` adds that the request of a running save builds on the
session's base, that nothing builds on that request before it is committed, that a
session's base is committed or kept in some directory, that the base of a session that
is about to be loaded anew is committed or archived on request, and that a file is
unlinked from `pending/` only when there is one in `conflicts/`. `NoLinkIsLost`
then needs no action of `SaveRecovery`: `Contract!Sound` is inductive under
`Contract!Next` alone (`SoundStep`).
With a single client and no other machine (`OneClient`), also `RefusalIsGenuine`,
`ChainStopsAtConflict` and `StoredHasAudio`. The hypothesis is needed:
`SaveRecoveryAudioRace` shows two clients breaking the last, and two that send one
request at the same time break the first.
Assumptions: `NoRecording` and `NoOperation` are no recording and no operation.

**EditSessionProofs.** `Good(s)` says that a single state is acceptable to the
store and its caches belong to it. One lemma per edit shows that an edit of a good
state is good (`ExtendedIsGood`, `ReplacedIsGood`, `ReducedIsGood`, `PinnedIsGood`,
`UnpinnedIsGood`, `StateFromIsGood`); the caches are needed there, since the
guards read the index and the validator, not the lists. The inductive invariant
adds that revisions requested so far hold acceptable content (`AllRequested`),
that the state equals what the worker has sent (`SentIsCurrent`, which the busy
guard keeps) and that the checkpoint is the content of the base. Proved: types,
`HistoryIsAcceptable`, `CachesAreFresh`, `CheckpointIsBase`,
`UnsavedStateStaysInReach` (with `ClosedIsClean`), and the refinement of
`EditTimeline`: moving the state between two stacks leaves the line
`undo \o <<state>> \o Reverse(redo)` as it is (`LineMoves`).
`SessionIsInContract` is the refinement of `SaveContract` by the same module. It needs
`LinkInv`: what something builds on was requested, a request under way builds on the base
of its synchronized session, and nothing builds on it before it is stored. Without the
last, a request that is refused could be the base of another.
Both theorems stay with safety: the contract promises no progress.
Assumptions: `NoRevision` is no revision; what other sessions save is acceptable
(their own `HistoryIsAcceptable`); the bounds are natural numbers.

**AlignmentProofs.** The inductive invariants follow the composition, each using
those before it: `Typed`; `AudioInv` (where a remote command is in its batch, and
what is staged and final then); `RowInv` (the rows of the aligner's tables against
one another, and what the place of a worker implies about the rows of its entry);
`ReportInv` (the outcome of an entry against rows and objects); `AnswerInv` (an alignment that a
run completed is of an entry the run has treated, and is noted as processed or among
the imports it was not told of). The last is needed for the report: that an alignment
called failed is not complete can only be said of a run that heard all its answers.
Proved: types, `ObjectsAreImmutable`, `VersionHasAudio`, `PublishedIsComplete`,
`ReportIsTrue` and `StaleWorkIsLeft` (an alignment keeps its owner, whatever becomes of
its lease: the other side of finding 2), for any number of runs over one database and
server, with leases that
expire, commands that tear and answers that are lost.
Assumptions: no document is empty of meaning (`DocumentsAssumption`), and the markers
for "nothing" are no values (`NoneAssumption`, `ContinueAssumption`).

**SegmentReviewProofs.** `HistoryReplays`, `NoBlindEdit` and `SiblingsAreDisjoint`.
The replay of a history is a recursive function over its length; that every prefix
replays to a tree of disjoint siblings is shown for the least prefix for which it
would fail. `SiblingsAreDisjoint` is proved under a hypothesis: the aligner's own
segments do not overlap. MFA writes tiers of intervals, which do not, but nothing in
the repository prevents it (`qc/checks.py:53` only reports `SEGMENT_OVERLAP`); what
the theorem says is that review adds no overlap.

**WorkspacePlayerProofs.** `PlayerInv` is `TracksInv` (the arrangement, the shared
selection, and which mouse gesture is on) and `Current` (queue, mixer position and
device against the playhead and the arrangement). Proved: types, `OneSelection`,
`QueueIsCurrent` and the action property `ResumesInPlace`, for every size of block and
buffer.
Assumption: a gesture ends within the timeline (`GesturesAssumption`).

**PlaygroundProofs.** `PlayInv` joins `ProjectInv` (order, active track, audio,
selections and trims of all tracks), `EngineInv` (playhead, loop, and the blocks the
device has not played) and `InputInv` (what the microphone and the clipboard hold).
The hard part is the callback: the block it renders wraps around the loop as often as
it fits, a recursive function over the frames rendered; that it is well defined and
stays within the audio is again a least-counterexample argument (`LeastNumber`).
`ViewsInv` adds what the views hold. `TracksTyped`: every track object is sound, also
one that has left the project and that a worker still reads. `LanesInv`: in each view,
whatever is cached under the present key of a track is its present audio, a task that
has begun has read the present audio, an answer under way is of the present audio, and
a lane shows its track or has a task or an answer of the latest generation; all but
for the tracks the worker was overtaken by. `SpectraInv` says the same of the jobs,
results and cache of the spectra, and, while the tab is visible, that the latest task
covers every track in the interval shown. It is needed at this strength because an
edit drops only what is cached: the argument is that a task that has not begun reads
the new audio, and one that has begun counts as overtaken from then on (`OverAfter`,
`HeldAfter`). Every gesture of the user is shown to be one of four cases
(`ViewsFollow`): no audio and no view changes, only the tab does, tracks are added
and all is rebuilt, or one track is edited and all is rebuilt.
Proved: `InBounds` and `ViewsShowAudio`. Assumptions: finitely many track ids, none of
them `None` (`TrackIdAssumption`); a block has a frame (`BlockAssumption`) and the
window of the spectra a width (`HalfWindowAssumption`); an opened file has at least
one frame (`FileAssumption`; an empty source raises in `audio/decoding.py:34`); the
bounds are natural numbers.

**WorkstationProofs.** `WindowInv` is the types and `Sound`, in four parts.
`EditorSound` (with `WorkSound`): only a track has a session with changes, a call
under way fits its editor, and a retry finds nothing it could lose. `TracksSound`:
the tracks are distinct editors of distinct recordings, what is being removed is a
track, and what waits for a retry is a track or gone. `FramesSound`: a save dialog is
about a track, an import dialog about a blank editor of its own. `MicSound`: the
editor the microphone records for. Each event of the GUI thread (button, menu,
answer of a dialog, timer, callback) is shown to keep it and to keep the sessions
with changes (`Retains`); a worker's step is treated separately (`WorkerKeeps`: a save
moves a session to a new base only when that revision is stored or queued). Proved:
types, `OneTrackPerRecording` and `NoEditDropped`, for any number of editors and
recordings and whatever the calls return; and the safety half of `TunnelEnds`: a
living ssh process has a guardian (`TunnelIsGuarded`), so that one the program leaves
behind finds `GuardianTerminates` enabled, and an orderly stop leaves none
(`StopEndsTunnel`). Assumptions: editors are numbered
(`WindowAssumption`); `None` is no recording, session or call (`ServiceAssumption`,
`EditorAssumption`).

Only model-checked: liveness (`CallReturns`, `PendingDrains`, `CloseEnds`,
`TunnelEnds`, `PlaybackEnds`) and `RunGoesOn`, since the prover handles neither
fairness nor `ENABLED`. The library's induction theorems take operators as
parameters and cannot be used; what recursive functions compute is proved by the least
number at which it would fail, and no module that is proved about has a `RECURSIVE`
operator.

## Not modelled, and what is open

Not modelled for good: widgets, drawing and layout; calls of external programs
(MFA, decoders, SSH itself); conversions (mappers, export, normalizer, resampling);
numeric analyses; speakers (one insert, then read only); one-time
migrations; command lines; the deprecated playground.

Partly modelled: each component's note in `PROJECT.json` says which part is left
out. The largest are the single-recording use of `MainWindow`, the viewports, and
the fields of annotations.

Open: hazards that no property covers. For each the code does something, the models
reach it, and no document says what should happen instead:

- a single retry whose parent is still queued is refused and becomes a conflict
  (`application/handlers.py:384`); `retry` leaves the order to its caller;
- `archive` after a crash inside `mark_conflict` moves one of two files
  (`application/recovery.py:103`);
- a session whose queued save was archived keeps a base that will never exist
  (`application/edit_session.py:642`): the contract lists such a request as withdrawn
  and promises nothing more of the session than that it was done on request;
- a retry of several recordings goes on from callbacks, one of which may not come
  (`gui/workstation_window.py:345`);
- the selection is cleared without the mixer's lock (`audio/mixer.py:46`);
- a worker that is overtaken by an edit leaves an outdated analysis in the cache
  (`analysis/cache.py:25`, `ui/fourier_view.py:63`): `ViewsShowAudio` excepts the tracks
  this happened to;
- content that returns to an earlier state leaves the current version where it was
  (`storage/postgres.py:257`).
