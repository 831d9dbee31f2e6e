---------------------------- MODULE WorkspacePlayer ----------------------------
(* gui/workspace_player.py: one sink plays what the tracks of the workspace sound *)
(* like together.  A timer of the GUI thread pumps blocks into the sink, which    *)
(* the device empties on its own; the playhead follows what the sink has          *)
(* processed.  The sink exists while the player is playing.                       *)
EXTENDS WorkspaceTracks

CONSTANTS Block,      \* frames mixed at a time (2048)
          BufferSize, \* frames that the sink holds (0.8 s)
          MaxGestures \* bound: what the user and the workers of editors do

ASSUME SizeAssumption == Block \in Nat \ {0} /\ BufferSize \in Nat \ {0}
ASSUME GesturesAssumption == MaxGestures \in Nat

VARIABLES player,  \* the player, its sink and the playhead of the workspace
          gestures \* how much of MaxGestures has happened

vars == <<trackVars, player, gestures>>

\* What is heard at a frame of the timeline: the audible clips that lie there, each
\* with its own frame.  A queued frame carries its place on the timeline.
Sound(a, at) ==
  {<<t, at - a.offset[t]>> :
     t \in {u \in Audible(a) : a.offset[u] <= at /\ at < a.offset[u] + Length[u]}}
Frame == [at: Nat, sound: SUBSET (Track \X Nat)]
MixBlock(a, start, count) ==
  [i \in 1..count |-> [at |-> start + i - 1, sound |-> Sound(a, start + i - 1)]]

Player == [playing: BOOLEAN, playhead: Nat, origin: Nat, next: Nat, processed: Nat,
           pending: Seq(Frame), queue: Seq(Frame)]

TypeOK ==
  /\ TracksTypeOK
  /\ player \in Player
  /\ gestures \in 0..MaxGestures

Init ==
  /\ TracksInit
  /\ player = [playing |-> FALSE, playhead |-> 0, origin |-> 0, next |-> 0,
               processed |-> 0, pending |-> <<>>, queue |-> <<>>]
  /\ gestures = 0

-----------------------------------------------------------------------------
(* The methods of the player, as the states they may leave it in.             *)
Heard(p) == p.origin + p.processed

\* WorkspaceController.seek
Seek(a, p, at) == [p EXCEPT !.playhead = Max({0, Min({Duration(a), at})})]

\* Faulty variant: the block that the sink has not taken yet is kept.
ReleasedSinkOnly(p) == [p EXCEPT !.playing = FALSE, !.queue = <<>>]

Released(p) == [p EXCEPT !.playing = FALSE, !.pending = <<>>, !.queue = <<>>]

\* Faulty variant: the playhead stays where the last pump has put it.
PausedInPlace(a, p) == Released(p)

Paused(a, p) == Released(IF p.playing THEN Seek(a, p, Heard(p)) ELSE p)

\* Faulty variant: no block reaches the last frame of the workspace.
FilledShort(a, p) ==
  LET left == Max({0, Duration(a) - 1 - p.next})
      count == Min({Block, BufferSize - Len(p.queue), left})
  IN IF p.pending # <<>> THEN p
     ELSE [p EXCEPT !.pending = MixBlock(a, p.next, count), !.next = @ + count]

\* The next block is mixed when the sink has taken the last one.  The sink takes at
\* least a frame when it has room, and no more than it has room for.
Filled(a, p) ==
  LET count == Min({Block, BufferSize - Len(p.queue)}) IN
  IF p.pending # <<>> THEN p
  ELSE [p EXCEPT !.pending = MixBlock(a, p.next, count), !.next = @ + count]

Written(p) ==
  LET room == Min({Len(p.pending), BufferSize - Len(p.queue)}) IN
  {[p EXCEPT !.queue = @ \o SubSeq(p.pending, 1, n),
             !.pending = SubSeq(@, n + 1, Len(@))] : n \in Min({1, room})..room}

AtEnd(a, p) == p.playhead >= Duration(a)

\* _pump, when nothing fails.
Pumped(a, p) ==
  LET q == Seek(a, p, Heard(p)) IN
  IF ~p.playing THEN {p}
  ELSE IF AtEnd(a, q) THEN {Released(q)} ELSE Written(Filled(a, q))

\* play: there may be no device for it, it may not start, or the first pump fails.
Started(a, p) ==
  LET at == IF AtEnd(a, p) THEN 0 ELSE p.playhead IN
  [p EXCEPT !.playing = TRUE, !.playhead = at, !.origin = at, !.next = at, !.processed = 0]
Played(a, p) ==
  IF p.playing \/ a.order = <<>> THEN {p}
  ELSE {p, Released(Started(a, p))} \cup Pumped(a, Started(a, p))

\* _mix_changed: the sink is emptied and playback goes on with the new mix.
MixChanged(a, p) == IF p.playing THEN Played(a, Paused(a, p)) ELSE {p}

Sought(a, p, at) ==
  LET q == Seek(a, Released(p), at) IN IF p.playing THEN Played(a, q) ELSE {q}

-----------------------------------------------------------------------------
(* The user and the window.                                                   *)
Rearrange ==
  /\ \E t \in Track :
       \/ AddTrack(t)
       \/ gesture = None /\ \E x \in Offset : Place(t, x)
       \/ gesture = None /\ \E muted, solo \in BOOLEAN : SetMix(t, muted, solo)
       \/ gesture = None /\ \E delta \in {-1, 1} : MoveOrder(t, delta)
  /\ player' \in MixChanged(arr', player)

\* _continue_close() pauses before the workspace hears of it.
RemoveTrackPaused ==
  /\ \E t \in Track : RemoveTrack(t)
  /\ player' \in MixChanged(arr', Paused(arr, player))

SelectSomething ==
  /\ \/ \E t \in Track : Press(t) \/ ActivateTrack(t) \/ ClickAnnotation(t) \/ ReopenTrack(t)
     \/ Drag \/ Release \/ CancelGesture \/ ClearSelection
  /\ UNCHANGED player

\* A click in a waveform seeks to its place on the timeline, on the clip or not.
ClickSeeks ==
  /\ Click
  /\ \E at \in 0..Duration(arr) + 1 : player' \in Sought(arr, player, at)

\* Play, Pause and Stop; the window pauses when it is asked to close.
PlayOrPause ==
  /\ player' \in IF player.playing THEN {Paused(arr, player)} ELSE Played(arr, player)
  /\ UNCHANGED trackVars
Stop ==
  /\ player' = Seek(arr, Released(player), 0)
  /\ UNCHANGED trackVars

UserStep ==
  /\ gestures < MaxGestures
  /\ gestures' = gestures + 1
  /\ Rearrange \/ RemoveTrackPaused \/ SelectSomething \/ ClickSeeks \/ PlayOrPause \/ Stop

\* The timer.  The sink, a decoder or the device may fail, which pauses.
Pump ==
  /\ player.playing
  /\ player' \in Pumped(arr, player)
  /\ UNCHANGED <<trackVars, gestures>>
PumpFails ==
  /\ player.playing
  /\ player' = Paused(arr, player)
  /\ UNCHANGED <<trackVars, gestures>>

\* The device empties the sink.
DevicePlays ==
  /\ player.playing /\ player.queue # <<>>
  /\ player' = [player EXCEPT !.queue = Tail(@), !.processed = @ + 1]
  /\ UNCHANGED <<trackVars, gestures>>

Next == UserStep \/ Pump \/ PumpFails \/ DevicePlays

\* The timer and the device go on while the player plays.
Spec == Init /\ [][Next]_vars /\ WF_vars(Pump) /\ WF_vars(DevicePlays)

-----------------------------------------------------------------------------
\* What is queued is what the tracks sound like now: frame by frame from the place
\* that has been heard, each with the present placement and mix, and the next block
\* goes on where it ends (Reference_Client.md: a change "flushes queued audio").
QueueIsCurrent ==
  LET queued == player.queue \o player.pending IN
  player.playing =>
    /\ queued = MixBlock(arr, Heard(player), Len(queued))
    /\ player.next = Heard(player) + Len(queued)

\* A change of the arrangement "resumes at the current shared position": playback
\* goes on at the frame that has been heard.  The exception is an arrangement that
\* now ends before that frame: it starts again from the beginning.
ResumesInPlace ==
  [][arr' # arr /\ player.playing /\ Heard(player) < Duration(arr')
       => player'.playhead = Heard(player) /\ (player'.playing => Heard(player') = Heard(player))]_vars

\* Playback comes to its end when the user leaves it alone.
PlaybackEnds == player.playing ~> ~player.playing
=============================================================================
