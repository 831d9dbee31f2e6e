----------------------------- MODULE AudioEngine -----------------------------
(***************************************************************************)
(* The playback of the spectrogram playground, from                        *)
(* spectrogram_playground/audio/engine.py, audio/mixer.py and              *)
(* model/transport.py.  PortAudio calls back from a thread of its own; a   *)
(* callback and the GUI's changes of the transport exclude each other by   *)
(* the mixer's lock, but the GUI changes selections without it.  What is   *)
(* heard (gain, mute, solo) is left out.                                   *)
(***************************************************************************)
EXTENDS PlaygroundProject

CONSTANTS
    Block,        \* the frames of one callback
    MaxLag        \* bound: how far the audible frame is from the anchor

ASSUME BlockAssumption == Block \in Nat \ {0} /\ MaxLag \in Nat

VARIABLES
    transport,    \* Transport: state, position (frame_position), loop
    stream,       \* SoundDeviceBackend.stream: "none", "active" or "inactive"
    anchor        \* _dac_anchor_frame: the first frame of the latest block, or None

engineVars == <<transport, stream, anchor>>

EngineInit ==
    /\ transport = [state |-> "stopped", position |-> 0, loop |-> FALSE]
    /\ stream = "none"
    /\ anchor = None

\* SoundDeviceBackend.stop: the stream is kept.
Aborted(s) == IF s = "active" THEN "inactive" ELSE s

\* The region that is repeated, or None.
LoopRegion == IF transport.loop THEN Selection ELSE None

(***************************************************************************)
(* Mixer.render_into from a frame on: where it ends, and whether playback  *)
(* has come to the end.  The frame jumps to the start of the loop when it  *)
(* reaches its end, also inside a block.                                   *)
(***************************************************************************)
Rendered(frame, frames) ==
    LET loop     == LoopRegion
        boundary == IF loop = None THEN TotalFrames ELSE loop[2]
        render[n \in 0 .. frames] == [at \in 0 .. TotalFrames |->
            LET from  == IF loop # None /\ boundary <= at THEN loop[1] ELSE at
                count == Least(n, boundary - from)
                next  == from + count
            IN  IF n = 0 THEN [state |-> "playing", position |-> at]
                ELSE IF boundary <= from THEN [state |-> "stopped", position |-> from]
                ELSE IF loop # None /\ next >= boundary THEN render[n - count][loop[1]]
                ELSE IF next >= TotalFrames THEN [state |-> "stopped", position |-> next]
                ELSE render[n - count][next]]
    IN  render[frames][frame]

(***************************************************************************)
(* _render_into, in the audio thread: the anchor is the frame the block    *)
(* starts with, and the mixer moves the transport.                         *)
(***************************************************************************)
AudioCallback ==
    /\ stream = "active"
    /\ transport.state = "playing"
    /\ LET rendered == Rendered(transport.position, Block)
       IN  transport' = [transport EXCEPT !.state = rendered.state,
                                          !.position = rendered.position]
    /\ anchor' = IF LoopRegion # None /\ transport.position >= LoopRegion[2]
                 THEN LoopRegion[1] ELSE transport.position
    /\ UNCHANGED stream

(***************************************************************************)
(* audible_frame_position: the anchor moved by the time since its block    *)
(* reached the device (less than nothing when it has not yet), around the  *)
(* loop when the anchor is in it.                                          *)
(***************************************************************************)
Advanced(frame, lag) ==
    LET loop == LoopRegion
    IN  IF loop = None THEN Within(frame + lag, TotalFrames)
        ELSE LET width == loop[2] - loop[1]
             IN  IF frame \in loop[1] .. loop[2] - 1
                 THEN loop[1] + ((frame - loop[1] + lag) % width)
                 ELSE IF lag >= 0 /\ frame + lag >= loop[2]
                 THEN loop[1] + ((frame + lag - loop[2]) % width)
                 ELSE Within(frame + lag, TotalFrames)

AudibleFrames ==
    IF anchor = None \/ stream = "none" THEN {transport.position}
    ELSE {Advanced(anchor, lag) : lag \in -MaxLag .. MaxLag}

\* AudioEngine.play: from the beginning when playback is at the end.
Start ==
    IF transport.position >= TotalFrames
    THEN [transport EXCEPT !.state = "playing", !.position = 0]
    ELSE [transport EXCEPT !.state = "playing"]

Play ==
    /\ order # <<>>
    /\ transport' = Start
    /\ anchor' = None
    /\ stream' = "active"

\* toggle_playback pauses when the output stream cannot be opened, or started again.
PlayFails ==
    /\ order # <<>>
    /\ stream # "active"
    /\ transport' = [Start EXCEPT !.state = "paused"]
    /\ anchor' = None
    /\ UNCHANGED stream

\* AudioEngine.pause: at the frame that was heard last.
Pause ==
    /\ \E frame \in AudibleFrames :
         transport' = [transport EXCEPT !.state = "paused",
                                        !.position = Within(frame, TotalFrames)]
    /\ stream' = Aborted(stream)
    /\ anchor' = None

(***************************************************************************)
(* AudioEngine.stop, and then a seek if there is one: stop goes to the     *)
(* start of the selection.                                                 *)
(***************************************************************************)
StopPosition == IF Selection = None THEN 0 ELSE Within(Selection[1], TotalFrames)

StopAt(frame) ==
    /\ transport' = [transport EXCEPT !.state = "stopped", !.position = frame]
    /\ stream' = Aborted(stream)
    /\ anchor' = None

StopPlayback == StopAt(StopPosition)

\* AudioEngine.seek_seconds: the stream is stopped and started when playing; when
\* that fails the transport still says "playing".
Seek(frame) ==
    /\ transport' = [transport EXCEPT !.position = Within(frame, TotalFrames)]
    /\ anchor' = None
    /\ stream' \in IF transport.state = "playing" THEN {"active", "inactive"} ELSE {stream}

\* _set_loop
ToggleLoop ==
    /\ transport' = [transport EXCEPT !.loop = ~@]
    /\ UNCHANGED <<stream, anchor>>

(***************************************************************************)
(* A change of the project's selection while the engine plays.  A callback *)
(* that has found the selection active reads its bounds afterwards: when   *)
(* they are gone by then it raises, and PortAudio stops the stream.        *)
(***************************************************************************)
SelectionChanges(id, selected) ==
    /\ \/ UNCHANGED stream
       \/ /\ stream = "active" /\ transport.state = "playing"
          /\ LoopRegion # None /\ SelectionOf(id, selected) = None
          /\ stream' = "inactive"
    /\ UNCHANGED <<transport, anchor>>
=============================================================================
