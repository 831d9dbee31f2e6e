---------------------------- MODULE AudioEditing ----------------------------
(***************************************************************************)
(* Editing the audio of one track of the spectrogram playground, from      *)
(* spectrogram_playground/audio/editing.py and model/track.py.  Times are  *)
(* counted in frames.  A track is its samples and the frames between which *)
(* it is trimmed; the samples prepared for analysis are cut at the same    *)
(* times as those that are played, and are left out.                       *)
(***************************************************************************)
EXTENDS Integers, Sequences

Least(a, b) == IF a < b THEN a ELSE b

Greatest(a, b) == IF a > b THEN a ELSE b

\* A time brought into the interval from 0 to the given duration.
Within(time, duration) == Least(Greatest(0, time), duration)

\* A track as it is created, and as an edit leaves it: with no trim.
Untrimmed(samples) == [samples |-> samples, first |-> 0, last |-> Len(samples)]

\* What is played and drawn of a track.
PlaybackView(track) == SubSeq(track.samples, track.first + 1, track.last)

Duration(track) == track.last - track.first

(***************************************************************************)
(* The first frame of a region of a view and the first frame after it.     *)
(***************************************************************************)
Bounds(start, end, length) ==
    LET first == Within(Least(start, end), length)
    IN  <<first, Least(length, Greatest(first, Greatest(start, end)))>>

\* copy_region refuses a region that holds no audio of the track.
HasRegion(track, start, end) ==
    LET bounds == Bounds(start, end, Duration(track))
    IN  bounds[1] < bounds[2]

CopyRegion(track, start, end) ==
    LET bounds == Bounds(start, end, Duration(track))
    IN  SubSeq(PlaybackView(track), bounds[1] + 1, bounds[2])

\* delete_region keeps what is in the view on both sides of the region.
DeleteRegion(track, start, end) ==
    LET bounds == Bounds(start, end, Duration(track))
        view == PlaybackView(track)
    IN  Untrimmed(SubSeq(view, 1, bounds[1]) \o SubSeq(view, bounds[2] + 1, Len(view)))

\* The whole of a track cannot be deleted.
CanDelete(track, start, end) ==
    /\ HasRegion(track, start, end)
    /\ DeleteRegion(track, start, end).samples # <<>>

PasteClip(track, position, clip) ==
    LET first == Within(position, Duration(track))
        view == PlaybackView(track)
    IN  Untrimmed(SubSeq(view, 1, first) \o clip \o SubSeq(view, first + 1, Len(view)))

(***************************************************************************)
(* move_region: nothing is moved when the destination is in the region;    *)
(* otherwise the track after the move, and where the region is now.        *)
(***************************************************************************)
MoveRegion(track, start, end, destination) ==
    LET bounds == Bounds(start, end, Duration(track))
        width  == bounds[2] - bounds[1]
        target == Within(destination, Duration(track))
        place  == IF target > bounds[2] THEN target - width ELSE target
    IN  IF target \in bounds[1] .. bounds[2]
        THEN [track |-> track, region |-> bounds]
        ELSE [track  |-> PasteClip(DeleteRegion(track, start, end), place,
                                   CopyRegion(track, start, end)),
              region |-> <<place, place + width>>]

\* trim keeps at least one frame.
CanTrim(track, start, end) ==
    Within(start, Duration(track)) < Within(end, Duration(track))

\* trim: a region of the present view becomes the view.
Trimmed(track, start, end) ==
    [track EXCEPT !.first = track.first + Within(start, Duration(track)),
                  !.last  = track.first + Within(end, Duration(track))]
=============================================================================
