----------------------------- MODULE EditTimeline -----------------------------
(***************************************************************************)
(* What undo and redo promise the user of an edit session: the states of   *)
(* the recording lie on a line, in the order in which they were made, and  *)
(* the session is at one of them.  An edit cuts off what lies ahead; undo  *)
(* and redo only move.                                                     *)
(*                                                                         *)
(* EditSession implements this with two stacks of states.                  *)
(***************************************************************************)
EXTENDS Naturals, Sequences

CONSTANT State

VARIABLES timeline, position

current == timeline[position]

Init == Len(timeline) = 1 /\ timeline[1] \in State /\ position = 1

Edit ==
  /\ position' = position + 1
  /\ Len(timeline') = position'
  /\ \A i \in 1..position : timeline'[i] = timeline[i]
  /\ timeline'[position'] \in State \ {current}

Undo == position > 1 /\ position' = position - 1 /\ UNCHANGED timeline
Redo == position < Len(timeline) /\ position' = position + 1 /\ UNCHANGED timeline

(* The history is dropped: on request, or with the state itself, when the *)
(* session is reloaded or its changes are discarded.                       *)
Restart == Len(timeline') = 1 /\ timeline'[1] \in State /\ position' = 1

Next == Edit \/ Undo \/ Redo \/ Restart

Spec == Init /\ [][Next]_<<timeline, position>>
=============================================================================
