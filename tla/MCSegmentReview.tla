--------------------------- MODULE MCSegmentReview ---------------------------
(* TLC instance of SegmentReview: two words of two phones and of one; in the    *)
(* second alignment the last phone of the first word ends a sample too late.    *)
EXTENDS SegmentReview, TLC

Segment(name, kind, from, to, parent) ==
  [id |-> <<0, name>>, kind |-> kind, from |-> from, to |-> to,
   parent |-> IF parent = 0 THEN None ELSE <<0, parent>>, model |-> <<0, name>>]
Words == {Segment(1, "word", 0, 3, 0), Segment(2, "word", 3, 5, 0)}
MCAlignment ==
  {Words \cup {Segment(3, "phone", 0, 1, 1), Segment(4, "phone", 1, 3, 1), Segment(5, "phone", 3, 5, 2)},
   Words \cup {Segment(3, "phone", 0, 2, 1), Segment(4, "phone", 2, 4, 1), Segment(5, "phone", 4, 5, 2)}}
MCSymmetry == Permutations(Editor)
=============================================================================
