---------------------------- MODULE MCEditSession ----------------------------
(* TLC instances of EditSession. *)
EXTENDS EditSession

CONSTANTS a1, l1, l2, n1, n2

(* A recording that somebody has annotated already. *)
Annotated == {[name |-> n1, libraries |-> <<l2, l1>>,
               annotations |-> <<[id |-> a1, library |-> l2]>>]}

(* A bound on the states explored: with three revisions in use, no second name, and
   histories of one edit, or of none while a request is on file. *)
TwoRevisionsFirst ==
  Cardinality({r \in Revision : contents[r] /= NoContent}) = 3 =>
    /\ Len(undo) + Len(redo) <= IF pending \cup conflicts = {} THEN 1 ELSE 0
    /\ state.name = n1

Symmetry == Permutations(Revision)
=============================================================================
