--------------------------- MODULE RevisionHistory ---------------------------
(***************************************************************************)
(* What the revision store of the alignment workbench promises, with       *)
(* nothing of how PostgreSQL provides it: every recording has one          *)
(* append-only chain of revisions, and a revision joins a chain in a       *)
(* single step, only as the child of the revision the chain ends with.     *)
(*                                                                         *)
(* RecordingStore implements this specification with transactions made of  *)
(* several statements that interleave.                                     *)
(***************************************************************************)
EXTENDS Naturals, Sequences

CONSTANTS Recording,   \* recording ids
          Revision,    \* revision ids
          NoRevision   \* no revision id: the parent of a first revision

VARIABLE chain         \* chain[rec]: the history of rec, oldest revision first

Link == [id: Revision, parent: Revision \cup {NoRevision}]

(* The revision an editor has to name as parent for its save to be accepted. *)
Tip(rec) ==
  IF chain[rec] = <<>> THEN NoRevision ELSE chain[rec][Len(chain[rec])].id

Recorded(id) ==
  \E rec \in Recording : \E n \in 1..Len(chain[rec]) : chain[rec][n].id = id

Init == chain = [rec \in Recording |-> <<>>]

Commit(rec, id) ==
  /\ ~Recorded(id)
  /\ chain' = [chain EXCEPT ![rec] =
                 Append(chain[rec], [id |-> id, parent |-> Tip(rec)])]

Next == \E rec \in Recording, id \in Revision : Commit(rec, id)

Spec == Init /\ [][Next]_chain
=============================================================================
