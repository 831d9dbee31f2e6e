---------------------------- MODULE MCSaveRecovery ----------------------------
(* TLC instances of SaveRecovery. *)
EXTENDS SaveRecovery, TLC

Symmetry == Permutations(Client) \cup Permutations(Recording)
            \cup Permutations(Operation)
=============================================================================
