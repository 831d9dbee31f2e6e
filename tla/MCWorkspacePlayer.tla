--------------------------- MODULE MCWorkspacePlayer ---------------------------
(* Two recordings, of one frame and of two. *)
EXTENDS WorkspacePlayer

CONSTANTS t1, t2

Lengths == (t1 :> 1) @@ (t2 :> 2)
=============================================================================
