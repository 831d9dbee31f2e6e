---------------------------- MODULE MCPlayground ----------------------------
(* TLC instance of Playground: the tracks are interchangeable.             *)
EXTENDS Playground

Symmetry == Permutations(TrackId)
=============================================================================
