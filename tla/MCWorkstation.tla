---------------------------- MODULE MCWorkstation ----------------------------
(* TLC instance of Workstation: one recording in the database and one that an   *)
(* import creates.                                                              *)
EXTENDS Workstation
=============================================================================
