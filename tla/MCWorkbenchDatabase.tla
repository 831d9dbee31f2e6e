-------------------------- MODULE MCWorkbenchDatabase --------------------------
(* TLC instance of WorkbenchDatabase: two programs of one release, or of two  *)
(* releases that disagree on the second library.                              *)
EXTENDS WorkbenchDatabase

CONSTANTS c1, c2

MCProgram == {c1, c2}

Published(n, l, x) == [namespace |-> n, label |-> l, content |-> x]

This      == <<Published("core", "0.1", "words"), Published("phonetics", "0.1", "ipa")>>
Rewritten == <<Published("core", "0.1", "words"), Published("phonetics", "0.1", "ipa with tones")>>
Renamed   == <<Published("core", "0.1", "words"), Published("phonetics", "0.2", "ipa")>>

MCInstalled ==
  {[p \in Program |-> IF p = c1 THEN This ELSE other] : other \in {This, Rewritten, Renamed}}
=============================================================================
