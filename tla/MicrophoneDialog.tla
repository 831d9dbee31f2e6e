-------------------------- MODULE MicrophoneDialog --------------------------
(* gui/microphone.py: the dialog that records a take.  The take is kept in the  *)
(* dialog until an import has stored it or the user gives it up; while it is    *)
(* being saved the dialog takes no input.  The editor that imports the take is  *)
(* made for the first attempt and used again for the others.                    *)
CONSTANTS Editors, None

VARIABLE mic \* the dialog, or its absence

States == {"closed", "ready", "capturing", "take", "saving", "finished"}
NoDialog == [state |-> "closed", editor |-> None]

MicTypeOK == mic \in [state : States, editor : Editors \cup {None}]
MicInit == mic = NoDialog

MicOpens == mic' = [NoDialog EXCEPT !.state = "ready"]

\* start(): a new take replaces the one before, also when the device fails.
MicStarts ==
  /\ mic.state \in {"ready", "take"}
  /\ \E s \in {"capturing", "ready"} : mic' = [mic EXCEPT !.state = s]

\* stop(), or a failure of _read(): there is a take if there are frames.
MicStops ==
  /\ mic.state = "capturing"
  /\ \E s \in {"take", "ready"} : mic' = [mic EXCEPT !.state = s]

MicAdds(e) ==
  /\ mic.state = "take"
  /\ mic' = [state |-> "saving", editor |-> e]

\* reject() is refused while the take is being saved.
MicRejects ==
  /\ mic.state \in {"ready", "capturing", "take"}
  /\ mic' = [mic EXCEPT !.state = "finished"]

\* import_finished(): accept() with the take stored, set_saving(False) otherwise.
ImportFinished(e, stored) ==
  mic' = IF mic.state = "saving" /\ mic.editor = e
         THEN [mic EXCEPT !.state = IF stored THEN "finished" ELSE "take"]
         ELSE mic

MicReturns == mic.state = "finished" /\ mic' = NoDialog
=============================================================================
