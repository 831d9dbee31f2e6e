-------------------------- MODULE RecordingsBrowser --------------------------
(* gui/recordings_browser.py with gui/recording_discovery.py: the metadata of   *)
(* selected recordings is edited in one worker call, which opens, compares,     *)
(* saves and closes a session of its own for each of them.  The browser keeps   *)
(* the revisions its list showed: a list may be old.                            *)
EXTENDS WorkbenchService

CONSTANTS MaxSelected \* bound: recordings edited together

VARIABLE browser \* the call under way: what is left of it, and its session

Update == [rec : Recordings, listed : Revision \ {0}]
Idle == [saving |-> FALSE, updates |-> {}, session |-> None]

BrowserTypeOK ==
  browser \in [saving : BOOLEAN, updates : SUBSET Update, session : Session \cup {None}]
BrowserInit == browser = Idle

\* What a list read at some time may show of the recordings.
Listings ==
  {u \in SUBSET Update :
     /\ u # {} /\ Cardinality(u) <= MaxSelected
     /\ \A x \in u : x.listed <= head[x.rec]
     /\ \A x, y \in u : x.rec = y.rec => x = y}

\* _edit(): the values are captured on the GUI thread, when the dialog is accepted.
EditMetadata ==
  /\ ~browser.saving
  /\ \E u \in Listings : browser' = [saving |-> TRUE, updates |-> u, session |-> None]

\* The call ends with its last update.
Done(u) == LET rest == browser.updates \ {u} IN
  IF rest = {} THEN Idle ELSE [saving |-> TRUE, updates |-> rest, session |-> None]

\* A recording that cannot be opened, or has changed since it was listed, is
\* reported and left alone.
BrowserOpens ==
  /\ browser.saving /\ browser.session = None
  /\ \E u \in browser.updates : \E o \in OpenOutcomes(u.rec) :
       browser' =
         IF o.answer = "opened" /\ o.session.base = u.listed
         THEN [browser EXCEPT !.session = [o.session EXCEPT !.dirty = TRUE]]
         ELSE Done(u)
  /\ UNCHANGED serviceVars

\* Saved or not, the session is closed and its changes discarded.
BrowserSaves ==
  /\ browser.session # None
  /\ \E u \in browser.updates : \E o \in SaveOutcomes(browser.session) :
       /\ u.rec = browser.session.rec
       /\ Performed(u.rec, o)
       /\ browser' = Done(u)
=============================================================================
