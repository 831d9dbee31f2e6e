--------------------------- MODULE WorkbenchDatabase ---------------------------
(***************************************************************************)
(* The programs that share one database: each first makes sure that its    *)
(* libraries are published (LibraryPublication), and from then on creates  *)
(* and saves recordings that pin them (RecordingStore), one call at a time.*)
(***************************************************************************)
EXTENDS RecordingStore, LibraryPublication

ASSUME CallersArePrograms == Call = Program

databaseVars == <<vars, libraryVars>>

(* An empty database, migrated to its schema, and no program running.        *)
DatabaseInit == Init /\ LibraryInit

(* The bound of this composition: the tables of the two components are        *)
(* disjoint, so their statements commute, and only one of them is at work.    *)
LibrariesAtRest == \A p \in Program : step[p] = "idle"
StoreAtRest     == \A c \in Call : pc[c] = "idle"

(* A window, and with it an editor that saves, exists after start() returned. *)
StoreStep ==
  /\ LibrariesAtRest
  /\ \E c \in Call :
       (Start(c) /\ up[c]) \/ Statement(c) \/ RefuseContent(c) \/ LoseConnection(c) \/ Return(c)
  /\ UNCHANGED libraryVars

LibraryStep ==
  /\ StoreAtRest
  /\ LibraryNext
  /\ UNCHANGED vars

(* PostgreSQL executes the statements it is sent, and grants a lock to those  *)
(* that wait for it in the order they came: a statement that is possible      *)
(* again and again is executed.                                               *)
DatabaseSpec ==
  /\ DatabaseInit
  /\ [][StoreStep \/ LibraryStep]_databaseVars
  /\ \A c \in Call : SF_databaseVars(Statement(c) /\ UNCHANGED libraryVars)
=============================================================================
