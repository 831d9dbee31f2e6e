--------------------------- MODULE LibraryPublication ---------------------------
(***************************************************************************)
(* Annotation libraries: several programs make sure that the versions      *)
(* they are delivered with are published (application/core_library.py),    *)
(* through LibraryHandler and LibraryRepository, one transaction per call  *)
(* and one action per statement that can wait or fail.                     *)
(*                                                                         *)
(* A library is known by its namespace: its row id is only ever taken from *)
(* a list that was read before.  A version is its namespace, its label and *)
(* its content, which its SHA-256 stands for; rows are never changed.      *)
(***************************************************************************)
EXTENDS Naturals, Sequences, FiniteSets

CONSTANTS Program,    \* programs that share the database
          Namespace, Label, Content,
          Installed,  \* which bundles each program may be delivered with
          NoVersion   \* no version has been read

Version == [namespace : Namespace, label : Label, content : Content]

(* The bundles of a program are ordered; the first is the core library. *)
ASSUME InstalledAssumption == Installed \subseteq [Program -> Seq(Version) \ {<<>>}]
ASSUME NoVersionAssumption == NoVersion \notin Version

VARIABLES
  release,   \* release[p]: the bundles of program p
  libraries, \* committed rows of annotation_libraries
  versions,  \* committed rows of library_versions, with their entries
  up,        \* the programs whose start() has returned
  step,      \* the next statement of a program's ensure_publication
  item,      \* the bundle it works on
  goal,      \* the last bundle of the call
  found      \* the version the call has read or published

libraryVars == <<release, libraries, versions, up, step, item, goal, found>>

Active == {"list", "create", "commitlibrary", "relist", "versions",
           "publish", "commitversion", "reversions", "verify"}

LibraryTypeOK ==
  /\ release \in Installed
  /\ libraries \in SUBSET Namespace
  /\ versions \in SUBSET Version
  /\ up \in [Program -> BOOLEAN]
  /\ step \in [Program -> Active \cup {"idle", "refused"}]
  /\ item \in [Program -> Nat]
  /\ goal \in [Program -> Nat]
  /\ found \in [Program -> Version \cup {NoVersion}]

required(p)  == release[p][item[p]]
namespace(p) == required(p).namespace

SameLabel(v, w)    == v.namespace = w.namespace /\ v.label = w.label
SameContent(v, w)  == v.namespace = w.namespace /\ v.content = w.content
Conflicting(v, w)  == SameLabel(v, w) \/ SameContent(v, w)

(* Rows that another transaction has inserted and not committed yet. *)
NamespaceHeld(p) ==
  \E q \in Program \ {p} : step[q] = "commitlibrary" /\ namespace(q) = namespace(p)
VersionHeld(p) ==
  \E q \in Program \ {p} : step[q] = "commitversion" /\ Conflicting(required(q), required(p))

Proceed(p, next) == step' = [step EXCEPT ![p] = next]

GoOn(p, next) ==
  /\ Proceed(p, next)
  /\ UNCHANGED <<release, libraries, versions, up, item, goal, found>>

(* The call ends, by its result or by an exception. *)
Leave(p, running) ==
  /\ Proceed(p, "idle")
  /\ up' = [up EXCEPT ![p] = running]
  /\ item' = [item EXCEPT ![p] = 0]
  /\ goal' = [goal EXCEPT ![p] = 0]
  /\ found' = [found EXCEPT ![p] = NoVersion]
  /\ UNCHANGED release

-----------------------------------------------------------------------------
(* load_bundle validates the files of a bundle before the first write; an     *)
(* invalid one ends the call here.                                            *)
Ensure(p, last) ==
  /\ step[p] = "idle"
  /\ Proceed(p, "list")
  /\ item' = [item EXCEPT ![p] = 1]
  /\ goal' = [goal EXCEPT ![p] = last]
  /\ UNCHANGED <<release, libraries, versions, up, found>>

(* WorkbenchApplication.start: ensure_bundled_libraries, in their order. *)
StartProgram(p) == ~up[p] /\ Ensure(p, Len(release[p]))

(* The controller asks for the core library again: an import, or the button. *)
UseCoreLibrary(p) == up[p] /\ Ensure(p, 1)

ListLibraries(p) ==
  /\ step[p] = "list"
  /\ GoOn(p, IF namespace(p) \in libraries THEN "versions" ELSE "create")

(* LibraryRepository.create: the unique namespace waits for a transaction     *)
(* that is adding the same one; PersistenceIntegrityError makes the caller    *)
(* look again.                                                                *)
CreateLibrary(p) ==
  /\ step[p] = "create"
  /\ ~NamespaceHeld(p)
  /\ GoOn(p, IF namespace(p) \in libraries THEN "relist" ELSE "commitlibrary")

(* The commit reaches the server; its answer may be lost. *)
CommitLibrary(p) ==
  /\ step[p] = "commitlibrary"
  /\ libraries' = libraries \cup {namespace(p)}
  /\ \/ /\ Proceed(p, "versions")
        /\ UNCHANGED <<release, up, item, goal, found>>
     \/ Leave(p, up[p])
  /\ UNCHANGED versions

RelistLibraries(p) ==
  /\ step[p] = "relist"
  /\ GoOn(p, IF namespace(p) \in libraries THEN "versions" ELSE "refused")

(* The version with the required label, or the step that is left without one. *)
ReadVersions(p, otherwise) ==
  LET labelled == {v \in versions : SameLabel(v, required(p))} IN
  IF labelled # {}
  THEN /\ \E v \in labelled : found' = [found EXCEPT ![p] = v]
       /\ Proceed(p, "verify")
       /\ UNCHANGED <<release, libraries, versions, up, item, goal>>
  ELSE GoOn(p, otherwise)

(* Content that exists under another label cannot be published again. *)
ListVersions(p) ==
  /\ step[p] = "versions"
  /\ ReadVersions(p, IF \E v \in versions : SameContent(v, required(p))
                     THEN "refused" ELSE "publish")

(* Faulty variant: losing the race for the version ends the call. *)
PublishOrRefuse(p) ==
  /\ step[p] = "publish"
  /\ ~VersionHeld(p)
  /\ GoOn(p, IF \E v \in versions : Conflicting(v, required(p))
             THEN "refused" ELSE "commitversion")

(* publish_version: the version and its entries in one transaction; unique    *)
(* (library, label) and (library, content) wait and refuse as above.          *)
PublishVersion(p) ==
  /\ step[p] = "publish"
  /\ ~VersionHeld(p)
  /\ GoOn(p, IF \E v \in versions : Conflicting(v, required(p))
             THEN "reversions" ELSE "commitversion")

CommitVersion(p) ==
  /\ step[p] = "commitversion"
  /\ versions' = versions \cup {required(p)}
  /\ \/ /\ Proceed(p, "verify")
        /\ found' = [found EXCEPT ![p] = required(p)]
        /\ UNCHANGED <<release, up, item, goal>>
     \/ Leave(p, up[p])
  /\ UNCHANGED libraries

RelistVersions(p) ==
  /\ step[p] = "reversions"
  /\ ReadVersions(p, "refused")

(* The next bundle, or the end of the call; a start that ends has started. *)
Ensured(p) ==
  IF item[p] < goal[p]
  THEN /\ Proceed(p, "list")
       /\ item' = [item EXCEPT ![p] = @ + 1]
       /\ found' = [found EXCEPT ![p] = NoVersion]
       /\ UNCHANGED <<release, libraries, versions, up, goal>>
  ELSE Leave(p, TRUE) /\ UNCHANGED <<libraries, versions>>

(* Faulty variant: a version with the right label is taken as it is. *)
VerifyNothing(p) == step[p] = "verify" /\ Ensured(p)

(* What is published under the label must be what the program expects. *)
VerifyContent(p) ==
  /\ step[p] = "verify"
  /\ IF found[p].content = required(p).content
     THEN Ensured(p)
     ELSE GoOn(p, "refused")

(* DatabaseUnavailableError, which no step of ensure_publication handles. *)
LoseDatabase(p) ==
  /\ step[p] \in Active
  /\ Leave(p, up[p])
  /\ UNCHANGED <<libraries, versions>>

(* WorkbenchStartupError is shown, and a program that was starting ends. *)
ReportRefusal(p) ==
  /\ step[p] = "refused"
  /\ Leave(p, up[p])
  /\ UNCHANGED <<libraries, versions>>

(* The program is closed or dies; its transaction is rolled back. *)
EndProgram(p) ==
  /\ up[p]
  /\ Leave(p, FALSE)
  /\ UNCHANGED <<libraries, versions>>

LibraryInit ==
  /\ release \in Installed
  /\ libraries = {}
  /\ versions = {}
  /\ up = [p \in Program |-> FALSE]
  /\ step = [p \in Program |-> "idle"]
  /\ item = [p \in Program |-> 0]
  /\ goal = [p \in Program |-> 0]
  /\ found = [p \in Program |-> NoVersion]

LibraryNext == \E p \in Program :
  \/ StartProgram(p) \/ UseCoreLibrary(p)
  \/ ListLibraries(p) \/ CreateLibrary(p) \/ CommitLibrary(p) \/ RelistLibraries(p)
  \/ ListVersions(p) \/ PublishVersion(p) \/ CommitVersion(p) \/ RelistVersions(p)
  \/ VerifyContent(p) \/ LoseDatabase(p) \/ ReportRefusal(p) \/ EndProgram(p)

-----------------------------------------------------------------------------
(* A program that runs has every version it is delivered with in the          *)
(* database, with exactly its content, whoever published it and however many  *)
(* programs, of this or of another release, started at the same time or died  *)
(* half way: what an editor pins is what the store holds.                     *)
(* (core_library.ensure_publication)                                          *)
RequiredIsPublished ==
  \A p \in Program : up[p] => \A i \in DOMAIN release[p] : release[p][i] \in versions

(* A program is only refused its libraries when the database really holds     *)
(* something else: other content under its label, or its content under        *)
(* another label.  Losing a race to a program with the same bundles, or       *)
(* finding what an earlier start left half done, is no reason.                *)
(* (core_library.ensure_publication)                                          *)
LibraryRefusalIsGenuine ==
  \A p \in Program : step[p] = "refused" =>
    \E v \in versions : Conflicting(v, required(p)) /\ v # required(p)
=============================================================================
