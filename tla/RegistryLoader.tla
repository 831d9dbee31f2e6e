---------------------------- MODULE RegistryLoader ----------------------------
(* registry_align/registry/loader.py: a registry document becomes a list of    *)
(* entries and a list of issues.  A raw entry keeps only what the later checks *)
(* tell apart: its id, its normalised audio path, the state it describes       *)
(* (audio bytes, transcript, language, speaker, metadata) and whether its own  *)
(* fields are acceptable.  A document keeps its raw entries, whether it has a  *)
(* list of them at all, and how many issues it has as a whole (its schema      *)
(* version and its defaults).                                                  *)
EXTENDS Naturals, Sequences

\* An entry is an object with an id, a transcript, a language and the path of a
\* file under the registry, all of them non-empty strings.
WellFormed(raw) == raw.wellFormed

\* resolve_audio_path: two paths are the same when they are equal without empty
\* and "." parts, separators, case and Unicode forms put aside.
SameAudio(entry, raw) == entry.path = raw.path

\* An entry that is rejected for its own fields adds issues and is not entered
\* in the sets of ids and paths seen so far.
Duplicates(entries, raw) ==
  \E i \in DOMAIN entries : entries[i].id = raw.id \/ SameAudio(entries[i], raw)

\* One turn of the loop; a fail-fast load stops at the first issue.
LoadEntry(loaded, raw, failFast) ==
  IF loaded.stopped THEN loaded
  ELSE IF ~WellFormed(raw) \/ Duplicates(loaded.entries, raw)
       THEN [loaded EXCEPT !.issues = @ + 1, !.stopped = failFast]
       ELSE [loaded EXCEPT !.entries = Append(@, raw)]

LoadEntries(raw, issues, failFast) ==
  LET load[n \in 0..Len(raw)] ==
        IF n = 0 THEN [entries |-> <<>>, issues |-> issues, stopped |-> FALSE]
        ELSE LoadEntry(load[n - 1], raw[n], failFast)
  IN load[Len(raw)]

\* What is wrong with the document as a whole counts like an issue of an entry.
LoadRegistry(document, failFast) ==
  IF failFast /\ document.issues > 0
  THEN [entries |-> <<>>, issues |-> document.issues, stopped |-> TRUE]
  ELSE IF ~document.hasEntries THEN [entries |-> <<>>, issues |-> 1, stopped |-> TRUE]
  ELSE LoadEntries(document.entries, document.issues, failFast)

\* _validated_entries: one issue anywhere refuses the whole request, and so does
\* a selection that names an unknown id or leaves nothing.
Selected(entries, ids) ==
  IF ids = {} THEN entries ELSE SelectSeq(entries, LAMBDA e : e.id \in ids)

ValidatedEntries(document, ids) ==
  LET loaded == LoadRegistry(document, FALSE)
      known  == {loaded.entries[i].id : i \in DOMAIN loaded.entries}
  IN IF loaded.issues > 0 \/ ~(ids \subseteq known) THEN <<>>
     ELSE Selected(loaded.entries, ids)
=============================================================================
