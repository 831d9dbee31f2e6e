---------------------------- MODULE AlignmentStore ----------------------------
(* registry_align/storage/postgres.py over storage/tables.py: the transactions  *)
(* of the registry aligner.  A version is a recording and the state of its      *)
(* content, unique together; an alignment is a version and the fingerprint of   *)
(* the processing, unique together.  Each operator ending in Tx is the effect   *)
(* of one committed unit of work on the tables.                                 *)
EXTENDS Naturals, Sequences, FiniteSets

CONSTANTS Recording, \* logical recordings
          Content,   \* content fingerprints: audio, transcript, language, speaker
          Profile,   \* processing fingerprints: backend, normalizer, preparation
          Run,       \* runs of the pipeline
          None       \* a missing version, alignment or owner

VARIABLES versions,  \* recording_versions: pairs of a recording and a content
          current,   \* recordings.current_version_id
          published, \* recording_versions.current_alignment_result_id
          alignment, \* alignment_results with their segments
          runs,      \* runs and run_items
          started    \* the runs in the order of started_at

storeVars == <<versions, current, published, alignment, runs, started>>

Version == Recording \X Content
Outcomes == {"skipped", "unchanged", "version-created", "alignment-reused",
             "processed", "failed"}
NoItem == [outcome |-> "none", content |-> None]
Item == [outcome : Outcomes, content : Content \cup {None}] \cup {NoItem}
NoAlignment == [status |-> "none", owner |-> None, leased |-> FALSE, segments |-> FALSE]

StoreTypeOK ==
  /\ versions \subseteq Version
  /\ current \in [Recording -> Content \cup {None}]
  /\ published \in [Version -> Profile \cup {None}]
  /\ alignment \in [Version \X Profile ->
                      [status : {"none", "running", "complete", "failed"},
                       owner : Run \cup {None}, leased : BOOLEAN, segments : BOOLEAN]]
  /\ runs \in [Run -> [status : {"none", "running", "complete", "partial", "failed", "pruned"},
                       item : [Recording -> Item]]]
  /\ started \in Seq(Run)

StoreInit ==
  /\ versions = {}
  /\ current = [x \in Recording |-> None]
  /\ published = [v \in Version |-> None]
  /\ alignment = [k \in Version \X Profile |-> NoAlignment]
  /\ runs = [r \in Run |-> [status |-> "none", item |-> [x \in Recording |-> NoItem]]]
  /\ started = <<>>

Existing(ids) == {x \in ids : current[x] # None}

StartRunTx(r) ==
  /\ runs' = [runs EXCEPT ![r].status = "running"]
  /\ started' = Append(started, r)

SaveItemTx(r, x, outcome, content) ==
  runs' = [runs EXCEPT ![r].item[x] = [outcome |-> outcome, content |-> content]]

\* What ingest_version answers, under the advisory lock of the recording.
Ingested(x, c, overwrite) ==
  IF current[x] # None /\ ~overwrite THEN "skipped"
  ELSE IF <<x, c>> \in versions THEN "unchanged" ELSE "created"

IngestTx(x, c, overwrite) ==
  IF Ingested(x, c, overwrite) = "created"
  THEN versions' = versions \cup {<<x, c>>} /\ current' = [current EXCEPT ![x] = c]
  ELSE UNCHANGED <<versions, current>>

\* What claim_alignment answers about the row of its version and profile.
Claimed(k) ==
  CASE alignment[k].status = "complete"                       -> "complete"
    [] alignment[k].status = "running" /\ alignment[k].leased -> "busy"
    [] OTHER                                                  -> "claimed"

ClaimTx(k, r) ==
  IF Claimed(k) = "claimed"
  THEN alignment' = [alignment EXCEPT ![k].status = "running", ![k].owner = r, ![k].leased = TRUE]
  ELSE UNCHANGED alignment

\* (A failure that is recorded whatever the status.)
FailRegardless(k) ==
  alignment' = [alignment EXCEPT ![k].status = "failed", ![k].leased = FALSE]

\* complete_alignment: the segments are unique for their alignment; the status
\* changes only while it is running; the version points here in every case.
CompleteTx(k) ==
  /\ ~alignment[k].segments
  /\ alignment' = [alignment EXCEPT
       ![k].segments = TRUE,
       ![k].status = IF @ = "running" THEN "complete" ELSE @,
       ![k].leased = IF alignment[k].status = "running" THEN FALSE ELSE @]
  /\ published' = [published EXCEPT ![k[1]] = k[2]]

\* fail_alignment: only work that is running can fail.
FailTx(k) ==
  alignment' = [alignment EXCEPT
    ![k].status = IF @ = "running" THEN "failed" ELSE @,
    ![k].leased = IF alignment[k].status = "running" THEN FALSE ELSE @]

FinishRunTx(r, status) == runs' = [runs EXCEPT ![r].status = status]

\* process_entries finds every recording there: one unit of work for the run.
SkipAllTx(r, ids) ==
  /\ started' = Append(started, r)
  /\ runs' = [runs EXCEPT ![r] =
       [status |-> "complete",
        item |-> [x \in Recording |->
                    IF x \in ids THEN [outcome |-> "skipped", content |-> None] ELSE NoItem]]]

\* prune_runs: of the runs that ended, newest first, the first `keep` stay and
\* of the others those older than their limit go.  The clock decides how many
\* of the oldest runs are past the limit of a failed run and of another run.
EndedRuns == {i \in DOMAIN started : runs[started[i]].status \in {"complete", "partial", "failed"}}
Newer(i) == {j \in EndedRuns : j > i}
Expired(i, old, oldFailed) == i <= IF runs[started[i]].status = "failed" THEN oldFailed ELSE old
Prunable(keep, old, oldFailed) ==
  {started[i] : i \in {j \in EndedRuns : Cardinality(Newer(j)) >= keep /\ Expired(j, old, oldFailed)}}

PruneTx(gone) ==
  runs' = [r \in Run |-> IF r \in gone
                         THEN [status |-> "pruned", item |-> [x \in Recording |-> NoItem]]
                         ELSE runs[r]]

\* effective_segments: what a reader of the corpus sees of a recording.
Effective(x) ==
  /\ current[x] # None
  /\ published[<<x, current[x]>>] # None
  /\ alignment[<<<<x, current[x]>>, published[<<x, current[x]>>]>>].status = "complete"
=============================================================================
