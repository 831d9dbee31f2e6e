-------------------------- MODULE AlignmentPipeline --------------------------
(* registry_align/pipeline/service.py: AlignmentService.process_entries, run by *)
(* several processes over one database and one audio server.  A run prepares    *)
(* and uploads audio in batches, ingests its entries one by one, aligns the     *)
(* versions it created outside any transaction, and imports the results.  Its   *)
(* process may die at any point; a transaction may fail, or be committed while  *)
(* its answer is lost.                                                          *)
EXTENDS AlignmentStore, RegistryLoader, RemoteAudio

CONSTANTS AudioOf,            \* the bytes of each content
          Documents,          \* the registries that may be processed
          BatchSize, UploadWorkers, MinimumRuns,
          ContinueOnError     \* a set: what the configuration of a process may say

VARIABLES worker

\* A run hands its entries over in numbered batches.
BatchNumber == 1..Cardinality(Recording)
ASSUME BatchAssumption == Batch = Run \X BatchNumber
ASSUME AudioOfAssumption == AudioOf \in [Content -> Audio]

\* The raw entries of the documents; a row that names nothing has a NULL.
RawEntry == UNION {{d.entries[i] : i \in DOMAIN d.entries} : d \in Documents}
ASSUME DocumentsAssumption ==
  /\ Documents \subseteq [hasEntries : BOOLEAN, issues : Nat, entries : Seq(RawEntry)]
  /\ \A e \in RawEntry : e.id \in Recording /\ e.content \in Content
ASSUME ContinueAssumption == ContinueOnError \subseteq BOOLEAN
ASSUME NoneAssumption == None \notin Recording \cup Content \cup Profile \cup Run

vars == <<storeVars, audioVars, worker>>

\* A worker: where it is, its request, the recordings that existed when its run
\* started, the entries whose audio was prepared (then: uploaded), the entry it is at,
\* what it is about to note of it, the jobs for the backend and those of them
\* that came back with segments.  `unheard` is no variable of the program: the
\* entries whose import was committed while its answer was lost.
Idle == [at |-> "idle", entries |-> <<>>, overwrite |-> FALSE, profile |-> None, continues |-> TRUE,
         known |-> {}, ready |-> {}, next |-> 1, found |-> NoItem,
         jobs |-> <<>>, aligned |-> {}, unheard |-> {}, aborted |-> FALSE]

Places == {"idle", "check", "skip", "doctor", "start", "prepare", "upload", "entry",
           "claim", "note", "align", "import", "fail", "finish", "done", "refused", "crashed"}

WorkerState ==
  [at : Places, entries : Seq(RawEntry), overwrite : BOOLEAN, profile : Profile \cup {None},
   continues : BOOLEAN, known : SUBSET Recording, ready : SUBSET Recording, next : Nat,
   found : Item, jobs : Seq(RawEntry), aligned : SUBSET Recording, unheard : SUBSET Recording,
   aborted : BOOLEAN]

TypeOK == StoreTypeOK /\ AudioTypeOK /\ worker \in [Run -> WorkerState]

Init == StoreInit /\ AudioInit /\ worker = [r \in Run |-> Idle]

-----------------------------------------------------------------------------
in(r, place) == worker[r].at = place
Running(r) == worker[r].at \notin {"idle", "done", "refused", "crashed"}
HasRow(r) == Running(r) /\ ~(worker[r].at \in {"check", "skip", "doctor", "start"})
move(r, place) == worker' = [worker EXCEPT ![r].at = place]
leave(r, place) ==
  worker' = [worker EXCEPT ![r] = [Idle EXCEPT !.at = place, !.entries = worker[r].entries,
                                               !.unheard = worker[r].unheard]]

Ids(r) == {worker[r].entries[i].id : i \in DOMAIN worker[r].entries}
entry(r) == worker[r].entries[worker[r].next]
audio(e) == AudioOf[e.content]
job(r) == worker[r].jobs[worker[r].next]
Key(r, e) == <<<<e.id, e.content>>, worker[r].profile>>

\* The entries whose audio is prepared and uploaded: their positions, cut in
\* batches in the order of the registry.
Candidates(r) ==
  {i \in DOMAIN worker[r].entries :
     worker[r].overwrite \/ worker[r].entries[i].id \notin worker[r].known}
InBatch(ready, n) ==
  {i \in ready : Cardinality({j \in ready : j < i}) \div BatchSize = n - 1}
Prepared(r, good) == {i \in Candidates(r) : worker[r].entries[i].id \in good}
BatchEntries(r, n) ==
  {worker[r].entries[i] : i \in InBatch(Prepared(r, worker[r].ready), n)}
Uploaded(r, e) == e.id \in worker[r].ready
Known(r, e) == e.id \in worker[r].known /\ ~worker[r].overwrite

-----------------------------------------------------------------------------
\* process: the registry is validated before anything is opened.
Request(r, d, overwrite, p, continues) ==
  /\ in(r, "idle")
  /\ LET entries == ValidatedEntries(d, {})
     IN worker' = [worker EXCEPT ![r] =
          [Idle EXCEPT !.at = IF entries = <<>> THEN "refused"
                              ELSE IF overwrite THEN "doctor" ELSE "check",
                       !.entries = entries, !.overwrite = overwrite, !.profile = p,
                       !.continues = continues]]
  /\ UNCHANGED <<storeVars, audioVars>>

CheckExisting(r) ==
  /\ in(r, "check")
  /\ move(r, IF Existing(Ids(r)) = Ids(r) THEN "skip" ELSE "doctor")
  /\ UNCHANGED <<storeVars, audioVars>>

CompleteAllSkipped(r) ==
  /\ in(r, "skip")
  /\ SkipAllTx(r, Ids(r))
  /\ leave(r, "done")
  /\ UNCHANGED <<versions, current, published, alignment, audioVars>>

\* The backend must be usable before a run is opened.
Doctor(r) ==
  /\ in(r, "doctor")
  /\ \E place \in {"start", "refused"} : move(r, place)
  /\ UNCHANGED <<storeVars, audioVars>>

StartRun(r) ==
  /\ in(r, "start")
  /\ StartRunTx(r)
  /\ worker' = [worker EXCEPT ![r].known = Existing(Ids(r)), ![r].at = "prepare"]
  /\ UNCHANGED <<versions, current, published, alignment, audioVars>>

\* probe_audio: FFprobe accepts the audio of any of the entries, or refuses it, or
\* takes too long.
Probed(r) == SUBSET {worker[r].entries[i].id : i \in Candidates(r)}

\* _prepare_and_upload: entries that fail to decode are set aside, the others
\* are handed to the upload threads batch by batch.
Prepare(r) ==
  /\ in(r, "prepare")
  /\ \E good \in Probed(r) :
       LET ready == Prepared(r, good)
       IN /\ worker' = [worker EXCEPT ![r].ready = good, ![r].at = "upload"]
          /\ batch' = [b \in Batch |->
               IF b[1] = r /\ InBatch(ready, b[2]) # {}
               THEN [at |-> "queued", missing |-> {},
                     wants |-> {audio(worker[r].entries[i]) : i \in InBatch(ready, b[2])}]
               ELSE batch[b]]
  /\ UNCHANGED <<storeVars, objects, staging>>

\* The executor runs at most UploadWorkers calls of ensure_many of a run.
UploadStep(r) ==
  /\ in(r, "upload")
  /\ \E b \in {r} \X BatchNumber :
       \/ /\ Cardinality({c \in {r} \X BatchNumber : Busy(c)}) < UploadWorkers
          /\ Refuse(b) \/ Preflight(b)
       \/ Upload(b)
  /\ UNCHANGED <<storeVars, worker>>

\* (A wait for success, and one that takes the end of a thread for success.)
AwaitStored(r) ==
  /\ in(r, "upload")
  /\ \A b \in {r} \X BatchNumber : At(b, "stored") \/ At(b, "none")
  /\ worker' = [worker EXCEPT ![r].at = "entry"]
  /\ batch' = [b \in Batch |-> IF b[1] = r THEN NoBatch ELSE batch[b]]
  /\ UNCHANGED <<storeVars, objects, staging>>

AwaitEnds(r) ==
  /\ in(r, "upload")
  /\ \A b \in {r} \X BatchNumber : Ended(b)
  /\ worker' = [worker EXCEPT ![r].at = "entry"]
  /\ batch' = [b \in Batch |-> IF b[1] = r THEN NoBatch ELSE batch[b]]
  /\ UNCHANGED <<storeVars, objects, staging>>

AwaitUploads(r) ==
  /\ in(r, "upload")
  /\ \A b \in {r} \X BatchNumber : Ended(b)
  /\ worker' = [worker EXCEPT
       ![r].ready = {e.id : e \in UNION {BatchEntries(r, n) :
                                         n \in {m \in BatchNumber : At(<<r, m>>, "stored")}}},
       ![r].at = "entry"]
  /\ batch' = [b \in Batch |-> IF b[1] = r THEN NoBatch ELSE batch[b]]
  /\ UNCHANGED <<storeVars, objects, staging>>

-----------------------------------------------------------------------------
\* The loop over the entries.  After the last one the backend is called if any
\* version was created.
Next1(w) ==
  IF w.next < Len(w.entries) THEN [w EXCEPT !.next = @ + 1, !.at = "entry", !.found = NoItem]
  ELSE [Idle EXCEPT !.entries = w.entries, !.profile = w.profile, !.jobs = w.jobs,
                    !.at = IF w.jobs = <<>> THEN "finish" ELSE "align"]
advance(r) == worker' = [worker EXCEPT ![r] = Next1(worker[r])]

SkipEntry(r) ==
  /\ in(r, "entry")
  /\ \/ worker[r].aborted /\ SaveItemTx(r, entry(r).id, "failed", None)
     \/ /\ ~worker[r].aborted /\ Known(r, entry(r))
        /\ SaveItemTx(r, entry(r).id, "skipped", None)
  /\ advance(r)
  /\ UNCHANGED <<versions, current, published, alignment, started, audioVars>>

Attempted(r) ==
  \/ in(r, "entry") /\ ~worker[r].aborted /\ ~Known(r, entry(r))
  \/ in(r, "claim") \/ in(r, "note")

Ingest(r) ==
  /\ in(r, "entry") /\ Attempted(r) /\ Uploaded(r, entry(r))
  /\ LET e == entry(r)
         state == Ingested(e.id, e.content, worker[r].overwrite)
     IN /\ IngestTx(e.id, e.content, worker[r].overwrite)
        /\ worker' = [worker EXCEPT
             ![r].at = IF state = "created" THEN "claim" ELSE "note",
             ![r].found = [outcome |-> IF state = "created" THEN "version-created" ELSE state,
                           content |-> IF state = "skipped" THEN None ELSE e.content]]
  /\ UNCHANGED <<published, alignment, runs, started, audioVars>>

Claim(r) ==
  /\ in(r, "claim")
  /\ LET e == entry(r)
         claimed == Claimed(Key(r, e)) = "claimed"
     IN /\ ClaimTx(Key(r, e), r)
        /\ worker' = [worker EXCEPT
             ![r].at = "note",
             ![r].jobs = IF claimed THEN Append(@, e) ELSE @,
             ![r].found.outcome = IF claimed THEN "version-created" ELSE "alignment-reused"]
  /\ UNCHANGED <<versions, current, published, runs, started, audioVars>>

Note(r) ==
  /\ in(r, "note")
  /\ SaveItemTx(r, entry(r).id, worker[r].found.outcome, worker[r].found.content)
  /\ advance(r)
  /\ UNCHANGED <<versions, current, published, alignment, started, audioVars>>

\* The entry ends in an expected error: its audio was not prepared or uploaded,
\* or a transaction failed.  A lost answer leaves the transaction committed.
Committed(r) ==
  \/ UNCHANGED <<versions, current, alignment>>
  \/ /\ in(r, "entry") /\ Uploaded(r, entry(r))
     /\ IngestTx(entry(r).id, entry(r).content, worker[r].overwrite)
     /\ UNCHANGED alignment
  \/ /\ in(r, "claim")
     /\ ClaimTx(Key(r, entry(r)), r)
     /\ UNCHANGED <<versions, current>>

FailEntry(r) ==
  /\ Attempted(r)
  /\ Committed(r)
  /\ SaveItemTx(r, entry(r).id, "failed", None)
  /\ worker' = [worker EXCEPT
       ![r] = Next1([worker[r] EXCEPT !.aborted = ~worker[r].continues])]
  /\ UNCHANGED <<published, started, audioVars>>

-----------------------------------------------------------------------------
\* stage_jobs: every job has a file of its own in the corpus.
Staged(r) == {worker[r].jobs[i].id : i \in DOMAIN worker[r].jobs}

\* parse_results: the backend wrote an output for any of the jobs; one that cannot
\* be parsed, or exceeds its audio, raises and leaves all of them without segments.
Parsed(r) == SUBSET Staged(r)

\* (A backend error that ends the loop over the jobs.)
AlignOrStop(r) ==
  /\ in(r, "align")
  /\ \E got \in Parsed(r) :
       worker' = [worker EXCEPT ![r].aligned = got,
                                ![r].at = IF got = {} THEN "finish" ELSE "import"]
  /\ UNCHANGED <<storeVars, audioVars>>

\* MfaBackend.align, outside any transaction: an error stands for no job having
\* segments, otherwise each job came back with or without them.
Align(r) ==
  /\ in(r, "align")
  /\ \E got \in Parsed(r) :
       worker' = [worker EXCEPT ![r].aligned = got, ![r].at = "import"]
  /\ UNCHANGED <<storeVars, audioVars>>

NextJob(r) ==
  worker' = [worker EXCEPT
    ![r].at = IF worker[r].next < Len(worker[r].jobs) THEN "import" ELSE "finish",
    ![r].next = IF worker[r].next < Len(worker[r].jobs) THEN @ + 1 ELSE @]

\* The version named by the item is the one noted before the alignment.  The
\* answer to the commit may be lost: the import took place, and for its run it failed.
ImportJob(r) ==
  /\ in(r, "import") /\ job(r).id \in worker[r].aligned
  /\ CompleteTx(Key(r, job(r)))
  /\ SaveItemTx(r, job(r).id, "processed", runs[r].item[job(r).id].content)
  /\ \/ NextJob(r)
     \/ worker' = [worker EXCEPT ![r].at = "fail", ![r].unheard = @ \cup {job(r).id}]
  /\ UNCHANGED <<versions, current, started, audioVars>>

\* No segments, or the import failed or was not answered: another transaction
\* records the failure.
FailJob(r) ==
  /\ in(r, "import") \/ in(r, "fail")
  /\ FailTx(Key(r, job(r)))
  /\ SaveItemTx(r, job(r).id, "failed", runs[r].item[job(r).id].content)
  /\ NextJob(r)
  /\ UNCHANGED <<versions, current, published, started, audioVars>>

RunStatus(r) ==
  LET failures == {x \in Ids(r) : runs[r].item[x].outcome = "failed"}
  IN IF failures = Ids(r) THEN "failed" ELSE IF failures = {} THEN "complete" ELSE "partial"

FinishRun(r) ==
  /\ in(r, "finish")
  /\ FinishRunTx(r, RunStatus(r))
  /\ leave(r, "done")
  /\ UNCHANGED <<versions, current, published, alignment, started, audioVars>>

-----------------------------------------------------------------------------
\* The process dies, or meets an error it does not expect: its upload threads
\* go with it, its rows stay as they are.
Crash(r) ==
  /\ Running(r)
  /\ leave(r, "crashed")
  /\ batch' = [b \in Batch |-> IF b[1] = r THEN NoBatch ELSE batch[b]]
  /\ staging' = {f \in staging : f.batch[1] # r}
  /\ UNCHANGED <<storeVars, objects>>

\* The lease is given once, when the claim is made; nothing renews it.
LeaseExpires ==
  /\ \E k \in Version \X Profile :
       alignment[k].leased /\ alignment' = [alignment EXCEPT ![k].leased = FALSE]
  /\ UNCHANGED <<versions, current, published, runs, started, audioVars, worker>>

PruneRuns ==
  /\ \E old, oldFailed \in 0..Len(started) :
       LET gone == Prunable(MinimumRuns, old, oldFailed)
       IN gone # {} /\ PruneTx(gone)
  /\ UNCHANGED <<versions, current, published, alignment, started, audioVars, worker>>

Work(r) ==
  \/ CheckExisting(r) \/ CompleteAllSkipped(r) \/ Doctor(r) \/ StartRun(r)
  \/ Prepare(r) \/ UploadStep(r) \/ AwaitUploads(r)
  \/ SkipEntry(r) \/ Ingest(r) \/ Claim(r) \/ Note(r) \/ FailEntry(r)
  \/ Align(r) \/ ImportJob(r) \/ FailJob(r) \/ FinishRun(r)

Next ==
  \/ \E r \in Run : Work(r) \/ Crash(r)
  \/ \E r \in Run, d \in Documents, overwrite \in BOOLEAN,
        p \in Profile, continues \in ContinueOnError : Request(r, d, overwrite, p, continues)
  \/ LeaseExpires
  \/ PruneRuns

Spec == Init /\ [][Next]_vars

-----------------------------------------------------------------------------
\* fetch_audio: the audio asset that a version names is there and undamaged.
FetchAudio(v) == Fetchable(AudioOf[v[2]])

\* The database never names audio that the server does not hold whole: the
\* upload of a batch is verified before any entry of it is ingested, and no
\* failure, crash or other run takes an object away (fetch_audio relies on it).
VersionHasAudio == \A v \in versions : FetchAudio(v)

\* Readers see an alignment only when it is complete with its segments, and a
\* completed alignment is never left out of sight: whoever else claims, fails or
\* overwrites meanwhile, and even when its own run, which was not told that the
\* import was committed, goes on to fail it (complete_alignment, fail_alignment,
\* effective_segments).
PublishedIsComplete ==
  \A v \in Version :
    /\ published[v] # None =>
         LET k == <<v, published[v]>>
         IN v \in versions /\ alignment[k].status = "complete" /\ alignment[k].segments
    /\ \A p \in Profile : alignment[<<v, p>>].status = "complete" => published[v] # None

\* A run that ended accounts for every entry: none is left between version and
\* alignment, "processed" names an alignment that is complete, an alignment it
\* left running (the answer of a claim was lost) was reported as failed, and one
\* it completed is reported as processed, unless the answer of the import was
\* lost: only then is what readers have reported as failed.
EntryReported(r, x) ==
  LET item == runs[r].item[x]
  IN /\ item.outcome \notin {"none", "version-created"}
     /\ item.outcome = "skipped" => current[x] # None
     /\ item.outcome = "unchanged" => <<x, item.content>> \in versions
     /\ item.outcome = "processed" =>
          \E c \in Content, p \in Profile :
            alignment[<<<<x, c>>, p>>].status = "complete" /\ alignment[<<<<x, c>>, p>>].owner = r
     /\ \A c \in Content, p \in Profile :
          LET a == alignment[<<<<x, c>>, p>>]
          IN a.owner = r => /\ a.status = "running" => item.outcome = "failed"
                            /\ a.status = "complete" =>
                                 item.outcome = "processed" \/ x \in worker[r].unheard
ReportIsTrue ==
  \A r \in Run : in(r, "done") /\ runs[r].status # "pruned" =>
    /\ runs[r].status \in {"complete", "partial", "failed"}
    /\ \A x \in Ids(r) : EntryReported(r, x)

\* Work that a process left behind can be taken up again, as the aligner's README
\* says of a lease: a run that is to overwrite and ingests such a version goes on
\* to claim its alignment.  (It does not: the version is there, so it is unchanged.)
Stale(k) ==
  /\ alignment[k].status = "running" /\ ~alignment[k].leased
  /\ ~Running(alignment[k].owner)
Retried(r) ==
  /\ in(r, "entry") /\ Attempted(r) /\ Uploaded(r, entry(r))
  /\ worker[r].overwrite /\ Stale(Key(r, entry(r)))
StaleWorkIsReclaimed ==
  \A r \in Run : Retried(r) => ENABLED (Ingest(r) /\ worker'[r].at = "claim")

\* No failure leaves a run waiting: whatever its threads, transactions and the
\* backend did, its process has a next step until it ends.
RunGoesOn == \A r \in Run : Running(r) => ENABLED Work(r)
=============================================================================
