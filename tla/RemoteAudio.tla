----------------------------- MODULE RemoteAudio -----------------------------
(* registry_align/remote_audio.py: SshAudioObjectStore.  Audio bytes are kept   *)
(* on a server under the name of their hash.  A batch of files is uploaded in   *)
(* four remote commands (hash the objects that are there, copy what is missing  *)
(* into .staging, verify and move, on an error remove the staged files), each   *)
(* of which can fail, while other batches of this or another run do the same.   *)
EXTENDS Naturals, FiniteSets

CONSTANTS Audio,   \* contents of audio files, each standing for its SHA-256
          Batch    \* calls of ensure_many, by any process

VARIABLES objects, \* what the server holds under the name of each content
          staging, \* the files under .staging of the calls under way, whole or torn;
                   \* one left behind has a name that no later call uses
          batch    \* each call: where it is, what it wants, what is still to move

audioVars == <<objects, staging, batch>>

BatchPlaces == {"none", "queued", "staging", "finalizing", "cleaning",
                "stored", "failed"}
NoBatch == [at |-> "none", wants |-> {}, missing |-> {}]
StagedFile == [batch : Batch, audio : Audio, whole : BOOLEAN]

AudioTypeOK ==
  /\ objects \in [Audio -> {"absent", "good", "damaged"}]
  /\ staging \subseteq StagedFile
  /\ batch \in [Batch -> [at : BatchPlaces, wants : SUBSET Audio, missing : SUBSET Audio]]

\* Before the program runs an object may be missing, or its file may be damaged.
AudioInit ==
  /\ objects \in [Audio -> {"absent", "damaged"}]
  /\ staging = {}
  /\ batch = [b \in Batch |-> NoBatch]

At(b, place) == batch[b].at = place
Go(b, place) == batch' = [batch EXCEPT ![b].at = place]
StagedBy(b) == {f \in staging : f.batch = b}
Busy(b) == batch[b].at \in {"staging", "finalizing", "cleaning"}
Ended(b) == batch[b].at \in {"none", "stored", "failed"}

Damaged(b) == \E a \in batch[b].wants : objects[a] = "damaged"
Missing(b) == {a \in batch[b].wants : objects[a] = "absent"}

\* The local file is hashed again: it may have changed, or the server may not
\* answer.  Nothing is staged yet, so there is nothing to remove.
Refuse(b) ==
  /\ At(b, "queued")
  /\ Go(b, "failed")
  /\ UNCHANGED <<objects, staging>>

\* _remote_hashes: an object with another hash refuses the batch.
Preflight(b) ==
  /\ At(b, "queued")
  /\ batch' = [batch EXCEPT
                 ![b].at = IF Damaged(b) THEN "failed"
                           ELSE IF Missing(b) = {} THEN "stored" ELSE "staging",
                 ![b].missing = IF Damaged(b) THEN {} ELSE Missing(b)]
  /\ UNCHANGED <<objects, staging>>

Copies(b, whole, torn) ==
  [batch : {b}, audio : whole, whole : {TRUE}] \cup [batch : {b}, audio : torn, whole : {FALSE}]

Stage(b) ==
  /\ At(b, "staging")
  /\ staging' = staging \cup Copies(b, batch[b].missing, {})
  /\ Go(b, "finalizing")
  /\ UNCHANGED objects

\* The copy breaks off: some files arrived, one of them perhaps only in part.
StageFails(b) ==
  /\ At(b, "staging")
  /\ \E whole, torn \in SUBSET batch[b].missing :
       /\ whole \cap torn = {} /\ Cardinality(torn) <= 1
       /\ staging' = staging \cup Copies(b, whole, torn)
  /\ Go(b, "cleaning")
  /\ UNCHANGED objects

\* scp can also report success for a file that is short on the other side (a
\* full disk seen late): the check of the staged hash is what notices it.
StageTears(b) ==
  /\ At(b, "staging")
  /\ \E a \in batch[b].missing :
       staging' = staging \cup Copies(b, batch[b].missing \ {a}, {a})
  /\ Go(b, "finalizing")
  /\ UNCHANGED objects

\* One object of _finalize_batch: the staged file must hash to its name; if the
\* object is there by now the staged file is dropped, otherwise it is moved.
StagedWhole(b, a) == [batch |-> b, audio |-> a, whole |-> TRUE] \in staging

\* (A move that trusts the copy.)
FinalizeUnverified(b) ==
  /\ At(b, "finalizing")
  /\ \E a \in batch[b].missing :
       LET found == IF StagedWhole(b, a) THEN "good" ELSE "damaged"
       IN /\ staging' = {f \in staging : ~(f.batch = b /\ f.audio = a)}
          /\ objects' = [objects EXCEPT ![a] = IF @ = "absent" THEN found ELSE @]
          /\ batch' = [batch EXCEPT ![b].missing = @ \ {a},
                                    ![b].at = IF batch[b].missing = {a} THEN "stored" ELSE @]

FinalizeObject(b) ==
  /\ At(b, "finalizing")
  /\ \E a \in batch[b].missing :
       /\ StagedWhole(b, a)
       /\ staging' = {f \in staging : ~(f.batch = b /\ f.audio = a)}
       /\ objects' = [objects EXCEPT ![a] = IF @ = "absent" THEN "good" ELSE @]
       /\ batch' = [batch EXCEPT ![b].missing = @ \ {a},
                                 ![b].at = IF batch[b].missing = {a} THEN "stored" ELSE @]

\* A staged file with the wrong hash, or a lost connection.
FinalizeFails(b) ==
  /\ At(b, "finalizing")
  /\ Go(b, "cleaning")
  /\ UNCHANGED <<objects, staging>>

\* _cleanup_staging: best effort, its own errors are swallowed; either way the
\* call ends with the error it met.
Cleanup(b) ==
  /\ At(b, "cleaning")
  /\ staging' = staging \ StagedBy(b)
  /\ Go(b, "failed")
  /\ UNCHANGED objects

Upload(b) ==
  \/ Stage(b) \/ StageFails(b) \/ StageTears(b)
  \/ FinalizeObject(b) \/ FinalizeFails(b) \/ Cleanup(b)

\* fetch: the downloaded bytes are hashed before they are moved into place.
Fetchable(a) == objects[a] = "good"

-----------------------------------------------------------------------------
\* An object, once stored, is never lost or overwritten, and no upload ever puts
\* bytes under a name that is not their hash, whatever is torn, retried or run
\* at the same time (SshAudioObjectStore.ensure_many).
ObjectStep == \A a \in Audio :
  /\ objects[a] = "good" => objects'[a] = "good"
  /\ objects'[a] = "damaged" => objects[a] = "damaged"
ObjectsAreImmutable == [][ObjectStep]_objects
=============================================================================
