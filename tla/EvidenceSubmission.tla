------------------------- MODULE EvidenceSubmission -------------------------
(***************************************************************************)
(* Uploads and submissions of one process: submit_transcription accepts    *)
(* only evidence whose row is committed, and puts the name of its file     *)
(* into the job. Uploads run in threads while the event loop is busy with  *)
(* a submission; a restart ends both.                                      *)
(***************************************************************************)
EXTENDS EvidenceStore, BatchSubmission

CONSTANT EvidenceOf     \* the evidence of each key

ASSUME EvidenceAssumption == EvidenceOf \in [Keys -> Uploads]

SubmissionInit == StoreInit /\ Init

\* Mutant: the file is enough.
FoundByFile(r) == file[EvidenceOf[KeyOf[r]]] # Absent

\* The evidence row is selected; without it the answer is 404 and nothing has changed.
Found(r) == record[EvidenceOf[KeyOf[r]]] # Absent

Select(r) == Found(r) /\ (FindExisting(r) \/ FindNone(r))

Submit(r) == (Select(r) \/ Commit(r) \/ DatabaseFails(r) \/ Post(r)) /\ UNCHANGED storeVars

UploadStep(u) == Upload(u) /\ UNCHANGED vars

RestartProcess == Restart /\ KillUploads

SubmissionNext ==
  \/ \E r \in Requests : Submit(r)
  \/ \E u \in Uploads : UploadStep(u)
  \/ RestartProcess

SubmissionSpec == SubmissionInit /\ [][SubmissionNext]_<<storeVars, vars>>
-----------------------------------------------------------------------------
SubmissionTypeOK == StoreTypeOK /\ TypeOK

(* A worker is given no job without an original: every job that was ever enqueued names
   evidence that is committed, and the whole file of it unless that was damaged since. *)
EnqueuedHasEvidence ==
  \A i \in 1..Len(enqueued) :
    LET u == EvidenceOf[rows[enqueued[i]]]
    IN  /\ record[u] # Absent
        /\ "file" \notin damaged[u] => file[u] = Original(u)
=============================================================================
