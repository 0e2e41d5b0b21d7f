-------------------------- MODULE BatchSubmission --------------------------
(***************************************************************************)
(* submit_transcription of app.main: one row of processing_jobs for each   *)
(* idempotency key, then the job is put on the in-memory queue and its     *)
(* QUEUED event is published.                                              *)
(*                                                                         *)
(* The handler is a coroutine that talks to the database synchronously: it *)
(* suspends nowhere before its row is committed, so the requests of one    *)
(* process follow each other. The rows outlive the process, its queue and  *)
(* its tables do not.                                                      *)
(***************************************************************************)
EXTENDS Integers, Sequences, FiniteSets

CONSTANTS
  Requests,      \* submissions, retries included
  Keys,          \* evidence and idempotency key
  KeyOf,         \* the key of each request
  MaxFaults,     \* bound of the model: database errors and restarts
  None

ASSUME SubmissionAssumption ==
  /\ KeyOf \in [Requests -> Keys]
  /\ MaxFaults \in Nat
  /\ None \notin Requests

VARIABLES
  rows,          \* processing_jobs: the key of each job
  \* the process
  running,       \* the request the event loop is busy with, or None
  queue,         \* app.state.job_queue
  jobTenants,    \* app.state.job_tenants
  published,     \* the jobs whose QUEUED event the hub holds
  \* requests
  pc,
  answer,        \* the job of the 202 answer (0: none)
  faults,
  enqueued       \* history: every job ever put on a queue, in order

vars == <<rows, running, queue, jobTenants, published, pc, answer, faults, enqueued>>

JobNumbers == 1..Len(rows)

TypeOK ==
  /\ rows \in Seq(Keys)
  /\ running \in Requests \cup {None}
  /\ queue \in Seq(JobNumbers) /\ enqueued \in Seq(JobNumbers)
  /\ jobTenants \in SUBSET JobNumbers /\ published \in SUBSET JobNumbers
  /\ pc \in [Requests -> {"new", "absent", "committed", "answered", "failed"}]
  /\ answer \in [Requests -> 0..Len(rows)]
  /\ faults \in 0..MaxFaults

Init ==
  /\ rows = <<>>
  /\ running = None
  /\ queue = <<>>
  /\ jobTenants = {}
  /\ published = {}
  /\ pc = [r \in Requests |-> "new"]
  /\ answer = [r \in Requests |-> 0]
  /\ faults = 0
  /\ enqueued = <<>>

Goto(r, from, to) == pc[r] = from /\ pc' = [pc EXCEPT ![r] = to]
Fault == faults < MaxFaults /\ faults' = faults + 1
Existing(key) == {n \in JobNumbers : rows[n] = key}

\* Mutant: an existing job is put on the queue again.
FindExistingEnqueues(r) ==
  /\ running = None
  /\ Goto(r, "new", "answered")
  /\ \E n \in Existing(KeyOf[r]) :
       /\ answer' = [answer EXCEPT ![r] = n]
       /\ queue' = Append(queue, n)
       /\ enqueued' = Append(enqueued, n)
  /\ UNCHANGED <<rows, running, jobTenants, published, faults>>

\* select by evidence and key: an existing job is the answer.
FindExisting(r) ==
  /\ running = None
  /\ Goto(r, "new", "answered")
  /\ \E n \in Existing(KeyOf[r]) : answer' = [answer EXCEPT ![r] = n]
  /\ UNCHANGED <<rows, running, queue, jobTenants, published, faults, enqueued>>

\* Mutant: an await between the select and the insert lets another request in.
FindNoneSuspends(r) ==
  /\ running = None
  /\ Goto(r, "new", "absent")
  /\ Existing(KeyOf[r]) = {}
  /\ UNCHANGED <<rows, running, queue, jobTenants, published, answer, faults, enqueued>>

FindNone(r) ==
  /\ running = None
  /\ Goto(r, "new", "absent")
  /\ Existing(KeyOf[r]) = {}
  /\ running' = r
  /\ UNCHANGED <<rows, queue, jobTenants, published, answer, faults, enqueued>>

\* db.add and db.commit
Commit(r) ==
  /\ Goto(r, "absent", "committed")
  /\ rows' = Append(rows, KeyOf[r])
  /\ answer' = [answer EXCEPT ![r] = Len(rows) + 1]
  /\ UNCHANGED <<running, queue, jobTenants, published, faults, enqueued>>

\* The commit raises, with the row stored or not, or the refresh after it does.
DatabaseFails(r) ==
  /\ Fault
  /\ pc[r] \in {"absent", "committed"}
  /\ pc' = [pc EXCEPT ![r] = "failed"]
  /\ rows' \in {rows} \cup (IF pc[r] = "absent" THEN {Append(rows, KeyOf[r])} ELSE {})
  /\ answer' = [answer EXCEPT ![r] = 0]
  /\ running' = None
  /\ UNCHANGED <<queue, jobTenants, published, enqueued>>

\* Mutant: the job is enqueued without its id.
PostWithoutId(r) ==
  /\ Goto(r, "committed", "answered")
  /\ jobTenants' = jobTenants \cup {answer[r]}
  /\ queue' = Append(queue, 0)
  /\ published' = published \cup {answer[r]}
  /\ enqueued' = Append(enqueued, 0)
  /\ running' = None
  /\ UNCHANGED <<rows, answer, faults>>

\* Mutant: the job is announced and not enqueued.
PostUnqueued(r) ==
  /\ Goto(r, "committed", "answered")
  /\ jobTenants' = jobTenants \cup {answer[r]}
  /\ published' = published \cup {answer[r]}
  /\ running' = None
  /\ UNCHANGED <<rows, queue, answer, faults, enqueued>>

\* job_tenants, enqueue, publish_status, and the answer: none of them suspends.
Post(r) ==
  /\ Goto(r, "committed", "answered")
  /\ jobTenants' = jobTenants \cup {answer[r]}
  /\ queue' = Append(queue, answer[r])
  /\ published' = published \cup {answer[r]}
  /\ enqueued' = Append(enqueued, answer[r])
  /\ running' = None
  /\ UNCHANGED <<rows, answer, faults>>

\* The process ends and a new one starts.
Restart ==
  /\ Fault
  /\ running' = None
  /\ queue' = <<>>
  /\ jobTenants' = {}
  /\ published' = {}
  /\ pc' = [r \in Requests |-> IF r = running THEN "failed" ELSE pc[r]]
  /\ answer' = [r \in Requests |-> IF r = running THEN 0 ELSE answer[r]]
  /\ UNCHANGED <<rows, enqueued>>

Next ==
  \/ \E r \in Requests :
       FindExisting(r) \/ FindNone(r) \/ Commit(r) \/ DatabaseFails(r) \/ Post(r)
  \/ Restart

Spec == Init /\ [][Next]_vars
-----------------------------------------------------------------------------
(* A key has at most one job, and every answer for the key names it: before and
   after a restart, and whatever failed in between. *)
AnswersAgree ==
  /\ \A m, n \in JobNumbers : rows[m] = rows[n] => m = n
  /\ \A r, q \in Requests :
       pc[r] = "answered" /\ pc[q] = "answered" /\ KeyOf[r] = KeyOf[q] =>
         answer[r] = answer[q]

(* A job is put on a queue at most once, also when its submission is repeated after a
   failure or a restart. *)
EnqueuedAtMostOnce == \A i, j \in 1..Len(enqueued) : enqueued[i] = enqueued[j] => i = j

(* A committed job that was never put on a queue is the job of a submission that has
   failed or is still under way: nothing else loses one. *)
OnlyFailuresLoseJobs ==
  \A n \in JobNumbers :
    \/ \E i \in 1..Len(enqueued) : enqueued[i] = n
    \/ \E r \in Requests : KeyOf[r] = rows[n] /\ pc[r] \in {"committed", "failed"}

(* A submission that was answered has a job that was put on a queue. *)
AnsweredWasEnqueued ==
  \A r \in Requests :
    pc[r] = "answered" => \E i \in 1..Len(enqueued) : enqueued[i] = answer[r]
=============================================================================
