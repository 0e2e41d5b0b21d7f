------------------------ MODULE TranscriptionWorker ------------------------
(***************************************************************************)
(* app.workers.transcription_worker.TranscriptionWorker reading an         *)
(* InMemoryJobQueue. run_once takes a job, does the work of its kind,      *)
(* reports one last event and calls task_done. Between two awaits nothing  *)
(* else runs on the event loop: a step here goes from one await to the     *)
(* next. The engines of a job run in threads and end in any order.         *)
(*                                                                         *)
(* The queue is the sequence of all jobs ever put and the number taken:    *)
(* asyncio.Queue gives them out in order. A job is known by its number.    *)
(***************************************************************************)
EXTENDS Integers, Sequences, FiniteSets

CONSTANTS
  Workers,       \* TranscriptionWorker objects on the queue; each runs one run_once at
                 \* a time, as nothing in the program calls it concurrently
  Engines,       \* engine names
  Configured,    \* the names the workers have an engine for
  Streams,       \* stream ids
  Jobs,          \* the jobs that can be enqueued
  Diarizing,     \* the workers that have a diarizer
  MaxJobs,       \* bound of the model: jobs enqueued
  MaxFaults,     \* bound of the model: sink exceptions and cancellations
  None

Kinds == {"batch", "start", "chunk", "finalize"}
Terminal == {"COMPLETED", "PARTIAL_SUCCESS", "FAILED"}
Statuses == {"PREPROCESSING", "DIARIZING", "TRANSCRIBING", "ALIGNING"} \cup Terminal

\* input: the path or stream_id the kind needs is there, is not given, or names
\* no file (a chunk only: the path of a batch is not looked at).
JobRecords == [kind : Kinds, stream : Streams \cup {None}, engines : SUBSET Engines,
               input : {"given", "absent", "missing"}]

ASSUME WorkerAssumption ==
  /\ IsFiniteSet(Engines) /\ Configured \in SUBSET Engines
  /\ Jobs \in SUBSET JobRecords
  /\ \A j \in Jobs :
       j.kind \in {"chunk", "finalize"} /\ j.input # "absent" => j.stream \in Streams
  /\ Diarizing \in SUBSET Workers
  /\ MaxJobs \in Nat
  /\ MaxFaults \in Nat
  /\ None \notin Streams \cup Statuses

Numbers == 1..MaxJobs

VARIABLES
  jobs,        \* the jobs put on the queue, in order
  taken,       \* how many of them were dequeued
  done,        \* calls of task_done
  pc,          \* where each worker is in run_once
  current,     \* the number of its job (0: none)
  outcome,     \* outcome[n][e]: what engine e did for job n
  last,        \* the event run_once will report
  known,       \* self.streams of each worker: the streams it has a state for
  chunks,      \* StreamState.chunks: the numbers of their jobs
  results,     \* StreamState.results: which engine transcribed which chunk
  faults,
  \* history
  events,      \* events[n]: the statuses the sink has seen for job n
  final        \* final[n]: what finalization n was computed over

vars == <<jobs, taken, done, pc, current, outcome, last, known, chunks, results,
          faults, events, final>>

Nothing == [chunks |-> <<>>, results |-> {}]

TypeOK ==
  /\ jobs \in Seq(Jobs) /\ Len(jobs) <= MaxJobs
  /\ taken \in 0..Len(jobs)
  /\ done \in 0..taken
  /\ pc \in [Workers -> {"idle", "taken", "prepared", "diarizing", "diarized", "running",
                         "reporting"}]
  /\ current \in [Workers -> 0..taken]
  /\ outcome \in [Numbers -> [Engines -> {"unasked", "running", "ok", "failed"}]]
  /\ last \in [Workers -> Statuses \cup {None}]
  /\ known \in [Workers -> SUBSET Streams]
  /\ chunks \in [Workers -> [Streams -> Seq(Numbers)]]
  /\ results \in [Workers -> [Streams -> SUBSET (Numbers \X Engines)]]
  /\ faults \in 0..MaxFaults
  /\ events \in [Numbers -> Seq(Statuses)]
  /\ final \in [Numbers -> [chunks : Seq(Numbers), results : SUBSET (Numbers \X Engines)]]

Init ==
  /\ jobs = <<>>
  /\ taken = 0
  /\ done = 0
  /\ pc = [w \in Workers |-> "idle"]
  /\ current = [w \in Workers |-> 0]
  /\ outcome = [n \in Numbers |-> [e \in Engines |-> "unasked"]]
  /\ last = [w \in Workers |-> None]
  /\ known = [w \in Workers |-> {}]
  /\ chunks = [w \in Workers |-> [s \in Streams |-> <<>>]]
  /\ results = [w \in Workers |-> [s \in Streams |-> {}]]
  /\ faults = 0
  /\ events = [n \in Numbers |-> <<>>]
  /\ final = [n \in Numbers |-> Nothing]

Job(w) == jobs[current[w]]
Goto(w, to) == pc' = [pc EXCEPT ![w] = to]
Fault == faults < MaxFaults /\ faults' = faults + 1

\* emit of a progress event.
Emit(w, status) == events' = [events EXCEPT ![current[w]] = Append(@, status)]

\* run_once has its event: what process_* returned, or FAILED for an exception.
Reporting(w, status) == Goto(w, "reporting") /\ last' = [last EXCEPT ![w] = status]

streamState == <<known, chunks, results>>

\* InMemoryJobQueue.enqueue
Enqueue(j) ==
  /\ Len(jobs) < MaxJobs
  /\ jobs' = Append(jobs, j)
  /\ UNCHANGED <<taken, done, pc, current, outcome, last, streamState, faults, events, final>>

\* InMemoryJobQueue.dequeue
Take(w) ==
  /\ pc[w] = "idle"
  /\ taken < Len(jobs)
  /\ taken' = taken + 1
  /\ current' = [current EXCEPT ![w] = taken + 1]
  /\ Goto(w, "taken")
  /\ UNCHANGED <<jobs, done, outcome, last, streamState, faults, events, final>>

\* The job lacks audio_path, chunk_path or stream_id: ValueError. For the kind
\* STREAM_START run_once has no branch: "Unsupported job kind".
Reject(w) ==
  /\ pc[w] = "taken"
  /\ Job(w).input = "absent" \/ Job(w).kind = "start"
  /\ Reporting(w, "FAILED")
  /\ UNCHANGED <<jobs, taken, done, current, outcome, streamState, faults, events, final>>

BatchAt(w, at) == pc[w] = at /\ Job(w).kind = "batch" /\ Job(w).input # "absent"

Preprocess(w) ==
  /\ BatchAt(w, "taken")
  /\ Emit(w, "PREPROCESSING")
  /\ Goto(w, "prepared")
  /\ UNCHANGED <<jobs, taken, done, current, outcome, last, streamState, faults, final>>

Diarize(w) ==
  /\ w \in Diarizing
  /\ BatchAt(w, "prepared")
  /\ Emit(w, "DIARIZING")
  /\ Goto(w, "diarizing")
  /\ UNCHANGED <<jobs, taken, done, current, outcome, last, streamState, faults, final>>

\* The diarizer's thread returns or raises.
DiarizerEnds(w) ==
  /\ pc[w] = "diarizing"
  /\ \/ Goto(w, "diarized") /\ UNCHANGED last
     \/ Reporting(w, "FAILED")
  /\ UNCHANGED <<jobs, taken, done, current, outcome, streamState, faults, events, final>>

\* _transcribe_parallel starts the engines; a name without one fails at once.
Ask(n) ==
  outcome' = [outcome EXCEPT ![n] = [e \in Engines |->
                IF e \notin jobs[n].engines THEN "unasked"
                ELSE IF e \in Configured THEN "running" ELSE "failed"]]

Transcribe(w) ==
  /\ BatchAt(w, IF w \in Diarizing THEN "diarized" ELSE "prepared")
  /\ Emit(w, "TRANSCRIBING")
  /\ Ask(current[w])
  /\ Goto(w, "running")
  /\ UNCHANGED <<jobs, taken, done, current, last, streamState, faults, final>>

\* A thread ends with a transcription or an exception, also when nobody waits for
\* it any more.
EngineEnds(n, e) ==
  /\ outcome[n][e] = "running"
  /\ \E o \in {"ok", "failed"} : outcome' = [outcome EXCEPT ![n][e] = o]
  /\ UNCHANGED <<jobs, taken, done, pc, current, last, streamState, faults, events, final>>

Successful(n) == {e \in Engines : outcome[n][e] = "ok"}

\* gather has every outcome.
Gathered(w) == pc[w] = "running" /\ \A e \in Engines : outcome[current[w]][e] # "running"

AllFailed(w) ==
  /\ Gathered(w) /\ Job(w).kind = "batch"
  /\ Successful(current[w]) = {}
  /\ Reporting(w, "FAILED")
  /\ UNCHANGED <<jobs, taken, done, current, outcome, streamState, faults, events, final>>

\* Mutant: the final status is emitted here and again by run_once.
AlignReports(w) ==
  LET status == IF Cardinality(Successful(current[w])) = Cardinality(Job(w).engines)
                  THEN "COMPLETED" ELSE "PARTIAL_SUCCESS"
  IN  /\ Gathered(w) /\ Job(w).kind = "batch"
      /\ Successful(current[w]) # {}
      /\ Emit(w, status)
      /\ Reporting(w, status)
      /\ UNCHANGED <<jobs, taken, done, current, outcome, streamState, faults, final>>

\* Mutant: any success counts as COMPLETED.
AlignAlwaysCompleted(w) ==
  /\ Gathered(w) /\ Job(w).kind = "batch"
  /\ Successful(current[w]) # {}
  /\ Emit(w, "ALIGNING")
  /\ Reporting(w, "COMPLETED")
  /\ UNCHANGED <<jobs, taken, done, current, outcome, streamState, faults, final>>

\* Mutant: goes on only when no engine failed.
AlignAllOrNothing(w) ==
  /\ Gathered(w) /\ Job(w).kind = "batch"
  /\ Successful(current[w]) = Job(w).engines
  /\ Emit(w, "ALIGNING")
  /\ Reporting(w, "COMPLETED")
  /\ UNCHANGED <<jobs, taken, done, current, outcome, streamState, faults, final>>

Align(w) ==
  /\ Gathered(w) /\ Job(w).kind = "batch"
  /\ Successful(current[w]) # {}
  /\ Emit(w, "ALIGNING")
  /\ Reporting(w, IF Cardinality(Successful(current[w])) = Cardinality(Job(w).engines)
                    THEN "COMPLETED" ELSE "PARTIAL_SUCCESS")
  /\ UNCHANGED <<jobs, taken, done, current, outcome, streamState, faults, final>>

\* Mutant: each chunk makes a new StreamState, no setdefault.
StartChunkAfresh(w) ==
  LET s == Job(w).stream IN
  /\ pc[w] = "taken"
  /\ Job(w).kind = "chunk" /\ Job(w).input = "given"
  /\ known' = [known EXCEPT ![w] = @ \cup {s}]
  /\ chunks' = [chunks EXCEPT ![w][s] = <<current[w]>>]
  /\ results' = [results EXCEPT ![w][s] = {}]
  /\ Ask(current[w])
  /\ Goto(w, "running")
  /\ UNCHANGED <<jobs, taken, done, current, last, faults, events, final>>

\* process_stream_chunk up to its await: the state is made before the file is
\* looked for.
StartChunk(w) ==
  LET s == Job(w).stream IN
  /\ pc[w] = "taken"
  /\ Job(w).kind = "chunk" /\ Job(w).input # "absent"
  /\ known' = [known EXCEPT ![w] = @ \cup {s}]
  /\ IF Job(w).input = "missing"
       THEN Reporting(w, "FAILED") /\ UNCHANGED <<outcome, chunks>>
       ELSE /\ chunks' = [chunks EXCEPT ![w][s] = Append(@, current[w])]
            /\ Ask(current[w])
            /\ Goto(w, "running") /\ UNCHANGED last
  /\ UNCHANGED <<jobs, taken, done, current, results, faults, events, final>>

\* Mutant: the results are replaced, not extended.
EndChunkReplaces(w) ==
  LET s == Job(w).stream IN
  /\ Gathered(w) /\ Job(w).kind = "chunk"
  /\ results' = [results EXCEPT ![w][s] = {current[w]} \X Successful(current[w])]
  /\ Reporting(w, "TRANSCRIBING")
  /\ UNCHANGED <<jobs, taken, done, current, outcome, known, chunks, faults, events, final>>

\* Also when every engine failed, a chunk is reported as processed.
EndChunk(w) ==
  LET s == Job(w).stream IN
  /\ Gathered(w) /\ Job(w).kind = "chunk"
  /\ results' = [results EXCEPT ![w][s] = @ \cup ({current[w]} \X Successful(current[w]))]
  /\ Reporting(w, "TRANSCRIBING")
  /\ UNCHANGED <<jobs, taken, done, current, outcome, known, chunks, faults, events, final>>

\* finalize_stream: pop the state; without one it is an unknown stream.
Finalize(w) ==
  LET s == Job(w).stream IN
  /\ pc[w] = "taken"
  /\ Job(w).kind = "finalize" /\ Job(w).input # "absent"
  /\ IF s \in known[w]
       THEN /\ final' = [final EXCEPT ![current[w]] =
                           [chunks |-> chunks[w][s], results |-> results[w][s]]]
            /\ known' = [known EXCEPT ![w] = @ \ {s}]
            /\ chunks' = [chunks EXCEPT ![w][s] = <<>>]
            /\ results' = [results EXCEPT ![w][s] = {}]
            /\ Reporting(w, "COMPLETED")
       ELSE Reporting(w, "FAILED") /\ UNCHANGED <<final, streamState>>
  /\ UNCHANGED <<jobs, taken, done, current, outcome, faults, events>>

\* emit(event), task_done, return.
Report(w) ==
  /\ pc[w] = "reporting"
  /\ Emit(w, last[w])
  /\ done' = done + 1
  /\ Goto(w, "idle")
  /\ current' = [current EXCEPT ![w] = 0]
  /\ last' = [last EXCEPT ![w] = None]
  /\ UNCHANGED <<jobs, taken, outcome, streamState, faults, final>>

\* The sink raises on a progress event: the job fails.
SinkRaises(w) ==
  /\ Fault
  /\ \/ BatchAt(w, "taken") \/ BatchAt(w, "prepared") \/ BatchAt(w, "diarized")
     \/ Gathered(w) /\ Job(w).kind = "batch" /\ Successful(current[w]) # {}
  /\ Reporting(w, "FAILED")
  /\ UNCHANGED <<jobs, taken, done, current, outcome, streamState, events, final>>

\* Mutant: task_done in a finally block.
AbortDone(w) ==
  /\ Fault
  /\ pc[w] \in {"taken", "prepared", "diarizing", "diarized", "running", "reporting"}
  /\ done' = done + 1
  /\ Goto(w, "idle")
  /\ current' = [current EXCEPT ![w] = 0]
  /\ last' = [last EXCEPT ![w] = None]
  /\ UNCHANGED <<jobs, taken, outcome, streamState, events, final>>

\* run_once ends by an exception: the sink raises on the last event, or the task is
\* cancelled at an await. Nothing is reported and task_done is not called.
Abort(w) ==
  /\ Fault
  /\ pc[w] \in {"taken", "prepared", "diarizing", "diarized", "running", "reporting"}
  /\ Goto(w, "idle")
  /\ current' = [current EXCEPT ![w] = 0]
  /\ last' = [last EXCEPT ![w] = None]
  /\ UNCHANGED <<jobs, taken, done, outcome, streamState, events, final>>

Work(w) ==
  \/ Take(w) \/ Reject(w) \/ Preprocess(w) \/ Diarize(w) \/ DiarizerEnds(w)
  \/ Transcribe(w) \/ AllFailed(w) \/ Align(w) \/ StartChunk(w) \/ EndChunk(w)
  \/ Finalize(w) \/ Report(w)

Next ==
  \/ \E j \in Jobs : Enqueue(j)
  \/ \E n \in Numbers, e \in Engines : EngineEnds(n, e)
  \/ \E w \in Workers : Work(w) \/ SinkRaises(w) \/ Abort(w)

Spec == Init /\ [][Next]_vars

\* Each worker is run in a loop, engines and diarizer return.
WorkerFairness ==
  /\ \A w \in Workers : WF_vars(Work(w))
  /\ \A n \in Numbers, e \in Engines : WF_vars(EngineEnds(n, e))

FairSpec == Spec /\ WorkerFairness
-----------------------------------------------------------------------------
Rank(status) ==
  CASE status = "PREPROCESSING" -> 1
    [] status = "DIARIZING"     -> 2
    [] status = "TRANSCRIBING"  -> 3
    [] status = "ALIGNING"      -> 4
    [] OTHER                    -> 5

\* The last event of job n has been reported.
Reported(n) ==
  /\ events[n] # <<>>
  /\ \/ events[n][Len(events[n])] \in Terminal
     \/ jobs[n].kind = "chunk"

\* run_once ended by an exception: no worker has job n, nobody will report it.
GivenUp(n) == n <= taken /\ ~ Reported(n) /\ \A w \in Workers : current[w] # n

(* What a listener sees of one job only moves forward, and a terminal status is the
   last thing it sees, however many workers share the queue and whatever raises. *)
StatusesInOrder ==
  \A n \in Numbers : \A i \in 1..Len(events[n]) - 1 :
    Rank(events[n][i]) < Rank(events[n][i + 1])

(* The status of a batch job is what its engines did, whichever ended first: none
   is missing from COMPLETED, some but not all from PARTIAL_SUCCESS, and FAILED
   means no engine succeeded, unless the sink itself raised. *)
StatusMatchesEngines ==
  \A n \in 1..taken :
    jobs[n].kind = "batch" /\ Reported(n) =>
      LET status == events[n][Len(events[n])] IN
      /\ status = "COMPLETED" => Successful(n) = jobs[n].engines
      /\ status = "PARTIAL_SUCCESS" =>
           Successful(n) # {} /\ Successful(n) \subseteq jobs[n].engines
                              /\ Successful(n) # jobs[n].engines
      /\ status = "FAILED" => Successful(n) = {} \/ faults > 0

(* asyncio.Queue.join returns only when every job was reported: task_done is called
   once for each job reported and for no other. A job is given up only by a failure
   of its own. *)
JoinMeansReported ==
  /\ done = Cardinality({n \in 1..taken : Reported(n)})
  /\ done = Len(jobs) => \A n \in 1..Len(jobs) : Reported(n)
  /\ Cardinality({n \in 1..taken : GivenUp(n)}) <= faults

(* Every job that is enqueued is reported in the end, or given up because its own
   run_once was cancelled or its last event refused: no other job waits for it. *)
EveryJobIsReported == \A n \in Numbers : Len(jobs) >= n ~> Reported(n) \/ GivenUp(n)
=============================================================================
