# Bayenat in TLA+

Models of the concurrent and stateful part of Bayenat: the FastAPI process that
accepts evidence and audio streams, the queues, the transcription worker and the
event hub that reports progress. The modules are translated from
`src/backend/app`; line numbers of every definition are in `PROJECT.json` ("map").

## 1. The system

One API process (uvicorn, one event loop, `infrastructure/docker-compose.yml`)
holds four pieces of state in memory: a job queue, the event hub, the table of
open streams and the table of job tenants. Rows live in PostgreSQL, media files on
disk. A worker reads jobs from a queue, runs speech engines in threads and reports
events. In this repository the worker is not started by the API and its events are
not wired to the hub; the models keep the two apart in the same way.

| Component | State | Operations | Interacts by |
|---|---|---|---|
| event hub, `services/job_events.py` | `_next_id`, a bounded deque and a set of live queues for each job | `publish`, `replay`, `subscribe_from` | called by the API; generators suspended between two yields |
| event routes, `main.py:208-242` | one handler for each WebSocket | REST replay, progress WebSocket | cursor `after_event_id` kept by the client |
| in-memory queue, `services/transcription_jobs.py:89-102` | an `asyncio.Queue` | `enqueue`, `dequeue`, `task_done` | API puts, workers take |
| Redis queue, `services/transcription_jobs.py:105-150` | stream, consumer group, pending entries (Redis); `_delivery_ids` (each consumer) | `enqueue`, `dequeue`, `acknowledge` | network calls that can be lost |
| worker, `workers/transcription_worker.py` | `streams`: chunks and results of each stream | `run_once`, `process_batch`, `process_stream_chunk`, `finalize_stream`, `emit` | queue, engine threads, event sink |
| streaming routes, `main.py:245-313` | `app.state.streams`, chunk files | `create_stream`, `stream_websocket` | queue, hub |
| batch submission, `main.py:154-174` | `processing_jobs` rows, `job_tenants` | `submit_transcription` | database, then queue, then hub |
| development principal, `core/auth.py:66-80`, `main.py:45-62` | tenant and user rows | look up or create | concurrent transactions of request threads |
| evidence, `main.py:95-151,186-205`, `services/integrity.py` | file, evidence, artifact and audit rows | `upload_evidence`, `verify_integrity` | file system and database; submissions name its files |
| rate limiter, `middleware/rate_limit.py` | time stamps for each key | `allow` | called before every HTTP handler, and at the start of the WebSocket routes |
| alignment and diarization, `engines/` | the groups of one call | `attach_speakers`, `align` | called by the worker at the end of a batch job and of a stream |
| engines, benchmark tools, front end | none, or external models | | |

What is hard in it: the order of snapshot and live events in the hub; connections
that die unnoticed while a handler writes to them; deliveries that are made by
Redis and never arrive; two finalizations of one stream when an answer could not be sent; two
sockets, or two workers, for one stream; a process that ends between a commit and
the enqueue that belongs to it; a file that is written before its rows; look-up-or-insert
without a unique constraint; windows and overlaps with half-open ends. The
list with lines is in `PROJECT.json` ("hazards"). What must hold in spite of it:

* hub: nothing lost or repeated between replay and live queue, bounded history,
  no queue left registered;
* event routes: a client with a cursor gets each retained event once, in order,
  and the end of its job;
* Redis queue: at most one delivery, nothing acknowledged that was not handed
  out, every pending entry explained;
* worker: statuses move forward and match the engines, `task_done` matches what
  was reported, nothing waits for ever;
* streams: a finalization is computed over exactly the chunks before it;
* submission: one job for a key, enqueued at most once;
* evidence: a row has its whole file, verification reports what was damaged and nothing
  else, a job names evidence that is stored;
* limiter: a request is refused exactly when the window is full;
* alignment: segments that overlap end in one group, others do not;
* principal: the user belongs to a tenant that exists, requests end.

## 2. The modules

| Module | Models | Notes |
|---|---|---|
| `EventFeed` | what the hub promises: one log for each job, a follower with a cursor | abstract |
| `JobEventHub` | `JobEventHub` | implements `EventFeed` |
| `JobEventSocket` | the two event routes, connections, a client | extends `JobEventHub` |
| `WorkQueue` | what the Redis queue promises: first-in-first-out leases that never come back | abstract |
| `RedisJobQueue` | `RedisJobQueue` and what it uses of Redis | implements `WorkQueue` |
| `TranscriptionWorker` | the worker on an in-memory queue | |
| `StreamPipeline` | the streaming routes in front of the worker | extends `TranscriptionWorker` |
| `BatchSubmission` | `submit_transcription`, its row, restarts | |
| `EvidenceStore` | `upload_evidence`, `verify_integrity`, damage | |
| `EvidenceSubmission` | uploads and submissions of one process | composes `EvidenceStore` and `BatchSubmission` |
| `RateWindow` | what the limiter promises: a count over all admissions | abstract |
| `SlidingWindow` | `SlidingWindowLimiter` and a clock | implements `RateWindow` |
| `DevelopmentPrincipal` | look-up-or-create in concurrent transactions | |
| `RequestAdmission` | `RateLimitMiddleware` in front of `get_current_principal` | composes `SlidingWindow` and `DevelopmentPrincipal` |
| `Alignment` | `attach_speakers`, `TranscriptAligner.align` | the engines' output is its input |
| `JobEventHub_proofs`, `JobEventSocket_proofs`, `RedisJobQueue_proofs`, `StreamPipeline_proofs`, `RequestAdmission_proofs`, `EvidenceSubmission_proofs`, `Alignment_proofs` | the theorems of section 4 | each extends the module it is named after; `StreamPipeline_proofs` holds those about the worker too |
| `SequenceLemmas` | facts about sequences the proofs share | |
| `MC...` | instances for TLC | |

An operator commented "Mutant" is a plausible defect of the definition after it;
nothing refers to it. Replacing the definition by it must make a property fail.

### JobEventHub
Variables carry the names of the fields. A step is what the event loop runs without
an await that can suspend. The lock's bodies contain no await and the live queues
are unbounded, so `publish` is one step (`Publish`) and the lock is never contended.
`subscribe_from` is `Subscribe` (up to its first yield), `YieldReplay`, `YieldLive`,
and `Unregister` (the `finally` block). A consumer that leaves the `async for`
(`Abandon`) does not close the generator itself: asyncio's hook for unfinished
generators does it later, so the queue stays registered in between. `log`, `first` and `yielded` are history: all events of a job, where a
generator started, what it yielded. Under `ImplementsFeed` a generator is a follower
while it is open; `log`, `first`, `yielded` map to themselves, and the deque, the
snapshot and the queue disappear.

### JobEventSocket
A handler is "accepted", "ready" (ready frame sent), "next" (waiting for the
generator) or "send" (holds an event). A link is up, down without the server's
knowledge, or reset; only a reset makes `send_json` raise. A handler never reads its socket, so a handler without
events does not notice a dead client: that is why `FinishedJobIsReleased` speaks
of jobs that have ended. The client is external: it keeps the largest id it
received, reconnects or polls with it, and stops at a terminal event, as
`docs/transcription-api.md:27-35` asks. `missed` records the ids that were no
longer retained when the client asked; `NothingSkipped` allows exactly those.

### RedisJobQueue
A call is a request, Redis's action and a reply. `dequeue` is `EnsureGroup`, `Read`,
`Deliver` (Redis), then `Receive`, `ReceiveMalformed` or `ReadTimeout`;
`acknowledge` is `Acknowledge` (pops the entry), `Xack` (Redis), `AcknowledgeReturns`.
`Cancel`, `AcknowledgeFails` and `Crash` interrupt at every point where the call
waits. A crashed consumer does not come back: a new process has a new consumer name,
so it is another element of `Consumers`. `stranded` is history: messages that stay
pending for ever. The code has no claim of stale deliveries
(`docs/transcription-worker-architecture.md:32` lists it as missing).

### TranscriptionWorker
`pc` is the await a worker stands at. Engines end in any order (`EngineEnds`), also
when the worker that asked them was cancelled. An engine name the worker does not
have fails at once. Engine names are sets: a name that is given twice is not
modelled. `Align` and `Finalize` contain everything up to the return, the text of
results is left out, and the results are the pairs of chunk and engine they come
from. `SinkRaises` is an event sink that raises on a progress event (the job then
fails), `Abort` a sink that raises on the last event, or a cancelled task. The
`finally` that would call `task_done` is not in the code, nor here. `Reject` is every
refusal before any work: a missing path or stream, and the job kind `STREAM_START`, which
`JobKind` has and `run_once` does not know.

Each worker has one `pc`: it runs one `run_once` at a time. Calls that overlap on one
object would share `streams`, and one could pop a stream while another awaits the engines
of its chunk; nothing in the repository makes such calls, so they are not modelled.

### StreamPipeline
A handler holds the dictionary it looked up at accept, so the chunk count is kept
for the stream and the registry is separate. `ReceiveChunk` is the code from
`receive` to the first await that can suspend: count, write, enqueue, publish. Event
publication is left out here, it is `JobEventHub`. `WriteFails` uses up a number.
Reading a message the client sent before it disconnected is the same action as
reading any other.

### BatchSubmission
`submit_transcription` is a coroutine that calls the database synchronously: from
the look-up to the commit nothing else runs in the process, which `running`
expresses. `Restart` loses queue, tables and the request under way, and keeps rows.

### EvidenceStore and EvidenceSubmission
An upload is a thread: `Open`, a `WriteChunk` for each MiB, `Close`, `Hash` (which reads
the file again), `StoreRows` (three rows, one transaction; what is flushed before the
commit nobody else sees). Its evidence id is new, so the upload names its file and its
rows. `RefuseTooLarge` unlinks the file, `UploadFails` and `KillUploads` leave it.
Contents and hashes are pairs (`Values`), and equal only when what they stand for is
equal; `UploadAssumption` keeps uploads, the marks of damage and `Absent` apart, so that no
two of them are one value by accident.
`Damage` is the reason verification exists: something else changes or removes the file,
or changes one value of a row. `Verification` is an operator, as `verify_integrity`
changes nothing. The audit event has no field for its artifact: `artifact.id` is read
before it is set (`main.py:144`), and nothing reads the column.

`EvidenceSubmission` adds the look-up of the evidence row (`Found`) to the submission;
a 404 changes nothing and the request may be repeated. Uploads go on while the event
loop is busy with a submission; a restart ends both.

### SlidingWindow and RequestAdmission
`allow` is called on the event loop only and contains no await: one step, the lock is
never contended. The loop of `popleft` leaves the deque from its first event in the window on
(`From`), which is all events in the window only because a deque is in the order of time:
that is part of the proof. `admitted` is history: all times at which a client was admitted; `RateWindow`
has nothing else. `RetryAfter` is the second result of a refused call. Time stands still
between two ticks, so that calls may see one time, and a second has several ticks, so
that cutting to full seconds shows. The limiter of the WebSocket routes is another
instance of the same class with keys of its own. In `RequestAdmission` a request without
token is dispatched by the middleware, then looks up the development principal in its
thread; one with a token needs the limiter only.

### DevelopmentPrincipal
Dependencies and plain `def` routes run in threads with a session of their own at
the database's default isolation (read committed). The insert of the user waits for
another insert of the same e-mail and fails when that commits; the insert of the
tenant does neither. `EndCommitting` and `EndRollingBack` are the routes that
commit (`create_case`, `list_cases`, ...) and those that only read (`get_job`).

### Alignment
`Enrich` attaches a speaker to each segment, then the segments are taken in the order of
`flattened.sort` (`Reached`) and placed: `StartGroup` or `JoinGroup`. `Finish` computes
the spans and the speaker of each group; `max` over a set of strings may return any of
several speakers with equally many votes, so the choice is open. `AttachedSpeaker` takes the
longest single turn, as the code does, and does not add up the turns of a speaker: one who is
heard from 0 to 2 and from 5 to 7 loses a segment from 0 to 7 to one who interrupts from 2
to 5, although the docstring speaks of the "speaker with maximum temporal overlap"
(`engines/diarization.py:42`). No property says which of the speakers who are heard is named. Groups are sets: no
property asks for the order of candidates. Two segments of one engine and chunk with the
same times count once. Texts, and with them `alignment_score`, are left out. Segments
carry their chunk, which the code does not look at.

The branch of `JoinGroup` that merges further groups is never needed with sorted
segments: a segment that starts last and overlaps two groups overlaps where both go on
(`OneGroupMatches` of `Alignment_proofs`). It is modelled as the code has it; with another
sort order it would be taken.

## 3. What is checked

Deadlock is checked where the system cannot stop by itself. In the other runs,
with the bounds used up, all jobs done or every consumer dead is a regular end.

| Run | Instance | Distinct states |
|---|---|---|
| `hub` | 2 jobs, 2 generators, deque of 2, 3 events | 28 134 |
| `socket` | 1 job, 1 client, 2 sessions, deque of 2, 3 events, 2 failures | 198 239 |
| `redis` | 2 consumers, 3 messages of 2 jobs (one malformed), 2 sends of a job, 2 faults | 31 558 |
| `worker` | 2 workers (one with a diarizer), 2 engines, 2 jobs of 6 sorts, 1 fault | 12 684 |
| `pipeline` | 1 worker, 2 streams, 2 sockets, 2 connections, 4 jobs, 1 fault, symmetry | 416 522 |
| `submission` | 2 uploads (2 and 3 chunks, limit 2), 2 mishaps, 4 requests for 2 keys, 2 faults | 278 772 |
| `principal` | 3 requests of 1 client, limit 2 in 4 ticks (2 s), a second client with tokens, table of 1 key, 5 instants | 295 216 |
| `alignment` | all sets of 1 to 4 segments of 2 engines on 4 instants with 5 diarizations; up to 3 segments of 2 chunks | 211 996 |

The safety properties of the runs that pass are also proved, for all bounds (section 4). The bounds: a deque of 2 with 3 events evicts an event that a generator or a client
still has to see. Two sessions suffice for a client with two failures, as a session
is used again after its clean-up. Three messages allow a job_id to be overwritten with another message behind it, and
two faults allow one consumer to die while the other one's call fails. Two workers and two jobs contain a chunk and its
finalization on different workers; four jobs allow chunk, finalization, chunk,
finalization of one stream. Two keys with two requests each and two faults allow a retry
after each kind of failure; two mishaps damage two parts of one evidence, or fail an
upload whose rows are stored and damage it. Three requests are one more than the two
that commit two development tenants. At the last of the five instants the first one has
just left the window, and with a table of one key each admission of the other client
compacts it. Three segments make a chain whose ends do not overlap; four make two such
chains, or a chain with a segment of no length inside.

Properties (the type invariants of `JobEventHub` and `TranscriptionWorker` are part of
`SocketTypeOK` and `PipelineTypeOK`):

* hub: `DequeIsTail`, `NoGapNoRepeat`; `ImplementsFeed`; `EverythingIsShown`,
  `AbandonedIsUnregistered`.
* socket: `ReceivedOnceInOrder`, `NothingSkipped`, `NormalCloseIsComplete`;
  `TerminalIsDelivered`, `FinishedJobIsReleased`.
* redis: `HandedAtMostOnce`, `PendingIsAccounted`, `AcknowledgeSucceeds`;
  `ImplementsWorkQueue`; `EveryJobIsAcknowledged`.
* worker: `StatusesInOrder`, `StatusMatchesEngines`, `JoinMeansReported`;
  `EveryJobIsReported`.
* pipeline: `FinalCoversEarlierChunks`, `FinalIsExact`, `FilesAreDistinct`.
* submission: `AnswersAgree`, `EnqueuedAtMostOnce`, `OnlyFailuresLoseJobs`;
  `VerificationIsExact`, `FilesAreAccounted`; of the composition `EnqueuedHasEvidence`.
* principal: `UserOwnsFirstTenant`; `ImplementsWindow` (nothing is admitted that the full
  history would refuse), `RefusalIsJust` (the reverse, and `Retry-After` right to a
  second); `EveryRequestIsAnswered`.
* alignment: `GroupsAreComponents` (the connected components of the overlap relation,
  each candidate once), `ResultIsChronological` (spans in order of time, overlapping by
  less than the minimum), `SpeakerIsHeard`.

### Fairness
* hub: weak fairness of yields and clean-up; the event loop runs every ready task.
  Nobody has to publish, subscribe or leave.
* socket: the same for handlers; a dead transport is noticed (uvicorn's keepalive);
  frames of a live connection arrive; the client connects again. Reconnecting is
  assumed only where the client's liveness is the question. Polls, publishers and
  failures are not assumed.
* redis: consumers call `dequeue` in a loop and acknowledge each job they were given
  (strong fairness, as another `dequeue` may come first; the repository's
  integration test does the same); Redis serves a waiting reader; replies arrive.
  No fault is assumed to happen or not to.
* worker: `run_once` is called in a loop, threads of engines and diarizers end.
* principal: each request is dispatched and goes on when it can; locks are released at
  the end of a transaction. Neither time nor requests with a token are assumed.
* pipeline, submission and alignment have safety properties only. Whether a job of a stream is
  reported is the worker's `EveryJobIsReported`.

### Where the code does not do what is said
Each of these runs ends in a counterexample.

* `late_chunk`, `PromisedChunksAreFinal`: a stream with two sockets is finalized on
  one; the other one still accepts and confirms a chunk, which is transcribed and
  is in no final alignment ("final alignment is the authoritative stream
  boundary", `docs/transcription-api.md:63`).
* `chunk_times`, `GroupsFollowTheStream`: the engines see each chunk as a file of its own,
  their timestamps start at zero, and `finalize_stream` aligns them unchanged: what was
  said at the start of one chunk is put into one segment with the start of another
  ("coordinates remain tied to the source media timeline", `docs/data-model.md:20`).
* `lost_submission`, `AnsweredWasEnqueued`: after a failure between commit and
  enqueue, the retry is answered with the existing job, which no queue ever held
  (`docs/transcription-worker-architecture.md:5`). Without such a failure no job is
  lost: `OnlyFailuresLoseJobs`.
* `two_tenants`, `OneDevelopmentTenant`: two first requests at the same time commit
  two tenants of the same name, after which `one_or_none` (`core/auth.py:70`)
  raises for every request without a token.

Two workers on one queue keep the state of a stream apart, so `FinalCoversEarlierChunks`
needs one worker; `docs/transcription-worker-architecture.md:26` says that stream state
is in the memory of one worker and must move to durable storage.

## 4. What is proved

TLAPS checks these for all values of the constants, under the assumptions named in the
modules: `HubAssumption` (the deque holds at least one event), `SocketAssumption` (terminal
statuses are statuses), `QueueAssumption`, `LimiterAssumption` (limit, window and resolution
of the clock are not zero), `AdmissionAssumption` (a request comes from a client),
`WorkerAssumption` (the engines are finitely many, a job that names a stream names one of
`Streams`), `PipelineAssumption` (the sort of job that `stream_websocket` enqueues is among
`Jobs`), `UploadAssumption` (see `EvidenceStore`), `SubmissionAssumption` and `EvidenceAssumption` (a
request has a key, a key an evidence); in all of them bounds are natural numbers and `None`
is no process, stream or status. Each inductive invariant was first checked by TLC on the instance of its run.

**`JobEventHub_proofs`.** `HubNoGapNoRepeat`, `HubInvariant`, `HubImplementsFeed`.
The inductive invariant joins the types, `LogOrdered`, `DequeIsTail`, `NoGapNoRepeat`
and `Registered`: an open generator's queue is registered with its own job and with
no other. Without `Registered` a publication could miss a generator's queue or reach a
queue of another job; without `DequeIsTail` and
`LogOrdered` the snapshot of `Subscribe` could not be placed in the log: a filter by
id on an ordered deque is a suffix of it (`AfterIsSuffix`), a suffix of the deque is
a suffix of the log (`SuffixOfDeque`), so the snapshot is what the log owes the new
generator. `Publish` then appends the same event to both sides, a yield moves an
event from one part of the concatenation to the next. The facts about
sequences are in `SequenceLemmas`. For the refinement each yield is shown to be the
event at `first + Len(yielded)` (`YieldShows`), and `Subscribe` an admissible start
(`SubscribeFollows`).

**`RedisJobQueue_proofs`.** `QueueHandedAtMostOnce`, `QueuePendingIsAccounted`,
`QueueAcknowledgeSucceeds`, `QueueAckedWasHanded`, `QueueImplementsWorkQueue`. The
first four follow from one inductive invariant. It adds to the properties that a
consumer's table holds only messages that are pending for this consumer
(`TableIsPending`), each under one job; that the message of a reply is pending, not
in any table and not handed out yet; that a message under acknowledgment is in no
table; and that nothing behind the group's position has been touched. It is needed
because `PendingIsAccounted` alone does not exclude that two calls hold the same
message, from which `Xack` would leave the second one without a pending entry. There
is one lemma for each action, under it one step for each conjunct the action
disturbs.

`QueueIsTyped` is its first conjunct.

**`JobEventSocket_proofs`.** `SocketIsTyped`, `SocketReceivesOnce`, `SocketSkipsNothing`,
`SocketCloseIsComplete`. The invariant `SocketIInv` adds to the hub's: for each client, a
`Chronicle` (what it received is in the order of ids, of its own job, and up to its cursor
complete but for `missed`); for each session, what its handler and its link still owe
(`SessionIInv`); and for each connected client, that what its session has sent and not yet
delivered (`frames`), holds, and will yield continues the log where the cursor stands
(`Streams`): there is a position `p` of the log such that everything before it is at most
the cursor or missed, everything after it is above the cursor, and the sent events are
those from `p` on. `p` exists when the client connects because ids in the log are strictly
increasing and the deque is the log's tail, so `after_event_id` cuts both at the same place.
The properties alone say nothing of the frames under way, from which a delivery would break
them. `SocketCloseIsComplete` needs in addition that a handler stops at the first terminal
event it sends. The proof goes by the kind of a step: a step of the hub alone (a publication
extends the log behind `p`), of one session, of one client, of both. A first form of the
invariant was not inductive for several jobs: `Connect` gives a session that is idle another
job while what its former generator yielded is still recorded, so the clause on `yielded` is
about open generators only.

**`RequestAdmission_proofs`.** `AdmissionIsTyped`, `AdmissionUserOwnsFirstTenant`,
`AdmissionRefusalIsJust`, `AdmissionImplementsWindow`. For the limiter: the admissions of
each client are in the order of time, and its deque, or the empty one of a client that is not
in the table, is a suffix of them before which nothing is in the window (`TailOf`). That
holds after `popleft` (in a deque in order, what is in the window is a suffix), after an
admission, and after compaction, which drops only clients whose last event has left the
window. `RefusalIsJust` alone does not say what compaction may drop. For the principal:
while there is no user nothing is committed and the only request past its look-up is the one
that has inserted the user; a tenant that a request uses and did not make is the first
committed one.

**`EvidenceSubmission_proofs`.** `SubmissionIsTyped`, `SubmissionAnswersAgree`,
`SubmissionEnqueuesOnce`, `SubmissionLosesByFailure`, `SubmissionVerificationIsExact`,
`SubmissionFilesAreAccounted`, `SubmissionHasEvidence`. The invariant says at each stage of
an upload what its file, its digest and its rows hold, as a function of what was damaged
(`UploadIInv`); that a request which found no job keeps every other one out until its job
is enqueued (`OneRunsAtATime`), so that its look-up is still right when it stores its row
(`AbsentIsAbsent`) and a key has one row (`OneJobPerKey`); and that a job between commit and
enqueue is in no queue. `VerificationIsExact` then is a comparison of values: each check of
`verify_integrity` compares two parts that differ exactly when one of them is damaged. For
`EnqueuedHasEvidence` the rows of an evidence must never disappear, and every row of a job
must name one that was found.

**`StreamPipeline_proofs`, the worker.** `WorkerIsTyped`, `WorkerStatusesInOrder`,
`WorkerStatusMatchesEngines`, `WorkerJoinMeansReported`. The invariant `WorkerIInv` says what
a worker's place in `run_once` tells of its job (`Place`): which statuses the listener can have
seen, whether engines have been asked, and that before the report all of them have settled and
the status to report agrees with them. A job has one worker (`OwnJobs`), and one that is still
queued has no event and no outcome (`Untouched`). Without `Settled` an engine that ends late
could make a reported status wrong. `task_done` is about numbers: `done` is the cardinality of
the reported jobs, and the jobs that were given up are at most as many as the faults
(`Accounts`), as a job becomes reported or given up once and only by the worker that has it.

**`StreamPipeline_proofs`, the streams.** `PipelineIsTyped`, `PipelineFilesAreDistinct`,
`PipelineFinalIsExact`, `PipelineFinalCovers`. `WriteFails` spends a fault, which no step of
`TranscriptionWorker` alone does, so the pipeline does not refine the worker's specification;
instead every step of it is shown to keep `WorkerIInv` (`WorkerGoesOn`), and to be, for the
queue and the streams, a few kinds of step (`QueueStep`). Files: each number in use was
counted (`FilesAreCounted`), so the next one is new. Finalizations: a chunk is in the state of
one worker or in one finalization (`OnePlace`), and wherever it is, once its job is over the
results kept with it are those of the engines that succeeded (`Lists`, `Finals`). The second
half speaks of chunks whose engines still run as well: after a cancellation the worker that
asked them goes on, and its next finalization may pop their stream before they end.
`FinalIsExact` alone says nothing of them. None of this asks how many workers there are. `PipelineFinalCovers` does: it assumes that one worker reads the queue.
`InTurn` then says that its job is the last one taken, that what its state has of a stream came
after every finalization that is over (`ListsAreNew`), that nothing started is dropped, and
that a chunk is in the first finalization after it. With two workers TLC refutes `InTurn`, at
the clause that the jobs are taken in turn, and `FinalCoversEarlierChunks` with it.

**`Alignment_proofs`.** `AlignmentGroupsAreComponents`, `AlignmentResultIsChronological`,
`AlignmentSpeakerIsHeard`. Everything rests on the sort: what is placed starts no later than
what is left (`PlacedFirst`). So a segment that matched two groups would overlap a member of
each where both go on, and these would overlap each other: at most one group matches, and
`JoinGroup` only lets that one grow. Connectedness is about cuts (no part of a group is
without an overlap into the rest), and each step keeps it, so no induction over chains is
needed. The groups are apart only member by member, while the spans of the result are made of
several members; `Chronological` says why these are apart as well: of two groups at most one
goes on for the minimum overlap after the start of the later one. A group whose first segment
is shorter than that matches nothing any more. For the speaker, one turn must beat all
others although `max` is over a set of any size (`OneTurnBeats`, by a least number of turns
without one). The assumption `AlignmentAssumption` is that segments do not end before they
start and times are natural numbers; turns may be empty or reversed.

Model-checked only: all liveness properties (TLAPS does not handle fairness and ENABLED) and
the four runs that end in a counterexample.

## 5. What is not modelled

* Text: transcripts, messages, progress numbers, languages, profiles.
* Authentication by token and tenants' access checks: they refuse a request before the
  modelled part and keep no state.
* The limiter of the WebSocket routes in front of `JobEventSocket` and `StreamPipeline`:
  their models begin with the admitted connections.
* A restart of the API process in the event models: ids start again, and a cursor of
  the former process hides new events.
* A client that reconnects with the id of a terminal event, which the server serves
  for ever (`main.py:236`).
* The worker on a `RedisJobQueue`: the class is typed for the in-memory queue, calls
  `task_done`, which the Redis queue does not have, and never `acknowledge`; nothing in
  the repository puts the two together.
* Overlapping calls of `run_once` on one worker (section 2, `TranscriptionWorker`).
* An audit chain of several events: only the event of the upload is written.
* The lazy loading of models by several threads: its only effect is memory.
* Benchmark tools: offline scripts without state.
* Engines, diarizer and front end: external models and a static page. The worker's entry
  point is an idle loop.

## 6. Plan

Modelled, in this order: hub with its feed, sockets; Redis queue with its abstract queue;
worker; streams; submission; principal; evidence; limiter with its abstract window;
alignment. Proved: hub, sockets, Redis queue, worker, streams, limiter and principal,
submission and evidence, alignment.

What is left is liveness, which stays with TLC, and what section 5 lists. Worth adding
next: action properties of the composed models (a terminal status, a committed row or an
aligned result never changes again) with proofs from the invariants of section 4.
