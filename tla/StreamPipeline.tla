-------------------------- MODULE StreamPipeline --------------------------
(***************************************************************************)
(* create_stream and stream_websocket of app.main in front of a            *)
(* TranscriptionWorker: clients send audio chunks over WebSockets, each    *)
(* chunk is written to a file and enqueued, "finalize" enqueues the        *)
(* alignment of everything that came before.                               *)
(*                                                                         *)
(* A stream may be served by several sockets: a client may open two, or    *)
(* reconnect while the handler of its broken socket still has messages to  *)
(* read. Their handlers share the entry of app.state.streams they looked   *)
(* up when they were accepted. From receive to the next await a handler    *)
(* runs alone: putting a job on the unbounded queue does not suspend it.   *)
(***************************************************************************)
EXTENDS TranscriptionWorker

CONSTANTS Sockets, MaxConnects   \* bound of the model: connections accepted

VARIABLES
  registry,      \* the streams in app.state.streams
  created,       \* the streams create_stream has made
  chunkCount,    \* stream["chunk_count"]
  files,         \* the numbers of the chunk files written, in order
  handler,       \* what the handler of each socket is doing
  serving,       \* its stream
  sending,       \* the job its answer is about (0: none)
  connects,
  \* history
  promised       \* the chunk jobs whose "progress" message was sent

socketVars == <<registry, created, chunkCount, files, handler, serving, sending, connects,
                promised>>

pipelineVars == <<vars, socketVars>>

PipelineTypeOK ==
  /\ TypeOK
  /\ created \in SUBSET Streams /\ registry \in SUBSET created
  /\ chunkCount \in [Streams -> Nat]
  /\ files \in [Streams -> Seq(Nat)]
  /\ handler \in [Sockets -> {"none", "open", "progress", "completing"}]
  /\ serving \in [Sockets -> Streams \cup {None}]
  /\ sending \in [Sockets -> 0..Len(jobs)]
  /\ connects \in 0..MaxConnects
  /\ promised \in SUBSET (1..Len(jobs))

PipelineInit ==
  /\ Init
  /\ registry = {}
  /\ created = {}
  /\ chunkCount = [s \in Streams |-> 0]
  /\ files = [s \in Streams |-> <<>>]
  /\ handler = [k \in Sockets |-> "none"]
  /\ serving = [k \in Sockets |-> None]
  /\ sending = [k \in Sockets |-> 0]
  /\ connects = 0
  /\ promised = {}

ChunkOf(s) == [kind |-> "chunk", stream |-> s, engines |-> Engines, input |-> "given"]
FinalizationOf(s) == [kind |-> "finalize", stream |-> s, engines |-> Engines, input |-> "given"]

ASSUME PipelineAssumption ==
  /\ \A s \in Streams : {ChunkOf(s), FinalizationOf(s)} \subseteq Jobs
  /\ MaxConnects \in Nat

HandlerGoes(k, from, to) == handler[k] = from /\ handler' = [handler EXCEPT ![k] = to]

CreateStream(s) ==
  /\ s \notin created
  /\ created' = created \cup {s}
  /\ registry' = registry \cup {s}
  /\ chunkCount' = [chunkCount EXCEPT ![s] = 0]
  /\ UNCHANGED <<vars, files, handler, serving, sending, connects, promised>>

\* Accepted: the stream is registered. An unknown one is refused with 1008.
Connect(k, s) ==
  /\ connects < MaxConnects
  /\ connects' = connects + 1
  /\ s \in registry
  /\ HandlerGoes(k, "none", "open")
  /\ serving' = [serving EXCEPT ![k] = s]
  /\ UNCHANGED <<vars, registry, created, chunkCount, files, sending, promised>>

\* Mutant: the answer names the job after the one enqueued.
ReceiveChunkNamesNext(k) ==
  LET s == serving[k] IN
  /\ HandlerGoes(k, "open", "progress")
  /\ chunkCount' = [chunkCount EXCEPT ![s] = @ + 1]
  /\ files' = [files EXCEPT ![s] = Append(@, chunkCount[s] + 1)]
  /\ Enqueue(ChunkOf(s))
  /\ sending' = [sending EXCEPT ![k] = Len(jobs) + 2]
  /\ UNCHANGED <<registry, created, serving, connects, promised>>

\* Mutant: the count is not written back.
ReceiveChunkUncounted(k) ==
  LET s == serving[k] IN
  /\ HandlerGoes(k, "open", "progress")
  /\ UNCHANGED chunkCount
  /\ files' = [files EXCEPT ![s] = Append(@, chunkCount[s] + 1)]
  /\ Enqueue(ChunkOf(s))
  /\ sending' = [sending EXCEPT ![k] = Len(jobs) + 1]
  /\ UNCHANGED <<registry, created, serving, connects, promised>>

\* A binary frame: count it, write it, enqueue its job, publish; "progress" is next.
ReceiveChunk(k) ==
  LET s == serving[k] IN
  /\ HandlerGoes(k, "open", "progress")
  /\ chunkCount' = [chunkCount EXCEPT ![s] = @ + 1]
  /\ files' = [files EXCEPT ![s] = Append(@, chunkCount[s] + 1)]
  /\ Enqueue(ChunkOf(s))
  /\ sending' = [sending EXCEPT ![k] = Len(jobs) + 1]
  /\ UNCHANGED <<registry, created, serving, connects, promised>>

\* write_bytes raises: the number is used up, the socket is given up.
WriteFails(k) ==
  /\ Fault
  /\ HandlerGoes(k, "open", "none")
  /\ chunkCount' = [chunkCount EXCEPT ![serving[k]] = @ + 1]
  /\ serving' = [serving EXCEPT ![k] = None]
  /\ UNCHANGED <<jobs, taken, done, pc, current, outcome, last, streamState, events, final,
                 registry, created, files, sending, connects, promised>>

SendProgress(k) ==
  /\ HandlerGoes(k, "progress", "open")
  /\ promised' = promised \cup {sending[k]}
  /\ sending' = [sending EXCEPT ![k] = 0]
  /\ UNCHANGED <<vars, registry, created, chunkCount, files, serving, connects>>

\* "finalize": enqueue, publish; "completed" is next.
ReceiveFinalize(k) ==
  /\ HandlerGoes(k, "open", "completing")
  /\ Enqueue(FinalizationOf(serving[k]))
  /\ sending' = [sending EXCEPT ![k] = Len(jobs) + 1]
  /\ UNCHANGED <<registry, created, chunkCount, files, serving, connects, promised>>

\* Only when "completed" is sent, the stream leaves the registry.
SendCompleted(k) ==
  /\ HandlerGoes(k, "completing", "none")
  /\ registry' = registry \ {serving[k]}
  /\ serving' = [serving EXCEPT ![k] = None]
  /\ sending' = [sending EXCEPT ![k] = 0]
  /\ UNCHANGED <<vars, created, chunkCount, files, connects, promised>>

\* The client is gone: at receive, or when the answer is sent.
Disconnect(k) ==
  /\ handler[k] # "none"
  /\ handler' = [handler EXCEPT ![k] = "none"]
  /\ serving' = [serving EXCEPT ![k] = None]
  /\ sending' = [sending EXCEPT ![k] = 0]
  /\ UNCHANGED <<vars, registry, created, chunkCount, files, connects, promised>>

Answer(k) == SendProgress(k) \/ SendCompleted(k)

WorkerStep ==
  /\ \/ \E n \in Numbers, e \in Engines : EngineEnds(n, e)
     \/ \E w \in Workers : Work(w) \/ Abort(w)
  /\ UNCHANGED socketVars

PipelineNext ==
  \/ \E s \in Streams : CreateStream(s)
  \/ \E k \in Sockets :
       \/ \E s \in Streams : Connect(k, s)
       \/ ReceiveChunk(k) \/ WriteFails(k) \/ ReceiveFinalize(k) \/ Answer(k) \/ Disconnect(k)
  \/ WorkerStep

PipelineSpec == PipelineInit /\ [][PipelineNext]_pipelineVars

-----------------------------------------------------------------------------
IsJob(n, kind, s) == jobs[n].kind = kind /\ jobs[n].stream = s

\* The chunk jobs that the finalizations up to number m were computed over.
Covered(m) == UNION {{final[f].chunks[i] : i \in 1..Len(final[f].chunks)} : f \in 1..m}

\* Job n is no longer waiting, in work, or ended by a cancellation.
Processed(n) == n <= taken /\ Reported(n)

(* A finalization is computed over every chunk of its stream that was processed for
   it before, whichever socket brought it: the chunks enqueued before the finalization
   are in its result or in the result of an earlier one. *)
FinalCoversEarlierChunks ==
  \A s \in Streams, f \in 1..Len(jobs) :
    IsJob(f, "finalize", s) /\ Processed(f) =>
      \A n \in 1..f - 1 : IsJob(n, "chunk", s) /\ Processed(n) => n \in Covered(f)

(* A finalization that reports COMPLETED has the transcriptions of all its chunks, of
   every engine that succeeded, and none of another stream or of another finalization. *)
FinalIsExact ==
  \A f \in 1..Len(jobs) :
    final[f] # Nothing =>
      LET mine == {final[f].chunks[i] : i \in 1..Len(final[f].chunks)} IN
      /\ \A n \in mine : IsJob(n, "chunk", jobs[f].stream) /\ n \notin Covered(f - 1)
      /\ \A n \in mine : Processed(n) =>
           \A e \in Engines : <<n, e>> \in final[f].results <=> outcome[n][e] = "ok"

(* No two chunks of a stream are written to the same file, whatever socket brought
   them and whatever write failed in between. *)
FilesAreDistinct ==
  \A s \in Streams : \A i, j \in 1..Len(files[s]) : i # j => files[s][i] # files[s][j]

(* Once a stream is closed and everything is processed, each chunk the server
   answered with "progress" is part of a final alignment. *)
PromisedChunksAreFinal ==
  \A s \in Streams :
    /\ s \in created \ registry
    /\ \A k \in Sockets : serving[k] # s
    /\ \A n \in 1..Len(jobs) : jobs[n].stream = s => Processed(n)
    => \A n \in promised : jobs[n].stream = s => n \in Covered(Len(jobs))
=============================================================================
