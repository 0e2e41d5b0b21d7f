----------------------- MODULE MCTranscriptionWorker -----------------------
(* Instances of TranscriptionWorker for TLC. *)
EXTENDS TranscriptionWorker
CONSTANTS w1, w2, e1, e2, s1

MCWorkers == {w1, w2}
MCEngines == {e1, e2}
MCStreams == {s1}

Batch(engines, input) ==
  [kind |-> "batch", stream |-> None, engines |-> engines, input |-> input]
Chunk(engines, input) ==
  [kind |-> "chunk", stream |-> s1, engines |-> engines, input |-> input]
Start == [kind |-> "start", stream |-> s1, engines |-> {e1}, input |-> "given"]
Finalization == [kind |-> "finalize", stream |-> s1, engines |-> {e1}, input |-> "given"]

\* Jobs of every kind, also of the one run_once does not know, with inputs the API gives and inputs it does not.
MCJobs ==
  {Batch({e1, e2}, "given"), Batch({e1}, "absent"), Chunk({e1}, "given"),
   Chunk({e1}, "missing"), Start, Finalization}
=============================================================================
