------------------------- MODULE MCStreamPipeline -------------------------
(* Instances of StreamPipeline for TLC. *)
EXTENDS StreamPipeline, TLC
CONSTANTS w1, w2, e1, s1, s2, k1, k2

MCOneWorker == {w1}
MCTwoWorkers == {w1, w2}
MCEngines == {e1}
MCStreams == {s1, s2}
MCOneStream == {s1}
MCSockets == {k1, k2}
MCOneSocket == {k1}
MCJobs == {ChunkOf(s) : s \in Streams} \cup {FinalizationOf(s) : s \in Streams}
MCSymmetry == Permutations({s1, s2}) \cup Permutations({k1, k2})
=============================================================================
