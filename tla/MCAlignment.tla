---------------------------- MODULE MCAlignment ----------------------------
(* Instances of Alignment for TLC: the transcripts of a batch job, up to four segments
   of two engines on a time line of four instants, and the transcripts of a stream, two
   chunks heard by one engine. *)
EXTENDS Alignment
CONSTANTS A, B

Segments(engines, chunks, instants) ==
  {s \in [engine : engines, chunk : chunks, start : instants, end : instants] :
     s.start <= s.end}

Says(v, from, to, c) == [speaker |-> v, start |-> from, end |-> to, confidence |-> c]

\* No diarizer; one speaker; a hand-over; an interruption; equal overlaps that
\* confidence or order decides.
MCDiarizations ==
  { <<>>,
    <<Says(A, 0, 1, 0)>>,
    <<Says(A, 0, 2, 0), Says(B, 2, 3, 0)>>,
    <<Says(A, 0, 1, 0), Says(B, 1, 3, 0), Says(A, 2, 3, 0)>>,
    <<Says(A, 0, 2, 0), Says(B, 0, 2, 1), Says(A, 2, 3, 0), Says(B, 2, 3, 0)>> }

MCBatches ==
  [segments : UNION {kSubset(k, Segments({1, 2}, {0}, 0..3)) : k \in 1..4},
   turns : MCDiarizations]
MCStreams ==
  [segments : UNION {kSubset(k, Segments({1}, {0, 1}, 0..2)) : k \in 1..3}, turns : {<<>>}]
MCCalls == MCBatches \cup MCStreams
=============================================================================
