--------------------------- MODULE MCJobEventHub ---------------------------
(* Instance of JobEventHub for TLC: two jobs, two generators, a deque of two. *)
EXTENDS JobEventHub
CONSTANTS j1, j2, s1, s2

MCJobs == {j1, j2}
MCSessions == {s1, s2}
=============================================================================
