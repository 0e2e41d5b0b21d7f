------------------------- MODULE MCJobEventSocket -------------------------
(* Instance of JobEventSocket for TLC. *)
EXTENDS JobEventSocket
CONSTANTS j1, c1, s1, s2

MCJobs == {j1}
MCClients == {c1}
TwoSessions == {s1, s2}
=============================================================================
