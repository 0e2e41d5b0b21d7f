---------------------- MODULE MCDevelopmentPrincipal ----------------------
(* Instances of DevelopmentPrincipal for TLC. *)
EXTENDS DevelopmentPrincipal
CONSTANTS r1, r2, r3

MCRequests == {r1, r2, r3}
=============================================================================
