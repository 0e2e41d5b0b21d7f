------------------------- MODULE MCRequestAdmission -------------------------
(* Instances of RequestAdmission for TLC: three requests of one client without a
   token, any number of another one with a token. *)
EXTENDS RequestAdmission, TLC
CONSTANTS r1, r2, r3, c1, c2

MCRequests == {r1, r2, r3}
MCClientOf == r1 :> c1 @@ r2 :> c1 @@ r3 :> c1
=============================================================================
