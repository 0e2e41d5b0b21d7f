------------------------- MODULE MCBatchSubmission -------------------------
(* Instances of BatchSubmission for TLC: three submissions of one key,
   two of another. *)
EXTENDS BatchSubmission, TLC
CONSTANTS r1, r2, r3, r4, r5, a, b

MCRequests == {r1, r2, r3, r4, r5}
MCKeyOf == r1 :> a @@ r2 :> a @@ r3 :> a @@ r4 :> b @@ r5 :> b
=============================================================================
