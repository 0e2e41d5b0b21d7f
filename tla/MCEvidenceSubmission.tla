------------------------ MODULE MCEvidenceSubmission ------------------------
(* Instances of EvidenceSubmission for TLC: an upload within the limit and one beyond it;
   two submissions of one idempotency key of an evidence, two of another. *)
EXTENDS EvidenceSubmission, TLC
CONSTANTS r1, r2, r3, r4, a, b, u1, u2

MCRequests == {r1, r2, r3, r4}
MCKeyOf == r1 :> a @@ r2 :> a @@ r3 :> b @@ r4 :> b
MCEvidenceOf == a :> u1 @@ b :> u1
MCChunks == u1 :> 2 @@ u2 :> 3
=============================================================================
