--------------------------- MODULE MCIdempotency ---------------------------
(* Instances of Idempotency: three requests, one of them with another body. *)
EXTENDS Idempotency

CONSTANTS r1, r2, r3

MCRequests == {r1, r2, r3}
MCDigest == [r \in MCRequests |-> IF r = r3 THEN "other" ELSE "same"]
=============================================================================
