------------------------------ MODULE MCIngest ------------------------------
(* Two ingest requests with one key and payload, and one blank upload.        *)
EXTENDS DocumentIngestion

CONSTANTS r1, r2, u1

\* Short paragraphs that are joined, a blank one, one of exactly the limit, and long
\* ones whose last window is full, short, or repeats an overlap only.
SomeText ==
  [r \in {r1, r2, u1} |->
     IF r = u1 THEN <<0>> ELSE <<1, 0, 2, 6, 2, 2, 7, 8, 1, 10, 13, 16, 3>>]

=============================================================================
