----------------------------- MODULE MCPipeline -----------------------------
(***************************************************************************)
(* Pipeline with the constants of the TLC runs: one archive or two, rings  *)
(* of one or two records, and the builder configurations by name.          *)
(***************************************************************************)
EXTENDS Pipeline, TLC

CONSTANTS t1, t2, h1

OneArchive == [h \in {h1} |-> 1]
LastArchive == [h \in {h1} |-> 2]
NoArchive == [h \in {} |-> 1]

RingsOfOne == [s \in 0 .. NA |-> 1]
LogRingOfTwo == [s \in 0 .. NA |-> IF s = 0 THEN 2 ELSE 1]

AnyOption == [backpressure : {"Backoff", "Drop"}, timed : BOOLEAN]
BackoffParked == [backpressure : {"Backoff"}, timed : {TRUE}]

ThreadSymmetry == Permutations({t1, t2})
=============================================================================
