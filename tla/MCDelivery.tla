----------------------------- MODULE MCDelivery -----------------------------
(* Delivery with a thread that waits for room in a log ring of one record, *)
(* a writer of the log that fails and a formatter that may panic, and two  *)
(* handles that share an archive ring of two records.                      *)
EXTENDS Delivery, TLC

CONSTANTS t1, h1, h2

SharedArchive == [h \in {h1, h2} |-> 1]

ArchiveRingOfTwo == [s \in 0 .. NA |-> IF s = 0 THEN 1 ELSE 2]

BackoffSpinning == [backpressure : {"Backoff"}, timed : {FALSE}]

HandleSymmetry == Permutations({h1, h2})
=============================================================================
