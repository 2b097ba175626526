------------------------------- MODULE LogBuf -------------------------------
(***************************************************************************)
(* The multi-producer single-consumer ring of nexus_logbuf::queue::mpsc,   *)
(* as inqjet uses it.  The crate is not part of the repository, so this    *)
(* module states what its callers rely on:                                 *)
(*                                                                         *)
(*   - try_claim of a producer either fails with BufferFull or reserves    *)
(*     the next region; regions are laid out in claim order, and a region  *)
(*     counts against the capacity until the consumer has released it      *)
(*     (logger.rs 180-192, archive.rs 107-109);                            *)
(*   - a region is invisible until its claim is committed (logger.rs 189,  *)
(*     comment at consumer.rs 81-82);                                      *)
(*   - try_claim of the consumer yields the oldest region or nothing, so   *)
(*     an uncommitted oldest region hides the committed ones behind it;    *)
(*     dropping the read claim zeroes the region and advances the head     *)
(*     (consumer.rs 42-54; format.rs 42-47: the order of records is their  *)
(*     position in the ring).                                              *)
(*                                                                         *)
(* A ring is the sequence of its claimed regions, oldest first.  The bytes *)
(* are abstracted: a region is a record whose field st says how far its    *)
(* producer came, and every region takes one unit of capacity.             *)
(***************************************************************************)
EXTENDS Naturals, Sequences

(* The region is claimed and its claim not yet committed. *)
Held(e) == e.st = "held"

(* Producer's try_claim would return Err(BufferFull). *)
IsFull(q, capacity) == Len(q) >= capacity

(* Consumer's try_claim would return Some. *)
HasRecord(q) == q # << >> /\ ~Held(Head(q))

(* Producer's try_claim returned Ok with the region e. *)
Claim(q, e) == Append(q, e)

(* The claim at position i is committed; st says when. *)
CommitAt(q, i, st) == [q EXCEPT ![i].st = st]

(* The consumer drops its read claim on the oldest region. *)
Release(q) == Tail(q)
=============================================================================
