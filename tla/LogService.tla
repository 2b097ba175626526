----------------------------- MODULE LogService -----------------------------
(***************************************************************************)
(* What inqjet promises to those who log, without threads, rings or parks: *)
(* every stream is a queue.  A call takes its place in the queue of its    *)
(* stream, fills it in, and from then on the record may be written; the    *)
(* records of a stream are written oldest first, each once, and none once  *)
(* the service has closed.  A record whose formatting or writing fails is  *)
(* discarded at its turn, which keeps the order of the others.             *)
(*                                                                         *)
(* The promise is the one of format.rs 42-47 (the order of the output is   *)
(* the order of the records in the ring, not that of their timestamps) and *)
(* of the guard's documentation in lib.rs 328-338: the drop returns when   *)
(* nobody writes any more.                                                 *)
(***************************************************************************)
EXTENDS Naturals, Sequences

CONSTANTS
  Producers,  \* threads and archive handles
  Streams,    \* the log and the archives
  Home,       \* the stream each producer writes to
  MaxCalls    \* bound on the calls of one producer

VARIABLES
  pending,    \* per stream, the places taken and not yet written
  written,    \* per stream, the records handed to its writer
  closed      \* nobody writes any more

vars == << pending, written, closed >>

Place == [own : Producers, num : 1 .. MaxCalls, ready : BOOLEAN]
Record == [own : Producers, num : 1 .. MaxCalls]

TypeOK ==
  /\ pending \in [Streams -> Seq(Place)]
  /\ written \in [Streams -> Seq(Record)]
  /\ closed \in BOOLEAN

Init ==
  /\ pending = [s \in Streams |-> << >>]
  /\ written = [s \in Streams |-> << >>]
  /\ closed = FALSE

(* The call num of p is later than every call of p the service knows. *)
IsLater(p, num) ==
  LET s == Home[p] IN
  /\ \A i \in DOMAIN pending[s] : pending[s][i].own = p => pending[s][i].num < num
  /\ \A i \in DOMAIN written[s] : written[s][i].own = p => written[s][i].num < num

(* A call claims the next region of its stream. *)
TakePlace(p) ==
  /\ \E num \in 1 .. MaxCalls :
       /\ IsLater(p, num)
       /\ pending' = [pending EXCEPT ![Home[p]] =
                        Append(@, [own |-> p, num |-> num, ready |-> FALSE])]
  /\ UNCHANGED << written, closed >>

(* The record is complete. *)
FillIn(p) ==
  LET s == Home[p] IN
  /\ \E i \in DOMAIN pending[s] :
       /\ pending[s][i].own = p
       /\ ~pending[s][i].ready
       /\ pending' = [pending EXCEPT ![s][i].ready = TRUE]
  /\ UNCHANGED << written, closed >>

(* The oldest place is filled in, and somebody still writes. *)
Writable(s) == ~closed /\ pending[s] # << >> /\ Head(pending[s]).ready

(* The record whose turn it is goes to the writer. *)
WriteNext(s) ==
  /\ Writable(s)
  /\ LET r == Head(pending[s])
     IN  written' = [written EXCEPT ![s] = Append(@, [own |-> r.own, num |-> r.num])]
  /\ pending' = [pending EXCEPT ![s] = Tail(@)]
  /\ UNCHANGED closed

(* The writer or the format function fails; the latter may close all. *)
DiscardNext(s) ==
  /\ Writable(s)
  /\ pending' = [pending EXCEPT ![s] = Tail(@)]
  /\ closed' \in BOOLEAN
  /\ UNCHANGED written

(* The thread that writes has ended. *)
Close ==
  /\ ~closed
  /\ closed' = TRUE
  /\ UNCHANGED << pending, written >>

Next ==
  \/ \E p \in Producers : TakePlace(p) \/ FillIn(p)
  \/ \E s \in Streams : WriteNext(s) \/ DiscardNext(s)
  \/ Close

Spec == Init /\ [][Next]_vars

-----------------------------------------------------------------------------
(* The records of one producer appear in the order of its calls, none      *)
(* twice, and every one still pending is later than those written.         *)
WrittenInCallOrder ==
  \A s \in Streams :
    \A i, j \in DOMAIN written[s] :
      i < j /\ written[s][i].own = written[s][j].own
        => written[s][i].num < written[s][j].num

PendingIsLater ==
  \A s \in Streams :
    \A i \in DOMAIN written[s], j \in DOMAIN pending[s] :
      written[s][i].own = pending[s][j].own => written[s][i].num < pending[s][j].num

PendingInCallOrder ==
  \A s \in Streams :
    \A i, j \in DOMAIN pending[s] :
      i < j /\ pending[s][i].own = pending[s][j].own
        => pending[s][i].num < pending[s][j].num

InCallOrder == WrittenInCallOrder /\ PendingIsLater /\ PendingInCallOrder
=============================================================================
