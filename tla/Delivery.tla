------------------------------ MODULE Delivery ------------------------------
(***************************************************************************)
(* Pipeline with its records told apart, to say what becomes of each one.  *)
(* Four history variables ride along with the steps of Pipeline and       *)
(* decide nothing in them:                                                 *)
(*                                                                         *)
(*   ids       beside each ring, the caller and call number of each region *)
(*   out       per stream, the records its writer was given                *)
(*   accepted  the log calls that got past LOGGER.get() and `running`      *)
(*   refused   the records their writer returned an error for              *)
(*                                                                         *)
(* One thing is added: a writer in Failing may refuse a record, which the  *)
(* archiver ignores (`let _ = writer.write_all(..)`, consumer.rs 51, 61,   *)
(* 94, 102).                                                               *)
(***************************************************************************)
EXTENDS Pipeline

CONSTANT Failing  \* the streams whose writer may return an error

ASSUME FailingAssumption == Failing \subseteq Streams

(* Records are told apart by call numbers, so every producer counts. *)
ASSUME CountedAssumption == Tireless = {}

VARIABLES ids, out, accepted, refused

history == << ids, out, accepted, refused >>
dvars == << vars, ids, out, accepted, refused >>

Id == [own : Producers, num : 1 .. MaxCalls]

DTypeOK ==
  /\ ids \in [Streams -> Seq(Id)]
  /\ out \in [Streams -> Seq(Id)]
  /\ accepted \subseteq Id /\ refused \subseteq Id
  /\ \A s \in Streams : Len(ids[s]) = Len(ring[s])

DInit ==
  /\ Init
  /\ ids = [s \in Streams |-> << >>]
  /\ out = [s \in Streams |-> << >>]
  /\ accepted = {} /\ refused = {}

(* Fault: the call is named before it is counted. *)
CallBefore(p) == [own |-> p, num |-> calls[p]]

(* The call p is in. *)
CallOf(p) == [own |-> p, num |-> calls'[p]]

(* A region claimed by p in this step is named after the call. *)
NameClaim(p) ==
  ids' = IF ring' = ring THEN ids
         ELSE [ids EXCEPT ![Stream(p)] = Append(@, CallOf(p))]

DEnterLog(p) ==
  /\ EnterLog(p)
  /\ accepted' = IF pc'[p] = "try" THEN accepted \cup {CallOf(p)} ELSE accepted
  /\ UNCHANGED << ids, out, refused >>

(* Fault: a full ring ends the call in either mode. *)
DTryClaimOnce(p) ==
  /\ \/ TryClaim(p) /\ pc'[p] # "full"
     \/ /\ pc[p] = "try" /\ IsFull(ring[0], Capacity[0])
        /\ pc' = [pc EXCEPT ![p] = "idle"]
        /\ UNCHANGED << opts, gpc, running, ring, calls, apc, draining, cur,
                        hadWork, dirty, token >>
  /\ NameClaim(p)
  /\ UNCHANGED << out, accepted, refused >>

DTryClaim(p) ==
  TryClaim(p) /\ NameClaim(p) /\ UNCHANGED << out, accepted, refused >>

DArchiveWrite(h) ==
  ArchiveWrite(h) /\ NameClaim(h) /\ UNCHANGED << out, accepted, refused >>

(* Fault: the record read last is the one written. *)
DTakeNewest ==
  /\ Take
  /\ LET q == {i \in DOMAIN ids[cur] : ~Held(ring[cur][i])}
     IN  out' = [out EXCEPT ![cur] =
                   Append(@, ids[cur][CHOOSE i \in q : \A j \in q : i >= j])]
  /\ UNCHANGED << ids, accepted, refused >>

(* Fault: after an error of the writer, the record is written again. *)
DTakeRetried ==
  /\ Take
  /\ LET r == Head(ids[cur])
     IN  \/ out' = [out EXCEPT ![cur] = Append(@, r)]
         \/ cur \in Failing /\ out' = [out EXCEPT ![cur] = @ \o << r, r >>]
  /\ UNCHANGED << ids, accepted, refused >>

(* The text goes to the writer, or is lost to its error. *)
DTake ==
  /\ Take
  /\ \/ /\ out' = [out EXCEPT ![cur] = Append(@, Head(ids[cur]))]
        /\ UNCHANGED refused
     \/ /\ cur \in Failing
        /\ refused' = refused \cup {Head(ids[cur])}
        /\ UNCHANGED out
  /\ UNCHANGED << ids, accepted >>

DropName ==
  ids' = [ids EXCEPT ![cur] = Tail(@)] /\ UNCHANGED << out, accepted, refused >>

DFormatPanic == FormatPanic /\ DropName
DReleaseRecord == ReleaseRecord /\ DropName

(* The steps that neither claim, read nor release. *)
Unnamed ==
  /\ UNCHANGED history
  /\ \/ Spawn \/ Publish \/ StopRunning \/ GuardStep
     \/ \E p \in LogThreads : CheckRunning(p) \/ UnparkRetry(p)
     \/ \E p \in Producers : Commit(p)
     \/ LoopCheck \/ NothingToPoll \/ Flush \/ Spin \/ Park \/ Unparked
     \/ ParkTimeout \/ DrainedStream \/ DrainFlush
     \/ Terminated

DNext ==
  \/ \E p \in LogThreads : DEnterLog(p) \/ DTryClaim(p)
  \/ \E h \in Handles : DArchiveWrite(h)
  \/ DTake \/ DFormatPanic \/ DReleaseRecord
  \/ Unnamed

DSpec == DInit /\ [][DNext]_dvars

-----------------------------------------------------------------------------
(* The abstract service: a read record has left its queue, though its      *)
(* region is released a step later, and the service is closed once the     *)
(* archiver has ended.                                                     *)

PlaceAt(s, i) ==
  [own |-> ids[s][i].own, num |-> ids[s][i].num, ready |-> ~Held(ring[s][i])]

AbstractPending ==
  [s \in Streams |->
    LET places == [i \in 1 .. Len(ids[s]) |-> PlaceAt(s, i)]
    IN  IF apc = "hold" /\ cur = s THEN Tail(places) ELSE places]

Service == INSTANCE LogService WITH
  Home <- [p \in Producers |-> Stream(p)],
  pending <- AbstractPending,
  written <- out,
  closed <- apc \in {"exited", "dead"}

(* Every step of the threads, the handles and the archiver is a step of    *)
(* the service or none at all: each stream is written in the order of its  *)
(* claims, nothing twice, nothing out of turn, nothing after the archiver. *)
(* This is Service!Spec, with its stuttering steps told apart first.       *)
IsService ==
  /\ Service!Init
  /\ [][(Service!vars)' # Service!vars => Service!Next]_(Service!vars)

(* The log is written in the order of each thread's calls, none twice,     *)
(* whatever the order of their timestamps (format.rs 42-47).               *)
OutputInCallOrder == Service!InCallOrder

(* Backoff "Guarantees delivery" (lib.rs 308, README.md 151), while the    *)
(* logger runs and its archiver lives: every accepted call that has        *)
(* returned is in the ring, or was written, or its writer refused it.      *)
BackoffLosesNothing ==
  opts.backpressure = "Backoff" /\ running /\ apc # "dead" =>
    \A c \in accepted :
      \/ calls[c.own] = c.num /\ pc[c.own] # "idle"
      \/ \E i \in DOMAIN ids[0] : ids[0][i] = c
      \/ \E i \in DOMAIN out[0] : out[0][i] = c
      \/ c \in refused
=============================================================================
