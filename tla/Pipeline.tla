------------------------------ MODULE Pipeline ------------------------------
(***************************************************************************)
(* inqjet from build() to the end of the guard's drop: the threads that    *)
(* log (logger.rs), the archive handles (archive.rs), the archiver thread  *)
(* (consumer.rs) and the guard (lib.rs), over one ring per stream.         *)
(*                                                                         *)
(* Stream 0 is the log stream, streams 1..NA are the archives in the order *)
(* of add_archive.  One step is one access to shared memory: the load of   *)
(* `running`, a try_claim, a commit, an unpark, a release of a region, a   *)
(* flush.  What a thread does to its own memory in between is part of the  *)
(* step.  Loads and stores of `running` are sequentially consistent here.  *)
(*                                                                         *)
(* The fields born and st of a region record, for the properties only,     *)
(* whether `running` was true when the region was claimed and when its     *)
(* claim was committed; no guard reads them except as "held or not".       *)
(***************************************************************************)
EXTENDS Naturals, Sequences, FiniteSets, LogBuf

CONSTANTS
  LogThreads,  \* threads that use the macros or the log facade
  Handles,     \* archive handles, clones included, each on its own thread
  NA,          \* number of archive streams
  StreamOf,    \* the archive stream of each handle
  Capacity,    \* capacity of each stream's ring, in records
  MaxCalls,    \* bound: calls a producer makes that is not in Tireless
  Tireless,    \* producers that never stop calling
  Panicky,     \* producers whose records may make their format function panic
  Options      \* the builder configurations under consideration

Streams == 0 .. NA
Producers == LogThreads \cup Handles

ASSUME ProducersAssumption == LogThreads \cap Handles = {}
ASSUME StreamsAssumption == NA \in Nat /\ StreamOf \in [Handles -> 1 .. NA]
ASSUME CapacityAssumption == Capacity \in [Streams -> Nat \ {0}]
ASSUME CallsAssumption == MaxCalls \in Nat
ASSUME OptionsAssumption ==
  Options \subseteq [backpressure : {"Backoff", "Drop"}, timed : BOOLEAN]

VARIABLES
  opts,      \* BackpressureMode, and whether timeout is Some(_)
  gpc,       \* the thread that builds the logger and drops its guard
  running,   \* the shared shutdown flag
  ring,      \* the ring of each stream
  pc,        \* where each producer is in its call
  calls,     \* calls made by each producer that counts them
  apc,       \* where the archiver is
  draining,  \* the archiver has left its main loop
  cur,       \* the stream the archiver is at
  hadWork,   \* had_work of the current round
  dirty,     \* per stream: written since the writer's last flush
  token      \* the permit of the archiver's Parker

vars == << opts, gpc, running, ring, pc, calls, apc, draining, cur, hadWork,
           dirty, token >>

Stream(p) == IF p \in LogThreads THEN 0 ELSE StreamOf[p]

Region == [own : Producers, born : BOOLEAN, st : {"held", "early", "late"}]

TypeOK ==
  /\ opts \in Options
  /\ gpc \in {"build", "spawned", "live", "stopped", "woken", "joined"}
  /\ running \in BOOLEAN
  /\ ring \in [Streams -> Seq(Region)]
  /\ pc \in [Producers -> {"idle", "try", "full", "wake", "hold"}]
  /\ calls \in [Producers -> 0 .. MaxCalls]
  /\ apc \in {"unborn", "check", "poll", "hold", "flush", "idle", "parked",
              "exited", "dead"}
  /\ draining \in BOOLEAN
  /\ cur \in Streams
  /\ hadWork \in BOOLEAN
  /\ dirty \in [Streams -> BOOLEAN]
  /\ token \in BOOLEAN

Init ==
  /\ opts \in Options
  /\ gpc = "build"
  /\ running = TRUE
  /\ ring = [s \in Streams |-> << >>]
  /\ pc = [p \in Producers |-> "idle"]
  /\ calls = [p \in Producers |-> 0]
  /\ apc = "unborn"
  /\ draining = FALSE
  /\ cur = 0
  /\ hadWork = FALSE
  /\ dirty = [s \in Streams |-> FALSE]
  /\ token = FALSE

-----------------------------------------------------------------------------
(* The owner: InqJetBuilder::build, then the drop of the guard. *)

(* thread::spawn: the archiver runs before the logger is published. *)
Spawn ==
  /\ gpc = "build"
  /\ gpc' = "spawned"
  /\ apc' = "check"
  /\ UNCHANGED << opts, running, ring, pc, calls, draining, cur, hadWork,
                  dirty, token >>

(* LOGGER.set: log calls get past LOGGER.get() from here on. *)
Publish ==
  /\ gpc = "spawned"
  /\ gpc' = "live"
  /\ UNCHANGED << opts, running, ring, pc, calls, apc, draining, cur,
                  hadWork, dirty, token >>

Published == gpc \notin {"build", "spawned"}

StopRunning ==
  /\ gpc = "live"
  /\ gpc' = "stopped"
  /\ running' = FALSE
  /\ UNCHANGED << opts, ring, pc, calls, apc, draining, cur, hadWork, dirty,
                  token >>

(* Fault: the drop of the guard does not wake the archiver. *)
GuardUnparkForgotten ==
  /\ gpc = "stopped"
  /\ gpc' = "woken"
  /\ UNCHANGED << opts, running, ring, pc, calls, apc, draining, cur,
                  hadWork, dirty, token >>

GuardUnpark ==
  /\ gpc = "stopped"
  /\ gpc' = "woken"
  /\ token' = TRUE
  /\ UNCHANGED << opts, running, ring, pc, calls, apc, draining, cur,
                  hadWork, dirty >>

(* JoinHandle::join returns, whether the archiver ended or panicked. *)
Join ==
  /\ gpc = "woken"
  /\ apc \in {"exited", "dead"}
  /\ gpc' = "joined"
  /\ UNCHANGED << opts, running, ring, pc, calls, apc, draining, cur,
                  hadWork, dirty, token >>

-----------------------------------------------------------------------------
(* Producers. *)

MayCall(p) == pc[p] = "idle" /\ (p \in Tireless \/ calls[p] < MaxCalls)

CountCall(p) ==
  calls' = IF p \in Tireless THEN calls ELSE [calls EXCEPT ![p] = @ + 1]

NewRegion(p) == [own |-> p, born |-> running, st |-> "held"]

ClaimRegion(p) ==
  ring' = [ring EXCEPT ![Stream(p)] = Claim(@, NewRegion(p))]

(* Fault: a log call does not look at `running`. *)
EnterLogUnchecked(p) ==
  /\ MayCall(p)
  /\ CountCall(p)
  /\ pc' = [pc EXCEPT ![p] = IF Published THEN "try" ELSE "idle"]
  /\ UNCHANGED << opts, gpc, running, ring, apc, draining, cur, hadWork,
                  dirty, token >>

(* A log call that passed the level gate: LOGGER.get(), running.load(). *)
EnterLog(p) ==
  /\ MayCall(p)
  /\ CountCall(p)
  /\ pc' = [pc EXCEPT ![p] = IF Published /\ running THEN "try" ELSE "idle"]
  /\ UNCHANGED << opts, gpc, running, ring, apc, draining, cur, hadWork,
                  dirty, token >>

(* Fault: a full ring is waited for in Drop mode too. *)
TryClaimAlwaysBackoff(p) ==
  /\ pc[p] = "try"
  /\ IF IsFull(ring[0], Capacity[0])
     THEN pc' = [pc EXCEPT ![p] = "full"] /\ UNCHANGED ring
     ELSE pc' = [pc EXCEPT ![p] = "hold"] /\ ClaimRegion(p)
  /\ UNCHANGED << opts, gpc, running, calls, apc, draining, cur, hadWork,
                  dirty, token >>

(* One round of the claim loop: Ok; or BufferFull, which ends a Drop call. *)
TryClaim(p) ==
  /\ pc[p] = "try"
  /\ \/ /\ ~IsFull(ring[0], Capacity[0])
        /\ ClaimRegion(p)
        /\ pc' = [pc EXCEPT ![p] = "hold"]
     \/ /\ IsFull(ring[0], Capacity[0])
        /\ opts.backpressure = "Drop"
        /\ pc' = [pc EXCEPT ![p] = "idle"]
        /\ UNCHANGED ring
     \/ /\ IsFull(ring[0], Capacity[0])
        /\ opts.backpressure = "Backoff"
        /\ pc' = [pc EXCEPT ![p] = "full"]
        /\ UNCHANGED ring
  /\ UNCHANGED << opts, gpc, running, calls, apc, draining, cur, hadWork,
                  dirty, token >>

(* Backoff: give up once the logger is stopping, else wake the archiver. *)
CheckRunning(p) ==
  /\ pc[p] = "full"
  /\ pc' = [pc EXCEPT ![p] = IF running THEN "wake" ELSE "idle"]
  /\ UNCHANGED << opts, gpc, running, ring, calls, apc, draining, cur,
                  hadWork, dirty, token >>

(* Fault: the waiting producer does not wake the archiver. *)
RetryWithoutUnpark(p) ==
  /\ pc[p] = "wake"
  /\ pc' = [pc EXCEPT ![p] = "try"]
  /\ UNCHANGED << opts, gpc, running, ring, calls, apc, draining, cur,
                  hadWork, dirty, token >>

(* unparker.unpark(), then snooze and try again. *)
UnparkRetry(p) ==
  /\ pc[p] = "wake"
  /\ token' = TRUE
  /\ pc' = [pc EXCEPT ![p] = "try"]
  /\ UNCHANGED << opts, gpc, running, ring, calls, apc, draining, cur,
                  hadWork, dirty >>

(* ArchiveHandle::write up to its claim: no look at `running`, no retry. *)
ArchiveWrite(h) ==
  LET s == Stream(h) IN
  /\ MayCall(h)
  /\ CountCall(h)
  /\ \/ /\ ~IsFull(ring[s], Capacity[s])
        /\ ClaimRegion(h)
        /\ pc' = [pc EXCEPT ![h] = "hold"]
     \/ /\ IsFull(ring[s], Capacity[s])
        /\ UNCHANGED << ring, pc >>
  /\ UNCHANGED << opts, gpc, running, apc, draining, cur, hadWork, dirty,
                  token >>

(* The bytes are in the region: claim.commit(). *)
Commit(p) ==
  LET s == Stream(p) IN
  /\ pc[p] = "hold"
  /\ \E i \in DOMAIN ring[s] :
       /\ ring[s][i].own = p
       /\ Held(ring[s][i])
       /\ ring' = [ring EXCEPT ![s] =
                     CommitAt(@, i, IF running THEN "early" ELSE "late")]
  /\ pc' = [pc EXCEPT ![p] = "idle"]
  /\ UNCHANGED << opts, gpc, running, calls, apc, draining, cur, hadWork,
                  dirty, token >>

-----------------------------------------------------------------------------
(* The archiver thread: archiver_loop. *)

(* while running.load(): a round of the main loop, or on to the drain. *)
LoopCheck ==
  /\ apc = "check"
  /\ apc' = "poll"
  /\ cur' = 0
  /\ hadWork' = FALSE
  /\ draining' = ~running
  /\ UNCHANGED << opts, gpc, running, ring, pc, calls, dirty, token >>

(* A record is there: format it and hand the text to the stream's writer. *)
Take ==
  /\ apc = "poll"
  /\ HasRecord(ring[cur])
  /\ apc' = "hold"
  /\ dirty' = [dirty EXCEPT ![cur] = TRUE]
  /\ hadWork' = ~draining
  /\ UNCHANGED << opts, gpc, running, ring, pc, calls, draining, cur, token >>

(* The format function runs code of the record's author, which may panic:  *)
(* unwinding drops the read claim and ends the thread.                     *)
FormatPanic ==
  /\ apc = "poll"
  /\ HasRecord(ring[cur])
  /\ Head(ring[cur]).own \in Panicky
  /\ apc' = "dead"
  /\ ring' = [ring EXCEPT ![cur] = Release(@)]
  /\ UNCHANGED << opts, gpc, running, pc, calls, draining, cur, hadWork,
                  dirty, token >>

(* Fault: the read claim releases the region behind the one read as well. *)
ReleaseTwo ==
  /\ apc = "hold"
  /\ apc' = "poll"
  /\ ring' = [ring EXCEPT ![cur] = IF Len(@) > 1 THEN Release(Release(@))
                                   ELSE Release(@)]
  /\ UNCHANGED << opts, gpc, running, pc, calls, draining, cur, hadWork,
                  dirty, token >>

(* The read claim goes out of scope. *)
ReleaseRecord ==
  /\ apc = "hold"
  /\ apc' = "poll"
  /\ ring' = [ring EXCEPT ![cur] = Release(@)]
  /\ UNCHANGED << opts, gpc, running, pc, calls, draining, cur, hadWork,
                  dirty, token >>

(* Fault: a round looks at the log stream only. *)
PollLogOnly ==
  /\ apc = "poll"
  /\ ~draining
  /\ ~HasRecord(ring[cur])
  /\ cur' = 0 /\ apc' = IF hadWork THEN "flush" ELSE "idle"
  /\ UNCHANGED << opts, gpc, running, ring, pc, calls, draining, hadWork,
                  dirty, token >>

(* Main loop, nothing to read: the next stream, or the end of the round. *)
NothingToPoll ==
  /\ apc = "poll"
  /\ ~draining
  /\ ~HasRecord(ring[cur])
  /\ IF cur < NA
     THEN cur' = cur + 1 /\ apc' = "poll"
     ELSE cur' = 0 /\ apc' = IF hadWork THEN "flush" ELSE "idle"
  /\ UNCHANGED << opts, gpc, running, ring, pc, calls, draining, hadWork,
                  dirty, token >>

(* Fault: only the log stream's writer is flushed. *)
FlushLogOnly ==
  /\ apc = "flush"
  /\ ~draining
  /\ dirty' = [dirty EXCEPT ![0] = FALSE]
  /\ cur' = 0 /\ apc' = "check"
  /\ UNCHANGED << opts, gpc, running, ring, pc, calls, draining, hadWork,
                  token >>

(* After the round, every writer is flushed. *)
Flush ==
  /\ apc = "flush"
  /\ ~draining
  /\ dirty' = [dirty EXCEPT ![cur] = FALSE]
  /\ IF cur < NA
     THEN cur' = cur + 1 /\ apc' = "flush"
     ELSE cur' = 0 /\ apc' = "check"
  /\ UNCHANGED << opts, gpc, running, ring, pc, calls, draining, hadWork,
                  token >>

(* timeout None: spin_loop and look again. *)
Spin ==
  /\ apc = "idle"
  /\ ~opts.timed
  /\ apc' = "check"
  /\ UNCHANGED << opts, gpc, running, ring, pc, calls, draining, cur,
                  hadWork, dirty, token >>

(* park_timeout: returns at once if the permit is there, else sleeps. *)
Park ==
  /\ apc = "idle"
  /\ opts.timed
  /\ apc' = IF token THEN "check" ELSE "parked"
  /\ token' = FALSE
  /\ UNCHANGED << opts, gpc, running, ring, pc, calls, draining, cur,
                  hadWork, dirty >>

Unparked ==
  /\ apc = "parked"
  /\ token
  /\ apc' = "check"
  /\ token' = FALSE
  /\ UNCHANGED << opts, gpc, running, ring, pc, calls, draining, cur,
                  hadWork, dirty >>

(* The duration is over; the permit, if it came meanwhile, is consumed. *)
ParkTimeout ==
  /\ apc = "parked"
  /\ apc' = "check"
  /\ token' = FALSE
  /\ UNCHANGED << opts, gpc, running, ring, pc, calls, draining, cur,
                  hadWork, dirty >>

(* Drain, nothing to read on this stream: flush its writer and go on. *)
DrainedStream ==
  /\ apc = "poll"
  /\ draining
  /\ ~HasRecord(ring[cur])
  /\ apc' = "flush"
  /\ UNCHANGED << opts, gpc, running, ring, pc, calls, draining, cur,
                  hadWork, dirty, token >>

(* Fault: the drain stops one stream early. *)
DrainStopsEarly ==
  /\ apc = "flush"
  /\ draining
  /\ dirty' = [dirty EXCEPT ![cur] = FALSE]
  /\ IF cur + 1 < NA
     THEN cur' = cur + 1 /\ apc' = "poll"
     ELSE cur' = cur /\ apc' = "exited"
  /\ UNCHANGED << opts, gpc, running, ring, pc, calls, draining, hadWork,
                  token >>

(* Fault: the drain goes one stream too far. *)
DrainGoesTooFar ==
  /\ apc = "flush"
  /\ draining
  /\ dirty' = [dirty EXCEPT ![cur] = FALSE]
  /\ IF cur <= NA
     THEN cur' = cur + 1 /\ apc' = "poll"
     ELSE cur' = cur /\ apc' = "exited"
  /\ UNCHANGED << opts, gpc, running, ring, pc, calls, draining, hadWork,
                  token >>

DrainFlush ==
  /\ apc = "flush"
  /\ draining
  /\ dirty' = [dirty EXCEPT ![cur] = FALSE]
  /\ IF cur < NA
     THEN cur' = cur + 1 /\ apc' = "poll"
     ELSE cur' = cur /\ apc' = "exited"
  /\ UNCHANGED << opts, gpc, running, ring, pc, calls, draining, hadWork,
                  token >>

-----------------------------------------------------------------------------
GuardStep == GuardUnpark \/ Join

LogStep(p) == TryClaim(p) \/ CheckRunning(p) \/ UnparkRetry(p) \/ Commit(p)

ArchiverStep ==
  \/ LoopCheck \/ Take \/ FormatPanic \/ ReleaseRecord
  \/ NothingToPoll \/ Flush \/ Spin \/ Park \/ Unparked
  \/ DrainedStream \/ DrainFlush

(* The guard's drop is over and no call is in progress or left to make. *)
Terminated ==
  /\ gpc = "joined"
  /\ \A p \in Producers : pc[p] = "idle" /\ ~MayCall(p)
  /\ UNCHANGED vars

Next ==
  \/ Spawn \/ Publish \/ StopRunning \/ GuardStep
  \/ \E p \in LogThreads : EnterLog(p) \/ LogStep(p)
  \/ \E h \in Handles : ArchiveWrite(h) \/ Commit(h)
  \/ ArchiverStep \/ ParkTimeout
  \/ Terminated

Spec == Init /\ [][Next]_vars

(* The scheduler runs every thread that can take a step: a producer inside *)
(* a call, the archiver, the guard once its drop has begun.  Nobody is     *)
(* forced to make a call or to drop the guard, and a park need not time    *)
(* out: its duration is the user's and may be as long as a Duration.       *)
ProducersRun ==
  /\ \A p \in LogThreads : WF_vars(LogStep(p))
  /\ \A h \in Handles : WF_vars(Commit(h))

FairSpec ==
  /\ Spec
  /\ ProducersRun
  /\ WF_vars(Spawn) /\ WF_vars(Publish)
  /\ WF_vars(ArchiverStep)
  /\ WF_vars(GuardStep)

(* As above, and every park ends after its duration. *)
TimedSpec == FairSpec /\ WF_vars(ParkTimeout)

-----------------------------------------------------------------------------
(* Safety. *)

OpenClaim(p, s, i) == ring[s][i].own = p /\ Held(ring[s][i])

(* A claim stays in its ring, at one place, until its producer commits it: *)
(* a thread is between try_claim and commit iff one region of its stream   *)
(* is its own and held, and never more than one is.  So the archiver never *)
(* releases, and no other claim ever reuses, a region still being written. *)
ClaimsStayInPlace ==
  \A p \in Producers :
    /\ pc[p] = "hold" <=> \E i \in DOMAIN ring[Stream(p)] :
                              OpenClaim(p, Stream(p), i)
    /\ \A i, j \in DOMAIN ring[Stream(p)] :
         OpenClaim(p, Stream(p), i) /\ OpenClaim(p, Stream(p), j) => i = j

(* Nothing handed to a writer waits in it while the archiver sleeps or     *)
(* after it ended: every stream has been flushed by then, on both the      *)
(* had_work path and the drain path.                                       *)
FlushedBeforeSleep ==
  apc \in {"idle", "parked", "exited"} => \A s \in Streams : ~dirty[s]

(* What the drain may leave behind: once the archiver has ended, the       *)
(* oldest region left in a ring was not committed before `running` went    *)
(* false.  Committed records are left only behind a claim that was still   *)
(* open when the drain came to it.                                         *)
DrainLeavesNoCommittedHead ==
  apc = "exited" =>
    \A s \in Streams : ring[s] # << >> => Head(ring[s]).st # "early"

LateClaim(p, i) == ring[0][i].own = p /\ ~ring[0][i].born

(* A thread that logs on after the guard dropped adds at most one record   *)
(* nobody will read: its call in progress.  Every later call sees          *)
(* `running` false.                                                        *)
OneLateRecordPerThread ==
  \A p \in LogThreads :
    \A i, j \in DOMAIN ring[0] : LateClaim(p, i) /\ LateClaim(p, j) => i = j

-----------------------------------------------------------------------------
(* What makes the safety properties inductive. *)

(* The region the archiver has read is still the oldest of its stream. *)
ReadClaimInPlace == apc = "hold" => HasRecord(ring[cur])

(* Which writers may hold unflushed text, by where the archiver is. *)
DirtyIsTracked ==
  /\ gpc = "build" => apc = "unborn"
  /\ apc \in {"unborn", "check", "idle", "parked"} =>
       ~draining /\ \A s \in Streams : ~dirty[s]
  /\ apc \in {"poll", "hold"} /\ ~draining /\ ~hadWork =>
       \A s \in Streams : ~dirty[s]
  /\ apc = "flush" /\ ~draining => \A s \in Streams : s < cur => ~dirty[s]
  /\ apc \in {"poll", "hold", "flush"} /\ draining =>
       \A s \in Streams : s # cur => ~dirty[s]
  /\ apc = "exited" => draining /\ \A s \in Streams : ~dirty[s]

(* The streams the drain is done with. *)
Drained(s) ==
  draining /\ (s < cur \/ apc = "exited" \/ (s = cur /\ apc = "flush"))

DrainedHaveNoCommittedHead ==
  /\ draining => ~running
  /\ \A s \in Streams :
       Drained(s) /\ ring[s] # << >> => Head(ring[s]).st # "early"

(* A late claim is a thread's last: no call of that thread is looking for  *)
(* room any more, and none can begin.                                      *)
LateClaimIsLast ==
  /\ running => \A i \in DOMAIN ring[0] : ring[0][i].born
  /\ \A p \in LogThreads : \A i \in DOMAIN ring[0] :
       LateClaim(p, i) => pc[p] \in {"idle", "hold"}

-----------------------------------------------------------------------------
(* Liveness. *)

(* Dropping the guard ends, without help from the park's timeout, however  *)
(* busily the log threads call: the store to `running` comes before the    *)
(* unpark, and log calls stop claiming once they see it.                   *)
GuardDropReturns == gpc = "stopped" ~> gpc = "joined"

(* A Backoff call ends, without help from the park's timeout: the caller   *)
(* wakes the archiver while it waits, or gives up when the logger stops.   *)
BackoffCallReturns ==
  \A p \in LogThreads :
    pc[p] # "idle" /\ opts.backpressure = "Backoff" ~> pc[p] = "idle"

(* A Drop call ends, whether the archiver lives, sleeps or has died. *)
DropCallReturns ==
  \A p \in LogThreads :
    pc[p] # "idle" /\ opts.backpressure = "Drop" ~> pc[p] = "idle"

(* While the logger runs, whatever is in a ring or in a writer's buffer    *)
(* comes out: a time comes with every ring empty and every writer flushed. *)
(* Committing wakes nobody, so this one rests on parks that time out.      *)
CaughtUp == \A s \in Streams : ring[s] = << >> /\ ~dirty[s]

EverythingComesOut ==
  WF_vars(ParkTimeout) => (~CaughtUp ~> CaughtUp \/ ~running)

-----------------------------------------------------------------------------
(* What the documentation of the guard's drop says, and the code does not. *)

(* "Joins the thread (drains remaining records, flushes writer)", with     *)
(* records mid-claim at the drop as the one exception (lib.rs 333-336): no *)
(* record committed before the drop is left in the log ring.  A claim that *)
(* is still open hides the committed records behind it from the drain.     *)
DropDrainsCommitted ==
  gpc = "joined" /\ apc = "exited" =>
    \A i \in DOMAIN ring[0] : ring[0][i].st # "early"
=============================================================================
