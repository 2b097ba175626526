--------------------------- MODULE PipelineProofs ---------------------------
(***************************************************************************)
(* The safety properties of Pipeline, proved for every number of threads,  *)
(* handles and archives, every capacity and every number of calls.         *)
(***************************************************************************)
EXTENDS Pipeline, TLAPS

-----------------------------------------------------------------------------
(* The ring operators. *)

(* A claim adds its region behind the ones already there. *)
LEMMA ClaimFacts ==
  ASSUME NEW q \in Seq(Region), NEW e \in Region
  PROVE  /\ Claim(q, e) \in Seq(Region)
         /\ DOMAIN Claim(q, e) = DOMAIN q \cup {Len(q) + 1}
         /\ Len(q) + 1 \notin DOMAIN q
         /\ \A i \in DOMAIN q : Claim(q, e)[i] = q[i]
         /\ Claim(q, e)[Len(q) + 1] = e
  BY DEF Claim

(* It is the oldest one only of a ring that was empty. *)
LEMMA ClaimHead ==
  ASSUME NEW q \in Seq(Region), NEW e \in Region
  PROVE  /\ Claim(q, e) # << >>
         /\ Head(Claim(q, e)) = IF q = << >> THEN e ELSE Head(q)
<1>1. CASE q = << >>
  BY <1>1 DEF Claim
<1>2. CASE q # << >>
  BY <1>2 DEF Claim
<1> QED
  BY <1>1, <1>2

(* A commit changes the field st of one region and nothing else. *)
LEMMA CommitRegion ==
  ASSUME NEW q \in Seq(Region), NEW k \in DOMAIN q, NEW st \in {"early", "late"}
  PROVE  \E new \in Region :
           /\ CommitAt(q, k, st) = [q EXCEPT ![k] = new]
           /\ new.own = q[k].own /\ new.born = q[k].born /\ new.st = st
<1> DEFINE new == [q[k] EXCEPT !.st = st]
<1>0. q[k] \in Region
  OBVIOUS
<1>1. new \in Region /\ new.own = q[k].own /\ new.born = q[k].born /\ new.st = st
  BY <1>0 DEF Region
<1>2. CommitAt(q, k, st) = [q EXCEPT ![k] = new]
  BY DEF CommitAt
<1> HIDE DEF new
<1> QED
  BY <1>1, <1>2

CommitOutcome(q, k, st, new) ==
  /\ new \in Seq(Region)
  /\ DOMAIN new = DOMAIN q
  /\ \A i \in DOMAIN q : new[i].own = q[i].own /\ new[i].born = q[i].born
  /\ \A i \in DOMAIN q : i # k => new[i] = q[i]
  /\ new[k].st = st

LEMMA CommitFacts ==
  ASSUME NEW q \in Seq(Region), NEW k \in DOMAIN q, NEW st \in {"early", "late"}
  PROVE  CommitOutcome(q, k, st, CommitAt(q, k, st))
<1>1. PICK new \in Region :
        /\ CommitAt(q, k, st) = [q EXCEPT ![k] = new]
        /\ new.own = q[k].own /\ new.born = q[k].born /\ new.st = st
  BY CommitRegion
<1>2. /\ [q EXCEPT ![k] = new] \in Seq(Region)
      /\ DOMAIN [q EXCEPT ![k] = new] = DOMAIN q
      /\ \A i \in DOMAIN q : [q EXCEPT ![k] = new][i] = IF i = k THEN new ELSE q[i]
  OBVIOUS
<1> QED
  BY <1>1, <1>2 DEF CommitOutcome

(* The oldest region is the same one, committed now or as it was. *)
LEMMA CommitHead ==
  ASSUME NEW q \in Seq(Region), NEW k \in DOMAIN q, NEW st \in {"early", "late"}
  PROVE  /\ q # << >> /\ CommitAt(q, k, st) # << >>
         /\ Head(CommitAt(q, k, st)).st = IF k = 1 THEN st ELSE Head(q).st
<1>1. PICK new \in Region :
        CommitAt(q, k, st) = [q EXCEPT ![k] = new] /\ new.st = st
  BY CommitRegion
<1>2. /\ q # << >> /\ [q EXCEPT ![k] = new] # << >>
      /\ Head([q EXCEPT ![k] = new]) = IF k = 1 THEN new ELSE Head(q)
  OBVIOUS
<1> QED
  BY <1>1, <1>2

(* A release takes the oldest region away and keeps the order of the rest. *)
LEMMA ReleaseFacts ==
  ASSUME NEW q \in Seq(Region), q # << >>
  PROVE  /\ Release(q) \in Seq(Region)
         /\ 1 \in DOMAIN q /\ q[1] = Head(q)
         /\ \A i \in DOMAIN Release(q) : i + 1 \in DOMAIN q
         /\ \A i \in DOMAIN Release(q) : Release(q)[i] = q[i + 1]
         /\ \A i \in DOMAIN q : i # 1 => i - 1 \in DOMAIN Release(q)
         /\ \A i \in DOMAIN q : i # 1 => Release(q)[i - 1] = q[i]
         /\ DOMAIN q \subseteq Nat /\ DOMAIN Release(q) \subseteq Nat
  BY DEF Release

(* Every producer has a stream: log threads the log, handles an archive. *)
LEMMA StreamFacts ==
  /\ 0 \in Streams /\ NA \in Streams /\ Streams \subseteq Nat
  /\ \A p \in Producers : Stream(p) \in Streams
  /\ \A p \in LogThreads : Stream(p) = 0
  /\ \A h \in Handles : Stream(h) # 0
  BY StreamsAssumption, ProducersAssumption DEF Streams, Stream, Producers
-----------------------------------------------------------------------------
(* Type correctness.  Releasing needs a region to be there, hence the      *)
(* second conjunct.                                                        *)

Typed == TypeOK /\ ReadClaimInPlace

LEMMA InitTyped == Init => Typed
  BY OptionsAssumption, CallsAssumption, StreamFacts
  DEF Init, Typed, TypeOK, ReadClaimInPlace, Producers

(* What a step may do to a ring that holds a read record: nothing that     *)
(* takes it away.                                                          *)
LEMMA HasRecordStable ==
  ASSUME NEW q \in Seq(Region), HasRecord(q)
  PROVE  /\ \A e \in Region : HasRecord(Claim(q, e))
         /\ \A k \in DOMAIN q, st \in {"early", "late"} :
              HasRecord(CommitAt(q, k, st))
<1>1. ASSUME NEW e \in Region PROVE HasRecord(Claim(q, e))
  BY ClaimHead DEF HasRecord
<1>2. ASSUME NEW k \in DOMAIN q, NEW st \in {"early", "late"}
      PROVE  HasRecord(CommitAt(q, k, st))
  <2>1. /\ CommitAt(q, k, st) # << >>
        /\ Head(CommitAt(q, k, st)).st = IF k = 1 THEN st ELSE Head(q).st
    BY CommitHead
  <2>2. Head(q).st # "held" /\ st # "held"
    BY DEF HasRecord, Held
  <2> QED
    BY <2>1, <2>2 DEF HasRecord, Held
<1> QED
  BY <1>1, <1>2

LEMMA NewRegionType ==
  ASSUME TypeOK, NEW p \in Producers
  PROVE  NewRegion(p) \in Region
  BY DEF TypeOK, NewRegion, Region

(* The calls a producer has made stay within the bound. *)
LEMMA CountCallType ==
  ASSUME TypeOK, NEW p \in Producers, MayCall(p), CountCall(p)
  PROVE  calls' \in [Producers -> 0 .. MaxCalls]
<1>1. CASE p \in Tireless
  BY <1>1 DEF TypeOK, CountCall
<1>2. CASE p \notin Tireless
  <2>1. calls[p] \in 0 .. MaxCalls /\ calls[p] < MaxCalls
    BY <1>2 DEF TypeOK, MayCall
  <2>2. calls[p] + 1 \in 0 .. MaxCalls
    BY <2>1, CallsAssumption
  <2> QED
    BY <1>2, <2>2 DEF TypeOK, CountCall
<1> QED
  BY <1>1, <1>2

(* A claim and a commit keep the rings well typed and the read record in   *)
(* its place.                                                              *)
LEMMA ClaimRegionTyped ==
  ASSUME Typed, NEW p \in Producers, ClaimRegion(p), UNCHANGED << apc, cur >>
  PROVE  ring' \in [Streams -> Seq(Region)] /\ ReadClaimInPlace'
<1> DEFINE s == Stream(p)
<1>1. ring \in [Streams -> Seq(Region)] /\ cur \in Streams /\ s \in Streams
  BY StreamFacts DEF Typed, TypeOK
<1>2. NewRegion(p) \in Region
  BY NewRegionType DEF Typed
<1>3. ring' = [ring EXCEPT ![s] = Claim(ring[s], NewRegion(p))]
  BY DEF ClaimRegion
<1> HIDE DEF s
<1>4. Claim(ring[s], NewRegion(p)) \in Seq(Region)
  BY <1>1, <1>2, ClaimFacts
<1>5. HasRecord(ring[cur]) => HasRecord(ring'[cur])
  BY <1>1, <1>2, <1>3, HasRecordStable
<1> QED
  BY <1>1, <1>3, <1>4, <1>5 DEF Typed, ReadClaimInPlace

LEMMA CommitTyped ==
  ASSUME Typed, NEW p \in Producers, Commit(p)
  PROVE  ring' \in [Streams -> Seq(Region)] /\ ReadClaimInPlace'
<1> DEFINE s == Stream(p)
           st == IF running THEN "early" ELSE "late"
<1>1. ring \in [Streams -> Seq(Region)] /\ cur \in Streams /\ s \in Streams
  BY StreamFacts DEF Typed, TypeOK
<1>2. PICK k \in DOMAIN ring[s] :
         ring' = [ring EXCEPT ![s] = CommitAt(ring[s], k, st)]
  BY DEF Commit
<1>3. st \in {"early", "late"}
  OBVIOUS
<1> HIDE DEF s, st
<1>4. CommitAt(ring[s], k, st) \in Seq(Region)
  BY <1>1, <1>3, CommitFacts DEF CommitOutcome
<1>5. HasRecord(ring[cur]) => HasRecord(ring'[cur])
  BY <1>1, <1>2, <1>3, HasRecordStable
<1>6. UNCHANGED << apc, cur >>
  BY DEF Commit
<1> QED
  BY <1>1, <1>2, <1>4, <1>5, <1>6 DEF Typed, ReadClaimInPlace

LEMMA NextTyped == Typed /\ [Next]_vars => Typed'
<1> SUFFICES ASSUME Typed, [Next]_vars PROVE Typed'
  OBVIOUS
<1> USE StreamFacts DEF Typed
<1> USE DEF TypeOK
<1>1. CASE Spawn
  BY <1>1 DEF Spawn, ReadClaimInPlace
<1>2. CASE Publish
  BY <1>2 DEF Publish, ReadClaimInPlace
<1>3. CASE StopRunning
  BY <1>3 DEF StopRunning, ReadClaimInPlace
<1>4. CASE GuardUnpark
  BY <1>4 DEF GuardUnpark, ReadClaimInPlace
<1>5. CASE Join
  BY <1>5 DEF Join, ReadClaimInPlace
<1>6. ASSUME NEW p \in LogThreads, EnterLog(p) PROVE Typed'
  <2>1. calls' \in [Producers -> 0 .. MaxCalls]
    BY <1>6, CountCallType DEF EnterLog, Producers
  <2> QED
    BY <1>6, <2>1 DEF EnterLog, ReadClaimInPlace
<1>7. ASSUME NEW p \in LogThreads, TryClaim(p) PROVE Typed'
  <2>1. CASE ClaimRegion(p)
    <3>1. ring' \in [Streams -> Seq(Region)] /\ ReadClaimInPlace'
      BY <1>7, <2>1, ClaimRegionTyped DEF TryClaim, Producers
    <3> QED
      BY <1>7, <3>1 DEF TryClaim
  <2>2. CASE UNCHANGED ring
    <3>1. pc' \in [Producers -> {"idle", "try", "full", "wake", "hold"}]
      BY <1>7 DEF TryClaim
    <3> QED
      BY <1>7, <2>2, <3>1 DEF TryClaim, ReadClaimInPlace
  <2> QED
    BY <1>7, <2>1, <2>2 DEF TryClaim
<1>8. ASSUME NEW p \in LogThreads, CheckRunning(p) PROVE Typed'
  BY <1>8 DEF CheckRunning, ReadClaimInPlace
<1>9. ASSUME NEW p \in LogThreads, UnparkRetry(p) PROVE Typed'
  BY <1>9 DEF UnparkRetry, ReadClaimInPlace
<1>10. ASSUME NEW p \in Producers, Commit(p) PROVE Typed'
  <2>1. ring' \in [Streams -> Seq(Region)] /\ ReadClaimInPlace'
    BY <1>10, CommitTyped
  <2> QED
    BY <1>10, <2>1 DEF Commit
<1>11. ASSUME NEW h \in Handles, ArchiveWrite(h) PROVE Typed'
  <2>1. calls' \in [Producers -> 0 .. MaxCalls]
    BY <1>11, CountCallType DEF ArchiveWrite, Producers
  <2>2. CASE ClaimRegion(h)
    <3>1. ring' \in [Streams -> Seq(Region)] /\ ReadClaimInPlace'
      BY <1>11, <2>2, ClaimRegionTyped DEF ArchiveWrite, Producers
    <3> QED
      BY <1>11, <2>1, <3>1 DEF ArchiveWrite
  <2>3. CASE UNCHANGED ring
    BY <1>11, <2>1, <2>3 DEF ArchiveWrite, ReadClaimInPlace
  <2> QED
    BY <1>11, <2>2, <2>3 DEF ArchiveWrite
<1>12. CASE LoopCheck
  BY <1>12 DEF LoopCheck, ReadClaimInPlace
<1>13. CASE Take
  BY <1>13 DEF Take, ReadClaimInPlace
<1>14. CASE FormatPanic
  BY <1>14, ReleaseFacts DEF FormatPanic, ReadClaimInPlace, HasRecord
<1>15. CASE ReleaseRecord
  BY <1>15, ReleaseFacts DEF ReleaseRecord, ReadClaimInPlace, HasRecord
<1>16. CASE NothingToPoll
  BY <1>16, StreamsAssumption DEF NothingToPoll, ReadClaimInPlace, Streams
<1>17. CASE Flush
  BY <1>17, StreamsAssumption DEF Flush, ReadClaimInPlace, Streams
<1>18. CASE Spin
  BY <1>18 DEF Spin, ReadClaimInPlace
<1>19. CASE Park
  BY <1>19 DEF Park, ReadClaimInPlace
<1>20. CASE Unparked
  BY <1>20 DEF Unparked, ReadClaimInPlace
<1>21. CASE ParkTimeout
  BY <1>21 DEF ParkTimeout, ReadClaimInPlace
<1>22. CASE DrainedStream
  BY <1>22 DEF DrainedStream, ReadClaimInPlace
<1>23. CASE DrainFlush
  BY <1>23, StreamsAssumption DEF DrainFlush, ReadClaimInPlace, Streams
<1>24. CASE UNCHANGED vars
  BY <1>24 DEF vars, ReadClaimInPlace
<1> QED
  BY <1>1, <1>2, <1>3, <1>4, <1>5, <1>6, <1>7, <1>8, <1>9, <1>10, <1>11,
     <1>12, <1>13, <1>14, <1>15, <1>16, <1>17, <1>18, <1>19, <1>20, <1>21,
     <1>22, <1>23, <1>24
  DEF Next, GuardStep, LogStep, ArchiverStep, Terminated, Producers

(* Every variable stays in its type, and the region the archiver is        *)
(* reading stays the oldest of its ring (consumer.rs 42-54, 58-63).        *)
THEOREM TypeCorrect == Spec => []TypeOK
<1>1. Spec => []Typed
  BY InitTyped, NextTyped, PTL DEF Spec
<1> QED
  BY <1>1, PTL DEF Typed
-----------------------------------------------------------------------------
(* Who moves the archiver's own variables: the archiver and Spawn. *)

OthersStep ==
  \/ Publish \/ StopRunning \/ GuardStep
  \/ \E p \in LogThreads : EnterLog(p) \/ LogStep(p)
  \/ \E h \in Handles : ArchiveWrite(h) \/ Commit(h)

StillBuilt == gpc' = "build" => gpc = "build"

LEMMA OthersLeaveArchiver ==
  OthersStep => UNCHANGED << apc, draining, cur, hadWork, dirty >> /\ StillBuilt
<1>1. Publish \/ StopRunning \/ GuardStep
        => UNCHANGED << apc, draining, cur, hadWork, dirty >> /\ StillBuilt
  BY DEF StillBuilt, Publish, StopRunning, GuardStep, GuardUnpark, Join
<1>2. ASSUME NEW p \in LogThreads, EnterLog(p) \/ LogStep(p)
      PROVE  UNCHANGED << apc, draining, cur, hadWork, dirty >> /\ StillBuilt
  BY <1>2 DEF StillBuilt, EnterLog, LogStep, TryClaim, CheckRunning, UnparkRetry,
              Commit
<1>3. ASSUME NEW h \in Handles, ArchiveWrite(h) \/ Commit(h)
      PROVE  UNCHANGED << apc, draining, cur, hadWork, dirty >> /\ StillBuilt
  BY <1>3 DEF StillBuilt, ArchiveWrite, Commit
<1> QED
  BY <1>1, <1>2, <1>3 DEF OthersStep

-----------------------------------------------------------------------------
(* Flushing.  What may be unflushed depends on where the archiver is: the  *)
(* main loop remembers in had_work that it wrote, the drain flushes each   *)
(* stream before it goes on to the next.                                   *)

LEMMA InitDirty == Init => DirtyIsTracked
  BY DEF Init, DirtyIsTracked

LEMMA NextDirty == Typed /\ DirtyIsTracked /\ [Next]_vars => DirtyIsTracked'
<1> SUFFICES ASSUME Typed, DirtyIsTracked, [Next]_vars PROVE DirtyIsTracked'
  OBVIOUS
<1> USE StreamsAssumption DEF Typed, TypeOK, DirtyIsTracked, Streams
<1>1. CASE UNCHANGED << apc, draining, cur, hadWork, dirty >> /\ StillBuilt
  BY <1>1 DEF StillBuilt
<1>2. CASE Spawn
  BY <1>2 DEF Spawn
<1>3. CASE LoopCheck
  BY <1>3 DEF LoopCheck
<1>4. CASE Take
  BY <1>4 DEF Take
<1>5. CASE FormatPanic
  BY <1>5 DEF FormatPanic
<1>6. CASE ReleaseRecord
  BY <1>6 DEF ReleaseRecord
<1>7. CASE NothingToPoll
  BY <1>7 DEF NothingToPoll
<1>8. CASE Flush
  BY <1>8 DEF Flush
<1>9. CASE Spin \/ Park \/ Unparked \/ ParkTimeout
  BY <1>9 DEF Spin, Park, Unparked, ParkTimeout
<1>10. CASE DrainedStream
  BY <1>10 DEF DrainedStream
<1>11. CASE DrainFlush
  BY <1>11 DEF DrainFlush
<1>12. CASE OthersStep
  BY <1>1, <1>12, OthersLeaveArchiver
<1>13. CASE UNCHANGED vars
  BY <1>1, <1>13 DEF vars, StillBuilt
<1> QED
  BY <1>2, <1>3, <1>4, <1>5, <1>6, <1>7, <1>8, <1>9, <1>10, <1>11, <1>12, <1>13
  DEF Next, OthersStep, ArchiverStep, Terminated

(* No text waits in a writer while the archiver sleeps or once it has      *)
(* ended (consumer.rs 66-75, 96, 104).                                     *)
THEOREM FlushBeforeSleep == Spec => []FlushedBeforeSleep
<1>1. DirtyIsTracked => FlushedBeforeSleep
  BY DEF DirtyIsTracked, FlushedBeforeSleep
<1> QED
  BY <1>1, InitTyped, NextTyped, InitDirty, NextDirty, PTL DEF Spec

-----------------------------------------------------------------------------
(* The drain.  Once `running` is false a commit is late, so the head of a  *)
(* stream the drain has found empty, or hidden by an open claim, can no    *)
(* longer become a record that was committed in time.                      *)

LEMMA InitDrained == Init => DrainedHaveNoCommittedHead
  BY DEF Init, DrainedHaveNoCommittedHead

LEMMA ClaimKeepsDrained ==
  ASSUME Typed, DrainedHaveNoCommittedHead, NEW p \in Producers,
         ClaimRegion(p), UNCHANGED << apc, draining, cur, running >>
  PROVE  DrainedHaveNoCommittedHead'
<1> SUFFICES ASSUME NEW s \in Streams, Drained(s), ring'[s] # << >>
             PROVE  Head(ring'[s]).st # "early"
  BY DEF DrainedHaveNoCommittedHead, Drained
<1>1. ring \in [Streams -> Seq(Region)] /\ Stream(p) \in Streams
  BY StreamFacts DEF Typed, TypeOK
<1>2. NewRegion(p) \in Region /\ NewRegion(p).st = "held"
  BY NewRegionType DEF Typed, NewRegion
<1>3. ring[s] # << >> => Head(ring[s]).st # "early"
  BY DEF DrainedHaveNoCommittedHead
<1>4. CASE s = Stream(p)
  <2>1. ring'[s] = Claim(ring[s], NewRegion(p))
    BY <1>1, <1>4 DEF ClaimRegion
  <2>2. ring[s] \in Seq(Region)
    BY <1>1
  <2> QED
    BY <1>2, <1>3, <2>1, <2>2, ClaimHead
<1>5. CASE s # Stream(p)
  BY <1>1, <1>3, <1>5 DEF ClaimRegion
<1> QED
  BY <1>4, <1>5

LEMMA CommitKeepsDrained ==
  ASSUME Typed, DrainedHaveNoCommittedHead, NEW p \in Producers, Commit(p)
  PROVE  DrainedHaveNoCommittedHead'
<1>1. UNCHANGED << apc, draining, cur, running >>
  BY DEF Commit
<1> SUFFICES ASSUME NEW s \in Streams, Drained(s), ring'[s] # << >>
             PROVE  Head(ring'[s]).st # "early"
  BY <1>1 DEF DrainedHaveNoCommittedHead, Drained
<1>2. ring \in [Streams -> Seq(Region)] /\ Stream(p) \in Streams
  BY StreamFacts DEF Typed, TypeOK
<1>3. ~running
  BY DEF DrainedHaveNoCommittedHead, Drained
<1>4. PICK k \in DOMAIN ring[Stream(p)] :
         ring' = [ring EXCEPT ![Stream(p)] = CommitAt(ring[Stream(p)], k, "late")]
  BY <1>3 DEF Commit
<1>5. ring[s] # << >> => Head(ring[s]).st # "early"
  BY DEF DrainedHaveNoCommittedHead
<1>6. CASE s = Stream(p)
  <2>1. ring'[s] = CommitAt(ring[s], k, "late") /\ k \in DOMAIN ring[s]
    BY <1>2, <1>4, <1>6
  <2>2. ring[s] \in Seq(Region)
    BY <1>2
  <2>3. /\ ring[s] # << >>
        /\ Head(CommitAt(ring[s], k, "late")).st =
             IF k = 1 THEN "late" ELSE Head(ring[s]).st
    BY <2>1, <2>2, CommitHead
  <2> QED
    BY <1>5, <2>1, <2>3
<1>7. CASE s # Stream(p)
  BY <1>2, <1>4, <1>5, <1>7
<1> QED
  BY <1>6, <1>7

LEMMA NextDrained ==
  Typed /\ DirtyIsTracked /\ DrainedHaveNoCommittedHead /\ [Next]_vars
    => DrainedHaveNoCommittedHead'
<1> SUFFICES ASSUME Typed, DirtyIsTracked, DrainedHaveNoCommittedHead, [Next]_vars
             PROVE  DrainedHaveNoCommittedHead'
  OBVIOUS
<1> USE StreamsAssumption DEF Typed, TypeOK, Streams
<1>1. CASE UNCHANGED << apc, draining, cur, running, ring >>
  BY <1>1 DEF DrainedHaveNoCommittedHead, Drained
<1>2. CASE Spawn
  BY <1>2 DEF Spawn, DrainedHaveNoCommittedHead, Drained, DirtyIsTracked
<1>3. CASE StopRunning
  BY <1>3 DEF StopRunning, DrainedHaveNoCommittedHead, Drained
<1>4. CASE LoopCheck
  BY <1>4 DEF LoopCheck, DrainedHaveNoCommittedHead, Drained
<1>5. CASE Take
  BY <1>5 DEF Take, DrainedHaveNoCommittedHead, Drained
<1>6. CASE FormatPanic
  BY <1>6 DEF FormatPanic, DrainedHaveNoCommittedHead, Drained
<1>7. CASE ReleaseRecord
  BY <1>7 DEF ReleaseRecord, DrainedHaveNoCommittedHead, Drained
<1>8. CASE NothingToPoll \/ Flush
  BY <1>8 DEF NothingToPoll, Flush, DrainedHaveNoCommittedHead, Drained
<1>9. CASE Spin \/ Park \/ Unparked \/ ParkTimeout
  BY <1>9 DEF Spin, Park, Unparked, ParkTimeout, DrainedHaveNoCommittedHead,
              Drained
<1>10. CASE DrainedStream
  <2> SUFFICES ASSUME NEW s \in Streams, Drained(s)', ring[s] # << >>
               PROVE  Head(ring[s]).st # "early"
    BY <1>10 DEF DrainedStream, DrainedHaveNoCommittedHead, Drained
  <2>1. CASE s = cur
    BY <1>10, <2>1 DEF DrainedStream, HasRecord, Held
  <2>2. CASE s # cur
    BY <1>10, <2>2 DEF DrainedStream, DrainedHaveNoCommittedHead, Drained
  <2> QED
    BY <2>1, <2>2
<1>11. CASE DrainFlush
  BY <1>11 DEF DrainFlush, DrainedHaveNoCommittedHead, Drained
<1>12. CASE Publish \/ GuardStep
  BY <1>1, <1>12 DEF Publish, GuardStep, GuardUnpark, Join
<1>13. ASSUME NEW p \in LogThreads, EnterLog(p) \/ LogStep(p)
       PROVE  DrainedHaveNoCommittedHead'
  <2>1. CASE EnterLog(p) \/ CheckRunning(p) \/ UnparkRetry(p)
    BY <1>1, <2>1 DEF EnterLog, CheckRunning, UnparkRetry
  <2>2. CASE TryClaim(p)
    <3>1. CASE ClaimRegion(p)
      BY <2>2, <3>1, ClaimKeepsDrained DEF TryClaim, Producers
    <3>2. CASE UNCHANGED ring
      BY <1>1, <2>2, <3>2 DEF TryClaim
    <3> QED
      BY <2>2, <3>1, <3>2 DEF TryClaim
  <2>3. CASE Commit(p)
    BY <2>3, CommitKeepsDrained DEF Producers
  <2> QED
    BY <1>13, <2>1, <2>2, <2>3 DEF LogStep
<1>14. ASSUME NEW h \in Handles, ArchiveWrite(h) \/ Commit(h)
       PROVE  DrainedHaveNoCommittedHead'
  <2>1. CASE ArchiveWrite(h)
    <3>1. CASE ClaimRegion(h)
      BY <2>1, <3>1, ClaimKeepsDrained DEF ArchiveWrite, Producers
    <3>2. CASE UNCHANGED ring
      BY <1>1, <2>1, <3>2 DEF ArchiveWrite
    <3> QED
      BY <2>1, <3>1, <3>2 DEF ArchiveWrite
  <2>2. CASE Commit(h)
    BY <2>2, CommitKeepsDrained DEF Producers
  <2> QED
    BY <1>14, <2>1, <2>2
<1>15. CASE UNCHANGED vars
  BY <1>1, <1>15 DEF vars
<1> QED
  BY <1>2, <1>3, <1>4, <1>5, <1>6, <1>7, <1>8, <1>9, <1>10, <1>11, <1>12, <1>13,
     <1>14, <1>15
  DEF Next, ArchiverStep, Terminated

(* When the archiver has ended, whatever is left in a ring lies behind a   *)
(* region that was not committed when `running` went false: the drain of   *)
(* consumer.rs 79-105 leaves no committed record it could have read.       *)
THEOREM DrainIsComplete == Spec => []DrainLeavesNoCommittedHead
<1>1. DirtyIsTracked /\ DrainedHaveNoCommittedHead => DrainLeavesNoCommittedHead
  BY DEF DirtyIsTracked, DrainedHaveNoCommittedHead, Drained,
         DrainLeavesNoCommittedHead
<1> QED
  BY <1>1, InitTyped, NextTyped, InitDirty, NextDirty, InitDrained, NextDrained,
     PTL
  DEF Spec
-----------------------------------------------------------------------------
(* At most one late record per thread.  A claim made after `running` went  *)
(* false belongs to a call that saw it true; that call is over with the    *)
(* claim, and no later call gets past its own look at `running`.           *)

Late == LateClaimIsLast /\ OneLateRecordPerThread

LEMMA InitLate == Init => Late
<1> SUFFICES ASSUME Init PROVE Late
  OBVIOUS
<1>1. ring[0] = << >>
  BY StreamFacts DEF Init
<1> QED
  BY <1>1 DEF Late, LateClaimIsLast, OneLateRecordPerThread, LateClaim

LEMMA ClaimKeepsLate ==
  ASSUME Typed, Late, NEW p \in LogThreads, pc[p] = "try", ClaimRegion(p),
         pc' = [pc EXCEPT ![p] = "hold"], UNCHANGED running
  PROVE  Late'
<1> DEFINE q == ring[0]
           e == NewRegion(p)
<1>1. q \in Seq(Region) /\ e \in Region /\ e.own = p /\ e.born = running
  BY StreamFacts, NewRegionType DEF Typed, TypeOK, NewRegion, Producers
<1>2. ring'[0] = Claim(q, e)
  BY StreamFacts DEF Typed, TypeOK, ClaimRegion, Producers
<1>3. \A t \in LogThreads : pc'[t] = IF t = p THEN "hold" ELSE pc[t]
  BY DEF Typed, TypeOK, Producers
<1>4. \A i \in DOMAIN q : LateClaim(p, i) => FALSE
  BY DEF Late, LateClaimIsLast
<1> HIDE DEF q, e
<1>5. /\ DOMAIN ring'[0] = DOMAIN q \cup {Len(q) + 1} /\ Len(q) + 1 \notin DOMAIN q
      /\ \A i \in DOMAIN q : ring'[0][i] = q[i]
      /\ ring'[0][Len(q) + 1] = e
  <2>1. /\ DOMAIN Claim(q, e) = DOMAIN q \cup {Len(q) + 1}
        /\ Len(q) + 1 \notin DOMAIN q
        /\ \A i \in DOMAIN q : Claim(q, e)[i] = q[i]
        /\ Claim(q, e)[Len(q) + 1] = e
    BY <1>1, ClaimFacts
  <2> QED
    BY <1>2, <2>1
<1>6. LateClaimIsLast'
  BY <1>1, <1>3, <1>5 DEF Late, LateClaimIsLast, LateClaim, q
<1>7. OneLateRecordPerThread'
  BY <1>1, <1>4, <1>5 DEF Late, OneLateRecordPerThread, LateClaim, q
<1> QED
  BY <1>6, <1>7 DEF Late

LEMMA CommitKeepsLate ==
  ASSUME Typed, Late, NEW p \in Producers, Commit(p)
  PROVE  Late'
<1>1. /\ DOMAIN ring'[0] = DOMAIN ring[0]
      /\ \A i \in DOMAIN ring[0] : /\ ring'[0][i].own = ring[0][i].own
                                   /\ ring'[0][i].born = ring[0][i].born
  <2> DEFINE s == Stream(p)
             st == IF running THEN "early" ELSE "late"
  <2>1. ring \in [Streams -> Seq(Region)] /\ s \in Streams /\ 0 \in Streams
    BY StreamFacts DEF Typed, TypeOK
  <2>2. PICK k \in DOMAIN ring[s] :
           ring' = [ring EXCEPT ![s] = CommitAt(ring[s], k, st)]
    BY DEF Commit
  <2>3. st \in {"early", "late"}
    OBVIOUS
  <2> HIDE DEF s, st
  <2>4. CASE s = 0
    <3>1. /\ ring[0] \in Seq(Region) /\ k \in DOMAIN ring[0]
          /\ ring'[0] = CommitAt(ring[0], k, st)
      BY <2>1, <2>2, <2>4
    <3>2. CommitOutcome(ring[0], k, st, ring'[0])
      BY <2>3, <3>1, CommitFacts
    <3> QED
      BY <3>2 DEF CommitOutcome
  <2>5. CASE s # 0
    BY <2>1, <2>2, <2>5
  <2> QED
    BY <2>4, <2>5
<1>2. UNCHANGED running
  BY DEF Commit
<1>3. \A t \in LogThreads : pc[t] \in {"idle", "hold"} => pc'[t] \in {"idle", "hold"}
  BY DEF Typed, TypeOK, Commit, Producers
<1> QED
  BY <1>1, <1>2, <1>3
  DEF Late, LateClaimIsLast, OneLateRecordPerThread, LateClaim

LEMMA ReleaseKeepsLate ==
  ASSUME Typed, Late, ring[cur] # << >>,
         ring' = [ring EXCEPT ![cur] = Release(@)], UNCHANGED << running, pc >>
  PROVE  Late'
<1>1. ring \in [Streams -> Seq(Region)] /\ cur \in Streams /\ 0 \in Streams
  BY StreamFacts DEF Typed, TypeOK
<1>2. CASE cur = 0
  <2>1. /\ DOMAIN ring'[0] \subseteq Nat
        /\ \A i \in DOMAIN ring'[0] :
             i + 1 \in DOMAIN ring[0] /\ ring'[0][i] = ring[0][i + 1]
    BY <1>1, <1>2, ReleaseFacts
  <2>2. LateClaimIsLast'
    BY <2>1 DEF Late, LateClaimIsLast, LateClaim
  <2>3. OneLateRecordPerThread'
    <3> SUFFICES ASSUME NEW p \in LogThreads,
                        NEW i \in DOMAIN ring'[0], NEW j \in DOMAIN ring'[0],
                        LateClaim(p, i)', LateClaim(p, j)'
                 PROVE  i = j
      BY DEF OneLateRecordPerThread
    <3>1. LateClaim(p, i + 1) /\ LateClaim(p, j + 1)
      BY <2>1 DEF LateClaim
    <3>2. i + 1 = j + 1
      BY <2>1, <3>1 DEF Late, OneLateRecordPerThread
    <3> QED
      BY <2>1, <3>2
  <2> QED
    BY <2>2, <2>3 DEF Late
<1>3. CASE cur # 0
  <2>1. ring'[0] = ring[0]
    BY <1>1, <1>3
  <2> QED
    BY <2>1 DEF Late, LateClaimIsLast, OneLateRecordPerThread, LateClaim
<1> QED
  BY <1>2, <1>3

LEMMA NextLate == Typed /\ Late /\ [Next]_vars => Late'
<1> SUFFICES ASSUME Typed, Late, [Next]_vars PROVE Late'
  OBVIOUS
<1>1. CASE UNCHANGED << ring, pc >> /\ (running' => running)
  BY <1>1 DEF Late, LateClaimIsLast, OneLateRecordPerThread, LateClaim
<1>2. CASE Spawn \/ Publish \/ StopRunning \/ GuardStep
  BY <1>1, <1>2 DEF Spawn, Publish, StopRunning, GuardStep, GuardUnpark, Join
<1>3. ASSUME NEW p \in LogThreads, EnterLog(p) PROVE Late'
  <2>1. UNCHANGED << ring, running >>
    BY <1>3 DEF EnterLog
  <2>2. \A i \in DOMAIN ring[0] : running => ring[0][i].born
    BY DEF Late, LateClaimIsLast
  <2>3. \A t \in LogThreads :
          ~running \/ t # p => pc'[t] = pc[t] \/ pc'[t] = "idle"
    BY <1>3 DEF Typed, TypeOK, EnterLog, Producers
  <2> QED
    BY <2>1, <2>2, <2>3
    DEF Late, LateClaimIsLast, OneLateRecordPerThread, LateClaim
<1>4. ASSUME NEW p \in LogThreads, TryClaim(p) PROVE Late'
  <2>1. CASE ClaimRegion(p) /\ pc' = [pc EXCEPT ![p] = "hold"]
    BY <1>4, <2>1, ClaimKeepsLate DEF TryClaim
  <2>2. CASE UNCHANGED ring
    <3>1. \A i \in DOMAIN ring[0] : ~LateClaim(p, i)
      BY <1>4 DEF TryClaim, Late, LateClaimIsLast
    <3>2. \A t \in LogThreads : t # p => pc'[t] = pc[t]
      BY <1>4 DEF Typed, TypeOK, TryClaim, Producers
    <3>3. UNCHANGED running
      BY <1>4 DEF TryClaim
    <3> QED
      BY <2>2, <3>1, <3>2, <3>3
      DEF Late, LateClaimIsLast, OneLateRecordPerThread, LateClaim
  <2> QED
    BY <1>4, <2>1, <2>2 DEF TryClaim
<1>5. ASSUME NEW p \in LogThreads, CheckRunning(p) \/ UnparkRetry(p) PROVE Late'
  <2>1. \A i \in DOMAIN ring[0] : ~LateClaim(p, i)
    BY <1>5 DEF CheckRunning, UnparkRetry, Late, LateClaimIsLast
  <2>2. \A t \in LogThreads : t # p => pc'[t] = pc[t]
    BY <1>5 DEF Typed, TypeOK, CheckRunning, UnparkRetry, Producers
  <2>3. UNCHANGED << ring, running >>
    BY <1>5 DEF CheckRunning, UnparkRetry
  <2> QED
    BY <2>1, <2>2, <2>3
    DEF Late, LateClaimIsLast, OneLateRecordPerThread, LateClaim
<1>6. ASSUME NEW p \in Producers, Commit(p) PROVE Late'
  BY <1>6, CommitKeepsLate
<1>7. ASSUME NEW h \in Handles, ArchiveWrite(h) PROVE Late'
  <2>1. ring'[0] = ring[0]
    BY <1>7, StreamFacts DEF Typed, TypeOK, ArchiveWrite, ClaimRegion
  <2>2. \A t \in LogThreads : pc'[t] = pc[t]
    BY <1>7, ProducersAssumption DEF Typed, TypeOK, ArchiveWrite, Producers
  <2>3. UNCHANGED running
    BY <1>7 DEF ArchiveWrite
  <2> QED
    BY <2>1, <2>2, <2>3
    DEF Late, LateClaimIsLast, OneLateRecordPerThread, LateClaim
<1>8. CASE FormatPanic
  BY <1>8, ReleaseKeepsLate DEF FormatPanic, HasRecord
<1>9. CASE ReleaseRecord
  BY <1>9, ReleaseKeepsLate DEF ReleaseRecord, HasRecord, Typed, ReadClaimInPlace
<1>10. CASE LoopCheck \/ Take \/ NothingToPoll \/ Flush \/ DrainedStream
            \/ DrainFlush
  BY <1>1, <1>10 DEF LoopCheck, Take, NothingToPoll, Flush, DrainedStream,
                     DrainFlush
<1>11. CASE Spin \/ Park \/ Unparked \/ ParkTimeout
  BY <1>1, <1>11 DEF Spin, Park, Unparked, ParkTimeout
<1>12. CASE UNCHANGED vars
  BY <1>1, <1>12 DEF vars
<1> QED
  BY <1>2, <1>3, <1>4, <1>5, <1>6, <1>7, <1>8, <1>9, <1>10, <1>11, <1>12
  DEF Next, LogStep, ArchiverStep, Terminated, Producers

(* A thread leaves at most one record behind that it claimed after the     *)
(* guard's drop began (logger.rs 147, 224: the look at `running`).         *)
THEOREM OneLateRecord == Spec => []OneLateRecordPerThread
<1>1. Late => OneLateRecordPerThread
  BY DEF Late
<1> QED
  BY <1>1, InitTyped, NextTyped, InitLate, NextLate, PTL DEF Spec
-----------------------------------------------------------------------------
(* Claims.  What one stream shows of a producer, by itself: *)

ClaimsMatch(p, at, q) ==
  /\ at = "hold" <=> \E i \in DOMAIN q : q[i].own = p /\ Held(q[i])
  /\ \A i, j \in DOMAIN q : /\ q[i].own = p /\ Held(q[i])
                           /\ q[j].own = p /\ Held(q[j])
                           => i = j

LEMMA ClaimsByStream ==
  /\ ClaimsStayInPlace <=>
       \A p \in Producers : ClaimsMatch(p, pc[p], ring[Stream(p)])
  /\ ClaimsStayInPlace' <=>
       \A p \in Producers : ClaimsMatch(p, pc'[p], ring'[Stream(p)])
  BY DEF ClaimsStayInPlace, OpenClaim, ClaimsMatch, Stream

(* Only "hold" matters of where a producer is. *)
LEMMA SameClaims ==
  ASSUME NEW p, NEW q, NEW a, NEW b, ClaimsMatch(p, a, q), a = "hold" <=> b = "hold"
  PROVE  ClaimsMatch(p, b, q)
  BY DEF ClaimsMatch

LEMMA InitClaims == Init => ClaimsStayInPlace
<1> SUFFICES ASSUME Init, NEW p \in Producers
             PROVE  ClaimsMatch(p, pc[p], ring[Stream(p)])
  BY ClaimsByStream
<1>1. pc[p] = "idle" /\ ring[Stream(p)] = << >>
  BY StreamFacts DEF Init
<1> QED
  BY <1>1 DEF ClaimsMatch

(* A claim opens one for its producer and none for anybody else. *)
LEMMA ClaimMatches ==
  ASSUME NEW q \in Seq(Region), NEW e \in Region, e.st = "held",
         NEW p, NEW at, ClaimsMatch(p, at, q)
  PROVE  /\ e.own # p => ClaimsMatch(p, at, Claim(q, e))
         /\ e.own = p /\ at # "hold" => ClaimsMatch(p, "hold", Claim(q, e))
<1>1. /\ DOMAIN Claim(q, e) = DOMAIN q \cup {Len(q) + 1}
      /\ Len(q) + 1 \notin DOMAIN q
      /\ \A i \in DOMAIN q : Claim(q, e)[i] = q[i]
      /\ Claim(q, e)[Len(q) + 1] = e
  BY ClaimFacts
<1>2. e.own # p => ClaimsMatch(p, at, Claim(q, e))
  BY <1>1 DEF ClaimsMatch
<1>3. e.own = p /\ at # "hold" => ClaimsMatch(p, "hold", Claim(q, e))
  BY <1>1 DEF ClaimsMatch, Held
<1> QED
  BY <1>2, <1>3

(* A commit closes the one its producer had. *)
LEMMA CommitMatches ==
  ASSUME NEW q \in Seq(Region), NEW k \in DOMAIN q, Held(q[k]),
         NEW st \in {"early", "late"}, NEW p, NEW at, ClaimsMatch(p, at, q)
  PROVE  /\ q[k].own # p => ClaimsMatch(p, at, CommitAt(q, k, st))
         /\ q[k].own = p => ClaimsMatch(p, "idle", CommitAt(q, k, st))
<1> DEFINE r == CommitAt(q, k, st)
<1>1. CommitOutcome(q, k, st, r)
  BY CommitFacts
<1> HIDE DEF r
<1>2. q[k].own # p => ClaimsMatch(p, at, r)
  BY <1>1 DEF ClaimsMatch, CommitOutcome, Held
<1>3. q[k].own = p => ClaimsMatch(p, "idle", r)
  BY <1>1 DEF ClaimsMatch, CommitOutcome, Held
<1> QED
  BY <1>2, <1>3 DEF r

(* A release of a committed region leaves the open claims alone. *)
LEMMA ReleaseMatches ==
  ASSUME NEW q \in Seq(Region), HasRecord(q), NEW p, NEW at, ClaimsMatch(p, at, q)
  PROVE  ClaimsMatch(p, at, Release(q))
<1> DEFINE r == Release(q)
<1>1. /\ 1 \in DOMAIN q /\ ~Held(q[1])
      /\ DOMAIN q \subseteq Nat /\ DOMAIN r \subseteq Nat
      /\ \A i \in DOMAIN r : i + 1 \in DOMAIN q /\ r[i] = q[i + 1]
      /\ \A i \in DOMAIN q : i # 1 => i - 1 \in DOMAIN r /\ r[i - 1] = q[i]
  BY ReleaseFacts DEF HasRecord
<1> HIDE DEF r
<1>2. (\E i \in DOMAIN q : q[i].own = p /\ Held(q[i]))
        <=> \E i \in DOMAIN r : r[i].own = p /\ Held(r[i])
  BY <1>1
<1>3. ASSUME NEW i \in DOMAIN r, NEW j \in DOMAIN r,
             r[i].own = p, Held(r[i]), r[j].own = p, Held(r[j])
      PROVE  i = j
  <2>1. i + 1 = j + 1
    BY <1>1, <1>3 DEF ClaimsMatch
  <2> QED
    BY <1>1, <2>1
<1> QED
  BY <1>2, <1>3 DEF ClaimsMatch, r

LEMMA ClaimKeepsClaims ==
  ASSUME Typed, ClaimsStayInPlace, NEW p \in Producers, pc[p] # "hold",
         ClaimRegion(p), pc' = [pc EXCEPT ![p] = "hold"]
  PROVE  ClaimsStayInPlace'
<1> SUFFICES ASSUME NEW t \in Producers
             PROVE  ClaimsMatch(t, pc'[t], ring'[Stream(t)])
  BY ClaimsByStream
<1>1. ClaimsMatch(t, pc[t], ring[Stream(t)])
  BY ClaimsByStream
<1>2. /\ ring \in [Streams -> Seq(Region)]
      /\ Stream(p) \in Streams /\ Stream(t) \in Streams
      /\ pc'[t] = IF t = p THEN "hold" ELSE pc[t]
  BY StreamFacts DEF Typed, TypeOK
<1>3. NewRegion(p) \in Region /\ NewRegion(p).st = "held" /\ NewRegion(p).own = p
  BY NewRegionType DEF Typed, NewRegion
<1>4. CASE Stream(t) = Stream(p)
  <2>1. /\ ring'[Stream(t)] = Claim(ring[Stream(t)], NewRegion(p))
        /\ ring[Stream(t)] \in Seq(Region)
    BY <1>2, <1>4 DEF ClaimRegion
  <2>2. /\ t # p => ClaimsMatch(t, pc[t], ring'[Stream(t)])
        /\ t = p => ClaimsMatch(t, "hold", ring'[Stream(t)])
    BY <1>1, <1>3, <2>1, ClaimMatches
  <2> QED
    BY <1>2, <2>2
<1>5. CASE Stream(t) # Stream(p)
  BY <1>1, <1>2, <1>5 DEF ClaimRegion
<1> QED
  BY <1>4, <1>5

LEMMA CommitKeepsClaims ==
  ASSUME Typed, ClaimsStayInPlace, NEW p \in Producers, Commit(p)
  PROVE  ClaimsStayInPlace'
<1> SUFFICES ASSUME NEW t \in Producers
             PROVE  ClaimsMatch(t, pc'[t], ring'[Stream(t)])
  BY ClaimsByStream
<1>1. ClaimsMatch(t, pc[t], ring[Stream(t)])
  BY ClaimsByStream
<1>2. /\ ring \in [Streams -> Seq(Region)]
      /\ Stream(p) \in Streams /\ Stream(t) \in Streams
      /\ pc'[t] = IF t = p THEN "idle" ELSE pc[t]
  BY StreamFacts DEF Typed, TypeOK, Commit
<1>3. PICK st \in {"early", "late"} : st = IF running THEN "early" ELSE "late"
  OBVIOUS
<1>4. PICK k \in DOMAIN ring[Stream(p)] :
         /\ ring[Stream(p)][k].own = p /\ Held(ring[Stream(p)][k])
         /\ ring' = [ring EXCEPT ![Stream(p)] = CommitAt(ring[Stream(p)], k, st)]
  BY <1>3 DEF Commit
<1>5. CASE Stream(t) = Stream(p)
  <2>1. /\ ring[Stream(t)] \in Seq(Region) /\ k \in DOMAIN ring[Stream(t)]
        /\ ring[Stream(t)][k].own = p /\ Held(ring[Stream(t)][k])
        /\ ring'[Stream(t)] = CommitAt(ring[Stream(t)], k, st)
    BY <1>2, <1>4, <1>5
  <2>2. /\ t # p => ClaimsMatch(t, pc[t], ring'[Stream(t)])
        /\ t = p => ClaimsMatch(t, "idle", ring'[Stream(t)])
    BY <1>1, <1>3, <2>1, CommitMatches
  <2> QED
    BY <1>2, <2>2
<1>6. CASE Stream(t) # Stream(p)
  BY <1>1, <1>2, <1>4, <1>6
<1> QED
  BY <1>5, <1>6

LEMMA ReleaseKeepsClaims ==
  ASSUME Typed, ClaimsStayInPlace, HasRecord(ring[cur]),
         ring' = [ring EXCEPT ![cur] = Release(@)], UNCHANGED pc
  PROVE  ClaimsStayInPlace'
<1> SUFFICES ASSUME NEW t \in Producers
             PROVE  ClaimsMatch(t, pc[t], ring'[Stream(t)])
  BY ClaimsByStream
<1>1. ClaimsMatch(t, pc[t], ring[Stream(t)])
  BY ClaimsByStream
<1>2. ring \in [Streams -> Seq(Region)] /\ cur \in Streams /\ Stream(t) \in Streams
  BY StreamFacts DEF Typed, TypeOK
<1>3. CASE Stream(t) = cur
  BY <1>1, <1>2, <1>3, ReleaseMatches
<1>4. CASE Stream(t) # cur
  BY <1>1, <1>2, <1>4
<1> QED
  BY <1>3, <1>4

LEMMA NextClaims == Typed /\ ClaimsStayInPlace /\ [Next]_vars => ClaimsStayInPlace'
<1> SUFFICES ASSUME Typed, ClaimsStayInPlace, [Next]_vars PROVE ClaimsStayInPlace'
  OBVIOUS
<1>1. ASSUME UNCHANGED ring,
             \A t \in Producers : pc[t] = "hold" <=> pc'[t] = "hold"
      PROVE  ClaimsStayInPlace'
  BY <1>1, ClaimsByStream, SameClaims
<1>2. CASE UNCHANGED << ring, pc >>
  BY <1>1, <1>2
<1>3. CASE Spawn \/ Publish \/ StopRunning \/ GuardStep
  BY <1>2, <1>3 DEF Spawn, Publish, StopRunning, GuardStep, GuardUnpark, Join
<1>4. ASSUME NEW p \in LogThreads, EnterLog(p) \/ CheckRunning(p) \/ UnparkRetry(p)
      PROVE  ClaimsStayInPlace'
  <2>1. /\ pc[p] # "hold" /\ pc'[p] # "hold" /\ UNCHANGED ring
        /\ \A t \in Producers : t # p => pc'[t] = pc[t]
    BY <1>4 DEF Typed, TypeOK, EnterLog, MayCall, CheckRunning, UnparkRetry,
                Producers
  <2> QED
    BY <1>1, <2>1
<1>5. ASSUME NEW p \in LogThreads, TryClaim(p) PROVE ClaimsStayInPlace'
  <2>1. CASE ClaimRegion(p) /\ pc' = [pc EXCEPT ![p] = "hold"]
    BY <1>5, <2>1, ClaimKeepsClaims DEF TryClaim, Producers
  <2>2. CASE UNCHANGED ring /\ (\/ pc' = [pc EXCEPT ![p] = "idle"]
                                \/ pc' = [pc EXCEPT ![p] = "full"])
    <3>1. \A t \in Producers : pc[t] = "hold" <=> pc'[t] = "hold"
      BY <1>5, <2>2 DEF Typed, TypeOK, TryClaim, Producers
    <3> QED
      BY <1>1, <2>2, <3>1
  <2> QED
    BY <1>5, <2>1, <2>2 DEF TryClaim
<1>6. ASSUME NEW p \in Producers, Commit(p) PROVE ClaimsStayInPlace'
  BY <1>6, CommitKeepsClaims
<1>7. ASSUME NEW h \in Handles, ArchiveWrite(h) PROVE ClaimsStayInPlace'
  <2>1. CASE ClaimRegion(h) /\ pc' = [pc EXCEPT ![h] = "hold"]
    BY <1>7, <2>1, ClaimKeepsClaims DEF ArchiveWrite, MayCall, Producers
  <2> QED
    BY <1>2, <1>7, <2>1 DEF ArchiveWrite
<1>8. CASE FormatPanic
  BY <1>8, ReleaseKeepsClaims DEF FormatPanic
<1>9. CASE ReleaseRecord
  BY <1>9, ReleaseKeepsClaims DEF ReleaseRecord, Typed, ReadClaimInPlace
<1>10. CASE LoopCheck \/ Take \/ NothingToPoll \/ Flush \/ DrainedStream
            \/ DrainFlush
  BY <1>2, <1>10 DEF LoopCheck, Take, NothingToPoll, Flush, DrainedStream,
                     DrainFlush
<1>11. CASE Spin \/ Park \/ Unparked \/ ParkTimeout
  BY <1>2, <1>11 DEF Spin, Park, Unparked, ParkTimeout
<1>12. CASE UNCHANGED vars
  BY <1>2, <1>12 DEF vars
<1> QED
  BY <1>3, <1>4, <1>5, <1>6, <1>7, <1>8, <1>9, <1>10, <1>11, <1>12
  DEF Next, LogStep, ArchiverStep, Terminated, Producers

(* A producer between try_claim and commit has exactly one open region in  *)
(* its ring, and a producer that is not has none.                          *)
THEOREM ClaimsAreKept == Spec => []ClaimsStayInPlace
  BY InitTyped, NextTyped, InitClaims, NextClaims, PTL DEF Spec
=============================================================================
