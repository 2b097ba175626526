--------------------------- MODULE DeliveryProofs ---------------------------
(***************************************************************************)
(* What becomes of each record, proved for every number of threads,        *)
(* handles and archives, every capacity and every number of calls: the     *)
(* log and the archives implement LogService, and Backoff loses nothing.   *)
(***************************************************************************)
EXTENDS Delivery, PipelineProofs, SequenceTheorems

-----------------------------------------------------------------------------
(* Delivery adds to the steps of Pipeline and takes none away, so what is  *)
(* proved of Pipeline holds here.                                          *)

LEMMA IsPipelineStep == [DNext]_dvars => [Next]_vars
<1>1. DNext => Next
  BY DEF DNext, DEnterLog, DTryClaim, DArchiveWrite, DTake, DFormatPanic,
     DReleaseRecord, Unnamed, Next, LogStep, ArchiverStep, Producers
<1> QED
  BY <1>1 DEF dvars, vars

Claimed == Typed /\ DirtyIsTracked /\ ClaimsStayInPlace

LEMMA PipelineHolds == DSpec => []Claimed
<1>1. DInit => Claimed
  BY InitTyped, InitDirty, InitClaims DEF DInit, Claimed
<1>2. Claimed /\ [DNext]_dvars => Claimed'
  BY IsPipelineStep, NextTyped, NextDirty, NextClaims DEF Claimed
<1> QED
  BY <1>1, <1>2, PTL DEF DSpec

-----------------------------------------------------------------------------
(* The steps, by what they do to the records. *)

InProgress == {"try", "full", "wake"}

OthersStay(p) ==
  \A t \in Producers : t # p => pc'[t] = pc[t] /\ calls'[t] = calls[t]

RecordsStay == UNCHANGED << ring, ids, out, accepted, refused >>
ReaderStays == UNCHANGED << apc, cur >>
StillRunning == UNCHANGED << opts, running >>

(* A call of p claims a region: a log call that was counted before, or an  *)
(* archive call that is counted now.                                       *)
ClaimStep(p) ==
  /\ ClaimRegion(p)
  /\ ids' = [ids EXCEPT ![Stream(p)] = Append(@, CallOf(p))]
  /\ UNCHANGED << out, accepted, refused >>
  /\ ReaderStays /\ StillRunning /\ OthersStay(p)
  /\ pc[p] # "hold" /\ pc'[p] = "hold"
  /\ \/ pc[p] = "try" /\ calls'[p] = calls[p]
     \/ pc[p] = "idle" /\ calls'[p] = calls[p] + 1

CommitStep(p) ==
  /\ Commit(p)
  /\ UNCHANGED << ids, out, accepted, refused, calls >>
  /\ ReaderStays /\ StillRunning /\ OthersStay(p)
  /\ pc[p] = "hold" /\ pc'[p] = "idle"

(* A log call begins, or is turned away. *)
EnterStep(p) ==
  /\ UNCHANGED << ring, ids, out, refused >>
  /\ ReaderStays /\ StillRunning /\ OthersStay(p)
  /\ p \in LogThreads
  /\ pc[p] = "idle" /\ pc'[p] \in {"idle", "try"} /\ calls'[p] = calls[p] + 1
  /\ accepted' = IF pc'[p] = "try" THEN accepted \cup {CallOf(p)} ELSE accepted

(* A call makes its way without touching a ring.  A log call is given up   *)
(* only in Drop mode or once the logger stops.                             *)
WaitStep(p) ==
  /\ RecordsStay /\ ReaderStays /\ StillRunning /\ OthersStay(p)
  /\ pc'[p] # "hold"
  /\ \/ /\ pc[p] \in InProgress /\ calls'[p] = calls[p]
        /\ pc'[p] = "idle" => opts.backpressure = "Drop" \/ ~running
     \/ pc[p] = "idle" /\ pc'[p] = "idle" /\ calls'[p] = calls[p] + 1

(* The archiver is done with the region it has read. *)
ReleaseStep ==
  /\ ring' = [ring EXCEPT ![cur] = Release(@)]
  /\ ids' = [ids EXCEPT ![cur] = Tail(@)]
  /\ UNCHANGED << out, accepted, refused, pc, calls, cur >> /\ StillRunning
  /\ HasRecord(ring[cur])
  /\ \/ apc = "poll" /\ apc' = "dead"
     \/ apc = "hold" /\ apc' = "poll"

(* The owner and the archiver, neither reading nor releasing. *)
AsideStep ==
  /\ RecordsStay /\ UNCHANGED << opts, pc, calls >>
  /\ running' => running
  /\ apc' = "hold" <=> apc = "hold"
  /\ apc = "hold" => cur' = cur
  /\ apc \in {"exited", "dead"} => apc' = apc

LEMMA ClaimOrWait ==
  ASSUME Typed, NEW p \in Producers
  PROVE  DTryClaim(p) \/ DArchiveWrite(p) => ClaimStep(p) \/ WaitStep(p)
<1>1. /\ pc \in [Producers -> {"idle", "try", "full", "wake", "hold"}]
      /\ calls \in [Producers -> 0 .. MaxCalls]
      /\ ring \in [Streams -> Seq(Region)] /\ Stream(p) \in Streams
      /\ Stream(p) \in Nat
  BY StreamFacts DEF Typed, TypeOK
<1>2. ClaimRegion(p) => ring' # ring
  <2> SUFFICES ASSUME ClaimRegion(p), ring' = ring PROVE FALSE
    OBVIOUS
  <2>1. ring[Stream(p)] = Append(ring[Stream(p)], NewRegion(p))
    BY <1>1 DEF ClaimRegion, Claim
  <2>2. Len(Append(ring[Stream(p)], NewRegion(p))) = Len(ring[Stream(p)]) + 1
    <3>1. NewRegion(p) \in Region /\ ring[Stream(p)] \in Seq(Region)
      BY <1>1, NewRegionType DEF Typed
    <3> QED
      BY <3>1
  <2>3. Len(ring[Stream(p)]) \in Nat
    BY <1>1
  <2> QED
    BY <2>1, <2>2, <2>3
<1>3. CASE DTryClaim(p)
  <2>1. /\ pc[p] = "try" /\ pc' = [pc EXCEPT ![p] = pc'[p]] /\ calls' = calls
        /\ StillRunning /\ ReaderStays /\ UNCHANGED << out, accepted, refused >>
        /\ OthersStay(p)
    BY <1>1, <1>3 DEF DTryClaim, TryClaim, OthersStay, StillRunning, ReaderStays
  <2>2. CASE ClaimRegion(p) /\ pc' = [pc EXCEPT ![p] = "hold"]
    BY <1>1, <1>2, <1>3, <2>1, <2>2 DEF DTryClaim, NameClaim, ClaimStep
  <2>3. CASE ring' = ring /\ opts.backpressure = "Drop" /\ pc' = [pc EXCEPT ![p] = "idle"]
    BY <1>1, <1>3, <2>1, <2>3
    DEF DTryClaim, NameClaim, WaitStep, RecordsStay, InProgress
  <2>4. CASE ring' = ring /\ pc' = [pc EXCEPT ![p] = "full"]
    BY <1>1, <1>3, <2>1, <2>4
    DEF DTryClaim, NameClaim, WaitStep, RecordsStay, InProgress
  <2> QED
    BY <1>3, <2>2, <2>3, <2>4 DEF DTryClaim, TryClaim
<1>4. CASE DArchiveWrite(p)
  <2>1. /\ pc[p] = "idle" /\ calls' = [calls EXCEPT ![p] = @ + 1]
        /\ StillRunning /\ ReaderStays /\ UNCHANGED << out, accepted, refused >>
    BY <1>4, CountedAssumption
    DEF DArchiveWrite, ArchiveWrite, MayCall, CountCall, StillRunning, ReaderStays
  <2>2. CASE ClaimRegion(p) /\ pc' = [pc EXCEPT ![p] = "hold"]
    <3>1. OthersStay(p)
      BY <1>1, <2>1, <2>2 DEF OthersStay
    <3> QED
      BY <1>1, <1>2, <1>4, <2>1, <2>2, <3>1 DEF DArchiveWrite, NameClaim, ClaimStep
  <2>3. CASE UNCHANGED << ring, pc >>
    <3>1. OthersStay(p)
      BY <1>1, <2>1, <2>3 DEF OthersStay
    <3> QED
      BY <1>1, <1>4, <2>1, <2>3, <3>1
      DEF DArchiveWrite, NameClaim, WaitStep, RecordsStay
  <2> QED
    BY <1>4, <2>2, <2>3 DEF DArchiveWrite, ArchiveWrite
<1> QED
  BY <1>3, <1>4

LEMMA StepCases ==
  ASSUME Typed, DirtyIsTracked, [DNext]_dvars
  PROVE  \/ \E p \in Producers :
              ClaimStep(p) \/ CommitStep(p) \/ EnterStep(p) \/ WaitStep(p)
         \/ DTake \/ ReleaseStep \/ AsideStep
<1>1. /\ pc \in [Producers -> {"idle", "try", "full", "wake", "hold"}]
      /\ calls \in [Producers -> 0 .. MaxCalls]
      /\ LogThreads \subseteq Producers /\ Handles \subseteq Producers
  BY DEF Typed, TypeOK, Producers
<1>2. ASSUME NEW p \in LogThreads, DEnterLog(p) PROVE EnterStep(p)
  BY <1>1, <1>2, CountedAssumption
  DEF DEnterLog, EnterLog, EnterStep, MayCall, CountCall, ReaderStays,
      StillRunning, OthersStay
<1>3. ASSUME NEW p \in LogThreads, CheckRunning(p) \/ UnparkRetry(p),
             UNCHANGED history
      PROVE  WaitStep(p)
  BY <1>1, <1>3
  DEF CheckRunning, UnparkRetry, history, WaitStep, RecordsStay, ReaderStays,
      StillRunning, OthersStay, InProgress
<1>4. ASSUME NEW p \in Producers, Commit(p), UNCHANGED history PROVE CommitStep(p)
  <2>1. pc' = [pc EXCEPT ![p] = "idle"] /\ pc[p] = "hold"
    BY <1>4 DEF Commit
  <2>2. UNCHANGED << calls, opts, running, apc, cur >>
    BY <1>4 DEF Commit
  <2> QED
    BY <1>1, <1>4, <2>1, <2>2
    DEF history, CommitStep, ReaderStays, StillRunning, OthersStay
<1>5. DFormatPanic => ReleaseStep
  BY DEF DFormatPanic, FormatPanic, DropName, ReleaseStep, StillRunning
<1>6. DReleaseRecord => ReleaseStep
  BY DEF DReleaseRecord, ReleaseRecord, DropName, ReleaseStep, StillRunning,
     Typed, ReadClaimInPlace
<1>7. (Spawn \/ Publish \/ StopRunning \/ GuardStep) /\ UNCHANGED history => AsideStep
  BY DEF Spawn, Publish, StopRunning, GuardStep, GuardUnpark, Join, history,
     AsideStep, RecordsStay, DirtyIsTracked
<1>8. /\ \/ LoopCheck \/ NothingToPoll \/ Flush \/ Spin \/ Park \/ Unparked
         \/ ParkTimeout \/ DrainedStream \/ DrainFlush \/ Terminated
      /\ UNCHANGED history
      => AsideStep
  BY DEF LoopCheck, NothingToPoll, Flush, Spin, Park, Unparked, ParkTimeout,
     DrainedStream, DrainFlush, Terminated, vars, history, AsideStep, RecordsStay
<1>9. UNCHANGED dvars => AsideStep
  BY DEF dvars, vars, AsideStep, RecordsStay
<1> QED
  BY <1>1, <1>2, <1>3, <1>4, <1>5, <1>6, <1>7, <1>8, <1>9, ClaimOrWait
  DEF DNext, Unnamed

-----------------------------------------------------------------------------
(* Names.  Every claimed region has the name of the call that claimed it,  *)
(* in the stream of its caller, and no call that is still looking for room *)
(* has named one already.                                                  *)

CallsBegun == \A p \in Producers : pc[p] # "idle" => calls[p] > 0

IsOld(c) ==
  /\ c.num <= calls[c.own]
  /\ pc[c.own] \in InProgress => c.num < calls[c.own]

NamesAreOld ==
  \A s \in Streams :
    /\ \A i \in DOMAIN ids[s] : IsOld(ids[s][i])
    /\ \A i \in DOMAIN out[s] : IsOld(out[s][i])

NameMatches(s, i) ==
  /\ ids[s][i].own = ring[s][i].own /\ Stream(ids[s][i].own) = s
  /\ Held(ring[s][i]) => ids[s][i].num = calls[ids[s][i].own]

NamesMatch ==
  \A s \in Streams : \A i \in DOMAIN ids[s] : NameMatches(s, i)

Named == DTypeOK /\ CallsBegun /\ NamesAreOld /\ NamesMatch

LEMMA InitNamed == DInit => Named
<1> SUFFICES ASSUME DInit PROVE Named
  OBVIOUS
<1>1. /\ \A s \in Streams : ids[s] = << >> /\ out[s] = << >> /\ ring[s] = << >>
      /\ \A p \in Producers : pc[p] = "idle"
  BY DEF DInit, Init
<1>2. DTypeOK
  BY <1>1 DEF DInit, DTypeOK
<1> QED
  BY <1>1, <1>2 DEF Named, CallsBegun, NamesAreOld, NamesMatch

(* The sequences of names, like the rings. *)
LEMMA NameAppended ==
  ASSUME NEW q \in Seq(Id), NEW e \in Id
  PROVE  /\ Append(q, e) \in Seq(Id) /\ Len(Append(q, e)) = Len(q) + 1
         /\ DOMAIN Append(q, e) = DOMAIN q \cup {Len(q) + 1}
         /\ Len(q) + 1 \notin DOMAIN q
         /\ \A i \in DOMAIN q : Append(q, e)[i] = q[i]
         /\ Append(q, e)[Len(q) + 1] = e
  OBVIOUS

LEMMA NameDropped ==
  ASSUME NEW q \in Seq(Id), q # << >>
  PROVE  /\ Tail(q) \in Seq(Id) /\ Len(Tail(q)) = Len(q) - 1
         /\ 1 \in DOMAIN q /\ q[1] = Head(q) /\ Head(q) \in Id
         /\ \A i \in DOMAIN Tail(q) : i + 1 \in DOMAIN q /\ Tail(q)[i] = q[i + 1]
         /\ \A i \in DOMAIN q : i = 1 \/ (i - 1 \in DOMAIN Tail(q) /\ Tail(q)[i - 1] = q[i])
  OBVIOUS

(* Names and regions are in step. *)
LEMMA SameLength ==
  ASSUME Typed, DTypeOK, NEW s \in Streams
  PROVE  /\ ids[s] \in Seq(Id) /\ ring[s] \in Seq(Region)
         /\ DOMAIN ids[s] = DOMAIN ring[s]
         /\ DOMAIN ids[s] \subseteq Nat \ {0}
         /\ Len(ids[s]) = Len(ring[s]) /\ Len(ids[s]) \in Nat
         /\ ring[s] # << >> => ids[s] # << >>
<1>1. /\ ids[s] \in Seq(Id) /\ ring[s] \in Seq(Region)
      /\ Len(ids[s]) = Len(ring[s])
  BY DEF Typed, TypeOK, DTypeOK
<1> QED
  BY <1>1

(* What ClaimStep adds. *)
LEMMA ClaimedName ==
  ASSUME Claimed, Claimed', Named, NEW p \in Producers, ClaimStep(p)
  PROVE  LET s == Stream(p) IN
         /\ s \in Streams
         /\ CallOf(p) \in Id /\ CallOf(p).own = p /\ CallOf(p).num = calls'[p]
         /\ NewRegion(p) \in Region /\ NewRegion(p).own = p /\ NewRegion(p).st = "held"
         /\ ids'[s] = Append(ids[s], CallOf(p))
         /\ ring'[s] = Append(ring[s], NewRegion(p))
         /\ \A t \in Streams : t # s => ids'[t] = ids[t] /\ ring'[t] = ring[t]
<1>1. /\ Stream(p) \in Streams
      /\ calls \in [Producers -> 0 .. MaxCalls] /\ calls' \in [Producers -> 0 .. MaxCalls]
      /\ ids \in [Streams -> Seq(Id)] /\ ring \in [Streams -> Seq(Region)]
  BY StreamFacts DEF Claimed, Typed, TypeOK, Named, DTypeOK
<1>2. calls'[p] \in 1 .. MaxCalls
  <2>1. calls[p] \in Nat /\ calls'[p] \in 0 .. MaxCalls
    BY <1>1, CallsAssumption
  <2>2. calls'[p] > 0
    BY <2>1 DEF ClaimStep, Named, CallsBegun
  <2> QED
    BY <2>1, <2>2, CallsAssumption
<1>3. CallOf(p) \in Id /\ CallOf(p).own = p /\ CallOf(p).num = calls'[p]
  BY <1>2 DEF CallOf, Id
<1>4. NewRegion(p) \in Region /\ NewRegion(p).own = p /\ NewRegion(p).st = "held"
  BY NewRegionType DEF NewRegion, Claimed, Typed
<1> QED
  BY <1>1, <1>3, <1>4 DEF ClaimStep, ClaimRegion, Claim

(* An open claim is the call its producer is in. *)
LEMMA HeldIsInCall ==
  ASSUME Claimed, Named, NEW s \in Streams, NEW i \in DOMAIN ids[s],
         Held(ring[s][i])
  PROVE  pc[ids[s][i].own] = "hold"
<1> DEFINE p == ids[s][i].own
<1>1. i \in DOMAIN ring[s] /\ ids[s][i] \in Id
  BY SameLength DEF Claimed, Named
<1>2. p \in Producers /\ ring[s][i].own = p /\ Stream(p) = s
  BY <1>1 DEF Named, NamesMatch, NameMatches, Id
<1> HIDE DEF p
<1>3. OpenClaim(p, Stream(p), i)
  BY <1>2 DEF OpenClaim
<1> QED
  BY <1>1, <1>2, <1>3 DEF Claimed, ClaimsStayInPlace, p

(* What a producer's step does to the numbers: it makes no name young.     *)
LEMMA NumbersStay ==
  ASSUME Claimed, Claimed', Named, NEW p \in Producers,
         ClaimStep(p) \/ CommitStep(p) \/ EnterStep(p) \/ WaitStep(p)
  PROVE  /\ CallsBegun'
         /\ \A c \in Id : IsOld(c) => IsOld(c)'
         /\ \A s \in Streams : \A i \in DOMAIN ids[s] :
              Held(ring[s][i]) => calls'[ids[s][i].own] = calls[ids[s][i].own]
<1>1. /\ calls \in [Producers -> 0 .. MaxCalls]
      /\ pc \in [Producers -> {"idle", "try", "full", "wake", "hold"}]
      /\ pc' \in [Producers -> {"idle", "try", "full", "wake", "hold"}]
  BY DEF Claimed, Typed, TypeOK
<1>2. \A t \in Producers : t # p => pc'[t] = pc[t] /\ calls'[t] = calls[t]
  BY DEF ClaimStep, CommitStep, EnterStep, WaitStep, OthersStay
<1>3. \/ /\ pc[p] = "idle" /\ calls'[p] = calls[p] + 1
      \/ /\ calls'[p] = calls[p] /\ pc[p] # "idle"
         /\ pc'[p] \in InProgress => pc[p] \in InProgress
  BY DEF ClaimStep, CommitStep, EnterStep, WaitStep, InProgress
<1>4. calls[p] \in Nat
  BY <1>1, CallsAssumption
<1>5. CallsBegun'
  BY <1>2, <1>3, <1>4 DEF Named, CallsBegun
<1>6. ASSUME NEW c \in Id, IsOld(c) PROVE IsOld(c)'
  <2>1. c.own \in Producers /\ c.num \in Nat
    BY CallsAssumption DEF Id
  <2>2. CASE c.own = p
    BY <1>3, <1>4, <1>6, <2>1, <2>2 DEF IsOld, InProgress
  <2>3. CASE c.own # p
    BY <1>2, <1>6, <2>1, <2>3 DEF IsOld
  <2> QED
    BY <2>2, <2>3
<1>7. ASSUME NEW s \in Streams, NEW i \in DOMAIN ids[s], Held(ring[s][i])
      PROVE  calls'[ids[s][i].own] = calls[ids[s][i].own]
  <2>1. pc[ids[s][i].own] = "hold" /\ ids[s][i].own \in Producers
    <3>1. ids[s][i] \in Id
      BY DEF Named, DTypeOK
    <3> QED
      BY <1>7, <3>1, HeldIsInCall DEF Id
  <2> QED
    BY <1>2, <1>3, <2>1
<1> QED
  BY <1>5, <1>6, <1>7

(* A step that leaves the records of every stream as they are. *)
LEMMA RecordsStayNamed ==
  ASSUME Claimed, Claimed', Named, NEW p \in Producers,
         EnterStep(p) \/ WaitStep(p)
  PROVE  Named'
<1>1. /\ UNCHANGED << ring, ids, out, refused >>
      /\ accepted' = accepted \/ (p \in LogThreads /\ accepted' = accepted \cup {CallOf(p)}
                                  /\ calls'[p] = calls[p] + 1)
  BY DEF EnterStep, WaitStep, RecordsStay
<1>2. /\ CallsBegun' /\ \A c \in Id : IsOld(c) => IsOld(c)'
      /\ \A s \in Streams : \A i \in DOMAIN ids[s] :
           Held(ring[s][i]) => calls'[ids[s][i].own] = calls[ids[s][i].own]
  BY NumbersStay
<1>3. DTypeOK'
  <2>1. calls'[p] = calls[p] + 1 => CallOf(p) \in Id
    BY CallsAssumption DEF CallOf, Id, Claimed, Typed, TypeOK
  <2> QED
    BY <1>1, <2>1 DEF Named, DTypeOK
<1>4. \A s \in Streams :
        /\ \A i \in DOMAIN ids[s] : ids[s][i] \in Id
        /\ \A i \in DOMAIN out[s] : out[s][i] \in Id
  BY DEF Named, DTypeOK
<1>5. NamesAreOld'
  BY <1>1, <1>2, <1>4 DEF Named, NamesAreOld
<1>6. NamesMatch'
  BY <1>1, <1>2 DEF Named, NamesMatch, NameMatches
<1> QED
  BY <1>2, <1>3, <1>5, <1>6 DEF Named

LEMMA ClaimNamed ==
  ASSUME Claimed, Claimed', Named, NEW p \in Producers, ClaimStep(p)
  PROVE  Named'
<1> DEFINE s == Stream(p)
           c == CallOf(p)
           e == NewRegion(p)
<1>1. /\ s \in Streams /\ c \in Id /\ c.own = p /\ c.num = calls'[p]
      /\ e \in Region /\ e.own = p /\ e.st = "held"
      /\ ids'[s] = Append(ids[s], c) /\ ring'[s] = Claim(ring[s], e)
      /\ \A t \in Streams : t # s => ids'[t] = ids[t] /\ ring'[t] = ring[t]
      /\ ids' = [ids EXCEPT ![s] = ids'[s]]
  BY ClaimedName DEF Claim, ClaimStep
<1>2. Stream(p) = s /\ UNCHANGED << out, accepted, refused >> /\ pc'[p] = "hold"
  BY DEF ClaimStep
<1> HIDE DEF s, c, e
<1>3. /\ CallsBegun' /\ \A d \in Id : IsOld(d) => IsOld(d)'
      /\ \A t \in Streams : \A i \in DOMAIN ids[t] :
           Held(ring[t][i]) => calls'[ids[t][i].own] = calls[ids[t][i].own]
  BY NumbersStay
<1>4. /\ ids[s] \in Seq(Id) /\ ring[s] \in Seq(Region)
      /\ DOMAIN ids[s] = DOMAIN ring[s] /\ Len(ids[s]) = Len(ring[s])
  BY <1>1, SameLength DEF Claimed, Named
<1>5. /\ ids'[s] \in Seq(Id) /\ Len(ids'[s]) = Len(ids[s]) + 1
      /\ DOMAIN ids'[s] = DOMAIN ids[s] \cup {Len(ids[s]) + 1}
      /\ \A i \in DOMAIN ids[s] : ids'[s][i] = ids[s][i]
      /\ ids'[s][Len(ids[s]) + 1] = c
  BY <1>1, <1>4, NameAppended
<1>6. /\ \A i \in DOMAIN ring[s] : ring'[s][i] = ring[s][i]
      /\ ring'[s][Len(ring[s]) + 1] = e
      /\ Len(ring'[s]) = Len(ring[s]) + 1
  <2>1. /\ \A i \in DOMAIN ring[s] : Claim(ring[s], e)[i] = ring[s][i]
        /\ Claim(ring[s], e)[Len(ring[s]) + 1] = e
    BY <1>1, <1>4, ClaimFacts
  <2>2. Len(Claim(ring[s], e)) = Len(ring[s]) + 1
    BY <1>1, <1>4 DEF Claim
  <2> QED
    BY <1>1, <2>1, <2>2
<1>7. DTypeOK'
  <2>1. ids' \in [Streams -> Seq(Id)]
    BY <1>1, <1>5 DEF Named, DTypeOK
  <2>2. \A t \in Streams : Len(ids'[t]) = Len(ring'[t])
    BY <1>1, <1>4, <1>5, <1>6 DEF Named, DTypeOK
  <2> QED
    BY <1>2, <2>1, <2>2 DEF Named, DTypeOK
<1>8. \A t \in Streams :
        /\ \A i \in DOMAIN ids[t] : ids[t][i] \in Id
        /\ \A i \in DOMAIN out[t] : out[t][i] \in Id
  BY DEF Named, DTypeOK
<1>9. NamesAreOld'
  <2>1. ASSUME NEW d \in Id, d = c PROVE IsOld(d)'
    <3>1. calls'[p] <= calls'[p]
      BY CallsAssumption DEF Claimed, Typed, TypeOK
    <3> QED
      BY <1>1, <1>2, <2>1, <3>1 DEF IsOld, InProgress
  <2>2. ASSUME NEW t \in Streams, NEW i \in DOMAIN ids'[t]
        PROVE  IsOld(ids[t][i])'
    <3>1. \/ i \in DOMAIN ids[t] /\ ids'[t][i] = ids[t][i]
          \/ ids'[t][i] = c
      BY <1>1, <1>5
    <3>2. ASSUME NEW d \in Id, d = ids'[t][i] PROVE IsOld(d)'
      BY <1>3, <1>8, <2>1, <3>1, <3>2 DEF Named, NamesAreOld
    <3>3. ids'[t][i] \in Id
      BY <1>1, <1>8, <3>1
    <3> QED
      BY <3>2, <3>3 DEF IsOld
  <2>3. ASSUME NEW t \in Streams, NEW i \in DOMAIN out'[t]
        PROVE  IsOld(out[t][i])'
    <3>1. out'[t][i] \in Id /\ IsOld(out[t][i])
      BY <1>2, <1>8, <2>3 DEF Named, NamesAreOld
    <3> QED
      BY <1>2, <1>3, <3>1 DEF IsOld
  <2> QED
    BY <2>2, <2>3 DEF NamesAreOld
<1>10. NamesMatch'
  <2> SUFFICES ASSUME NEW t \in Streams, NEW i \in DOMAIN ids'[t]
               PROVE  NameMatches(t, i)'
    BY DEF NamesMatch
  <2>1. CASE i \in DOMAIN ids[t]
    <3>1. ids'[t][i] = ids[t][i] /\ ring'[t][i] = ring[t][i]
      BY <1>1, <1>4, <1>5, <1>6, <2>1
    <3>2. NameMatches(t, i)
      BY <2>1 DEF Named, NamesMatch
    <3> QED
      BY <1>3, <2>1, <3>1, <3>2 DEF NameMatches
  <2>2. CASE i \notin DOMAIN ids[t]
    <3>1. t = s /\ ids'[t][i] = c /\ ring'[t][i] = e
      BY <1>1, <1>4, <1>5, <1>6, <2>2
    <3> QED
      BY <1>1, <1>2, <3>1 DEF NameMatches
  <2> QED
    BY <2>1, <2>2
<1> QED
  BY <1>3, <1>7, <1>9, <1>10 DEF Named

(* What a commit does to the ring of p: it closes one open claim of p. *)
LEMMA CommittedRegion ==
  ASSUME Claimed, Named, NEW p \in Producers, CommitStep(p)
  PROVE  \E s \in Streams, k \in Nat, st \in {"early", "late"} :
           /\ s = Stream(p) /\ k \in DOMAIN ring[s] /\ k \in DOMAIN ids[s]
           /\ Held(ring[s][k]) /\ ring[s][k].own = p
           /\ CommitOutcome(ring[s], k, st, ring'[s])
           /\ \A t \in Streams : t # s => ring'[t] = ring[t]
<1> DEFINE s == Stream(p)
<1>1. s \in Streams /\ ring \in [Streams -> Seq(Region)]
  BY StreamFacts DEF Claimed, Typed, TypeOK
<1>2. PICK st \in {"early", "late"} : st = IF running THEN "early" ELSE "late"
  OBVIOUS
<1>3. PICK k \in DOMAIN ring[s] :
        /\ ring[s][k].own = p /\ Held(ring[s][k])
        /\ ring' = [ring EXCEPT ![s] = CommitAt(@, k, st)]
  BY <1>2 DEF CommitStep, Commit
<1>4. k \in DOMAIN ids[s] /\ k \in Nat
  BY <1>1, SameLength DEF Claimed, Named
<1> HIDE DEF s
<1>5. CommitOutcome(ring[s], k, st, ring'[s])
  <2>1. ring'[s] = CommitAt(ring[s], k, st) /\ ring[s] \in Seq(Region)
    BY <1>1, <1>3
  <2> QED
    BY <2>1, CommitFacts
<1>6. \A t \in Streams : t # s => ring'[t] = ring[t]
  BY <1>1, <1>3
<1> QED
  BY <1>1, <1>3, <1>4, <1>5, <1>6 DEF s

LEMMA CommitNamed ==
  ASSUME Claimed, Claimed', Named, NEW p \in Producers, CommitStep(p)
  PROVE  Named'
<1>1. PICK s \in Streams, k \in Nat, st \in {"early", "late"} :
        /\ k \in DOMAIN ring[s]
        /\ CommitOutcome(ring[s], k, st, ring'[s])
        /\ \A t \in Streams : t # s => ring'[t] = ring[t]
  BY CommittedRegion
<1>2. UNCHANGED << ids, out, accepted, refused, calls >>
  BY DEF CommitStep
<1>3. \A t \in Streams : \A i \in DOMAIN ids[t] :
        /\ ring'[t][i].own = ring[t][i].own
        /\ Held(ring'[t][i]) => Held(ring[t][i])
  <2> SUFFICES ASSUME NEW t \in Streams, NEW i \in DOMAIN ids[t]
               PROVE  /\ ring'[t][i].own = ring[t][i].own
                      /\ Held(ring'[t][i]) => Held(ring[t][i])
    OBVIOUS
  <2>1. i \in DOMAIN ring[t]
    BY SameLength DEF Claimed, Named
  <2> QED
    BY <1>1, <2>1 DEF CommitOutcome, Held
<1>4. /\ CallsBegun' /\ \A d \in Id : IsOld(d) => IsOld(d)'
  BY NumbersStay
<1>5. DTypeOK'
  <2>1. \A t \in Streams : ring'[t] \in Seq(Region) /\ DOMAIN ring'[t] = DOMAIN ring[t]
    BY <1>1 DEF CommitOutcome, Claimed, Typed, TypeOK
  <2>2. \A t \in Streams : Len(ring'[t]) = Len(ring[t])
    BY <2>1 DEF Claimed, Typed, TypeOK
  <2> QED
    BY <1>2, <2>2 DEF Named, DTypeOK
<1>6. \A t \in Streams :
        /\ \A i \in DOMAIN ids[t] : ids[t][i] \in Id
        /\ \A i \in DOMAIN out[t] : out[t][i] \in Id
  BY DEF Named, DTypeOK
<1>7. NamesAreOld'
  BY <1>2, <1>4, <1>6 DEF Named, NamesAreOld
<1>8. NamesMatch'
  BY <1>2, <1>3 DEF Named, NamesMatch, NameMatches
<1> QED
  BY <1>4, <1>5, <1>7, <1>8 DEF Named

(* The text of the oldest region goes out under the region's name. *)
LEMMA TakenName ==
  ASSUME Claimed, Named, DTake
  PROVE  /\ cur \in Streams /\ ids[cur] \in Seq(Id) /\ ids[cur] # << >>
         /\ 1 \in DOMAIN ids[cur] /\ Head(ids[cur]) = ids[cur][1]
         /\ Head(ids[cur]) \in Id /\ ~Held(ring[cur][1])
         /\ UNCHANGED << ring, ids, accepted, pc, calls, cur >> /\ StillRunning
         /\ apc = "poll" /\ apc' = "hold"
<1>1. cur \in Streams /\ ring[cur] \in Seq(Region)
  BY DEF Claimed, Typed, TypeOK
<1>2. HasRecord(ring[cur]) /\ apc = "poll" /\ apc' = "hold"
  BY DEF DTake, Take
<1>3. ids[cur] \in Seq(Id) /\ ids[cur] # << >>
  BY <1>1, <1>2, SameLength DEF Claimed, Named, HasRecord
<1>4. ~Held(ring[cur][1])
  BY <1>1, <1>2 DEF HasRecord
<1>5. UNCHANGED << ring, ids, accepted, pc, calls, cur >> /\ StillRunning
  BY DEF DTake, Take, StillRunning
<1> QED
  BY <1>1, <1>2, <1>3, <1>4, <1>5, NameDropped

LEMMA TakeNamed ==
  ASSUME Claimed, Named, DTake
  PROVE  Named'
<1> DEFINE r == Head(ids[cur])
<1>1. /\ cur \in Streams /\ 1 \in DOMAIN ids[cur] /\ r = ids[cur][1] /\ r \in Id
      /\ UNCHANGED << ring, ids, accepted, pc, calls >>
  BY TakenName
<1>2. IsOld(r)
  BY <1>1 DEF Named, NamesAreOld
<1> HIDE DEF r
<1>3. \/ out' = [out EXCEPT ![cur] = Append(@, r)] /\ refused' = refused
      \/ out' = out /\ refused' = refused \cup {r}
  BY DEF DTake, r
<1>4. DTypeOK' /\ \A s \in Streams : \A i \in DOMAIN out'[s] : IsOld(out'[s][i])
  <2>1. CASE out' = out /\ refused' = refused \cup {r}
    BY <1>1, <2>1 DEF Named, DTypeOK, NamesAreOld
  <2>2. CASE out' = [out EXCEPT ![cur] = Append(@, r)] /\ refused' = refused
    <3>1. /\ out \in [Streams -> Seq(Id)] /\ out[cur] \in Seq(Id)
          /\ out'[cur] = Append(out[cur], r)
          /\ \A s \in Streams : s # cur => out'[s] = out[s]
      BY <1>1, <2>2 DEF Named, DTypeOK
    <3>2. /\ out'[cur] \in Seq(Id)
          /\ \A i \in DOMAIN out'[cur] :
               (i \in DOMAIN out[cur] /\ out'[cur][i] = out[cur][i]) \/ out'[cur][i] = r
      BY <1>1, <3>1, NameAppended
    <3>3. out' \in [Streams -> Seq(Id)]
      BY <2>2, <3>1, <3>2
    <3>4. \A s \in Streams : \A i \in DOMAIN out'[s] : IsOld(out'[s][i])
      BY <1>2, <3>1, <3>2 DEF Named, NamesAreOld
    <3> QED
      BY <1>1, <2>2, <3>3, <3>4 DEF Named, DTypeOK
  <2> QED
    BY <1>3, <2>1, <2>2
<1>5. CallsBegun' /\ NamesMatch'
  BY <1>1 DEF Named, CallsBegun, NamesMatch, NameMatches
<1>6. NamesAreOld'
  BY <1>1, <1>4 DEF Named, NamesAreOld, IsOld
<1> QED
  BY <1>4, <1>5, <1>6 DEF Named

LEMMA ReleasedName ==
  ASSUME Claimed, Named, ReleaseStep
  PROVE  /\ cur \in Streams /\ ids[cur] \in Seq(Id) /\ ids[cur] # << >>
         /\ ring[cur] \in Seq(Region) /\ ring[cur] # << >>
         /\ ids'[cur] = Tail(ids[cur]) /\ ring'[cur] = Tail(ring[cur])
         /\ \A s \in Streams : s # cur => ids'[s] = ids[s] /\ ring'[s] = ring[s]
         /\ \A i \in DOMAIN ids'[cur] :
              /\ i + 1 \in DOMAIN ids[cur]
              /\ ids'[cur][i] = ids[cur][i + 1]
              /\ ring'[cur][i] = ring[cur][i + 1]
<1>1. /\ cur \in Streams /\ ring \in [Streams -> Seq(Region)]
      /\ ids \in [Streams -> Seq(Id)]
  BY DEF Claimed, Typed, TypeOK, Named, DTypeOK
<1>2. ring[cur] # << >> /\ ids[cur] # << >> /\ Len(ids[cur]) = Len(ring[cur])
  BY <1>1, SameLength DEF ReleaseStep, HasRecord, Claimed, Named
<1>3. /\ ids'[cur] = Tail(ids[cur]) /\ ring'[cur] = Tail(ring[cur])
      /\ \A s \in Streams : s # cur => ids'[s] = ids[s] /\ ring'[s] = ring[s]
  BY <1>1 DEF ReleaseStep, Release
<1>4. \A i \in DOMAIN ids'[cur] :
        i + 1 \in DOMAIN ids[cur] /\ ids'[cur][i] = ids[cur][i + 1]
  BY <1>1, <1>2, <1>3, NameDropped
<1>5. \A i \in DOMAIN ids'[cur] : ring'[cur][i] = ring[cur][i + 1]
  <2>1. ring[cur] \in Seq(Region) /\ ids[cur] \in Seq(Id)
    BY <1>1
  <2> QED
    BY <1>2, <1>3, <2>1
<1> QED
  BY <1>1, <1>2, <1>3, <1>4, <1>5

LEMMA ReleaseNamed ==
  ASSUME Claimed, Named, ReleaseStep
  PROVE  Named'
<1>1. /\ cur \in Streams /\ ids[cur] \in Seq(Id) /\ ids[cur] # << >>
      /\ ring[cur] \in Seq(Region) /\ ring[cur] # << >>
      /\ ids'[cur] = Tail(ids[cur]) /\ ring'[cur] = Tail(ring[cur])
      /\ \A s \in Streams : s # cur => ids'[s] = ids[s] /\ ring'[s] = ring[s]
      /\ \A i \in DOMAIN ids'[cur] :
           /\ i + 1 \in DOMAIN ids[cur]
           /\ ids'[cur][i] = ids[cur][i + 1]
           /\ ring'[cur][i] = ring[cur][i + 1]
  BY ReleasedName
<1>2. UNCHANGED << out, accepted, refused, pc, calls >>
  BY DEF ReleaseStep
<1>3. DTypeOK'
  <2>1. ids' = [ids EXCEPT ![cur] = Tail(@)] /\ Tail(ids[cur]) \in Seq(Id)
    BY <1>1 DEF ReleaseStep
  <2>2. ids' \in [Streams -> Seq(Id)]
    BY <1>1, <2>1 DEF Named, DTypeOK
  <2>3. Len(Tail(ids[cur])) = Len(ids[cur]) - 1 /\ Len(Tail(ring[cur])) = Len(ring[cur]) - 1
    BY <1>1
  <2>4. \A s \in Streams : Len(ids'[s]) = Len(ring'[s])
    BY <1>1, <2>3 DEF Named, DTypeOK
  <2> QED
    BY <1>2, <2>2, <2>4 DEF Named, DTypeOK
<1>4. \A s \in Streams : \A i \in DOMAIN ids'[s] :
        \E j \in DOMAIN ids[s] : ids'[s][i] = ids[s][j] /\ ring'[s][i] = ring[s][j]
  <2> SUFFICES ASSUME NEW s \in Streams, NEW i \in DOMAIN ids'[s]
               PROVE  \E j \in DOMAIN ids[s] :
                        ids'[s][i] = ids[s][j] /\ ring'[s][i] = ring[s][j]
    OBVIOUS
  <2>1. CASE s = cur
    <3>1. /\ i + 1 \in DOMAIN ids[s]
          /\ ids'[s][i] = ids[s][i + 1] /\ ring'[s][i] = ring[s][i + 1]
      BY <1>1, <2>1
    <3> QED
      BY <3>1
  <2>2. CASE s # cur
    <3>1. ids'[s] = ids[s] /\ ring'[s] = ring[s]
      BY <1>1, <2>2
    <3> QED
      BY <3>1
  <2> QED
    BY <2>1, <2>2
<1>5. CallsBegun'
  BY <1>2 DEF Named, CallsBegun
<1>6. NamesAreOld'
  BY <1>2, <1>4 DEF Named, NamesAreOld, IsOld
<1>7. NamesMatch'
  BY <1>2, <1>4 DEF Named, NamesMatch, NameMatches
<1> QED
  BY <1>3, <1>5, <1>6, <1>7 DEF Named

LEMMA NextNamed ==
  ASSUME Claimed, Claimed', Named, [DNext]_dvars
  PROVE  Named'
<1>1. CASE AsideStep
  BY <1>1 DEF AsideStep, RecordsStay, Named, DTypeOK, CallsBegun, NamesAreOld, IsOld,
     NamesMatch, NameMatches
<1> QED
  BY <1>1, StepCases, RecordsStayNamed, ClaimNamed, CommitNamed, TakeNamed,
     ReleaseNamed DEF Claimed

LEMMA NamesHold == DSpec => [](Claimed /\ Named)
<1>1. DSpec => []Claimed
  BY PipelineHolds
<1>2. DSpec => []Named
  BY <1>1, InitNamed, NextNamed, PTL DEF DSpec
<1> QED
  BY <1>1, <1>2, PTL

(* Every name, record and set of names keeps its type, and each ring has   *)
(* one name for each of its regions.                                       *)
THEOREM DeliveryTypeCorrect == DSpec => []DTypeOK
<1>1. Named => DTypeOK
  BY DEF Named
<1> QED
  BY <1>1, NamesHold, PTL

-----------------------------------------------------------------------------
(* Backoff.  An accepted call is at one of four places: under way, in the  *)
(* ring, in the output, or refused.  It goes from the first to the second  *)
(* with its claim, as its commit finds the region under the call's own     *)
(* name; and from the second to the third or fourth before the region is   *)
(* released, as the region being read is already accounted for.            *)

AcceptedAreLogCalls == \A c \in accepted : c.own \in LogThreads

ReadIsAccountedFor ==
  apc = "hold" =>
    \/ \E i \in DOMAIN out[cur] : out[cur][i] = Head(ids[cur])
    \/ Head(ids[cur]) \in refused

UnderWay(c) == calls[c.own] = c.num /\ pc[c.own] # "idle"
InRing(c) == \E i \in DOMAIN ids[0] : ids[0][i] = c
InOutput(c) == \E i \in DOMAIN out[0] : out[0][i] = c
BackoffAlive == opts.backpressure = "Backoff" /\ running /\ apc # "dead"

Kept(c) == UnderWay(c) \/ InRing(c) \/ InOutput(c) \/ c \in refused

Accounted ==
  /\ AcceptedAreLogCalls /\ ReadIsAccountedFor
  /\ BackoffAlive => \A c \in accepted : Kept(c)

LEMMA InitAccounted == DInit => Accounted
  BY DEF DInit, Init, Accounted, AcceptedAreLogCalls, ReadIsAccountedFor

(* What is written stays written, and what is refused stays refused. *)
LEMMA OutputGrows ==
  ASSUME Claimed, Named, [DNext]_dvars
  PROVE  /\ \A s \in Streams : \A i \in DOMAIN out[s] :
              i \in DOMAIN out'[s] /\ out'[s][i] = out[s][i]
         /\ refused \subseteq refused'
<1>1. CASE UNCHANGED << out, refused >>
  BY <1>1
<1>2. CASE DTake
  <2>1. /\ out \in [Streams -> Seq(Id)] /\ cur \in Streams /\ Head(ids[cur]) \in Id
        /\ out[cur] \in Seq(Id)
    BY <1>2, TakenName DEF Named, DTypeOK
  <2>2. \A i \in DOMAIN out[cur] :
          /\ i \in DOMAIN Append(out[cur], Head(ids[cur]))
          /\ Append(out[cur], Head(ids[cur]))[i] = out[cur][i]
    BY <2>1, NameAppended
  <2> QED
    BY <1>2, <2>1, <2>2 DEF DTake
<1> QED
  BY <1>1, <1>2, StepCases
  DEF Claimed, ClaimStep, CommitStep, EnterStep, WaitStep, ReleaseStep, AsideStep,
      RecordsStay

(* The name the archiver has written, or its writer refused. *)
LEMMA NextRead ==
  ASSUME Claimed, Named, ReadIsAccountedFor, [DNext]_dvars
  PROVE  ReadIsAccountedFor'
<1> SUFFICES ASSUME apc' = "hold"
             PROVE  \/ \E i \in DOMAIN out'[cur'] : out'[cur'][i] = Head(ids'[cur'])
                    \/ Head(ids'[cur']) \in refused'
  BY DEF ReadIsAccountedFor
<1>1. CASE DTake
  <2>1. /\ cur' = cur /\ ids' = ids /\ cur \in Streams /\ Head(ids[cur]) \in Id
        /\ out[cur] \in Seq(Id) /\ out \in [Streams -> Seq(Id)]
    BY <1>1, TakenName DEF Named, DTypeOK
  <2>2. CASE out' = [out EXCEPT ![cur] = Append(@, Head(ids[cur]))]
    <3>1. out'[cur] = Append(out[cur], Head(ids[cur]))
      BY <2>1, <2>2
    <3>2. /\ Len(out[cur]) + 1 \in DOMAIN Append(out[cur], Head(ids[cur]))
          /\ Append(out[cur], Head(ids[cur]))[Len(out[cur]) + 1] = Head(ids[cur])
      BY <2>1, NameAppended
    <3> QED
      BY <2>1, <3>1, <3>2
  <2>3. CASE refused' = refused \cup {Head(ids[cur])}
    BY <2>1, <2>3
  <2> QED
    BY <1>1, <2>2, <2>3 DEF DTake
<1>2. ASSUME apc = "hold", cur' = cur, Head(ids'[cur]) = Head(ids[cur])
      PROVE  \/ \E i \in DOMAIN out'[cur'] : out'[cur'][i] = Head(ids'[cur'])
             \/ Head(ids'[cur']) \in refused'
  <2>1. cur \in Streams
    BY DEF Claimed, Typed, TypeOK
  <2> QED
    BY <1>2, <2>1, OutputGrows DEF ReadIsAccountedFor
<1>3. ASSUME NEW p \in Producers, CommitStep(p) \/ EnterStep(p) \/ WaitStep(p)
      PROVE  apc = "hold" /\ cur' = cur /\ ids' = ids
  BY <1>3 DEF CommitStep, EnterStep, WaitStep, RecordsStay, ReaderStays
<1>4. ASSUME NEW p \in Producers, ClaimStep(p), Claimed'
      PROVE  apc = "hold" /\ cur' = cur /\ Head(ids'[cur]) = Head(ids[cur])
  <2>1. apc = "hold" /\ cur' = cur
    BY <1>4 DEF ClaimStep, ReaderStays
  <2>2. /\ cur \in Streams /\ HasRecord(ring[cur])
    BY <2>1 DEF Claimed, Typed, TypeOK, ReadClaimInPlace
  <2>3. ids[cur] \in Seq(Id) /\ ids[cur] # << >>
    BY <2>2, SameLength DEF HasRecord, Claimed, Named
  <2>4. CASE cur = Stream(p)
    <3>1. CallOf(p) \in Id /\ ids'[cur] = Append(ids[cur], CallOf(p))
      BY <1>4, <2>4, ClaimedName
    <3> QED
      BY <2>1, <2>3, <3>1
  <2>5. CASE cur # Stream(p)
    BY <1>4, <2>1, <2>2, <2>5, ClaimedName
  <2> QED
    BY <2>4, <2>5
<1>5. CASE ReleaseStep
  BY <1>5 DEF ReleaseStep
<1>6. CASE AsideStep
  BY <1>2, <1>6 DEF AsideStep, RecordsStay
<1>7. Claimed'
  BY IsPipelineStep, NextTyped, NextDirty, NextClaims DEF Claimed
<1> QED
  BY <1>1, <1>2, <1>3, <1>4, <1>5, <1>6, <1>7, StepCases DEF Claimed

LEMMA NextKept ==
  ASSUME Claimed, Claimed', Named, Accounted, [DNext]_dvars, BackoffAlive',
         NEW c \in accepted'
  PROVE  Kept(c)'
<1>0. BackoffAlive
  <2>1. opts' = opts
    BY StepCases DEF Claimed, ClaimStep, CommitStep, EnterStep, WaitStep, ReleaseStep,
       AsideStep, StillRunning, DTake, Take
  <2>2. running' => running
    BY StepCases DEF Claimed, ClaimStep, CommitStep, EnterStep, WaitStep, ReleaseStep,
       AsideStep, StillRunning, DTake, Take
  <2>3. apc = "dead" => apc' = "dead"
    BY StepCases DEF Claimed, ClaimStep, CommitStep, EnterStep, WaitStep, ReleaseStep,
       AsideStep, ReaderStays, DTake, Take
  <2> QED
    BY <2>1, <2>2, <2>3 DEF BackoffAlive
<1>1. 0 \in Streams /\ accepted \subseteq Id
  BY StreamFacts DEF Named, DTypeOK
<1>2. InOutput(c) \/ c \in refused => Kept(c)'
  BY <1>1, OutputGrows DEF Kept, InOutput
<1>3. ASSUME NEW p \in Producers, EnterStep(p) PROVE Kept(c)'
  <2>1. CASE c \in accepted /\ c.own # p
    BY <1>0, <1>1, <1>2, <1>3, <2>1
    DEF EnterStep, OthersStay, Accounted, Kept, UnderWay, InRing, Id
  <2>2. CASE c \in accepted /\ c.own = p
    BY <1>0, <1>1, <1>2, <1>3, <2>2
    DEF EnterStep, Accounted, Kept, UnderWay, InRing
  <2>3. CASE c \notin accepted
    BY <1>3, <2>3 DEF EnterStep, CallOf, Kept, UnderWay
  <2> QED
    BY <2>1, <2>2, <2>3
<1>4. ASSUME NEW p \in Producers, ClaimStep(p) PROVE Kept(c)'
  <2>1. c \in accepted
    BY <1>4 DEF ClaimStep
  <2>2. CASE UnderWay(c)
    BY <1>1, <1>4, <2>1, <2>2 DEF ClaimStep, OthersStay, Kept, UnderWay, Id
  <2>3. CASE InRing(c)
    <3>1. CASE Stream(p) = 0
      <4>1. ids'[0] = Append(ids[0], CallOf(p)) /\ CallOf(p) \in Id /\ ids[0] \in Seq(Id)
        BY <1>1, <1>4, <3>1, ClaimedName DEF Named, DTypeOK
      <4>2. \A i \in DOMAIN ids[0] : i \in DOMAIN ids'[0] /\ ids'[0][i] = ids[0][i]
        BY <4>1, NameAppended
      <4> QED
        BY <2>3, <4>2 DEF Kept, InRing
    <3>2. CASE Stream(p) # 0
      BY <1>1, <1>4, <2>3, <3>2, ClaimedName DEF Kept, InRing
    <3> QED
      BY <3>1, <3>2
  <2> QED
    BY <1>0, <1>2, <2>1, <2>2, <2>3 DEF Accounted, Kept
<1>5. ASSUME NEW p \in Producers, CommitStep(p) PROVE Kept(c)'
  <2>1. c \in accepted /\ ids' = ids
    BY <1>5 DEF CommitStep
  <2>2. CASE UnderWay(c) /\ c.own # p
    BY <1>1, <1>5, <2>1, <2>2 DEF CommitStep, OthersStay, Kept, UnderWay, Id
  <2>3. CASE UnderWay(c) /\ c.own = p
    <3>1. p \in LogThreads /\ Stream(p) = 0
      BY <2>1, <2>3, StreamFacts DEF Accounted, AcceptedAreLogCalls
    <3>2. PICK k \in Nat :
            k \in DOMAIN ids[0] /\ Held(ring[0][k]) /\ ring[0][k].own = p
      BY <1>5, <3>1, CommittedRegion
    <3>3. ids[0][k].own = p /\ ids[0][k].num = calls[p] /\ ids[0][k] \in Id
      BY <1>1, <3>2 DEF Named, NamesMatch, NameMatches, DTypeOK
    <3>4. ids[0][k] = c
      BY <1>1, <2>1, <2>3, <3>3 DEF UnderWay, Id
    <3> QED
      BY <2>1, <3>2, <3>4 DEF Kept, InRing
  <2>4. CASE InRing(c)
    BY <2>1, <2>4 DEF Kept, InRing
  <2> QED
    BY <1>0, <1>2, <2>1, <2>2, <2>3, <2>4 DEF Accounted, Kept
<1>6. ASSUME NEW p \in Producers, WaitStep(p) PROVE Kept(c)'
  <2>1. c \in accepted /\ ids' = ids
    BY <1>6 DEF WaitStep, RecordsStay
  <2>2. CASE UnderWay(c) /\ c.own # p
    BY <1>1, <1>6, <2>1, <2>2 DEF WaitStep, OthersStay, Kept, UnderWay, Id
  <2>3. CASE UnderWay(c) /\ c.own = p
    BY <1>0, <1>6, <2>3 DEF WaitStep, Kept, UnderWay, BackoffAlive
  <2>4. CASE InRing(c)
    BY <2>1, <2>4 DEF Kept, InRing
  <2> QED
    BY <1>0, <1>2, <2>1, <2>2, <2>3, <2>4 DEF Accounted, Kept
<1>7. CASE DTake
  BY <1>0, <1>2, <1>7, TakenName DEF Accounted, Kept, UnderWay, InRing
<1>8. CASE ReleaseStep
  <2>1. c \in accepted /\ UNCHANGED << pc, calls >>
    BY <1>8 DEF ReleaseStep
  <2>2. CASE UnderWay(c)
    BY <2>1, <2>2 DEF Kept, UnderWay
  <2>3. CASE InRing(c) /\ cur # 0
    BY <1>1, <1>8, <2>3, ReleasedName DEF Kept, InRing
  <2>4. CASE InRing(c) /\ cur = 0
    <3>1. PICK i \in DOMAIN ids[0] : ids[0][i] = c
      BY <2>4 DEF InRing
    <3>2. ids[0] \in Seq(Id) /\ ids[0] # << >> /\ ids'[0] = Tail(ids[0])
      BY <1>8, <2>4, ReleasedName
    <3>3. CASE i = 1
      <4>1. apc = "hold" /\ Head(ids[cur]) = c
        BY <1>8, <2>4, <3>1, <3>2, <3>3, NameDropped DEF ReleaseStep, BackoffAlive
      <4> QED
        BY <1>2, <2>4, <4>1 DEF Accounted, ReadIsAccountedFor, InOutput
    <3>4. CASE i # 1
      <4>1. i - 1 \in DOMAIN ids'[0] /\ ids'[0][i - 1] = c
        BY <3>1, <3>2, <3>4, NameDropped
      <4> QED
        BY <4>1 DEF Kept, InRing
    <3> QED
      BY <3>3, <3>4
  <2> QED
    BY <1>0, <1>2, <2>1, <2>2, <2>3, <2>4 DEF Accounted, Kept
<1>9. CASE AsideStep
  BY <1>0, <1>2, <1>9 DEF AsideStep, RecordsStay, Accounted, Kept, UnderWay, InRing
<1> QED
  BY <1>3, <1>4, <1>5, <1>6, <1>7, <1>8, <1>9, StepCases DEF Claimed

LEMMA NextAccounted ==
  ASSUME Claimed, Claimed', Named, Accounted, [DNext]_dvars
  PROVE  Accounted'
<1>1. AcceptedAreLogCalls'
  <2>1. ASSUME NEW p \in Producers, EnterStep(p) PROVE AcceptedAreLogCalls'
    BY <2>1 DEF EnterStep, Accounted, AcceptedAreLogCalls, CallOf
  <2>2. CASE accepted' = accepted
    BY <2>2 DEF Accounted, AcceptedAreLogCalls
  <2> QED
    BY <2>1, <2>2, StepCases
    DEF Claimed, ClaimStep, CommitStep, WaitStep, DTake, ReleaseStep, AsideStep,
        RecordsStay
<1>2. ReadIsAccountedFor'
  BY NextRead DEF Accounted
<1>3. BackoffAlive' => \A c \in accepted' : Kept(c)'
  BY NextKept
<1> QED
  BY <1>1, <1>2, <1>3 DEF Accounted

(* "Guarantees delivery" (lib.rs 308): in Backoff mode, while the logger   *)
(* runs and its archiver lives, an accepted call that has returned is in   *)
(* the ring, or was handed to the writer, or its writer refused it.        *)
THEOREM BackoffKeepsAll == DSpec => []BackoffLosesNothing
<1>1. Accounted => BackoffLosesNothing
  BY DEF Accounted, BackoffLosesNothing, BackoffAlive, Kept, UnderWay, InRing, InOutput
<1>2. DSpec => []Accounted
  BY NamesHold, InitAccounted, NextAccounted, PTL DEF DSpec
<1> QED
  BY <1>1, <1>2, PTL

-----------------------------------------------------------------------------
(* The refinement.  The queue of a stream is read off its names and its    *)
(* ring, less the region that the archiver holds.                          *)

PlaceOf(c, e) == [own |-> c.own, num |-> c.num, ready |-> ~Held(e)]

Places(names, q) == [i \in 1 .. Len(names) |-> PlaceOf(names[i], q[i])]

(* The places once the one at k has been filled in. *)
Filled(places, k) == [places EXCEPT ![k].ready = TRUE]

View(s) ==
  IF apc = "hold" /\ cur = s THEN Tail(Places(ids[s], ring[s]))
  ELSE Places(ids[s], ring[s])

InStep(names, q) ==
  names \in Seq(Id) /\ q \in Seq(Region) /\ Len(names) = Len(q)

LEMMA PendingIsView ==
  /\ AbstractPending = [s \in Streams |-> View(s)]
  /\ AbstractPending' = [s \in Streams |-> View(s)']
  BY DEF AbstractPending, View, Places, PlaceOf, PlaceAt

LEMMA PlaceOfFacts ==
  ASSUME NEW c \in Id, NEW e
  PROVE  /\ PlaceOf(c, e) \in Service!Place
         /\ PlaceOf(c, e).own = c.own /\ PlaceOf(c, e).num = c.num
         /\ PlaceOf(c, e).ready = ~Held(e)
<1>1. c.own \in Producers /\ c.num \in 1 .. MaxCalls
  BY DEF Id
<1>2. (~Held(e)) \in BOOLEAN
  BY DEF Held
<1> QED
  BY <1>1, <1>2 DEF PlaceOf, Service!Place

LEMMA PlacesFacts ==
  ASSUME NEW names, NEW q, InStep(names, q)
  PROVE  /\ Places(names, q) \in Seq(Service!Place)
         /\ Len(Places(names, q)) = Len(names) /\ Len(names) \in Nat
         /\ DOMAIN Places(names, q) = 1 .. Len(names) /\ DOMAIN names = 1 .. Len(names)
         /\ \A i \in 1 .. Len(names) : Places(names, q)[i] = PlaceOf(names[i], q[i])
<1>1. \A i \in 1 .. Len(names) : PlaceOf(names[i], q[i]) \in Service!Place
  BY PlaceOfFacts DEF InStep
<1>2. Len(names) \in Nat /\ DOMAIN names = 1 .. Len(names)
  BY DEF InStep
<1> QED
  BY <1>1, <1>2 DEF Places

LEMMA PlacesAppend ==
  ASSUME NEW names, NEW q, InStep(names, q), NEW c \in Id, NEW e \in Region
  PROVE  /\ InStep(Append(names, c), Append(q, e))
         /\ Places(Append(names, c), Append(q, e)) = Append(Places(names, q), PlaceOf(c, e))
<1>1. InStep(Append(names, c), Append(q, e))
  BY DEF InStep
<1> DEFINE lhs == Places(Append(names, c), Append(q, e))
           rhs == Append(Places(names, q), PlaceOf(c, e))
<1>2. /\ Len(lhs) = Len(names) + 1 /\ lhs \in Seq(Service!Place)
      /\ \A i \in 1 .. Len(names) + 1 : lhs[i] = PlaceOf(Append(names, c)[i], Append(q, e)[i])
  <2>1. Len(Append(names, c)) = Len(names) + 1
    BY DEF InStep
  <2> QED
    BY <1>1, <2>1, PlacesFacts
<1>3. /\ Len(rhs) = Len(names) + 1 /\ rhs \in Seq(Service!Place)
      /\ \A i \in 1 .. Len(names) : rhs[i] = PlaceOf(names[i], q[i])
      /\ rhs[Len(names) + 1] = PlaceOf(c, e)
  BY PlacesFacts, PlaceOfFacts
<1>4. \A i \in 1 .. Len(names) + 1 : lhs[i] = rhs[i]
  <2> SUFFICES ASSUME NEW i \in 1 .. Len(names) + 1 PROVE lhs[i] = rhs[i]
    OBVIOUS
  <2>1. CASE i \in 1 .. Len(names)
    <3>1. Append(names, c)[i] = names[i] /\ Append(q, e)[i] = q[i]
      BY <2>1 DEF InStep
    <3> QED
      BY <1>2, <1>3, <2>1, <3>1
  <2>2. CASE i = Len(names) + 1
    <3>1. Append(names, c)[i] = c /\ Append(q, e)[i] = e
      BY <2>2 DEF InStep
    <3> QED
      BY <1>2, <1>3, <2>2, <3>1
  <2> QED
    BY <2>1, <2>2, PlacesFacts
<1> HIDE DEF lhs, rhs
<1>5. lhs = rhs
  BY <1>2, <1>3, <1>4, SeqEqual
<1> QED
  BY <1>1, <1>5 DEF lhs, rhs

LEMMA PlacesTail ==
  ASSUME NEW names, NEW q, InStep(names, q), names # << >>
  PROVE  /\ InStep(Tail(names), Tail(q))
         /\ Places(names, q) # << >>
         /\ Head(Places(names, q)) = PlaceOf(names[1], q[1])
         /\ Places(Tail(names), Tail(q)) = Tail(Places(names, q))
<1>1. /\ InStep(Tail(names), Tail(q)) /\ Len(Tail(names)) = Len(names) - 1
      /\ Len(names) \in Nat \ {0}
  BY DEF InStep
<1> DEFINE all == Places(names, q)
           lhs == Places(Tail(names), Tail(q))
<1>2. /\ all \in Seq(Service!Place) /\ Len(all) = Len(names)
      /\ \A i \in 1 .. Len(names) : all[i] = PlaceOf(names[i], q[i])
  BY PlacesFacts
<1>3. /\ lhs \in Seq(Service!Place) /\ Len(lhs) = Len(names) - 1
      /\ \A i \in 1 .. Len(names) - 1 : lhs[i] = PlaceOf(Tail(names)[i], Tail(q)[i])
  <2>1. /\ lhs \in Seq(Service!Place) /\ Len(lhs) = Len(Tail(names))
        /\ \A i \in 1 .. Len(Tail(names)) : lhs[i] = PlaceOf(Tail(names)[i], Tail(q)[i])
    BY <1>1, PlacesFacts
  <2> QED
    BY <1>1, <2>1
<1> HIDE DEF all, lhs
<1>4. all # << >> /\ Head(all) = all[1] /\ 1 \in 1 .. Len(names)
  BY <1>1, <1>2
<1>5. /\ Tail(all) \in Seq(Service!Place) /\ Len(Tail(all)) = Len(names) - 1
      /\ \A i \in 1 .. Len(names) - 1 : Tail(all)[i] = all[i + 1]
  BY <1>1, <1>2, <1>4
<1>6. \A i \in 1 .. Len(names) - 1 : lhs[i] = Tail(all)[i]
  <2> SUFFICES ASSUME NEW i \in 1 .. Len(names) - 1 PROVE lhs[i] = Tail(all)[i]
    OBVIOUS
  <2>1. Tail(names)[i] = names[i + 1] /\ Tail(q)[i] = q[i + 1] /\ i + 1 \in 1 .. Len(names)
    BY <1>1 DEF InStep
  <2> QED
    BY <1>2, <1>3, <1>5, <2>1
<1>7. lhs = Tail(all)
  BY <1>3, <1>5, <1>6, SeqEqual
<1> QED
  BY <1>1, <1>2, <1>4, <1>7 DEF all, lhs

LEMMA PlacesCommit ==
  ASSUME NEW names, NEW q, InStep(names, q), NEW k \in DOMAIN names, Held(q[k]),
         NEW st \in {"early", "late"}, NEW new, CommitOutcome(q, k, st, new)
  PROVE  /\ InStep(names, new)
         /\ Places(names, new) = Filled(Places(names, q), k)
<1>1. new \in Seq(Region) /\ DOMAIN new = DOMAIN q
  BY DEF CommitOutcome
<1>2. InStep(names, new)
  BY <1>1 DEF InStep
<1>3. \A i \in 1 .. Len(names) :
        Places(names, new)[i] =
          IF i = k THEN [Places(names, q)[k] EXCEPT !.ready = TRUE] ELSE Places(names, q)[i]
  <2> SUFFICES ASSUME NEW i \in 1 .. Len(names)
               PROVE  PlaceOf(names[i], new[i]) =
                        IF i = k THEN [PlaceOf(names[k], q[k]) EXCEPT !.ready = TRUE]
                        ELSE PlaceOf(names[i], q[i])
    <3>1. k \in 1 .. Len(names)
      BY PlacesFacts
    <3>2. \A i \in 1 .. Len(names) :
            /\ Places(names, new)[i] = PlaceOf(names[i], new[i])
            /\ Places(names, q)[i] = PlaceOf(names[i], q[i])
      BY <1>2, PlacesFacts
    <3> QED
      BY <3>1, <3>2
  <2>1. CASE i # k
    <3>1. new[i] = q[i]
      BY <2>1, PlacesFacts DEF CommitOutcome, InStep
    <3> QED
      BY <2>1, <3>1
  <2>2. CASE i = k
    <3>1. ~Held(new[k])
      BY DEF CommitOutcome, Held
    <3> QED
      BY <2>2, <3>1 DEF PlaceOf
  <2> QED
    BY <2>1, <2>2
<1>4. k \in 1 .. Len(names)
  BY PlacesFacts
<1>5. /\ Places(names, new) = [i \in 1 .. Len(names) |-> Places(names, new)[i]]
      /\ Places(names, q) = [i \in 1 .. Len(names) |-> Places(names, q)[i]]
  BY DEF Places
<1> QED
  BY <1>2, <1>3, <1>4, <1>5 DEF Filled

(* Names and regions of every stream are in step, so all of this applies.  *)
LEMMA StreamsInStep ==
  ASSUME Claimed, Named, NEW s \in Streams
  PROVE  InStep(ids[s], ring[s])
  BY DEF InStep, Claimed, Typed, TypeOK, Named, DTypeOK

(* What a held region leaves of the queue: one less, never the open ones.  *)
LEMMA ReadIsFilled ==
  ASSUME Claimed, Named, apc = "hold"
  PROVE  /\ cur \in Streams /\ ids[cur] # << >> /\ ring[cur] # << >>
         /\ ~Held(ring[cur][1])
<1>1. cur \in Streams /\ HasRecord(ring[cur]) /\ ring[cur] \in Seq(Region)
  BY DEF Claimed, Typed, TypeOK, ReadClaimInPlace
<1>2. ids[cur] # << >>
  BY <1>1, SameLength DEF Claimed, Named, HasRecord
<1> QED
  BY <1>1, <1>2 DEF HasRecord

LEMMA ClaimIsTakePlace ==
  ASSUME Claimed, Claimed', Named, NEW p \in Producers, ClaimStep(p)
  PROVE  Service!TakePlace(p)
<1> DEFINE s == Stream(p)
           c == CallOf(p)
           e == NewRegion(p)
           new == [own |-> p, num |-> calls'[p], ready |-> FALSE]
<1>1. /\ s \in Streams /\ c \in Id /\ c.own = p /\ c.num = calls'[p]
      /\ e \in Region /\ e.st = "held"
      /\ ids'[s] = Append(ids[s], c) /\ ring'[s] = Append(ring[s], e)
      /\ \A t \in Streams : t # s => ids'[t] = ids[t] /\ ring'[t] = ring[t]
  BY ClaimedName
<1>2. UNCHANGED << out, apc, cur >>
  BY DEF ClaimStep, ReaderStays
<1>3. PlaceOf(c, e) = new /\ calls'[p] \in 1 .. MaxCalls
  BY <1>1 DEF PlaceOf, Held, Id
<1>4. /\ \A i \in DOMAIN ids[s] : ids[s][i].own = p => ids[s][i].num < calls'[p]
      /\ \A i \in DOMAIN out[s] : out[s][i].own = p => out[s][i].num < calls'[p]
  <2>1. \/ pc[p] \in InProgress /\ calls'[p] = calls[p]
        \/ calls'[p] = calls[p] + 1
    BY DEF ClaimStep, InProgress
  <2>2. calls[p] \in Nat
    BY CallsAssumption DEF Claimed, Typed, TypeOK
  <2>3. \A d \in Id : IsOld(d) /\ d.own = p => d.num < calls'[p]
    BY <2>1, <2>2, CallsAssumption DEF IsOld, Id
  <2>4. /\ \A i \in DOMAIN ids[s] : ids[s][i] \in Id /\ IsOld(ids[s][i])
        /\ \A i \in DOMAIN out[s] : out[s][i] \in Id /\ IsOld(out[s][i])
    BY <1>1 DEF Named, DTypeOK, NamesAreOld
  <2> QED
    BY <2>3, <2>4
<1> HIDE DEF s, c, e, new
<1>5. InStep(ids[s], ring[s])
  BY <1>1, StreamsInStep
<1>6. /\ Places(ids'[s], ring'[s]) = Append(Places(ids[s], ring[s]), new)
      /\ Places(ids[s], ring[s]) \in Seq(Service!Place) /\ new \in Service!Place
  BY <1>1, <1>3, <1>5, PlacesAppend, PlacesFacts, PlaceOfFacts
<1>7. View(s)' = Append(View(s), new)
  <2>1. CASE apc = "hold" /\ cur = s
    <3>1. Places(ids[s], ring[s]) # << >>
      BY <1>5, <2>1, ReadIsFilled, PlacesTail
    <3>2. Tail(Append(Places(ids[s], ring[s]), new)) = Append(Tail(Places(ids[s], ring[s])), new)
      BY <1>6, <3>1
    <3> QED
      BY <1>2, <1>6, <2>1, <3>2 DEF View
  <2>2. CASE ~(apc = "hold" /\ cur = s)
    BY <1>2, <1>6, <2>2 DEF View
  <2> QED
    BY <2>1, <2>2
<1>8. \A t \in Streams : t # s => View(t)' = View(t)
  BY <1>1, <1>2 DEF View
<1>9. AbstractPending' = [AbstractPending EXCEPT ![s] = Append(@, new)]
  BY <1>1, <1>7, <1>8, PendingIsView
<1>10. \A i \in DOMAIN View(s) : View(s)[i].own = p => View(s)[i].num < calls'[p]
  <2>1. \A i \in DOMAIN Places(ids[s], ring[s]) :
          /\ Places(ids[s], ring[s])[i].own = p
               => Places(ids[s], ring[s])[i].num < calls'[p]
    <3> SUFFICES ASSUME NEW i \in DOMAIN Places(ids[s], ring[s]),
                        Places(ids[s], ring[s])[i].own = p
                 PROVE  Places(ids[s], ring[s])[i].num < calls'[p]
      OBVIOUS
    <3>1. /\ i \in DOMAIN ids[s] /\ ids[s][i] \in Id
          /\ Places(ids[s], ring[s])[i] = PlaceOf(ids[s][i], ring[s][i])
      BY <1>5, PlacesFacts DEF InStep
    <3> QED
      BY <1>4, <3>1, PlaceOfFacts
  <2>2. CASE apc = "hold" /\ cur = s
    <3>1. Places(ids[s], ring[s]) # << >>
      BY <1>5, <2>2, ReadIsFilled, PlacesTail
    <3>2. \A i \in DOMAIN Tail(Places(ids[s], ring[s])) :
            /\ i + 1 \in DOMAIN Places(ids[s], ring[s])
            /\ Tail(Places(ids[s], ring[s]))[i] = Places(ids[s], ring[s])[i + 1]
      BY <1>6, <3>1
    <3> QED
      BY <2>1, <2>2, <3>2 DEF View
  <2>3. CASE ~(apc = "hold" /\ cur = s)
    BY <2>1, <2>3 DEF View
  <2> QED
    BY <2>2, <2>3
<1>11. AbstractPending[s] = View(s) /\ [q \in Producers |-> Stream(q)][p] = s
  BY <1>1, PendingIsView DEF s
<1>12. Service!IsLater(p, calls'[p])
  BY <1>4, <1>10, <1>11 DEF Service!IsLater
<1> QED
  BY <1>2, <1>3, <1>9, <1>11, <1>12 DEF Service!TakePlace, new

(* What a sequence with one element replaced holds. *)
LEMMA ReplacedElement ==
  ASSUME NEW S, NEW q \in Seq(S), NEW k \in 1 .. Len(q), NEW e \in S
  PROVE  /\ [q EXCEPT ![k] = e] \in Seq(S)
         /\ Len([q EXCEPT ![k] = e]) = Len(q)
         /\ \A i \in 1 .. Len(q) :
              [q EXCEPT ![k] = e][i] = IF i = k THEN e ELSE q[i]
OBVIOUS

(* An open claim keeps its place when the oldest one leaves. *)
LEMMA TailOfUpdate ==
  ASSUME NEW S, NEW q \in Seq(S), NEW k \in DOMAIN q, k # 1, NEW e \in S
  PROVE  /\ k - 1 \in DOMAIN Tail(q) /\ Tail(q)[k - 1] = q[k]
         /\ Tail([q EXCEPT ![k] = e]) = [Tail(q) EXCEPT ![k - 1] = e]
<1> DEFINE r == [q EXCEPT ![k] = e]
<1>1. /\ Len(q) \in Nat \ {0} /\ k \in 2 .. Len(q) /\ q # << >>
      /\ r \in Seq(S) /\ Len(r) = Len(q) /\ r # << >>
      /\ \A i \in 1 .. Len(q) : r[i] = IF i = k THEN e ELSE q[i]
  OBVIOUS
<1> HIDE DEF r
<1>2. /\ Tail(q) \in Seq(S) /\ Len(Tail(q)) = Len(q) - 1
      /\ Tail(r) \in Seq(S) /\ Len(Tail(r)) = Len(q) - 1
      /\ \A i \in 1 .. Len(q) - 1 : Tail(q)[i] = q[i + 1] /\ Tail(r)[i] = r[i + 1]
  BY <1>1
<1> DEFINE t == [Tail(q) EXCEPT ![k - 1] = e]
<1>3. /\ t \in Seq(S) /\ Len(t) = Len(q) - 1
      /\ \A i \in 1 .. Len(q) - 1 : t[i] = IF i = k - 1 THEN e ELSE Tail(q)[i]
  <2>1. k - 1 \in 1 .. Len(Tail(q))
    BY <1>1, <1>2
  <2> DEFINE u == Tail(q)
  <2>2. u \in Seq(S) /\ k - 1 \in 1 .. Len(u) /\ Len(u) = Len(q) - 1
    BY <1>2, <2>1
  <2> HIDE DEF u
  <2>3. /\ [u EXCEPT ![k - 1] = e] \in Seq(S)
        /\ Len([u EXCEPT ![k - 1] = e]) = Len(u)
        /\ \A i \in 1 .. Len(u) :
             [u EXCEPT ![k - 1] = e][i] = IF i = k - 1 THEN e ELSE u[i]
    BY <2>2, ReplacedElement
  <2> QED
    BY <2>2, <2>3 DEF u
<1> HIDE DEF t
<1>4. \A i \in 1 .. Len(q) - 1 : Tail(r)[i] = t[i]
  <2> SUFFICES ASSUME NEW i \in 1 .. Len(q) - 1 PROVE Tail(r)[i] = t[i]
    OBVIOUS
  <2>1. i + 1 \in 1 .. Len(q) /\ (i + 1 = k <=> i = k - 1)
    BY <1>1
  <2>2. Tail(r)[i] = IF i = k - 1 THEN e ELSE q[i + 1]
    BY <1>1, <1>2, <2>1
  <2>3. t[i] = IF i = k - 1 THEN e ELSE q[i + 1]
    BY <1>2, <1>3
  <2> QED
    BY <2>2, <2>3
<1>5. Tail(r) = t
  BY <1>2, <1>3, <1>4, SeqEqual
<1> QED
  BY <1>1, <1>2, <1>5 DEF r, t

LEMMA CommitIsFillIn ==
  ASSUME Claimed, Claimed', Named, NEW p \in Producers, CommitStep(p)
  PROVE  Service!FillIn(p)
<1>1. PICK s \in Streams, k \in Nat, st \in {"early", "late"} :
        /\ s = Stream(p) /\ k \in DOMAIN ids[s]
        /\ Held(ring[s][k]) /\ ring[s][k].own = p
        /\ CommitOutcome(ring[s], k, st, ring'[s])
        /\ \A t \in Streams : t # s => ring'[t] = ring[t]
  BY CommittedRegion
<1>2. UNCHANGED << ids, out, apc, cur >>
  BY DEF CommitStep, ReaderStays
<1> DEFINE all == Places(ids[s], ring[s])
           new == [all[k] EXCEPT !.ready = TRUE]
<1>3. InStep(ids[s], ring[s])
  BY StreamsInStep
<1>4. Places(ids'[s], ring'[s]) = [all EXCEPT ![k].ready = TRUE]
  <2>1. ids'[s] = ids[s]
    BY <1>2
  <2>2. /\ k \in DOMAIN ids[s] /\ Held(ring[s][k])
        /\ CommitOutcome(ring[s], k, st, ring'[s])
    BY <1>1
  <2>3. Places(ids[s], ring'[s]) = Filled(Places(ids[s], ring[s]), k)
    BY <1>3, <2>2, PlacesCommit
  <2> QED
    BY <2>1, <2>3 DEF Filled
<1>5. /\ all \in Seq(Service!Place) /\ k \in DOMAIN all /\ all[k] \in Service!Place
      /\ all[k].own = p /\ ~all[k].ready
  <2>1. ids[s][k].own = p /\ ids[s][k] \in Id
    BY <1>1 DEF Named, NamesMatch, NameMatches, DTypeOK
  <2>2. /\ all \in Seq(Service!Place) /\ k \in DOMAIN all
        /\ all[k] = PlaceOf(ids[s][k], ring[s][k])
    BY <1>1, <1>3, PlacesFacts
  <2>3. /\ PlaceOf(ids[s][k], ring[s][k]) \in Service!Place
        /\ PlaceOf(ids[s][k], ring[s][k]).own = p
        /\ ~PlaceOf(ids[s][k], ring[s][k]).ready
    BY <1>1, <2>1, PlaceOfFacts
  <2> HIDE DEF all
  <2> QED
    BY <2>2, <2>3
<1>6. new \in Service!Place
  BY <1>5 DEF Service!Place
<1> HIDE DEF all, new
<1>7. \E i \in DOMAIN View(s) :
        /\ View(s)[i].own = p /\ ~View(s)[i].ready
        /\ View(s)' = [View(s) EXCEPT ![i].ready = TRUE]
  <2>1. CASE apc = "hold" /\ cur = s
    <3>1. k # 1
      BY <1>1, <2>1, ReadIsFilled
    <3>2. /\ View(s) = Tail(all)
          /\ View(s)' = Tail([all EXCEPT ![k] = new])
      BY <1>2, <1>4, <2>1 DEF View, all, new
    <3>3. /\ k - 1 \in DOMAIN Tail(all) /\ Tail(all)[k - 1] = all[k]
          /\ Tail([all EXCEPT ![k] = new]) = [Tail(all) EXCEPT ![k - 1] = new]
      BY <1>5, <1>6, <3>1, TailOfUpdate
    <3>4. /\ k - 1 \in DOMAIN View(s) /\ View(s)[k - 1] = all[k]
          /\ View(s)' = [View(s) EXCEPT ![k - 1] = new]
      BY <3>2, <3>3
    <3>5. View(s)' = [View(s) EXCEPT ![k - 1].ready = TRUE]
      BY <3>4 DEF new
    <3> QED
      BY <1>5, <3>4, <3>5
  <2>2. CASE ~(apc = "hold" /\ cur = s)
    <3>1. View(s) = all /\ View(s)' = [all EXCEPT ![k].ready = TRUE]
      BY <1>2, <1>4, <2>2 DEF View, all
    <3> QED
      BY <1>5, <3>1
  <2> QED
    BY <2>1, <2>2
<1>8. \A t \in Streams : t # s => View(t)' = View(t)
  BY <1>1, <1>2 DEF View
<1>9. PICK i \in DOMAIN View(s) :
        /\ View(s)[i].own = p /\ ~View(s)[i].ready
        /\ View(s)' = [View(s) EXCEPT ![i].ready = TRUE]
  BY <1>7
<1>10. AbstractPending' = [AbstractPending EXCEPT ![s][i].ready = TRUE]
  BY <1>8, <1>9, PendingIsView
<1>11. AbstractPending[s] = View(s) /\ [q \in Producers |-> Stream(q)][p] = s
  BY <1>1, PendingIsView
<1> QED
  BY <1>2, <1>9, <1>10, <1>11 DEF Service!FillIn

(* The oldest place of a stream whose record can be read. *)
LEMMA ReadableIsWritable ==
  ASSUME Claimed, Named, apc = "poll", HasRecord(ring[cur])
  PROVE  /\ cur \in Streams /\ Service!Writable(cur)
         /\ AbstractPending[cur] = Places(ids[cur], ring[cur])
         /\ Head(ids[cur]) \in Id
         /\ Head(AbstractPending[cur]).own = Head(ids[cur]).own
         /\ Head(AbstractPending[cur]).num = Head(ids[cur]).num
<1>1. cur \in Streams /\ ring[cur] \in Seq(Region) /\ InStep(ids[cur], ring[cur])
  BY StreamsInStep DEF Claimed, Typed, TypeOK
<1>2. ids[cur] # << >> /\ ~Held(ring[cur][1]) /\ ids[cur] \in Seq(Id)
  BY <1>1, SameLength DEF Claimed, Named, HasRecord
<1>3. AbstractPending[cur] = Places(ids[cur], ring[cur])
  BY <1>1, PendingIsView DEF View
<1>4. Head(ids[cur]) = ids[cur][1] /\ Head(ids[cur]) \in Id
  BY <1>2, NameDropped
<1>5. /\ AbstractPending[cur] # << >>
      /\ Head(AbstractPending[cur]) = PlaceOf(Head(ids[cur]), ring[cur][1])
  BY <1>1, <1>2, <1>3, <1>4, PlacesTail
<1>6. /\ Head(AbstractPending[cur]).own = Head(ids[cur]).own
      /\ Head(AbstractPending[cur]).num = Head(ids[cur]).num
      /\ Head(AbstractPending[cur]).ready
  <2> DEFINE c == Head(ids[cur])
             e == ring[cur][1]
  <2>1. c \in Id /\ ~Held(e) /\ Head(AbstractPending[cur]) = PlaceOf(c, e)
    BY <1>2, <1>4, <1>5
  <2> HIDE DEF c, e
  <2>2. /\ PlaceOf(c, e).own = c.own /\ PlaceOf(c, e).num = c.num
        /\ PlaceOf(c, e).ready = ~Held(e)
    BY <2>1, PlaceOfFacts
  <2>3. /\ Head(AbstractPending[cur]).own = c.own
        /\ Head(AbstractPending[cur]).num = c.num
        /\ Head(AbstractPending[cur]).ready
    BY <2>1, <2>2
  <2> QED
    BY <2>3 DEF c
<1> QED
  BY <1>1, <1>3, <1>4, <1>5, <1>6 DEF Service!Writable

LEMMA TakeIsWriteOrDiscard ==
  ASSUME Claimed, Named, DTake
  PROVE  Service!WriteNext(cur) \/ Service!DiscardNext(cur)
<1>1. /\ apc = "poll" /\ apc' = "hold" /\ HasRecord(ring[cur])
      /\ UNCHANGED << ring, ids, cur >>
  BY DEF DTake, Take
<1>2. /\ cur \in Streams /\ Service!Writable(cur)
      /\ AbstractPending[cur] = Places(ids[cur], ring[cur])
      /\ Head(AbstractPending[cur]).own = Head(ids[cur]).own
      /\ Head(AbstractPending[cur]).num = Head(ids[cur]).num
      /\ Head(ids[cur]) \in Id
  BY <1>1, ReadableIsWritable
<1>3. AbstractPending' = [AbstractPending EXCEPT ![cur] = Tail(@)]
  <2>1. View(cur) = Places(ids[cur], ring[cur]) /\ View(cur)' = Tail(Places(ids[cur], ring[cur]))
    BY <1>1 DEF View
  <2>2. \A t \in Streams : t # cur => View(t)' = View(t)
    BY <1>1 DEF View
  <2>3. \A t \in Streams : View(t)' = IF t = cur THEN Tail(View(t)) ELSE View(t)
    BY <1>1, <2>1, <2>2 DEF View
  <2> QED
    BY <1>2, <2>3, PendingIsView
<1>4. (apc' \in {"exited", "dead"}) = (apc \in {"exited", "dead"})
  BY <1>1
<1>5. CASE out' = [out EXCEPT ![cur] = Append(@, Head(ids[cur]))]
  <2>1. Head(ids[cur]) = [own |-> Head(AbstractPending[cur]).own,
                          num |-> Head(AbstractPending[cur]).num]
    BY <1>2 DEF Id
  <2> QED
    BY <1>2, <1>3, <1>4, <1>5, <2>1 DEF Service!WriteNext
<1>6. CASE out' = out
  <2>1. (apc' \in {"exited", "dead"}) \in BOOLEAN
    OBVIOUS
  <2> QED
    BY <1>2, <1>3, <1>6, <2>1 DEF Service!DiscardNext
<1> QED
  BY <1>5, <1>6 DEF DTake

(* A region is released after it has been read, which changes nothing, or  *)
(* by a panic, which discards its record.                                  *)
LEMMA ReleaseIsDiscardOrStutter ==
  ASSUME Claimed, Named, ReleaseStep
  PROVE  Service!DiscardNext(cur) \/ UNCHANGED Service!vars
<1>1. /\ cur \in Streams /\ ids[cur] # << >>
      /\ ids'[cur] = Tail(ids[cur]) /\ ring'[cur] = Tail(ring[cur])
      /\ \A s \in Streams : s # cur => ids'[s] = ids[s] /\ ring'[s] = ring[s]
  BY ReleasedName
<1>2. UNCHANGED << out, cur >> /\ HasRecord(ring[cur])
  BY DEF ReleaseStep
<1>3. Places(ids'[cur], ring'[cur]) = Tail(Places(ids[cur], ring[cur]))
  BY <1>1, StreamsInStep, PlacesTail
<1>4. CASE apc = "poll" /\ apc' = "dead"
  <2>1. \A t \in Streams : View(t)' = IF t = cur THEN Tail(View(t)) ELSE View(t)
    BY <1>1, <1>2, <1>3, <1>4 DEF View
  <2>2. AbstractPending' = [AbstractPending EXCEPT ![cur] = Tail(@)]
    BY <1>1, <2>1, PendingIsView
  <2>3. Service!Writable(cur)
    BY <1>2, <1>4, ReadableIsWritable
  <2>4. (apc' \in {"exited", "dead"}) \in BOOLEAN
    OBVIOUS
  <2> QED
    BY <1>2, <2>2, <2>3, <2>4 DEF Service!DiscardNext
<1>5. CASE apc = "hold" /\ apc' = "poll"
  <2>1. \A t \in Streams : View(t)' = View(t)
    BY <1>1, <1>2, <1>3, <1>5 DEF View
  <2>2. AbstractPending' = AbstractPending
    BY <2>1, PendingIsView
  <2>3. (apc' \in {"exited", "dead"}) = (apc \in {"exited", "dead"})
    BY <1>5
  <2> QED
    BY <1>2, <2>2, <2>3 DEF Service!vars
<1> QED
  BY <1>4, <1>5 DEF ReleaseStep

LEMMA AsideIsCloseOrStutter ==
  ASSUME AsideStep
  PROVE  Service!Close \/ UNCHANGED Service!vars
<1>1. UNCHANGED << ring, ids, out >>
  BY DEF AsideStep, RecordsStay
<1>2. \A t \in Streams : View(t)' = View(t)
  BY <1>1 DEF View, AsideStep
<1>3. AbstractPending' = AbstractPending
  BY <1>2, PendingIsView
<1>4. CASE (apc' \in {"exited", "dead"}) = (apc \in {"exited", "dead"})
  BY <1>1, <1>3, <1>4 DEF Service!vars
<1>5. CASE apc' \in {"exited", "dead"} /\ apc \notin {"exited", "dead"}
  BY <1>1, <1>3, <1>5 DEF Service!Close
<1>6. CASE apc' \notin {"exited", "dead"} /\ apc \in {"exited", "dead"}
  BY <1>6 DEF AsideStep
<1> QED
  BY <1>4, <1>5, <1>6

LEMMA WaitIsStutter ==
  ASSUME NEW p \in Producers, EnterStep(p) \/ WaitStep(p)
  PROVE  UNCHANGED Service!vars
<1>1. UNCHANGED << ring, ids, out, apc, cur >>
  BY DEF EnterStep, WaitStep, RecordsStay, ReaderStays
<1>2. AbstractPending' = AbstractPending
  BY <1>1, PendingIsView DEF View
<1> QED
  BY <1>1, <1>2 DEF Service!vars

LEMMA InitIsService == DInit => Service!Init
<1> SUFFICES ASSUME DInit PROVE Service!Init
  OBVIOUS
<1>1. apc = "unborn" /\ \A s \in Streams : ids[s] = << >>
  BY DEF DInit, Init
<1>2. \A s \in Streams : View(s) = << >>
  BY <1>1 DEF View, Places
<1>3. AbstractPending = [s \in Streams |-> << >>]
  BY <1>2, PendingIsView
<1>4. (apc \in {"exited", "dead"}) = FALSE
  BY <1>1
<1> QED
  BY <1>3, <1>4 DEF DInit, Service!Init

LEMMA NextIsService ==
  ASSUME Claimed, Claimed', Named, [DNext]_dvars
  PROVE  [Service!Next]_(Service!vars)
<1>1. CASE DTake
  BY <1>1, TakeIsWriteOrDiscard, TakenName DEF Service!Next
<1>2. CASE ReleaseStep
  BY <1>2, ReleaseIsDiscardOrStutter, ReleasedName DEF Service!Next
<1>3. CASE AsideStep
  BY <1>3, AsideIsCloseOrStutter DEF Service!Next
<1>4. ASSUME NEW p \in Producers,
             ClaimStep(p) \/ CommitStep(p) \/ EnterStep(p) \/ WaitStep(p)
      PROVE  [Service!Next]_(Service!vars)
  BY <1>4, ClaimIsTakePlace, CommitIsFillIn, WaitIsStutter DEF Service!Next
<1> QED
  BY <1>1, <1>2, <1>3, <1>4, StepCases DEF Claimed

(* The threads, the archive handles and the archiver implement LogService: *)
(* each stream is written in the order of its claims, nothing twice,       *)
(* nothing out of turn and nothing after the archiver has ended            *)
(* (consumer.rs 34-105, lib.rs 328-353).                                   *)
THEOREM ImplementsService == DSpec => IsService
<1>1. ASSUME Claimed, Claimed', Named, [DNext]_dvars
      PROVE  [(Service!vars)' # Service!vars => Service!Next]_(Service!vars)
  BY <1>1, NextIsService
<1> QED
  BY <1>1, InitIsService, NamesHold, PTL DEF DSpec, IsService

-----------------------------------------------------------------------------
(* What is proved of the service is proved of those who implement it.      *)

ServiceProofs == INSTANCE LogServiceProofs WITH
  Home <- [p \in Producers |-> Stream(p)],
  pending <- AbstractPending,
  written <- out,
  closed <- apc \in {"exited", "dead"}

LEMMA HomeType == [p \in Producers |-> Stream(p)] \in [Producers -> Streams]
  BY StreamFacts

LEMMA SameInit == Service!Init => ServiceProofs!Init
  BY DEF Service!Init, ServiceProofs!Init

LEMMA SameNext == Service!Next => ServiceProofs!Next
<1>1. ASSUME NEW p \in Producers PROVE Service!TakePlace(p) => ServiceProofs!TakePlace(p)
  BY DEF Service!TakePlace, ServiceProofs!TakePlace, Service!IsLater, ServiceProofs!IsLater
<1>2. ASSUME NEW p \in Producers PROVE Service!FillIn(p) => ServiceProofs!FillIn(p)
  BY DEF Service!FillIn, ServiceProofs!FillIn
<1>3. ASSUME NEW s \in Streams PROVE Service!WriteNext(s) => ServiceProofs!WriteNext(s)
  BY DEF Service!WriteNext, ServiceProofs!WriteNext, Service!Writable, ServiceProofs!Writable
<1>4. ASSUME NEW s \in Streams PROVE Service!DiscardNext(s) => ServiceProofs!DiscardNext(s)
  BY DEF Service!DiscardNext, ServiceProofs!DiscardNext, Service!Writable,
     ServiceProofs!Writable
<1>5. Service!Close => ServiceProofs!Close
  BY DEF Service!Close, ServiceProofs!Close
<1> QED
  BY <1>1, <1>2, <1>3, <1>4, <1>5 DEF Service!Next, ServiceProofs!Next

LEMMA SameOrder == ServiceProofs!InCallOrder => Service!InCallOrder
  BY DEF Service!InCallOrder, ServiceProofs!InCallOrder,
     Service!WrittenInCallOrder, ServiceProofs!WrittenInCallOrder,
     Service!PendingIsLater, ServiceProofs!PendingIsLater,
     Service!PendingInCallOrder, ServiceProofs!PendingInCallOrder

(* format.rs 42-47: in every log and archive the records of one thread or  *)
(* handle appear in the order of its calls, none twice, and those still in *)
(* the ring come later, whatever their timestamps.                         *)
THEOREM LogInCallOrder == DSpec => []OutputInCallOrder
<1>1. ServiceProofs!Spec => []ServiceProofs!InCallOrder
  BY HomeType, ServiceProofs!InOrder
<1>2. ASSUME Claimed, Claimed', Named, [DNext]_dvars
      PROVE  [ServiceProofs!Next]_(ServiceProofs!vars)
  <2>1. Service!Next \/ UNCHANGED Service!vars
    BY <1>2, NextIsService
  <2>2. UNCHANGED Service!vars => UNCHANGED ServiceProofs!vars
    BY DEF Service!vars, ServiceProofs!vars
  <2> QED
    BY <2>1, <2>2, SameNext
<1>3. DInit => ServiceProofs!Init
  BY InitIsService, SameInit
<1> QED
  BY <1>1, <1>2, <1>3, NamesHold, SameOrder, PTL
     DEF DSpec, ServiceProofs!Spec, OutputInCallOrder
=============================================================================
