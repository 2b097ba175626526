-------------------------- MODULE LogServiceProofs --------------------------
(***************************************************************************)
(* The order that LogService promises, proved for every number of          *)
(* producers, streams and calls.                                           *)
(***************************************************************************)
EXTENDS LogService, TLAPS

-----------------------------------------------------------------------------
(* Type correctness and the order are proved together: a record that is    *)
(* written is later than those written before it because it was later      *)
(* while it was pending.                                                   *)

Ordered == TypeOK /\ InCallOrder

LEMMA InitOrdered == Init => Ordered
<1> SUFFICES ASSUME Init PROVE Ordered
  OBVIOUS
<1>1. \A s \in Streams : pending[s] = << >> /\ written[s] = << >>
  BY DEF Init
<1>2. /\ pending \in [Streams -> Seq(Place)]
      /\ written \in [Streams -> Seq(Record)]
  BY DEF Init
<1>3. closed \in BOOLEAN
  BY Zenon DEF Init
<1>4. InCallOrder
  BY <1>1 DEF InCallOrder, WrittenInCallOrder, PendingIsLater, PendingInCallOrder
<1> QED
  BY <1>2, <1>3, <1>4 DEF Ordered, TypeOK

(* Taking the oldest place away leaves the others in their order. *)
LEMMA TailFacts ==
  ASSUME NEW q \in Seq(Place), q # << >>
  PROVE  /\ Tail(q) \in Seq(Place)
         /\ Head(q) \in Place /\ 1 \in DOMAIN q /\ Head(q) = q[1]
         /\ DOMAIN Tail(q) \subseteq Nat \ {0}
         /\ \A i \in DOMAIN Tail(q) : i + 1 \in DOMAIN q /\ Tail(q)[i] = q[i + 1]
  OBVIOUS

(* A new place comes behind the others. *)
LEMMA AppendFacts ==
  ASSUME NEW S, NEW q \in Seq(S), NEW e \in S
  PROVE  /\ Append(q, e) \in Seq(S)
         /\ DOMAIN q \subseteq Nat \ {0}
         /\ \A i \in DOMAIN Append(q, e) :
              \/ i \in DOMAIN q /\ i <= Len(q) /\ Append(q, e)[i] = q[i]
              \/ i = Len(q) + 1 /\ Append(q, e)[i] = e
         /\ \A i \in DOMAIN q : i <= Len(q)
         /\ Len(q) \in Nat
  OBVIOUS

LEMMA TakePlaceOrdered ==
  ASSUME Home \in [Producers -> Streams], Ordered, NEW p \in Producers, TakePlace(p)
  PROVE  Ordered'
<1> DEFINE s == Home[p]
<1>1. /\ s \in Streams /\ written' = written /\ closed' = closed
      /\ pending \in [Streams -> Seq(Place)] /\ written \in [Streams -> Seq(Record)]
  BY DEF Ordered, TypeOK, TakePlace
<1>2. PICK num \in 1 .. MaxCalls :
        /\ IsLater(p, num)
        /\ pending' = [pending EXCEPT ![s] =
                         Append(@, [own |-> p, num |-> num, ready |-> FALSE])]
  BY DEF TakePlace
<1> DEFINE e == [own |-> p, num |-> num, ready |-> FALSE]
<1>3. e \in Place /\ e.own = p /\ e.num = num
  BY DEF Place
<1>4. /\ \A i \in DOMAIN pending[s] : pending[s][i].own = p => pending[s][i].num < num
      /\ \A i \in DOMAIN written[s] : written[s][i].own = p => written[s][i].num < num
  BY <1>2 DEF IsLater
<1> HIDE DEF s, e
<1>5. pending'[s] = Append(pending[s], e) /\ pending[s] \in Seq(Place)
  BY <1>1, <1>2 DEF e
<1>6. \A t \in Streams : t # s => pending'[t] = pending[t]
  BY <1>1, <1>2
<1>7. /\ DOMAIN pending[s] \subseteq Nat \ {0} /\ Len(pending[s]) \in Nat
      /\ pending'[s] \in Seq(Place)
      /\ \A i \in DOMAIN pending'[s] :
           \/ i \in DOMAIN pending[s] /\ i <= Len(pending[s]) /\ pending'[s][i] = pending[s][i]
           \/ i = Len(pending[s]) + 1 /\ pending'[s][i] = e
  BY <1>3, <1>5, AppendFacts
<1>8. TypeOK'
  BY <1>1, <1>2, <1>7 DEF Ordered, TypeOK
<1>9. PendingIsLater'
  <2> SUFFICES ASSUME NEW t \in Streams, NEW i \in DOMAIN written[t],
                      NEW j \in DOMAIN pending'[t],
                      written[t][i].own = pending'[t][j].own
               PROVE  written[t][i].num < pending'[t][j].num
    BY <1>1 DEF PendingIsLater
  <2>1. CASE t # s
    BY <1>6, <2>1 DEF Ordered, InCallOrder, PendingIsLater
  <2>2. CASE t = s
    BY <1>3, <1>4, <1>7, <2>2 DEF Ordered, InCallOrder, PendingIsLater
  <2> QED
    BY <2>1, <2>2
<1>10. PendingInCallOrder'
  <2> SUFFICES ASSUME NEW t \in Streams, NEW i \in DOMAIN pending'[t],
                      NEW j \in DOMAIN pending'[t], i < j,
                      pending'[t][i].own = pending'[t][j].own
               PROVE  pending'[t][i].num < pending'[t][j].num
    BY DEF PendingInCallOrder
  <2>1. CASE t # s
    BY <1>6, <2>1 DEF Ordered, InCallOrder, PendingInCallOrder
  <2>2. CASE t = s
    <3>1. i \in DOMAIN pending[s] /\ pending'[s][i] = pending[s][i]
      BY <1>7, <2>2
    <3>2. CASE j \in DOMAIN pending[s] /\ pending'[s][j] = pending[s][j]
      BY <2>2, <3>1, <3>2 DEF Ordered, InCallOrder, PendingInCallOrder
    <3>3. CASE pending'[s][j] = e
      BY <1>3, <1>4, <2>2, <3>1, <3>3
    <3> QED
      BY <1>7, <2>2, <3>2, <3>3
  <2> QED
    BY <2>1, <2>2
<1>11. WrittenInCallOrder'
  BY <1>1 DEF Ordered, InCallOrder, WrittenInCallOrder
<1> QED
  BY <1>8, <1>9, <1>10, <1>11 DEF Ordered, InCallOrder

(* A place keeps its name when it is filled in. *)
LEMMA UpdateFacts ==
  ASSUME NEW q \in Seq(Place), NEW k \in DOMAIN q, NEW e \in Place
  PROVE  /\ [q EXCEPT ![k] = e] \in Seq(Place)
         /\ DOMAIN [q EXCEPT ![k] = e] = DOMAIN q
         /\ \A i \in DOMAIN q : [q EXCEPT ![k] = e][i] = IF i = k THEN e ELSE q[i]
  OBVIOUS

LEMMA FillInOrdered ==
  ASSUME Home \in [Producers -> Streams], Ordered, NEW p \in Producers, FillIn(p)
  PROVE  Ordered'
<1> DEFINE s == Home[p]
<1>1. /\ s \in Streams /\ written' = written /\ closed' = closed
      /\ pending \in [Streams -> Seq(Place)]
  BY DEF Ordered, TypeOK, FillIn
<1>2. PICK k \in DOMAIN pending[s] :
        pending' = [pending EXCEPT ![s][k].ready = TRUE]
  BY DEF FillIn
<1> HIDE DEF s
<1>3. /\ pending[s] \in Seq(Place) /\ pending[s][k] \in Place
      /\ pending'[s] = [pending[s] EXCEPT ![k] = [pending[s][k] EXCEPT !.ready = TRUE]]
      /\ \A t \in Streams : t # s => pending'[t] = pending[t]
      /\ pending' = [pending EXCEPT ![s] = pending'[s]]
  BY <1>1, <1>2
<1> DEFINE e == [pending[s][k] EXCEPT !.ready = TRUE]
<1>4. e \in Place /\ e.own = pending[s][k].own /\ e.num = pending[s][k].num
  BY <1>3 DEF Place
<1> HIDE DEF e
<1>5. /\ pending'[s] \in Seq(Place) /\ DOMAIN pending'[s] = DOMAIN pending[s]
      /\ \A i \in DOMAIN pending[s] :
           /\ pending'[s][i].own = pending[s][i].own
           /\ pending'[s][i].num = pending[s][i].num
  <2>1. pending'[s] = [pending[s] EXCEPT ![k] = e]
    BY <1>3 DEF e
  <2>2. /\ pending'[s] \in Seq(Place) /\ DOMAIN pending'[s] = DOMAIN pending[s]
        /\ \A i \in DOMAIN pending[s] :
             pending'[s][i] = IF i = k THEN e ELSE pending[s][i]
    <3>1. pending[s] \in Seq(Place) /\ k \in DOMAIN pending[s] /\ e \in Place
      BY <1>3, <1>4
    <3> QED
      BY <2>1, <3>1, UpdateFacts
  <2> QED
    BY <1>4, <2>2
<1>6. TypeOK'
  BY <1>1, <1>3, <1>5 DEF Ordered, TypeOK
<1>7. \A t \in Streams :
        /\ DOMAIN pending'[t] = DOMAIN pending[t]
        /\ \A i \in DOMAIN pending[t] :
             /\ pending'[t][i].own = pending[t][i].own
             /\ pending'[t][i].num = pending[t][i].num
  BY <1>3, <1>5
<1>8. WrittenInCallOrder'
  BY <1>1 DEF Ordered, InCallOrder, WrittenInCallOrder
<1>9. PendingIsLater'
  <2> SUFFICES ASSUME NEW t \in Streams, NEW i \in DOMAIN written[t],
                      NEW j \in DOMAIN pending'[t],
                      written[t][i].own = pending'[t][j].own
               PROVE  written[t][i].num < pending'[t][j].num
    BY <1>1 DEF PendingIsLater
  <2> QED
    BY <1>7 DEF Ordered, InCallOrder, PendingIsLater
<1>10. PendingInCallOrder'
  <2> SUFFICES ASSUME NEW t \in Streams, NEW i \in DOMAIN pending'[t],
                      NEW j \in DOMAIN pending'[t], i < j,
                      pending'[t][i].own = pending'[t][j].own
               PROVE  pending'[t][i].num < pending'[t][j].num
    BY DEF PendingInCallOrder
  <2>1. i \in DOMAIN pending[t] /\ j \in DOMAIN pending[t]
    BY <1>7
  <2> QED
    BY <1>7, <2>1 DEF Ordered, InCallOrder, PendingInCallOrder
<1> QED
  BY <1>6, <1>8, <1>9, <1>10 DEF Ordered, InCallOrder

(* What leaves the queue is its oldest place. *)
LEMMA LeaveOrdered ==
  ASSUME Ordered, NEW s \in Streams, Writable(s),
         pending' = [pending EXCEPT ![s] = Tail(@)]
  PROVE  /\ pending' \in [Streams -> Seq(Place)] /\ PendingInCallOrder'
         /\ Head(pending[s]) \in Place
         /\ \A i \in DOMAIN written[s] :
              written[s][i].own = Head(pending[s]).own
                => written[s][i].num < Head(pending[s]).num
         /\ \A t \in Streams : \A j \in DOMAIN pending'[t] :
              /\ t = s /\ pending'[t][j].own = Head(pending[s]).own
                   => Head(pending[s]).num < pending'[t][j].num
              /\ \A i \in DOMAIN written[t] :
                   written[t][i].own = pending'[t][j].own
                     => written[t][i].num < pending'[t][j].num
<1>1. /\ pending \in [Streams -> Seq(Place)] /\ pending[s] \in Seq(Place)
      /\ pending[s] # << >>
  BY DEF Ordered, TypeOK, Writable
<1>2. /\ pending'[s] = Tail(pending[s])
      /\ \A t \in Streams : t # s => pending'[t] = pending[t]
  BY <1>1
<1>3. /\ pending'[s] \in Seq(Place) /\ DOMAIN pending'[s] \subseteq Nat \ {0}
      /\ 1 \in DOMAIN pending[s] /\ Head(pending[s]) = pending[s][1]
      /\ Head(pending[s]) \in Place
      /\ \A i \in DOMAIN pending'[s] :
           i + 1 \in DOMAIN pending[s] /\ pending'[s][i] = pending[s][i + 1]
  BY <1>1, <1>2, TailFacts
<1>4. PendingInCallOrder /\ PendingIsLater
  BY DEF Ordered, InCallOrder
<1>5. PendingInCallOrder'
  <2> SUFFICES ASSUME NEW t \in Streams, NEW i \in DOMAIN pending'[t],
                      NEW j \in DOMAIN pending'[t], i < j,
                      pending'[t][i].own = pending'[t][j].own
               PROVE  pending'[t][i].num < pending'[t][j].num
    BY DEF PendingInCallOrder
  <2>1. CASE t # s
    BY <1>2, <1>4, <2>1 DEF PendingInCallOrder
  <2>2. CASE t = s
    <3>1. i + 1 < j + 1
      BY <1>3, <2>2
    <3> QED
      BY <1>3, <1>4, <2>2, <3>1 DEF PendingInCallOrder
  <2> QED
    BY <2>1, <2>2
<1>6. \A j \in DOMAIN pending'[s] :
        pending'[s][j].own = Head(pending[s]).own
          => Head(pending[s]).num < pending'[s][j].num
  <2> SUFFICES ASSUME NEW j \in DOMAIN pending'[s],
                      pending'[s][j].own = Head(pending[s]).own
               PROVE  Head(pending[s]).num < pending'[s][j].num
    OBVIOUS
  <2>1. 1 < j + 1 /\ j + 1 \in DOMAIN pending[s]
    BY <1>3
  <2> QED
    BY <1>3, <1>4, <2>1 DEF PendingInCallOrder
<1>7. \A t \in Streams : \A j \in DOMAIN pending'[t], i \in DOMAIN written[t] :
        written[t][i].own = pending'[t][j].own
          => written[t][i].num < pending'[t][j].num
  <2> SUFFICES ASSUME NEW t \in Streams, NEW j \in DOMAIN pending'[t],
                      NEW i \in DOMAIN written[t],
                      written[t][i].own = pending'[t][j].own
               PROVE  written[t][i].num < pending'[t][j].num
    OBVIOUS
  <2>1. CASE t # s
    BY <1>2, <1>4, <2>1 DEF PendingIsLater
  <2>2. CASE t = s
    <3>1. j + 1 \in DOMAIN pending[s] /\ pending'[s][j] = pending[s][j + 1]
      BY <1>3, <2>2
    <3> QED
      BY <1>4, <2>2, <3>1 DEF PendingIsLater
  <2> QED
    BY <2>1, <2>2
<1>8. \A i \in DOMAIN written[s] :
        written[s][i].own = Head(pending[s]).own
          => written[s][i].num < Head(pending[s]).num
  BY <1>3, <1>4 DEF PendingIsLater
<1>9. pending' \in [Streams -> Seq(Place)]
  BY <1>1, <1>3
<1> QED
  BY <1>3, <1>5, <1>6, <1>7, <1>8, <1>9

LEMMA WriteNextOrdered ==
  ASSUME Ordered, NEW s \in Streams, WriteNext(s)
  PROVE  Ordered'
<1> DEFINE r == Head(pending[s])
           w == [own |-> r.own, num |-> r.num]
<1>1. /\ Writable(s) /\ pending' = [pending EXCEPT ![s] = Tail(@)]
      /\ written' = [written EXCEPT ![s] = Append(@, w)] /\ closed' = closed
  BY DEF WriteNext
<1>2. /\ pending' \in [Streams -> Seq(Place)] /\ PendingInCallOrder'
      /\ r \in Place
      /\ \A i \in DOMAIN written[s] : written[s][i].own = r.own => written[s][i].num < r.num
      /\ \A j \in DOMAIN pending'[s] : pending'[s][j].own = r.own => r.num < pending'[s][j].num
      /\ \A t \in Streams : \A j \in DOMAIN pending'[t], i \in DOMAIN written[t] :
           written[t][i].own = pending'[t][j].own
             => written[t][i].num < pending'[t][j].num
  BY <1>1, LeaveOrdered
<1>3. w \in Record /\ w.own = r.own /\ w.num = r.num
  BY <1>2 DEF Place, Record
<1> HIDE DEF r, w
<1>4. /\ written \in [Streams -> Seq(Record)] /\ written[s] \in Seq(Record)
      /\ written'[s] = Append(written[s], w)
      /\ \A t \in Streams : t # s => written'[t] = written[t]
  BY <1>1 DEF Ordered, TypeOK
<1>5. /\ written'[s] \in Seq(Record) /\ Len(written[s]) \in Nat
      /\ \A i \in DOMAIN written'[s] :
           \/ i \in DOMAIN written[s] /\ i <= Len(written[s]) /\ written'[s][i] = written[s][i]
           \/ i = Len(written[s]) + 1 /\ written'[s][i] = w
      /\ DOMAIN written[s] \subseteq Nat \ {0}
  BY <1>3, <1>4, AppendFacts
<1>6. TypeOK'
  BY <1>1, <1>2, <1>4, <1>5 DEF Ordered, TypeOK
<1>7. WrittenInCallOrder'
  <2> SUFFICES ASSUME NEW t \in Streams, NEW i \in DOMAIN written'[t],
                      NEW j \in DOMAIN written'[t], i < j,
                      written'[t][i].own = written'[t][j].own
               PROVE  written'[t][i].num < written'[t][j].num
    BY DEF WrittenInCallOrder
  <2>1. CASE t # s
    BY <1>4, <2>1 DEF Ordered, InCallOrder, WrittenInCallOrder
  <2>2. CASE t = s
    <3>1. i \in DOMAIN written[s] /\ written'[s][i] = written[s][i]
      BY <1>5, <2>2
    <3>2. CASE j \in DOMAIN written[s] /\ written'[s][j] = written[s][j]
      BY <2>2, <3>1, <3>2 DEF Ordered, InCallOrder, WrittenInCallOrder
    <3>3. CASE written'[s][j] = w
      BY <1>2, <1>3, <2>2, <3>1, <3>3
    <3> QED
      BY <1>5, <2>2, <3>2, <3>3
  <2> QED
    BY <2>1, <2>2
<1>8. PendingIsLater'
  <2> SUFFICES ASSUME NEW t \in Streams, NEW i \in DOMAIN written'[t],
                      NEW j \in DOMAIN pending'[t],
                      written'[t][i].own = pending'[t][j].own
               PROVE  written'[t][i].num < pending'[t][j].num
    BY DEF PendingIsLater
  <2>1. CASE t # s
    BY <1>2, <1>4, <2>1
  <2>2. CASE t = s
    BY <1>2, <1>3, <1>5, <2>2
  <2> QED
    BY <2>1, <2>2
<1> QED
  BY <1>2, <1>6, <1>7, <1>8 DEF Ordered, InCallOrder

LEMMA DiscardNextOrdered ==
  ASSUME Ordered, NEW s \in Streams, DiscardNext(s)
  PROVE  Ordered'
<1>1. /\ Writable(s) /\ pending' = [pending EXCEPT ![s] = Tail(@)]
      /\ written' = written /\ closed' \in BOOLEAN
  BY DEF DiscardNext
<1>2. /\ pending' \in [Streams -> Seq(Place)] /\ PendingInCallOrder'
      /\ \A t \in Streams : \A j \in DOMAIN pending'[t], i \in DOMAIN written[t] :
           written[t][i].own = pending'[t][j].own
             => written[t][i].num < pending'[t][j].num
  BY <1>1, LeaveOrdered
<1>3. PendingIsLater' /\ WrittenInCallOrder'
  BY <1>1, <1>2 DEF PendingIsLater, WrittenInCallOrder, Ordered, InCallOrder
<1> QED
  BY <1>1, <1>2, <1>3 DEF Ordered, TypeOK, InCallOrder

(* Home tells every producer its stream. *)
LEMMA NextOrdered ==
  ASSUME Home \in [Producers -> Streams], Ordered, [Next]_vars
  PROVE  Ordered'
<1>1. CASE Close
  BY <1>1 DEF Close, Ordered, TypeOK, InCallOrder, WrittenInCallOrder,
     PendingIsLater, PendingInCallOrder
<1>2. CASE UNCHANGED vars
  BY <1>2 DEF vars, Ordered, TypeOK, InCallOrder, WrittenInCallOrder,
     PendingIsLater, PendingInCallOrder
<1> QED
  BY <1>1, <1>2, TakePlaceOrdered, FillInOrdered, WriteNextOrdered,
     DiscardNextOrdered DEF Next

(* format.rs 42-47: the records of one producer appear in the order of its *)
(* calls and none twice, in every run of the service.                      *)
THEOREM InOrder ==
  ASSUME Home \in [Producers -> Streams]
  PROVE  Spec => []InCallOrder
<1>1. Spec => []Ordered
  BY InitOrdered, NextOrdered, PTL DEF Spec
<1> QED
  BY <1>1, PTL DEF Ordered
=============================================================================
