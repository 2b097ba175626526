------------------------ MODULE FallbackStashProofs -------------------------
(***************************************************************************)
(* The thread-locals of a thread that logs, proved for every number of     *)
(* arguments and calls, however deep the calls nest: which texts a record  *)
(* carries, that the encode closure finds what the claim was sized for,    *)
(* and that no two calls use the text buffer or the stash's at once.       *)
(***************************************************************************)
EXTENDS FallbackStash, FiniteSetTheorems, SequenceTheorems, TLAPS

(* The stashed arguments up to k, and the place of k among their texts. *)
UpTo(args, k) == {i \in Stashed(args) : i <= k}
Rank(args, k) == Cardinality(UpTo(args, k))

(* The calls in progress are numbered upwards, and only code of the caller *)
(* that runs inside of a call starts another.                              *)
FrameAt(i) ==
  /\ stack[i].id <= made
  /\ stack[i].phase = "args" => stack[i].at = 1
  /\ stack[i].phase = "fmt" =>
       stack[i].at \in DOMAIN stack[i].args /\ stack[i].args[stack[i].at]
  /\ stack[i].phase = "format" => stack[i].args = << >>
  /\ i # Len(stack) =>
       /\ stack[i].phase \in {"args", "fmt", "format"}
       /\ stack[i].phase # "args" => setting.nestInFormat

IdsAscend == \A i, j \in DOMAIN stack : i < j => stack[i].id < stack[j].id

(* Each call that has ended has read at most MaxArgs texts. *)
ReadsAreCounted ==
  Len(stack) <= made /\ readIdx <= MaxArgs * (made - Len(stack))

Framed ==
  TypeOK /\ ReadsAreCounted /\ IdsAscend /\ \A i \in DOMAIN stack : FrameAt(i)

(* A panic of a Display or Debug that logs ends the thread. *)
PanicsEnd == setting.nestInFormat => setting.caught = "never"

(* A full stash is marked, and so is one that is being filled; what it     *)
(* holds is no older than any call that has cleared it.  Calls pass the    *)
(* gate once it may be open.                                               *)
StashIsMarked ==
  /\ stack # << >> => alive /\ (logger # "none" \/ setting.early)
  /\ PanicsEnd =>
       /\ alive => (dirty \/ stash = << >>)
       /\ alive => (BufBorrowed => dirty)
       /\ \A i \in DOMAIN stack : stack[i].args # << >> =>
            \A k \in DOMAIN stash : stash[k].call >= stack[i].id

(* The arguments of a call whose texts the stash holds by now. *)
TextsSoFar(f) ==
  IF f.phase = "args" THEN {}
  ELSE IF f.phase = "stash" THEN UpTo(f.args, f.at - 1)
  ELSE IF f.phase = "fmt" THEN UpTo(f.args, f.at)
  ELSE Stashed(f.args)

(* The unread texts are those of the innermost call with arguments. *)
Innermost(i) ==
  stack[i].args # << >> /\ \A j \in DOMAIN stack : i < j => stack[j].args = << >>

UnreadAreOf(f, texts, read) ==
  LET n == Cardinality(TextsSoFar(f)) IN
  /\ Len(texts) = read + n
  /\ \A j \in 1 .. n :
       texts[read + j] = [call |-> f.id, arg |-> ArgOfText(f.args, j)]

StashIsBalanced ==
  Careful /\ alive /\ logger # "stopped" =>
    /\ dirty \/ readIdx = 0
    /\ \A i, j \in DOMAIN stack :
         i < j /\ stack[i].args # << >> /\ stack[j].args # << >>
           => stack[i].phase = "args"
    /\ \A i \in DOMAIN stack : Innermost(i) => UnreadAreOf(stack[i], stash, readIdx)

-----------------------------------------------------------------------------
(* Counting the texts of a list of arguments. *)

(* Every list of arguments is a sequence of at most MaxArgs of them. *)
LEMMA ArgListFacts ==
  ASSUME NEW args \in ArgLists
  PROVE  /\ args \in Seq(BOOLEAN) /\ Len(args) \in 0 .. MaxArgs /\ Len(args) \in Nat
         /\ DOMAIN args = 1 .. Len(args)
<1>1. PICK n \in 0 .. MaxArgs : args \in [1 .. n -> BOOLEAN]
  BY DEF ArgLists
<1>2. n \in Nat
  BY BoundsAssumption
<1>3. args \in Seq(BOOLEAN)
  BY <1>1, <1>2
<1>4. Len(args) = n /\ DOMAIN args = 1 .. n
  BY <1>1, <1>2, <1>3
<1> QED
  BY <1>1, <1>2, <1>3, <1>4

(* A call without arguments stashes nothing. *)
LEMMA NoArgs ==
  /\ << >> \in ArgLists /\ Stashed(<< >>) = {} /\ TextCount(<< >>) = 0
<1>1. << >> \in [1 .. 0 -> BOOLEAN]
  OBVIOUS
<1>2. 0 \in 0 .. MaxArgs
  BY BoundsAssumption
<1>3. << >> \in ArgLists
  BY <1>1, <1>2 DEF ArgLists
<1>4. Stashed(<< >>) = {}
  BY DEF Stashed
<1> QED
  BY <1>3, <1>4, FS_EmptySet DEF TextCount

(* There are at most as many texts as arguments. *)
LEMMA CountFacts ==
  ASSUME NEW args \in ArgLists
  PROVE  /\ IsFiniteSet(Stashed(args))
         /\ TextCount(args) \in Nat /\ TextCount(args) <= MaxArgs
<1>1. Len(args) \in Nat /\ Len(args) <= MaxArgs /\ DOMAIN args = 1 .. Len(args)
  BY ArgListFacts, BoundsAssumption
<1>2. IsFiniteSet(1 .. Len(args)) /\ Cardinality(1 .. Len(args)) = Len(args)
  <2>1. 1 \in Int /\ Len(args) \in Int
    BY <1>1
  <2>2. /\ IsFiniteSet(1 .. Len(args))
        /\ Cardinality(1 .. Len(args)) = IF 1 > Len(args) THEN 0 ELSE Len(args) - 1 + 1
    BY <2>1, FS_Interval
  <2> QED
    BY <1>1, <2>2
<1>3. Stashed(args) \in SUBSET (1 .. Len(args))
  BY <1>1 DEF Stashed
<1>4. IsFiniteSet(Stashed(args)) /\ Cardinality(Stashed(args)) <= Len(args)
  BY <1>2, <1>3, FS_Subset
<1>5. Cardinality(Stashed(args)) \in Nat
  BY <1>4, FS_CardinalityType
<1> QED
  BY <1>1, <1>4, <1>5, BoundsAssumption DEF TextCount

(* How the texts up to an argument grow with it. *)
LEMMA UpToFacts ==
  ASSUME NEW args \in ArgLists
  PROVE  /\ UpTo(args, 0) = {}
         /\ UpTo(args, Len(args)) = Stashed(args)
         /\ \A k \in Nat : IsFiniteSet(UpTo(args, k)) /\ Rank(args, k) \in Nat
         /\ \A k \in DOMAIN args \ Stashed(args) : UpTo(args, k) = UpTo(args, k - 1)
         /\ \A k \in Stashed(args) :
              k \in UpTo(args, k) /\ Rank(args, k) = Rank(args, k - 1) + 1
<1>1. /\ IsFiniteSet(Stashed(args)) /\ Len(args) \in Nat
      /\ Stashed(args) \subseteq DOMAIN args /\ DOMAIN args = 1 .. Len(args)
  BY CountFacts, ArgListFacts DEF Stashed
<1>2. \A k \in Nat : IsFiniteSet(UpTo(args, k)) /\ Rank(args, k) \in Nat
  <2> SUFFICES ASSUME NEW k \in Nat
               PROVE  IsFiniteSet(UpTo(args, k)) /\ Rank(args, k) \in Nat
    OBVIOUS
  <2>1. UpTo(args, k) \in SUBSET Stashed(args)
    BY DEF UpTo
  <2>2. IsFiniteSet(UpTo(args, k))
    BY <1>1, <2>1, FS_Subset
  <2> QED
    BY <2>2, FS_CardinalityType DEF Rank
<1>3. UpTo(args, 0) = {} /\ UpTo(args, Len(args)) = Stashed(args)
  BY <1>1 DEF UpTo
<1>4. \A k \in DOMAIN args \ Stashed(args) : UpTo(args, k) = UpTo(args, k - 1)
  BY <1>1 DEF UpTo
<1>5. ASSUME NEW k \in Stashed(args)
      PROVE  k \in UpTo(args, k) /\ Rank(args, k) = Rank(args, k - 1) + 1
  <2>1. k \in Nat \ {0} /\ k - 1 \in Nat
    BY <1>1
  <2>2. UpTo(args, k) = UpTo(args, k - 1) \cup {k} /\ k \notin UpTo(args, k - 1)
    BY <1>1, <2>1 DEF UpTo
  <2>3. Cardinality(UpTo(args, k - 1) \cup {k}) = Cardinality(UpTo(args, k - 1)) + 1
    BY <1>2, <2>1, <2>2, FS_AddElement
  <2> QED
    BY <2>2, <2>3 DEF Rank
<1> QED
  BY <1>2, <1>3, <1>4, <1>5

(* No two stashed arguments have the same place, so the argument of a text *)
(* is the one whose text it is.                                            *)
LEMMA ArgOfItsRank ==
  ASSUME NEW args \in ArgLists, NEW k \in Stashed(args)
  PROVE  ArgOfText(args, Rank(args, k)) = k
<1>1. Stashed(args) \subseteq Nat
  BY ArgListFacts DEF Stashed
<1>2. ASSUME NEW a \in Stashed(args), NEW b \in Stashed(args), a < b
      PROVE  Rank(args, a) # Rank(args, b)
  <2>1. UpTo(args, a) \in SUBSET UpTo(args, b) /\ b \in UpTo(args, b) /\ b \notin UpTo(args, a)
    BY <1>1, <1>2 DEF UpTo
  <2>2. IsFiniteSet(UpTo(args, b))
    BY <1>1, UpToFacts
  <2> QED
    BY <2>1, <2>2, FS_Subset DEF Rank
<1>3. \A i \in Stashed(args) : Rank(args, i) = Rank(args, k) => i = k
  <2> SUFFICES ASSUME NEW i \in Stashed(args), Rank(args, i) = Rank(args, k) PROVE i = k
    OBVIOUS
  <2>1. ~(i < k) /\ ~(k < i)
    BY <1>2
  <2> QED
    BY <1>1, <2>1
<1>4. ArgOfText(args, Rank(args, k)) =
        CHOOSE i \in Stashed(args) : Rank(args, i) = Rank(args, k)
  BY DEF ArgOfText, Rank, UpTo
<1> QED
  BY <1>3, <1>4

-----------------------------------------------------------------------------
(* What a step does to the calls in progress. *)

Calls == /\ IdsAscend' /\ ReadsAreCounted'
         /\ stack' \in Seq(Frame)
         /\ \A i \in DOMAIN stack' : FrameAt(i)'

(* At most n calls are left, each as it was. *)
Cut(n) ==
  /\ stack' \in Seq(Frame) /\ Len(stack') <= n
  /\ \A i \in DOMAIN stack' : i \in DOMAIN stack /\ stack'[i] = stack[i]

(* The innermost call. *)
LEMMA TopFacts ==
  ASSUME TypeOK, stack # << >>
  PROVE  /\ stack \in Seq(Frame) /\ Len(stack) \in Nat \ {0}
         /\ DOMAIN stack = 1 .. Len(stack) /\ Len(stack) \in DOMAIN stack
         /\ Top \in Frame /\ Top = stack[Len(stack)]
         /\ Top.args \in ArgLists /\ Top.id \in 1 .. MaxCalls
         /\ Top.at \in 1 .. MaxArgs + 1
<1>1. stack \in Seq(Frame)
  BY DEF TypeOK
<1>2. /\ Len(stack) \in Nat \ {0} /\ DOMAIN stack = 1 .. Len(stack)
      /\ stack[Len(stack)] \in Frame
  BY <1>1
<1> QED
  BY <1>1, <1>2 DEF Top, Frame

LEMMA FrameFacts ==
  ASSUME TypeOK, NEW i \in DOMAIN stack
  PROVE  /\ stack[i] \in Frame /\ stack[i].id \in Nat \ {0} /\ i \in Nat
         /\ stack[i].args \in ArgLists
<1>1. stack[i] \in Frame /\ i \in Nat
  BY DEF TypeOK
<1> QED
  BY <1>1, BoundsAssumption DEF Frame

LEMMA BecomeFacts ==
  ASSUME TypeOK, stack # << >>, NEW f \in Frame, Become(f)
  PROVE  /\ stack' \in Seq(Frame) /\ Len(stack') = Len(stack)
         /\ DOMAIN stack' = DOMAIN stack /\ stack'[Len(stack)] = f
         /\ \A i \in DOMAIN stack : i # Len(stack) => stack'[i] = stack[i]
  BY TopFacts DEF Become

LEMMA FrontIsCut ==
  ASSUME TypeOK, stack # << >>, stack' = Front(stack)
  PROVE  Cut(Len(stack) - 1) /\ Len(stack') = Len(stack) - 1
<1>1. stack \in Seq(Frame) /\ Len(stack) \in Nat \ {0}
  BY TopFacts
<1>2. stack' = SubSeq(stack, 1, Len(stack) - 1)
  BY DEF Front
<1>3. /\ stack' \in Seq(Frame) /\ Len(stack') = Len(stack) - 1
      /\ \A i \in 1 .. Len(stack) - 1 : stack'[i] = stack[i]
  <2> DEFINE n == Len(stack) - 1
  <2>1. 1 \in Int /\ n \in Int /\ n \in Nat /\ \A i \in 1 .. n : stack[i] \in Frame
    BY <1>1
  <2> HIDE DEF n
  <2>2. /\ SubSeq(stack, 1, n) \in Seq(Frame)
        /\ Len(SubSeq(stack, 1, n)) = IF 1 <= n THEN n - 1 + 1 ELSE 0
        /\ \A i \in 1 .. n - 1 + 1 : SubSeq(stack, 1, n)[i] = stack[1 + i - 1]
    BY ONLY <2>1, SubSeqProperties
  <2>3. \A i \in 1 .. n : i \in 1 .. n - 1 + 1 /\ 1 + i - 1 = i
    BY <2>1
  <2>4. stack' = SubSeq(stack, 1, n)
    BY <1>2 DEF n
  <2>5. Len(stack') = n
    BY <2>1, <2>2, <2>4
  <2>6. \A i \in 1 .. n : stack'[i] = stack[i]
    BY <2>2, <2>3, <2>4
  <2> QED
    BY <2>2, <2>4, <2>5, <2>6 DEF n
<1>4. DOMAIN stack' = 1 .. Len(stack) - 1 /\ DOMAIN stack = 1 .. Len(stack)
  BY <1>1, <1>3
<1> QED
  BY <1>1, <1>3, <1>4 DEF Cut

(* A panic that nobody may catch ends the thread, and one that no code     *)
(* inside of a call catches ends all calls.                                *)
LEMMA UnwindIsCut ==
  ASSUME TypeOK, NEW n \in 0 .. Len(stack), Unwind(n)
  PROVE  /\ Cut(n) /\ alive' \in BOOLEAN
         /\ setting.caught = "never" => ~alive'
         /\ setting.caught # "inside" => stack' = << >>
         /\ stack' # << >> => UNCHANGED alive
<1>1. stack \in Seq(Frame) /\ Len(stack) \in Nat /\ n \in Nat /\ alive \in BOOLEAN
  BY DEF TypeOK
<1>2. CASE stack' = << >> /\ alive' = (setting.caught # "never")
  <2>1. Cut(n)
    BY <1>1, <1>2 DEF Cut
  <2>2. alive' \in BOOLEAN /\ (setting.caught = "never" => ~alive')
    BY <1>2
  <2> QED
    BY <1>2, <2>1, <2>2
<1>3. CASE /\ setting.caught = "inside"
           /\ \E i \in 1 .. n : stack' = SubSeq(stack, 1, i)
           /\ UNCHANGED alive
  <2>1. PICK i \in 1 .. n : stack' = SubSeq(stack, 1, i)
    BY <1>3
  <2>2. i \in 1 .. Len(stack)
    BY <1>1
  <2>3. Cut(n)
    BY <1>1, <2>1, <2>2 DEF Cut
  <2> QED
    BY <1>1, <1>3, <2>3
<1> QED
  BY <1>2, <1>3 DEF Unwind

LEMMA Distribute ==
  ASSUME NEW a \in Nat, NEW x \in Nat, NEW y \in Nat, x < y
  PROVE  a * x + a <= a * y /\ a * x \in Nat /\ a * y \in Nat
<1>1. PICK d \in Nat : y = x + 1 + d
  <2>1. y - x - 1 \in Nat /\ y = x + 1 + (y - x - 1)
    OBVIOUS
  <2> QED
    BY <2>1
<1>2. a * y = a * x + a + a * d
  BY <1>1
<1>3. a * d \in Nat /\ a * x \in Nat
  OBVIOUS
<1> QED
  BY <1>2, <1>3

(* A call that starts is the innermost and the newest. *)
LEMMA PushCalls ==
  ASSUME Framed, MayCall, made' = made + 1, UNCHANGED setting,
         NEW kind \in {"hot", "bridge"}, NEW args \in ArgLists,
         NEW phase \in {"args", "submit", "format"}, phase = "format" => args = << >>,
         Push(kind, args, phase), readIdx' \in 0 .. readIdx
  PROVE  /\ Calls /\ Len(stack') = Len(stack) + 1 /\ DOMAIN stack' = 1 .. Len(stack) + 1
         /\ stack'[Len(stack) + 1] = [id |-> made + 1, kind |-> kind, args |-> args,
                                      phase |-> phase, at |-> 1]
         /\ \A i \in DOMAIN stack : stack'[i] = stack[i]
<1> DEFINE f == [id |-> made + 1, kind |-> kind, args |-> args,
                 phase |-> phase, at |-> 1]
<1>1. /\ stack \in Seq(Frame) /\ Len(stack) \in Nat /\ DOMAIN stack = 1 .. Len(stack)
      /\ made \in Nat /\ made < MaxCalls /\ MaxCalls \in Nat /\ MaxArgs \in Nat
      /\ readIdx \in Nat
  BY BoundsAssumption DEF Framed, TypeOK, MayCall
<1>2. f \in Frame
  BY <1>1 DEF Frame
<1>3. /\ stack' = Append(stack, f) /\ f.id = made + 1 /\ f.args = args
      /\ f.phase = phase /\ f.at = 1
  BY DEF Push
<1> HIDE DEF f
<1>4. /\ stack' \in Seq(Frame) /\ Len(stack') = Len(stack) + 1
      /\ DOMAIN stack' = 1 .. Len(stack) + 1 /\ stack'[Len(stack) + 1] = f
      /\ \A i \in DOMAIN stack : stack'[i] = stack[i]
  BY <1>1, <1>2, <1>3
<1>5. \A i \in DOMAIN stack : FrameAt(i) /\ stack[i].id \in Nat /\ stack[i].id <= made
  BY FrameFacts DEF Framed, FrameAt
<1>6. IdsAscend'
  <2> SUFFICES ASSUME NEW i \in DOMAIN stack', NEW j \in DOMAIN stack', i < j
               PROVE  stack'[i].id < stack'[j].id
    BY DEF IdsAscend
  <2>1. i \in DOMAIN stack /\ stack'[i].id = stack[i].id
    BY <1>1, <1>4
  <2>2. CASE j = Len(stack) + 1
    BY <1>1, <1>3, <1>4, <1>5, <2>1, <2>2
  <2>3. CASE j # Len(stack) + 1
    <3>1. j \in DOMAIN stack /\ stack'[j].id = stack[j].id
      BY <1>1, <1>4, <2>3
    <3> QED
      BY <2>1, <3>1 DEF Framed, IdsAscend
  <2> QED
    BY <2>2, <2>3
<1>7. ReadsAreCounted'
  BY <1>1, <1>4 DEF Framed, ReadsAreCounted
<1>8. \A i \in DOMAIN stack' : FrameAt(i)'
  <2> SUFFICES ASSUME NEW i \in DOMAIN stack' PROVE FrameAt(i)'
    OBVIOUS
  <2>1. CASE i = Len(stack) + 1
    BY <1>1, <1>3, <1>4, <2>1 DEF FrameAt
  <2>2. CASE i # Len(stack) + 1
    <3>1. i \in DOMAIN stack /\ stack'[i] = stack[i] /\ i # Len(stack')
      BY <1>1, <1>4, <2>2
    <3>2. /\ stack[i].phase \in {"args", "fmt", "format"}
          /\ stack[i].phase # "args" => setting.nestInFormat
      <4>1. CASE i = Len(stack)
        <5>1. InPhase("args") \/ (setting.nestInFormat /\ (InPhase("fmt") \/ InPhase("format")))
          BY <1>1, <3>1, <4>1 DEF MayCall
        <5> QED
          BY <4>1, <5>1 DEF InPhase, Top
      <4>2. CASE i # Len(stack)
        BY <1>5, <3>1, <4>2 DEF FrameAt
      <4> QED
        BY <4>1, <4>2
    <3>3. FrameAt(i)
      BY <1>5, <3>1
    <3>4. stack[i].id <= made'
      BY <1>1, <1>5, <3>1
    <3> QED
      BY <3>1, <3>2, <3>3, <3>4 DEF FrameAt
  <2> QED
    BY <2>1, <2>2
<1> QED
  BY <1>4, <1>6, <1>7, <1>8 DEF Calls, f

(* The innermost call goes on. *)
LEMMA BecomeCalls ==
  ASSUME Framed, stack # << >>, NEW f \in Frame, Become(f),
         f.id = Top.id, f.args = Top.args, f.phase \in {"stash", "fmt", "submit"},
         f.phase = "fmt" => f.at \in DOMAIN f.args /\ f.args[f.at],
         UNCHANGED << setting, made, readIdx >>
  PROVE  Calls
<1>1. /\ stack' \in Seq(Frame) /\ Len(stack') = Len(stack)
      /\ DOMAIN stack' = DOMAIN stack /\ stack'[Len(stack)] = f
      /\ \A i \in DOMAIN stack : i # Len(stack) => stack'[i] = stack[i]
  BY BecomeFacts DEF Framed
<1>2. /\ Len(stack) \in DOMAIN stack /\ Top = stack[Len(stack)]
      /\ \A i \in DOMAIN stack : FrameAt(i)
  BY TopFacts DEF Framed
<1>3. \A i \in DOMAIN stack : stack'[i].id = stack[i].id
  BY <1>1, <1>2
<1>4. IdsAscend' /\ ReadsAreCounted'
  BY <1>1, <1>3 DEF Framed, IdsAscend, ReadsAreCounted
<1>5. \A i \in DOMAIN stack' : FrameAt(i)'
  <2> SUFFICES ASSUME NEW i \in DOMAIN stack PROVE FrameAt(i)'
    BY <1>1
  <2>1. CASE i = Len(stack)
    BY <1>1, <1>2, <1>3, <2>1 DEF FrameAt
  <2>2. CASE i # Len(stack)
    BY <1>1, <1>2, <2>2 DEF FrameAt
  <2> QED
    BY <2>1, <2>2
<1> QED
  BY <1>1, <1>4, <1>5 DEF Calls

(* Calls end: one has been made that ends at once, or the innermost does,  *)
(* and it has read its texts at most.                                      *)
LEMMA CutCalls ==
  ASSUME Framed, UNCHANGED setting, NEW n \in 0 .. Len(stack), Cut(n),
         \/ made' = made + 1 /\ readIdx' = readIdx
         \/ /\ made' = made /\ n < Len(stack)
            /\ readIdx' \in Nat /\ readIdx' <= readIdx + MaxArgs
  PROVE  Calls
<1>1. /\ stack \in Seq(Frame) /\ Len(stack) \in Nat /\ DOMAIN stack = 1 .. Len(stack)
      /\ made \in Nat /\ MaxArgs \in Nat /\ readIdx \in Nat /\ n \in Nat
      /\ Len(stack) <= made /\ readIdx <= MaxArgs * (made - Len(stack))
  BY BoundsAssumption DEF Framed, TypeOK, ReadsAreCounted
<1>2. /\ stack' \in Seq(Frame) /\ Len(stack') \in Nat /\ DOMAIN stack' = 1 .. Len(stack')
      /\ Len(stack') <= n
      /\ \A i \in DOMAIN stack' : i \in DOMAIN stack /\ stack'[i] = stack[i]
  BY DEF Cut
<1>3. made' \in Nat /\ made <= made'
  BY <1>1
<1>4. IdsAscend'
  BY <1>2 DEF Framed, IdsAscend
<1>5. ReadsAreCounted'
  <2>1. Len(stack') <= made'
    BY <1>1, <1>2, <1>3
  <2> DEFINE x == made - Len(stack)
             y == made' - Len(stack')
  <2>2. x \in Nat /\ y \in Nat /\ x < y
    BY <1>1, <1>2
  <2>3. readIdx <= MaxArgs * x
    BY <1>1
  <2>4. readIdx' \in Nat /\ readIdx' <= readIdx + MaxArgs
    BY <1>1
  <2> HIDE DEF x, y
  <2>5. readIdx' <= MaxArgs * y
    BY <1>1, <2>2, <2>3, <2>4, Distribute
  <2> QED
    BY <2>1, <2>5 DEF ReadsAreCounted, y
<1>6. \A i \in DOMAIN stack' : FrameAt(i)'
  <2> SUFFICES ASSUME NEW i \in DOMAIN stack' PROVE FrameAt(i)'
    OBVIOUS
  <2>1. /\ i \in DOMAIN stack /\ stack'[i] = stack[i] /\ FrameAt(i)
        /\ stack[i].id \in Nat
    BY <1>2, FrameFacts DEF Framed
  <2>2. i # Len(stack') => i # Len(stack)
    BY <1>1, <1>2, <2>1
  <2> QED
    BY <1>1, <1>3, <2>1, <2>2 DEF FrameAt
<1> QED
  BY <1>2, <1>4, <1>5, <1>6 DEF Calls

-----------------------------------------------------------------------------
(* The type invariant. *)

LEMMA InitFramed == Init => Framed
<1> SUFFICES ASSUME Init PROVE Framed
  OBVIOUS
<1>1. last \in Record
  <2>1. << >> \in Seq(Text) /\ << >> \in ArgLists /\ 0 \in 0 .. MaxCalls
    BY NoArgs, BoundsAssumption
  <2>2. last = [id |-> 0, args |-> << >>, texts |-> << >>]
    BY DEF Init, NoRecord
  <2> QED
    BY <2>1, <2>2 DEF Record
<1>2. 0 \in 0 .. MaxCalls /\ 0 \in 0 .. MaxArgs * MaxCalls
  BY BoundsAssumption
<1>3. TypeOK
  <2>1. /\ logger \in {"none", "running", "stopped"}
        /\ alive \in BOOLEAN /\ dirty \in BOOLEAN /\ abandoned \in BOOLEAN
    BY Zenon DEF Init
  <2>2. stack \in Seq(Frame) /\ stash \in Seq(Text)
    BY DEF Init
  <2> QED
    BY <1>1, <1>2, <2>1, <2>2, Zenon DEF Init, TypeOK
<1>4. Len(stack) = 0 /\ made = 0 /\ readIdx = 0 /\ DOMAIN stack = {}
  BY DEF Init
<1>5. ReadsAreCounted
  BY <1>4, BoundsAssumption DEF ReadsAreCounted
<1>6. IdsAscend /\ \A i \in DOMAIN stack : FrameAt(i)
  BY <1>4 DEF IdsAscend
<1> QED
  BY <1>3, <1>5, <1>6 DEF Framed

(* What a step has to keep besides the calls. *)
LocalTypes ==
  /\ setting \in Settings /\ logger \in {"none", "running", "stopped"}
  /\ alive \in BOOLEAN /\ dirty \in BOOLEAN
  /\ made \in 0 .. MaxCalls /\ readIdx \in Nat
  /\ stash \in Seq(Text) /\ last \in Record /\ abandoned \in BOOLEAN

LEMMA FramedTypes == Framed => LocalTypes
<1> SUFFICES ASSUME Framed PROVE LocalTypes
  OBVIOUS
<1>1. readIdx \in Nat
  BY BoundsAssumption DEF Framed, TypeOK
<1> QED
  BY <1>1 DEF Framed, TypeOK, LocalTypes

LEMMA CallsFramed ==
  ASSUME Calls, LocalTypes'
  PROVE  Framed'
<1>1. Len(stack') \in Nat /\ Len(stack') <= made' /\ readIdx' <= MaxArgs * (made' - Len(stack'))
  BY DEF Calls, ReadsAreCounted
<1>2. made' \in Nat /\ made' <= MaxCalls /\ MaxArgs \in Nat /\ MaxCalls \in Nat /\ readIdx' \in Nat
  BY BoundsAssumption DEF LocalTypes
<1>3. MaxArgs * (made' - Len(stack')) <= MaxArgs * MaxCalls
  <2> DEFINE x == made' - Len(stack')
  <2>1. x \in Nat /\ x < MaxCalls + 1
    BY <1>1, <1>2
  <2> HIDE DEF x
  <2>2. MaxArgs * x + MaxArgs <= MaxArgs * (MaxCalls + 1)
    BY <1>2, <2>1, Distribute
  <2>3. MaxArgs * x \in Int /\ MaxArgs * MaxCalls \in Int
        /\ MaxArgs * (MaxCalls + 1) = MaxArgs * MaxCalls + MaxArgs
    BY <1>2, <2>1
  <2>4. MaxArgs * x <= MaxArgs * MaxCalls
    BY <1>2, <2>2, <2>3
  <2> QED
    BY <2>4 DEF x
<1>4. readIdx' \in 0 .. MaxArgs * MaxCalls
  <2>1. /\ MaxArgs * MaxCalls \in Int /\ MaxArgs * (made' - Len(stack')) \in Int
    BY <1>1, <1>2
  <2> QED
    BY <1>1, <1>2, <1>3, <2>1
<1> QED
  BY <1>4 DEF Calls, LocalTypes, Framed, TypeOK

LEMMA ClearFacts ==
  ASSUME Framed, Clear
  PROVE  dirty' = FALSE /\ stash' \in Seq(Text) /\ readIdx' \in 0 .. readIdx
<1>1. stash \in Seq(Text) /\ readIdx \in Nat
  BY FramedTypes DEF LocalTypes
<1>2. dirty' = FALSE /\ ((stash' = << >> /\ readIdx' = 0) \/ UNCHANGED << stash, readIdx >>)
  BY Zenon DEF Clear
<1>3. stash' \in Seq(Text) /\ readIdx' \in 0 .. readIdx
  <2>1. << >> \in Seq(Text) /\ 0 \in 0 .. readIdx /\ readIdx \in 0 .. readIdx
    BY <1>1
  <2> QED
    BY <1>1, <1>2, <2>1, Zenon
<1> QED
  BY <1>2, <1>3, Zenon

LEMMA EnterHotFramed ==
  ASSUME Framed, NEW args \in ArgLists, EnterHot(args)
  PROVE  Framed'
<1>1. LocalTypes /\ made' \in 0 .. MaxCalls /\ made' = made + 1 /\ MayCall
      /\ UNCHANGED << setting, logger, last, abandoned >>
  BY FramedTypes, BoundsAssumption DEF EnterHot, MayCall, LocalTypes, history
<1>2. CASE dirty /\ BufBorrowed
  <2>1. dirty' = FALSE /\ Unwind(Len(stack)) /\ UNCHANGED << stash, readIdx >>
    BY <1>2 DEF EnterHot
  <2>2. TypeOK /\ Len(stack) \in 0 .. Len(stack)
    BY DEF Framed, TypeOK
  <2>3. Cut(Len(stack)) /\ alive' \in BOOLEAN
    BY <2>1, <2>2, UnwindIsCut
  <2>4. Calls
    BY <1>1, <2>1, <2>2, <2>3, CutCalls
  <2>5. LocalTypes'
    BY <1>1, <2>1, <2>3 DEF LocalTypes
  <2> QED
    BY <2>4, <2>5, CallsFramed
<1>3. CASE ~(dirty /\ BufBorrowed)
  <2>1. Clear /\ Push("hot", args, "args") /\ UNCHANGED alive
    BY <1>3 DEF EnterHot
  <2>2. Calls
    BY <1>1, <2>1, ClearFacts, PushCalls
  <2>3. LocalTypes'
    <3>1. dirty' \in BOOLEAN /\ stash' \in Seq(Text) /\ readIdx' \in Nat
      BY <1>1, <2>1, ClearFacts DEF LocalTypes
    <3> QED
      BY <1>1, <2>1, <3>1 DEF LocalTypes
  <2> QED
    BY <2>2, <2>3, CallsFramed
<1> QED
  BY <1>2, <1>3

LEMMA EnterOtherFramed ==
  ASSUME Framed, EnterHotPlain \/ EnterBridge
  PROVE  Framed'
<1>1. LocalTypes /\ made' \in 0 .. MaxCalls /\ made' = made + 1 /\ MayCall
      /\ UNCHANGED << setting, logger, dirty, stash, readIdx, last, abandoned >>
  BY FramedTypes, BoundsAssumption
     DEF EnterHotPlain, EnterBridge, MayCall, LocalTypes, stashed, history
<1>2. readIdx' \in 0 .. readIdx
  BY <1>1 DEF LocalTypes
<1>3. CASE Push("hot", << >>, "submit") /\ UNCHANGED alive
  <2>1. Calls
    BY <1>1, <1>2, <1>3, PushCalls, NoArgs
  <2> QED
    BY <1>1, <1>3, <2>1, CallsFramed DEF LocalTypes
<1>4. CASE Push("bridge", << >>, "format") /\ UNCHANGED alive
  <2>1. Calls
    BY <1>1, <1>2, <1>4, PushCalls, NoArgs
  <2> QED
    BY <1>1, <1>4, <2>1, CallsFramed DEF LocalTypes
<1>5. CASE Unwind(Len(stack))
  <2>1. TypeOK /\ Len(stack) \in 0 .. Len(stack)
    BY DEF Framed, TypeOK
  <2>2. Cut(Len(stack)) /\ alive' \in BOOLEAN
    BY <1>5, <2>1, UnwindIsCut
  <2>3. Calls
    BY <1>1, <2>1, <2>2, CutCalls
  <2> QED
    BY <1>1, <2>2, <2>3, CallsFramed DEF LocalTypes
<1> QED
  BY <1>3, <1>4, <1>5 DEF EnterHotPlain, EnterBridge

(* A stashed argument gets its offset, or the stash is borrowed already. *)
StashStarts == StashBegin /\ ~BufBorrowed
StashFails == StashBegin /\ BufBorrowed

(* The innermost call goes to phase ph and argument n, and keeps its name. *)
GoesTo(ph, n) ==
  /\ stack # << >> /\ ph \in {"stash", "fmt", "submit"} /\ n \in 1 .. MaxArgs + 1
  /\ ph = "fmt" => n \in DOMAIN Top.args /\ Top.args[n]
  /\ Become([Top EXCEPT !.phase = ph, !.at = n])
  /\ UNCHANGED << setting, logger, alive, made, readIdx, last, abandoned >>

LEMMA GoesToFacts ==
  ASSUME Framed, NEW ph, NEW n, GoesTo(ph, n)
  PROVE  /\ Calls
         /\ Len(stack') = Len(stack) /\ DOMAIN stack' = DOMAIN stack
         /\ Len(stack) \in DOMAIN stack /\ Top = stack[Len(stack)]
         /\ \A i \in DOMAIN stack : i # Len(stack) => stack'[i] = stack[i]
         /\ stack'[Len(stack)].id = Top.id /\ stack'[Len(stack)].args = Top.args
         /\ stack'[Len(stack)].phase = ph /\ stack'[Len(stack)].at = n
<1> DEFINE f == [Top EXCEPT !.phase = ph, !.at = n]
<1>1. /\ Top \in Frame /\ Len(stack) \in DOMAIN stack /\ Top = stack[Len(stack)]
      /\ ph \in {"stash", "fmt", "submit"} /\ n \in 1 .. MaxArgs + 1
  BY TopFacts DEF GoesTo, Framed
<1>2. /\ f \in Frame /\ f.id = Top.id /\ f.args = Top.args /\ f.phase = ph /\ f.at = n
  BY <1>1 DEF Frame
<1>3. Become(f)
  BY DEF GoesTo
<1> HIDE DEF f
<1>4. Calls
  BY <1>2, <1>3, BecomeCalls DEF GoesTo
<1>5. /\ Len(stack') = Len(stack) /\ DOMAIN stack' = DOMAIN stack
      /\ stack'[Len(stack)] = f
      /\ \A i \in DOMAIN stack : i # Len(stack) => stack'[i] = stack[i]
  BY <1>2, <1>3, BecomeFacts DEF GoesTo, Framed
<1> QED
  BY <1>1, <1>2, <1>4, <1>5

LEMMA NextPhase ==
  ASSUME Framed
  PROVE  /\ ArgsEvaluated => GoesTo("stash", 1)
         /\ SizePod => GoesTo("stash", Top.at + 1)
         /\ StashStarts => GoesTo("fmt", Top.at)
         /\ StashEnd => GoesTo("stash", Top.at + 1)
         /\ AllSized => GoesTo("submit", Top.at)
<1> SUFFICES ASSUME stack # << >>
             PROVE  /\ ArgsEvaluated => GoesTo("stash", 1)
                    /\ SizePod => GoesTo("stash", Top.at + 1)
                    /\ StashStarts => GoesTo("fmt", Top.at)
                    /\ StashEnd => GoesTo("stash", Top.at + 1)
                    /\ AllSized => GoesTo("submit", Top.at)
  BY DEF ArgsEvaluated, SizePod, StashStarts, StashBegin, AtStashed, StashEnd, AllSized,
     InPhase
<1>1. /\ Top \in Frame /\ Top.args \in ArgLists /\ Top.at \in 1 .. MaxArgs + 1
      /\ Top = stack[Len(stack)] /\ FrameAt(Len(stack))
  BY TopFacts DEF Framed
<1>2. /\ DOMAIN Top.args = 1 .. Len(Top.args) /\ Len(Top.args) \in Nat
      /\ Len(Top.args) <= MaxArgs /\ MaxArgs \in Nat
  BY <1>1, ArgListFacts, BoundsAssumption
<1>3. /\ Top.at \in DOMAIN Top.args => Top.at + 1 \in 1 .. MaxArgs + 1
      /\ 1 \in 1 .. MaxArgs + 1
  BY <1>1, <1>2
<1>4. /\ [Top EXCEPT !.phase = "stash"] = [Top EXCEPT !.phase = "stash", !.at = Top.at]
      /\ [Top EXCEPT !.phase = "fmt"] = [Top EXCEPT !.phase = "fmt", !.at = Top.at]
      /\ [Top EXCEPT !.phase = "submit"] = [Top EXCEPT !.phase = "submit", !.at = Top.at]
  BY <1>1 DEF Frame
<1>5. Top.phase = "stash" =>
        [Top EXCEPT !.at = @ + 1] = [Top EXCEPT !.phase = "stash", !.at = Top.at + 1]
  BY <1>1 DEF Frame
<1>6. /\ Top.phase = "args" => Top.at = 1
      /\ Top.phase = "fmt" => Top.at \in DOMAIN Top.args
  BY <1>1 DEF FrameAt
<1>7. ArgsEvaluated => GoesTo("stash", 1)
  BY <1>3, <1>4, <1>6 DEF ArgsEvaluated, InPhase, GoesTo, stashed, history
<1>8. SizePod => GoesTo("stash", Top.at + 1)
  BY <1>3, <1>5 DEF SizePod, InPhase, GoesTo, stashed, history
<1>9. StashStarts => GoesTo("fmt", Top.at)
  BY <1>1, <1>4
     DEF StashStarts, StashBegin, AtStashed, PushOffset, InPhase, GoesTo, history
<1>10. StashEnd => GoesTo("stash", Top.at + 1)
  BY <1>3, <1>6 DEF StashEnd, InPhase, GoesTo, stashed, history
<1>11. AllSized => GoesTo("submit", Top.at)
  BY <1>1, <1>4 DEF AllSized, InPhase, GoesTo, stashed, history
<1> QED
  BY <1>7, <1>8, <1>9, <1>10, <1>11

LEMMA GoesToFramed ==
  ASSUME Framed, ArgsEvaluated \/ SizePod \/ StashStarts \/ StashEnd \/ AllSized
  PROVE  Framed'
<1>1. \E ph, n : GoesTo(ph, n)
  BY NextPhase
<1>2. Calls /\ UNCHANGED << setting, logger, alive, made, readIdx, last, abandoned >>
  BY <1>1, GoesToFacts, Zenon DEF GoesTo
<1>3. LocalTypes
  BY FramedTypes
<1>4. dirty' \in BOOLEAN /\ stash' \in Seq(Text)
  <2>1. CASE UNCHANGED stashed
    BY <1>3, <2>1 DEF stashed, LocalTypes
  <2>2. CASE StashStarts
    <3>1. dirty' \in BOOLEAN
      BY <2>2, Zenon DEF StashStarts, StashBegin
    <3>2. [call |-> Top.id, arg |-> Top.at] \in Text
      <4>1. /\ Top.id \in 1 .. MaxCalls /\ Top.args \in ArgLists
            /\ Top.at \in DOMAIN Top.args
        BY <2>2, TopFacts DEF StashStarts, StashBegin, AtStashed, InPhase, Framed
      <4>2. Top.at \in 0 .. MaxArgs /\ Top.id \in 0 .. MaxCalls
        BY <4>1, ArgListFacts, BoundsAssumption
      <4> QED
        BY <4>2 DEF Text
    <3>3. stash' = Append(stash, [call |-> Top.id, arg |-> Top.at])
      BY <2>2 DEF StashStarts, StashBegin, PushOffset
    <3> QED
      BY <1>3, <3>1, <3>2, <3>3 DEF LocalTypes
  <2> QED
    BY <2>1, <2>2 DEF ArgsEvaluated, SizePod, StashEnd, AllSized
<1>5. LocalTypes'
  BY <1>2, <1>3, <1>4 DEF LocalTypes
<1> QED
  BY <1>2, <1>5, CallsFramed

(* What the encode closure finds in the stash. *)
LEMMA EncodedFacts ==
  ASSUME Framed, NEW args \in ArgLists
  PROVE  /\ EncodedTexts(args) \in Seq(Text) /\ TextCount(args) \in Nat
         /\ Len(EncodedTexts(args)) = TextCount(args)
         /\ DOMAIN EncodedTexts(args) = 1 .. TextCount(args)
         /\ \A j \in 1 .. TextCount(args) :
              EncodedTexts(args)[j] =
                IF readIdx + j \in DOMAIN stash THEN stash[readIdx + j] ELSE NoText
<1>1. TextCount(args) \in Nat /\ stash \in Seq(Text)
  BY CountFacts, FramedTypes DEF LocalTypes
<1>2. NoText \in Text
  BY BoundsAssumption DEF NoText, Text
<1>3. \A j \in 1 .. TextCount(args) :
        (IF readIdx + j \in DOMAIN stash THEN stash[readIdx + j] ELSE NoText) \in Text
  BY <1>1, <1>2
<1> DEFINE e == [j \in 1 .. TextCount(args) |->
                   IF readIdx + j \in DOMAIN stash THEN stash[readIdx + j] ELSE NoText]
<1>4. e \in [1 .. TextCount(args) -> Text]
  BY <1>3
<1>5. EncodedTexts(args) = e
  BY DEF EncodedTexts
<1>6. \A j \in 1 .. TextCount(args) :
        e[j] = IF readIdx + j \in DOMAIN stash THEN stash[readIdx + j] ELSE NoText
  OBVIOUS
<1> HIDE DEF e
<1>7. e \in Seq(Text) /\ Len(e) = TextCount(args) /\ DOMAIN e = 1 .. TextCount(args)
  BY <1>1, <1>4
<1> QED
  BY <1>1, <1>5, <1>6, <1>7

LEMMA SubmitHotFramed ==
  ASSUME Framed, SubmitHot
  PROVE  Framed'
<1>1. stack # << >> /\ TypeOK /\ LocalTypes
  BY FramedTypes DEF SubmitHot, InPhase, Framed
<1>2. Top.args \in ArgLists /\ Top.id \in 1 .. MaxCalls /\ Len(stack) \in Nat \ {0}
  BY <1>1, TopFacts
<1>3. /\ UNCHANGED << setting, logger, alive, made, dirty, stash, abandoned >>
      /\ readIdx' = readIdx + TextCount(Top.args) /\ stack' = Front(stack)
      /\ last' = [id |-> Top.id, args |-> Top.args, texts |-> EncodedTexts(Top.args)]
  BY DEF SubmitHot, Submitted
<1>4. /\ TextCount(Top.args) \in Nat /\ TextCount(Top.args) <= MaxArgs
      /\ EncodedTexts(Top.args) \in Seq(Text)
  BY <1>2, CountFacts, EncodedFacts
<1>5. last' \in Record
  BY <1>2, <1>3, <1>4, BoundsAssumption DEF Record
<1>6. readIdx' \in Nat /\ readIdx' <= readIdx + MaxArgs
  BY <1>1, <1>3, <1>4, BoundsAssumption DEF LocalTypes
<1>7. Calls
  <2>1. Cut(Len(stack) - 1)
    BY <1>1, <1>3, FrontIsCut
  <2>2. Len(stack) - 1 \in 0 .. Len(stack) /\ Len(stack) - 1 < Len(stack)
    BY <1>2
  <2> QED
    BY <1>3, <1>6, <2>1, <2>2, CutCalls
<1>8. LocalTypes'
  BY <1>1, <1>3, <1>5, <1>6 DEF LocalTypes
<1> QED
  BY <1>7, <1>8, CallsFramed

LEMMA EncodePanicsFramed ==
  ASSUME Framed, EncodePanics
  PROVE  Framed'
<1>1. stack # << >> /\ TypeOK /\ LocalTypes
  BY FramedTypes DEF EncodePanics, InPhase, Framed
<1>2. Top.args \in ArgLists /\ Len(stack) \in Nat \ {0}
  BY <1>1, TopFacts
<1>3. /\ UNCHANGED << setting, logger, made, dirty, stash, last >>
      /\ Unwind(Len(stack) - 1)
  BY DEF EncodePanics
<1>4. PICK j \in 1 .. TextCount(Top.args) : readIdx' = readIdx + j
  BY DEF EncodePanics
<1>5. readIdx' \in Nat /\ readIdx' <= readIdx + MaxArgs
  BY <1>1, <1>2, <1>4, CountFacts, BoundsAssumption DEF LocalTypes
<1>6. Len(stack) - 1 \in 0 .. Len(stack) /\ Len(stack) - 1 < Len(stack)
  BY <1>2
<1>7. Cut(Len(stack) - 1) /\ alive' \in BOOLEAN
  BY <1>1, <1>3, <1>6, UnwindIsCut
<1>8. Calls
  BY <1>3, <1>5, <1>6, <1>7, CutCalls
<1>9. abandoned' \in BOOLEAN
  BY Zenon DEF EncodePanics
<1>10. LocalTypes'
  BY <1>1, <1>3, <1>5, <1>7, <1>9 DEF LocalTypes
<1> QED
  BY <1>8, <1>10, CallsFramed

(* The other ends of a call leave the stash and the read index alone. *)
End == LeaveArgs \/ RefuseHot \/ SubmitReentrant \/ SubmitBridge \/ CallerPanics

Ends ==
  /\ stack # << >> /\ Cut(Len(stack) - 1)
  /\ UNCHANGED << setting, logger, made, dirty, stash, readIdx, abandoned >>

(* A panic, with what is left of the thread. *)
Panicked ==
  /\ alive' \in BOOLEAN
  /\ setting.caught = "never" => ~alive'
  /\ setting.caught # "inside" => stack' = << >>
  /\ stack' # << >> => UNCHANGED alive

LEMMA ReturnFacts ==
  ASSUME Framed, LeaveArgs \/ RefuseHot \/ SubmitBridge
  PROVE  /\ Ends /\ UNCHANGED alive
         /\ UNCHANGED last \/ (SubmitBridge /\ Submitted(<< >>))
<1>1. stack # << >> /\ TypeOK
  BY DEF LeaveArgs, RefuseHot, SubmitBridge, InPhase, Framed
<1>2. stack' = Front(stack)
  BY DEF LeaveArgs, RefuseHot, SubmitBridge
<1>3. Cut(Len(stack) - 1)
  BY <1>1, <1>2, FrontIsCut
<1> QED
  BY <1>1, <1>3 DEF LeaveArgs, RefuseHot, SubmitBridge, Ends, stashed, history

LEMMA PanicFacts ==
  ASSUME Framed, SubmitReentrant \/ CallerPanics
  PROVE  Ends /\ Panicked /\ UNCHANGED last
<1>1. stack # << >> /\ TypeOK
  BY DEF SubmitReentrant, CallerPanics, InPhase, Framed
<1>2. Len(stack) - 1 \in 0 .. Len(stack)
  BY <1>1, TopFacts
<1>3. Unwind(Len(stack) - 1)
  BY DEF SubmitReentrant, CallerPanics
<1>4. Cut(Len(stack) - 1) /\ Panicked
  BY <1>1, <1>2, <1>3, UnwindIsCut DEF Panicked
<1> QED
  BY <1>1, <1>4 DEF SubmitReentrant, CallerPanics, Ends, stashed, history

LEMMA EndsFramed ==
  ASSUME Framed, End
  PROVE  Framed'
<1>1. Ends /\ alive' \in BOOLEAN /\ (UNCHANGED last \/ Submitted(<< >>))
  BY ReturnFacts, PanicFacts, FramedTypes DEF End, LocalTypes, Panicked
<1>2. TypeOK /\ LocalTypes /\ stack # << >>
  BY <1>1, FramedTypes DEF Framed, Ends
<1>3. Top.args \in ArgLists /\ Top.id \in 1 .. MaxCalls /\ Len(stack) \in Nat \ {0}
  BY <1>2, TopFacts
<1>4. Calls
  <2>1. /\ Len(stack) - 1 \in 0 .. Len(stack) /\ Len(stack) - 1 < Len(stack)
        /\ readIdx \in Nat /\ readIdx <= readIdx + MaxArgs
    BY <1>2, <1>3, BoundsAssumption DEF LocalTypes
  <2> QED
    BY <1>1, <2>1, CutCalls DEF Ends
<1>5. last' \in Record
  <2>1. CASE UNCHANGED last
    BY <1>2, <2>1 DEF LocalTypes
  <2>2. CASE Submitted(<< >>)
    <3>1. << >> \in Seq(Text) /\ Top.id \in 0 .. MaxCalls
      BY <1>3, BoundsAssumption
    <3> QED
      BY <1>3, <2>2, <3>1 DEF Submitted, Record
  <2> QED
    BY <1>1, <2>1, <2>2
<1>6. LocalTypes'
  BY <1>1, <1>2, <1>5 DEF LocalTypes, Ends
<1> QED
  BY <1>4, <1>6, CallsFramed

(* A call that cannot stash panics, and has marked the stash. *)
LEMMA StashFailsFacts ==
  ASSUME Framed, StashFails
  PROVE  /\ stack # << >> /\ Cut(Len(stack) - 1) /\ Panicked /\ dirty' = TRUE
         /\ UNCHANGED << setting, logger, made, stash, readIdx, last, abandoned >>
<1>1. stack # << >> /\ TypeOK
  BY DEF StashFails, StashBegin, AtStashed, InPhase, Framed
<1>2. Len(stack) - 1 \in 0 .. Len(stack)
  BY <1>1, TopFacts
<1>3. Unwind(Len(stack) - 1) /\ UNCHANGED stash
  BY DEF StashFails, StashBegin, PushOffset
<1>4. Cut(Len(stack) - 1) /\ Panicked
  BY <1>1, <1>2, <1>3, UnwindIsCut DEF Panicked
<1> QED
  BY <1>1, <1>3, <1>4 DEF StashFails, StashBegin, history

LEMMA StashFailsFramed ==
  ASSUME Framed, StashFails
  PROVE  Framed'
<1>1. TypeOK /\ LocalTypes
  BY FramedTypes DEF Framed
<1>2. /\ Len(stack) - 1 \in 0 .. Len(stack) /\ Len(stack) - 1 < Len(stack)
      /\ readIdx \in Nat /\ readIdx <= readIdx + MaxArgs
  BY <1>1, StashFailsFacts, TopFacts, BoundsAssumption DEF LocalTypes
<1>3. Calls
  BY <1>2, StashFailsFacts, CutCalls
<1>4. dirty' \in BOOLEAN
  BY StashFailsFacts, Zenon
<1>5. LocalTypes'
  BY <1>1, <1>4, StashFailsFacts DEF LocalTypes, Panicked
<1> QED
  BY <1>3, <1>5, CallsFramed

(* Elsewhere, the logger starts or stops. *)
Elsewhere == Build \/ Stop

LEMMA ElsewhereFramed ==
  ASSUME Framed, Elsewhere
  PROVE  Framed'
<1>1. UNCHANGED << setting, alive, made, stack, dirty, stash, readIdx, last, abandoned >>
  BY DEF Elsewhere, Build, Stop, stashed, history
<1>2. logger' \in {"none", "running", "stopped"}
  BY DEF Elsewhere, Build, Stop
<1>3. Framed
  OBVIOUS
<1> QED
  BY <1>1, <1>2, <1>3
     DEF Framed, TypeOK, ReadsAreCounted, IdsAscend, FrameAt

LEMMA NextFramed == Framed /\ [Next]_vars => Framed'
<1> SUFFICES ASSUME Framed, [Next]_vars PROVE Framed'
  OBVIOUS
<1>1. CASE UNCHANGED vars
  BY <1>1 DEF vars, Framed, TypeOK, ReadsAreCounted, IdsAscend, FrameAt
<1>2. ASSUME NEW args \in ArgLists, EnterHot(args) PROVE Framed'
  BY <1>2, EnterHotFramed
<1>3. CASE EnterHotPlain \/ EnterBridge
  BY <1>3, EnterOtherFramed
<1>4. CASE ArgsEvaluated \/ SizePod \/ StashStarts \/ StashEnd \/ AllSized
  BY <1>4, GoesToFramed
<1>5. CASE SubmitHot
  BY <1>5, SubmitHotFramed
<1>6. CASE EncodePanics
  BY <1>6, EncodePanicsFramed
<1>7. CASE End
  BY <1>7, EndsFramed
<1>8. CASE Elsewhere
  BY <1>8, ElsewhereFramed
<1>9. CASE StashFails
  BY <1>9, StashFailsFramed
<1> QED
  BY <1>1, <1>2, <1>3, <1>4, <1>5, <1>6, <1>7, <1>8, <1>9
     DEF Next, End, Elsewhere, StashStarts, StashFails

LEMMA FramedHolds == Spec => []Framed
  BY InitFramed, NextFramed, PTL DEF Spec

(* Every thread-local keeps its type; a thread reads no more texts than    *)
(* the arguments of the calls it has ended (pod.rs 332-358).               *)
THEOREM StashTypeCorrect == Spec => []TypeOK
  BY FramedHolds, PTL DEF Framed

-----------------------------------------------------------------------------
(* The steps by what they do to the calls: one starts, or panics as it     *)
(* starts; the innermost goes on, or submits; some end otherwise.          *)

Starts(kind, args, phase) ==
  /\ kind \in {"hot", "bridge"} /\ args \in ArgLists
  /\ phase \in {"args", "submit", "format"}
  /\ MayCall /\ made' = made + 1 /\ Push(kind, args, phase)
  /\ IF phase = "args" THEN args # << >> /\ ~(dirty /\ BufBorrowed) /\ Clear
     ELSE args = << >> /\ UNCHANGED << dirty, stash, readIdx >>
  /\ phase = "format" => ~ProducerBorrowed
  /\ UNCHANGED << setting, logger, alive, last, abandoned >>

FailsAtStart ==
  /\ MayCall /\ Cut(Len(stack)) /\ Panicked
  /\ UNCHANGED dirty \/ (dirty /\ BufBorrowed /\ dirty' = FALSE)
  /\ UNCHANGED << setting, logger, stash, readIdx, last, abandoned >>

Start == FailsAtStart \/ \E kind, args, phase : Starts(kind, args, phase)
GoOn == ArgsEvaluated \/ SizePod \/ StashStarts \/ StashEnd \/ AllSized

LEMMA StepCases ==
  ASSUME Framed, Next
  PROVE  Start \/ GoOn \/ StashFails \/ SubmitHot \/ EncodePanics \/ End \/ Elsewhere
<1>1. TypeOK /\ Len(stack) \in 0 .. Len(stack)
  BY DEF Framed, TypeOK
<1>2. ASSUME NEW args \in ArgLists, EnterHot(args) PROVE Start
  <2>1. CASE dirty /\ BufBorrowed
    <3>1. Unwind(Len(stack)) /\ dirty' = FALSE /\ MayCall
          /\ UNCHANGED << setting, logger, stash, readIdx, last, abandoned >>
      BY <1>2, <2>1 DEF EnterHot, history
    <3>2. Cut(Len(stack)) /\ Panicked
      BY <1>1, <3>1, UnwindIsCut DEF Panicked
    <3>3. FailsAtStart
      BY <2>1, <3>1, <3>2, Zenon DEF FailsAtStart
    <3> QED
      BY <3>3 DEF Start
  <2>2. CASE ~(dirty /\ BufBorrowed)
    <3>1. Starts("hot", args, "args")
      BY <1>2, <2>2 DEF EnterHot, Starts, history
    <3> QED
      BY <3>1 DEF Start
  <2> QED
    BY <2>1, <2>2
<1>3. CASE EnterHotPlain
  <2>1. Starts("hot", << >>, "submit")
    BY <1>3, NoArgs DEF EnterHotPlain, Starts, stashed, history
  <2> QED
    BY <2>1 DEF Start
<1>4. CASE EnterBridge
  <2>1. CASE ProducerBorrowed
    <3>1. Unwind(Len(stack)) /\ MayCall
          /\ UNCHANGED << setting, logger, dirty, stash, readIdx, last, abandoned >>
      BY <1>4, <2>1 DEF EnterBridge, stashed, history
    <3>2. Cut(Len(stack)) /\ Panicked
      BY <1>1, <3>1, UnwindIsCut DEF Panicked
    <3> QED
      BY <3>1, <3>2 DEF FailsAtStart, Start
  <2>2. CASE ~ProducerBorrowed
    <3>1. Starts("bridge", << >>, "format")
      BY <1>4, <2>2, NoArgs DEF EnterBridge, Starts, stashed, history
    <3> QED
      BY <3>1 DEF Start
  <2> QED
    BY <2>1, <2>2
<1> QED
  BY <1>2, <1>3, <1>4 DEF Next, GoOn, End, Elsewhere, StashStarts, StashFails

LEMMA StartsFacts ==
  ASSUME Framed, NEW kind, NEW args, NEW phase, Starts(kind, args, phase)
  PROVE  /\ DOMAIN stack' = 1 .. Len(stack) + 1 /\ Len(stack) \in Nat
         /\ DOMAIN stack = 1 .. Len(stack) /\ Len(stack') = Len(stack) + 1
         /\ \A i \in DOMAIN stack' : i = Len(stack) + 1 \/ i \in DOMAIN stack
         /\ \A i \in DOMAIN stack : i < Len(stack) + 1 /\ stack'[i] = stack[i]
         /\ stack'[Len(stack) + 1].id = made + 1
         /\ stack'[Len(stack) + 1].args = args
         /\ stack'[Len(stack) + 1].phase = phase
         /\ stack'[Len(stack) + 1].at = 1
<1>1. readIdx' \in 0 .. readIdx
  <2>1. CASE phase = "args"
    BY <2>1, ClearFacts DEF Starts
  <2>2. CASE phase # "args"
    <3>1. readIdx' = readIdx /\ readIdx \in Nat
      BY <2>2, FramedTypes DEF Starts, LocalTypes
    <3> QED
      BY <3>1
  <2> QED
    BY <2>1, <2>2
<1> DEFINE f == [id |-> made + 1, kind |-> kind, args |-> args, phase |-> phase, at |-> 1]
<1>2. /\ DOMAIN stack' = 1 .. Len(stack) + 1 /\ stack'[Len(stack) + 1] = f
      /\ Len(stack') = Len(stack) + 1
      /\ \A i \in DOMAIN stack : stack'[i] = stack[i]
  BY <1>1, PushCalls DEF Starts
<1>3. f.id = made + 1 /\ f.args = args /\ f.phase = phase /\ f.at = 1
  OBVIOUS
<1> HIDE DEF f
<1>4. Len(stack) \in Nat /\ DOMAIN stack = 1 .. Len(stack)
  BY DEF Framed, TypeOK
<1>5. \A i \in DOMAIN stack' : i = Len(stack) + 1 \/ i \in DOMAIN stack
  BY <1>2, <1>4
<1>6. \A i \in DOMAIN stack : i < Len(stack) + 1
  BY <1>4
<1> QED
  BY <1>2, <1>3, <1>4, <1>5, <1>6

(* SubmitHot and EncodePanics also leave fewer calls. *)
LEMMA SubmitCuts ==
  ASSUME Framed
  PROVE  /\ SubmitHot => stack # << >> /\ Cut(Len(stack) - 1) /\ UNCHANGED alive
         /\ EncodePanics => stack # << >> /\ Cut(Len(stack) - 1) /\ Panicked
<1>1. SubmitHot \/ EncodePanics => stack # << >>
  BY DEF SubmitHot, EncodePanics, InPhase
<1>2. TypeOK
  BY DEF Framed
<1>3. stack # << >> => Len(stack) - 1 \in 0 .. Len(stack)
  BY <1>2, TopFacts
<1>4. SubmitHot => Cut(Len(stack) - 1) /\ UNCHANGED alive
  BY <1>1, <1>2, FrontIsCut DEF SubmitHot
<1>5. EncodePanics => Cut(Len(stack) - 1) /\ Panicked
  <2> SUFFICES ASSUME EncodePanics PROVE Cut(Len(stack) - 1) /\ Panicked
    OBVIOUS
  <2>1. Unwind(Len(stack) - 1)
    BY DEF EncodePanics
  <2> QED
    BY <1>1, <1>2, <1>3, <2>1, UnwindIsCut DEF Panicked
<1> QED
  BY <1>1, <1>4, <1>5

-----------------------------------------------------------------------------
(* One call at a time formats into TLS_BUF. *)

LEMMA NextOneUser ==
  ASSUME Framed, OneBufferUser, [Next]_vars
  PROVE  OneBufferUser'
<1>1. CASE UNCHANGED stack
  BY <1>1 DEF OneBufferUser
<1>2. ASSUME NEW n, Cut(n) PROVE OneBufferUser'
  BY <1>2 DEF OneBufferUser, Cut
<1>3. ASSUME NEW kind, NEW args, NEW phase, Starts(kind, args, phase)
      PROVE  OneBufferUser'
  <2>1. CASE phase = "format"
    <3>1. \A i \in DOMAIN stack : stack[i].phase # "format"
      BY <1>3, <2>1 DEF Starts, ProducerBorrowed, SomeIn
    <3>2. \A i \in DOMAIN stack' : stack'[i].phase = "format" => i = Len(stack) + 1
      BY <1>3, <3>1, StartsFacts
    <3> QED
      BY <3>2 DEF OneBufferUser
  <2>2. CASE phase # "format"
    <3>1. \A i \in DOMAIN stack' : stack'[i].phase = "format" =>
            i \in DOMAIN stack /\ stack[i].phase = "format"
      BY <1>3, <2>2, StartsFacts
    <3> QED
      BY <3>1 DEF OneBufferUser
  <2> QED
    BY <2>1, <2>2
<1>4. ASSUME NEW ph, NEW n, GoesTo(ph, n) PROVE OneBufferUser'
  <2>1. /\ DOMAIN stack' = DOMAIN stack /\ stack'[Len(stack)].phase = ph
        /\ \A i \in DOMAIN stack : i # Len(stack) => stack'[i] = stack[i]
    BY <1>4, GoesToFacts
  <2>2. ph # "format"
    BY <1>4 DEF GoesTo
  <2> QED
    BY <2>1, <2>2 DEF OneBufferUser
<1>5. CASE Start
  BY <1>2, <1>3, <1>5 DEF Start, FailsAtStart
<1>6. CASE GoOn
  BY <1>4, <1>6, NextPhase DEF GoOn
<1>7. CASE SubmitHot \/ EncodePanics
  BY <1>2, <1>7, SubmitCuts
<1>8. CASE End
  BY <1>2, <1>8, ReturnFacts, PanicFacts DEF Ends, End
<1>9. CASE Elsewhere \/ UNCHANGED vars
  BY <1>1, <1>9 DEF Elsewhere, Build, Stop, vars
<1>10. CASE StashFails
  BY <1>2, <1>10, StashFailsFacts
<1> QED
  BY <1>5, <1>6, <1>7, <1>8, <1>9, <1>10, StepCases

(* logger.rs 161-164: the UnsafeCell TLS_BUF is safe, for no two calls of  *)
(* a thread ever format into it at the same time.                          *)
THEOREM BufferHasOneUser == Spec => []OneBufferUser
<1>1. Init => OneBufferUser
  BY DEF Init, OneBufferUser
<1> QED
  BY <1>1, FramedHolds, NextOneUser, PTL DEF Spec

-----------------------------------------------------------------------------
(* Whose texts are in the stash. *)

Marked == Framed /\ StashIsMarked /\ NoEarlierText

(* Once a Display or Debug is at work, only its panic can spoil the stash. *)
LEMMA BorrowedByNesting ==
  ASSUME Framed, MayCall, BufBorrowed
  PROVE  setting.nestInFormat
<1>1. PICK i \in DOMAIN stack : stack[i].phase = "fmt"
  BY DEF BufBorrowed, SomeIn
<1>2. CASE i = Len(stack)
  BY <1>1, <1>2 DEF MayCall, InPhase, Top
<1>3. CASE i # Len(stack)
  BY <1>1, <1>3 DEF Framed, FrameAt
<1> QED
  BY <1>2, <1>3

(* What is left of the calls is no more than there was. *)
LEMMA CutPhases ==
  ASSUME NEW n, Cut(n), NEW phase
  PROVE  SomeIn(phase)' => SomeIn(phase)
  BY DEF Cut, SomeIn

LEMMA EmptyStays ==
  ASSUME NEW n, Cut(n), stack' # << >>
  PROVE  stack # << >>
<1>1. stack' \in Seq(Frame) /\ Len(stack') \in Nat /\ DOMAIN stack' = 1 .. Len(stack')
  BY DEF Cut
<1>2. Len(stack') # 0
  BY <1>1
<1>3. 1 \in DOMAIN stack'
  BY <1>1, <1>2
<1>4. 1 \in DOMAIN stack
  BY <1>3 DEF Cut
<1> QED
  BY <1>4

LEMMA CutMarked ==
  ASSUME Marked, alive, NEW n, Cut(n), UNCHANGED << setting, logger, stash >>,
         dirty => dirty', stack' # << >> => alive' /\ stack # << >>
  PROVE  StashIsMarked'
<1>1. PanicsEnd' = PanicsEnd
  BY DEF PanicsEnd
<1>2. PanicsEnd => (alive' => (dirty' \/ stash' = << >>))
  BY DEF Marked, StashIsMarked
<1>3. PanicsEnd => (alive' => (BufBorrowed' => dirty'))
  BY CutPhases DEF Marked, StashIsMarked, BufBorrowed
<1>4. PanicsEnd => \A i \in DOMAIN stack' : stack'[i].args # << >> =>
         \A k \in DOMAIN stash' : stash'[k].call >= stack'[i].id
  BY DEF Marked, StashIsMarked, Cut
<1>5. stack' # << >> => logger' # "none" \/ setting'.early
  BY DEF Marked, StashIsMarked
<1> QED
  BY <1>1, <1>2, <1>3, <1>4, <1>5 DEF StashIsMarked

LEMMA FailsMarked ==
  ASSUME Marked, FailsAtStart
  PROVE  StashIsMarked'
<1>1. /\ MayCall /\ Cut(Len(stack)) /\ Panicked /\ alive
      /\ UNCHANGED << setting, logger, stash >>
  BY DEF FailsAtStart, MayCall
<1>2. stack' # << >> => alive' /\ stack # << >>
  <2>1. stack' # << >> => stack # << >>
    BY <1>1, EmptyStays
  <2> QED
    BY <1>1, <2>1 DEF Panicked
<1>3. CASE UNCHANGED dirty
  BY <1>1, <1>2, <1>3, CutMarked
<1>4. CASE dirty /\ BufBorrowed /\ dirty' = FALSE
  <2>1. setting.nestInFormat
    BY <1>1, <1>4, BorrowedByNesting DEF Marked
  <2>2. PanicsEnd' => ~alive' /\ stack' = << >>
    BY <1>1, <2>1 DEF PanicsEnd, Panicked
  <2>3. stack' # << >> => logger' # "none" \/ setting'.early
    BY <1>1, <1>2 DEF Marked, StashIsMarked
  <2> QED
    BY <1>2, <2>2, <2>3 DEF StashIsMarked
<1> QED
  BY <1>3, <1>4 DEF FailsAtStart

LEMMA StartsMarked ==
  ASSUME Marked, NEW kind, NEW args, NEW phase, Starts(kind, args, phase)
  PROVE  StashIsMarked'
<1>1. /\ Framed /\ alive /\ alive' /\ UNCHANGED setting
      /\ logger' # "none" \/ setting'.early
  BY DEF Marked, Starts, MayCall
<1>2. PanicsEnd' = PanicsEnd
  BY <1>1 DEF PanicsEnd
<1>3. BufBorrowed' => BufBorrowed
  <2>1. \A i \in DOMAIN stack' : stack'[i].phase = "fmt" =>
          i \in DOMAIN stack /\ stack[i].phase = "fmt"
    BY <1>1, StartsFacts DEF Starts
  <2> QED
    BY <2>1 DEF BufBorrowed, SomeIn
<1>4. CASE phase = "args"
  <2>1. ~(dirty /\ BufBorrowed) /\ Clear
    BY <1>4 DEF Starts
  <2>2. PanicsEnd => stash' = << >>
    <3>1. dirty => stash' = << >>
      BY <2>1 DEF Clear
    <3>2. ~dirty => stash' = stash
      BY <2>1 DEF Clear
    <3> QED
      BY <1>1, <3>1, <3>2 DEF Marked, StashIsMarked
  <2>3. PanicsEnd => ~BufBorrowed'
    BY <1>1, <1>3, <2>1 DEF Marked, StashIsMarked
  <2>4. PanicsEnd => DOMAIN stash' = {}
    BY <2>2
  <2> QED
    BY <1>1, <1>2, <2>2, <2>3, <2>4 DEF StashIsMarked
<1>5. CASE phase # "args"
  <2>1. args = << >> /\ UNCHANGED << dirty, stash >>
    BY <1>5 DEF Starts
  <2>2. PanicsEnd => \A i \in DOMAIN stack' : stack'[i].args # << >> =>
           \A k \in DOMAIN stash' : stash'[k].call >= stack'[i].id
    <3>1. \A i \in DOMAIN stack' : stack'[i].args # << >> =>
            i \in DOMAIN stack /\ stack'[i] = stack[i]
      BY <1>1, <2>1, StartsFacts
    <3> QED
      BY <2>1, <3>1 DEF Marked, StashIsMarked
  <2> QED
    BY <1>1, <1>2, <1>3, <2>1, <2>2 DEF Marked, StashIsMarked
<1> QED
  BY <1>4, <1>5

LEMMA GoOnMarked ==
  ASSUME Marked, GoOn
  PROVE  StashIsMarked'
<1>1. Framed /\ TypeOK /\ PanicsEnd' = PanicsEnd
  <2>1. UNCHANGED setting
    BY DEF GoOn, ArgsEvaluated, SizePod, StashStarts, StashBegin, StashEnd, AllSized
  <2> QED
    BY <2>1 DEF Marked, Framed, PanicsEnd
<1>2. PICK ph, n : GoesTo(ph, n) /\ (ph = "fmt" => StashStarts)
  <2>1. "stash" # "fmt" /\ "submit" # "fmt"
    OBVIOUS
  <2> QED
    BY <1>1, <2>1, NextPhase DEF GoOn
<1>3. /\ stack # << >> /\ alive /\ UNCHANGED alive
      /\ logger' # "none" \/ setting'.early
  BY <1>2 DEF GoesTo, Marked, StashIsMarked
<1>4. /\ DOMAIN stack' = DOMAIN stack
      /\ \A i \in DOMAIN stack : stack'[i].id = stack[i].id /\ stack'[i].args = stack[i].args
      /\ stack'[Len(stack)].phase = ph
      /\ \A i \in DOMAIN stack : i # Len(stack) => stack'[i] = stack[i]
  <2>1. /\ DOMAIN stack' = DOMAIN stack /\ Top = stack[Len(stack)]
        /\ \A i \in DOMAIN stack : i # Len(stack) => stack'[i] = stack[i]
        /\ stack'[Len(stack)].id = Top.id /\ stack'[Len(stack)].args = Top.args
        /\ stack'[Len(stack)].phase = ph
    BY <1>1, <1>2, GoesToFacts
  <2> QED
    BY <2>1
<1>5. CASE StashStarts
  <2>1. dirty'
    BY <1>5, Zenon DEF StashStarts, StashBegin, AtStashed, PushOffset
  <2>2. PanicsEnd => \A i \in DOMAIN stack' : stack'[i].args # << >> =>
           \A k \in DOMAIN stash' : stash'[k].call >= stack'[i].id
    <3> SUFFICES ASSUME PanicsEnd, NEW i \in DOMAIN stack, stack[i].args # << >>,
                        NEW k \in DOMAIN stash'
                 PROVE  stash'[k].call >= stack[i].id
      BY <1>4
    <3> DEFINE e == [call |-> Top.id, arg |-> Top.at]
    <3>1. stash' = Append(stash, e) /\ stash \in Seq(Text) /\ e.call = Top.id
      BY <1>1, <1>5 DEF StashStarts, StashBegin, AtStashed, PushOffset, TypeOK
    <3> HIDE DEF e
    <3>2. \/ k \in DOMAIN stash /\ stash'[k] = stash[k]
          \/ stash'[k] = e
      BY <3>1
    <3>3. CASE k \in DOMAIN stash /\ stash'[k] = stash[k]
      BY <3>3 DEF Marked, StashIsMarked
    <3>4. CASE stash'[k] = e
      <4>1. /\ Top = stack[Len(stack)] /\ Len(stack) \in DOMAIN stack
            /\ DOMAIN stack = 1 .. Len(stack) /\ Len(stack) \in Nat
        BY <1>1, <1>3, TopFacts
      <4>2. stack[i].id \in Nat /\ Top.id \in Nat
        BY <1>1, <4>1, FrameFacts
      <4>3. i = Len(stack) \/ i < Len(stack)
        BY <4>1
      <4>4. stack[i].id <= Top.id
        BY <1>1, <4>1, <4>2, <4>3 DEF Framed, IdsAscend
      <4> QED
        BY <3>1, <3>4, <4>2, <4>4
    <3> QED
      BY <3>2, <3>3, <3>4
  <2> QED
    BY <1>1, <1>3, <2>1, <2>2 DEF StashIsMarked
<1>6. CASE ~StashStarts
  <2>1. UNCHANGED << dirty, stash >>
    BY <1>6 DEF GoOn, ArgsEvaluated, SizePod, StashEnd, AllSized, stashed
  <2>2. BufBorrowed' => BufBorrowed
    BY <1>2, <1>4, <1>6 DEF BufBorrowed, SomeIn
  <2>3. PanicsEnd => \A i \in DOMAIN stack' : stack'[i].args # << >> =>
           \A k \in DOMAIN stash' : stash'[k].call >= stack'[i].id
    BY <1>4, <2>1 DEF Marked, StashIsMarked
  <2> QED
    BY <1>1, <1>3, <2>1, <2>2, <2>3 DEF Marked, StashIsMarked
<1> QED
  BY <1>5, <1>6

LEMMA NextStashMarked ==
  ASSUME Marked, [Next]_vars
  PROVE  StashIsMarked'
<1>1. Framed /\ (stack # << >> => alive)
  BY DEF Marked, StashIsMarked
<1>2. CASE Start
  BY <1>2, FailsMarked, StartsMarked DEF Start
<1>3. CASE GoOn
  BY <1>3, GoOnMarked
<1>4. CASE SubmitHot \/ EncodePanics
  <2>1. stack # << >> /\ Cut(Len(stack) - 1) /\ (UNCHANGED alive \/ Panicked)
    BY <1>1, <1>4, SubmitCuts
  <2>2. UNCHANGED << setting, logger, stash, dirty >>
    BY <1>4 DEF SubmitHot, EncodePanics
  <2>3. alive /\ (stack' # << >> => alive' /\ stack # << >>)
    <3>1. alive /\ alive \in BOOLEAN /\ stack # << >>
      BY <1>1, <2>1 DEF Framed, TypeOK
    <3>2. CASE UNCHANGED alive
      BY <3>1, <3>2
    <3>3. CASE Panicked
      BY <3>1, <3>3 DEF Panicked
    <3> QED
      BY <2>1, <3>2, <3>3
  <2> QED
    BY <2>1, <2>2, <2>3, CutMarked
<1>5. CASE End
  <2>1. Ends /\ (UNCHANGED alive \/ Panicked)
    BY <1>1, <1>5, ReturnFacts, PanicFacts DEF End
  <2>2. alive /\ (stack' # << >> => alive' /\ stack # << >>)
    <3>1. alive /\ alive \in BOOLEAN /\ stack # << >>
      BY <1>1, <2>1 DEF Framed, TypeOK, Ends
    <3>2. CASE UNCHANGED alive
      BY <3>1, <3>2
    <3>3. CASE Panicked
      BY <3>1, <3>3 DEF Panicked
    <3> QED
      BY <2>1, <3>2, <3>3
  <2>3. Cut(Len(stack) - 1) /\ UNCHANGED << setting, logger, stash, dirty >>
    BY <2>1 DEF Ends
  <2> QED
    BY <2>2, <2>3, CutMarked
<1>6. CASE Elsewhere \/ UNCHANGED vars
  <2>1. UNCHANGED << setting, alive, stack, dirty, stash >>
    BY <1>6 DEF Elsewhere, Build, Stop, vars, stashed
  <2>2. logger # "none" => logger' # "none"
    BY <1>6 DEF Elsewhere, Build, Stop, vars
  <2> QED
    BY <2>1, <2>2 DEF Marked, StashIsMarked, PanicsEnd, BufBorrowed, SomeIn
<1>7. CASE StashFails
  <2>1. /\ Cut(Len(stack) - 1) /\ alive /\ dirty'
        /\ stack' # << >> => alive' /\ stack # << >>
        /\ UNCHANGED << setting, logger, stash >>
    BY <1>1, <1>7, StashFailsFacts DEF Panicked
  <2> QED
    BY <2>1, CutMarked
<1> QED
  BY <1>1, <1>2, <1>3, <1>4, <1>5, <1>6, <1>7, StepCases

LEMMA NextNoEarlier ==
  ASSUME Marked, [Next]_vars
  PROVE  NoEarlierText'
<1>1. Framed /\ TypeOK /\ UNCHANGED setting
  BY DEF Marked, Framed, Next, EnterHot, EnterHotPlain, ArgsEvaluated, SizePod,
     StashBegin, StashEnd, AllSized, SubmitHot, EncodePanics, RefuseHot,
     SubmitReentrant, EnterBridge, SubmitBridge, CallerPanics, LeaveArgs, Build, Stop, vars
<1>2. CASE UNCHANGED last
  BY <1>1, <1>2 DEF Marked, NoEarlierText
<1>3. CASE Submitted(<< >>)
  <2>1. last'.texts = << >>
    BY <1>3 DEF Submitted
  <2>2. DOMAIN last'.texts = {}
    BY <2>1
  <2> QED
    BY <2>2 DEF NoEarlierText
<1>4. CASE SubmitHot
  <2> DEFINE e == EncodedTexts(Top.args)
  <2>1. /\ last' = [id |-> Top.id, args |-> Top.args, texts |-> e]
        /\ NoText \notin ToSet(e) /\ stack # << >>
    BY <1>4 DEF SubmitHot, Submitted, InPhase
  <2>2. /\ Top.args \in ArgLists /\ Top = stack[Len(stack)]
        /\ Len(stack) \in DOMAIN stack
    BY <1>1, <2>1, TopFacts
  <2>3. /\ DOMAIN e = 1 .. TextCount(Top.args)
        /\ \A j \in DOMAIN e :
             e[j] = IF readIdx + j \in DOMAIN stash THEN stash[readIdx + j] ELSE NoText
    BY <1>1, <2>2, EncodedFacts
  <2>4. last'.texts = e /\ last'.id = Top.id
    BY <2>1
  <2> HIDE DEF e
  <2>5. \A j \in DOMAIN e : e[j] # NoText
    BY <2>1 DEF ToSet
  <2>6. \A j \in DOMAIN e : readIdx + j \in DOMAIN stash /\ e[j] = stash[readIdx + j]
    BY <2>3, <2>5
  <2>7. Top.args = << >> => DOMAIN e = {}
    BY <2>3, NoArgs
  <2>8. PanicsEnd /\ Top.args # << >> => \A k \in DOMAIN stash : stash[k].call >= Top.id
    BY <2>2 DEF Marked, StashIsMarked
  <2>9. PanicsEnd => \A j \in DOMAIN e : e[j].call >= Top.id
    BY <2>6, <2>7, <2>8
  <2> QED
    BY <1>1, <2>4, <2>9 DEF NoEarlierText, PanicsEnd
<1> QED
  BY <1>2, <1>3, <1>4
     DEF Next, EnterHot, EnterHotPlain, ArgsEvaluated, SizePod, StashBegin, StashEnd,
         AllSized, EncodePanics, RefuseHot, SubmitReentrant, EnterBridge, SubmitBridge,
         CallerPanics, LeaveArgs, Build, Stop, history, vars

LEMMA MarkedHolds == Spec => []Marked
<1>1. Init => Marked
  <2> SUFFICES ASSUME Init PROVE Marked
    OBVIOUS
  <2>1. /\ stack = << >> /\ stash = << >> /\ DOMAIN stack = {}
        /\ last.texts = << >> /\ DOMAIN last.texts = {}
    BY DEF Init, NoRecord
  <2>2. ~BufBorrowed
    BY <2>1 DEF BufBorrowed, SomeIn
  <2> QED
    BY <2>1, <2>2, InitFramed DEF Marked, StashIsMarked, NoEarlierText
<1>2. Marked /\ [Next]_vars => Marked'
  BY NextFramed, NextStashMarked, NextNoEarlier DEF Marked
<1> QED
  BY <1>1, <1>2, PTL DEF Spec

(* pod.rs 332-341: the clear at the start of a call keeps the texts of     *)
(* earlier calls out of a record, whatever was refused or has panicked.    *)
THEOREM NothingOfEarlierCalls == Spec => []NoEarlierText
  BY MarkedHolds, PTL DEF Marked

-----------------------------------------------------------------------------
(* With careful callers the unread texts are those of the innermost call.  *)

InCare == Careful /\ alive /\ logger # "stopped"

Balanced == Marked /\ StashIsBalanced

LEMMA CareFacts ==
  ASSUME Careful
  PROVE  PanicsEnd /\ ~setting.drop /\ setting.caught # "inside"
  BY DEF Careful, PanicsEnd

LEMMA SettingStays ==
  ASSUME [Next]_vars
  PROVE  UNCHANGED setting
  BY DEF Next, EnterHot, EnterHotPlain, ArgsEvaluated, SizePod, StashBegin,
     StashEnd, AllSized, SubmitHot, EncodePanics, RefuseHot, SubmitReentrant,
     EnterBridge, SubmitBridge, CallerPanics, LeaveArgs, Build, Stop, vars

(* All calls end. *)
LEMMA NoneBalanced ==
  ASSUME stack' = << >>, InCare' => dirty' \/ readIdx' = 0
  PROVE  StashIsBalanced'
<1>1. DOMAIN stack' = {}
  OBVIOUS
<1> QED
  BY <1>1 DEF StashIsBalanced, InCare

(* A call without arguments ends, or starts. *)
LEMMA PlainBalanced ==
  ASSUME Balanced, UNCHANGED << dirty, stash, readIdx >>, InCare' => InCare,
         \A i \in DOMAIN stack' : stack'[i].args # << >> =>
           i \in DOMAIN stack /\ stack'[i] = stack[i],
         \A i \in DOMAIN stack : stack[i].args # << >> =>
           i \in DOMAIN stack' /\ stack'[i] = stack[i]
  PROVE  StashIsBalanced'
<1> SUFFICES ASSUME InCare'
             PROVE  /\ dirty' \/ readIdx' = 0
                    /\ \A i, j \in DOMAIN stack' :
                         i < j /\ stack'[i].args # << >> /\ stack'[j].args # << >>
                           => stack'[i].phase = "args"
                    /\ \A i \in DOMAIN stack' :
                         Innermost(i)' => UnreadAreOf(stack'[i], stash', readIdx')
  BY DEF StashIsBalanced, InCare
<1>1. /\ dirty \/ readIdx = 0
      /\ \A i, j \in DOMAIN stack :
           i < j /\ stack[i].args # << >> /\ stack[j].args # << >>
             => stack[i].phase = "args"
      /\ \A i \in DOMAIN stack : Innermost(i) => UnreadAreOf(stack[i], stash, readIdx)
  BY DEF Balanced, StashIsBalanced, InCare
<1>2. \A i \in DOMAIN stack' : Innermost(i)' =>
        i \in DOMAIN stack /\ stack'[i] = stack[i] /\ Innermost(i)
  BY DEF Innermost
<1>3. stash' = stash /\ readIdx' = readIdx
  OBVIOUS
<1>4. \A i, j \in DOMAIN stack' :
        i < j /\ stack'[i].args # << >> /\ stack'[j].args # << >>
          => stack'[i].phase = "args"
  BY <1>1
<1>5. \A i \in DOMAIN stack' : Innermost(i)' => UnreadAreOf(stack'[i], stash', readIdx')
  BY <1>1, <1>2, <1>3
<1> QED
  BY <1>1, <1>4, <1>5

LEMMA StartBalanced ==
  ASSUME Balanced, NEW kind, NEW args, NEW phase, Starts(kind, args, phase)
  PROVE  StashIsBalanced'
<1>1. Framed /\ Marked /\ alive /\ MayCall /\ UNCHANGED << setting, logger, alive >>
  BY DEF Balanced, Marked, Starts, MayCall
<1>2. InCare' => InCare
  BY <1>1 DEF InCare, Careful
<1>3. CASE phase # "args"
  <2>1. args = << >> /\ UNCHANGED << dirty, stash, readIdx >>
    BY <1>3 DEF Starts
  <2>2. \A i \in DOMAIN stack' : stack'[i].args # << >> =>
           i \in DOMAIN stack /\ stack'[i] = stack[i]
    BY <1>1, <2>1, StartsFacts
  <2>3. \A i \in DOMAIN stack : i \in DOMAIN stack' /\ stack'[i] = stack[i]
    BY <1>1, StartsFacts
  <2> QED
    BY <1>2, <2>1, <2>2, <2>3, PlainBalanced
<1>4. CASE phase = "args"
  <2> SUFFICES ASSUME InCare'
               PROVE  /\ dirty' \/ readIdx' = 0
                      /\ \A i, j \in DOMAIN stack' :
                           i < j /\ stack'[i].args # << >> /\ stack'[j].args # << >>
                             => stack'[i].phase = "args"
                      /\ \A i \in DOMAIN stack' :
                           Innermost(i)' => UnreadAreOf(stack'[i], stash', readIdx')
    BY DEF StashIsBalanced, InCare
  <2>1. args # << >> /\ ~(dirty /\ BufBorrowed) /\ Clear
    BY <1>4 DEF Starts
  <2>2. PanicsEnd /\ alive
    BY <1>1, <1>2, CareFacts DEF InCare
  <2>3. stash' = << >> /\ readIdx' = 0
    <3>1. dirty => stash' = << >> /\ readIdx' = 0
      BY <2>1 DEF Clear
    <3>2. ~dirty => stash' = stash /\ readIdx' = readIdx
      BY <2>1 DEF Clear
    <3>3. ~dirty => stash = << >> /\ readIdx = 0
      BY <1>2, <2>2 DEF Balanced, Marked, StashIsMarked, StashIsBalanced, InCare
    <3> QED
      BY <3>1, <3>2, <3>3
  <2>4. ~BufBorrowed
    BY <1>1, <2>1, <2>2 DEF Marked, StashIsMarked
  <2>5. \A i \in DOMAIN stack : stack[i].args # << >> => stack[i].phase = "args"
    <3> SUFFICES ASSUME NEW i \in DOMAIN stack, stack[i].args # << >>
                 PROVE  stack[i].phase = "args"
      OBVIOUS
    <3>1. stack[i].phase # "fmt"
      BY <2>4 DEF BufBorrowed, SomeIn
    <3>2. stack[i].phase # "format"
      BY <1>1 DEF Framed, FrameAt
    <3>3. CASE i # Len(stack)
      BY <1>1, <3>1, <3>2, <3>3 DEF Framed, FrameAt
    <3>4. CASE i = Len(stack)
      <4>1. stack # << >>
        OBVIOUS
      <4> QED
        BY <1>1, <3>1, <3>2, <3>4, <4>1 DEF MayCall, InPhase, Top
    <3> QED
      BY <3>3, <3>4
  <2>6. \A i, j \in DOMAIN stack' :
          i < j /\ stack'[i].args # << >> /\ stack'[j].args # << >>
            => stack'[i].phase = "args"
    <3> SUFFICES ASSUME NEW i \in DOMAIN stack', NEW j \in DOMAIN stack', i < j,
                        stack'[i].args # << >>
                 PROVE  stack'[i].phase = "args"
      OBVIOUS
    <3>1. i = Len(stack) + 1 \/ (i \in DOMAIN stack /\ stack'[i] = stack[i])
      BY <1>1, StartsFacts
    <3> QED
      BY <1>1, <1>4, <2>5, <3>1, StartsFacts
  <2>7. ASSUME NEW i \in DOMAIN stack', Innermost(i)'
        PROVE  UnreadAreOf(stack'[i], stash', readIdx')
    <3>1. i = Len(stack) + 1
      <4>1. Len(stack) + 1 \in DOMAIN stack' /\ stack'[Len(stack) + 1].args # << >>
        BY <1>1, <2>1, StartsFacts
      <4>2. ~(i < Len(stack) + 1)
        BY <2>7, <4>1 DEF Innermost
      <4> QED
        BY <1>1, <4>2, StartsFacts
    <3>2. stack'[i].phase = "args"
      BY <1>1, <1>4, <3>1, StartsFacts
    <3>3. TextsSoFar(stack'[i]) = {}
      BY <3>2 DEF TextsSoFar
    <3>4. Cardinality(TextsSoFar(stack'[i])) = 0
      BY <3>3, FS_EmptySet
    <3>5. Len(stash') = 0 + 0
      BY <2>3
    <3> QED
      BY <2>3, <3>4, <3>5 DEF UnreadAreOf
  <2> QED
    BY <2>3, <2>6, <2>7
<1> QED
  BY <1>3, <1>4

LEMMA FailsBalanced ==
  ASSUME Balanced, FailsAtStart
  PROVE  StashIsBalanced'
<1> SUFFICES ASSUME InCare' PROVE StashIsBalanced'
  BY DEF StashIsBalanced, InCare
<1>1. /\ MayCall /\ alive /\ Panicked /\ Framed
      /\ UNCHANGED << setting, logger, readIdx >>
  BY DEF FailsAtStart, MayCall, Balanced, Marked
<1>2. InCare /\ PanicsEnd /\ setting.caught # "inside"
  BY <1>1, CareFacts DEF InCare, Careful
<1>3. stack' = << >>
  BY <1>1, <1>2 DEF Panicked
<1>4. CASE UNCHANGED dirty
  <2>1. dirty \/ readIdx = 0
    BY <1>2 DEF Balanced, StashIsBalanced, InCare
  <2> QED
    BY <1>1, <1>3, <1>4, <2>1, NoneBalanced
<1>5. CASE dirty /\ BufBorrowed
  <2>1. ~alive'
    BY <1>1, <1>2, <1>5, BorrowedByNesting DEF PanicsEnd, Panicked
  <2> QED
    BY <2>1 DEF InCare
<1> QED
  BY <1>4, <1>5 DEF FailsAtStart

(* What the innermost call is about to encode. *)
LEMMA SubmitFinds ==
  ASSUME Balanced, InCare, InPhase("submit")
  PROVE  LET n == TextCount(Top.args) IN
         /\ n \in Nat /\ Len(EncodedTexts(Top.args)) = n
         /\ DOMAIN EncodedTexts(Top.args) = 1 .. n
         /\ \A j \in 1 .. n : Fits(j)
         /\ Top.args # << >> => Len(stash) = readIdx + n
<1>1. stack # << >> /\ Top.phase = "submit" /\ Framed /\ TypeOK
  BY DEF InPhase, Balanced, Marked, Framed
<1>2. /\ Top = stack[Len(stack)] /\ Len(stack) \in DOMAIN stack
      /\ Top.args \in ArgLists /\ DOMAIN stack = 1 .. Len(stack) /\ Len(stack) \in Nat
  BY <1>1, TopFacts
<1> DEFINE n == TextCount(Top.args)
           e == EncodedTexts(Top.args)
<1>3. /\ n \in Nat /\ Len(e) = n /\ DOMAIN e = 1 .. n
      /\ \A j \in 1 .. n :
           e[j] = IF readIdx + j \in DOMAIN stash THEN stash[readIdx + j] ELSE NoText
  BY <1>1, <1>2, EncodedFacts
<1>4. CASE Top.args = << >>
  BY <1>3, <1>4, NoArgs
<1>5. CASE Top.args # << >>
  <2>1. Innermost(Len(stack))
    BY <1>2, <1>5 DEF Innermost
  <2>2. UnreadAreOf(Top, stash, readIdx)
    BY <1>2, <2>1 DEF Balanced, StashIsBalanced, InCare
  <2>3. Cardinality(TextsSoFar(Top)) = n
    BY <1>1 DEF TextsSoFar, TextCount
  <2>4. /\ Len(stash) = readIdx + n
        /\ \A j \in 1 .. n :
             stash[readIdx + j] = [call |-> Top.id, arg |-> ArgOfText(Top.args, j)]
    BY <2>2, <2>3 DEF UnreadAreOf
  <2>5. readIdx \in Nat /\ stash \in Seq(Text)
    BY <1>1, FramedTypes DEF LocalTypes
  <2> HIDE DEF n, e
  <2>6. \A j \in 1 .. n : readIdx + j \in DOMAIN stash
    BY <1>3, <2>4, <2>5
  <2>7. \A j \in 1 .. n : e[j] = [call |-> Top.id, arg |-> ArgOfText(Top.args, j)]
    BY <1>3, <2>4, <2>6
  <2> QED
    BY <1>3, <2>4, <2>7 DEF Fits, e, n
<1> QED
  BY <1>4, <1>5

(* A careful caller's encode closure does not panic. *)
LEMMA NoEncodePanic ==
  ASSUME Balanced, InCare
  PROVE  ~EncodePanics
<1> SUFFICES ASSUME EncodePanics PROVE FALSE
  OBVIOUS
<1>1. InPhase("submit") /\ \E j \in 1 .. TextCount(Top.args) : ~Fits(j)
  BY DEF EncodePanics
<1> QED
  BY <1>1, SubmitFinds

(* The innermost call ends and leaves no text of its own unread. *)
LEMMA InnermostEnds ==
  ASSUME Balanced, alive, stack # << >>, stack' = Front(stack),
         UNCHANGED << setting, logger, dirty, stash >>, InCare' => InCare,
         readIdx' \in Nat, Top.args = << >> => readIdx' = readIdx,
         Top.args # << >> /\ InCare => Len(stash) = readIdx'
  PROVE  StashIsBalanced'
<1>1. Framed /\ TypeOK
  BY DEF Balanced, Marked, Framed
<1>2. /\ Top = stack[Len(stack)] /\ Len(stack) \in DOMAIN stack
      /\ Top.args \in ArgLists /\ DOMAIN stack = 1 .. Len(stack) /\ Len(stack) \in Nat
  BY <1>1, TopFacts
<1>3. /\ Cut(Len(stack) - 1) /\ Len(stack') = Len(stack) - 1
      /\ DOMAIN stack' = 1 .. Len(stack) - 1
      /\ \A i \in 1 .. Len(stack) - 1 : i \in DOMAIN stack /\ stack'[i] = stack[i]
  <2>1. Cut(Len(stack) - 1) /\ Len(stack') = Len(stack) - 1
    BY <1>1, FrontIsCut
  <2>2. DOMAIN stack' = 1 .. Len(stack) - 1
    BY <2>1 DEF Cut
  <2> QED
    BY <2>1, <2>2 DEF Cut
<1>4. CASE Top.args = << >>
  <2>1. \A i \in DOMAIN stack : stack[i].args # << >> => i \in DOMAIN stack'
    BY <1>2, <1>3, <1>4
  <2>2. /\ \A i \in DOMAIN stack' : stack'[i].args # << >> =>
             i \in DOMAIN stack /\ stack'[i] = stack[i]
        /\ \A i \in DOMAIN stack : stack[i].args # << >> =>
             i \in DOMAIN stack' /\ stack'[i] = stack[i]
    BY <1>3, <2>1
  <2> QED
    BY <1>4, <2>2, PlainBalanced
<1>5. CASE Top.args # << >>
  <2> SUFFICES ASSUME InCare'
               PROVE  /\ dirty' \/ readIdx' = 0
                      /\ \A i, j \in DOMAIN stack' :
                           i < j /\ stack'[i].args # << >> /\ stack'[j].args # << >>
                             => stack'[i].phase = "args"
                      /\ \A i \in DOMAIN stack' :
                           Innermost(i)' => UnreadAreOf(stack'[i], stash', readIdx')
    BY DEF StashIsBalanced, InCare
  <2>1. InCare /\ Len(stash') = readIdx' /\ Len(stash') = readIdx' + 0
    <3>1. InCare /\ stash' = stash
      OBVIOUS
    <3>2. Len(stash) = readIdx'
      BY <1>5, <3>1
    <3>3. Len(stash') = readIdx'
      BY <3>1, <3>2
    <3>4. \A n \in Nat : n + 0 = n
      OBVIOUS
    <3>5. readIdx' + 0 = readIdx'
      BY <3>4
    <3> QED
      BY <3>1, <3>3, <3>5, Zenon
  <2>2. dirty' \/ readIdx' = 0
    <3>1. dirty \/ stash = << >>
      BY <2>1, CareFacts DEF Balanced, Marked, StashIsMarked, InCare
    <3>2. stash = << >> => readIdx' = 0
      BY <2>1
    <3> QED
      BY <3>1, <3>2
  <2>3. \A i, j \in DOMAIN stack :
          i < j /\ stack[i].args # << >> /\ stack[j].args # << >>
            => stack[i].phase = "args"
    BY DEF Balanced, StashIsBalanced, InCare
  <2>4. \A i, j \in DOMAIN stack' :
          i < j /\ stack'[i].args # << >> /\ stack'[j].args # << >>
            => stack'[i].phase = "args"
    BY <1>3, <2>3
  <2>5. ASSUME NEW i \in DOMAIN stack', Innermost(i)'
        PROVE  UnreadAreOf(stack'[i], stash', readIdx')
    <3>1. /\ i \in DOMAIN stack /\ i < Len(stack) /\ stack'[i] = stack[i]
          /\ stack'[i].args # << >>
      BY <1>2, <1>3, <2>5 DEF Innermost
    <3>2. stack'[i].phase = "args"
      BY <1>2, <1>5, <2>3, <3>1
    <3>3. Cardinality(TextsSoFar(stack'[i])) = 0
      BY <3>2, FS_EmptySet DEF TextsSoFar
    <3>4. Len(stash') = readIdx' + 0
      BY <2>1
    <3> QED
      BY <3>3, <3>4 DEF UnreadAreOf
  <2> QED
    BY <2>2, <2>4, <2>5
<1> QED
  BY <1>4, <1>5

LEMMA SubmitBalanced ==
  ASSUME Balanced, SubmitHot
  PROVE  StashIsBalanced' /\ CarefulOwnTexts'
<1>1. /\ stack # << >> /\ Framed /\ TypeOK /\ InPhase("submit") /\ alive
      /\ UNCHANGED << setting, logger, alive, made, dirty, stash >>
      /\ readIdx' = readIdx + TextCount(Top.args) /\ stack' = Front(stack)
      /\ last' = [id |-> Top.id, args |-> Top.args, texts |-> EncodedTexts(Top.args)]
      /\ logger # "stopped"
  BY DEF SubmitHot, Submitted, InPhase, Balanced, Marked, StashIsMarked, Framed, Running
<1>2. Careful' = Careful /\ (InCare' => InCare) /\ (Careful => InCare)
  BY <1>1 DEF InCare, Careful
<1>3. CarefulOwnTexts'
  <2>1. last'.id = Top.id /\ last'.args = Top.args /\ last'.texts = EncodedTexts(Top.args)
    BY <1>1
  <2>2. Careful => OwnTexts'
    BY <1>1, <1>2, <2>1, SubmitFinds DEF OwnTexts, Fits
  <2> QED
    BY <1>2, <2>2 DEF CarefulOwnTexts
<1>4. /\ readIdx \in Nat /\ Top.args \in ArgLists /\ TextCount(Top.args) \in Nat
      /\ readIdx' \in Nat
  BY <1>1, FramedTypes, TopFacts, CountFacts DEF LocalTypes
<1>5. Top.args = << >> => readIdx' = readIdx
  BY <1>1, <1>4, NoArgs
<1>6. Top.args # << >> /\ InCare => Len(stash) = readIdx'
  BY <1>1, SubmitFinds
<1> QED
  BY <1>1, <1>2, <1>3, <1>4, <1>5, <1>6, InnermostEnds

LEMMA EndBalanced ==
  ASSUME Balanced, End
  PROVE  StashIsBalanced'
<1> SUFFICES ASSUME InCare' PROVE StashIsBalanced'
  BY DEF StashIsBalanced, InCare
<1>1. Framed /\ TypeOK /\ Ends /\ alive /\ stack # << >>
      /\ UNCHANGED << setting, logger, dirty, stash, readIdx >>
  <2>1. Framed /\ TypeOK
    BY DEF Balanced, Marked, Framed
  <2>2. Ends
    BY <2>1, ReturnFacts, PanicFacts DEF End
  <2> QED
    BY <2>1, <2>2 DEF Ends, Balanced, Marked, StashIsMarked
<1>2. InCare /\ setting.caught # "inside" /\ ~setting.drop /\ Running
  <2>1. InCare /\ setting.caught # "inside" /\ ~setting.drop /\ ~setting.early
    BY <1>1, CareFacts DEF InCare, Careful
  <2>2. logger # "none" /\ logger # "stopped"
    BY <1>1, <2>1 DEF InCare, Balanced, Marked, StashIsMarked
  <2> QED
    BY <1>1, <2>1, <2>2 DEF TypeOK, Running
<1>3. CASE RefuseHot
  BY <1>2, <1>3 DEF RefuseHot
<1>4. CASE SubmitReentrant \/ CallerPanics
  <2>1. stack' = << >>
    BY <1>1, <1>2, <1>4, PanicFacts DEF Panicked
  <2>2. dirty \/ readIdx = 0
    BY <1>2 DEF Balanced, StashIsBalanced, InCare
  <2> QED
    BY <1>1, <2>1, <2>2, NoneBalanced
<1>5. CASE SubmitBridge
  <2>1. /\ Top = stack[Len(stack)] /\ Len(stack) \in DOMAIN stack
        /\ DOMAIN stack = 1 .. Len(stack) /\ Len(stack) \in Nat
    BY <1>1, TopFacts
  <2>2. Top.args = << >>
    BY <1>1, <1>5, <2>1 DEF SubmitBridge, InPhase, Framed, FrameAt
  <2>3. stack' = Front(stack)
    BY <1>5 DEF SubmitBridge
  <2>4. Cut(Len(stack) - 1) /\ Len(stack') = Len(stack) - 1
    BY <1>1, <2>3, FrontIsCut
  <2>5. DOMAIN stack' = 1 .. Len(stack) - 1
    BY <2>4 DEF Cut
  <2>6. \A i \in DOMAIN stack : stack[i].args # << >> => i \in DOMAIN stack'
    BY <2>1, <2>2, <2>5
  <2>7. /\ \A i \in DOMAIN stack' : i \in DOMAIN stack /\ stack'[i] = stack[i]
        /\ \A i \in DOMAIN stack : stack[i].args # << >> =>
             i \in DOMAIN stack' /\ stack'[i] = stack[i]
    BY <2>4, <2>6 DEF Cut
  <2> QED
    BY <1>1, <1>2, <2>7, PlainBalanced
<1>6. CASE LeaveArgs
  <2>1. Top.phase = "args" /\ stack' = Front(stack)
    BY <1>6 DEF LeaveArgs, InPhase
  <2>2. readIdx \in Nat /\ readIdx' \in Nat /\ readIdx' = readIdx
    BY <1>1, FramedTypes DEF LocalTypes
  <2>3. ASSUME Top.args # << >>
        PROVE  Len(stash) = readIdx'
    <3>1. /\ Top = stack[Len(stack)] /\ Len(stack) \in DOMAIN stack
          /\ DOMAIN stack = 1 .. Len(stack) /\ Len(stack) \in Nat
      BY <1>1, TopFacts
    <3>2. Innermost(Len(stack))
      BY <2>3, <3>1 DEF Innermost
    <3>3. UnreadAreOf(Top, stash, readIdx)
      BY <1>2, <3>1, <3>2 DEF Balanced, StashIsBalanced, InCare
    <3>4. Cardinality(TextsSoFar(Top)) = 0
      BY <2>1, FS_EmptySet DEF TextsSoFar
    <3> QED
      BY <2>2, <3>3, <3>4 DEF UnreadAreOf
  <2> QED
    BY <1>1, <1>2, <2>1, <2>2, <2>3, InnermostEnds
<1> QED
  BY <1>3, <1>4, <1>5, <1>6 DEF End

(* Only StashStarts adds a text to those of the innermost call. *)
LEMMA TextsStay ==
  ASSUME Framed, stack # << >>, NEW f, f.args = Top.args,
         \/ ArgsEvaluated /\ f.phase = "stash" /\ f.at = 1
         \/ SizePod /\ f.phase = "stash" /\ f.at = Top.at + 1
         \/ StashEnd /\ f.phase = "stash" /\ f.at = Top.at + 1
         \/ AllSized /\ f.phase = "submit"
  PROVE  TextsSoFar(f) = TextsSoFar(Top)
<1>1. /\ Top.args \in ArgLists /\ Top.at \in Nat \ {0}
  BY TopFacts, BoundsAssumption DEF Framed
<1>2. Top.at + 1 - 1 = Top.at /\ 1 - 1 = 0
  BY <1>1
<1>3. CASE ArgsEvaluated /\ f.phase = "stash" /\ f.at = 1
  <2>1. Top.phase = "args"
    BY <1>3 DEF ArgsEvaluated, InPhase
  <2> QED
    BY <1>1, <1>2, <1>3, <2>1, UpToFacts DEF TextsSoFar
<1>4. CASE SizePod /\ f.phase = "stash" /\ f.at = Top.at + 1
  <2>1. Top.phase = "stash" /\ Top.at \in DOMAIN Top.args \ Stashed(Top.args)
    BY <1>4 DEF SizePod, InPhase, Stashed
  <2>2. UpTo(Top.args, Top.at) = UpTo(Top.args, Top.at - 1)
    BY <1>1, <2>1, UpToFacts
  <2>3. f.at - 1 = Top.at
    BY <1>1, <1>4
  <2> QED
    BY <1>4, <2>1, <2>2, <2>3 DEF TextsSoFar
<1>5. CASE StashEnd /\ f.phase = "stash" /\ f.at = Top.at + 1
  <2>1. Top.phase = "fmt"
    BY <1>5 DEF StashEnd, InPhase
  <2>2. f.at - 1 = Top.at
    BY <1>1, <1>5
  <2> QED
    BY <1>5, <2>1, <2>2 DEF TextsSoFar
<1>6. CASE AllSized /\ f.phase = "submit"
  <2>1. Top.phase = "stash" /\ Top.at = Len(Top.args) + 1
    BY <1>6 DEF AllSized, InPhase
  <2>2. Len(Top.args) \in Nat /\ Len(Top.args) + 1 - 1 = Len(Top.args)
    BY <1>1, ArgListFacts
  <2>3. UpTo(Top.args, Len(Top.args)) = Stashed(Top.args)
    BY <1>1, UpToFacts
  <2> QED
    BY <1>6, <2>1, <2>2, <2>3 DEF TextsSoFar
<1> QED
  BY <1>3, <1>4, <1>5, <1>6

LEMMA TextAdded ==
  ASSUME Framed, StashStarts, NEW f, f.args = Top.args, f.phase = "fmt", f.at = Top.at
  PROVE  LET m == Cardinality(TextsSoFar(Top)) IN
         /\ m \in Nat /\ Cardinality(TextsSoFar(f)) = m + 1
         /\ ArgOfText(Top.args, m + 1) = Top.at
<1>1. /\ stack # << >> /\ Top.phase = "stash" /\ Top.at \in Stashed(Top.args)
  BY DEF StashStarts, StashBegin, AtStashed, PushOffset, InPhase, Stashed
<1>2. Top.args \in ArgLists /\ Top.at \in Nat \ {0}
  BY <1>1, TopFacts, BoundsAssumption DEF Framed
<1>3. Cardinality(TextsSoFar(Top)) = Rank(Top.args, Top.at - 1)
  BY <1>1 DEF TextsSoFar, Rank
<1>4. Cardinality(TextsSoFar(f)) = Rank(Top.args, Top.at)
  BY DEF TextsSoFar, Rank
<1>5. /\ Rank(Top.args, Top.at - 1) \in Nat
      /\ Rank(Top.args, Top.at) = Rank(Top.args, Top.at - 1) + 1
  <2>1. Top.at - 1 \in Nat
    BY <1>2
  <2> QED
    BY <1>1, <1>2, <2>1, UpToFacts
<1>6. ArgOfText(Top.args, Rank(Top.args, Top.at)) = Top.at
  BY <1>1, <1>2, ArgOfItsRank
<1> QED
  BY <1>3, <1>4, <1>5, <1>6

LEMMA GoOnBalanced ==
  ASSUME Balanced, GoOn
  PROVE  StashIsBalanced'
<1>1. Framed /\ TypeOK
  BY DEF Balanced, Marked, Framed
<1>2. PICK ph, n :
        /\ GoesTo(ph, n)
        /\ StashStarts => ph = "fmt" /\ n = Top.at
        /\ ~StashStarts =>
             \/ ArgsEvaluated /\ ph = "stash" /\ n = 1
             \/ SizePod /\ ph = "stash" /\ n = Top.at + 1
             \/ StashEnd /\ ph = "stash" /\ n = Top.at + 1
             \/ AllSized /\ ph = "submit"
  <2>1. CASE StashStarts
    BY <1>1, <2>1, NextPhase
  <2>2. CASE ~StashStarts
    BY <1>1, <2>2, NextPhase DEF GoOn
  <2> QED
    BY <2>1, <2>2
<1>3. /\ stack # << >> /\ alive
      /\ UNCHANGED << setting, logger, alive, readIdx >>
  BY <1>2 DEF GoesTo, Balanced, Marked, StashIsMarked
<1> DEFINE new == stack'[Len(stack)]
<1>4. /\ DOMAIN stack' = DOMAIN stack /\ Len(stack) \in DOMAIN stack
      /\ Top = stack[Len(stack)]
      /\ \A i \in DOMAIN stack : i # Len(stack) => stack'[i] = stack[i]
      /\ new.id = Top.id /\ new.args = Top.args /\ new.phase = ph /\ new.at = n
  BY <1>1, <1>2, GoesToFacts
<1>5. /\ Top.args \in ArgLists /\ DOMAIN stack = 1 .. Len(stack) /\ Len(stack) \in Nat
      /\ Top.at \in Nat \ {0} /\ stash \in Seq(Text) /\ readIdx \in Nat
  BY <1>1, <1>3, TopFacts, FramedTypes, BoundsAssumption DEF LocalTypes
<1> HIDE DEF new
<1> SUFFICES ASSUME InCare'
             PROVE  /\ dirty' \/ readIdx' = 0
                    /\ \A i, j \in DOMAIN stack' :
                         i < j /\ stack'[i].args # << >> /\ stack'[j].args # << >>
                           => stack'[i].phase = "args"
                    /\ \A i \in DOMAIN stack' :
                         Innermost(i)' => UnreadAreOf(stack'[i], stash', readIdx')
  BY DEF StashIsBalanced, InCare
<1>6. InCare
  BY <1>3 DEF InCare, Careful
<1>7. /\ dirty \/ readIdx = 0
      /\ \A i, j \in DOMAIN stack :
           i < j /\ stack[i].args # << >> /\ stack[j].args # << >>
             => stack[i].phase = "args"
      /\ \A i \in DOMAIN stack : Innermost(i) => UnreadAreOf(stack[i], stash, readIdx)
  BY <1>6 DEF Balanced, StashIsBalanced, InCare
<1>8. \A i \in DOMAIN stack : stack'[i].args = stack[i].args
  BY <1>4 DEF new
<1>9. StashStarts \/ UNCHANGED << dirty, stash >>
  BY DEF GoOn, ArgsEvaluated, SizePod, StashEnd, AllSized, stashed
<1>10. dirty' \/ readIdx' = 0
  <2>1. CASE StashStarts
    <3>1. dirty' = TRUE
      BY <2>1 DEF StashStarts, StashBegin, AtStashed, PushOffset
    <3> QED
      BY <3>1
  <2>2. CASE UNCHANGED << dirty, stash >>
    BY <1>3, <1>7, <2>2
  <2> QED
    BY <1>9, <2>1, <2>2
<1>11. \A i, j \in DOMAIN stack' :
         i < j /\ stack'[i].args # << >> /\ stack'[j].args # << >>
           => stack'[i].phase = "args"
  <2> SUFFICES ASSUME NEW i \in DOMAIN stack, NEW j \in DOMAIN stack, i < j,
                      stack'[i].args # << >>, stack'[j].args # << >>
               PROVE  stack'[i].phase = "args"
    BY <1>4
  <2>1. i # Len(stack)
    BY <1>5
  <2> QED
    BY <1>4, <1>7, <1>8, <2>1
<1>12. ASSUME NEW i \in DOMAIN stack', Innermost(i)'
       PROVE  UnreadAreOf(stack'[i], stash', readIdx')
  <2>1. i \in DOMAIN stack /\ Innermost(i)
    BY <1>4, <1>8, <1>12 DEF Innermost
  <2>2. UnreadAreOf(stack[i], stash, readIdx)
    BY <1>7, <2>1
  <2>3. CASE i # Len(stack)
    <3>1. Top.args = << >>
      BY <1>4, <1>5, <2>1, <2>3 DEF Innermost
    <3>2. ~StashStarts
      <4>1. DOMAIN Top.args = {}
        BY <3>1
      <4> QED
        BY <4>1 DEF StashStarts, StashBegin, AtStashed, PushOffset
    <3>3. stack'[i] = stack[i] /\ UNCHANGED << stash, readIdx >>
      BY <1>3, <1>4, <1>9, <2>1, <2>3, <3>2
    <3> QED
      BY <2>2, <3>3
  <2>4. CASE i = Len(stack)
    <3> DEFINE m == Cardinality(TextsSoFar(Top))
    <3>1. /\ Len(stash) = readIdx + m
          /\ \A j \in 1 .. m :
               stash[readIdx + j] = [call |-> Top.id, arg |-> ArgOfText(Top.args, j)]
      BY <1>4, <2>2, <2>4 DEF UnreadAreOf
    <3>2. CASE ~StashStarts
      <4>1. TextsSoFar(new) = TextsSoFar(Top)
        BY <1>1, <1>2, <1>3, <1>4, <3>2, TextsStay
      <4>2. UNCHANGED << stash, readIdx >>
        BY <1>3, <1>9, <3>2
      <4>3. UnreadAreOf(new, stash', readIdx')
        BY <1>4, <3>1, <4>1, <4>2 DEF UnreadAreOf
      <4> QED
        BY <2>4, <4>3 DEF new
    <3>3. CASE StashStarts
      <4>1. new.phase = "fmt" /\ new.at = Top.at
        BY <1>2, <1>4, <3>3
      <4>2. /\ m \in Nat /\ Cardinality(TextsSoFar(new)) = m + 1
            /\ ArgOfText(Top.args, m + 1) = Top.at
        BY <1>1, <1>4, <3>3, <4>1, TextAdded
      <4>3. stash' = Append(stash, [call |-> Top.id, arg |-> Top.at]) /\ readIdx' = readIdx
        BY <1>3, <3>3 DEF StashStarts, StashBegin, AtStashed, PushOffset
      <4> DEFINE e == [call |-> Top.id, arg |-> Top.at]
      <4> HIDE DEF e, m
      <4>4. /\ Len(stash') = readIdx' + (m + 1)
            /\ stash'[readIdx' + (m + 1)] = e
            /\ \A j \in 1 .. m : stash'[readIdx' + j] = stash[readIdx + j]
        <5>1. stash' = Append(stash, e)
          BY <4>3 DEF e
        <5>2. Len(stash) = readIdx + m /\ m \in Nat
          BY <3>1, <4>2
        <5> QED
          BY <1>5, <4>3, <5>1, <5>2
      <4>5. \A j \in 1 .. m + 1 :
              stash'[readIdx' + j] = [call |-> Top.id, arg |-> ArgOfText(Top.args, j)]
        <5> SUFFICES ASSUME NEW j \in 1 .. m + 1
                     PROVE  stash'[readIdx' + j] =
                              [call |-> Top.id, arg |-> ArgOfText(Top.args, j)]
          OBVIOUS
        <5>1. CASE j = m + 1
          BY <4>2, <4>4, <5>1 DEF e
        <5>2. CASE j \in 1 .. m
          BY <3>1, <4>4, <5>2
        <5> QED
          BY <4>2, <5>1, <5>2
      <4>6. UnreadAreOf(new, stash', readIdx')
        BY <1>4, <4>2, <4>4, <4>5 DEF UnreadAreOf
      <4> QED
        BY <2>4, <4>6 DEF new
    <3> QED
      BY <3>2, <3>3
  <2> QED
    BY <2>3, <2>4
<1> QED
  BY <1>4, <1>10, <1>11, <1>12

-----------------------------------------------------------------------------

Carefully == Balanced /\ CarefulOwnTexts /\ ClaimsAreCommitted

LEMMA NextBalanced ==
  ASSUME Balanced, [Next]_vars
  PROVE  StashIsBalanced'
<1>1. Framed
  BY DEF Balanced, Marked
<1>2. CASE Start
  BY <1>2, StartBalanced, FailsBalanced DEF Start
<1>3. CASE EncodePanics
  <2>1. /\ stack # << >> /\ alive /\ Panicked
        /\ UNCHANGED << setting, logger, dirty >>
    BY <1>1, <1>3, SubmitCuts DEF EncodePanics, Balanced, Marked, StashIsMarked
  <2>2. InCare' => InCare
    BY <2>1 DEF InCare, Careful
  <2>3. ~InCare'
    BY <1>3, <2>2, NoEncodePanic
  <2> QED
    BY <2>3 DEF StashIsBalanced, InCare
<1>4. CASE Elsewhere \/ UNCHANGED vars
  <2>1. UNCHANGED << setting, alive, stack, dirty, stash, readIdx >>
    BY <1>4 DEF Elsewhere, Build, Stop, stashed, vars
  <2>2. logger' # "stopped" => logger # "stopped"
    BY <1>4 DEF Elsewhere, Build, Stop, vars
  <2>3. InCare' => InCare
    BY <2>1, <2>2 DEF InCare, Careful
  <2> QED
    BY <2>1, <2>3, PlainBalanced
<1>5. CASE StashFails
  <2>1. Panicked /\ dirty' /\ UNCHANGED setting
    BY <1>1, <1>5, StashFailsFacts
  <2>2. Careful' => stack' = << >>
    BY <2>1 DEF Careful, Panicked
  <2> QED
    BY <2>1, <2>2, NoneBalanced DEF StashIsBalanced
<1> QED
  BY <1>1, <1>2, <1>3, <1>4, <1>5, StepCases, GoOnBalanced, SubmitBalanced, EndBalanced

LEMMA NextCareful ==
  ASSUME Carefully, [Next]_vars
  PROVE  CarefulOwnTexts' /\ ClaimsAreCommitted'
<1>1. Framed /\ Balanced /\ UNCHANGED setting
  BY SettingStays DEF Carefully, Balanced, Marked
<1>2. Careful' = Careful
  BY <1>1 DEF Careful
<1>3. CASE UNCHANGED << last, abandoned >>
  BY <1>2, <1>3 DEF Carefully, CarefulOwnTexts, OwnTexts, ClaimsAreCommitted
<1>4. CASE SubmitHot
  <2>1. UNCHANGED abandoned
    BY <1>4 DEF SubmitHot
  <2> QED
    BY <1>1, <1>2, <1>4, <2>1, SubmitBalanced DEF Carefully, ClaimsAreCommitted
<1>5. CASE SubmitBridge /\ Submitted(<< >>)
  <2>1. UNCHANGED abandoned /\ stack # << >> /\ Top.phase = "format"
    BY <1>5 DEF SubmitBridge, InPhase
  <2>2. Top.args = << >>
    BY <1>1, <2>1, TopFacts DEF Framed, FrameAt
  <2>3. last'.args = << >> /\ last'.texts = << >>
    BY <1>5, <2>2 DEF Submitted
  <2>4. Len(<< >>) = 0 /\ DOMAIN << >> = {}
    OBVIOUS
  <2>5. OwnTexts'
    BY <2>3, <2>4, NoArgs DEF OwnTexts
  <2> QED
    BY <1>2, <2>1, <2>5 DEF Carefully, CarefulOwnTexts, ClaimsAreCommitted
<1>6. CASE EncodePanics
  <2>1. UNCHANGED last /\ stack # << >> /\ alive /\ logger # "stopped"
    BY <1>1, <1>6 DEF EncodePanics, InPhase, Running, Balanced, Marked, StashIsMarked
  <2>2. ~Careful
    BY <1>1, <1>6, <2>1, NoEncodePanic DEF InCare
  <2> QED
    BY <1>2, <2>2 DEF CarefulOwnTexts, ClaimsAreCommitted
<1>7. CASE Start
  BY <1>3, <1>7 DEF Start, Starts, FailsAtStart
<1>8. CASE GoOn
  BY <1>3, <1>8
     DEF GoOn, ArgsEvaluated, SizePod, StashStarts, StashBegin, StashEnd, AllSized, history
<1>9. CASE End
  BY <1>1, <1>3, <1>5, <1>9, ReturnFacts, PanicFacts DEF End, Ends
<1>10. CASE Elsewhere \/ UNCHANGED vars
  BY <1>3, <1>10 DEF Elsewhere, Build, Stop, history, vars
<1>11. CASE StashFails
  BY <1>1, <1>3, <1>11, StashFailsFacts
<1> QED
  BY <1>1, <1>4, <1>6, <1>7, <1>8, <1>9, <1>10, <1>11, StepCases

LEMMA CarefullyHolds == Spec => []Carefully
<1>1. Init => StashIsBalanced /\ CarefulOwnTexts /\ ClaimsAreCommitted
  <2> SUFFICES ASSUME Init PROVE StashIsBalanced /\ CarefulOwnTexts /\ ClaimsAreCommitted
    OBVIOUS
  <2>1. DOMAIN stack = {} /\ readIdx = 0 /\ ~abandoned
    BY DEF Init
  <2>2. last.args = << >> /\ last.texts = << >> /\ Len(<< >>) = 0 /\ DOMAIN << >> = {}
    BY DEF Init, NoRecord
  <2>3. OwnTexts
    BY <2>2, NoArgs DEF OwnTexts
  <2> QED
    BY <2>1, <2>3 DEF StashIsBalanced, CarefulOwnTexts, ClaimsAreCommitted
<1>2. /\ Carefully /\ Marked /\ Marked' /\ [Next]_vars => Carefully'
  BY NextBalanced, NextCareful DEF Carefully, Balanced
<1>3. Init /\ Marked => Carefully
  BY <1>1 DEF Carefully, Balanced
<1> QED
  BY <1>2, <1>3, MarkedHolds, PTL DEF Spec

(* pod.rs 343-345: with careful callers a record carries the texts of its  *)
(* own arguments, in their order, whatever nests, panics, starts or stops. *)
THEOREM RecordsCarryOwnTexts == Spec => []CarefulOwnTexts
  BY CarefullyHolds, PTL DEF Carefully

(* logger.rs 247-250: with careful callers the encode closure finds what   *)
(* the claim was sized for, so every claim is committed.                   *)
THEOREM ClaimsGetCommitted == Spec => []ClaimsAreCommitted
  BY CarefullyHolds, PTL DEF Carefully

-----------------------------------------------------------------------------
(* A call above one whose Display or Debug runs has stashed nothing.       *)

StashHasOneUser ==
  \A i, j \in DOMAIN stack :
    i < j /\ stack[i].phase = "fmt" =>
      stack[j].phase # "fmt" /\ TextsSoFar(stack[j]) = {}

LEMMA CutOneStashUser ==
  ASSUME StashHasOneUser, NEW n, Cut(n)
  PROVE  StashHasOneUser'
<1> SUFFICES ASSUME NEW i \in DOMAIN stack', NEW j \in DOMAIN stack',
                    i < j, stack'[i].phase = "fmt"
             PROVE  stack'[j].phase # "fmt" /\ TextsSoFar(stack'[j]) = {}
  BY DEF StashHasOneUser, TextsSoFar
<1>1. /\ i \in DOMAIN stack /\ stack'[i] = stack[i]
      /\ j \in DOMAIN stack /\ stack'[j] = stack[j]
  BY DEF Cut
<1> QED
  BY <1>1 DEF StashHasOneUser

LEMMA StartsOneStashUser ==
  ASSUME Framed, StashHasOneUser,
         NEW kind, NEW args, NEW phase, Starts(kind, args, phase)
  PROVE  StashHasOneUser'
<1> SUFFICES ASSUME NEW i \in DOMAIN stack', NEW j \in DOMAIN stack',
                    i < j, stack'[i].phase = "fmt"
             PROVE  stack'[j].phase # "fmt" /\ TextsSoFar(stack'[j]) = {}
  BY DEF StashHasOneUser, TextsSoFar
<1>1. i \in DOMAIN stack /\ stack'[i] = stack[i]
  BY StartsFacts
<1>2. CASE j \in DOMAIN stack
  BY <1>1, <1>2, StartsFacts DEF StashHasOneUser
<1>3. CASE j = Len(stack) + 1
  <2>1. stack'[j].phase = phase /\ stack'[j].args = args
    BY <1>3, StartsFacts
  <2>2. phase # "fmt" /\ phase # "stash" /\ (phase = "args" \/ args = << >>)
    BY DEF Starts
  <2>3. TextsSoFar(stack'[j]) = {}
    BY <2>1, <2>2, NoArgs DEF TextsSoFar
  <2> QED
    BY <2>1, <2>2, <2>3
<1> QED
  BY <1>2, <1>3, StartsFacts

LEMMA GoOnOneStashUser ==
  ASSUME Framed, StashHasOneUser, GoOn
  PROVE  StashHasOneUser'
<1>1. PICK ph, n :
        /\ GoesTo(ph, n)
        /\ ~StashStarts =>
             \/ ArgsEvaluated /\ ph = "stash" /\ n = 1
             \/ SizePod /\ ph = "stash" /\ n = Top.at + 1
             \/ StashEnd /\ ph = "stash" /\ n = Top.at + 1
             \/ AllSized /\ ph = "submit"
  <2>1. CASE StashStarts
    BY <2>1, NextPhase
  <2>2. CASE ~StashStarts
    BY <2>2, NextPhase DEF GoOn
  <2> QED
    BY <2>1, <2>2
<1> DEFINE new == stack'[Len(stack)]
<1>2. /\ DOMAIN stack' = DOMAIN stack /\ Len(stack) \in DOMAIN stack
      /\ Top = stack[Len(stack)] /\ stack # << >>
      /\ \A i \in DOMAIN stack : i # Len(stack) => stack'[i] = stack[i]
      /\ new.args = Top.args /\ new.phase = ph /\ new.at = n
  BY <1>1, GoesToFacts, Zenon DEF GoesTo
<1>3. DOMAIN stack = 1 .. Len(stack) /\ Len(stack) \in Nat
  BY DEF Framed, TypeOK
<1> HIDE DEF new
<1> SUFFICES ASSUME NEW i \in DOMAIN stack, NEW j \in DOMAIN stack,
                    i < j, stack'[i].phase = "fmt"
             PROVE  stack'[j].phase # "fmt" /\ TextsSoFar(stack'[j]) = {}
  BY <1>2 DEF StashHasOneUser, TextsSoFar
<1>4. stack[i].phase = "fmt"
  BY <1>2, <1>3
<1>5. stack[j].phase # "fmt" /\ TextsSoFar(stack[j]) = {}
  BY <1>4 DEF StashHasOneUser
<1>6. CASE j # Len(stack)
  BY <1>2, <1>5, <1>6
<1>7. CASE j = Len(stack)
  <2>1. ~StashStarts
    BY <1>4 DEF StashStarts, BufBorrowed, SomeIn
  <2>2. ph # "fmt"
    BY <1>1, <2>1
  <2>3. TextsSoFar(new) = TextsSoFar(Top)
    BY <1>1, <1>2, <2>1, TextsStay
  <2> QED
    BY <1>2, <1>5, <1>7, <2>2, <2>3 DEF new
<1> QED
  BY <1>6, <1>7

LEMMA NextOneStashUser ==
  ASSUME Framed, StashHasOneUser, [Next]_vars
  PROVE  StashHasOneUser'
<1>1. ASSUME NEW n, Cut(n) PROVE StashHasOneUser'
  BY <1>1, CutOneStashUser
<1>2. CASE Start
  BY <1>1, <1>2, StartsOneStashUser DEF Start, FailsAtStart
<1>3. CASE GoOn
  BY <1>3, GoOnOneStashUser
<1>4. CASE StashFails \/ SubmitHot \/ EncodePanics \/ End
  BY <1>1, <1>4, StashFailsFacts, SubmitCuts, ReturnFacts, PanicFacts DEF Ends, End
<1>5. CASE Elsewhere \/ UNCHANGED vars
  <2>1. stack' = stack
    BY <1>5 DEF Elsewhere, Build, Stop, vars
  <2> QED
    BY <2>1 DEF StashHasOneUser, TextsSoFar
<1> QED
  BY <1>2, <1>3, <1>4, <1>5, StepCases

(* pod.rs 351: the encode closure never finds FALLBACK_BUF borrowed by a   *)
(* Display or Debug below it, whatever is caught, dropped or built early.  *)
THEOREM EncodeCanBorrow == Spec => []EncodeFindsBuffer
<1>1. Init => StashHasOneUser
  BY DEF Init, StashHasOneUser
<1>2. Framed /\ StashHasOneUser => EncodeFindsBuffer
  <2> SUFFICES ASSUME Framed, StashHasOneUser, InPhase("submit"), BufBorrowed
               PROVE  Stashed(Top.args) = {}
    BY DEF EncodeFindsBuffer
  <2>1. /\ stack # << >> /\ Top.phase = "submit" /\ Top = stack[Len(stack)]
        /\ Len(stack) \in DOMAIN stack /\ DOMAIN stack = 1 .. Len(stack)
        /\ Len(stack) \in Nat
    BY TopFacts DEF InPhase, Framed
  <2>2. PICK i \in DOMAIN stack : stack[i].phase = "fmt"
    BY DEF BufBorrowed, SomeIn
  <2>3. i < Len(stack)
    BY <2>1, <2>2
  <2>4. TextsSoFar(Top) = {}
    BY <2>1, <2>2, <2>3 DEF StashHasOneUser
  <2> QED
    BY <2>1, <2>4 DEF TextsSoFar
<1> QED
  BY <1>1, <1>2, FramedHolds, NextOneStashUser, PTL DEF Spec
=============================================================================
