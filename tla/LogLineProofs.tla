---------------------------- MODULE LogLineProofs ----------------------------
(***************************************************************************)
(* What reaches a record from a macro call; that records are what RecordCodec says of them, whatever the     *)
(* format strings and the lines; that the macro's parser reads as std does *)
(* whatever it is documented to take; and what so stands in a line.        *)
(***************************************************************************)
EXTENDS LogLine, RecordCodecProofs

-----------------------------------------------------------------------------
(* A macro call that compiles is a call of RecordCodec. *)

(* The macro calls of the run have up to two arguments.                    *)
LEMMA FewArgs ==
  ASSUME NEW n \in 0 .. 2, NEW args \in MacroArgLists(n)
  PROVE  /\ n \in Nat /\ args \in [1 .. n -> MacroArg]
         /\ DOMAIN args = 1 .. n /\ Len(args) = n
<1>1. args \in [1 .. n -> MacroArg]
  BY DEF MacroArgLists
<1> QED
  BY <1>1

(* What such a call evaluates. *)
ValueLists(n) == {Values(args) : args \in MacroArgLists(n)}

LEMMA FewValues ==
  ASSUME NEW n \in 0 .. 2, NEW values \in ValueLists(n)
  PROVE  /\ values \in Seq(AnyArg) /\ DOMAIN values = 1 .. n
         /\ \A k \in 1 .. n : Len(values[k].bytes) \in 0 .. 2
<1>1. 0 \in Byte /\ 1 \in Byte
  BY BaseAssumption DEF Byte
<1>2. ASSUME NEW a \in MacroArg
      PROVE  /\ [type |-> a.type, bytes |-> a.bytes] \in AnyArg
             /\ Len(a.bytes) \in 0 .. 2
  <2>1. << >> \in Seq(Byte) /\ << 1 >> \in Seq(Byte) /\ << 0, 1 >> \in Seq(Byte)
        /\ << 1, 1 >> \in Seq(Byte)
    BY <1>1
  <2>2. a.type \in {"pod", "str", "fmt"}
    BY DEF MacroArg
  <2>3. a.bytes \in {<< 1 >>, << >>, << 0, 1 >>, << 1, 1 >>}
    BY DEF MacroArg
  <2>4. a.bytes \in Seq(Byte)
    BY <2>1, <2>3
  <2>5. Len(<< 1 >>) = 1 /\ Len(<< >>) = 0 /\ Len(<< 0, 1 >>) = 2 /\ Len(<< 1, 1 >>) = 2
    OBVIOUS
  <2> QED
    BY <2>2, <2>3, <2>4, <2>5 DEF AnyArg
<1>3. PICK args \in MacroArgLists(n) : values = Values(args)
  BY DEF ValueLists
<1>4. args \in [1 .. n -> MacroArg]
  BY FewArgs
<1>5. values = [k \in 1 .. n |-> [type |-> args[k].type, bytes |-> args[k].bytes]]
  BY <1>3, <1>4 DEF Values
<1>6. DOMAIN values = 1 .. n
      /\ \A k \in 1 .. n : args[k] \in MacroArg
                          /\ values[k] = [type |-> args[k].type, bytes |-> args[k].bytes]
  BY <1>4, <1>5
<1>7. \A k \in 1 .. n : values[k] \in AnyArg /\ values[k].bytes = args[k].bytes
  BY <1>2, <1>6
<1>8. values \in [1 .. n -> AnyArg]
  BY <1>5, <1>6, <1>7
<1>9. n \in Nat
  OBVIOUS
<1>10. values \in Seq(AnyArg)
  BY <1>8, <1>9
<1> QED
  BY <1>2, <1>6, <1>7, <1>10

(* A macro call of the run is a call that RecordCodecProofs speaks of.     *)
LEMMA MacroCallsAreCalls ==
  ASSUME NEW n \in 0 .. 2, NEW as \in ValueLists(n)
  PROVE  MacroCall(as) \in AnyCall
<1>1. 0 \in Byte /\ 1 \in Byte
  BY BaseAssumption DEF Byte
<1>5. as \in Seq(AnyArg)
  BY FewValues
<1>6. 1 \in Fitting(4)
  <2>1. /\ Weight[0] = 1 /\ Weight[1] = Base * Weight[1 - 1]
    BY WeightsMultiply
  <2>2. /\ Weight[2 - 1] <= Weight[2] /\ Weight[3 - 1] <= Weight[3]
        /\ Weight[4 - 1] <= Weight[4]
    BY WeightsGrow
  <2>3. Weight[1] \in Nat /\ Weight[2] \in Nat /\ Weight[3] \in Nat /\ Weight[4] \in Nat
    BY WeightsGrow
  <2>4. 1 - 1 = 0 /\ 2 - 1 = 1 /\ 3 - 1 = 2 /\ 4 - 1 = 3
    OBVIOUS
  <2>5. Weight[1] > 1
    BY <2>1, <2>4, BaseAssumption
  <2>6. 1 < Weight[4]
    BY <2>2, <2>3, <2>4, <2>5
  <2> QED
    BY <2>6 DEF Fitting
<1>7. << 0 >> \in Seq(Byte) /\ "Info" \in LogLevels
  BY <1>1 DEF LogLevels
<1> DEFINE name == << 0 >>
           number == 1
           c == MacroCall(as)
<1>8. c = [kind |-> "hot", level |-> "Info", number |-> number, name |-> name,
                         args |-> as]
  BY DEF MacroCall
<1>9. name \in Seq(Byte) /\ number \in Fitting(4)
  BY <1>6, <1>7
<1> HIDE DEF name, number, c
<1>10. c \in AnyHot
  BY <1>5, <1>7, <1>8, <1>9 DEF AnyHot
<1> QED
  BY <1>10 DEF AnyCall, c

CompiledArgs == stage = "compiled" => \E n \in 0 .. 2 : macroArgs \in ValueLists(n)

(* Between compilation and the call the values are those of a macro call.  *)
LEMMA ArgsAreKept == LSpec => []CompiledArgs
<1>1. LInit => CompiledArgs
  BY DEF LInit, CompiledArgs
<1>2. CompiledArgs /\ [LNext]_lvars => CompiledArgs'
  <2> SUFFICES ASSUME CompiledArgs, [LNext]_lvars PROVE CompiledArgs'
    OBVIOUS
  <2> USE DEF CompiledArgs
  <2>1. CASE WriteMacro
    BY <2>1 DEF WriteMacro
  <2>2. CASE Expand
    <3>1. CASE stage' = "compiled"
      <4>1. PICK n \in 0 .. 2 : macroArgs' \in {Values(args) : args \in Compiling(n)}
        BY <2>2, <3>1 DEF Expand
      <4>2. Compiling(n) \subseteq MacroArgLists(n)
        BY DEF Compiling
      <4>3. macroArgs' \in ValueLists(n)
        BY <4>1, <4>2 DEF ValueLists
      <4> QED
        BY <4>3
    <3>2. CASE stage' # "compiled"
      BY <3>2
    <3> QED
      BY <3>1, <3>2
  <2>3. CASE SubmitMacro
    BY <2>3 DEF SubmitMacro
  <2>4. CASE SubmitOther \/ PrintLine \/ LRelease \/ UNCHANGED lvars
    <3>1. stage' = stage /\ macroArgs' = macroArgs
      BY <2>4 DEF SubmitOther, PrintLine, LRelease, lvars, source
    <3> QED
      BY <3>1
  <2> QED
    BY <2>1, <2>2, <2>3, <2>4 DEF LNext
<1> QED
  BY <1>1, <1>2, PTL DEF LSpec

(* Whatever is written, compiled and printed, what happens to records is   *)
(* what RecordCodec lets happen to them, with any calls.                   *)
THEOREM LinesImplementRecords == LSpec => AnySpec
<1>1. LInit => Init
  BY DEF LInit
<1>2. CompiledArgs /\ [LNext]_lvars => [AnyNext]_vars
  <2> SUFFICES ASSUME CompiledArgs, [LNext]_lvars PROVE [AnyNext]_vars
    OBVIOUS
  <2>1. CASE WriteMacro
    BY <2>1 DEF WriteMacro
  <2>2. CASE Expand
    BY <2>2 DEF Expand
  <2>3. CASE SubmitMacro
    <3>1. PICK n \in 0 .. 2 : macroArgs \in ValueLists(n) /\ Submit(MacroCall(macroArgs))
      BY <2>3 DEF SubmitMacro, CompiledArgs
    <3> QED
      BY <3>1, MacroCallsAreCalls DEF AnyNext
  <2>4. CASE SubmitOther
    BY <2>4, CallsAreCalls DEF SubmitOther, AnyNext
  <2>5. CASE PrintLine
    BY <2>5 DEF PrintLine, AnyNext
  <2>6. CASE LRelease
    BY <2>6 DEF LRelease, AnyNext
  <2>7. CASE UNCHANGED lvars
    BY <2>7 DEF lvars
  <2> QED
    BY <2>1, <2>2, <2>3, <2>4, <2>5, <2>6, <2>7 DEF LNext
<1> QED
  BY <1>1, <1>2, ArgsAreKept, PTL DEF LSpec, AnySpec

(* So macro calls, with the arguments they were compiled with, are written *)
(* and read as RecordCodec promises.                                       *)
THEOREM RecordsOfLines ==
  LSpec => [](TypeOK /\ RegionIsFilled /\ PrintsWhatWasLogged
              /\ ReaderSurvives /\ CutPayloadIsPrefix)
BY LinesImplementRecords, CodecTypeCorrect, EveryByteIsWritten,
   RecordsComeOutAsLogged, ReadersSurvive, CutPayloadsArePrefixes, PTL

-----------------------------------------------------------------------------
(* Strings, character by character.  X is whatever characters there are.   *)

(* Min, which the parsers use to find the next place, is the least         *)
(* element.                                                                *)
LEMMA LeastOf ==
  ASSUME NEW I, I \subseteq Nat, I # {}
  PROVE  Min(I) \in I /\ \A y \in I : Min(I) <= y
<1> DEFINE R == OpToRel(<, Nat)
<1>1. IsWellFoundedOn(R, Nat)
  BY NatLessThanWellFounded, Zenon
<1>2. \A x, y \in Nat : x < y => << x, y >> \in R
  BY DEF OpToRel
<1> HIDE DEF R
<1>3. PICK x \in I : \A y \in I : ~(<< y, x >> \in R)
  BY <1>1, WFMin
<1>4. ASSUME NEW y \in I PROVE x <= y
  <2>1. x \in Nat /\ y \in Nat
    OBVIOUS
  <2>2. ~(y < x)
    BY <1>2, <1>3, <2>1
  <2> QED
    BY <2>1, <2>2
<1>5. \E m \in I : \A y \in I : m <= y
  BY <1>4
<1> QED
  BY <1>5 DEF Min

(* SkipAll stops at the first character that is not of the class.          *)
LEMMA SkipAllFacts ==
  ASSUME NEW X, NEW s \in Seq(X), NEW i \in 1 .. Len(s) + 1, NEW class
  PROVE  /\ SkipAll(s, i, class) \in i .. Len(s) + 1
         /\ \A j \in i .. SkipAll(s, i, class) - 1 : s[j] \in class
         /\ SkipAll(s, i, class) <= Len(s) => s[SkipAll(s, i, class)] \notin class
<1> DEFINE I == {j \in i .. Len(s) : s[j] \notin class}
           stop == IF I # {} THEN Min(I) ELSE 0
           e == SkipAll(s, i, class)
<1>1. e = IF stop = 0 THEN Len(s) + 1 ELSE stop
  BY DEF SkipAll, SelectInSubSeq
<1>2. Len(s) \in Nat /\ i \in 1 .. Len(s) + 1
  OBVIOUS
<1> HIDE DEF e
<1>3. CASE I = {}
  <2>1. e = Len(s) + 1
    BY <1>1, <1>3
  <2>2. \A j \in i .. Len(s) : s[j] \in class
    BY <1>3
  <2> QED
    BY <1>2, <2>1, <2>2 DEF e
<1>4. CASE I # {}
  <2>1. I \subseteq Nat
    BY <1>2
  <2>2. Min(I) \in I /\ \A y \in I : Min(I) <= y
    BY <1>4, <2>1, LeastOf
  <2>3. e = Min(I)
    BY <1>1, <1>2, <1>4, <2>2
  <2>4. e \in i .. Len(s) /\ s[e] \notin class /\ \A y \in I : e <= y
    BY <2>2, <2>3
  <2>5. ASSUME NEW j \in i .. e - 1 PROVE s[j] \in class
    <3>1. j \in i .. Len(s) /\ ~(e <= j)
      BY <1>2, <2>4
    <3> QED
      BY <2>4, <3>1
  <2> QED
    BY <1>2, <2>4, <2>5 DEF e
<1> QED
  BY <1>3, <1>4

(* SkipAll stops at the first character that is not of the class.          *)
LEMMA SkipAllIs ==
  ASSUME NEW X, NEW s \in Seq(X), NEW i \in 1 .. Len(s) + 1, NEW class,
         NEW e \in i .. Len(s) + 1, \A j \in i .. e - 1 : s[j] \in class,
         e <= Len(s) => s[e] \notin class
  PROVE  SkipAll(s, i, class) = e
<1> DEFINE k == SkipAll(s, i, class)
<1>1. /\ k \in i .. Len(s) + 1 /\ \A j \in i .. k - 1 : s[j] \in class
      /\ k <= Len(s) => s[k] \notin class
  BY SkipAllFacts
<1> HIDE DEF k
<1>2. Len(s) \in Nat /\ i \in Nat /\ k \in Nat /\ e \in Nat
  BY <1>1
<1>3. ~(k < e)
  <2> SUFFICES ASSUME k < e PROVE FALSE
    OBVIOUS
  <2>1. k \in i .. e - 1 /\ k <= Len(s)
    BY <1>1, <1>2
  <2> QED
    BY <1>1, <2>1
<1>4. ~(e < k)
  <2> SUFFICES ASSUME e < k PROVE FALSE
    OBVIOUS
  <2>1. e \in i .. k - 1 /\ e <= Len(s)
    BY <1>1, <1>2
  <2> QED
    BY <1>1, <2>1
<1> QED
  BY <1>2, <1>3, <1>4 DEF k

(* CloseFrom is the first closing brace.                                   *)
LEMMA CloseFromIs ==
  ASSUME NEW X, NEW s \in Seq(X), NEW i \in 1 .. Len(s) + 1,
         NEW e \in i .. Len(s), \A j \in i .. e - 1 : s[j] # Close, s[e] = Close
  PROVE  CloseFrom(s, i) = e
<1> DEFINE I == {j \in i .. Len(s) : s[j] = Close}
<1>1. CloseFrom(s, i) = LET close == IF I # {} THEN Min(I) ELSE 0
                        IN  IF close = 0 THEN Len(s) + 1 ELSE close
  BY DEF CloseFrom, SelectInSubSeq
<1>2. e \in I /\ I \subseteq Nat
  OBVIOUS
<1> HIDE DEF I
<1>3. Min(I) \in I /\ \A y \in I : Min(I) <= y
  BY <1>2, LeastOf
<1> DEFINE m == Min(I)
<1>4. m \in i .. Len(s) /\ s[m] = Close /\ m <= e
  BY <1>2, <1>3 DEF I
<1> HIDE DEF m
<1>5. m = e
  <2> SUFFICES ASSUME m # e PROVE FALSE
    OBVIOUS
  <2>1. m \in i .. e - 1
    BY <1>4
  <2> QED
    BY <1>4, <2>1
<1>6. m # 0
  BY <1>4
<1> QED
  BY <1>1, <1>2, <1>5, <1>6 DEF m

(* Without a closing brace CloseFrom is the place behind the string.       *)
LEMMA CloseFromFacts ==
  ASSUME NEW X, NEW s \in Seq(X), NEW i \in 1 .. Len(s) + 1
  PROVE  CloseFrom(s, i) \in i .. Len(s) + 1
<1> DEFINE I == {j \in i .. Len(s) : s[j] = Close}
<1>1. CloseFrom(s, i) = LET close == IF I # {} THEN Min(I) ELSE 0
                        IN  IF close = 0 THEN Len(s) + 1 ELSE close
  BY DEF CloseFrom, SelectInSubSeq
<1>2. I \subseteq Nat /\ I \subseteq i .. Len(s) /\ i \in Nat /\ Len(s) \in Nat
  OBVIOUS
<1>3. CASE I = {}
  BY <1>1, <1>2, <1>3
<1>4. CASE I # {}
  <2> DEFINE m == Min(I)
  <2>1. m \in I
    BY <1>2, <1>4, LeastOf
  <2>2. m \in i .. Len(s)
    BY <1>2, <2>1
  <2>3. CloseFrom(s, i) = IF m = 0 THEN Len(s) + 1 ELSE m
    BY <1>1, <1>4
  <2> HIDE DEF m
  <2> QED
    BY <1>2, <2>2, <2>3
<1> QED
  BY <1>3, <1>4

(* What the classes of characters have in common.                          *)
Plain(class) == "end" \notin class /\ Close \notin class

(* The delimiters are different characters, and none is the mark of the    *)
(* end.                                                                    *)
LEMMA BracesDiffer ==
  /\ Open # Close /\ Open # Blank /\ Close # Blank /\ Open # ":" /\ Close # ":"
  /\ Open # "end" /\ Close # "end"
BY Zenon DEF Open, Close, Blank

(* No class of characters that std skips has the closing brace in it.      *)
LEMMA ClassesArePlain ==
  /\ Plain(DOMAIN TypeChar) /\ Plain(Digits) /\ Plain(NameChars)
  /\ Plain(Aligns) /\ Plain({"+", "-"}) /\ Plain({"#"}) /\ Plain({Blank})
<1>1. Close \notin {"?", "x", "X", "o", "b", "e", "E", "p"}
  BY Zenon DEF Close
<1>2. Close \notin Digits
  BY Zenon DEF Close, Digits
<1>3. Close \notin Aligns
  BY Zenon DEF Close, Aligns
<1>4. Close \notin {"+", "-"} /\ Close \notin {"#"} /\ Close # Blank
  BY Zenon DEF Close, Blank
<1>5. DOMAIN TypeChar = {"?", "x", "X", "o", "b", "e", "E", "p"}
  BY DEF TypeChar
<1>6. "end" # Blank
  BY Zenon DEF Blank
<1> QED
  BY <1>1, <1>2, <1>3, <1>4, <1>5, <1>6 DEF Plain, Digits, NameChars, Aligns

(* No flag, digit, align or delimiter is a character that names a trait.   *)
LEMMA OnlyTypesAreTypes ==
  /\ \A c \in Digits \cup Aligns \cup {"+", "-", "#", ".", ":"} :
       c \notin DOMAIN TypeChar
  /\ ":" \notin NameChars
<1>1. DOMAIN TypeChar = {"?", "x", "X", "o", "b", "e", "E", "p"}
  BY DEF TypeChar
<1> QED
  BY <1>1 DEF Digits, Aligns, NameChars

(* What CharAt is inside of a string and behind it.                        *)
LEMMA CharAtFacts ==
  ASSUME NEW X, NEW s \in Seq(X), NEW i \in Nat
  PROVE  /\ i \in 1 .. Len(s) => CharAt(s, i) = s[i]
         /\ i \notin 1 .. Len(s) => CharAt(s, i) = "end"
BY DEF CharAt

(* An optional character: SkipOne goes at most one place ahead.            *)
LEMMA SkipOneFacts ==
  ASSUME NEW X, NEW s \in Seq(X), NEW i \in 1 .. Len(s) + 1, NEW class, Plain(class)
  PROVE  /\ SkipOne(s, i, class) \in i .. Len(s) + 1
         /\ SkipOne(s, i, class) \in {i, i + 1}
         /\ SkipOne(s, i, class) = i + 1 => i <= Len(s) /\ s[i] \in class
<1>1. CharAt(s, i) \in class => i <= Len(s) /\ CharAt(s, i) = s[i]
  BY CharAtFacts DEF Plain
<1> QED
  BY <1>1 DEF SkipOne

(* From i to r, over characters that name no trait.                        *)
Stops(s, i, r) ==
  /\ r \in i .. Len(s) + 1
  /\ r > i => s[r - 1] \notin DOMAIN TypeChar

(* Two stretches that name no trait, one after the other, are one.         *)
LEMMA StopsAgain ==
  ASSUME NEW X, NEW s \in Seq(X), NEW i \in 1 .. Len(s) + 1,
         NEW q, Stops(s, i, q), NEW r, Stops(s, q, r)
  PROVE  Stops(s, i, r)
BY DEF Stops

(* An optional character that names no trait.                              *)
LEMMA SkipOneStops ==
  ASSUME NEW X, NEW s \in Seq(X), NEW i \in 1 .. Len(s) + 1, NEW class, Plain(class),
         \A c \in class : c \notin DOMAIN TypeChar
  PROVE  Stops(s, i, SkipOne(s, i, class))
BY SkipOneFacts DEF Stops

(* A run of characters that name no trait.                                 *)
LEMMA SkipAllStops ==
  ASSUME NEW X, NEW s \in Seq(X), NEW i \in 1 .. Len(s) + 1, NEW class,
         \A c \in class : c \notin DOMAIN TypeChar
  PROVE  Stops(s, i, SkipAll(s, i, class))
<1> DEFINE r == SkipAll(s, i, class)
<1>1. r \in i .. Len(s) + 1 /\ \A j \in i .. r - 1 : s[j] \in class
  BY SkipAllFacts
<1> HIDE DEF r
<1>2. r > i => r - 1 \in i .. r - 1
  BY <1>1
<1> QED
  BY <1>1, <1>2 DEF Stops, r

(* Fill and align end on a character that names no trait.                  *)
LEMMA FillStops ==
  ASSUME NEW X, NEW s \in Seq(X), NEW i \in 1 .. Len(s) + 1
  PROVE  Stops(s, i, BehindFill(s, i))
<1>1. Plain(Aligns) /\ \A c \in Aligns : c \notin DOMAIN TypeChar
  BY ClassesArePlain, OnlyTypesAreTypes
<1>2. CASE CharAt(s, i + 1) \in Aligns
  <2>1. i + 1 \in 1 .. Len(s) /\ s[i + 1] \in Aligns
    BY <1>1, <1>2, CharAtFacts DEF Plain
  <2>2. BehindFill(s, i) = i + 2
    BY <1>2 DEF BehindFill
  <2>3. s[(i + 2) - 1] \notin DOMAIN TypeChar
    BY <1>1, <2>1
  <2> QED
    BY <2>1, <2>2, <2>3 DEF Stops
<1>3. CASE CharAt(s, i + 1) \notin Aligns
  BY <1>1, <1>3, SkipOneStops DEF BehindFill
<1> QED
  BY <1>2, <1>3

(* So do sign, alternate form and zero,                                    *)
LEMMA FlagsStop ==
  ASSUME NEW X, NEW s \in Seq(X), NEW i \in 1 .. Len(s) + 1
  PROVE  Stops(s, i, BehindFlags(s, i))
<1> DEFINE q == SkipOne(s, i, {"+", "-"})
           r == SkipOne(s, q, {"#"})
<1>1. \A c \in {"+", "-"} : c \notin DOMAIN TypeChar
  BY OnlyTypesAreTypes
<1>2. \A c \in {"#"} : c \notin DOMAIN TypeChar
  BY OnlyTypesAreTypes
<1>3. Stops(s, i, q)
  BY <1>1, SkipOneStops, ClassesArePlain
<1> HIDE DEF q
<1>4. q \in 1 .. Len(s) + 1
  BY <1>3 DEF Stops
<1>5. Stops(s, q, r)
  BY <1>2, <1>4, SkipOneStops, ClassesArePlain
<1> HIDE DEF r
<1>6. Stops(s, i, r)
  BY <1>3, <1>5, StopsAgain
<1> QED
  BY <1>6 DEF r, q, BehindFlags

(* the width,                                                              *)
LEMMA WidthStops ==
  ASSUME NEW X, NEW s \in Seq(X), NEW i \in 1 .. Len(s) + 1
  PROVE  Stops(s, i, BehindWidth(s, i))
<1>1. \A c \in Digits : c \notin DOMAIN TypeChar
  BY OnlyTypesAreTypes
<1> QED
  BY <1>1, SkipAllStops DEF BehindWidth

(* and the precision: what is last before the type is no part of a type.   *)
LEMMA PrecisionStops ==
  ASSUME NEW X, NEW s \in Seq(X), NEW i \in 1 .. Len(s) + 1
  PROVE  Stops(s, i, BehindPrecision(s, i))
<1>1. CASE CharAt(s, i) = "."
  <2>1. "." # "end"
    OBVIOUS
  <2>2. i \in 1 .. Len(s) /\ s[i] = "."
    BY <1>1, <2>1, CharAtFacts
  <2>3. s[(i + 1) - 1] \notin DOMAIN TypeChar
    BY <2>2, OnlyTypesAreTypes
  <2>4. Stops(s, i, i + 1) /\ i + 1 \in 1 .. Len(s) + 1
    BY <2>2, <2>3 DEF Stops
  <2>5. \A c \in Digits : c \notin DOMAIN TypeChar
    BY OnlyTypesAreTypes
  <2>6. Stops(s, i + 1, SkipAll(s, i + 1, Digits))
    BY <2>4, <2>5, SkipAllStops
  <2>7. Stops(s, i, SkipAll(s, i + 1, Digits))
    BY <2>4, <2>6, StopsAgain
  <2> QED
    BY <1>1, <2>7 DEF BehindPrecision
<1>2. CASE CharAt(s, i) # "."
  BY <1>2 DEF BehindPrecision, Stops
<1> QED
  BY <1>1, <1>2

(* Nothing before the type names a trait.                                  *)
LEMMA SpecStops ==
  ASSUME NEW X, NEW s \in Seq(X), NEW i \in 1 .. Len(s) + 1
  PROVE  /\ Stops(s, i, BeforeType(s, i))
         /\ BehindFill(s, i) \in i .. BeforeType(s, i)
         /\ BehindFlags(s, BehindFill(s, i)) \in i .. BeforeType(s, i)
         /\ BehindWidth(s, BehindFlags(s, BehindFill(s, i))) \in i .. BeforeType(s, i)
<1> DEFINE a == BehindFill(s, i)
           b == BehindFlags(s, a)
           c == BehindWidth(s, b)
           e == BehindPrecision(s, c)
<1>1. Stops(s, i, a)
  BY FillStops
<1>2. BeforeType(s, i) = e
  BY DEF BeforeType
<1> HIDE DEF a
<1>3. a \in i .. Len(s) + 1
  BY <1>1 DEF Stops
<1>4. Stops(s, a, b)
  BY <1>3, FlagsStop
<1> HIDE DEF b
<1>5. b \in a .. Len(s) + 1
  BY <1>4 DEF Stops
<1>6. Stops(s, b, c)
  BY <1>3, <1>5, WidthStops
<1> HIDE DEF c
<1>7. c \in b .. Len(s) + 1
  BY <1>6 DEF Stops
<1>8. Stops(s, c, e)
  BY <1>3, <1>5, <1>7, PrecisionStops
<1> HIDE DEF e
<1>9. e \in c .. Len(s) + 1
  BY <1>8 DEF Stops
<1>10. Stops(s, i, b)
  BY <1>1, <1>4, StopsAgain
<1>11. Stops(s, i, c)
  BY <1>6, <1>10, StopsAgain
<1>12. Stops(s, i, e)
  BY <1>8, <1>11, StopsAgain
<1>13. a \in i .. e /\ b \in i .. e /\ c \in i .. e
  BY <1>3, <1>5, <1>7, <1>9
<1> QED
  BY <1>2, <1>12, <1>13 DEF a, b, c

(* A type is one or two characters, of which the last names the trait.     *)
LEMMA TypeFacts ==
  ASSUME NEW X, NEW s \in Seq(X), NEW i \in 1 .. Len(s) + 1
  PROVE  /\ BehindType(s, i) \in i .. Len(s) + 1
         /\ BehindType(s, i) > i => s[BehindType(s, i) - 1] \in DOMAIN TypeChar
<1>1. "?" \in DOMAIN TypeChar /\ "x" # "end" /\ "X" # "end" /\ "?" # "end"
  BY DEF TypeChar
<1>2. CASE CharAt(s, i) \in {"x", "X"} /\ CharAt(s, i + 1) = "?"
  <2>1. i + 1 \in 1 .. Len(s) /\ s[i + 1] = "?"
    BY <1>1, <1>2, CharAtFacts
  <2>2. BehindType(s, i) = i + 2
    BY <1>2 DEF BehindType
  <2> QED
    BY <1>1, <2>1, <2>2
<1>3. CASE ~(CharAt(s, i) \in {"x", "X"} /\ CharAt(s, i + 1) = "?")
  <2> DEFINE r == SkipOne(s, i, DOMAIN TypeChar)
  <2>1. /\ r \in i .. Len(s) + 1 /\ r \in {i, i + 1}
        /\ r = i + 1 => i <= Len(s) /\ s[i] \in DOMAIN TypeChar
    BY SkipOneFacts, ClassesArePlain
  <2>2. BehindType(s, i) = r
    BY <1>3 DEF BehindType
  <2> HIDE DEF r
  <2> QED
    BY <2>1, <2>2
<1> QED
  BY <1>2, <1>3

-----------------------------------------------------------------------------
(* What std reads in a string it reads in a part of it too, as long as it  *)
(* does not read on behind the part.                                       *)

(* t is s from position d + 1 on, or its beginning.                        *)
Window(s, t, d) ==
  /\ d \in Nat /\ Len(t) + d <= Len(s)
  /\ \A q \in 1 .. Len(t) : t[q] = s[q + d]

(* The characters of a window.                                             *)
LEMMA CharInWindow ==
  ASSUME NEW X, NEW s \in Seq(X), NEW t \in Seq(X), NEW d, Window(s, t, d),
         NEW q \in Nat \ {0}
  PROVE  /\ q <= Len(t) => CharAt(t, q) = CharAt(s, q + d)
         /\ q > Len(t) => CharAt(t, q) = "end"
<1>1. q <= Len(t) => CharAt(t, q) = t[q]
  BY CharAtFacts
<1>2. q > Len(t) => CharAt(t, q) = "end"
  BY CharAtFacts
<1>3. q <= Len(t) => CharAt(s, q + d) = s[q + d]
  BY CharAtFacts DEF Window
<1> QED
  BY <1>1, <1>2, <1>3 DEF Window

(* An optional character is read alike in the window,                      *)
LEMMA OneInWindow ==
  ASSUME NEW X, NEW s \in Seq(X), NEW t \in Seq(X), NEW d, Window(s, t, d),
         NEW q \in 1 .. Len(t), NEW class
  PROVE  SkipOne(t, q, class) + d = SkipOne(s, q + d, class)
<1>1. CharAt(t, q) = CharAt(s, q + d)
  BY CharInWindow
<1> QED
  BY <1>1 DEF SkipOne, Window

(* a run of characters,                                                    *)
LEMMA AllInWindow ==
  ASSUME NEW X, NEW s \in Seq(X), NEW t \in Seq(X), NEW d, Window(s, t, d),
         NEW q \in 1 .. Len(t), NEW class,
         SkipAll(s, q + d, class) <= Len(t) + d
  PROVE  SkipAll(t, q, class) + d = SkipAll(s, q + d, class)
<1> DEFINE r == SkipAll(s, q + d, class)
<1>1. d \in Nat /\ Len(t) + d <= Len(s) /\ q + d \in 1 .. Len(s) + 1
  BY DEF Window
<1>2. /\ r \in q + d .. Len(s) + 1
      /\ \A j \in q + d .. r - 1 : s[j] \in class
      /\ r <= Len(s) => s[r] \notin class
  BY <1>1, SkipAllFacts
<1> HIDE DEF r
<1>3. r <= Len(t) + d
  BY DEF r
<1>4. r - d \in q .. Len(t) + 1 /\ r - d \in 1 .. Len(t) /\ r - d + d = r
  BY <1>1, <1>2, <1>3
<1>5. ASSUME NEW j \in q .. (r - d) - 1 PROVE t[j] \in class
  <2>1. j \in 1 .. Len(t) /\ j + d \in q + d .. r - 1
    BY <1>1, <1>2, <1>3
  <2>2. t[j] = s[j + d]
    BY <2>1 DEF Window
  <2> QED
    BY <1>2, <2>1, <2>2
<1>6. t[r - d] \notin class
  <2>1. t[r - d] = s[r]
    BY <1>4 DEF Window
  <2> QED
    BY <1>1, <1>2, <1>3, <2>1
<1>7. SkipAll(t, q, class) = r - d
  BY <1>4, <1>5, <1>6, SkipAllIs
<1> QED
  BY <1>1, <1>2, <1>7 DEF r

(* fill and align,                                                         *)
LEMMA FillInWindow ==
  ASSUME NEW X, NEW s \in Seq(X), NEW t \in Seq(X), NEW d, Window(s, t, d),
         NEW q \in 1 .. Len(t), BehindFill(s, q + d) <= Len(t) + d
  PROVE  BehindFill(t, q) + d = BehindFill(s, q + d)
<1>1. d \in Nat
  BY DEF Window
<1>2. "end" \notin Aligns
  BY ClassesArePlain DEF Plain
<1>3. SkipOne(t, q, Aligns) + d = SkipOne(s, q + d, Aligns)
  BY OneInWindow
<1>4. CASE CharAt(s, (q + 1) + d) \in Aligns
  <2>1. BehindFill(s, q + d) = q + d + 2
    BY <1>1, <1>4 DEF BehindFill
  <2>2. q + 1 <= Len(t)
    BY <1>1, <2>1
  <2>3. CharAt(t, q + 1) \in Aligns
    BY <1>4, <2>2, CharInWindow
  <2> QED
    BY <1>1, <2>1, <2>3 DEF BehindFill
<1>5. CASE CharAt(s, (q + 1) + d) \notin Aligns
  <2>1. CharAt(t, q + 1) \notin Aligns
    BY <1>2, <1>5, CharInWindow
  <2>2. CharAt(s, (q + d) + 1) \notin Aligns
    BY <1>1, <1>5
  <2> QED
    BY <1>3, <2>1, <2>2 DEF BehindFill
<1> QED
  BY <1>4, <1>5

(* the flags,                                                              *)
LEMMA FlagsInWindow ==
  ASSUME NEW X, NEW s \in Seq(X), NEW t \in Seq(X), NEW d, Window(s, t, d),
         NEW q \in 1 .. Len(t), BehindFlags(s, q + d) <= Len(t) + d
  PROVE  BehindFlags(t, q) + d = BehindFlags(s, q + d)
<1> DEFINE a == SkipOne(t, q, {"+", "-"})
           b == SkipOne(s, q + d, {"+", "-"})
<1>1. /\ d \in Nat /\ Len(t) + d <= Len(s)
      /\ q \in 1 .. Len(t) + 1 /\ q + d \in 1 .. Len(s) + 1
  BY DEF Window
<1>2. a + d = b
  BY OneInWindow
<1> DEFINE signs == {"+", "-"}
<1>3. Plain(signs) /\ Plain({"#"})
  BY ClassesArePlain
<1> HIDE DEF signs
<1>4. a \in q .. Len(t) + 1 /\ b \in q + d .. Len(s) + 1
  <2>1. SkipOne(t, q, signs) \in q .. Len(t) + 1
    BY <1>1, <1>3, SkipOneFacts
  <2>2. SkipOne(s, q + d, signs) \in q + d .. Len(s) + 1
    BY <1>1, <1>3, SkipOneFacts
  <2> QED
    BY <2>1, <2>2 DEF signs
<1>5. BehindFlags(t, q) = SkipOne(t, a, {"#"}) /\ BehindFlags(s, q + d) = SkipOne(s, b, {"#"})
  BY DEF BehindFlags
<1> HIDE DEF a, b
<1> DEFINE hash == {"#"}
<1>6. SkipOne(s, b, hash) \in b .. Len(s) + 1
  <2>1. b \in 1 .. Len(s) + 1
    BY <1>1, <1>4
  <2>2. Plain(hash)
    BY <1>3
  <2> HIDE DEF hash
  <2> QED
    BY <2>1, <2>2, SkipOneFacts
<1>7. a <= Len(t)
  BY <1>1, <1>2, <1>4, <1>5, <1>6
<1>8. SkipOne(t, a, {"#"}) + d = SkipOne(s, a + d, {"#"})
  BY <1>4, <1>7, OneInWindow
<1> QED
  BY <1>2, <1>5, <1>8

(* the precision,                                                          *)
LEMMA PrecisionInWindow ==
  ASSUME NEW X, NEW s \in Seq(X), NEW t \in Seq(X), NEW d, Window(s, t, d),
         NEW q \in 1 .. Len(t), BehindPrecision(s, q + d) <= Len(t) + d
  PROVE  BehindPrecision(t, q) + d = BehindPrecision(s, q + d)
<1>1. d \in Nat /\ Len(t) + d <= Len(s)
  BY DEF Window
<1>2. CharAt(t, q) = CharAt(s, q + d)
  BY CharInWindow
<1>3. CASE CharAt(s, q + d) = "."
  <2>1. q + d <= Len(s)
    BY <1>1
  <2>2. BehindPrecision(s, q + d) = SkipAll(s, (q + 1) + d, Digits)
    BY <1>1, <1>3 DEF BehindPrecision
  <2>3. SkipAll(s, (q + 1) + d, Digits) \in (q + 1) + d .. Len(s) + 1
    BY <1>1, <2>1, SkipAllFacts
  <2>4. q + 1 \in 1 .. Len(t)
    BY <1>1, <2>2, <2>3
  <2>5. SkipAll(t, q + 1, Digits) + d = SkipAll(s, (q + 1) + d, Digits)
    BY <2>2, <2>4, AllInWindow
  <2> QED
    BY <1>2, <1>3, <2>2, <2>5 DEF BehindPrecision
<1>4. CASE CharAt(s, q + d) # "."
  BY <1>1, <1>2, <1>4 DEF BehindPrecision
<1> QED
  BY <1>3, <1>4

(* all that comes before the type,                                         *)
LEMMA SpecInWindow ==
  ASSUME NEW X, NEW s \in Seq(X), NEW t \in Seq(X), NEW d, Window(s, t, d),
         NEW q \in 1 .. Len(t), BeforeType(s, q + d) <= Len(t) + d
  PROVE  BeforeType(t, q) + d = BeforeType(s, q + d)
<1> DEFINE a == BehindFill(s, q + d)
           b == BehindFlags(s, a)
           c == BehindWidth(s, b)
           e == BehindPrecision(s, c)
           a1 == BehindFill(t, q)
           b1 == BehindFlags(t, a1)
           c1 == BehindWidth(t, b1)
           e1 == BehindPrecision(t, c1)
<1>1. d \in Nat /\ Len(t) + d <= Len(s) /\ q + d \in 1 .. Len(s) + 1
  BY DEF Window
<1>2. BeforeType(s, q + d) = e /\ BeforeType(t, q) = e1
  BY DEF BeforeType
<1>3. a \in q + d .. e /\ b \in q + d .. e /\ c \in q + d .. e /\ e \in Nat
  <2>1. Stops(s, q + d, e) /\ a \in q + d .. e /\ b \in q + d .. e /\ c \in q + d .. e
    BY <1>1, <1>2, SpecStops
  <2> HIDE DEF a, b, c, e
  <2> QED
    BY <1>1, <2>1 DEF Stops
<1>4. e <= Len(t) + d
  BY <1>2
<1>5. a1 + d = a
  <2>1. a <= Len(t) + d
    <3> HIDE DEF a, b, c, e
    <3> QED
      BY <1>1, <1>3, <1>4
  <2> QED
    BY <2>1, FillInWindow
<1>6. a1 \in 1 .. Len(t)
  <2>1. Stops(t, q, a1)
    BY FillStops
  <2> HIDE DEF a, b, c, e, a1
  <2> QED
    BY <1>1, <1>3, <1>4, <1>5, <2>1 DEF Stops
<1>7. b1 + d = b
  <2> HIDE DEF a, a1
  <2>1. BehindFlags(s, a1 + d) = b
    BY <1>5
  <2>2. b <= Len(t) + d
    <3> HIDE DEF b, c, e
    <3> QED
      BY <1>1, <1>3, <1>4
  <2> QED
    BY <1>6, <2>1, <2>2, FlagsInWindow
<1>8. b1 \in 1 .. Len(t)
  <2> HIDE DEF a, a1
  <2>1. Stops(t, a1, b1)
    BY <1>6, FlagsStop
  <2> HIDE DEF b, c, e, b1
  <2> QED
    BY <1>1, <1>3, <1>4, <1>6, <1>7, <2>1, SMTT(30) DEF Stops
<1>9. c1 + d = c
  <2> HIDE DEF a, a1, b, b1
  <2>1. BehindWidth(s, b1 + d) = c
    BY <1>7
  <2>2. c <= Len(t) + d
    <3> HIDE DEF c, e
    <3> QED
      BY <1>1, <1>3, <1>4
  <2> QED
    BY <1>8, <2>1, <2>2, AllInWindow DEF BehindWidth
<1>10. c1 \in 1 .. Len(t)
  <2> HIDE DEF a, a1, b, b1
  <2>1. Stops(t, b1, c1)
    BY <1>8, WidthStops
  <2> HIDE DEF c, e, c1
  <2> QED
    BY <1>1, <1>3, <1>4, <1>8, <1>9, <2>1, SMTT(30) DEF Stops
<1>11. e1 + d = e
  <2> HIDE DEF a, a1, b, b1, c, c1
  <2>1. BehindPrecision(s, c1 + d) = e
    BY <1>9
  <2> QED
    BY <1>4, <1>10, <2>1, PrecisionInWindow
<1> QED
  BY <1>2, <1>11

(* and the type.                                                           *)
LEMMA TypeInWindow ==
  ASSUME NEW X, NEW s \in Seq(X), NEW t \in Seq(X), NEW d, Window(s, t, d),
         NEW q \in 1 .. Len(t), BehindType(s, q + d) <= Len(t) + d
  PROVE  BehindType(t, q) + d = BehindType(s, q + d)
<1>1. d \in Nat
  BY DEF Window
<1>2. CharAt(t, q) = CharAt(s, q + d)
  BY CharInWindow
<1>3. SkipOne(t, q, DOMAIN TypeChar) + d = SkipOne(s, q + d, DOMAIN TypeChar)
  BY OneInWindow
<1>4. CASE CharAt(s, q + d) \in {"x", "X"} /\ CharAt(s, (q + 1) + d) = "?"
  <2>1. BehindType(s, q + d) = q + d + 2
    BY <1>1, <1>4 DEF BehindType
  <2>2. q + 1 <= Len(t)
    BY <1>1, <2>1
  <2>3. CharAt(t, q + 1) = "?"
    BY <1>4, <2>2, CharInWindow
  <2> QED
    BY <1>1, <1>2, <1>4, <2>1, <2>3 DEF BehindType
<1>5. CASE ~(CharAt(s, q + d) \in {"x", "X"} /\ CharAt(s, (q + 1) + d) = "?")
  <2>1. "end" # "?"
    OBVIOUS
  <2>2. ~(CharAt(t, q) \in {"x", "X"} /\ CharAt(t, q + 1) = "?")
    BY <1>2, <1>5, <2>1, CharInWindow
  <2>3. (q + d) + 1 = (q + 1) + d
    BY <1>1
  <2> QED
    BY <1>3, <1>5, <2>2, <2>3 DEF BehindType
<1> QED
  BY <1>4, <1>5

-----------------------------------------------------------------------------
(* Both parsers jump from a position to one behind it.                     *)

(* Induction from the end of a string to its beginning.                    *)
LEMMA InductionDown ==
  ASSUME NEW n \in Nat, NEW T, n + 1 \in T, n + 2 \in T,
         \A i \in 1 .. n : (\A j \in i + 1 .. n + 2 : j \in T) => i \in T
  PROVE  \A i \in 1 .. n + 2 : i \in T
<1> DEFINE U == {m \in 0 .. n : \A j \in n + 1 - m .. n + 2 : j \in T}
<1>1. 0 \in U
  <2>1. \A j \in n + 1 - 0 .. n + 2 : j = n + 1 \/ j = n + 2
    OBVIOUS
  <2> QED
    BY <2>1
<1>2. ASSUME NEW m \in 1 .. n, m - 1 \in U PROVE m \in U
  <2>1. (n + 1) - (m - 1) = (n + 1 - m) + 1 /\ n + 1 - m \in 1 .. n
    OBVIOUS
  <2>2. \A j \in (n + 1 - m) + 1 .. n + 2 : j \in T
    BY <1>2, <2>1
  <2>3. n + 1 - m \in T
    BY <2>1, <2>2
  <2>4. \A j \in n + 1 - m .. n + 2 : j = n + 1 - m \/ j \in (n + 1 - m) + 1 .. n + 2
    OBVIOUS
  <2> QED
    BY <2>2, <2>3, <2>4
<1> HIDE DEF U
<1>3. n \in U
  <2>1. 0 .. n \subseteq U
    BY <1>1, <1>2, InductionUpTo
  <2> QED
    BY <2>1
<1>4. n + 1 - n = 1
  OBVIOUS
<1> QED
  BY <1>3, <1>4 DEF U

(* What it makes of a position is what it makes of the one it jumps to,    *)
(* with something done to it; behind the end it is a.                      *)
Jumps(f, n, a, G, next) ==
  /\ f[n + 1] = a /\ f[n + 2] = a
  /\ \A i \in 1 .. n : f[i] = G[<< f[next[i]], i >>]

HasJumps(n, S, a, G, next) == \E f \in [1 .. n + 2 -> S] : Jumps(f, n, a, G, next)

(* There is a function that makes of each position what G makes of the one *)
(* it jumps to, so the CHOOSE behind a recursive definition finds it.      *)
LEMMA JumpsWork ==
  ASSUME NEW n \in Nat, NEW S, NEW a \in S, NEW G \in [S \X (1 .. n) -> S],
         NEW next, \A i \in 1 .. n : next[i] \in i + 1 .. n + 2
  PROVE  HasJumps(n, S, a, G, next)
<1> DEFINE Good(f, m) == /\ f[n + 1] = a /\ f[n + 2] = a
                         /\ \A i \in n + 1 - m .. n : f[i] = G[<< f[next[i]], i >>]
           T == {m \in 0 .. n : \E f \in [1 .. n + 2 -> S] : Good(f, m)}
<1>1. 0 \in T
  <2> DEFINE f == [i \in 1 .. n + 2 |-> a]
  <2>1. f \in [1 .. n + 2 -> S] /\ f[n + 1] = a /\ f[n + 2] = a
    OBVIOUS
  <2> HIDE DEF f
  <2>2. Good(f, 0)
    BY <2>1
  <2> HIDE DEF Good
  <2> QED
    BY <2>1, <2>2
<1>2. ASSUME NEW m \in 1 .. n, m - 1 \in T PROVE m \in T
  <2>1. PICK f \in [1 .. n + 2 -> S] : Good(f, m - 1)
    BY <1>2
  <2> DEFINE k == n + 1 - m
             v == G[<< f[next[k]], k >>]
             g == [i \in 1 .. n + 2 |-> IF i = k THEN v ELSE f[i]]
  <2>2. k \in 1 .. n /\ next[k] \in k + 1 .. n + 2 /\ n + 1 - (m - 1) = k + 1
    OBVIOUS
  <2>3. v \in S
    <3>1. next[k] \in 1 .. n + 2
      BY <2>2
    <3> QED
      BY <2>2, <3>1
  <2>4. g \in [1 .. n + 2 -> S]
    <3> HIDE DEF v
    <3> QED
      BY <2>3
  <2>5. \A i \in 1 .. n + 2 : g[i] = IF i = k THEN v ELSE f[i]
    OBVIOUS
  <2>6. \A i \in k + 1 .. n : f[i] = G[<< f[next[i]], i >>]
    BY <2>1, <2>2
  <2>7. \A i \in k + 1 .. n + 2 : i \in 1 .. n + 2 /\ i # k
    BY <2>2
  <2>8. g[n + 1] = a /\ g[n + 2] = a
    BY <2>1, <2>2, <2>5, <2>7
  <2>9. ASSUME NEW i \in k .. n PROVE g[i] = G[<< g[next[i]], i >>]
    <3> HIDE DEF g
    <3>1. i \in 1 .. n /\ next[i] \in i + 1 .. n + 2
      BY <2>2
    <3>2. next[i] \in k + 1 .. n + 2
      BY <2>2, <3>1
    <3>3. g[next[i]] = f[next[i]]
      BY <2>5, <2>7, <3>2
    <3>4. CASE i = k
      <4>1. k \in 1 .. n + 2
        BY <2>2
      <4>2. g[k] = v
        BY <2>5, <4>1
      <4>3. v = G[<< g[next[k]], k >>]
        BY <3>3, <3>4
      <4> HIDE DEF k, v
      <4> QED
        BY <3>4, <4>2, <4>3
    <3>5. CASE i # k
      <4>1. i \in k + 1 .. n /\ i \in 1 .. n + 2
        BY <2>2, <3>5
      <4>2. g[i] = f[i]
        BY <2>5, <3>5, <4>1
      <4> QED
        BY <2>6, <3>3, <4>1, <4>2
    <3> QED
      BY <3>4, <3>5
  <2> HIDE DEF g
  <2>10. Good(g, m)
    BY <2>8, <2>9
  <2> HIDE DEF Good
  <2> QED
    BY <2>4, <2>10
<1> HIDE DEF T
<1>3. 0 .. n \subseteq T
  BY <1>1, <1>2, InductionUpTo
<1>4. n \in T
  BY <1>3
<1>5. PICK f \in [1 .. n + 2 -> S] : Good(f, n)
  BY <1>4 DEF T
<1>6. n + 1 - n = 1
  OBVIOUS
<1>7. Jumps(f, n, a, G, next)
  BY <1>5, <1>6 DEF Jumps
<1> QED
  BY <1>7 DEF HasJumps

(* What holds at the end and is kept by each jump holds everywhere.        *)
LEMMA JumpsKeep ==
  ASSUME NEW n \in Nat, NEW S, NEW f, f[n + 1] \in S, f[n + 2] \in S, NEW next,
         \A i \in 1 .. n : next[i] \in i + 1 .. n + 2,
         \A i \in 1 .. n : f[next[i]] \in S => f[i] \in S
  PROVE  \A i \in 1 .. n + 2 : f[i] \in S
<1> DEFINE T == {i \in 1 .. n + 2 : f[i] \in S}
<1>1. n + 1 \in T /\ n + 2 \in T
  OBVIOUS
<1>2. ASSUME NEW i \in 1 .. n, \A j \in i + 1 .. n + 2 : j \in T PROVE i \in T
  <2>1. next[i] \in T
    BY <1>2
  <2> QED
    BY <2>1
<1> HIDE DEF T
<1>3. \A i \in 1 .. n + 2 : i \in T
  BY <1>1, <1>2, InductionDown
<1> QED
  BY <1>3 DEF T

-----------------------------------------------------------------------------
(* The two parsers as such jumps.                                          *)

Doubled(s, i) == s[i] \in Braces /\ CharAt(s, i + 1) = s[i]

(* An escaped brace has two places in the string.                          *)
LEMMA DoubledFits ==
  ASSUME NEW X, NEW s \in Seq(X), NEW i \in 1 .. Len(s), Doubled(s, i)
  PROVE  i + 1 <= Len(s)
<1>1. CharAt(s, i + 1) # "end"
  BY BracesDiffer DEF Doubled, Braces
<1> QED
  BY <1>1, CharAtFacts

(* Where std reads on behind a placeholder,                                *)
LEMMA HoleNext ==
  ASSUME NEW X, NEW s \in Seq(X), NEW i, NEW colon, NEW type, NEW end \in 1 .. Len(s) + 1
  PROVE  /\ Hole(s, i, colon, type, end).next = SkipAll(s, end, {Blank}) + 1
         /\ Hole(s, i, colon, type, end).next \in end + 1 .. Len(s) + 2
<1>1. SkipAll(s, end, {Blank}) \in end .. Len(s) + 1
  BY SkipAllFacts
<1>2. Hole(s, i, colon, type, end).next = SkipAll(s, end, {Blank}) + 1
  BY DEF Hole
<1> QED
  BY <1>1, <1>2

(* behind one with an argument,                                            *)
LEMMA ArgumentNext ==
  ASSUME NEW X, NEW s \in Seq(X), NEW i \in 1 .. Len(s) + 1, NEW colon \in i .. Len(s) + 1
  PROVE  ArgumentHole(s, i, colon).next \in i + 1 .. Len(s) + 2
<1>1. CASE CharAt(s, colon) = ":"
  <2>1. ":" # "end"
    OBVIOUS
  <2>2. colon <= Len(s) /\ colon + 1 \in 1 .. Len(s) + 1
    BY <1>1, <2>1, CharAtFacts
  <2> DEFINE type == BeforeType(s, colon + 1)
             end == BehindType(s, type)
  <2>3. Stops(s, colon + 1, type)
    BY <2>2, SpecStops
  <2> HIDE DEF type
  <2>4. type \in colon + 1 .. Len(s) + 1
    BY <2>3 DEF Stops
  <2>5. end \in type .. Len(s) + 1
    BY <2>2, <2>4, TypeFacts
  <2> HIDE DEF end
  <2>6. end \in 1 .. Len(s) + 1
    BY <2>2, <2>4, <2>5
  <2>7. Hole(s, i, colon, type, end).next \in end + 1 .. Len(s) + 2
    BY <2>6, HoleNext
  <2>8. ArgumentHole(s, i, colon) = Hole(s, i, colon, type, end)
    BY <1>1 DEF ArgumentHole, TypedHole, type, end
  <2> QED
    BY <2>2, <2>4, <2>5, <2>7, <2>8
<1>2. CASE CharAt(s, colon) # ":"
  <2>1. ArgumentHole(s, i, colon) = Hole(s, i, colon, colon, colon)
    BY <1>2 DEF ArgumentHole
  <2>2. Hole(s, i, colon, colon, colon).next \in colon + 1 .. Len(s) + 2
    BY HoleNext
  <2> QED
    BY <2>1, <2>2
<1> QED
  BY <1>1, <1>2

(* and behind any piece: always further on.                                *)
LEMMA PieceNext ==
  ASSUME NEW X, NEW s \in Seq(X), NEW i \in 1 .. Len(s)
  PROVE  PieceAt(s, i).next \in i + 1 .. Len(s) + 2
<1>1. CASE Doubled(s, i)
  <2>1. PieceAt(s, i).next = i + 2
    BY <1>1 DEF PieceAt, Literal, Doubled
  <2> QED
    BY <1>1, <2>1, DoubledFits
<1>2. CASE ~Doubled(s, i) /\ s[i] = Open
  <2> DEFINE colon == SkipAll(s, i + 1, NameChars)
  <2>1. colon \in i + 1 .. Len(s) + 1
    BY SkipAllFacts
  <2>2. PieceAt(s, i) = ArgumentHole(s, i + 1, colon)
    BY <1>2 DEF PieceAt, Doubled
  <2> HIDE DEF colon
  <2>3. i + 1 \in 1 .. Len(s) + 1
    OBVIOUS
  <2> DEFINE j == i + 1
  <2> HIDE DEF j
  <2>4. j \in 1 .. Len(s) + 1 /\ colon \in j .. Len(s) + 1
    BY <2>1, <2>3 DEF j
  <2>5. ArgumentHole(s, j, colon).next \in j + 1 .. Len(s) + 2
    BY <2>4, ArgumentNext
  <2>6. PieceAt(s, i).next \in j + 1 .. Len(s) + 2
    BY <2>2, <2>5 DEF j
  <2> QED
    BY <2>6 DEF j
<1>3. CASE ~Doubled(s, i) /\ s[i] # Open
  <2>1. PieceAt(s, i).next = i + 1
    BY <1>3 DEF PieceAt, Literal, Doubled
  <2> QED
    BY <2>1
<1> QED
  BY <1>1, <1>2, <1>3

(* What each of them makes of the string from each position on.            *)
Std(s) ==
  LET std[i \in 1 .. Len(s) + 2] ==
        IF i > Len(s) THEN [ok |-> TRUE, pieces |-> << >>, holes |-> << >>]
        ELSE LET first == PieceAt(s, i) IN Prepend(first, std[first.next])
  IN  std

PiecesIn(s) == {PieceAt(s, i).piece : i \in 1 .. Len(s)}
StdResults(s) == [ok : BOOLEAN, pieces : Seq(PiecesIn(s)), holes : Seq(PiecesIn(s))]
StdEnd == [ok |-> TRUE, pieces |-> << >>, holes |-> << >>]

(* A piece in front of a result of std is one.                             *)
LEMMA PrependTyped ==
  ASSUME NEW s, NEW i \in 1 .. Len(s), NEW r \in StdResults(s)
  PROVE  Prepend(PieceAt(s, i), r) \in StdResults(s)
<1> DEFINE p == PieceAt(s, i).piece
           P == PiecesIn(s)
<1>1. p \in P
  BY DEF PiecesIn
<1> HIDE DEF P, p
<1>2. r.pieces \in Seq(P) /\ r.holes \in Seq(P) /\ r \in [ok : BOOLEAN, pieces : Seq(P), holes : Seq(P)]
  BY DEF StdResults, P
<1>3. << p >> \o r.pieces \in Seq(P) /\ << p >> \o r.holes \in Seq(P) /\ << >> \in Seq(P)
  BY <1>1, <1>2
<1>4. Prepend(PieceAt(s, i), r) \in [ok : BOOLEAN, pieces : Seq(P), holes : Seq(P)]
  BY <1>2, <1>3 DEF Prepend, p
<1> QED
  BY <1>4 DEF StdResults, P

(* std's grammar is such a recursion: it reads a piece and goes on behind  *)
(* it.                                                                     *)
LEMMA StdJumps ==
  ASSUME NEW X, NEW s \in Seq(X)
  PROVE  /\ Std(s) \in [1 .. Len(s) + 2 -> StdResults(s)]
         /\ Std(s)[Len(s) + 1] = StdEnd /\ Std(s)[Len(s) + 2] = StdEnd
         /\ \A i \in 1 .. Len(s) :
              Std(s)[i] = Prepend(PieceAt(s, i), Std(s)[PieceAt(s, i).next])
<1> DEFINE n == Len(s)
           S == StdResults(s)
           next == [i \in 1 .. n |-> PieceAt(s, i).next]
           G == [p \in S \X (1 .. n) |-> Prepend(PieceAt(s, p[2]), p[1])]
<1>0. n \in Nat
  OBVIOUS
<1>1. G \in [S \X (1 .. n) -> S]
  BY PrependTyped
<1>2. StdEnd \in S
  <2>1. << >> \in Seq(PiecesIn(s))
    OBVIOUS
  <2> QED
    BY <2>1 DEF StdEnd, StdResults
<1>3. \A i \in 1 .. n : next[i] = PieceAt(s, i).next /\ next[i] \in i + 1 .. n + 2
  BY PieceNext
<1> HIDE DEF n, S, G, next
<1>4. PICK f \in [1 .. n + 2 -> S] : Jumps(f, n, StdEnd, G, next)
  <2>1. HasJumps(n, S, StdEnd, G, next)
    BY <1>0, <1>1, <1>2, <1>3, JumpsWork
  <2> QED
    BY <2>1 DEF HasJumps
<1>5. \A i \in 1 .. n : f[i] = Prepend(PieceAt(s, i), f[PieceAt(s, i).next])
  <2> SUFFICES ASSUME NEW i \in 1 .. n
               PROVE  f[i] = Prepend(PieceAt(s, i), f[PieceAt(s, i).next])
    OBVIOUS
  <2>1. next[i] \in 1 .. n + 2
    BY <1>0, <1>3
  <2>2. << f[next[i]], i >> \in S \X (1 .. n)
    BY <1>4, <2>1
  <2>3. f[i] = G[<< f[next[i]], i >>]
    BY <1>4 DEF Jumps
  <2> QED
    BY <1>3, <2>2, <2>3 DEF G
<1>6. f[n + 1] = StdEnd /\ f[n + 2] = StdEnd
  BY <1>4 DEF Jumps
<1>7. f = [i \in 1 .. n + 2 |->
             IF i > n THEN StdEnd
             ELSE Prepend(PieceAt(s, i), f[PieceAt(s, i).next])]
  <2>1. \A i \in 1 .. n + 2 : IF i > n THEN i = n + 1 \/ i = n + 2 ELSE i \in 1 .. n
    BY <1>0
  <2> QED
    BY <1>4, <1>5, <1>6, <2>1
<1> DEFINE W == Std(s)
<1>8. W = [i \in 1 .. n + 2 |->
             IF i > n THEN StdEnd
             ELSE Prepend(PieceAt(s, i), W[PieceAt(s, i).next])]
  BY <1>7 DEF Std, n, StdEnd
<1> HIDE DEF W
<1>9. /\ W[n + 1] = StdEnd /\ W[n + 2] = StdEnd
      /\ \A i \in 1 .. n : W[i] = Prepend(PieceAt(s, i), W[PieceAt(s, i).next])
  <2>1. /\ n + 1 \in 1 .. n + 2 /\ n + 2 \in 1 .. n + 2 /\ n + 1 > n /\ n + 2 > n
        /\ \A i \in 1 .. n : i \in 1 .. n + 2 /\ ~(i > n)
    BY <1>0
  <2> QED
    BY <1>8, <2>1
<1>10. \A i \in 1 .. n + 2 : W[i] \in S
  <2>1. ASSUME NEW i \in 1 .. n, W[next[i]] \in S PROVE W[i] \in S
    <3>1. W[i] = Prepend(PieceAt(s, i), W[next[i]])
      BY <1>3, <1>9
    <3> QED
      BY <2>1, <3>1, PrependTyped DEF n, S
  <2>2. \A i \in 1 .. n : next[i] \in i + 1 .. n + 2
    BY <1>3
  <2>3. W[n + 1] \in S /\ W[n + 2] \in S
    BY <1>2, <1>9
  <2> HIDE <1>9
  <2> QED
    BY <1>0, <2>1, <2>2, <2>3, JumpsKeep
<1>11. W \in [1 .. n + 2 -> S]
  BY <1>8, <1>10
<1> QED
  BY <1>9, <1>11 DEF W, n, S


Parse(s) ==
  LET parse[i \in 1 .. Len(s) + 2] ==
        IF i > Len(s) THEN [ok |-> TRUE, inners |-> << >>]
        ELSE IF s[i] \in Braces /\ CharAt(s, i + 1) = s[i] THEN parse[i + 2]
        ELSE IF s[i] # Open THEN parse[i + 1]
        ELSE LET close == CloseFrom(s, i + 1)
             IN  Parsed(SubSeq(s, i + 1, close - 1), parse[close + 1])
  IN  parse

InnerAt(s, i) == SubSeq(s, i + 1, CloseFrom(s, i + 1) - 1)
InnersIn(s) == {InnerAt(s, i) : i \in 1 .. Len(s)}

ParseResults(s) == [ok : BOOLEAN, inners : Seq(InnersIn(s))]
ParseEnd == [ok |-> TRUE, inners |-> << >>]

JumpAt(s, i) ==
  IF Doubled(s, i) THEN i + 2 ELSE IF s[i] # Open THEN i + 1
  ELSE CloseFrom(s, i + 1) + 1

ParseAt(s, i, rest) ==
  IF Doubled(s, i) \/ s[i] # Open THEN rest ELSE Parsed(InnerAt(s, i), rest)

(* The macro's parser too reads on further ahead.                          *)
LEMMA JumpsAhead ==
  ASSUME NEW X, NEW s \in Seq(X), NEW i \in 1 .. Len(s)
  PROVE  JumpAt(s, i) \in i + 1 .. Len(s) + 2
<1>1. CASE Doubled(s, i)
  BY <1>1, DoubledFits DEF JumpAt
<1>2. CASE ~Doubled(s, i) /\ s[i] # Open
  BY <1>2 DEF JumpAt
<1>3. CASE ~Doubled(s, i) /\ s[i] = Open
  <2>1. CloseFrom(s, i + 1) \in i + 1 .. Len(s) + 1
    BY CloseFromFacts
  <2> QED
    BY <1>3, <2>1 DEF JumpAt
<1> QED
  BY <1>1, <1>2, <1>3

(* An inner text in front of a result of the macro's parser is one.        *)
LEMMA ParseTyped ==
  ASSUME NEW X, NEW s \in Seq(X), NEW i \in 1 .. Len(s), NEW r \in ParseResults(s)
  PROVE  ParseAt(s, i, r) \in ParseResults(s)
<1> DEFINE I == InnersIn(s)
           inner == InnerAt(s, i)
<1>1. inner \in I
  BY DEF InnersIn
<1> HIDE DEF I, inner
<1>2. r \in [ok : BOOLEAN, inners : Seq(I)]
  BY DEF ParseResults, I
<1>3. << inner >> \o r.inners \in Seq(I) /\ << >> \in Seq(I)
  BY <1>1, <1>2
<1>4. Parsed(inner, r) \in [ok : BOOLEAN, inners : Seq(I)]
  BY <1>2, <1>3 DEF Parsed
<1> QED
  BY <1>2, <1>4 DEF ParseAt, ParseResults, I, inner

(* The macro's parser is such a recursion.                                 *)
LEMMA ParseJumps ==
  ASSUME NEW X, NEW s \in Seq(X)
  PROVE  /\ Parse(s) \in [1 .. Len(s) + 2 -> ParseResults(s)]
         /\ Parse(s)[Len(s) + 1] = ParseEnd /\ Parse(s)[Len(s) + 2] = ParseEnd
         /\ \A i \in 1 .. Len(s) :
              Parse(s)[i] = ParseAt(s, i, Parse(s)[JumpAt(s, i)])
<1> DEFINE n == Len(s)
           S == ParseResults(s)
           next == [i \in 1 .. n |-> JumpAt(s, i)]
           G == [p \in S \X (1 .. n) |-> ParseAt(s, p[2], p[1])]
<1>0. n \in Nat
  OBVIOUS
<1>1. G \in [S \X (1 .. n) -> S]
  BY ParseTyped
<1>2. ParseEnd \in S
  <2>1. << >> \in Seq(InnersIn(s))
    OBVIOUS
  <2> QED
    BY <2>1 DEF ParseEnd, ParseResults
<1>3. \A i \in 1 .. n : next[i] = JumpAt(s, i) /\ next[i] \in i + 1 .. n + 2
  BY JumpsAhead
<1> HIDE DEF n, S, G, next
<1>4. PICK f \in [1 .. n + 2 -> S] : Jumps(f, n, ParseEnd, G, next)
  <2>1. HasJumps(n, S, ParseEnd, G, next)
    BY <1>0, <1>1, <1>2, <1>3, JumpsWork
  <2> QED
    BY <2>1 DEF HasJumps
<1>5. \A i \in 1 .. n : f[i] = ParseAt(s, i, f[JumpAt(s, i)])
  <2> SUFFICES ASSUME NEW i \in 1 .. n
               PROVE  f[i] = ParseAt(s, i, f[JumpAt(s, i)])
    OBVIOUS
  <2>1. next[i] \in 1 .. n + 2
    BY <1>0, <1>3
  <2>2. << f[next[i]], i >> \in S \X (1 .. n)
    BY <1>4, <2>1
  <2>3. f[i] = G[<< f[next[i]], i >>]
    BY <1>4 DEF Jumps
  <2> QED
    BY <1>3, <2>2, <2>3 DEF G
<1>6. f[n + 1] = ParseEnd /\ f[n + 2] = ParseEnd
  BY <1>4 DEF Jumps
<1>7. f = [i \in 1 .. n + 2 |->
             IF i > n THEN ParseEnd
             ELSE IF s[i] \in Braces /\ CharAt(s, i + 1) = s[i] THEN f[i + 2]
             ELSE IF s[i] # Open THEN f[i + 1]
             ELSE Parsed(SubSeq(s, i + 1, CloseFrom(s, i + 1) - 1), f[CloseFrom(s, i + 1) + 1])]
  <2>1. \A i \in 1 .. n + 2 : IF i > n THEN i = n + 1 \/ i = n + 2 ELSE i \in 1 .. n
    BY <1>0
  <2>2. \A i \in 1 .. n :
          f[i] = IF s[i] \in Braces /\ CharAt(s, i + 1) = s[i] THEN f[i + 2]
                 ELSE IF s[i] # Open THEN f[i + 1]
                 ELSE Parsed(SubSeq(s, i + 1, CloseFrom(s, i + 1) - 1),
                             f[CloseFrom(s, i + 1) + 1])
    BY <1>5 DEF ParseAt, JumpAt, Doubled, InnerAt
  <2> QED
    BY <1>4, <1>6, <2>1, <2>2
<1> DEFINE W == Parse(s)
<1>8. W = [i \in 1 .. n + 2 |->
             IF i > n THEN ParseEnd
             ELSE IF s[i] \in Braces /\ CharAt(s, i + 1) = s[i] THEN W[i + 2]
             ELSE IF s[i] # Open THEN W[i + 1]
             ELSE Parsed(SubSeq(s, i + 1, CloseFrom(s, i + 1) - 1), W[CloseFrom(s, i + 1) + 1])]
  BY <1>7 DEF Parse, n, ParseEnd
<1> HIDE DEF W
<1>9. /\ W[n + 1] = ParseEnd /\ W[n + 2] = ParseEnd
      /\ \A i \in 1 .. n : W[i] = ParseAt(s, i, W[JumpAt(s, i)])
  <2>1. /\ n + 1 \in 1 .. n + 2 /\ n + 2 \in 1 .. n + 2 /\ n + 1 > n /\ n + 2 > n
        /\ \A i \in 1 .. n : i \in 1 .. n + 2 /\ ~(i > n)
    BY <1>0
  <2>2. W[n + 1] = ParseEnd /\ W[n + 2] = ParseEnd
    BY <1>8, <2>1
  <2>3. ASSUME NEW i \in 1 .. n PROVE W[i] = ParseAt(s, i, W[JumpAt(s, i)])
    <3>1. W[i] = IF s[i] \in Braces /\ CharAt(s, i + 1) = s[i] THEN W[i + 2]
                 ELSE IF s[i] # Open THEN W[i + 1]
                 ELSE Parsed(SubSeq(s, i + 1, CloseFrom(s, i + 1) - 1),
                             W[CloseFrom(s, i + 1) + 1])
      BY <1>8, <2>1
    <3> HIDE <1>8
    <3> QED
      BY <3>1 DEF ParseAt, JumpAt, Doubled, InnerAt
  <2> QED
    BY <2>2, <2>3
<1>10. \A i \in 1 .. n + 2 : W[i] \in S
  <2>1. ASSUME NEW i \in 1 .. n, W[next[i]] \in S PROVE W[i] \in S
    <3>1. W[i] = ParseAt(s, i, W[next[i]])
      BY <1>3, <1>9
    <3> QED
      BY <2>1, <3>1, ParseTyped DEF n, S
  <2>2. \A i \in 1 .. n : next[i] \in i + 1 .. n + 2
    BY <1>3
  <2>3. W[n + 1] \in S /\ W[n + 2] \in S
    BY <1>2, <1>9
  <2> HIDE <1>9
  <2> QED
    BY <1>0, <2>1, <2>2, <2>3, JumpsKeep
<1>11. W \in [1 .. n + 2 -> S]
  BY <1>8, <1>10
<1> QED
  BY <1>9, <1>11 DEF W, n, S

-----------------------------------------------------------------------------
(* A placeholder that both parsers read: they end it with the same brace,  *)
(* and std reads it alike in the format string of the stash closure.       *)

SameSlice(s, t, d, a, b) == SubSeq(t, a, b) = SubSeq(s, a + d, b + d)

(* A slice of a window is a slice of the string.                           *)
LEMMA SliceOfWindow ==
  ASSUME NEW X, NEW s \in Seq(X), NEW t \in Seq(X), NEW d, Window(s, t, d),
         NEW a \in 1 .. Len(t), NEW b \in a - 1 .. Len(t)
  PROVE  SameSlice(s, t, d, a, b)
<1> DEFINE x == SubSeq(t, a, b)
           y == SubSeq(s, a + d, b + d)
           n == b - a + 1
<1>1. d \in Nat /\ Len(t) + d <= Len(s) /\ n \in Nat
  BY DEF Window
<1>2. x \in Seq(X) /\ Len(x) = n /\ \A i \in 1 .. n : x[i] = t[a + i - 1]
  OBVIOUS
<1>3. y \in Seq(X) /\ Len(y) = n /\ \A i \in 1 .. n : y[i] = s[(a + d) + i - 1]
  BY <1>1
<1>4. \A i \in 1 .. n : a + i - 1 \in 1 .. Len(t) /\ (a + d) + i - 1 = (a + i - 1) + d
  BY <1>1
<1> HIDE DEF x, y, n
<1>5. \A i \in 1 .. n : x[i] = y[i]
  BY <1>2, <1>3, <1>4 DEF Window
<1>6. x = [i \in 1 .. n |-> x[i]] /\ y = [i \in 1 .. n |-> y[i]]
  BY <1>2, <1>3
<1> QED
  BY <1>5, <1>6 DEF SameSlice, x, y

(* The format string of the stash closure is the placeholder, cut out of   *)
(* the string.                                                             *)
LEMMA ClosureIsWindow ==
  ASSUME NEW X, NEW s \in Seq(X), NEW i \in 1 .. Len(s), NEW c \in i + 1 .. Len(s),
         s[i] = Open, s[c] = Close
  PROVE  /\ ClosureFmt(SubSeq(s, i + 1, c - 1)) \in Seq(X)
         /\ Len(ClosureFmt(SubSeq(s, i + 1, c - 1))) = c - i + 1
         /\ Window(s, ClosureFmt(SubSeq(s, i + 1, c - 1)), i - 1)
<1> DEFINE inner == SubSeq(s, i + 1, c - 1)
           n == c - 1 - i
           t == << Open >> \o inner \o << Close >>
<1>1. /\ inner \in Seq(X) /\ Len(inner) = n /\ n \in Nat
      /\ \A q \in 1 .. n : inner[q] = s[i + q]
  BY SMTT(30)
<1>2. Open \in X /\ Close \in X
  OBVIOUS
<1> HIDE DEF inner, n
<1> DEFINE first == << Open >>
           last == << Close >>
           u == first \o inner
<1>3. /\ first \in Seq(X) /\ Len(first) = 1 /\ first[1] = Open
      /\ last \in Seq(X) /\ Len(last) = 1 /\ last[1] = Close
  BY <1>2
<1>4. t = u \o last
  OBVIOUS
<1> HIDE DEF first, last
<1>5. /\ u \in Seq(X) /\ Len(u) = 1 + n
      /\ \A q \in 1 .. 1 + n : u[q] = IF q = 1 THEN Open ELSE inner[q - 1]
  <2>1. u \in Seq(X) /\ Len(u) = Len(first) + Len(inner)
    BY <1>1, <1>3, ConcatProperties
  <2>2. \A q \in 1 .. Len(first) + Len(inner) :
          u[q] = IF q <= Len(first) THEN first[q] ELSE inner[q - Len(first)]
    BY <1>1, <1>3, ConcatProperties
  <2> HIDE DEF u
  <2> QED
    BY <1>1, <1>3, <2>1, <2>2
<1> HIDE DEF u, t
<1>6. t \in Seq(X) /\ Len(t) = n + 2
  <2>1. t \in Seq(X) /\ Len(t) = Len(u) + Len(last)
    BY <1>3, <1>4, <1>5, ConcatProperties
  <2> QED
    BY <1>1, <1>3, <1>5, <2>1
<1>7. \A q \in 1 .. n + 2 : t[q] = IF q = n + 2 THEN Close ELSE u[q]
  <2>1. \A q \in 1 .. Len(u) + Len(last) :
          t[q] = IF q <= Len(u) THEN u[q] ELSE last[q - Len(u)]
    BY <1>3, <1>4, <1>5, ConcatProperties
  <2> HIDE <1>4
  <2> QED
    BY <1>1, <1>3, <1>5, <2>1
<1>8. ASSUME NEW q \in 1 .. Len(t) PROVE t[q] = s[q + (i - 1)]
  <2>1. CASE q = 1
    BY <1>1, <1>5, <1>6, <1>7, <2>1, SMTT(30)
  <2>2. CASE q = n + 2
    BY <1>1, <1>7, <2>2 DEF n
  <2>3. CASE q # 1 /\ q # n + 2
    <3>1. q \in 1 .. 1 + n /\ q - 1 \in 1 .. n /\ i + (q - 1) = q + (i - 1)
      BY <1>1, <1>6, <2>3
    <3>2. t[q] = inner[q - 1]
      <4>1. t[q] = u[q]
        BY <1>1, <1>6, <1>7, <2>3
      <4> QED
        BY <1>5, <2>3, <3>1, <4>1
    <3> QED
      BY <1>1, <3>1, <3>2
  <2> QED
    BY <2>1, <2>2, <2>3
<1>9. Window(s, t, i - 1)
  BY <1>6, <1>8 DEF Window, n
<1>10. ClosureFmt(inner) = t
  BY DEF ClosureFmt, t, first, last
<1> QED
  BY <1>6, <1>9, <1>10 DEF n, inner

SameHole(s, t, d, i, type, end) ==
  Hole(t, i, i, type, end) =
    [ok |-> TRUE, next |-> Len(t) + 1,
     piece |-> Hole(s, i + d, i + d, type + d, end + d).piece]

(* A placeholder that ends with the window is the same in the window.      *)
LEMMA HoleInWindow ==
  ASSUME NEW X, NEW s \in Seq(X), NEW t \in Seq(X), NEW d, Window(s, t, d),
         NEW i \in 1 .. Len(t), NEW type \in i .. Len(t), NEW end \in type .. Len(t),
         SkipAll(s, end + d, {Blank}) = Len(t) + d, s[Len(t) + d] = Close
  PROVE  SameHole(s, t, d, i, type, end)
<1>1. d \in Nat /\ Len(t) + d <= Len(s) /\ Len(t) \in 1 .. Len(t)
  BY DEF Window
<1>2. SkipAll(t, end, {Blank}) + d = Len(t) + d
  BY <1>1, AllInWindow
<1>3. SkipAll(t, end, {Blank}) \in end .. Len(t) + 1
  BY SkipAllFacts
<1>4. SkipAll(t, end, {Blank}) = Len(t)
  BY <1>1, <1>2, <1>3
<1>5. CharAt(t, Len(t)) = Close
  <2>1. t[Len(t)] = s[Len(t) + d]
    BY <1>1 DEF Window
  <2> QED
    BY <1>1, <2>1, CharAtFacts
<1>6. SubSeq(t, i, end - 1) = SubSeq(s, i + d, (end + d) - 1)
  <2>1. end - 1 \in i - 1 .. Len(t) /\ (end - 1) + d = (end + d) - 1
    BY <1>1
  <2> DEFINE b == end - 1
  <2>2. b \in i - 1 .. Len(t) /\ i \in 1 .. Len(t)
    BY <2>1
  <2> HIDE DEF b
  <2>3. SameSlice(s, t, d, i, b)
    BY <2>2, SliceOfWindow
  <2> QED
    BY <2>1, <2>3 DEF b, SameSlice
<1>7. end > type => t[end - 1] = s[(end + d) - 1]
  <2>1. end > type => end - 1 \in 1 .. Len(t) /\ (end - 1) + d = (end + d) - 1
    BY <1>1
  <2> QED
    BY <2>1 DEF Window
<1>8. (end + d > type + d) = (end > type) /\ ~(i > i) /\ ~(i + d > i + d)
  BY <1>1
<1> DEFINE spec == SubSeq(t, i, end - 1)
           trait == IF end > type THEN TypeChar[t[end - 1]] ELSE "Display"
           spec1 == SubSeq(s, i + d, (end + d) - 1)
           trait1 == IF end + d > type + d THEN TypeChar[s[(end + d) - 1]] ELSE "Display"
<1>9. Hole(t, i, i, type, end) =
        [ok |-> CharAt(t, SkipAll(t, end, {Blank})) = Close,
         next |-> SkipAll(t, end, {Blank}) + 1,
         piece |-> [hole |-> TRUE, char |-> "none", explicit |-> i > i,
                    spec |-> spec, trait |-> trait]]
  BY Zenon DEF Hole
<1>10. Hole(s, i + d, i + d, type + d, end + d).piece =
         [hole |-> TRUE, char |-> "none", explicit |-> i + d > i + d,
          spec |-> spec1, trait |-> trait1]
  BY DEF Hole
<1>11. spec = spec1 /\ trait = trait1
  BY <1>6, <1>7, <1>8
<1> HIDE DEF spec, spec1, trait, trait1
<1>12. (i > i) = FALSE /\ (i + d > i + d) = FALSE
  BY <1>8
<1>13. Hole(t, i, i, type, end) =
         [ok |-> TRUE, next |-> Len(t) + 1,
          piece |-> Hole(s, i + d, i + d, type + d, end + d).piece]
  BY <1>4, <1>5, <1>9, <1>10, <1>11, <1>12
<1> QED
  BY <1>13 DEF SameHole

(* The brace at which std ends a placeholder is the first one, so the      *)
(* macro's parser ends it there too.                                       *)
LEMMA EndsAtFirstBrace ==
  ASSUME NEW X, NEW s \in Seq(X), NEW i \in 1 .. Len(s), NEW end \in i + 1 .. Len(s) + 1,
         CharAt(s, SkipAll(s, end, {Blank})) = Close,
         Close \notin ToSet(SubSeq(s, i + 1, end - 1))
  PROVE  /\ SkipAll(s, end, {Blank}) \in end .. Len(s)
         /\ s[SkipAll(s, end, {Blank})] = Close
         /\ CloseFrom(s, i + 1) = SkipAll(s, end, {Blank})
         /\ SkipAll(s, end, {Blank}) > end => s[SkipAll(s, end, {Blank}) - 1] = Blank
<1> DEFINE c == SkipAll(s, end, {Blank})
           spec == SubSeq(s, i + 1, end - 1)
           n == end - 1 - i
<1>1. c \in end .. Len(s) + 1 /\ \A j \in end .. c - 1 : s[j] = Blank
  BY SkipAllFacts
<1>2. CharAt(s, c) = Close
  OBVIOUS
<1>3. n \in Nat /\ Len(spec) = n /\ spec \in Seq(X) /\ \A q \in 1 .. n : spec[q] = s[i + q]
  OBVIOUS
<1> HIDE DEF c, spec
<1>4. c \in end .. Len(s) /\ s[c] = Close
  <2>1. Close # "end"
    BY BracesDiffer
  <2> QED
    BY <1>1, <1>2, <2>1, CharAtFacts
<1>5. ASSUME NEW j \in i + 1 .. c - 1 PROVE s[j] # Close
  <2>1. CASE j >= end
    BY <1>1, <1>4, <2>1, BracesDiffer
  <2>2. CASE ~(j >= end)
    <3>1. j - i \in 1 .. n /\ i + (j - i) = j
      BY <1>4, <2>2
    <3>2. spec[j - i] = s[j] /\ j - i \in DOMAIN spec
      BY <1>3, <3>1
    <3> QED
      BY <3>2 DEF ToSet, spec
  <2> QED
    BY <2>1, <2>2
<1>6. CloseFrom(s, i + 1) = c
  <2>1. i + 1 \in 1 .. Len(s) + 1 /\ c \in i + 1 .. Len(s)
    BY <1>4
  <2> QED
    BY <1>4, <1>5, <2>1, CloseFromIs
<1>7. c > end => s[c - 1] = Blank
  <2>1. c > end => c - 1 \in end .. c - 1
    BY <1>4
  <2> QED
    BY <1>1, <2>1
<1> QED
  BY <1>4, <1>6, <1>7 DEF c

(* What is between the braces, when it begins with the colon or is empty.  *)
LEMMA SpecFromColon ==
  ASSUME NEW X, NEW inner \in Seq(X), Len(inner) > 0, inner[1] = ":"
  PROVE  /\ ArgPart(inner) = << >>
         /\ TraitOf(inner) = IF inner[Len(inner)] \in DOMAIN TypeChar
                             THEN TypeChar[inner[Len(inner)]] ELSE "Display"
<1> DEFINE I == {j \in 1 .. Len(inner) : inner[j] = ":"}
           m == Min(I)
<1>1. SpecStart(inner) = LET colon == IF I # {} THEN m ELSE 0
                         IN  IF colon = 0 THEN Len(inner) + 1 ELSE colon
  BY DEF SpecStart, SelectInSeq
<1>2. 1 \in I /\ I \subseteq Nat
  OBVIOUS
<1>3. m \in I /\ \A j \in I : m <= j
  <2>1. I # {}
    BY <1>2
  <2> HIDE DEF I
  <2> QED
    BY <1>2, <2>1, LeastOf
<1>4. m = 1
  <2>1. m \in 1 .. Len(inner) /\ m <= 1
    BY <1>2, <1>3
  <2> HIDE DEF m
  <2> QED
    BY <2>1
<1> HIDE DEF I, m
<1>5. SpecStart(inner) = 1
  BY <1>1, <1>2, <1>4
<1>6. SubSeq(inner, 1, 0) = << >>
  OBVIOUS
<1>7. SubSeq(inner, 1, Len(inner)) = inner
  OBVIOUS
<1>8. inner # << >>
  OBVIOUS
<1>9. TraitOf(inner) = FormatTraitFromSpec(inner)
  BY <1>5, <1>7 DEF TraitOf
<1>10. ArgPart(inner) = SubSeq(inner, 1, 1 - 1)
  BY <1>5 DEF ArgPart
<1> QED
  BY <1>6, <1>8, <1>9, <1>10 DEF FormatTraitFromSpec, Last

(* An empty placeholder has no argument and means Display.                 *)
LEMMA NothingBetweenBraces ==
  ArgPart(<< >>) = << >> /\ TraitOf(<< >>) = "Display"
<1>1. SpecStart(<< >>) = 1
  BY DEF SpecStart, SelectInSeq
<1>2. ArgPart(<< >>) = SubSeq(<< >>, 1, 1 - 1) /\ TraitOf(<< >>) = FormatTraitFromSpec(SubSeq(<< >>, 1, Len(<< >>)))
  BY <1>1 DEF ArgPart, TraitOf
<1>3. SubSeq(<< >>, 1, 1 - 1) = << >> /\ SubSeq(<< >>, 1, Len(<< >>)) = << >>
  OBVIOUS
<1> QED
  BY <1>2, <1>3 DEF FormatTraitFromSpec

(* A placeholder without an argument before the colon: type is where its   *)
(* type may stand and end what is behind it.                               *)
TypeOf(s, i) == IF CharAt(s, i + 1) = ":" THEN BeforeType(s, i + 2) ELSE i + 1
EndOf(s, i) == IF CharAt(s, i + 1) = ":" THEN BehindType(s, TypeOf(s, i)) ELSE i + 1

(* Where the type of a placeholder stands, and what is around it.          *)
LEMMA PlaceOfSpec ==
  ASSUME NEW X, NEW s \in Seq(X), NEW i \in 1 .. Len(s)
  PROVE  /\ TypeOf(s, i) \in i + 1 .. Len(s) + 1
         /\ EndOf(s, i) \in TypeOf(s, i) .. Len(s) + 1
         /\ CharAt(s, i + 1) = ":" => TypeOf(s, i) >= i + 2
         /\ CharAt(s, i + 1) = ":" => s[TypeOf(s, i) - 1] \notin DOMAIN TypeChar
         /\ EndOf(s, i) > TypeOf(s, i) => s[EndOf(s, i) - 1] \in DOMAIN TypeChar
<1>1. CASE CharAt(s, i + 1) = ":"
  <2>1. ":" # "end"
    OBVIOUS
  <2>2. i + 1 \in 1 .. Len(s) /\ s[i + 1] = ":" /\ i + 2 \in 1 .. Len(s) + 1
    BY <1>1, <2>1, CharAtFacts
  <2> DEFINE type == BeforeType(s, i + 2)
             end == BehindType(s, type)
  <2>3. Stops(s, i + 2, type)
    BY <2>2, SpecStops
  <2> HIDE DEF type
  <2>4. type \in i + 2 .. Len(s) + 1 /\ (type > i + 2 => s[type - 1] \notin DOMAIN TypeChar)
    BY <2>3 DEF Stops
  <2>5. s[(i + 2) - 1] \notin DOMAIN TypeChar
    <3>1. ":" \notin DOMAIN TypeChar
      BY OnlyTypesAreTypes
    <3> QED
      BY <2>2, <3>1
  <2>6. s[type - 1] \notin DOMAIN TypeChar
    BY <2>4, <2>5
  <2>7. end \in type .. Len(s) + 1 /\ (end > type => s[end - 1] \in DOMAIN TypeChar)
    BY <2>2, <2>4, TypeFacts
  <2>8. TypeOf(s, i) = type /\ EndOf(s, i) = end
    BY <1>1 DEF TypeOf, EndOf, type
  <2> HIDE DEF end
  <2> QED
    BY <2>4, <2>6, <2>7, <2>8
<1>2. CASE CharAt(s, i + 1) # ":"
  BY <1>2 DEF TypeOf, EndOf
<1> QED
  BY <1>1, <1>2

(* A placeholder without an argument, as std reads it.                     *)
LEMMA PieceIsHole ==
  ASSUME NEW X, NEW s \in Seq(X), NEW i \in 1 .. Len(s), s[i] = Open, ~Doubled(s, i),
         SkipAll(s, i + 1, NameChars) = i + 1
  PROVE  PieceAt(s, i) = Hole(s, i + 1, i + 1, TypeOf(s, i), EndOf(s, i))
<1>1. PieceAt(s, i) = ArgumentHole(s, i + 1, i + 1)
  BY DEF PieceAt, Doubled
<1>2. (i + 1) + 1 = i + 2
  OBVIOUS
<1> QED
  BY <1>1, <1>2 DEF ArgumentHole, TypedHole, TypeOf, EndOf

(* Where std finds no argument there is no name.                           *)
LEMMA ImplicitHole ==
  ASSUME NEW X, NEW s \in Seq(X), NEW i \in 1 .. Len(s), s[i] = Open, ~Doubled(s, i),
         ~PieceAt(s, i).piece.explicit
  PROVE  SkipAll(s, i + 1, NameChars) = i + 1
<1> DEFINE colon == SkipAll(s, i + 1, NameChars)
<1>1. colon \in i + 1 .. Len(s) + 1
  BY SkipAllFacts
<1>2. PieceAt(s, i) = ArgumentHole(s, i + 1, colon)
  BY DEF PieceAt, Doubled
<1> HIDE DEF colon
<1>3. PieceAt(s, i).piece.explicit = (colon > i + 1)
  BY <1>2 DEF ArgumentHole, TypedHole, Hole
<1>4. ~(colon > i + 1)
  BY <1>3
<1>5. colon = i + 1
  BY <1>1, <1>4
<1> QED
  BY <1>5 DEF colon

(* What the macro makes of a placeholder that std reads.                   *)
Alone(t, hole) == StdFormat(t) = [ok |-> TRUE, pieces |-> << hole >>, holes |-> << hole >>]

ReadAlike(s, i) ==
  LET p == PieceAt(s, i)
      inner == InnerAt(s, i)
  IN  /\ JumpAt(s, i) = p.next /\ p.next - 1 \in i + 1 .. Len(s)
      /\ s[p.next - 1] = Close
      /\ p.piece.hole
      /\ Alone(ClosureFmt(inner), p.piece)
      /\ s[p.next - 2] # Blank =>
           ArgPart(inner) = << >> /\ p.piece.trait = TraitOf(inner)

OnePiece(t, piece) ==
  PieceAt(t, 1).ok /\ PieceAt(t, 1).next = Len(t) + 1 /\ PieceAt(t, 1).piece = piece

(* A string that is one placeholder is read as that placeholder.           *)
LEMMA AloneInString ==
  ASSUME NEW X, NEW t \in Seq(X), Len(t) > 0, NEW hole, OnePiece(t, hole), hole.hole
  PROVE  Alone(t, hole)
<1> DEFINE p == PieceAt(t, 1)
<1>1. 1 \in 1 .. Len(t)
  OBVIOUS
<1>2. Std(t)[Len(t) + 1] = StdEnd /\ Std(t)[1] = Prepend(p, Std(t)[p.next])
  BY <1>1, StdJumps
<1>3. p.ok /\ p.next = Len(t) + 1 /\ p.piece = hole
  BY DEF OnePiece
<1> HIDE DEF p
<1>4. Std(t)[1] = Prepend(p, StdEnd)
  BY <1>2, <1>3
<1>5. StdFormat(t) = Std(t)[1]
  BY DEF StdFormat, Std
<1>6. << hole >> \o << >> = << hole >>
  OBVIOUS
<1>7. Prepend(p, StdEnd) = [ok |-> TRUE, pieces |-> << hole >> \o << >>,
                            holes |-> << hole >> \o << >>]
  BY <1>3 DEF Prepend, StdEnd
<1> QED
  BY <1>4, <1>5, <1>6, <1>7 DEF Alone

(* A placeholder read in the string and read in its window is one piece.   *)
LEMMA PieceInWindow ==
  ASSUME NEW X, NEW s \in Seq(X), NEW i \in 1 .. Len(s), s[i] = Open, ~Doubled(s, i),
         SkipAll(s, i + 1, NameChars) = i + 1,
         NEW c \in EndOf(s, i) .. Len(s), SkipAll(s, EndOf(s, i), {Blank}) = c, s[c] = Close,
         NEW t \in Seq(X), Window(s, t, i - 1), Len(t) = c - i + 1
  PROVE  OnePiece(t, PieceAt(s, i).piece)
<1> DEFINE d == i - 1
           type == TypeOf(s, i)
           end == EndOf(s, i)
<1>1. /\ type \in i + 1 .. Len(s) + 1 /\ end \in type .. Len(s) + 1
      /\ CharAt(s, i + 1) = ":" => type >= i + 2
  BY PlaceOfSpec
<1>2. /\ d \in Nat /\ Len(t) + d = c /\ i = 1 + d /\ c \in end .. Len(s)
      /\ 2 \in 1 .. Len(t) /\ 1 \in 1 .. Len(t) /\ 2 + d = i + 1 /\ 3 + d = i + 2
  BY <1>1
<1>3. type - d \in 2 .. Len(t) /\ end - d \in type - d .. Len(t)
      /\ type - d + d = type /\ end - d + d = end
  BY <1>1, <1>2, SMTT(30)
<1>4. Window(s, t, d)
  OBVIOUS
<1> HIDE DEF d
<1>5. t[1] = Open
  BY <1>2, <1>4 DEF Window
<1>6. CharAt(t, 2) = CharAt(s, i + 1)
  <2>1. 2 \in Nat \ {0} /\ 2 <= Len(t)
    BY <1>2
  <2>2. CharAt(t, 2) = CharAt(s, 2 + d)
    BY <1>4, <2>1, CharInWindow
  <2> QED
    BY <1>2, <2>2
<1>7. ~Doubled(t, 1)
  <2>1. CharAt(s, i + 1) # Open
    BY DEF Doubled, Braces
  <2>2. 1 + 1 = 2
    OBVIOUS
  <2> QED
    BY <1>5, <1>6, <2>1, <2>2 DEF Doubled
<1>8. SkipAll(t, 1 + 1, NameChars) = 1 + 1
  <2>1. SkipAll(s, 2 + d, NameChars) = 2 + d /\ 2 + d <= Len(t) + d
    BY <1>2
  <2>2. SkipAll(t, 2, NameChars) + d = 2 + d
    BY <1>2, <1>4, <2>1, AllInWindow
  <2>3. SkipAll(t, 2, NameChars) \in 2 .. Len(t) + 1
    <3>1. 2 \in 1 .. Len(t) + 1
      BY <1>2
    <3> QED
      BY <3>1, SkipAllFacts
  <2> QED
    BY <1>2, <2>2, <2>3
<1>9. PieceAt(t, 1) = Hole(t, 1 + 1, 1 + 1, TypeOf(t, 1), EndOf(t, 1))
  BY <1>2, <1>5, <1>7, <1>8, PieceIsHole
<1>10. TypeOf(t, 1) = type - d /\ EndOf(t, 1) = end - d
  <2>1. CASE CharAt(s, i + 1) = ":"
    <3>1. type = BeforeType(s, 3 + d) /\ end = BehindType(s, type)
      BY <1>2, <2>1 DEF TypeOf, EndOf
    <3>2. 3 \in 1 .. Len(t) /\ type <= Len(t) + d /\ end <= Len(t) + d
      BY <1>1, <1>2, <2>1
    <3>3. BeforeType(t, 3) + d = type
      BY <1>4, <3>1, <3>2, SpecInWindow
    <3>4. Stops(t, 3, BeforeType(t, 3))
      <4>1. 3 \in 1 .. Len(t) + 1
        BY <3>2
      <4> QED
        BY <4>1, SpecStops
    <3>5. BeforeType(t, 3) = type - d
      <4> DEFINE b == BeforeType(t, 3)
      <4>1. b \in 3 .. Len(t) + 1 /\ b + d = type
        BY <3>3, <3>4 DEF Stops
      <4> HIDE DEF b, type
      <4>2. b = type - d
        BY <1>2, <4>1
      <4> QED
        BY <4>2 DEF b
    <3> DEFINE q == type - d
    <3>6. q \in 1 .. Len(t) /\ q + d = type
      BY <1>3
    <3> HIDE DEF q, type
    <3>7. BehindType(t, q) + d = end
      <4>1. BehindType(s, q + d) = end
        BY <3>1, <3>6
      <4> HIDE DEF end
      <4> QED
        BY <1>4, <3>2, <3>6, <4>1, TypeInWindow
    <3>8. BehindType(t, q) \in q .. Len(t) + 1
      <4>1. q \in 1 .. Len(t) + 1
        BY <3>6
      <4> QED
        BY <4>1, TypeFacts
    <3>9. BehindType(t, q) = end - d
      <4> DEFINE b == BehindType(t, q)
      <4>1. b \in q .. Len(t) + 1 /\ b + d = end
        BY <3>7, <3>8
      <4> HIDE DEF b, end
      <4>2. b = end - d
        BY <1>2, <3>6, <4>1
      <4> QED
        BY <4>2 DEF b
    <3>10. TypeOf(t, 1) = BeforeType(t, 3) /\ EndOf(t, 1) = BehindType(t, TypeOf(t, 1))
      <4>1. 1 + 1 = 2 /\ 1 + 2 = 3
        OBVIOUS
      <4>2. CharAt(t, 1 + 1) = ":"
        BY <1>6, <2>1, <4>1
      <4> QED
        BY <4>1, <4>2 DEF TypeOf, EndOf
    <3> QED
      BY <3>5, <3>9, <3>10 DEF q
  <2>2. CASE CharAt(s, i + 1) # ":"
    <3>1. type = i + 1 /\ end = i + 1
      BY <2>2 DEF TypeOf, EndOf
    <3>2. 1 + 1 = 2 /\ i + 1 - d = 2
      BY <1>2
    <3>3. TypeOf(t, 1) = 1 + 1 /\ EndOf(t, 1) = 1 + 1
      BY <1>6, <2>2, <3>2 DEF TypeOf, EndOf
    <3> HIDE DEF type, end
    <3>4. type - d = 2 /\ end - d = 2
      BY <1>2, <3>1, <3>2
    <3> QED
      BY <3>2, <3>3, <3>4
  <2> QED
    BY <2>1, <2>2
<1>11. PieceAt(s, i) = Hole(s, i + 1, i + 1, type, end)
  BY PieceIsHole
<1> DEFINE ty == type - d
           en == end - d
<1>12. ty \in 2 .. Len(t) /\ en \in ty .. Len(t) /\ ty + d = type /\ en + d = end
  BY <1>3
<1>13. SkipAll(s, en + d, {Blank}) = Len(t) + d /\ s[Len(t) + d] = Close
  BY <1>2, <1>12
<1>14. PieceAt(t, 1) = Hole(t, 2, 2, ty, en)
  <2>1. 1 + 1 = 2
    OBVIOUS
  <2> QED
    BY <1>9, <1>10, <2>1
<1>15. PieceAt(s, i) = Hole(s, 2 + d, 2 + d, ty + d, en + d)
  BY <1>2, <1>11, <1>12
<1> HIDE DEF ty, en, type, end
<1>16. Hole(t, 2, 2, ty, en) =
         [ok |-> TRUE, next |-> Len(t) + 1,
          piece |-> Hole(s, 2 + d, 2 + d, ty + d, en + d).piece]
  <2> DEFINE j == 2
  <2>1. j \in 1 .. Len(t) /\ ty \in j .. Len(t)
    BY <1>2, <1>12
  <2> HIDE DEF j
  <2>2. SameHole(s, t, d, j, ty, en)
    BY <1>4, <1>12, <1>13, <2>1, HoleInWindow
  <2> QED
    BY <2>2 DEF SameHole, j
<1> QED
  BY <1>14, <1>15, <1>16, SMTT(30) DEF OnePiece

(* A placeholder that std takes without an argument, and with no brace in  *)
(* its spec: the macro's parser ends it with the same brace; if no blank   *)
(* is before that brace it finds the same trait; and the closure's string  *)
(* formats with the same spec.                                             *)
LEMMA PlaceholdersReadAlike ==
  ASSUME NEW X, NEW s \in Seq(X), NEW i \in 1 .. Len(s), s[i] = Open, ~Doubled(s, i),
         PieceAt(s, i).ok, ~PieceAt(s, i).piece.explicit,
         Close \notin ToSet(PieceAt(s, i).piece.spec)
  PROVE  ReadAlike(s, i)
<1> DEFINE p == PieceAt(s, i)
           type == TypeOf(s, i)
           end == EndOf(s, i)
           c == SkipAll(s, end, {Blank})
           inner == SubSeq(s, i + 1, c - 1)
           t == ClosureFmt(inner)
<1>1. SkipAll(s, i + 1, NameChars) = i + 1
  BY ImplicitHole
<1>2. p = Hole(s, i + 1, i + 1, type, end)
  BY <1>1, PieceIsHole
<1>3. /\ type \in i + 1 .. Len(s) + 1 /\ end \in type .. Len(s) + 1
      /\ CharAt(s, i + 1) = ":" => type >= i + 2 /\ s[type - 1] \notin DOMAIN TypeChar
      /\ end > type => s[end - 1] \in DOMAIN TypeChar
  BY PlaceOfSpec
<1>4. /\ p.ok => CharAt(s, c) = Close
      /\ p.next = c + 1 /\ p.piece.hole
      /\ p.piece.spec = SubSeq(s, i + 1, end - 1)
      /\ p.piece.trait = IF end > type THEN TypeChar[s[end - 1]] ELSE "Display"
  <2> DEFINE spec == SubSeq(s, i + 1, end - 1)
             trait == IF end > type THEN TypeChar[s[end - 1]] ELSE "Display"
  <2>1. Hole(s, i + 1, i + 1, type, end) =
          [ok |-> CharAt(s, c) = Close, next |-> c + 1,
           piece |-> [hole |-> TRUE, char |-> "none", explicit |-> i + 1 > i + 1,
                      spec |-> spec, trait |-> trait]]
    BY Zenon DEF Hole
  <2> HIDE DEF spec, trait, p, c
  <2>2. p = [ok |-> CharAt(s, c) = Close, next |-> c + 1,
             piece |-> [hole |-> TRUE, char |-> "none", explicit |-> i + 1 > i + 1,
                        spec |-> spec, trait |-> trait]]
    BY <1>2, <2>1
  <2>3. /\ p.ok => CharAt(s, c) = Close
        /\ p.next = c + 1 /\ p.piece.hole
        /\ p.piece.spec = spec /\ p.piece.trait = trait
    BY <2>2
  <2> QED
    BY <2>3 DEF spec, trait
<1>5. p.ok /\ Close \notin ToSet(p.piece.spec)
  OBVIOUS
<1>6. /\ c \in end .. Len(s) /\ s[c] = Close /\ CloseFrom(s, i + 1) = c
      /\ c > end => s[c - 1] = Blank
  <2>1. end \in i + 1 .. Len(s) + 1
    BY <1>3
  <2>2. CharAt(s, c) = Close /\ Close \notin ToSet(SubSeq(s, i + 1, end - 1))
    BY <1>4, <1>5
  <2> HIDE DEF p, type, end
  <2> QED
    BY <2>1, <2>2, EndsAtFirstBrace
<1>7. InnerAt(s, i) = inner /\ JumpAt(s, i) = c + 1
  BY <1>6 DEF InnerAt, JumpAt
<1>8. c \in i + 1 .. Len(s) /\ c - 1 \in Nat /\ i \in Nat
  BY <1>3, <1>6
<1>9. t \in Seq(X) /\ Len(t) = c - i + 1 /\ Window(s, t, i - 1)
  <2> HIDE DEF c
  <2> QED
    BY <1>6, <1>8, ClosureIsWindow
<1>10. OnePiece(t, p.piece)
  <2>1. c \in EndOf(s, i) .. Len(s) /\ SkipAll(s, EndOf(s, i), {Blank}) = c /\ s[c] = Close
    BY <1>6
  <2> HIDE DEF c, t
  <2> QED
    BY <1>1, <1>9, <2>1, PieceInWindow DEF p
<1>11. Alone(t, p.piece)
  <2>1. Len(t) > 0
    BY <1>8, <1>9
  <2> HIDE DEF t, p
  <2> QED
    BY <1>4, <1>9, <1>10, <2>1, AloneInString
<1>12. ASSUME s[c - 1] # Blank
       PROVE  ArgPart(inner) = << >> /\ p.piece.trait = TraitOf(inner)
  <2>1. c = end
    BY <1>3, <1>6, <1>12
  <2>2. CASE CharAt(s, i + 1) = ":"
    <3> DEFINE n == c - 1 - i
    <3>1. type >= i + 2 /\ s[type - 1] \notin DOMAIN TypeChar /\ n \in Nat /\ n > 0
      <4> HIDE DEF type, end, c
      <4> QED
        BY <1>3, <1>8, <2>1, <2>2
    <3>2. inner \in Seq(X) /\ Len(inner) = n /\ \A q \in 1 .. n : inner[q] = s[i + q]
      <4> HIDE DEF c
      <4> QED
        BY <1>8, <3>1, SMTT(30)
    <3>3. inner[1] = s[i + 1] /\ inner[Len(inner)] = s[end - 1]
      <4> HIDE DEF inner, type, end, c
      <4>1. 1 \in 1 .. n /\ n \in 1 .. n /\ i + n = end - 1
        BY <1>3, <1>8, <2>1, <3>1
      <4> HIDE DEF n
      <4> QED
        BY <3>2, <4>1
    <3>4. s[i + 1] = ":"
      <4>1. i + 1 \in 1 .. Len(s)
        BY <1>8
      <4> QED
        BY <2>2, <4>1, CharAtFacts
    <3> HIDE DEF inner, n
    <3>5. /\ ArgPart(inner) = << >>
          /\ TraitOf(inner) = IF s[end - 1] \in DOMAIN TypeChar
                              THEN TypeChar[s[end - 1]] ELSE "Display"
      <4>1. Len(inner) > 0 /\ inner[1] = ":"
        BY <3>1, <3>2, <3>3, <3>4
      <4>2. /\ ArgPart(inner) = << >>
            /\ TraitOf(inner) = IF inner[Len(inner)] \in DOMAIN TypeChar
                                THEN TypeChar[inner[Len(inner)]] ELSE "Display"
        BY <3>2, <4>1, SpecFromColon
      <4> QED
        BY <3>3, <4>2
    <3>6. p.piece.trait = TraitOf(inner)
      <4> HIDE DEF p, type, end
      <4>1. CASE end > type
        BY <1>3, <1>4, <3>5, <4>1
      <4>2. CASE ~(end > type)
        <5>1. end = type
          BY <1>3, <4>2
        <5> QED
          BY <1>4, <3>1, <3>5, <4>2, <5>1
      <4> QED
        BY <4>1, <4>2
    <3> QED
      BY <3>5, <3>6
  <2>3. CASE CharAt(s, i + 1) # ":"
    <3>1. type = i + 1 /\ end = i + 1
      BY <2>3 DEF TypeOf, EndOf
    <3>2. inner = << >>
      <4> HIDE DEF c, end
      <4>1. c = i + 1
        BY <2>1, <3>1
      <4> QED
        BY <4>1
    <3>3. p.piece.trait = "Display"
      <4> HIDE DEF p, type, end
      <4>1. ~(end > type)
        BY <3>1
      <4> QED
        BY <1>4, <4>1
    <3> HIDE DEF inner, p
    <3> QED
      BY <3>2, <3>3, NothingBetweenBraces
  <2> QED
    BY <2>2, <2>3
<1> HIDE DEF p, c, inner, t, type, end
<1>13. p.next - 1 = c /\ p.next - 2 = c - 1
  BY <1>4, <1>8
<1>14. /\ JumpAt(s, i) = p.next /\ p.next - 1 \in i + 1 .. Len(s)
       /\ s[p.next - 1] = Close /\ p.piece.hole
  BY <1>4, <1>6, <1>7, <1>8, <1>13
<1>15. s[p.next - 2] # Blank => ArgPart(inner) = << >> /\ p.piece.trait = TraitOf(inner)
  BY <1>12, <1>13
<1>16. Alone(ClosureFmt(inner), p.piece)
  BY <1>11 DEF t
<1> QED
  BY <1>7, <1>14, <1>15, <1>16 DEF ReadAlike, p

-----------------------------------------------------------------------------
(* The parsers agree on every string.                                      *)

Implicit(r) == \A k \in 1 .. Len(r.holes) : ~r.holes[k].explicit
NoBraceInSpec(r) == \A k \in 1 .. Len(r.holes) : Close \notin ToSet(r.holes[k].spec)
NoBlankBeforeBrace(s) == \A j \in 1 .. Len(s) : ~(s[j] = Blank /\ CharAt(s, j + 1) = Close)

(* What the macro reads, v, is what std reads, r.                          *)
SameHoles(v, r) ==
  /\ Len(v.inners) = Len(r.holes)
  /\ \A k \in 1 .. Len(r.holes) : Alone(ClosureFmt(v.inners[k]), r.holes[k])

SameTraits(v, r) ==
  \A k \in 1 .. Len(r.holes) : r.holes[k].trait = TraitOf(v.inners[k])

Matches(s, v, r) ==
  r.ok /\ Implicit(r) /\ NoBraceInSpec(r) =>
    /\ v.ok => SameHoles(v, r)
    /\ NoBlankBeforeBrace(s) => v.ok /\ SameTraits(v, r)

(* A sequence with one element in front.                                   *)
LEMMA OneInFront ==
  ASSUME NEW T, NEW a \in T, NEW q \in Seq(T)
  PROVE  /\ << a >> \o q \in Seq(T) /\ Len(<< a >> \o q) = Len(q) + 1
         /\ (<< a >> \o q)[1] = a
         /\ \A k \in 1 .. Len(q) : (<< a >> \o q)[k + 1] = q[k]
<1> DEFINE one == << a >>
<1>1. one \in Seq(T) /\ Len(one) = 1 /\ one[1] = a
  OBVIOUS
<1> HIDE DEF one
<1>2. one \o q \in Seq(T) /\ Len(one \o q) = Len(one) + Len(q)
  BY <1>1, ConcatProperties
<1>3. \A k \in 1 .. Len(one) + Len(q) :
        (one \o q)[k] = IF k <= Len(one) THEN one[k] ELSE q[k - Len(one)]
  BY <1>1, ConcatProperties
<1>4. Len(q) \in Nat
  OBVIOUS
<1> DEFINE c == one \o q
<1> HIDE DEF c
<1>5. c \in Seq(T) /\ Len(c) = Len(q) + 1
  BY <1>1, <1>2, <1>4 DEF c
<1>6. \A k \in 1 .. Len(q) + 1 : c[k] = IF k <= 1 THEN a ELSE q[k - 1]
  <2>1. \A k \in 1 .. 1 + Len(q) : c[k] = IF k <= 1 THEN one[k] ELSE q[k - 1]
    BY <1>1, <1>3 DEF c
  <2>2. \A k \in 1 .. 1 + Len(q) : k <= 1 => k = 1
    BY <1>4
  <2> QED
    BY <1>1, <1>4, <2>1, <2>2
<1>7. c[1] = a /\ \A k \in 1 .. Len(q) : c[k + 1] = q[k]
  BY <1>4, <1>6
<1> QED
  BY <1>5, <1>7 DEF c, one

(* A single opening brace begins a placeholder, for std.                   *)
LEMMA HolesAreHoles ==
  ASSUME NEW X, NEW s \in Seq(X), NEW i \in 1 .. Len(s), s[i] = Open, ~Doubled(s, i)
  PROVE  PieceAt(s, i).piece.hole
BY DEF PieceAt, Doubled, ArgumentHole, TypedHole, Hole

(* What is no placeholder is skipped by both, up to the same place.        *)
LEMMA LiteralsAreSkipped ==
  ASSUME NEW X, NEW s \in Seq(X), NEW i \in 1 .. Len(s), Doubled(s, i) \/ s[i] # Open
  PROVE  /\ ~PieceAt(s, i).piece.hole /\ PieceAt(s, i).next = JumpAt(s, i)
         /\ \A rest : ParseAt(s, i, rest) = rest
<1>1. CASE Doubled(s, i)
  BY <1>1 DEF PieceAt, Literal, Doubled, JumpAt, ParseAt
<1>2. CASE ~Doubled(s, i) /\ s[i] # Open
  BY <1>2 DEF PieceAt, Literal, Doubled, JumpAt, ParseAt
<1> QED
  BY <1>1, <1>2

(* Where the rest of the string matches, it does with the piece before it. *)
LEMMA MatchesBefore ==
  ASSUME NEW X, NEW s \in Seq(X), NEW i \in 1 .. Len(s),
         NEW v \in ParseResults(s), NEW r \in StdResults(s),
         JumpAt(s, i) = PieceAt(s, i).next => Matches(s, v, r)
  PROVE  Matches(s, ParseAt(s, i, v), Prepend(PieceAt(s, i), r))
<1> DEFINE p == PieceAt(s, i)
           v1 == ParseAt(s, i, v)
           r1 == Prepend(p, r)
<1> SUFFICES ASSUME r1.ok, Implicit(r1), NoBraceInSpec(r1)
             PROVE  /\ v1.ok => SameHoles(v1, r1)
                    /\ NoBlankBeforeBrace(s) => v1.ok /\ SameTraits(v1, r1)
  BY DEF Matches
<1>1. p.ok /\ r.ok
  BY DEF Prepend
<1> HIDE DEF p
<1>2. r1.holes = IF p.piece.hole THEN << p.piece >> \o r.holes ELSE r.holes
  BY <1>1 DEF Prepend
<1> HIDE DEF r1
<1>3. CASE Doubled(s, i) \/ s[i] # Open
  <2>1. ~p.piece.hole /\ p.next = JumpAt(s, i) /\ v1 = v
    BY <1>3, LiteralsAreSkipped DEF p
  <2>2. r1.holes = r.holes
    BY <1>2, <2>1
  <2>3. Matches(s, v, r)
    BY <2>1 DEF p
  <2>4. r.ok /\ Implicit(r) /\ NoBraceInSpec(r)
    BY <1>1, <2>2 DEF Implicit, NoBraceInSpec
  <2>5. (v.ok => SameHoles(v, r)) /\ (NoBlankBeforeBrace(s) => v.ok /\ SameTraits(v, r))
    BY <2>3, <2>4 DEF Matches
  <2> HIDE DEF v1
  <2> QED
    BY <2>1, <2>2, <2>5 DEF SameHoles, SameTraits
<1>4. CASE ~Doubled(s, i) /\ s[i] = Open
  <2> DEFINE P == PiecesIn(s)
             I == InnersIn(s)
             inner == InnerAt(s, i)
  <2>1. p.piece \in P /\ r.holes \in Seq(P) /\ inner \in I /\ v.inners \in Seq(I)
        /\ v \in [ok : BOOLEAN, inners : Seq(I)]
    BY DEF PiecesIn, InnersIn, StdResults, ParseResults, p
  <2> HIDE DEF P, I, inner
  <2> DEFINE n == Len(r.holes)
  <2>2. p.piece.hole
    BY <1>4, HolesAreHoles DEF p
  <2>3. r1.holes = << p.piece >> \o r.holes
    BY <1>2, <2>2
  <2>4. /\ Len(r1.holes) = n + 1 /\ r1.holes[1] = p.piece
        /\ \A k \in 1 .. n : r1.holes[k + 1] = r.holes[k]
    BY <2>1, <2>3, OneInFront
  <2>5. n \in Nat /\ 1 \in 1 .. n + 1 /\ \A k \in 1 .. n : k + 1 \in 1 .. n + 1
    BY <2>1
  <2> HIDE DEF n
  <2>6. ~p.piece.explicit /\ Close \notin ToSet(p.piece.spec)
    BY <2>4, <2>5 DEF Implicit, NoBraceInSpec
  <2>7. Implicit(r) /\ NoBraceInSpec(r)
    BY <2>4, <2>5 DEF Implicit, NoBraceInSpec, n
  <2>8. ReadAlike(s, i)
    BY <1>1, <1>4, <2>6, PlaceholdersReadAlike DEF p
  <2>9. /\ JumpAt(s, i) = p.next /\ p.next - 1 \in i + 1 .. Len(s)
        /\ s[p.next - 1] = Close /\ Alone(ClosureFmt(inner), p.piece)
        /\ s[p.next - 2] # Blank =>
             ArgPart(inner) = << >> /\ p.piece.trait = TraitOf(inner)
    BY <2>8 DEF ReadAlike, p, inner
  <2>10. /\ v.ok => SameHoles(v, r)
         /\ NoBlankBeforeBrace(s) => v.ok /\ SameTraits(v, r)
    <3>1. Matches(s, v, r)
      BY <2>9 DEF p
    <3> QED
      BY <1>1, <2>7, <3>1 DEF Matches
  <2>11. v1 = Parsed(inner, v)
    BY <1>4 DEF ParseAt, inner
  <2> HIDE DEF v1
  <2>12. /\ v1.ok => ArgPart(inner) = << >> /\ v.ok
         /\ ArgPart(inner) = << >> /\ v.ok =>
              v1.ok /\ v1.inners = << inner >> \o v.inners
    BY <2>1, <2>11 DEF Parsed
  <2>13. ASSUME v1.ok
         PROVE  /\ v1.inners[1] = inner /\ Len(v1.inners) = Len(v.inners) + 1
                /\ \A k \in 1 .. Len(v.inners) : v1.inners[k + 1] = v.inners[k]
    BY <2>1, <2>12, <2>13, OneInFront
  <2>14. ASSUME NEW k \in 1 .. n + 1, k # 1
         PROVE  k - 1 \in 1 .. n /\ (k - 1) + 1 = k
    BY <2>5, <2>14
  <2>15. v1.ok => SameHoles(v1, r1)
    <3> SUFFICES ASSUME v1.ok PROVE SameHoles(v1, r1)
      OBVIOUS
    <3>1. SameHoles(v, r)
      BY <2>10, <2>12
    <3>2. Len(v.inners) = n /\ \A k \in 1 .. n : Alone(ClosureFmt(v.inners[k]), r.holes[k])
      BY <3>1 DEF SameHoles, n
    <3>3. ASSUME NEW k \in 1 .. n + 1 PROVE Alone(ClosureFmt(v1.inners[k]), r1.holes[k])
      <4>1. CASE k = 1
        BY <2>4, <2>9, <2>13, <4>1
      <4>2. CASE k # 1
        <5>1. k - 1 \in 1 .. n /\ (k - 1) + 1 = k
          BY <2>14, <4>2
        <5>2. v1.inners[k] = v.inners[k - 1] /\ r1.holes[k] = r.holes[k - 1]
          BY <2>4, <2>13, <3>2, <5>1
        <5> QED
          BY <3>2, <5>1, <5>2
      <4> QED
        BY <4>1, <4>2
    <3> QED
      BY <2>4, <2>13, <3>2, <3>3 DEF SameHoles
  <2>16. ASSUME NoBlankBeforeBrace(s) PROVE v1.ok /\ SameTraits(v1, r1)
    <3>1. s[p.next - 2] # Blank
      <4> DEFINE j == p.next - 2
      <4>1. j \in 1 .. Len(s) /\ j + 1 \in 1 .. Len(s) /\ j + 1 = p.next - 1
        <5> DEFINE nx == p.next
        <5>1. nx \in Int
          BY PieceNext DEF p
        <5>2. nx - 1 \in i + 1 .. Len(s)
          BY <2>9
        <5> HIDE DEF nx
        <5>3. nx - 2 \in 1 .. Len(s) /\ (nx - 2) + 1 \in 1 .. Len(s) /\ (nx - 2) + 1 = nx - 1
          BY <5>1, <5>2
        <5> QED
          BY <5>3 DEF nx
      <4>2. CharAt(s, j + 1) = Close
        BY <2>9, <4>1, CharAtFacts
      <4> HIDE DEF j
      <4>3. s[j] # Blank
        BY <2>16, <4>1, <4>2 DEF NoBlankBeforeBrace
      <4> QED
        BY <4>3 DEF j
    <3>2. ArgPart(inner) = << >> /\ p.piece.trait = TraitOf(inner)
      BY <2>9, <3>1
    <3>3. v.ok /\ SameTraits(v, r) /\ SameHoles(v, r)
      BY <2>10, <2>16
    <3>4. v1.ok
      BY <2>12, <3>2, <3>3
    <3>5. Len(v.inners) = n /\ \A k \in 1 .. n : r.holes[k].trait = TraitOf(v.inners[k])
      BY <3>3 DEF SameHoles, SameTraits, n
    <3>6. ASSUME NEW k \in 1 .. n + 1 PROVE r1.holes[k].trait = TraitOf(v1.inners[k])
      <4>1. CASE k = 1
        BY <2>4, <2>13, <3>2, <3>4, <4>1
      <4>2. CASE k # 1
        <5>1. k - 1 \in 1 .. n /\ (k - 1) + 1 = k
          BY <2>14, <4>2
        <5>2. v1.inners[k] = v.inners[k - 1] /\ r1.holes[k] = r.holes[k - 1]
          BY <2>4, <2>13, <3>4, <3>5, <5>1
        <5> QED
          BY <3>5, <5>1, <5>2
      <4> QED
        BY <4>1, <4>2
    <3> QED
      BY <2>4, <3>4, <3>6 DEF SameTraits
  <2> QED
    BY <2>15, <2>16
<1> QED
  BY <1>3, <1>4

(* Behind the string the parsers agree.                                    *)
LEMMA EndsMatch == ASSUME NEW s PROVE Matches(s, ParseEnd, StdEnd)
<1>1. Len(StdEnd.holes) = 0 /\ Len(ParseEnd.inners) = 0 /\ ParseEnd.ok
  BY DEF StdEnd, ParseEnd
<1>2. \A k \in 1 .. 0 : FALSE
  OBVIOUS
<1> QED
  BY <1>1, <1>2 DEF Matches, SameHoles, SameTraits

(* From every position on, both parsers find the same placeholders.        *)
LEMMA ParsersAgreeFrom ==
  ASSUME NEW X, NEW s \in Seq(X)
  PROVE  Matches(s, Parse(s)[1], Std(s)[1])
<1> DEFINE n == Len(s)
           T == {i \in 1 .. n + 2 : Matches(s, Parse(s)[i], Std(s)[i])}
<1>1. n \in Nat /\ n + 1 \in 1 .. n + 2 /\ n + 2 \in 1 .. n + 2 /\ 1 \in 1 .. n + 2
  OBVIOUS
<1>2. n + 1 \in T /\ n + 2 \in T
  BY <1>1, EndsMatch, StdJumps, ParseJumps
<1>3. ASSUME NEW i \in 1 .. n, \A j \in i + 1 .. n + 2 : j \in T PROVE i \in T
  <2> DEFINE a == JumpAt(s, i)
             b == PieceAt(s, i).next
  <2>1. a \in i + 1 .. n + 2 /\ b \in i + 1 .. n + 2
    BY JumpsAhead, PieceNext
  <2>2. a \in 1 .. n + 2 /\ b \in 1 .. n + 2 /\ i \in 1 .. n + 2
    BY <1>1, <2>1
  <2>3. b \in T
    BY <1>3, <2>1
  <2> HIDE DEF a, b
  <2>4. Parse(s)[a] \in ParseResults(s) /\ Std(s)[b] \in StdResults(s)
    BY <2>2, StdJumps, ParseJumps DEF n
  <2>5. Matches(s, Parse(s)[b], Std(s)[b])
    BY <2>3
  <2>6. a = b => Matches(s, Parse(s)[a], Std(s)[b])
    BY <2>5
  <2>7. Matches(s, ParseAt(s, i, Parse(s)[a]), Prepend(PieceAt(s, i), Std(s)[b]))
    BY <2>4, <2>6, MatchesBefore DEF a, b
  <2>8. Parse(s)[i] = ParseAt(s, i, Parse(s)[a]) /\ Std(s)[i] = Prepend(PieceAt(s, i), Std(s)[b])
    BY StdJumps, ParseJumps DEF a, b
  <2> QED
    BY <2>2, <2>7, <2>8
<1> HIDE DEF T, n
<1>4. \A i \in 1 .. n + 2 : i \in T
  BY <1>1, <1>2, <1>3, InductionDown
<1> QED
  BY <1>1, <1>4 DEF T

(* Of a format string that std takes, with implicit arguments only and no  *)
(* brace in a spec: if the macro's parser takes it too, it finds the same  *)
(* placeholders, in the same order; and it does take it, with the same     *)
(* traits, if no blank is before a brace.                                  *)
LEMMA ParsersAgree ==
  ASSUME NEW X, NEW s \in Seq(X)
  PROVE  Matches(s, ParseFormatPlaceholders(s), StdFormat(s))
<1>1. ParseFormatPlaceholders(s) = Parse(s)[1] /\ StdFormat(s) = Std(s)[1]
  BY DEF ParseFormatPlaceholders, Parse, StdFormat, Std
<1> QED
  BY <1>1, ParsersAgreeFrom

(* What the two parsers return.                                            *)
LEMMA StdTyped ==
  ASSUME NEW X, NEW s \in Seq(X)
  PROVE  /\ StdFormat(s) \in StdResults(s)
         /\ ParseFormatPlaceholders(s) \in ParseResults(s)
<1>1. ParseFormatPlaceholders(s) = Parse(s)[1] /\ StdFormat(s) = Std(s)[1]
  BY DEF ParseFormatPlaceholders, Parse, StdFormat, Std
<1>2. 1 \in 1 .. Len(s) + 2
  OBVIOUS
<1> QED
  BY <1>1, <1>2, StdJumps, ParseJumps

(* So what rustc takes of the string itself, it takes of what the macro    *)
(* makes of it, and each closure formats as the placeholder says.          *)
ClosuresFormat(s, n) ==
  \A k \in 1 .. n :
    LET t == ClosureFmt(ParseFormatPlaceholders(s).inners[k])
    IN  StdTakes(t, 1) /\ Holes(t)[1] = Holes(s)[k]

(* The macro reads the traits that std reads. *)
TraitsAreRead(s, n) ==
  \A k \in 1 .. n : Holes(s)[k].trait = TraitOf(ParseFormatPlaceholders(s).inners[k])

(* If std takes the string with n arguments and no brace is a fill, then   *)
(* each closure formats as its placeholder says; and if no blank is before *)
(* a brace, the macro reads the same traits, and the call compiles as far  *)
(* as its string goes.                                                     *)
LEMMA TakenAlike ==
  ASSUME NEW X, NEW s \in Seq(X), NEW n \in Nat, StdTakes(s, n),
         \A k \in 1 .. n : Close \notin ToSet(Holes(s)[k].spec)
  PROVE  /\ ParseFormatPlaceholders(s).ok => ClosuresFormat(s, n)
         /\ NoBlankBeforeBrace(s) => FormatCompiles(s, n) /\ TraitsAreRead(s, n)
<1> DEFINE v == ParseFormatPlaceholders(s)
           r == StdFormat(s)
<1>1. r.ok /\ Len(r.holes) = n /\ Implicit(r) /\ NoBraceInSpec(r)
  BY DEF StdTakes, Holes, Implicit, NoBraceInSpec
<1>2. /\ v.ok => SameHoles(v, r)
      /\ NoBlankBeforeBrace(s) => v.ok /\ SameTraits(v, r)
  BY <1>1, ParsersAgree DEF Matches
<1>3. Holes(s) = r.holes
  BY DEF Holes
<1>4. r.holes \in Seq(PiecesIn(s))
  BY StdTyped DEF StdResults
<1> HIDE DEF r, v
<1>5. ASSUME v.ok, NEW k \in 1 .. n
      PROVE  /\ StdTakes(ClosureFmt(v.inners[k]), 1)
             /\ Holes(ClosureFmt(v.inners[k]))[1] = r.holes[k]
  <2> DEFINE t == ClosureFmt(v.inners[k])
  <2>1. Alone(t, r.holes[k])
    BY <1>1, <1>2, <1>5 DEF SameHoles
  <2> DEFINE h == r.holes[k]
  <2>2. ~h.explicit
    BY <1>1 DEF Implicit
  <2> HIDE DEF h, t
  <2>3. StdFormat(t) = [ok |-> TRUE, pieces |-> << h >>, holes |-> << h >>]
    BY <2>1 DEF Alone, h
  <2>4. StdFormat(t).ok /\ StdFormat(t).holes = << h >>
    BY <2>3
  <2>5. Holes(t) = << h >>
    BY <2>4 DEF Holes
  <2>6. Len(Holes(t)) = 1 /\ Holes(t)[1] = h /\ \A j \in 1 .. 1 : j = 1
    BY <2>5
  <2>7. StdTakes(t, 1)
    BY <2>2, <2>4, <2>6 DEF StdTakes
  <2> QED
    BY <2>6, <2>7 DEF t, h
<1>6. v.ok => ClosuresFormat(s, n)
  BY <1>3, <1>5 DEF ClosuresFormat, v
<1>7. ASSUME NoBlankBeforeBrace(s) PROVE FormatCompiles(s, n) /\ TraitsAreRead(s, n)
  <2>1. v.ok /\ SameTraits(v, r) /\ SameHoles(v, r)
    BY <1>2, <1>7
  <2>2. Len(v.inners) = n
    BY <1>1, <2>1 DEF SameHoles
  <2>3. DOMAIN r.holes = 1 .. n
    BY <1>1, <1>4
  <2>4. \A k \in 1 .. n : r.holes[k].trait = TraitOf(v.inners[k])
    BY <1>1, <2>1 DEF SameTraits
  <2>5. TypesFit(v.inners, r.holes)
    BY <1>5, <2>1, <2>3, <2>4 DEF TypesFit, TraitBounds
  <2> QED
    BY <1>3, <2>1, <2>2, <2>4, <2>5 DEF FormatCompiles, TraitsAreRead, v
<1> QED
  BY <1>6, <1>7 DEF v

-----------------------------------------------------------------------------
(* What the run keeps of a macro call.                                     *)

Chars == Alphabet \cup DOMAIN TypeChar \cup {Open, Close, ":"}

(* The shortest strings that Formats are built from.                       *)
LEMMA Bounded ==
  ASSUME NEW S, NEW T, S \subseteq T, NEW n \in Nat, NEW q \in BoundedSeq(S, n)
  PROVE  q \in Seq(T)
<1>1. PICK m \in 0 .. n : q \in [1 .. m -> S]
  BY DEF BoundedSeq, SeqOf
<1>2. m \in Nat /\ q \in [1 .. m -> T]
  BY <1>1
<1> QED
  BY <1>2

(* Three sequences together are one.                                       *)
LEMMA Bracketed ==
  ASSUME NEW T, NEW a \in Seq(T), NEW b \in Seq(T), NEW c \in Seq(T)
  PROVE  a \o b \o c \in Seq(T)
OBVIOUS

(* The format strings of the run are strings.                              *)
LEMMA FormatsAreStrings == Formats \subseteq Seq(Chars)
<1> DEFINE inners == BoundedSeq(Alphabet \ Braces, 2)
           F1 == BoundedSeq(Alphabet, MaxFormat)
           F2 == {<< Open, ":" >> \o spec \o << Close >> : spec \in BoundedSeq(Alphabet, 3)}
           F3 == {<< Open >> \o two[1] \o << Close, Open >> \o two[2] \o << Close >> :
                     two \in inners \X inners}
           F4 == {<< Open, ":", type, Close >> : type \in DOMAIN TypeChar}
<1>1. Formats = F1 \cup F2 \cup F4 \cup F3
  BY DEF Formats
<1>2. Alphabet \subseteq Chars /\ Alphabet \ Braces \subseteq Chars
  BY DEF Chars
<1>3. << Open, ":" >> \in Seq(Chars) /\ << Close >> \in Seq(Chars) /\ << Open >> \in Seq(Chars)
      /\ << Close, Open >> \in Seq(Chars)
  BY DEF Chars
<1>4. F1 \subseteq Seq(Chars)
  BY <1>2, Bounded, FormatAssumption
<1>5. F2 \subseteq Seq(Chars)
  <2> SUFFICES ASSUME NEW spec \in BoundedSeq(Alphabet, 3)
               PROVE  << Open, ":" >> \o spec \o << Close >> \in Seq(Chars)
    OBVIOUS
  <2>1. 3 \in Nat
    OBVIOUS
  <2>2. spec \in Seq(Chars)
    BY <1>2, <2>1, Bounded
  <2> HIDE DEF Chars
  <2> QED
    BY <1>3, <2>2, Bracketed
<1>6. F3 \subseteq Seq(Chars)
  <2> SUFFICES ASSUME NEW two \in inners \X inners
               PROVE  << Open >> \o two[1] \o << Close, Open >> \o two[2] \o << Close >>
                        \in Seq(Chars)
    OBVIOUS
  <2> DEFINE a == two[1]
             b == two[2]
  <2>1. 2 \in Nat
    OBVIOUS
  <2>2. a \in Seq(Chars) /\ b \in Seq(Chars)
    BY <1>2, <2>1, Bounded
  <2> HIDE DEF a, b
  <2> DEFINE c == << Open >> \o a \o << Close, Open >>
  <2>3. c \in Seq(Chars)
    BY <1>3, <2>2, Bracketed
  <2> HIDE DEF c
  <2>4. c \o b \o << Close >> \in Seq(Chars)
    BY <1>3, <2>2, <2>3, Bracketed
  <2> QED
    BY <2>4 DEF a, b, c
<1>7. F4 \subseteq Seq(Chars)
  BY DEF Chars
<1> HIDE DEF F1, F2, F3, F4
<1> QED
  BY <1>1, <1>4, <1>5, <1>6, <1>7

StringTyped == fmt \in Seq(Chars)

(* Before the call is made, nothing is in flight; afterwards nothing but   *)
(* the call.                                                               *)
StagesInOrder ==
  /\ stage \in {"none", "written", "compiled", "refused", "logged"}
  /\ stage \in {"written", "compiled", "refused"} => pc = "idle"
  /\ stage = "logged" /\ pc # "idle" => call = MacroCall(macroArgs)

Compiled ==
  stage \in {"compiled", "logged"} =>
    \E n \in 0 .. 2 : macroArgs \in ValueLists(n) /\ FormatCompiles(fmt, n)

RefusedForAReason == stage = "refused" => \E n \in 0 .. 2 : refused \in Refusals(n)

LinePrinted == pc = "printed" => line = Printed(call, got)

LineInv == StringTyped /\ StagesInOrder /\ Compiled /\ RefusedForAReason /\ LinePrinted

(* LineInv holds at first,                                                 *)
LEMMA LineInvStarts == LInit => LineInv
<1> SUFFICES ASSUME LInit PROVE LineInv
  OBVIOUS
<1>1. stage = "none" /\ fmt = << >> /\ pc = "idle"
  BY DEF LInit, Init
<1>2. << >> \in Seq(Chars)
  OBVIOUS
<1> QED
  BY <1>1, <1>2
     DEF LineInv, StringTyped, StagesInOrder, Compiled, RefusedForAReason, LinePrinted

(* What would be printed depends on the format string and the stage alone. *)
LEMMA PrintedStays ==
  ASSUME UNCHANGED << stage, fmt, colored >>
  PROVE  \A c, read : Printed(c, read)' = Printed(c, read)
<1> SUFFICES ASSUME NEW CONSTANT c, NEW CONSTANT read
             PROVE  Printed(c, read)' = Printed(c, read)
  OBVIOUS
<1>1. FormatOf(c)' = FormatOf(c)
  BY DEF FormatOf
<1>2. \A l, n, m : WritePrefixInner(l, n, m)' = WritePrefixInner(l, n, m)
  BY DEF WritePrefixInner
<1>3. MessageOf(FormatOf(c), c, read.texts)' = MessageOf(FormatOf(c), c, read.texts)
  BY <1>1
<1>4. WritePrefixInner(read.level, read.name, read.number)'
        = WritePrefixInner(read.level, read.name, read.number)
  BY <1>2
<1> QED
  BY <1>3, <1>4 DEF Printed

(* How a call may be refused depends on the format string alone.           *)
LEMMA OnlyOfTheFormat ==
  ASSUME UNCHANGED fmt
  PROVE  \A n : Refusals(n)' = Refusals(n) /\ ValueLists(n)' = ValueLists(n)
<1>1. \A n : MacroArgLists(n)' = MacroArgLists(n)
  BY DEF MacroArgLists, MacroArg, Ordinary, Types, TextTraits, StringTraits
<1>2. \A args : Verdict(args)' = Verdict(args)
  BY DEF Verdict, TraitGiven, CannotBeLogged
<1>3. \A n : Compiling(n)' = Compiling(n)
  BY <1>1 DEF Compiling
<1> QED
  BY <1>1, <1>2, <1>3 DEF Refusals, ValueLists

(* every step keeps it,                                                    *)
LEMMA LineInvKept == LineInv /\ [LNext]_lvars => LineInv'
<1> SUFFICES ASSUME LineInv, [LNext]_lvars PROVE LineInv'
  OBVIOUS
<1>0. /\ StringTyped /\ StagesInOrder /\ Compiled /\ RefusedForAReason /\ LinePrinted
  BY DEF LineInv
<1>1. ASSUME UNCHANGED source
      PROVE  StringTyped' /\ Compiled' /\ RefusedForAReason'
  <2>1. stage' = stage /\ fmt' = fmt /\ macroArgs' = macroArgs /\ refused' = refused
    BY <1>1 DEF source
  <2>2. \A n : Refusals(n)' = Refusals(n) /\ ValueLists(n)' = ValueLists(n)
    BY <2>1, OnlyOfTheFormat
  <2>4. \A n : FormatCompiles(fmt, n)' = FormatCompiles(fmt, n)
    BY <2>1
  <2>5. StringTyped'
    BY <1>0, <2>1 DEF StringTyped
  <2>6. Compiled'
    BY <1>0, <2>1, <2>2, <2>4 DEF Compiled
  <2>7. RefusedForAReason'
    BY <1>0, <2>1, <2>2 DEF RefusedForAReason
  <2> QED
    BY <2>5, <2>6, <2>7
<1>2. CASE WriteMacro
  <2>1. /\ stage = "none" /\ pc = "idle" /\ pc' = pc /\ stage' = "written"
        /\ fmt' \in Formats
    BY <1>2 DEF WriteMacro, vars
  <2>2. StringTyped'
    BY <2>1, FormatsAreStrings DEF StringTyped
  <2> QED
    BY <2>1, <2>2
       DEF LineInv, StagesInOrder, Compiled, RefusedForAReason, LinePrinted
<1>3. CASE Expand
  <2>1. PICK n \in 0 .. 2 :
          \/ /\ stage' = "compiled"
             /\ macroArgs' \in {Values(args) : args \in Compiling(n)}
             /\ UNCHANGED refused
          \/ /\ stage' = "refused"
             /\ refused' \in Refusals(n)
             /\ UNCHANGED macroArgs
    BY <1>3 DEF Expand
  <2>2. stage = "written" /\ fmt' = fmt /\ pc' = pc /\ pc = "idle"
    BY <1>0, <1>3 DEF Expand, vars, StagesInOrder
  <2>3. StringTyped'
    BY <1>0, <2>2 DEF StringTyped
  <2>4. StagesInOrder' /\ LinePrinted'
    BY <2>1, <2>2 DEF StagesInOrder, LinePrinted
  <2>5. /\ Refusals(n)' = Refusals(n) /\ ValueLists(n)' = ValueLists(n)
        /\ FormatCompiles(fmt, n)' = FormatCompiles(fmt, n)
    BY <2>2, OnlyOfTheFormat
  <2>6. CASE stage' = "compiled"
    <3>1. PICK args \in Compiling(n) : macroArgs' = Values(args)
      BY <2>1, <2>6
    <3>2. args \in MacroArgLists(n) /\ FormatCompiles(fmt, n)
      BY <3>1 DEF Compiling
    <3>3. macroArgs' \in ValueLists(n)
      BY <3>1, <3>2 DEF ValueLists
    <3>4. Compiled' /\ RefusedForAReason'
      BY <2>5, <2>6, <3>2, <3>3 DEF Compiled, RefusedForAReason
    <3> QED
      BY <2>3, <2>4, <3>4 DEF LineInv
  <2>7. CASE stage' = "refused"
    <3>1. refused' \in Refusals(n)
      BY <2>1, <2>7
    <3>2. Compiled' /\ RefusedForAReason'
      BY <2>5, <2>7, <3>1 DEF Compiled, RefusedForAReason
    <3> QED
      BY <2>3, <2>4, <3>2 DEF LineInv
  <2> QED
    BY <2>1, <2>6, <2>7
<1>4. CASE SubmitMacro
  <2>1. /\ stage = "compiled" /\ stage' = "logged" /\ call' = MacroCall(macroArgs)
        /\ fmt' = fmt /\ macroArgs' = macroArgs /\ pc' # "printed"
    BY <1>4 DEF SubmitMacro, Submit
  <2>2. StringTyped'
    BY <1>0, <2>1 DEF StringTyped
  <2>3. MacroCall(macroArgs)' = MacroCall(macroArgs)
    BY <2>1
  <2>4. StagesInOrder' /\ LinePrinted' /\ RefusedForAReason'
    BY <2>1, <2>3 DEF StagesInOrder, LinePrinted, RefusedForAReason
  <2>5. \A n : /\ FormatCompiles(fmt, n)' = FormatCompiles(fmt, n)
               /\ ValueLists(n)' = ValueLists(n)
    BY <2>1, OnlyOfTheFormat
  <2>6. Compiled'
    BY <1>0, <2>1, <2>5 DEF Compiled
  <2> QED
    BY <2>2, <2>4, <2>6 DEF LineInv
<1>5. CASE SubmitOther
  <2>1. stage = "none" /\ UNCHANGED source /\ stage' = stage /\ pc' # "printed"
    BY <1>5 DEF SubmitOther, Submit, source
  <2>2. StagesInOrder' /\ LinePrinted'
    BY <2>1 DEF StagesInOrder, LinePrinted
  <2> QED
    BY <1>1, <2>1, <2>2 DEF LineInv
<1>6. CASE PrintLine
  <2>1. /\ UNCHANGED source /\ UNCHANGED << stage, fmt, colored >> /\ UNCHANGED macroArgs
        /\ pc = "committed" /\ call' = call
        /\ line' = Printed(call, got')
    BY <1>6 DEF PrintLine, Format, source
  <2>2. MacroCall(macroArgs)' = MacroCall(macroArgs)
    BY <2>1
  <2>3. StagesInOrder'
    BY <1>0, <2>1, <2>2 DEF StagesInOrder
  <2>4. Printed(call, got)' = Printed(call, got')
    BY <2>1, PrintedStays
  <2>5. LinePrinted'
    BY <2>1, <2>4 DEF LinePrinted
  <2> QED
    BY <1>1, <2>1, <2>3, <2>5 DEF LineInv
<1>7. CASE LRelease
  <2>1. UNCHANGED source /\ stage' = stage /\ pc' = "idle"
    BY <1>7 DEF LRelease, Release, source
  <2>2. StagesInOrder' /\ LinePrinted'
    BY <1>0, <2>1 DEF StagesInOrder, LinePrinted
  <2> QED
    BY <1>1, <2>1, <2>2 DEF LineInv
<1>8. CASE UNCHANGED lvars
  <2>1. /\ UNCHANGED source /\ UNCHANGED << stage, fmt, colored >> /\ UNCHANGED macroArgs
        /\ pc' = pc /\ call' = call /\ line' = line /\ got' = got
    BY <1>8 DEF lvars, vars, source
  <2>2. MacroCall(macroArgs)' = MacroCall(macroArgs)
    BY <2>1
  <2>3. StagesInOrder'
    BY <1>0, <2>1, <2>2 DEF StagesInOrder
  <2>4. Printed(call, got)' = Printed(call, got)
    BY <2>1, PrintedStays
  <2>5. LinePrinted'
    BY <1>0, <2>1, <2>4 DEF LinePrinted
  <2> QED
    BY <1>1, <2>1, <2>3, <2>5 DEF LineInv
<1> QED
  BY <1>2, <1>3, <1>4, <1>5, <1>6, <1>7, <1>8 DEF LNext

(* so it is an invariant.                                                  *)
LEMMA LineInvariant == LSpec => []LineInv
BY LineInvStarts, LineInvKept, PTL DEF LSpec

(* What is generated for an argument compiles, if format! would take the   *)
(* argument, the macro reads the trait that std reads, and the type can be *)
(* logged.                                                                 *)
LEMMA TakenArgumentFits ==
  ASSUME NEW a \in MacroArg, NEW hole, NEW inner,
         TraitGiven(a, hole), ~CannotBeLogged(a, hole),
         Holes(ClosureFmt(inner))[1] = hole, hole.trait = TraitOf(inner)
  PROVE  ArgumentFits(a, inner)
<1>1. /\ a.of.lives
      /\ a.type = "pod" => ~a.of.drops /\ "Debug" \in a.of.traits
      /\ a.type = "str" => hole.trait # "Pointer"
  BY DEF CannotBeLogged
<1>2. hole.trait \in a.of.traits
  BY DEF TraitGiven
<1>3. ClosureTrait(inner) = hole.trait /\ TraitBounds(inner) = {"Debug", hole.trait}
  BY DEF ClosureTrait, TraitBounds
<1>4. "Debug" \in Traits
  <2>1. "?" \in DOMAIN TypeChar /\ TypeChar["?"] = "Debug"
    BY DEF TypeChar
  <2> QED
    BY <2>1 DEF Traits
<1>5. CASE a.type = "pod"
  <2>1. ~a.of.drops /\ DecodedTraits(a) = a.of.traits
    BY <1>1, <1>5 DEF DecodedTraits
  <2> QED
    BY <1>1, <1>2, <1>3, <1>5, <2>1 DEF ArgumentFits, DeriveAccepts, UseAccepts
<1>6. CASE a.type = "str"
  <2>1. a.of \in Types({FALSE}, TextTraits)
    BY <1>6 DEF MacroArg
  <2>2. ~a.of.drops /\ a.of.traits \in TextTraits
    BY <2>1 DEF Types
  <2>3. hole.trait \in StringTraits /\ "Debug" \in StringTraits
    BY <1>1, <1>2, <1>6, <2>2 DEF TextTraits, StringTraits
  <2>4. DecodedTraits(a) = StringTraits
    BY <1>6 DEF DecodedTraits
  <2> QED
    BY <1>1, <1>2, <1>3, <2>2, <2>3, <2>4 DEF ArgumentFits, DeriveAccepts, UseAccepts
<1>7. CASE a.type = "fmt"
  <2>1. a.of \in Types({FALSE}, TraitSets)
    BY <1>7 DEF MacroArg
  <2>2. ~a.of.drops /\ a.of.traits \in TraitSets
    BY <2>1 DEF Types
  <2>3. hole.trait \in Traits
    BY <1>2, <2>2, TraitsAssumption
  <2>4. DecodedTraits(a) = Traits
    BY <1>7 DEF DecodedTraits
  <2> QED
    BY <1>1, <1>2, <1>3, <1>4, <2>2, <2>3, <2>4 DEF ArgumentFits, DeriveAccepts, UseAccepts
<1>8. a.type \in {"pod", "str", "fmt"}
  BY DEF MacroArg
<1> QED
  BY <1>5, <1>6, <1>7, <1>8

(* A call that format! would take is refused only for a type the macros    *)
(* cannot log, a blank before a brace or a brace as fill: for every other  *)
(* string the macro reads the trait that std reads, so that neither the    *)
(* closure nor the where clause asks of a type what format! does not.      *)
THEOREM OnlyUnsupportedIsRefused == LSpec => []RefusedOnlyIfUnsupported
<1>1. LineInv => RefusedOnlyIfUnsupported
  <2> SUFFICES ASSUME LineInv, stage = "refused", refused.taken, ~refused.unfit,
                      ~BlankBeforeBrace, ~BraceAsFill
               PROVE  FALSE
    BY DEF RefusedOnlyIfUnsupported
  <2>1. PICK n \in 0 .. 2 : refused \in Refusals(n)
    BY DEF LineInv, RefusedForAReason
  <2>2. fmt \in Seq(Chars) /\ n \in Nat
    BY DEF LineInv, StringTyped
  <2>3. StdTakes(fmt, n) /\ refused \in {Verdict(args) : args \in MacroArgLists(n) \ Compiling(n)}
    BY <2>1 DEF Refusals
  <2>4. PICK args \in MacroArgLists(n) \ Compiling(n) : refused = Verdict(args)
    BY <2>3
  <2>5. DOMAIN args = 1 .. n /\ \A k \in 1 .. n : args[k] \in MacroArg
    <3>1. args \in MacroArgLists(n)
      BY <2>4
    <3>2. args \in [1 .. n -> MacroArg]
      BY <3>1, FewArgs
    <3> QED
      BY <3>2
  <2>6. \A k \in 1 .. n : /\ TraitGiven(args[k], Holes(fmt)[k])
                          /\ ~CannotBeLogged(args[k], Holes(fmt)[k])
    BY <2>4, <2>5 DEF Verdict
  <2>7. Len(Holes(fmt)) = n /\ Holes(fmt) \in Seq(PiecesIn(fmt))
    BY <2>2, <2>3, StdTyped DEF StdTakes, Holes, StdResults
  <2>8. \A k \in 1 .. n : Close \notin ToSet(Holes(fmt)[k].spec)
    BY <2>7 DEF BraceAsFill
  <2>9. NoBlankBeforeBrace(fmt)
    BY <2>2 DEF BlankBeforeBrace, NoBlankBeforeBrace
  <2>10. FormatCompiles(fmt, n) /\ TraitsAreRead(fmt, n) /\ ClosuresFormat(fmt, n)
    BY <2>2, <2>3, <2>8, <2>9, TakenAlike DEF FormatCompiles
  <2> DEFINE inners == ParseFormatPlaceholders(fmt).inners
  <2>11. \A k \in 1 .. n : /\ Holes(ClosureFmt(inners[k]))[1] = Holes(fmt)[k]
                           /\ Holes(fmt)[k].trait = TraitOf(inners[k])
    BY <2>10 DEF TraitsAreRead, ClosuresFormat
  <2> HIDE DEF inners
  <2>12. \A k \in 1 .. n : ArgumentFits(args[k], inners[k])
    BY <2>5, <2>6, <2>11, TakenArgumentFits
  <2>13. args \in Compiling(n)
    BY <2>4, <2>10, <2>12 DEF Compiling, inners
  <2> QED
    BY <2>4, <2>13
<1> QED
  BY <1>1, LineInvariant, PTL

-----------------------------------------------------------------------------
(* Lines as sequences of whatever tokens there are.                        *)

IsLine(q) == \E T : q \in Seq(T)

(* Lines have a common set of tokens.                                      *)
LEMMA LinesTogether ==
  ASSUME NEW a, NEW b, NEW c, IsLine(a), IsLine(b), IsLine(c)
  PROVE  \E T : a \in Seq(T) /\ b \in Seq(T) /\ c \in Seq(T)
<1>1. PICK A : a \in Seq(A)
  BY DEF IsLine
<1>2. PICK B : b \in Seq(B)
  BY DEF IsLine
<1>3. PICK C : c \in Seq(C)
  BY DEF IsLine
<1> DEFINE T == A \cup B \cup C
<1>4. A \subseteq T /\ B \subseteq T /\ C \subseteq T
  OBVIOUS
<1> HIDE DEF T
<1>5. a \in Seq(T) /\ b \in Seq(T) /\ c \in Seq(T)
  BY <1>1, <1>2, <1>3, <1>4, SeqMonotonic
<1> QED
  BY <1>5

(* Two lines, one after the other, are a line.                             *)
LEMMA LinesJoin ==
  ASSUME NEW a, NEW b, IsLine(a), IsLine(b)
  PROVE  IsLine(a \o b)
<1>1. PICK T : a \in Seq(T) /\ b \in Seq(T)
  BY LinesTogether
<1>2. a \o b \in Seq(T)
  BY <1>1, ConcatProperties
<1> QED
  BY <1>2 DEF IsLine

(* Concatenation is associative.                                           *)
LEMMA LinesRegroup ==
  ASSUME NEW a, NEW b, NEW c, IsLine(a), IsLine(b), IsLine(c)
  PROVE  (a \o b) \o c = a \o (b \o c)
<1>1. PICK T : a \in Seq(T) /\ b \in Seq(T) /\ c \in Seq(T)
  BY LinesTogether
<1> QED
  BY <1>1, ConcatAssociative

(* The first of two is a prefix.                                           *)
LEMMA PrefixOfJoined ==
  ASSUME NEW a, NEW b, IsLine(a), IsLine(b)
  PROVE  IsPrefix(a, a \o b)
<1>1. PICK T : a \in Seq(T) /\ b \in Seq(T)
  BY LinesTogether
<1> DEFINE n == Len(a)
           c == a \o b
<1>2. /\ c \in Seq(T) /\ Len(c) = n + Len(b) /\ n \in Nat /\ Len(b) \in Nat
      /\ \A i \in 1 .. n + Len(b) : c[i] = IF i <= n THEN a[i] ELSE b[i - n]
  BY <1>1, ConcatProperties
<1>3. \A i \in 1 .. n : a[i] \in T /\ c[i] = a[i]
  BY <1>1, <1>2
<1> HIDE DEF n, c
<1>4. /\ SubSeq(a, 1, n) \in Seq(T) /\ SubSeq(c, 1, n) \in Seq(T)
      /\ Len(SubSeq(a, 1, n)) = n /\ Len(SubSeq(c, 1, n)) = n
      /\ \A i \in 1 .. n : SubSeq(a, 1, n)[i] = a[i] /\ SubSeq(c, 1, n)[i] = c[i]
  BY <1>2, <1>3
<1>5. SubSeq(a, 1, n) = SubSeq(c, 1, n)
  BY <1>3, <1>4, SeqEqual
<1>6. n <= Len(c)
  BY <1>2
<1> QED
  BY <1>5, <1>6 DEF IsPrefix, n, c

(* What Reverse, by which IsSuffix is defined, does to a line.             *)
LEMMA ReversedLine ==
  ASSUME NEW T, NEW a \in Seq(T)
  PROVE  /\ Reverse(a) \in Seq(T) /\ Len(Reverse(a)) = Len(a)
         /\ \A i \in 1 .. Len(a) : Reverse(a)[i] = a[Len(a) - i + 1]
<1> DEFINE n == Len(a)
<1>1. n \in Nat /\ \A i \in 1 .. n : n - i + 1 \in 1 .. n /\ (n - i) + 1 = n - i + 1
  OBVIOUS
<1>2. \A i \in 1 .. n : a[n - i + 1] \in T
  BY <1>1
<1>3. Reverse(a) = [i \in 1 .. n |-> a[(n - i) + 1]]
  BY DEF Reverse
<1> HIDE DEF n
<1> QED
  BY <1>1, <1>2, <1>3 DEF n

(* The second of two is a suffix.                                          *)
LEMMA SuffixOfJoined ==
  ASSUME NEW a, NEW b, IsLine(a), IsLine(b)
  PROVE  IsSuffix(b, a \o b)
<1>1. PICK T : a \in Seq(T) /\ b \in Seq(T)
  BY LinesTogether
<1> DEFINE n == Len(a)
           m == Len(b)
           c == a \o b
           ra == Reverse(a)
           rb == Reverse(b)
           rc == Reverse(c)
<1>2. /\ c \in Seq(T) /\ Len(c) = n + m /\ n \in Nat /\ m \in Nat
      /\ \A i \in 1 .. n + m : c[i] = IF i <= n THEN a[i] ELSE b[i - n]
  BY <1>1, ConcatProperties
<1> HIDE DEF n, m, c
<1>3. /\ ra \in Seq(T) /\ Len(ra) = n /\ \A i \in 1 .. n : ra[i] = a[n - i + 1]
      /\ rb \in Seq(T) /\ Len(rb) = m /\ \A i \in 1 .. m : rb[i] = b[m - i + 1]
      /\ rc \in Seq(T) /\ Len(rc) = n + m
      /\ \A i \in 1 .. n + m : rc[i] = c[(n + m) - i + 1]
  <2>1. ra \in Seq(T) /\ Len(ra) = n /\ \A i \in 1 .. n : ra[i] = a[n - i + 1]
    BY <1>1, ReversedLine DEF n
  <2>2. rb \in Seq(T) /\ Len(rb) = m /\ \A i \in 1 .. m : rb[i] = b[m - i + 1]
    BY <1>1, ReversedLine DEF m
  <2>3. rc \in Seq(T) /\ Len(rc) = Len(c) /\ \A i \in 1 .. Len(c) : rc[i] = c[Len(c) - i + 1]
    BY <1>2, ReversedLine
  <2> HIDE DEF ra, rb, rc
  <2> QED
    BY <1>2, <2>1, <2>2, <2>3
<1> HIDE DEF ra, rb, rc
<1> DEFINE d == rb \o ra
<1>4. /\ d \in Seq(T) /\ Len(d) = m + n
      /\ \A i \in 1 .. m + n : d[i] = IF i <= m THEN rb[i] ELSE ra[i - m]
  BY <1>3, ConcatProperties
<1> HIDE DEF d
<1>5. ASSUME NEW i \in 1 .. n + m PROVE rc[i] = d[i]
  <2>1. rc[i] = c[(n + m) - i + 1] /\ (n + m) - i + 1 \in 1 .. n + m /\ i \in 1 .. m + n
    BY <1>2, <1>3
  <2>2. CASE i <= m
    <3>1. i \in 1 .. m /\ ~((n + m) - i + 1 <= n) /\ ((n + m) - i + 1) - n = m - i + 1
      BY <1>2, <2>2
    <3>2. c[(n + m) - i + 1] = b[m - i + 1]
      BY <1>2, <2>1, <3>1
    <3> QED
      BY <1>3, <1>4, <2>1, <2>2, <3>1, <3>2
  <2>3. CASE ~(i <= m)
    <3>1. i - m \in 1 .. n /\ (n + m) - i + 1 <= n /\ (n + m) - i + 1 = n - (i - m) + 1
      BY <1>2, <2>3
    <3>2. c[(n + m) - i + 1] = a[n - (i - m) + 1]
      BY <1>2, <2>1, <3>1
    <3> QED
      BY <1>3, <1>4, <2>1, <2>3, <3>1, <3>2
  <2> QED
    BY <2>2, <2>3
<1>6. Len(rc) = Len(d) /\ \A i \in 1 .. Len(rc) : rc[i] = d[i]
  BY <1>2, <1>3, <1>4, <1>5
<1>7. rc = rb \o ra
  BY <1>3, <1>4, <1>6, SeqEqual DEF d
<1>8. IsLine(ra) /\ IsLine(rb)
  BY <1>3 DEF IsLine
<1>9. IsPrefix(rb, rc)
  BY <1>7, <1>8, PrefixOfJoined
<1> QED
  BY <1>9 DEF IsSuffix, rb, rc, c

(* A function on the first n numbers is a line.                            *)
LEMMA FunctionsAreLines ==
  ASSUME NEW q, NEW n \in Nat, q = [i \in 1 .. n |-> q[i]]
  PROVE  IsLine(q)
<1> DEFINE T == {q[i] : i \in 1 .. n}
<1>1. \A i \in 1 .. n : q[i] \in T
  OBVIOUS
<1> HIDE DEF T
<1>2. q \in [1 .. n -> T]
  BY <1>1
<1>3. q \in Seq(T)
  BY <1>2
<1> QED
  BY <1>3 DEF IsLine

(* Words makes a token of each word.                                       *)
LEMMA WordsAreLines ==
  ASSUME NEW W, NEW ws \in Seq(W)
  PROVE  /\ IsLine(Words(ws)) /\ DOMAIN Words(ws) = 1 .. Len(ws)
         /\ \A i \in 1 .. Len(ws) : Words(ws)[i] = Word(ws[i])
<1> DEFINE q == Words(ws)
           n == Len(ws)
<1>1. n \in Nat /\ q = [i \in 1 .. n |-> Word(ws[i])]
  BY DEF Words
<1> HIDE DEF q, n
<1>2. DOMAIN q = 1 .. n /\ \A i \in 1 .. n : q[i] = Word(ws[i])
  BY <1>1
<1>3. q = [i \in 1 .. n |-> q[i]]
  BY <1>1
<1>4. IsLine(q)
  BY <1>1, <1>3, FunctionsAreLines
<1> QED
  BY <1>2, <1>4 DEF q, n

(* A message is a line, whatever fills its placeholders.                   *)
LEMMA FilledIsLine ==
  ASSUME NEW X, NEW s \in Seq(X), NEW tokens
  PROVE  IsLine(Filled(StdFormat(s).pieces, tokens))
<1> DEFINE pieces == StdFormat(s).pieces
           q == Filled(pieces, tokens)
<1>1. pieces \in Seq(PiecesIn(s))
  BY StdTyped DEF StdResults
<1> HIDE DEF pieces
<1>2. Len(pieces) \in Nat /\ DOMAIN pieces = 1 .. Len(pieces)
  BY <1>1
<1>3. q = [i \in DOMAIN pieces |-> q[i]]
  BY DEF Filled
<1> HIDE DEF q
<1>4. IsLine(q)
  BY <1>2, <1>3, FunctionsAreLines
<1> QED
  BY <1>4 DEF q, pieces

(* A token is a line.                                                      *)
LEMMA OnesAreLines == \A t : IsLine(<< t >>)
<1> SUFFICES ASSUME NEW t PROVE IsLine(<< t >>)
  OBVIOUS
<1>1. << t >> \in Seq({t})
  OBVIOUS
<1> QED
  BY <1>1 DEF IsLine

(* So is the place in the source,                                          *)
LEMMA PlaceIsLine ==
  ASSUME NEW target, NEW number
  PROVE  IsLine(TargetAndLine(target, number))
<1> DEFINE a == << Datum(target, << >>) >>
           c == Word(":")
           d == Datum(<< number >>, << >>)
           b == << c, d >>
           e == << >>
<1>1. IsLine(a)
  BY OnesAreLines
<1>2. IsLine(b)
  <2> HIDE DEF c, d
  <2>1. b \in Seq({c, d})
    OBVIOUS
  <2> QED
    BY <2>1 DEF IsLine
<1>3. IsLine(e)
  <2>1. e \in Seq({})
    OBVIOUS
  <2> QED
    BY <2>1 DEF IsLine
<1>4. TargetAndLine(target, number) = a \o (IF number > 0 THEN b ELSE e)
  BY DEF TargetAndLine
<1> HIDE DEF a, b, e
<1>5. IsLine(a \o b) /\ IsLine(a \o e)
  BY <1>1, <1>2, <1>3, LinesJoin
<1> QED
  BY <1>4, <1>5

ColorWords(level) ==
  << "GRAY", "timestamp", "RESET", Blank, LevelColor(level), "[",
     LevelStr(level), "]", "RESET", Blank, "GRAY" >>
PlainWords(level) == << "timestamp", Blank, "[", LevelStr(level), "]", Blank >>

(* the words of a prefix in either colour mode,                            *)
LEMMA PrefixWords ==
  ASSUME NEW level
  PROVE  \E W : /\ ColorWords(level) \in Seq(W) /\ PlainWords(level) \in Seq(W)
                /\ << "RESET", Blank >> \in Seq(W) /\ << Blank >> \in Seq(W)
<1> DEFINE c == LevelColor(level)
           d == LevelStr(level)
           W == {"GRAY", "timestamp", "RESET", Blank, c, "[", d, "]"}
<1> HIDE DEF c, d
<1>1. /\ "GRAY" \in W /\ "timestamp" \in W /\ "RESET" \in W /\ Blank \in W /\ c \in W
      /\ "[" \in W /\ d \in W /\ "]" \in W
  OBVIOUS
<1> HIDE DEF W
<1>2. << "GRAY", "timestamp", "RESET", Blank, c, "[", d, "]", "RESET", Blank, "GRAY" >> \in Seq(W)
  BY <1>1
<1>3. << "timestamp", Blank, "[", d, "]", Blank >> \in Seq(W)
  BY <1>1
<1>4. << "RESET", Blank >> \in Seq(W) /\ << Blank >> \in Seq(W)
  BY <1>1
<1>5. ColorWords(level) \in Seq(W) /\ PlainWords(level) \in Seq(W)
  BY <1>2, <1>3 DEF ColorWords, PlainWords, c, d
<1> QED
  BY <1>4, <1>5

(* and the prefix.                                                         *)
LEMMA PrefixIsLine ==
  ASSUME NEW level, NEW target, NEW number
  PROVE  /\ IsLine(WritePrefixInner(level, target, number))
         /\ IsLine(Words(ColorWords(level))) /\ IsLine(Words(PlainWords(level)))
         /\ IsLine(Words(<< "RESET", Blank >>)) /\ IsLine(Words(<< Blank >>))
<1>1. /\ IsLine(Words(ColorWords(level))) /\ IsLine(Words(PlainWords(level)))
      /\ IsLine(Words(<< "RESET", Blank >>)) /\ IsLine(Words(<< Blank >>))
  BY PrefixWords, WordsAreLines
<1> DEFINE a == Words(ColorWords(level))
           b == Words(PlainWords(level))
           c == Words(<< "RESET", Blank >>)
           d == Words(<< Blank >>)
           p == TargetAndLine(target, number)
<1>2. WritePrefixInner(level, target, number) = IF colored THEN a \o p \o c ELSE b \o p \o d
  BY DEF WritePrefixInner, ColorWords, PlainWords
<1>3. IsLine(p)
  BY PlaceIsLine
<1> HIDE DEF a, b, c, d, p
<1>4. IsLine(a \o p) /\ IsLine(b \o p)
  BY <1>1, <1>3, LinesJoin DEF a, b
<1>5. IsLine(a \o p \o c) /\ IsLine(b \o p \o d)
  BY <1>1, <1>4, LinesJoin DEF c, d
<1> QED
  BY <1>1, <1>2, <1>5

-----------------------------------------------------------------------------
(* What a macro call prints.                                               *)

(* No macro call of the run is so long that a length is cut.               *)
LEMMA MacroCallsFit ==
  ASSUME NEW n \in 0 .. 2, NEW values \in ValueLists(n)
  PROVE  ~LengthIsCut(MacroCall(values))
<1> DEFINE c == MacroCall(values)
<1>1. /\ Base \in Nat /\ 2 <= Base /\ 2 \in Nat
  BY BaseAssumption
<1>2. Weight[1] = Base * Weight[0] /\ Weight[2] = Base * Weight[1] /\ Weight[0] = 1
  <2>1. 1 - 1 = 0 /\ 2 - 1 = 1 /\ 1 \in 1 .. 8 /\ 2 \in 1 .. 8
    OBVIOUS
  <2> QED
    BY <2>1, WeightsMultiply
<1>3. Weight[1] = Base
  BY <1>1, <1>2
<1>4. 2 * Base <= Weight[2] /\ Weight[2] \in Nat
  BY <1>1, <1>2, <1>3, ProductsGrow
<1>5. Weight[2] <= Weight[3] /\ Weight[3] <= Weight[4] /\ Weight[3] \in Nat /\ Weight[4] \in Nat
  <2>1. 3 - 1 = 2 /\ 4 - 1 = 3 /\ 3 \in 1 .. 8 /\ 4 \in 1 .. 8 /\ 3 \in 0 .. 8 /\ 4 \in 0 .. 8
    OBVIOUS
  <2> QED
    BY <2>1, WeightsGrow
<1>6. ~(1 >= Weight[2]) /\ \A m \in 0 .. 2 : ~(m >= Weight[4])
  BY <1>1, <1>4, <1>5
<1>7. c.kind = "hot" /\ c.name = << 0 >>
  BY DEF MacroCall
<1>8. Len(c.name) = 1
  BY <1>7
<1>9. c.args = values
  BY DEF MacroCall
<1> HIDE DEF c
<1>10. \A k \in DOMAIN values : Len(values[k].bytes) \in 0 .. 2
  BY FewValues
<1>12. ASSUME NEW k \in DOMAIN c.args PROVE ~(Len(c.args[k].bytes) >= Weight[4])
  BY <1>6, <1>9, <1>10
<1>13. ~LengthIsCut(c)
  BY <1>6, <1>8, <1>12 DEF LengthIsCut, TargetTooLong
<1> QED
  BY <1>13 DEF c

(* A call of n values that compiled with the string s, without a brace as  *)
(* fill and without a {:p} for a value that is stashed.                    *)
Formatted(s, n, c) ==
  /\ c.args \in ValueLists(n) /\ FormatCompiles(s, n)
  /\ \A k \in DOMAIN Holes(s) : Close \notin ToSet(Holes(s)[k].spec)
  /\ \A k \in DOMAIN c.args : IsFmt(c.args[k]) => Holes(s)[k].trait # "Pointer"

(* Each argument is shown by the spec of its place, whoever formats it.    *)
LEMMA ShownAlike ==
  ASSUME NEW s \in Seq(Chars), NEW n \in 0 .. 2, NEW c, Formatted(s, n, c)
  PROVE  \A k \in DOMAIN c.args : \A text :
           Shown(s, c, k, Holes(s)[k].spec, text) = Datum(text, Holes(s)[k].spec)
<1>0. c.args \in ValueLists(n)
  BY DEF Formatted
<1>1. DOMAIN c.args = 1 .. n
  BY <1>0, FewValues
<1>2. ParseFormatPlaceholders(s).ok /\ StdTakes(s, n)
  BY DEF Formatted, FormatCompiles
<1>4. Len(Holes(s)) = n /\ Holes(s) \in Seq(PiecesIn(s))
  BY <1>2, StdTyped DEF StdTakes, Holes, StdResults
<1>5. DOMAIN Holes(s) = 1 .. n
  BY <1>4
<1>6. ClosuresFormat(s, n)
  <2>1. n \in Nat
    OBVIOUS
  <2> QED
    BY <1>2, <1>5, <2>1, TakenAlike DEF Formatted
<1> SUFFICES ASSUME NEW k \in 1 .. n, NEW text
             PROVE  Shown(s, c, k, Holes(s)[k].spec, text) = Datum(text, Holes(s)[k].spec)
  BY <1>1
<1> DEFINE inner == ParseFormatPlaceholders(s).inners[k]
           hole == Holes(s)[k]
<1>7. Holes(ClosureFmt(inner))[1] = hole
  BY <1>6 DEF ClosuresFormat
<1>8. CASE IsFmt(c.args[k])
  <2>1. Shown(s, c, k, hole.spec, text) = Stashed(text, Holes(ClosureFmt(inner))[1])
    BY <1>8 DEF Shown
  <2>2. hole.trait # "Pointer"
    BY <1>1, <1>8 DEF Formatted
  <2> HIDE DEF inner, hole
  <2>3. Shown(s, c, k, hole.spec, text) = Datum(text, hole.spec)
    BY <1>7, <2>1, <2>2 DEF Stashed
  <2> QED
    BY <2>3 DEF hole
<1>9. CASE ~IsFmt(c.args[k])
  BY <1>9 DEF Shown
<1> QED
  BY <1>8, <1>9

(* If the string compiles, then the message is what format! prints: each   *)
(* stashed argument formatted by its own closure, each other one by std.   *)
LEMMA MessagesAlike ==
  ASSUME NEW s \in Seq(Chars), NEW n \in 0 .. 2, NEW c, Formatted(s, n, c)
  PROVE  MessageOf(s, c, [k \in DOMAIN c.args |-> c.args[k].bytes])
           = Filled(StdFormat(s).pieces,
                    [k \in DOMAIN c.args |-> Datum(c.args[k].bytes, Holes(s)[k].spec)])
<1> DEFINE texts == [k \in DOMAIN c.args |-> c.args[k].bytes]
           shown == [k \in DOMAIN texts |-> Shown(s, c, k, Holes(s)[k].spec, texts[k])]
           here == [k \in DOMAIN c.args |-> Datum(c.args[k].bytes, Holes(s)[k].spec)]
<1>1. DOMAIN texts = DOMAIN c.args /\ \A k \in DOMAIN c.args : texts[k] = c.args[k].bytes
  OBVIOUS
<1>2. MessageOf(s, c, texts) = Filled(StdFormat(s).pieces, shown)
  BY DEF MessageOf
<1> HIDE DEF texts
<1>3. \A k \in DOMAIN c.args :
        Shown(s, c, k, Holes(s)[k].spec, texts[k]) = Datum(texts[k], Holes(s)[k].spec)
  BY ShownAlike
<1>4. shown = here
  BY <1>1, <1>3
<1> QED
  BY <1>2, <1>4 DEF texts

(* What is printed when the record was read as it was written.             *)
LEMMA PrintedHot ==
  ASSUME NEW c, NEW read, c.kind = "hot", read.ok
  PROVE  Printed(c, read) =
           (WritePrefixInner(read.level, read.name, read.number)
            \o MessageOf(FormatOf(c), c, read.texts)) \o << Word("newline") >>
BY DEF Printed

(* The message a macro call prints is the one format! would have given the *)
(* caller: each argument formatted once, by the spec std reads for its     *)
(* place, whether the archiver formats it or the caller's thread stashed   *)
(* it; a closing brace as fill, and {:p} of a stashed argument, are the    *)
(* exceptions.                                                             *)
THEOREM MessagesAreFormatted == LSpec => []PrintsLikeFormat
<1>1. LineInv /\ PrintsWhatWasLogged => PrintsLikeFormat
  <2> SUFFICES ASSUME LineInv, PrintsWhatWasLogged,
                      pc = "printed", stage = "logged", ~BraceAsFill,
                      ~AddressStashed(call)
               PROVE  IsSuffix(FormatOnCaller(call) \o << Word("newline") >>, line)
    BY DEF PrintsLikeFormat
  <2>1. PICK n \in 0 .. 2 :
           /\ fmt \in Seq(Chars) /\ macroArgs \in ValueLists(n)
           /\ FormatCompiles(fmt, n) /\ call = MacroCall(macroArgs)
           /\ line = Printed(call, got)
    BY DEF LineInv, StringTyped, StagesInOrder, Compiled, LinePrinted
  <2> DEFINE texts == [k \in DOMAIN call.args |-> call.args[k].bytes]
  <2>2. got = Line(LevelToU8[call.level], call.number, call.name, texts)
    BY <2>1, MacroCallsFit DEF PrintsWhatWasLogged
  <2> DEFINE message == FormatOnCaller(call)
             prefix == WritePrefixInner(got.level, got.name, got.number)
             end == << Word("newline") >>
  <2>3. got.ok /\ got.texts = texts
    BY <2>2 DEF Line
  <2>4. call.kind = "hot"
    BY <2>1 DEF MacroCall
  <2> HIDE DEF texts
  <2>5. FormatOf(call) = fmt
    BY DEF FormatOf
  <2>6. line = (prefix \o MessageOf(fmt, call, texts)) \o end
    BY <2>1, <2>3, <2>4, <2>5, PrintedHot
  <2>7. Formatted(fmt, n, call)
    <3>1. call.args = macroArgs
      BY <2>1 DEF MacroCall
    <3> QED
      BY <2>1, <3>1 DEF Formatted, BraceAsFill, AddressStashed
  <2>8. MessageOf(fmt, call, texts) = message
    BY <2>1, <2>5, <2>7, MessagesAlike DEF FormatOnCaller, texts
  <2>9. IsLine(prefix) /\ IsLine(end)
    BY PrefixIsLine, OnesAreLines
  <2>10. IsLine(message)
    BY <2>1, <2>5, FilledIsLine DEF FormatOnCaller
  <2> HIDE DEF message, prefix, end
  <2>11. line = prefix \o (message \o end)
    <3>1. (prefix \o message) \o end = prefix \o (message \o end)
      BY <2>9, <2>10, LinesRegroup, SMTT(30)
    <3> QED
      BY <2>6, <2>8, <3>1, Zenon
  <2>12. IsLine(message \o end)
    BY <2>9, <2>10, LinesJoin
  <2>13. IsSuffix(message \o end, line)
    BY <2>9, <2>11, <2>12, SuffixOfJoined
  <2> QED
    BY <2>13 DEF message, end
<1> QED
  BY <1>1, LineInvariant, RecordsOfLines, PTL

-----------------------------------------------------------------------------
(* Lines as a terminal shows them.                                         *)

Visibles(tokens) ==
  LET visible[k \in 0 .. Len(tokens)] ==
        IF k = 0 THEN << >>
        ELSE IF tokens[k].word \in Escapes THEN visible[k - 1]
        ELSE Append(visible[k - 1], tokens[k])
  IN  visible

ShowNext(v, t) == IF t.word \in Escapes THEN v ELSE Append(v, t)

(* Visible drops the escape sequences from the left.                       *)
LEMMA VisibleSteps ==
  ASSUME NEW T, NEW q \in Seq(T)
  PROVE  /\ Visibles(q) \in [0 .. Len(q) -> Seq(T)]
         /\ Visibles(q)[0] = << >>
         /\ \A k \in 1 .. Len(q) : Visibles(q)[k] = ShowNext(Visibles(q)[k - 1], q[k])
<1> DEFINE n == Len(q)
           S == Seq(T)
           a == << >>
           G == [p \in S \X (1 .. n) |-> ShowNext(p[1], q[p[2]])]
<1>0. n \in Nat /\ \A k \in 1 .. n : q[k] \in T
  OBVIOUS
<1>1. \A v \in S, k \in 1 .. n : ShowNext(v, q[k]) \in S
  BY <1>0 DEF ShowNext
<1>2. G \in [S \X (1 .. n) -> S]
  BY <1>1
<1>3. a \in S
  OBVIOUS
<1> HIDE DEF G, n, S, a
<1>4. PICK f \in [0 .. n -> S] :
        f[0] = a /\ \A k \in 1 .. n : f[k] = G[<< f[k - 1], k >>]
  <2>1. HasRecursion(n, S, a, G)
    BY <1>0, <1>2, <1>3, RecursionWorks
  <2> QED
    BY <2>1 DEF HasRecursion, Recurs
<1>5. \A k \in 1 .. n : f[k] = ShowNext(f[k - 1], q[k])
  <2> SUFFICES ASSUME NEW k \in 1 .. n PROVE f[k] = ShowNext(f[k - 1], q[k])
    OBVIOUS
  <2>1. k - 1 \in 0 .. n
    BY <1>0
  <2>2. << f[k - 1], k >> \in S \X (1 .. n)
    BY <1>4, <2>1
  <2>3. f[k] = G[<< f[k - 1], k >>]
    BY <1>4
  <2> QED
    BY <2>2, <2>3 DEF G
<1>6. f = [k \in 0 .. n |-> IF k = 0 THEN a
                            ELSE IF q[k].word \in Escapes THEN f[k - 1]
                            ELSE Append(f[k - 1], q[k])]
  <2>1. \A k \in 0 .. n : k # 0 => k \in 1 .. n
    BY <1>0
  <2>2. \A k \in 1 .. n : f[k] = IF q[k].word \in Escapes THEN f[k - 1]
                                 ELSE Append(f[k - 1], q[k])
    BY <1>5 DEF ShowNext
  <2> QED
    BY <1>4, <2>1, <2>2
<1> DEFINE W == Visibles(q)
<1>7. W = [k \in 0 .. n |-> IF k = 0 THEN a
                            ELSE IF q[k].word \in Escapes THEN W[k - 1]
                            ELSE Append(W[k - 1], q[k])]
  BY <1>6 DEF Visibles, n, a
<1> HIDE DEF W
<1>8. W[0] = a /\ \A k \in 1 .. n : W[k] = ShowNext(W[k - 1], q[k])
  <2>1. 0 \in 0 .. n /\ \A k \in 1 .. n : k \in 0 .. n /\ k # 0
    BY <1>0
  <2> QED
    BY <1>7, <2>1 DEF ShowNext
<1>9. \A k \in 0 .. n : W[k] \in S
  <2>1. ASSUME NEW k \in 1 .. n, W[k - 1] \in S PROVE W[k] \in S
    <3>1. W[k] = ShowNext(W[k - 1], q[k])
      BY <1>8
    <3> HIDE <1>8
    <3> QED
      BY <1>1, <2>1, <3>1
  <2>2. W[0] \in S
    BY <1>3, <1>8
  <2> QED
    BY <1>0, <2>1, <2>2, StepsKeep
<1>10. W \in [0 .. n -> S]
  BY <1>7, <1>9
<1> QED
  BY <1>8, <1>10 DEF W, n, S, a

(* Visible is the last of these steps.                                     *)
LEMMA VisibleIsLast == \A q : Visible(q) = Visibles(q)[Len(q)]
BY DEF Visible, Visibles

(* What is seen of two lines is what is seen of each.                      *)
LEMMA VisibleJoins ==
  ASSUME NEW a, NEW b, IsLine(a), IsLine(b)
  PROVE  Visible(a \o b) = Visible(a) \o Visible(b) /\ IsLine(Visible(a))
<1>1. PICK T : a \in Seq(T) /\ b \in Seq(T)
  BY LinesTogether
<1> DEFINE n == Len(a)
           m == Len(b)
           c == a \o b
           VA == Visibles(a)
           VB == Visibles(b)
           VC == Visibles(c)
<1>2. /\ c \in Seq(T) /\ Len(c) = n + m /\ n \in Nat /\ m \in Nat
      /\ \A i \in 1 .. n + m : c[i] = IF i <= n THEN a[i] ELSE b[i - n]
  BY <1>1, ConcatProperties
<1>3. /\ VA \in [0 .. n -> Seq(T)] /\ VA[0] = << >>
      /\ \A k \in 1 .. n : VA[k] = ShowNext(VA[k - 1], a[k])
  BY <1>1, VisibleSteps
<1>4. /\ VB \in [0 .. m -> Seq(T)] /\ VB[0] = << >>
      /\ \A k \in 1 .. m : VB[k] = ShowNext(VB[k - 1], b[k])
  BY <1>1, VisibleSteps
<1>5. /\ VC[0] = << >>
      /\ \A k \in 1 .. Len(c) : VC[k] = ShowNext(VC[k - 1], c[k])
  BY <1>2, VisibleSteps
<1> HIDE DEF n, m, c, VA, VB, VC
<1>6. VC[n] = VA[n]
  <2> DEFINE U == {k \in 0 .. n : VC[k] = VA[k]}
  <2>1. 0 \in U
    BY <1>2, <1>3, <1>5
  <2>2. ASSUME NEW k \in 1 .. n, k - 1 \in U PROVE k \in U
    <3>1. k \in 1 .. Len(c) /\ c[k] = a[k] /\ k \in 0 .. n
      BY <1>2
    <3>2. VC[k] = ShowNext(VC[k - 1], a[k])
      BY <1>5, <3>1
    <3> QED
      BY <1>3, <2>2, <3>1, <3>2
  <2> HIDE DEF U
  <2>3. 0 .. n \subseteq U
    BY <1>2, <2>1, <2>2, InductionUpTo
  <2>4. n \in U
    BY <1>2, <2>3
  <2> QED
    BY <2>4 DEF U
<1> DEFINE v == VA[n]
<1>7. v \in Seq(T)
  BY <1>2, <1>3
<1>8. v = VC[n]
  BY <1>6
<1> HIDE DEF v
<1>9. ASSUME NEW t \in T, NEW w \in Seq(T)
      PROVE  ShowNext(v \o w, t) = v \o ShowNext(w, t)
  <2>1. << t >> \in Seq(T)
    OBVIOUS
  <2>2. Append(w, t) = w \o << t >>
    BY <1>9, AppendIsConcat
  <2>3. v \o w \in Seq(T)
    BY <1>7, <1>9, ConcatProperties
  <2>4. Append(v \o w, t) = (v \o w) \o << t >>
    BY <1>9, <2>3, AppendIsConcat
  <2>5. (v \o w) \o << t >> = v \o (w \o << t >>)
    BY <1>7, <1>9, <2>1, ConcatAssociative
  <2> QED
    BY <2>2, <2>4, <2>5 DEF ShowNext
<1>10. VC[n + m] = v \o VB[m]
  <2> DEFINE U == {k \in 0 .. m : VC[n + k] = v \o VB[k]}
  <2>1. 0 \in U
    <3>1. v \o << >> = v
      BY <1>7, ConcatEmptySeq
    <3>2. n + 0 = n /\ 0 \in 0 .. m
      BY <1>2
    <3> QED
      BY <1>4, <1>8, <3>1, <3>2
  <2>2. ASSUME NEW k \in 1 .. m, k - 1 \in U PROVE k \in U
    <3>1. /\ n + k \in 1 .. Len(c) /\ (n + k) - 1 = n + (k - 1) /\ ~(n + k <= n)
          /\ (n + k) - n = k /\ k \in 0 .. m /\ k - 1 \in 0 .. m /\ n + k \in 1 .. n + m
      BY <1>2
    <3>2. c[n + k] = b[k]
      BY <1>2, <3>1
    <3>3. VC[n + k] = ShowNext(v \o VB[k - 1], b[k])
      BY <1>5, <2>2, <3>1, <3>2
    <3>4. b[k] \in T /\ VB[k - 1] \in Seq(T)
      <4>1. b[k] \in T
        BY <1>1, ElementOfSeq DEF m
      <4>2. VB[k - 1] \in Seq(T)
        BY <1>4, <3>1
      <4> QED
        BY <4>1, <4>2
    <3>5. ShowNext(v \o VB[k - 1], b[k]) = v \o ShowNext(VB[k - 1], b[k])
      BY <1>9, <3>4
    <3> QED
      BY <1>4, <3>1, <3>3, <3>5
  <2> HIDE DEF U
  <2>3. 0 .. m \subseteq U
    BY <1>2, <2>1, <2>2, InductionUpTo
  <2>4. m \in U
    BY <1>2, <2>3
  <2> QED
    BY <2>4 DEF U
<1>11. Visible(c) = VC[n + m] /\ Visible(a) = v /\ Visible(b) = VB[m]
  BY <1>2, VisibleIsLast DEF VA, VB, VC, v, n, m
<1> QED
  BY <1>7, <1>10, <1>11 DEF c, IsLine

(* Without escape sequences all of a line is seen.                         *)
NoEscapes(q) == \A i \in 1 .. Len(q) : q[i].word \notin Escapes

(* A prefix and the next element are the next prefix.                      *)
LEMMA PrefixGrows ==
  ASSUME NEW T, NEW q \in Seq(T), NEW k \in 1 .. Len(q)
  PROVE  Append(SubSeq(q, 1, k - 1), q[k]) = SubSeq(q, 1, k)
<1>1. 1 \in 1 .. Len(q) /\ k - 1 \in Int /\ 1 \in Int /\ \A i \in 1 .. k - 1 : q[i] \in T
  OBVIOUS
<1>2. q[k] \in T
  OBVIOUS
<1>3. SubSeq(q, 1, k - 1) \in Seq(T)
  BY <1>1, SubSeqProperties
<1>4. SubSeq(q, 1, k) = SubSeq(q, 1, k - 1) \o << q[k] >>
  BY <1>1, SubSeqRecursiveSecond
<1>5. Append(SubSeq(q, 1, k - 1), q[k]) = SubSeq(q, 1, k - 1) \o << q[k] >>
  BY <1>2, <1>3, AppendIsConcat
<1> QED
  BY <1>4, <1>5

(* The empty prefix.                                                       *)
LEMMA NothingOfPrefix == ASSUME NEW T, NEW q \in Seq(T) PROVE SubSeq(q, 1, 0) = << >>
OBVIOUS

(* A pair as two sequences.                                                *)
LEMMA TwoAsOnes == \A a, b : << a, b >> = << a >> \o << b >>
<1> SUFFICES ASSUME NEW a, NEW b PROVE << a, b >> = << a >> \o << b >>
  OBVIOUS
<1> DEFINE T == {a, b}
           p == << a >>
           q == << b >>
           r == << a, b >>
           c == p \o q
<1>1. p \in Seq(T) /\ Len(p) = 1 /\ p[1] = a
  OBVIOUS
<1>2. q \in Seq(T) /\ Len(q) = 1 /\ q[1] = b
  OBVIOUS
<1>3. r \in Seq(T) /\ Len(r) = 2 /\ r[1] = a /\ r[2] = b
  OBVIOUS
<1> HIDE DEF p, q, r, T
<1>4. c \in Seq(T) /\ Len(c) = 1 + 1
      /\ \A i \in 1 .. 1 + 1 : c[i] = IF i <= 1 THEN p[i] ELSE q[i - 1]
  BY <1>1, <1>2, ConcatProperties
<1> HIDE DEF c
<1>5. c \in Seq(T) /\ Len(c) = 2 /\ c[1] = a /\ c[2] = b
  BY <1>1, <1>2, <1>4
<1>6. \A i \in 1 .. 2 : i = 1 \/ i = 2
  OBVIOUS
<1>7. r = c
  BY <1>3, <1>5, <1>6, SeqEqual
<1> QED
  BY <1>7 DEF r, c, p, q

(* A line without escape sequences is seen as it is.                       *)
LEMMA VisibleSame ==
  ASSUME NEW q, IsLine(q), NoEscapes(q)
  PROVE  Visible(q) = q
<1>1. PICK T : q \in Seq(T)
  BY DEF IsLine
<1> DEFINE n == Len(q)
           V == Visibles(q)
           U == {k \in 0 .. n : V[k] = SubSeq(q, 1, k)}
<1>2. /\ V[0] = << >> /\ \A k \in 1 .. n : V[k] = ShowNext(V[k - 1], q[k])
  BY <1>1, VisibleSteps
<1>3. n \in Nat /\ \A k \in 1 .. n : q[k] \in T /\ q[k].word \notin Escapes
  BY <1>1 DEF NoEscapes
<1> HIDE DEF V
<1>4. 0 \in U
  <2>1. SubSeq(q, 1, 0) = << >>
    BY <1>1, NothingOfPrefix
  <2>2. 0 \in 0 .. n
    BY <1>3
  <2>3. V[0] = SubSeq(q, 1, 0)
    BY <1>2, <2>1, Zenon
  <2> QED
    BY <2>2, <2>3, Zenon
<1>5. ASSUME NEW k \in 1 .. n, k - 1 \in U PROVE k \in U
  <2>1. V[k] = Append(SubSeq(q, 1, k - 1), q[k])
    BY <1>2, <1>3, <1>5 DEF ShowNext
  <2>2. Append(SubSeq(q, 1, k - 1), q[k]) = SubSeq(q, 1, k)
    BY <1>1, PrefixGrows
  <2>3. k \in 0 .. n
    BY <1>3
  <2> QED
    BY <2>1, <2>2, <2>3
<1>6. n \in U
  <2> HIDE DEF U
  <2>1. 0 .. n \subseteq U
    BY <1>3, <1>4, <1>5, InductionUpTo
  <2> QED
    BY <1>3, <2>1
<1>7. SubSeq(q, 1, Len(q)) = q
  BY <1>1, SubSeqFull
<1> QED
  BY <1>6, <1>7, VisibleIsLast DEF V

(* Which words of a prefix are escape sequences.                           *)
LEMMA WordsInEscapes ==
  /\ "GRAY" \in Escapes /\ "RESET" \in Escapes
  /\ "timestamp" \notin Escapes /\ Blank \notin Escapes /\ "[" \notin Escapes
  /\ "]" \notin Escapes /\ ":" \notin Escapes /\ "" \notin Escapes /\ "newline" \notin Escapes
BY Zenon DEF Escapes, Blank

(* A level's colour is an escape sequence.                                 *)
LEMMA ColorsAreEscapes == \A level \in Nat : LevelColor(level) \in Escapes
BY DEF LevelColor, Escapes

LevelName ==
  [Error |-> "ERROR", Warn |-> "WARN", Info |-> "INFO",
   Debug |-> "DEBUG", Trace |-> "TRACE"]

(* The bridge's level byte gives the level's name, and no name is an       *)
(* escape sequence.                                                        *)
LEMMA LevelsAreNamed ==
  ASSUME NEW l \in LogLevels
  PROVE  /\ LevelToU8[l] \in Nat /\ LevelStr(LevelToU8[l]) = LevelName[l]
         /\ LevelName[l] \notin Escapes
<1> DEFINE names == << "ERROR", "WARN", "INFO", "DEBUG", "TRACE" >>
<1>1. \A n \in 1 .. 5 : LevelStr(n) = names[n]
  BY DEF LevelStr
<1>2. /\ names[1] = "ERROR" /\ names[2] = "WARN" /\ names[3] = "INFO"
      /\ names[4] = "DEBUG" /\ names[5] = "TRACE"
  OBVIOUS
<1>3. 1 \in 1 .. 5 /\ 2 \in 1 .. 5 /\ 3 \in 1 .. 5 /\ 4 \in 1 .. 5 /\ 5 \in 1 .. 5
  OBVIOUS
<1> HIDE DEF names
<1>4. /\ LevelStr(1) = "ERROR" /\ LevelStr(2) = "WARN" /\ LevelStr(3) = "INFO"
      /\ LevelStr(4) = "DEBUG" /\ LevelStr(5) = "TRACE"
  BY <1>1, <1>2, <1>3
<1>5. /\ "ERROR" \notin Escapes /\ "WARN" \notin Escapes /\ "INFO" \notin Escapes
      /\ "DEBUG" \notin Escapes /\ "TRACE" \notin Escapes
  BY DEF Escapes
<1>6. CASE l = "Error"
  BY <1>4, <1>5, <1>6 DEF LevelToU8, LevelName
<1>7. CASE l = "Warn"
  BY <1>4, <1>5, <1>7 DEF LevelToU8, LevelName
<1>8. CASE l = "Info"
  BY <1>4, <1>5, <1>8 DEF LevelToU8, LevelName
<1>9. CASE l = "Debug"
  BY <1>4, <1>5, <1>9 DEF LevelToU8, LevelName
<1>10. CASE l = "Trace"
  BY <1>4, <1>5, <1>10 DEF LevelToU8, LevelName
<1> QED
  BY <1>6, <1>7, <1>8, <1>9, <1>10 DEF LogLevels

(* The word of a word token.                                               *)
LEMMA WordIsItself == \A w : Word(w).word = w
BY DEF Word

(* A datum is no word.                                                     *)
LEMMA DatumIsNoWord == \A b, spec : Datum(b, spec).word = ""
BY DEF Datum

(* A line of words without escapes.                                        *)
LEMMA WordsVisible ==
  ASSUME NEW W, NEW ws \in Seq(W), \A i \in 1 .. Len(ws) : ws[i] \notin Escapes
  PROVE  Visible(Words(ws)) = Words(ws) /\ IsLine(Words(ws))
<1> DEFINE q == Words(ws)
<1>1. IsLine(q) /\ DOMAIN q = 1 .. Len(ws) /\ \A i \in 1 .. Len(ws) : q[i] = Word(ws[i])
  BY WordsAreLines
<1> HIDE DEF q
<1>2. PICK T : q \in Seq(T)
  BY <1>1 DEF IsLine
<1>3. Len(q) = Len(ws)
  BY <1>1, <1>2
<1>4. NoEscapes(q)
  BY <1>1, <1>3, WordIsItself DEF NoEscapes
<1>5. Visible(q) = q
  BY <1>1, <1>4, VisibleSame
<1> QED
  BY <1>1, <1>5 DEF q

(* A token that is no escape sequence is seen.                             *)
LEMMA OneVisible ==
  ASSUME NEW t, t.word \notin Escapes
  PROVE  Visible(<< t >>) = << t >> /\ IsLine(<< t >>)
<1> DEFINE q == << t >>
<1>1. Len(q) = 1 /\ q[1] = t /\ \A i \in 1 .. 1 : i = 1
  OBVIOUS
<1>2. IsLine(q)
  BY OnesAreLines
<1> HIDE DEF q
<1>3. NoEscapes(q)
  BY <1>1 DEF NoEscapes
<1>4. Visible(q) = q
  BY <1>2, <1>3, VisibleSame
<1> QED
  BY <1>2, <1>4 DEF q

(* What is seen as it is, and stays so when it is joined.                  *)
Seen(q) == IsLine(q) /\ Visible(q) = q

(* Two that are seen as they are stay so when joined.                      *)
LEMMA SeenJoin ==
  ASSUME NEW a, NEW b, Seen(a), Seen(b)
  PROVE  Seen(a \o b)
<1>1. IsLine(a) /\ IsLine(b) /\ Visible(a) = a /\ Visible(b) = b
  BY DEF Seen
<1>2. Visible(a \o b) = Visible(a) \o Visible(b)
  BY <1>1, VisibleJoins
<1>3. IsLine(a \o b)
  BY <1>1, LinesJoin
<1> QED
  BY <1>1, <1>2, <1>3, Zenon DEF Seen

(* The coloured words are seen as the plain ones.                          *)
LEMMA ColoredVisible ==
  ASSUME NEW level \in Nat, LevelStr(level) \notin Escapes
  PROVE  Visible(Words(ColorWords(level))) = Words(PlainWords(level))
<1> DEFINE ws == ColorWords(level)
           c == LevelColor(level)
           d == LevelStr(level)
           q == Words(ws)
           V == Visibles(q)
<1>1. PICK W : ws \in Seq(W)
  BY PrefixWords
<1> HIDE DEF c, d
<1>2. /\ ws[1] = "GRAY" /\ ws[2] = "timestamp" /\ ws[3] = "RESET" /\ ws[4] = Blank
      /\ ws[5] = c /\ ws[6] = "[" /\ ws[7] = d /\ ws[8] = "]" /\ ws[9] = "RESET"
      /\ ws[10] = Blank /\ ws[11] = "GRAY" /\ Len(ws) = 11
  BY DEF ColorWords, c, d
<1> HIDE DEF ws
<1>3. IsLine(q) /\ DOMAIN q = 1 .. 11 /\ \A i \in 1 .. 11 : q[i] = Word(ws[i])
  BY <1>1, <1>2, WordsAreLines
<1> HIDE DEF q
<1>4. PICK T : q \in Seq(T)
  BY <1>3 DEF IsLine
<1>5. Len(q) = 11
  BY <1>3, <1>4
<1>6. V[0] = << >> /\ \A k \in 1 .. 11 : V[k] = ShowNext(V[k - 1], q[k])
  BY <1>4, <1>5, VisibleSteps
<1> HIDE DEF V
<1>7. ASSUME NEW k \in 1 .. 11
      PROVE  V[k] = IF ws[k] \in Escapes THEN V[k - 1] ELSE Append(V[k - 1], Word(ws[k]))
  BY <1>3, <1>6, WordIsItself DEF ShowNext
<1>8. c \in Escapes /\ d \notin Escapes
  BY ColorsAreEscapes DEF c, d
<1>9. /\ V[1] = V[0] /\ V[2] = Append(V[1], Word("timestamp")) /\ V[3] = V[2]
      /\ V[4] = Append(V[3], Word(Blank)) /\ V[5] = V[4] /\ V[6] = Append(V[5], Word("["))
      /\ V[7] = Append(V[6], Word(d)) /\ V[8] = Append(V[7], Word("]")) /\ V[9] = V[8]
      /\ V[10] = Append(V[9], Word(Blank)) /\ V[11] = V[10]
  <2>1. /\ 1 - 1 = 0 /\ 2 - 1 = 1 /\ 3 - 1 = 2 /\ 4 - 1 = 3 /\ 5 - 1 = 4 /\ 6 - 1 = 5
        /\ 7 - 1 = 6 /\ 8 - 1 = 7 /\ 9 - 1 = 8 /\ 10 - 1 = 9 /\ 11 - 1 = 10
    OBVIOUS
  <2>2. /\ 1 \in 1 .. 11 /\ 2 \in 1 .. 11 /\ 3 \in 1 .. 11 /\ 4 \in 1 .. 11 /\ 5 \in 1 .. 11
        /\ 6 \in 1 .. 11 /\ 7 \in 1 .. 11 /\ 8 \in 1 .. 11 /\ 9 \in 1 .. 11 /\ 10 \in 1 .. 11
        /\ 11 \in 1 .. 11
    OBVIOUS
  <2>3. /\ ws[1] \in Escapes /\ ws[2] \notin Escapes /\ ws[3] \in Escapes
        /\ ws[4] \notin Escapes /\ ws[5] \in Escapes /\ ws[6] \notin Escapes
        /\ ws[7] \notin Escapes /\ ws[8] \notin Escapes /\ ws[9] \in Escapes
        /\ ws[10] \notin Escapes /\ ws[11] \in Escapes
    BY <1>2, <1>8, WordsInEscapes, Zenon
  <2>4. /\ V[1] = IF ws[1] \in Escapes THEN V[1 - 1] ELSE Append(V[1 - 1], Word(ws[1]))
        /\ V[2] = IF ws[2] \in Escapes THEN V[2 - 1] ELSE Append(V[2 - 1], Word(ws[2]))
        /\ V[3] = IF ws[3] \in Escapes THEN V[3 - 1] ELSE Append(V[3 - 1], Word(ws[3]))
        /\ V[4] = IF ws[4] \in Escapes THEN V[4 - 1] ELSE Append(V[4 - 1], Word(ws[4]))
        /\ V[5] = IF ws[5] \in Escapes THEN V[5 - 1] ELSE Append(V[5 - 1], Word(ws[5]))
        /\ V[6] = IF ws[6] \in Escapes THEN V[6 - 1] ELSE Append(V[6 - 1], Word(ws[6]))
        /\ V[7] = IF ws[7] \in Escapes THEN V[7 - 1] ELSE Append(V[7 - 1], Word(ws[7]))
        /\ V[8] = IF ws[8] \in Escapes THEN V[8 - 1] ELSE Append(V[8 - 1], Word(ws[8]))
        /\ V[9] = IF ws[9] \in Escapes THEN V[9 - 1] ELSE Append(V[9 - 1], Word(ws[9]))
        /\ V[10] = IF ws[10] \in Escapes THEN V[10 - 1] ELSE Append(V[10 - 1], Word(ws[10]))
        /\ V[11] = IF ws[11] \in Escapes THEN V[11 - 1] ELSE Append(V[11 - 1], Word(ws[11]))
    BY <1>7, <2>2, Zenon
  <2> HIDE <1>6, <1>7
  <2> QED
    BY <1>2, <2>1, <2>3, <2>4, Zenon
<1> DEFINE a == Word("timestamp")
           b == Word(Blank)
           e == Word("[")
           f == Word(d)
           g == Word("]")
           ps == PlainWords(level)
           p == Words(ps)
<1>11. /\ ps[1] = "timestamp" /\ ps[2] = Blank /\ ps[3] = "[" /\ ps[4] = d /\ ps[5] = "]"
       /\ ps[6] = Blank /\ Len(ps) = 6
  BY DEF PlainWords, d
<1>12. PICK Y : ps \in Seq(Y)
  BY PrefixWords
<1> HIDE DEF ps
<1>13. DOMAIN p = 1 .. 6 /\ \A i \in 1 .. 6 : p[i] = Word(ps[i])
  BY <1>11, <1>12, WordsAreLines
<1>14. IsLine(p)
  BY <1>12, WordsAreLines
<1>15. PICK Z : p \in Seq(Z)
  BY <1>14 DEF IsLine
<1> HIDE DEF p
<1>16. p[1] = a /\ p[2] = b /\ p[3] = e /\ p[4] = f /\ p[5] = g /\ p[6] = b /\ Len(p) = 6
  BY <1>11, <1>13, <1>15
<1> HIDE DEF a, b, e, f, g
<1> DEFINE P(k) == SubSeq(p, 1, k)
<1>17. V[11] = p
  <2>1. \A k \in 1 .. 6 : Append(P(k - 1), p[k]) = P(k)
    BY <1>15, <1>16, PrefixGrows
  <2>2. P(0) = << >> /\ P(6) = p
    BY <1>15, <1>16, NothingOfPrefix, SubSeqFull
  <2> HIDE DEF P
  <2>3. /\ 1 - 1 = 0 /\ 2 - 1 = 1 /\ 3 - 1 = 2 /\ 4 - 1 = 3 /\ 5 - 1 = 4 /\ 6 - 1 = 5
        /\ 1 \in 1 .. 6 /\ 2 \in 1 .. 6 /\ 3 \in 1 .. 6 /\ 4 \in 1 .. 6 /\ 5 \in 1 .. 6
        /\ 6 \in 1 .. 6
    OBVIOUS
  <2>4. /\ Append(P(1 - 1), p[1]) = P(1) /\ Append(P(2 - 1), p[2]) = P(2)
        /\ Append(P(3 - 1), p[3]) = P(3) /\ Append(P(4 - 1), p[4]) = P(4)
        /\ Append(P(5 - 1), p[5]) = P(5) /\ Append(P(6 - 1), p[6]) = P(6)
    BY <2>1, <2>3, Zenon
  <2>5. /\ Append(P(0), a) = P(1) /\ Append(P(1), b) = P(2) /\ Append(P(2), e) = P(3)
        /\ Append(P(3), f) = P(4) /\ Append(P(4), g) = P(5) /\ Append(P(5), b) = P(6)
    BY <1>16, <2>3, <2>4, Zenon
  <2>6. /\ V[1] = V[0] /\ V[2] = Append(V[1], a) /\ V[3] = V[2] /\ V[4] = Append(V[3], b)
        /\ V[5] = V[4] /\ V[6] = Append(V[5], e) /\ V[7] = Append(V[6], f)
        /\ V[8] = Append(V[7], g) /\ V[9] = V[8] /\ V[10] = Append(V[9], b) /\ V[11] = V[10]
    BY <1>9 DEF a, b, e, f, g
  <2> HIDE <1>9
  <2>7. V[1] = P(0) /\ V[2] = P(1)
    BY <1>6, <2>2, <2>5, <2>6, Zenon
  <2>8. V[4] = P(2) /\ V[6] = P(3)
    BY <2>5, <2>6, <2>7, Zenon
  <2>9. V[7] = P(4) /\ V[8] = P(5) /\ V[10] = P(6)
    BY <2>5, <2>6, <2>8, Zenon
  <2> QED
    BY <2>2, <2>6, <2>9, Zenon
<1>18. Visible(q) = V[11]
  BY <1>5, VisibleIsLast DEF V
<1> QED
  BY <1>17, <1>18 DEF q, p, ws, ps

(* One word makes one token.                                               *)
LEMMA OneWord == \A w : Words(<< w >>) = << Word(w) >>
BY DEF Words

(* Of a reset with a blank the blank is seen.                              *)
LEMMA ResetVisible ==
  Visible(Words(<< "RESET", Blank >>)) = Words(<< Blank >>)
<1> DEFINE a == Word("RESET")
           b == Word(Blank)
<1>1. Words(<< "RESET", Blank >>) = << a >> \o << b >>
  BY DEF Words
<1>2. a.word \in Escapes /\ b.word \notin Escapes
  BY WordsInEscapes, WordIsItself, Zenon
<1> HIDE DEF a, b
<1>3. IsLine(<< a >>) /\ IsLine(<< b >>)
  BY OnesAreLines
<1>4. Visible(<< b >>) = << b >>
  BY <1>2, OneVisible
<1>5. Visible(<< a >>) = << >>
  <2> DEFINE q == << a >>
  <2>1. q \in Seq({a}) /\ Len(q) = 1 /\ q[1] = a /\ 1 \in 1 .. 1 /\ 1 - 1 = 0
    OBVIOUS
  <2> HIDE DEF q
  <2>2. Visibles(q)[1] = ShowNext(Visibles(q)[0], a) /\ Visibles(q)[0] = << >>
    BY <2>1, VisibleSteps
  <2>3. Visible(q) = << >>
    BY <1>2, <2>1, <2>2, VisibleIsLast DEF ShowNext
  <2> QED
    BY <2>3 DEF q
<1>6. Visible(<< a >> \o << b >>) = Visible(<< a >>) \o Visible(<< b >>)
  BY <1>3, VisibleJoins
<1>7. << >> \o << b >> = << b >>
  OBVIOUS
<1> QED
  BY <1>1, <1>4, <1>5, <1>6, <1>7, OneWord DEF b

(* The place in the source has no colour of its own.                       *)
LEMMA PlaceVisible ==
  ASSUME NEW target, NEW number
  PROVE  Visible(TargetAndLine(target, number)) = TargetAndLine(target, number)
<1> DEFINE t == Datum(target, << >>)
           c == Word(":")
           d == Datum(<< number >>, << >>)
           a == << t >>
           e == << >>
           b == << c, d >>
<1>1. TargetAndLine(target, number) = a \o (IF number > 0 THEN b ELSE e)
  BY DEF TargetAndLine
<1>2. t.word \notin Escapes /\ c.word \notin Escapes /\ d.word \notin Escapes
  BY WordsInEscapes, WordIsItself, DatumIsNoWord, Zenon
<1> HIDE DEF t, c, d
<1>3. Seen(a)
  BY <1>2, OneVisible DEF Seen
<1>4. Seen(b)
  <2> DEFINE q == << c >>
             r == << d >>
  <2>1. Seen(q) /\ Seen(r)
    BY <1>2, OneVisible DEF Seen
  <2>2. b = q \o r
    BY TwoAsOnes
  <2> HIDE DEF q, r, b
  <2>3. Seen(q \o r)
    BY <2>1, SeenJoin
  <2> QED
    BY <2>2, <2>3, Zenon
<1>5. a \o e = a
  OBVIOUS
<1> HIDE DEF a, b, e
<1>6. Seen(a \o b)
  BY <1>3, <1>4, SeenJoin
<1>7. Visible(a) = a /\ Visible(a \o b) = a \o b
  BY <1>3, <1>6 DEF Seen
<1> QED
  BY <1>1, <1>5, <1>7

(* So both branches of the prefix are seen alike.                          *)
LEMMA PrefixVisible ==
  ASSUME NEW level \in Nat, LevelStr(level) \notin Escapes, NEW target, NEW number
  PROVE  Visible(WritePrefixInner(level, target, number)) =
           Words(PlainWords(level)) \o TargetAndLine(target, number) \o Words(<< Blank >>)
<1> DEFINE a == Words(ColorWords(level))
           b == Words(PlainWords(level))
           c == Words(<< "RESET", Blank >>)
           d == Words(<< Blank >>)
           p == TargetAndLine(target, number)
<1>1. WritePrefixInner(level, target, number) = IF colored THEN a \o p \o c ELSE b \o p \o d
  BY DEF WritePrefixInner, ColorWords, PlainWords
<1>2. IsLine(a) /\ IsLine(b) /\ IsLine(c) /\ IsLine(d) /\ IsLine(p)
  BY PrefixIsLine, PlaceIsLine
<1>3. Visible(a) = b /\ Visible(c) = d /\ Visible(p) = p
  BY ColoredVisible, ResetVisible, PlaceVisible
<1>4. Visible(b) = b
  <2> DEFINE ps == PlainWords(level)
             n == LevelStr(level)
  <2>1. PICK W : ps \in Seq(W)
    BY PrefixWords
  <2> HIDE DEF n
  <2>2. /\ ps[1] = "timestamp" /\ ps[2] = Blank /\ ps[3] = "[" /\ ps[4] = n
        /\ ps[5] = "]" /\ ps[6] = Blank /\ Len(ps) = 6
    BY DEF PlainWords, n
  <2> HIDE DEF ps
  <2>3. \A i \in 1 .. 6 : i = 1 \/ i = 2 \/ i = 3 \/ i = 4 \/ i = 5 \/ i = 6
    OBVIOUS
  <2>4. \A i \in 1 .. Len(ps) : ps[i] \notin Escapes
    <3>1. n \notin Escapes
      BY DEF n
    <3> QED
      BY <2>2, <2>3, <3>1, WordsInEscapes, Zenon
  <2> QED
    BY <2>1, <2>4, WordsVisible DEF ps
<1>5. Visible(d) = d
  <2>1. d = << Word(Blank) >>
    BY OneWord
  <2> QED
    BY <2>1, OneVisible, WordsInEscapes, WordIsItself, Zenon
<1> HIDE DEF a, b, c, d, p
<1>6. Visible(a \o p \o c) = b \o p \o d
  <2> DEFINE x == a \o p
             y == b \o p
  <2>1. IsLine(x)
    BY <1>2, LinesJoin
  <2>2. Visible(x) = Visible(a) \o Visible(p)
    BY <1>2, VisibleJoins
  <2>3. Visible(x) = y
    BY <1>3, <2>2, Zenon
  <2> HIDE DEF x, y
  <2>4. Visible(x \o c) = Visible(x) \o Visible(c)
    BY <1>2, <2>1, VisibleJoins
  <2>5. Visible(x \o c) = y \o d
    BY <1>3, <2>3, <2>4, Zenon
  <2> QED
    BY <2>5 DEF x, y
<1>7. Visible(b \o p \o d) = b \o p \o d
  <2> DEFINE x == b \o p
  <2>1. Seen(b) /\ Seen(p) /\ Seen(d)
    BY <1>2, <1>3, <1>4, <1>5 DEF Seen
  <2>2. Seen(x)
    BY <2>1, SeenJoin
  <2> HIDE DEF x
  <2>3. Seen(x \o d)
    BY <2>1, <2>2, SeenJoin
  <2> QED
    BY <2>3 DEF Seen, x
<1> QED
  BY <1>1, <1>6, <1>7 DEF b, p, d

(* What is seen of a line's beginning is the beginning of what is seen.    *)
LEMMA SeenFirst ==
  ASSUME NEW a, NEW x, NEW y, IsLine(a), IsLine(x), IsLine(y)
  PROVE  IsPrefix(Visible(a), Visible((a \o x) \o y))
<1>1. IsLine(a \o x)
  BY LinesJoin
<1>2. Visible((a \o x) \o y) = (Visible(a) \o Visible(x)) \o Visible(y)
  <2> DEFINE z == a \o x
  <2>1. Visible(z) = Visible(a) \o Visible(x) /\ IsLine(z)
    BY <1>1, VisibleJoins
  <2> HIDE DEF z
  <2>2. Visible(z \o y) = Visible(z) \o Visible(y)
    BY <2>1, VisibleJoins
  <2> QED
    BY <2>1, <2>2 DEF z
<1>3. IsLine(Visible(a)) /\ IsLine(Visible(x)) /\ IsLine(Visible(y))
  BY VisibleJoins
<1> DEFINE va == Visible(a)
           vx == Visible(x)
           vy == Visible(y)
<1> HIDE DEF va, vx, vy
<1>4. IsLine(va) /\ IsLine(vx) /\ IsLine(vy)
  BY <1>3 DEF va, vx, vy
<1>5. (va \o vx) \o vy = va \o (vx \o vy)
  BY <1>4, LinesRegroup, SMTT(30)
<1>6. IsLine(vx \o vy)
  BY <1>4, LinesJoin
<1>7. IsPrefix(va, va \o (vx \o vy))
  BY <1>4, <1>6, PrefixOfJoined
<1> QED
  BY <1>2, <1>5, <1>7 DEF va, vx, vy

(* What is documented of a log line.                                       *)
LEMMA LogLineDocumented ==
  ASSUME NEW c, c.kind # "archive", c.level \in LogLevels, c.number \in Nat
  PROVE  Documented(c) = Visible(WritePrefixInner(LevelToU8[c.level], c.name, c.number))
<1> DEFINE level == LevelToU8[c.level]
           name == LevelName[c.level]
           t == Datum(c.name, << >>)
           w == Word(":")
           d == Datum(<< c.number >>, << >>)
           place == IF c.number = 0 THEN << t >> ELSE << t, w, d >>
<1>1. level \in Nat /\ LevelStr(level) = name /\ LevelStr(level) \notin Escapes
  BY LevelsAreNamed
<1>2. Documented(c) = Words(<< "timestamp", Blank, "[", name, "]", Blank >>)
                      \o place \o << Word(Blank) >>
  BY DEF Documented, LevelName
<1>3. place = TargetAndLine(c.name, c.number)
  <2> DEFINE e == << >>
             r == << w, d >>
  <2>1. TargetAndLine(c.name, c.number) = << t >> \o (IF c.number > 0 THEN r ELSE e)
    BY DEF TargetAndLine
  <2> HIDE DEF t, w, d
  <2>2. << t >> \o e = << t >>
    OBVIOUS
  <2>3. << t >> \o r = << t, w, d >>
    <3> DEFINE T == {t, w, d}
               a == << t >>
               z == << t, w, d >>
               y == a \o r
    <3>1. a \in Seq(T) /\ Len(a) = 1 /\ a[1] = t
      OBVIOUS
    <3>2. r \in Seq(T) /\ Len(r) = 2 /\ r[1] = w /\ r[2] = d
      OBVIOUS
    <3>3. z \in Seq(T) /\ Len(z) = 3 /\ z[1] = t /\ z[2] = w /\ z[3] = d
      OBVIOUS
    <3> HIDE DEF a, r, z, T
    <3>4. y \in Seq(T) /\ Len(y) = Len(a) + Len(r)
          /\ \A i \in 1 .. Len(a) + Len(r) :
               y[i] = IF i <= Len(a) THEN a[i] ELSE r[i - Len(a)]
      <4>1. a \in Seq(T) /\ r \in Seq(T)
        BY <3>1, <3>2
      <4> QED
        BY <4>1, ConcatProperties
    <3> HIDE DEF y
    <3>5. Len(y) = 3 /\ y[1] = t /\ y[2] = w /\ y[3] = d
      BY <3>1, <3>2, <3>4
    <3>6. \A i \in 1 .. 3 : i = 1 \/ i = 2 \/ i = 3
      OBVIOUS
    <3>7. y = z
      BY <3>3, <3>4, <3>5, <3>6, SeqEqual
    <3> QED
      BY <3>7 DEF y, z, a
  <2>4. c.number > 0 <=> ~(c.number = 0)
    OBVIOUS
  <2> HIDE DEF e, r
  <2> QED
    BY <2>1, <2>2, <2>3, <2>4
<1>4. << Word(Blank) >> = Words(<< Blank >>)
  BY OneWord
<1>5. PlainWords(level) = << "timestamp", Blank, "[", name, "]", Blank >>
  BY <1>1 DEF PlainWords
<1>6. Visible(WritePrefixInner(level, c.name, c.number)) =
        Words(PlainWords(level)) \o TargetAndLine(c.name, c.number) \o Words(<< Blank >>)
  BY <1>1, PrefixVisible
<1> HIDE DEF level, name, place
<1> QED
  BY <1>2, <1>3, <1>4, <1>5, <1>6 DEF level

(* And of the line of an archive.                                          *)
LEMMA ArchiveLineDocumented ==
  ASSUME NEW c, c.kind = "archive"
  PROVE  Visible(Documented(c)) = Documented(c) /\ IsLine(Documented(c))
<1> DEFINE a == << Datum(<< c.number >>, << >>) >>
           b == Words(<< Blank, "[" >>)
           d == << Datum(c.name, << >>) >>
           e == Words(<< "]", Blank >>)
<1>1. Documented(c) = a \o b \o d \o e
  BY DEF Documented
<1>2. Visible(a) = a /\ IsLine(a) /\ Visible(d) = d /\ IsLine(d)
  BY OneVisible, WordsInEscapes, DatumIsNoWord, Zenon
<1>3. Visible(b) = b /\ IsLine(b) /\ Visible(e) = e /\ IsLine(e)
  <2> DEFINE o == "["
             p == "]"
             ws == << Blank, o >>
             us == << p, Blank >>
  <2>1. o \notin Escapes /\ p \notin Escapes /\ Blank \notin Escapes
    BY WordsInEscapes, Zenon
  <2> HIDE DEF o, p
  <2>2. ws \in Seq({Blank, o, p}) /\ us \in Seq({Blank, o, p})
    OBVIOUS
  <2>3. /\ Len(ws) = 2 /\ ws[1] = Blank /\ ws[2] = o
        /\ Len(us) = 2 /\ us[1] = p /\ us[2] = Blank /\ \A i \in 1 .. 2 : i = 1 \/ i = 2
    OBVIOUS
  <2> HIDE DEF ws, us
  <2>4. /\ \A i \in 1 .. Len(ws) : ws[i] \notin Escapes
        /\ \A i \in 1 .. Len(us) : us[i] \notin Escapes
    BY <2>1, <2>3
  <2> QED
    BY <2>2, <2>4, WordsVisible DEF ws, us, o, p
<1> HIDE DEF a, b, d, e
<1>4. Seen(a) /\ Seen(b) /\ Seen(d) /\ Seen(e)
  BY <1>2, <1>3 DEF Seen
<1> DEFINE x == a \o b
           y == x \o d
<1>5. Seen(x)
  BY <1>4, SeenJoin
<1> HIDE DEF x
<1>6. Seen(y)
  BY <1>4, <1>5, SeenJoin
<1> HIDE DEF y
<1>7. Seen(y \o e)
  BY <1>4, <1>6, SeenJoin
<1> QED
  BY <1>1, <1>7 DEF x, y, Seen

(* Every call has a format string, its own or the one of its kind.         *)
LEMMA FormatIsString ==
  ASSUME NEW c \in AnyHot, fmt \in Seq(Chars)
  PROVE  \E X : FormatOf(c) \in Seq(X)
<1>1. CASE stage = "logged"
  BY <1>1 DEF FormatOf
<1>2. CASE stage # "logged"
  <2> DEFINE n == 2 * Len(c.args)
             f == [i \in 1 .. n |-> IF i % 2 = 1 THEN Open ELSE Close]
  <2>1. n \in Nat
    BY DEF AnyHot
  <2>2. FormatOf(c) = f
    BY <1>2 DEF FormatOf
  <2> HIDE DEF n
  <2>3. f \in [1 .. n -> {Open, Close}]
    OBVIOUS
  <2>4. f \in Seq({Open, Close})
    BY <2>1, <2>3
  <2> QED
    BY <2>2, <2>4
<1> QED
  BY <1>1, <1>2

(* Every line is as documented, in either colour mode: the level the       *)
(* caller gave, the target, and the line number unless it is 0, before the *)
(* message; for an archive the label before the payload.  The exceptions   *)
(* are the lengths cut to their fields.                                    *)
THEOREM LinesAreDocumented == LSpec => []LineAsDocumented
<1>1. RecordInv /\ LineInv /\ PrintsWhatWasLogged => LineAsDocumented
  <2> SUFFICES ASSUME RecordInv, LineInv, PrintsWhatWasLogged,
                      pc = "printed", ~LengthIsCut(call)
               PROVE  IsPrefix(Documented(call), Visible(line))
    BY DEF LineAsDocumented
  <2>1. call \in AnyCall
    BY DEF RecordInv, Accepted
  <2>2. line = Printed(call, got) /\ fmt \in Seq(Chars)
    BY DEF LineInv, LinePrinted, StringTyped
  <2> DEFINE texts == [k \in DOMAIN call.args |-> call.args[k].bytes]
             end == << Word("newline") >>
             prefix == WritePrefixInner(LevelToU8[call.level], call.name, call.number)
  <2>3. got = Line(LevelToU8[call.level], call.number, call.name, texts)
    BY DEF PrintsWhatWasLogged
  <2> HIDE DEF texts
  <2>4. /\ got.ok /\ got.level = LevelToU8[call.level] /\ got.number = call.number
        /\ got.name = call.name
    BY <2>3 DEF Line
  <2>5. IsLine(end) /\ IsLine(prefix)
    BY OnesAreLines, PrefixIsLine
  <2>6. ASSUME call \in AnyHot \cup AnyBridge
        PROVE  Documented(call) = Visible(prefix)
    <3>1. call.kind # "archive" /\ call.level \in LogLevels /\ call.number \in Nat
      BY <2>6 DEF AnyHot, AnyBridge, Fitting
    <3> QED
      BY <3>1, LogLineDocumented
  <2>7. CASE call \in AnyHot
    <3> DEFINE message == MessageOf(FormatOf(call), call, got.texts)
    <3>1. call.kind = "hot"
      BY <2>7 DEF AnyHot
    <3>2. line = (prefix \o message) \o end
      BY <2>2, <2>4, <3>1, PrintedHot
    <3>3. IsLine(message)
      <4>1. PICK X : FormatOf(call) \in Seq(X)
        BY <2>2, <2>7, FormatIsString
      <4> QED
        BY <4>1, FilledIsLine DEF MessageOf
    <3> HIDE DEF message, prefix, end
    <3> QED
      BY <2>5, <2>6, <2>7, <3>2, <3>3, SeenFirst
  <2>8. CASE call \in AnyBridge
    <3> DEFINE message == << Datum(got.texts[1], << >>) >>
    <3>1. call.kind = "bridge"
      BY <2>8 DEF AnyBridge
    <3>2. line = (prefix \o message) \o end
      BY <2>2, <2>4, <3>1 DEF Printed
    <3>3. IsLine(message)
      BY OnesAreLines
    <3> HIDE DEF message, prefix, end
    <3> QED
      BY <2>5, <2>6, <2>8, <3>2, <3>3, SeenFirst
  <2>9. CASE call \in AnyArchive
    <3> DEFINE payload == << Datum(got.texts[1], << >>) >>
               d == Documented(call)
    <3>1. call.kind = "archive"
      BY <2>9 DEF AnyArchive
    <3>2. line = (d \o payload) \o end
      BY <2>2, <2>4, <3>1 DEF Printed, Documented
    <3>3. IsLine(payload)
      BY OnesAreLines
    <3>4. Visible(d) = d /\ IsLine(d)
      BY <3>1, ArchiveLineDocumented
    <3> HIDE DEF payload, d, end
    <3>5. IsPrefix(Visible(d), Visible((d \o payload) \o end))
      BY <2>5, <3>3, <3>4, SeenFirst
    <3> QED
      BY <3>2, <3>4, <3>5 DEF d
  <2> QED
    BY <2>1, <2>7, <2>8, <2>9 DEF AnyCall
<1>2. LSpec => []RecordInv
  BY LinesImplementRecords, InvHolds, PTL
<1> QED
  BY <1>1, <1>2, LineInvariant, RecordsOfLines, PTL
=============================================================================
