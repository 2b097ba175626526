-------------------------- MODULE RecordCodecProofs --------------------------
(***************************************************************************)
(* RecordCodec, proved for a byte of any Base > 1 (256 in the code), and   *)
(* for calls with any number of arguments and any bytes in them.           *)
(***************************************************************************)
EXTENDS RecordCodec, Integers, SequenceTheorems, WellFoundedInduction, TLAPS

-----------------------------------------------------------------------------
(* Induction.  The properties to be proved by it are sets of numbers.      *)

(* Induction over the natural numbers, by the least number that is         *)
(* missing.                                                                *)
LEMMA InductionOnSets ==
  ASSUME NEW T, 0 \in T, \A n \in Nat : n \in T => n + 1 \in T
  PROVE  Nat \subseteq T
<1> DEFINE bad == Nat \ T
           R == OpToRel(<, Nat)
<1>1. SUFFICES ASSUME bad # {} PROVE FALSE
  OBVIOUS
<1>2. IsWellFoundedOn(R, Nat)
  BY NatLessThanWellFounded, Zenon
<1>3. \A x, y \in Nat : x < y => << x, y >> \in R
  BY DEF OpToRel
<1> HIDE DEF R
<1>4. PICK x \in bad : \A y \in bad : ~(<< y, x >> \in R)
  BY <1>1, <1>2, WFMin
<1>5. x # 0 /\ x \in Nat
  OBVIOUS
<1>6. x - 1 \in Nat /\ x - 1 < x /\ (x - 1) + 1 = x
  BY <1>5
<1>7. x - 1 \in bad
  BY <1>4, <1>5, <1>6
<1> QED
  BY <1>3, <1>4, <1>5, <1>6, <1>7

(* The same up to a number. *)
LEMMA InductionUpTo ==
  ASSUME NEW n \in Nat, NEW T, 0 \in T,
         \A k \in 1 .. n : k - 1 \in T => k \in T
  PROVE  0 .. n \subseteq T
<1> DEFINE U == {k \in Nat : k <= n => k \in T}
<1>1. 0 \in U
  OBVIOUS
<1>2. ASSUME NEW k \in Nat, k \in U PROVE k + 1 \in U
  <2> SUFFICES ASSUME k + 1 <= n PROVE k + 1 \in T
    OBVIOUS
  <2>1. k \in T /\ k + 1 \in 1 .. n /\ (k + 1) - 1 = k
    BY <1>2
  <2> QED
    BY <2>1
<1> HIDE DEF U
<1>3. Nat \subseteq U
  BY <1>1, <1>2, InductionOnSets
<1> QED
  BY <1>3 DEF U

(* A function is defined by its first value and by what each value makes   *)
(* of the one before.                                                      *)
Recurs(f, n, a, G) ==
  f[0] = a /\ \A k \in 1 .. n : f[k] = G[<< f[k - 1], k >>]

HasRecursion(n, S, a, G) == \E f \in [0 .. n -> S] : Recurs(f, n, a, G)

(* There is such a function, so the CHOOSE behind a recursive definition   *)
(* finds it.                                                               *)
LEMMA RecursionWorks ==
  ASSUME NEW n \in Nat, NEW S, NEW a \in S, NEW G \in [S \X (1 .. n) -> S]
  PROVE  HasRecursion(n, S, a, G)
<1> DEFINE T == {m \in 0 .. n : \E f \in [0 .. m -> S] : Recurs(f, m, a, G)}
<1>1. 0 \in T
  <2>1. [k \in 0 .. 0 |-> a] \in [0 .. 0 -> S] /\ Recurs([k \in 0 .. 0 |-> a], 0, a, G)
    BY DEF Recurs
  <2>2. \E f \in [0 .. 0 -> S] : Recurs(f, 0, a, G)
    <3> DEFINE f == [k \in 0 .. 0 |-> a]
    <3>1. f \in [0 .. 0 -> S] /\ Recurs(f, 0, a, G)
      BY <2>1
    <3> HIDE DEF f
    <3> QED
      BY <3>1
  <2> QED
    BY <2>2
<1>2. ASSUME NEW m \in 1 .. n, m - 1 \in T PROVE m \in T
  <2>1. PICK f \in [0 .. (m - 1) -> S] : Recurs(f, m - 1, a, G)
    BY <1>2
  <2> DEFINE v == G[<< f[m - 1], m >>]
             g == [k \in 0 .. m |-> IF k = m THEN v ELSE f[k]]
  <2>2. m - 1 \in 0 .. m - 1 /\ v \in S
    BY <2>1
  <2>3. g \in [0 .. m -> S]
    <3>1. \A k \in 0 .. m : k # m => k \in 0 .. m - 1
      OBVIOUS
    <3> HIDE DEF v
    <3> QED
      BY <2>1, <2>2, <3>1
  <2>4. Recurs(g, m, a, G)
    <3>1. \A k \in 0 .. m - 1 : g[k] = f[k]
      OBVIOUS
    <3>2. g[m] = v
      OBVIOUS
    <3>3. \A k \in 1 .. m : k # m => k \in 1 .. m - 1 /\ k \in 0 .. m - 1 /\ k - 1 \in 0 .. m - 1
      OBVIOUS
    <3>4. g[0] = a
      BY <2>1, <3>1 DEF Recurs
    <3> HIDE DEF g
    <3>5. ASSUME NEW k \in 1 .. m PROVE g[k] = G[<< g[k - 1], k >>]
      BY <2>1, <2>2, <3>1, <3>2, <3>3 DEF Recurs
    <3> QED
      BY <3>4, <3>5 DEF Recurs
  <2>5. \E h \in [0 .. m -> S] : Recurs(h, m, a, G)
    <3> HIDE DEF g
    <3> QED
      BY <2>3, <2>4
  <2> QED
    BY <2>5
<1> HIDE DEF T
<1>3. n \in T
  BY <1>1, <1>2, InductionUpTo
<1> QED
  BY <1>3 DEF T, HasRecursion

(* What the first value has and each step keeps, all values have.          *)
LEMMA StepsKeep ==
  ASSUME NEW n \in Nat, NEW S, NEW f, f[0] \in S,
         \A k \in 1 .. n : f[k - 1] \in S => f[k] \in S
  PROVE  \A k \in 0 .. n : f[k] \in S
<1> DEFINE T == {k \in 0 .. n : f[k] \in S}
<1>1. 0 \in T
  OBVIOUS
<1>2. ASSUME NEW k \in 1 .. n, k - 1 \in T PROVE k \in T
  BY <1>2
<1> HIDE DEF T
<1>3. 0 .. n \subseteq T
  BY <1>1, <1>2, InductionUpTo
<1> QED
  BY <1>3 DEF T

-----------------------------------------------------------------------------
(* Weights and sums. *)

(* Weight counts in bytes.                                                 *)
LEMMA WeightsMultiply ==
  /\ Weight \in [0 .. 8 -> Nat]
  /\ Weight[0] = 1
  /\ \A k \in 1 .. 8 : Weight[k] = Base * Weight[k - 1]
<1> USE BaseAssumption
<1> DEFINE G == [p \in Nat \X (1 .. 8) |-> Base * p[1]]
<1>1. G \in [Nat \X (1 .. 8) -> Nat]
  OBVIOUS
<1> HIDE DEF G
<1>2. PICK f \in [0 .. 8 -> Nat] :
        f[0] = 1 /\ \A k \in 1 .. 8 : f[k] = G[<< f[k - 1], k >>]
  <2>1. 1 \in Nat /\ 8 \in Nat
    OBVIOUS
  <2>2. HasRecursion(8, Nat, 1, G)
    BY <1>1, <2>1, RecursionWorks
  <2> QED
    BY <2>2 DEF HasRecursion, Recurs
<1>3. \A k \in 1 .. 8 : f[k] = Base * f[k - 1]
  <2> SUFFICES ASSUME NEW k \in 1 .. 8 PROVE f[k] = Base * f[k - 1]
    OBVIOUS
  <2>1. k - 1 \in 0 .. 8 /\ << f[k - 1], k >> \in Nat \X (1 .. 8)
    BY <1>2
  <2> QED
    BY <1>2, <2>1 DEF G
<1>4. f = [k \in 0 .. 8 |-> IF k = 0 THEN 1 ELSE Base * f[k - 1]]
  <2>1. \A k \in 0 .. 8 : k # 0 => k \in 1 .. 8
    OBVIOUS
  <2> QED
    BY <1>2, <1>3, <2>1
<1>5. Weight = [k \in 0 .. 8 |-> IF k = 0 THEN 1 ELSE Base * Weight[k - 1]]
  BY <1>4 DEF Weight
<1> DEFINE W == Weight
<1>6. W = [k \in 0 .. 8 |-> IF k = 0 THEN 1 ELSE Base * W[k - 1]]
  BY <1>5
<1> HIDE DEF W
<1>7. W[0] = 1 /\ \A k \in 1 .. 8 : W[k] = Base * W[k - 1]
  BY <1>6
<1>8. \A k \in 0 .. 8 : W[k] \in Nat
  <2>1. \A k \in 1 .. 8 : W[k - 1] \in Nat => W[k] \in Nat
    BY <1>7
  <2>2. W[0] \in Nat
    BY <1>7
  <2> QED
    BY <2>1, <2>2, StepsKeep
<1> QED
  BY <1>6, <1>7, <1>8 DEF W

(* Sums adds up a list.                                                    *)
LEMMA SumsAdd ==
  ASSUME NEW ns \in Seq(Nat)
  PROVE  /\ Sums(ns) \in [0 .. Len(ns) -> Nat]
         /\ Sums(ns)[0] = 0
         /\ \A k \in 1 .. Len(ns) : Sums(ns)[k] = Sums(ns)[k - 1] + ns[k]
<1> DEFINE n == Len(ns)
           G == [p \in Nat \X (1 .. n) |-> p[1] + ns[p[2]]]
<1>0. n \in Nat /\ \A k \in 1 .. n : ns[k] \in Nat
  OBVIOUS
<1>1. G \in [Nat \X (1 .. n) -> Nat]
  BY <1>0
<1> HIDE DEF G, n
<1>2. PICK f \in [0 .. n -> Nat] :
        f[0] = 0 /\ \A k \in 1 .. n : f[k] = G[<< f[k - 1], k >>]
  <2>1. 0 \in Nat
    OBVIOUS
  <2>2. HasRecursion(n, Nat, 0, G)
    BY <1>0, <1>1, <2>1, RecursionWorks
  <2> QED
    BY <2>2 DEF HasRecursion, Recurs
<1>3. \A k \in 1 .. n : f[k] = f[k - 1] + ns[k]
  <2> SUFFICES ASSUME NEW k \in 1 .. n PROVE f[k] = f[k - 1] + ns[k]
    OBVIOUS
  <2>1. k - 1 \in 0 .. n /\ << f[k - 1], k >> \in Nat \X (1 .. n)
    BY <1>0, <1>2
  <2> QED
    BY <1>2, <2>1 DEF G
<1>4. f = [k \in 0 .. n |-> IF k = 0 THEN 0 ELSE f[k - 1] + ns[k]]
  <2>1. \A k \in 0 .. n : k # 0 => k \in 1 .. n
    BY <1>0
  <2> QED
    BY <1>2, <1>3, <2>1
<1> DEFINE W == Sums(ns)
<1>6. W = [k \in 0 .. n |-> IF k = 0 THEN 0 ELSE W[k - 1] + ns[k]]
  BY <1>4 DEF Sums, n
<1> HIDE DEF W
<1>7. W[0] = 0 /\ \A k \in 1 .. n : W[k] = W[k - 1] + ns[k]
  <2>1. 0 \in 0 .. n /\ \A k \in 1 .. n : k \in 0 .. n /\ k # 0
    BY <1>0
  <2> QED
    BY <1>6, <2>1
<1>8. \A k \in 0 .. n : W[k] \in Nat
  <2>1. ASSUME NEW k \in 1 .. n, W[k - 1] \in Nat PROVE W[k] \in Nat
    <3>1. ns[k] \in Nat /\ W[k] = W[k - 1] + ns[k]
      BY <1>0, <1>7
    <3> HIDE <1>7
    <3> QED
      BY <2>1, <3>1
  <2>2. W[0] \in Nat
    BY <1>7
  <2> QED
    BY <1>0, <2>1, <2>2, StepsKeep
<1> QED
  BY <1>6, <1>7, <1>8 DEF W, n

-----------------------------------------------------------------------------
(* Numbers as bytes. *)

(* What the solver needs to be told of products.                           *)
LEMMA ProductsGrow ==
  ASSUME NEW a \in Nat, NEW b \in Nat, NEW d \in Nat
  PROVE  a * d \in Nat /\ (a <= b => a * d <= b * d)
  BY SMTT(30)

(* Weights are positive and grow.                                          *)
LEMMA WeightsGrow ==
  /\ \A k \in 0 .. 8 : Weight[k] \in Nat \ {0}
  /\ \A k \in 1 .. 8 : Weight[k - 1] <= Weight[k]
<1>1. ASSUME NEW w \in Nat \ {0} PROVE Base * w \in Nat \ {0} /\ w <= Base * w
  <2>1. w \in Nat /\ Base \in Nat /\ 1 <= Base
    BY BaseAssumption
  <2>2. 1 * w <= Base * w /\ Base * w \in Nat
    BY <2>1, ProductsGrow
  <2> QED
    BY <1>1, <2>2
<1> DEFINE W == Weight
<1>2. W[0] = 1 /\ \A k \in 1 .. 8 : W[k] = Base * W[k - 1]
  BY WeightsMultiply
<1> HIDE DEF W
<1>3. \A k \in 0 .. 8 : W[k] \in Nat \ {0}
  <2>1. W[0] \in Nat \ {0}
    BY <1>2
  <2>2. \A k \in 1 .. 8 : W[k - 1] \in Nat \ {0} => W[k] \in Nat \ {0}
    BY <1>1, <1>2
  <2> QED
    BY <2>1, <2>2, StepsKeep
<1>4. \A k \in 1 .. 8 : k - 1 \in 0 .. 8
  OBVIOUS
<1> QED
  BY <1>1, <1>2, <1>3, <1>4 DEF W

(* Quotient and remainder make up the number,                              *)
LEMMA DivisionHolds ==
  ASSUME NEW a \in Nat, NEW d \in Nat \ {0}
  PROVE  /\ a \div d \in Nat /\ a % d \in 0 .. d - 1
         /\ a = (a \div d) * d + (a % d)
  BY SMTT(30)

(* and no other two do.                                                    *)
LEMMA DivisionIsUnique ==
  ASSUME NEW a \in Nat, NEW d \in Nat \ {0}, NEW q \in Nat, NEW r \in 0 .. d - 1,
         a = q * d + r
  PROVE  a \div d = q /\ a % d = r
<1> DEFINE p == a \div d
           s == a % d
<1>1. p \in Nat /\ s \in 0 .. d - 1 /\ a = p * d + s
  BY DivisionHolds
<1> HIDE DEF p, s
<1>2. p * d \in Nat /\ q * d \in Nat
  BY <1>1, ProductsGrow
<1>3. p + 1 <= q => p * d + d <= q * d
  <2>1. p + 1 <= q => (p + 1) * d <= q * d
    BY <1>1, ProductsGrow
  <2>2. (p + 1) * d = p * d + d
    BY <1>1
  <2> QED
    BY <2>1, <2>2
<1>4. q + 1 <= p => q * d + d <= p * d
  <2>1. q + 1 <= p => (q + 1) * d <= p * d
    BY <1>1, ProductsGrow
  <2>2. (q + 1) * d = q * d + d
    OBVIOUS
  <2> QED
    BY <2>1, <2>2
<1>5. p = q
  <2> DEFINE x == p * d
             y == q * d
  <2>1. x \in Nat /\ y \in Nat /\ a = x + s /\ a = y + r
    BY <1>1, <1>2
  <2>2. (p + 1 <= q => x + d <= y) /\ (q + 1 <= p => y + d <= x)
    BY <1>3, <1>4
  <2> HIDE DEF x, y
  <2> QED
    BY <1>1, <2>1, <2>2
<1> QED
  BY <1>1, <1>2, <1>5 DEF p, s

(* Cutting a number to one byte more adds the byte there. *)
LEMMA OneByteMore ==
  ASSUME NEW a \in Nat, NEW w \in Nat \ {0}
  PROVE  a % (Base * w) = (a % w) + ((a \div w) % Base) * w
<1> DEFINE q == a \div w
           r == a % w
           u == q \div Base
           b == q % Base
<1>1. Base \in Nat \ {0} /\ Base > 1
  BY BaseAssumption
<1>2. q \in Nat /\ r \in 0 .. w - 1 /\ a = q * w + r
  BY DivisionHolds
<1> HIDE DEF q, r
<1>3. u \in Nat /\ b \in 0 .. Base - 1 /\ q = u * Base + b
  BY <1>1, <1>2, DivisionHolds
<1> HIDE DEF u, b
<1>4. Base * w \in Nat \ {0}
  BY <1>1, SMTT(30)
<1>5. b * w + r \in 0 .. Base * w - 1
  <2>1. b <= Base - 1 /\ b \in Nat /\ Base - 1 \in Nat
    BY <1>1, <1>3
  <2>2. b * w <= (Base - 1) * w /\ b * w \in Nat
    BY <2>1, ProductsGrow
  <2>3. (Base - 1) * w = Base * w - w
    BY <1>1
  <2> QED
    BY <1>1, <1>2, <1>4, <2>2, <2>3
<1>6. a = u * (Base * w) + (b * w + r)
  <2>1. q * w = (u * Base) * w + b * w
    BY <1>1, <1>3
  <2>2. (u * Base) * w = u * (Base * w)
    BY <1>1, <1>3
  <2>3. (u * Base) * w \in Nat /\ b * w \in Nat
    <3>1. u * Base \in Nat /\ b \in Nat
      BY <1>1, <1>3, ProductsGrow
    <3> QED
      BY <3>1, ProductsGrow
  <2> QED
    BY <1>2, <2>1, <2>2, <2>3
<1>7. a % (Base * w) = b * w + r
  BY <1>3, <1>4, <1>5, <1>6, DivisionIsUnique
<1>8. b * w \in Nat /\ r \in Nat
  BY <1>2, <1>3, ProductsGrow
<1>9. a % (Base * w) = r + b * w
  BY <1>7, <1>8
<1> QED
  BY <1>9 DEF q, r, b

(* from_le_bytes gives a number.                                           *)
LEMMA NumberFromBytes ==
  ASSUME NEW bytes \in Seq(Byte), Len(bytes) <= 8
  PROVE  FromLE(bytes) \in Nat
<1> DEFINE ns == [k \in DOMAIN bytes |-> bytes[k] * Weight[k - 1]]
<1>1. ASSUME NEW k \in 1 .. Len(bytes) PROVE bytes[k] * Weight[k - 1] \in Nat
  <2>1. k - 1 \in 0 .. 8 /\ bytes[k] \in Nat
    BY BaseAssumption DEF Byte
  <2>2. Weight[k - 1] \in Nat
    BY <2>1, WeightsMultiply
  <2> QED
    BY <2>1, <2>2, ProductsGrow
<1>2. ns \in Seq(Nat) /\ Len(ns) = Len(bytes)
  <2>1. DOMAIN bytes = 1 .. Len(bytes) /\ Len(bytes) \in Nat
    OBVIOUS
  <2>2. ns \in [1 .. Len(bytes) -> Nat]
    BY <1>1, <2>1
  <2> HIDE DEF ns
  <2> QED
    BY <2>1, <2>2
<1> HIDE DEF ns
<1>3. Len(ns) \in 0 .. Len(ns)
  BY <1>2
<1> QED
  BY <1>2, <1>3, SumsAdd DEF FromLE, ns

(* to_le_bytes gives as many bytes as the field has.                       *)
LEMMA NumberToBytes ==
  ASSUME NEW n \in Nat, NEW w \in 0 .. 8
  PROVE  ToLE(n, w) \in Seq(Byte) /\ Len(ToLE(n, w)) = w
<1>1. ASSUME NEW k \in 1 .. w PROVE (n \div Weight[k - 1]) % Base \in Byte
  <2>1. k - 1 \in 0 .. 8
    OBVIOUS
  <2>2. Weight[k - 1] \in Nat \ {0} /\ Base \in Nat \ {0}
    BY <2>1, WeightsGrow, BaseAssumption
  <2>3. n \div Weight[k - 1] \in Nat
    BY <2>2, DivisionHolds
  <2> QED
    BY <2>2, <2>3, DivisionHolds DEF Byte
<1>2. ToLE(n, w) \in [1 .. w -> Byte]
  BY <1>1 DEF ToLE
<1> QED
  BY <1>2

(* from_le_bytes takes back what to_le_bytes has cut to a field. *)
LEMMA NumberThroughBytes ==
  ASSUME NEW n \in Nat, NEW w \in 0 .. 8
  PROVE  FromLE(ToLE(n, w)) = n % Weight[w]
<1> DEFINE bytes == ToLE(n, w)
           ns == [k \in DOMAIN bytes |-> bytes[k] * Weight[k - 1]]
<1>1. DOMAIN bytes = 1 .. w /\ bytes \in Seq(Byte) /\ Len(bytes) = w
  <2>1. bytes \in Seq(Byte) /\ Len(bytes) = w
    BY NumberToBytes
  <2> HIDE DEF bytes
  <2> QED
    BY <2>1
<1>2. \A k \in 1 .. w : /\ k - 1 \in 0 .. 8 /\ k \in 1 .. 8
                        /\ bytes[k] = (n \div Weight[k - 1]) % Base
                        /\ bytes[k] \in Nat /\ Weight[k - 1] \in Nat \ {0}
  <2> SUFFICES ASSUME NEW k \in 1 .. w
               PROVE  /\ k - 1 \in 0 .. 8 /\ k \in 1 .. 8
                      /\ bytes[k] = (n \div Weight[k - 1]) % Base
                      /\ bytes[k] \in Nat /\ Weight[k - 1] \in Nat \ {0}
    OBVIOUS
  <2>1. k - 1 \in 0 .. 8 /\ k \in 1 .. 8
    OBVIOUS
  <2>2. bytes[k] = (n \div Weight[k - 1]) % Base
    BY DEF ToLE
  <2>3. bytes[k] \in Nat
    BY <1>1, BaseAssumption DEF Byte
  <2> HIDE DEF bytes
  <2> QED
    BY <2>1, <2>2, <2>3, WeightsGrow
<1> HIDE DEF bytes
<1>3. ns \in Seq(Nat) /\ Len(ns) = w /\ \A k \in 1 .. w : ns[k] = bytes[k] * Weight[k - 1]
  <2>1. ASSUME NEW k \in 1 .. w PROVE bytes[k] * Weight[k - 1] \in Nat
    BY <1>2, ProductsGrow
  <2>2. ns \in [1 .. w -> Nat] /\ \A k \in 1 .. w : ns[k] = bytes[k] * Weight[k - 1]
    BY <1>1, <2>1
  <2> HIDE DEF ns
  <2> QED
    BY <2>2
<1> HIDE DEF ns
<1> DEFINE S == Sums(ns)
<1>4. S[0] = 0 /\ \A k \in 1 .. w : S[k] = S[k - 1] + ns[k]
  BY <1>3, SumsAdd
<1> HIDE DEF S
<1> DEFINE T == {k \in 0 .. w : S[k] = n % Weight[k]}
<1>5. 0 \in T
  <2>1. n % 1 = 0
    OBVIOUS
  <2> QED
    BY <1>4, <2>1, WeightsMultiply
<1>6. ASSUME NEW k \in 1 .. w, k - 1 \in T PROVE k \in T
  <2>1. /\ k - 1 \in 0 .. 8 /\ k \in 1 .. 8 /\ Weight[k - 1] \in Nat \ {0}
        /\ bytes[k] = (n \div Weight[k - 1]) % Base
    BY <1>2
  <2>2. Weight[k] = Base * Weight[k - 1]
    BY <2>1, WeightsMultiply
  <2>3. n % Weight[k] = (n % Weight[k - 1]) + bytes[k] * Weight[k - 1]
    BY <2>1, <2>2, OneByteMore
  <2>4. S[k] = S[k - 1] + bytes[k] * Weight[k - 1] /\ S[k - 1] = n % Weight[k - 1]
    BY <1>3, <1>4, <1>6
  <2> QED
    BY <2>3, <2>4
<1> HIDE DEF T
<1>7. 0 .. w \subseteq T
  BY <1>5, <1>6, InductionUpTo
<1>8. S[w] = n % Weight[w]
  BY <1>7 DEF T
<1> QED
  BY <1>1, <1>8 DEF FromLE, S, ns, bytes

(* A number that fits its field is not changed. *)
LEMMA FittingNumber ==
  ASSUME NEW n \in Nat, NEW w \in 0 .. 8, n < Weight[w]
  PROVE  FromLE(ToLE(n, w)) = n
<1>1. Weight[w] \in Nat \ {0}
  BY WeightsGrow
<1>2. n = 0 * Weight[w] + n /\ n \in 0 .. Weight[w] - 1 /\ 0 \in Nat
  BY <1>1
<1>3. n % Weight[w] = n
  BY <1>1, <1>2, DivisionIsUnique
<1> QED
  BY <1>3, NumberThroughBytes

-----------------------------------------------------------------------------
(* Writing and reading at offsets. *)

Cell == Byte \cup {Unwritten}

(* The bytes from off on; the first n. *)
Holds(buf, off, bytes) ==
  /\ off + Len(bytes) <= Len(buf)
  /\ \A i \in 1 .. Len(bytes) : buf[off + i] = bytes[i]

FilledTo(buf, n) == n <= Len(buf) /\ \A i \in 1 .. n : buf[i] \in Byte

(* What a copy into a claim leaves at each place, if it fits.              *)
LEMMA PutFits ==
  ASSUME NEW buf \in Seq(Cell), NEW bytes \in Seq(Byte), NEW off \in Nat,
         off + Len(bytes) <= Len(buf)
  PROVE  /\ Put(buf, off, bytes) \in Seq(Cell)
         /\ Len(Put(buf, off, bytes)) = Len(buf)
         /\ \A i \in 1 .. Len(buf) :
              Put(buf, off, bytes)[i] =
                IF off < i /\ i <= off + Len(bytes) THEN bytes[i - off] ELSE buf[i]
<1> DEFINE put == Put(buf, off, bytes)
           n == Len(buf)
           Value(i) == IF off < i /\ i <= off + Len(bytes) THEN bytes[i - off] ELSE buf[i]
<1>1. n \in Nat /\ Len(bytes) \in Nat
  OBVIOUS
<1>2. put = [i \in 1 .. n |-> Value(i)]
  BY <1>1 DEF Put
<1>3. ASSUME NEW i \in 1 .. n PROVE Value(i) \in Cell
  <2>1. CASE off < i /\ i <= off + Len(bytes)
    <3>1. i - off \in 1 .. Len(bytes)
      BY <1>1, <2>1
    <3> QED
      BY <2>1, <3>1 DEF Cell
  <2>2. CASE ~(off < i /\ i <= off + Len(bytes))
    BY <2>2
  <2> QED
    BY <2>1, <2>2
<1> HIDE DEF put, Value
<1>4. put \in [1 .. n -> Cell] /\ \A i \in 1 .. n : put[i] = Value(i)
  BY <1>2, <1>3
<1>5. put \in Seq(Cell) /\ Len(put) = n
  BY <1>1, <1>4
<1> QED
  BY <1>4, <1>5 DEF put, Value

(* The bytes are where they were put.                                      *)
LEMMA PutHolds ==
  ASSUME NEW buf \in Seq(Cell), NEW bytes \in Seq(Byte), NEW off \in Nat,
         off + Len(bytes) <= Len(buf)
  PROVE  Holds(Put(buf, off, bytes), off, bytes)
<1> DEFINE put == Put(buf, off, bytes)
<1>1. /\ Len(put) = Len(buf)
      /\ \A i \in 1 .. Len(buf) :
           put[i] = IF off < i /\ i <= off + Len(bytes) THEN bytes[i - off] ELSE buf[i]
  BY PutFits
<1> HIDE DEF put
<1>2. ASSUME NEW i \in 1 .. Len(bytes) PROVE put[off + i] = bytes[i]
  <2>1. /\ off + i \in 1 .. Len(buf) /\ off < off + i
        /\ off + i <= off + Len(bytes) /\ (off + i) - off = i
    OBVIOUS
  <2> QED
    BY <1>1, <2>1
<1> QED
  BY <1>1, <1>2 DEF Holds, put

(* What lies elsewhere is not touched. *)
LEMMA PutKeeps ==
  ASSUME NEW buf \in Seq(Cell), NEW bytes \in Seq(Byte), NEW off \in Nat,
         off + Len(bytes) <= Len(buf),
         NEW old \in Seq(Byte), NEW at \in Nat, Holds(buf, at, old),
         at + Len(old) <= off
  PROVE  Holds(Put(buf, off, bytes), at, old)
<1> DEFINE put == Put(buf, off, bytes)
<1>1. /\ Len(put) = Len(buf)
      /\ \A i \in 1 .. Len(buf) :
           put[i] = IF off < i /\ i <= off + Len(bytes) THEN bytes[i - off] ELSE buf[i]
  BY PutFits
<1> HIDE DEF put
<1>2. ASSUME NEW i \in 1 .. Len(old) PROVE put[at + i] = old[i]
  <2>1. at + i \in 1 .. Len(buf) /\ ~(off < at + i)
    OBVIOUS
  <2> QED
    BY <1>1, <2>1 DEF Holds
<1> QED
  BY <1>1, <1>2 DEF Holds, put

(* A copy to where the written part ends makes it longer.                  *)
LEMMA PutFills ==
  ASSUME NEW buf \in Seq(Cell), NEW bytes \in Seq(Byte), NEW off \in Nat,
         off + Len(bytes) <= Len(buf), FilledTo(buf, off)
  PROVE  FilledTo(Put(buf, off, bytes), off + Len(bytes))
<1> DEFINE put == Put(buf, off, bytes)
<1>1. /\ Len(put) = Len(buf)
      /\ \A i \in 1 .. Len(buf) :
           put[i] = IF off < i /\ i <= off + Len(bytes) THEN bytes[i - off] ELSE buf[i]
  BY PutFits
<1> HIDE DEF put
<1>2. ASSUME NEW i \in 1 .. off + Len(bytes) PROVE put[i] \in Byte
  <2>1. i \in 1 .. Len(buf) /\ i <= off + Len(bytes)
    OBVIOUS
  <2>2. CASE off < i
    <3>1. i - off \in 1 .. Len(bytes)
      BY <2>2
    <3> QED
      BY <1>1, <2>1, <2>2, <3>1
  <2>3. CASE ~(off < i)
    <3>1. i \in 1 .. off
      BY <2>3
    <3> QED
      BY <1>1, <2>1, <2>3, <3>1 DEF FilledTo
  <2> QED
    BY <2>2, <2>3
<1> QED
  BY <1>1, <1>2 DEF FilledTo, put

(* The bytes come back from where they are held.                           *)
LEMMA SliceOfHeld ==
  ASSUME NEW buf \in Seq(Cell), NEW off \in Nat, NEW bytes \in Seq(Byte),
         Holds(buf, off, bytes)
  PROVE  /\ Slice(buf, off, Len(bytes)) = bytes
         /\ Has(buf, off, Len(bytes))
<1>1. Len(bytes) \in Nat /\ off + Len(bytes) <= Len(buf)
  BY DEF Holds
<1>2. Slice(buf, off, Len(bytes)) = [i \in 1 .. Len(bytes) |-> buf[off + i]]
  <2> DEFINE s == SubSeq(buf, off + 1, off + Len(bytes))
  <2>1. /\ s \in Seq(Cell) /\ Len(s) = Len(bytes)
        /\ \A i \in 1 .. Len(bytes) : s[i] = buf[off + i]
    BY <1>1
  <2> HIDE DEF s
  <2>2. s = [i \in 1 .. Len(s) |-> s[i]]
    BY <2>1
  <2> QED
    BY <2>1, <2>2 DEF Slice, s
<1>3. bytes = [i \in 1 .. Len(bytes) |-> bytes[i]]
  OBVIOUS
<1> QED
  BY <1>1, <1>2, <1>3 DEF Holds, Has

-----------------------------------------------------------------------------
(* The fallback stash. *)

AnyArg == [type : {"pod", "str", "fmt"}, bytes : Seq(Byte)]
AnyStash == [buf : Seq(Byte), offsets : Seq(Nat)]

(* Bytes behind bytes.                                                     *)
LEMMA BytesJoined ==
  ASSUME NEW a \in Seq(Byte), NEW b \in Seq(Byte)
  PROVE  /\ a \o b \in Seq(Byte) /\ Len(a \o b) = Len(a) + Len(b)
         /\ \A i \in 1 .. Len(a) : (a \o b)[i] = a[i]
         /\ \A i \in 1 .. Len(b) : (a \o b)[Len(a) + i] = b[i]
<1>1. a \o b \in Seq(Byte) /\ Len(a \o b) = Len(a) + Len(b)
  BY ConcatProperties
<1>2. \A i \in 1 .. Len(a) + Len(b) :
        (a \o b)[i] = IF i <= Len(a) THEN a[i] ELSE b[i - Len(a)]
  BY ConcatProperties
<1>3. Len(a) \in Nat /\ Len(b) \in Nat
  OBVIOUS
<1>4. ASSUME NEW i \in 1 .. Len(b) PROVE (a \o b)[Len(a) + i] = b[i]
  <2>1. /\ Len(a) + i \in 1 .. Len(a) + Len(b) /\ ~(Len(a) + i <= Len(a))
        /\ (Len(a) + i) - Len(a) = i
    BY <1>3
  <2> QED
    BY <1>2, <2>1
<1> QED
  BY <1>1, <1>2, <1>3, <1>4

(* A push leaves a stash.                                                  *)
LEMMA PushIsAStash ==
  ASSUME NEW s \in AnyStash, NEW a \in AnyArg
  PROVE  Push(s, a) \in AnyStash
<1>1. s.buf \in Seq(Byte) /\ a.bytes \in Seq(Byte) /\ s.offsets \in Seq(Nat)
  BY DEF AnyStash, AnyArg
<1>2. s.buf \o a.bytes \in Seq(Byte)
  BY <1>1, ConcatProperties
<1>3. Len(s.buf) \in Nat /\ Append(s.offsets, Len(s.buf)) \in Seq(Nat)
  BY <1>1
<1> QED
  BY <1>2, <1>3 DEF Push, AnyStash

(* The stash is the pushes of all arguments, in order (pod.rs 335-342).    *)
LEMMA StashPushes ==
  ASSUME NEW args \in Seq(AnyArg)
  PROVE  /\ Stash(args) \in [0 .. Len(args) -> AnyStash]
         /\ Stash(args)[0] = [buf |-> << >>, offsets |-> << >>]
         /\ \A k \in 1 .. Len(args) : Stash(args)[k] = Push(Stash(args)[k - 1], args[k])
<1> DEFINE n == Len(args)
           a == [buf |-> << >>, offsets |-> << >>]
           G == [p \in AnyStash \X (1 .. n) |-> Push(p[1], args[p[2]])]
<1>0. n \in Nat /\ \A k \in 1 .. n : args[k] \in AnyArg
  OBVIOUS
<1>1. G \in [AnyStash \X (1 .. n) -> AnyStash]
  BY <1>0, PushIsAStash
<1>2. a \in AnyStash
  BY DEF AnyStash
<1> HIDE DEF G, n, a
<1>3. PICK f \in [0 .. n -> AnyStash] :
        f[0] = a /\ \A k \in 1 .. n : f[k] = G[<< f[k - 1], k >>]
  <2>1. HasRecursion(n, AnyStash, a, G)
    BY <1>0, <1>1, <1>2, RecursionWorks
  <2> QED
    BY <2>1 DEF HasRecursion, Recurs
<1>4. \A k \in 1 .. n : f[k] = Push(f[k - 1], args[k])
  <2> SUFFICES ASSUME NEW k \in 1 .. n PROVE f[k] = Push(f[k - 1], args[k])
    OBVIOUS
  <2>1. k - 1 \in 0 .. n /\ << f[k - 1], k >> \in AnyStash \X (1 .. n)
    BY <1>0, <1>3
  <2> QED
    BY <1>3, <2>1 DEF G
<1>5. f = [k \in 0 .. n |-> IF k = 0 THEN a ELSE Push(f[k - 1], args[k])]
  <2>1. \A k \in 0 .. n : k # 0 => k \in 1 .. n
    BY <1>0
  <2> QED
    BY <1>3, <1>4, <2>1
<1> DEFINE W == Stash(args)
<1>6. W = [k \in 0 .. n |-> IF k = 0 THEN a ELSE Push(W[k - 1], args[k])]
  BY <1>5 DEF Stash, n, a
<1> HIDE DEF W
<1>7. W[0] = a /\ \A k \in 1 .. n : W[k] = Push(W[k - 1], args[k])
  <2>1. 0 \in 0 .. n /\ \A k \in 1 .. n : k \in 0 .. n /\ k # 0
    BY <1>0
  <2> QED
    BY <1>6, <2>1
<1>8. \A k \in 0 .. n : W[k] \in AnyStash
  <2>1. \A k \in 1 .. n : W[k - 1] \in AnyStash => W[k] \in AnyStash
    BY <1>0, <1>7, PushIsAStash
  <2>2. W[0] \in AnyStash
    BY <1>2, <1>7
  <2> QED
    BY <1>0, <2>1, <2>2, StepsKeep
<1> QED
  BY <1>6, <1>7, <1>8 DEF W, n, a

(* What a later push leaves of an earlier stash: the texts that are there, *)
(* their offsets, and that the next text starts where they end.            *)
Extends(s, t) ==
  /\ Len(s.buf) <= Len(t.buf)
  /\ \A i \in 1 .. Len(s.buf) : t.buf[i] = s.buf[i]
  /\ Len(s.offsets) <= Len(t.offsets)
  /\ \A i \in 1 .. Len(s.offsets) : t.offsets[i] = s.offsets[i]
  /\ IF Len(s.offsets) = Len(t.offsets) THEN Len(t.buf) = Len(s.buf)
     ELSE t.offsets[Len(s.offsets) + 1] = Len(s.buf)

(* A push keeps the texts that are there,                                  *)
LEMMA PushExtends ==
  ASSUME NEW s \in AnyStash, NEW t \in AnyStash, NEW a \in AnyArg, Extends(s, t)
  PROVE  Extends(s, Push(t, a))
<1>0. /\ s.buf \in Seq(Byte) /\ s.offsets \in Seq(Nat)
      /\ t.buf \in Seq(Byte) /\ t.offsets \in Seq(Nat) /\ a.bytes \in Seq(Byte)
  BY DEF AnyStash, AnyArg
<1>1. CASE ~IsFmt(a)
  BY <1>1 DEF Push
<1>2. CASE IsFmt(a)
  <2> DEFINE u == Push(t, a)
             tb == t.buf
             to == t.offsets
             ub == tb \o a.bytes
             uo == Append(to, Len(tb))
  <2>1. u.buf = ub /\ u.offsets = uo
    BY <1>2 DEF Push
  <2>2. tb \in Seq(Byte) /\ to \in Seq(Nat) /\ Len(tb) \in Nat /\ Len(to) \in Nat
    BY <1>0
  <2>3. /\ ub \in Seq(Byte) /\ Len(ub) = Len(tb) + Len(a.bytes)
        /\ \A i \in 1 .. Len(tb) : ub[i] = tb[i]
    <3>1. tb \in Seq(Byte) /\ a.bytes \in Seq(Byte)
      BY <1>0
    <3> HIDE DEF tb
    <3> QED
      BY <3>1, BytesJoined
  <2>4. /\ uo \in Seq(Nat) /\ Len(uo) = Len(to) + 1
        /\ \A i \in 1 .. Len(to) : uo[i] = to[i]
        /\ uo[Len(to) + 1] = Len(tb)
    BY <2>2
  <2>5. Extends(s, u) <=>
          /\ Len(s.buf) <= Len(ub)
          /\ \A i \in 1 .. Len(s.buf) : ub[i] = s.buf[i]
          /\ Len(s.offsets) <= Len(uo)
          /\ \A i \in 1 .. Len(s.offsets) : uo[i] = s.offsets[i]
          /\ IF Len(s.offsets) = Len(uo) THEN Len(ub) = Len(s.buf)
             ELSE uo[Len(s.offsets) + 1] = Len(s.buf)
    BY <2>1 DEF Extends
  <2>6. /\ Len(s.buf) <= Len(tb)
        /\ \A i \in 1 .. Len(s.buf) : tb[i] = s.buf[i]
        /\ Len(s.offsets) <= Len(to)
        /\ \A i \in 1 .. Len(s.offsets) : to[i] = s.offsets[i]
        /\ IF Len(s.offsets) = Len(to) THEN Len(tb) = Len(s.buf)
           ELSE to[Len(s.offsets) + 1] = Len(s.buf)
    BY DEF Extends
  <2>7. Len(s.buf) \in Nat /\ Len(s.offsets) \in Nat /\ Len(a.bytes) \in Nat
    BY <1>0
  <2> HIDE DEF u, tb, to, ub, uo
  <2>8. /\ Len(s.buf) <= Len(ub)
        /\ \A i \in 1 .. Len(s.buf) : ub[i] = s.buf[i]
    <3>1. \A i \in 1 .. Len(s.buf) : i \in 1 .. Len(tb)
      BY <2>2, <2>6, <2>7
    <3> QED
      BY <2>2, <2>3, <2>6, <2>7, <3>1
  <2>9. /\ Len(s.offsets) <= Len(uo) /\ Len(s.offsets) # Len(uo)
        /\ \A i \in 1 .. Len(s.offsets) : uo[i] = s.offsets[i]
    <3>1. \A i \in 1 .. Len(s.offsets) : i \in 1 .. Len(to)
      BY <2>2, <2>6, <2>7
    <3> QED
      BY <2>2, <2>4, <2>6, <2>7, <3>1
  <2>10. uo[Len(s.offsets) + 1] = Len(s.buf)
    <3>1. CASE Len(s.offsets) = Len(to)
      BY <2>4, <2>6, <3>1
    <3>2. CASE Len(s.offsets) # Len(to)
      <4>1. Len(s.offsets) + 1 \in 1 .. Len(to)
        BY <2>2, <2>6, <2>7, <3>2
      <4> QED
        BY <2>4, <2>6, <3>2, <4>1
    <3> QED
      BY <3>1, <3>2
  <2> QED
    BY <2>5, <2>8, <2>9, <2>10 DEF u
<1> QED
  BY <1>1, <1>2

(* and so do all later pushes.                                             *)
LEMMA StashExtends ==
  ASSUME NEW args \in Seq(AnyArg), NEW k \in 0 .. Len(args), NEW m \in k .. Len(args)
  PROVE  Extends(Stash(args)[k], Stash(args)[m])
<1> DEFINE n == Len(args)
           W == Stash(args)
           T == {d \in 0 .. n : k + d <= n => Extends(W[k], W[k + d])}
<1>0. n \in Nat /\ k \in 0 .. n /\ m \in k .. n /\ \A i \in 1 .. n : args[i] \in AnyArg
  OBVIOUS
<1>1. W \in [0 .. n -> AnyStash] /\ \A i \in 1 .. n : W[i] = Push(W[i - 1], args[i])
  BY StashPushes
<1> HIDE DEF W, n
<1>2. 0 \in T
  <2>1. W[k + 0] = W[k] /\ 0 \in 0 .. n
    BY <1>0
  <2>2. Extends(W[k], W[k])
    <3>1. Len(W[k].buf) \in Nat /\ Len(W[k].offsets) \in Nat
      BY <1>0, <1>1 DEF AnyStash
    <3> QED
      BY <3>1 DEF Extends
  <2> QED
    BY <2>1, <2>2
<1>3. ASSUME NEW d \in 1 .. n, d - 1 \in T PROVE d \in T
  <2> SUFFICES ASSUME k + d <= n PROVE Extends(W[k], W[k + d])
    BY <1>0
  <2>1. /\ k + d \in 1 .. n /\ (k + d) - 1 = k + (d - 1) /\ k + (d - 1) \in 0 .. n
        /\ k + (d - 1) <= n
    BY <1>0
  <2>2. Extends(W[k], W[k + (d - 1)])
    BY <1>3, <2>1
  <2>3. W[k + d] = Push(W[k + (d - 1)], args[k + d])
    BY <1>1, <2>1
  <2> QED
    BY <1>0, <1>1, <2>1, <2>2, <2>3, PushExtends
<1> HIDE DEF T
<1>4. 0 .. n \subseteq T
  BY <1>0, <1>2, <1>3, InductionUpTo
<1>5. m - k \in 0 .. n /\ k + (m - k) = m /\ m <= n
  BY <1>0
<1> QED
  BY <1>4, <1>5 DEF T, W

(* A text comes out of the stash as it went in, whatever else is there     *)
(* (pod.rs 344-363), and was counted (pod.rs 207-211).                     *)
LEMMA StashedComesOut ==
  ASSUME NEW args \in Seq(AnyArg), NEW k \in 1 .. Len(args), IsFmt(args[k])
  PROVE  /\ StashedText(args, Len(Stash(args)[k].offsets)) = args[k].bytes
         /\ HotSize(args, k) = 4 + Len(args[k].bytes)
<1> DEFINE n == Len(args)
           before == Stash(args)[k - 1]
           after == Stash(args)[k]
           all == Stash(args)[n]
           bytes == args[k].bytes
           j == Len(after.offsets)
           start == Len(before.buf)
<1>1. n \in Nat /\ k - 1 \in 0 .. n /\ k \in 0 .. n /\ n \in k .. n /\ n \in 0 .. n
  OBVIOUS
<1>2. before \in AnyStash /\ after \in AnyStash /\ all \in AnyStash
  BY <1>1, StashPushes
<1>3. after = Push(before, args[k])
  BY StashPushes
<1>4. Extends(after, all)
  BY <1>1, StashExtends
<1>5. args[k] \in AnyArg /\ bytes \in Seq(Byte)
  <2>1. args[k] \in AnyArg
    OBVIOUS
  <2> QED
    BY <2>1 DEF AnyArg
<1> HIDE DEF before, after, all, n, bytes
<1>6. /\ before.buf \in Seq(Byte) /\ before.offsets \in Seq(Nat)
      /\ after.buf \in Seq(Byte) /\ after.offsets \in Seq(Nat)
      /\ all.buf \in Seq(Byte) /\ all.offsets \in Seq(Nat)
  BY <1>2 DEF AnyStash
<1>7. after.buf = before.buf \o bytes /\ after.offsets = Append(before.offsets, start)
  BY <1>3 DEF Push, bytes
<1>8. start \in Nat /\ Len(bytes) \in Nat /\ j \in Nat \ {0} /\ after.offsets[j] = start
  BY <1>5, <1>6, <1>7
<1>9. /\ Len(after.buf) = start + Len(bytes)
      /\ \A i \in 1 .. Len(bytes) : after.buf[start + i] = bytes[i]
  BY <1>5, <1>6, <1>7, BytesJoined
<1>10. /\ Len(after.buf) <= Len(all.buf) /\ Len(all.buf) \in Nat
       /\ \A i \in 1 .. Len(after.buf) : all.buf[i] = after.buf[i]
       /\ all.offsets[j] = start
  <2>1. j \in 1 .. Len(after.offsets)
    BY <1>8
  <2>2. \A i \in 1 .. Len(after.offsets) : all.offsets[i] = after.offsets[i]
    BY <1>4 DEF Extends
  <2>3. all.offsets[j] = start
    BY <1>8, <2>1, <2>2
  <2>4. /\ Len(after.buf) <= Len(all.buf)
        /\ \A i \in 1 .. Len(after.buf) : all.buf[i] = after.buf[i]
    BY <1>4 DEF Extends
  <2>5. Len(all.buf) \in Nat
    BY <1>6
  <2> QED
    BY <2>3, <2>4, <2>5
<1>11. (IF j + 1 \in DOMAIN all.offsets THEN all.offsets[j + 1] ELSE Len(all.buf))
         = Len(after.buf)
  <2>1. /\ Len(all.offsets) \in Nat /\ j <= Len(all.offsets)
        /\ DOMAIN all.offsets = 1 .. Len(all.offsets)
    BY <1>4, <1>6 DEF Extends
  <2>2. IF j = Len(all.offsets) THEN Len(all.buf) = Len(after.buf)
        ELSE all.offsets[j + 1] = Len(after.buf)
    BY <1>4 DEF Extends
  <2>3. j + 1 \in DOMAIN all.offsets <=> j # Len(all.offsets)
    BY <1>8, <2>1
  <2> QED
    BY <2>2, <2>3
<1>12. StashedText(args, j) = SubSeq(all.buf, start + 1, start + Len(bytes))
  BY <1>9, <1>10, <1>11 DEF StashedText, all, n
<1>13. SubSeq(all.buf, start + 1, start + Len(bytes)) = bytes
  <2>1. Holds(all.buf, start, bytes)
    <3>1. \A i \in 1 .. Len(bytes) : start + i \in 1 .. Len(after.buf)
      BY <1>8, <1>9
    <3> QED
      BY <1>8, <1>9, <1>10, <3>1 DEF Holds
  <2>2. all.buf \in Seq(Cell)
    BY <1>6 DEF Cell
  <2> QED
    BY <1>5, <1>8, <2>1, <2>2, SliceOfHeld DEF Slice
<1>14. HotSize(args, k) = 4 + Len(after.buf) - Len(before.buf)
  BY DEF HotSize, IsFmt, before, after
<1>15. HotSize(args, k) = 4 + Len(bytes)
  BY <1>8, <1>9, <1>14
<1> QED
  BY <1>12, <1>13, <1>15 DEF after, bytes

-----------------------------------------------------------------------------
(* The arguments of a macro call. *)

(* A text behind its length.                                               *)
LEMMA PrefixedFacts ==
  ASSUME NEW bytes \in Seq(Byte)
  PROVE  /\ Prefixed(bytes) \in Seq(Byte) /\ Len(Prefixed(bytes)) = 4 + Len(bytes)
         /\ Holds(Prefixed(bytes), 0, ToLE(Len(bytes), 4))
         /\ Holds(Prefixed(bytes), 4, bytes)
<1> DEFINE len == ToLE(Len(bytes), 4)
           all == Prefixed(bytes)
<1>1. Len(bytes) \in Nat /\ 4 \in 0 .. 8
  OBVIOUS
<1>2. len \in Seq(Byte) /\ Len(len) = 4
  BY <1>1, NumberToBytes
<1>3. all = len \o bytes
  BY DEF Prefixed
<1> HIDE DEF len, all
<1>4. /\ all \in Seq(Byte) /\ Len(all) = 4 + Len(bytes)
      /\ \A i \in 1 .. 4 : all[i] = len[i]
      /\ \A i \in 1 .. Len(bytes) : all[4 + i] = bytes[i]
  <2>1. /\ all \in Seq(Byte) /\ Len(all) = Len(len) + Len(bytes)
        /\ \A i \in 1 .. Len(len) : all[i] = len[i]
        /\ \A i \in 1 .. Len(bytes) : all[Len(len) + i] = bytes[i]
    BY <1>2, <1>3, BytesJoined
  <2> QED
    BY <1>2, <2>1
<1>5. Holds(all, 0, len)
  BY <1>1, <1>2, <1>4 DEF Holds
<1>6. Holds(all, 4, bytes)
  BY <1>1, <1>4 DEF Holds
<1> QED
  BY <1>4, <1>5, <1>6 DEF len, all

(* What is written of an argument: the bytes of a Pod, or a text behind    *)
(* its length.                                                             *)
Encoded(a) == IF a.type = "pod" THEN a.bytes ELSE Prefixed(a.bytes)

(* The size that was announced for an argument is that of what is written  *)
(* of it.                                                                  *)
LEMMA EncodedIsSized ==
  ASSUME NEW args \in Seq(AnyArg), NEW k \in 1 .. Len(args)
  PROVE  /\ HotEncode(args, k) = Encoded(args[k])
         /\ Encoded(args[k]) \in Seq(Byte)
         /\ HotSize(args, k) = Len(Encoded(args[k]))
<1>1. args[k] \in AnyArg
  OBVIOUS
<1>2. args[k].type \in {"pod", "str", "fmt"} /\ args[k].bytes \in Seq(Byte)
  BY <1>1 DEF AnyArg
<1>3. /\ Prefixed(args[k].bytes) \in Seq(Byte)
      /\ Len(Prefixed(args[k].bytes)) = 4 + Len(args[k].bytes)
  BY <1>2, PrefixedFacts
<1>4. CASE args[k].type = "pod"
  BY <1>2, <1>4 DEF HotEncode, HotSize, Encoded
<1>5. CASE args[k].type = "str"
  BY <1>2, <1>3, <1>5 DEF HotEncode, HotSize, Encoded
<1>6. CASE args[k].type = "fmt"
  <2>1. IsFmt(args[k])
    BY <1>6 DEF IsFmt
  <2>2. /\ StashedText(args, Len(Stash(args)[k].offsets)) = args[k].bytes
        /\ HotSize(args, k) = 4 + Len(args[k].bytes)
    BY <2>1, StashedComesOut
  <2>3. HotEncode(args, k) = Prefixed(StashedText(args, Len(Stash(args)[k].offsets)))
    BY <1>6 DEF HotEncode
  <2> QED
    BY <1>3, <1>6, <2>2, <2>3 DEF Encoded
<1> QED
  BY <1>2, <1>4, <1>5, <1>6

(* The announced sizes are added up one by one.                            *)
LEMMA SizesAdd ==
  ASSUME NEW args \in Seq(AnyArg)
  PROVE  /\ HotSizes(args, 0) = 0
         /\ \A k \in 0 .. Len(args) : HotSizes(args, k) \in Nat
         /\ \A k \in 1 .. Len(args) :
              HotSizes(args, k) = HotSizes(args, k - 1) + Len(Encoded(args[k]))
<1> DEFINE ns == [i \in DOMAIN args |-> HotSize(args, i)]
<1>1. DOMAIN args = 1 .. Len(args) /\ Len(args) \in Nat
  OBVIOUS
<1>2. \A i \in 1 .. Len(args) : HotSize(args, i) = Len(Encoded(args[i]))
                                /\ HotSize(args, i) \in Nat
  BY EncodedIsSized
<1>3. ns \in [1 .. Len(args) -> Nat] /\ \A i \in 1 .. Len(args) : ns[i] = HotSize(args, i)
  BY <1>1, <1>2
<1>4. \A k : HotSizes(args, k) = Sums(ns)[k]
  BY DEF HotSizes
<1> HIDE DEF ns
<1>5. ns \in Seq(Nat) /\ Len(ns) = Len(args)
  BY <1>1, <1>3
<1>6. /\ Sums(ns)[0] = 0
      /\ \A k \in 0 .. Len(args) : Sums(ns)[k] \in Nat
      /\ \A k \in 1 .. Len(args) : Sums(ns)[k] = Sums(ns)[k - 1] + ns[k]
  BY <1>5, SumsAdd
<1> QED
  BY <1>2, <1>3, <1>4, <1>6

(* Where the argument behind the first k is written, from the start. *)
LEMMA SizesGrow ==
  ASSUME NEW args \in Seq(AnyArg), NEW k \in 0 .. Len(args)
  PROVE  HotSizes(args, k) <= HotSizes(args, Len(args))
<1> DEFINE n == Len(args)
           S(i) == HotSizes(args, i)
           T == {d \in 0 .. n : d <= n - k => S(k) <= S(k + d)}
<1>0. n \in Nat /\ k \in 0 .. n
  OBVIOUS
<1>1. /\ \A i \in 0 .. n : S(i) \in Nat
      /\ \A i \in 1 .. n : S(i) >= S(i - 1)
  <2>1. \A i \in 1 .. n : /\ Len(Encoded(args[i])) \in Nat
                           /\ S(i) = S(i - 1) + Len(Encoded(args[i]))
    BY EncodedIsSized, SizesAdd
  <2>2. \A i \in 0 .. n : S(i) \in Nat
    BY SizesAdd
  <2>3. \A i \in 1 .. n : i - 1 \in 0 .. n /\ i \in 0 .. n
    OBVIOUS
  <2> HIDE DEF S
  <2> QED
    BY <2>1, <2>2, <2>3
<1> HIDE DEF n, S
<1>2. 0 \in T
  BY <1>0, <1>1
<1>3. ASSUME NEW d \in 1 .. n, d - 1 \in T PROVE d \in T
  <2> SUFFICES ASSUME d <= n - k PROVE S(k) <= S(k + d)
    BY <1>0
  <2>1. /\ k + d \in 1 .. n /\ (k + d) - 1 = k + (d - 1)
        /\ k + (d - 1) \in 0 .. n /\ d - 1 <= n - k /\ k + d \in 0 .. n
    BY <1>0
  <2>2. S(k) <= S(k + (d - 1))
    BY <1>3, <2>1
  <2>3. S(k + d) >= S(k + (d - 1))
    BY <1>1, <2>1
  <2> QED
    BY <1>0, <1>1, <2>1, <2>2, <2>3
<1> HIDE DEF T
<1>4. 0 .. n \subseteq T
  BY <1>0, <1>2, <1>3, InductionUpTo
<1>5. n - k \in 0 .. n /\ k + (n - k) = n
  BY <1>0
<1>6. S(k) <= S(n)
  BY <1>4, <1>5 DEF T
<1> QED
  BY <1>6 DEF S, n

-----------------------------------------------------------------------------
(* What any call of the program may be: any bytes, any number of them, any *)
(* number of arguments.  A line number has four bytes, a timestamp eight.  *)

LogLevels == {"Error", "Warn", "Info", "Debug", "Trace"}
Fitting(width) == {n \in Nat : n < Weight[width]}

AnyHot ==
  [kind : {"hot"}, level : LogLevels, number : Fitting(4), name : Seq(Byte),
   args : Seq(AnyArg)]
AnyBridge ==
  [kind : {"bridge"}, level : LogLevels, number : Fitting(4), name : Seq(Byte),
   args : [1 .. 1 -> [type : {"message"}, bytes : Seq(Byte)]]]
AnyArchive ==
  [kind : {"archive"}, level : {"none"}, number : Fitting(8), name : Seq(Byte),
   args : [1 .. 1 -> [type : {"payload"}, bytes : Seq(Byte)]]]

AnyCall == AnyHot \cup AnyBridge \cup AnyArchive

-----------------------------------------------------------------------------
(* The producer's side. *)

(* A claim of the size asked for, nothing written yet.                     *)
LEMMA ClaimedFacts ==
  ASSUME NEW total \in Nat
  PROVE  /\ Claimed(total) \in Seq(Cell) /\ Len(Claimed(total)) = total
         /\ FilledTo(Claimed(total), 0)
<1>1. Claimed(total) \in [1 .. total -> Cell]
  BY DEF Claimed, Cell
<1> HIDE DEF Claimed
<1>2. Claimed(total) \in Seq(Cell) /\ Len(Claimed(total)) = total
  BY <1>1
<1> QED
  BY <1>2 DEF FilledTo

PrefixIn(buf, c) ==
  /\ Holds(buf, 0, ToLE(c.number, 4))
  /\ Holds(buf, 4, ToLE(Len(c.name), 2))
  /\ Holds(buf, 6, c.name)

(* Line number, length of the target, and the target are written first.    *)
LEMMA PrefixIsWritten ==
  ASSUME NEW c, c.number \in Nat, c.name \in Seq(Byte),
         NEW total \in Nat, 6 + Len(c.name) <= total
  PROVE  /\ WritePrefix(Claimed(total), c) \in Seq(Cell)
         /\ Len(WritePrefix(Claimed(total), c)) = total
         /\ PrefixIn(WritePrefix(Claimed(total), c), c)
         /\ FilledTo(WritePrefix(Claimed(total), c), 6 + Len(c.name))
<1> DEFINE line == ToLE(c.number, 4)
           len == ToLE(Len(c.name), 2)
           name == c.name
           b0 == Claimed(total)
           b1 == Put(b0, 0, line)
           b2 == Put(b1, 4, len)
           b3 == Put(b2, 6, name)
<1>1. line \in Seq(Byte) /\ Len(line) = 4
  <2>1. c.number \in Nat /\ 4 \in 0 .. 8
    OBVIOUS
  <2> QED
    BY <2>1, NumberToBytes
<1>2. len \in Seq(Byte) /\ Len(len) = 2
  <2>1. Len(c.name) \in Nat /\ 2 \in 0 .. 8
    OBVIOUS
  <2> QED
    BY <2>1, NumberToBytes
<1>3. name \in Seq(Byte) /\ Len(name) \in Nat /\ 6 + Len(name) <= total
  OBVIOUS
<1>4. WritePrefix(Claimed(total), c) = b3
  BY DEF WritePrefix
<1>5. b0 \in Seq(Cell) /\ Len(b0) = total /\ FilledTo(b0, 0)
  BY ClaimedFacts
<1> HIDE DEF line, len, name, b0
<1>6. /\ b1 \in Seq(Cell) /\ Len(b1) = total
      /\ Holds(b1, 0, line) /\ FilledTo(b1, 0 + Len(line))
  <2>1. 0 + Len(line) <= Len(b0) /\ 0 \in Nat
    BY <1>1, <1>3, <1>5
  <2> QED
    BY <1>1, <1>5, <2>1, PutFits, PutHolds, PutFills
<1> HIDE DEF b1
<1>7. /\ b2 \in Seq(Cell) /\ Len(b2) = total
      /\ Holds(b2, 4, len) /\ FilledTo(b2, 4 + Len(len))
      /\ Holds(b2, 0, line)
  <2>1. FilledTo(b1, 4) /\ 4 + Len(len) <= Len(b1) /\ 0 + Len(line) <= 4
    BY <1>1, <1>2, <1>3, <1>6
  <2> QED
    BY <1>1, <1>2, <1>6, <2>1, PutFits, PutHolds, PutFills, PutKeeps
<1> HIDE DEF b2
<1>8. /\ b3 \in Seq(Cell) /\ Len(b3) = total
      /\ Holds(b3, 6, name) /\ FilledTo(b3, 6 + Len(name))
      /\ Holds(b3, 0, line) /\ Holds(b3, 4, len)
  <2>1. /\ FilledTo(b2, 6) /\ 6 + Len(name) <= Len(b2)
        /\ 0 + Len(line) <= 6 /\ 4 + Len(len) <= 6
    BY <1>1, <1>2, <1>3, <1>7
  <2> QED
    BY <1>1, <1>2, <1>3, <1>7, <2>1, PutFits, PutHolds, PutFills, PutKeeps
<1> QED
  BY <1>4, <1>8 DEF PrefixIn, line, len, name

(* What is written behind the prefix leaves it alone.                      *)
LEMMA PrefixStays ==
  ASSUME NEW c, c.number \in Nat, c.name \in Seq(Byte),
         NEW buf \in Seq(Cell), PrefixIn(buf, c),
         NEW off \in Nat, NEW bytes \in Seq(Byte),
         6 + Len(c.name) <= off, off + Len(bytes) <= Len(buf)
  PROVE  PrefixIn(Put(buf, off, bytes), c)
<1> DEFINE line == ToLE(c.number, 4)
           len == ToLE(Len(c.name), 2)
           name == c.name
<1>1. line \in Seq(Byte) /\ Len(line) = 4
  <2>1. c.number \in Nat /\ 4 \in 0 .. 8
    OBVIOUS
  <2> QED
    BY <2>1, NumberToBytes
<1>2. len \in Seq(Byte) /\ Len(len) = 2
  <2>1. Len(c.name) \in Nat /\ 2 \in 0 .. 8
    OBVIOUS
  <2> QED
    BY <2>1, NumberToBytes
<1>3. name \in Seq(Byte) /\ Len(name) \in Nat /\ 6 + Len(name) <= off
  OBVIOUS
<1>4. Holds(buf, 0, line) /\ Holds(buf, 4, len) /\ Holds(buf, 6, name)
  BY DEF PrefixIn
<1> HIDE DEF line, len, name
<1>5. 0 + Len(line) <= off /\ 4 + Len(len) <= off
  BY <1>1, <1>2, <1>3
<1>6. /\ Holds(Put(buf, off, bytes), 0, line)
      /\ Holds(Put(buf, off, bytes), 4, len)
      /\ Holds(Put(buf, off, bytes), 6, name)
  BY <1>1, <1>2, <1>3, <1>4, <1>5, PutKeeps
<1> QED
  BY <1>6 DEF PrefixIn, line, len, name

(* Where the argument behind the first k starts. *)
At(c, k) == 6 + Len(c.name) + HotSizes(c.args, k)

(* The places of the arguments, from the sizes announced.                  *)
LEMMA PlacesOfArgs ==
  ASSUME NEW c \in AnyHot
  PROVE  /\ HotTotal(c) = At(c, Len(c.args))
         /\ At(c, 0) = 6 + Len(c.name)
         /\ \A k \in 0 .. Len(c.args) :
              /\ At(c, k) \in Nat
              /\ 6 + Len(c.name) <= At(c, k) /\ At(c, k) <= HotTotal(c)
         /\ \A k \in 1 .. Len(c.args) :
              /\ At(c, k) = At(c, k - 1) + Len(Encoded(c.args[k]))
              /\ HotEncode(c.args, k) = Encoded(c.args[k])
              /\ Encoded(c.args[k]) \in Seq(Byte)
<1>1. c.args \in Seq(AnyArg) /\ c.name \in Seq(Byte)
  BY DEF AnyHot
<1> DEFINE args == c.args
           l == Len(c.name)
           S(k) == HotSizes(args, k)
<1>2. args \in Seq(AnyArg) /\ l \in Nat /\ Len(args) \in Nat
  BY <1>1
<1>3. \A k : At(c, k) = 6 + l + S(k)
  BY DEF At
<1>4. HotTotal(c) = 4 + 2 + l + S(Len(args))
  BY DEF HotTotal
<1> HIDE DEF args, l
<1>5. /\ S(0) = 0 /\ \A k \in 0 .. Len(args) : S(k) \in Nat
      /\ \A k \in 1 .. Len(args) : S(k) = S(k - 1) + Len(Encoded(args[k]))
  BY <1>2, SizesAdd
<1>6. \A k \in 0 .. Len(args) : S(k) <= S(Len(args))
  BY <1>2, SizesGrow
<1>7. \A k \in 1 .. Len(args) :
        /\ HotEncode(args, k) = Encoded(args[k])
        /\ Encoded(args[k]) \in Seq(Byte) /\ Len(Encoded(args[k])) \in Nat
  BY <1>2, EncodedIsSized
<1> HIDE DEF S
<1>8. HotTotal(c) = At(c, Len(args)) /\ At(c, 0) = 6 + l
  <2>1. S(0) = 0 /\ S(Len(args)) \in Nat
    BY <1>2, <1>5
  <2>2. HotTotal(c) = 4 + 2 + l + S(Len(args))
    BY <1>4
  <2>3. At(c, 0) = 6 + l + S(0) /\ At(c, Len(args)) = 6 + l + S(Len(args))
    BY <1>3
  <2> QED
    BY <1>2, <2>1, <2>2, <2>3
<1>9. ASSUME NEW k \in 0 .. Len(args)
      PROVE  At(c, k) \in Nat /\ 6 + l <= At(c, k) /\ At(c, k) <= HotTotal(c)
  <2>1. S(k) \in Nat /\ S(Len(args)) \in Nat /\ S(k) <= S(Len(args))
    BY <1>2, <1>5, <1>6
  <2>2. At(c, k) = 6 + l + S(k) /\ HotTotal(c) = 4 + 2 + l + S(Len(args))
    BY <1>3, <1>4
  <2> QED
    BY <1>2, <2>1, <2>2
<1>10. ASSUME NEW k \in 1 .. Len(args)
       PROVE  At(c, k) = At(c, k - 1) + Len(Encoded(args[k]))
  <2>1. k - 1 \in 0 .. Len(args)
    BY <1>2
  <2>2. S(k) = S(k - 1) + Len(Encoded(args[k])) /\ S(k - 1) \in Nat
    BY <1>5, <2>1
  <2>3. At(c, k) = 6 + l + S(k) /\ At(c, k - 1) = 6 + l + S(k - 1)
    BY <1>3
  <2>4. Len(Encoded(args[k])) \in Nat
    BY <1>7
  <2> QED
    BY <1>2, <2>2, <2>3, <2>4
<1> QED
  BY <1>7, <1>8, <1>9, <1>10 DEF args, l

Regions(total) == {b \in Seq(Cell) : Len(b) = total}

(* The region after the prefix and the first k arguments. *)
HotWritten(c, k, b) ==
  /\ b \in Regions(HotTotal(c)) /\ PrefixIn(b, c) /\ FilledTo(b, At(c, k))
  /\ \A i \in 1 .. k : Holds(b, At(c, i - 1), Encoded(c.args[i]))

(* Writing one argument more.                                              *)
LEMMA ArgIsWritten ==
  ASSUME NEW c \in AnyHot, NEW k \in 1 .. Len(c.args), NEW b, HotWritten(c, k - 1, b)
  PROVE  HotWritten(c, k, Put(b, At(c, k - 1), Encoded(c.args[k])))
<1> DEFINE new == Put(b, At(c, k - 1), Encoded(c.args[k]))
           off == At(c, k - 1)
           bytes == Encoded(c.args[k])
           n == Len(c.args)
<1>1. c.number \in Nat /\ c.name \in Seq(Byte) /\ c.args \in Seq(AnyArg) /\ n \in Nat
  BY DEF AnyHot, Fitting
<1>2. b \in Seq(Cell) /\ Len(b) = HotTotal(c) /\ PrefixIn(b, c) /\ FilledTo(b, off)
  BY DEF HotWritten, Regions
<1>3. k - 1 \in 0 .. n /\ k \in 0 .. n
  BY <1>1
<1>4. /\ off \in Nat /\ bytes \in Seq(Byte) /\ 6 + Len(c.name) <= off
      /\ At(c, k) = off + Len(bytes) /\ At(c, k) <= HotTotal(c)
  BY <1>3, PlacesOfArgs
<1> HIDE DEF off, bytes
<1>5. off + Len(bytes) <= Len(b)
  BY <1>2, <1>4
<1>6. Put(b, off, bytes) \in Regions(HotTotal(c))
  BY <1>2, <1>4, <1>5, PutFits DEF Regions
<1>7. PrefixIn(Put(b, off, bytes), c)
  BY <1>1, <1>2, <1>4, <1>5, PrefixStays
<1>8. FilledTo(Put(b, off, bytes), At(c, k))
  BY <1>2, <1>4, <1>5, PutFills
<1>9. Holds(Put(b, off, bytes), off, bytes)
  BY <1>2, <1>4, <1>5, PutHolds
<1>10. ASSUME NEW i \in 1 .. k - 1
       PROVE  Holds(Put(b, off, bytes), At(c, i - 1), Encoded(c.args[i]))
  <2>1. Holds(b, At(c, i - 1), Encoded(c.args[i]))
    BY DEF HotWritten
  <2>2. i \in 1 .. n /\ i - 1 \in 0 .. n /\ i \in 0 .. n
    BY <1>1
  <2>3. /\ At(c, i - 1) \in Nat /\ Encoded(c.args[i]) \in Seq(Byte)
        /\ At(c, i) = At(c, i - 1) + Len(Encoded(c.args[i]))
    BY <2>2, PlacesOfArgs
  <2>4. At(c, i) <= off
    <3> DEFINE T == {d \in 0 .. n : i + d <= k - 1 => At(c, i) <= At(c, i + d)}
    <3>1. 0 \in T
      BY <1>1, <2>2, PlacesOfArgs
    <3>2. ASSUME NEW d \in 1 .. n, d - 1 \in T PROVE d \in T
      <4> SUFFICES ASSUME i + d <= k - 1 PROVE At(c, i) <= At(c, i + d)
        BY <1>1
      <4>1. /\ i + d \in 1 .. n /\ (i + d) - 1 = i + (d - 1)
            /\ i + (d - 1) <= k - 1 /\ i + (d - 1) \in 0 .. n
        BY <1>1, <2>2
      <4>2. At(c, i) <= At(c, i + (d - 1))
        BY <3>2, <4>1
      <4>3. /\ At(c, i + d) = At(c, i + (d - 1)) + Len(Encoded(c.args[i + d]))
            /\ Encoded(c.args[i + d]) \in Seq(Byte)
            /\ At(c, i) \in Nat /\ At(c, i + (d - 1)) \in Nat
        BY <2>2, <4>1, PlacesOfArgs
      <4>4. Len(Encoded(c.args[i + d])) \in Nat
        BY <4>3
      <4> QED
        BY <4>2, <4>3, <4>4
    <3> HIDE DEF T
    <3>3. 0 .. n \subseteq T
      BY <1>1, <3>1, <3>2, InductionUpTo
    <3>4. (k - 1) - i \in 0 .. n /\ i + ((k - 1) - i) = k - 1
      BY <1>1, <2>2
    <3>5. (k - 1) - i \in T /\ i + ((k - 1) - i) <= k - 1
      BY <1>1, <2>2, <3>3, <3>4
    <3>6. At(c, i) <= At(c, i + ((k - 1) - i))
      BY <3>5 DEF T
    <3>7. At(c, i) <= At(c, k - 1)
      BY <3>4, <3>6
    <3> QED
      BY <3>7 DEF off
  <2> QED
    BY <1>2, <1>4, <1>5, <2>1, <2>3, <2>4, PutKeeps
<1>11. \A i \in 1 .. k : i \in 1 .. k - 1 \/ i = k
  BY <1>1
<1> QED
  BY <1>6, <1>7, <1>8, <1>9, <1>10, <1>11 DEF HotWritten, off, bytes

(* The region after each of the arguments, as the closure fills it. *)
HotWrites(c) ==
  LET written[k \in 0 .. Len(c.args)] ==
        IF k = 0 THEN WritePrefix(Claimed(HotTotal(c)), c)
        ELSE Put(written[k - 1], 6 + Len(c.name) + HotSizes(c.args, k - 1),
                 HotEncode(c.args, k))
  IN  written

(* The closure of a macro call writes all its region, one argument behind  *)
(* the other (macros 340-380).                                             *)
LEMMA HotWriteWorks ==
  ASSUME NEW c \in AnyHot
  PROVE  HotWritten(c, Len(c.args), HotWrite(c))
<1> DEFINE n == Len(c.args)
           a == WritePrefix(Claimed(HotTotal(c)), c)
           R == Regions(HotTotal(c))
           Arg1(b, k) == Put(b, At(c, k - 1), Encoded(c.args[k]))
           G == [p \in R \X (1 .. n) |-> Arg1(p[1], p[2])]
           W == HotWrites(c)
<1>0. c.number \in Nat /\ c.name \in Seq(Byte) /\ c.args \in Seq(AnyArg) /\ n \in Nat
  BY DEF AnyHot, Fitting
<1>1. HotTotal(c) \in Nat /\ 6 + Len(c.name) <= HotTotal(c)
  <2>1. n \in 0 .. n
    BY <1>0
  <2> QED
    BY <2>1, PlacesOfArgs
<1>2. /\ a \in R /\ PrefixIn(a, c) /\ FilledTo(a, 6 + Len(c.name))
  BY <1>0, <1>1, PrefixIsWritten DEF Regions
<1>3. ASSUME NEW b \in R, NEW k \in 1 .. n PROVE Arg1(b, k) \in R
  <2>1. k - 1 \in 0 .. n /\ k \in 0 .. n
    BY <1>0
  <2>2. /\ At(c, k - 1) \in Nat /\ Encoded(c.args[k]) \in Seq(Byte)
        /\ At(c, k) = At(c, k - 1) + Len(Encoded(c.args[k]))
        /\ At(c, k) <= HotTotal(c)
    BY <2>1, PlacesOfArgs
  <2>3. b \in Seq(Cell) /\ Len(b) = HotTotal(c)
    BY DEF Regions
  <2> QED
    BY <2>2, <2>3, PutFits DEF Regions
<1> HIDE DEF R, n, a
<1>4. G \in [R \X (1 .. n) -> R]
  <2> HIDE DEF Arg1
  <2> QED
    BY <1>3
<1> HIDE DEF G
<1>5. PICK f \in [0 .. n -> R] : f[0] = a /\ \A k \in 1 .. n : f[k] = G[<< f[k - 1], k >>]
  <2>1. HasRecursion(n, R, a, G)
    BY <1>0, <1>2, <1>4, RecursionWorks DEF n
  <2> QED
    BY <2>1 DEF HasRecursion, Recurs
<1>6. \A k \in 1 .. n : f[k] = Put(f[k - 1], 6 + Len(c.name) + HotSizes(c.args, k - 1),
                                   HotEncode(c.args, k))
  <2> SUFFICES ASSUME NEW k \in 1 .. n PROVE f[k] = Arg1(f[k - 1], k) /\ HotEncode(c.args, k) = Encoded(c.args[k])
    BY DEF At
  <2>1. k - 1 \in 0 .. n
    BY <1>0 DEF n
  <2>2. << f[k - 1], k >> \in R \X (1 .. n)
    BY <1>5, <2>1
  <2>3. f[k] = G[<< f[k - 1], k >>]
    BY <1>5
  <2>4. f[k] = Arg1(f[k - 1], k)
    BY <2>2, <2>3 DEF G
  <2>5. HotEncode(c.args, k) = Encoded(c.args[k])
    BY PlacesOfArgs DEF n
  <2> QED
    BY <2>4, <2>5
<1>7. f = [k \in 0 .. n |->
             IF k = 0 THEN a
             ELSE Put(f[k - 1], 6 + Len(c.name) + HotSizes(c.args, k - 1),
                      HotEncode(c.args, k))]
  <2>1. \A k \in 0 .. n : k # 0 => k \in 1 .. n
    BY <1>0 DEF n
  <2> QED
    BY <1>5, <1>6, <2>1
<1>8. W = [k \in 0 .. n |->
             IF k = 0 THEN a
             ELSE Put(W[k - 1], 6 + Len(c.name) + HotSizes(c.args, k - 1),
                      HotEncode(c.args, k))]
  BY <1>7 DEF HotWrites, n, a
<1>9. W[n] = HotWrite(c)
  BY DEF HotWrites, HotWrite, n
<1> HIDE DEF W
<1> DEFINE T == {k \in 0 .. n : HotWritten(c, k, W[k])}
<1>10. 0 \in T
  <2>1. W[0] = a /\ 0 \in 0 .. n
    BY <1>0, <1>8 DEF n
  <2>2. At(c, 0) = 6 + Len(c.name)
    BY PlacesOfArgs
  <2>3. HotWritten(c, 0, a)
    BY <1>2, <2>2 DEF HotWritten, R
  <2> QED
    BY <2>1, <2>3
<1>11. ASSUME NEW k \in 1 .. n, k - 1 \in T PROVE k \in T
  <2>1. k \in 0 .. n /\ k # 0
    BY <1>0 DEF n
  <2>2. W[k] = Arg1(W[k - 1], k)
    <3>1. HotEncode(c.args, k) = Encoded(c.args[k])
      BY PlacesOfArgs DEF n
    <3> QED
      BY <1>8, <2>1, <3>1 DEF At
  <2>3. HotWritten(c, k - 1, W[k - 1])
    BY <1>11
  <2>4. HotWritten(c, k, Arg1(W[k - 1], k))
    BY <2>3, ArgIsWritten DEF n
  <2> QED
    BY <2>1, <2>2, <2>4
<1> HIDE DEF T
<1>12. n \in T
  <2>1. n \in Nat
    BY <1>0 DEF n
  <2> QED
    BY <1>10, <1>11, <2>1, InductionUpTo
<1> QED
  BY <1>9, <1>12 DEF T, n

(* What a record of each kind looks like. *)
HotRecord(c, b) ==
  /\ b \in Regions(HotTotal(c)) /\ PrefixIn(b, c)
  /\ \A i \in 1 .. Len(c.args) : Holds(b, At(c, i - 1), Encoded(c.args[i]))

StandardRecord(c, b) ==
  /\ b \in Regions(StandardTotal(c)) /\ PrefixIn(b, c)
  /\ Holds(b, 6 + Len(c.name), c.args[1].bytes)

ArchiveRecord(c, b) ==
  /\ b \in Regions(ArchiveTotal(c))
  /\ Holds(b, 0, ToLE(c.number, 8)) /\ Holds(b, 8, c.name)
  /\ Holds(b, 8 + Len(c.name), ToLE(Len(c.args[1].bytes), 4))
  /\ Holds(b, 8 + Len(c.name) + 4, c.args[1].bytes)

AllFilled(b) == \A i \in DOMAIN b : b[i] \in Byte

(* A macro's record is written as a whole,                                 *)
LEMMA HotIsWritten ==
  ASSUME NEW c \in AnyHot
  PROVE  HotRecord(c, HotWrite(c)) /\ AllFilled(HotWrite(c))
<1>1. HotWritten(c, Len(c.args), HotWrite(c))
  BY HotWriteWorks
<1>2. HotTotal(c) = At(c, Len(c.args))
  BY PlacesOfArgs
<1> DEFINE b == HotWrite(c)
<1>3. b \in Seq(Cell) /\ Len(b) = At(c, Len(c.args)) /\ FilledTo(b, At(c, Len(c.args)))
  BY <1>1, <1>2 DEF HotWritten, Regions
<1> HIDE DEF b
<1>4. AllFilled(b)
  BY <1>3 DEF AllFilled, FilledTo
<1> QED
  BY <1>1, <1>4 DEF HotWritten, HotRecord, b

(* the bridge's,                                                           *)
LEMMA StandardIsWritten ==
  ASSUME NEW c \in AnyBridge
  PROVE  StandardRecord(c, StandardWrite(c)) /\ AllFilled(StandardWrite(c))
<1> DEFINE l == Len(c.name)
           m == c.args[1].bytes
           total == StandardTotal(c)
           b == WritePrefix(Claimed(total), c)
<1>1. c.number \in Nat /\ c.name \in Seq(Byte) /\ m \in Seq(Byte)
  BY DEF AnyBridge, Fitting
<1>2. l \in Nat /\ Len(m) \in Nat
  BY <1>1
<1>3. total = 4 + 2 + l + Len(m)
  BY DEF StandardTotal
<1>4. StandardWrite(c) = Put(b, 6 + l, m)
  BY DEF StandardWrite
<1> HIDE DEF total, m
<1>5. total \in Nat /\ 6 + l <= total
  BY <1>2, <1>3
<1>6. /\ b \in Seq(Cell) /\ Len(b) = total
      /\ PrefixIn(b, c) /\ FilledTo(b, 6 + l)
  BY <1>1, <1>5, PrefixIsWritten
<1> DEFINE off == 6 + l
<1>7. off \in Nat /\ off + Len(m) <= Len(b) /\ off + Len(m) = total /\ 6 + l <= off
  BY <1>2, <1>3, <1>6
<1>8. FilledTo(b, off)
  BY <1>6
<1> HIDE DEF b, l
<1> DEFINE w == Put(b, off, m)
<1>9. /\ w \in Seq(Cell) /\ Len(w) = total
      /\ Holds(w, off, m) /\ FilledTo(w, off + Len(m))
  BY <1>1, <1>6, <1>7, <1>8, PutFits, PutHolds, PutFills
<1>10. PrefixIn(w, c)
  BY <1>1, <1>6, <1>7, PrefixStays DEF l
<1>11. StandardWrite(c) = w /\ off = 6 + Len(c.name)
  BY <1>4 DEF l
<1> HIDE DEF w, off
<1>12. AllFilled(w)
  BY <1>7, <1>9 DEF AllFilled, FilledTo
<1>13. StandardRecord(c, w)
  BY <1>9, <1>10, <1>11 DEF StandardRecord, Regions, total, m
<1> QED
  BY <1>11, <1>12, <1>13

(* and an archive's.                                                       *)
LEMMA ArchiveIsWritten ==
  ASSUME NEW c \in AnyArchive
  PROVE  ArchiveRecord(c, ArchiveWrite(c)) /\ AllFilled(ArchiveWrite(c))
<1> DEFINE stamp == ToLE(c.number, 8)
           name == c.name
           m == c.args[1].bytes
           len == ToLE(Len(m), 4)
           total == ArchiveTotal(c)
           t == 8 + Len(name)
           b0 == Claimed(total)
           b1 == Put(b0, 0, stamp)
           b2 == Put(b1, 8, name)
           b3 == Put(b2, t, len)
           b4 == Put(b3, t + 4, m)
<1>1. c.number \in Nat /\ name \in Seq(Byte) /\ m \in Seq(Byte)
  BY DEF AnyArchive, Fitting
<1>2. stamp \in Seq(Byte) /\ Len(stamp) = 8
  <2>1. 8 \in 0 .. 8
    OBVIOUS
  <2> QED
    BY <1>1, <2>1, NumberToBytes
<1>3. len \in Seq(Byte) /\ Len(len) = 4
  <2>1. Len(m) \in Nat /\ 4 \in 0 .. 8
    BY <1>1
  <2> QED
    BY <2>1, NumberToBytes
<1>4. ArchiveWrite(c) = b4
  BY DEF ArchiveWrite
<1>5. total = 8 + Len(name) + 4 + Len(m)
  BY DEF ArchiveTotal
<1>6. Len(m) \in Nat /\ Len(name) \in Nat
  BY <1>1
<1> HIDE DEF total, stamp, name, m, len
<1>7. /\ total \in Nat /\ t \in Nat /\ t + 4 \in Nat
      /\ total = t + 4 + Len(m) /\ t = 8 + Len(name)
  BY <1>5, <1>6
<1>8. b0 \in Seq(Cell) /\ Len(b0) = total /\ FilledTo(b0, 0)
  BY <1>7, ClaimedFacts
<1> HIDE DEF b0, t
<1>9. /\ b1 \in Seq(Cell) /\ Len(b1) = total
      /\ Holds(b1, 0, stamp) /\ FilledTo(b1, 0 + Len(stamp))
  <2>1. 0 + Len(stamp) <= Len(b0) /\ 0 \in Nat
    BY <1>2, <1>6, <1>7, <1>8
  <2> QED
    BY <1>2, <1>8, <2>1, PutFits, PutHolds, PutFills
<1> HIDE DEF b1
<1>10. /\ b2 \in Seq(Cell) /\ Len(b2) = total
       /\ Holds(b2, 8, name) /\ FilledTo(b2, 8 + Len(name)) /\ Holds(b2, 0, stamp)
  <2>1. /\ 8 + Len(name) <= Len(b1) /\ 8 \in Nat /\ 0 \in Nat
        /\ FilledTo(b1, 8) /\ 0 + Len(stamp) <= 8
    BY <1>2, <1>6, <1>7, <1>9
  <2> QED
    BY <1>1, <1>2, <1>9, <2>1, PutFits, PutHolds, PutFills, PutKeeps
<1> HIDE DEF b2
<1>11. /\ b3 \in Seq(Cell) /\ Len(b3) = total
       /\ Holds(b3, t, len) /\ FilledTo(b3, t + Len(len))
       /\ Holds(b3, 0, stamp) /\ Holds(b3, 8, name)
  <2>1. /\ t + Len(len) <= Len(b2) /\ 8 \in Nat /\ 0 \in Nat
        /\ FilledTo(b2, t) /\ 0 + Len(stamp) <= t /\ 8 + Len(name) <= t
    BY <1>2, <1>3, <1>6, <1>7, <1>10
  <2>2. /\ b3 \in Seq(Cell) /\ Len(b3) = total
        /\ Holds(b3, t, len) /\ FilledTo(b3, t + Len(len))
    <3>0. /\ b2 \in Seq(Cell) /\ len \in Seq(Byte) /\ t \in Nat
          /\ t + Len(len) <= Len(b2) /\ Len(b2) = total
      BY <1>3, <1>7, <1>10, <2>1
    <3>1. b3 \in Seq(Cell) /\ Len(b3) = total
      BY <3>0, PutFits
    <3>2. Holds(b3, t, len)
      BY <1>3, <1>7, <1>10, <2>1, PutHolds
    <3>3. FilledTo(b3, t + Len(len))
      BY <1>3, <1>7, <1>10, <2>1, PutFills
    <3> QED
      BY <3>1, <3>2, <3>3
  <2>3. Holds(b3, 0, stamp)
    BY <1>2, <1>3, <1>7, <1>10, <2>1, PutKeeps
  <2>4. Holds(b3, 8, name)
    BY <1>1, <1>3, <1>7, <1>10, <2>1, PutKeeps
  <2> QED
    BY <2>2, <2>3, <2>4
<1> HIDE DEF b3
<1>12. /\ b4 \in Seq(Cell) /\ Len(b4) = total
       /\ Holds(b4, t + 4, m) /\ FilledTo(b4, t + 4 + Len(m))
       /\ Holds(b4, 0, stamp) /\ Holds(b4, 8, name) /\ Holds(b4, t, len)
  <2>1. /\ (t + 4) + Len(m) <= Len(b3) /\ 8 \in Nat /\ 0 \in Nat
        /\ FilledTo(b3, t + 4) /\ 0 + Len(stamp) <= t + 4 /\ 8 + Len(name) <= t + 4
        /\ t + Len(len) <= t + 4
    BY <1>2, <1>3, <1>6, <1>7, <1>11
  <2>2. /\ b4 \in Seq(Cell) /\ Len(b4) = total
        /\ Holds(b4, t + 4, m) /\ FilledTo(b4, t + 4 + Len(m))
    BY <1>1, <1>7, <1>11, <2>1, PutFits, PutHolds, PutFills
  <2>3. Holds(b4, 0, stamp)
    BY <1>1, <1>2, <1>7, <1>11, <2>1, PutKeeps
  <2>4. Holds(b4, 8, name)
    BY <1>1, <1>7, <1>11, <2>1, PutKeeps
  <2>5. Holds(b4, t, len)
    BY <1>1, <1>3, <1>7, <1>11, <2>1, PutKeeps
  <2> QED
    BY <2>2, <2>3, <2>4, <2>5
<1> HIDE DEF b4
<1>13. AllFilled(b4)
  BY <1>7, <1>12 DEF AllFilled, FilledTo
<1>14. b4 \in Regions(ArchiveTotal(c))
  BY <1>12 DEF Regions, total
<1>15. t = 8 + Len(c.name)
  BY DEF t, name
<1>16. ArchiveRecord(c, b4)
  BY <1>12, <1>14, <1>15 DEF ArchiveRecord, stamp, name, m, len
<1> QED
  BY <1>4, <1>13, <1>16

-----------------------------------------------------------------------------
(* The archiver's side. *)

(* A slice inside of a region is bytes.                                    *)
LEMMA SlicesAreBytes ==
  ASSUME NEW buf \in Seq(Byte), NEW off \in Nat, NEW n \in Nat, Has(buf, off, n)
  PROVE  Slice(buf, off, n) \in Seq(Byte) /\ Len(Slice(buf, off, n)) = n
<1>1. off + n <= Len(buf)
  BY DEF Has
<1> QED
  BY <1>1 DEF Slice

Decoded == [ok : BOOLEAN, bytes : Seq(Byte), used : Nat]

(* Reading a text gives something of the shape the reader goes on with,    *)
LEMMA TextIsDecoded ==
  ASSUME NEW buf \in Seq(Byte), NEW off \in Nat
  PROVE  TextAt(buf, off) \in Decoded
<1> DEFINE n == FromLE(Slice(buf, off, 4))
           text == Slice(buf, off + 4, n)
<1>1. TextAt(buf, off) = IF Has(buf, off, 4) /\ Has(buf, off + 4, n)
                         THEN [ok |-> TRUE, bytes |-> text, used |-> 4 + n]
                         ELSE [ok |-> FALSE, bytes |-> << >>, used |-> 0]
  BY DEF TextAt
<1>2. CASE Has(buf, off, 4) /\ Has(buf, off + 4, n)
  <2>1. Slice(buf, off, 4) \in Seq(Byte) /\ Len(Slice(buf, off, 4)) = 4
    BY <1>2, SlicesAreBytes
  <2>2. n \in Nat
    <3> DEFINE len == Slice(buf, off, 4)
    <3> HIDE DEF len
    <3>1. len \in Seq(Byte) /\ Len(len) = 4
      BY <2>1 DEF len
    <3>2. Len(len) <= 8
      BY <3>1
    <3> QED
      BY <3>1, <3>2, NumberFromBytes DEF len
  <2> HIDE DEF n
  <2>4. off + 4 \in Nat /\ 4 + n \in Nat
    BY <2>2
  <2>5. text \in Seq(Byte)
    BY <1>2, <2>2, <2>4, SlicesAreBytes
  <2> HIDE DEF text
  <2> QED
    BY <1>1, <1>2, <2>4, <2>5 DEF Decoded
<1>3. CASE ~(Has(buf, off, 4) /\ Has(buf, off + 4, n))
  <2> HIDE DEF n, text
  <2> QED
    BY <1>1, <1>3 DEF Decoded
<1> QED
  BY <1>2, <1>3

Witness == [pod : BOOLEAN, size : Nat]

(* and so does reading an argument,                                        *)
LEMMA ArgIsDecoded ==
  ASSUME NEW w \in Witness, NEW buf \in Seq(Byte), NEW off \in Nat
  PROVE  HotDecode(w, buf, off) \in Decoded
<1>1. w.size \in Nat
  BY DEF Witness
<1>2. CASE ~w.pod
  BY <1>2, TextIsDecoded DEF HotDecode
<1>3. CASE w.pod /\ Has(buf, off, w.size)
  <2>1. Slice(buf, off, w.size) \in Seq(Byte)
    BY <1>1, <1>3, SlicesAreBytes
  <2> QED
    BY <1>1, <1>3, <2>1 DEF HotDecode, Decoded
<1>4. CASE w.pod /\ ~Has(buf, off, w.size)
  BY <1>4 DEF HotDecode, Decoded
<1> QED
  BY <1>2, <1>3, <1>4

(* What is written of an argument is decoded to its bytes. *)
LEMMA ArgComesOut ==
  ASSUME NEW a \in AnyArg, NEW buf \in Seq(Byte), NEW off \in Nat,
         Holds(buf, off, Encoded(a)),
         a.type # "pod" => Len(a.bytes) < Weight[4],
         NEW w, w = [pod |-> a.type = "pod",
                     size |-> IF a.type = "pod" THEN Len(a.bytes) ELSE 0]
  PROVE  HotDecode(w, buf, off) =
           [ok |-> TRUE, bytes |-> a.bytes, used |-> Len(Encoded(a))]
<1>1. a.bytes \in Seq(Byte) /\ Len(a.bytes) \in Nat /\ buf \in Seq(Cell)
  BY DEF AnyArg, Cell
<1>2. CASE a.type = "pod"
  <2>1. w.pod /\ w.size = Len(a.bytes) /\ Encoded(a) = a.bytes
    BY <1>2 DEF Encoded
  <2>2. Slice(buf, off, Len(a.bytes)) = a.bytes /\ Has(buf, off, Len(a.bytes))
    BY <1>1, <2>1, SliceOfHeld
  <2> QED
    BY <2>1, <2>2 DEF HotDecode
<1>3. CASE a.type # "pod"
  <2> DEFINE bytes == a.bytes
             len == ToLE(Len(bytes), 4)
             all == Prefixed(bytes)
  <2>1. ~w.pod /\ Encoded(a) = all
    BY <1>3 DEF Encoded
  <2>2. /\ all \in Seq(Byte) /\ Len(all) = 4 + Len(bytes)
        /\ Holds(all, 0, len) /\ Holds(all, 4, bytes)
    BY <1>1, PrefixedFacts
  <2>3. Len(bytes) \in Nat /\ 4 \in 0 .. 8
    BY <1>1
  <2>4. len \in Seq(Byte) /\ Len(len) = 4 /\ FromLE(len) = Len(bytes)
    BY <1>3, <2>3, NumberToBytes, FittingNumber
  <2>5. Holds(buf, off, all) /\ bytes \in Seq(Byte)
    BY <1>1, <2>1
  <2> HIDE DEF all, len, bytes
  <2>6. Len(buf) \in Nat /\ off + 4 + Len(bytes) <= Len(buf)
    BY <2>2, <2>3, <2>5 DEF Holds
  <2>7. Holds(buf, off, len)
    <3>1. \A i \in 1 .. 4 : i \in 1 .. Len(all) /\ 0 + i = i
      BY <2>2, <2>3
    <3>2. \A i \in 1 .. 4 : buf[off + i] = len[i]
      BY <2>2, <2>4, <2>5, <3>1 DEF Holds
    <3> QED
      BY <2>3, <2>4, <2>6, <3>2 DEF Holds
  <2>8. Holds(buf, off + 4, bytes)
    <3>1. \A i \in 1 .. Len(bytes) : 4 + i \in 1 .. Len(all) /\ off + (4 + i) = (off + 4) + i
      BY <2>2, <2>3
    <3>2. \A i \in 1 .. Len(bytes) : buf[(off + 4) + i] = bytes[i]
      BY <2>2, <2>5, <3>1 DEF Holds
    <3> QED
      BY <2>3, <2>6, <3>2 DEF Holds
  <2>9. Slice(buf, off, 4) = len /\ Has(buf, off, 4)
    BY <1>1, <2>4, <2>7, SliceOfHeld
  <2>10. off + 4 \in Nat
    OBVIOUS
  <2>11. Slice(buf, off + 4, Len(bytes)) = bytes /\ Has(buf, off + 4, Len(bytes))
    BY <1>1, <2>5, <2>8, <2>10, SliceOfHeld
  <2>12. TextAt(buf, off) = [ok |-> TRUE, bytes |-> bytes, used |-> 4 + Len(bytes)]
    BY <2>4, <2>9, <2>11 DEF TextAt
  <2>13. HotDecode(w, buf, off) = TextAt(buf, off)
    BY <2>1 DEF HotDecode
  <2>14. Len(Encoded(a)) = 4 + Len(bytes)
    BY <2>1, <2>2
  <2> QED
    BY <2>12, <2>13, <2>14 DEF bytes
<1> QED
  BY <1>2, <1>3

Progress == [ok : BOOLEAN, off : Nat, texts : Seq(Seq(Byte))]

(* The formatter's way through the region: before the first argument, and  *)
(* from one to the next.                                                   *)
ReadFirst(buf) ==
  [ok |-> Has(buf, 6, FromLE(Slice(buf, 4, 2))), off |-> 6 + FromLE(Slice(buf, 4, 2)),
   texts |-> << >>]

ReadNext(h, buf, before, k) ==
  LET arg == HotDecode(h.witnesses[k], buf, before.off) IN
  IF before.ok /\ arg.ok
  THEN [ok |-> TRUE, off |-> before.off + arg.used,
        texts |-> Append(before.texts, arg.bytes)]
  ELSE [before EXCEPT !.ok = FALSE]

HotReads(h, buf) ==
  LET read[k \in 0 .. Len(h.witnesses)] ==
        IF k = 0 THEN ReadFirst(buf) ELSE ReadNext(h, buf, read[k - 1], k)
  IN  read

(* whatever the bytes are.                                                 *)
LEMMA ReadNextIsProgress ==
  ASSUME NEW h, h.witnesses \in Seq(Witness), NEW buf \in Seq(Byte),
         NEW before \in Progress, NEW k \in 1 .. Len(h.witnesses)
  PROVE  ReadNext(h, buf, before, k) \in Progress
<1> DEFINE arg == HotDecode(h.witnesses[k], buf, before.off)
<1>1. before.off \in Nat /\ before.texts \in Seq(Seq(Byte)) /\ before.ok \in BOOLEAN
  BY DEF Progress
<1>2. h.witnesses[k] \in Witness
  OBVIOUS
<1>3. arg \in Decoded
  BY <1>1, <1>2, ArgIsDecoded
<1>4. arg.bytes \in Seq(Byte) /\ arg.used \in Nat
  <2> HIDE DEF arg
  <2> QED
    BY <1>3 DEF Decoded
<1>5. ReadNext(h, buf, before, k) =
        IF before.ok /\ arg.ok
        THEN [ok |-> TRUE, off |-> before.off + arg.used,
              texts |-> Append(before.texts, arg.bytes)]
        ELSE [before EXCEPT !.ok = FALSE]
  BY DEF ReadNext
<1> HIDE DEF arg
<1>6. before.off + arg.used \in Nat
  BY <1>1, <1>4
<1>7. Append(before.texts, arg.bytes) \in Seq(Seq(Byte))
  BY <1>1, <1>4, AppendProperties
<1>8. [before EXCEPT !.ok = FALSE] \in Progress
  BY DEF Progress
<1>9. CASE before.ok /\ arg.ok
  BY <1>5, <1>6, <1>7, <1>9 DEF Progress
<1>10. CASE ~(before.ok /\ arg.ok)
  BY <1>5, <1>8, <1>10
<1> QED
  BY <1>9, <1>10

(* The two bytes that hold the length of the name. *)
LEMMA NameLengthIsRead ==
  ASSUME NEW buf \in Seq(Byte), 6 <= Len(buf)
  PROVE  FromLE(Slice(buf, 4, 2)) \in Nat
<1> DEFINE len == Slice(buf, 4, 2)
<1>1. Has(buf, 4, 2)
  BY DEF Has
<1>2. len \in Seq(Byte) /\ Len(len) = 2
  BY <1>1, SlicesAreBytes
<1> HIDE DEF len
<1>3. Len(len) <= 8
  BY <1>2
<1>4. FromLE(len) \in Nat
  BY <1>2, <1>3, NumberFromBytes
<1> QED
  BY <1>4 DEF len

(* The formatter reads one argument after the other.                       *)
LEMMA HotReadsRecur ==
  ASSUME NEW h, h.witnesses \in Seq(Witness), NEW buf \in Seq(Byte), 6 <= Len(buf)
  PROVE  /\ HotReads(h, buf) \in [0 .. Len(h.witnesses) -> Progress]
         /\ HotReads(h, buf)[0] = ReadFirst(buf)
         /\ \A k \in 1 .. Len(h.witnesses) :
              HotReads(h, buf)[k] = ReadNext(h, buf, HotReads(h, buf)[k - 1], k)
<1> DEFINE n == Len(h.witnesses)
           a == ReadFirst(buf)
           Step(p, k) == ReadNext(h, buf, p, k)
           G == [p \in Progress \X (1 .. n) |-> Step(p[1], p[2])]
           W == HotReads(h, buf)
<1>0. n \in Nat
  OBVIOUS
<1>1. ASSUME NEW p \in Progress, NEW k \in 1 .. n PROVE Step(p, k) \in Progress
  BY ReadNextIsProgress
<1>2. a \in Progress
  <2> DEFINE tl == FromLE(Slice(buf, 4, 2))
  <2>1. tl \in Nat
    BY NameLengthIsRead
  <2>2. a = [ok |-> Has(buf, 6, tl), off |-> 6 + tl, texts |-> << >>]
    BY DEF ReadFirst
  <2> HIDE DEF tl, a
  <2>3. Has(buf, 6, tl) \in BOOLEAN /\ 6 + tl \in Nat
    BY <2>1 DEF Has
  <2> QED
    BY <2>2, <2>3 DEF Progress
<1> HIDE DEF n, a, Step
<1>3. G \in [Progress \X (1 .. n) -> Progress]
  BY <1>1
<1> HIDE DEF G
<1>4. PICK f \in [0 .. n -> Progress] :
        f[0] = a /\ \A k \in 1 .. n : f[k] = G[<< f[k - 1], k >>]
  <2>1. HasRecursion(n, Progress, a, G)
    BY <1>0, <1>2, <1>3, RecursionWorks
  <2> QED
    BY <2>1 DEF HasRecursion, Recurs
<1>5. \A k \in 1 .. n : f[k] = Step(f[k - 1], k)
  <2> SUFFICES ASSUME NEW k \in 1 .. n PROVE f[k] = Step(f[k - 1], k)
    OBVIOUS
  <2>1. k - 1 \in 0 .. n
    BY <1>0
  <2>2. << f[k - 1], k >> \in Progress \X (1 .. n)
    BY <1>4, <2>1
  <2> QED
    BY <1>4, <2>2 DEF G
<1>6. f = [k \in 0 .. n |-> IF k = 0 THEN a ELSE Step(f[k - 1], k)]
  <2>1. \A k \in 0 .. n : k # 0 => k \in 1 .. n
    BY <1>0
  <2> QED
    BY <1>4, <1>5, <2>1
<1>7. W = [k \in 0 .. n |-> IF k = 0 THEN a ELSE Step(W[k - 1], k)]
  BY <1>6 DEF HotReads, n, a, Step
<1> HIDE DEF W
<1>8. W[0] = a /\ \A k \in 1 .. n : W[k] = Step(W[k - 1], k)
  <2>1. 0 \in 0 .. n /\ \A k \in 1 .. n : k \in 0 .. n /\ k # 0
    BY <1>0
  <2> QED
    BY <1>7, <2>1
<1>9. \A k \in 0 .. n : W[k] \in Progress
  <2>1. \A k \in 1 .. n : W[k - 1] \in Progress => W[k] \in Progress
    BY <1>1, <1>8
  <2>2. W[0] \in Progress
    BY <1>2, <1>8
  <2> QED
    BY <1>0, <2>1, <2>2, StepsKeep
<1>10. W \in [0 .. n -> Progress]
  <2>1. W = [k \in 0 .. n |-> W[k]]
    BY <1>7
  <2> QED
    BY <1>9, <2>1
<1> QED
  BY <1>8, <1>10 DEF W, n, a, Step

(* The generated formatter, in terms of these steps. *)
LEMMA HotReadSteps ==
  ASSUME NEW h, NEW buf
  PROVE  HotRead(h, buf) =
           IF HotReads(h, buf)[Len(h.witnesses)].ok
           THEN Line(h.level, FromLE(Slice(buf, 0, 4)),
                     Slice(buf, 6, FromLE(Slice(buf, 4, 2))),
                     HotReads(h, buf)[Len(h.witnesses)].texts)
           ELSE Panics
BY DEF HotRead, HotReads, ReadFirst, ReadNext

(* Whatever was written: what is printed as the target are bytes.          *)
LEMMA HotNameIsBytes ==
  ASSUME NEW h, h.witnesses \in Seq(Witness), NEW buf \in Seq(Byte), 6 <= Len(buf)
  PROVE  HotRead(h, buf).name \in Seq(Byte)
<1> DEFINE n == Len(h.witnesses)
           W == HotReads(h, buf)
           tl == FromLE(Slice(buf, 4, 2))
           T == {k \in 0 .. n : W[k].ok => Has(buf, 6, tl)}
<1>0. n \in Nat /\ 0 \in 0 .. n /\ n \in 0 .. n
  OBVIOUS
<1>1. /\ W[0] = ReadFirst(buf)
      /\ \A k \in 0 .. n : W[k] \in Progress
      /\ \A k \in 1 .. n : W[k] = ReadNext(h, buf, W[k - 1], k)
  BY HotReadsRecur
<1>2. HotRead(h, buf) =
        IF W[n].ok
        THEN Line(h.level, FromLE(Slice(buf, 0, 4)), Slice(buf, 6, tl), W[n].texts)
        ELSE Panics
  BY HotReadSteps
<1>3. ReadFirst(buf).ok = Has(buf, 6, tl)
  BY DEF ReadFirst
<1>4. tl \in Nat
  BY NameLengthIsRead
<1> HIDE DEF W, n, tl
<1>5. 0 \in T
  BY <1>0, <1>1, <1>3
<1>6. ASSUME NEW k \in 1 .. n, k - 1 \in T PROVE k \in T
  <2>1. k - 1 \in 0 .. n /\ k \in 0 .. n
    BY <1>0
  <2>2. W[k].ok => W[k - 1].ok
    <3> DEFINE arg == HotDecode(h.witnesses[k], buf, W[k - 1].off)
               before == W[k - 1]
    <3>1. W[k] = IF before.ok /\ arg.ok
                 THEN [ok |-> TRUE, off |-> before.off + arg.used,
                       texts |-> Append(before.texts, arg.bytes)]
                 ELSE [before EXCEPT !.ok = FALSE]
      BY <1>1 DEF ReadNext
    <3>2. before \in Progress
      BY <1>1, <2>1
    <3> HIDE DEF arg, before
    <3>3. CASE ~before.ok
      BY <3>1, <3>2, <3>3 DEF Progress, before
    <3>4. CASE before.ok
      BY <3>4 DEF before
    <3> QED
      BY <3>3, <3>4
  <2> QED
    BY <1>6, <2>1, <2>2
<1> HIDE DEF T
<1>7. 0 .. n \subseteq T
  BY <1>0, <1>5, <1>6, InductionUpTo
<1>8. W[n].ok => Has(buf, 6, tl)
  BY <1>0, <1>7 DEF T
<1>9. CASE W[n].ok
  <2>1. Slice(buf, 6, tl) \in Seq(Byte)
    BY <1>4, <1>8, <1>9, SlicesAreBytes
  <2> QED
    BY <1>2, <1>9, <2>1 DEF Line
<1>10. CASE ~W[n].ok
  BY <1>2, <1>10 DEF Panics
<1> QED
  BY <1>9, <1>10

(* The prefix is read as it was written, if its numbers fit.               *)
LEMMA PrefixIsRead ==
  ASSUME NEW c, c.number \in Fitting(4), c.name \in Seq(Byte),
         Len(c.name) < Weight[2], NEW buf \in Seq(Byte), PrefixIn(buf, c)
  PROVE  /\ FromLE(Slice(buf, 0, 4)) = c.number
         /\ FromLE(Slice(buf, 4, 2)) = Len(c.name)
         /\ Slice(buf, 6, Len(c.name)) = c.name
         /\ Has(buf, 6, Len(c.name))
<1> DEFINE line == ToLE(c.number, 4)
           len == ToLE(Len(c.name), 2)
           name == c.name
<1>1. buf \in Seq(Cell) /\ name \in Seq(Byte) /\ Len(name) \in Nat
  BY DEF Cell
<1>2. c.number \in Nat /\ c.number < Weight[4]
  BY DEF Fitting
<1>3. 4 \in 0 .. 8 /\ 2 \in 0 .. 8 /\ 0 \in Nat /\ 4 \in Nat /\ 6 \in Nat
  OBVIOUS
<1>4. line \in Seq(Byte) /\ Len(line) = 4 /\ FromLE(line) = c.number
  BY <1>2, <1>3, NumberToBytes, FittingNumber
<1>5. len \in Seq(Byte) /\ Len(len) = 2 /\ FromLE(len) = Len(name)
  BY <1>1, <1>3, NumberToBytes, FittingNumber
<1>6. Holds(buf, 0, line) /\ Holds(buf, 4, len) /\ Holds(buf, 6, name)
  BY DEF PrefixIn
<1> HIDE DEF line, len, name
<1>7. Slice(buf, 0, 4) = line
  BY <1>1, <1>3, <1>4, <1>6, SliceOfHeld
<1>8. Slice(buf, 4, 2) = len
  BY <1>1, <1>3, <1>5, <1>6, SliceOfHeld
<1>9. Slice(buf, 6, Len(name)) = name /\ Has(buf, 6, Len(name))
  BY <1>1, <1>3, <1>6, SliceOfHeld
<1> QED
  BY <1>4, <1>5, <1>7, <1>8, <1>9 DEF name

(* The texts of the first k arguments. *)
Texts(args, k) == [i \in 1 .. k |-> args[i].bytes]

(* One text more.                                                          *)
LEMMA TextsAppend ==
  ASSUME NEW args \in Seq(AnyArg), NEW k \in 1 .. Len(args)
  PROVE  Append(Texts(args, k - 1), args[k].bytes) = Texts(args, k)
<1> DEFINE t == Texts(args, k - 1)
           u == Append(t, args[k].bytes)
<1>1. \A i \in 1 .. Len(args) : args[i].bytes \in Seq(Byte)
  <2>1. \A i \in 1 .. Len(args) : args[i] \in AnyArg
    OBVIOUS
  <2> QED
    BY <2>1 DEF AnyArg
<1>2. k - 1 \in Nat /\ (k - 1) + 1 = k /\ k \in 1 .. Len(args)
  OBVIOUS
<1>3. t \in [1 .. k - 1 -> Seq(Byte)] /\ \A i \in 1 .. k - 1 : t[i] = args[i].bytes
  <2>1. \A i \in 1 .. k - 1 : i \in 1 .. Len(args)
    OBVIOUS
  <2> QED
    BY <1>1, <2>1 DEF Texts
<1> HIDE DEF t
<1>4. t \in Seq(Seq(Byte)) /\ Len(t) = k - 1
  BY <1>2, <1>3
<1>5. /\ u \in Seq(Seq(Byte)) /\ Len(u) = k
      /\ \A i \in 1 .. k - 1 : u[i] = t[i]
      /\ u[k] = args[k].bytes
  <2>1. args[k].bytes \in Seq(Byte)
    BY <1>1
  <2>2. /\ u \in Seq(Seq(Byte)) /\ Len(u) = Len(t) + 1
        /\ \A i \in 1 .. Len(t) : u[i] = t[i]
        /\ u[Len(t) + 1] = args[k].bytes
    BY <1>4, <2>1, AppendProperties
  <2> QED
    BY <1>2, <1>4, <2>2
<1> HIDE DEF u
<1>6. u = [i \in 1 .. k |-> u[i]]
  BY <1>5
<1>7. \A i \in 1 .. k : u[i] = args[i].bytes
  <2>1. \A i \in 1 .. k : i \in 1 .. k - 1 \/ i = k
    BY <1>2
  <2> QED
    BY <1>3, <1>5, <2>1
<1> QED
  BY <1>6, <1>7 DEF Texts, u, t

(* The header names the reader of each argument.                           *)
LEMMA WitnessesOfCall ==
  ASSUME NEW c \in AnyHot
  PROVE  /\ RecordHeader(c).kind = "hot"
         /\ RecordHeader(c).level = LevelToU8[c.level]
         /\ RecordHeader(c).witnesses \in Seq(Witness)
         /\ Len(RecordHeader(c).witnesses) = Len(c.args)
         /\ \A k \in 1 .. Len(c.args) :
              RecordHeader(c).witnesses[k] =
                [pod |-> c.args[k].type = "pod",
                 size |-> IF c.args[k].type = "pod" THEN Len(c.args[k].bytes) ELSE 0]
<1> DEFINE w == Witnesses(c.args)
           n == Len(c.args)
           Of(k) == [pod |-> c.args[k].type = "pod",
                     size |-> IF c.args[k].type = "pod" THEN Len(c.args[k].bytes) ELSE 0]
<1>1. c.kind = "hot" /\ c.args \in Seq(AnyArg)
  BY DEF AnyHot
<1>2. n \in Nat /\ DOMAIN c.args = 1 .. n /\ \A k \in 1 .. n : c.args[k] \in AnyArg
  BY <1>1
<1>3. ASSUME NEW k \in 1 .. n PROVE Of(k) \in Witness
  <2>1. Len(c.args[k].bytes) \in Nat
    BY <1>2 DEF AnyArg
  <2> QED
    BY <2>1 DEF Witness
<1>4. w = [k \in 1 .. n |-> Of(k)]
  BY <1>2 DEF Witnesses
<1> HIDE DEF Of, n, w
<1>5. w \in [1 .. n -> Witness] /\ \A k \in 1 .. n : w[k] = Of(k)
  BY <1>3, <1>4
<1>6. w \in Seq(Witness) /\ Len(w) = n
  BY <1>2, <1>5
<1>7. /\ RecordHeader(c).kind = "hot" /\ RecordHeader(c).level = LevelToU8[c.level]
      /\ RecordHeader(c).witnesses = w
  BY <1>1 DEF RecordHeader, w
<1> QED
  BY <1>5, <1>6, <1>7 DEF Of, n

(* A macro's record comes out as it was logged.                            *)
LEMMA HotComesOut ==
  ASSUME NEW c \in AnyHot, NEW buf \in Seq(Byte), HotRecord(c, buf), ~LengthIsCut(c)
  PROVE  HotRead(RecordHeader(c), buf) =
           Line(LevelToU8[c.level], c.number, c.name,
                [k \in DOMAIN c.args |-> c.args[k].bytes])
<1> DEFINE h == RecordHeader(c)
           n == Len(c.args)
           W == HotReads(h, buf)
           tl == FromLE(Slice(buf, 4, 2))
           At0(k) == At(c, k)
           Done(k) == [ok |-> TRUE, off |-> At0(k), texts |-> Texts(c.args, k)]
           T == {k \in 0 .. n : W[k] = Done(k)}
<1>0. /\ c.args \in Seq(AnyArg) /\ n \in Nat /\ c.name \in Seq(Byte) /\ c.number \in Fitting(4)
      /\ c.kind = "hot"
  BY DEF AnyHot
<1>1. /\ h.level = LevelToU8[c.level] /\ h.witnesses \in Seq(Witness)
      /\ Len(h.witnesses) = n
      /\ \A k \in 1 .. n :
           h.witnesses[k] =
             [pod |-> c.args[k].type = "pod",
              size |-> IF c.args[k].type = "pod" THEN Len(c.args[k].bytes) ELSE 0]
  BY WitnessesOfCall
<1>2. Len(buf) = HotTotal(c) /\ PrefixIn(buf, c)
  BY DEF HotRecord, Regions
<1>3. 6 <= Len(buf)
  <2>1. /\ HotTotal(c) \in Nat /\ 6 + Len(c.name) <= HotTotal(c) /\ Len(c.name) \in Nat
    <3>1. n \in 0 .. n
      BY <1>0
    <3> QED
      BY <1>0, <3>1, PlacesOfArgs
  <2> QED
    BY <1>2, <2>1
<1>4. Len(c.name) < Weight[2]
  <2>1. ~(Len(c.name) >= Weight[2])
    BY <1>0 DEF LengthIsCut, TargetTooLong
  <2>2. Weight[2] \in Nat
    BY WeightsGrow
  <2> QED
    BY <1>0, <2>1, <2>2
<1>5. /\ FromLE(Slice(buf, 0, 4)) = c.number /\ tl = Len(c.name)
      /\ Slice(buf, 6, tl) = c.name /\ Has(buf, 6, tl)
  BY <1>0, <1>2, <1>4, PrefixIsRead
<1>6. ASSUME NEW k \in 1 .. n, c.args[k].type # "pod"
      PROVE  Len(c.args[k].bytes) < Weight[4]
  <2>1. k \in DOMAIN c.args /\ c.args[k] \in AnyArg
    BY <1>0
  <2>2. ~(Len(c.args[k].bytes) >= Weight[4])
    BY <1>0, <1>6, <2>1 DEF LengthIsCut
  <2>3. Weight[4] \in Nat
    BY WeightsGrow
  <2>4. c.args[k].bytes \in Seq(Byte)
    BY <2>1 DEF AnyArg
  <2>5. Len(c.args[k].bytes) \in Nat
    BY <2>4
  <2> QED
    BY <2>2, <2>3, <2>5
<1>7. W[0] = ReadFirst(buf) /\ \A k \in 1 .. n : W[k] = ReadNext(h, buf, W[k - 1], k)
  BY <1>1, <1>3, HotReadsRecur
<1>8. HotRead(h, buf) =
        IF W[n].ok
        THEN Line(h.level, FromLE(Slice(buf, 0, 4)), Slice(buf, 6, tl), W[n].texts)
        ELSE Panics
  BY <1>1, HotReadSteps
<1> HIDE DEF h, W
<1>9. 0 \in T
  <2>1. ReadFirst(buf) = [ok |-> TRUE, off |-> 6 + Len(c.name), texts |-> << >>]
    BY <1>5 DEF ReadFirst
  <2>2. At0(0) = 6 + Len(c.name)
    BY PlacesOfArgs
  <2>3. Texts(c.args, 0) = << >>
    BY DEF Texts
  <2>4. 0 \in 0 .. n
    BY <1>0
  <2>5. W[0] = Done(0)
    <3> HIDE DEF At0
    <3> QED
      BY <1>7, <2>1, <2>2, <2>3
  <2> QED
    BY <2>4, <2>5
<1>10. ASSUME NEW k \in 1 .. n, k - 1 \in T PROVE k \in T
  <2>1. k \in 0 .. n /\ k - 1 \in 0 .. n
    BY <1>0
  <2>2. W[k - 1] = Done(k - 1)
    BY <1>10
  <2> DEFINE a == c.args[k]
             off == At0(k - 1)
             w == h.witnesses[k]
  <2>3. a \in AnyArg
    BY <1>0
  <2>4. off \in Nat /\ At0(k) = off + Len(Encoded(a))
    BY <2>1, PlacesOfArgs
  <2>5. Holds(buf, off, Encoded(a))
    BY DEF HotRecord
  <2>6. w = [pod |-> a.type = "pod", size |-> IF a.type = "pod" THEN Len(a.bytes) ELSE 0]
    BY <1>1
  <2>7. a.type # "pod" => Len(a.bytes) < Weight[4]
    BY <1>6
  <2>8. Append(Texts(c.args, k - 1), a.bytes) = Texts(c.args, k)
    BY <1>0, TextsAppend
  <2> HIDE DEF a, w, At0
  <2>9. HotDecode(w, buf, off) = [ok |-> TRUE, bytes |-> a.bytes, used |-> Len(Encoded(a))]
    <3> HIDE DEF off
    <3> QED
      BY <2>3, <2>4, <2>5, <2>6, <2>7, ArgComesOut
  <2>10. W[k - 1].ok = TRUE /\ W[k - 1].off = off /\ W[k - 1].texts = Texts(c.args, k - 1)
    BY <2>2
  <2>11. ReadNext(h, buf, W[k - 1], k) =
           [ok |-> TRUE, off |-> off + Len(Encoded(a)),
            texts |-> Append(Texts(c.args, k - 1), a.bytes)]
    <3> DEFINE before == W[k - 1]
               arg == HotDecode(w, buf, before.off)
    <3>1. ReadNext(h, buf, before, k) =
            IF before.ok /\ arg.ok
            THEN [ok |-> TRUE, off |-> before.off + arg.used,
                  texts |-> Append(before.texts, arg.bytes)]
            ELSE [before EXCEPT !.ok = FALSE]
      BY DEF ReadNext, w
    <3> HIDE DEF off
    <3>2. arg = [ok |-> TRUE, bytes |-> a.bytes, used |-> Len(Encoded(a))]
      BY <2>9, <2>10
    <3>3. arg.ok /\ arg.used = Len(Encoded(a)) /\ arg.bytes = a.bytes
      BY <3>2
    <3> HIDE DEF before, arg
    <3>4. before.ok = TRUE /\ before.off = off /\ before.texts = Texts(c.args, k - 1)
      BY <2>10 DEF before
    <3>5. ReadNext(h, buf, before, k) =
           [ok |-> TRUE, off |-> off + Len(Encoded(a)),
            texts |-> Append(Texts(c.args, k - 1), a.bytes)]
      BY <3>1, <3>3, <3>4
    <3> QED
      BY <3>5 DEF before
  <2>12. W[k] = Done(k)
    BY <1>7, <2>4, <2>8, <2>11
  <2> QED
    BY <2>1, <2>12
<1> HIDE DEF T
<1>11. 0 .. n \subseteq T /\ n \in 0 .. n
  <2>1. n \in Nat /\ n \in 0 .. n
    BY <1>0
  <2> HIDE DEF n
  <2>2. 0 .. n \subseteq T
    BY <1>9, <1>10, <2>1, InductionUpTo
  <2> QED
    BY <2>1, <2>2
<1>12. W[n] = Done(n)
  BY <1>11 DEF T
<1>13. Texts(c.args, n) = [k \in DOMAIN c.args |-> c.args[k].bytes]
  BY <1>0 DEF Texts
<1> QED
  BY <1>1, <1>5, <1>8, <1>12, <1>13 DEF h

(* A record of the bridge comes out as it was logged.                      *)
LEMMA StandardComesOut ==
  ASSUME NEW c \in AnyBridge, NEW buf \in Seq(Byte), StandardRecord(c, buf),
         ~TargetTooLong(c)
  PROVE  StandardRead(RecordHeader(c), buf) =
           Line(LevelToU8[c.level], c.number, c.name,
                [k \in DOMAIN c.args |-> c.args[k].bytes])
<1> DEFINE h == RecordHeader(c)
           tl == FromLE(Slice(buf, 4, 2))
           m == c.args[1].bytes
           l == Len(c.name)
           Rest(k) == SubSeq(buf, 7 + k, Len(buf))
<1>1. /\ c.name \in Seq(Byte) /\ c.number \in Fitting(4) /\ m \in Seq(Byte)
      /\ c.args \in [1 .. 1 -> [type : {"message"}, bytes : Seq(Byte)]]
  BY DEF AnyBridge
<1>2. l < Weight[2]
  <2>1. ~(l >= Weight[2])
    BY DEF TargetTooLong
  <2>2. Weight[2] \in Nat
    BY WeightsGrow
  <2>3. l \in Nat
    BY <1>1
  <2> QED
    BY <2>1, <2>2, <2>3
<1>3. /\ Len(buf) = StandardTotal(c) /\ PrefixIn(buf, c)
      /\ Holds(buf, 6 + l, m)
  BY DEF StandardRecord, Regions
<1>4. /\ FromLE(Slice(buf, 0, 4)) = c.number /\ tl = l
      /\ Slice(buf, 6, l) = c.name /\ Has(buf, 6, l)
  BY <1>1, <1>2, <1>3, PrefixIsRead
<1>5. Len(buf) = 4 + 2 + l + Len(m)
  BY <1>3 DEF StandardTotal
<1>6. Rest(l) = m
  <2>1. l \in Nat /\ Len(m) \in Nat /\ 6 + l \in Nat /\ buf \in Seq(Cell)
    BY <1>1 DEF Cell
  <2>2. Slice(buf, 6 + l, Len(m)) = m
    BY <1>1, <1>3, <2>1, SliceOfHeld
  <2> HIDE DEF l, m
  <2>3. (6 + l) + 1 = 7 + l /\ (6 + l) + Len(m) = Len(buf)
    BY <1>5, <2>1
  <2> QED
    BY <2>2, <2>3 DEF Slice
<1>7. h.level = LevelToU8[c.level]
  BY DEF RecordHeader
<1>8. << m >> = [k \in DOMAIN c.args |-> c.args[k].bytes]
  <2>1. DOMAIN c.args = {1}
    BY <1>1
  <2> QED
    BY <2>1
<1>9. StandardRead(h, buf) =
        IF Has(buf, 6, tl)
        THEN Line(h.level, FromLE(Slice(buf, 0, 4)), Slice(buf, 6, tl), << Rest(tl) >>)
        ELSE Panics
  BY DEF StandardRead
<1> HIDE DEF Rest, tl, h, m, l
<1> QED
  BY <1>4, <1>6, <1>7, <1>8, <1>9 DEF h, l

(* The first bytes of what is held. *)
LEMMA HeldPrefix ==
  ASSUME NEW buf \in Seq(Cell), NEW off \in Nat, NEW bytes \in Seq(Byte),
         Holds(buf, off, bytes), NEW n \in 0 .. Len(bytes)
  PROVE  /\ Slice(buf, off, n) = SubSeq(bytes, 1, n) /\ Has(buf, off, n)
         /\ SubSeq(bytes, 1, n) \in Seq(Byte) /\ Len(SubSeq(bytes, 1, n)) = n
<1> DEFINE p == SubSeq(bytes, 1, n)
<1>1. Len(bytes) \in Nat /\ n \in Nat /\ n <= Len(bytes)
  OBVIOUS
<1>2. p \in Seq(Byte) /\ Len(p) = n /\ \A i \in 1 .. n : p[i] = bytes[i]
  BY <1>1
<1> HIDE DEF p
<1>3. Holds(buf, off, p)
  <2>1. off + Len(bytes) <= Len(buf) /\ Len(buf) \in Nat
    BY DEF Holds
  <2>2. off + n <= Len(buf)
    BY <1>1, <2>1
  <2>3. \A i \in 1 .. n : i \in 1 .. Len(bytes)
    BY <1>1
  <2>4. \A i \in 1 .. n : buf[off + i] = p[i]
    BY <1>2, <2>3 DEF Holds
  <2> QED
    BY <1>2, <2>2, <2>4 DEF Holds
<1>4. Slice(buf, off, n) = p /\ Has(buf, off, n)
  BY <1>2, <1>3, SliceOfHeld
<1> QED
  BY <1>2, <1>4 DEF p

(* What of a payload is printed: its first bytes, as many as its length    *)
(* is after it was cut to four bytes (archive.rs 112).                     *)
Kept(c) == Len(c.args[1].bytes) % Weight[4]

(* What is kept of a payload is all of it, if its length fits.             *)
LEMMA KeptFacts ==
  ASSUME NEW c \in AnyArchive
  PROVE  /\ Kept(c) \in 0 .. Len(c.args[1].bytes)
         /\ Len(c.args[1].bytes) < Weight[4] => Kept(c) = Len(c.args[1].bytes)
<1> DEFINE l == Len(c.args[1].bytes)
<1>1. l \in Nat
  <2>1. c.args[1].bytes \in Seq(Byte)
    BY DEF AnyArchive
  <2> QED
    BY <2>1
<1>2. Weight[4] \in Nat \ {0}
  BY WeightsGrow
<1>3. Kept(c) = l % Weight[4]
  BY DEF Kept
<1> HIDE DEF l
<1>4. /\ l \div Weight[4] \in Nat /\ Kept(c) \in 0 .. Weight[4] - 1
      /\ l = (l \div Weight[4]) * Weight[4] + Kept(c)
  BY <1>1, <1>2, <1>3, DivisionHolds
<1>5. (l \div Weight[4]) * Weight[4] \in Nat
  BY <1>2, <1>4, ProductsGrow
<1>6. Kept(c) \in 0 .. l
  BY <1>1, <1>2, <1>4, <1>5
<1>7. ASSUME l < Weight[4] PROVE Kept(c) = l
  <2>1. FromLE(ToLE(l, 4)) = l
    BY <1>1, <1>7, FittingNumber
  <2>2. FromLE(ToLE(l, 4)) = Kept(c)
    BY <1>1, <1>3, NumberThroughBytes
  <2> QED
    BY <2>1, <2>2
<1> QED
  BY <1>6, <1>7 DEF l

(* An archive's record comes out with its timestamp, its tag, and what is  *)
(* kept of its payload,                                                    *)
LEMMA ArchiveComesOut ==
  ASSUME NEW c \in AnyArchive, NEW buf \in Seq(Byte), ArchiveRecord(c, buf)
  PROVE  ArchiveRead(Len(c.name), buf) =
           Line(0, c.number, c.name, << SubSeq(c.args[1].bytes, 1, Kept(c)) >>)
<1> DEFINE stamp == ToLE(c.number, 8)
           name == c.name
           l == Len(name)
           m == c.args[1].bytes
           len == ToLE(Len(m), 4)
           n == FromLE(Slice(buf, 8 + l, 4))
<1>1. /\ name \in Seq(Byte) /\ m \in Seq(Byte) /\ c.number \in Nat
      /\ c.number < Weight[8]
  BY DEF AnyArchive, Fitting
<1>2. l \in Nat /\ Len(m) \in Nat /\ 8 + l \in Nat /\ 8 + l + 4 \in Nat
      /\ 8 \in 0 .. 8 /\ 4 \in 0 .. 8 /\ 0 \in Nat /\ 8 \in Nat
  BY <1>1
<1>3. stamp \in Seq(Byte) /\ Len(stamp) = 8 /\ FromLE(stamp) = c.number
  BY <1>1, <1>2, NumberToBytes, FittingNumber
<1>4. len \in Seq(Byte) /\ Len(len) = 4
  BY <1>2, NumberToBytes
<1>5. FromLE(len) = Kept(c)
  BY <1>2, NumberThroughBytes DEF Kept
<1>6. /\ Holds(buf, 0, stamp) /\ Holds(buf, 8, name) /\ Holds(buf, 8 + l, len)
      /\ Holds(buf, 8 + l + 4, m)
  BY DEF ArchiveRecord
<1>7. buf \in Seq(Cell)
  BY DEF Cell
<1>8. ArchiveRead(l, buf) =
        IF Has(buf, 8 + l + 4, n)
        THEN Line(0, FromLE(Slice(buf, 0, 8)), Slice(buf, 8, l),
                  << Slice(buf, 8 + l + 4, n) >>)
        ELSE Panics
  BY DEF ArchiveRead
<1>9. Kept(c) \in 0 .. Len(m)
  BY KeptFacts
<1> HIDE DEF stamp, len, m, n
<1>10. Slice(buf, 0, 8) = stamp
  BY <1>2, <1>3, <1>6, <1>7, SliceOfHeld
<1>11. Slice(buf, 8, l) = name
  BY <1>1, <1>2, <1>6, <1>7, SliceOfHeld
<1>12. n = Kept(c)
  <2> DEFINE at == 8 + l
  <2>0. at \in Nat /\ Holds(buf, at, len)
    BY <1>2, <1>6
  <2> HIDE DEF at
  <2>2. Slice(buf, at, 4) = len
    BY <1>4, <1>7, <2>0, SliceOfHeld
  <2>1. Slice(buf, 8 + l, 4) = len
    BY <2>2 DEF at
  <2> QED
    BY <1>5, <2>1 DEF n
<1>13. /\ Slice(buf, 8 + l + 4, Kept(c)) = SubSeq(m, 1, Kept(c))
       /\ Has(buf, 8 + l + 4, Kept(c))
  <2> DEFINE at == 8 + l + 4
  <2>1. at \in Nat /\ Holds(buf, at, m)
    BY <1>2, <1>6
  <2> HIDE DEF at
  <2>2. Slice(buf, at, Kept(c)) = SubSeq(m, 1, Kept(c)) /\ Has(buf, at, Kept(c))
    BY <1>1, <1>7, <1>9, <2>1, HeldPrefix
  <2> QED
    BY <2>2 DEF at
<1> QED
  BY <1>3, <1>8, <1>10, <1>11, <1>12, <1>13 DEF m

(* a prefix of it.                                                         *)
LEMMA KeptIsPrefix ==
  ASSUME NEW c \in AnyArchive
  PROVE  IsPrefix(SubSeq(c.args[1].bytes, 1, Kept(c)), c.args[1].bytes)
<1> DEFINE m == c.args[1].bytes
           p == SubSeq(m, 1, Kept(c))
<1>1. m \in Seq(Byte)
  BY DEF AnyArchive
<1>2. Kept(c) \in 0 .. Len(m)
  BY KeptFacts
<1> HIDE DEF m
<1>3. p \in Seq(Byte) /\ Len(p) = Kept(c)
  BY <1>1, <1>2
<1>4. SubSeq(p, 1, Kept(c)) = p
  <2> HIDE DEF p
  <2>1. Kept(c) \in Nat
    BY <1>1, <1>2
  <2> DEFINE q == SubSeq(p, 1, Kept(c))
  <2>2. q \in Seq(Byte) /\ Len(q) = Kept(c) /\ \A i \in 1 .. Kept(c) : q[i] = p[i]
    BY <1>3, <2>1
  <2> HIDE DEF q
  <2>3. q = p
    BY <1>3, <2>2, SeqEqual
  <2> QED
    BY <2>3 DEF q
<1>5. Kept(c) <= Len(m)
  BY <1>1, <1>2
<1>6. IsPrefix(p, m)
  BY <1>3, <1>4, <1>5 DEF IsPrefix
<1> QED
  BY <1>6 DEF m

-----------------------------------------------------------------------------
(* One record. *)

(* The bridge asserts the length of its target, before it writes. *)
Accepted(c) == c \in AnyCall /\ ~(c.kind = "bridge" /\ TargetTooLong(c))

(* There are three kinds of calls.                                         *)
LEMMA KindsOfCalls ==
  ASSUME NEW c \in AnyCall
  PROVE  /\ c.kind = "hot" => c \in AnyHot
         /\ c.kind = "bridge" => c \in AnyBridge
         /\ c.kind = "archive" => c \in AnyArchive
         /\ c.kind \in {"hot", "bridge", "archive"}
         /\ LevelToU8[c.level] \in 0 .. 5
<1>1. CASE c \in AnyHot
  BY <1>1 DEF AnyHot, LogLevels, LevelToU8
<1>2. CASE c \in AnyBridge
  BY <1>2 DEF AnyBridge, LogLevels, LevelToU8
<1>3. CASE c \in AnyArchive
  BY <1>3 DEF AnyArchive, LevelToU8
<1> QED
  BY <1>1, <1>2, <1>3 DEF AnyCall

(* A region with all its bytes written is bytes.                           *)
LEMMA FilledRegions ==
  ASSUME NEW total, NEW b \in Regions(total), AllFilled(b)
  PROVE  b \in Seq(Byte) /\ Len(b) = total
<1>1. b \in Seq(Cell) /\ Len(b) = total
  BY DEF Regions
<1>2. DOMAIN b = 1 .. Len(b) /\ Len(b) \in Nat /\ b = [i \in 1 .. Len(b) |-> b[i]]
  BY <1>1
<1>3. \A i \in 1 .. Len(b) : b[i] \in Byte
  BY <1>2 DEF AllFilled
<1>4. b \in [1 .. Len(b) -> Byte]
  BY <1>2, <1>3
<1> QED
  BY <1>1, <1>2, <1>4

(* Every accepted call fills exactly the bytes it announced. *)
LEMMA CallsAreWritten ==
  ASSUME NEW c, Accepted(c)
  PROVE  Write(c) \in Seq(Byte) /\ Len(Write(c)) = Total(c)
<1>0. c \in AnyCall
  BY DEF Accepted
<1>1. CASE c.kind = "hot"
  <2>1. HotRecord(c, HotWrite(c)) /\ AllFilled(HotWrite(c))
    BY <1>0, <1>1, KindsOfCalls, HotIsWritten
  <2>2. HotWrite(c) \in Regions(HotTotal(c))
    BY <2>1 DEF HotRecord
  <2>3. Write(c) = HotWrite(c) /\ Total(c) = HotTotal(c)
    BY <1>1 DEF Write, Total
  <2> QED
    BY <2>1, <2>2, <2>3, FilledRegions
<1>2. CASE c.kind = "bridge"
  <2>1. StandardRecord(c, StandardWrite(c)) /\ AllFilled(StandardWrite(c))
    BY <1>0, <1>2, KindsOfCalls, StandardIsWritten
  <2>2. StandardWrite(c) \in Regions(StandardTotal(c))
    BY <2>1 DEF StandardRecord
  <2>3. Write(c) = StandardWrite(c) /\ Total(c) = StandardTotal(c)
    BY <1>2 DEF Write, Total
  <2> QED
    BY <2>1, <2>2, <2>3, FilledRegions
<1>3. CASE c.kind = "archive"
  <2>1. ArchiveRecord(c, ArchiveWrite(c)) /\ AllFilled(ArchiveWrite(c))
    BY <1>0, <1>3, KindsOfCalls, ArchiveIsWritten
  <2>2. ArchiveWrite(c) \in Regions(ArchiveTotal(c))
    BY <2>1 DEF ArchiveRecord
  <2>3. Write(c) = ArchiveWrite(c) /\ Total(c) = ArchiveTotal(c)
    BY <1>3 DEF Write, Total
  <2> QED
    BY <2>1, <2>2, <2>3, FilledRegions
<1> QED
  BY <1>0, <1>1, <1>2, <1>3, KindsOfCalls

LinesOf(c) ==
  Line(LevelToU8[c.level], c.number, c.name, [k \in DOMAIN c.args |-> c.args[k].bytes])

ReadBack(c) == Read(RecordHeader(c), Write(c))

(* A macro's record is printed as it was logged if no length was cut, and  *)
(* whatever is printed as its target are bytes.                            *)
LEMMA HotIsPrinted ==
  ASSUME NEW c \in AnyHot
  PROVE  /\ ReadBack(c).name \in Seq(Byte)
         /\ ~LengthIsCut(c) => ReadBack(c) = LinesOf(c)
<1> DEFINE b == HotWrite(c)
           h == RecordHeader(c)
<1>1. c.kind = "hot" /\ Accepted(c)
  BY DEF AnyHot, AnyCall, Accepted
<1>2. Write(c) = b /\ Total(c) = HotTotal(c)
  BY <1>1 DEF Write, Total
<1>3. b \in Seq(Byte) /\ Len(b) = HotTotal(c)
  BY <1>1, <1>2, CallsAreWritten
<1>4. HotRecord(c, b)
  BY HotIsWritten
<1>5. h.kind = "hot" /\ h.witnesses \in Seq(Witness)
  BY WitnessesOfCall
<1>6. ReadBack(c) = HotRead(h, b)
  BY <1>2, <1>5 DEF ReadBack, Read
<1>7. 6 <= Len(b)
  <2>1. c.name \in Seq(Byte) /\ c.args \in Seq(AnyArg)
    BY DEF AnyHot
  <2>2. Len(c.name) \in Nat /\ Len(c.args) \in 0 .. Len(c.args)
    BY <2>1
  <2>3. HotTotal(c) = At(c, Len(c.args)) /\ At(c, Len(c.args)) \in Nat
        /\ 6 + Len(c.name) <= At(c, Len(c.args))
    BY <2>2, PlacesOfArgs
  <2> QED
    BY <1>3, <2>2, <2>3
<1> HIDE DEF b
<1>8. ~LengthIsCut(c) => HotRead(h, b) = LinesOf(c)
  BY <1>3, <1>4, HotComesOut DEF LinesOf
<1> HIDE DEF h
<1>9. HotRead(h, b).name \in Seq(Byte)
  BY <1>3, <1>5, <1>7, HotNameIsBytes
<1> QED
  BY <1>6, <1>8, <1>9

(* A call of the bridge that passes the assertion is printed as logged,    *)
LEMMA BridgeIsPrinted ==
  ASSUME NEW c \in AnyBridge, Accepted(c)
  PROVE  ReadBack(c) = LinesOf(c)
<1> DEFINE b == StandardWrite(c)
           h == RecordHeader(c)
<1>1. c.kind = "bridge" /\ ~TargetTooLong(c)
  BY DEF AnyBridge, Accepted
<1>2. Write(c) = b /\ Total(c) = StandardTotal(c)
  BY <1>1 DEF Write, Total
<1>3. b \in Seq(Byte)
  BY <1>2, CallsAreWritten
<1>4. StandardRecord(c, b)
  BY StandardIsWritten
<1>5. h.kind = "bridge"
  BY <1>1 DEF RecordHeader
<1>6. ReadBack(c) = StandardRead(h, b)
  BY <1>2, <1>5 DEF ReadBack, Read
<1> HIDE DEF b
<1> QED
  BY <1>1, <1>3, <1>4, <1>6, StandardComesOut DEF LinesOf

(* and one of an archive, up to the cut of its payload.                    *)
LEMMA ArchiveIsPrinted ==
  ASSUME NEW c \in AnyArchive
  PROVE  /\ ReadBack(c) = Line(0, c.number, c.name, << SubSeq(c.args[1].bytes, 1, Kept(c)) >>)
         /\ ~LengthIsCut(c) => ReadBack(c) = LinesOf(c)
<1> DEFINE b == ArchiveWrite(c)
           h == RecordHeader(c)
           m == c.args[1].bytes
<1>1. /\ c.kind = "archive" /\ Accepted(c) /\ c.level = "none"
      /\ c.args \in [1 .. 1 -> [type : {"payload"}, bytes : Seq(Byte)]]
  BY DEF AnyArchive, AnyCall, Accepted
<1>2. Write(c) = b /\ Total(c) = ArchiveTotal(c)
  BY <1>1 DEF Write, Total
<1>3. b \in Seq(Byte)
  BY <1>1, <1>2, CallsAreWritten
<1>4. ArchiveRecord(c, b)
  BY ArchiveIsWritten
<1>5. h.kind = "archive" /\ h.tagSize = Len(c.name)
  BY <1>1 DEF RecordHeader
<1>6. ReadBack(c) = ArchiveRead(Len(c.name), b)
  BY <1>2, <1>5 DEF ReadBack, Read
<1> HIDE DEF b, h
<1>7. ReadBack(c) = Line(0, c.number, c.name, << SubSeq(m, 1, Kept(c)) >>)
  BY <1>3, <1>4, <1>6, ArchiveComesOut
<1>8. ASSUME ~LengthIsCut(c) PROVE ReadBack(c) = LinesOf(c)
  <2>1. 1 \in DOMAIN c.args /\ DOMAIN c.args = {1} /\ c.args[1].type # "pod" /\ m \in Seq(Byte)
    BY <1>1
  <2>2. ~(Len(m) >= Weight[4])
    BY <1>1, <1>8, <2>1 DEF LengthIsCut
  <2>3. Weight[4] \in Nat
    BY WeightsGrow
  <2>4. Len(m) \in Nat
    BY <2>1
  <2>5. Kept(c) = Len(m)
    <3>1. Len(m) < Weight[4]
      BY <2>2, <2>3, <2>4
    <3> QED
      BY <3>1, KeptFacts
  <2>6. SubSeq(m, 1, Len(m)) = m
    <3> HIDE DEF m
    <3> DEFINE q == SubSeq(m, 1, Len(m))
    <3>1. q \in Seq(Byte) /\ Len(q) = Len(m) /\ \A i \in 1 .. Len(m) : q[i] = m[i]
      BY <2>1
    <3> HIDE DEF q
    <3>2. q = m
      BY <2>1, <3>1, SeqEqual
    <3> QED
      BY <3>2 DEF q
  <2>7. << m >> = [k \in DOMAIN c.args |-> c.args[k].bytes]
    BY <2>1
  <2>8. LevelToU8[c.level] = 0
    BY <1>1 DEF LevelToU8
  <2> HIDE DEF m
  <2> QED
    BY <1>7, <2>5, <2>6, <2>7, <2>8 DEF LinesOf
<1> QED
  BY <1>7, <1>8 DEF m

-----------------------------------------------------------------------------
(* The system, with any call in place of the ones TLC tries.               *)

AnyNext == (\E c \in AnyCall : Submit(c)) \/ Format \/ Release
AnySpec == Init /\ [][AnyNext]_vars

(* The bytes TLC tries are bytes,                                          *)
LEMMA SomeBytes ==
  ASSUME NEW lengths, lengths \subseteq Nat, NEW b \in BytesIn(lengths)
  PROVE  b \in Seq(Byte)
<1>1. PICK n \in lengths : b \in BytesOf(n)
  BY DEF BytesIn
<1>2. PICK a \in {0, 1} : b = [i \in 1 .. n |-> (i + a) % 2]
  BY <1>1 DEF BytesOf
<1>3. \A i \in 1 .. n : (i + a) % 2 \in Byte
  <2>1. n \in Nat
    OBVIOUS
  <2>2. \A i \in 1 .. n : (i + a) % 2 \in 0 .. 1
    BY <2>1
  <2>3. 0 .. 1 \subseteq Byte
    BY BaseAssumption DEF Byte
  <2> QED
    BY <2>2, <2>3
<1>4. n \in Nat /\ b \in [1 .. n -> Byte]
  BY <1>2, <1>3
<1> QED
  BY <1>4

(* its calls are calls,                                                    *)
LEMMA CallsAreCalls == Calls \subseteq AnyCall
<1> SUFFICES ASSUME NEW c \in Calls PROVE c \in AnyCall
  OBVIOUS
<1> DEFINE
      Hot == [kind : {"hot"}, level : {"Info"}, number : Numbers,
              name : BytesIn(TargetLengths),
              args : UNION {[1 .. n -> Arg] : n \in 0 .. MaxArgs}]
      Bridge == [kind : {"bridge"}, level : Levels, number : Numbers,
                 name : BytesIn(TargetLengths),
                 args : [1 .. 1 -> [type : {"message"}, bytes : BytesIn(MessageLengths)]]]
      Archive == [kind : {"archive"}, level : {"none"}, number : Numbers,
                  name : BytesIn(PodSizes),
                  args : [1 .. 1 -> [type : {"payload"}, bytes : BytesIn(PayloadLengths)]]]
<1>1. c \in Hot \/ c \in Bridge \/ c \in Archive
  BY DEF Calls
<1>2. Numbers \subseteq Fitting(4) /\ Numbers \subseteq Fitting(8)
  <2>1. Weight[4] <= Weight[8]
    <3>1. /\ Weight[4] \in Nat /\ Weight[5] \in Nat /\ Weight[6] \in Nat
          /\ Weight[7] \in Nat /\ Weight[8] \in Nat
      BY WeightsGrow
    <3>2. /\ Weight[5 - 1] <= Weight[5] /\ Weight[6 - 1] <= Weight[6]
          /\ Weight[7 - 1] <= Weight[7] /\ Weight[8 - 1] <= Weight[8]
      BY WeightsGrow
    <3>3. 5 - 1 = 4 /\ 6 - 1 = 5 /\ 7 - 1 = 6 /\ 8 - 1 = 7
      OBVIOUS
    <3> QED
      BY <3>1, <3>2, <3>3
  <2>2. Weight[4] \in Nat /\ Weight[8] \in Nat
    BY WeightsGrow
  <2>3. \A n \in Numbers : n \in Nat /\ n < Weight[4]
    BY NumbersAssumption
  <2>4. \A n \in Numbers : n < Weight[8]
    BY <2>1, <2>2, <2>3
  <2> QED
    BY <2>3, <2>4 DEF Fitting
<1>3. /\ BytesIn(TargetLengths) \subseteq Seq(Byte) /\ BytesIn(MessageLengths) \subseteq Seq(Byte)
      /\ BytesIn(PodSizes) \subseteq Seq(Byte) /\ BytesIn(TextLengths) \subseteq Seq(Byte)
      /\ BytesIn(PayloadLengths) \subseteq Seq(Byte)
  <2>1. /\ TargetLengths \subseteq Nat /\ MessageLengths \subseteq Nat
        /\ PodSizes \subseteq Nat /\ TextLengths \subseteq Nat /\ PayloadLengths \subseteq Nat
    BY LengthsAssumption
  <2> QED
    BY <2>1, SomeBytes
<1>4. Arg \subseteq AnyArg
  BY <1>3 DEF Arg, AnyArg
<1>5. CASE c \in Hot
  <2>1. PICK n \in 0 .. MaxArgs : c.args \in [1 .. n -> Arg]
    BY <1>5
  <2>2. n \in Nat /\ c.args \in [1 .. n -> AnyArg]
    BY <1>4, <2>1, LengthsAssumption
  <2>3. c.args \in Seq(AnyArg)
    BY <2>2
  <2>4. c = [kind |-> "hot", level |-> "Info", number |-> c.number, name |-> c.name,
             args |-> c.args]
    BY <1>5
  <2>5. c.number \in Fitting(4) /\ c.name \in Seq(Byte) /\ "Info" \in LogLevels
    BY <1>2, <1>3, <1>5 DEF LogLevels
  <2> QED
    BY <2>3, <2>4, <2>5 DEF AnyCall, AnyHot
<1>6. CASE c \in Bridge
  <2>1. Levels \subseteq LogLevels
    BY LevelsAssumption DEF LogLevels
  <2>2. Bridge \subseteq AnyBridge
    BY <1>2, <1>3, <2>1 DEF AnyBridge
  <2> QED
    BY <1>6, <2>2 DEF AnyCall
<1>7. CASE c \in Archive
  <2>1. Archive \subseteq AnyArchive
    BY <1>2, <1>3 DEF AnyArchive
  <2> QED
    BY <1>7, <2>1 DEF AnyCall
<1> QED
  BY <1>1, <1>5, <1>6, <1>7

(* and so the specification that TLC checks is a case of the one with any  *)
(* calls.                                                                  *)
LEMMA SpecIsAnySpec == Spec => AnySpec
<1>1. [Next]_vars => [AnyNext]_vars
  BY CallsAreCalls DEF Next, AnyNext
<1> QED
  BY <1>1, PTL DEF Spec, AnySpec

(* A record and what is made of it follow from the call.                   *)
RecordInv ==
  /\ pc \in {"idle", "committed", "refused", "printed", "dead"}
  /\ header.level \in 0 .. 5
  /\ pc \in {"idle", "refused"} => region = << >>
  /\ pc \in {"idle", "refused", "committed"} => got = Panics
  /\ pc = "refused" => call.kind = "bridge" /\ TargetTooLong(call)
  /\ pc \in {"committed", "printed", "dead"} =>
       Accepted(call) /\ header = RecordHeader(call) /\ region = Write(call)
  /\ pc \in {"printed", "dead"} => got = ReadBack(call)
  /\ pc = "printed" => got.ok
  /\ pc = "dead" => ~got.ok

(* RecordInv holds at first,                                               *)
LEMMA InitInv == Init => RecordInv
<1> SUFFICES ASSUME Init PROVE RecordInv
  OBVIOUS
<1>1. header.level = 0
  BY DEF Init, NoHeader, RecordHeader, NoCall, LevelToU8
<1> QED
  BY <1>1 DEF Init, RecordInv

(* every step keeps it,                                                    *)
LEMMA NextInv == RecordInv /\ [AnyNext]_vars => RecordInv'
<1> SUFFICES ASSUME RecordInv, [AnyNext]_vars PROVE RecordInv'
  OBVIOUS
<1>1. ASSUME NEW c \in AnyCall, Submit(c) PROVE RecordInv'
  <2>1. pc = "idle" /\ region = << >> /\ got = Panics /\ header.level \in 0 .. 5
    BY <1>1 DEF Submit, RecordInv
  <2>2. call' = c /\ got' = Panics
    BY <1>1, <2>1 DEF Submit
  <2>3. CASE c.kind = "bridge" /\ TargetTooLong(c)
    <3>1. pc' = "refused" /\ header' = header /\ region' = << >>
      BY <1>1, <2>1, <2>3 DEF Submit
    <3>2. call'.kind = "bridge" /\ TargetTooLong(call)'
      BY <2>2, <2>3 DEF TargetTooLong
    <3> QED
      BY <2>1, <2>2, <3>1, <3>2 DEF RecordInv
  <2>4. CASE ~(c.kind = "bridge" /\ TargetTooLong(c))
    <3>1. /\ header' = RecordHeader(c) /\ region' = Write(c)
          /\ pc' = IF Len(region') = Total(c) THEN "committed" ELSE "refused"
      BY <1>1, <2>4 DEF Submit
    <3>2. Accepted(c)
      BY <2>4 DEF Accepted
    <3>3. pc' = "committed"
      BY <3>1, <3>2, CallsAreWritten
    <3>4. header'.level \in 0 .. 5
      <4>1. RecordHeader(c).level = LevelToU8[c.level]
        BY DEF RecordHeader
      <4> QED
        BY <3>1, <4>1, KindsOfCalls
    <3>5. Accepted(call)' /\ RecordHeader(call)' = RecordHeader(c) /\ Write(call)' = Write(c)
      <4>1. Accepted(call)' <=> Accepted(call')
        OBVIOUS
      <4>2. RecordHeader(call)' = RecordHeader(call')
        OBVIOUS
      <4>3. Write(call)' = Write(call')
        OBVIOUS
      <4> QED
        BY <2>2, <3>2, <4>1, <4>2, <4>3
    <3> QED
      BY <2>2, <3>1, <3>3, <3>4, <3>5 DEF RecordInv
  <2> QED
    BY <2>3, <2>4
<1>2. CASE Format
  <2>1. /\ pc = "committed" /\ got' = Read(header, region)
        /\ pc' = IF got'.ok THEN "printed" ELSE "dead"
        /\ call' = call /\ header' = header /\ region' = region
    BY <1>2 DEF Format
  <2>2. /\ Accepted(call) /\ header = RecordHeader(call) /\ region = Write(call)
        /\ header.level \in 0 .. 5
    BY <2>1 DEF RecordInv
  <2>3. got' = ReadBack(call)
    BY <2>1, <2>2 DEF ReadBack
  <2>4. /\ Accepted(call)' /\ RecordHeader(call)' = RecordHeader(call)
        /\ Write(call)' = Write(call) /\ ReadBack(call)' = ReadBack(call)
    BY <2>1, <2>2
  <2> QED
    BY <2>1, <2>2, <2>3, <2>4 DEF RecordInv
<1>3. CASE Release
  <2>1. pc' = "idle" /\ header' = NoHeader /\ region' = << >> /\ got' = Panics
    BY <1>3 DEF Release
  <2>2. NoHeader.level = 0
    BY DEF NoHeader, RecordHeader, NoCall, LevelToU8
  <2> QED
    BY <2>1, <2>2 DEF RecordInv
<1>4. CASE UNCHANGED vars
  <2>1. pc' = pc /\ call' = call /\ header' = header /\ region' = region /\ got' = got
    BY <1>4 DEF vars
  <2> QED
    BY <2>1 DEF RecordInv, Accepted, AnyCall, AnyHot, AnyBridge, AnyArchive, TargetTooLong
<1> QED
  BY <1>1, <1>2, <1>3, <1>4 DEF AnyNext

(* so it is an invariant.                                                  *)
LEMMA InvHolds == AnySpec => []RecordInv
BY InitInv, NextInv, PTL DEF AnySpec

(* What one accepted call comes to, whatever came before it. *)
LEMMA CallsAreRead ==
  ASSUME NEW c, Accepted(c)
  PROVE  /\ ReadBack(c).name \in Seq(Byte)
         /\ ~LengthIsCut(c) => ReadBack(c) = LinesOf(c)
         /\ ~ReadBack(c).ok => LengthIsCut(c) /\ c.kind = "hot"
         /\ c.kind = "archive" =>
              /\ ReadBack(c).number = c.number /\ ReadBack(c).name = c.name
              /\ IsPrefix(ReadBack(c).texts[1], c.args[1].bytes)
<1>0. c \in AnyCall
  BY DEF Accepted
<1>1. LinesOf(c).ok = TRUE /\ LinesOf(c).name = c.name
  BY DEF LinesOf, Line
<1>2. CASE c.kind = "hot"
  <2>1. c \in AnyHot
    BY <1>0, <1>2, KindsOfCalls
  <2>2. ReadBack(c).name \in Seq(Byte) /\ (~LengthIsCut(c) => ReadBack(c) = LinesOf(c))
    BY <2>1, HotIsPrinted
  <2> QED
    BY <1>1, <1>2, <2>2
<1>3. CASE c.kind = "bridge"
  <2>1. c \in AnyBridge
    BY <1>0, <1>3, KindsOfCalls
  <2>2. ReadBack(c) = LinesOf(c)
    BY <2>1, BridgeIsPrinted
  <2>3. c.name \in Seq(Byte)
    BY <2>1 DEF AnyBridge
  <2>4. ReadBack(c).ok /\ ReadBack(c).name \in Seq(Byte) /\ c.kind # "archive"
    BY <1>1, <1>3, <2>2, <2>3
  <2> QED
    BY <2>2, <2>4
<1>4. CASE c.kind = "archive"
  <2> DEFINE kept == SubSeq(c.args[1].bytes, 1, Kept(c))
  <2>1. c \in AnyArchive
    BY <1>0, <1>4, KindsOfCalls
  <2>2. /\ ReadBack(c) = Line(0, c.number, c.name, << kept >>)
        /\ ~LengthIsCut(c) => ReadBack(c) = LinesOf(c)
    BY <2>1, ArchiveIsPrinted
  <2>3. IsPrefix(kept, c.args[1].bytes)
    BY <2>1, KeptIsPrefix
  <2>4. c.name \in Seq(Byte)
    BY <2>1 DEF AnyArchive
  <2> HIDE DEF kept
  <2>5. /\ ReadBack(c).ok = TRUE /\ ReadBack(c).number = c.number
        /\ ReadBack(c).name = c.name /\ ReadBack(c).texts = << kept >>
    BY <2>2 DEF Line
  <2>6. ReadBack(c).texts[1] = kept
    BY <2>5
  <2>7. ReadBack(c).ok /\ ReadBack(c).name \in Seq(Byte)
    BY <2>4, <2>5
  <2>8. IsPrefix(ReadBack(c).texts[1], c.args[1].bytes)
    BY <2>3, <2>6
  <2> QED
    BY <2>2, <2>5, <2>7, <2>8
<1> QED
  BY <1>0, <1>2, <1>3, <1>4, KindsOfCalls

(* RecordInv implies each of the five properties.                          *)
LEMMA InvIsTyped == RecordInv => TypeOK
<1> SUFFICES ASSUME RecordInv PROVE TypeOK
  OBVIOUS
<1>1. \A i \in DOMAIN region : region[i] \in Byte \cup {Unwritten}
  <2>1. region = << >> \/ region \in Seq(Byte)
    BY CallsAreWritten DEF RecordInv
  <2> QED
    BY <2>1
<1>2. \A i \in DOMAIN got.name : got.name[i] \in Byte
  <2>1. got = Panics \/ got.name \in Seq(Byte)
    BY CallsAreRead DEF RecordInv
  <2>2. Panics.name = << >>
    BY DEF Panics
  <2> QED
    BY <2>1, <2>2
<1> QED
  BY <1>1, <1>2 DEF RecordInv, TypeOK

LEMMA InvFills == RecordInv => RegionIsFilled
<1> SUFFICES ASSUME RecordInv PROVE RegionIsFilled
  OBVIOUS
<1>1. ASSUME pc = "committed" PROVE \A i \in DOMAIN region : region[i] # Unwritten
  <2>1. region \in Seq(Byte)
    BY <1>1, CallsAreWritten DEF RecordInv
  <2>2. \A i \in DOMAIN region : region[i] \in Byte
    BY <2>1
  <2>3. \A n \in Byte : n # Unwritten
    BY BaseAssumption DEF Byte, Unwritten
  <2> QED
    BY <2>2, <2>3
<1> QED
  BY <1>1 DEF RecordInv, RegionIsFilled

LEMMA InvPrints == RecordInv => PrintsWhatWasLogged
BY CallsAreRead DEF RecordInv, PrintsWhatWasLogged, LinesOf

LEMMA InvSurvives == RecordInv => ReaderSurvives
BY CallsAreRead DEF RecordInv, ReaderSurvives

LEMMA InvKeepsPrefix == RecordInv => CutPayloadIsPrefix
BY CallsAreRead DEF RecordInv, CutPayloadIsPrefix

-----------------------------------------------------------------------------
(* The results: for the calls TLC tries, and for any call whatever.        *)

(* A region and the name that is printed are made of bytes, and the level  *)
(* is one of the six a header has.                                         *)
THEOREM CodecTypeCorrect == (Spec => []TypeOK) /\ (AnySpec => []TypeOK)
BY InvHolds, InvIsTyped, SpecIsAnySpec, PTL

(* The payload size announced to the ring is what the writer fills, to the *)
(* byte, for any arguments (pod.rs 200-213 against pod.rs 229-259; macros, *)
(* record.rs 93, archive.rs 105); no call but one of the bridge with a     *)
(* target too long panics on the caller's thread.                          *)
THEOREM EveryByteIsWritten ==
  (Spec => []RegionIsFilled) /\ (AnySpec => []RegionIsFilled)
BY InvHolds, InvFills, SpecIsAnySpec, PTL

(* What the archiver prints is what was logged: level, number, name and    *)
(* the text of each argument, of any number of them, stashed or not, if no *)
(* length was cut to its field.                                            *)
THEOREM RecordsComeOutAsLogged ==
  (Spec => []PrintsWhatWasLogged) /\ (AnySpec => []PrintsWhatWasLogged)
BY InvHolds, InvPrints, SpecIsAnySpec, PTL

(* No format function panics on the archiver's thread but that of a macro  *)
(* call one of whose lengths was cut.                                      *)
THEOREM ReadersSurvive == (Spec => []ReaderSurvives) /\ (AnySpec => []ReaderSurvives)
BY InvHolds, InvSurvives, SpecIsAnySpec, PTL

(* An archive payload of any length, cut or not, is printed as one of its  *)
(* prefixes under its own timestamp and tag.                               *)
THEOREM CutPayloadsArePrefixes ==
  (Spec => []CutPayloadIsPrefix) /\ (AnySpec => []CutPayloadIsPrefix)
BY InvHolds, InvKeepsPrefix, SpecIsAnySpec, PTL
=============================================================================
