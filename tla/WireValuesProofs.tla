-------------------------- MODULE WireValuesProofs --------------------------
(***************************************************************************)
(* Proofs about single values on the wire, for every width of a word:      *)
(* what is written is read back, wherever in the input it stands, and      *)
(* reading stays within the input and the limits.                          *)
(*                                                                         *)
(* The powers of two and the values gathered from bytes are defined by     *)
(* recursive functions.  Unfolds says that such functions exist; what they *)
(* compute is then proved by induction on the number of bits or bytes.     *)
(***************************************************************************)
EXTENDS WireValues, SequenceTheorems, WellFoundedInduction, TLAPS

Byte  == 0..255
Bytes == Seq(Byte)
Top   == WordBits + 7

-----------------------------------------------------------------------------
(***************************************************************************)
(* Induction and recursive functions                                       *)
(***************************************************************************)
LEMMA SmallestOf ==
    ASSUME NEW T, T \subseteq Nat, T # {}
    PROVE  \E x \in T : \A y \in T : x <= y
<1> DEFINE R == {p \in Nat \X Nat : p[1] < p[2]}
<1>1. IsWellFoundedOn(R, Nat)
  BY NatLessThanWellFounded DEF OpToRel
<1> HIDE DEF R
<1>2. PICK x \in T : \A y \in T : <<y, x>> \notin R
  BY <1>1, WFMin
<1>3. \A y \in T : ~(y < x)
  BY <1>2 DEF R
<1> QED
  BY <1>3

LEMMA InductionUpTo ==
    ASSUME NEW N \in Nat, NEW T, 0 \in T, \A n \in 1..N : n - 1 \in T => n \in T
    PROVE  0..N \subseteq T
<1> SUFFICES ASSUME NEW a \in 0..N, a \notin T PROVE FALSE
  OBVIOUS
<1> DEFINE U == {n \in 0..N : n \notin T}
<1>0. U \subseteq Nat /\ U # {}
  OBVIOUS
<1>1. PICK x \in U : \A y \in U : x <= y
  <2> HIDE DEF U
  <2> QED
    BY <1>0, SmallestOf
<1>2. x \in 1..N /\ x - 1 \in 0..N
  BY <1>1
<1>3. x - 1 \in T
  BY <1>1, <1>2
<1> QED
  BY <1>1, <1>2, <1>3

\* A function of which each value is made from the one before.
Unfolded(f, a, step, N) == f[0] = a /\ \A i \in 1..N : f[i] = step[i][f[i - 1]]
StaysIn(S, step, N)     == \A i \in 1..N : \A x \in S : step[i][x] \in S

LEMMA Unfolds ==
    ASSUME NEW N \in Nat, NEW S, NEW a \in S, NEW step, StaysIn(S, step, N)
    PROVE  \E f \in [0..N -> S] : Unfolded(f, a, step, N)
<1> DEFINE Upto(f, n) == f[0] = a /\ \A i \in 1..n : f[i] = step[i][f[i - 1]]
           T == {n \in 0..N : \E f \in [0..N -> S] : Upto(f, n)}
<1> USE DEF StaysIn
<1>1. 0 \in T
  <2> DEFINE g == [i \in 0..N |-> a]
  <2>1. g \in [0..N -> S] /\ g[0] = a
    OBVIOUS
  <2> HIDE DEF g
  <2>2. Upto(g, 0)
    BY <2>1
  <2> QED
    BY <2>1, <2>2
<1>2. ASSUME NEW n \in 1..N, n - 1 \in T PROVE n \in T
  <2>1. PICK f \in [0..N -> S] : Upto(f, n - 1)
    BY <1>2
  <2> DEFINE g == [f EXCEPT ![n] = step[n][f[n - 1]]]
  <2>2. g \in [0..N -> S]
    OBVIOUS
  <2>3. g[0] = a
    BY <2>1
  <2>4. ASSUME NEW i \in 1..n PROVE g[i] = step[i][g[i - 1]]
    <3>1. i - 1 \in 0..N /\ i - 1 # n /\ g[i - 1] = f[i - 1]
      OBVIOUS
    <3>2. CASE i = n
      BY <3>1, <3>2
    <3>3. CASE i # n
      <4>1. i \in 1..(n - 1) /\ g[i] = f[i]
        BY <3>3
      <4> QED
        BY <2>1, <3>1, <4>1
    <3> QED
      BY <3>2, <3>3
  <2> HIDE DEF g
  <2> QED
    BY <2>2, <2>3, <2>4
<1>3. N \in T
  <2> HIDE DEF T
  <2>1. 0..N \subseteq T
    BY <1>1, <1>2, InductionUpTo
  <2> QED
    BY <2>1
<1> QED
  BY <1>3 DEF Unfolded
-----------------------------------------------------------------------------
(***************************************************************************)
(* Powers of two                                                           *)
(***************************************************************************)
LEMMA Widths ==
    /\ WordBits \in {16, 32, 48, 64}
    /\ Top \in Nat /\ Top = WordBits + 7
    /\ HalfBits \in Nat /\ WordBits = 2 * HalfBits
    /\ WordBits \div 8 \in Nat /\ WordBits = 8 * (WordBits \div 8)
    /\ HalfBits \div 8 \in Nat /\ HalfBits = 8 * (HalfBits \div 8)
    /\ MAX_VARINT_LEN \in Nat /\ WordBits <= 7 * MAX_VARINT_LEN /\ 7 * MAX_VARINT_LEN < Top
<1>1. WordBits \in {16, 32, 48, 64}
  BY WordBitsAssumption
<1>2. CASE WordBits = 16
  BY <1>2 DEF Top, HalfBits, MAX_VARINT_LEN
<1>3. CASE WordBits = 32
  BY <1>3 DEF Top, HalfBits, MAX_VARINT_LEN
<1>4. CASE WordBits = 48
  BY <1>4 DEF Top, HalfBits, MAX_VARINT_LEN
<1>5. CASE WordBits = 64
  BY <1>5 DEF Top, HalfBits, MAX_VARINT_LEN
<1> QED
  BY <1>1, <1>2, <1>3, <1>4, <1>5

LEMMA PowerOfTwo ==
    /\ Power2 \in [0..Top -> Nat \ {0}]
    /\ Power2[0] = 1
    /\ \A n \in 1..Top : Power2[n] = 2 * Power2[n - 1]
<1> DEFINE P == Nat \ {0}
           double == [i \in 1..Top |-> [x \in P |-> 2 * x]]
<1>1. PICK f \in [0..Top -> P] : Unfolded(f, 1, double, Top)
  <2>1. StaysIn(P, double, Top)
    BY DEF StaysIn
  <2>2. 1 \in P
    OBVIOUS
  <2>3. Top \in Nat
    BY Widths
  <2> HIDE DEF P, double
  <2> QED
    BY <2>1, <2>2, <2>3, Unfolds
<1>2. f = [i \in 0..Top |-> IF i = 0 THEN 1 ELSE 2 * f[i - 1]]
  <2>1. \A i \in 0..Top : f[i] = IF i = 0 THEN 1 ELSE 2 * f[i - 1]
    <3> SUFFICES ASSUME NEW i \in 0..Top PROVE f[i] = IF i = 0 THEN 1 ELSE 2 * f[i - 1]
      OBVIOUS
    <3>1. CASE i = 0
      BY <1>1, <3>1 DEF Unfolded
    <3>2. CASE i # 0
      <4>1. i \in 1..Top /\ i - 1 \in 0..Top
        BY Widths, <3>2
      <4>2. f[i - 1] \in P /\ f[i] = double[i][f[i - 1]]
        BY <1>1, <4>1 DEF Unfolded
      <4> QED
        BY <3>2, <4>1, <4>2
    <3> QED
      BY <3>1, <3>2
  <2> QED
    BY <2>1
<1> HIDE DEF P, double
<1>3. Power2 = CHOOSE g : g = [n \in 0..Top |-> IF n = 0 THEN 1 ELSE 2 * g[n - 1]]
  BY Zenon DEF Power2, Top
<1>4. Power2 = [n \in 0..Top |-> IF n = 0 THEN 1 ELSE 2 * Power2[n - 1]]
  BY <1>2, <1>3, Zenon
<1> DEFINE T == {n \in 0..Top : Power2[n] \in P}
<1>5. Power2[0] = 1 /\ \A n \in 1..Top : Power2[n] = 2 * Power2[n - 1]
  BY <1>4, Widths
<1>6. 0..Top \subseteq T
  <2>1. 0 \in T
    <3>1. 0 \in 0..Top /\ Power2[0] \in P
      BY <1>5, Widths DEF P
    <3> QED
      BY <3>1
  <2>2. ASSUME NEW n \in 1..Top, n - 1 \in T PROVE n \in T
    <3>1. n \in 0..Top /\ Power2[n] \in P
      <4>1. Power2[n - 1] \in Nat /\ Power2[n - 1] # 0
        BY <2>2 DEF P
      <4>2. Power2[n] = 2 * Power2[n - 1]
        BY <1>5
      <4> HIDE DEF T
      <4> QED
        BY <4>1, <4>2, Widths DEF P
    <3> QED
      BY <3>1
  <2> HIDE DEF T
  <2> QED
    BY <2>1, <2>2, InductionUpTo, Widths
<1> QED
  BY <1>4, <1>5, <1>6 DEF P

LEMMA Products ==
    ASSUME NEW x \in Nat, NEW y \in Nat
    PROVE  x * y \in Nat /\ (y # 0 => x <= x * y)
<1>1. x * y \in Nat
  OBVIOUS
<1>2. ASSUME y # 0 PROVE x <= x * y
  <2>1. y - 1 \in Nat /\ x * (y - 1) \in Nat
    BY <1>2
  <2>2. x * y = x * (y - 1) + x
    OBVIOUS
  <2> QED
    BY <2>1, <2>2
<1> QED
  BY <1>1, <1>2

LEMMA PowersMultiply ==
    ASSUME NEW a \in 0..Top, NEW b \in 0..Top, a + b <= Top
    PROVE  Power2[a + b] = Power2[a] * Power2[b]
<1>0. Top \in Nat
  BY Widths
<1> DEFINE T == {n \in 0..b : Power2[a + n] = Power2[a] * Power2[n]}
<1>1. 0 \in T
  <2>1. Power2[a] \in Nat /\ Power2[0] = 1 /\ a + 0 = a
    BY <1>0, PowerOfTwo
  <2>2. Power2[a] = Power2[a] * 1
    BY <2>1
  <2> QED
    BY <2>1, <2>2
<1>2. ASSUME NEW n \in 1..b, n - 1 \in T PROVE n \in T
  <2>1. /\ a + n \in 1..Top /\ a + n - 1 = a + (n - 1) /\ n \in 1..Top
        /\ n - 1 \in 0..Top
    BY <1>0
  <2>2. Power2[a] \in Nat /\ Power2[n - 1] \in Nat
    BY <2>1, PowerOfTwo
  <2>3. Power2[a + n] = 2 * Power2[a + (n - 1)] /\ Power2[n] = 2 * Power2[n - 1]
    BY <2>1, PowerOfTwo
  <2>4. Power2[a + (n - 1)] = Power2[a] * Power2[n - 1]
    BY <1>2
  <2>5. 2 * (Power2[a] * Power2[n - 1]) = Power2[a] * (2 * Power2[n - 1])
    BY <2>2
  <2> QED
    BY <2>3, <2>4, <2>5
<1> HIDE DEF T
<1>3. 0..b \subseteq T
  BY <1>0, <1>1, <1>2, InductionUpTo
<1> QED
  BY <1>0, <1>3 DEF T

LEMMA PowersGrow ==
    ASSUME NEW a \in 0..Top, NEW b \in a..Top
    PROVE  Power2[a] <= Power2[b]
<1>1. Top \in Nat /\ b - a \in 0..Top /\ b \in 0..Top
  BY Widths
<1>2. Power2[a] \in Nat /\ Power2[b - a] \in Nat /\ Power2[b - a] # 0 /\ Power2[b] \in Nat
  BY <1>1, PowerOfTwo
<1>3. Power2[a + (b - a)] = Power2[a] * Power2[b - a] /\ a + (b - a) = b
  BY <1>1, PowersMultiply
<1>4. Power2[a] <= Power2[a] * Power2[b - a]
  BY <1>2, Products
<1> QED
  BY <1>3, <1>4

LEMMA SmallPowers == Power2[1] = 2 /\ Power2[3] = 8 /\ Power2[7] = 128 /\ Power2[8] = 256
<1>1. 1..8 \subseteq 1..Top /\ Power2[0] = 1
  BY Widths, PowerOfTwo
<1>2. Power2[1] = 2 /\ Power2[2] = 2 * Power2[1] /\ Power2[3] = 2 * Power2[2]
  BY <1>1, PowerOfTwo
<1>3. Power2[4] = 2 * Power2[3] /\ Power2[5] = 2 * Power2[4] /\ Power2[6] = 2 * Power2[5]
  BY <1>1, PowerOfTwo
<1>4. Power2[7] = 2 * Power2[6] /\ Power2[8] = 2 * Power2[7]
  BY <1>1, PowerOfTwo
<1> QED
  BY <1>2, <1>3, <1>4

-----------------------------------------------------------------------------
(***************************************************************************)
(* Quotients, remainders and the digits of a number                        *)
(***************************************************************************)
LEMMA DivMod ==
    ASSUME NEW v \in Nat, NEW N \in Nat \ {0}
    PROVE  v \div N \in Nat /\ v % N \in 0..(N - 1) /\ v = N * (v \div N) + (v % N)
<1>1. v \div N \in Int /\ v \div N >= 0
  OBVIOUS
<1>2. v % N \in 0..(N - 1)
  OBVIOUS
<1>3. v = N * (v \div N) + (v % N)
  OBVIOUS
<1> QED
  BY <1>1, <1>2, <1>3

LEMMA Quotient ==
    ASSUME NEW v \in Nat, NEW N \in Nat \ {0}, NEW q \in Nat, NEW r \in Nat,
           r < N, v = N * q + r
    PROVE  v \div N = q /\ v % N = r
<1> DEFINE c == v \div N
           t == v % N
<1>1. c \in Nat /\ t \in Nat /\ t < N /\ v = N * c + t
  BY DivMod
<1> HIDE DEF c, t
<1>2. ASSUME NEW x \in Nat, NEW y \in Nat, x + 1 <= y PROVE N * x + N <= N * y
  <2>1. y - (x + 1) \in Nat
    BY <1>2
  <2>2. N * (y - (x + 1)) \in Nat
    BY <2>1
  <2>3. N * y = N * (y - (x + 1)) + (N * x + N)
    OBVIOUS
  <2>4. N * x \in Nat /\ N * y \in Nat
    OBVIOUS
  <2> QED
    BY <2>2, <2>3, <2>4
<1>3. N * c \in Nat /\ N * q \in Nat
  BY <1>1
<1>4. ~(q + 1 <= c)
  BY <1>1, <1>2, <1>3
<1>5. ~(c + 1 <= q)
  BY <1>1, <1>2, <1>3
<1>6. c = q
  BY <1>1, <1>4, <1>5
<1>7. t = r
  BY <1>1, <1>3, <1>6
<1> QED
  BY <1>6, <1>7 DEF c, t

LEMMA NextDigit ==
    ASSUME NEW v \in Nat, NEW N \in Nat \ {0}, NEW B \in Nat \ {0}
    PROVE  v % (B * N) = (v % N) + ((v \div N) % B) * N
<1> DEFINE q == v \div N
           r == v % N
           h == q \div B
           d == q % B
<1>1. q \in Nat /\ r \in Nat /\ r < N /\ v = N * q + r
  BY DivMod
<1> HIDE DEF q, r
<1>2. h \in Nat /\ d \in Nat /\ d <= B - 1 /\ q = B * h + d
  <2>1. q \div B \in Nat /\ q % B \in 0..(B - 1) /\ q = B * (q \div B) + (q % B)
    BY <1>1, DivMod
  <2> QED
    BY <2>1
<1> HIDE DEF h, d
<1>3. v = (B * N) * h + (r + d * N)
  <2>1. N * (B * h + d) = (B * N) * h + d * N
    BY <1>2
  <2>2. N * q = N * (B * h + d)
    BY <1>2
  <2> QED
    BY <1>1, <1>2, <2>1, <2>2
<1>4. r + d * N \in Nat /\ r + d * N < B * N
  <2>1. d * N \in Nat /\ (B - 1 - d) \in Nat
    BY <1>2
  <2>2. (B - 1 - d) * N \in Nat
    BY <2>1, Products
  <2>3. B * N = (B - 1 - d) * N + d * N + N
    BY <1>2
  <2> QED
    BY <1>1, <2>1, <2>2, <2>3
<1>5. B * N \in Nat \ {0}
  <2>1. B <= B * N /\ B * N \in Nat
    BY Products
  <2> QED
    BY <2>1
<1> DEFINE M == B * N
           s == r + d * N
<1>6. v = M * h + s /\ s \in Nat /\ s < M /\ M \in Nat \ {0}
  BY <1>3, <1>4, <1>5
<1>7. M = B * N /\ s = r + d * N
  OBVIOUS
<1> HIDE DEF M, s
<1>8. v % M = s
  BY <1>2, <1>6, Quotient
<1> QED
  BY <1>7, <1>8 DEF d, r, q

LEMMA SmallRemainder ==
    ASSUME NEW v \in Nat, NEW N \in Nat, v < N
    PROVE  v % N = v
<1>1. v = N * 0 + v
  OBVIOUS
<1> QED
  BY <1>1, Quotient

-----------------------------------------------------------------------------
(***************************************************************************)
(* Numbers from bytes                                                      *)
(***************************************************************************)
\* The digit of one byte in its place, and the sums of the first of them.
Naturals(bytes, start, n) == \A i \in 1..n : bytes[start + i] \in Nat
Digit(bytes, start, bits, i) == (bytes[start + i] % Power2[bits]) * Power2[bits * (i - 1)]

IsSum(sum, bytes, start, n, bits) ==
    sum[0] = 0 /\ \A i \in 1..n : sum[i] = sum[i - 1] + Digit(bytes, start, bits, i)
HasDigits(v, bytes, start, n, bits) ==
    \A i \in 1..n :
      bytes[start + i] % Power2[bits] = (v \div Power2[bits * (i - 1)]) % Power2[bits]

Gatherable(bytes, start, n, bits) ==
    n \in Nat /\ bits \in {7, 8} /\ bits * n <= Top /\ Naturals(bytes, start, n)

LEMMA PlaceOfDigit ==
    ASSUME NEW bits \in {7, 8}, NEW n \in Nat, NEW i \in 1..n, bits * n <= Top
    PROVE  /\ bits \in 0..Top /\ bits * (i - 1) \in 0..Top /\ bits * i \in 0..Top
           /\ bits + bits * (i - 1) = bits * i
<1>0. Top \in Nat /\ Top >= 8
  BY Widths
<1>1. CASE bits = 7
  BY <1>0, <1>1
<1>2. CASE bits = 8
  BY <1>0, <1>2
<1> QED
  BY <1>1, <1>2

LEMMA GatheredSum ==
    ASSUME NEW bytes, NEW start \in Nat, NEW n \in Nat, NEW bits \in {7, 8},
           bits * n <= Top, Naturals(bytes, start, n)
    PROVE  \E sum \in [0..n -> Nat] :
             Gathered(bytes, start, n, bits) = sum[n] /\ IsSum(sum, bytes, start, n, bits)
<1> DEFINE Step(f, i) == IF i = 0 THEN 0 ELSE f[i - 1] + Digit(bytes, start, bits, i)
           Sums(f) == f = [i \in 0..n |-> Step(f, i)]
           add == [i \in 1..n |-> [x \in Nat |-> x + Digit(bytes, start, bits, i)]]
<1>1. ASSUME NEW i \in 1..n PROVE Digit(bytes, start, bits, i) \in Nat
  <2>1. bits \in 0..Top /\ bits * (i - 1) \in 0..Top
    BY PlaceOfDigit
  <2>2. Power2[bits] \in Nat \ {0} /\ Power2[bits * (i - 1)] \in Nat
    BY <2>1, PowerOfTwo
  <2>3. bytes[start + i] % Power2[bits] \in Nat
    <3>1. bytes[start + i] \in Nat
      BY DEF Naturals
    <3> DEFINE b == bytes[start + i]
               N == Power2[bits]
    <3>2. b \in Nat /\ N \in Nat \ {0}
      BY <2>2, <3>1
    <3> HIDE DEF b, N
    <3>3. b % N \in Nat
      BY <3>2, DivMod
    <3> QED
      BY <3>3 DEF b, N
  <2> QED
    BY <2>2, <2>3, Products DEF Digit
<1>2. PICK f \in [0..n -> Nat] : Unfolded(f, 0, add, n)
  <2>1. StaysIn(Nat, add, n)
    BY <1>1 DEF StaysIn
  <2>2. 0 \in Nat
    OBVIOUS
  <2> HIDE DEF add
  <2> QED
    BY <2>1, <2>2, Unfolds
<1>3. f[0] = 0 /\ \A i \in 1..n : f[i] = f[i - 1] + Digit(bytes, start, bits, i)
  <2>1. ASSUME NEW i \in 1..n PROVE f[i] = f[i - 1] + Digit(bytes, start, bits, i)
    <3>1. f[i] = add[i][f[i - 1]]
      BY <1>2 DEF Unfolded
    <3>2. f[i - 1] \in Nat
      OBVIOUS
    <3>3. add[i][f[i - 1]] = f[i - 1] + Digit(bytes, start, bits, i)
      BY <3>2
    <3> QED
      BY <3>1, <3>3
  <2> QED
    BY <1>2, <2>1 DEF Unfolded
<1>4. Sums(f)
  <2>1. \A i \in 0..n : f[i] = Step(f, i)
    BY <1>3
  <2> HIDE DEF Step
  <2> QED
    BY <2>1
<1> DEFINE sum == CHOOSE g : Sums(g)
<1>5. Sums(sum)
  <2> HIDE DEF Sums
  <2> QED
    BY <1>4
<1>6. Gathered(bytes, start, n, bits) = sum[n]
  BY Zenon DEF Gathered, Digit
<1> HIDE DEF sum
<1>7. sum[0] = 0 /\ \A i \in 1..n : sum[i] = sum[i - 1] + Digit(bytes, start, bits, i)
  BY <1>5
<1> DEFINE T == {i \in 0..n : sum[i] \in Nat}
<1>8. 0..n \subseteq T
  <2>1. 0 \in T
    BY <1>7
  <2>2. ASSUME NEW i \in 1..n, i - 1 \in T PROVE i \in T
    <3>1. sum[i - 1] \in Nat /\ sum[i] = sum[i - 1] + Digit(bytes, start, bits, i)
      BY <1>7, <2>2
    <3>2. sum[i] \in Nat
      BY <1>1, <3>1
    <3> QED
      BY <3>2
  <2> HIDE DEF T
  <2> QED
    BY <2>1, <2>2, InductionUpTo
<1>9. sum \in [0..n -> Nat]
  <2>1. sum = [i \in 0..n |-> sum[i]]
    BY <1>5
  <2> QED
    BY <1>8, <2>1
<1> QED
  BY <1>6, <1>7, <1>9 DEF IsSum

LEMMA GatheredType ==
    ASSUME NEW bytes, NEW start \in Nat, NEW n \in Nat, NEW bits \in {7, 8},
           bits * n <= Top, Naturals(bytes, start, n)
    PROVE  Gathered(bytes, start, n, bits) \in Nat
BY GatheredSum

\* Of the digits of a number the number is gathered, its high digits missing.
LEMMA GatheredDigits ==
    ASSUME NEW bytes, NEW start \in Nat, NEW n, NEW bits, NEW v \in Nat,
           Gatherable(bytes, start, n, bits), HasDigits(v, bytes, start, n, bits)
    PROVE  Gathered(bytes, start, n, bits) = v % Power2[bits * n]
<1>0. n \in Nat /\ bits \in {7, 8} /\ bits * n <= Top /\ Naturals(bytes, start, n)
  BY DEF Gatherable
<1> USE <1>0
<1>1. PICK sum \in [0..n -> Nat] :
        Gathered(bytes, start, n, bits) = sum[n] /\ IsSum(sum, bytes, start, n, bits)
  BY GatheredSum
<1> DEFINE T == {i \in 0..n : sum[i] = v % Power2[bits * i]}
<1>2. 0 \in T
  <2>1. bits * 0 = 0 /\ Power2[0] = 1 /\ v % 1 = 0
    BY PowerOfTwo
  <2> QED
    BY <1>1, <2>1 DEF IsSum
<1>3. ASSUME NEW i \in 1..n, i - 1 \in T PROVE i \in T
  <2> DEFINE N == Power2[bits * (i - 1)]
             B == Power2[bits]
  <2>1. bits \in 0..Top /\ bits * (i - 1) \in 0..Top /\ bits + bits * (i - 1) = bits * i
        /\ bits * i <= Top
    BY PlaceOfDigit
  <2>2. N \in Nat \ {0} /\ B \in Nat \ {0} /\ Power2[bits * i] = B * N
    BY <2>1, PowerOfTwo, PowersMultiply
  <2>3. sum[i - 1] = v % N
    BY <1>3
  <2>4. sum[i] = (v % N) + ((v \div N) % B) * N
    BY <1>1, <2>3 DEF Digit, IsSum, HasDigits
  <2> HIDE DEF N, B
  <2>5. v % (B * N) = (v % N) + ((v \div N) % B) * N
    BY <2>2, NextDigit
  <2> QED
    BY <2>2, <2>4, <2>5
<1> HIDE DEF T
<1>4. 0..n \subseteq T
  BY <1>2, <1>3, InductionUpTo
<1> QED
  BY <1>1, <1>4 DEF T

-----------------------------------------------------------------------------
(***************************************************************************)
(* Varints                                                                 *)
(***************************************************************************)
LEMMA WordType ==
    /\ Word \in Nat \ {0} /\ Half \in Nat \ {0} /\ Half <= Word /\ 256 <= Half
    /\ Word <= Power2[7 * MAX_VARINT_LEN] /\ MAX_VARINT_LEN >= 1
<1>1. /\ WordBits \in 0..Top /\ HalfBits \in 0..Top /\ 8 \in 0..Top /\ WordBits \in HalfBits..Top
      /\ HalfBits \in 8..Top /\ 7 * MAX_VARINT_LEN \in WordBits..Top /\ MAX_VARINT_LEN >= 1
  BY Widths
<1>2. /\ Half <= Word /\ Power2[8] <= Half /\ Word <= Power2[7 * MAX_VARINT_LEN]
  BY <1>1, PowersGrow DEF Word, Half
<1>3. Word \in Nat \ {0} /\ Half \in Nat \ {0}
  BY <1>1, PowerOfTwo DEF Word, Half
<1> QED
  BY <1>1, <1>2, <1>3, SmallPowers

\* The length of a varint: the fewest groups of seven bits that hold the value.
LengthOf(n, v) == v < Power2[7 * n] /\ (n = 1 \/ v >= Power2[7 * (n - 1)])

LEMMA VarintLength ==
    ASSUME NEW v \in 0..(Word - 1)
    PROVE  varint_len(v) \in 1..MAX_VARINT_LEN /\ LengthOf(varint_len(v), v)
<1> DEFINE U == {n \in 1..MAX_VARINT_LEN : v < Power2[7 * n]}
<1>1. MAX_VARINT_LEN \in Nat /\ Word \in Nat
  BY Widths, WordType
<1>2. v < Power2[7 * MAX_VARINT_LEN] /\ MAX_VARINT_LEN \in 1..MAX_VARINT_LEN
  <2>1. 7 * MAX_VARINT_LEN \in 0..Top
    BY Widths
  <2>2. Power2[7 * MAX_VARINT_LEN] \in Nat
    BY <2>1, PowerOfTwo
  <2> QED
    BY <1>1, <2>2, WordType
<1>3. U \subseteq Nat /\ U # {}
  BY <1>1, <1>2
<1>4. PICK n \in U : \A m \in U : n <= m
  <2> HIDE DEF U
  <2> QED
    BY <1>3, SmallestOf
<1>5. n = 1 \/ v >= Power2[7 * (n - 1)]
  <2> SUFFICES ASSUME n # 1 PROVE v >= Power2[7 * (n - 1)]
    OBVIOUS
  <2>1. n - 1 \in 1..MAX_VARINT_LEN /\ n - 1 \notin U
    BY <1>1, <1>4
  <2>2. 7 * (n - 1) \in 0..Top
    BY <2>1, Widths
  <2>3. Power2[7 * (n - 1)] \in Nat
    BY <2>2, PowerOfTwo
  <2> QED
    BY <1>1, <2>1, <2>3
<1>6. n \in 1..MAX_VARINT_LEN /\ LengthOf(n, v)
  BY <1>4, <1>5 DEF LengthOf
<1>7. varint_len(v) = CHOOSE m \in 1..MAX_VARINT_LEN : LengthOf(m, v)
  BY Zenon DEF varint_len, LengthOf
<1> QED
  BY <1>6, <1>7

\* Each byte but the last has its high bit set, and each holds seven bits of the value.
LEMMA EncodedVarint ==
    ASSUME NEW v \in 0..(Word - 1)
    PROVE  /\ encode_varint(v) \in Bytes
           /\ Len(encode_varint(v)) = varint_len(v)
           /\ \A i \in 1..varint_len(v) :
                /\ encode_varint(v)[i] \in Byte
                /\ encode_varint(v)[i] % 128 = (v \div Power2[7 * (i - 1)]) % 128
                /\ encode_varint(v)[i] < 128 <=> i = varint_len(v)
<1> DEFINE n == varint_len(v)
           d(i) == (v \div Power2[7 * (i - 1)]) % 128
           byte(i) == d(i) + (IF i < n THEN 128 ELSE 0)
<1>1. n \in 1..MAX_VARINT_LEN /\ n \in Nat /\ v \in Nat
  BY VarintLength, Widths, WordType
<1>2. encode_varint(v) = [i \in 1..n |-> byte(i)]
  BY DEF encode_varint
<1> HIDE DEF n
<1>3. ASSUME NEW i \in 1..n PROVE d(i) \in 0..127
  <2>1. 7 * (i - 1) \in 0..Top
    BY <1>1, Widths
  <2>2. Power2[7 * (i - 1)] \in Nat \ {0}
    BY <2>1, PowerOfTwo
  <2>3. v \div Power2[7 * (i - 1)] \in Nat
    BY <1>1, <2>2, DivMod
  <2> QED
    BY <2>3
<1> HIDE DEF d
<1>4. ASSUME NEW i \in 1..n
      PROVE byte(i) \in Byte /\ byte(i) % 128 = d(i) /\ (byte(i) < 128 <=> i = n)
  <2> DEFINE x == d(i)
             y == byte(i)
  <2>1. x \in 0..127
    BY <1>3
  <2>2. (i < n /\ i # n /\ y = x + 128) \/ (i = n /\ y = x + 0)
    BY <1>1
  <2> HIDE DEF x, y
  <2>3. x % 128 = x /\ (x + 128) % 128 = x
    BY <2>1
  <2>4. y \in 0..255 /\ y % 128 = x /\ (y < 128 <=> i = n)
    BY <2>1, <2>2, <2>3
  <2> QED
    BY <2>4 DEF x, y, Byte
<1> HIDE DEF byte
<1>5. encode_varint(v) \in Bytes
  BY <1>1, <1>2, <1>4, IsASeq DEF Bytes
<1>6. Len(encode_varint(v)) = n
  BY <1>1, <1>2, <1>5
<1>7. \A i \in 1..n : encode_varint(v)[i] = byte(i)
  BY <1>2
<1> QED
  BY <1>4, <1>5, <1>6, <1>7 DEF n, d

\* What was written stands in the bytes, after the first of them.
StandsAt(written, bytes, at) ==
    /\ at + Len(written) <= Len(bytes)
    /\ \A i \in 1..Len(written) : bytes[at + i] = written[i]

LEMMA ConcatenationStands ==
    ASSUME NEW before \in Bytes, NEW written \in Bytes, NEW after \in Bytes
    PROVE  StandsAt(written, before \o written \o after, Len(before))
BY DEF StandsAt, Bytes

LEMMA SmallestIs ==
    ASSUME NEW S, S \subseteq Nat, NEW n \in S, \A m \in S : n <= m
    PROVE  Min(S) = n
<1>1. \A x \in S : (\A y \in S : x <= y) => x = n
  OBVIOUS
<1> QED
  BY <1>1 DEF Min

\* A varint is read back wherever it stands in the input: decode_varint() undoes
\* encode_varint() for every value of a word, and takes exactly the bytes it wrote.
THEOREM VarintRoundTrip ==
    ASSUME NEW v \in 0..(Word - 1), NEW bytes \in Bytes, NEW at \in Nat,
           StandsAt(encode_varint(v), bytes, at)
    PROVE  decode_varint(bytes, at) = [err |-> "ok", len |-> varint_len(v), val |-> v]
<1> DEFINE n == varint_len(v)
           last == {m \in 1..MAX_VARINT_LEN : at + m <= Len(bytes) /\ bytes[at + m] < 128}
<1>1. n \in 1..MAX_VARINT_LEN /\ n \in Nat /\ v \in Nat /\ v < Power2[7 * n] /\ v < Word
  BY VarintLength, Widths, WordType DEF LengthOf
<1> DEFINE DigitAt(i) == /\ bytes[at + i] \in Byte
                         /\ bytes[at + i] % 128 = (v \div Power2[7 * (i - 1)]) % 128
                         /\ bytes[at + i] < 128 <=> i = n
<1>2. at + n <= Len(bytes) /\ \A i \in 1..n : DigitAt(i)
  BY EncodedVarint DEF StandsAt
<1> HIDE DEF n, DigitAt
<1>3. last \subseteq Nat /\ n \in last
  <2>1. n \in 1..n /\ DigitAt(n)
    BY <1>1, <1>2
  <2>2. bytes[at + n] < 128
    BY <1>1, <2>1 DEF DigitAt
  <2> QED
    BY <1>1, <1>2, <2>2
<1>4. ASSUME NEW m \in last PROVE n <= m
  <2>1. m \in Nat /\ m >= 1 /\ bytes[at + m] < 128
    BY <1>1, Widths
  <2>2. ASSUME m \in 1..n PROVE m = n
    <3>1. DigitAt(m)
      BY <1>2, <2>2
    <3> QED
      BY <2>1, <3>1 DEF DigitAt
  <2> QED
    BY <1>1, <2>1, <2>2
<1>5. Min(last) = n
  <2> HIDE DEF last
  <2> QED
    BY <1>3, <1>4, SmallestIs
<1>6. 7 * n \in 0..Top /\ 7 * n <= Top
  BY <1>1, Widths
<1>7. Gathered(bytes, at, n, 7) = v % Power2[7 * n]
  <2>1. Naturals(bytes, at, n)
    <3>1. ASSUME NEW i \in 1..n PROVE bytes[at + i] \in Nat
      <4>1. DigitAt(i)
        BY <1>2
      <4> QED
        BY <4>1 DEF DigitAt, Byte
    <3> QED
      BY <3>1 DEF Naturals
  <2>2. HasDigits(v, bytes, at, n, 7)
    <3>1. ASSUME NEW i \in 1..n
          PROVE bytes[at + i] % Power2[7] = (v \div Power2[7 * (i - 1)]) % Power2[7]
      <4>1. DigitAt(i)
        BY <1>2
      <4> QED
        BY <4>1, SmallPowers DEF DigitAt
    <3> QED
      BY <3>1 DEF HasDigits
  <2>3. Gatherable(bytes, at, n, 7)
    BY <1>1, <1>6, <2>1 DEF Gatherable
  <2>4. v \in Nat
    BY <1>1
  <2> QED
    BY <2>2, <2>3, <2>4, GatheredDigits
<1>8. v % Power2[7 * n] = v
  <2>1. Power2[7 * n] \in Nat
    BY <1>6, PowerOfTwo
  <2> QED
    BY <1>1, <2>1, SmallRemainder
<1>9. v % Word = v
  BY <1>1, WordType, SmallRemainder
<1>10. decode_varint(bytes, at) =
         [err |-> "ok", len |-> Min(last), val |-> Gathered(bytes, at, Min(last), 7) % Word]
  <2>1. last # {}
    BY <1>3
  <2> QED
    BY <2>1 DEF decode_varint
<1> HIDE DEF last
<1> QED
  BY <1>5, <1>7, <1>8, <1>9, <1>10 DEF n

-----------------------------------------------------------------------------
(***************************************************************************)
(* Signed numbers, zigzag and fixed width                                  *)
(***************************************************************************)
Widths2 == {Half, Word}
SignedOf(width) == -(width \div 2)..((width \div 2) - 1)

LEMMA EvenWidth ==
    ASSUME NEW width \in Widths2
    PROVE  \E h \in Nat \ {0} : width = 2 * h /\ width \div 2 = h
<1>1. /\ WordBits \in 1..Top /\ HalfBits \in 1..Top
      /\ WordBits - 1 \in 0..Top /\ HalfBits - 1 \in 0..Top
  BY Widths
<1>2. /\ Word = 2 * Power2[WordBits - 1] /\ Half = 2 * Power2[HalfBits - 1]
      /\ Power2[WordBits - 1] \in Nat \ {0} /\ Power2[HalfBits - 1] \in Nat \ {0}
  BY <1>1, PowerOfTwo DEF Word, Half
<1>3. \A h \in Nat : (2 * h) \div 2 = h
  OBVIOUS
<1> QED
  BY <1>2, <1>3 DEF Widths2

\* encode_zigzag32() and encode_zigzag64() give every signed number a code of its own,
\* within the width, and the decoders undo them.
THEOREM ZigzagRoundTrip ==
    ASSUME NEW width \in Widths2, NEW v \in SignedOf(width)
    PROVE  /\ encode_zigzag(v, width) \in 0..(width - 1)
           /\ decode_zigzag(encode_zigzag(v, width)) = v
<1>1. PICK h \in Nat \ {0} : width = 2 * h /\ width \div 2 = h
  BY EvenWidth
<1>2. v \in Int /\ -h <= v /\ v <= h - 1
  BY <1>1 DEF SignedOf
<1>3. CASE v >= 0
  <2>1. encode_zigzag(v, width) = 2 * v
    BY <1>3 DEF encode_zigzag
  <2> QED
    BY <1>1, <1>2, <1>3, <2>1 DEF decode_zigzag
<1>4. CASE v < 0
  <2> DEFINE c == -2 * v - 1
  <2>1. c \in Nat /\ c < width /\ width \in Nat
    BY <1>1, <1>2, <1>4
  <2>2. c % width = c
    <3> HIDE DEF c
    <3> QED
      BY <2>1, SmallRemainder
  <2>3. encode_zigzag(v, width) = c
    BY <1>2, <1>4, <2>2 DEF encode_zigzag
  <2>4. decode_zigzag(c) = v
    BY <1>2, <1>4 DEF decode_zigzag
  <2> QED
    BY <2>1, <2>3, <2>4
<1> QED
  BY <1>2, <1>3, <1>4

\* A signed number is what is left of it in the width.
LEMMA SignedRemainder ==
    ASSUME NEW width \in Widths2, NEW v \in SignedOf(width)
    PROVE  /\ v % width \in 0..(width - 1)
           /\ v % width = IF v >= 0 THEN v ELSE v + width
           /\ Signed(v, width) = v
<1>1. PICK h \in Nat \ {0} : width = 2 * h /\ width \div 2 = h
  BY EvenWidth
<1>2. v \in Int /\ -h <= v /\ v <= h - 1
  BY <1>1 DEF SignedOf
<1> DEFINE w == IF v >= 0 THEN v ELSE v + width
<1>3. w \in Nat /\ w < width /\ width \in Nat /\ width # 0
  BY <1>1, <1>2
<1>4. v % width = w
  <2>1. CASE v >= 0
    BY <1>3, <2>1, SmallRemainder
  <2>2. CASE v < 0
    <3>1. v % width = (v + width) % width
      BY <1>2, <1>3
    <3>2. (v + width) % width = v + width
      BY <1>2, <1>3, <2>2, SmallRemainder
    <3>3. w = v + width
      BY <1>2, <2>2
    <3> HIDE DEF w
    <3> QED
      BY <3>1, <3>2, <3>3
  <2> QED
    BY <1>2, <2>1, <2>2
<1>5. Signed(v, width) = v
  BY <1>1, <1>2, <1>3, <1>4 DEF Signed
<1> QED
  BY <1>3, <1>4, <1>5

\* What is read of a signed number keeps its sign: also when it was written in a word.
LEMMA SignedOfWord ==
    ASSUME NEW v \in SignedOf(Half)
    PROVE  v % Word \in 0..(Word - 1) /\ (v % Word) % Half = v % Half
<1>1. Half \in Nat \ {0} /\ Word \in Nat \ {0} /\ Half <= Word
  BY WordType
<1>2. Word = Half * Half
  <2>1. HalfBits \in 0..Top /\ HalfBits + HalfBits <= Top /\ HalfBits + HalfBits = WordBits
    BY Widths
  <2> QED
    BY <2>1, PowersMultiply DEF Word, Half
<1>3. v \in Int /\ -Half <= v /\ v < Half
  <2>1. PICK h \in Nat \ {0} : Half = 2 * h /\ Half \div 2 = h
    BY EvenWidth DEF Widths2
  <2> QED
    BY <2>1 DEF SignedOf
<1>4. CASE v >= 0
  <2>1. v % Word = v /\ v % Half = v
    BY <1>1, <1>3, <1>4, SmallRemainder
  <2> QED
    BY <1>1, <1>3, <1>4, <2>1
<1>5. CASE v < 0
  <2>1. v % Word = v + Word /\ v % Half = v + Half
    <3>1. v % Word = (v + Word) % Word /\ v % Half = (v + Half) % Half
      BY <1>1, <1>3
    <3>2. (v + Word) % Word = v + Word /\ (v + Half) % Half = v + Half
      BY <1>1, <1>3, <1>5, SmallRemainder
    <3> QED
      BY <3>1, <3>2
  <2>2. v + Word = Half * (Half - 1) + (v + Half)
    BY <1>1, <1>2, <1>3
  <2>3. (v + Word) % Half = v + Half
    <3>1. v + Word \in Nat /\ v + Half \in Nat /\ v + Half < Half /\ Half - 1 \in Nat
      BY <1>1, <1>3, <1>5
    <3> QED
      BY <1>1, <2>2, <3>1, Quotient
  <2> QED
    BY <1>1, <1>3, <1>5, <2>1, <2>3
<1> QED
  BY <1>3, <1>4, <1>5

\* write_fixed32() and write_fixed64(): n bytes that hold a number of n bytes.
LEMMA FixedBytes ==
    ASSUME NEW n \in Nat, 8 * n <= Top, NEW v \in Nat
    PROVE  /\ little_endian(v, n) \in Bytes
           /\ Len(little_endian(v, n)) = n
           /\ \A i \in 1..n : /\ little_endian(v, n)[i] \in Byte
                             /\ little_endian(v, n)[i] = (v \div Power2[8 * (i - 1)]) % 256
<1> DEFINE byte(i) == (v \div Power2[8 * (i - 1)]) % 256
<1>1. little_endian(v, n) = [i \in 1..n |-> byte(i)]
  BY DEF little_endian
<1>2. ASSUME NEW i \in 1..n PROVE byte(i) \in Byte
  <2>1. 8 * (i - 1) \in 0..Top
    BY PlaceOfDigit
  <2>2. Power2[8 * (i - 1)] \in Nat \ {0}
    BY <2>1, PowerOfTwo
  <2>3. v \div Power2[8 * (i - 1)] \in Nat
    BY <2>2, DivMod
  <2> QED
    BY <2>3 DEF Byte
<1> HIDE DEF byte
<1>3. little_endian(v, n) \in Bytes
  BY <1>1, <1>2, IsASeq DEF Bytes
<1>4. Len(little_endian(v, n)) = n
  BY <1>1, <1>3
<1>5. \A i \in 1..n : little_endian(v, n)[i] = byte(i)
  BY <1>1
<1> QED
  BY <1>2, <1>3, <1>4, <1>5 DEF byte

LEMMA FixedIsGathered ==
    ASSUME NEW n \in Nat, 8 * n <= Top, NEW v \in Nat, v < Power2[8 * n],
           NEW bytes \in Bytes, NEW at \in Nat, StandsAt(little_endian(v, n), bytes, at)
    PROVE  Gathered(bytes, at, n, 8) = v
<1> DEFINE DigitAt(i) == /\ bytes[at + i] \in Byte
                         /\ bytes[at + i] = (v \div Power2[8 * (i - 1)]) % 256
<1>1. ASSUME NEW i \in 1..n PROVE DigitAt(i)
  <2>1. i \in 1..Len(little_endian(v, n))
    BY FixedBytes
  <2>2. bytes[at + i] = little_endian(v, n)[i]
    BY <2>1 DEF StandsAt
  <2>3. /\ little_endian(v, n)[i] \in Byte
        /\ little_endian(v, n)[i] = (v \div Power2[8 * (i - 1)]) % 256
    BY FixedBytes
  <2> QED
    BY <2>2, <2>3
<1> HIDE DEF DigitAt
<1>2. ASSUME NEW i \in 1..n
      PROVE /\ bytes[at + i] \in Nat
            /\ bytes[at + i] % Power2[8] = (v \div Power2[8 * (i - 1)]) % Power2[8]
  <2>1. DigitAt(i)
    BY <1>1
  <2>2. bytes[at + i] \in 0..255 /\ bytes[at + i] = (v \div Power2[8 * (i - 1)]) % 256
    BY <2>1 DEF DigitAt, Byte
  <2>3. bytes[at + i] % 256 = bytes[at + i]
    BY <2>2
  <2> QED
    BY <2>2, <2>3, SmallPowers
<1>3. Gathered(bytes, at, n, 8) = v % Power2[8 * n]
  <2>1. Naturals(bytes, at, n)
    BY <1>2 DEF Naturals
  <2>2. HasDigits(v, bytes, at, n, 8)
    BY <1>2 DEF HasDigits
  <2>3. Gatherable(bytes, at, n, 8)
    BY <2>1 DEF Gatherable
  <2> QED
    BY <2>2, <2>3, GatheredDigits
<1>4. 8 * n \in 0..Top
  BY Widths
<1>5. Power2[8 * n] \in Nat
  BY <1>4, PowerOfTwo
<1> QED
  BY <1>3, <1>5, SmallRemainder

-----------------------------------------------------------------------------
(***************************************************************************)
(* The reader                                                              *)
(***************************************************************************)
LimitSets == [max_bytes : Nat, max_fields : Nat, max_depth : Nat,
              max_length_delimited : Nat, max_string_len : Nat, max_unknown_bytes : Nat]

\* "ok", and the ways to fail of the operations on one value.
ErrorNames == {"ok", "eof", "varint_too_long", "max_bytes", "invalid_tag", "max_fields",
               "max_length_delimited", "length", "max_string_len", "utf8", "depth",
               "max_unknown_bytes", "wire_type"}

IsReader(r) ==
    r \in [buf : Bytes, pos : Nat, depth : Nat, fields : Nat, read : Nat,
           limits : LimitSets, err : ErrorNames, val : {r.val}]

\* The reader s is the reader r, n bytes on, with what it read there.
After(r, n, v, s) ==
    /\ IsReader(s) /\ s.err = "ok" /\ s.val = v
    /\ s.buf = r.buf /\ s.limits = r.limits /\ s.depth = r.depth /\ s.fields = r.fields
    /\ s.pos = r.pos + n /\ s.read = r.read + n

Readable(r, written) ==
    /\ IsReader(r) /\ r.err = "ok" /\ StandsAt(written, r.buf, r.pos)
    /\ r.read + Len(written) <= r.limits.max_bytes

LEMMA ReaderTypes ==
    ASSUME NEW r, IsReader(r)
    PROVE  /\ r.buf \in Bytes /\ Len(r.buf) \in Nat /\ r.pos \in Nat /\ r.read \in Nat
           /\ r.fields \in Nat /\ r.limits.max_bytes \in Nat /\ r.limits.max_fields \in Nat
           /\ r.limits.max_length_delimited \in Nat /\ r.limits.max_string_len \in Nat
BY DEF IsReader, LimitSets, Bytes

LEMMA Advanced ==
    ASSUME NEW r, IsReader(r), r.err = "ok", NEW n \in Nat, NEW v,
           r.pos + n <= Len(r.buf), r.read + n <= r.limits.max_bytes
    PROVE  After(r, n, v, advance(r, n, v))
<1> DEFINE s == [r EXCEPT !.pos = @ + n, !.read = @ + n, !.val = v]
<1>1. Len(r.buf) \in Nat /\ r.limits.max_bytes \in Nat /\ r.pos \in Nat /\ r.read \in Nat
  BY DEF IsReader, LimitSets, Bytes
<1>2. advance(r, n, v) = s
  BY <1>1 DEF advance
<1>3. /\ s.err = "ok" /\ s.val = v /\ s.buf = r.buf /\ s.limits = r.limits
      /\ s.depth = r.depth /\ s.fields = r.fields /\ s.pos = r.pos + n /\ s.read = r.read + n
  BY DEF IsReader
<1>4. IsReader(s)
  <2> DEFINE p == r.pos + n
             q == r.read + n
             t == [r EXCEPT !.pos = p, !.read = q, !.val = v]
  <2>1. p \in Nat /\ q \in Nat
    BY <1>1
  <2> HIDE DEF p, q
  <2>2. t \in [buf : Bytes, pos : Nat, depth : Nat, fields : Nat, read : Nat,
               limits : LimitSets, err : ErrorNames, val : {v}]
    BY <2>1 DEF IsReader
  <2>3. t.val = v
    BY <2>2
  <2>4. IsReader(t)
    BY <2>2, <2>3 DEF IsReader
  <2> QED
    BY <2>4 DEF p, q
<1> QED
  BY <1>2, <1>3, <1>4 DEF After

LEMMA Returned ==
    ASSUME NEW r, NEW n, NEW v, NEW s, After(r, n, v, s), NEW w
    PROVE  After(r, n, w, Return(s, w))
<1> DEFINE t == [s EXCEPT !.val = w]
<1>1. /\ t.err = s.err /\ t.val = w /\ t.buf = s.buf /\ t.limits = s.limits
      /\ t.depth = s.depth /\ t.fields = s.fields /\ t.pos = s.pos /\ t.read = s.read
  BY DEF IsReader, After
<1>2. IsReader(t)
  BY <1>1 DEF IsReader, After
<1> QED
  BY <1>1, <1>2 DEF Return, After

\* Two reads, one after the other.
LEMMA AfterAfter ==
    ASSUME NEW r, IsReader(r), NEW n \in Nat, NEW v, NEW s, After(r, n, v, s),
           NEW m \in Nat, NEW w, NEW t, After(s, m, w, t)
    PROVE  After(r, n + m, w, t)
<1>1. r.pos \in Nat /\ r.read \in Nat
  BY DEF IsReader
<1> QED
  BY <1>1 DEF After

\* A varint is read, whatever stands before and after it.
LEMMA VarintIsRead ==
    ASSUME NEW r, NEW v \in 0..(Word - 1), Readable(r, encode_varint(v))
    PROVE  After(r, varint_len(v), v, read_varint(r))
<1>1. /\ IsReader(r) /\ r.err = "ok" /\ r.buf \in Bytes /\ r.pos \in Nat
      /\ StandsAt(encode_varint(v), r.buf, r.pos)
  BY DEF Readable, IsReader
<1>2. decode_varint(r.buf, r.pos) = [err |-> "ok", len |-> varint_len(v), val |-> v]
  BY <1>1, VarintRoundTrip
<1>3. Len(encode_varint(v)) = varint_len(v) /\ varint_len(v) \in Nat
  BY EncodedVarint, VarintLength, Widths
<1>4. r.pos + varint_len(v) <= Len(r.buf) /\ r.read + varint_len(v) <= r.limits.max_bytes
  BY <1>3 DEF Readable, StandsAt
<1>5. After(r, varint_len(v), v, advance(r, varint_len(v), v))
  BY <1>1, <1>3, <1>4, Advanced
<1> QED
  BY <1>2, <1>5 DEF read_varint, Decoded

LEMMA FixedIsRead ==
    ASSUME NEW r, NEW n \in Nat, 8 * n <= Top, NEW v \in Nat, v < Power2[8 * n],
           Readable(r, little_endian(v, n))
    PROVE  After(r, n, v, read_fixed(r, n))
<1>1. /\ IsReader(r) /\ r.err = "ok" /\ r.buf \in Bytes /\ r.pos \in Nat
      /\ StandsAt(little_endian(v, n), r.buf, r.pos)
  BY DEF Readable, IsReader
<1>2. Gathered(r.buf, r.pos, n, 8) = v
  BY <1>1, FixedIsGathered
<1>3. Len(little_endian(v, n)) = n
  BY FixedBytes
<1>4. r.pos + n <= Len(r.buf) /\ r.read + n <= r.limits.max_bytes
  BY <1>3 DEF Readable, StandsAt
<1>5. After(r, n, v, advance(r, n, v))
  BY <1>1, <1>4, Advanced
<1>6. ~(r.pos + n > Len(r.buf))
  <2>1. Len(r.buf) \in Nat
    BY <1>1 DEF Bytes
  <2> QED
    BY <1>1, <1>4, <2>1
<1> QED
  BY <1>2, <1>5, <1>6 DEF read_fixed

LEMMA StandingParts ==
    ASSUME NEW x \in Bytes, NEW y \in Bytes, NEW bytes \in Bytes, NEW at \in Nat,
           StandsAt(x \o y, bytes, at)
    PROVE  StandsAt(x, bytes, at) /\ StandsAt(y, bytes, at + Len(x))
<1>1. Len(x) \in Nat /\ Len(y) \in Nat /\ Len(bytes) \in Nat /\ Len(x \o y) = Len(x) + Len(y)
  BY DEF Bytes
<1>2. \A i \in 1..Len(x \o y) : bytes[at + i] = (x \o y)[i]
  BY DEF StandsAt
<1>3. ASSUME NEW i \in 1..Len(x) PROVE bytes[at + i] = x[i]
  <2>1. i \in 1..Len(x \o y) /\ (x \o y)[i] = x[i]
    BY <1>1 DEF Bytes
  <2> QED
    BY <1>2, <2>1
<1>4. ASSUME NEW i \in 1..Len(y) PROVE bytes[at + Len(x) + i] = y[i]
  <2>1. Len(x) + i \in 1..Len(x \o y) /\ (x \o y)[Len(x) + i] = y[i]
    BY <1>1 DEF Bytes
  <2>2. bytes[at + (Len(x) + i)] = (x \o y)[Len(x) + i]
    BY <1>2, <2>1
  <2> QED
    BY <1>1, <2>1, <2>2
<1>5. at + Len(x) + Len(y) <= Len(bytes) /\ at + Len(x) <= Len(bytes)
  BY <1>1 DEF StandsAt
<1> QED
  BY <1>3, <1>4, <1>5 DEF StandsAt

LEMMA StandingIsSubSeq ==
    ASSUME NEW w \in Bytes, NEW bytes \in Bytes, NEW at \in Nat, StandsAt(w, bytes, at)
    PROVE  SubSeq(bytes, at + 1, at + Len(w)) = w
<1> DEFINE n == Len(w)
           b == SubSeq(bytes, at + 1, at + n)
<1>1. n \in Nat /\ Len(bytes) \in Nat /\ at + n <= Len(bytes)
  BY DEF Bytes, StandsAt
<1>2. b \in Seq(Byte) /\ Len(b) = n /\ \A i \in 1..n : b[i] = bytes[at + i]
  <2>1. at + 1 \in 1..(Len(bytes) + 1) /\ at + n \in at..Len(bytes)
    BY <1>1
  <2>2. /\ SubSeq(bytes, at + 1, at + n) \in Seq(Byte)
        /\ Len(SubSeq(bytes, at + 1, at + n)) = n
        /\ \A i \in 1..n : SubSeq(bytes, at + 1, at + n)[i] = bytes[at + i]
    BY <1>1, <2>1 DEF Bytes
  <2> QED
    BY <2>2
<1>3. ASSUME NEW i \in 1..n PROVE b[i] = w[i]
  <2>1. b[i] = bytes[at + i]
    BY <1>2
  <2>2. bytes[at + i] = w[i]
    BY DEF StandsAt
  <2> QED
    BY <2>1, <2>2
<1> HIDE DEF b
<1>4. b = w
  BY <1>2, <1>3, SeqEqual DEF Bytes
<1> QED
  BY <1>4 DEF b

LEMMA PrefixedBytes ==
    ASSUME NEW body \in Bytes, Len(body) < Word
    PROVE  /\ Len(body) \in 0..(Word - 1)
           /\ encode_varint(Len(body)) \in Bytes
           /\ write_length_delimited(body) \in Bytes
           /\ Len(write_length_delimited(body)) = varint_len(Len(body)) + Len(body)
<1>1. Len(body) \in 0..(Word - 1) /\ Len(body) \in Nat
  BY WordType DEF Bytes
<1>2. encode_varint(Len(body)) \in Bytes /\ Len(encode_varint(Len(body))) = varint_len(Len(body))
  BY <1>1, EncodedVarint
<1> QED
  BY <1>1, <1>2 DEF write_length_delimited, Bytes

\* Bytes with their length before them are read, when their length is within its limit.
LEMMA BytesAreRead ==
    ASSUME NEW r, NEW body \in Bytes, Len(body) < Word,
           Readable(r, write_length_delimited(body)),
           Len(body) <= r.limits.max_length_delimited
    PROVE  After(r, Len(write_length_delimited(body)), body, read_length_delimited(r))
<1> DEFINE n == Len(body)
           k == varint_len(n)
           s == read_varint(r)
           t == advance(s, n, body)
<1>1. /\ IsReader(r) /\ r.err = "ok" /\ r.buf \in Bytes /\ r.pos \in Nat /\ r.read \in Nat
      /\ r.limits.max_bytes \in Nat /\ r.limits.max_length_delimited \in Nat
  BY DEF Readable, IsReader, LimitSets
<1>2. /\ n \in 0..(Word - 1) /\ n \in Nat /\ k \in Nat /\ encode_varint(n) \in Bytes
      /\ Len(encode_varint(n)) = k /\ Len(write_length_delimited(body)) = k + n
  BY PrefixedBytes, EncodedVarint, VarintLength, Widths, WordType
<1>3. StandsAt(encode_varint(n), r.buf, r.pos) /\ StandsAt(body, r.buf, r.pos + k)
  BY <1>1, <1>2, StandingParts DEF Readable, write_length_delimited
<1>4. r.read + k + n <= r.limits.max_bytes /\ r.read + k <= r.limits.max_bytes
  BY <1>1, <1>2 DEF Readable
<1>5. After(r, k, n, s)
  <2>1. Readable(r, encode_varint(n))
    BY <1>1, <1>2, <1>3, <1>4 DEF Readable
  <2> QED
    BY <1>2, <2>1, VarintIsRead
<1> HIDE DEF s
<1>6. /\ IsReader(s) /\ s.err = "ok" /\ s.val = n /\ s.buf = r.buf /\ s.limits = r.limits
      /\ s.pos = r.pos + k /\ s.read = r.read + k
  BY <1>5 DEF After
<1>7. s.pos + n <= Len(s.buf) /\ s.read + n <= s.limits.max_bytes
  BY <1>3, <1>4, <1>6 DEF StandsAt
<1>8. After(s, n, body, t)
  BY <1>2, <1>6, <1>7, Advanced
<1>9. SubSeq(s.buf, s.pos + 1, s.pos + s.val) = body
  <2> DEFINE at == r.pos + k
             buf == r.buf
  <2>1. at \in Nat /\ buf \in Bytes /\ StandsAt(body, buf, at)
    BY <1>1, <1>2, <1>3
  <2>2. s.buf = buf /\ s.pos = at /\ s.val = n
    BY <1>6
  <2> HIDE DEF at, buf, k
  <2>3. SubSeq(buf, at + 1, at + Len(body)) = body
    BY <2>1, StandingIsSubSeq
  <2> QED
    BY <2>2, <2>3
<1>10. read_length_delimited(r) = t
  <2>1. ~(s.val > s.limits.max_length_delimited) /\ ~(s.pos + s.val > Len(s.buf))
    <3>1. Len(s.buf) \in Nat /\ s.pos \in Nat /\ s.limits.max_length_delimited \in Nat
      BY <1>6, ReaderTypes
    <3>2. s.val = n /\ n \in Nat /\ n <= s.limits.max_length_delimited
      BY <1>2, <1>6
    <3> HIDE DEF n
    <3> QED
      BY <1>7, <3>1, <3>2
  <2> HIDE DEF n
  <2> QED
    BY <1>6, <1>9, <2>1 DEF read_length_delimited, Then, s
<1> HIDE DEF t
<1>11. After(r, k + n, body, t)
  BY <1>1, <1>2, <1>5, <1>8, AfterAfter
<1> QED
  BY <1>2, <1>10, <1>11

-----------------------------------------------------------------------------
(***************************************************************************)
(* Scalars                                                                 *)
(***************************************************************************)
ValuesOf(t) ==
    CASE t \in {"int32", "sint32", "sfixed32", "enum"} -> SignedOf(Half)
      [] t \in {"int64", "sint64", "sfixed64"} -> SignedOf(Word)
      [] t \in {"uint32", "fixed32", "float"} -> 0..(Half - 1)
      [] t \in {"uint64", "fixed64", "double"} -> 0..(Word - 1)
      [] t = "bool" -> {0, 1}

VarintTypes == ScalarTypes \ (Fixed32Types \cup Fixed64Types)

\* The number that a scalar of these types is on the wire, and what is made of it again.
AsVarint(t, v) ==
    CASE t = "sint32" -> encode_zigzag(Signed(v, Half), Half)
      [] t = "sint64" -> encode_zigzag(v, Word)
      [] OTHER -> v % Word

FromWire(t, x) ==
    CASE t \in {"int32", "enum", "sfixed32"} -> Signed(x, Half)
      [] t \in {"int64", "sfixed64"} -> Signed(x, Word)
      [] t = "uint32" -> x % Half
      [] t = "sint32" -> decode_zigzag(x % Half)
      [] t = "sint64" -> decode_zigzag(x)
      [] t = "bool" -> IF x # 0 THEN 1 ELSE 0
      [] OTHER -> x

\* Signed() only looks at what is left in the width.
LEMMA SignedTwice ==
    ASSUME NEW width \in Widths2, NEW v \in SignedOf(width), NEW x, x % width = v % width
    PROVE  Signed(x, width) = v
BY SignedRemainder DEF Signed

LEMMA SmallIsItself ==
    ASSUME NEW width \in Widths2, NEW v \in 0..(width - 1)
    PROVE  v \in Nat /\ v < width /\ v % width = v
<1>1. width \in Nat
  BY WordType DEF Widths2
<1> QED
  BY <1>1, SmallRemainder

LEMMA VarintOfScalar ==
    ASSUME NEW t \in VarintTypes, NEW v \in ValuesOf(t)
    PROVE  AsVarint(t, v) \in 0..(Word - 1) /\ FromWire(t, AsVarint(t, v)) = v
<1>0. /\ Half \in Nat \ {0} /\ Word \in Nat \ {0} /\ Half <= Word /\ 256 <= Half
      /\ Half \in Widths2 /\ Word \in Widths2
  BY WordType DEF Widths2
<1>1. CASE t \in {"int32", "enum"}
  <2>1. v \in SignedOf(Half) /\ AsVarint(t, v) = v % Word
    BY <1>1 DEF ValuesOf, AsVarint
  <2>2. v % Word \in 0..(Word - 1) /\ (v % Word) % Half = v % Half
    BY <2>1, SignedOfWord
  <2>3. Signed(v % Word, Half) = v
    BY <1>0, <2>1, <2>2, SignedTwice
  <2> QED
    BY <1>1, <2>1, <2>2, <2>3 DEF FromWire
<1>2. CASE t = "int64"
  <2>1. v \in SignedOf(Word) /\ AsVarint(t, v) = v % Word
    BY <1>2 DEF ValuesOf, AsVarint
  <2>2. v % Word \in 0..(Word - 1)
    BY <1>0, <2>1, SignedRemainder
  <2>3. (v % Word) % Word = v % Word
    BY <1>0, <2>2, SmallIsItself
  <2>4. Signed(v % Word, Word) = v
    BY <1>0, <2>1, <2>3, SignedTwice
  <2> QED
    BY <1>2, <2>1, <2>2, <2>4 DEF FromWire
<1>3. CASE t = "uint32"
  <2>1. v \in 0..(Half - 1) /\ AsVarint(t, v) = v % Word
    BY <1>3 DEF ValuesOf, AsVarint
  <2>2. v \in 0..(Word - 1)
    BY <1>0, <2>1
  <2>3. v % Word = v /\ v % Half = v
    BY <1>0, <2>1, <2>2, SmallIsItself
  <2> QED
    BY <1>3, <2>1, <2>2, <2>3 DEF FromWire
<1>4. CASE t = "uint64"
  <2>1. v \in 0..(Word - 1) /\ AsVarint(t, v) = v % Word
    BY <1>4 DEF ValuesOf, AsVarint
  <2>2. v % Word = v
    BY <1>0, <2>1, SmallIsItself
  <2> QED
    BY <1>4, <2>1, <2>2 DEF FromWire
<1>5. CASE t = "sint32"
  <2>1. v \in SignedOf(Half) /\ AsVarint(t, v) = encode_zigzag(Signed(v, Half), Half)
    BY <1>5 DEF ValuesOf, AsVarint
  <2>2. Signed(v, Half) = v
    BY <1>0, <2>1, SignedRemainder
  <2>3. /\ encode_zigzag(v, Half) \in 0..(Half - 1)
        /\ decode_zigzag(encode_zigzag(v, Half)) = v
    BY <1>0, <2>1, ZigzagRoundTrip
  <2>4. encode_zigzag(v, Half) % Half = encode_zigzag(v, Half)
    BY <1>0, <2>3, SmallIsItself
  <2>5. encode_zigzag(v, Half) \in 0..(Word - 1)
    BY <1>0, <2>3
  <2> QED
    BY <1>5, <2>1, <2>2, <2>3, <2>4, <2>5 DEF FromWire
<1>6. CASE t = "sint64"
  <2>1. v \in SignedOf(Word) /\ AsVarint(t, v) = encode_zigzag(v, Word)
    BY <1>6 DEF ValuesOf, AsVarint
  <2>2. /\ encode_zigzag(v, Word) \in 0..(Word - 1)
        /\ decode_zigzag(encode_zigzag(v, Word)) = v
    BY <1>0, <2>1, ZigzagRoundTrip
  <2> QED
    BY <1>6, <2>1, <2>2 DEF FromWire
<1>7. CASE t = "bool"
  <2>1. v \in {0, 1} /\ AsVarint(t, v) = v % Word
    BY <1>7 DEF ValuesOf, AsVarint
  <2>2. v \in 0..(Word - 1)
    BY <1>0, <2>1
  <2>3. v % Word = v
    BY <1>0, <2>2, SmallIsItself
  <2> QED
    BY <1>7, <2>1, <2>2, <2>3 DEF FromWire
<1>8. t \in {"int32", "enum", "int64", "uint32", "uint64", "sint32", "sint64", "bool"}
  BY DEF VarintTypes, ScalarTypes, Fixed32Types, Fixed64Types
<1> QED
  BY <1>1, <1>2, <1>3, <1>4, <1>5, <1>6, <1>7, <1>8

SizeOf(t)    == IF t \in Fixed32Types THEN HalfBits \div 8 ELSE WordBits \div 8
WidthOf(t)   == IF t \in Fixed32Types THEN Half ELSE Word
FixedTypes   == Fixed32Types \cup Fixed64Types

LEMMA FixedOfScalar ==
    ASSUME NEW t \in FixedTypes, NEW v \in ValuesOf(t)
    PROVE  /\ SizeOf(t) \in Nat /\ 8 * SizeOf(t) <= Top /\ Power2[8 * SizeOf(t)] = WidthOf(t)
           /\ v % WidthOf(t) \in Nat /\ v % WidthOf(t) < WidthOf(t)
           /\ FromWire(t, v % WidthOf(t)) = v
<1>0. /\ Half \in Nat \ {0} /\ Word \in Nat \ {0} /\ Half \in Widths2 /\ Word \in Widths2
  BY WordType DEF Widths2
<1>1. SizeOf(t) \in Nat /\ 8 * SizeOf(t) <= Top /\ Power2[8 * SizeOf(t)] = WidthOf(t)
  <2>1. CASE t \in Fixed32Types
    BY <2>1, Widths DEF SizeOf, WidthOf, Half
  <2>2. CASE t \notin Fixed32Types
    BY <2>2, Widths DEF SizeOf, WidthOf, Word
  <2> QED
    BY <2>1, <2>2
<1>2. CASE t = "sfixed32" \/ t = "sfixed64"
  <2>1. v \in SignedOf(WidthOf(t)) /\ WidthOf(t) \in Widths2
    BY <1>0, <1>2 DEF ValuesOf, WidthOf, Fixed32Types
  <2>2. v % WidthOf(t) \in 0..(WidthOf(t) - 1) /\ WidthOf(t) \in Nat
    BY <1>0, <2>1, SignedRemainder DEF WidthOf
  <2>3. (v % WidthOf(t)) % WidthOf(t) = v % WidthOf(t)
    BY <2>1, <2>2, SmallIsItself
  <2>4. Signed(v % WidthOf(t), WidthOf(t)) = v
    BY <2>1, <2>3, SignedTwice
  <2>5. FromWire(t, v % WidthOf(t)) = Signed(v % WidthOf(t), WidthOf(t))
    BY <1>2 DEF FromWire, WidthOf, Fixed32Types
  <2> QED
    BY <1>1, <2>2, <2>4, <2>5
<1>3. CASE t \in {"fixed32", "float", "fixed64", "double"}
  <2>1. v \in 0..(WidthOf(t) - 1) /\ WidthOf(t) \in Widths2
    BY <1>0, <1>3 DEF ValuesOf, WidthOf, Fixed32Types
  <2>2. v \in Nat /\ v < WidthOf(t) /\ v % WidthOf(t) = v
    BY <2>1, SmallIsItself
  <2>3. FromWire(t, v) = v
    BY <1>3 DEF FromWire
  <2> QED
    BY <1>1, <2>2, <2>3
<1> QED
  BY <1>2, <1>3 DEF FixedTypes, Fixed32Types, Fixed64Types

LEMMA FixedScalarIsRead ==
    ASSUME NEW t \in FixedTypes, NEW v \in ValuesOf(t), NEW r, Readable(r, encode_scalar(t, v))
    PROVE  After(r, Len(encode_scalar(t, v)), v, read_scalar(r, t))
<1> DEFINE n == SizeOf(t)
           x == v % WidthOf(t)
           s == read_fixed(r, n)
<1>1. /\ n \in Nat /\ 8 * n <= Top /\ Power2[8 * n] = WidthOf(t) /\ x \in Nat /\ x < WidthOf(t)
      /\ FromWire(t, x) = v
  BY FixedOfScalar
<1>2. encode_scalar(t, v) = little_endian(x, n)
  BY DEF encode_scalar, SizeOf, WidthOf, FixedTypes, Fixed32Types, Fixed64Types
<1>3. read_scalar(r, t) = IF s.err = "ok" THEN Return(s, FromWire(t, s.val)) ELSE s
  <2>1. CASE t \in Fixed32Types
    BY <2>1 DEF read_scalar, read_fixed32, SizeOf, Then, FromWire, Fixed32Types, Fixed64Types
  <2>2. CASE t \in Fixed64Types
    BY <2>2 DEF read_scalar, read_fixed64, SizeOf, Then, FromWire, Fixed32Types, Fixed64Types
  <2> QED
    BY <2>1, <2>2 DEF FixedTypes
<1>4. Len(little_endian(x, n)) = n
  BY <1>1, FixedBytes
<1> HIDE DEF n, x
<1>5. After(r, n, x, s)
  BY <1>1, <1>2, FixedIsRead
<1> HIDE DEF s
<1>6. s.err = "ok" /\ s.val = x
  BY <1>5 DEF After
<1>7. After(r, n, v, Return(s, v))
  BY <1>5, Returned
<1> QED
  BY <1>1, <1>2, <1>3, <1>4, <1>6, <1>7

LEMMA VarintScalarIsRead ==
    ASSUME NEW t \in VarintTypes, NEW v \in ValuesOf(t), NEW r, Readable(r, encode_scalar(t, v))
    PROVE  After(r, Len(encode_scalar(t, v)), v, read_scalar(r, t))
<1> DEFINE x == AsVarint(t, v)
           s == read_varint(r)
<1>1. x \in 0..(Word - 1) /\ FromWire(t, x) = v
  BY VarintOfScalar
<1>2. encode_scalar(t, v) = encode_varint(x)
  BY DEF encode_scalar, AsVarint, VarintTypes, ScalarTypes, Fixed32Types, Fixed64Types
<1>3. read_scalar(r, t) = IF s.err = "ok" THEN Return(s, FromWire(t, s.val)) ELSE s
  BY DEF read_scalar, Then, FromWire, VarintTypes, ScalarTypes, Fixed32Types, Fixed64Types
<1> HIDE DEF x
<1>4. Len(encode_varint(x)) = varint_len(x)
  BY <1>1, EncodedVarint
<1>5. After(r, varint_len(x), x, s)
  BY <1>1, <1>2, VarintIsRead
<1> HIDE DEF s
<1>6. s.err = "ok" /\ s.val = x
  BY <1>5 DEF After
<1>7. After(r, varint_len(x), v, Return(s, v))
  BY <1>5, Returned
<1> QED
  BY <1>1, <1>2, <1>3, <1>4, <1>6, <1>7

\* Every scalar is read back as it was written, of every type and value, wherever it
\* stands in the input, and the reader is moved by exactly the bytes that were written
\* (encode_int32() ... encode_double() and read_int32() ... read_double() of scalar.rs).
THEOREM ScalarRoundTrip ==
    ASSUME NEW t \in ScalarTypes, NEW v \in ValuesOf(t), NEW r, Readable(r, encode_scalar(t, v))
    PROVE  After(r, Len(encode_scalar(t, v)), v, read_scalar(r, t))
BY FixedScalarIsRead, VarintScalarIsRead DEF FixedTypes, VarintTypes

\* A string or a byte string within the limits of the reader is read back as it was
\* written, its length before it (read_string_owned() and read_length_delimited() of
\* reader.rs).
THEOREM BytesRoundTrip ==
    ASSUME NEW body \in Bytes, Len(body) < Word, NEW r, NEW t \in {"string", "bytes"},
           Readable(r, encode_scalar(t, body)), Len(body) <= r.limits.max_length_delimited,
           t = "string" => /\ Len(body) <= r.limits.max_string_len
                           /\ \A i \in 1..Len(body) : body[i] < 128
    PROVE  After(r, Len(encode_scalar(t, body)), body, read_scalar(r, t))
<1> DEFINE s == read_length_delimited(r)
<1>1. encode_scalar(t, body) = write_length_delimited(body)
  BY DEF encode_scalar, Fixed32Types, Fixed64Types
<1>2. After(r, Len(write_length_delimited(body)), body, s)
  BY <1>1, BytesAreRead
<1>3. read_scalar(r, t) = s
  <2>1. CASE t = "bytes"
    BY <2>1 DEF read_scalar, Fixed32Types, Fixed64Types
  <2>2. CASE t = "string"
    <3>1. /\ s.err = "ok" /\ s.val = body /\ s.limits = r.limits
          /\ r.limits.max_string_len \in Nat /\ Len(body) \in Nat
      <4>1. s.err = "ok" /\ s.val = body /\ s.limits = r.limits
        BY <1>2 DEF After
      <4>2. r.limits.max_string_len \in Nat
        BY ReaderTypes DEF Readable
      <4> QED
        BY <4>1, <4>2 DEF Bytes
    <3>2. ~(Len(body) > r.limits.max_string_len)
      BY <2>2, <3>1
    <3>3. ~\E i \in DOMAIN body : body[i] >= 128
      <4>1. DOMAIN body = 1..Len(body) /\ \A i \in 1..Len(body) : body[i] \in Byte
        BY DEF Bytes
      <4>2. ASSUME NEW i \in 1..Len(body) PROVE ~(body[i] >= 128)
        <5> DEFINE x == body[i]
        <5>1. x \in 0..255
          BY <4>1 DEF Byte
        <5>2. x < 128
          BY <2>2
        <5> HIDE DEF x
        <5>3. ~(x >= 128)
          BY <5>1, <5>2
        <5> QED
          BY <5>3 DEF x
      <4> QED
        BY <4>1, <4>2
    <3>4. read_scalar(r, t) = read_string_owned(r)
      BY <2>2 DEF read_scalar, Fixed32Types, Fixed64Types
    <3>5. read_string_owned(r) = s
      BY <3>1, <3>2, <3>3 DEF read_string_owned, Then
    <3> QED
      BY <3>4, <3>5
  <2> QED
    BY <2>1, <2>2
<1> QED
  BY <1>1, <1>2, <1>3

-----------------------------------------------------------------------------
(***************************************************************************)
(* Tags                                                                    *)
(***************************************************************************)
FieldNumbers == 1..((Half \div 8) - 1)
WireTypes    == 0..5

\* A tag fits in half a word, and number and wire type are apart in it.
LEMMA TagParts ==
    ASSUME NEW number \in FieldNumbers, NEW wire \in WireTypes
    PROVE  /\ number \in Nat /\ number # 0 /\ number < Half
           /\ (number * 8 + wire) % Half = number * 8 + wire
           /\ number * 8 + wire \in 0..(Word - 1)
           /\ ((number * 8 + wire) \div 8) % Half = number
           /\ (number * 8 + wire) % 8 = wire
           /\ (number * 8) % Half = number * 8 /\ number * 8 \in 0..(Word - 1)
<1>1. /\ Half \in Nat \ {0} /\ Word \in Nat /\ Half <= Word /\ 256 <= Half
  BY WordType
<1>2. number \in Nat /\ number # 0 /\ number <= (Half \div 8) - 1 /\ wire \in 0..5
  BY <1>1 DEF FieldNumbers, WireTypes
<1>3. number * 8 + wire < Half /\ number * 8 < Half /\ number < Half
  BY <1>1, <1>2
<1> DEFINE x == number * 8 + wire
           y == number * 8
<1>4. x \in Nat /\ y \in Nat /\ x < Half /\ y < Half
  BY <1>2, <1>3
<1>5. x \div 8 = number /\ x % 8 = wire
  BY <1>2
<1> HIDE DEF x, y
<1>6. x % Half = x /\ y % Half = y
  BY <1>1, <1>4, SmallRemainder
<1>7. number % Half = number
  BY <1>1, <1>2, <1>3, SmallRemainder
<1>8. x \in 0..(Word - 1) /\ y \in 0..(Word - 1)
  BY <1>1, <1>4
<1> QED
  BY <1>2, <1>3, <1>5, <1>6, <1>7, <1>8 DEF x, y

\* read_tag() reads the tag that encode() of wire_type.rs wrote, and counts one field.
THEOREM TagRoundTrip ==
    ASSUME NEW number \in FieldNumbers, NEW wire \in WireTypes, NEW r,
           Readable(r, encode_tag(number, wire)), r.fields < r.limits.max_fields
    PROVE  LET s == read_tag(r) n == Len(encode_tag(number, wire)) IN
           /\ IsReader(s) /\ s.err = "ok" /\ s.val = [number |-> number, wire |-> wire]
           /\ s.buf = r.buf /\ s.limits = r.limits /\ s.depth = r.depth
           /\ s.pos = r.pos + n /\ s.read = r.read + n /\ s.fields = r.fields + 1
<1> DEFINE x == number * 8 + wire
           n == Len(encode_tag(number, wire))
           s == read_varint(r)
           tag == [number |-> number, wire |-> wire]
           t == [s EXCEPT !.fields = @ + 1, !.val = tag]
<1>1. /\ number # 0 /\ x \in 0..(Word - 1) /\ (x \div 8) % Half = number /\ x % 8 = wire
      /\ encode_tag(number, wire) = encode_varint(x)
  BY TagParts DEF encode_tag
<1> HIDE DEF x
<1>2. n = varint_len(x)
  BY <1>1, EncodedVarint
<1> HIDE DEF n
<1>3. After(r, n, x, s)
  BY <1>1, <1>2, VarintIsRead
<1> HIDE DEF s
<1>4. /\ IsReader(s) /\ s.err = "ok" /\ s.val = x /\ s.buf = r.buf /\ s.limits = r.limits
      /\ s.depth = r.depth /\ s.fields = r.fields /\ s.pos = r.pos + n /\ s.read = r.read + n
  BY <1>3 DEF After
<1>5. r.fields \in Nat /\ r.limits.max_fields \in Nat
  BY DEF Readable, IsReader, LimitSets
<1>6. read_tag(r) = t
  <2>1. ~(wire \in {6, 7} \/ number = 0)
    BY <1>1 DEF WireTypes
  <2>2. ~(s.fields + 1 > s.limits.max_fields)
    BY <1>4, <1>5
  <2>3. tag.number = number /\ tag.wire = wire
    OBVIOUS
  <2> QED
    BY <1>1, <1>4, <2>1, <2>2, <2>3 DEF read_tag, Then, s
<1> HIDE DEF tag
<1>7. /\ t.err = "ok" /\ t.val = tag /\ t.buf = r.buf /\ t.limits = r.limits
      /\ t.depth = r.depth /\ t.fields = r.fields + 1 /\ t.pos = r.pos + n /\ t.read = r.read + n
  BY <1>4 DEF IsReader
<1>8. IsReader(t)
  <2> DEFINE p == s.fields + 1
             u == [s EXCEPT !.fields = p, !.val = tag]
  <2>1. p \in Nat
    BY <1>4, <1>5
  <2> HIDE DEF p
  <2>2. u \in [buf : Bytes, pos : Nat, depth : Nat, fields : Nat, read : Nat,
               limits : LimitSets, err : ErrorNames, val : {tag}]
    BY <1>4, <2>1 DEF IsReader
  <2>3. u.val = tag
    BY <2>2
  <2>4. IsReader(u)
    BY <2>2, <2>3 DEF IsReader
  <2> QED
    BY <2>4 DEF p
<1> HIDE DEF t
<1> QED
  BY <1>6, <1>7, <1>8 DEF n, tag

-----------------------------------------------------------------------------
(***************************************************************************)
(* Unknown fields                                                          *)
(***************************************************************************)
LEMMA OneLength ==
    ASSUME NEW v \in 0..(Word - 1), NEW k \in 1..MAX_VARINT_LEN, LengthOf(k, v)
    PROVE  varint_len(v) = k
<1> DEFINE n == varint_len(v)
<1>1. n \in 1..MAX_VARINT_LEN /\ LengthOf(n, v) /\ MAX_VARINT_LEN \in Nat /\ v \in Nat
  BY VarintLength, Widths, WordType
<1> HIDE DEF n
<1>2. ASSUME NEW a \in 1..MAX_VARINT_LEN, NEW b \in 1..MAX_VARINT_LEN,
             LengthOf(a, v), LengthOf(b, v), a < b
      PROVE  FALSE
  <2>1. 7 * a \in 0..Top /\ 7 * (b - 1) \in (7 * a)..Top /\ 7 * (b - 1) \in 0..Top
    BY <1>1, <1>2, Widths
  <2>2. Power2[7 * a] <= Power2[7 * (b - 1)]
    BY <2>1, PowersGrow
  <2>3. Power2[7 * a] \in Nat /\ Power2[7 * (b - 1)] \in Nat
    BY <2>1, PowerOfTwo
  <2>4. v < Power2[7 * a] /\ v >= Power2[7 * (b - 1)]
    BY <1>1, <1>2 DEF LengthOf
  <2> QED
    BY <1>1, <2>2, <2>3, <2>4
<1>3. ~(n < k) /\ ~(k < n)
  BY <1>1, <1>2
<1> QED
  BY <1>1, <1>3 DEF n

\* The wire type does not lengthen a tag: tag_len() may leave it out.
LEMMA TagLength ==
    ASSUME NEW number \in FieldNumbers, NEW wire \in WireTypes
    PROVE  tag_len(number) = Len(encode_tag(number, wire))
<1> DEFINE x == number * 8 + wire
           y == number * 8
           k == varint_len(x)
<1>1. /\ number \in Nat /\ wire \in 0..5 /\ x \in 0..(Word - 1) /\ y \in 0..(Word - 1)
      /\ encode_tag(number, wire) = encode_varint(x) /\ tag_len(number) = varint_len(y)
  BY TagParts DEF encode_tag, tag_len, WireTypes
<1>2. k \in 1..MAX_VARINT_LEN /\ LengthOf(k, x) /\ MAX_VARINT_LEN \in Nat
  BY <1>1, VarintLength, Widths
<1> HIDE DEF k
<1>3. ASSUME NEW m \in 1..MAX_VARINT_LEN PROVE y < Power2[7 * m] <=> x < Power2[7 * m]
  <2>1. 7 * m - 3 \in 0..Top /\ 3 \in 0..Top /\ 3 + (7 * m - 3) = 7 * m /\ 7 * m <= Top
    BY <1>2, Widths
  <2> DEFINE q == Power2[7 * m - 3]
  <2>2. Power2[7 * m] = 8 * q /\ q \in Nat
    <3>1. Power2[3 + (7 * m - 3)] = Power2[3] * q
      BY <2>1, PowersMultiply
    <3>2. q \in Nat
      BY <2>1, PowerOfTwo
    <3> QED
      BY <2>1, <3>1, <3>2, SmallPowers
  <2> HIDE DEF q
  <2> QED
    BY <1>1, <2>2
<1>4. LengthOf(k, y)
  <2>1. y < Power2[7 * k]
    BY <1>2, <1>3 DEF LengthOf
  <2>2. ASSUME k # 1 PROVE y >= Power2[7 * (k - 1)]
    <3>1. k - 1 \in 1..MAX_VARINT_LEN /\ 7 * (k - 1) \in 0..Top
      BY <1>2, <2>2, Widths
    <3>2. Power2[7 * (k - 1)] \in Nat /\ x >= Power2[7 * (k - 1)]
      BY <1>2, <2>2, <3>1, PowerOfTwo DEF LengthOf
    <3>3. y < Power2[7 * (k - 1)] <=> x < Power2[7 * (k - 1)]
      BY <1>3, <3>1
    <3> QED
      BY <1>1, <3>2, <3>3
  <2> QED
    BY <2>1, <2>2 DEF LengthOf
<1> HIDE DEF x, y
<1>5. varint_len(y) = k
  BY <1>1, <1>2, <1>4, OneLength
<1>6. Len(encode_varint(x)) = k
  BY <1>1, EncodedVarint DEF k
<1> QED
  BY <1>1, <1>5, <1>6

\* The values of unknown fields, by their wire types.
UnknownValues ==
    [wire : {WireType.Varint, WireType.Fixed64}, val : 0..(Word - 1)]
      \cup [wire : {WireType.Fixed32}, val : 0..(Half - 1)]
      \cup [wire : {WireType.LengthDelimited}, val : {b \in Bytes : Len(b) < Word}]

LEMMA UnknownValueParts ==
    ASSUME NEW v \in UnknownValues
    PROVE  \/ v.wire = 0 /\ v.val \in 0..(Word - 1)
           \/ v.wire = 1 /\ v.val \in 0..(Word - 1)
           \/ v.wire = 5 /\ v.val \in 0..(Half - 1)
           \/ v.wire = 2 /\ v.val \in Bytes /\ Len(v.val) < Word
BY DEF UnknownValues, WireType

\* The bytes of a fixed value, of a half word or a word.
LEMMA FixedUnknown ==
    ASSUME NEW x \in Nat
    PROVE  /\ x < Half => /\ Len(little_endian(x, HalfBits \div 8)) = HalfBits \div 8
                          /\ HalfBits \div 8 \in Nat /\ 8 * (HalfBits \div 8) <= Top
                          /\ x < Power2[8 * (HalfBits \div 8)]
           /\ x < Word => /\ Len(little_endian(x, WordBits \div 8)) = WordBits \div 8
                          /\ WordBits \div 8 \in Nat /\ 8 * (WordBits \div 8) <= Top
                          /\ x < Power2[8 * (WordBits \div 8)]
BY Widths, FixedBytes DEF Half, Word

LEMMA UnknownValueLength ==
    ASSUME NEW v \in UnknownValues
    PROVE  value_len(v) = Len(write_unknown(v))
<1>1. CASE v.wire = 0 /\ v.val \in 0..(Word - 1)
  <2>1. value_len(v) = varint_len(v.val) /\ write_unknown(v) = encode_varint(v.val)
    BY <1>1 DEF value_len, write_unknown, WireType
  <2>2. Len(encode_varint(v.val)) = varint_len(v.val)
    BY <1>1, EncodedVarint
  <2> QED
    BY <2>1, <2>2
<1>2. CASE v.wire = 1 /\ v.val \in 0..(Word - 1)
  <2>1. /\ value_len(v) = WordBits \div 8
        /\ write_unknown(v) = little_endian(v.val, WordBits \div 8)
    BY <1>2 DEF value_len, write_unknown, WireType
  <2>2. v.val \in Nat /\ v.val < Word
    BY <1>2, WordType
  <2> QED
    BY <2>1, <2>2, FixedUnknown
<1>3. CASE v.wire = 5 /\ v.val \in 0..(Half - 1)
  <2>1. /\ value_len(v) = HalfBits \div 8
        /\ write_unknown(v) = little_endian(v.val, HalfBits \div 8)
    BY <1>3 DEF value_len, write_unknown, WireType
  <2>2. v.val \in Nat /\ v.val < Half
    BY <1>3, WordType
  <2> QED
    BY <2>1, <2>2, FixedUnknown
<1>4. CASE v.wire = 2 /\ v.val \in Bytes /\ Len(v.val) < Word
  <2>1. /\ value_len(v) = varint_len(Len(v.val)) + Len(v.val)
        /\ write_unknown(v) = write_length_delimited(v.val)
    BY <1>4 DEF value_len, write_unknown, WireType
  <2> QED
    BY <1>4, <2>1, PrefixedBytes
<1> QED
  BY <1>1, <1>2, <1>3, <1>4, UnknownValueParts

\* insert() adds to the running length exactly what the field takes when it is written
\* again, its tag with its value (tag_len() and value_len() of unknown.rs).
THEOREM UnknownLengthIsExact ==
    ASSUME NEW number \in FieldNumbers, NEW v \in UnknownValues, NEW set, set.total_len \in Nat
    PROVE  insert_unknown(set, number, v).total_len =
             set.total_len + Len(encode_tag(number, v.wire)) + Len(write_unknown(v))
<1>1. v.wire \in WireTypes
  BY UnknownValueParts DEF WireTypes
<1>2. tag_len(number) = Len(encode_tag(number, v.wire))
  BY <1>1, TagLength
<1> QED
  BY <1>2, UnknownValueLength DEF insert_unknown

\* store() takes from the input the value that write_value() wrote, unless the limit on
\* unknown bytes is passed: then the field is refused.
THEOREM UnknownRoundTrip ==
    ASSUME NEW number \in FieldNumbers, NEW v \in UnknownValues, NEW set, NEW r,
           Readable(r, write_unknown(v)),
           v.wire = 2 => Len(v.val) <= r.limits.max_length_delimited
    PROVE  LET s     == store_unknown(r, [number |-> number, wire |-> v.wire], set)
               grown == insert_unknown(set, number, v)
           IN  IF grown.total_len > r.limits.max_unknown_bytes
               THEN s.err = "max_unknown_bytes"
               ELSE After(r, Len(write_unknown(v)), grown, s)
<1> DEFINE tag == [number |-> number, wire |-> v.wire]
           grown == insert_unknown(set, number, v)
           Kept(s) == LET g == insert_unknown(set, tag.number, [wire |-> tag.wire, val |-> s.val]) IN
                      IF g.total_len > s.limits.max_unknown_bytes
                      THEN Failed(s, "max_unknown_bytes") ELSE Return(s, g)
           n == Len(write_unknown(v))
           Outcome == IF grown.total_len > r.limits.max_unknown_bytes
                      THEN store_unknown(r, tag, set).err = "max_unknown_bytes"
                      ELSE After(r, n, grown, store_unknown(r, tag, set))
<1>1. v = [wire |-> v.wire, val |-> v.val]
  BY DEF UnknownValues
<1>2. ASSUME NEW s, After(r, n, v.val, s), store_unknown(r, tag, set) = Kept(s)
      PROVE  Outcome
  <2>1. s.val = v.val /\ s.limits = r.limits /\ IsReader(s)
    BY <1>2 DEF After
  <2>2. Kept(s) = IF grown.total_len > r.limits.max_unknown_bytes
                  THEN Failed(s, "max_unknown_bytes") ELSE Return(s, grown)
    BY <1>1, <2>1
  <2>3. Failed(s, "max_unknown_bytes").err = "max_unknown_bytes"
    BY <2>1 DEF Failed, IsReader
  <2>4. After(r, n, grown, Return(s, grown))
    BY <1>2, Returned
  <2> HIDE DEF grown, Kept
  <2> QED
    BY <1>2, <2>2, <2>3, <2>4
<1>3. ASSUME v.wire = 0 /\ v.val \in 0..(Word - 1) PROVE Outcome
  <2> DEFINE s == read_varint(r)
  <2>1. write_unknown(v) = encode_varint(v.val) /\ Len(encode_varint(v.val)) = varint_len(v.val)
    BY <1>3, EncodedVarint DEF write_unknown, WireType
  <2>2. After(r, n, v.val, s)
    BY <1>3, <2>1, VarintIsRead
  <2>3. s.err = "ok"
    BY <2>2 DEF After
  <2>4. store_unknown(r, tag, set) = Kept(s)
    BY <1>3, <2>3 DEF store_unknown, Then, WireType
  <2> QED
    BY <1>2, <2>2, <2>4
<1>4. ASSUME v.wire = 1 /\ v.val \in 0..(Word - 1) PROVE Outcome
  <2> DEFINE s == read_fixed64(r)
  <2>0. v.val \in Nat /\ v.val < Word
    BY <1>4, WordType
  <2>1. write_unknown(v) = little_endian(v.val, WordBits \div 8)
    BY <1>4 DEF write_unknown, WireType
  <2>2. After(r, n, v.val, s)
    BY <2>0, <2>1, FixedUnknown, FixedIsRead DEF read_fixed64
  <2>3. s.err = "ok"
    BY <2>2 DEF After
  <2>4. store_unknown(r, tag, set) = Kept(s)
    BY <1>4, <2>3 DEF store_unknown, Then, WireType
  <2> QED
    BY <1>2, <2>2, <2>4
<1>5. ASSUME v.wire = 5 /\ v.val \in 0..(Half - 1) PROVE Outcome
  <2> DEFINE s == read_fixed32(r)
  <2>0. v.val \in Nat /\ v.val < Half
    BY <1>5, WordType
  <2>1. write_unknown(v) = little_endian(v.val, HalfBits \div 8)
    BY <1>5 DEF write_unknown, WireType
  <2>2. After(r, n, v.val, s)
    BY <2>0, <2>1, FixedUnknown, FixedIsRead DEF read_fixed32
  <2>3. s.err = "ok"
    BY <2>2 DEF After
  <2>4. store_unknown(r, tag, set) = Kept(s)
    BY <1>5, <2>3 DEF store_unknown, Then, WireType
  <2> QED
    BY <1>2, <2>2, <2>4
<1>6. ASSUME v.wire = 2 /\ v.val \in Bytes /\ Len(v.val) < Word PROVE Outcome
  <2> DEFINE s == read_length_delimited(r)
  <2>1. write_unknown(v) = write_length_delimited(v.val)
    BY <1>6 DEF write_unknown, WireType
  <2>2. After(r, n, v.val, s)
    BY <1>6, <2>1, BytesAreRead
  <2>3. s.err = "ok"
    BY <2>2 DEF After
  <2>4. store_unknown(r, tag, set) = Kept(s)
    BY <1>6, <2>3 DEF store_unknown, Then, WireType
  <2> QED
    BY <1>2, <2>2, <2>4
<1> HIDE DEF Outcome
<1>7. Outcome
  BY <1>3, <1>4, <1>5, <1>6, UnknownValueParts
<1> QED
  BY <1>7 DEF Outcome

-----------------------------------------------------------------------------
(***************************************************************************)
(* Reading any input: within the bounds, and on                            *)
(***************************************************************************)
InBounds(r) ==
    r.pos <= Len(r.buf) /\ r.read <= r.limits.max_bytes /\ r.fields <= r.limits.max_fields

\* From r the reader came to s, within the bounds, and counted every byte it passed.
Reads(r, s) ==
    /\ IsReader(s) /\ InBounds(s)
    /\ s.buf = r.buf /\ s.limits = r.limits /\ s.depth = r.depth
    /\ s.pos >= r.pos /\ s.read = r.read + (s.pos - r.pos)

LEMMA ReadsOn ==
    ASSUME NEW r, IsReader(r), NEW s, Reads(r, s), NEW t, Reads(s, t)
    PROVE  Reads(r, t)
<1>1. IsReader(s) /\ IsReader(t)
  BY DEF Reads
<1>2. r.pos \in Nat /\ r.read \in Nat /\ s.pos \in Nat /\ s.read \in Nat /\ t.pos \in Nat
  BY <1>1, ReaderTypes
<1>3. t.buf = r.buf /\ t.limits = r.limits /\ t.depth = r.depth
  BY DEF Reads
<1>4. t.pos >= r.pos /\ t.read = r.read + (t.pos - r.pos)
  BY <1>2 DEF Reads
<1> QED
  BY <1>3, <1>4 DEF Reads

LEMMA ReadsAndFails ==
    ASSUME NEW r, NEW s, Reads(r, s), NEW e \in ErrorNames
    PROVE  Reads(r, Failed(s, e)) /\ Failed(s, e).err = e
<1> DEFINE t == [s EXCEPT !.err = e]
<1>1. /\ t.err = e /\ t.val = s.val /\ t.buf = s.buf /\ t.limits = s.limits
      /\ t.depth = s.depth /\ t.fields = s.fields /\ t.pos = s.pos /\ t.read = s.read
  BY DEF IsReader, Reads
<1>2. IsReader(t)
  BY <1>1 DEF IsReader, Reads
<1>3. InBounds(t)
  BY <1>1 DEF InBounds, Reads
<1> QED
  BY <1>1, <1>2, <1>3 DEF Failed, Reads

LEMMA ReadsAndReturns ==
    ASSUME NEW r, NEW s, Reads(r, s), NEW v
    PROVE  Reads(r, Return(s, v)) /\ Return(s, v).err = s.err /\ Return(s, v).pos = s.pos
<1> DEFINE t == [s EXCEPT !.val = v]
<1>1. /\ t.err = s.err /\ t.val = v /\ t.buf = s.buf /\ t.limits = s.limits
      /\ t.depth = s.depth /\ t.fields = s.fields /\ t.pos = s.pos /\ t.read = s.read
  BY DEF IsReader, Reads
<1>2. IsReader(t)
  BY <1>1 DEF IsReader, Reads
<1>3. InBounds(t)
  BY <1>1 DEF InBounds, Reads
<1> QED
  BY <1>1, <1>2, <1>3 DEF Return, Reads

LEMMA ReadsNothing ==
    ASSUME NEW r, IsReader(r), InBounds(r)
    PROVE  Reads(r, r)
BY ReaderTypes DEF Reads

LEMMA ReadsToFailure ==
    ASSUME NEW r, IsReader(r), InBounds(r), NEW e \in ErrorNames, e # "ok"
    PROVE  Reads(r, Failed(r, e)) /\ Failed(r, e).err # "ok"
<1>1. Reads(r, r)
  BY ReadsNothing
<1>2. Reads(r, Failed(r, e)) /\ Failed(r, e).err = e
  BY <1>1, ReadsAndFails
<1> QED
  BY <1>2

LEMMA ReadsByAdvance ==
    ASSUME NEW r, IsReader(r), InBounds(r), r.err = "ok", NEW n \in Nat, NEW v
    PROVE  /\ Reads(r, advance(r, n, v))
           /\ advance(r, n, v).err = "ok" =>
                advance(r, n, v).pos = r.pos + n /\ advance(r, n, v).val = v
<1> DEFINE s == advance(r, n, v)
<1> SUFFICES Reads(r, s) /\ (s.err = "ok" => s.pos = r.pos + n /\ s.val = v)
  OBVIOUS
<1>1. /\ r.pos \in Nat /\ r.read \in Nat /\ r.fields \in Nat /\ Len(r.buf) \in Nat
      /\ r.limits.max_bytes \in Nat
  BY ReaderTypes
<1>2. CASE r.pos + n > Len(r.buf)
  <2>1. s = Failed(r, "eof")
    BY <1>2 DEF advance
  <2> DEFINE e == "eof"
  <2>2. e \in ErrorNames /\ e # "ok"
    BY DEF ErrorNames
  <2> HIDE DEF e
  <2>3. Reads(r, Failed(r, e)) /\ Failed(r, e).err # "ok"
    BY <2>2, ReadsToFailure
  <2>4. s = Failed(r, e)
    BY <2>1 DEF e
  <2> HIDE DEF s
  <2> QED
    BY <2>3, <2>4
<1>3. CASE ~(r.pos + n > Len(r.buf)) /\ r.read + n > r.limits.max_bytes
  <2>1. s = Failed(r, "max_bytes")
    BY <1>3 DEF advance
  <2> DEFINE e == "max_bytes"
  <2>2. e \in ErrorNames /\ e # "ok"
    BY DEF ErrorNames
  <2> HIDE DEF e
  <2>3. Reads(r, Failed(r, e)) /\ Failed(r, e).err # "ok"
    BY <2>2, ReadsToFailure
  <2>4. s = Failed(r, e)
    BY <2>1 DEF e
  <2> HIDE DEF s
  <2> QED
    BY <2>3, <2>4
<1>4. CASE r.pos + n <= Len(r.buf) /\ r.read + n <= r.limits.max_bytes
  <2>1. After(r, n, v, s)
    BY <1>4, Advanced
  <2> HIDE DEF s
  <2>2. InBounds(s)
    BY <1>4, <2>1 DEF After, InBounds
  <2>3. s.pos >= r.pos /\ s.read = r.read + (s.pos - r.pos)
    BY <1>1, <2>1 DEF After
  <2>4. Reads(r, s)
    BY <2>1, <2>2, <2>3 DEF After, Reads
  <2> QED
    BY <2>1, <2>4 DEF After
<1> QED
  BY <1>1, <1>2, <1>3, <1>4

IsDecoded(d) ==
    /\ d.err \in ErrorNames
    /\ d.err = "ok" => d.len \in Nat /\ d.len >= 1 /\ d.val \in 0..(Word - 1)

\* Whatever the bytes are, what is decoded is a word, of bytes that are there.
LEMMA DecodedVarint ==
    ASSUME NEW bytes \in Bytes, NEW start \in Nat
    PROVE  IsDecoded(decode_varint(bytes, start))
<1> DEFINE last == {m \in 1..MAX_VARINT_LEN : start + m <= Len(bytes) /\ bytes[start + m] < 128}
           n == Min(last)
           d == decode_varint(bytes, start)
<1>1. MAX_VARINT_LEN \in Nat /\ Len(bytes) \in Nat /\ Word \in Nat \ {0}
  BY Widths, WordType DEF Bytes
<1>2. CASE last # {}
  <2>1. last \subseteq Nat
    BY <1>1
  <2>2. PICK m \in last : \A k \in last : m <= k
    <3> HIDE DEF last
    <3> QED
      BY <1>2, <2>1, SmallestOf
  <2>3. n = m
    <3> HIDE DEF last
    <3> QED
      BY <2>1, <2>2, SmallestIs
  <2>4. m \in 1..MAX_VARINT_LEN /\ m \in Nat /\ start + m <= Len(bytes)
    BY <1>1, <2>2
  <2>5. Gathered(bytes, start, m, 7) \in Nat
    <3>1. ASSUME NEW i \in 1..m PROVE bytes[start + i] \in Nat
      <4>1. start + i \in 1..Len(bytes)
        BY <1>1, <2>4
      <4> DEFINE b == bytes[start + i]
      <4>2. b \in Byte
        BY <4>1 DEF Bytes
      <4> HIDE DEF b
      <4>3. b \in Nat
        BY <4>2 DEF Byte
      <4> QED
        BY <4>3 DEF b
    <3>2. Naturals(bytes, start, m)
      BY <3>1 DEF Naturals
    <3>3. 7 * m <= Top
      BY <2>4, Widths
    <3> QED
      BY <2>4, <3>2, <3>3, GatheredType
  <2>6. Gathered(bytes, start, m, 7) % Word \in 0..(Word - 1)
    BY <1>1, <2>5, DivMod
  <2>7. d = [err |-> "ok", len |-> m, val |-> Gathered(bytes, start, m, 7) % Word]
    <3> HIDE DEF n
    <3>1. d = [err |-> "ok", len |-> n, val |-> Gathered(bytes, start, n, 7) % Word]
      BY <1>2 DEF decode_varint, n
    <3> QED
      BY <2>3, <3>1
  <2> HIDE DEF d
  <2>8. d.err = "ok" /\ d.len = m /\ d.val \in 0..(Word - 1)
    BY <2>6, <2>7
  <2>9. d.err \in ErrorNames /\ d.len \in Nat /\ d.len >= 1
    BY <2>4, <2>8 DEF ErrorNames
  <2>10. IsDecoded(d)
    BY <2>8, <2>9 DEF IsDecoded
  <2> QED
    BY <2>10 DEF d
<1>3. CASE last = {}
  <2>1. d.err \in {"eof", "varint_too_long"}
    BY <1>3 DEF decode_varint
  <2> HIDE DEF d
  <2>2. d.err \in ErrorNames /\ d.err # "ok"
    BY <2>1 DEF ErrorNames
  <2>3. IsDecoded(d)
    BY <2>2 DEF IsDecoded
  <2> QED
    BY <2>3 DEF d
<1> QED
  BY <1>2, <1>3

LEMMA ReadsVarint ==
    ASSUME NEW r, IsReader(r), InBounds(r), r.err = "ok"
    PROVE  /\ Reads(r, read_varint(r))
           /\ read_varint(r).err = "ok" =>
                read_varint(r).pos > r.pos /\ read_varint(r).val \in 0..(Word - 1)
<1> DEFINE d == decode_varint(r.buf, r.pos)
           s == read_varint(r)
<1> SUFFICES Reads(r, s) /\ (s.err = "ok" => s.pos > r.pos /\ s.val \in 0..(Word - 1))
  OBVIOUS
<1>1. r.buf \in Bytes /\ r.pos \in Nat
  BY ReaderTypes
<1>2. d.err \in ErrorNames /\ (d.err = "ok" => d.len \in Nat /\ d.len >= 1 /\ d.val \in 0..(Word - 1))
  BY <1>1, DecodedVarint DEF IsDecoded
<1>3. s = IF d.err = "ok" THEN advance(r, d.len, d.val) ELSE Failed(r, d.err)
  BY DEF read_varint, Decoded
<1> HIDE DEF d, s
<1>4. CASE d.err = "ok"
  <2>1. s = advance(r, d.len, d.val)
    BY <1>3, <1>4
  <2>2. Reads(r, s) /\ (s.err = "ok" => s.pos = r.pos + d.len /\ s.val = d.val)
    BY <1>2, <1>4, <2>1, ReadsByAdvance
  <2> QED
    BY <1>1, <1>2, <1>4, <2>2
<1>5. CASE d.err # "ok"
  <2>1. Reads(r, Failed(r, d.err)) /\ Failed(r, d.err).err = d.err
    BY <1>2, ReadsNothing, ReadsAndFails
  <2> QED
    BY <1>3, <1>5, <2>1
<1> QED
  BY <1>4, <1>5

\* A slice of a byte string.
LEMMA BytesWithin ==
    ASSUME NEW bytes \in Bytes, NEW p \in Nat, NEW n \in Nat, p + n <= Len(bytes)
    PROVE  SubSeq(bytes, p + 1, p + n) \in Bytes /\ Len(SubSeq(bytes, p + 1, p + n)) = n
<1> DEFINE w == SubSeq(bytes, p + 1, p + n)
<1>1. p + 1 \in 1..(Len(bytes) + 1) /\ p + n \in p..Len(bytes)
  BY DEF Bytes
<1>2. w \in Seq(Byte) /\ Len(w) = n
  BY <1>1 DEF Bytes
<1> QED
  BY <1>2 DEF Bytes

\* What a reader that read a length has to do with the bytes that follow.
LEMMA ReadsLengthDelimited ==
    ASSUME NEW r, IsReader(r), InBounds(r), r.err = "ok"
    PROVE  /\ Reads(r, read_length_delimited(r))
           /\ read_length_delimited(r).err = "ok" =>
                /\ read_length_delimited(r).pos > r.pos
                /\ read_length_delimited(r).val \in Bytes
                /\ Len(read_length_delimited(r).val) <= r.limits.max_length_delimited
<1> DEFINE s == read_varint(r)
           t == read_length_delimited(r)
           body == SubSeq(s.buf, s.pos + 1, s.pos + s.val)
           Outcome == /\ Reads(r, t)
                      /\ t.err = "ok" => /\ t.pos > r.pos /\ t.val \in Bytes
                                         /\ Len(t.val) <= r.limits.max_length_delimited
<1> SUFFICES Outcome
  OBVIOUS
<1>1. Reads(r, s) /\ (s.err = "ok" => s.pos > r.pos /\ s.val \in 0..(Word - 1))
  BY ReadsVarint
<1>2. t = IF s.err = "ok"
          THEN IF s.val > s.limits.max_length_delimited THEN Failed(s, "max_length_delimited")
               ELSE IF s.pos + s.val > Len(s.buf) THEN Failed(s, "length")
               ELSE advance(s, s.val, body)
          ELSE s
  BY DEF read_length_delimited, Then
<1>3. IsReader(s) /\ InBounds(s) /\ s.limits = r.limits
  BY <1>1 DEF Reads
<1>4. /\ s.pos \in Nat /\ r.pos \in Nat /\ s.buf \in Bytes /\ Len(s.buf) \in Nat
      /\ r.limits.max_length_delimited \in Nat
  BY <1>3, ReaderTypes
<1> HIDE DEF s, t, body
<1>5. ASSUME s.err # "ok" PROVE Outcome
  BY <1>1, <1>2, <1>5
<1>6. ASSUME NEW e \in ErrorNames, e # "ok", t = Failed(s, e) PROVE Outcome
  <2>1. Reads(r, Failed(s, e)) /\ Failed(s, e).err = e
    BY <1>1, ReadsAndFails
  <2> QED
    BY <1>6, <2>1
<1>7. ASSUME s.err = "ok", s.val > s.limits.max_length_delimited PROVE Outcome
  <2> DEFINE e == "max_length_delimited"
  <2>1. e \in ErrorNames /\ e # "ok" /\ t = Failed(s, e)
    BY <1>2, <1>7 DEF ErrorNames
  <2> HIDE DEF e, Outcome
  <2> QED
    BY <1>6, <2>1
<1>8. ASSUME s.err = "ok", ~(s.val > s.limits.max_length_delimited), s.pos + s.val > Len(s.buf)
      PROVE  Outcome
  <2> DEFINE e == "length"
  <2>1. e \in ErrorNames /\ e # "ok" /\ t = Failed(s, e)
    BY <1>2, <1>8 DEF ErrorNames
  <2> HIDE DEF e, Outcome
  <2> QED
    BY <1>6, <2>1
<1>9. ASSUME s.err = "ok", ~(s.val > s.limits.max_length_delimited), ~(s.pos + s.val > Len(s.buf))
      PROVE  Outcome
  <2>1. s.val \in Nat /\ s.val <= r.limits.max_length_delimited /\ s.pos + s.val <= Len(s.buf)
    BY <1>1, <1>3, <1>4, <1>9, WordType
  <2>2. t = advance(s, s.val, body)
    BY <1>2, <1>9
  <2>3. Reads(s, t) /\ (t.err = "ok" => t.pos = s.pos + s.val /\ t.val = body)
    BY <1>3, <1>9, <2>1, <2>2, ReadsByAdvance
  <2>4. Reads(r, t)
    BY <1>1, <2>3, ReadsOn
  <2>5. body \in Bytes /\ Len(body) = s.val
    <3> DEFINE p == s.pos
               n == s.val
    <3>1. p \in Nat /\ n \in Nat /\ p + n <= Len(s.buf) /\ s.buf \in Bytes
      BY <1>4, <2>1
    <3> HIDE DEF p, n
    <3>2. /\ SubSeq(s.buf, p + 1, p + n) \in Bytes
          /\ Len(SubSeq(s.buf, p + 1, p + n)) = n
      BY <3>1, BytesWithin
    <3> QED
      BY <3>2 DEF p, n, body
  <2> QED
    BY <1>1, <1>4, <1>9, <2>1, <2>3, <2>4, <2>5
<1> QED
  BY <1>5, <1>7, <1>8, <1>9

\* What is gathered of n digits is below the power of n digits.
LEMMA GatheredBelow ==
    ASSUME NEW bytes, NEW start \in Nat, NEW n \in Nat, NEW bits \in {7, 8},
           bits * n <= Top, Naturals(bytes, start, n)
    PROVE  Gathered(bytes, start, n, bits) \in 0..(Power2[bits * n] - 1)
<1>1. PICK sum \in [0..n -> Nat] :
        Gathered(bytes, start, n, bits) = sum[n] /\ IsSum(sum, bytes, start, n, bits)
  BY GatheredSum
<1> DEFINE T == {i \in 0..n : sum[i] < Power2[bits * i]}
<1>2. 0 \in T
  <2>1. bits * 0 = 0 /\ Power2[0] = 1
    BY PowerOfTwo
  <2> QED
    BY <1>1, <2>1 DEF IsSum
<1>3. ASSUME NEW i \in 1..n, i - 1 \in T PROVE i \in T
  <2>0. /\ bits \in 0..Top /\ bits * (i - 1) \in 0..Top /\ bits * i \in 0..Top
        /\ bits + bits * (i - 1) = bits * i
    BY PlaceOfDigit
  <2>1. bits \in 0..Top /\ bits * (i - 1) \in 0..Top /\ bits + bits * (i - 1) = bits * i
        /\ bits * i <= Top
    BY <2>0, Widths
  <2> DEFINE N == Power2[bits * (i - 1)]
             B == Power2[bits]
             b == bytes[start + i]
             d == b % B
             a == sum[i - 1]
  <2>2. N \in Nat \ {0} /\ B \in Nat \ {0} /\ Power2[bits * i] = B * N
    BY <2>1, PowerOfTwo, PowersMultiply
  <2>3. a \in Nat /\ a < N
    BY <1>1, <1>3
  <2>4. sum[i] = a + d * N
    BY <1>1 DEF Digit, IsSum
  <2>5. b \in Nat
    BY DEF Naturals
  <2> HIDE DEF N, B, b, a
  <2>6. d \in 0..(B - 1)
    BY <2>2, <2>5, DivMod
  <2> HIDE DEF d
  <2>7. d \in Nat /\ B - 1 - d \in Nat
    BY <2>2, <2>6
  <2>8. (B - 1 - d) * N \in Nat
    BY <2>2, <2>7, Products
  <2>9. B * N = (B - 1 - d) * N + d * N + N
    BY <2>2, <2>7
  <2> DEFINE y == (B - 1 - d) * N
             z == d * N
             M == B * N
  <2>10. z \in Nat
    BY <2>2, <2>7, Products
  <2>11. y \in Nat /\ M = y + z + N /\ N \in Nat
    BY <2>2, <2>8, <2>9
  <2> HIDE DEF y, z, M
  <2>12. a + z < M
    BY <2>3, <2>10, <2>11
  <2> QED
    BY <2>2, <2>4, <2>12 DEF z, M
<1> HIDE DEF T
<1>4. 0..n \subseteq T
  BY <1>2, <1>3, InductionUpTo
<1>5. sum[n] \in Nat /\ sum[n] < Power2[bits * n]
  BY <1>1, <1>4 DEF T
<1>6. bits * n \in 0..Top
  BY Widths
<1>7. Power2[bits * n] \in Nat
  BY <1>6, PowerOfTwo
<1> QED
  BY <1>1, <1>5, <1>7

\* What Signed() and decode_zigzag() make of any number, or of any number in the width.
LEMMA SignedType ==
    ASSUME NEW width \in Widths2, NEW x \in Nat
    PROVE  Signed(x, width) \in SignedOf(width)
<1>1. PICK h \in Nat \ {0} : width = 2 * h /\ width \div 2 = h
  BY EvenWidth
<1> DEFINE m == x % width
<1>2. m \in 0..(width - 1)
  <2>1. width \in Nat \ {0}
    BY <1>1
  <2> QED
    BY <2>1, DivMod
<1>3. Signed(x, width) = IF m >= width \div 2 THEN m - width ELSE m
  BY DEF Signed
<1> HIDE DEF m
<1> QED
  BY <1>1, <1>2, <1>3 DEF SignedOf

LEMMA UnzigzagType ==
    ASSUME NEW width \in Widths2, NEW x \in 0..(width - 1)
    PROVE  decode_zigzag(x) \in SignedOf(width)
<1>1. PICK h \in Nat \ {0} : width = 2 * h /\ width \div 2 = h
  BY EvenWidth
<1>2. x \in Nat /\ x < 2 * h
  BY <1>1
<1>3. decode_zigzag(x) \in Int /\ -h <= decode_zigzag(x) /\ decode_zigzag(x) <= h - 1
  <2>1. CASE x % 2 = 0
    <3>1. decode_zigzag(x) = x \div 2
      BY <2>1 DEF decode_zigzag
    <3>2. x \div 2 \in Nat /\ x = 2 * (x \div 2) + (x % 2)
      BY <1>2, DivMod
    <3> QED
      BY <1>1, <1>2, <2>1, <3>1, <3>2
  <2>2. CASE x % 2 # 0
    <3>1. decode_zigzag(x) = -((x + 1) \div 2)
      BY <2>2 DEF decode_zigzag
    <3> DEFINE y == x + 1
               q == y \div 2
    <3>2. y \in Nat /\ y <= 2 * h
      BY <1>1, <1>2
    <3> HIDE DEF y
    <3>3. q \in Nat /\ y % 2 \in 0..1 /\ y = 2 * q + (y % 2)
      BY <3>2, DivMod
    <3> HIDE DEF q
    <3>4. q <= h
      BY <1>1, <3>2, <3>3
    <3>5. decode_zigzag(x) = -q
      BY <3>1 DEF q, y
    <3> QED
      BY <1>1, <3>3, <3>4, <3>5
  <2> QED
    BY <2>1, <2>2
<1> QED
  BY <1>1, <1>3 DEF SignedOf

\* Any number that fits in the bytes of a scalar makes a value of its type.
LEMMA ScalarOfNumber ==
    ASSUME NEW t \in ScalarTypes, NEW x \in 0..(WidthOf(t) - 1)
    PROVE  FromWire(t, x) \in ValuesOf(t)
<1>0. /\ Half \in Nat \ {0} /\ Word \in Nat \ {0} /\ Half \in Widths2 /\ Word \in Widths2
      /\ x \in Nat
  BY WordType DEF Widths2, WidthOf
<1>1. CASE t \in {"int32", "enum", "sfixed32"}
  BY <1>0, <1>1, SignedType DEF FromWire, ValuesOf
<1>2. CASE t \in {"int64", "sfixed64"}
  BY <1>0, <1>2, SignedType DEF FromWire, ValuesOf
<1>3. CASE t = "uint32"
  <2>1. x % Half \in 0..(Half - 1)
    BY <1>0, DivMod
  <2> QED
    BY <1>3, <2>1 DEF FromWire, ValuesOf
<1>4. CASE t = "sint32"
  <2>1. x % Half \in 0..(Half - 1)
    BY <1>0, DivMod
  <2>2. decode_zigzag(x % Half) \in SignedOf(Half)
    BY <1>0, <2>1, UnzigzagType
  <2> QED
    BY <1>4, <2>2 DEF FromWire, ValuesOf
<1>5. CASE t = "sint64"
  <2>1. x \in 0..(Word - 1)
    BY <1>5 DEF WidthOf, Fixed32Types
  <2>2. decode_zigzag(x) \in SignedOf(Word)
    BY <1>0, <2>1, UnzigzagType
  <2> QED
    BY <1>5, <2>2 DEF FromWire, ValuesOf
<1>6. CASE t = "bool"
  BY <1>6 DEF FromWire, ValuesOf
<1>7. CASE t \in {"uint64", "fixed64", "double"}
  BY <1>7 DEF FromWire, ValuesOf, WidthOf, Fixed32Types
<1>8. CASE t \in {"fixed32", "float"}
  BY <1>8 DEF FromWire, ValuesOf, WidthOf, Fixed32Types
<1> QED
  BY <1>1, <1>2, <1>3, <1>4, <1>5, <1>6, <1>7, <1>8 DEF ScalarTypes

\* A tag that was read is one more field of the input.
LEMMA ReadsTag ==
    ASSUME NEW r, IsReader(r), InBounds(r), r.err = "ok"
    PROVE  /\ Reads(r, read_tag(r))
           /\ read_tag(r).err = "ok" =>
                read_tag(r).pos > r.pos /\ read_tag(r).fields = read_varint(r).fields + 1
<1> DEFINE s == read_varint(r)
           t == read_tag(r)
           tag == [number |-> (s.val \div 8) % Half, wire |-> s.val % 8]
           refused == tag.wire \in {6, 7} \/ tag.number = 0
           counted == [s EXCEPT !.fields = @ + 1, !.val = tag]
           Outcome == Reads(r, t) /\ (t.err = "ok" => t.pos > r.pos /\ t.fields = s.fields + 1)
<1> SUFFICES Outcome
  OBVIOUS
<1>1. Reads(r, s) /\ (s.err = "ok" => s.pos > r.pos)
  BY ReadsVarint
<1>2. t = IF s.err = "ok"
          THEN IF refused THEN Failed(s, "invalid_tag")
               ELSE IF s.fields + 1 > s.limits.max_fields THEN Failed(s, "max_fields")
               ELSE counted
          ELSE s
  BY DEF read_tag, Then
<1>3. IsReader(s) /\ InBounds(s)
  BY <1>1 DEF Reads
<1>4. s.fields \in Nat /\ s.limits.max_fields \in Nat
  BY <1>3, ReaderTypes
<1> HIDE DEF s, t, tag, refused
<1>5. ASSUME s.err # "ok" PROVE Outcome
  BY <1>1, <1>2, <1>5
<1>6. ASSUME NEW e \in ErrorNames, e # "ok", t = Failed(s, e) PROVE Outcome
  <2>1. Reads(r, Failed(s, e)) /\ Failed(s, e).err = e
    BY <1>1, ReadsAndFails
  <2> QED
    BY <1>6, <2>1
<1>7. ASSUME s.err = "ok", refused PROVE Outcome
  <2> DEFINE e == "invalid_tag"
  <2>1. e \in ErrorNames /\ e # "ok" /\ t = Failed(s, e)
    BY <1>2, <1>7 DEF ErrorNames
  <2> HIDE DEF e, Outcome
  <2> QED
    BY <1>6, <2>1
<1>8. ASSUME s.err = "ok", ~refused, s.fields + 1 > s.limits.max_fields PROVE Outcome
  <2> DEFINE e == "max_fields"
  <2>1. e \in ErrorNames /\ e # "ok" /\ t = Failed(s, e)
    BY <1>2, <1>8 DEF ErrorNames
  <2> HIDE DEF e, Outcome
  <2> QED
    BY <1>6, <2>1
<1>9. ASSUME s.err = "ok", ~refused, ~(s.fields + 1 > s.limits.max_fields) PROVE Outcome
  <2>1. t = counted
    BY <1>2, <1>9
  <2> DEFINE p == s.fields + 1
             u == [s EXCEPT !.fields = p, !.val = tag]
  <2>2. p \in Nat /\ p <= s.limits.max_fields
    BY <1>4, <1>9
  <2>3. t = u
    BY <2>1
  <2> HIDE DEF p
  <2>4. u \in [buf : Bytes, pos : Nat, depth : Nat, fields : Nat, read : Nat,
               limits : LimitSets, err : ErrorNames, val : {tag}]
    BY <1>3, <2>2 DEF IsReader
  <2>5. /\ u.err = s.err /\ u.val = tag /\ u.buf = s.buf /\ u.limits = s.limits
        /\ u.depth = s.depth /\ u.fields = p /\ u.pos = s.pos /\ u.read = s.read
    BY <1>3 DEF IsReader
  <2>6. IsReader(u)
    BY <2>4, <2>5 DEF IsReader
  <2>7. InBounds(u)
    BY <1>3, <2>2, <2>5 DEF InBounds
  <2> HIDE DEF u
  <2>8. Reads(r, u)
    BY <1>1, <2>5, <2>6, <2>7 DEF Reads
  <2> QED
    BY <1>1, <1>9, <2>3, <2>5, <2>8 DEF p
<1> QED
  BY <1>5, <1>7, <1>8, <1>9

\* Reading a fixed number of bytes.
LEMMA ReadsFixed ==
    ASSUME NEW r, IsReader(r), InBounds(r), r.err = "ok", NEW n \in Nat, n >= 1, 8 * n <= Top
    PROVE  /\ Reads(r, read_fixed(r, n))
           /\ read_fixed(r, n).err = "ok" =>
                read_fixed(r, n).pos > r.pos /\ read_fixed(r, n).val \in 0..(Power2[8 * n] - 1)
<1> DEFINE t == read_fixed(r, n)
           v == Gathered(r.buf, r.pos, n, 8)
<1>1. r.pos \in Nat /\ Len(r.buf) \in Nat /\ r.buf \in Bytes
  BY ReaderTypes
<1>2. t = IF r.pos + n > Len(r.buf) THEN Failed(r, "eof") ELSE advance(r, n, v)
  BY DEF read_fixed
<1>3. ASSUME ~(r.pos + n > Len(r.buf)) PROVE v \in 0..(Power2[8 * n] - 1)
  <2>1. ASSUME NEW i \in 1..n PROVE r.buf[r.pos + i] \in Nat
    <3>1. r.pos + i \in 1..Len(r.buf)
      BY <1>1, <1>3
    <3> DEFINE b == r.buf[r.pos + i]
    <3>2. b \in Byte
      BY <1>1, <3>1 DEF Bytes
    <3> HIDE DEF b
    <3>3. b \in Nat
      BY <3>2 DEF Byte
    <3> QED
      BY <3>3 DEF b
  <2>2. Naturals(r.buf, r.pos, n)
    BY <2>1 DEF Naturals
  <2> QED
    BY <1>1, <2>2, GatheredBelow
<1> HIDE DEF t, v
<1>4. Reads(r, t) /\ (t.err = "ok" => t.pos > r.pos /\ t.val \in 0..(Power2[8 * n] - 1))
  <2>1. CASE r.pos + n > Len(r.buf)
    <3> DEFINE e == "eof"
    <3>1. e \in ErrorNames /\ e # "ok" /\ t = Failed(r, e)
      BY <1>2, <2>1 DEF ErrorNames
    <3> HIDE DEF e
    <3>2. Reads(r, Failed(r, e)) /\ Failed(r, e).err # "ok"
      BY <3>1, ReadsToFailure
    <3> QED
      BY <3>1, <3>2
  <2>2. CASE ~(r.pos + n > Len(r.buf))
    <3>1. t = advance(r, n, v)
      BY <1>2, <2>2
    <3>2. Reads(r, t) /\ (t.err = "ok" => t.pos = r.pos + n /\ t.val = v)
      BY <3>1, ReadsByAdvance
    <3> QED
      BY <1>1, <1>3, <2>2, <3>2
  <2> QED
    BY <2>1, <2>2
<1> QED
  BY <1>4 DEF t

\* A string is a byte string, within a limit of its own, or it is refused.
LEMMA ReadsString ==
    ASSUME NEW r, IsReader(r), InBounds(r), r.err = "ok"
    PROVE  /\ Reads(r, read_string_owned(r))
           /\ read_string_owned(r).err = "ok" =>
                /\ read_string_owned(r).pos > r.pos
                /\ Len(read_string_owned(r).val) <= r.limits.max_string_len
<1> DEFINE s == read_length_delimited(r)
           t == read_string_owned(r)
           wrong == \E i \in DOMAIN s.val : s.val[i] >= 128
           Outcome == Reads(r, t) /\ (t.err = "ok" => t.pos > r.pos /\ Len(t.val) <= r.limits.max_string_len)
<1> SUFFICES Outcome
  OBVIOUS
<1>1. Reads(r, s) /\ (s.err = "ok" => s.pos > r.pos /\ s.val \in Bytes)
  BY ReadsLengthDelimited
<1>2. t = IF s.err = "ok"
          THEN IF Len(s.val) > s.limits.max_string_len THEN Failed(s, "max_string_len")
               ELSE IF wrong THEN Failed(s, "utf8")
               ELSE s
          ELSE s
  BY DEF read_string_owned, Then
<1>3. s.limits = r.limits /\ r.limits.max_string_len \in Nat
  BY <1>1 DEF Reads, IsReader, LimitSets
<1> HIDE DEF s, t, wrong
<1>4. ASSUME s.err # "ok" PROVE Outcome
  BY <1>1, <1>2, <1>4
<1>5. ASSUME NEW e \in ErrorNames, e # "ok", t = Failed(s, e) PROVE Outcome
  <2>1. Reads(r, Failed(s, e)) /\ Failed(s, e).err = e
    BY <1>1, ReadsAndFails
  <2> QED
    BY <1>5, <2>1
<1>6. ASSUME s.err = "ok", Len(s.val) > s.limits.max_string_len PROVE Outcome
  <2> DEFINE e == "max_string_len"
  <2>1. e \in ErrorNames /\ e # "ok" /\ t = Failed(s, e)
    BY <1>2, <1>6 DEF ErrorNames
  <2> HIDE DEF e, Outcome
  <2> QED
    BY <1>5, <2>1
<1>7. ASSUME s.err = "ok", ~(Len(s.val) > s.limits.max_string_len), wrong PROVE Outcome
  <2> DEFINE e == "utf8"
  <2>1. e \in ErrorNames /\ e # "ok" /\ t = Failed(s, e)
    BY <1>2, <1>7 DEF ErrorNames
  <2> HIDE DEF e, Outcome
  <2> QED
    BY <1>5, <2>1
<1>8. ASSUME s.err = "ok", ~(Len(s.val) > s.limits.max_string_len), ~wrong PROVE Outcome
  <2>1. t = s
    BY <1>2, <1>8
  <2>2. Len(s.val) <= r.limits.max_string_len
    <3>1. Len(s.val) \in Nat
      BY <1>1, <1>8 DEF Bytes
    <3> QED
      BY <1>3, <1>8, <3>1
  <2> QED
    BY <1>1, <1>8, <2>1, <2>2
<1> QED
  BY <1>4, <1>6, <1>7, <1>8

\* Every scalar that is read from any input is a value of its type.
LEMMA ReadsScalar ==
    ASSUME NEW r, IsReader(r), InBounds(r), r.err = "ok", NEW t \in ScalarTypes
    PROVE  /\ Reads(r, read_scalar(r, t))
           /\ read_scalar(r, t).err = "ok" =>
                read_scalar(r, t).pos > r.pos /\ read_scalar(r, t).val \in ValuesOf(t)
<1>1. ASSUME NEW s, Reads(r, s),
             s.err = "ok" => s.pos > r.pos /\ s.val \in 0..(WidthOf(t) - 1),
             read_scalar(r, t) = IF s.err = "ok" THEN Return(s, FromWire(t, s.val)) ELSE s
      PROVE  /\ Reads(r, read_scalar(r, t))
             /\ read_scalar(r, t).err = "ok" =>
                  read_scalar(r, t).pos > r.pos /\ read_scalar(r, t).val \in ValuesOf(t)
  <2>1. CASE s.err = "ok"
    <3> DEFINE v == FromWire(t, s.val)
               u == Return(s, v)
    <3>1. v \in ValuesOf(t)
      BY <1>1, <2>1, ScalarOfNumber
    <3> HIDE DEF v
    <3>2. Reads(r, u) /\ u.err = s.err /\ u.pos = s.pos
      BY <1>1, ReadsAndReturns
    <3>3. u.val = v
      BY <1>1 DEF Return, Reads, IsReader
    <3>4. read_scalar(r, t) = u
      BY <1>1, <2>1 DEF v
    <3> HIDE DEF u
    <3> QED
      BY <1>1, <2>1, <3>1, <3>2, <3>3, <3>4
  <2>2. CASE s.err # "ok"
    BY <1>1, <2>2
  <2> QED
    BY <2>1, <2>2
<1>2. CASE t \in VarintTypes
  <2> DEFINE s == read_varint(r)
  <2>1. Reads(r, s) /\ (s.err = "ok" => s.pos > r.pos /\ s.val \in 0..(Word - 1))
    BY ReadsVarint
  <2>2. read_scalar(r, t) = IF s.err = "ok" THEN Return(s, FromWire(t, s.val)) ELSE s
    BY <1>2 DEF read_scalar, Then, FromWire, VarintTypes, ScalarTypes, Fixed32Types, Fixed64Types
  <2>3. WidthOf(t) = Word
    BY <1>2 DEF WidthOf, VarintTypes
  <2> HIDE DEF s
  <2> QED
    BY <1>1, <2>1, <2>2, <2>3
<1>3. CASE t \in FixedTypes
  <2> DEFINE n == SizeOf(t)
             s == read_fixed(r, n)
  <2>1. /\ n \in Nat /\ n >= 1 /\ 8 * n <= Top /\ Power2[8 * n] = WidthOf(t)
    <3>1. CASE t \in Fixed32Types
      BY <3>1, Widths DEF SizeOf, WidthOf, Half
    <3>2. CASE t \notin Fixed32Types
      BY <3>2, Widths DEF SizeOf, WidthOf, Word
    <3> QED
      BY <3>1, <3>2
  <2>2. read_scalar(r, t) = IF s.err = "ok" THEN Return(s, FromWire(t, s.val)) ELSE s
    <3>1. CASE t \in Fixed32Types
      BY <3>1 DEF read_scalar, read_fixed32, SizeOf, Then, FromWire, Fixed32Types, Fixed64Types
    <3>2. CASE t \in Fixed64Types
      BY <3>2 DEF read_scalar, read_fixed64, SizeOf, Then, FromWire, Fixed32Types, Fixed64Types
    <3> QED
      BY <1>3, <3>1, <3>2 DEF FixedTypes
  <2> HIDE DEF n
  <2>3. Reads(r, s) /\ (s.err = "ok" => s.pos > r.pos /\ s.val \in 0..(Power2[8 * n] - 1))
    BY <2>1, ReadsFixed
  <2> HIDE DEF s
  <2> QED
    BY <1>1, <2>1, <2>2, <2>3
<1> QED
  BY <1>2, <1>3 DEF VarintTypes, FixedTypes

\* A field that nobody knows is stored within the bounds of the reader, and never more of
\* them than max_unknown_bytes: store() refuses the one that would be.
THEOREM UnknownStaysInBounds ==
    ASSUME NEW r, IsReader(r), InBounds(r), r.err = "ok", NEW number \in FieldNumbers,
           NEW wire \in WireTypes, NEW set
    PROVE  LET t == store_unknown(r, [number |-> number, wire |-> wire], set) IN
           /\ Reads(r, t)
           /\ t.err = "ok" => t.pos > r.pos /\ ~(t.val.total_len > r.limits.max_unknown_bytes)
<1> DEFINE tag == [number |-> number, wire |-> wire]
           t == store_unknown(r, tag, set)
           Grown(s) == insert_unknown(set, number, [wire |-> wire, val |-> s.val])
           Kept(s) == IF s.err = "ok"
                      THEN IF Grown(s).total_len > s.limits.max_unknown_bytes
                           THEN Failed(s, "max_unknown_bytes") ELSE Return(s, Grown(s))
                      ELSE s
           Outcome == /\ Reads(r, t)
                      /\ t.err = "ok" => t.pos > r.pos /\ ~(t.val.total_len > r.limits.max_unknown_bytes)
<1>0. tag.number = number /\ tag.wire = wire
  OBVIOUS
<1>1. ASSUME NEW s, Reads(r, s), s.err = "ok" => s.pos > r.pos, t = Kept(s)
      PROVE  Outcome
  <2> DEFINE g == Grown(s)
  <2>1. s.limits = r.limits
    BY <1>1 DEF Reads
  <2>2. t = IF s.err = "ok"
            THEN IF g.total_len > r.limits.max_unknown_bytes
                 THEN Failed(s, "max_unknown_bytes") ELSE Return(s, g)
            ELSE s
    BY <1>1, <2>1
  <2> HIDE DEF g, t
  <2>3. ASSUME s.err = "ok", g.total_len > r.limits.max_unknown_bytes PROVE Outcome
    <3> DEFINE e == "max_unknown_bytes"
    <3>1. e \in ErrorNames /\ e # "ok" /\ t = Failed(s, e)
      BY <2>2, <2>3 DEF ErrorNames
    <3> HIDE DEF e
    <3>2. Reads(r, Failed(s, e)) /\ Failed(s, e).err = e
      BY <1>1, <3>1, ReadsAndFails
    <3> QED
      BY <3>1, <3>2
  <2>4. ASSUME s.err = "ok", ~(g.total_len > r.limits.max_unknown_bytes) PROVE Outcome
    <3>1. t = Return(s, g)
      BY <2>2, <2>4
    <3>2. Reads(r, Return(s, g)) /\ Return(s, g).pos = s.pos
      BY <1>1, ReadsAndReturns
    <3>3. Return(s, g).val = g
      BY <1>1 DEF Return, Reads, IsReader
    <3>4. t.pos = s.pos /\ t.val = g /\ Reads(r, t)
      BY <3>1, <3>2, <3>3
    <3> QED
      BY <1>1, <2>4, <3>4
  <2>5. ASSUME s.err # "ok" PROVE Outcome
    BY <1>1, <2>2, <2>5
  <2> QED
    BY <2>3, <2>4, <2>5
<1>2. ASSUME wire = 0 PROVE Outcome
  <2>1. t = Kept(read_varint(r))
    BY <1>0, <1>2 DEF store_unknown, Then, WireType
  <2>2. Reads(r, read_varint(r)) /\ (read_varint(r).err = "ok" => read_varint(r).pos > r.pos)
    BY ReadsVarint
  <2> HIDE DEF t, Kept, Outcome
  <2> QED
    BY <1>1, <2>1, <2>2
<1>3. ASSUME wire = 1 PROVE Outcome
  <2> DEFINE s == read_fixed64(r)
  <2>1. t = Kept(s)
    BY <1>0, <1>3 DEF store_unknown, Then, WireType
  <2>2. Reads(r, s) /\ (s.err = "ok" => s.pos > r.pos)
    BY Widths, ReadsFixed DEF read_fixed64
  <2> HIDE DEF s, t, Kept, Outcome
  <2> QED
    BY <1>1, <2>1, <2>2
<1>4. ASSUME wire = 5 PROVE Outcome
  <2> DEFINE s == read_fixed32(r)
  <2>1. t = Kept(s)
    BY <1>0, <1>4 DEF store_unknown, Then, WireType
  <2>2. Reads(r, s) /\ (s.err = "ok" => s.pos > r.pos)
    BY Widths, ReadsFixed DEF read_fixed32
  <2> HIDE DEF s, t, Kept, Outcome
  <2> QED
    BY <1>1, <2>1, <2>2
<1>5. ASSUME wire = 2 PROVE Outcome
  <2> DEFINE s == read_length_delimited(r)
  <2>1. t = Kept(s)
    BY <1>0, <1>5 DEF store_unknown, Then, WireType
  <2>2. Reads(r, s) /\ (s.err = "ok" => s.pos > r.pos)
    BY ReadsLengthDelimited
  <2> HIDE DEF s, t, Kept, Outcome
  <2> QED
    BY <1>1, <2>1, <2>2
<1>6. ASSUME wire \notin {0, 1, 2, 5} PROVE Outcome
  <2> DEFINE e == "wire_type"
  <2>1. e \in ErrorNames /\ e # "ok"
    BY DEF ErrorNames
  <2>2. t = Failed(r, e)
    BY <1>0, <1>6 DEF store_unknown, WireType
  <2> HIDE DEF e, t
  <2>3. Reads(r, Failed(r, e)) /\ Failed(r, e).err # "ok"
    BY <2>1, ReadsToFailure
  <2> QED
    BY <2>2, <2>3
<1> QED
  BY <1>2, <1>3, <1>4, <1>5, <1>6

\* A new reader on any bytes is within its limits.
LEMMA NewReaderInBounds ==
    ASSUME NEW bytes \in Bytes, NEW limits \in LimitSets
    PROVE  LET r == NewReader(bytes, limits) IN IsReader(r) /\ InBounds(r) /\ r.err = "ok"
<1> DEFINE r == NewReader(bytes, limits)
<1>1. r = [buf |-> bytes, pos |-> 0, depth |-> 0, fields |-> 0, read |-> 0,
           limits |-> limits, err |-> "ok", val |-> 0]
  BY DEF NewReader, ReaderOn
<1>2. limits.max_bytes \in Nat /\ limits.max_fields \in Nat /\ Len(bytes) \in Nat
  BY DEF LimitSets, Bytes
<1> HIDE DEF r
<1>3. IsReader(r)
  <2>1. "ok" \in ErrorNames /\ 0 \in Nat /\ r.val = 0
    BY <1>1 DEF ErrorNames
  <2>2. r \in [buf : Bytes, pos : Nat, depth : Nat, fields : Nat, read : Nat,
               limits : LimitSets, err : ErrorNames, val : {0}]
    BY <1>1, <2>1
  <2> QED
    BY <2>1, <2>2 DEF IsReader
<1>4. InBounds(r) /\ r.err = "ok"
  BY <1>1, <1>2 DEF InBounds
<1> QED
  BY <1>3, <1>4 DEF r

\* Whatever the input is, a value that read_varint(), read_tag(), read_length_delimited(),
\* read_string() and the readers of the scalars return was read within the input and the
\* limits: no more bytes are counted than max_bytes, no more fields than max_fields, every
\* byte that was passed is counted, and the same bytes, limits and depth are left.  What
\* succeeds has moved on, has its number within the width of its type, and its bytes
\* within max_length_delimited and max_string_len.
THEOREM ReadsStayInBounds ==
    ASSUME NEW r, IsReader(r), InBounds(r), r.err = "ok"
    PROVE  /\ Reads(r, read_varint(r))
           /\ read_varint(r).err = "ok" =>
                read_varint(r).pos > r.pos /\ read_varint(r).val \in 0..(Word - 1)
           /\ Reads(r, read_tag(r))
           /\ read_tag(r).err = "ok" => read_tag(r).pos > r.pos
           /\ Reads(r, read_length_delimited(r))
           /\ read_length_delimited(r).err = "ok" =>
                /\ read_length_delimited(r).pos > r.pos
                /\ Len(read_length_delimited(r).val) <= r.limits.max_length_delimited
           /\ Reads(r, read_string_owned(r))
           /\ read_string_owned(r).err = "ok" =>
                Len(read_string_owned(r).val) <= r.limits.max_string_len
           /\ \A t \in ScalarTypes :
                /\ Reads(r, read_scalar(r, t))
                /\ read_scalar(r, t).err = "ok" =>
                     read_scalar(r, t).pos > r.pos /\ read_scalar(r, t).val \in ValuesOf(t)
<1>1. /\ Reads(r, read_varint(r))
      /\ read_varint(r).err = "ok" =>
           read_varint(r).pos > r.pos /\ read_varint(r).val \in 0..(Word - 1)
  BY ReadsVarint
<1>2. Reads(r, read_tag(r)) /\ (read_tag(r).err = "ok" => read_tag(r).pos > r.pos)
  BY ReadsTag
<1>3. /\ Reads(r, read_length_delimited(r))
      /\ read_length_delimited(r).err = "ok" =>
           /\ read_length_delimited(r).pos > r.pos
           /\ Len(read_length_delimited(r).val) <= r.limits.max_length_delimited
  BY ReadsLengthDelimited
<1>4. /\ Reads(r, read_string_owned(r))
      /\ read_string_owned(r).err = "ok" =>
           Len(read_string_owned(r).val) <= r.limits.max_string_len
  BY ReadsString
<1>5. ASSUME NEW t \in ScalarTypes
      PROVE  /\ Reads(r, read_scalar(r, t))
             /\ read_scalar(r, t).err = "ok" =>
                  read_scalar(r, t).pos > r.pos /\ read_scalar(r, t).val \in ValuesOf(t)
  BY ReadsScalar
<1> QED
  BY <1>1, <1>2, <1>3, <1>4, <1>5
=============================================================================
