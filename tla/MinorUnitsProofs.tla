---------------------------- MODULE MinorUnitsProofs ----------------------------
(***************************************************************************)
(* Proofs about MinorUnits, for any number of decimals, machine words of   *)
(* any width and floats of any precision; each states the sizes of amounts *)
(* it holds for.                                                           *)
(***************************************************************************)
EXTENDS MinorUnits, NaturalLemmas

-----------------------------------------------------------------------------
(* Powers of ten, and digits as numbers *)

LEMMA Powers ==
  ASSUME NEW b \in Nat, b >= 1, NEW pow,
         pow = CHOOSE g : g = [n \in Nat |-> IF n = 0 THEN 1 ELSE b * g[n - 1]]
  PROVE  /\ pow[0] = 1
         /\ \A n \in Nat \ {0} : pow[n] = b * pow[n - 1]
         /\ \A n \in Nat : pow[n] \in Nat /\ pow[n] >= 1
  <1> DEFINE G == [p \in Nat \X Nat |-> b * p[2]]
             Step(f) == [n \in Nat |-> IF n = 0 THEN 1 ELSE b * f[n - 1]]
             S == {n \in Nat : pow[n] \in Nat /\ pow[n] >= 1}
  <1>1. G \in [Nat \X Nat -> Nat]
    <2>1. ASSUME NEW p \in Nat \X Nat PROVE b * p[2] \in Nat
      <3>1. p[2] \in Nat
        OBVIOUS
      <3>2. QED
        BY <3>1
    <2>2. QED
      BY <2>1
  <1>2. \A k, m \in Nat : G[<<k, m>>] = b * m
    OBVIOUS
  <1> HIDE DEF G
  <1>3. PICK f \in [Nat -> Nat] : FollowsOn(f, G, 1)
    BY <1>1, RecursionOnNat
  <1>4. ASSUME NEW k \in Nat \ {0} PROVE f[k] = b * f[k - 1]
    <2>1. k \in Nat /\ k - 1 \in Nat /\ f[k - 1] \in Nat
      OBVIOUS
    <2>2. QED
      BY <1>2, <1>3, <2>1 DEF FollowsOn
  <1>5. f = Step(f)
    <2>1. ASSUME NEW n \in Nat PROVE f[n] = IF n = 0 THEN 1 ELSE b * f[n - 1]
      BY <1>3, <1>4 DEF FollowsOn
    <2>2. f = [n \in Nat |-> f[n]]
      OBVIOUS
    <2>3. QED
      BY <2>1, <2>2
  <1>6. pow = Step(pow)
    BY <1>5
  <1>7. pow[0] = 1 /\ \A n \in Nat \ {0} : pow[n] = b * pow[n - 1]
    BY <1>6
  <1>8. 0 \in S
    BY <1>7
  <1>9. ASSUME NEW n \in Nat, n \in S PROVE n + 1 \in S
    <2>1. pow[n + 1] = b * pow[n]
      BY <1>7
    <2>2. pow[n] \in Nat /\ pow[n] >= 1
      BY <1>9
    <2>3. b * pow[n] \in Nat /\ b * pow[n] >= 1
      BY <2>2
    <2>4. QED
      BY <2>1, <2>3
  <1> HIDE DEF S
  <1>10. Nat \subseteq S
    BY <1>8, <1>9, NaturalInduction
  <1>11. QED
    BY <1>7, <1>10 DEF S

LEMMA PowersOfTen ==
  /\ Pow10[0] = 1
  /\ \A n \in Nat \ {0} : Pow10[n] = 10 * Pow10[n - 1]
  BY Powers DEF Pow10

LEMMA PowersPositive == \A n \in Nat : Pow10[n] \in Nat /\ Pow10[n] >= 1
  BY Powers DEF Pow10

LEMMA PowersOfTwo ==
  /\ Pow2[0] = 1
  /\ \A n \in Nat \ {0} : Pow2[n] = 2 * Pow2[n - 1]
  /\ \A n \in Nat : Pow2[n] \in Nat /\ Pow2[n] >= 1
  BY Powers DEF Pow2

\* The shape of an amount.
LEMMA AmountShape ==
  ASSUME NEW a \in Amounts
  PROVE  /\ a.whole \in Nat /\ a.sign \in {"", "-"} /\ a.sep \in {"", ".", ","}
         /\ Len(a.digits) \in Nat
         /\ \A i \in 1..Len(a.digits) : a.digits[i] \in Digits
  <1>1. PICK n \in 0..MaxDigits : a.digits \in [1..n -> Digits]
    BY DEF Amounts
  <1>2. n \in Nat
    BY WidthAssumption
  <1>3. Len(a.digits) = n
    BY <1>1, <1>2
  <1>4. QED
    BY <1>1, <1>2, <1>3, WidthAssumption DEF Amounts

\* Reading lists what the first i digits are worth, for every i.
Reading(t, a) ==
  /\ t \in [0..Len(a.digits) -> Nat]
  /\ t[0] = 0
  /\ \A i \in 1..Len(a.digits) : t[i] = 10 * t[i - 1] + a.digits[i]

LEMMA NumeralRead ==
  ASSUME NEW a \in Amounts
  PROVE  \E t : /\ Reading(t, a)
               /\ Numeral(a) = a.whole * Pow10[Len(a.digits)] + t[Len(a.digits)]
  <1> DEFINE L == Len(a.digits)
             G == [p \in Nat \X Nat |->
                     10 * p[2] + (IF p[1] \in 1..L THEN a.digits[p[1]] ELSE 0)]
             Step(f) == [i \in 0..L |-> IF i = 0 THEN 0 ELSE 10 * f[i - 1] + a.digits[i]]
             tail == CHOOSE f : f = Step(f)
             S == {i \in 0..L : tail[i] \in Nat}
  <1>1. Numeral(a) = a.whole * Pow10[Len(a.digits)] + tail[Len(a.digits)]
    BY DEF Numeral
  <1>2. L \in Nat /\ \A i \in 1..L : a.digits[i] \in Nat
    <2>1. Len(a.digits) \in Nat /\ \A i \in 1..Len(a.digits) : a.digits[i] \in Digits
      BY AmountShape, Zenon
    <2>2. \A d \in Digits : d \in Nat
      BY DEF Digits
    <2>3. QED
      BY <2>1, <2>2, Zenon
  <1> HIDE DEF L
  <1>3. G \in [Nat \X Nat -> Nat]
    <2>1. ASSUME NEW p \in Nat \X Nat PROVE G[p] \in Nat
      <3>1. p[1] \in Nat /\ p[2] \in Nat
        OBVIOUS
      <3>2. (IF p[1] \in 1..L THEN a.digits[p[1]] ELSE 0) \in Nat
        BY <1>2
      <3>3. QED
        BY <3>1, <3>2
    <2>2. QED
      BY <2>1
  <1>4. \A i \in 1..L, m \in Nat : G[<<i, m>>] = 10 * m + a.digits[i]
    BY <1>2
  <1> HIDE DEF G
  <1>5. PICK f \in [0..L -> Nat] : Follows(f, G, 0, L)
    BY <1>2, <1>3, RecursionExists
  <1>6. ASSUME NEW i \in 1..L PROVE f[i] = 10 * f[i - 1] + a.digits[i]
    <2>1. i - 1 \in 0..L
      BY <1>2
    <2>2. f[i - 1] \in Nat
      BY <2>1
    <2>3. QED
      BY <1>4, <1>5, <2>2 DEF Follows
  <1>7. f = Step(f)
    <2>1. ASSUME NEW i \in 0..L
          PROVE  f[i] = IF i = 0 THEN 0 ELSE 10 * f[i - 1] + a.digits[i]
      <3>1. i # 0 => i \in 1..L
        BY <1>2
      <3>2. QED
        BY <1>5, <1>6, <3>1 DEF Follows
    <2>2. f = [i \in 0..L |-> f[i]]
      OBVIOUS
    <2>3. QED
      BY <2>1, <2>2
  <1>8. tail = Step(tail)
    BY <1>7
  <1> HIDE DEF tail
  <1>9. tail[0] = 0
    BY <1>2, <1>8
  <1>10. ASSUME NEW i \in 1..L PROVE tail[i] = 10 * tail[i - 1] + a.digits[i]
    <2>1. i \in 0..L /\ i # 0
      BY <1>2
    <2>2. QED
      BY <1>8, <2>1
  <1>11. 0 \in S
    BY <1>2, <1>9
  <1>12. ASSUME NEW i \in 1..L, i - 1 \in S PROVE i \in S
    <2>1. tail[i - 1] \in Nat /\ a.digits[i] \in Nat
      BY <1>2, <1>12
    <2>2. tail[i] \in Nat
      BY <1>10, <2>1
    <2>3. i \in 0..L
      BY <1>2
    <2>4. QED
      BY <2>2, <2>3
  <1> HIDE DEF S
  <1>13. 0..L \subseteq S
    BY <1>2, <1>11, <1>12, BoundedInduction
  <1>14. \A i \in 0..L : tail[i] \in Nat
    BY <1>13 DEF S
  <1>15. DOMAIN tail = 0..L
    BY <1>8
  <1>16. tail = [i \in 0..L |-> tail[i]]
    BY <1>8
  <1>17. tail \in [0..L -> Nat]
    BY <1>14, <1>16
  <1>18. QED
    BY <1>1, <1>9, <1>10, <1>17 DEF Reading, L

\* The first two digits are the cents, exactly so if there are no others; what
\* follows them is less than a cent.
LEMMA CentsRead ==
  ASSUME NEW a \in Amounts, NEW t, Reading(t, a)
  PROVE  LET L == Len(a.digits) IN
         /\ Cents(a) \in 0..99
         /\ L <= 2 => 100 * t[L] = Pow10[L] * Cents(a)
         /\ Pow10[L] * Cents(a) <= 100 * t[L]
         /\ 100 * t[L] < Pow10[L] * (Cents(a) + 1)
  <1> DEFINE L == Len(a.digits)
             C == Cents(a)
             d1 == Digit(a, 1)
             d2 == Digit(a, 2)
             Near(i) == Pow10[i] * C <= 100 * t[i] /\ 100 * t[i] + 100 <= Pow10[i] * (C + 1)
             S == {i \in Nat : i + 2 <= L => Near(i + 2)}
  <1>1. L \in Nat /\ \A i \in 1..L : a.digits[i] \in 0..9
    <2>1. Len(a.digits) \in Nat /\ \A i \in 1..Len(a.digits) : a.digits[i] \in Digits
      BY AmountShape, Zenon
    <2>2. QED
      BY <2>1, Zenon DEF Digits
  <1>2. d1 \in 0..9 /\ d2 \in 0..9
    BY <1>1 DEF Digit
  <1>3. C = 10 * d1 + d2
    BY DEF Cents
  <1>4. (L < 1 => d1 = 0) /\ (L < 2 => d2 = 0)
    BY <1>1 DEF Digit
  <1>5. (L >= 1 => d1 = a.digits[1]) /\ (L >= 2 => d2 = a.digits[2])
    BY <1>1 DEF Digit
  <1>6. t[0] = 0 /\ \A i \in 1..L : t[i] = 10 * t[i - 1] + a.digits[i] /\ t[i - 1] \in Nat
    <2>1. ASSUME NEW i \in 1..L PROVE i - 1 \in 0..L
      BY <1>1
    <2>2. QED
      BY <2>1 DEF Reading
  <1> HIDE DEF L, C, d1, d2
  <1>7. Pow10[0] = 1 /\ Pow10[1] = 10 /\ Pow10[2] = 100
    <2>1. Pow10[1] = 10 * Pow10[1 - 1] /\ Pow10[2] = 10 * Pow10[2 - 1]
      BY PowersOfTen
    <2>2. QED
      BY <2>1, PowersOfTen
  <1>8. C \in 0..99
    BY <1>2, <1>3
  <1>9. L >= 1 => t[1] = d1
    <2>1. L >= 1 => t[1] = 10 * t[1 - 1] + a.digits[1]
      BY <1>1, <1>6
    <2>2. QED
      BY <2>1, <1>2, <1>5, <1>6
  <1>10. L >= 2 => t[2] = C
    <2>1. L >= 2 => t[2] = 10 * t[2 - 1] + a.digits[2]
      BY <1>1, <1>6
    <2>2. QED
      BY <2>1, <1>1, <1>2, <1>3, <1>5, <1>9
  <1>11. L <= 2 => 100 * t[L] = Pow10[L] * C
    <2>1. CASE L = 0
      BY <2>1, <1>3, <1>4, <1>6, <1>7
    <2>2. CASE L = 1
      BY <2>2, <1>2, <1>3, <1>4, <1>7, <1>9
    <2>3. CASE L = 2
      BY <2>3, <1>7, <1>8, <1>10
    <2>4. QED
      BY <1>1, <2>1, <2>2, <2>3
  <1>12. 0 \in S
    BY <1>7, <1>8, <1>10, <1>1
  <1>13. ASSUME NEW i \in Nat, i \in S PROVE i + 1 \in S
    <2>1. CASE i + 3 <= L
      <3> DEFINE E == Pow10[i + 2]
                 T == t[i + 2]
                 d == a.digits[i + 3]
      <3>1. i + 3 \in 1..L /\ i + 2 <= L /\ (i + 3) - 1 = i + 2 /\ i + 3 \in Nat \ {0}
        BY <2>1, <1>1
      <3>2. E * C <= 100 * T /\ 100 * T + 100 <= E * (C + 1)
        BY <1>13, <3>1
      <3>3. Pow10[i + 3] = 10 * E
        BY <3>1, PowersOfTen
      <3>4. t[i + 3] = 10 * T + d /\ T \in Nat
        BY <3>1, <1>6
      <3>5. d \in 0..9 /\ E \in Nat
        BY <3>1, <1>1, PowersPositive
      <3> HIDE DEF E, T, d
      <3>6. E * C \in Nat /\ E * (C + 1) \in Nat /\ (10 * E) * C = 10 * (E * C)
            /\ (10 * E) * (C + 1) = 10 * (E * (C + 1))
        BY <3>5, <1>8
      <3>7. (10 * E) * C <= 100 * (10 * T + d)
        BY <3>2, <3>4, <3>5, <3>6
      <3>8. 100 * (10 * T + d) + 100 <= (10 * E) * (C + 1)
        BY <3>2, <3>4, <3>5, <3>6
      <3>9. Near(i + 3)
        BY <3>3, <3>4, <3>7, <3>8
      <3>10. (i + 1) + 2 = i + 3
        OBVIOUS
      <3> HIDE DEF Near
      <3>11. QED
        BY <3>9, <3>10
    <2>2. CASE ~(i + 3 <= L)
      BY <2>2, <1>1
    <2>3. QED
      BY <2>1, <2>2
  <1> HIDE DEF S
  <1>14. Nat \subseteq S
    BY <1>12, <1>13, NaturalInduction
  <1>15. L >= 2 => Near(L)
    <2>1. L >= 2 => L - 2 \in S
      BY <1>1, <1>14
    <2>2. L >= 2 => (L - 2) + 2 = L
      BY <1>1
    <2> HIDE DEF Near
    <2>3. QED
      BY <2>1, <2>2, <1>1 DEF S
  <1>16. t[L] \in Nat /\ Pow10[L] \in Nat /\ Pow10[L] >= 1
    BY <1>1, PowersPositive DEF Reading, L
  <1>17. Pow10[L] * C <= 100 * t[L] /\ 100 * t[L] < Pow10[L] * (C + 1)
    <2> DEFINE E == Pow10[L]
    <2>1. E \in Nat /\ E >= 1
      BY <1>16
    <2> HIDE DEF E
    <2>2. E * C \in Nat /\ E * (C + 1) \in Nat /\ E * C < E * (C + 1)
      BY <2>1, <1>8
    <2>3. CASE L <= 2
      BY <2>2, <2>3, <1>11, <1>16 DEF E
    <2>4. CASE L >= 2
      <3>1. E * C <= 100 * t[L] /\ 100 * t[L] + 100 <= E * (C + 1)
        BY <2>4, <1>15 DEF E
      <3>2. \A x, y \in Nat : 100 * x + 100 <= y => 100 * x < y
        OBVIOUS
      <3>3. 100 * t[L] < E * (C + 1)
        BY <2>2, <3>1, <3>2, <1>16
      <3>4. QED
        BY <3>1, <3>3 DEF E
    <2>5. QED
      BY <1>1, <2>3, <2>4
  <1>18. QED
    BY <1>8, <1>11, <1>17 DEF L, C

\* What the digits of an amount come to: whole cents, and less than one more.
LEMMA Worth ==
  ASSUME NEW a \in Amounts
  PROVE  LET unit == Pow10[Len(a.digits)]
             cents == 100 * a.whole + Cents(a) IN
         /\ unit \in Nat /\ unit >= 1 /\ Numeral(a) \in Nat /\ Cents(a) \in 0..99
         /\ unit * cents <= 100 * Numeral(a) /\ 100 * Numeral(a) < unit * (cents + 1)
         /\ Len(a.digits) <= 2 => 100 * Numeral(a) = unit * cents
  <1> DEFINE L == Len(a.digits)
             E == Pow10[L]
             C == Cents(a)
             w == a.whole
  <1>1. PICK t : Reading(t, a) /\ Numeral(a) = w * E + t[L]
    BY NumeralRead
  <1> DEFINE T == t[L]
  <1>2. L \in Nat /\ w \in Nat
    BY AmountShape
  <1>3. E \in Nat /\ E >= 1
    BY <1>2, PowersPositive
  <1>4. T \in Nat
    BY <1>1, <1>2 DEF Reading
  <1>5. /\ C \in 0..99 /\ (L <= 2 => 100 * T = E * C)
        /\ E * C <= 100 * T /\ 100 * T < E * (C + 1)
    BY <1>1, CentsRead
  <1> HIDE DEF L, E, C, w, T
  <1>6. Numeral(a) = w * E + T
    BY <1>1 DEF T
  <1>7. w * E \in Nat /\ E * C \in Nat /\ E * (C + 1) \in Nat
    BY <1>2, <1>3, <1>5
  <1>8. /\ E * (100 * w + C) = 100 * (w * E) + E * C
        /\ E * (100 * w + C + 1) = 100 * (w * E) + E * (C + 1)
    BY <1>2, <1>3, <1>5
  <1>9. /\ E * (100 * w + C) <= 100 * (w * E + T)
        /\ 100 * (w * E + T) < E * (100 * w + C + 1)
        /\ L <= 2 => 100 * (w * E + T) = E * (100 * w + C)
    BY <1>4, <1>5, <1>7, <1>8
  <1>10. w * E + T \in Nat
    BY <1>4, <1>7
  <1>11. QED
    BY <1>3, <1>5, <1>6, <1>9, <1>10 DEF L, E, C, w

LEMMA AmountTyped ==
  ASSUME NEW a \in Amounts
  PROVE  /\ a.whole \in Nat /\ Cents(a) \in 0..99 /\ Cents(a) \in Nat
         /\ 100 * a.whole + Cents(a) \in Nat
  <1> DEFINE C == Cents(a)
             w == a.whole
  <1>1. w \in Nat
    BY AmountShape
  <1>2. C \in 0..99
    BY Worth
  <1> HIDE DEF C, w
  <1>3. C \in Nat /\ 100 * w + C \in Nat
    BY <1>1, <1>2
  <1>4. QED
    BY <1>1, <1>2, <1>3 DEF C, w

-----------------------------------------------------------------------------
(* Machine words *)

LEMMA RoomForCents ==
  ASSUME NEW w \in Nat, NEW c \in 0..99, NEW k \in Nat, 100 * (w + 1) <= k
  PROVE  /\ w * 100 + c \in -(k + 1)..k /\ w * 100 + c = 100 * w + c
         /\ 100 * w + c \in -(k + 1)..k /\ 100 * w + c + 1 \in -(k + 1)..k
  OBVIOUS

\* A number in range is itself.
LEMMA WrapInRange ==
  ASSUME NEW n \in -(MaxInt + 1)..MaxInt
  PROVE  Wrap(n) = n
  <1>1. MaxInt \in Nat
    BY WidthAssumption
  <1>2. n + MaxInt + 1 \in 0..(2 * (MaxInt + 1) - 1)
    BY <1>1
  <1>3. \A x, m \in Nat : x < m => x % m = x
    OBVIOUS
  <1>4. (n + MaxInt + 1) % (2 * (MaxInt + 1)) = n + MaxInt + 1
    BY <1>1, <1>2, <1>3
  <1>5. QED
    BY <1>1, <1>4 DEF Wrap

\* Any other is shifted into range.
LEMMA WrapTurns ==
  ASSUME NEW n \in Int
  PROVE  Wrap(n) \in -(MaxInt + 1)..MaxInt
  <1> DEFINE M == 2 * (MaxInt + 1)
             x == n + MaxInt + 1
  <1>1. MaxInt \in Nat /\ M \in Nat /\ M > 0 /\ x \in Int
    BY WidthAssumption
  <1> HIDE DEF M, x
  <1>2. x % M \in 0..(M - 1)
    BY <1>1
  <1>3. Wrap(n) = (x % M) - (MaxInt + 1) /\ M = 2 * (MaxInt + 1)
    BY DEF Wrap, M, x
  <1>4. QED
    BY <1>1, <1>2, <1>3

-----------------------------------------------------------------------------
(* Floats *)

LEMMA PowersOfTwoAdd == \A m, n \in Nat : Pow2[m + n] = Pow2[m] * Pow2[n]
  <1> SUFFICES ASSUME NEW m \in Nat PROVE \A n \in Nat : Pow2[m + n] = Pow2[m] * Pow2[n]
    OBVIOUS
  <1> DEFINE S == {n \in Nat : Pow2[m + n] = Pow2[m] * Pow2[n]}
  <1>1. 0 \in S
    BY PowersOfTwo
  <1>2. ASSUME NEW n \in Nat, n \in S PROVE n + 1 \in S
    <2> DEFINE M == Pow2[m]
               N == Pow2[n]
    <2>1. Pow2[m + (n + 1)] = 2 * Pow2[m + n] /\ Pow2[n + 1] = 2 * N
      <3>1. m + (n + 1) \in Nat \ {0} /\ (m + (n + 1)) - 1 = m + n /\ (n + 1) - 1 = n
        OBVIOUS
      <3>2. QED
        BY <3>1, PowersOfTwo
    <2>2. M \in Nat /\ N \in Nat /\ Pow2[m + n] = M * N
      BY <1>2, PowersOfTwo
    <2> HIDE DEF M, N
    <2>3. 2 * (M * N) = M * (2 * N)
      BY <2>2
    <2>4. Pow2[m + (n + 1)] = M * Pow2[n + 1]
      BY <2>1, <2>2, <2>3
    <2>5. QED
      BY <2>4 DEF M
  <1> HIDE DEF S
  <1>3. Nat \subseteq S
    BY <1>1, <1>2, NaturalInduction
  <1>4. QED
    BY <1>3 DEF S

\* RoundEven is at most half a unit away.
LEMMA RoundEvenNear ==
  ASSUME NEW n \in Nat, NEW d \in Nat, d >= 1
  PROVE  LET r == RoundEven(n, d) IN
         r \in Nat /\ 2 * (r * d - n) <= d /\ 2 * (n - r * d) <= d
  <1> DEFINE q == n \div d
             s == n % d
  <1>1. q \in Nat /\ s \in 0..(d - 1) /\ n = d * q + s
    OBVIOUS
  <1>2. RoundEven(n, d) = IF 2 * s > d \/ (2 * s = d /\ q % 2 = 1) THEN q + 1 ELSE q
    BY DEF RoundEven
  <1> HIDE DEF q, s
  <1>3. q * d = d * q /\ (q + 1) * d = d * q + d /\ d * q \in Nat
    BY <1>1
  <1>4. CASE 2 * s > d \/ (2 * s = d /\ q % 2 = 1)
    <2>1. RoundEven(n, d) = q + 1 /\ 2 * s >= d
      BY <1>1, <1>2, <1>4
    <2>2. QED
      BY <1>1, <1>3, <2>1
  <1>5. CASE ~(2 * s > d \/ (2 * s = d /\ q % 2 = 1))
    <2>1. RoundEven(n, d) = q /\ 2 * s <= d
      BY <1>1, <1>2, <1>5
    <2>2. QED
      BY <1>1, <1>3, <2>1
  <1>6. QED
    BY <1>4, <1>5

\* A float is off by at most its own size over 2^Bits.
Close(f, n, d) ==
  LET scale == Pow2[f.down] IN
  /\ f.num \in Nat /\ f.down \in Nat
  /\ Pow2[Bits] * (f.num * d - n * scale) <= n * scale
  /\ Pow2[Bits] * (n * scale - f.num * d) <= n * scale

LEMMA FloatIsClose ==
  ASSUME NEW n \in Nat, NEW d \in Nat, d >= 1, NEW f \in Float(n, d)
  PROVE  Close(f, n, d)
  <1>1. CASE n = 0
    <2>1. f = [num |-> 0, down |-> 0]
      BY <1>1 DEF Float
    <2>2. f.num = 0 /\ f.down = 0
      BY <2>1
    <2>3. Pow2[0] = 1 /\ Pow2[Bits] \in Nat
      BY PowersOfTwo, FloatAssumption
    <2>4. QED
      BY <1>1, <2>2, <2>3 DEF Close
  <1>2. CASE n # 0
    <2>1. PICK k \in Doublings(n, d), j \in Halvings(n, d) :
            f = [num |-> RoundEven(n * Pow2[k], d * Pow2[j]) * Pow2[j], down |-> k]
      BY <1>2 DEF Float
    <2> DEFINE A == Pow2[k]
               B == Pow2[j]
               H == Pow2[Bits - 1]
               r == RoundEven(n * A, d * B)
    <2>2. k \in Nat /\ j \in Nat /\ Bits \in Nat /\ Bits >= 2
      BY FloatAssumption DEF Doublings, Halvings
    <2>3. A \in Nat /\ A >= 1 /\ B \in Nat /\ B >= 1 /\ H \in Nat /\ H >= 1
      BY <2>2, PowersOfTwo
    <2>4. Pow2[Bits] = 2 * H
      BY <2>2, PowersOfTwo
    <2>5. n * A >= H * d
      BY DEF Doublings
    <2>6. f.num = r * B /\ f.down = k
      BY <2>1
    <2>7. j # 0 => n >= H * (B * d)
      <3>1. SUFFICES ASSUME j # 0 PROVE n >= H * (B * d)
        OBVIOUS
      <3> DEFINE C == Pow2[j - 1]
      <3>2. j - 1 \in 0..(j - 1) /\ j - 1 \in Nat
        BY <2>2, <3>1
      <3>3. n >= Pow2[Bits] * (C * d)
        BY <3>2 DEF Halvings
      <3>4. B = 2 * C /\ C \in Nat
        BY <2>2, <3>1, <3>2, PowersOfTwo
      <3> HIDE DEF B, C, H
      <3>5. (2 * H) * (C * d) = H * ((2 * C) * d)
        BY <2>3, <3>4
      <3>6. QED
        BY <2>4, <3>3, <3>4, <3>5
    <2> HIDE DEF A, B, H
    <2>8. n * A \in Nat /\ d * B \in Nat /\ d * B >= 1 /\ B * d = d * B
      BY <2>3
    <2>9. r \in Nat /\ 2 * (r * (d * B) - n * A) <= d * B /\ 2 * (n * A - r * (d * B)) <= d * B
      BY <2>8, RoundEvenNear
    <2> HIDE DEF r
    <2>10. H * (d * B) <= n * A
      <3>1. CASE j = 0
        <4>1. B = 1
          BY <3>1, PowersOfTwo DEF B
        <4>2. d * B = d
          BY <4>1
        <4>3. QED
          BY <2>5, <4>2
      <3>2. CASE j # 0
        <4>1. n * A >= n
          BY <2>3
        <4>2. H * (d * B) \in Nat
          BY <2>3, <2>8
        <4>3. QED
          BY <2>7, <2>8, <3>2, <4>1, <4>2
      <3>3. QED
        BY <3>1, <3>2
    <2> DEFINE x == n * A
               y == r * (d * B)
               e == d * B
    <2>11. x \in Nat /\ y \in Nat /\ e \in Nat /\ (r * B) * d = y
      BY <2>3, <2>8, <2>9
    <2>12. 2 * (y - x) <= e /\ 2 * (x - y) <= e /\ H * e <= x
      BY <2>9, <2>10
    <2> HIDE DEF x, y, e
    <2>13. \A z \in Int : 2 * z <= e => (2 * H) * z <= x
      <3>1. SUFFICES ASSUME NEW z \in Int, 2 * z <= e PROVE (2 * H) * z <= x
        OBVIOUS
      <3>2. H * (2 * z) <= H * e
        <4> DEFINE t == e - 2 * z
        <4>1. t \in Nat /\ e = 2 * z + t
          BY <2>11, <3>1
        <4> HIDE DEF t
        <4>2. H * t \in Nat /\ H * (2 * z + t) = H * (2 * z) + H * t
          BY <2>3, <4>1
        <4>3. QED
          BY <2>3, <4>1, <4>2
      <3>3. (2 * H) * z = H * (2 * z) /\ H * (2 * z) \in Int /\ H * e \in Int
        BY <2>3, <2>11
      <3>4. QED
        BY <2>11, <2>12, <3>2, <3>3
    <2>14. (2 * H) * (y - x) <= x /\ (2 * H) * (x - y) <= x
      BY <2>11, <2>12, <2>13
    <2>15. r * B \in Nat
      BY <2>3, <2>9
    <2>16. Pow2[f.down] = A /\ f.num = r * B /\ f.down \in Nat
      BY <2>2, <2>6 DEF A
    <2>17. n * A = x /\ (r * B) * d = y
      BY <2>11 DEF x
    <2>18. QED
      BY <2>4, <2>14, <2>15, <2>16, <2>17 DEF Close
  <1>3. QED
    BY <1>1, <1>2

LEMMA Quarter ==
  ASSUME NEW Q \in Nat, Q >= 1, NEW T \in Int, NEW e \in Int, (4 * Q) * e < T * Q
  PROVE  4 * e < T
  <1>1. SUFFICES ASSUME 4 * e >= T PROVE FALSE
    OBVIOUS
  <1> DEFINE t == 4 * e - T
  <1>2. t \in Nat /\ 4 * e = T + t
    BY <1>1
  <1> HIDE DEF t
  <1>3. (4 * Q) * e = (T + t) * Q
    <2>1. (4 * Q) * e = (4 * e) * Q
      OBVIOUS
    <2>2. QED
      BY <1>2, <2>1
  <1>4. (T + t) * Q = T * Q + t * Q /\ t * Q \in Nat /\ T * Q \in Int
    BY <1>2
  <1>5. QED
    BY <1>3, <1>4

\* Two roundings of a small enough number are off by less than a quarter each, and
\* the last one by at most a half: U is the amount, V its float, g the float of
\* a hundred of those and X the result, all in parts of T.
LEMMA ThreeRoundings ==
  ASSUME NEW Q \in Nat, Q >= 1, NEW T \in Nat, T >= 1,
         NEW U \in Nat, NEW V \in Nat, NEW g \in Nat, NEW X \in Int,
         U <= T * Q - T,
         (4 * Q) * (V - U) <= U, (4 * Q) * (U - V) <= U,
         (4 * Q) * (g - V) <= V, (4 * Q) * (V - g) <= V,
         2 * (X - g) <= T, 2 * (g - X) <= T
  PROVE  X - U < T /\ U - X < T
  <1> DEFINE P == T * Q
             a == (4 * Q) * (V - U)
             b == (4 * Q) * (U - V)
             c == (4 * Q) * (g - V)
             d == (4 * Q) * (V - g)
  <1>1. P \in Nat /\ a \in Int /\ b \in Int /\ c \in Int /\ d \in Int
    OBVIOUS
  <1>2. U <= P - T /\ a <= U /\ b <= U /\ c <= V /\ d <= V
    OBVIOUS
  <1> HIDE DEF P, a, b, c, d
  <1>3. a < P /\ b < P
    BY <1>1, <1>2
  <1>4. 4 * (V - U) < T /\ 4 * (U - V) < T
    <2>1. (4 * Q) * (V - U) < T * Q /\ (4 * Q) * (U - V) < T * Q
      BY <1>3 DEF P, a, b
    <2>2. V - U \in Int /\ U - V \in Int /\ T \in Int
      OBVIOUS
    <2>3. QED
      BY <2>1, <2>2, Quarter
  <1>5. V < P
    BY <1>1, <1>2, <1>4
  <1>6. c < P /\ d < P
    BY <1>1, <1>2, <1>5
  <1>7. 4 * (g - V) < T /\ 4 * (V - g) < T
    <2>1. (4 * Q) * (g - V) < T * Q /\ (4 * Q) * (V - g) < T * Q
      BY <1>6 DEF P, c, d
    <2>2. g - V \in Int /\ V - g \in Int /\ T \in Int
      OBVIOUS
    <2>3. QED
      BY <2>1, <2>2, Quarter
  <1>8. QED
    BY <1>4, <1>7

\* What Woovi makes of an amount a float has room for, before the sign.
LEMMA WooviIsClose ==
  ASSUME NEW a \in Amounts, FloatHolds(a), NEW h \in Products(a)
  PROVE  LET unit == Pow10[Len(a.digits)]
             value == 100 * Numeral(a)
             m == (2 * h.num + Pow2[h.down]) \div (2 * Pow2[h.down]) IN
         m \in Int /\ m * unit - value < unit /\ value - m * unit < unit
  <1> DEFINE d == Pow10[Len(a.digits)]
             n == Numeral(a)
             cents == 100 * a.whole + Cents(a)
             m == (2 * h.num + Pow2[h.down]) \div (2 * Pow2[h.down])
             Q == Pow2[Bits - 2]
  <1>1. PICK f \in Float(n, d) : h \in Hundredfold(f)
    BY DEF Products
  <1>2. PICK g \in Float(100 * f.num, 1) : h = [num |-> g.num, down |-> f.down + g.down]
    BY <1>1 DEF Hundredfold
  <1>3. d \in Nat /\ d >= 1 /\ n \in Nat /\ 100 * n < d * (cents + 1)
    BY Worth
  <1>4. Close(f, n, d)
    <2> HIDE DEF d, n
    <2>1. QED
      BY <1>1, <1>3, FloatIsClose
  <1>5. Close(g, 100 * f.num, 1)
    <2>1. 100 * f.num \in Nat
      BY <1>4 DEF Close
    <2>2. QED
      BY <1>2, <2>1, FloatIsClose
  <1> DEFINE F == f.num
             D == Pow2[f.down]
             G == g.num
             E == Pow2[g.down]
             p == 100 * F
  <1>6. f.down \in Nat /\ g.down \in Nat /\ F \in Nat /\ G \in Nat
    BY <1>4, <1>5 DEF Close
  <1>7. h.num = G /\ Pow2[h.down] = D * E
    <2>1. h.num = G /\ h.down = f.down + g.down
      BY <1>2
    <2>2. \A x, y \in Nat : Pow2[x + y] = Pow2[x] * Pow2[y]
      BY PowersOfTwoAdd
    <2>3. Pow2[f.down + g.down] = Pow2[f.down] * Pow2[g.down]
      BY <1>6, <2>2
    <2>4. QED
      BY <2>1, <2>3
  <1>8. D \in Nat /\ D >= 1 /\ E \in Nat /\ E >= 1
    BY <1>6, PowersOfTwo
  <1>9. Q \in Nat /\ Q >= 1 /\ Pow2[Bits] = 4 * Q
    <2>1. Bits - 2 \in Nat /\ Bits - 1 \in Nat \ {0} /\ Bits \in Nat \ {0} /\ (Bits - 1) - 1 = Bits - 2
      BY FloatAssumption
    <2>2. Pow2[Bits] = 2 * Pow2[Bits - 1] /\ Pow2[Bits - 1] = 2 * Pow2[Bits - 2]
      BY <2>1, PowersOfTwo
    <2>3. Pow2[Bits - 2] \in Nat /\ Pow2[Bits - 2] >= 1
      BY <2>1, PowersOfTwo
    <2>4. QED
      BY <2>2, <2>3
  <1>10. cents + 1 <= Q - 1 /\ cents \in Nat
    <2>1. 100 * (a.whole + 1) < Q
      BY DEF FloatHolds
    <2> DEFINE w == a.whole
               C == Cents(a)
    <2>2. w \in Nat /\ C \in 0..99
      BY AmountTyped
    <2>3. Q \in Nat
      BY <1>9
    <2> HIDE DEF Q, w, C
    <2>4. 100 * w + C + 1 <= Q - 1 /\ 100 * w + C \in Nat
      <3>1. 100 * (w + 1) < Q
        BY <2>1 DEF w
      <3>2. QED
        BY <2>2, <2>3, <3>1
    <2>5. QED
      BY <2>4 DEF w, C
  <1>11. (4 * Q) * (F * d - n * D) <= n * D /\ (4 * Q) * (n * D - F * d) <= n * D
    BY <1>4, <1>9 DEF Close
  <1>12. (4 * Q) * (G - p * E) <= p * E /\ (4 * Q) * (p * E - G) <= p * E
    <2>1. (4 * Q) * (G * 1 - p * E) <= p * E /\ (4 * Q) * (p * E - G * 1) <= p * E
      BY <1>5, <1>9 DEF Close
    <2>2. G * 1 = G
      BY <1>6
    <2>3. QED
      BY <2>1, <2>2
  <1> DEFINE S == D * E
  <1>13. m = (2 * G + S) \div (2 * S)
    BY <1>7
  <1> HIDE DEF d, n, cents, m, Q, F, D, G, E
  <1>14. S \in Nat /\ S >= 1 /\ p \in Nat /\ p * E \in Nat
    BY <1>6, <1>8
  <1>15. m \in Int /\ 2 * (m * S - G) <= S /\ 2 * (G - m * S) <= S
    <2> HIDE DEF S, p
    <2> DEFINE q == (2 * G + S) \div (2 * S)
               s == (2 * G + S) % (2 * S)
    <2>1. 2 * G + S \in Nat /\ 2 * S \in Nat /\ 2 * S >= 1
      BY <1>6, <1>14
    <2>2. q \in Int /\ s \in 0..(2 * S - 1) /\ 2 * G + S = (2 * S) * q + s
      BY <2>1
    <2> HIDE DEF q, s
    <2>3. (2 * S) * q = 2 * (q * S) /\ q * S \in Int
      BY <1>14, <2>2
    <2>4. m = q
      BY <1>13 DEF q
    <2>5. QED
      BY <1>6, <1>14, <2>2, <2>3, <2>4
  <1> DEFINE T == d * S
             U == 100 * (n * S)
             V == d * (p * E)
             g2 == d * G
             X == d * (m * S)
  <1>16. T \in Nat /\ T >= 1 /\ U \in Nat /\ V \in Nat /\ g2 \in Nat /\ X \in Int
    <2>1. m * S \in Int /\ n * S \in Nat
      BY <1>3, <1>14, <1>15
    <2> HIDE DEF S, p
    <2>2. d * S \in Nat /\ d * S >= 1 /\ 100 * (n * S) \in Nat
      BY <1>3, <1>14, <2>1
    <2>3. d * (p * E) \in Nat /\ d * G \in Nat /\ d * (m * S) \in Int
      BY <1>3, <1>6, <1>14, <2>1
    <2>4. QED
      BY <2>2, <2>3
  <1>17. U <= T * Q - T
    <2>1. 100 * n <= d * (Q - 1)
      <3>1. d * (cents + 1) <= d * (Q - 1)
        <4> DEFINE t == (Q - 1) - (cents + 1)
        <4>1. t \in Nat /\ Q - 1 = (cents + 1) + t
          BY <1>9, <1>10
        <4> HIDE DEF t
        <4>2. d * ((cents + 1) + t) = d * (cents + 1) + d * t /\ d * t \in Nat
              /\ d * (cents + 1) \in Nat
          BY <1>3, <1>10, <4>1
        <4>3. QED
          BY <4>1, <4>2
      <3>2. d * (cents + 1) \in Nat /\ d * (Q - 1) \in Int
        BY <1>3, <1>9, <1>10
      <3>3. QED
        BY <1>3, <3>1, <3>2
    <2> DEFINE t == d * (Q - 1) - 100 * n
    <2>2. t \in Nat /\ d * (Q - 1) = 100 * n + t
      BY <1>3, <1>9, <2>1
    <2> HIDE DEF t, S
    <2>3. (d * (Q - 1)) * S = (100 * n) * S + t * S /\ t * S \in Nat
      BY <1>3, <1>14, <2>2
    <2>4. (d * (Q - 1)) * S = (d * S) * Q - d * S
      BY <1>3, <1>9, <1>14
    <2>5. (100 * n) * S = 100 * (n * S) /\ n * S \in Nat
      BY <1>3, <1>14
    <2>6. (d * S) * Q \in Int /\ d * S \in Int
      BY <1>3, <1>9, <1>14
    <2>7. QED
      BY <2>3, <2>4, <2>5, <2>6
  \* The three errors, each a multiple of what is known of it.
  <1>18. \A x, y \in Int, z \in Nat : x <= y => z * x <= z * y
    <2>1. SUFFICES ASSUME NEW x \in Int, NEW y \in Int, NEW z \in Nat, x <= y
                   PROVE  z * x <= z * y
      OBVIOUS
    <2> DEFINE t == y - x
    <2>2. t \in Nat /\ y = x + t
      BY <2>1
    <2> HIDE DEF t
    <2>3. z * (x + t) = z * x + z * t /\ z * t \in Nat /\ z * x \in Int
      BY <2>2
    <2>4. QED
      BY <2>2, <2>3
  <1>19. (4 * Q) * (V - U) <= U /\ (4 * Q) * (U - V) <= U
    <2> DEFINE u == n * D
               v == F * d
               e == 100 * E
    <2>1. u \in Nat /\ v \in Nat /\ e \in Nat
      BY <1>3, <1>6, <1>8
    <2>2. U = e * u
      BY <1>3, <1>8
    <2>3. V = e * v
      BY <1>3, <1>6, <1>8
    <2>4. (4 * Q) * (v - u) <= u /\ (4 * Q) * (u - v) <= u
      BY <1>11
    <2> HIDE DEF u, v, e, U, V
    <2>5. (4 * Q) * (v - u) \in Int /\ (4 * Q) * (u - v) \in Int
      BY <1>9, <2>1
    <2>6. e * ((4 * Q) * (v - u)) <= e * u /\ e * ((4 * Q) * (u - v)) <= e * u
      BY <1>18, <2>1, <2>4, <2>5
    <2>7. /\ e * ((4 * Q) * (v - u)) = (4 * Q) * (e * v - e * u)
          /\ e * ((4 * Q) * (u - v)) = (4 * Q) * (e * u - e * v)
      BY <1>9, <2>1
    <2>8. QED
      BY <2>2, <2>3, <2>6, <2>7
  <1>20. (4 * Q) * (g2 - V) <= V /\ (4 * Q) * (V - g2) <= V
    <2> DEFINE v == p * E
    <2>1. v \in Nat /\ V = d * v /\ g2 = d * G
      BY <1>14
    <2>2. (4 * Q) * (G - v) <= v /\ (4 * Q) * (v - G) <= v
      BY <1>12
    <2> HIDE DEF v, V, g2
    <2>3. (4 * Q) * (G - v) \in Int /\ (4 * Q) * (v - G) \in Int
      BY <1>6, <1>9, <2>1
    <2>4. d * ((4 * Q) * (G - v)) <= d * v /\ d * ((4 * Q) * (v - G)) <= d * v
      BY <1>3, <1>18, <2>1, <2>2, <2>3
    <2>5. /\ d * ((4 * Q) * (G - v)) = (4 * Q) * (d * G - d * v)
          /\ d * ((4 * Q) * (v - G)) = (4 * Q) * (d * v - d * G)
      BY <1>3, <1>6, <1>9, <2>1
    <2>6. QED
      BY <2>1, <2>4, <2>5
  <1>21. 2 * (X - g2) <= T /\ 2 * (g2 - X) <= T
    <2> DEFINE x == m * S
    <2>1. x \in Int /\ X = d * x /\ g2 = d * G /\ T = d * S
      BY <1>14, <1>15
    <2>2. 2 * (x - G) <= S /\ 2 * (G - x) <= S
      BY <1>15
    <2> HIDE DEF x, X, g2, T, S
    <2>3. d * (2 * (x - G)) <= d * S /\ d * (2 * (G - x)) <= d * S
      <3>1. 2 * (x - G) \in Int /\ 2 * (G - x) \in Int /\ S \in Int
        BY <1>6, <1>14, <2>1
      <3>2. QED
        BY <1>3, <1>18, <2>2, <3>1
    <2>4. d * (2 * (x - G)) = 2 * (d * x - d * G) /\ d * (2 * (G - x)) = 2 * (d * G - d * x)
      BY <1>3, <1>6, <2>1
    <2>5. QED
      BY <2>1, <2>3, <2>4
  <1>22. X - U < T /\ U - X < T
    <2> HIDE DEF X, U, T, V, g2
    <2>1. QED
      BY <1>9, <1>16, <1>17, <1>19, <1>20, <1>21, ThreeRoundings
  <1>23. m * d - 100 * n < d /\ 100 * n - m * d < d
    <2> DEFINE y == m * d - 100 * n
    <2>1. m * d \in Int /\ 100 * n \in Int /\ y \in Int
      BY <1>3, <1>15
    <2> HIDE DEF S
    <2>2. X = (m * d) * S /\ U = (100 * n) * S /\ T = d * S
      BY <1>3, <1>14, <1>15
    <2> HIDE DEF X, U, T
    <2>3. (m * d) * S - (100 * n) * S = y * S /\ (100 * n) * S - (m * d) * S = (-y) * S
      BY <1>14, <2>1
    <2>4. y * S < d * S /\ (-y) * S < d * S
      BY <1>22, <2>2, <2>3
    <2> HIDE DEF y
    <2>5. y < d /\ -y < d
      <3>1. \A z \in Int : z >= d => z * S >= d * S
        <4>1. SUFFICES ASSUME NEW z \in Int, z >= d PROVE z * S >= d * S
          OBVIOUS
        <4>2. S * d <= S * z
          BY <1>3, <1>14, <1>18, <4>1
        <4>3. S * d = d * S /\ S * z = z * S
          BY <1>3, <1>14
        <4>4. QED
          BY <4>2, <4>3
      <3>2. -y \in Int /\ y * S \in Int /\ (-y) * S \in Int /\ d * S \in Int
        BY <1>3, <1>14, <2>1
      <3>3. QED
        BY <1>3, <2>1, <2>4, <3>1, <3>2
    <2>6. QED
      BY <1>3, <2>1, <2>5 DEF y
  <1>24. QED
    BY <1>15, <1>23 DEF m, d, n

-----------------------------------------------------------------------------
(* The three conversions *)

Words == -(MaxInt + 1)..MaxInt

LEMMA IntoWords == \A x, n : n \in ToInt(x) => n \in Words /\ (x \in Words => n = x)
  <1>1. -(MaxInt + 1) \in Words /\ MaxInt \in Words
    BY WidthAssumption DEF Words
  <1>2. QED
    BY <1>1 DEF ToInt, Words

LEMMA ResultsAreNumbers ==
  ASSUME NEW a \in Amounts, NEW p \in MinorProviders
  PROVE  Results(p, a) \subseteq Int
  <1>0. MaxInt \in Nat /\ a.whole \in Nat /\ Cents(a) \in Nat
    BY WidthAssumption, AmountTyped
  <1>1. \A n \in Int : Wrap(n) \in Int /\ Signed(a, n) \in Int
    <2>1. ASSUME NEW n \in Int PROVE Wrap(n) \in Int
      <3>1. Wrap(n) \in -(MaxInt + 1)..MaxInt
        BY WrapTurns
      <3>2. QED
        BY <3>1, <1>0
    <2>2. ASSUME NEW n \in Int PROVE Signed(a, n) \in Int
      BY DEF Signed
    <2>3. QED
      BY <2>1, <2>2
  <1>2. CASE p = "stripe"
    <2>1. a.whole * 100 + Cents(a) \in Int
      BY <1>0
    <2>2. QED
      BY <1>1, <1>2, <2>1 DEF Results, AmountToMinorUnits
  <1>3. CASE p = "abacatepay"
    <2>1. Signed(a, a.whole) * 100 + Cents(a) \in Int
      BY <1>0, <1>1
    <2>2. QED
      BY <1>1, <1>3, <2>1 DEF Results, AmountToMinorUnitsAP
  <1>4. CASE p = "woovi"
    <2>1. ASSUME NEW n \in ToMinor(a) PROVE n \in Int
      <3>1. PICK x : n \in ToInt(x)
        BY DEF ToMinor
      <3>2. n \in Words
        BY <3>1, IntoWords
      <3>3. QED
        BY <3>2, <1>0 DEF Words
    <2>2. QED
      BY <1>4, <2>1 DEF Results
  <1>5. QED
    BY <1>2, <1>3, <1>4 DEF MinorProviders

\* What each provider is asked to charge, for an amount above zero and in range.
LEMMA Charged ==
  ASSUME NEW a \in Amounts, a.sign = "", InRange(a),
         NEW p \in {"stripe", "abacatepay"}, NEW n \in Results(p, a)
  PROVE  n = 100 * a.whole + Cents(a)
  <1> DEFINE C == Cents(a)
             w == a.whole
  <1>1. w \in Nat /\ C \in 0..99 /\ MaxInt \in Nat /\ 100 * (w + 1) <= MaxInt
    BY WidthAssumption, AmountTyped DEF InRange
  <1>2. \A x : Signed(a, x) = x
    BY DEF Signed
  <1> HIDE DEF C, w
  <1>3. w * 100 + C \in -(MaxInt + 1)..MaxInt /\ w * 100 + C = 100 * w + C
    BY <1>1, RoomForCents
  <1>4. Wrap(w * 100 + C) = w * 100 + C
    BY <1>3, WrapInRange
  <1>5. CASE p = "stripe"
    <2>1. n = Wrap(Signed(a, Wrap(w * 100 + C)))
      BY <1>5 DEF Results, AmountToMinorUnits, w, C
    <2>2. QED
      BY <2>1, <1>2, <1>3, <1>4 DEF w, C
  <1>6. CASE p = "abacatepay"
    <2>1. n = Wrap(Signed(a, w) * 100 + C)
      BY <1>6 DEF Results, AmountToMinorUnitsAP, w, C
    <2>2. QED
      BY <2>1, <1>2, <1>3, <1>4 DEF w, C
  <1>7. QED
    BY <1>5, <1>6

\* Rounded, it still fits a machine word.
LEMMA WooviFits ==
  ASSUME NEW a \in Amounts, InRange(a), FloatHolds(a), NEW h \in Products(a),
         NEW n \in ToInt((2 * h.num + Pow2[h.down]) \div (2 * Pow2[h.down]))
  PROVE  LET unit == Pow10[Len(a.digits)]
             value == 100 * Numeral(a) IN
         n \in Int /\ n * unit - value < unit /\ value - n * unit < unit
  <1> DEFINE unit == Pow10[Len(a.digits)]
             cents == 100 * a.whole + Cents(a)
             value == 100 * Numeral(a)
             m == (2 * h.num + Pow2[h.down]) \div (2 * Pow2[h.down])
  <1>2. m \in Int /\ m * unit - value < unit /\ value - m * unit < unit
    BY WooviIsClose
  <1>3. n \in ToInt(m)
    OBVIOUS
  <1>4. /\ unit \in Nat /\ unit >= 1 /\ value \in Nat
        /\ unit * cents <= value /\ value < unit * (cents + 1)
    BY Worth
  <1>5. cents \in Nat /\ cents \in Words /\ cents + 1 \in Words
    <2> DEFINE w == a.whole
               C == Cents(a)
    <2>1. w \in Nat /\ C \in 0..99 /\ MaxInt \in Nat /\ 100 * (w + 1) <= MaxInt
      BY WidthAssumption, AmountTyped DEF InRange
    <2> HIDE DEF w, C
    <2>2. 100 * w + C \in Nat
      BY <2>1
    <2>3. 100 * w + C \in Words /\ 100 * w + C + 1 \in Words
      BY <2>1, RoomForCents DEF Words
    <2>4. QED
      BY <2>2, <2>3 DEF w, C
  <1> HIDE DEF unit, cents, value, m
  <1>6. m \in {cents, cents + 1}
    <2> DEFINE t == m - cents
    <2>1. t \in Int /\ m = cents + t
      BY <1>2, <1>5
    <2> HIDE DEF t
    <2>2. m * unit = unit * cents + unit * t /\ unit * (cents + 1) = unit * cents + unit
          /\ unit * cents \in Int /\ unit * t \in Int
      BY <1>4, <1>5, <2>1
    <2>3. unit * t < 2 * unit /\ unit * t > -unit
      BY <1>2, <1>4, <2>2
    <2>4. t >= 2 => unit * t >= 2 * unit
      BY <1>4, <2>1
    <2>5. t <= -1 => unit * t <= -unit
      BY <1>4, <2>1
    <2>6. t \in {0, 1}
      BY <1>4, <2>1, <2>2, <2>3, <2>4, <2>5
    <2>7. QED
      BY <1>5, <2>1, <2>6
  <1>7. n = m
    BY <1>3, <1>5, <1>6, IntoWords
  <1>8. QED
    BY <1>2, <1>7 DEF unit, value

LEMMA ChargedByWoovi ==
  ASSUME NEW a \in Amounts, a.sign = "", InRange(a), FloatHolds(a), NEW n \in Results("woovi", a)
  PROVE  LET unit == Pow10[Len(a.digits)]
             value == 100 * Numeral(a) IN
         n \in Int /\ n * unit - value < unit /\ value - n * unit < unit
  <1>1. PICK h \in Products(a) :
          n \in ToInt((2 * h.num + Pow2[h.down]) \div (2 * Pow2[h.down]))
    BY DEF Results, ToMinor, Signed
  <1>2. QED
    BY <1>1, WooviFits

-----------------------------------------------------------------------------
(* The invariant, and the theorems *)

\* Every answer is a result of the conversion it comes from.
IInv ==
  /\ amount \in Amounts
  /\ answers \in [MinorProviders -> SUBSET Int]
  /\ \A p \in MinorProviders : answers[p] \subseteq Results(p, amount)

LEMMA Inductive == Spec => []IInv
  <1>1. Init => IInv
    BY DEF Init, IInv
  <1>2. IInv /\ [Next]_vars => IInv'
    <2> SUFFICES ASSUME IInv, [Next]_vars PROVE IInv'
      OBVIOUS
    <2>1. ASSUME NEW p \in MinorProviders, Convert(p) PROVE IInv'
      <3>1. PICK n \in Results(p, amount) : answers' = [answers EXCEPT ![p] = {n}]
        BY <2>1 DEF Convert
      <3>2. n \in Int
        BY ResultsAreNumbers DEF IInv
      <3>3. answers' \in [MinorProviders -> SUBSET Int]
        BY <3>1, <3>2 DEF IInv
      <3>4. ASSUME NEW r \in MinorProviders PROVE answers'[r] \subseteq Results(r, amount)
        BY <3>1 DEF IInv
      <3>5. amount' = amount
        BY <2>1 DEF Convert
      <3>6. \A r \in MinorProviders : answers'[r] \subseteq Results(r, amount')
        BY <3>4, <3>5
      <3>7. QED
        BY <3>3, <3>5, <3>6 DEF IInv
    <2>2. CASE UNCHANGED vars
      <3>1. amount' = amount /\ answers' = answers
        BY <2>2 DEF vars
      <3>2. \A r \in MinorProviders : answers'[r] \subseteq Results(r, amount')
        BY <3>1 DEF IInv
      <3>3. QED
        BY <3>1, <3>2 DEF IInv
    <2>3. QED
      BY <2>1, <2>2 DEF Next
  <1>3. QED
    BY <1>1, <1>2, PTL DEF Spec

\* An amount with at most two decimals is charged to the cent: by Stripe and
\* AbacatePay up to the largest a machine word holds, by Woovi up to a quarter of
\* 2^Bits cents, for every width of words and every precision of floats
\* (amountToMinorUnits, amountToMinorUnitsAP, toMinor).  Two roundings to a float
\* and one to a whole number are off by less than a cent, so by nothing.
THEOREM CentsAreExact == Spec => []ExactToTheCent
  <1>1. ASSUME IInv, amount.sign = "", Len(amount.digits) <= 2, InRange(amount),
               NEW p \in MinorProviders, NEW n \in answers[p],
               p = "woovi" => FloatHolds(amount)
        PROVE  n * Pow10[Len(amount.digits)] = 100 * Numeral(amount)
    <2> DEFINE unit == Pow10[Len(amount.digits)]
               cents == 100 * amount.whole + Cents(amount)
               value == 100 * Numeral(amount)
    <2>1. amount \in Amounts /\ n \in Results(p, amount)
      BY <1>1 DEF IInv
    <2>2. unit \in Nat /\ unit >= 1 /\ value = unit * cents
      BY <1>1, <2>1, Worth
    <2>3. cents \in Nat
      BY <2>1, AmountTyped
    <2>4. CASE p \in {"stripe", "abacatepay"}
      <3>1. n = cents
        BY <1>1, <2>1, <2>4, Charged
      <3> HIDE DEF unit, cents, value
      <3>2. n * unit = value
        BY <2>2, <2>3, <3>1
      <3>3. QED
        BY <3>2 DEF unit, value
    <2>5. CASE p = "woovi"
      <3>1. n \in Int /\ n * unit - value < unit /\ value - n * unit < unit
        BY <1>1, <2>1, <2>5, ChargedByWoovi
      <3> HIDE DEF unit, cents, value
      <3> DEFINE t == n - cents
      <3>2. t \in Int /\ n = cents + t
        BY <2>3, <3>1
      <3> HIDE DEF t
      <3>3. n * unit = unit * cents + unit * t /\ unit * cents \in Int /\ unit * t \in Int
        BY <2>2, <2>3, <3>2
      <3>4. unit * t < unit /\ unit * t > -unit
        BY <2>2, <3>1, <3>3
      <3>5. (t >= 1 => unit * t >= unit) /\ (t <= -1 => unit * t <= -unit)
        BY <2>2, <3>2
      <3>6. t = 0
        BY <2>2, <3>2, <3>3, <3>4, <3>5
      <3>7. unit * t = 0
        BY <2>2, <3>6
      <3>8. n * unit = value
        BY <2>2, <3>3, <3>7
      <3>9. QED
        BY <3>8 DEF unit, value
    <2>6. QED
      BY <2>4, <2>5 DEF MinorProviders
  <1>2. IInv => ExactToTheCent
    BY <1>1 DEF ExactToTheCent
  <1>3. QED
    BY <1>2, Inductive, PTL

\* Whatever the number of decimals, Stripe and AbacatePay never charge more than
\* the amount and lose less than a cent, up to the largest amount a machine word
\* holds; and Woovi is less than a cent away, up to a quarter of 2^Bits cents.
THEOREM LessThanACentOff == Spec => []OffByLessThanACent
  <1>1. ASSUME IInv, amount.sign = "", InRange(amount)
        PROVE  LET unit == Pow10[Len(amount.digits)] IN
               /\ \A p \in {"stripe", "abacatepay"} : \A n \in answers[p] :
                    100 * Numeral(amount) - n * unit \in 0..(unit - 1)
               /\ FloatHolds(amount) =>
                    \A n \in answers["woovi"] : Distance(n * unit, 100 * Numeral(amount)) < unit
    <2> DEFINE unit == Pow10[Len(amount.digits)]
               cents == 100 * amount.whole + Cents(amount)
               value == 100 * Numeral(amount)
    <2>1. amount \in Amounts
      BY <1>1 DEF IInv
    <2>2. \A p \in MinorProviders : answers[p] \subseteq Results(p, amount)
      BY <1>1 DEF IInv
    <2>3. /\ unit \in Nat /\ unit >= 1 /\ value \in Nat
          /\ unit * cents <= value /\ value < unit * (cents + 1)
      BY <2>1, Worth
    <2>4. cents \in Nat
      BY <2>1, AmountTyped
    <2>5. ASSUME NEW p \in {"stripe", "abacatepay"}, NEW n \in answers[p]
          PROVE  value - n * unit \in 0..(unit - 1)
      <3>1. n \in Results(p, amount)
        BY <2>2, <2>5 DEF MinorProviders
      <3>2. n = cents
        BY <1>1, <2>1, <3>1, Charged
      <3> HIDE DEF unit, cents, value
      <3>3. cents * unit = unit * cents /\ unit * cents \in Nat
            /\ unit * (cents + 1) = unit * cents + unit
        BY <2>3, <2>4
      <3>4. value - unit * cents \in 0..(unit - 1)
        BY <2>3, <3>3
      <3>5. QED
        BY <3>2, <3>3, <3>4
    <2>6. ASSUME FloatHolds(amount), NEW n \in answers["woovi"]
          PROVE  Distance(n * unit, value) < unit
      <3>1. n \in Results("woovi", amount)
        BY <2>2, <2>6 DEF MinorProviders
      <3>2. n * unit - value < unit /\ value - n * unit < unit
        BY <1>1, <2>1, <2>6, <3>1, ChargedByWoovi
      <3>3. QED
        BY <3>2 DEF Distance
    <2>7. QED
      BY <2>5, <2>6
  <1>2. IInv => OffByLessThanACent
    BY <1>1 DEF OffByLessThanACent
  <1>3. QED
    BY <1>2, Inductive, PTL

\* amountToMinorUnitsAP mirrors amountToMinorUnits for every amount above zero, one
\* that overflows the machine word included, whatever the width of the word.
THEOREM MirroredAboveZero == Spec => []MirrorsStripeAboveZero
  <1>1. ASSUME IInv, amount.sign = "",
               NEW n \in answers["stripe"], NEW m \in answers["abacatepay"]
        PROVE  m = n
    <2> DEFINE C == Cents(amount)
               w == amount.whole
    <2>1. amount \in Amounts /\ n \in Results("stripe", amount)
          /\ m \in Results("abacatepay", amount)
      BY <1>1 DEF IInv, MinorProviders
    <2>2. w \in Nat /\ C \in 0..99 /\ MaxInt \in Nat
      BY <2>1, WidthAssumption, AmountTyped
    <2>3. n = Wrap(Signed(amount, Wrap(w * 100 + C)))
      BY <2>1 DEF Results, AmountToMinorUnits
    <2>4. m = Wrap(Signed(amount, w) * 100 + C)
      BY <2>1 DEF Results, AmountToMinorUnitsAP
    <2> HIDE DEF C, w
    <2>5. n = Wrap(Wrap(w * 100 + C)) /\ m = Wrap(w * 100 + C)
      BY <1>1, <2>3, <2>4 DEF Signed
    <2>6. w * 100 + C \in Int
      BY <2>2
    <2>7. Wrap(w * 100 + C) \in -(MaxInt + 1)..MaxInt
      BY <2>6, WrapTurns
    <2>8. QED
      BY <2>5, <2>7, WrapInRange
  <1>2. IInv => MirrorsStripeAboveZero
    BY <1>1 DEF MirrorsStripeAboveZero
  <1>3. QED
    BY <1>2, Inductive, PTL

=============================================================================
