----------------------------- MODULE MinorUnits -----------------------------
(***************************************************************************)
(* From the decimal string of an amount to the minor units a provider is   *)
(* asked to charge: amountToMinorUnits (stripe.go), amountToMinorUnitsAP   *)
(* (abacatepay.go) and toMinor (woovi.go), each run on the same amount.    *)
(*                                                                         *)
(* An amount keeps its sign, the number before the separator, the          *)
(* separator (a point, a comma, or none) and the digits after it: what the *)
(* monolith and the tables of prices make of a number.  Other strings are  *)
(* left out, though not all of them are errors: Stripe and AbacatePay take *)
(* '9.-5' for 895 minor units, all three take '+9', and Woovi alone takes  *)
(* '1e2', '.50' and 'Inf'.                                                 *)
(*                                                                         *)
(* Woovi goes by float64, a binary fraction of Bits significant bits: 9.29 *)
(* is not one of them, and past 2^Bits not even every number of cents is.  *)
(***************************************************************************)
EXTENDS Integers, Sequences

CONSTANTS
  Wholes,              \* numbers before the separator
  MaxDigits,           \* bound: digits after it
  MaxInt,              \* the largest signed integer, 2^63 - 1 in the source
  Bits,                \* significant bits of a float, 53 in the source
  MaxExponent          \* bound: powers of two a float is scaled by

ASSUME WidthAssumption == Wholes \subseteq Nat /\ MaxDigits \in Nat /\ MaxInt \in Nat

Pow2[n \in Nat] == IF n = 0 THEN 1 ELSE 2 * Pow2[n - 1]

Pow10[n \in Nat] == IF n = 0 THEN 1 ELSE 10 * Pow10[n - 1]

\* No amount is too small or too large for a float (a float64 takes 300 decimals).
ASSUME FloatAssumption ==
  /\ Bits \in Nat /\ Bits >= 2 /\ MaxExponent \in Nat
  /\ Pow2[Bits - 1] * Pow10[MaxDigits] <= Pow2[MaxExponent]
  /\ \A w \in Wholes : 100 * (w + 1) <= Pow2[MaxExponent]

Digits == 0..9

Amounts ==
  {a \in [sign : {"", "-"}, whole : Wholes, sep : {"", ".", ","},
          digits : UNION {[1..n -> Digits] : n \in 0..MaxDigits}] :
     a.sep = "" => a.digits = <<>>}

MinorProviders == {"stripe", "abacatepay", "woovi"}

VARIABLES
  amount,
  answers              \* per provider: {} before, {} after an error, or {the number}

vars == <<amount, answers>>

Init ==
  /\ amount \in Amounts
  /\ answers = [p \in MinorProviders |-> {}]

Signed(a, n) == IF a.sign = "-" THEN -n ELSE n

\* Signed integers wrap around.
Wrap(n) == ((n + MaxInt + 1) % (2 * (MaxInt + 1))) - (MaxInt + 1)

Digit(a, i) == IF i \in 1..Len(a.digits) THEN a.digits[i] ELSE 0

\* Mutant: a single digit is not padded.
Cents_NoPad(a) == IF Len(a.digits) = 1 THEN Digit(a, 1) ELSE 10 * Digit(a, 1) + Digit(a, 2)

\* The first two digits after the point, padded with zeros.
Cents(a) == 10 * Digit(a, 1) + Digit(a, 2)

\* ParseInt knows no comma, and fails out of range.
ParsesInt(a, n) == a.sep # "," /\ n \in -(MaxInt + 1)..MaxInt

\* Stripe: the sign is taken off first and put back at the end.
AmountToMinorUnits(a) ==
  IF ParsesInt(a, a.whole) THEN {Wrap(Signed(a, Wrap(a.whole * 100 + Cents(a))))} ELSE {}

\* Mutant: a single digit is not padded for AbacatePay.
AmountToMinorUnitsAP_NoPad(a) ==
  LET whole == Signed(a, a.whole) IN
  IF ParsesInt(a, whole) THEN {Wrap(whole * 100 + Cents_NoPad(a))} ELSE {}

\* AbacatePay: the sign is that of the whole part alone.
AmountToMinorUnitsAP(a) ==
  LET whole == Signed(a, a.whole) IN
  IF ParsesInt(a, whole) THEN {Wrap(whole * 100 + Cents(a))} ELSE {}

\* The digits of an amount as one number: it is worth Numeral(a) / 10^Len(a.digits).
Numeral(a) ==
  LET tail[i \in 0..Len(a.digits)] == IF i = 0 THEN 0 ELSE 10 * tail[i - 1] + a.digits[i] IN
  a.whole * Pow10[Len(a.digits)] + tail[Len(a.digits)]

Distance(m, n) == IF m < n THEN n - m ELSE m - n

\* The whole number nearest to n / d, and of two the even one.
RoundEven(n, d) ==
  LET floor == n \div d
      rest  == 2 * (n % d) IN
  IF rest > d \/ (rest = d /\ floor % 2 = 1) THEN floor + 1 ELSE floor

\* How often n / d is doubled, or halved, to have Bits bits before the point.
Doublings(n, d) ==
  {k \in 0..MaxExponent :
     /\ \A i \in 0..(k - 1) : n * Pow2[i] < Pow2[Bits - 1] * d
     /\ n * Pow2[k] >= Pow2[Bits - 1] * d}

Halvings(n, d) ==
  {k \in 0..MaxExponent :
     /\ \A i \in 0..(k - 1) : n >= Pow2[Bits] * (Pow2[i] * d)
     /\ n < Pow2[Bits] * (Pow2[k] * d)}

\* The float nearest to n / d is num / 2^down, and num has Bits significant bits.
Float(n, d) ==
  IF n = 0
  THEN {[num |-> 0, down |-> 0]}
  ELSE {[num |-> RoundEven(n * Pow2[k], d * Pow2[j]) * Pow2[j], down |-> k] :
          k \in Doublings(n, d), j \in Halvings(n, d)}

\* f * Pow10(2): the exact product is rounded in turn, wherever its point is.
Hundredfold(f) ==
  {[num |-> g.num, down |-> f.down + g.down] : g \in Float(100 * f.num, 1)}

\* ParseFloat takes a comma for a point and gives the nearest float.
Products(a) == UNION {Hundredfold(f) : f \in Float(Numeral(a), Pow10[Len(a.digits)])}

\* int() of a float out of range is what the machine makes of it.
ToInt(n) == IF n \in -(MaxInt + 1)..MaxInt THEN {n} ELSE {-(MaxInt + 1), MaxInt}

\* Mutant: int(f * 100), not rounded.
ToMinor_Truncates(a) ==
  UNION {ToInt(Signed(a, g.num \div Pow2[g.down])) : g \in Products(a)}

\* Woovi: Round goes to the nearest number, and away from zero from a half.
ToMinor(a) ==
  UNION {ToInt(Signed(a, (2 * g.num + Pow2[g.down]) \div (2 * Pow2[g.down]))) : g \in Products(a)}

Results(p, a) ==
  CASE p = "stripe"     -> AmountToMinorUnits(a)
    [] p = "abacatepay" -> AmountToMinorUnitsAP(a)
    [] p = "woovi"      -> ToMinor(a)

Convert(p) ==
  /\ answers[p] = {}
  /\ \E n \in Results(p, amount) : answers' = [answers EXCEPT ![p] = {n}]
  /\ UNCHANGED amount

Next == \E p \in MinorProviders : Convert(p)

Spec == Init /\ [][Next]_vars

-----------------------------------------------------------------------------
(* Properties *)

InRange(a) == 100 * (a.whole + 1) <= MaxInt

\* A float has room for the cents: below 2^51 of them in the source.
FloatHolds(a) == 100 * (a.whole + 1) < Pow2[Bits - 2]

\* An amount with at most two decimals, as the currencies of these providers
\* have, is charged to the cent whichever provider the customer chose: answers
\* of amountToMinorUnits, amountToMinorUnitsAP and toMinor are the exact value,
\* toMinor's while a float has room for it.
ExactToTheCent ==
  amount.sign = "" /\ Len(amount.digits) <= 2 /\ InRange(amount) =>
    \A p \in MinorProviders : \A n \in answers[p] :
      (p = "woovi" => FloatHolds(amount)) =>
        n * Pow10[Len(amount.digits)] = 100 * Numeral(amount)

\* With more decimals (a price converted for a currency with eight) Stripe and
\* AbacatePay never charge more than the amount and lose less than a cent;
\* Woovi, which rounds twice to a float and once to a number, is less than a
\* cent away on either side while a float has room for the amount.
OffByLessThanACent ==
  amount.sign = "" /\ InRange(amount) =>
    LET unit == Pow10[Len(amount.digits)] IN
    /\ \A p \in {"stripe", "abacatepay"} : \A n \in answers[p] :
         100 * Numeral(amount) - n * unit \in 0..(unit - 1)
    /\ FloatHolds(amount) =>
         \A n \in answers["woovi"] : Distance(n * unit, 100 * Numeral(amount)) < unit

\* Above zero AbacatePay is asked to charge what Stripe is (amountToMinorUnitsAP
\* against amountToMinorUnits), amounts that overflow the integer included.
MirrorsStripeAboveZero ==
  amount.sign = "" =>
    \A n \in answers["stripe"], m \in answers["abacatepay"] : m = n

\* abacatepay.go:255, of amountToMinorUnitsAP: "Espelha amountToMinorUnits do Stripe"
\* (mirrors Stripe's).  It does not below zero: the cents lose their sign there.
MirrorsStripe ==
  \A n \in answers["stripe"], m \in answers["abacatepay"] : m = n

=============================================================================
