\* Up to three decimals; floats of 12 bits, which lose cents of 326, and 16-bit
\* machine words, which the larger wholes overflow.
SPECIFICATION Spec
CONSTANTS
  Wholes = {0, 1, 9, 326, 327, 32768}
  MaxDigits = 3
  MaxInt = 32767
  Bits = 12
  MaxExponent = 22
CHECK_DEADLOCK FALSE
INVARIANTS
  ExactToTheCent
  OffByLessThanACent
  MirrorsStripeAboveZero
