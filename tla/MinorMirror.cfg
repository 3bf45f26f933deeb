\* Two decimals; floats of 12 bits and 16-bit machine words.
SPECIFICATION Spec
CONSTANTS
  Wholes = {0, 1, 9}
  MaxDigits = 2
  MaxInt = 32767
  Bits = 12
  MaxExponent = 20
CHECK_DEADLOCK FALSE
INVARIANT MirrorsStripe
