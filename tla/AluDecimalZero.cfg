SPECIFICATION Spec
CONSTANTS
  Accumulators <- Byte
  Operands <- Byte
INVARIANT DecimalAdcSetsZero
