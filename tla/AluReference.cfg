SPECIFICATION Spec
CONSTANTS
  Accumulators <- Byte
  Operands <- Byte
INVARIANTS
  BinaryAdc
  BinarySbc
  DecimalAdc
  DecimalSbc
  CmpComparesUnsigned
