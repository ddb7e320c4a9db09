CONSTANTS
  DEFAULT_PLOOKUP_RANGE_BITNUM <- MCBitnum
  Values <- MCValues
  NumBits <- MCNumBits
  MaxConstraints <- MCMaxConstraints

SPECIFICATION Spec

INVARIANTS
  RangeConstraintExact

\* the circuit is finalised once; nothing follows
CHECK_DEADLOCK FALSE
