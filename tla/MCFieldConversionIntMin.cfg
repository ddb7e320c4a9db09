CONSTANTS
  p <- MCp
  NumLimbs <- MCNumLimbs
  LimbBits <- MCLimbBits
  IntBits <- MCIntBits

SPECIFICATION Spec

INVARIANTS
  IntConstructorIsResidue

\* each behaviour builds one element; nothing follows
CHECK_DEADLOCK FALSE
