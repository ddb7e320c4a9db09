CONSTANTS
  BLOCK_SIZE <- MCBlockSize
  WORD_SIZE <- MCWordSize
  MaxInputSize <- MCMaxInputSize

SPECIFICATION Spec

INVARIANTS
  MessageAbsorbedInPlace

CHECK_DEADLOCK FALSE
