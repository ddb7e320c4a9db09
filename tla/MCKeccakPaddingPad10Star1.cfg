CONSTANTS
  BLOCK_SIZE <- MCBlockSize
  WORD_SIZE <- MCWordSize
  MaxInputSize <- MCMaxInputSize

SPECIFICATION Spec

INVARIANTS
  PaddingIsPad10Star1

CHECK_DEADLOCK FALSE
