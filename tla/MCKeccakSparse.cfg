CONSTANTS
  W <- MCW
  NumRounds <- MCNumRounds
  ROTATIONS <- MCRotations
  RC <- MCRC
  LIMBS_PER_BLOCK <- MCLimbsPerBlock
  Blocks <- MCBlocks
  MaxBlocks <- MCMaxBlocks
  ByteBits <- MCByteBits

SPECIFICATION Spec

INVARIANTS
  TwistedStateIsCurrent

PROPERTIES
  KeccakRoundsRefined

CHECK_DEADLOCK FALSE
