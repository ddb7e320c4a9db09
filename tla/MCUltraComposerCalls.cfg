CONSTANTS
  ArraySize <- MCArraySize
  Values <- MCValues
  MaxAccesses <- MCMaxAccesses
  TimestampModulus <- MCTimestampModulus
  RomSize <- MCRomSize
  RomValues <- MCRomValues
  MaxRomAccesses <- MCMaxRomAccesses
  Witnesses <- MCWitnesses
  MaxPublicInputs <- MCMaxPublicInputs
  MaxProofOutputs <- MCMaxProofOutputs
SPECIFICATION UltraSpec
INVARIANTS RamCheckIsMemoryConsistency RomCheckIsReadConsistency RecursiveProofIndicesLocateOutputs
CHECK_DEADLOCK FALSE
