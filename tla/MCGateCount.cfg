CONSTANTS
  GateWidth <- MCGateWidth
  SizeBits <- MCSizeBits
  MemorySize <- MCMemorySize
  MaxArrays <- MCMaxArrays
  MaxRecords <- MCMaxRecords
  RangeTargets <- MCRangeTargets
  MaxRangeListSize <- MCMaxRangeListSize
  MaxGates <- MCMaxGates

SPECIFICATION GateCountSpec

PROPERTIES
  GateEstimateNeverDecreases

CHECK_DEADLOCK FALSE
