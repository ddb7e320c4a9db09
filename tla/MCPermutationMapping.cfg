CONSTANTS
  Width <- MCWidth
  CircuitSize <- MCCircuitSize
  Values <- MCValues
  MaxVariables <- MCMaxVariables
  MaxGates <- MCMaxGates
  MaxPublicInputs <- MCMaxPublicInputs

SPECIFICATION PermSpec

INVARIANTS
  TypeOK
  StandardCopyCyclesAreEqualityClasses
  StandardGrandProductBalanced
  GenPermutationChecksTagMultisets


