------------------------------ MODULE MCGateCount ------------------------------
(* The Ultra gate width 4 and an 8-bit size_t; one ROM and one RAM array  *)
(* of one element; up to 17 records per array, so that max_timestamp runs *)
(* from the wrapped value of an empty array up to 16; range lists of the  *)
(* 2-bit default limb target 3 and of the target 1 << 4 that               *)
(* create_range_constraint(v, 4) gives.                                    *)
EXTENDS GateCount

MCGateWidth == 4
MCSizeBits == 8
MCMemorySize == 1
MCMaxArrays == 1
MCMaxRecords == 17
MCRangeTargets == {16}
MCMaxRangeListSize == 2
MCMaxGates == 1

=============================================================================
