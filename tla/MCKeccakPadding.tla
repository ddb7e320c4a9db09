------------------------- MODULE MCKeccakPadding -------------------------
(* Keccak-256 parameters, and every input length up to two full blocks and *)
(* one byte: lengths that leave 0, 1 and more padding bytes in the last    *)
(* block, and inputs of one, two and three blocks.                        *)
EXTENDS KeccakPadding

MCBlockSize == 136
MCWordSize == 8
MCMaxInputSize == 2 * 136 + 1

=============================================================================
