------------------------- MODULE MCRangeConstraint -------------------------
(* Default limbs of 2 bits instead of 14, num_bits from 1 to 5 (short and *)
(* long branches, a long one with a partial top limb), every value up to  *)
(* 2^5 + 1, and two calls, so that lists are shared between calls.        *)
EXTENDS RangeConstraint

MCBitnum == 2
MCNumBits == 1 .. 5
MCValues == 0 .. 2^5 + 1
MCMaxConstraints == 2

=============================================================================
