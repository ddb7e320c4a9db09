------------------------- MODULE MCFieldConversion -------------------------
(* A field of 251 elements held in two 4-bit limbs, and a 3-bit int: the   *)
(* shape of a 254-bit field in four 64-bit limbs built from a 32-bit int, *)
(* with every int, every limb value and every element enumerated.         *)
EXTENDS FieldConversion

MCp == 251
MCNumLimbs == 2
MCLimbBits == 4
MCIntBits == 3

=============================================================================
