------------------------- MODULE MCEndomorphismSplit -------------------------
(***************************************************************************)
(* Two toy fields with 3-bit limbs, each with a cube root of unity lambda  *)
(* and a reduced lattice basis (a1, b1), (a2, b2) of {(a, b) : a + b       *)
(* lambda = 0 mod r} with b1 < 0 < b2 and a1 b2 - a2 b1 = r, found by the *)
(* extended Euclidean algorithm on (r, lambda).  The rounding constants    *)
(* are floor(2^shift * basis entry / r) for the entry the code pairs them *)
(* with.  The whole range of reduce_once's input, 0 .. 2r - 1, is checked. *)
(***************************************************************************)
EXTENDS Integers

MCLimbBits == 3

\* r = 97 (top limb 0: the 256-bit branch); basis (3, -8), (11, 3), so
\* -b1 is the long entry and b2 the short one, as in bn254's fr
R256 == 97
Lambda256 == 61
MinusB1_256 == 8
B2_256 == 3

\* r = 1063 (top limb 2: the 384-bit branch); basis (31, -3), (3, 34)
R384 == 1063
Lambda384 == 719
MinusB1_384 == 3
B2_384 == 34

VARIABLES k, k1, k2, done

S256 == INSTANCE EndomorphismSplit WITH
          LimbBits <- MCLimbBits, modulus <- R256, cube_root <- Lambda256,
          endo_g1 <- (2^(4 * MCLimbBits) * MinusB1_256) \div R256,
          endo_g2 <- (2^(4 * MCLimbBits) * B2_256) \div R256,
          endo_minus_b1 <- MinusB1_256, endo_b2 <- B2_256,
          Scalars <- 0 .. 2 * R256 - 1, OutInit <- {0}

S384 == INSTANCE EndomorphismSplit WITH
          LimbBits <- MCLimbBits, modulus <- R384, cube_root <- Lambda384,
          endo_g1 <- (2^(6 * MCLimbBits) * B2_384) \div R384,
          endo_g2 <- (2^(6 * MCLimbBits) * MinusB1_384) \div R384,
          endo_minus_b1 <- MinusB1_384, endo_b2 <- B2_384,
          Scalars <- 0 .. 2 * R384 - 1, OutInit <- {0}

Spec256 == S256!Spec

\* see EndomorphismSplit!EndomorphismSplitCorrect
EndomorphismSplitCorrect256 == S256!EndomorphismSplitCorrect
EndomorphismSplitCorrect384 == S384!EndomorphismSplitCorrect

=============================================================================
