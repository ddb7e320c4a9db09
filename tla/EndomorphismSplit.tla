-------------------------- MODULE EndomorphismSplit --------------------------
(***************************************************************************)
(* field::split_into_endomorphism_scalars (field.hpp): one call splits a   *)
(* scalar k into k1, k2 with k = k1 - k2 * lambda (mod r), lambda the     *)
(* cube root of unity, using the precomputed lattice basis (-b1, b2) and  *)
(* the rounding constants g1, g2.  A modulus whose top limb is at least   *)
(* 2^62 takes split_into_endomorphism_scalars_384.                        *)
(*                                                                         *)
(* Values are the raw integers of the limbs: the caller passes k out of   *)
(* Montgomery form, mul_512 is the plain 512-bit product, and a field     *)
(* multiplication by the Montgomery-form cube root (or of a to_montgomery *)
(* value by a raw constant) yields the plain product mod r.  A limb has   *)
(* LimbBits bits instead of 64.                                            *)
(***************************************************************************)
EXTENDS Integers

CONSTANTS
  LimbBits,         \* bits of a limb (64 in the code)
  modulus,          \* r, the modulus of the field
  cube_root,        \* cube_root_of_unity(), lambda
  endo_g1,          \* Params::endo_g1
  endo_g2,          \* Params::endo_g2
  endo_minus_b1,    \* Params::endo_minus_b1
  endo_b2,          \* Params::endo_b2
  Scalars,          \* the scalars k passed in (below 2 r: reduce_once)
  OutInit           \* what k1 and k2 hold before the call

VARIABLES
  k,                \* the scalar
  k1, k2,           \* the out-parameters, as 4-limb integers
  done              \* the call has returned

vars == <<k, k1, k2, done>>

Limbs(n) == 2^(LimbBits * n)

\* modulus_3 >= 0x4000000000000000: the top limb has one of its two top bits set
Uses384 == modulus \div Limbs(3) >= 2^(LimbBits - 2)

ReduceOnce(x) == IF x >= modulus THEN x - modulus ELSE x

\* cube_root_of_unity(): the Params constant, for every field that splits
\* (the else branch, computing it from sqrt(-3), is never instantiated)
CubeRootOfUnity == cube_root

\* field operators on reduced operands: results mod r
FSub(a, b) == (a - b) % modulus
FMul(a, b) == (a * b) % modulus

\* split_into_endomorphism_scalars: c1 = (g2 k) >> 256, c2 = (g1 k) >> 256,
\* q1 = c1 * -b1, q2 = c2 * b2 (low limbs), t1 = q2 - q1, t2 = t1 beta + k;
\* only the two low limbs of k1 and k2 are written
Split256(kin, k1in, k2in) ==
  LET input == ReduceOnce(kin)
      c1_hi == (endo_g2 * input) \div Limbs(4)
      c2_hi == (endo_g1 * input) \div Limbs(4)
      q1_lo == (c1_hi * endo_minus_b1) % Limbs(4)
      q2_lo == (c2_hi * endo_b2) % Limbs(4)
      t1 == ReduceOnce(FSub(q2_lo, q1_lo))
      t2 == ReduceOnce((FMul(t1, CubeRootOfUnity) + input) % modulus)
      LowTwo(x, old) == (old \div Limbs(2)) * Limbs(2) + (x % Limbs(2))
  IN [k1 |-> LowTwo(t2, k1in), k2 |-> LowTwo(t1, k2in)]

\* mutant: k2_out = r2, the negation dropped
Split384Unnegated(kin, k1in, k2in) ==
  LET kf == ReduceOnce(kin)
      c1 == (kf * endo_g1) \div Limbs(6)
      c2 == (kf * endo_g2) \div Limbs(6)
      r2f == FSub(FMul(c1, endo_minus_b1), FMul(c2, endo_b2))
  IN [k1 |-> FSub(kf, FMul(r2f, CubeRootOfUnity)), k2 |-> r2f]

\* split_into_endomorphism_scalars_384: c1 = (k g1) >> 384,
\* c2 = (k g2) >> 384, r2 = c1 * -b1 - c2 * b2 in the field,
\* k1 = k - r2 beta, k2 = -r2, both whole field elements
Split384(kin, k1in, k2in) ==
  LET kf == ReduceOnce(kin)
      c1 == (kf * endo_g1) \div Limbs(6)
      c2 == (kf * endo_g2) \div Limbs(6)
      r2f == FSub(FMul(c1, endo_minus_b1), FMul(c2, endo_b2))
  IN [k1 |-> FSub(kf, FMul(r2f, CubeRootOfUnity)), k2 |-> (modulus - r2f) % modulus]

Init ==
  /\ k \in Scalars
  /\ k1 \in OutInit
  /\ k2 \in OutInit
  /\ done = FALSE

\* the call, with the branch on the modulus
Split ==
  LET out == IF Uses384 THEN Split384(k, k1, k2) ELSE Split256(k, k1, k2) IN
  /\ ~done
  /\ k1' = out.k1
  /\ k2' = out.k2
  /\ done' = TRUE
  /\ UNCHANGED k

Next == Split

Spec == Init /\ [][Next]_vars

-----------------------------------------------------------------------------
(* Properties *)

\* a half-width scalar, up to sign: it or its negation mod r is below 2^128
ShortUpToSign(x) == x % modulus < Limbs(2) \/ modulus - (x % modulus) < Limbs(2)

\* What the comment on the split and the endomorphism multiplication need:
\* the k1, k2 the call leaves satisfy k = k1 - k2 * lambda (mod r) and are
\* both half-width scalars, for every scalar k.
EndomorphismSplitCorrect ==
  done =>
    /\ (k1 - k2 * cube_root - k) % modulus = 0
    /\ ShortUpToSign(k1)
    /\ ShortUpToSign(k2)

=============================================================================
