-------------------------- MODULE FieldConversion --------------------------
(***************************************************************************)
(* Construction of barretenberg field elements from machine integers, and  *)
(* their big-endian serialization (field.hpp: the integer constructors,    *)
(* read, write).  A field element is its Montgomery-form integer data      *)
(* (x * R mod p, R = 2^(limb width * limbs)); the limb arithmetic of       *)
(* field_impl (to/from Montgomery form, negation, reduce_once) is not in   *)
(* this repository and is modelled by what it computes modulo p.           *)
(*                                                                         *)
(* The widths are parameters: IntBits for int, LimbBits for one uint64_t   *)
(* limb.  An int is narrower than a limb, as 32 is narrower than 64.       *)
(***************************************************************************)
EXTENDS Integers, SequencesExt

CONSTANTS
  p,          \* the modulus, below 2^(LimbBits * NumLimbs)
  NumLimbs,   \* limbs of a field element
  LimbBits,   \* bits of a limb (uint64_t)
  IntBits     \* bits of an int

ASSUME IntBits < LimbBits /\ p < 2^(LimbBits * NumLimbs)

VARIABLES
  built_from, \* "none", "int", "unsigned" or "read"
  input,      \* the integer the element was built from, or the limbs read
  data        \* Montgomery form of the element (-1: not built yet)

vars == <<built_from, input, data>>

LimbModulus == 2^LimbBits
R == 2^(LimbBits * NumLimbs) % p
RInverse == CHOOSE r \in 0 .. p - 1 : (r * R) % p = 1

IntRange == -(2^(IntBits - 1)) .. 2^(IntBits - 1) - 1
INT_MIN == -(2^(IntBits - 1))

\* self_to_montgomery_form / from_montgomery_form
ToMontgomery(x) == (x * R) % p
FromMontgomery(m) == (m * RInverse) % p

\* static_cast<uint64_t>(x) of an int x: two's complement sign extension
ToLimb(x) == x % LimbModulus

\* -input on an int: undefined for INT_MIN.  The builds compute either the
\* wrapped 32-bit negation (INT_MIN again) or the negation after widening
\* to 64 bits (2^31); both are possible outcomes.
NegatedInt(x) ==
  IF x = INT_MIN THEN {INT_MIN, -x} ELSE {-x}

Init ==
  /\ built_from = "none"
  /\ input = 0
  /\ data = -1

\* field(const int input): negative inputs go through their magnitude,
\* to_montgomery_form, self_neg and self_reduce_once
ConstructFromInt(i) ==
  /\ data = -1
  /\ built_from' = "int"
  /\ input' = i
  /\ IF i < 0
       THEN \E m \in NegatedInt(i) : data' = (p - ToMontgomery(ToLimb(m))) % p
       ELSE data' = ToMontgomery(ToLimb(i))

\* field(unsigned int / unsigned long / unsigned long long / uint64_t)
ConstructFromUnsigned(u) ==
  /\ data = -1
  /\ built_from' = "unsigned"
  /\ input' = u
  /\ data' = ToMontgomery(u)

\* big-endian limbs of an integer below 2^(LimbBits * NumLimbs)
BigEndianLimbs(x) ==
  [k \in 1 .. NumLimbs |-> (x \div 2^(LimbBits * (NumLimbs - k))) % LimbModulus]

\* mutant: limbs written least significant first
WriteLittleEndian(m) == Reverse(BigEndianLimbs(FromMontgomery(m)))

\* write(buffer, value): from_montgomery_form, most significant limb first
Write(m) == BigEndianLimbs(FromMontgomery(m))

\* read(buffer): limbs most significant first, then to_montgomery_form
Read(limbs) ==
  ToMontgomery(FoldLeft(LAMBDA acc, l : acc * LimbModulus + l, 0, limbs))

\* read a serialized element: the bytes of any reduced value
Deserialize(v) ==
  /\ data = -1
  /\ built_from' = "read"
  /\ input' = Write(ToMontgomery(v))
  /\ data' = Read(Write(ToMontgomery(v)))

Next ==
  \/ \E i \in IntRange : ConstructFromInt(i)
  \/ \E u \in 0 .. LimbModulus - 1 : ConstructFromUnsigned(u)
  \/ \E v \in 0 .. p - 1 : Deserialize(v)

Spec == Init /\ [][Next]_vars

-----------------------------------------------------------------------------
(* Properties *)

\* Serialization round trip: read(write(x)) == x for every element the
\* constructors and read can produce, as persisted keys and proofs need.
SerializationRoundTrip ==
  data # -1 => Read(Write(data)) = data

\* field(int i) is the residue of i: its value, out of Montgomery form, is
\* i mod p for every int, INT_MIN included.
IntConstructorIsResidue ==
  built_from = "int" => FromMontgomery(data) = input % p

=============================================================================
