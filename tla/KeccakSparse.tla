---------------------------- MODULE KeccakSparse ----------------------------
(***************************************************************************)
(* keccak<Composer>'s permutation on the sparse base-11 form of the lanes  *)
(* (keccak.cpp): a lane of bits b_k is the integer sum b_k * 11^k, xor is *)
(* addition followed by normalisation (odd digits to 1, even to 0), and    *)
(* theta's rotation by one bit uses the "twisted" lane 11 * lane + msb.    *)
(*                                                                         *)
(* Each round function is one action with the witness values it computes;  *)
(* the plookup tables are modelled by the functions they tabulate          *)
(* (normalize_sparse, the chi table).  Lanes have W bits instead of 64, so *)
(* the rho offsets are taken mod W and the round constants truncated to W  *)
(* bits, as Keccak-f[25 W] defines them.                                   *)
(***************************************************************************)
EXTENDS Integers, Functions

CONSTANTS
  W,                \* bits per lane (64 in the code)
  NumRounds,        \* rounds of keccakf1600
  ROTATIONS,        \* lane -> Keccak rho offset for 64-bit lanes
  RC,               \* round -> low bits of the Keccak round constant
  LIMBS_PER_BLOCK,  \* lanes per absorbed block
  Blocks,           \* blocks hash() may absorb, as bit lanes
  MaxBlocks,        \* bound on blocks absorbed
  ByteBits          \* bits of an output byte (8 in the code)

BASE == 11

VARIABLES
  state,            \* lane -> sparse integer
  state_msb,        \* lane -> the msb field_ct kept beside it
  twisted_state,    \* lane -> 11 * lane + msb, computed before theta
  round,            \* current round of keccakf1600
  step,             \* next round function, or "done" between blocks
  blocks,           \* blocks absorbed so far
  output            \* the bytes sponge_squeeze returns, <<>> before it runs

vars == <<state, state_msb, twisted_state, round, step, blocks, output>>

Bits == 0 .. W - 1
LaneIndices == 0 .. 24

SumOf(f) == FoldFunction(LAMBDA x, y : x + y, 0, f)
Digit(v, k) == (v \div BASE^k) % BASE

\* a lane of bits in sparse form
Sparse(bits) == SumOf([k \in Bits |-> bits[k] * BASE^k])

\* normalize_sparse over the n low digits: even digits to 0, odd to 1
NormalizeSparse(v, n) == SumOf([k \in 0 .. n - 1 |-> (Digit(v, k) % 2) * BASE^k])

Rotation(i) == ROTATIONS[i] % W
RoundConstant(r) == [k \in Bits |-> (RC[r] \div 2^k) % 2]
SPARSE_RC(r) == Sparse(RoundConstant(r))

\* CHI_OFFSET: a 1 in every digit
CHI_OFFSET == SumOf([k \in Bits |-> BASE^k])

\* KECCAK_CHI_OUTPUT per digit: 1 + 2a - b + c  |->  a xor (~b and c)
ChiTable == <<0, 0, 1, 1, 0>>
ChiNormalize(v) == SumOf([k \in Bits |-> ChiTable[Digit(v, k) + 1] * BASE^k])

\* normalize_and_rotate<lane_index>(limb, msb): split the limb at
\* 11^(W - r), normalise both slices and swap them; msb is the top digit of
\* the last slice looked up, the left slice when there is one.
NormalizeAndRotate(limb, r) ==
  LET right_bits == W - r
      left == limb \div BASE^right_bits
      right == limb % BASE^right_bits
      left_normalized == NormalizeSparse(left, r)
      right_normalized == NormalizeSparse(right, right_bits)
  IN IF r = 0
       THEN [out |-> right_normalized, msb |-> Digit(right_normalized, right_bits - 1)]
       ELSE [out |-> left_normalized + right_normalized * BASE^r,
             msb |-> Digit(left_normalized, r - 1)]

\* compute_twisted_state
Twisted(st, msb) == [i \in LaneIndices |-> st[i] * BASE + msb[i]]

Init ==
  /\ state = [i \in LaneIndices |-> 0]
  /\ state_msb = [i \in LaneIndices |-> 0]
  /\ twisted_state = [i \in LaneIndices |-> 0]
  /\ round = 0
  /\ step = "done"
  /\ blocks = 0
  /\ output = <<>>

\* one iteration of sponge_absorb's block loop, up to compute_twisted_state;
\* the converted input limb is the sparse lane and its msb the top bit
SpongeAbsorb(b) ==
  LET first == [i \in LaneIndices |->
                  IF i < LIMBS_PER_BLOCK THEN [out |-> Sparse(b[i]), msb |-> b[i][W - 1]]
                                         ELSE [out |-> 0, msb |-> 0]]
      later == [i \in LaneIndices |->
                  IF i < LIMBS_PER_BLOCK
                    THEN NormalizeAndRotate(state[i] + Sparse(b[i]), 0)
                    ELSE [out |-> state[i], msb |-> state_msb[i]]]
      new == IF blocks = 0 THEN first ELSE later
      new_state == [i \in LaneIndices |-> new[i].out]
      new_msb == [i \in LaneIndices |-> new[i].msb]
  IN
  /\ step = "done"
  /\ blocks < MaxBlocks
  /\ state' = new_state
  /\ state_msb' = new_msb
  /\ twisted_state' = Twisted(new_state, new_msb)
  /\ round' = 0
  /\ step' = "theta"
  /\ blocks' = blocks + 1
  /\ UNCHANGED output

\* mutant: the shifted and non-shifted columns swapped
ThetaDSwapped(i) ==
  LET C(x) == SumOf([y \in 0 .. 4 |-> twisted_state[x + 5 * y]])
      D == C((i + 1) % 5) + C((i + 4) % 5) * BASE
      D_quotient == D \div BASE
      hi == D_quotient \div BASE^W
      mid == D_quotient - hi * BASE^W
  IN NormalizeSparse(mid, W)

\* theta: column sums of twisted lanes, D = C[i-1] + 11 C[i+1], drop the
\* lowest and highest slices, normalise the middle (KECCAK_THETA_OUTPUT)
\* and add D into every lane of the column
ThetaD(i) ==
  LET C(x) == SumOf([y \in 0 .. 4 |-> twisted_state[x + 5 * y]])
      D == C((i + 4) % 5) + C((i + 1) % 5) * BASE
      D_quotient == D \div BASE
      hi == D_quotient \div BASE^W
      mid == D_quotient - hi * BASE^W
  IN NormalizeSparse(mid, W)

Theta ==
  /\ step = "theta"
  /\ state' = [i \in LaneIndices |-> state[i] + ThetaD(i % 5)]
  /\ step' = "rho"
  /\ UNCHANGED <<state_msb, twisted_state, round, blocks, output>>

\* rho: normalize_and_rotate<i> on every lane, keeping its msb
Rho ==
  LET nr == [i \in LaneIndices |-> NormalizeAndRotate(state[i], Rotation(i))] IN
  /\ step = "rho"
  /\ state' = [i \in LaneIndices |-> nr[i].out]
  /\ state_msb' = [i \in LaneIndices |-> nr[i].msb]
  /\ step' = "pi"
  /\ UNCHANGED <<twisted_state, round, blocks, output>>

\* pi: state[v * 5 + u] = B[5 * y + x] with u = y, v = 2x + 3y; the msb
\* values are not moved
Pi ==
  /\ step = "pi"
  /\ state' = [j \in LaneIndices |->
                 state[CHOOSE i \in LaneIndices :
                         (i \div 5) + 5 * ((2 * (i % 5) + 3 * (i \div 5)) % 5) = j]]
  /\ step' = "chi"
  /\ UNCHANGED <<state_msb, twisted_state, round, blocks, output>>

\* chi: 2A + CHI_OFFSET - B + C, through KECCAK_CHI_OUTPUT, which also
\* yields the msb of each output lane
Chi ==
  LET Row(i, d) == state[5 * (i \div 5) + (((i % 5) + d) % 5)]
      out == [i \in LaneIndices |->
                ChiNormalize(Row(i, 0) + Row(i, 0) + CHI_OFFSET - Row(i, 1) + Row(i, 2))]
  IN
  /\ step = "chi"
  /\ state' = out
  /\ state_msb' = [i \in LaneIndices |-> Digit(out[i], W - 1)]
  /\ step' = "iota"
  /\ UNCHANGED <<twisted_state, round, blocks, output>>

\* mutant: the twisted state is skipped one round early
IotaSkipsTwistEarly ==
  LET nr == NormalizeAndRotate(state[0] + SPARSE_RC(round), 0)
      new_state == [state EXCEPT ![0] = nr.out]
      new_msb == [state_msb EXCEPT ![0] = nr.msb]
  IN
  /\ step = "iota"
  /\ state' = new_state
  /\ state_msb' = new_msb
  /\ twisted_state' = IF round < NumRounds - 2 THEN Twisted(new_state, new_msb)
                                               ELSE twisted_state
  /\ round' = (round + 1) % NumRounds
  /\ step' = IF round + 1 = NumRounds THEN "done" ELSE "theta"
  /\ UNCHANGED <<blocks, output>>

\* iota: add SPARSE_RC[round] to lane 0, normalise it, and compute the
\* twisted state for the next round unless this is the last one
Iota ==
  LET nr == NormalizeAndRotate(state[0] + SPARSE_RC(round), 0)
      new_state == [state EXCEPT ![0] = nr.out]
      new_msb == [state_msb EXCEPT ![0] = nr.msb]
  IN
  /\ step = "iota"
  /\ state' = new_state
  /\ state_msb' = new_msb
  /\ twisted_state' = IF round # NumRounds - 1 THEN Twisted(new_state, new_msb)
                                               ELSE twisted_state
  /\ round' = (round + 1) % NumRounds
  /\ step' = IF round + 1 = NumRounds THEN "done" ELSE "theta"
  /\ UNCHANGED <<blocks, output>>

\* KECCAK_FORMAT_OUTPUT: the sparse lane read back as binary, digit k to
\* bit k (the table has entries for digits 0 and 1)
FormatOutput(v) == SumOf([k \in Bits |-> Digit(v, k) * 2^k])

BytesPerLane == W \div ByteBits

\* sponge_squeeze after the last block: lanes 0 to 3 formatted, each split
\* into its big-endian bytes (byte_array(limb, 8)) and written in reverse
\* order, least significant byte first
SpongeSqueeze ==
  LET limb_bytes(x) == [j \in 0 .. BytesPerLane - 1 |->
                          (x \div 2^(ByteBits * (BytesPerLane - 1 - j))) % 2^ByteBits]
      little_endian(x) == [j \in 1 .. BytesPerLane |-> limb_bytes(x)[BytesPerLane - j]]
  IN
  /\ step = "done"
  /\ blocks > 0
  /\ output' = [j \in 1 .. 4 * BytesPerLane |->
                  little_endian(FormatOutput(state[(j - 1) \div BytesPerLane]))
                    [((j - 1) % BytesPerLane) + 1]]
  /\ step' = "squeezed"
  /\ UNCHANGED <<state, state_msb, twisted_state, round, blocks>>

Next ==
  \/ \E b \in Blocks : SpongeAbsorb(b)
  \/ Theta \/ Rho \/ Pi \/ Chi \/ Iota
  \/ SpongeSqueeze

Spec == Init /\ [][Next]_vars

-----------------------------------------------------------------------------
(* Properties *)

\* the bit lanes the sparse lanes stand for: the parity of each digit
LaneBits(v) == [k \in Bits |-> Digit(v, k) % 2]

\* Every round function, the sponge's xor-absorb included, computes on the
\* sparse form exactly what the bitwise Keccak-f step computes, and the
\* squeezed bytes are the Keccak digest bytes of the first four lanes.
Reference == INSTANCE KeccakF WITH lanes <- [i \in LaneIndices |-> LaneBits(state[i])],
                                   digest <- output

KeccakRoundsRefined == Reference!Spec

\* When theta reads the twisted lanes they are current: every lane is
\* normalised (digits 0 or 1, below 11^W), its msb is its top bit and its
\* twisted value is 11 * lane + msb.  Theta's column sums then have digits
\* of at most 10, so base 11 never carries.
TwistedStateIsCurrent ==
  step = "theta" =>
    \A i \in LaneIndices :
      /\ state[i] < BASE^W
      /\ \A k \in Bits : Digit(state[i], k) \in {0, 1}
      /\ state_msb[i] = Digit(state[i], W - 1)
      /\ twisted_state[i] = state[i] * BASE + state_msb[i]

=============================================================================
