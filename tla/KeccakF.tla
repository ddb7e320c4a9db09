------------------------------ MODULE KeccakF ------------------------------
(***************************************************************************)
(* The Keccak sponge absorbing blocks into the Keccak-f[25 W] permutation, *)
(* written bit by bit as FIPS 202 defines it: theta, rho, pi, chi and iota *)
(* on 25 lanes of W bits, lane (x, y) at index x + 5 y.  Each step of the  *)
(* round is a step of this specification, so that the circuit's            *)
(* step functions can be compared with it one by one.                     *)
(***************************************************************************)
EXTENDS Integers, Functions

CONSTANTS
  W,                \* bits per lane
  NumRounds,        \* rounds of the permutation
  Rotation(_),      \* rho offset of lane i
  RoundConstant(_), \* iota constant of round r, as a lane
  LIMBS_PER_BLOCK,  \* lanes absorbed per block
  Blocks,           \* the blocks the sponge may absorb
  MaxBlocks,        \* bound on blocks absorbed
  ByteBits          \* bits of an output byte

VARIABLES
  lanes,            \* lane index -> [bit -> {0, 1}]
  round,            \* current round
  step,             \* next step: "theta", "rho", "pi", "chi", "iota" or "done"
  blocks,           \* blocks absorbed so far
  digest            \* the squeezed output bytes, <<>> before the squeeze

Bits == 0 .. W - 1
LaneIndices == 0 .. 24
ZeroLane == [k \in Bits |-> 0]

Xor(a, b) == [k \in Bits |-> (a[k] + b[k]) % 2]
SumBits(f) == FoldFunction(LAMBDA x, y : x + y, 0, f)
RotL(a, r) == [k \in Bits |-> a[(k - r) % W]]

Init ==
  /\ lanes = [i \in LaneIndices |-> ZeroLane]
  /\ round = 0
  /\ step = "done"
  /\ blocks = 0
  /\ digest = <<>>

\* the first block is the initial state; later blocks are xored into it
Absorb(b) ==
  /\ step = "done"
  /\ blocks < MaxBlocks
  /\ lanes' = [i \in LaneIndices |->
                 CASE i < LIMBS_PER_BLOCK /\ blocks = 0 -> b[i]
                   [] i < LIMBS_PER_BLOCK -> Xor(lanes[i], b[i])
                   [] blocks = 0 -> ZeroLane
                   [] OTHER -> lanes[i]]
  /\ round' = 0
  /\ step' = "theta"
  /\ blocks' = blocks + 1
  /\ UNCHANGED digest

ColumnParity(x) ==
  [k \in Bits |-> (lanes[x][k] + lanes[x + 5][k] + lanes[x + 10][k]
                   + lanes[x + 15][k] + lanes[x + 20][k]) % 2]

Theta ==
  LET D(x) == Xor(ColumnParity((x + 4) % 5), RotL(ColumnParity((x + 1) % 5), 1)) IN
  /\ step = "theta"
  /\ lanes' = [i \in LaneIndices |-> Xor(lanes[i], D(i % 5))]
  /\ step' = "rho"
  /\ UNCHANGED <<round, blocks, digest>>

Rho ==
  /\ step = "rho"
  /\ lanes' = [i \in LaneIndices |-> RotL(lanes[i], Rotation(i))]
  /\ step' = "pi"
  /\ UNCHANGED <<round, blocks, digest>>

\* lane (x, y) moves to (y, 2x + 3y)
PiTarget(i) == (i \div 5) + 5 * ((2 * (i % 5) + 3 * (i \div 5)) % 5)

Pi ==
  /\ step = "pi"
  /\ lanes' = [j \in LaneIndices |-> lanes[CHOOSE i \in LaneIndices : PiTarget(i) = j]]
  /\ step' = "chi"
  /\ UNCHANGED <<round, blocks, digest>>

Chi ==
  LET Row(i, d) == lanes[5 * (i \div 5) + (((i % 5) + d) % 5)] IN
  /\ step = "chi"
  /\ lanes' = [i \in LaneIndices |->
                 [k \in Bits |-> (Row(i, 0)[k] + (1 - Row(i, 1)[k]) * Row(i, 2)[k]) % 2]]
  /\ step' = "iota"
  /\ UNCHANGED <<round, blocks, digest>>

Iota ==
  /\ step = "iota"
  /\ lanes' = [lanes EXCEPT ![0] = Xor(lanes[0], RoundConstant(round))]
  /\ round' = (round + 1) % NumRounds
  /\ step' = IF round + 1 = NumRounds THEN "done" ELSE "theta"
  /\ UNCHANGED <<blocks, digest>>

\* the output: lanes 0 to 3, each lane's bytes least significant first, the
\* bits of a byte least significant first
BytesPerLane == W \div ByteBits

Squeeze ==
  /\ step = "done"
  /\ blocks > 0
  /\ digest' = [j \in 1 .. 4 * BytesPerLane |->
                  LET lane == (j - 1) \div BytesPerLane
                      byte == (j - 1) % BytesPerLane
                  IN  SumBits([t \in 0 .. ByteBits - 1 |->
                                 lanes[lane][ByteBits * byte + t] * 2^t])]
  /\ step' = "squeezed"
  /\ UNCHANGED <<lanes, round, blocks>>

Next ==
  \/ \E b \in Blocks : Absorb(b)
  \/ Theta \/ Rho \/ Pi \/ Chi \/ Iota
  \/ Squeeze

Spec == Init /\ [][Next]_<<lanes, round, step, blocks, digest>>

=============================================================================
