--------------------------- MODULE KeccakPadding ---------------------------
(***************************************************************************)
(* The message schedule of stdlib keccak<Composer>::hash: padding of the   *)
(* input byte_array to whole rate blocks, the per-word byte swap to        *)
(* little-endian lanes, the split into 64-bit limbs, and the grouping of   *)
(* limbs into blocks that sponge_absorb feeds to keccakf1600.              *)
(*                                                                         *)
(* Byte values are abstracted to what the properties tell apart: a message *)
(* byte is named by its position, a constant byte by its value.  A limb is *)
(* the 8 bytes of the 64-bit integer field_ct(slice) denotes, most         *)
(* significant first; the KECCAK_FORMAT_INPUT lookup that re-encodes it in *)
(* sparse base-11 form is a bijection on 64-bit words and is not modelled  *)
(* here, and neither is the permutation itself.                            *)
(***************************************************************************)
EXTENDS Integers, Vectors

CONSTANTS
  BLOCK_SIZE,       \* rate of Keccak-256 in bytes (1088 / 8)
  WORD_SIZE,        \* bytes per lane
  MaxInputSize      \* largest input length hashed

LIMBS_PER_BLOCK == BLOCK_SIZE \div WORD_SIZE

ASSUME BLOCK_SIZE % WORD_SIZE = 0

VARIABLES
  input_size,       \* length of the input hashed (-1: not yet called)
  absorbed          \* block -> [limb -> 8 bytes, most significant first]

vars == <<input_size, absorbed>>

MessageByte(i) == <<"msg", i>>
ConstByte(v) == <<"const", v>>

Init ==
  /\ input_size = -1
  /\ absorbed = EmptyVector

\* field_ct(block_bytes.slice(...)) of one limb, with the short last slice
\* shifted up by the missing bytes
Limb(block_bytes, i) ==
  LET byte_size == Len0(block_bytes) IN
  IF i * WORD_SIZE + WORD_SIZE > byte_size
    THEN [j \in 0 .. WORD_SIZE - 1 |->
            IF i * WORD_SIZE + j < byte_size THEN block_bytes[i * WORD_SIZE + j]
                                             ELSE ConstByte(0)]
    ELSE Slice(block_bytes, i * WORD_SIZE, WORD_SIZE)

\* mutant: blocks_length rounded up to whole blocks, leaving no padding
\* block when the input fills its last block
BlockBytesRoundedUp(n) ==
  LET blocks_length == BLOCK_SIZE * ((n + BLOCK_SIZE - 1) \div BLOCK_SIZE)
      zero_padded == [i \in 0 .. blocks_length - 1 |->
                        IF i < n THEN MessageByte(i) ELSE ConstByte(0)]
      padded == [[zero_padded EXCEPT ![n] = ConstByte(1)]
                   EXCEPT ![blocks_length - 1] = ConstByte(128)]
  IN [i \in DOMAIN padded |->
        padded[WORD_SIZE * (i \div WORD_SIZE) + ((WORD_SIZE - 1) - (i % WORD_SIZE))]]

\* the byte_array of hash() after padding and the byte swap, for an input
\* of n bytes
BlockBytes(n) ==
  LET blocks == n \div BLOCK_SIZE
      blocks_length == BLOCK_SIZE * (blocks + 1)
      \* block_bytes.write(padding_bytes): zero bytes up to blocks_length
      zero_padded == [i \in 0 .. blocks_length - 1 |->
                        IF i < n THEN MessageByte(i) ELSE ConstByte(0)]
      \* set_byte(input_size, 0x1), then set_byte(size - 1, 0x80)
      padded == [[zero_padded EXCEPT ![n] = ConstByte(1)]
                   EXCEPT ![blocks_length - 1] = ConstByte(128)]
  IN \* reverse the bytes of every 8-byte word
     [i \in DOMAIN padded |->
        padded[WORD_SIZE * (i \div WORD_SIZE) + ((WORD_SIZE - 1) - (i % WORD_SIZE))]]

\* hash(input) on a circuit input of n bytes: limb conversion and the block
\* loop of sponge_absorb
Hash(n) ==
  LET block_bytes == BlockBytes(n)
      num_limbs == Len0(block_bytes) \div WORD_SIZE
      converted_buffer == [i \in 0 .. num_limbs - 1 |-> Limb(block_bytes, i)]
      \* sponge_absorb: num_blocks = l / (BLOCK_SIZE / 8)
      num_blocks == num_limbs \div (BLOCK_SIZE \div 8)
  IN
  /\ input_size' = n
  /\ absorbed' = [b \in 0 .. num_blocks - 1 |->
                    [j \in 0 .. LIMBS_PER_BLOCK - 1 |->
                       converted_buffer[b * LIMBS_PER_BLOCK + j]]]

\* hash() keeps no state between calls (keccak_state is a local of each
\* call), so one call per behaviour covers every call of a program.
Next == input_size = -1 /\ \E n \in 0 .. MaxInputSize : Hash(n)

Spec == Init /\ [][Next]_vars

-----------------------------------------------------------------------------
(* Keccak reads lane j of a block as the little-endian word of rate bytes  *)
(* 8j .. 8j+7; the k-th rate byte the permutation sees is therefore        *)

AbsorbedLength == Len0(absorbed) * BLOCK_SIZE

AbsorbedByte(k) ==
  absorbed[k \div BLOCK_SIZE][(k % BLOCK_SIZE) \div WORD_SIZE][(WORD_SIZE - 1) - (k % WORD_SIZE)]

\* the multi-rate padding pad10*1 of FIPS 202 / the original Keccak: the
\* message, a 1 bit, zeros, a final 1 bit; one padding byte is 0x81
Pad10Star1(n) ==
  LET pad_len == BLOCK_SIZE - (n % BLOCK_SIZE) IN
  [k \in 0 .. n + pad_len - 1 |->
     CASE k < n -> MessageByte(k)
       [] pad_len = 1 -> ConstByte(129)
       [] k = n -> ConstByte(1)
       [] k = n + pad_len - 1 -> ConstByte(128)
       [] OTHER -> ConstByte(0)]

\* Every byte of the message reaches the permutation at its place, in the
\* number of blocks Keccak uses for that length, with every padding byte
\* other than the first and last zero: the padding, byte swap, limb split
\* and block grouping of hash() lose, move and invent nothing.
MessageAbsorbedInPlace ==
  input_size >= 0 =>
    LET ref == Pad10Star1(input_size) IN
    /\ AbsorbedLength = Len0(ref)
    /\ \A k \in 0 .. AbsorbedLength - 1 :
         (k < input_size \/ (k > input_size /\ k < AbsorbedLength - 1))
           => AbsorbedByte(k) = ref[k]

\* The blocks absorbed are exactly the pad10*1 padding of the input, as
\* hash_native, against which the tests compare hash(), computes it.
PaddingIsPad10Star1 ==
  input_size >= 0 =>
    LET ref == Pad10Star1(input_size) IN
    /\ AbsorbedLength = Len0(ref)
    /\ \A k \in 0 .. AbsorbedLength - 1 : AbsorbedByte(k) = ref[k]

=============================================================================
