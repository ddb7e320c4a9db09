-------------------------- MODULE MCKeccakSparse --------------------------
(* Keccak-f[100]: 4-bit lanes, the 24 rounds and rho offsets of           *)
(* keccakf1600 taken mod 4, the round constants' low 4 bits, the rate of  *)
(* Keccak-256 (17 lanes), and three blocks of which hash() absorbs up to   *)
(* two, so that both branches of sponge_absorb's block loop run.          *)
EXTENDS KeccakSparse

MCW == 4
MCNumRounds == 24
MCLimbsPerBlock == 17
MCMaxBlocks == 2

\* two 2-bit "bytes" per 4-bit lane, so that the byte order is observable
MCByteBits == 2

\* keccak::ROTATIONS, lane x + 5 y
MCRotations ==
  LET r == <<0, 1, 62, 28, 27, 36, 44, 6, 55, 20, 3, 10, 43, 25, 39,
             41, 45, 15, 21, 8, 18, 2, 61, 56, 14>>
  IN [i \in 0 .. 24 |-> r[i + 1]]

\* keccak::RC, low byte of each round constant
MCRC ==
  LET c == <<1, 130, 138, 0, 139, 1, 129, 9, 138, 136, 9, 10, 139, 139,
             137, 3, 2, 128, 10, 10, 129, 128, 1, 8>>
  IN [r \in 0 .. 23 |-> c[r + 1]]

\* a block of 17 lanes whose bits follow from a seed
BlockOf(seed) ==
  [i \in 0 .. MCLimbsPerBlock - 1 |->
     [k \in 0 .. MCW - 1 |-> ((seed * (i + 3) + k * 5 + i * i) \div 2) % 2]]

MCBlocks == {BlockOf(0), BlockOf(1), BlockOf(6)}

=============================================================================
