--------------------------- MODULE MCRamTranscript ---------------------------
(***************************************************************************)
(* Two indices, two values and up to four accesses: enough for a read of  *)
(* an index written twice, reads of both indices interleaved with writes, *)
(* and reads before any write.  The timestamp modulus stands for 2^32 and *)
(* exceeds the access bound, as a circuit never reaches 2^32 accesses.    *)
(***************************************************************************)
EXTENDS RamTranscript

MCArraySize == 2
MCValues == {0, 1}
MCMaxAccesses == 4
MCTimestampModulus == 8

=============================================================================
