------------------------- MODULE MCUltraComposerCalls -------------------------
(***************************************************************************)
(* Three UltraComposer components that share no state: a RAM array, a ROM  *)
(* array (process_RAM_arrays and process_ROM_arrays treat every array      *)
(* alone) and the public-input bookkeeping of add_recursive_proof.         *)
(* ultra_call, chosen at the start, picks the one a behaviour exercises;   *)
(* the others stay as created, so the state counts add.                    *)
(*                                                                         *)
(* ROM: two indices, two values and up to four records, enough for a set   *)
(* followed by consistent and inconsistent reads, reads before the set,    *)
(* reads of an index never set, and records of one index in either order. *)
(* Recursion: four public inputs, proofs of one or two outputs, enough for *)
(* inputs set before and after a proof and for a second proof.            *)
(***************************************************************************)
EXTENDS MCRamTranscript, RomTranscript, RecursiveProof

MCRomSize == 2
MCRomValues == {0, 1}
MCMaxRomAccesses == 4

MCWitnesses == {0, 1}
MCMaxPublicInputs == 4
MCMaxProofOutputs == 2

VARIABLE ultra_call

UltraInit ==
  /\ ultra_call \in {"RAM", "ROM", "recursion"}
  /\ Init
  /\ RomInit
  /\ RecursiveInit

UltraNext ==
  \/ ultra_call = "RAM" /\ Next /\ UNCHANGED <<ultra_call, rom_vars, rp_vars>>
  \/ ultra_call = "ROM" /\ RomNext /\ UNCHANGED <<ultra_call, vars, rp_vars>>
  \/ ultra_call = "recursion" /\ RecursiveNext /\ UNCHANGED <<ultra_call, vars, rom_vars>>

UltraSpec == UltraInit /\ [][UltraNext]_<<ultra_call, vars, rom_vars, rp_vars>>

=============================================================================
