---------------------------- MODULE RecursiveProof ----------------------------
(***************************************************************************)
(* UltraComposer::add_recursive_proof (ultra_composer.hpp): the outputs of *)
(* a verified inner proof become public inputs, and their positions in     *)
(* public_inputs are kept in recursive_proof_public_input_indices for the  *)
(* verifier.  A second call is flagged with failure(), which records the   *)
(* error and returns, so the call goes on making its outputs public.       *)
(*                                                                         *)
(* set_public_input is in the circuit constructor base, not in this        *)
(* repository, and follows the specification: it appends the variable.    *)
(* Positions are 0-based as in the code; public_inputs is a 1-based        *)
(* sequence, so position i is public_inputs[i + 1].                        *)
(***************************************************************************)
EXTENDS Integers, Sequences

CONSTANTS
  Witnesses,          \* witness indices made public
  MaxPublicInputs,    \* bound on public inputs
  MaxProofOutputs     \* bound on the outputs of one inner proof

VARIABLES
  public_inputs,                          \* variable indices, in order
  failed,                                 \* the composer's failed flag
  contains_recursive_proof,
  recursive_proof_public_input_indices,   \* 0-based positions
  proof_outputs                           \* history: the outputs of each call

rp_vars == <<public_inputs, failed, contains_recursive_proof,
             recursive_proof_public_input_indices, proof_outputs>>

RecursiveInit ==
  /\ public_inputs = <<>>
  /\ failed = FALSE
  /\ contains_recursive_proof = FALSE
  /\ recursive_proof_public_input_indices = <<>>
  /\ proof_outputs = <<>>

\* set_public_input(witness_index)
SetPublicInput(w) ==
  /\ Len(public_inputs) < MaxPublicInputs
  /\ public_inputs' = Append(public_inputs, w)
  /\ UNCHANGED <<failed, contains_recursive_proof,
                 recursive_proof_public_input_indices, proof_outputs>>

\* mutant: the position pushed is public_inputs.size(), one past the input
OutputPositionsPastEnd(n, k) == [j \in 1 .. k |-> n + j]

\* the values public_inputs.size() - 1 takes after each of k pushes onto a
\* list of n inputs
OutputPositions(n, k) == [j \in 1 .. k |-> n + j - 1]

\* add_recursive_proof(proof_output_witness_indices)
AddRecursiveProof(outputs) ==
  /\ Len(public_inputs) + Len(outputs) <= MaxPublicInputs
  /\ failed' = (failed \/ contains_recursive_proof)
  /\ contains_recursive_proof' = TRUE
  /\ public_inputs' = public_inputs \o outputs
  /\ recursive_proof_public_input_indices' =
       recursive_proof_public_input_indices
         \o OutputPositions(Len(public_inputs), Len(outputs))
  /\ proof_outputs' = Append(proof_outputs, outputs)

ProofOutputLists ==
  UNION {[1 .. k -> Witnesses] : k \in 1 .. MaxProofOutputs}

RecursiveNext ==
  \/ \E w \in Witnesses : SetPublicInput(w)
  \/ \E outs \in ProofOutputLists : AddRecursiveProof(outs)

RecursiveSpec == RecursiveInit /\ [][RecursiveNext]_rp_vars

-----------------------------------------------------------------------------
(* Properties *)

\* What the verifier reads from recursive_proof_public_input_indices: in a
\* circuit not failed, the indices are those of one inner proof, and each
\* locates that proof's output among the public inputs, however many
\* public inputs were set before and after the call.
RecursiveProofIndicesLocateOutputs ==
  (contains_recursive_proof /\ ~failed) =>
    /\ Len(proof_outputs) = 1
    /\ Len(recursive_proof_public_input_indices) = Len(proof_outputs[1])
    /\ \A j \in 1 .. Len(proof_outputs[1]) :
         LET pos == recursive_proof_public_input_indices[j] IN
           /\ pos + 1 \in 1 .. Len(public_inputs)
           /\ public_inputs[pos + 1] = proof_outputs[1][j]

=============================================================================
