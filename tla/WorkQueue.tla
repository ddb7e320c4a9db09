----------------------------- MODULE WorkQueue -----------------------------
(***************************************************************************)
(* honk::work_queue: the prover queues commitments to compute              *)
(* (add_commitment) and the queue sends each result to the transcript,     *)
(* either by committing itself (process_queue, the native prover) or by    *)
(* forwarding results an external worker computed                          *)
(* (put_scalar_multiplication_data, then flush_queue).                     *)
(*                                                                         *)
(* A work item is named by its position in the order the prover queued     *)
(* it; its label and commit(item.mul_scalars) are both abstracted to that  *)
(* name, so a transcript entry <<label, commitment>> records under which   *)
(* label which polynomial's commitment went out.                          *)
(***************************************************************************)
EXTENDS Naturals, Sequences, SequencesExt

CONSTANTS
  MaxCommitments    \* bound on add_commitment calls in a proof

VARIABLES
  work_item_queue,  \* the queue, oldest first
  transcript,       \* <<label, commitment>> sent to the verifier, in order
  added,            \* history: every item the prover queued, in order
  puts              \* external worker: results of this queue put so far

vars == <<work_item_queue, transcript, added, puts>>

Init ==
  /\ work_item_queue = <<>>
  /\ transcript = <<>>
  /\ added = <<>>
  /\ puts = 0

\* add_to_queue(item): push_back, on wasm and native alike
AddToQueue(item) == work_item_queue' = Append(work_item_queue, item)

\* add_commitment(polynomial, label): queue a scalar multiplication
AddCommitment ==
  /\ Len(added) < MaxCommitments
  /\ AddToQueue(Len(added) + 1)
  /\ added' = Append(added, Len(added) + 1)
  /\ UNCHANGED <<transcript, puts>>

\* send_to_verifier(item.label, commit(item.mul_scalars)) of each item
Sent(items) == [k \in DOMAIN items |-> <<items[k], items[k]>>]

\* process_queue: commit every item and send it under its label, in queue
\* order, then clear the queue
ProcessQueue ==
  /\ transcript' = transcript \o Sent(work_item_queue)
  /\ work_item_queue' = <<>>
  /\ UNCHANGED <<added, puts>>

\* mutant: the count of scalar-multiplication items starts at one
PutScalarMultiplicationDataFromOne(result, n) ==
  /\ n + 2 <= Len(work_item_queue)
  /\ transcript' = Append(transcript, <<work_item_queue[n + 2], result>>)
  /\ UNCHANGED <<work_item_queue, added>>

\* put_scalar_multiplication_data(result, n): find the n-th (0-based)
\* scalar multiplication item and send result under its label at once;
\* the item stays queued.  With no n-th item the call does nothing.
PutScalarMultiplicationData(result, n) ==
  /\ n + 1 <= Len(work_item_queue)
  /\ transcript' = Append(transcript, <<work_item_queue[n + 1], result>>)
  /\ UNCHANGED <<work_item_queue, added>>

\* flush_queue: drop every queued item
FlushQueue ==
  /\ work_item_queue' = <<>>
  /\ UNCHANGED <<transcript, added>>

-----------------------------------------------------------------------------
(* Drivers.  A round of the prover queues commitments, then either runs    *)
(* process_queue (native) or hands the queue to an external worker that    *)
(* puts one result per item and then flushes.  No code in this repository  *)
(* calls put_scalar_multiplication_data or flush_queue of this queue, so   *)
(* the external worker is the driver the interface implies, not a caller's *)
(* translation, and no liveness is claimed for it.                         *)

\* the external worker commits item n itself: the result it puts is the
\* commitment to that item's polynomial
WorkerResult(n) == work_item_queue[n + 1]

NativeProcess ==
  /\ puts = 0
  /\ work_item_queue # <<>>
  /\ ProcessQueue

\* external worker putting results in queue order
PutInOrder ==
  /\ PutScalarMultiplicationData(WorkerResult(puts), puts)
  /\ puts' = puts + 1

ExternalFlush ==
  /\ puts > 0
  /\ puts = Len(work_item_queue)
  /\ FlushQueue
  /\ puts' = 0

\* the prover queues only between rounds, never while a worker holds the queue
ProverAdd == puts = 0 /\ AddCommitment

NextInOrder == ProverAdd \/ NativeProcess \/ PutInOrder \/ ExternalFlush

SpecInOrder == Init /\ [][NextInOrder]_vars

-----------------------------------------------------------------------------
(* Properties *)

\* What was sent, followed by what is still to be put, is exactly what was
\* queued, in order: send_to_verifier sees every commitment once, under its
\* own label, in the order the prover queued it, which is the order the
\* verifier replays.
TranscriptFollowsQueueOrder ==
  transcript \o Sent(SubSeq(work_item_queue, puts + 1, Len(work_item_queue))) = Sent(added)

=============================================================================
