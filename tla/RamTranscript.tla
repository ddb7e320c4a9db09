---------------------------- MODULE RamTranscript ----------------------------
(***************************************************************************)
(* One RAM array of the UltraComposer (RamTranscript, ultra_composer.hpp): *)
(* the current value of each index (state), the access records and the    *)
(* access counter that gives each record its timestamp.  init, read and   *)
(* write append a record stamped with access_count and bump it; at        *)
(* finalize process_RAM_array sorts the records with RamRecord::operator< *)
(* and the consistency gates check each adjacent pair of the sorted list. *)
(* The bodies of the RAM operations are in the circuit constructor        *)
(* sources, not in this repository, and follow the specification; the    *)
(* records, their order and the state layout follow the header.           *)
(*                                                                         *)
(* A read record carries the value the prover assigns to its witness,     *)
(* which the gates, not the composer, must tie to memory: any value of    *)
(* Values is possible, the composer's own being state[index].             *)
(***************************************************************************)
EXTENDS Integers, Sequences, Functions, FiniteSetsExt

CONSTANTS
  ArraySize,          \* ram_array_size
  Values,             \* witness values written and read
  MaxAccesses,        \* bound on access_count
  TimestampModulus    \* 2^32: RamRecord::timestamp is a uint32_t

\* UNINITIALIZED_MEMORY_RECORD (UINT32_MAX), the state of an index never written
UNINITIALIZED_MEMORY_RECORD == "uninitialized"

READ == "READ"
WRITE == "WRITE"

VARIABLES
  state,              \* index -> value held, or UNINITIALIZED_MEMORY_RECORD
  records,            \* the RamRecords in program order
  access_count,       \* size_t counter of accesses
  sorted,             \* the records after process_RAM_array's sort
  finalised           \* process_RAM_array has run

vars == <<state, records, access_count, sorted, finalised>>

Indices == 0 .. ArraySize - 1

\* RamRecord with the fields the checks read
Record(index, ts, value, type) ==
  [index |-> index, timestamp |-> ts, value |-> value, access_type |-> type]

\* mutant: records ordered by index only, as RomRecord::operator< does
RamRecordLessIndexOnly(a, b) == a.index < b.index

\* RamRecord::operator<: by index, then by timestamp
RamRecordLess(a, b) ==
  a.index < b.index \/ (a.index = b.index /\ a.timestamp < b.timestamp)

\* create_RAM_array(ArraySize): every index uninitialised, no records
Init ==
  /\ state = [i \in Indices |-> UNINITIALIZED_MEMORY_RECORD]
  /\ records = <<>>
  /\ access_count = 0
  /\ sorted = <<>>
  /\ finalised = FALSE

\* a record stamped with the uint32_t cast of access_count, then the bump
Access(index, value, type) ==
  /\ ~finalised
  /\ access_count < MaxAccesses
  /\ records' = Append(records, Record(index, access_count % TimestampModulus, value, type))
  /\ access_count' = access_count + 1

\* init_RAM_element(index, value)
InitElement(index, value) ==
  /\ Access(index, value, WRITE)
  /\ state' = [state EXCEPT ![index] = value]
  /\ UNCHANGED <<sorted, finalised>>

\* write_RAM_array(index, value)
WriteArray(index, value) ==
  /\ Access(index, value, WRITE)
  /\ state' = [state EXCEPT ![index] = value]
  /\ UNCHANGED <<sorted, finalised>>

\* read_RAM_array(index): a read record whose value witness is assigned value
ReadArray(index, value) ==
  /\ Access(index, value, READ)
  /\ UNCHANGED <<state, sorted, finalised>>

\* the orders std::sort may leave: a permutation of the records in which no
\* record is less than one before it (equivalent records in any order)
SortedOrders(recs) ==
  LET D == 1 .. Len(recs) IN
  { [j \in D |-> recs[pi[j]]] :
      pi \in { p \in Bijection(D, D) :
                 \A j, k \in D : j < k => ~RamRecordLess(recs[p[k]], recs[p[j]]) } }

\* process_RAM_array: sort the records, then emit the consistency gates
ProcessRamArray ==
  /\ ~finalised
  /\ sorted' \in SortedOrders(records)
  /\ finalised' = TRUE
  /\ UNCHANGED <<state, records, access_count>>

Next ==
  \/ \E i \in Indices, v \in Values :
       InitElement(i, v) \/ WriteArray(i, v) \/ ReadArray(i, v)
  \/ ProcessRamArray

Spec == Init /\ [][Next]_vars

-----------------------------------------------------------------------------
(* The consistency gates and what they are meant to prove *)

\* RAM_CONSISTENCY_CHECK and RAM_TIMESTAMP_CHECK over the sorted list: the
\* first record of an index is a write; within an index the timestamps
\* increase, and a read repeats the value of the record before it
GatesAccept(s) ==
  \A j \in 1 .. Len(s) :
    IF j = 1 \/ s[j - 1].index # s[j].index
      THEN s[j].access_type = WRITE
      ELSE /\ s[j - 1].timestamp < s[j].timestamp
           /\ s[j].access_type = READ => s[j].value = s[j - 1].value

\* memory semantics in program order: every read returns the value of the
\* latest earlier write to its index, and there is one
ReadsConsistent(recs) ==
  \A p \in 1 .. Len(recs) :
    recs[p].access_type = READ =>
      LET writes == {q \in 1 .. p - 1 : recs[q].index = recs[p].index
                                       /\ recs[q].access_type = WRITE}
      IN writes # {} /\ recs[p].value = recs[Max(writes)].value

\* The sort-then-chain check of process_RAM_array is exactly RAM
\* consistency: after any sequence of init, write and read calls, with any
\* values assigned to the read witnesses, the gates over the records as
\* RamRecord::operator< sorts them accept if and only if every read returns
\* the latest value written before it to its index.
RamCheckIsMemoryConsistency ==
  finalised => (GatesAccept(sorted) <=> ReadsConsistent(records))

=============================================================================
