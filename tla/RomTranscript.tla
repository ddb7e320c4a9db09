---------------------------- MODULE RomTranscript ----------------------------
(***************************************************************************)
(* One ROM array of the UltraComposer (RomTranscript, ultra_composer.hpp): *)
(* the value set at each index (state) and the records of the accesses.    *)
(* set_ROM_element writes an index once and records it; read_ROM_array     *)
(* records a read; at finalize process_ROM_array sorts the records with    *)
(* RomRecord::operator<, which compares the index alone, and the           *)
(* ROM_CONSISTENCY_CHECK gates compare each adjacent pair.  The bodies of  *)
(* the ROM operations are not in this repository and follow the            *)
(* specification; the record order and the state layout follow the header. *)
(*                                                                         *)
(* An element is one value (set_ROM_element_pair's second column behaves   *)
(* alike).  A read record carries the value the prover assigns to its      *)
(* witness, any value of Values.                                           *)
(***************************************************************************)
EXTENDS Integers, Sequences, Functions

CONSTANTS
  RomSize,            \* the array size given to create_ROM_array
  RomValues,          \* witness values set and read
  MaxRomAccesses      \* bound on records

\* UNINITIALIZED_MEMORY_RECORD in state[index][0]: never set; an integer
\* no witness value takes
ROM_UNINITIALIZED == -1

VARIABLES
  rom_state,          \* index -> value set, or ROM_UNINITIALIZED
  rom_records,        \* the RomRecords in call order
  rom_failed,         \* the composer's failed flag
  rom_sorted,         \* the records after process_ROM_array's sort
  rom_finalised       \* process_ROM_array has run

rom_vars == <<rom_state, rom_records, rom_failed, rom_sorted, rom_finalised>>

RomIndices == 0 .. RomSize - 1

RomRecord(index, value) == [index |-> index, value |-> value]

\* mutant: records ordered by value, the index ignored
RomRecordLessByValue(a, b) == a.value < b.value

\* RomRecord::operator<: by index only
RomRecordLess(a, b) == a.index < b.index

\* create_ROM_array(RomSize)
RomInit ==
  /\ rom_state = [i \in RomIndices |-> ROM_UNINITIALIZED]
  /\ rom_records = <<>>
  /\ rom_failed = FALSE
  /\ rom_sorted = <<>>
  /\ rom_finalised = FALSE

RomAccess(index, value) ==
  /\ ~rom_finalised
  /\ Len(rom_records) < MaxRomAccesses
  /\ rom_records' = Append(rom_records, RomRecord(index, value))

\* set_ROM_element(index, value): a second set of an index is a fatal
\* usage error, so an index is set once
SetRomElement(index, value) ==
  /\ rom_state[index] = ROM_UNINITIALIZED
  /\ RomAccess(index, value)
  /\ rom_state' = [rom_state EXCEPT ![index] = value]
  /\ UNCHANGED <<rom_failed, rom_sorted, rom_finalised>>

\* read_ROM_array(index): reading an index never set fails the circuit
ReadRomArray(index, value) ==
  /\ RomAccess(index, value)
  /\ rom_failed' = (rom_failed \/ rom_state[index] = ROM_UNINITIALIZED)
  /\ UNCHANGED <<rom_state, rom_sorted, rom_finalised>>

\* the orders std::sort may leave under RomRecord::operator<
RomSortedOrders(recs) ==
  LET D == 1 .. Len(recs) IN
  { [j \in D |-> recs[pi[j]]] :
      pi \in { p \in Bijection(D, D) :
                 \A j, k \in D : j < k => ~RomRecordLess(recs[p[k]], recs[p[j]]) } }

\* process_ROM_array: sort the records, then emit the consistency gates
ProcessRomArray ==
  /\ ~rom_finalised
  /\ rom_sorted' \in RomSortedOrders(rom_records)
  /\ rom_finalised' = TRUE
  /\ UNCHANGED <<rom_state, rom_records, rom_failed>>

RomNext ==
  \/ \E i \in RomIndices, v \in RomValues :
       SetRomElement(i, v) \/ ReadRomArray(i, v)
  \/ ProcessRomArray

RomSpec == RomInit /\ [][RomNext]_rom_vars

-----------------------------------------------------------------------------
(* Properties *)

\* ROM_CONSISTENCY_CHECK over the sorted list: adjacent records of one
\* index carry one value
RomGatesAccept(s) ==
  \A j \in 2 .. Len(s) : s[j - 1].index = s[j].index => s[j - 1].value = s[j].value

\* every record of an index, reads included, has the value set there
RomReadsConsistent ==
  \A j \in 1 .. Len(rom_records) :
    rom_records[j].value = rom_state[rom_records[j].index]

\* every index with a record was set by the time process_ROM_array runs
RomRecordedIndicesSet ==
  \A j \in 1 .. Len(rom_records) : rom_state[rom_records[j].index] # ROM_UNINITIALIZED

\* Sorting by index alone is enough for ROM, without the failed flag: once
\* every index that has records was set, the gates over the records as
\* RomRecord::operator< sorts them accept exactly when every read returns
\* the value set at its index -- reads issued before the set included, and
\* whatever order std::sort leaves records of one index in.
RomCheckIsReadConsistency ==
  (rom_finalised /\ RomRecordedIndicesSet) =>
    (RomGatesAccept(rom_sorted) <=> RomReadsConsistent)

=============================================================================
