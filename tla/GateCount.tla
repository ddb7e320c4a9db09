------------------------------ MODULE GateCount ------------------------------
(***************************************************************************)
(* UltraComposer::get_num_gates (ultra_composer.hpp): before finalize, the *)
(* size of the circuit is estimated from what finalize will add: per ROM   *)
(* array two gates per unset element, one per record and one more; per RAM *)
(* array NUMBER_OF_GATES_PER_RAM_ACCESS per unset element and per record,  *)
(* one more, and a range list over its timestamps up to                    *)
(* max_timestamp = access_count - 1, dropped when a range list of that     *)
(* target already exists; per range list its padded size over the gate    *)
(* width, plus one.                                                        *)
(*                                                                         *)
(* The state is what the estimate reads: num_gates, each array's set       *)
(* elements and record count, and each range list's size.  The calls that  *)
(* change it are in the circuit constructor base and in the memory and     *)
(* range code, not in this repository; they follow the specification: a   *)
(* gate-creation call adds a gate; a ROM or RAM access appends a record    *)
(* and creates its ROM or RAM gate (create_ROM_gate, create_RAM_gate: the  *)
(* gates the estimate's comments say finalize adds to), and a RAM access   *)
(* bumps access_count; create_new_range_constraint adds                    *)
(* a variable to the list of its target, creating the list on first use.   *)
(* size_t arithmetic wraps at 2^SizeBits.                                  *)
(***************************************************************************)
EXTENDS Integers, Sequences, FiniteSetsExt, TLC

CONSTANTS
  GateWidth,          \* ultra_settings::program_width
  SizeBits,           \* width of size_t
  MemorySize,         \* elements of each ROM and RAM array
  MaxArrays,          \* bound on ROM arrays and on RAM arrays
  MaxRecords,         \* bound on the records (and access_count) of an array
  RangeTargets,       \* targets given to create_new_range_constraint
  MaxRangeListSize,   \* bound on the variables of a range list
  MaxGates            \* bound on num_gates

NUMBER_OF_GATES_PER_RAM_ACCESS == 2
NUMBER_OF_ARITHMETIC_GATES_PER_RAM_ARRAY == 1

SizeT(n) == n % 2^SizeBits

VARIABLES
  num_gates,
  rom_arrays,     \* sequence of [set: indices set, records: count]
  ram_arrays,     \* sequence of [set: indices initialised, records, access_count]
  range_lists     \* target_range -> number of variable_indices

gc_vars == <<num_gates, rom_arrays, ram_arrays, range_lists>>

Elements == 0 .. MemorySize - 1

GateCountInit ==
  /\ num_gates = 0
  /\ rom_arrays = <<>>
  /\ ram_arrays = <<>>
  /\ range_lists = [t \in {} |-> 0]

\* any gate-creation call (create_add_gate, create_poly_gate, ...)
CreateGate ==
  /\ num_gates < MaxGates
  /\ num_gates' = num_gates + 1
  /\ UNCHANGED <<rom_arrays, ram_arrays, range_lists>>

CreateRomArray ==
  /\ Len(rom_arrays) < MaxArrays
  /\ rom_arrays' = Append(rom_arrays, [set |-> {}, records |-> 0])
  /\ UNCHANGED <<num_gates, ram_arrays, range_lists>>

\* set_ROM_element (set = TRUE) or read_ROM_array (set = FALSE)
RomAccess(id, j, set) ==
  /\ rom_arrays[id].records < MaxRecords
  /\ set => j \notin rom_arrays[id].set
  /\ rom_arrays' = [rom_arrays EXCEPT
                      ![id].set = IF set THEN @ \cup {j} ELSE @,
                      ![id].records = @ + 1]
  /\ num_gates' = num_gates + 1
  /\ UNCHANGED <<ram_arrays, range_lists>>

CreateRamArray ==
  /\ Len(ram_arrays) < MaxArrays
  /\ ram_arrays' = Append(ram_arrays, [set |-> {}, records |-> 0, access_count |-> 0])
  /\ UNCHANGED <<num_gates, rom_arrays, range_lists>>

\* init_RAM_element (init = TRUE), read_RAM_array or write_RAM_array
RamAccess(id, j, init) ==
  /\ ram_arrays[id].access_count < MaxRecords
  /\ ram_arrays' = [ram_arrays EXCEPT
                      ![id].set = IF init THEN @ \cup {j} ELSE @,
                      ![id].records = @ + 1,
                      ![id].access_count = @ + 1]
  /\ num_gates' = num_gates + 1
  /\ UNCHANGED <<rom_arrays, range_lists>>

\* create_new_range_constraint(variable_index, target_range)
CreateNewRangeConstraint(target) ==
  /\ target \in DOMAIN range_lists => range_lists[target] < MaxRangeListSize
  /\ range_lists' = IF target \in DOMAIN range_lists
                      THEN [range_lists EXCEPT ![target] = @ + 1]
                      ELSE range_lists @@ (target :> 1)
  /\ UNCHANGED <<num_gates, rom_arrays, ram_arrays>>

GateCountNext ==
  \/ CreateGate
  \/ CreateRomArray
  \/ CreateRamArray
  \/ \E id \in 1 .. Len(rom_arrays), j \in Elements, set \in BOOLEAN : RomAccess(id, j, set)
  \/ \E id \in 1 .. Len(ram_arrays), j \in Elements, init \in BOOLEAN : RamAccess(id, j, init)
  \/ \E t \in RangeTargets : CreateNewRangeConstraint(t)

GateCountSpec == GateCountInit /\ [][GateCountNext]_gc_vars

-----------------------------------------------------------------------------
(* get_num_gates_split_into_components and get_num_gates                   *)

\* the padding that rounds a list of n entries up to a multiple of the gate
\* width, with a whole extra row when n is exactly one row
Padding(n) ==
  ((GateWidth - (n % GateWidth)) % GateWidth) + (IF n = GateWidth THEN GateWidth ELSE 0)

\* two gates per unset element, one per record, one addition gate
RomCount ==
  MapThenSumSet(LAMBDA id : 2 * (MemorySize - Cardinality(rom_arrays[id].set))
                             + rom_arrays[id].records + 1,
                DOMAIN rom_arrays)

RamCount ==
  MapThenSumSet(LAMBDA id : NUMBER_OF_GATES_PER_RAM_ACCESS
                               * (MemorySize - Cardinality(ram_arrays[id].set))
                             + ram_arrays[id].records * NUMBER_OF_GATES_PER_RAM_ACCESS
                             + NUMBER_OF_ARITHMETIC_GATES_PER_RAM_ARRAY,
                DOMAIN ram_arrays)

\* max_timestamp = access_count - 1, in size_t
MaxTimestamp(id) == SizeT(ram_arrays[id].access_count - 1)

\* the gates of the range list over one RAM array's timestamps
RamRangeGates(id) ==
  LET m == MaxTimestamp(id)
  IN SizeT(m + Padding(m)) \div GateWidth + 1

\* ram_range_exists[i]: a range list with target max_timestamp is present
RamRangeExists(id) == \E t \in DOMAIN range_lists : t = MaxTimestamp(id)

RangeListGates(t) ==
  (range_lists[t] + Padding(range_lists[t])) \div GateWidth + 1

RangeCount ==
  MapThenSumSet(RangeListGates, DOMAIN range_lists)
  + MapThenSumSet(RamRangeGates, {id \in DOMAIN ram_arrays : ~RamRangeExists(id)})

\* get_num_gates before finalize
get_num_gates == num_gates + RomCount + RamCount + RangeCount

-----------------------------------------------------------------------------
(* Properties *)

\* Every composer call only adds to the circuit (a gate, a record, an
\* element set, a range-constrained variable), so the estimate of the
\* finished circuit's size get_num_gates returns should never go down from
\* one call to the next.
GateEstimateNeverDecreases == [][get_num_gates' >= get_num_gates]_gc_vars

=============================================================================
