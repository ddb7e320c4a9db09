# TLA+ models of the barretenberg proof-system core

These modules model the parts of barretenberg in this repository's `src/` whose control flow, bookkeeping or arithmetic is worth model checking:

- the copy-constraint machinery: the variable store, the permutation mapping, and the Honk and Plonk sigma/id encodings;
- UltraPlonk's generalized permutation: tags and tau;
- the Keccak circuit gadget: padding and lane layout, the sparse base-11 rounds, and the squeeze;
- the Honk prover's work queue;
- field elements: integer construction, serialization and the endomorphism split;
- the UltraComposer's RAM and ROM transcripts, its range constraints, the public inputs of a recursive proof, and its estimate of the finished circuit's size (`get_num_gates`).

Each module is translated from the C++ source. `PROJECT.json` does four jobs:

- maps every modelling definition to the lines it stands for;
- lists the runs and their mutants;
- lists the findings;
- lists the hazards, with the properties that cover them.

Where a function body is not in `src/`, its definition is modelled from `spec.md` and marked `spec_modelled`. That covers the circuit constructor base, the RAM and ROM operation bodies, `set_public_input`, the calls that change what the gate estimate reads, and the range-list helpers (`create_new_range_constraint`, `decompose_into_default_range`, `process_range_lists`).

## How the parts interact

- **Circuit construction.** Circuit code calls the constructor operations: `add_variable`, `assert_equal`, `set_public_input`, gate creation, tags, and RAM operations.
- **Finalize.** The permutation mapper reads the variable store and the wires, and produces the sigma and id polynomials. The UltraComposer also sorts each RAM and ROM transcript and emits the consistency gates, and checks every range list.
- **Proving.** The prover commits to polynomials through the work queue, which appends to the transcript. The verifier replays the transcript in the same order.
- **Field arithmetic.** The Keccak gadget, and the field elements with their endomorphism split, are used by circuits and the prover.

## Modules

| Module | Models | State / actions |
|---|---|---|
| `Vectors` | helpers | 0-indexed vectors as functions `0..n-1` (`Push`, `Len0`) |
| `PermutationMapping` | variable store and `prover.hpp` permutation_helper | `variables`, `real_variable_index`, `gates`, `public_inputs`, `failed`; actions `AddVariable`, `SetPublicInput`, `AssertEqual`, `CreateGate`; pure operators `CopyCycle` (compute_wire_copy_cycles), `Sigmas` (compute_permutation_mapping<width,false>), `HonkSigma`, `HonkId`, and `StandardHonkSigmaPermutations` (compute_standard_honk_sigma_permutations), over which the properties are stated |
| `GeneralizedPermutation` | tags, tau, `compute_permutation_mapping<width,true>`, `compute_standard_plonk_lagrange_polynomial` | adds `real_variable_tags`, `tau`, `current_tag`; actions `CreateTag`, `GetNewTag`, `AssignTag` and tag-aware `GAssertEqual`; id/sigma tag writes and the Plonk coset encoding; `PlonkGeneralizedSigmaPermutations` (compute_plonk_generalized_sigma_permutations: the Lagrange values of sigma and id; their monomial and coset-FFT forms are other bases of the same polynomials and are left out) |
| `KeccakPadding` | `keccak::hash` padding, byte swap, limb split, block grouping | one call per behaviour, on an input of `n` bytes |
| `KeccakF` | bitwise Keccak-f[25W] and its digest byte order | abstract specification of the rounds and squeeze |
| `KeccakSparse` | `keccak.cpp` sparse rounds | `state`, `state_msb`, `twisted_state`, `round`, `step`, `blocks`, `output`; actions `SpongeAbsorb`, `Theta`, `Rho`, `Pi`, `Chi`, `Iota`, `SpongeSqueeze`; refines `KeccakF` |
| `WorkQueue` | `work_queue.hpp` | `work_item_queue`, `transcript`, history `added`; `add_commitment`, `process_queue`, `put_scalar_multiplication_data`, `flush_queue`; a worker that takes items in queue order (no code in `src/` calls `put_scalar_multiplication_data` or `flush_queue`, so this driver is modelled, not translated) |
| `FieldConversion` | `field(int)`, unsigned constructors, `read`/`write` | an element is its Montgomery-form integer |
| `EndomorphismSplit` | `split_into_endomorphism_scalars` and its `_384` variant | one call: `k` in, `k1`, `k2` out |
| `RamTranscript` | one RAM array of the UltraComposer | `state`, `records`, `access_count`, `sorted`, `finalised`; `InitElement`, `WriteArray`, `ReadArray`, `ProcessRamArray` |
| `RomTranscript` | one ROM array of the UltraComposer | `rom_state`, `rom_records`, `rom_failed`, `rom_sorted`, `rom_finalised`; `SetRomElement`, `ReadRomArray`, `ProcessRomArray` |
| `GateCount` | `get_num_gates_split_into_components`, `get_num_gates` | `num_gates`, `rom_arrays`, `ram_arrays` (set elements, record count, `access_count`), `range_lists` (target -> size); `CreateGate`, `CreateRomArray`, `RomAccess`, `CreateRamArray`, `RamAccess`, `CreateNewRangeConstraint`; the estimate `get_num_gates` as an operator |
| `RecursiveProof` | `add_recursive_proof` and the public inputs | `public_inputs`, `failed`, `contains_recursive_proof`, `recursive_proof_public_input_indices`, history `proof_outputs`; `SetPublicInput`, `AddRecursiveProof` |
| `RangeConstraint` | `create_range_constraint` and the range lists | `range_lists` (target -> values), history `constrained`, `finalised`; `CreateRangeConstraint` (both branches), `ProcessRangeLists` |

The `MC*` modules instantiate these with small constants. Five of them use more than plain constants:

- `MCEndomorphismSplit` builds two toy fields with a cube root of unity and a reduced lattice basis. One field takes each branch of the split.
- `MCKeccakSparse` runs Keccak-f[100]: 4-bit lanes, all 24 rounds, and the Keccak-256 rate.
- `MCPermutationMapping`, `MCFieldCalls` and `MCUltraComposerCalls` are sum compositions. A variable fixed in the initial state picks one component per behaviour: a standard or a generalized (UltraPlonk) circuit, the latter an `INSTANCE` of `GeneralizedPermutation` with its variables renamed; a field conversion or a 384-bit split; or a RAM array, a ROM array, or the recursive-proof public inputs. The other components stay in their initial state. These components never share state (the composer processes each memory array alone, and `add_recursive_proof` touches only the public inputs), so one behaviour per component loses nothing, and the state counts add instead of multiplying.

### Correspondence notes

- **`KeccakSparse` lane encoding.** A sparse lane is the integer `sum b_k 11^k`. The lookup tables are modelled by the functions they tabulate. The refinement maps each lane to the parities of its digits and `output` to `digest`. The squeeze reads the raw digits, so a lane that is not normalised when squeezed shows up as a refinement violation.
- **`RamTranscript` sort.** `std::sort` may leave records that compare equivalent in any order. `ProcessRamArray` therefore chooses any permutation consistent with `RamRecord::operator<`.
- **`RamTranscript` read witnesses.** A read record carries any value the prover may assign to the witness. The gates, not the composer, must tie the read to memory.
- **`RomTranscript`.** `UNINITIALIZED_MEMORY_RECORD` (`UINT32_MAX`) becomes -1, a value no witness takes here. A second `set_ROM_element` of an index is a fatal usage error, so it is a guard. A read of an index not yet set raises `rom_failed`. The property does not rely on that flag: it assumes only that every index with records was set by finalize, so it also covers reads issued before the set.
- **`RecursiveProof`.** `failure()` records the error and returns, so a second `add_recursive_proof` raises `failed` and still appends its outputs and their positions. The spec gives `set_public_input` no deduplication, so it appends.
- **`RangeConstraint` targets.** A list's `target_range` is its largest admitted value. `DEFAULT_PLOOKUP_RANGE_SIZE = 2^14 - 1` is the target of a 14-bit limb, and the gate estimate sizes a RAM timestamp list by `access_count - 1`.
- **`GateCount`.** The estimate is translated line by line, with `size_t` arithmetic taken modulo `2^SizeBits`, so `access_count - 1` of an empty array wraps. Each ROM or RAM access also adds one gate to `num_gates`. The estimate's comments say this ("each ROM gate adds +1 extra gate", "each RAM gate adds +2 extra gates"), and `create_ROM_gate` and `create_RAM_gate` are the calls that make those gates. `finalize` is not in `src/`, so the model does not set `circuit_finalised`.
- **`EndomorphismSplit` truncation.** The out-parameters keep their old upper limbs, because only `data[0]` and `data[1]` are written.

## Runs

There are 11 runs: six pass and five find a violation.

| Run | Properties | Bounds | Result |
|---|---|---|---|
| `permutation` | standard circuits: `TypeOK`; `StandardCopyCyclesAreEqualityClasses` (sigma's cycles are exactly each class's cells, with the public-input edge repaired as the verifier's delta does); `StandardGrandProductBalanced`. Generalized circuits: `GenPermutationChecksTagMultisets`: whenever every class's tag has a tau entry, the generalized grand product balances iff the tag multisets match | standard: width 3, circuit size 5, 3 variables, values {0,1}, 1 gate, 2 public inputs; generalized: width 3, size 3, 2 variables, 1 gate, 1 public input, tags 1..2 | pass, 58,288 states (29,889 + 28,399) |
| `keccak_layout` | `MessageAbsorbedInPlace` | Keccak-256 rate 136, every length 0..273 | pass, 275 states |
| `keccak_pad10star1` | `PaddingIsPad10Star1` | same | **violation** at length 135 |
| `keccak_sparse_rounds` | `TwistedStateIsCurrent`; `KeccakRoundsRefined` (rounds, second-block absorb and squeeze byte order refine `KeccakF`) | W = 4, 24 rounds, 3 candidate blocks, up to 2 absorbed, 2-bit bytes | pass, 1,465 states |
| `work_queue` | `TranscriptFollowsQueueOrder`: each commitment reaches the transcript at most once, under its label, in queue order | 8 commitments | pass, 165 states |
| `field_calls` | `SerializationRoundTrip`; `EndomorphismSplitCorrect384`: `k = k1 - k2 lambda` and both short up to sign | p = 251, two 4-bit limbs, 3-bit int; split r = 1063 (top 3-bit limb 2), every k in 0..2r-1 | pass, 4,529 states |
| `field_int_min` | `IntConstructorIsResidue` | p = 251, two 4-bit limbs, 3-bit int | **violation** at INT_MIN when it wraps |
| `endomorphism_split_256` | `EndomorphismSplitCorrect256` | r = 97, every k in 0..2r-1 | **violation** at k = 33 |
| `ultra_composer_calls` | `RamCheckIsMemoryConsistency`: the gates over the sorted RAM records accept iff every read returns the latest earlier write; `RomCheckIsReadConsistency`: once every index with records is set, the gates over the index-sorted ROM records accept iff every read returns the value set at its index, reads before the set included; `RecursiveProofIndicesLocateOutputs`: in a circuit not failed, `recursive_proof_public_input_indices` holds one proof's positions and each locates its output among the public inputs| per array kind: 2 indices, values {0,1}, 4 accesses, every order and read witness; recursion: 4 public inputs, proofs of 1 or 2 outputs over 2 witnesses | pass, 16,829 states |
| `gate_estimate` | `GateEstimateNeverDecreases`: no call lowers `get_num_gates` | gate width 4, 8-bit `size_t`, one ROM and one RAM array of one element, 17 records per array, range lists of target 16 (at most 2 variables), 1 explicit gate | **violation** in 21 states: the 17th RAM access, with a list of target 16 present, lowers the estimate from 57 to 55 (or `create_new_range_constraint(v, 16)` after it, 58 to 55) |
| `range_constraint_short_path` | `RangeConstraintExact`: after `process_range_lists`, the circuit accepts iff every constrained value fits its `num_bits` | 2-bit default limbs, num_bits 1..5, values 0..33, 2 calls | **violation** at `create_range_constraint(2, 1)` |

Every property of a passing run has a mutant in `PROJECT.json`: a plausible bug in a mapped definition, which TLC must then catch under the same configuration.

### Why these bounds are enough

- **`permutation`.** Three variables and two public inputs give the following cases:
  - cycles through public-input rows and gate rows;
  - one variable used as a public input twice;
  - merges after use;
  - a three-member class, and the merge of a two-member class with another class.
- **`permutation`, generalized circuits.** The bounds give the cases below:
  - a class whose tau class holds an equal value, and one whose tau class holds a different value;
  - tags merged by `assert_equal`;
  - tagged public inputs;
  - a tag with no tau entry.
- **Keccak layout.** The lengths checked cover every remainder modulo the rate, and inputs of one, two and three blocks.
- **Keccak sparse rounds.** The run executes all 24 rounds and both branches of the absorb loop. Two-bit "bytes" make the per-lane byte reversal observable.
- **Endomorphism split.** The fields copy bn254's shape: `-b1` is the long basis entry and `b2` the short one. Every scalar `reduce_once` can receive is checked.
- **RAM.** Four accesses over two indices cover the following cases:
  - reads before any write;
  - a write followed by a stale read;
  - interleaved indices;
  - equivalent records under the sort.

  Five accesses take minutes to check, so the run stops at four. The same bounds for ROM reach a set followed by a consistent and an inconsistent read, reads before the set, and both sorted orders of records of one index. Four public inputs allow inputs set before and after a proof, and a second proof of one output after a first one.
- **Gate estimate.** 17 accesses take `max_timestamp` from the wrapped value of an empty array up to 16. That is `1 << 4`, the target of `create_range_constraint(v, 4)`. Its timestamp list (5 gates) costs more than a new list of one variable (2 gates), and more than the 3 gates that one access adds. With target 3, the 2-bit default limb, TLC finds a drop of 1 after an `init_RAM_element`. That counterexample also depends on the unset-element term, so the run uses 16.
- **Range constraints.** Two-bit default limbs make the long branch split 3-, 4- and 5-bit values into two or three limbs. `num_bits` 1 and 2 take the short branch. With num_bits 3..5 alone, the run passes (10,508 states), so the violation comes from the short branch only.

### Fairness

No fairness is assumed, and every run checks safety only. The one component with a driver that could be asked to finish, the work queue, has no caller in `src/` for its put and flush, so a liveness property would be a claim about the modelled worker rather than the code. Their specifications stop by design: a finished hash, a returned split, a finalised array. Those configurations set `CHECK_DEADLOCK FALSE`.

## Findings

- **`keccak.cpp:569`: wrong padding for 135-byte inputs.** For an input of 135 mod 136 bytes, the 0x01 and 0x80 padding bytes fall on the same byte. The byte gets 0x80 instead of pad10*1's 0x81.
- **`part_002:116`: `field(INT_MIN)` is undefined behaviour.** In a build where the negation wraps, the element becomes `-(2^64 - 2^31)` mod p.
- **`part_002:382`: the 256-bit endomorphism split is wrong when `t1` is negative.**
  - Cause: `t1` is negative when the rounding errors satisfy `e1·(-b1) < e2·b2`, and only its two low limbs are kept.
  - Effect: `k1 - k2·lambda ≠ k`.
  - How rare: for bn254 the bad scalars are about a 2^-64 fraction, which random tests will not reach.

The `_384` variant is correct, but its `k2` is short only up to sign.

- **`ultra_composer.hpp:220`: the short range constraint admits 2^num_bits.** For `num_bits <= DEFAULT_PLOOKUP_RANGE_BITNUM`, `create_range_constraint` puts the variable into the list of target `1ULL << num_bits`. Every other target in the composer is the largest admitted value, so this list also admits `2^num_bits`, which does not fit in `num_bits` bits. TLC finds `create_range_constraint(v = 2, num_bits = 1)` accepted. The long branch is exact.

- **`ultra_composer.hpp:308`: the gate estimate can fall when the circuit grows.** `get_num_gates_split_into_components` drops a RAM array's timestamp range gates whenever some range list has the target `access_count - 1`. The comment calls this a correction for double counting. TLC's shortest counterexamples, with gate width 4, have 21 states and end in one of two steps:
  - In the trace TLC usually reports, `create_new_range_constraint(v, 16)` comes first (State 3: a list of one variable, 2 gates; 16 is the target `create_range_constraint(v, 4)` uses). Then a RAM array is created and accessed 16 times. With `max_timestamp` 15, its timestamp list counts 5 gates, and the estimate is 17 + 33 + 2 + 5 = 57. The 17th access adds its gate and 2 record gates, but it moves `max_timestamp` to 16, the target of the existing list, so the 5 gates are dropped: 18 + 35 + 2 = 55.
  - In the other trace the 17 accesses come first, and `create_new_range_constraint(v, 16)` is the last step. It adds a list of 2 gates and drops the 5, so the estimate falls from 58 to 55.

  Either call only adds to the circuit, so at least one of the two estimates is wrong. `spec.md` leaves this bookkeeping as an open question. Before the violation, the run also checks the step from an empty RAM array to one access. There `max_timestamp` wraps to `SIZE_MAX` and `max_timestamp + padding` wraps back to 0, so the empty array costs one range gate and the wrap is harmless.

## Not modelled, and the plan

- **Variable store operation bodies.** These are in the circuit constructor base, outside `src/`, so they are modelled from the spec.
- **ROM pair operations and unset elements.** `set_ROM_element_pair` and `read_ROM_array_pair` behave like the single-value operations and are left out. How `process_ROM_array` treats an element that is never set is not in `src/`. The gate estimate's two gates per unset element suggest padding.
- **Ultra `finalize` and `get_total_circuit_size`.** `finalize`, `process_ROM_array`'s padding, and the step values `create_range_list` adds to a range list are not in `src/`. So the gate estimate is checked against the calls that grow the circuit, not against the gates `finalize` adds. `get_total_circuit_size` also reads the lookup tables, which are not modelled.
- **Keccak theta slices.** `theta` constrains its `hi` and `lo` slices with target `BASE = 11`, which admits 11. Whether the `KECCAK_THETA_OUTPUT` table then rejects a shifted slice depends on the lookup tables, which are not in `src/`. This is listed as an unchecked hazard.
- **Sort constraints with edges.** These feed the range lists and are not modelled.
- **`assert_equal_constant`.** It calls `put_constant_variable`, whose body is neither in `src/` nor described by the spec, so it is not modelled. Its raw read of `variables[a_idx]`, rather than the class value, could only differ from the class value after a failed `assert_equal`. The check is guarded by `!failed()`.
- **Proving-key polynomial store.** Two kinds of step are not modelled. The first is the wrappers' FFT steps (`compute_monomial_and_coset_fft_polynomials_from_lagrange`, `compute_monomial_and_coset_selector_forms`). The second is `compute_first_and_last_lagrange_polynomials`, plus the verification-key commitments in `composer_helper_lib.cpp`. These steps move polynomials between bases and commit to them over the SRS. Their order is set by the composer helpers' `compute_proving_key` and `compute_verification_key`, which are not in `src/`. The permutation properties are stated over the Lagrange values that the sigma wrappers compute.
- **Pure I/O and generated code.** The Standard Honk composer helper header declares functions and holds no logic. Also left out: the sha256 ACIR constraint (a straight-line call of a gadget not in `src/`), the Aztec3 constants (compile-time values, no state), tests and build files.
- **Further work.** Candidate next steps:
  - the field `uint256_t` conversions;
  - `StandardPlonkComposer`'s own state, if the circuit constructor's bodies become available.
