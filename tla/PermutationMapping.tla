------------------------- MODULE PermutationMapping -------------------------
(***************************************************************************)
(* The copy-constraint half of the circuit constructor.                    *)
(*                                                                         *)
(* State: the witness table (variables), its union-find aliasing           *)
(* (real_variable_index), the wire columns of the gates created so far and *)
(* the public inputs.  Actions: the constructor calls that change them     *)
(* (add_variable, set_public_input, assert_equal, create_*_gate).          *)
(*                                                                         *)
(* At finalize time permutation_helper.hpp turns that state into wire copy *)
(* cycles (compute_wire_copy_cycles), a sigma mapping                      *)
(* (compute_permutation_mapping<width, false>) and the Honk sigma / id     *)
(* polynomial values.  Those are pure operators of the state here, so      *)
(* every invariant below is a statement about the mapping the prover       *)
(* would build from every reachable circuit.                               *)
(*                                                                         *)
(* Vectors are 0-indexed functions, as in the C++ code: a variable index,  *)
(* a gate index and a row are the numbers the code uses.                   *)
(***************************************************************************)
EXTENDS Integers, FiniteSets, SequencesExt, Vectors

CONSTANTS
  Width,            \* program_width: number of wire columns
  CircuitSize,      \* key->circuit_size: rows of every wire column
  Values,           \* witness values a variable may take
  MaxVariables,     \* bound on add_variable calls
  MaxGates,         \* bound on gate-creation calls
  MaxPublicInputs   \* bound on set_public_input calls

ASSUME Width \in 3..4
ASSUME 0 \in Values
ASSUME MaxGates + MaxPublicInputs <= CircuitSize

VARIABLES
  variables,            \* index -> witness value (append-only)
  real_variable_index,  \* index -> representative of its equality class
  gates,                \* gate index -> [wire column -> variable index]
  public_inputs,        \* public input number -> variable index
  failed                \* the constructor's soft failure flag

vars == <<variables, real_variable_index, gates, public_inputs, failed>>

-----------------------------------------------------------------------------
VarIndices == 0 .. Len0(variables) - 1
Columns == 0 .. Width - 1
Rows == 0 .. CircuitSize - 1
Cells == Columns \X Rows            \* <<column, row>> of a wire polynomial

\* get_variable: the value the witness places for a variable index
GetVariable(v) == variables[real_variable_index[v]]

-----------------------------------------------------------------------------
(* Constructor operations *)

Init ==
  /\ variables = EmptyVector
  /\ real_variable_index = EmptyVector
  /\ gates = EmptyVector
  /\ public_inputs = EmptyVector
  /\ failed = FALSE

\* mutant: the new variable's representative is one past its own index
AddVariableOffByOne(x) ==
  /\ Len0(variables) < MaxVariables
  /\ variables' = Push(variables, x)
  /\ real_variable_index' = Push(real_variable_index, Len0(variables) + 1)
  /\ UNCHANGED <<gates, public_inputs, failed>>

\* add_variable(value): append the value; the new index is its own class.
AddVariable(x) ==
  /\ Len0(variables) < MaxVariables
  /\ variables' = Push(variables, x)
  /\ real_variable_index' = Push(real_variable_index, Len0(variables))
  /\ UNCHANGED <<gates, public_inputs, failed>>

\* set_public_input(witness_index): record the variable as the next
\* public input (its row is its position in public_inputs).
SetPublicInput(v) ==
  /\ Len0(public_inputs) < MaxPublicInputs
  /\ public_inputs' = Push(public_inputs, v)
  /\ UNCHANGED <<variables, real_variable_index, gates, failed>>

\* assert_equal(a, b): flag a failure when the two values differ, then move
\* every member of b's class to a's representative.
AssertEqual(a, b) ==
  LET a_real == real_variable_index[a]
      b_real == real_variable_index[b]
  IN
  /\ failed' = (failed \/ GetVariable(a) # GetVariable(b))
  /\ real_variable_index' =
       [i \in VarIndices |-> IF real_variable_index[i] = b_real
                               THEN a_real ELSE real_variable_index[i]]
  /\ UNCHANGED <<variables, gates, public_inputs>>

\* create_add_gate / create_mul_gate / create_poly_gate / create_bool_gate
\* and the small-range poly gate: each appends one row whose wire columns
\* hold the given variable indices.  Selectors do not enter the
\* permutation argument and are left out.
CreateGate(w) ==
  /\ Len0(gates) < MaxGates
  /\ gates' = Push(gates, w)
  /\ UNCHANGED <<variables, real_variable_index, public_inputs, failed>>

Next ==
  \/ \E x \in Values : AddVariable(x)
  \/ \E v \in VarIndices : SetPublicInput(v)
  \/ \E a, b \in VarIndices : AssertEqual(a, b)
  \/ \E w \in [Columns -> VarIndices] : CreateGate(w)

Spec == Init /\ [][Next]_vars

-----------------------------------------------------------------------------
(* compute_wire_copy_cycles *)

NumPublicInputs == Len0(public_inputs)
NumGates == Len0(gates)

CycleNode(wire, gate) == [wire_index |-> wire, gate_index |-> gate]

\* <<real variable, node>> in the order the two loops append them: first
\* (0,i),(1,i) for the i-th public input, then (j, i + #public inputs) for
\* wire j of gate i.
PublicInputEntries ==
  [k \in 1 .. 2 * NumPublicInputs |->
     LET i == (k - 1) \div 2 IN
     <<real_variable_index[public_inputs[i]], CycleNode((k - 1) % 2, i)>>]

\* mutant: gate rows not shifted past the public input rows
GateEntriesNoOffset ==
  [k \in 1 .. NumGates * Width |->
     LET i == (k - 1) \div Width
         j == (k - 1) % Width
     IN <<real_variable_index[gates[i][j]], CycleNode(j, i)>>]

GateEntries ==
  [k \in 1 .. NumGates * Width |->
     LET i == (k - 1) \div Width
         j == (k - 1) % Width
     IN <<real_variable_index[gates[i][j]], CycleNode(j, i + NumPublicInputs)>>]

\* copy_cycles[v]: the nodes of variable v, in insertion order
CopyCycle(v) ==
  LET s == SelectSeq(PublicInputEntries \o GateEntries, LAMBDA e : e[1] = v)
  IN [k \in DOMAIN s |-> s[k][2]]

-----------------------------------------------------------------------------
(* compute_permutation_mapping<width, generalized = false> *)

SubgroupElement(row, col, pi, tag) ==
  [row_index |-> row, column_index |-> col, is_public_input |-> pi, is_tag |-> tag]

\* every cell starts pointing at itself
IdentityMapping == [c \in Cells |-> SubgroupElement(c[2], c[1], FALSE, FALSE)]

\* mutant: the last node points at itself instead of wrapping to the first
NextCycleNodeIndexNoWrap(k, cycle) == IF k = Len(cycle) THEN k ELSE k + 1

\* sigmas[current] := next node of the cycle, the last node wrapping to the
\* first; one write per node, in the order the loop makes them
NextCycleNodeIndex(k, cycle) == IF k = Len(cycle) THEN 1 ELSE k + 1

CycleWrites(cycle) ==
  [k \in DOMAIN cycle |->
     LET cur == cycle[k]
         nxt == cycle[NextCycleNodeIndex(k, cycle)]
     IN <<<<cur.wire_index, cur.gate_index>>,
          SubgroupElement(nxt.gate_index, nxt.wire_index, FALSE, FALSE)>>]

SigmaWrites == FlattenSeq([v \in 1 .. Len0(variables) |-> CycleWrites(CopyCycle(v - 1))])

ApplyWrites(m, ws) == FoldLeft(LAMBDA acc, w : [acc EXCEPT ![w[1]] = w[2]], m, ws)

\* then sigma[0][i] of the i-th public input row is redirected to itself
\* and flagged as a public input
Sigmas ==
  LET m == ApplyWrites(IdentityMapping, SigmaWrites) IN
  [c \in Cells |->
     IF c[1] = 0 /\ c[2] < NumPublicInputs
       THEN [m[c] EXCEPT !.row_index = c[2], !.column_index = 0,
                         !.is_public_input = TRUE]
       ELSE m[c]]

-----------------------------------------------------------------------------
(* compute_honk_style_sigma_lagrange_polynomials_from_mapping and          *)
(* compute_standard_honk_id_polynomials                                    *)

HonkSigma(sigmas, c) ==
  LET e == sigmas[c] IN
  IF e.is_public_input
    THEN -(e.row_index + 1 + CircuitSize * e.column_index)
    ELSE e.row_index + CircuitSize * e.column_index

HonkId(c) == c[1] * CircuitSize + c[2]

\* compute_standard_honk_sigma_permutations: compute_permutation_mapping
\* <width, false>, then the Honk sigma value of every cell
StandardHonkSigmaPermutations ==
  LET sig == Sigmas IN [c \in Cells |-> HonkSigma(sig, c)]

-----------------------------------------------------------------------------
(* compute_witness: public input rows carry the input on the left and      *)
(* right wires and 0 elsewhere, gate rows the values of their variables,   *)
(* padding rows 0.                                                         *)

PublicInputValue(i) == GetVariable(public_inputs[i])

WireValue(c) ==
  LET col == c[1]
      row == c[2]
  IN CASE row < NumPublicInputs /\ col \in {0, 1} -> PublicInputValue(row)
       [] row >= NumPublicInputs /\ row < NumPublicInputs + NumGates ->
            GetVariable(gates[row - NumPublicInputs][col])
       [] OTHER -> 0

-----------------------------------------------------------------------------
(* Properties *)

UsedCells ==
  {c \in Cells : c[2] < NumPublicInputs /\ c[1] \in {0, 1}}
    \cup {c \in Cells : c[2] >= NumPublicInputs /\ c[2] < NumPublicInputs + NumGates}

\* the equality class (real variable index) a used cell belongs to
CellVariable(c) ==
  IF c[2] < NumPublicInputs
    THEN real_variable_index[public_inputs[c[2]]]
    ELSE real_variable_index[gates[c[2] - NumPublicInputs][c[1]]]

\* the cell a Honk sigma value points at.  A public input cell (0, i) has
\* sigma -(i + 1); the verifier's public-input delta stands in for the
\* edge (0, i) -> (1, i) that the override removed, so it is followed here.
SigmaTarget(sigma_polys, c) ==
  LET v == sigma_polys[c] IN
  IF v >= 0 THEN <<v \div CircuitSize, v % CircuitSize>> ELSE <<1, -v - 1>>

RECURSIVE Walk(_, _, _)
Walk(sigma_polys, c, seen) ==
  IF c \in seen THEN seen ELSE Walk(sigma_polys, SigmaTarget(sigma_polys, c), seen \cup {c})

TypeOK ==
  /\ variables \in [VarIndices -> Values]
  /\ real_variable_index \in [VarIndices -> VarIndices]
  /\ gates \in [0 .. NumGates - 1 -> [Columns -> VarIndices]]
  /\ public_inputs \in [0 .. NumPublicInputs - 1 -> VarIndices]
  /\ failed \in BOOLEAN

\* Copy constraints are exactly the equalities asserted: the Honk sigma
\* values built by compute_wire_copy_cycles, compute_permutation_mapping and
\* compute_honk_style_sigma_lagrange_polynomials_from_mapping form a
\* permutation of the cells whose cycles are precisely the sets of cells
\* holding variables of one equality class; unused cells are fixed points.
CopyCyclesAreEqualityClasses ==
  LET sig == StandardHonkSigmaPermutations IN
  /\ {SigmaTarget(sig, c) : c \in Cells} = Cells
  /\ \A c \in Cells :
       Walk(sig, c, {}) =
         IF c \in UsedCells
           THEN {d \in UsedCells : CellVariable(d) = CellVariable(c)}
           ELSE {c}

\* The honest witness satisfies the Honk grand product: the multiset of
\* (wire value, sigma) pairs, together with (public input i, n + i), equals
\* the multiset of (wire value, id) pairs together with (public input i,
\* -(i + 1)), which is what the public-input delta assumes of the mapping
\* the prover computes from the circuit.
CellBag(F(_)) == [x \in {F(c) : c \in Cells} |-> Cardinality({c \in Cells : F(c) = x})]

PublicInputBag(F(_)) ==
  [x \in {F(i) : i \in 0 .. NumPublicInputs - 1} |->
     Cardinality({i \in 0 .. NumPublicInputs - 1 : F(i) = x})]

GrandProductBalanced ==
  LET sig == StandardHonkSigmaPermutations IN
  CellBag(LAMBDA c : <<WireValue(c), sig[c]>>)
    (+) PublicInputBag(LAMBDA i : <<PublicInputValue(i), CircuitSize + i>>)
  = CellBag(LAMBDA c : <<WireValue(c), HonkId(c)>>)
    (+) PublicInputBag(LAMBDA i : <<PublicInputValue(i), -(i + 1)>>)

=============================================================================
