------------------------ MODULE MCPermutationMapping ------------------------
(* Two constructors, one per behaviour: perm_call, fixed in the initial   *)
(* state, picks which one the behaviour builds, and the other stays in its *)
(* initial state, so the two state spaces add.                            *)
(*                                                                         *)
(* Standard width-3 circuits: up to three variables, one gate and two    *)
(* public inputs in a 5-row circuit, enough for classes that span public   *)
(* input rows and several columns, duplicate public inputs, padding rows,  *)
(* and merges of a two-member class with another class.                    *)
(*                                                                         *)
(* Generalized (UltraPlonk) width-3 circuits of up to two variables, one   *)
(* gate and one public input in a 3-row circuit, with tags 1 and 2: enough *)
(* for a class tagged t whose tau(t) class has an equal or a different     *)
(* value, tags merged by assert_equal, tagged public inputs, and tags with  *)
(* no tau entry.                                                           *)
EXTENDS PermutationMapping

MCWidth == 3
MCCircuitSize == 5
MCValues == {0, 1}
MCMaxVariables == 3
MCMaxGates == 1
MCMaxPublicInputs == 2

VARIABLES
  perm_call,
  g_variables, g_real_variable_index, g_gates, g_public_inputs, g_failed,
  real_variable_tags, tau, current_tag

G == INSTANCE GeneralizedPermutation
       WITH Width <- 3, CircuitSize <- 3, Values <- {0, 1},
            MaxVariables <- 2, MaxGates <- 1, MaxPublicInputs <- 1, MaxTag <- 2,
            variables <- g_variables, real_variable_index <- g_real_variable_index,
            gates <- g_gates, public_inputs <- g_public_inputs, failed <- g_failed

g_vars == <<g_variables, g_real_variable_index, g_gates, g_public_inputs, g_failed,
            real_variable_tags, tau, current_tag>>

-----------------------------------------------------------------------------
(* Each invariant is checked in the behaviours of its own constructor.     *)

\* PermutationMapping's CopyCyclesAreEqualityClasses: the copy cycles
\* compute_wire_copy_cycles builds are the equality classes of the standard
\* circuit's cells
StandardCopyCyclesAreEqualityClasses ==
  perm_call = "standard" => CopyCyclesAreEqualityClasses

\* PermutationMapping's GrandProductBalanced: the Honk sigma and id
\* encodings balance the grand product of a satisfying standard circuit
StandardGrandProductBalanced ==
  perm_call = "standard" => GrandProductBalanced

\* GeneralizedPermutation's GenPermutationChecksTagMultisets: with tags, the
\* generalized sigma and id balance exactly when every tag's multiset equals
\* that of its tau partner
GenPermutationChecksTagMultisets ==
  perm_call = "generalized" => G!GenPermutationChecksTagMultisets

PermInit ==
  /\ perm_call \in {"standard", "generalized"}
  /\ Init
  /\ G!GInit

PermNext ==
  \/ perm_call = "standard" /\ Next /\ UNCHANGED <<perm_call, g_vars>>
  \/ perm_call = "generalized" /\ G!GNext /\ UNCHANGED <<perm_call, vars>>

PermSpec == PermInit /\ [][PermNext]_<<perm_call, vars, g_vars>>

=============================================================================
