--------------------------- MODULE RangeConstraint ---------------------------
(***************************************************************************)
(* UltraComposer range constraints: create_range_constraint (the inline    *)
(* body in ultra_composer.hpp) either puts the variable into the range     *)
(* list of one target or decomposes it into default-range limbs; at        *)
(* finalize process_range_lists checks every list.  A range list of target *)
(* t admits a value v iff v <= t: t is the largest admitted value, as      *)
(* DEFAULT_PLOOKUP_RANGE_SIZE = 2^14 - 1 is the target of a 14-bit limb    *)
(* and the gate estimate matches a RAM array's timestamp list by its       *)
(* largest timestamp, access_count - 1.                                    *)
(*                                                                         *)
(* A variable is abstracted to its value.  The poly gate of the short      *)
(* branch (a - b = 0 with a = b = the variable) constrains nothing and is  *)
(* left out.  create_new_range_constraint, decompose_into_default_range   *)
(* and process_range_lists are not in the repository and follow the       *)
(* specification.                                                          *)
(***************************************************************************)
EXTENDS Integers, FiniteSets, TLC

CONSTANTS
  DEFAULT_PLOOKUP_RANGE_BITNUM,   \* bits of a default limb (14 in the code)
  Values,                         \* values of the constrained variables
  NumBits,                        \* num_bits arguments
  MaxConstraints                  \* bound on create_range_constraint calls

DEFAULT_PLOOKUP_RANGE_SIZE == 2^DEFAULT_PLOOKUP_RANGE_BITNUM - 1

VARIABLES
  range_lists,    \* target_range -> values of the variables in its list
  constrained,    \* history: the <<value, num_bits>> of each call
  finalised       \* process_range_lists has run

vars == <<range_lists, constrained, finalised>>

Init ==
  /\ range_lists = [t \in {} |-> {}]
  /\ constrained = {}
  /\ finalised = FALSE

\* create_new_range_constraint(v, target): add v to the list of target,
\* creating the list on first use
AddToRangeList(lists, v, target) ==
  IF target \in DOMAIN lists
    THEN [lists EXCEPT ![target] = @ \cup {v}]
    ELSE lists @@ (target :> {v})

\* decompose_into_default_range(v, num_bits): limbs of BITNUM bits, least
\* significant first, each checked against DEFAULT_PLOOKUP_RANGE_SIZE, the
\* most significant sized to the remaining bits; the accumulation gates
\* tie their weighted sum to v, so the limbs are v's own
DefaultRangeLimbs(v, num_bits) ==
  LET b == DEFAULT_PLOOKUP_RANGE_BITNUM
      last == (num_bits - 1) \div b
  IN { IF i < last
         THEN <<(v \div 2^(b * i)) % 2^b, DEFAULT_PLOOKUP_RANGE_SIZE>>
         ELSE <<v \div 2^(b * i), 2^(num_bits - b * i) - 1>>
       : i \in 0 .. last }

DecomposeIntoDefaultRange(lists, v, num_bits) ==
  LET limbs == DefaultRangeLimbs(v, num_bits)
      targets == {l[2] : l \in limbs}
  IN [t \in DOMAIN lists \cup targets |->
        (IF t \in DOMAIN lists THEN lists[t] ELSE {})
          \cup {l[1] : l \in {m \in limbs : m[2] = t}}]

\* create_range_constraint(variable_index, num_bits, msg)
CreateRangeConstraint(v, num_bits) ==
  /\ ~finalised
  /\ Cardinality(constrained) < MaxConstraints
  /\ range_lists' =
       IF num_bits <= DEFAULT_PLOOKUP_RANGE_BITNUM
         THEN AddToRangeList(range_lists, v, 2^num_bits)
         ELSE DecomposeIntoDefaultRange(range_lists, v, num_bits)
  /\ constrained' = constrained \cup {<<v, num_bits>>}
  /\ UNCHANGED finalised

\* process_range_lists at finalize
ProcessRangeLists ==
  /\ ~finalised
  /\ finalised' = TRUE
  /\ UNCHANGED <<range_lists, constrained>>

Next ==
  \/ \E v \in Values, b \in NumBits : CreateRangeConstraint(v, b)
  \/ ProcessRangeLists

Spec == Init /\ [][Next]_vars

-----------------------------------------------------------------------------
(* Properties *)

\* the sorted-list check of every range list: each value at most its target
RangeListsAccept ==
  \A t \in DOMAIN range_lists : \A x \in range_lists[t] : x <= t

\* What create_range_constraint(v, num_bits) is for: once the range lists
\* are processed, the circuit accepts exactly when every constrained value
\* fits in its num_bits bits -- on both branches, the single list of the
\* short one and the limb decomposition of the long one.
RangeConstraintExact ==
  finalised =>
    (RangeListsAccept <=> \A c \in constrained : c[1] < 2^c[2])

=============================================================================
