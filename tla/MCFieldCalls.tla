--------------------------- MODULE MCFieldCalls ---------------------------
(***************************************************************************)
(* One call of the field API per behaviour: either a constructor or read   *)
(* (FieldConversion on a field of 251 elements in two 4-bit limbs, with a  *)
(* 3-bit int) or split_into_endomorphism_scalars on the 384-bit-branch     *)
(* field of MCEndomorphismSplit.  The calls share no state, so the         *)
(* behaviours of each are checked without the other's.                    *)
(***************************************************************************)
EXTENDS MCEndomorphismSplit

VARIABLES
  call,                     \* the entry point this behaviour calls
  built_from, input, data   \* FieldConversion's state

FC == INSTANCE FieldConversion WITH p <- 251, NumLimbs <- 2, LimbBits <- 4, IntBits <- 3

fc_vars == <<built_from, input, data>>
split_vars == <<k, k1, k2, done>>

Init ==
  /\ FC!Init
  /\ \/ call = "field" /\ k = 0 /\ k1 = 0 /\ k2 = 0 /\ done = FALSE
     \/ call = "split" /\ S384!Init

Next ==
  \/ call = "field" /\ FC!Next /\ UNCHANGED <<call, split_vars>>
  \/ call = "split" /\ S384!Next /\ UNCHANGED <<call, fc_vars>>

SpecCalls == Init /\ [][Next]_<<call, fc_vars, split_vars>>

\* see FieldConversion!SerializationRoundTrip
SerializationRoundTrip == FC!SerializationRoundTrip

=============================================================================
