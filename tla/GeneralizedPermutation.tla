----------------------- MODULE GeneralizedPermutation -----------------------
(***************************************************************************)
(* UltraPlonk's generalized permutation: the copy-constraint state of      *)
(* PermutationMapping plus a tag per equality class (real_variable_tags),  *)
(* the tag pairing tau and the tag counter current_tag, changed by         *)
(* create_tag, get_new_tag and assign_tag (ultra_composer.hpp) and by      *)
(* add_variable and assert_equal of the circuit constructor base.          *)
(*                                                                         *)
(* At finalize compute_permutation_mapping<width, true> marks the first    *)
(* node of every copy cycle in ids with the class's tag and the last node  *)
(* in sigmas with tau of that tag, and                                     *)
(* compute_standard_plonk_lagrange_polynomial turns each mapping entry     *)
(* into a subgroup element: omega^row times the coset of its column, the  *)
(* external coset for a public input, the tag coset for a tag.  A subgroup *)
(* element is represented by the coset and the exponent that make it.     *)
(***************************************************************************)
EXTENDS PermutationMapping

CONSTANTS
  MaxTag            \* bound on current_tag

DUMMY_TAG == 0

VARIABLES
  real_variable_tags,   \* variable index -> tag of its class (read at the real index)
  tau,                  \* tag -> tag whose multiset it must equal
  current_tag           \* the last tag handed out

gvars == <<variables, real_variable_index, gates, public_inputs, failed,
           real_variable_tags, tau, current_tag>>

tag_vars == <<real_variable_tags, tau, current_tag>>

Tags == 0 .. MaxTag

-----------------------------------------------------------------------------
(* Constructor operations *)

\* the constructor pairs the dummy tag with itself
GInit ==
  /\ Init
  /\ real_variable_tags = EmptyVector
  /\ tau = (DUMMY_TAG :> DUMMY_TAG)
  /\ current_tag = DUMMY_TAG

\* add_variable also appends DUMMY_TAG to real_variable_tags
GAddVariable(x) ==
  /\ AddVariable(x)
  /\ real_variable_tags' = Push(real_variable_tags, DUMMY_TAG)
  /\ UNCHANGED <<tau, current_tag>>

\* assert_equal(a, b): flag differing values; unless a and b are already one
\* class, move b's class to a's representative, flag a clash of two
\* different real tags, and give a's class b's tag if it had none
GAssertEqual(a, b) ==
  LET a_real == real_variable_index[a]
      b_real == real_variable_index[b]
      a_tag == real_variable_tags[a_real]
      b_tag == real_variable_tags[b_real]
      tag_clash == a_tag # DUMMY_TAG /\ b_tag # DUMMY_TAG /\ a_tag # b_tag
  IN
  /\ failed' = (failed \/ GetVariable(a) # GetVariable(b)
                       \/ (a_real # b_real /\ tag_clash))
  /\ real_variable_index' =
       [i \in VarIndices |-> IF real_variable_index[i] = b_real
                               THEN a_real ELSE real_variable_index[i]]
  /\ real_variable_tags' =
       IF a_real # b_real /\ a_tag = DUMMY_TAG
         THEN [real_variable_tags EXCEPT ![a_real] = b_tag]
         ELSE real_variable_tags
  /\ UNCHANGED <<variables, gates, public_inputs, tau, current_tag>>

GSetPublicInput(v) == SetPublicInput(v) /\ UNCHANGED tag_vars

GCreateGate(w) == CreateGate(w) /\ UNCHANGED tag_vars

\* create_tag(tag_index, tau_index): tau.insert, which keeps an existing
\* entry for tag_index; then bump current_tag
CreateTag(tag_index, tau_index) ==
  /\ current_tag < MaxTag
  /\ tau' = IF tag_index \in DOMAIN tau THEN tau ELSE tau @@ (tag_index :> tau_index)
  /\ current_tag' = current_tag + 1
  /\ UNCHANGED <<vars, real_variable_tags>>

\* get_new_tag
GetNewTag ==
  /\ current_tag < MaxTag
  /\ current_tag' = current_tag + 1
  /\ UNCHANGED <<vars, real_variable_tags, tau>>

\* assign_tag(variable_index, tag): the two ASSERTs are its guard (a debug
\* build aborts otherwise)
AssignTag(v, tag) ==
  /\ tag <= current_tag
  /\ real_variable_tags[real_variable_index[v]] = DUMMY_TAG
  /\ real_variable_tags' = [real_variable_tags EXCEPT ![real_variable_index[v]] = tag]
  /\ UNCHANGED <<vars, tau, current_tag>>

GNext ==
  \/ \E x \in Values : GAddVariable(x)
  \/ \E v \in VarIndices : GSetPublicInput(v)
  \/ \E a, b \in VarIndices : GAssertEqual(a, b)
  \/ \E w \in [Columns -> VarIndices] : GCreateGate(w)
  \/ \E t, u \in 1 .. MaxTag : CreateTag(t, u)
  \/ GetNewTag
  \/ \E v \in VarIndices, t \in Tags : AssignTag(v, t)

GSpec == GInit /\ [][GNext]_gvars

-----------------------------------------------------------------------------
(* compute_permutation_mapping<width, generalized = true>                  *)

\* tau.at(tag) throws std::out_of_range for a tag never given to create_tag
TauDefined(tag) == tag \in DOMAIN tau

\* mutant: the tag put on the last node of each cycle in ids
IdTagWritesOnLast(v) ==
  LET cycle == CopyCycle(v) IN
  IF cycle = <<>> THEN <<>>
  ELSE LET last == cycle[Len(cycle)] IN
       << << <<last.wire_index, last.gate_index>>,
             SubgroupElement(real_variable_tags[v], last.wire_index, FALSE, TRUE) >> >>

\* the generalized writes of one cycle: the first node's id becomes the
\* class tag; the last node's sigma, already pointing at the first node,
\* becomes tau of the tag (its column stays the first node's)
IdTagWrites(v) ==
  LET cycle == CopyCycle(v) IN
  IF cycle = <<>> THEN <<>>
  ELSE << << <<cycle[1].wire_index, cycle[1].gate_index>>,
             SubgroupElement(real_variable_tags[v], cycle[1].wire_index, FALSE, TRUE) >> >>

SigmaTagWrites(v) ==
  LET cycle == CopyCycle(v) IN
  IF cycle = <<>> THEN <<>>
  ELSE LET last == cycle[Len(cycle)] IN
       << << <<last.wire_index, last.gate_index>>,
             SubgroupElement(tau[real_variable_tags[v]], cycle[1].wire_index, FALSE, TRUE) >> >>

\* per cycle, the plain sigma writes in node order and then the tag of the
\* last node; cycles in variable order
GenSigmaWrites ==
  FlattenSeq([v \in 1 .. Len0(variables) |->
                CycleWrites(CopyCycle(v - 1)) \o SigmaTagWrites(v - 1)])

GenIds == ApplyWrites(IdentityMapping,
                      FlattenSeq([v \in 1 .. Len0(variables) |-> IdTagWrites(v - 1)]))

\* the public-input override of sigma[0][i], as in Sigmas
GenSigmas ==
  LET m == ApplyWrites(IdentityMapping, GenSigmaWrites) IN
  [c \in Cells |->
     IF c[1] = 0 /\ c[2] < NumPublicInputs
       THEN [m[c] EXCEPT !.row_index = c[2], !.column_index = 0,
                         !.is_public_input = TRUE]
       ELSE m[c]]

\* compute_standard_plonk_lagrange_polynomial: omega^row_index times the
\* external coset generator, the tag coset generator, or the coset of the
\* column (column 0 uncosetted), checked in that order
PlonkValue(e) ==
  CASE e.is_public_input -> <<"external", e.row_index>>
    [] e.is_tag -> <<"tag", e.row_index>>
    [] OTHER -> <<"column", e.column_index, e.row_index>>

\* compute_plonk_generalized_sigma_permutations: compute_permutation_mapping
\* <width, true>, then the Lagrange values of sigma and id.  Their monomial
\* and coset-FFT forms are the same polynomials in other bases and are
\* left out: no property reads them.
PlonkGeneralizedSigmaPermutations ==
  LET sig == GenSigmas
      ids == GenIds
  IN [sigma |-> [c \in Cells |-> PlonkValue(sig[c])],
      id |-> [c \in Cells |-> PlonkValue(ids[c])]]

-----------------------------------------------------------------------------
(* Properties *)

\* the equality classes that own a copy cycle, by real variable index
CycleClasses == {v \in VarIndices : CopyCycle(v) # <<>>}

ClassBag(F(_)) ==
  [x \in {F(v) : v \in CycleClasses} |-> Cardinality({v \in CycleClasses : F(v) = x})]

\* the multiset of (value, tag) of the classes against that of (value, tau(tag))
TagMultisetsMatch ==
  ClassBag(LAMBDA v : <<variables[v], real_variable_tags[v]>>)
    = ClassBag(LAMBDA v : <<variables[v], tau[real_variable_tags[v]]>>)

\* the honest witness balances UltraPlonk's permutation grand product over
\* the generalized sigma and id values, with the public-input delta
GenGrandProductBalanced ==
  LET perms == PlonkGeneralizedSigmaPermutations IN
  CellBag(LAMBDA c : <<WireValue(c), perms.sigma[c]>>)
    (+) PublicInputBag(LAMBDA i : <<PublicInputValue(i), <<"column", 1, i>>>>)
  = CellBag(LAMBDA c : <<WireValue(c), perms.id[c]>>)
    (+) PublicInputBag(LAMBDA i : <<PublicInputValue(i), <<"external", i>>>>)

\* The generalized permutation argument checks exactly the tag multisets:
\* whenever finalize can look up tau for every class's tag, the grand
\* product over the sigma and id polynomials that
\* compute_permutation_mapping<width, true> and
\* compute_standard_plonk_lagrange_polynomial build balances if and only if
\* the values tagged t, as a multiset, equal the values tagged tau(t) --
\* for any order of assert_equal, assign_tag, create_tag and public inputs.
GenPermutationChecksTagMultisets ==
  (\A v \in CycleClasses : TauDefined(real_variable_tags[v]))
    => (GenGrandProductBalanced <=> TagMultisetsMatch)

=============================================================================
