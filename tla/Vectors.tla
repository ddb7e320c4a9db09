------------------------------ MODULE Vectors ------------------------------
(* 0-indexed vectors, the shape of the std::vector and byte_array values   *)
(* of the C++ code: a vector of length n is a function on 0 .. n - 1.      *)
EXTENDS Integers, FiniteSets

Len0(f) == Cardinality(DOMAIN f)

EmptyVector == [i \in {} |-> 0]

\* push_back / write of one element
Push(f, x) == [i \in 0 .. Len0(f) |-> IF i < Len0(f) THEN f[i] ELSE x]

\* slice(start, length)
Slice(f, start, length) == [i \in 0 .. length - 1 |-> f[start + i]]

=============================================================================
