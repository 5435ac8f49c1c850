---------------------------- MODULE MC_HitlCase ----------------------------
(* Instances of HitlCase for TLC. *)
EXTENDS HitlCase, TLC

CONSTANTS d1, d2, d3

\* d1 overflows to d3, the others to d1.
MCOverflow == [d \in Departments |-> IF d = d1 THEN d3 ELSE d1]
\* A single department that has nowhere else to overflow to.
MCNoOverflow == [d \in Departments |-> d]

Interchangeable == Permutations(Workers) \cup Permutations(Voters)
CaseSymmetry == Permutations(Workers) \cup Permutations(Cases)
=============================================================================
