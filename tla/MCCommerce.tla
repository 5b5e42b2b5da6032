------------------------------ MODULE MCCommerce ------------------------------
(***************************************************************************)
(* Instances of Commerce for TLC.                                          *)
(***************************************************************************)
EXTENDS Commerce, TLC

CONSTANTS p1, p2, d1, b1, s1, s2

\* Plans, bank references and requests are interchangeable.
MCSymmetry == Permutations(Plans) \cup Permutations(Refs) \cup Permutations(Sessions)

\* Bound: two orders are placed, a plan and its renewal or a plan and an add-on.
TwoOrders == Cardinality({o \in Orders : order[o] # "absent"}) <= 2

=============================================================================
