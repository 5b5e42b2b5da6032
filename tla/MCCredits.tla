----------------------------- MODULE MCCredits -----------------------------
(***************************************************************************)
(* Instances of Credits for TLC.                                           *)
(***************************************************************************)
EXTENDS Credits, TLC

CONSTANTS r1, r2, k1, k2, s1, s2, s3

MCEstimates == {1, 3}
MCCosts == {0, 1, 2}

\* Reservations, keys and transactions are interchangeable.
MCSymmetry == Permutations(Rids) \cup Permutations(Keys) \cup Permutations(Sessions)

=============================================================================
