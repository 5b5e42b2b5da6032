---------------------------- MODULE MCAnswerQuota ----------------------------
(***************************************************************************)
(* Instances of AnswerQuota for TLC, with the history of crossed updates.  *)
(***************************************************************************)
EXTENDS QuotaCrossings, TLC

CONSTANTS r1, r2, s1, s2, a, b

MCGrants == {1, 2}
MCSizes == {1, 2}

\* The transactions and the reservations are interchangeable.
MCSymmetry == Permutations(Rids) \cup Permutations(Sessions) \cup Permutations(Sheets)

=============================================================================
