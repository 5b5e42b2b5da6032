---------------------------- MODULE MCAnswerKey ----------------------------
(***************************************************************************)
(* Instances of AnswerKey for TLC.                                         *)
(***************************************************************************)
EXTENDS AnswerKey, TLC

CONSTANTS k1, k2, r1, r2, b1, b2, p1, p2, x1, t1, t2

\* Questions, regions, bodies, runs and requests are interchangeable.
MCSymmetry == Permutations(Keys) \cup Permutations(Regions) \cup Permutations(Bodies)
              \cup Permutations(Preps) \cup Permutations(Teachers)

\* Bound: the questions are confirmed anew only while no request is open and there
\* is a run they may disturb.
LateSheets == recognised > 1 => run.status # "none" /\ \A t \in Teachers : request[t].op = "none"

=============================================================================
