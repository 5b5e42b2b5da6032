----------------------------- MODULE MCPractice -----------------------------
(***************************************************************************)
(* Instances of Practice for TLC.                                          *)
(***************************************************************************)
EXTENDS Practice, FiniteSets

CONSTANTS i1, e1, e2, w1, w2, r1

\* Bound: two photos, or one and two more of crashes, reviews and deletions.
Few == photos + crashes + reviews + Cardinality(Entries \ book) <= (IF photos = MaxPhotos THEN 2 ELSE 3)

MCSpec == PracticeInit /\ [][PracticeNext /\ Few']_practiceVars /\ PracticeFairness

=============================================================================
