---------------------------- MODULE MCScoreBook ----------------------------
(***************************************************************************)
(* Instances of ScoreBook for TLC.                                         *)
(***************************************************************************)
EXTENDS ScoreBook, TLC

CONSTANTS h1, h2, c1, c2, u1, u2, t1, t2, x1, x2

\* Sheets, students, accounts, scores and sessions are interchangeable.
MCSymmetry == Permutations(Sheets) \cup Permutations(Students) \cup Permutations(Users)
              \cup Permutations(Scores) \cup Permutations(Sessions)


\* Bound: annotations are written again or deleted while nobody has a profile, and a
\* second release comes with at most one account bound.
Quiet ==
  \/ learners = {} /\ binds = 0
  \/ /\ writes <= 1 /\ \A s \in Sheets : note[s].row > 0 => note[s].there
     /\ released <= 1 \/ binds <= 1

=============================================================================
