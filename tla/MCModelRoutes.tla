---------------------------- MODULE MCModelRoutes ----------------------------
(***************************************************************************)
(* Instances of ModelRoutes for TLC.                                       *)
(***************************************************************************)
EXTENDS ModelRoutes, TLC

CONSTANTS c1, c2, m1, m2, a1, a2

\* Channels, models and administrators are interchangeable.
MCSymmetry == Permutations(Channels) \cup Permutations(Models) \cup Permutations(Admins)

\* What follows a race is explored only as far as StaysInForce looks at it: without
\* calls and plans, which publications neither read nor write.
AfterRaces == raced => calls = {} /\ offered = {}

=============================================================================
