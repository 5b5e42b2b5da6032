---------------------------- MODULE MCGradingRun ----------------------------
(***************************************************************************)
(* Instances of GradingRun, with the history of StrayRuns, for TLC.        *)
(***************************************************************************)
EXTENDS StrayRuns

CONSTANTS a, b, q, w1, w2, c1, c2, r1, r2, r3

\* Bound: a late sheet and a reservation that times out come only to runs that
\* nothing of Strays has befallen yet.
Rare == stray => UNCHANGED exam /\ (resv' # resv => run' # run)

MCSpec == StrayInit /\ [][StrayNext /\ Rare]_<<vars, stray>> /\ Fairness

=============================================================================
