---------------------------- MODULE MCModelCalls ----------------------------
(***************************************************************************)
(* Instances of ModelCalls for TLC.                                        *)
(***************************************************************************)
EXTENDS ModelCalls

CONSTANTS p1, p2, o1, c1, c2

MCSchool == [p \in {p1, p2} |-> o1]
MCRoute == <<c1, c2>>

=============================================================================
