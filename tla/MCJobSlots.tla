----------------------------- MODULE MCJobSlots -----------------------------
(***************************************************************************)
(* Instances of JobSlots for TLC.                                          *)
(***************************************************************************)
EXTENDS JobSlots

CONSTANTS w1, w2, w3, j1, j2, j3

\* Bound: not both a second message and a crash, and the school blocked or a heartbeat
\* missed only without a crash, not both.  Jobs and workers are alike: it is job j1 that is
\* sent twice and worker w1 that dies.
Few ==
  /\ \A j \in Jobs \ {j1} : sent[j] <= 1
  /\ sent[j3] <= sent[j2]
  /\ sent[j1] + deaths <= 2
  /\ missed \/ ~admitted => deaths = 0
  /\ missed => admitted

MCNext == SlotsNext /\ Few' /\ (deaths' > deaths => thread'[w1] # thread[w1])

MCSpec == SlotsInit /\ [][MCNext]_slotsVars /\ SlotsFairness

=============================================================================
