---------------------------- MODULE SheetBilling ----------------------------
(***************************************************************************)
(* What the answer-sheet quota promises, with the ledger left out.  A      *)
(* sheet is one billing identity of one exam.  A reservation holds a set   *)
(* of sheets while its grading run works on them; settling it bills the    *)
(* held sheets that were graded, once each, and releases the others.       *)
(***************************************************************************)
CONSTANTS
  Sheets,   \* billing identities, each of one exam
  Rids      \* answer-quota reservations

VARIABLES
  held,     \* held[r]: the sheets an active reservation r may still bill
  billed    \* the sheets with a BillableAnswerSheet row

vars == <<held, billed>>

Init ==
  /\ held = [r \in Rids |-> {}]
  /\ billed = {}

\* A reservation takes sheets that no other reservation holds.
Hold(r, S) ==
  /\ held[r] = {}
  /\ \A q \in Rids : held[q] \cap S = {}
  /\ held' = [held EXCEPT ![r] = S]
  /\ UNCHANGED billed

\* Only the holder bills, only what it holds, only what nobody billed before.
Settle(r, S) ==
  /\ S \subseteq held[r] \ billed
  /\ held' = [held EXCEPT ![r] = {}]
  /\ billed' = billed \cup S

\* Several reservations may be dropped by one database transaction.
Drop(R) ==
  /\ held' = [r \in Rids |-> IF r \in R THEN {} ELSE held[r]]
  /\ UNCHANGED billed

Next ==
  \/ \E r \in Rids, S \in SUBSET Sheets : Hold(r, S) \/ Settle(r, S)
  \/ \E R \in SUBSET Rids : Drop(R)

Spec == Init /\ [][Next]_vars

=============================================================================
