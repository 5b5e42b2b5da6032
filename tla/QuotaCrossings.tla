---------------------------- MODULE QuotaCrossings ----------------------------
(***************************************************************************)
(* AnswerQuota with a history of crossed updates.  The ORM writes absolute *)
(* counter values, so a transaction whose grants or reservations another   *)
(* commit changes after it read them writes stale ones.  The ledger is     *)
(* exact in every state no such crossing led to.                           *)
(***************************************************************************)
EXTENDS AnswerQuota

VARIABLE crossed  \* history: a commit changed what another open transaction goes on with

Counters(g) == <<grants[g].reserved, grants[g].consumed>>

Crosses ==
  \E s \in Sessions :
    \/ \E g \in tx[s].touched \cap tx'[s].touched : Counters(g)' # Counters(g)
    \/ \E r \in tx[s].todo : Active(r) /\ resv'[r].status # "active" /\ tx'[s].op # "idle"

CrossInit == Init /\ crossed = FALSE

CrossNext == Next /\ crossed' = (crossed \/ Crosses)

CrossSpec == CrossInit /\ [][CrossNext]_<<vars, crossed>>

-----------------------------------------------------------------------------
\* As long as nobody crosses them, the counters of every grant say what the
\* reservations say, also while transactions overlap.
LedgerUncrossed == ~crossed => LedgerExact

\* A grant that was not bought yet has nothing to reserve.
AbsentEmpty == \A g \in Grants : grants[g].state = "absent" => grants[g].total = 0

\* What the reservations session s is ending hold of grant g.
Ending(s, g) ==
  SumFunction([r \in Rids |-> IF r \in tx[s].locked THEN resv[r].alloc[g] ELSE 0])

\* What session s is about to write is the ledger without those reservations.
WritesExact(s) ==
  /\ \A r \in tx[s].locked \cup tx[s].todo : Active(r)
  /\ tx[s].locked \cap tx[s].todo = {}
  /\ \A g \in Grants :
       /\ tx[s].spend[g] <= Ending(s, g)
       /\ tx[s].op # "settle" => tx[s].spend[g] = 0
       /\ IF g \in tx[s].touched
            THEN /\ tx[s].res[g] = grants[g].reserved - Ending(s, g)
                 /\ tx[s].con[g] = grants[g].consumed + tx[s].spend[g]
            ELSE Ending(s, g) = 0

\* The inductive invariant behind LedgerUncrossed.
CrossInv ==
  /\ IInv /\ Unused /\ AbsentEmpty
  /\ ~crossed => LedgerExact /\ \A s \in Sessions : WritesExact(s)

=============================================================================
