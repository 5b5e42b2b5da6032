---------------------------- MODULE AnswerProofs ----------------------------
(***************************************************************************)
(* Proofs about what happens to the answers of an exam: AnswerQuota, the   *)
(* sheets a grading run pays for, and AnswerKey, the answers it grades by. *)
(***************************************************************************)
EXTENDS QuotaCrossings, AnswerKey, SumTheorems, SequenceTheorems

(***************************************************************************)
(* AnswerQuota for any number of sheets, grants, reservations and          *)
(* concurrent transactions                                                 *)
(***************************************************************************)

\* What is written to a session's transaction record never leaves its type.
LEMMA IdleType == Idle \in Transaction
BY DEF Idle, Transaction, None, Amounts

\* The number of sheets of any subset is a natural number.
LEMMA SheetCount ==
  ASSUME NEW S \in SUBSET Sheets
  PROVE  Cardinality(S) \in Nat
BY SheetsFinite, FS_Subset, FS_CardinalityType

\* Dropping a reservation's allocations keeps the transaction well typed.
LEMMA DrawnType ==
  ASSUME TypeOK, NEW s \in Sessions, NEW r \in Rids, NEW u \in Amounts
  PROVE  Drawn(s, r, u) \in Transaction
<1> DEFINE t == Taken(s, r)
           hit == {g \in Grants : resv[r].alloc[g] > 0}
           R(g) == IF g \in tx[s].touched THEN tx[s].res[g] ELSE grants[g].reserved
           C(g) == IF g \in tx[s].touched THEN tx[s].con[g] ELSE grants[g].consumed
           res == [g \in Grants |-> IF g \in hit THEN R(g) - resv[r].alloc[g] ELSE t.res[g]]
           con == [g \in Grants |-> IF g \in hit THEN C(g) + u[g] ELSE t.con[g]]
           spend == [g \in Grants |-> t.spend[g] + u[g]]
<1>1. /\ tx[s] \in Transaction
      /\ \A g \in Grants : grants[g].reserved \in Int /\ grants[g].consumed \in Int
      /\ \A g \in Grants : resv[r].alloc[g] \in Nat /\ u[g] \in Nat
  BY DEF TypeOK, Grant, Reservation, Amounts
<1>2. t \in Transaction
  BY <1>1 DEF Taken, Transaction
<1> HIDE DEF t
<1>3. /\ \A g \in Grants : tx[s].res[g] \in Int /\ tx[s].con[g] \in Int
      /\ \A g \in Grants : t.res[g] \in Int /\ t.con[g] \in Int
      /\ \A g \in Grants : t.spend[g] \in Nat
  BY <1>1, <1>2 DEF Transaction, Amounts
<1>4. res \in [Grants -> Int] /\ con \in [Grants -> Int] /\ spend \in [Grants -> Nat]
  BY <1>1, <1>3
<1>5. Drawn(s, r, u) = [t EXCEPT !.touched = t.touched \cup hit, !.res = res,
                                 !.con = con, !.spend = spend]
  BY <1>2 DEF Drawn, t, Transaction
<1>6. hit \in SUBSET Grants
  OBVIOUS
<1> HIDE DEF hit, res, con, spend
<1>7. t.touched \cup hit \in SUBSET Grants
  BY <1>2, <1>6 DEF Transaction
<1>8. \A h \in SUBSET Grants :
        [t EXCEPT !.touched = h, !.res = res, !.con = con, !.spend = spend] \in Transaction
  BY <1>2, <1>4 DEF Transaction, Amounts
<1> QED
  BY <1>5, <1>7, <1>8, Zenon

-----------------------------------------------------------------------------
\* Type correctness.

LEMMA WrittenType ==
  ASSUME TypeOK, NEW s \in Sessions
  PROVE  Written(s) \in [Grants -> Grant]
<1>1. /\ \A g \in Grants : grants[g] \in Grant
      /\ \A g \in Grants : tx[s].res[g] \in Int /\ tx[s].con[g] \in Int
  BY DEF TypeOK, Transaction
<1> QED
  BY <1>1 DEF Written, Grant

LEMMA InitType == Init => TypeOK
BY IdleType DEF Init, TypeOK, Grant, Reservation, NoReservation, None, Amounts

\* Every step keeps the types: one case per operation.
LEMMA NextType == TypeOK /\ [Next]_vars => TypeOK'
<1> SUFFICES ASSUME TypeOK, [Next]_vars PROVE TypeOK'
  OBVIOUS
<1>0. 0 .. Cardinality(Sheets) \subseteq Nat
  OBVIOUS
<1>1. ASSUME NEW g \in Grants, NEW n \in Sizes, GrantAnswers(g, n) PROVE TypeOK'
  BY <1>1, SizesPositive DEF TypeOK, GrantAnswers, Grant
<1>2. ASSUME NEW g \in Grants, Expire(g) PROVE TypeOK'
  BY <1>2 DEF TypeOK, Expire, Grant
<1>3. ASSUME NEW s \in Sessions, NEW want \in SUBSET Sheets, ReserveRead(s, want) PROVE TypeOK'
  <2>1. [Idle EXCEPT !.op = "reserve", !.want = want, !.sheets = want \ billed] \in Transaction
    BY IdleType DEF Transaction
  <2> QED
    BY <1>3, <2>1 DEF TypeOK, ReserveRead
<1>4. ASSUME NEW s \in Sessions, NEW r \in Rids, NEW a \in [Grants -> 0 .. Cardinality(Sheets)],
             ReserveCommit(s, r, a)
      PROVE  TypeOK'
  <2>1. a \in Amounts /\ None \in Amounts
    <3>1. a \in [Grants -> Nat]
      BY <1>0
    <3> QED
      BY <3>1 DEF Amounts, None
  <2>2. tx[s].sheets \in SUBSET Sheets
    BY DEF TypeOK, Transaction
  <2>3. [status |-> "active", sheets |-> tx[s].sheets, settled |-> 0,
         alloc |-> a, used |-> None] \in Reservation
    BY <2>1, <2>2 DEF Reservation
  <2>4. resv' \in [Rids -> Reservation]
    BY <1>4, <2>3 DEF TypeOK, ReserveCommit
  <2>5. grants' \in [Grants -> Grant]
    <3>1. \A g \in Grants : grants[g] \in Grant /\ a[g] \in Nat
      BY <2>1 DEF TypeOK, Amounts
    <3>2. \A g \in Grants : [grants[g] EXCEPT !.reserved = grants[g].reserved + a[g]] \in Grant
      BY <3>1 DEF Grant
    <3> QED
      BY <1>4, <3>2 DEF ReserveCommit
  <2> QED
    BY <1>4, <2>4, <2>5, IdleType DEF TypeOK, ReserveCommit
<1>13. ASSUME NEW s \in Sessions, ReserveCheck(s) PROVE TypeOK'
  <2>1. [tx[s] EXCEPT !.op = "insert"] \in Transaction
    BY DEF TypeOK, Transaction
  <2>2. tx' = [tx EXCEPT ![s] = [tx[s] EXCEPT !.op = "insert"]]
    BY <1>13 DEF ReserveCheck
  <2> QED
    BY <1>13, <2>1, <2>2 DEF TypeOK, ReserveCheck
<1>5. ASSUME NEW s \in Sessions, ReserveRefused(s) \/ Rollback(s) PROVE TypeOK'
  BY <1>5, IdleType DEF TypeOK, ReserveRefused, Rollback
<1>6. ASSUME NEW s \in Sessions, NEW r \in Rids, NEW done \in SUBSET Sheets,
             NEW u \in [Grants -> 0 .. Cardinality(Sheets)], SettleRead(s, r, done, u)
      PROVE  TypeOK'
  <2>1. Drawn(s, r, u) \in Transaction
    BY <1>0, DrawnType DEF Amounts
  <2>2. resv[r].sheets \in SUBSET Sheets
    BY DEF TypeOK, Reservation
  <2>3. [Drawn(s, r, u) EXCEPT !.op = "settle",
            !.sheets = (resv[r].sheets \cap done) \ billed] \in Transaction
    BY <2>1, <2>2 DEF Transaction
  <2> QED
    BY <1>6, <2>3 DEF TypeOK, SettleRead
<1>7. ASSUME NEW s \in Sessions, SettleCommit(s) PROVE TypeOK'
  <2>1. /\ tx[s].sheets \in SUBSET Sheets
        /\ tx[s].spend \in Amounts
    BY DEF TypeOK, Transaction
  <2>2. Cardinality(tx[s].sheets) \in Nat
    BY <2>1, SheetCount
  <2>3. resv' \in [Rids -> Reservation]
    BY <1>7, <2>1, <2>2 DEF TypeOK, SettleCommit, Reservation
  <2> QED
    BY <1>7, <2>1, <2>3, WrittenType, IdleType DEF TypeOK, SettleCommit
<1>8. ASSUME NEW s \in Sessions, NEW r \in Rids, ReleaseRead(s, r) PROVE TypeOK'
  <2>1. Drawn(s, r, None) \in Transaction
    BY DrawnType DEF Amounts, None
  <2>2. [Drawn(s, r, None) EXCEPT !.op = "release"] \in Transaction
    BY <2>1 DEF Transaction
  <2> QED
    BY <1>8, <2>2 DEF TypeOK, ReleaseRead
<1>9. ASSUME NEW s \in Sessions, ReleaseCommit(s) PROVE TypeOK'
  <2>1. resv' \in [Rids -> Reservation]
    BY <1>9 DEF TypeOK, ReleaseCommit, Reservation
  <2> QED
    BY <1>9, <2>1, WrittenType, IdleType DEF TypeOK, ReleaseCommit
<1>10. ASSUME NEW s \in Sessions, NEW stale \in SUBSET Rids, ReconcileRead(s, stale)
       PROVE  TypeOK'
  <2>1. [Idle EXCEPT !.op = "reconcile", !.todo = stale] \in Transaction
    BY IdleType DEF Transaction
  <2> QED
    BY <1>10, <2>1 DEF TypeOK, ReconcileRead
<1>11. ASSUME NEW s \in Sessions, NEW r \in Rids, ReconcileRelease(s, r) PROVE TypeOK'
  <2>1. Drawn(s, r, None) \in Transaction
    BY DrawnType DEF Amounts, None
  <2> QED
    BY <1>11, <2>1 DEF TypeOK, ReconcileRelease
<1>12. CASE UNCHANGED vars
  BY <1>12 DEF TypeOK, vars
<1> QED
  BY <1>1, <1>2, <1>3, <1>4, <1>5, <1>6, <1>7, <1>8, <1>9, <1>10, <1>11, <1>12, <1>13 DEF Next

\* Every reachable state of the quota ledger is well typed: counters are
\* integers, reservations name known sheets, whatever transactions interleave.
THEOREM TypeCorrect == Spec => []TypeOK
BY InitType, NextType, PTL DEF Spec

-----------------------------------------------------------------------------
\* Exactly-once billing.

LEMMA InitInv == Init => IInv
<1> SUFFICES ASSUME Init PROVE IInv
  OBVIOUS
<1>1. \A s \in Sessions : tx[s] = Idle
  BY DEF Init
<1>2. \A r \in Rids : ~Active(r)
  BY DEF Init, Active, NoReservation
<1> QED
  BY <1>1, <1>2, InitType DEF IInv, RowLocks, CheckedStaysFree, HoldsDisjoint, ChargesFresh, Idle

\* What a session locks and is about to bill, after it takes reservation r.
LEMMA DrawnFields ==
  ASSUME TypeOK, NEW s \in Sessions, NEW r \in Rids, NEW u
  PROVE  /\ Drawn(s, r, u).locked = tx[s].locked \cup {r}
         /\ Drawn(s, r, u).op = tx[s].op
         /\ Drawn(s, r, u).sheets = tx[s].sheets
         /\ Drawn(s, r, u).want = tx[s].want
         /\ [Drawn(s, r, u) EXCEPT !.op = "release"].op = "release"
         /\ [Drawn(s, r, u) EXCEPT !.op = "release"].locked = tx[s].locked \cup {r}
         /\ [Drawn(s, r, u) EXCEPT !.op = "release"].sheets = tx[s].sheets
<1>1. tx[s] \in Transaction
  BY DEF TypeOK
<1> QED
  BY <1>1 DEF Drawn, Taken, Transaction

\* The same when it settles r.
LEMMA SettleFields ==
  ASSUME TypeOK, NEW s \in Sessions, NEW r \in Rids, NEW u, NEW c
  PROVE  LET t == [Drawn(s, r, u) EXCEPT !.op = "settle", !.sheets = c]
         IN  t.locked = tx[s].locked \cup {r} /\ t.op = "settle" /\ t.sheets = c
<1>1. tx[s] \in Transaction
  BY DEF TypeOK
<1> QED
  BY <1>1 DEF Drawn, Taken, Transaction

\* Two settlements under way bill different sheets: their reservations are
\* different rows, both active, hence disjoint.
ChargesDisjoint ==
  \A s, t \in Sessions : s # t /\ tx[s].op = "settle" /\ tx[t].op = "settle" =>
     tx[s].sheets \cap tx[t].sheets = {}

LEMMA ChargesApart == RowLocks /\ HoldsDisjoint => ChargesDisjoint
<1> SUFFICES ASSUME RowLocks, HoldsDisjoint, NEW s \in Sessions, NEW t \in Sessions, s # t,
                    tx[s].op = "settle", tx[t].op = "settle"
             PROVE  tx[s].sheets \cap tx[t].sheets = {}
  BY DEF ChargesDisjoint
<1>1. PICK q \in Rids : tx[s].locked = {q} /\ Active(q) /\ tx[s].sheets \subseteq resv[q].sheets
  BY DEF RowLocks
<1>2. PICK r \in Rids : tx[t].locked = {r} /\ Active(r) /\ tx[t].sheets \subseteq resv[r].sheets
  BY DEF RowLocks
<1>3. q # r
  BY <1>1, <1>2 DEF RowLocks
<1> QED
  BY <1>1, <1>2, <1>3 DEF HoldsDisjoint

\* A step of session s that writes no row keeps the invariant when what it
\* leaves in its transaction record satisfies what RowLocks says of a record.
LEMMA ReadStep ==
  ASSUME IInv, TypeOK', NEW s \in Sessions, NEW x,
         tx' = [tx EXCEPT ![s] = x], UNCHANGED <<resv, billed>>,
         x.op = "idle" => x = Idle,
         x.op \in {"reserve", "insert"} =>
           /\ x.locked = {}
           /\ x.sheets \subseteq x.want
           /\ tx[s].op \in {"reserve", "insert"} \/ AdvisoryFree,
         x.op = "insert" => x.want \cap ActiveSheets = {},
         x.op \in {"settle", "release"} =>
           \E r \in Rids : x.locked = {r} /\ Active(r) /\ x.sheets \subseteq resv[r].sheets,
         x.op = "settle" => x.sheets \cap billed = {},
         \A r \in x.locked : r \in tx[s].locked \/ RowFree(s, r)
  PROVE  IInv'
<1>1. /\ tx'[s] = x
      /\ \A t \in Sessions \ {s} : tx'[t] = tx[t]
  BY DEF IInv, TypeOK
<1>2. \A r \in Rids : Active(r)' <=> Active(r)
  BY DEF Active
<1>3. \A t \in Sessions \ {s} : x.locked \cap tx[t].locked = {}
  BY DEF IInv, RowLocks, RowFree
<1>4. RowLocks'
  <2>1. \A t, w \in Sessions : t # w => tx'[t].locked \cap tx'[w].locked = {}
    BY <1>1, <1>3 DEF IInv, RowLocks
  <2>2. ASSUME NEW t \in Sessions
        PROVE  /\ tx'[t].op = "idle" => tx'[t] = Idle
               /\ tx'[t].op \in {"reserve", "insert"} => tx'[t].locked = {} /\ tx'[t].sheets \subseteq tx'[t].want
               /\ tx'[t].op \in {"settle", "release"} =>
                    \E r \in Rids : /\ tx'[t].locked = {r}
                                    /\ Active(r)'
                                    /\ tx'[t].sheets \subseteq resv'[r].sheets
    <3>1. CASE t = s
      BY <1>1, <1>2, <3>1
    <3>2. CASE t # s
      BY <1>1, <1>2, <3>2 DEF IInv, RowLocks
    <3> QED
      BY <3>1, <3>2
  <2> QED
    BY <2>1, <2>2 DEF RowLocks, Idle
<1>5. HoldsDisjoint'
  BY <1>2 DEF IInv, HoldsDisjoint
<1>6. ChargesFresh'
  <2>1. \A t \in Sessions : tx'[t].op = "settle" => tx'[t].sheets \cap billed' = {}
    BY <1>1 DEF IInv, ChargesFresh
  <2>2. RowLocks' /\ HoldsDisjoint' => ChargesDisjoint'
    BY ChargesApart, PTL
  <2> QED
    BY <1>4, <1>5, <2>1, <2>2 DEF ChargesFresh, ChargesDisjoint
<1>7. CheckedStaysFree'
  <2>1. ActiveSheets' = ActiveSheets
    BY <1>2 DEF ActiveSheets
  <2>2. ASSUME NEW t \in Sessions, NEW w \in Sessions,
               tx'[t].op \in {"reserve", "insert"}, tx'[w].op \in {"reserve", "insert"}
        PROVE  t = w
    BY <1>1, <2>2 DEF IInv, CheckedStaysFree, AdvisoryFree
  <2>3. \A t \in Sessions : tx'[t].op = "insert" => tx'[t].want \cap ActiveSheets' = {}
    BY <1>1, <2>1 DEF IInv, CheckedStaysFree
  <2> QED
    BY <2>2, <2>3 DEF CheckedStaysFree
<1> QED
  BY <1>4, <1>5, <1>6, <1>7 DEF IInv

\* A commit of session s that only ends active reservations it has locked, and
\* bills only the sheets it settles, keeps the invariant.
LEMMA EndStep ==
  ASSUME IInv, TypeOK', NEW s \in Sessions, tx' = [tx EXCEPT ![s] = Idle],
         \A r \in Rids : resv'[r].sheets = resv[r].sheets,
         \A r \in Rids : Active(r)' => Active(r) /\ r \notin tx[s].locked,
         \A r \in Rids : r \notin tx[s].locked => resv'[r] = resv[r],
         billed' = billed \/ (tx[s].op = "settle" /\ billed' = billed \cup tx[s].sheets)
  PROVE  IInv'
<1>1. /\ tx'[s] = Idle
      /\ \A t \in Sessions \ {s} : tx'[t] = tx[t]
  BY DEF IInv, TypeOK
<1>2. ASSUME NEW t \in Sessions \ {s}, NEW r \in tx[t].locked, r \in Rids
      PROVE  resv'[r] = resv[r] /\ (Active(r)' <=> Active(r))
  BY <1>2 DEF IInv, RowLocks, Active
<1>3. RowLocks'
  <2>1. \A t, w \in Sessions : t # w => tx'[t].locked \cap tx'[w].locked = {}
    BY <1>1 DEF IInv, RowLocks, Idle
  <2>2. ASSUME NEW t \in Sessions
        PROVE  /\ tx'[t].op = "idle" => tx'[t] = Idle
               /\ tx'[t].op \in {"reserve", "insert"} => tx'[t].locked = {} /\ tx'[t].sheets \subseteq tx'[t].want
               /\ tx'[t].op \in {"settle", "release"} =>
                    \E r \in Rids : /\ tx'[t].locked = {r}
                                    /\ Active(r)'
                                    /\ tx'[t].sheets \subseteq resv'[r].sheets
    <3>1. CASE t = s
      BY <1>1, <3>1 DEF Idle
    <3>2. CASE t # s
      BY <1>1, <1>2, <3>2 DEF IInv, RowLocks
    <3> QED
      BY <3>1, <3>2
  <2> QED
    BY <2>1, <2>2 DEF RowLocks, Idle
<1>4. HoldsDisjoint'
  BY DEF IInv, HoldsDisjoint
<1>5. ChargesFresh'
  <2>1. ASSUME NEW t \in Sessions, tx'[t].op = "settle"
        PROVE  tx'[t].sheets \cap billed' = {}
    <3>1. t # s /\ tx'[t] = tx[t]
      BY <1>1, <2>1 DEF Idle
    <3> QED
      BY <2>1, <3>1 DEF IInv, ChargesFresh
  <2>2. RowLocks' /\ HoldsDisjoint' => ChargesDisjoint'
    BY ChargesApart, PTL
  <2> QED
    BY <1>3, <1>4, <2>1, <2>2 DEF ChargesFresh, ChargesDisjoint
<1>6. CheckedStaysFree'
  <2>1. ActiveSheets' \subseteq ActiveSheets
    BY DEF ActiveSheets
  <2>2. \A t \in Sessions : tx'[t].op \in {"reserve", "insert"} => t # s /\ tx'[t] = tx[t]
    BY <1>1 DEF Idle
  <2> QED
    BY <2>1, <2>2 DEF IInv, CheckedStaysFree
<1> QED
  BY <1>3, <1>4, <1>5, <1>6 DEF IInv

\* A new reservation holds sheets no active reservation holds.
LEMMA ReserveStep ==
  ASSUME IInv, TypeOK', NEW s \in Sessions, NEW r \in Rids, NEW a, ReserveCommit(s, r, a)
  PROVE  IInv'
<1>1. /\ tx'[s] = Idle
      /\ \A t \in Sessions \ {s} : tx'[t] = tx[t]
      /\ tx[s].locked = {} /\ tx[s].sheets \subseteq tx[s].want
  BY DEF IInv, TypeOK, RowLocks, ReserveCommit
<1>2. /\ resv'[r].sheets = tx[s].sheets
      /\ Active(r)'
      /\ ~Active(r)
      /\ \A q \in Rids \ {r} : resv'[q] = resv[q]
  BY DEF IInv, TypeOK, ReserveCommit, Active
<1>3. \A q \in Rids \ {r} : Active(q)' <=> Active(q)
  BY <1>2 DEF Active
<1>4. \A q \in Rids : Active(q) => resv[q].sheets \cap tx[s].sheets = {}
  BY <1>1 DEF ReserveCommit, ActiveSheets, IInv, CheckedStaysFree
<1>5. HoldsDisjoint'
  BY <1>2, <1>3, <1>4 DEF IInv, HoldsDisjoint
<1>6. RowLocks'
  <2>1. \A t, w \in Sessions : t # w => tx'[t].locked \cap tx'[w].locked = {}
    BY <1>1 DEF IInv, RowLocks, Idle
  <2>2. ASSUME NEW t \in Sessions
        PROVE  /\ tx'[t].op = "idle" => tx'[t] = Idle
               /\ tx'[t].op \in {"reserve", "insert"} => tx'[t].locked = {} /\ tx'[t].sheets \subseteq tx'[t].want
               /\ tx'[t].op \in {"settle", "release"} =>
                    \E q \in Rids : /\ tx'[t].locked = {q}
                                    /\ Active(q)'
                                    /\ tx'[t].sheets \subseteq resv'[q].sheets
    <3>1. CASE t = s
      BY <1>1, <3>1 DEF Idle
    <3>2. CASE t # s
      BY <1>1, <1>2, <1>3, <3>2 DEF IInv, RowLocks
    <3> QED
      BY <3>1, <3>2
  <2> QED
    BY <2>1, <2>2 DEF RowLocks, Idle
<1>7. ChargesFresh'
  <2>1. \A t \in Sessions : tx'[t].op = "settle" => tx'[t].sheets \cap billed' = {}
    BY <1>1 DEF IInv, ChargesFresh, Idle, ReserveCommit
  <2>2. RowLocks' /\ HoldsDisjoint' => ChargesDisjoint'
    BY ChargesApart, PTL
  <2> QED
    BY <1>5, <1>6, <2>1, <2>2 DEF ChargesFresh, ChargesDisjoint
<1>8. CheckedStaysFree'
  <2>1. \A t \in Sessions : tx'[t].op \notin {"reserve", "insert"}
    BY <1>1 DEF IInv, CheckedStaysFree, ReserveCommit, Idle
  <2> QED
    BY <2>1 DEF CheckedStaysFree
<1> QED
  BY <1>5, <1>6, <1>7, <1>8 DEF IInv

LEMMA NextInv == IInv /\ [Next]_vars => IInv'
<1> SUFFICES ASSUME IInv, [Next]_vars PROVE IInv'
  OBVIOUS
<1> USE DEF IInv
<1>0. TypeOK'
  BY NextType
<1>1. ASSUME UNCHANGED <<resv, billed, tx>> PROVE IInv'
  BY <1>0, <1>1 DEF RowLocks, CheckedStaysFree, HoldsDisjoint, ChargesFresh, ActiveSheets, Active
<1> USE DEF Idle
<1>2. ASSUME NEW s \in Sessions, NEW want \in SUBSET Sheets, ReserveRead(s, want) PROVE IInv'
  <2> DEFINE x == [Idle EXCEPT !.op = "reserve", !.want = want, !.sheets = want \ billed]
  <2>1. x.op = "reserve" /\ x.want = want /\ x.sheets = want \ billed /\ x.locked = {}
    OBVIOUS
  <2>2. tx' = [tx EXCEPT ![s] = x] /\ UNCHANGED <<resv, billed>> /\ AdvisoryFree
    BY <1>2 DEF ReserveRead
  <2> HIDE DEF x, IInv
  <2> QED
    BY <1>0, <2>1, <2>2, ReadStep
<1>3. ASSUME NEW s \in Sessions, ReserveRefused(s) \/ Rollback(s) PROVE IInv'
  <2>1. tx' = [tx EXCEPT ![s] = Idle] /\ UNCHANGED <<resv, billed>>
    BY <1>3 DEF ReserveRefused, Rollback
  <2>2. Idle.op = "idle" /\ Idle.locked = {}
    OBVIOUS
  <2> HIDE DEF IInv, Idle
  <2> QED
    BY <1>0, <2>1, <2>2, ReadStep
<1>4. ASSUME NEW s \in Sessions, NEW r \in Rids, NEW done, NEW u, SettleRead(s, r, done, u)
      PROVE  IInv'
  <2> DEFINE c == (resv[r].sheets \cap done) \ billed
             x == [Drawn(s, r, u) EXCEPT !.op = "settle", !.sheets = c]
  <2>1. x.op = "settle" /\ x.sheets = c /\ x.locked = {r}
    BY <1>4, SettleFields DEF SettleRead, RowLocks
  <2>2. /\ tx' = [tx EXCEPT ![s] = x] /\ UNCHANGED <<resv, billed>>
        /\ Active(r) /\ RowFree(s, r) /\ c \subseteq resv[r].sheets /\ c \cap billed = {}
    BY <1>4 DEF SettleRead
  <2> HIDE DEF x, c, IInv, Idle
  <2> QED
    BY <1>0, <2>1, <2>2, ReadStep
<1>5. ASSUME NEW s \in Sessions, NEW r \in Rids, ReleaseRead(s, r) PROVE IInv'
  <2> DEFINE x == [Drawn(s, r, None) EXCEPT !.op = "release"]
  <2>1. x.op = "release" /\ x.sheets = {} /\ x.locked = {r}
    BY <1>5, DrawnFields DEF ReleaseRead, RowLocks
  <2>2. /\ tx' = [tx EXCEPT ![s] = x] /\ UNCHANGED <<resv, billed>>
        /\ Active(r) /\ RowFree(s, r)
    BY <1>5 DEF ReleaseRead
  <2>3. \E q \in Rids : x.locked = {q} /\ Active(q) /\ x.sheets \subseteq resv[q].sheets
    BY <2>1, <2>2
  <2>4. /\ \A q \in x.locked : q \in tx[s].locked \/ RowFree(s, q)
        /\ x.op \notin {"idle", "reserve", "insert", "settle"}
    BY <2>1, <2>2
  <2> HIDE DEF x, IInv, Idle
  <2> QED
    BY <1>0, <2>2, <2>3, <2>4, ReadStep
<1>6. ASSUME NEW s \in Sessions, NEW stale, ReconcileRead(s, stale) PROVE IInv'
  <2> DEFINE x == [Idle EXCEPT !.op = "reconcile", !.todo = stale]
  <2>1. x.op = "reconcile" /\ x.locked = {}
    OBVIOUS
  <2>2. tx' = [tx EXCEPT ![s] = x] /\ UNCHANGED <<resv, billed>>
    BY <1>6 DEF ReconcileRead
  <2> HIDE DEF x, IInv, Idle
  <2> QED
    BY <1>0, <2>1, <2>2, ReadStep
<1>7. ASSUME NEW s \in Sessions, NEW r \in Rids, ReconcileRelease(s, r) PROVE IInv'
  <2> DEFINE x == Drawn(s, r, None)
  <2>1. x.op = "reconcile" /\ x.locked = tx[s].locked \cup {r}
    BY <1>7, DrawnFields DEF ReconcileRelease
  <2>2. tx' = [tx EXCEPT ![s] = x] /\ UNCHANGED <<resv, billed>> /\ RowFree(s, r)
    BY <1>7 DEF ReconcileRelease
  <2>3. \A q \in x.locked : q \in tx[s].locked \/ RowFree(s, q)
    BY <2>1, <2>2
  <2> HIDE DEF x, IInv, Idle
  <2> QED
    BY <1>0, <2>1, <2>2, <2>3, ReadStep
<1>8. ASSUME NEW s \in Sessions, SettleCommit(s) \/ ReleaseCommit(s) PROVE IInv'
  <2>1. /\ tx' = [tx EXCEPT ![s] = Idle]
        /\ billed' = billed \/ (tx[s].op = "settle" /\ billed' = billed \cup tx[s].sheets)
    <3>1. CASE SettleCommit(s)
      BY <3>1 DEF SettleCommit
    <3>2. CASE ReleaseCommit(s)
      BY <3>2 DEF ReleaseCommit
    <3> QED
      BY <1>8, <3>1, <3>2
  <2>2. \A r \in Rids : /\ r \notin tx[s].locked => resv'[r] = resv[r]
                        /\ r \in tx[s].locked => resv'[r].status \in {"settled", "released"}
                        /\ resv'[r].sheets = resv[r].sheets
    <3>1. \A r \in Rids : resv[r] \in Reservation
      BY DEF TypeOK
    <3>2. CASE SettleCommit(s)
      BY <3>1, <3>2 DEF SettleCommit, Reservation
    <3>3. CASE ReleaseCommit(s)
      BY <3>1, <3>3 DEF ReleaseCommit, Reservation
    <3> QED
      BY <1>8, <3>2, <3>3
  <2>3. \A r \in Rids : Active(r)' => Active(r) /\ r \notin tx[s].locked
    BY <2>2 DEF Active
  <2> HIDE DEF IInv, Idle
  <2> QED
    BY <1>0, <2>1, <2>2, <2>3, EndStep
<1>9. ASSUME NEW s \in Sessions, NEW r \in Rids, NEW a, ReserveCommit(s, r, a) PROVE IInv'
  BY <1>0, <1>9, ReserveStep
<1>10. CASE UNCHANGED vars
  BY <1>1, <1>10 DEF vars
<1>13. ASSUME NEW s \in Sessions, ReserveCheck(s) PROVE IInv'
  <2> DEFINE x == [tx[s] EXCEPT !.op = "insert"]
  <2>1. tx[s].locked = {} /\ tx[s].sheets \subseteq tx[s].want
    BY <1>13 DEF ReserveCheck, RowLocks
  <2>2. x.op = "insert" /\ x.locked = {} /\ x.sheets \subseteq x.want /\ x.want = tx[s].want
    BY <2>1 DEF TypeOK, Transaction
  <2>3. tx' = [tx EXCEPT ![s] = x] /\ UNCHANGED <<resv, billed>>
    BY <1>13 DEF ReserveCheck
  <2>4. tx[s].op = "reserve" /\ tx[s].want \cap ActiveSheets = {}
    BY <1>13 DEF ReserveCheck
  <2> HIDE DEF x, IInv, Idle
  <2> QED
    BY <1>0, <2>2, <2>3, <2>4, ReadStep
<1> HIDE DEF IInv, Idle
<1>11. ASSUME NEW g \in Grants, NEW n \in Sizes, GrantAnswers(g, n) \/ Expire(g) PROVE IInv'
  BY <1>1, <1>11 DEF GrantAnswers, Expire
<1>12. ASSUME NEW g \in Grants, Expire(g) PROVE IInv'
  BY <1>1, <1>12 DEF Expire
<1> QED
  BY <1>2, <1>3, <1>4, <1>5, <1>6, <1>7, <1>8, <1>9, <1>10, <1>11, <1>12, <1>13 DEF Next

\* The invariant of row locks, advisory lock and holds in every state: a reservation
\* is written under its row's lock, and what an open settlement charges is its own.
THEOREM Inductive == Spec => []IInv
BY InitInv, NextInv, PTL DEF Spec

\* Two runs are never both entitled to bill the same answer sheet.
THEOREM Disjoint == Spec => []HoldsDisjoint
<1>1. IInv => HoldsDisjoint
  BY DEF IInv
<1> QED
  BY <1>1, Inductive, PTL

\* No settlement ever runs into the unique constraint on billed sheets.
THEOREM Fresh == Spec => []ChargesFresh
<1>1. IInv => ChargesFresh
  BY DEF IInv
<1> QED
  BY <1>1, Inductive, PTL

-----------------------------------------------------------------------------
\* What was charged.

\* Reservations change in three commits only, and two of them end those that
\* the session has locked.
LEMMA Commits ==
  ASSUME [Next]_vars
  PROVE  \/ UNCHANGED <<resv, billed>>
         \/ \E s \in Sessions :
              \/ \E r \in Rids, a \in [Grants -> 0 .. Cardinality(Sheets)] : ReserveCommit(s, r, a)
              \/ SettleCommit(s)
              \/ ReleaseCommit(s)
<1>1. ASSUME NEW s \in Sessions,
             \/ \E want \in SUBSET Sheets : ReserveRead(s, want)
             \/ ReserveCheck(s) \/ ReserveRefused(s) \/ Rollback(s)
             \/ \E r \in Rids, done \in SUBSET Sheets, u \in [Grants -> 0 .. Cardinality(Sheets)] :
                  SettleRead(s, r, done, u)
             \/ \E r \in Rids : ReleaseRead(s, r) \/ ReconcileRelease(s, r)
             \/ \E stale \in SUBSET Rids : ReconcileRead(s, stale)
      PROVE  UNCHANGED <<resv, billed>>
  BY <1>1 DEF ReserveRead, ReserveCheck, ReserveRefused, Rollback, SettleRead, ReleaseRead,
              ReconcileRelease, ReconcileRead
<1>2. ASSUME \E g \in Grants : Expire(g) \/ \E n \in Sizes : GrantAnswers(g, n)
      PROVE  UNCHANGED <<resv, billed>>
  BY <1>2 DEF GrantAnswers, Expire
<1>3. CASE UNCHANGED vars
  BY <1>3 DEF vars
<1> QED
  BY <1>1, <1>2, <1>3 DEF Next

\* A settlement has locked one reservation, which is active until its commit.
LEMMA SettledOne ==
  ASSUME IInv, NEW s \in Sessions, SettleCommit(s)
  PROVE  \E r \in Rids :
           /\ tx[s].locked = {r} /\ Active(r) /\ tx[s].sheets \subseteq resv[r].sheets
           /\ resv'[r].status = "settled" /\ resv'[r].settled = Cardinality(tx[s].sheets)
           /\ resv'[r].used = tx[s].spend /\ resv'[r].alloc = resv[r].alloc
           /\ \A q \in Rids \ {r} : resv'[q] = resv[q]
<1>1. PICK r \in Rids : /\ tx[s].locked = {r}
                       /\ Active(r)
                       /\ tx[s].sheets \subseteq resv[r].sheets
  BY DEF IInv, RowLocks, SettleCommit
<1>2. resv[r] \in Reservation
  BY DEF IInv, TypeOK
<1> QED
  BY <1>1, <1>2 DEF SettleCommit, Reservation

\* Nothing is charged before the settlement.
LEMMA UnusedKept == IInv /\ Unused /\ [Next]_vars => Unused'
<1> SUFFICES ASSUME IInv, Unused, [Next]_vars, NEW r \in Rids,
                    resv'[r].status \in {"none", "active"}
             PROVE  resv'[r].settled = 0 /\ resv'[r].used = None
  BY DEF Unused, None
<1>1. resv \in [Rids -> Reservation]
  BY DEF IInv, TypeOK
<1>2. CASE UNCHANGED <<resv, billed>>
  BY <1>2 DEF Unused
<1>3. ASSUME NEW s \in Sessions, NEW q \in Rids, NEW a, ReserveCommit(s, q, a)
      PROVE  resv'[r].settled = 0 /\ resv'[r].used = None
  BY <1>1, <1>3 DEF ReserveCommit, Unused
<1>4. ASSUME NEW s \in Sessions, SettleCommit(s)
      PROVE  resv'[r].settled = 0 /\ resv'[r].used = None
  BY <1>1, <1>4 DEF SettleCommit, Unused, Reservation
<1>5. ASSUME NEW s \in Sessions, ReleaseCommit(s)
      PROVE  resv'[r].settled = 0 /\ resv'[r].used = None
  BY <1>1, <1>5 DEF ReleaseCommit, Unused, Reservation
<1> QED
  BY <1>2, <1>3, <1>4, <1>5, Commits

LEMMA AccountedKept == IInv /\ Unused /\ ChargesAccounted /\ [Next]_vars => ChargesAccounted'
<1> SUFFICES ASSUME IInv, Unused, ChargesAccounted, [Next]_vars PROVE ChargesAccounted'
  OBVIOUS
<1> DEFINE f == [r \in Rids |-> resv[r].settled]
<1>1. resv \in [Rids -> Reservation] /\ billed \in SUBSET Sheets
  BY DEF IInv, TypeOK
<1>2. f \in [Rids -> Int] /\ f' \in [Rids -> Int]
  <2>1. resv' \in [Rids -> Reservation]
    BY NextType DEF IInv, TypeOK
  <2> QED
    BY <1>1, <2>1 DEF Reservation
<1>3. Cardinality(billed) = SumFunction(f)
  BY DEF ChargesAccounted
<1>4. SUFFICES Cardinality(billed') = SumFunction(f')
  BY DEF ChargesAccounted
<1>5. ASSUME f' = f, billed' = billed PROVE Cardinality(billed') = SumFunction(f')
  BY <1>3, <1>5
<1>6. CASE UNCHANGED <<resv, billed>>
  BY <1>5, <1>6
<1>7. ASSUME NEW s \in Sessions, NEW q \in Rids, NEW a, ReserveCommit(s, q, a)
      PROVE  f' = f /\ billed' = billed
  BY <1>1, <1>7 DEF ReserveCommit, Unused
<1>8. ASSUME NEW s \in Sessions, ReleaseCommit(s) PROVE f' = f /\ billed' = billed
  BY <1>1, <1>8 DEF ReleaseCommit, Reservation
<1>9. ASSUME NEW s \in Sessions, SettleCommit(s)
      PROVE  Cardinality(billed') = SumFunction(f')
  <2>1. PICK r \in Rids :
          /\ Active(r)
          /\ resv'[r].settled = Cardinality(tx[s].sheets)
          /\ \A q \in Rids \ {r} : resv'[q] = resv[q]
    BY <1>9, SettledOne
  <2>2. f[r] = 0 /\ f'[r] = Cardinality(tx[s].sheets) /\ \A q \in Rids \ {r} : f'[q] = f[q]
    BY <2>1 DEF Unused, Active
  <2>3. SumFunction(f') = SumFunction(f) + f'[r] - f[r]
    <3> HIDE DEF f
    <3> QED
      BY <1>2, <2>2, RidsFinite, TotalChange
  <2>4. Cardinality(billed') = Cardinality(billed) + Cardinality(tx[s].sheets)
    <3>1. billed' = billed \cup tx[s].sheets /\ billed \cap tx[s].sheets = {}
      BY <1>9 DEF SettleCommit, IInv, ChargesFresh
    <3>2. IsFiniteSet(billed) /\ IsFiniteSet(tx[s].sheets)
      BY SheetsFinite, FS_Subset DEF IInv, TypeOK, Transaction
    <3>3. /\ Cardinality(billed \cap tx[s].sheets) = 0
          /\ Cardinality(billed) \in Nat /\ Cardinality(tx[s].sheets) \in Nat
      BY <3>1, <3>2, FS_EmptySet, FS_CardinalityType
    <3>4. Cardinality(billed \cup tx[s].sheets) =
            Cardinality(billed) + Cardinality(tx[s].sheets) - Cardinality(billed \cap tx[s].sheets)
      BY <3>2, FS_Union
    <3> QED
      BY <3>1, <3>3, <3>4
  <2>5. Cardinality(tx[s].sheets) \in Nat /\ Cardinality(billed) \in Nat
    BY SheetCount DEF IInv, TypeOK, Transaction
  <2> HIDE DEF f
  <2> QED
    BY <1>3, <2>2, <2>3, <2>4, <2>5
<1> HIDE DEF f
<1> QED
  BY <1>5, <1>6, <1>7, <1>8, <1>9, Commits

LEMMA InitUnused == Init => Unused /\ ChargesAccounted
<1> SUFFICES ASSUME Init PROVE Unused /\ ChargesAccounted
  OBVIOUS
<1> DEFINE f == [r \in Rids |-> resv[r].settled]
<1>1. \A r \in Rids : resv[r] = NoReservation
  BY DEF Init
<1>2. SumFunction(f) = 0
  <2>1. f \in [Rids -> Int] /\ \A r \in Rids : f[r] = 0
    BY <1>1 DEF NoReservation
  <2> HIDE DEF f
  <2> QED
    BY <2>1, RidsFinite, TotalZero
<1>3. Cardinality(billed) = 0
  BY FS_EmptySet DEF Init
<1> QED
  BY <1>1, <1>2, <1>3 DEF Unused, ChargesAccounted, NoReservation

\* The sheets charged are those the settled_answers of the reservations count:
\* nothing is charged twice, and the reconciliation never loses a charge.
THEOREM Accounted == Spec => []ChargesAccounted
BY InitUnused, Inductive, UnusedKept, AccountedKept, PTL DEF Spec

-----------------------------------------------------------------------------
\* The ledger, as long as nobody crosses it.

HeldOf(g) == [r \in Rids |-> IF Active(r) THEN resv[r].alloc[g] ELSE 0]
UsedOf(g) == [r \in Rids |-> resv[r].used[g]]
EndingOf(s, g) == [r \in Rids |-> IF r \in tx[s].locked THEN resv[r].alloc[g] ELSE 0]

\* The counters of grant g are exact.
Exact(g) ==
  /\ grants[g].reserved = SumFunction(HeldOf(g))
  /\ grants[g].consumed = SumFunction(UsedOf(g))
  /\ grants[g].reserved + grants[g].consumed <= grants[g].total

LEMMA ExactEach ==
  /\ LedgerExact <=> \A g \in Grants : Exact(g)
  /\ \A s \in Sessions, g \in Grants : Ending(s, g) = SumFunction(EndingOf(s, g))
BY DEF LedgerExact, Exact, HeldOf, UsedOf, Ending, EndingOf

\* What is summed up, and the sums, are natural numbers.
LEMMA Numbers ==
  ASSUME TypeOK, NEW g \in Grants
  PROVE  /\ HeldOf(g) \in [Rids -> Nat] /\ UsedOf(g) \in [Rids -> Nat]
         /\ SumFunction(HeldOf(g)) \in Nat /\ SumFunction(UsedOf(g)) \in Nat
         /\ \A r \in Rids : resv[r].alloc[g] \in Nat /\ resv[r].used[g] \in Nat
         /\ grants[g].reserved \in Int /\ grants[g].consumed \in Int /\ grants[g].total \in Nat
<1>1. \A r \in Rids : resv[r].alloc[g] \in Nat /\ resv[r].used[g] \in Nat
  BY DEF TypeOK, Reservation, Amounts
<1>2. HeldOf(g) \in [Rids -> Nat] /\ UsedOf(g) \in [Rids -> Nat]
  BY <1>1 DEF HeldOf, UsedOf
<1>3. grants[g].reserved \in Int /\ grants[g].consumed \in Int /\ grants[g].total \in Nat
  BY DEF TypeOK, Grant
<1> QED
  BY <1>1, <1>2, <1>3, RidsFinite, TotalNat

LEMMA SessionNumbers ==
  ASSUME TypeOK, NEW s \in Sessions, NEW g \in Grants
  PROVE  /\ EndingOf(s, g) \in [Rids -> Nat] /\ Ending(s, g) \in Nat
         /\ tx[s].spend[g] \in Nat /\ tx[s].res[g] \in Int /\ tx[s].con[g] \in Int
<1>1. \A r \in Rids : resv[r].alloc[g] \in Nat
  BY Numbers
<1>2. EndingOf(s, g) \in [Rids -> Nat]
  BY <1>1 DEF EndingOf
<1>3. Ending(s, g) \in Nat
  BY <1>2, RidsFinite, TotalNat, ExactEach
<1>4. tx[s].spend[g] \in Nat /\ tx[s].res[g] \in Int /\ tx[s].con[g] \in Int
  BY DEF TypeOK, Transaction, Amounts
<1> QED
  BY <1>2, <1>3, <1>4

\* A session goes on with what it had when nobody crosses it.
LEMMA Bystander ==
  ASSUME IInv, NEW t \in Sessions, WritesExact(t), tx'[t] = tx[t], ~Crosses,
         \A r \in tx[t].locked : resv'[r] = resv[r]
  PROVE  WritesExact(t)'
<1>1. \A g \in Grants : EndingOf(t, g)' = EndingOf(t, g)
  BY DEF EndingOf
<1>2. \A g \in Grants : Ending(t, g)' = Ending(t, g)
  <2>1. ASSUME NEW g \in Grants PROVE Ending(t, g)' = Ending(t, g)
    <3>1. Ending(t, g)' = SumFunction(EndingOf(t, g)')
      BY DEF Ending, EndingOf
    <3>2. Ending(t, g) = SumFunction(EndingOf(t, g))
      BY DEF Ending, EndingOf
    <3> QED
      BY <1>1, <3>1, <3>2
  <2> QED
    BY <2>1
<1>3. \A r \in tx[t].locked \cup tx[t].todo : Active(r)'
  <2>1. \A r \in tx[t].locked : Active(r)'
    BY DEF WritesExact, Active
  <2>2. \A r \in tx[t].todo : Active(r)'
    <3>1. tx[t].op = "idle" => tx[t].todo = {}
      BY DEF IInv, RowLocks, Idle
    <3> QED
      BY <3>1 DEF WritesExact, Crosses, Active
  <2> QED
    BY <2>1, <2>2
<1>4. \A g \in Grants : g \in tx[t].touched =>
         grants'[g].reserved = grants[g].reserved /\ grants'[g].consumed = grants[g].consumed
  BY DEF Crosses, Counters
<1>5. WritesExact(t)
  OBVIOUS
<1> QED
  BY <1>2, <1>3, <1>4, <1>5 DEF WritesExact

\* A session that has loaded no grant writes nothing.
LEMMA NothingLoaded ==
  ASSUME TypeOK', NEW s \in Sessions, tx'[s].locked = {}, tx'[s].touched = {},
         tx'[s].spend = None, \A r \in tx'[s].todo : Active(r)'
  PROVE  WritesExact(s)'
<1>1. ASSUME NEW g \in Grants PROVE Ending(s, g)' = 0
  <2> DEFINE f == [r \in Rids |-> IF r \in tx'[s].locked THEN resv'[r].alloc[g] ELSE 0]
  <2>1. f \in [Rids -> Int] /\ \A r \in Rids : f[r] = 0
    OBVIOUS
  <2>2. Ending(s, g)' = SumFunction(f)
    BY DEF Ending
  <2> HIDE DEF f
  <2> QED
    BY <2>1, <2>2, RidsFinite, TotalZero
<1> QED
  BY <1>1 DEF WritesExact, None

\* x is what the record of session s becomes when it drops reservation r's
\* allocations, spending u.
Drops(s, r, u, x) ==
  /\ x.locked = tx[s].locked \cup {r} /\ x.todo = tx[s].todo \ {r}
  /\ x.touched = tx[s].touched \cup {g \in Grants : resv[r].alloc[g] > 0}
  /\ \A g \in Grants :
       /\ x.spend[g] = tx[s].spend[g] + u[g]
       /\ resv[r].alloc[g] > 0 =>
            /\ x.res[g] = (IF g \in tx[s].touched THEN tx[s].res[g] ELSE grants[g].reserved)
                           - resv[r].alloc[g]
            /\ x.con[g] = (IF g \in tx[s].touched THEN tx[s].con[g] ELSE grants[g].consumed)
                           + u[g]
       /\ ~ (resv[r].alloc[g] > 0) => x.res[g] = tx[s].res[g] /\ x.con[g] = tx[s].con[g]

\* Dropping the allocations of one more reservation keeps what the session is
\* about to write exact.
LEMMA DrawnExact ==
  ASSUME IInv, TypeOK', NEW s \in Sessions, NEW r \in Rids, NEW u \in Amounts,
         WritesExact(s), Active(r), r \notin tx[s].locked,
         \A g \in Grants : u[g] <= resv[r].alloc[g],
         UNCHANGED <<grants, resv>>,
         tx[s].op # "settle",
         tx'[s].op = "settle" \/ u = None,
         Drops(s, r, u, tx'[s])
  PROVE  WritesExact(s)'
<1>1. TypeOK
  BY DEF IInv
<1>2. ASSUME NEW g \in Grants PROVE Ending(s, g)' = Ending(s, g) + resv[r].alloc[g]
  <2> DEFINE e == [q \in Rids |-> IF q \in tx'[s].locked THEN resv'[q].alloc[g] ELSE 0]
  <2>1. Ending(s, g)' = SumFunction(e) /\ Ending(s, g) = SumFunction(EndingOf(s, g))
    BY DEF Ending, EndingOf
  <2>2. e \in [Rids -> Int] /\ EndingOf(s, g) \in [Rids -> Int] /\ resv[r].alloc[g] \in Nat
    BY <1>1, Numbers, SessionNumbers
  <2>3. e[r] = resv[r].alloc[g] /\ EndingOf(s, g)[r] = 0
    BY DEF EndingOf, Drops
  <2>4. \A q \in Rids \ {r} : e[q] = EndingOf(s, g)[q]
    BY DEF EndingOf, Drops
  <2>5. SumFunction(e) = SumFunction(EndingOf(s, g)) + e[r] - EndingOf(s, g)[r]
    <3> HIDE DEF e
    <3> QED
      BY <2>2, <2>4, RidsFinite, TotalChange
  <2>6. Ending(s, g) \in Nat
    BY <1>1, SessionNumbers
  <2> HIDE DEF e
  <2> QED
    BY <2>1, <2>2, <2>3, <2>5, <2>6
<1>3. /\ \A q \in tx'[s].locked \cup tx'[s].todo : Active(q)'
      /\ tx'[s].locked \cap tx'[s].todo = {}
  BY DEF WritesExact, Active, Drops
<1>4. ASSUME NEW g \in Grants
      PROVE  /\ tx'[s].spend[g] <= Ending(s, g)'
             /\ tx'[s].op # "settle" => tx'[s].spend[g] = 0
             /\ IF g \in tx'[s].touched
                  THEN /\ tx'[s].res[g] = grants'[g].reserved - Ending(s, g)'
                       /\ tx'[s].con[g] = grants'[g].consumed + tx'[s].spend[g]
                  ELSE Ending(s, g)' = 0
  <2>1. /\ resv[r].alloc[g] \in Nat /\ u[g] \in Nat /\ Ending(s, g) \in Nat
        /\ grants[g].reserved \in Int /\ grants[g].consumed \in Int
        /\ tx[s].res[g] \in Int /\ tx[s].con[g] \in Int
    BY <1>1, Numbers, SessionNumbers DEF Amounts
  <2>2. tx[s].spend[g] = 0 /\ u[g] <= resv[r].alloc[g]
    BY DEF WritesExact
  <2>3. IF g \in tx[s].touched
          THEN tx[s].res[g] = grants[g].reserved - Ending(s, g) /\ tx[s].con[g] = grants[g].consumed
          ELSE Ending(s, g) = 0
    BY <2>1, <2>2 DEF WritesExact
  <2>4. tx'[s].spend[g] = u[g] /\ Ending(s, g)' = Ending(s, g) + resv[r].alloc[g]
    BY <1>2, <2>1, <2>2 DEF Drops
  <2>5. u = None => u[g] = 0
    BY DEF None
  <2>6. CASE resv[r].alloc[g] > 0
    BY <2>1, <2>2, <2>3, <2>4, <2>5, <2>6 DEF Drops
  <2>7. CASE resv[r].alloc[g] = 0
    BY <2>1, <2>2, <2>3, <2>4, <2>5, <2>7 DEF Drops
  <2> QED
    BY <2>1, <2>6, <2>7
<1> QED
  BY <1>3, <1>4 DEF WritesExact

\* What a commit writes: the counters of the grants it touched, and no more.
LEMMA WrittenFields ==
  ASSUME TypeOK, NEW s \in Sessions, NEW g \in Grants
  PROVE  /\ Written(s)[g].state = grants[g].state /\ Written(s)[g].total = grants[g].total
         /\ Written(s)[g].reserved = IF g \in tx[s].touched THEN tx[s].res[g]
                                     ELSE grants[g].reserved
         /\ Written(s)[g].consumed = IF g \in tx[s].touched /\ tx[s].spend[g] > 0
                                     THEN tx[s].con[g] ELSE grants[g].consumed
<1>1. grants[g] \in Grant
  BY DEF TypeOK
<1> QED
  BY <1>1 DEF Written, Grant

\* The commit of a session that ends the reservations it locked leaves the
\* ledger exact when it consumes what it was about to spend.
LEMMA EndingExact ==
  ASSUME IInv, TypeOK', NEW s \in Sessions, LedgerExact, WritesExact(s), grants' = Written(s),
         \A r \in Rids : IF r \in tx[s].locked THEN ~Active(r)' ELSE resv'[r] = resv[r],
         \A g \in Grants : SumFunction(UsedOf(g))' = SumFunction(UsedOf(g)) + tx[s].spend[g]
  PROVE  LedgerExact'
<1> SUFFICES ASSUME NEW g \in Grants PROVE Exact(g)'
  <2>1. LedgerExact' <=> \A g \in Grants : Exact(g)'
    BY DEF LedgerExact, Exact, HeldOf, UsedOf
  <2> QED
    BY <2>1
<1>1. TypeOK /\ Exact(g)
  BY ExactEach DEF IInv
<1>2. /\ HeldOf(g) \in [Rids -> Nat] /\ EndingOf(s, g) \in [Rids -> Nat]
      /\ HeldOf(g)' \in [Rids -> Nat]
      /\ SumFunction(HeldOf(g)) \in Nat /\ SumFunction(UsedOf(g)) \in Nat
      /\ SumFunction(HeldOf(g)') \in Nat
      /\ Ending(s, g) \in Nat /\ tx[s].spend[g] \in Nat
      /\ grants[g].reserved \in Int /\ grants[g].consumed \in Int /\ grants[g].total \in Nat
  <2>1. TypeOK' => HeldOf(g)' \in [Rids -> Nat] /\ SumFunction(HeldOf(g))' \in Nat
    <3>1. ASSUME TypeOK' PROVE \A r \in Rids : resv'[r].alloc[g] \in Nat
      BY <3>1 DEF TypeOK, Reservation, Amounts
    <3>2. TypeOK' => HeldOf(g)' \in [Rids -> Nat]
      BY <3>1 DEF HeldOf
    <3> QED
      BY <3>2, RidsFinite, TotalNat
  <2> QED
    BY <1>1, <2>1, Numbers, SessionNumbers
<1>3. SumFunction(HeldOf(g)) = SumFunction(HeldOf(g)') + SumFunction(EndingOf(s, g))
  <2>1. ASSUME NEW r \in Rids
        PROVE  HeldOf(g)[r] = (HeldOf(g)')[r] + EndingOf(s, g)[r]
    <3>1. resv[r].alloc[g] \in Nat
      BY <1>1, Numbers
    <3>2. CASE r \in tx[s].locked
      <4>1. Active(r) /\ ~Active(r)'
        BY <3>2 DEF WritesExact
      <4> QED
        BY <3>1, <3>2, <4>1 DEF HeldOf, EndingOf
    <3>3. CASE r \notin tx[s].locked
      <4>1. resv'[r] = resv[r] /\ (Active(r)' <=> Active(r))
        BY <3>3 DEF Active
      <4> QED
        BY <3>1, <3>3, <4>1 DEF HeldOf, EndingOf
    <3> QED
      BY <3>2, <3>3
  <2>2. /\ HeldOf(g) \in [Rids -> Int] /\ HeldOf(g)' \in [Rids -> Int]
        /\ EndingOf(s, g) \in [Rids -> Int]
    BY <1>2
  <2> QED
    BY <2>1, <2>2, RidsFinite, TotalPlus
<1>4. Ending(s, g) = SumFunction(EndingOf(s, g))
  BY ExactEach
<1>5. /\ tx[s].spend[g] <= Ending(s, g)
      /\ IF g \in tx[s].touched
           THEN /\ tx[s].res[g] = grants[g].reserved - Ending(s, g)
                /\ tx[s].con[g] = grants[g].consumed + tx[s].spend[g]
           ELSE Ending(s, g) = 0
  BY DEF WritesExact
<1>6. /\ grants'[g].total = grants[g].total
      /\ grants'[g].reserved = grants[g].reserved - Ending(s, g)
      /\ grants'[g].consumed = grants[g].consumed + tx[s].spend[g]
  BY <1>1, <1>2, <1>5, WrittenFields
<1>7. /\ grants[g].reserved = SumFunction(HeldOf(g))
      /\ grants[g].consumed = SumFunction(UsedOf(g))
      /\ grants[g].reserved + grants[g].consumed <= grants[g].total
  BY <1>1 DEF Exact
<1>8. grants'[g].reserved = SumFunction(HeldOf(g)')
  BY <1>2, <1>3, <1>4, <1>6, <1>7
<1>9. grants'[g].consumed = SumFunction(UsedOf(g))'
  BY <1>6, <1>7
<1>10. grants'[g].reserved + grants'[g].consumed <= grants'[g].total
  BY <1>2, <1>5, <1>6, <1>7
<1> QED
  BY <1>8, <1>9, <1>10 DEF Exact

\* A settlement consumes what it spends, a release nothing.
LEMMA SettleExact ==
  ASSUME IInv, TypeOK', Unused, NEW s \in Sessions, LedgerExact, WritesExact(s), SettleCommit(s)
  PROVE  LedgerExact'
<1>1. PICK r \in Rids :
        /\ tx[s].locked = {r} /\ Active(r)
        /\ resv'[r].status = "settled" /\ resv'[r].used = tx[s].spend
        /\ \A q \in Rids \ {r} : resv'[q] = resv[q]
  BY SettledOne
<1>2. \A q \in Rids : IF q \in tx[s].locked THEN ~Active(q)' ELSE resv'[q] = resv[q]
  BY <1>1 DEF Active
<1>3. ASSUME NEW g \in Grants
      PROVE  SumFunction(UsedOf(g))' = SumFunction(UsedOf(g)) + tx[s].spend[g]
  <2>1. resv[r].used = None
    BY <1>1 DEF Unused, Active
  <2>2. UsedOf(g)[r] = 0 /\ (UsedOf(g)')[r] = tx[s].spend[g]
    BY <1>1, <2>1 DEF UsedOf, None
  <2>3. \A q \in Rids \ {r} : (UsedOf(g)')[q] = UsedOf(g)[q]
    BY <1>1 DEF UsedOf
  <2>4. /\ UsedOf(g) \in [Rids -> Int] /\ SumFunction(UsedOf(g)) \in Nat
        /\ tx[s].spend[g] \in Nat
    BY Numbers, SessionNumbers DEF IInv
  <2>5. UsedOf(g)' \in [Rids -> Int]
    BY DEF UsedOf, TypeOK, Reservation, Amounts
  <2>6. SumFunction(UsedOf(g)') = SumFunction(UsedOf(g)) + (UsedOf(g)')[r] - UsedOf(g)[r]
    BY <2>3, <2>4, <2>5, RidsFinite, TotalChange
  <2> QED
    BY <2>2, <2>4, <2>6
<1> QED
  BY <1>2, <1>3, EndingExact DEF SettleCommit

LEMMA ReleaseExact ==
  ASSUME IInv, TypeOK', NEW s \in Sessions, LedgerExact, WritesExact(s), ReleaseCommit(s)
  PROVE  LedgerExact'
<1>1. \A r \in Rids : /\ IF r \in tx[s].locked THEN ~Active(r)' ELSE resv'[r] = resv[r]
                      /\ resv'[r].used = resv[r].used
  <2>1. \A r \in Rids : resv[r] \in Reservation
    BY DEF IInv, TypeOK
  <2> QED
    BY <2>1 DEF ReleaseCommit, Active, Reservation
<1>2. ASSUME NEW g \in Grants
      PROVE  SumFunction(UsedOf(g))' = SumFunction(UsedOf(g)) + tx[s].spend[g]
  <2>1. UsedOf(g)' = UsedOf(g)
    BY <1>1 DEF UsedOf
  <2>2. tx[s].spend[g] = 0
    BY DEF WritesExact, ReleaseCommit
  <2>3. SumFunction(UsedOf(g)) \in Nat
    BY Numbers DEF IInv
  <2> QED
    BY <2>1, <2>2, <2>3
<1> QED
  BY <1>1, <1>2, EndingExact DEF ReleaseCommit

\* A new reservation reserves what is free of a grant, at most.
LEMMA ReserveExact ==
  ASSUME IInv, TypeOK', Unused, NEW s \in Sessions, NEW r \in Rids,
         NEW a \in [Grants -> 0 .. Cardinality(Sheets)], LedgerExact, ReserveCommit(s, r, a)
  PROVE  LedgerExact'
<1> SUFFICES ASSUME NEW g \in Grants PROVE Exact(g)'
  <2>1. LedgerExact' <=> \A g \in Grants : Exact(g)'
    BY DEF LedgerExact, Exact, HeldOf, UsedOf
  <2> QED
    BY <2>1
<1>1. TypeOK /\ Exact(g) /\ a[g] \in Nat
  BY ExactEach DEF IInv
<1>2. /\ HeldOf(g) \in [Rids -> Int] /\ UsedOf(g) \in [Rids -> Int]
      /\ SumFunction(HeldOf(g)) \in Nat /\ SumFunction(UsedOf(g)) \in Nat
      /\ grants[g].reserved \in Int /\ grants[g].consumed \in Int /\ grants[g].total \in Nat
  BY <1>1, Numbers
<1>3. HeldOf(g)' \in [Rids -> Int] /\ UsedOf(g)' \in [Rids -> Int]
  <2>1. \A q \in Rids : resv'[q].alloc[g] \in Nat /\ resv'[q].used[g] \in Nat
    BY DEF TypeOK, Reservation, Amounts
  <2> QED
    BY <2>1 DEF HeldOf, UsedOf
<1>4. /\ resv'[r].status = "active" /\ resv'[r].alloc = a /\ resv'[r].used = None
      /\ resv[r].status = "none"
      /\ \A q \in Rids \ {r} : resv'[q] = resv[q]
  BY <1>1 DEF ReserveCommit, TypeOK
<1>5. SumFunction(HeldOf(g)') = SumFunction(HeldOf(g)) + a[g]
  <2>1. HeldOf(g)[r] = 0 /\ (HeldOf(g)')[r] = a[g]
    BY <1>4 DEF HeldOf, Active
  <2>2. \A q \in Rids \ {r} : (HeldOf(g)')[q] = HeldOf(g)[q]
    BY <1>4 DEF HeldOf, Active
  <2>3. SumFunction(HeldOf(g)') = SumFunction(HeldOf(g)) + (HeldOf(g)')[r] - HeldOf(g)[r]
    BY <1>2, <1>3, <2>2, RidsFinite, TotalChange
  <2> QED
    BY <1>1, <1>2, <2>1, <2>3
<1>6. UsedOf(g)' = UsedOf(g)
  <2>1. \A q \in Rids : resv'[q].used = resv[q].used
    BY <1>4 DEF Unused
  <2> QED
    BY <2>1 DEF UsedOf
<1>7. /\ grants'[g].reserved = grants[g].reserved + a[g]
      /\ grants'[g].consumed = grants[g].consumed
      /\ grants'[g].total = grants[g].total
  BY <1>1 DEF ReserveCommit, TypeOK, Grant
<1>8. a[g] <= Free(g)
  BY DEF ReserveCommit, Fifo
<1>9. /\ grants[g].reserved = SumFunction(HeldOf(g))
      /\ grants[g].consumed = SumFunction(UsedOf(g))
      /\ grants[g].reserved + grants[g].consumed <= grants[g].total
  BY <1>1 DEF Exact
<1>10. grants'[g].reserved + grants'[g].consumed <= grants'[g].total
  BY <1>1, <1>2, <1>7, <1>8, <1>9 DEF Free
<1> QED
  BY <1>2, <1>5, <1>6, <1>7, <1>9, <1>10 DEF Exact

\* The other sessions, at a step of session s that leaves alone what they locked.
LEMMA OthersExact ==
  ASSUME IInv, \A t \in Sessions : WritesExact(t), ~Crosses, NEW s \in Sessions, NEW x,
         tx' = [tx EXCEPT ![s] = x],
         \A t \in Sessions \ {s} : \A r \in tx[t].locked : resv'[r] = resv[r]
  PROVE  \A t \in Sessions \ {s} : WritesExact(t)'
<1> SUFFICES ASSUME NEW t \in Sessions \ {s} PROVE WritesExact(t)'
  OBVIOUS
<1>1. tx'[t] = tx[t]
  BY DEF IInv, TypeOK
<1> QED
  BY <1>1, Bystander

\* A step that reads, or gives up: what session s holds afterwards is exact.
LEMMA ReadExact ==
  ASSUME IInv, LedgerExact, \A t \in Sessions : WritesExact(t), ~Crosses,
         NEW s \in Sessions, NEW x, tx' = [tx EXCEPT ![s] = x],
         UNCHANGED <<grants, resv>>, WritesExact(s)'
  PROVE  LedgerExact' /\ \A t \in Sessions : WritesExact(t)'
<1>1. \A t \in Sessions \ {s} : WritesExact(t)'
  BY OthersExact
<1>2. LedgerExact'
  BY DEF LedgerExact, Active
<1> QED
  BY <1>1, <1>2

\* After a commit session s is idle.
LEMMA CommitExact ==
  ASSUME IInv, TypeOK', \A t \in Sessions : WritesExact(t), ~Crosses,
         NEW s \in Sessions, tx' = [tx EXCEPT ![s] = Idle],
         \A r \in Rids : r \notin tx[s].locked => resv'[r] = resv[r] \/ ~Active(r)
  PROVE  \A t \in Sessions : WritesExact(t)'
<1>1. \A t \in Sessions \ {s} : \A r \in tx[t].locked : r \in Rids /\ r \notin tx[s].locked /\ Active(r)
  BY DEF IInv, RowLocks, WritesExact, TypeOK, Transaction
<1>2. \A t \in Sessions \ {s} : WritesExact(t)'
  BY <1>1, OthersExact
<1>3. /\ tx'[s].locked = {} /\ tx'[s].touched = {} /\ tx'[s].spend = None /\ tx'[s].todo = {}
  BY DEF IInv, TypeOK, Idle
<1>4. WritesExact(s)'
  BY <1>3, NothingLoaded
<1> QED
  BY <1>2, <1>4

\* What Drawn leaves in the record of a session.
LEMMA DrawnLedger ==
  ASSUME TypeOK, NEW s \in Sessions, NEW r \in Rids, NEW u, NEW x,
         \/ x = Drawn(s, r, u)
         \/ x = [Drawn(s, r, u) EXCEPT !.op = "release"]
         \/ \E c : x = [Drawn(s, r, u) EXCEPT !.op = "settle", !.sheets = c]
  PROVE  Drops(s, r, u, x)
<1>1. tx[s] \in Transaction
  BY DEF TypeOK
<1> DEFINE d == Drawn(s, r, u)
<1>2. /\ x.locked = d.locked /\ x.todo = d.todo /\ x.touched = d.touched
      /\ x.spend = d.spend /\ x.res = d.res /\ x.con = d.con
  BY <1>1 DEF Drawn, Taken, Transaction
<1>3. /\ d.locked = tx[s].locked \cup {r} /\ d.todo = tx[s].todo \ {r}
      /\ d.touched = tx[s].touched \cup {g \in Grants : resv[r].alloc[g] > 0}
  BY <1>1 DEF Drawn, Taken, Transaction
<1>4. ASSUME NEW g \in Grants
      PROVE  /\ d.spend[g] = tx[s].spend[g] + u[g]
             /\ resv[r].alloc[g] > 0 =>
                  /\ d.res[g] = (IF g \in tx[s].touched THEN tx[s].res[g]
                                 ELSE grants[g].reserved) - resv[r].alloc[g]
                  /\ d.con[g] = (IF g \in tx[s].touched THEN tx[s].con[g]
                                 ELSE grants[g].consumed) + u[g]
             /\ ~ (resv[r].alloc[g] > 0) => d.res[g] = tx[s].res[g] /\ d.con[g] = tx[s].con[g]
  BY <1>1 DEF Drawn, Taken, Transaction
<1> HIDE DEF d
<1> QED
  BY <1>2, <1>3, <1>4 DEF Drops

\* A step of an uncrossed state that crosses nobody keeps the ledger exact, and
\* what every session is about to write.
LEMMA NextExact ==
  ASSUME IInv, IInv', Unused, AbsentEmpty, LedgerExact, \A s \in Sessions : WritesExact(s),
         Next, ~Crosses
  PROVE  LedgerExact' /\ \A s \in Sessions : WritesExact(s)'
<1> DEFINE Good == LedgerExact' /\ \A s \in Sessions : WritesExact(s)'
<1>0. TypeOK /\ TypeOK' /\ RowLocks
  BY DEF IInv
<1>1. ASSUME NEW g \in Grants, NEW n \in Sizes, GrantAnswers(g, n) PROVE Good
  <2>1. \A s \in Sessions : WritesExact(s)'
    BY <1>1, Bystander DEF GrantAnswers
  <2>2. grants[g].reserved = 0 /\ grants[g].consumed = 0
    <3>1. grants[g].total = 0 /\ Exact(g)
      BY <1>1, ExactEach DEF GrantAnswers, AbsentEmpty
    <3>2. SumFunction(HeldOf(g)) \in Nat /\ SumFunction(UsedOf(g)) \in Nat
      BY <1>0, Numbers
    <3> QED
      BY <3>1, <3>2 DEF Exact
  <2>3. LedgerExact'
    <3>1. n \in Nat
      BY SizesPositive
    <3>2. /\ grants'[g].reserved = 0 /\ grants'[g].consumed = 0 /\ grants'[g].total = n
          /\ \A h \in Grants \ {g} : grants'[h] = grants[h]
      BY <1>0, <1>1 DEF GrantAnswers, TypeOK
    <3>3. resv' = resv
      BY <1>1 DEF GrantAnswers
    <3> QED
      BY <2>2, <3>1, <3>2, <3>3 DEF LedgerExact, Active
  <2> QED
    BY <2>1, <2>3
<1>2. ASSUME NEW g \in Grants, Expire(g) PROVE Good
  <2>1. \A s \in Sessions : WritesExact(s)'
    BY <1>2, Bystander DEF Expire
  <2>2. \A h \in Grants : /\ grants'[h].reserved = grants[h].reserved
                          /\ grants'[h].consumed = grants[h].consumed
                          /\ grants'[h].total = grants[h].total
    BY <1>0, <1>2 DEF Expire, TypeOK, Grant
  <2>3. resv' = resv
    BY <1>2 DEF Expire
  <2> QED
    BY <2>1, <2>2, <2>3 DEF LedgerExact, Active
<1>3. ASSUME NEW s \in Sessions, NEW x, tx' = [tx EXCEPT ![s] = x], UNCHANGED <<grants, resv>>,
             x.locked = {}, x.touched = {}, x.spend = None, \A r \in x.todo : Active(r)
      PROVE  Good
  <2>1. tx'[s] = x
    BY <1>0, <1>3 DEF TypeOK
  <2>2. \A r \in tx'[s].todo : Active(r)'
    BY <1>3, <2>1 DEF Active
  <2>3. WritesExact(s)'
    BY <1>0, <1>3, <2>1, <2>2, NothingLoaded
  <2> QED
    BY <1>3, <2>3, ReadExact
<1>4. ASSUME NEW s \in Sessions, ReserveRefused(s) \/ Rollback(s) PROVE Good
  <2>1. tx' = [tx EXCEPT ![s] = Idle] /\ UNCHANGED <<grants, resv>>
    BY <1>4 DEF ReserveRefused, Rollback
  <2>2. Idle.locked = {} /\ Idle.touched = {} /\ Idle.spend = None /\ Idle.todo = {}
    BY DEF Idle
  <2> QED
    BY <1>3, <2>1, <2>2
<1>5. ASSUME NEW s \in Sessions, NEW want, ReserveRead(s, want) PROVE Good
  <2> DEFINE x == [Idle EXCEPT !.op = "reserve", !.want = want, !.sheets = want \ billed]
  <2>1. tx' = [tx EXCEPT ![s] = x] /\ UNCHANGED <<grants, resv>>
    BY <1>5 DEF ReserveRead
  <2>2. x.locked = {} /\ x.touched = {} /\ x.spend = None /\ x.todo = {}
    BY DEF Idle
  <2> HIDE DEF x
  <2> QED
    BY <1>3, <2>1, <2>2
<1>6. ASSUME NEW s \in Sessions, NEW stale, ReconcileRead(s, stale) PROVE Good
  <2> DEFINE x == [Idle EXCEPT !.op = "reconcile", !.todo = stale]
  <2>1. tx' = [tx EXCEPT ![s] = x] /\ UNCHANGED <<grants, resv>> /\ \A r \in stale : Active(r)
    BY <1>6 DEF ReconcileRead
  <2>2. x.locked = {} /\ x.touched = {} /\ x.spend = None /\ x.todo = stale
    BY DEF Idle
  <2> HIDE DEF x
  <2> QED
    BY <1>3, <2>1, <2>2
<1>7. ASSUME NEW s \in Sessions, ReserveCheck(s) PROVE Good
  <2> DEFINE x == [tx[s] EXCEPT !.op = "insert"]
  <2>1. tx' = [tx EXCEPT ![s] = x] /\ UNCHANGED <<grants, resv>> /\ tx[s].op = "reserve"
    BY <1>7 DEF ReserveCheck
  <2>2. /\ x.locked = tx[s].locked /\ x.todo = tx[s].todo /\ x.touched = tx[s].touched
        /\ x.spend = tx[s].spend /\ x.res = tx[s].res /\ x.con = tx[s].con /\ x.op = "insert"
    BY <1>0 DEF TypeOK, Transaction
  <2>3. tx'[s] = x
    BY <1>0, <2>1 DEF TypeOK
  <2> HIDE DEF x
  <2>4. WritesExact(s)'
    <3>1. \A g \in Grants : Ending(s, g)' = Ending(s, g)
      BY <2>1, <2>2, <2>3 DEF Ending
    <3>2. WritesExact(s)
      OBVIOUS
    <3> QED
      BY <2>1, <2>2, <2>3, <3>1, <3>2 DEF WritesExact, Active
  <2> QED
    BY <2>1, <2>4, ReadExact
<1>8. ASSUME NEW s \in Sessions, NEW r \in Rids, NEW a \in [Grants -> 0 .. Cardinality(Sheets)],
             ReserveCommit(s, r, a)
      PROVE  Good
  <2>1. LedgerExact'
    BY <1>0, <1>8, ReserveExact
  <2>2. \A q \in Rids : q \notin tx[s].locked => resv'[q] = resv[q] \/ ~Active(q)
    BY <1>0, <1>8 DEF ReserveCommit, TypeOK, Active
  <2>3. tx' = [tx EXCEPT ![s] = Idle]
    BY <1>8 DEF ReserveCommit
  <2> QED
    BY <1>0, <2>1, <2>2, <2>3, CommitExact
<1>9. ASSUME NEW s \in Sessions, NEW r \in Rids, NEW u \in Amounts, NEW x,
             tx' = [tx EXCEPT ![s] = x], UNCHANGED <<grants, resv>>,
             \/ x = Drawn(s, r, u) /\ x.op # "settle"
             \/ x = [Drawn(s, r, u) EXCEPT !.op = "release"]
             \/ \E c : x = [Drawn(s, r, u) EXCEPT !.op = "settle", !.sheets = c],
             Active(r), r \notin tx[s].locked, \A g \in Grants : u[g] <= resv[r].alloc[g],
             tx[s].op # "settle", x.op = "settle" \/ u = None
      PROVE  Good
  <2>1. tx'[s] = x
    BY <1>0, <1>9 DEF TypeOK
  <2>2. \/ x = Drawn(s, r, u)
        \/ x = [Drawn(s, r, u) EXCEPT !.op = "release"]
        \/ \E c : x = [Drawn(s, r, u) EXCEPT !.op = "settle", !.sheets = c]
    BY <1>9
  <2>3. Drops(s, r, u, x)
    BY <1>0, <2>2, DrawnLedger
  <2>4. /\ WritesExact(s) /\ Active(r) /\ r \notin tx[s].locked
        /\ \A g \in Grants : u[g] <= resv[r].alloc[g]
        /\ UNCHANGED <<grants, resv>> /\ tx[s].op # "settle"
        /\ tx'[s].op = "settle" \/ u = None
    BY <1>9, <2>1
  <2>5. WritesExact(s)'
    BY <1>0, <2>1, <2>3, <2>4, DrawnExact
  <2> QED
    BY <1>9, <2>5, ReadExact
<1>10. ASSUME NEW s \in Sessions, NEW r \in Rids, NEW done,
              NEW u \in [Grants -> 0 .. Cardinality(Sheets)], SettleRead(s, r, done, u)
       PROVE  Good
  <2> DEFINE c == (resv[r].sheets \cap done) \ billed
             x == [Drawn(s, r, u) EXCEPT !.op = "settle", !.sheets = c]
  <2>1. u \in Amounts
    BY DEF Amounts
  <2>2. /\ tx' = [tx EXCEPT ![s] = x] /\ UNCHANGED <<grants, resv>>
        /\ tx[s].op = "idle" /\ Active(r) /\ \A g \in Grants : u[g] <= resv[r].alloc[g]
    BY <1>10 DEF SettleRead, Consume
  <2>3. x.op = "settle"
    BY <1>0, SettleFields
  <2>4. tx[s].locked = {}
    BY <1>0, <2>2 DEF RowLocks, Idle
  <2>5. \E d : x = [Drawn(s, r, u) EXCEPT !.op = "settle", !.sheets = d]
    OBVIOUS
  <2> HIDE DEF x, c
  <2> QED
    BY <1>9, <2>1, <2>2, <2>3, <2>4, <2>5
<1>11. None \in Amounts /\ \A r \in Rids : \A g \in Grants : None[g] <= resv[r].alloc[g]
  BY <1>0 DEF TypeOK, Reservation, Amounts, None
<1>12. ASSUME NEW s \in Sessions, NEW r \in Rids, ReleaseRead(s, r) PROVE Good
  <2> DEFINE x == [Drawn(s, r, None) EXCEPT !.op = "release"]
  <2>1. tx' = [tx EXCEPT ![s] = x] /\ UNCHANGED <<grants, resv>> /\ tx[s].op = "idle" /\ Active(r)
    BY <1>12 DEF ReleaseRead
  <2>2. tx[s].locked = {}
    BY <1>0, <2>1 DEF RowLocks, Idle
  <2>3. x = [Drawn(s, r, None) EXCEPT !.op = "release"]
    OBVIOUS
  <2> HIDE DEF x
  <2> QED
    BY <1>9, <1>11, <2>1, <2>2, <2>3
<1>13. ASSUME NEW s \in Sessions, NEW r \in Rids, ReconcileRelease(s, r) PROVE Good
  <2> DEFINE x == Drawn(s, r, None)
  <2>1. /\ tx' = [tx EXCEPT ![s] = x] /\ UNCHANGED <<grants, resv>>
        /\ tx[s].op = "reconcile" /\ r \in tx[s].todo
    BY <1>13 DEF ReconcileRelease
  <2>2. Active(r) /\ r \notin tx[s].locked
    BY <2>1 DEF WritesExact
  <2>3. x = Drawn(s, r, None) /\ x.op = "reconcile"
    BY <1>0, <2>1, DrawnFields
  <2> HIDE DEF x
  <2> QED
    BY <1>9, <1>11, <2>1, <2>2, <2>3
<1>14. ASSUME NEW s \in Sessions, SettleCommit(s) PROVE Good
  <2>1. LedgerExact'
    BY <1>0, <1>14, SettleExact
  <2>2. /\ tx' = [tx EXCEPT ![s] = Idle]
        /\ \A q \in Rids : q \notin tx[s].locked => resv'[q] = resv[q]
    BY <1>14 DEF SettleCommit
  <2> QED
    BY <1>0, <2>1, <2>2, CommitExact
<1>15. ASSUME NEW s \in Sessions, ReleaseCommit(s) PROVE Good
  <2>1. LedgerExact'
    BY <1>0, <1>15, ReleaseExact
  <2>2. /\ tx' = [tx EXCEPT ![s] = Idle]
        /\ \A q \in Rids : q \notin tx[s].locked => resv'[q] = resv[q]
    BY <1>15 DEF ReleaseCommit
  <2> QED
    BY <1>0, <2>1, <2>2, CommitExact
<1> HIDE DEF Good
<1>16. Good
  BY <1>1, <1>2, <1>4, <1>5, <1>6, <1>7, <1>8, <1>10, <1>12, <1>13, <1>14, <1>15 DEF Next
<1> QED
  BY <1>16 DEF Good

\* Grants that were not bought stay empty.
LEMMA AbsentKept == TypeOK /\ AbsentEmpty /\ [Next]_vars => AbsentEmpty'
<1> SUFFICES ASSUME TypeOK, AbsentEmpty, [Next]_vars, NEW h \in Grants,
                    grants'[h].state = "absent"
             PROVE  grants'[h].total = 0
  BY DEF AbsentEmpty
<1>1. grants[h] \in Grant
  BY DEF TypeOK
<1>2. CASE grants' = grants
  BY <1>2 DEF AbsentEmpty
<1>3. ASSUME NEW g \in Grants, NEW n, GrantAnswers(g, n) PROVE grants'[h].total = 0
  BY <1>1, <1>3 DEF GrantAnswers, AbsentEmpty, TypeOK
<1>4. ASSUME NEW g \in Grants, Expire(g) PROVE grants'[h].total = 0
  BY <1>1, <1>4 DEF Expire, AbsentEmpty, TypeOK, Grant
<1>5. ASSUME NEW s \in Sessions, SettleCommit(s) \/ ReleaseCommit(s) PROVE grants'[h].total = 0
  <2>1. grants' = Written(s)
    BY <1>5 DEF SettleCommit, ReleaseCommit
  <2> QED
    BY <2>1, WrittenFields DEF AbsentEmpty
<1>6. ASSUME NEW s \in Sessions, NEW r \in Rids, NEW a, ReserveCommit(s, r, a)
      PROVE  grants'[h].total = 0
  BY <1>1, <1>6 DEF ReserveCommit, AbsentEmpty, Grant
<1>7. ASSUME NEW s \in Sessions,
             \/ \E want \in SUBSET Sheets : ReserveRead(s, want)
             \/ ReserveCheck(s) \/ ReserveRefused(s) \/ Rollback(s)
             \/ \E r \in Rids, done \in SUBSET Sheets, u \in [Grants -> 0 .. Cardinality(Sheets)] :
                  SettleRead(s, r, done, u)
             \/ \E r \in Rids : ReleaseRead(s, r) \/ ReconcileRelease(s, r)
             \/ \E stale \in SUBSET Rids : ReconcileRead(s, stale)
      PROVE  grants' = grants
  BY <1>7 DEF ReserveRead, ReserveCheck, ReserveRefused, Rollback, SettleRead, ReleaseRead,
              ReconcileRelease, ReconcileRead
<1>8. CASE UNCHANGED vars
  BY <1>2, <1>8 DEF vars
<1> QED
  BY <1>2, <1>3, <1>4, <1>5, <1>6, <1>7, <1>8 DEF Next

LEMMA InitCross == CrossInit => CrossInv
<1> SUFFICES ASSUME CrossInit PROVE CrossInv
  OBVIOUS
<1>1. IInv /\ Unused /\ TypeOK
  BY InitInv, InitUnused, InitType DEF CrossInit
<1>2. AbsentEmpty
  BY DEF CrossInit, Init, AbsentEmpty
<1>3. ASSUME NEW s \in Sessions PROVE WritesExact(s)
  <2>1. tx[s] = Idle
    BY DEF CrossInit, Init
  <2>2. /\ tx[s].locked = {} /\ tx[s].touched = {} /\ tx[s].todo = {} /\ tx[s].spend = None
    BY <2>1 DEF Idle
  <2>3. ASSUME NEW g \in Grants PROVE Ending(s, g) = 0
    <3>1. EndingOf(s, g) \in [Rids -> Int] /\ \A r \in Rids : EndingOf(s, g)[r] = 0
      BY <2>2 DEF EndingOf
    <3>2. Ending(s, g) = SumFunction(EndingOf(s, g))
      BY ExactEach
    <3> QED
      BY <3>1, <3>2, RidsFinite, TotalZero
  <2> QED
    BY <2>2, <2>3 DEF WritesExact, None
<1>4. ASSUME NEW g \in Grants PROVE Exact(g)
  <2>1. /\ grants[g].reserved = 0 /\ grants[g].consumed = 0 /\ grants[g].total = 0
        /\ \A r \in Rids : resv[r] = NoReservation
    BY DEF CrossInit, Init
  <2>2. /\ HeldOf(g) \in [Rids -> Int] /\ UsedOf(g) \in [Rids -> Int]
        /\ \A r \in Rids : HeldOf(g)[r] = 0 /\ UsedOf(g)[r] = 0
    BY <2>1 DEF HeldOf, UsedOf, Active, NoReservation, None
  <2>3. SumFunction(HeldOf(g)) = 0 /\ SumFunction(UsedOf(g)) = 0
    BY <2>2, RidsFinite, TotalZero
  <2> QED
    BY <2>1, <2>3 DEF Exact
<1> QED
  BY <1>1, <1>2, <1>3, <1>4, ExactEach DEF CrossInv

LEMMA NextCross == CrossInv /\ [CrossNext]_<<vars, crossed>> => CrossInv'
<1> SUFFICES ASSUME CrossInv, [CrossNext]_<<vars, crossed>> PROVE CrossInv'
  OBVIOUS
<1>1. [Next]_vars /\ IInv /\ Unused /\ AbsentEmpty
  BY DEF CrossNext, CrossInv
<1>2. IInv' /\ Unused' /\ AbsentEmpty'
  <2>1. TypeOK
    BY <1>1 DEF IInv
  <2>2. IInv'
    BY <1>1, NextInv
  <2>3. Unused'
    BY <1>1, UnusedKept
  <2>4. AbsentEmpty'
    BY <1>1, <2>1, AbsentKept
  <2> QED
    BY <2>2, <2>3, <2>4
<1>3. ASSUME ~crossed' PROVE LedgerExact' /\ \A s \in Sessions : WritesExact(s)'
  <2>1. CASE UNCHANGED <<vars, crossed>>
    <3>1. LedgerExact /\ \A s \in Sessions : WritesExact(s)
      BY <1>3, <2>1 DEF CrossInv
    <3> QED
      BY <2>1, <3>1 DEF vars, LedgerExact, WritesExact, Ending, Active
  <2>2. CASE CrossNext
    <3>1. Next /\ ~Crosses /\ ~crossed
      BY <1>3, <2>2 DEF CrossNext
    <3>2. LedgerExact /\ \A s \in Sessions : WritesExact(s)
      BY <3>1 DEF CrossInv
    <3> QED
      BY <1>1, <1>2, <3>1, <3>2, NextExact
  <2> QED
    BY <2>1, <2>2
<1> QED
  BY <1>2, <1>3 DEF CrossInv

\* As long as no commit crosses what another transaction goes on with, the
\* counters of every grant say what the reservations say.
THEOREM UncrossedExact == CrossSpec => []LedgerUncrossed
<1>1. CrossInv => LedgerUncrossed
  BY DEF CrossInv, LedgerUncrossed
<1> QED
  BY <1>1, InitCross, NextCross, PTL DEF CrossSpec

-----------------------------------------------------------------------------
\* Refinement of SheetBilling.

LEMMA HeldSame ==
  ASSUME \A r \in Rids : resv'[r] = resv[r]
  PROVE  held' = held
BY DEF held, Active

LEMMA ReserveHolds ==
  ASSUME IInv, NEW s \in Sessions, NEW r \in Rids, NEW a, ReserveCommit(s, r, a)
  PROVE  Abstract!Hold(r, tx[s].sheets) /\ tx[s].sheets \in SUBSET Sheets
<1>1. /\ tx[s].sheets \subseteq tx[s].want
      /\ tx[s].sheets \in SUBSET Sheets
      /\ tx[s].want \cap ActiveSheets = {}
  BY DEF IInv, TypeOK, RowLocks, CheckedStaysFree, ReserveCommit, Transaction
<1>2. held[r] = {}
  BY DEF ReserveCommit, held, Active
<1>3. \A q \in Rids : held[q] \cap tx[s].sheets = {}
  BY <1>1 DEF held, ActiveSheets
<1>4. held' = [held EXCEPT ![r] = tx[s].sheets]
  BY DEF ReserveCommit, held, Active, IInv, TypeOK
<1> QED
  BY <1>1, <1>2, <1>3, <1>4 DEF Abstract!Hold, ReserveCommit

LEMMA SettleSettles ==
  ASSUME IInv, NEW s \in Sessions, SettleCommit(s)
  PROVE  \E r \in Rids, S \in SUBSET Sheets : Abstract!Settle(r, S)
<1>1. PICK r \in Rids : /\ tx[s].locked = {r}
                       /\ Active(r)
                       /\ tx[s].sheets \subseteq resv[r].sheets
  BY DEF IInv, RowLocks, SettleCommit
<1>2. tx[s].sheets \in SUBSET Sheets /\ tx[s].sheets \cap billed = {}
  BY DEF IInv, TypeOK, Transaction, ChargesFresh, SettleCommit
<1>3. tx[s].sheets \subseteq held[r] \ billed
  BY <1>1, <1>2 DEF held
<1>4. held' = [held EXCEPT ![r] = {}]
  <2>1. ~Active(r)'
    BY <1>1 DEF SettleCommit, Active, IInv, TypeOK, Reservation
  <2>2. \A q \in Rids \ {r} : resv'[q] = resv[q]
    BY <1>1 DEF SettleCommit
  <2> QED
    BY <2>1, <2>2 DEF held, Active
<1> QED
  BY <1>2, <1>3, <1>4 DEF Abstract!Settle, SettleCommit

LEMMA ReleaseDrops ==
  ASSUME IInv, NEW s \in Sessions, ReleaseCommit(s)
  PROVE  \E R \in SUBSET Rids : Abstract!Drop(R)
<1>1. tx[s].locked \in SUBSET Rids
  BY DEF IInv, TypeOK, Transaction
<1>2. \A r \in Rids : IF r \in tx[s].locked THEN ~Active(r)' ELSE resv'[r] = resv[r]
  BY DEF ReleaseCommit, Active, IInv, TypeOK, Reservation
<1>3. held' = [r \in Rids |-> IF r \in tx[s].locked THEN {} ELSE held[r]]
  BY <1>2 DEF held, Active
<1> QED
  BY <1>1, <1>3 DEF Abstract!Drop, ReleaseCommit

LEMMA NextRefines == IInv /\ [Next]_vars => [Abstract!Next]_<<held, billed>>
<1> SUFFICES ASSUME IInv, [Next]_vars PROVE [Abstract!Next]_<<held, billed>>
  OBVIOUS
<1>1. ASSUME UNCHANGED <<resv, billed>> PROVE UNCHANGED <<held, billed>>
  BY <1>1, HeldSame
<1>2. CASE \E s \in Sessions, r \in Rids, a \in [Grants -> 0 .. Cardinality(Sheets)] :
             ReserveCommit(s, r, a)
  BY <1>2, ReserveHolds DEF Abstract!Next
<1>3. CASE \E s \in Sessions : SettleCommit(s)
  BY <1>3, SettleSettles DEF Abstract!Next
<1>4. CASE \E s \in Sessions : ReleaseCommit(s)
  BY <1>4, ReleaseDrops DEF Abstract!Next
<1>5. ASSUME NEW s \in Sessions,
             \/ \E want \in SUBSET Sheets : ReserveRead(s, want)
             \/ ReserveCheck(s) \/ ReserveRefused(s) \/ Rollback(s)
             \/ \E r \in Rids, done \in SUBSET Sheets, u \in [Grants -> 0 .. Cardinality(Sheets)] :
                  SettleRead(s, r, done, u)
             \/ \E r \in Rids : ReleaseRead(s, r) \/ ReconcileRelease(s, r)
             \/ \E stale \in SUBSET Rids : ReconcileRead(s, stale)
      PROVE  UNCHANGED <<resv, billed>>
  BY <1>5 DEF ReserveRead, ReserveCheck, ReserveRefused, Rollback, SettleRead, ReleaseRead,
              ReconcileRelease, ReconcileRead
<1>6. ASSUME \E g \in Grants : Expire(g) \/ \E n \in Sizes : GrantAnswers(g, n)
      PROVE  UNCHANGED <<resv, billed>>
  BY <1>6 DEF GrantAnswers, Expire
<1>7. CASE UNCHANGED vars
  BY <1>1, <1>7 DEF vars
<1> QED
  BY <1>1, <1>2, <1>3, <1>4, <1>5, <1>6, <1>7 DEF Next

\* Under any interleaving of transactions a sheet is taken by one reservation
\* at a time and billed only by its holder, once: the ledger implements
\* SheetBilling.
THEOREM Refinement == Spec => BillsOnce
<1>1. Init => Abstract!Init
  BY DEF Init, Abstract!Init, held, Active, NoReservation
<1>2. UNCHANGED <<held, billed>> => UNCHANGED Abstract!vars
  BY DEF Abstract!vars
<1>3. IInv /\ [Next]_vars => [Abstract!Next]_(Abstract!vars)
  BY <1>2, NextRefines
<1> QED
  BY <1>1, <1>3, Inductive, PTL DEF Spec, BillsOnce, Abstract!Spec

(***************************************************************************)
(* AnswerKey for any questions, regions, bodies, runs, requests and bounds *)
(***************************************************************************)

LEMMA KeyBlanks ==
  /\ NoItem \in Item /\ NoId \in Id /\ NoAnswer \in Answer /\ NoGrading \in Grading
  /\ NoRequest \in Request /\ NoKey \notin Keys /\ NoRegion \notin Regions /\ NoBody \notin Bodies
<1>1. NoItem \in Item /\ NoId \in Id /\ NoAnswer \in Answer
  BY BoundsNat DEF NoItem, Item, NoId, Id, NoAnswer, Answer
<1>2. NoGrading \in Grading
  BY <1>1 DEF NoGrading, Grading
<1>3. [k \in Keys |-> 0] \in [Keys -> 0 .. MaxRevs]
  BY BoundsNat
<1>4. NoRequest \in Request
  BY <1>1, <1>3 DEF NoRequest, Request
<1> QED BY <1>1, <1>2, <1>4, Outside

\* What a question's regions are.
LEMMA PlacesAre ==
  ASSUME NEW s \in Places
  PROVE  /\ s # <<>> /\ s[1] \in Regions /\ s[1] \in Rng(s) /\ Primary(s) = s[1]
         /\ Rng(s) \subseteq Regions
         /\ \/ Rng(s) = {s[1]} /\ Len(s) = 1
            \/ Rng(s) = {s[1], s[2]} /\ Len(s) = 2 /\ s[2] \in Regions /\ s[1] # s[2]
<1>1. CASE s \in [1 .. 1 -> Regions]
  <2>1. s[1] \in Regions
    BY <1>1
  <2>2. DOMAIN s = 1 .. 1 /\ 1 .. 1 = {1}
    BY <1>1
  <2>3. Len(s) = 1 /\ s # <<>>
    BY <1>1
  <2>4. Rng(s) = {s[1]}
    BY <2>2 DEF Rng
  <2> QED BY <2>1, <2>3, <2>4 DEF Primary
<1>2. CASE s \in [1 .. 2 -> Regions]
  <2>1. s[1] \in Regions /\ s[2] \in Regions
    BY <1>2
  <2>2. DOMAIN s = 1 .. 2 /\ 1 .. 2 = {1, 2}
    BY <1>2
  <2>3. Len(s) = 2 /\ s # <<>>
    BY <1>2
  <2>4. Rng(s) = {s[1], s[2]}
    BY <2>2 DEF Rng
  <2>5. s[1] # s[2]
    BY <2>3 DEF Places
  <2> QED BY <2>1, <2>3, <2>4, <2>5 DEF Primary
<1> QED BY <1>1, <1>2 DEF Places

LEMMA SoloPlaces ==
  ASSUME NEW r \in Regions
  PROVE  <<r>> \in Places /\ Rng(<<r>>) = {r} /\ Primary(<<r>>) = r
<1>1. <<r>> \in [1 .. 1 -> Regions] /\ Len(<<r>>) = 1 /\ DOMAIN <<r>> = {1} /\ <<r>>[1] = r /\ <<r>> # <<>>
  OBVIOUS
<1> QED BY <1>1 DEF Places, Rng, Primary

\* What is left of a question's regions when one goes; the first one stays the first.
LEMMA WithoutIs ==
  ASSUME NEW s, s = <<>> \/ s \in Places, NEW r \in Regions
  PROVE  /\ Without(s, r) = <<>> \/ Without(s, r) \in Places
         /\ Rng(Without(s, r)) = Rng(s) \ {r}
         /\ Primary(s) # r => Primary(Without(s, r)) = Primary(s)
<1>0. Rng(<<>>) = {}
  BY DEF Rng
<1>1. CASE r \notin Rng(s)
  BY <1>1 DEF Without
<1>2. CASE r \in Rng(s) /\ Rng(s) = {r}
  <2>1. Without(s, r) = <<>> /\ Primary(s) = r
    BY <1>0, <1>2, PlacesAre DEF Without
  <2> QED BY <1>0, <1>2, <2>1
<1>3. CASE r \in Rng(s) /\ Rng(s) # {r}
  <2>1. s \in Places /\ s[1] \in Regions /\ s[2] \in Regions /\ s[1] # s[2] /\ Rng(s) = {s[1], s[2]} /\ Primary(s) = s[1]
    BY <1>0, <1>3, PlacesAre
  <2> DEFINE q == CHOOSE q \in Rng(s) : q # r
  <2>2. q \in Rng(s) /\ q # r
    BY <2>1
  <2>3. Without(s, r) = <<q>>
    BY <1>3 DEF Without
  <2>4. q \in Regions /\ Rng(s) \ {r} = {q} /\ (s[1] # r => q = s[1])
    BY <1>3, <2>1, <2>2
  <2> HIDE DEF q
  <2> QED BY <2>1, <2>3, <2>4, SoloPlaces
<1> QED BY <1>1, <1>2, <1>3

\* Two confirmed questions have different first regions.
LEMMA PrimaryApart ==
  ASSUME KeyTypeOK, NEW k \in Keys, NEW j \in Keys, k # j, at[k] # <<>>
  PROVE  at[k] \in Places /\ at[k][1] \in regions /\ Primary(at[k]) = at[k][1] /\ Primary(at[j]) # at[k][1]
<1>1. at[k] \in Places /\ Rng(at[k]) \subseteq regions /\ Rng(at[k]) \cap Rng(at[j]) = {}
  BY DEF KeyTypeOK
<1>2. at[k][1] \in Rng(at[k]) /\ at[k][1] \in Regions /\ Primary(at[k]) = at[k][1]
  BY <1>1, PlacesAre
<1>3. CASE at[j] = <<>>
  BY <1>1, <1>2, <1>3, KeyBlanks DEF Primary
<1>4. CASE at[j] # <<>>
  <2>1. at[j] \in Places /\ at[j][1] \in Rng(at[j]) /\ Primary(at[j]) = at[j][1]
    BY <1>4, PlacesAre DEF KeyTypeOK
  <2> QED BY <1>1, <1>2, <2>1
<1> QED BY <1>1, <1>2, <1>3, <1>4

LEMMA FirstOf ==
  ASSUME KeyTypeOK, NEW k \in Keys, at[k] # <<>>
  PROVE  at[k] \in Places /\ at[k][1] \in regions /\ at[k][1] \in Regions /\ Primary(at[k]) = at[k][1]
  BY PlacesAre DEF KeyTypeOK

\* The question at a target.
LEMMA KeyAtIs ==
  ASSUME KeyTypeOK, NEW r \in Targets, \A k \in known : at[k] # <<>>
  PROVE  /\ r \in Regions /\ KeyAt(r) \in known /\ KeyAt(r) \in Keys
         /\ Primary(at[KeyAt(r)]) = r /\ at[KeyAt(r)][1] = r
<1>1. \E k \in known : at[k] # <<>> /\ at[k][1] = r
  BY DEF Targets
<1>2. KeyAt(r) \in known /\ at[KeyAt(r)] # <<>> /\ at[KeyAt(r)][1] = r
  BY <1>1 DEF KeyAt
<1>3. KeyAt(r) \in Keys
  BY <1>2 DEF KeyTypeOK
<1> QED BY <1>2, <1>3, FirstOf

LEMMA FilledTyped ==
  ASSUME NEW key \in Keys \cup {NoKey}, NEW body \in Bodies \cup {NoBody}
  PROVE  /\ Filled(key, body) \in Item /\ Filled(key, body).key = key
         /\ Filled(key, body).status = "matched" => Filled(key, body).body # NoBody
  BY DEF Filled, Item

LEMMA KeyStarts == KeyInit => KeyInv
<1> SUFFICES ASSUME KeyInit PROVE KeyInv
  OBVIOUS
<1>1. /\ \A r \in Regions : run.item[r] = NoGrading /\ run.work[r] = NoBody
      /\ run.item = [r \in Regions |-> NoGrading] /\ run.work = [r \in Regions |-> NoBody]
      /\ \A k \in Keys : run.lock[k] = NoId /\ revs[k] = <<>> /\ answer[k] = NoAnswer /\ at[k] = <<>>
      /\ run.status = "none" /\ known = {}
      /\ \A p \in Preps, s \in Slots : prep[p].item[s] = NoItem /\ prep[p].asks = {}
      /\ \A t \in Teachers : request[t] = NoRequest
  BY DEF KeyInit
<1>2. KeyTypeOK
  <2>1. run \in Run
    BY KeyBlanks DEF KeyInit, Run
  <2>2. prep \in [Preps -> Prep]
    BY KeyBlanks, BoundsNat DEF KeyInit, Prep
  <2>3. revs \in [Keys -> Seq(Rev)] /\ \A k \in Keys : Len(revs[k]) <= MaxRevs
    <3>1. <<>> \in Seq(Rev) /\ Len(<<>>) = 0
      OBVIOUS
    <3>2. Len(<<>>) <= MaxRevs
      BY <3>1, BoundsNat
    <3> QED BY <1>1, <3>1, <3>2 DEF KeyInit
  <2>4. Rng(<<>>) = {}
    BY DEF Rng
  <2>5. answer \in [Keys -> Answer] /\ request \in [Teachers -> Request] /\ recognised \in 0 .. MaxSheets
    BY KeyBlanks, BoundsNat DEF KeyInit
  <2>6. regions = {} /\ manual = {} /\ known = {} /\ moved = FALSE
    BY DEF KeyInit
  <2>7. \A k \in Keys : ~Exists(k)
    BY <1>1 DEF Exists, NoAnswer
  <2> QED BY <1>1, <2>1, <2>2, <2>3, <2>4, <2>5, <2>6, <2>7 DEF KeyTypeOK
<1>3. KeysKnown /\ MatchedSays /\ RequestsHold
  BY <1>1 DEF KeysKnown, MatchedSays, RequestsHold, NoItem, NoRequest, Exists, NoAnswer, KeyInit
<1>4. OnlyConfirmed
  BY <1>1 DEF OnlyConfirmed, Current, IdOf, NoAnswer
<1>5. PromisesKept /\ ItemsRevised /\ ItemsLocked /\ GradedByLock
  BY <1>1 DEF PromisesKept, ItemsRevised, ItemsLocked, GradedByLock, NoGrading
<1>6. ItemsInPlace
  BY <1>1 DEF ItemsInPlace, NoGrading
<1> QED BY <1>2, <1>3, <1>4, <1>5, <1>6 DEF KeyInv

\* A step of the run: everything else stays.
LEMMA RunSteps ==
  ASSUME KeyInv, UNCHANGED <<regions, at, known, recognised, prep, answer, manual, revs, request, moved>>,
         run' \in Run, PromisesKept', ItemsRevised', ItemsLocked', GradedByLock', ItemsInPlace'
  PROVE  KeyInv'
<1>1. KeyTypeOK'
  BY DEF KeyInv, KeyTypeOK, Exists
<1>2. KeysKnown' /\ MatchedSays'
  BY DEF KeyInv, KeysKnown, MatchedSays, Exists
<1>3. RequestsHold'
  BY DEF KeyInv, RequestsHold, RowStands, Exists
<1>4. OnlyConfirmed'
  BY DEF KeyInv, OnlyConfirmed, Current, IdOf, InForce, Exists
<1> QED BY <1>1, <1>2, <1>3, <1>4 DEF KeyInv

\* A step that changes neither run, answers nor where questions are keeps what the
\* run relies on.
LEMMA RunRests ==
  ASSUME KeyInv, UNCHANGED <<at, known, answer, revs, run, moved>>
  PROVE  PromisesKept' /\ ItemsRevised' /\ ItemsLocked' /\ GradedByLock' /\ ItemsInPlace'
<1>1. PromisesKept' /\ ItemsRevised'
  BY DEF KeyInv, PromisesKept, ItemsRevised, RowStands, Exists
<1>2. ItemsLocked'
  BY DEF KeyInv, ItemsLocked, RowStands, Exists
<1>3. GradedByLock' /\ ItemsInPlace'
  BY DEF KeyInv, GradedByLock, ItemsInPlace, Primary
<1> QED BY <1>1, <1>2, <1>3

\* A step ends requests, if it changes any.
OnlyEnds ==
  /\ request' \in [Teachers -> Request]
  /\ \A u \in Teachers : request'[u] = request[u] \/ request'[u] = NoRequest

\* What a confirmation under way has read, with the runs P.
Reads(q, P) ==
  \A s \in Slots : q.item[s].key # NoKey =>
    /\ q.item[s].body # NoBody
    /\ ~P[q.prep].crossed => /\ P[q.prep].item[s].status \in {"matched", "confirmed"}
                             /\ P[q.prep].item[s].key = q.item[s].key
                             /\ P[q.prep].item[s].body = q.item[s].body

\* A publication under way can still write, with the answers A and their revisions V.
Writes(q, A, V) ==
  \A k \in Keys :
    /\ q.seen[k].row <= A[k].row
    /\ q.pick[k] # 0 /\ A[k].region # NoRegion /\ A[k].row = q.seen[k].row => q.pick[k] \in DOMAIN V[k]

RequestStands(q, P, A, V) ==
  /\ q.op \in {"edit", "confirm"} => q.prep \in Preps
  /\ q.op = "confirm" => Reads(q, P)
  /\ q.op = "publish" => Writes(q, A, V)

LEMMA RequestsAre ==
  /\ RequestsHold <=> \A t \in Teachers : RequestStands(request[t], prep, answer, revs)
  /\ RequestsHold' <=> \A t \in Teachers : RequestStands(request'[t], prep', answer', revs')
<1>1. RequestsHold <=> \A t \in Teachers : RequestStands(request[t], prep, answer, revs)
  BY DEF RequestsHold, RequestStands, Reads, Writes, RowStands, Exists
<1>2. RequestsHold' <=> \A t \in Teachers : RequestStands(request'[t], prep', answer', revs')
  BY DEF RequestsHold, RequestStands, Reads, Writes, RowStands, Exists
<1> QED BY <1>1, <1>2

\* The record, among the runs P, of the confirmation that made a revision.
Record(k, body) == [key |-> k, status |-> "confirmed", body |-> body]

Recorded(k, rev, P) ==
  /\ P[rev.prep].confirmed
  /\ P[rev.prep].crossed \/ \E s \in Slots : P[rev.prep].item[s] = Record(k, rev.body)

LEMMA RecordIs ==
  ASSUME OnlyConfirmed, NEW k \in Keys, NEW n \in DOMAIN revs[k]
  PROVE  Recorded(k, revs[k][n], prep)
BY DEF OnlyConfirmed, Recorded, Record

LEMMA RecordsKept ==
  ASSUME \A k \in Keys : \A n \in DOMAIN revs'[k] : Recorded(k, revs'[k][n], prep'),
         \A k \in Keys : Current(k)' # NoId => InForce(k, Current(k))'
  PROVE  OnlyConfirmed'
<1> SUFFICES ASSUME NEW k \in Keys, NEW n \in DOMAIN revs'[k]
             PROVE  LET p == revs'[k][n].prep IN
                    /\ prep'[p].confirmed
                    /\ prep'[p].crossed \/ \E s \in Slots :
                         prep'[p].item[s] = [key |-> k, status |-> "confirmed", body |-> revs'[k][n].body]
  BY DEF OnlyConfirmed
<1>1. Recorded(k, revs'[k][n], prep')
  OBVIOUS
<1> QED BY <1>1 DEF Recorded, Record

LEMMA BlankRequest ==
  /\ NoRequest \in Request /\ NoRequest.op = "none" /\ NoRequest.to = NoKey
  /\ \A s \in Slots : NoRequest.item[s].key = NoKey
BY KeyBlanks DEF NoRequest, NoItem

LEMMA EndsOnly == ASSUME KeyInv, NEW t \in Teachers, Ends(t) PROVE OnlyEnds
<1>1. request \in [Teachers -> Request]
  BY DEF KeyInv, KeyTypeOK
<1> QED BY <1>1, BlankRequest DEF OnlyEnds, Ends

LEMMA RestsOnly == ASSUME KeyInv, UNCHANGED request PROVE OnlyEnds
BY DEF KeyInv, KeyTypeOK, OnlyEnds

\* Requests that stay or end name known questions.
LEMMA EndsKnown ==
  ASSUME KeyInv, OnlyEnds, UNCHANGED known
  PROVE  /\ \A t \in Teachers : request'[t].to \in known' \cup {NoKey}
         /\ \A t \in Teachers, s \in Slots : request'[t].item[s].key \in known' \cup {NoKey}
BY BlankRequest DEF KeyInv, KeysKnown, OnlyEnds

LEMMA RevTyped ==
  ASSUME KeyInv, NEW k \in Keys, NEW n \in DOMAIN revs[k]
  PROVE  revs[k][n] \in Rev /\ revs[k][n].prep \in Preps /\ revs[k][n].body \in Bodies
<1>1. revs[k] \in Seq(Rev)
  BY DEF KeyInv, KeyTypeOK
<1>2. revs[k][n] \in Rev
  BY <1>1
<1> QED BY <1>2 DEF Rev

\* A step of one preparation run that keeps what was confirmed, is on record as
\* crossing its confirmation, or comes before any.
LEMMA PrepSteps ==
  ASSUME KeyInv, UNCHANGED <<regions, at, known, recognised, answer, manual, revs, run, moved>>, OnlyEnds,
         NEW p \in Preps, NEW new \in Prep, prep' = [prep EXCEPT ![p] = new],
         /\ new.asks \subseteq known
         /\ prep[p].confirmed => new.confirmed
         /\ prep[p].crossed => new.crossed
         /\ \A s \in Slots :
              /\ new.item[s].key \in known \cup {NoKey}
              /\ new.item[s].status = "matched" => new.item[s].body # NoBody
         /\ \/ new.crossed
            \/ ~prep[p].confirmed /\ ~Confirming(p)
            \/ \A s \in Slots : prep[p].item[s].status \in {"matched", "confirmed"} => new.item[s] = prep[p].item[s]
  PROVE  KeyInv'
<1>0. /\ prep \in [Preps -> Prep] /\ prep' \in [Preps -> Prep] /\ prep'[p] = new
      /\ \A q \in Preps : q # p => prep'[q] = prep[q]
  BY DEF KeyInv, KeyTypeOK
<1>1. KeyTypeOK'
  BY <1>0 DEF KeyInv, KeyTypeOK, Exists, OnlyEnds
<1>2. KeysKnown' /\ MatchedSays'
  <2>1. \A q \in Preps : prep'[q].asks \subseteq known /\ \A s \in Slots : prep'[q].item[s].key \in known \cup {NoKey}
    BY <1>0 DEF KeyInv, KeysKnown
  <2>2. \A k \in Keys : Exists(k)' => k \in known
    BY DEF KeyInv, KeysKnown, Exists
  <2> QED BY <1>0, <2>1, <2>2, EndsKnown DEF KeyInv, KeysKnown, MatchedSays
<1>3. RequestsHold'
  <2> SUFFICES ASSUME NEW t \in Teachers PROVE RequestStands(request'[t], prep', answer, revs)
    BY RequestsAre
  <2>1. RequestStands(request[t], prep, answer, revs)
    BY RequestsAre DEF KeyInv
  <2>2. CASE request'[t] = NoRequest
    BY <2>2, BlankRequest DEF RequestStands
  <2>3. CASE request'[t] = request[t]
    <3>1. ASSUME request[t].op = "confirm" PROVE Reads(request[t], prep')
      <4>1. request[t].prep \in Preps /\ Reads(request[t], prep)
        BY <2>1, <3>1 DEF RequestStands
      <4>2. CASE request[t].prep # p
        BY <1>0, <4>1, <4>2 DEF Reads
      <4>3. CASE request[t].prep = p
        <5>1. Confirming(p)
          BY <3>1, <4>3 DEF Confirming
        <5> QED BY <1>0, <4>1, <4>3, <5>1 DEF Reads
      <4> QED BY <4>2, <4>3
    <3> QED BY <2>1, <2>3, <3>1 DEF RequestStands
  <2> QED BY <2>2, <2>3 DEF OnlyEnds
<1>4. OnlyConfirmed'
  <2>1. \A k \in Keys : Current(k) # NoId => InForce(k, Current(k))
    BY DEF KeyInv, OnlyConfirmed
  <2>2. \A k \in Keys : Current(k)' # NoId => InForce(k, Current(k))'
    BY <2>1 DEF Current, IdOf, InForce, Exists
  <2>3. ASSUME NEW k \in Keys, NEW n \in DOMAIN revs[k] PROVE Recorded(k, revs[k][n], prep')
    <3>1. revs[k][n].prep \in Preps /\ Recorded(k, revs[k][n], prep)
      BY RevTyped, RecordIs DEF KeyInv
    <3>2. CASE revs[k][n].prep = p
      BY <1>0, <3>1, <3>2 DEF Recorded, Record
    <3>3. CASE revs[k][n].prep # p
      BY <1>0, <3>1, <3>3 DEF Recorded
    <3> QED BY <3>2, <3>3
  <2> QED BY <2>2, <2>3, RecordsKept
<1> QED BY <1>1, <1>2, <1>3, <1>4, RunRests DEF KeyInv

\* A step of one request.
LEMMA RequestSteps ==
  ASSUME KeyInv, UNCHANGED <<regions, at, known, recognised, prep, answer, manual, revs, run, moved>>,
         NEW t \in Teachers, NEW new \in Request, request' = [request EXCEPT ![t] = new],
         new.to \in known \cup {NoKey}, \A s \in Slots : new.item[s].key \in known \cup {NoKey},
         RequestStands(new, prep, answer, revs)
  PROVE  KeyInv'
<1>0. /\ request \in [Teachers -> Request] /\ request' \in [Teachers -> Request] /\ request'[t] = new
      /\ \A u \in Teachers : u # t => request'[u] = request[u]
  BY DEF KeyInv, KeyTypeOK
<1>1. KeyTypeOK'
  BY <1>0 DEF KeyInv, KeyTypeOK, Exists
<1>2. KeysKnown' /\ MatchedSays'
  BY <1>0 DEF KeyInv, KeysKnown, MatchedSays, Exists
<1>3. RequestsHold'
  <2> SUFFICES ASSUME NEW u \in Teachers PROVE RequestStands(request'[u], prep, answer, revs)
    BY RequestsAre
  <2>1. RequestStands(request[u], prep, answer, revs)
    BY RequestsAre DEF KeyInv
  <2> QED BY <1>0, <2>1
<1>4. OnlyConfirmed'
  BY DEF KeyInv, OnlyConfirmed, Current, IdOf, InForce, Exists
<1> QED BY <1>1, <1>2, <1>3, <1>4, RunRests DEF KeyInv

LEMMA RequestEnds ==
  ASSUME KeyInv, NEW t \in Teachers, Ends(t),
         UNCHANGED <<regions, at, known, recognised, prep, answer, manual, revs, run, moved>>
  PROVE  KeyInv'
<1>1. request' = [request EXCEPT ![t] = NoRequest]
  BY DEF Ends
<1>2. RequestStands(NoRequest, prep, answer, revs)
  BY BlankRequest DEF RequestStands
<1> QED BY <1>1, <1>2, BlankRequest, RequestSteps

LEMMA AbortKeeps == ASSUME KeyInv, NEW t \in Teachers, Abort(t) PROVE KeyInv'
BY RequestEnds DEF Abort

LEMMA BeginConfirmKeeps ==
  ASSUME KeyInv, NEW t \in Teachers, NEW p \in Preps, BeginConfirm(t, p)
  PROVE  KeyInv'
<1> DEFINE new == [NoRequest EXCEPT !.op = "confirm", !.prep = p, !.item = prep[p].item]
<1>1. prep[p] \in Prep
  BY DEF KeyInv, KeyTypeOK
<1>2. new \in Request
  BY <1>1, KeyBlanks DEF Request, Prep
<1>3. new.op = "confirm" /\ new.prep = p /\ new.item = prep[p].item /\ new.to = NoKey
  BY DEF NoRequest
<1>4. \A s \in Slots : prep[p].item[s].key \in known \cup {NoKey}
  BY DEF KeyInv, KeysKnown
<1>5. \A s \in Slots : prep[p].item[s].key # NoKey => prep[p].item[s].status = "matched" /\ prep[p].item[s].body # NoBody
  BY DEF KeyInv, MatchedSays, BeginConfirm, Confirmable
<1>6. /\ request' = [request EXCEPT ![t] = new]
      /\ UNCHANGED <<regions, at, known, recognised, prep, answer, manual, revs, run, moved>>
  BY DEF BeginConfirm
<1> HIDE DEF new
<1>7. RequestStands(new, prep, answer, revs)
  BY <1>3, <1>5 DEF RequestStands, Reads
<1>8. \A s \in Slots : new.item[s].key \in known \cup {NoKey}
  BY <1>3, <1>4
<1> QED BY <1>2, <1>3, <1>6, <1>7, <1>8, RequestSteps

LEMMA BeginPublishKeeps ==
  ASSUME KeyInv, NEW t \in Teachers, NEW pick \in [Keys -> 0 .. MaxRevs], BeginPublish(t, pick)
  PROVE  KeyInv'
<1> DEFINE seen == [k \in Keys |-> [key |-> k, row |-> answer[k].row, number |-> answer[k].current]]
           new == [NoRequest EXCEPT !.op = "publish", !.pick = pick, !.seen = seen]
<1>1. seen \in [Keys -> Id]
  BY DEF KeyInv, KeyTypeOK, Answer, Id
<1>2. new \in Request
  <2> HIDE DEF seen
  <2> QED BY <1>1, KeyBlanks DEF Request
<1>3. /\ new.op = "publish" /\ new.pick = pick /\ new.seen = seen /\ new.to = NoKey
      /\ \A s \in Slots : new.item[s].key = NoKey
  BY DEF NoRequest, NoItem
<1>4. /\ request' = [request EXCEPT ![t] = new]
      /\ UNCHANGED <<regions, at, known, recognised, prep, answer, manual, revs, run, moved>>
      /\ \A k \in Keys : pick[k] # 0 => pick[k] \in DOMAIN revs[k]
  BY DEF BeginPublish
<1>5. \A k \in Keys : seen[k].row <= answer[k].row
  BY DEF KeyInv, KeyTypeOK, Answer
<1> HIDE DEF new, seen
<1>6. RequestStands(new, prep, answer, revs)
  BY <1>3, <1>4, <1>5 DEF RequestStands, Writes
<1>7. (\A s \in Slots : new.item[s].key \in known \cup {NoKey}) /\ new.to \in known \cup {NoKey}
  BY <1>3
<1> QED BY <1>2, <1>4, <1>6, <1>7, RequestSteps

LEMMA BeginDeleteKeeps ==
  ASSUME KeyInv, NEW t \in Teachers, NEW k \in Keys, BeginDelete(t, k)
  PROVE  KeyInv'
<1> DEFINE id == [key |-> k, row |-> answer[k].row, number |-> 0]
           new == [NoRequest EXCEPT !.op = "delete", !.seen = [NoRequest.seen EXCEPT ![k] = id]]
<1>1. id \in Id
  BY BoundsNat DEF KeyInv, KeyTypeOK, Answer, Id
<1>2. NoRequest.seen \in [Keys -> Id]
  BY BlankRequest DEF Request
<1>3. new \in Request
  <2> HIDE DEF id
  <2> QED BY <1>1, <1>2, BlankRequest DEF Request
<1>4. new.op = "delete" /\ new.to = NoKey /\ \A s \in Slots : new.item[s].key = NoKey
  BY DEF NoRequest, NoItem
<1>5. /\ request' = [request EXCEPT ![t] = new]
      /\ UNCHANGED <<regions, at, known, recognised, prep, answer, manual, revs, run, moved>>
  BY DEF BeginDelete
<1> HIDE DEF new
<1>6. /\ \A s \in Slots : new.item[s].key \in known \cup {NoKey}
      /\ RequestStands(new, prep, answer, revs) /\ new.to \in known \cup {NoKey}
  BY <1>4 DEF RequestStands
<1> QED BY <1>3, <1>5, <1>6, RequestSteps

LEMMA BeginEditKeeps ==
  ASSUME KeyInv, NEW t \in Teachers, NEW p \in Preps, NEW s \in Slots, NEW to \in Keys \cup {NoKey},
         BeginEdit(t, p, s, to)
  PROVE  KeyInv'
<1> DEFINE read == [prep[p].item[s] EXCEPT !.body = NoBody]
           item == [NoRequest.item EXCEPT ![s] = read]
           new == [NoRequest EXCEPT !.op = "edit", !.prep = p, !.to = to, !.item = item]
<1>1. prep[p].item[s] \in Item
  BY DEF KeyInv, KeyTypeOK, Prep
<1>2. read \in Item /\ read.key = prep[p].item[s].key
  BY <1>1 DEF Item
<1>3. NoRequest.item \in [Slots -> Item] /\ prep[p].item[s].key \in known \cup {NoKey}
  BY BlankRequest DEF Request, KeyInv, KeysKnown
<1> HIDE DEF read
<1>4. item \in [Slots -> Item] /\ \A u \in Slots : item[u].key \in known \cup {NoKey}
  BY <1>2, <1>3, BlankRequest
<1>5. /\ request' = [request EXCEPT ![t] = new] /\ to \in known \cup {NoKey}
      /\ UNCHANGED <<regions, at, known, recognised, prep, answer, manual, revs, run, moved>>
  BY DEF BeginEdit, read
<1> HIDE DEF item
<1>6. new \in Request
  BY <1>4, BlankRequest DEF Request
<1>7. new.op = "edit" /\ new.prep = p /\ new.to = to /\ new.item = item
  BY DEF NoRequest
<1> HIDE DEF new
<1>8. /\ \A u \in Slots : new.item[u].key \in known \cup {NoKey}
      /\ RequestStands(new, prep, answer, revs) /\ new.to \in known \cup {NoKey}
  BY <1>4, <1>5, <1>7 DEF RequestStands
<1> QED BY <1>5, <1>6, <1>8, RequestSteps

\* A step of a preparation run that leaves its items alone.
LEMMA PrepRests ==
  ASSUME KeyInv, UNCHANGED <<regions, at, known, recognised, answer, manual, revs, request, run, moved>>,
         NEW p \in Preps, NEW new \in Prep, prep' = [prep EXCEPT ![p] = new],
         new.asks = prep[p].asks \/ new.asks = known,
         new.item = prep[p].item, new.confirmed = prep[p].confirmed, new.crossed = prep[p].crossed
  PROVE  KeyInv'
<1>1. /\ new.asks \subseteq known
      /\ \A s \in Slots :
           /\ new.item[s].key \in known \cup {NoKey}
           /\ new.item[s].status = "matched" => new.item[s].body # NoBody
  BY DEF KeyInv, KeysKnown, MatchedSays
<1> QED BY <1>1, RestsOnly, PrepSteps

LEMMA CreatePrepKeeps == ASSUME KeyInv, NEW p \in Preps, CreatePrep(p) PROVE KeyInv'
<1> DEFINE new == [prep[p] EXCEPT !.status = "queued"]
<1>1. prep[p] \in Prep
  BY DEF KeyInv, KeyTypeOK
<1>2. /\ new \in Prep /\ new.asks = prep[p].asks /\ new.item = prep[p].item
      /\ new.confirmed = prep[p].confirmed /\ new.crossed = prep[p].crossed
  BY <1>1 DEF Prep
<1>3. /\ prep' = [prep EXCEPT ![p] = new]
      /\ UNCHANGED <<regions, at, known, recognised, answer, manual, revs, request, run, moved>>
  BY DEF CreatePrep
<1> HIDE DEF new
<1> QED BY <1>2, <1>3, PrepRests

LEMMA BeginPrepKeeps == ASSUME KeyInv, NEW p \in Preps, BeginPrep(p) PROVE KeyInv'
<1> DEFINE again == prep[p].status \in {"failed", "partial"}
           new == [prep[p] EXCEPT !.status = "running", !.asks = known,
                                  !.redo = IF again THEN prep[p].redo + 1 ELSE prep[p].redo]
<1>1. prep[p] \in Prep /\ known \subseteq Keys
  BY DEF KeyInv, KeyTypeOK
<1>2. new.redo \in 0 .. MaxRedo
  BY <1>1, BoundsNat DEF BeginPrep, Prep
<1>3. /\ new \in Prep /\ new.asks = known /\ new.item = prep[p].item
      /\ new.confirmed = prep[p].confirmed /\ new.crossed = prep[p].crossed
  BY <1>1, <1>2 DEF Prep
<1>4. /\ prep' = [prep EXCEPT ![p] = new]
      /\ UNCHANGED <<regions, at, known, recognised, answer, manual, revs, request, run, moved>>
  BY DEF BeginPrep
<1> HIDE DEF new
<1> QED BY <1>3, <1>4, PrepRests

LEMMA FailPrepKeeps == ASSUME KeyInv, NEW p \in Preps, FailPrep(p) PROVE KeyInv'
<1> DEFINE new == [prep[p] EXCEPT !.status = "failed"]
<1>1. prep[p] \in Prep
  BY DEF KeyInv, KeyTypeOK
<1>2. /\ new \in Prep /\ new.asks = prep[p].asks /\ new.item = prep[p].item
      /\ new.confirmed = prep[p].confirmed /\ new.crossed = prep[p].crossed
  BY <1>1 DEF Prep
<1>3. /\ prep' = [prep EXCEPT ![p] = new]
      /\ UNCHANGED <<regions, at, known, recognised, answer, manual, revs, request, run, moved>>
  BY DEF FailPrep
<1> HIDE DEF new
<1> QED BY <1>2, <1>3, PrepRests

\* The unique key: items are made where there were none, so nothing matched or
\* confirmed is lost.
LEMMA FinishPrepKeeps ==
  ASSUME KeyInv, NEW p \in Preps, NEW f \in Proposals(p), FinishPrep(p, f)
  PROVE  KeyInv'
<1>0. PICK status \in {"completed", "partial"} : prep' = [prep EXCEPT ![p].status = status, ![p].item = f]
  BY DEF FinishPrep
<1> DEFINE new == [prep[p] EXCEPT !.status = status, !.item = f]
<1>1. prep[p] \in Prep /\ f \in [Slots -> Item] /\ prep[p].asks \subseteq known /\ prep[p].asks \subseteq Keys
  BY DEF KeyInv, KeyTypeOK, Proposals, KeysKnown, Prep
<1>2. /\ new \in Prep /\ new.asks = prep[p].asks /\ new.item = f
      /\ new.confirmed = prep[p].confirmed /\ new.crossed = prep[p].crossed
  BY <1>1 DEF Prep
<1>3. /\ prep' = [prep EXCEPT ![p] = new]
      /\ UNCHANGED <<regions, at, known, recognised, answer, manual, revs, request, run, moved>>
  BY <1>0 DEF FinishPrep
<1>4. ASSUME NEW s \in Slots
      PROVE  /\ f[s].key \in prep[p].asks \cup {NoKey}
             /\ f[s].status = "matched" => f[s].body # NoBody
  <2>1. CASE s \in prep[p].asks
    <3>1. PICK body \in Bodies \cup {NoBody} : f[s] = Filled(s, body)
      BY <2>1 DEF Proposals
    <3> QED BY <2>1, <3>1 DEF Filled
  <2>2. CASE s \notin prep[p].asks
    BY <2>2 DEF Proposals, NoItem, Filled
  <2> QED BY <2>1, <2>2
<1>5. \A s \in Slots : prep[p].item[s].status \notin {"matched", "confirmed"}
  BY DEF FinishPrep, Blank
<1> HIDE DEF new
<1>6. /\ new.asks \subseteq known
      /\ prep[p].confirmed => new.confirmed
      /\ \A s \in Slots :
           /\ new.item[s].key \in known \cup {NoKey}
           /\ new.item[s].status = "matched" => new.item[s].body # NoBody
           /\ prep[p].item[s].status \in {"matched", "confirmed"} => new.item[s] = prep[p].item[s]
  BY <1>1, <1>2, <1>4, <1>5
<1> QED BY <1>2, <1>3, <1>6, RestsOnly, PrepSteps

\* An edit is on record as a crossing, or nothing was confirmed when it was written.
LEMMA CommitEditKeeps ==
  ASSUME KeyInv, NEW t \in Teachers, NEW s \in Slots, NEW body \in Bodies \cup {NoBody}, NEW stays \in BOOLEAN,
         CommitEdit(t, s, body, stays)
  PROVE  KeyInv'
<1> DEFINE p == request[t].prep
           key == IF request[t].to = request[t].item[s].key THEN prep[p].item[s].key ELSE request[t].to
           item == IF stays THEN [key |-> key, status |-> "confirmed", body |-> body] ELSE Filled(key, body)
           late == prep[p].crossed \/ prep[p].confirmed \/ Confirming(p)
           new == [prep[p] EXCEPT !.crossed = late, !.item[s] = item]
<1>0. p \in Preps
  BY DEF KeyInv, RequestsHold, CommitEdit
<1>1. prep[p] \in Prep /\ prep \in [Preps -> Prep]
  BY <1>0 DEF KeyInv, KeyTypeOK
<1>2. key \in known \cup {NoKey} /\ known \subseteq Keys
  BY <1>0 DEF KeyInv, KeysKnown, KeyTypeOK
<1>3. /\ prep' = [prep EXCEPT ![p].crossed = late, ![p].item[s] = item] /\ Ends(t)
      /\ UNCHANGED <<regions, at, known, recognised, answer, manual, revs, run, moved>>
  BY DEF CommitEdit
<1> HIDE DEF key
<1>4. item \in Item /\ item.key = key /\ (item.status = "matched" => item.body # NoBody)
  BY <1>2, FilledTyped DEF Item
<1>5. late \in BOOLEAN
  BY <1>1 DEF Confirming, Prep
<1> HIDE DEF item, late
<1>6. /\ new \in Prep /\ new.asks = prep[p].asks /\ new.confirmed = prep[p].confirmed /\ new.crossed = late
      /\ new.item[s] = item /\ \A u \in Slots : u # s => new.item[u] = prep[p].item[u]
  BY <1>1, <1>4, <1>5 DEF Prep
<1>7. prep' = [prep EXCEPT ![p] = new]
  BY <1>1, <1>3
<1>8. /\ prep[p].asks \subseteq known /\ \A u \in Slots : prep[p].item[u].key \in known \cup {NoKey}
      /\ \A u \in Slots : prep[p].item[u].status = "matched" => prep[p].item[u].body # NoBody
  BY <1>0 DEF KeyInv, KeysKnown, MatchedSays
<1> HIDE DEF new
<1>9. /\ new.asks \subseteq known
      /\ prep[p].confirmed => new.confirmed
      /\ prep[p].crossed => new.crossed
      /\ \A u \in Slots :
           /\ new.item[u].key \in known \cup {NoKey}
           /\ new.item[u].status = "matched" => new.item[u].body # NoBody
      /\ new.crossed \/ (~prep[p].confirmed /\ ~Confirming(p))
  BY <1>2, <1>4, <1>6, <1>8 DEF late
<1> HIDE DEF p
<1>10. /\ UNCHANGED <<regions, at, known, recognised, answer, manual, revs, run, moved>> /\ OnlyEnds
  BY <1>3, EndsOnly
<1> QED BY <1>0, <1>6, <1>7, <1>9, <1>10, PrepSteps

\* A step of the paper only.
LEMMA PaperSteps ==
  ASSUME KeyInv, UNCHANGED <<at, known, prep, answer, revs, request, run, moved>>, KeyTypeOK'
  PROVE  KeyInv'
<1>1. KeysKnown' /\ MatchedSays'
  BY DEF KeyInv, KeysKnown, MatchedSays, Exists
<1>2. RequestsHold'
  BY DEF KeyInv, RequestsHold, RowStands, Exists
<1>3. OnlyConfirmed'
  BY DEF KeyInv, OnlyConfirmed, Current, IdOf, InForce, Exists
<1> QED BY <1>1, <1>2, <1>3, RunRests DEF KeyInv

LEMMA CreateRegionKeeps == ASSUME KeyInv, NEW r \in Regions, CreateRegion(r) PROVE KeyInv'
<1>1. KeyTypeOK'
  BY DEF KeyInv, KeyTypeOK, CreateRegion, Exists
<1> QED BY <1>1, PaperSteps DEF CreateRegion

LEMMA CreateManualKeeps == ASSUME KeyInv, NEW r \in Regions, CreateManual(r) PROVE KeyInv'
<1>1. KeyTypeOK'
  BY DEF KeyInv, KeyTypeOK, CreateManual, Exists
<1> QED BY <1>1, PaperSteps DEF CreateManual

LEMMA DeleteManualKeeps == ASSUME KeyInv, NEW r \in Regions, DeleteManual(r) PROVE KeyInv'
<1>1. KeyTypeOK'
  BY DEF KeyInv, KeyTypeOK, DeleteManual, Exists
<1> QED BY <1>1, PaperSteps DEF DeleteManual

\* What the inductive invariant says of one item of the run.
LEMMA ItemSays ==
  ASSUME KeyInv, NEW r \in Regions
  PROVE  /\ run.item[r] \in Grading /\ run.work[r] \in Bodies \cup {NoBody}
         /\ run.item[r].status = "none" => run.item[r] = NoGrading
         /\ run.item[r].status # "none" => run.item[r].key \in known /\ run.item[r].key \in Keys
         /\ run.item[r].key \in Keys => run.item[r].status # "none"
<1>1. run \in Run /\ known \subseteq Keys
  BY DEF KeyInv, KeyTypeOK
<1>2. run.item[r] \in Grading /\ run.work[r] \in Bodies \cup {NoBody}
  BY <1>1 DEF Run
<1>3. /\ run.item[r].status = "none" => run.item[r] = NoGrading
      /\ run.item[r].status # "none" => run.item[r].key \in known
  BY DEF KeyInv, ItemsLocked
<1>4. NoGrading.key \notin Keys
  BY KeyBlanks DEF NoGrading
<1> QED BY <1>1, <1>2, <1>3, <1>4

\* Answers that go take their revisions along and leave what others rely on.
LEMMA RowsGo ==
  ASSUME KeyInv, NEW lost \in SUBSET Keys, UNCHANGED <<known, prep>>, OnlyEnds, LoseAnswers(lost),
         run'.lock = run.lock, run'.promised = run.promised
  PROVE  /\ answer' \in [Keys -> Answer] /\ revs' \in [Keys -> Seq(Rev)]
         /\ \A k \in Keys : /\ revs'[k] = IF k \in lost THEN <<>> ELSE revs[k]
                            /\ Len(revs'[k]) <= MaxRevs
                            /\ answer'[k].row = answer[k].row
                            /\ answer'[k].region = IF k \in lost THEN NoRegion ELSE answer[k].region
                            /\ k \notin lost => answer'[k] = answer[k]
         /\ KeysKnown' /\ MatchedSays' /\ RequestsHold' /\ OnlyConfirmed' /\ PromisesKept'
<1>1. answer \in [Keys -> Answer] /\ revs \in [Keys -> Seq(Rev)] /\ \A k \in Keys : Len(revs[k]) <= MaxRevs
  BY DEF KeyInv, KeyTypeOK
<1>2. answer' \in [Keys -> Answer]
  BY <1>1, KeyBlanks, BoundsNat DEF Answer, NoAnswer, LoseAnswers
<1>3. \A k \in Keys : /\ revs'[k] = IF k \in lost THEN <<>> ELSE revs[k]
                      /\ answer'[k].row = answer[k].row
                      /\ answer'[k].region = IF k \in lost THEN NoRegion ELSE answer[k].region
                      /\ k \notin lost => answer'[k] = answer[k]
                      /\ k \in lost => answer'[k].current = 0
  BY <1>1 DEF NoAnswer, Answer, LoseAnswers
<1>4. KeysKnown'
  <2>1. \A k \in Keys : Exists(k)' => k \in known
    BY <1>3 DEF KeyInv, KeysKnown, Exists
  <2> QED BY <2>1, EndsKnown DEF KeyInv, KeysKnown
<1>5. MatchedSays'
  BY DEF KeyInv, MatchedSays
<1>6. ASSUME NEW k \in Keys, NEW id PROVE RowStands(k, id)' => RowStands(k, id) /\ k \notin lost
  BY <1>3 DEF RowStands, Exists
<1>7. RequestsHold'
  <2> SUFFICES ASSUME NEW t \in Teachers PROVE RequestStands(request'[t], prep, answer', revs')
    BY RequestsAre
  <2>1. RequestStands(request[t], prep, answer, revs)
    BY RequestsAre DEF KeyInv
  <2>2. Writes(request[t], answer, revs) => Writes(request[t], answer', revs')
    BY <1>3 DEF Writes
  <2>3. RequestStands(request[t], prep, answer', revs') /\ RequestStands(NoRequest, prep, answer', revs')
    BY <2>1, <2>2, BlankRequest DEF RequestStands
  <2> QED BY <2>3 DEF OnlyEnds
<1>8. OnlyConfirmed'
  <2>1. ASSUME NEW k \in Keys, k \in lost PROVE Current(k)' = NoId /\ revs'[k] = <<>>
    BY <1>3, <2>1 DEF Current, IdOf
  <2>2. ASSUME NEW k \in Keys, k \notin lost
        PROVE  Current(k)' = Current(k) /\ revs'[k] = revs[k] /\ InForce(k, Current(k))' = InForce(k, Current(k))
    <3>1. answer'[k] = answer[k] /\ revs'[k] = revs[k]
      BY <1>3, <2>2
    <3>2. Current(k)' = Current(k)
      BY <3>1 DEF Current, IdOf
    <3> QED BY <3>1, <3>2 DEF InForce, Exists
  <2> QED BY <2>1, <2>2 DEF KeyInv, OnlyConfirmed
<1>9. PromisesKept'
  <2> SUFFICES ASSUME NEW k \in Keys, run.lock[k] # NoId
               PROVE  LET id == run.lock[k] IN
                        /\ id.key = k /\ id.row <= answer'[k].row /\ k \in known
                        /\ RowStands(k, id)' => /\ answer'[k].current # 0
                                               /\ id.number \in DOMAIN revs'[k] /\ revs'[k][id.number].body = run.promised[k]
    BY DEF PromisesKept, RowStands, Exists
  <2> QED BY <1>3, <1>6 DEF KeyInv, PromisesKept
<1>10. revs' \in [Keys -> Seq(Rev)] /\ \A k \in Keys : Len(revs'[k]) <= MaxRevs
  <2>1. <<>> \in Seq(Rev) /\ Len(<<>>) = 0
    OBVIOUS
  <2>2. Len(<<>>) <= MaxRevs
    BY <2>1, BoundsNat
  <2> QED BY <1>1, <2>1, <2>2 DEF LoseAnswers
<1> QED BY <1>2, <1>3, <1>4, <1>5, <1>7, <1>8, <1>9, <1>10

\* Items go with their regions, and forget the revisions that are gone.
LEMMA ItemsGo ==
  ASSUME KeyInv, NEW lost \in SUBSET Keys, NEW gone \in SUBSET Regions, UNCHANGED <<known, prep>>, OnlyEnds,
         LoseAnswers(lost),
         run' = [run EXCEPT !.item = [s \in Regions |->
                   IF s \in gone THEN NoGrading ELSE Forgetting(run.item[s], lost)]]
  PROVE  /\ run' \in Run /\ run'.lock = run.lock /\ run'.promised = run.promised
         /\ run'.status = run.status /\ run'.work = run.work
         /\ \A s \in Regions :
              /\ s \in gone => run'.item[s] = NoGrading
              /\ s \notin gone => run'.item[s].key = run.item[s].key /\ run'.item[s].status = run.item[s].status
         /\ ItemsRevised' /\ ItemsLocked' /\ GradedByLock'
<1>0. run \in Run /\ known \subseteq Keys
  BY DEF KeyInv, KeyTypeOK
<1>1. /\ run'.lock = run.lock /\ run'.promised = run.promised /\ run'.status = run.status /\ run'.work = run.work
      /\ run'.item = [s \in Regions |-> IF s \in gone THEN NoGrading ELSE Forgetting(run.item[s], lost)]
  BY <1>0 DEF Run
<1>2. \A s \in Regions :
        /\ run'.item[s] \in Grading
        /\ s \in gone => run'.item[s] = NoGrading
        /\ s \notin gone => /\ run'.item[s].key = run.item[s].key /\ run'.item[s].status = run.item[s].status
                            /\ run'.item[s].body = run.item[s].body
                            /\ run.item[s].rev.key \in lost => run'.item[s].rev = NoId
                            /\ run.item[s].rev.key \notin lost => run'.item[s] = run.item[s]
  <2> SUFFICES ASSUME NEW s \in Regions
               PROVE  /\ run'.item[s] \in Grading
                      /\ s \in gone => run'.item[s] = NoGrading
                      /\ s \notin gone =>
                           /\ run'.item[s].key = run.item[s].key /\ run'.item[s].status = run.item[s].status
                           /\ run'.item[s].body = run.item[s].body
                           /\ run.item[s].rev.key \in lost => run'.item[s].rev = NoId
                           /\ run.item[s].rev.key \notin lost => run'.item[s] = run.item[s]
    OBVIOUS
  <2>1. run.item[s] \in Grading
    BY ItemSays
  <2>2. run'.item[s] = IF s \in gone THEN NoGrading ELSE Forgetting(run.item[s], lost)
    BY <1>1
  <2> QED BY <2>1, <2>2, KeyBlanks DEF Grading, Forgetting
<1>3. run' \in Run
  <2>1. run'.item \in [Regions -> Grading]
    BY <1>1, <1>2
  <2>2. run' = [run EXCEPT !.item = run'.item]
    BY <1>0 DEF Run
  <2> QED BY <1>0, <2>1, <2>2 DEF Run
<1>4. \A k \in Keys : /\ revs'[k] = IF k \in lost THEN <<>> ELSE revs[k]
                      /\ answer'[k].row = answer[k].row
                      /\ answer'[k].region = IF k \in lost THEN NoRegion ELSE answer[k].region
                      /\ k \notin lost => answer'[k] = answer[k]
  BY <1>1, RowsGo
<1>5. ItemsLocked'
  <2>1. run.status = "none" => \A k \in Keys : run.lock[k] = NoId
    BY DEF KeyInv, ItemsLocked
  <2>2. NoGrading.rev.key \notin Keys /\ NoGrading.status = "none"
    BY KeyBlanks DEF NoGrading, NoId
  <2>3. run.status = "none" => \A s \in Regions : run'.item[s] = NoGrading
    <3> SUFFICES ASSUME run.status = "none", NEW s \in Regions, s \notin gone PROVE run'.item[s] = NoGrading
      BY <1>2
    <3>1. run.item[s] = NoGrading
      BY DEF KeyInv, ItemsLocked
    <3> QED BY <1>2, <2>2, <3>1
  <2>4. run.status # "running" => \A s \in Regions : run.work[s] = NoBody
    BY DEF KeyInv, ItemsLocked
  <2>5. ASSUME NEW s \in Regions, run'.item[s].status = "none" PROVE run'.item[s] = NoGrading
    <3>1. CASE s \in gone
      BY <1>2, <3>1
    <3>2. CASE s \notin gone
      <4>1. run.item[s] = NoGrading
        BY <1>2, <2>5, <3>2, ItemSays
      <4> QED BY <1>2, <2>2, <3>2, <4>1
    <3> QED BY <3>1, <3>2
  <2>6. ASSUME NEW s \in Regions, run'.item[s].status # "none"
        PROVE  LET g == run'.item[s] IN
               /\ g.key \in known
               /\ run.lock[g.key] # NoId =>
                    /\ \/ g.rev = run.lock[g.key]
                       \/ g.rev = NoId /\ ~(answer'[g.key].region # NoRegion /\ answer'[g.key].row = run.lock[g.key].row)
                    /\ run.work[s] \in {NoBody, run.promised[g.key]}
    <3> DEFINE g == run.item[s]
               k == g.key
    <3>1. s \notin gone /\ g.status # "none" /\ run'.item[s].key = k
      BY <1>2, <2>2, <2>6
    <3>2. k \in known /\ k \in Keys
      BY <3>1, ItemSays
    <3>3. SUFFICES ASSUME run.lock[k] # NoId
                   PROVE  /\ \/ run'.item[s].rev = run.lock[k]
                             \/ run'.item[s].rev = NoId /\ ~(answer'[k].region # NoRegion /\ answer'[k].row = run.lock[k].row)
                          /\ run.work[s] \in {NoBody, run.promised[k]}
      BY <3>1, <3>2
    <3>4. /\ g.rev = run.lock[k] \/ (g.rev = NoId /\ ~RowStands(k, run.lock[k]))
          /\ run.work[s] \in {NoBody, run.promised[k]}
      BY <3>1, <3>3 DEF KeyInv, ItemsLocked
    <3>5. run.lock[k].key = k
      BY <3>2, <3>3 DEF KeyInv, PromisesKept
    <3>6. CASE g.rev.key \in lost
      <4>1. g.rev # NoId
        BY <3>6, KeyBlanks DEF NoId
      <4>2. k \in lost
        BY <3>4, <3>5, <3>6, <4>1
      <4>3. answer'[k].region = NoRegion
        BY <1>4, <3>2, <4>2
      <4> QED BY <1>2, <3>1, <3>4, <3>6, <4>3
    <3>7. CASE g.rev.key \notin lost
      <4>1. run'.item[s].rev = g.rev
        BY <1>2, <3>1, <3>7
      <4>2. answer'[k].region # NoRegion => Exists(k)
        BY <1>4, <3>2 DEF Exists
      <4>3. answer'[k].row = answer[k].row
        BY <1>4, <3>2
      <4> QED BY <3>4, <4>1, <4>2, <4>3 DEF RowStands
    <3> QED BY <3>6, <3>7
  <2> QED BY <1>1, <2>1, <2>3, <2>4, <2>5, <2>6 DEF ItemsLocked, RowStands, Exists
<1>6. GradedByLock'
  <2> SUFFICES ASSUME NEW s \in Regions, run'.item[s].status = "graded", run.lock[run'.item[s].key] # NoId
               PROVE  run'.item[s].body = run.promised[run'.item[s].key]
    BY <1>1 DEF GradedByLock
  <2>1. NoGrading.status # "graded"
    BY DEF NoGrading
  <2> QED BY <1>2, <2>1 DEF KeyInv, GradedByLock
<1>7. ItemsRevised'
  <2> SUFFICES ASSUME NEW s \in Regions, run'.item[s].rev # NoId
               PROVE  LET id == run'.item[s].rev IN
                        /\ id.key \in Keys /\ answer'[id.key].region # NoRegion /\ answer'[id.key].row = id.row
                        /\ answer'[id.key].current # 0 /\ id.number \in DOMAIN revs'[id.key]
    BY DEF ItemsRevised, RowStands, Exists
  <2> DEFINE id == run.item[s].rev
  <2>1. NoGrading.rev = NoId
    BY DEF NoGrading
  <2>2. s \notin gone /\ id.key \notin lost /\ run'.item[s] = run.item[s]
    BY <1>2, <2>1
  <2>3. /\ id.key \in Keys /\ Exists(id.key) /\ answer[id.key].row = id.row
        /\ answer[id.key].current # 0 /\ id.number \in DOMAIN revs[id.key]
    BY <2>2 DEF KeyInv, ItemsRevised, RowStands
  <2>4. answer'[id.key] = answer[id.key] /\ revs'[id.key] = revs[id.key]
    BY <1>4, <2>2, <2>3
  <2> HIDE DEF id
  <2>5. run'.item[s].rev = id
    BY <2>2 DEF id
  <2> QED BY <2>3, <2>4, <2>5 DEF Exists
<1> QED BY <1>1, <1>2, <1>3, <1>5, <1>6, <1>7

\* What is deleted is the row that was read, if it is still there.
LEMMA CommitDeleteKeeps == ASSUME KeyInv, NEW t \in Teachers, CommitDelete(t) PROVE KeyInv'
<1> DEFINE lost == {k \in Keys : request[t].seen[k] # NoId /\ RowStands(k, request[t].seen[k])}
           none == {r \in Regions : FALSE}
<1>1. /\ LoseAnswers(lost) /\ Ends(t)
      /\ run' = [run EXCEPT !.item = [r \in Regions |-> Forgetting(run.item[r], lost)]]
      /\ UNCHANGED <<regions, at, known, recognised, prep, manual, moved>>
  BY DEF CommitDelete
<1>2. run' = [run EXCEPT !.item = [s \in Regions |->
                IF s \in none THEN NoGrading ELSE Forgetting(run.item[s], lost)]]
  BY <1>1
<1>3. lost \in SUBSET Keys /\ none \in SUBSET Regions /\ OnlyEnds /\ \A r \in Regions : r \notin none
  BY <1>1, EndsOnly
<1> HIDE DEF lost, none
<1>4. /\ run' \in Run /\ run'.lock = run.lock /\ run'.promised = run.promised /\ run'.status = run.status
      /\ run'.work = run.work
      /\ \A s \in Regions : run'.item[s].key = run.item[s].key /\ run'.item[s].status = run.item[s].status
      /\ ItemsRevised' /\ ItemsLocked' /\ GradedByLock'
  BY <1>1, <1>2, <1>3, ItemsGo
<1>5. /\ answer' \in [Keys -> Answer] /\ revs' \in [Keys -> Seq(Rev)]
      /\ \A k \in Keys : /\ revs'[k] = IF k \in lost THEN <<>> ELSE revs[k]
                         /\ Len(revs'[k]) <= MaxRevs
                         /\ answer'[k].region = IF k \in lost THEN NoRegion ELSE answer[k].region
      /\ KeysKnown' /\ MatchedSays' /\ RequestsHold' /\ OnlyConfirmed' /\ PromisesKept'
  BY <1>1, <1>3, <1>4, RowsGo
<1>6. KeyTypeOK'
  <2>1. \A j \in Keys : IF Exists(j)' THEN answer'[j].region \in regions' \ manual' ELSE revs'[j] = <<>>
    BY <1>1, <1>5 DEF KeyInv, KeyTypeOK, Exists
  <2> QED BY <1>1, <1>3, <1>4, <1>5, <2>1 DEF KeyInv, KeyTypeOK, OnlyEnds
<1>7. ItemsInPlace'
  BY <1>1, <1>4 DEF KeyInv, ItemsInPlace, Primary
<1> QED BY <1>4, <1>5, <1>6, <1>7 DEF KeyInv

\* A region goes with its answer, its items and its place in the questions.
LEMMA DeleteRegionKeeps == ASSUME KeyInv, NEW r \in Regions, DeleteRegion(r) PROVE KeyInv'
<1> DEFINE lost == {k \in Keys : answer[k].region = r}
           gone == {r}
<1>0. /\ answer \in [Keys -> Answer] /\ known \subseteq Keys
      /\ regions \subseteq Regions /\ manual \subseteq regions /\ moved \in BOOLEAN
  BY DEF KeyInv, KeyTypeOK
<1>1. /\ LoseAnswers(lost)
      /\ UNCHANGED <<known, recognised, prep, request>>
      /\ regions' = regions \ {r} /\ manual' = manual \ {r}
      /\ at' = [k \in Keys |-> Without(at[k], r)]
      /\ moved' = (moved \/ (HasItems /\ \E k \in Keys : Primary(at[k]) = r))
  BY DEF DeleteRegion
<1>2. run' = [run EXCEPT !.item = [s \in Regions |->
                IF s \in gone THEN NoGrading ELSE Forgetting(run.item[s], lost)]]
  BY DEF DeleteRegion
<1>3. /\ lost \in SUBSET Keys /\ gone \in SUBSET Regions /\ OnlyEnds
      /\ \A k \in Keys : k \in lost <=> answer[k].region = r
      /\ \A s \in Regions : s \in gone <=> s = r
  BY <1>1, RestsOnly
<1> HIDE DEF lost, gone
<1>4. /\ run' \in Run /\ run'.lock = run.lock /\ run'.promised = run.promised /\ run'.status = run.status
      /\ run'.work = run.work
      /\ \A s \in Regions :
           /\ s = r => run'.item[s] = NoGrading
           /\ s # r => run'.item[s].key = run.item[s].key /\ run'.item[s].status = run.item[s].status
      /\ ItemsRevised' /\ ItemsLocked' /\ GradedByLock'
  BY <1>1, <1>2, <1>3, ItemsGo
<1>5. /\ answer' \in [Keys -> Answer] /\ revs' \in [Keys -> Seq(Rev)]
      /\ \A k \in Keys : /\ revs'[k] = IF k \in lost THEN <<>> ELSE revs[k]
                         /\ Len(revs'[k]) <= MaxRevs
                         /\ answer'[k].region = IF k \in lost THEN NoRegion ELSE answer[k].region
      /\ KeysKnown' /\ MatchedSays' /\ RequestsHold' /\ OnlyConfirmed' /\ PromisesKept'
  BY <1>1, <1>3, <1>4, RowsGo
<1>6. \A k \in Keys : /\ at'[k] = <<>> \/ at'[k] \in Places
                      /\ Rng(at'[k]) = Rng(at[k]) \ {r}
                      /\ Primary(at[k]) # r => Primary(at'[k]) = Primary(at[k])
  <2>1. \A k \in Keys : at[k] = <<>> \/ at[k] \in Places
    BY DEF KeyInv, KeyTypeOK
  <2> QED BY <1>1, <2>1, WithoutIs
<1>7. KeyTypeOK'
  <2>1. \A j \in Keys : IF Exists(j)' THEN answer'[j].region \in regions' \ manual' ELSE revs'[j] = <<>>
    BY <1>1, <1>3, <1>5 DEF KeyInv, KeyTypeOK, Exists
  <2>2. \A k \in Keys : at'[k] = <<>> \/ (at'[k] \in Places /\ Rng(at'[k]) \subseteq regions')
    <3>1. \A k \in Keys : at[k] = <<>> \/ Rng(at[k]) \subseteq regions
      BY DEF KeyInv, KeyTypeOK
    <3>2. Rng(<<>>) = {}
      BY DEF Rng
    <3> QED BY <1>1, <1>6, <3>1, <3>2
  <2>3. \A k, j \in Keys : k # j => Rng(at'[k]) \cap Rng(at'[j]) = {}
    <3>1. \A k, j \in Keys : k # j => Rng(at[k]) \cap Rng(at[j]) = {}
      BY DEF KeyInv, KeyTypeOK
    <3> QED BY <1>6, <3>1
  <2>4. /\ regions' \subseteq Regions /\ manual' \subseteq regions' /\ known' \subseteq Keys
        /\ moved' \in BOOLEAN
    BY <1>0, <1>1
  <2>5. recognised' \in 0 .. MaxSheets /\ prep' \in [Preps -> Prep] /\ request' \in [Teachers -> Request]
    BY <1>1 DEF KeyInv, KeyTypeOK
  <2> QED BY <1>4, <1>5, <2>1, <2>2, <2>3, <2>4, <2>5 DEF KeyTypeOK
<1>8. ItemsInPlace'
  <2> SUFFICES ASSUME ~moved' PROVE ItemsInPlace'
    BY DEF ItemsInPlace
  <2>1. ~moved /\ (HasItems => \A k \in Keys : Primary(at[k]) # r)
    BY <1>1
  <2>2. ASSUME NEW s \in Regions, run.item[s].status # "none"
        PROVE  /\ s # r /\ run.item[s].key \in Keys
               /\ Primary(at'[run.item[s].key]) = s
    <3>1. HasItems /\ run.item[s].key \in Keys
      BY <2>2, ItemSays DEF HasItems
    <3>2. Primary(at[run.item[s].key]) = s
      BY <2>1, <2>2 DEF KeyInv, ItemsInPlace
    <3> QED BY <1>6, <2>1, <3>1, <3>2
  <2>3. \A s \in Regions : run'.item[s].status # "none" => run.item[s].status # "none" /\ s # r
    <3>1. NoGrading.status = "none"
      BY DEF NoGrading
    <3> QED BY <1>4, <3>1
  <2>4. \A s \in Regions : run'.item[s].status # "none" => Primary(at'[run'.item[s].key]) = s
    BY <1>4, <2>2, <2>3
  <2>5. ASSUME run.status \in {"running", "done", "errors"}, NEW k \in Keys, run.lock[k] # NoId
        PROVE  \E s \in Regions : run'.item[s].key = k
    <3>1. PICK s \in Regions : run.item[s].key = k
      BY <2>1, <2>5 DEF KeyInv, ItemsInPlace
    <3>2. s # r
      BY <2>2, <3>1, ItemSays
    <3> QED BY <1>4, <3>1, <3>2
  <2>6. ASSUME NEW s \in Regions, run'.item[s].status # "none", run.lock[run'.item[s].key] # NoId
        PROVE  /\ run.status = "running" /\ run'.item[s].status = "queued" => run.work[s] # NoBody
               /\ run.status = "done" => run'.item[s].status = "graded"
    <3>1. s # r /\ run.item[s].status # "none"
      BY <2>3, <2>6
    <3>2. run'.item[s].key = run.item[s].key /\ run'.item[s].status = run.item[s].status
      BY <1>4, <3>1
    <3> QED BY <2>1, <2>6, <3>1, <3>2 DEF KeyInv, ItemsInPlace
  <2> QED BY <1>4, <2>4, <2>5, <2>6 DEF ItemsInPlace
<1> QED BY <1>4, <1>5, <1>7, <1>8 DEF KeyInv

\* Answers that get rows, revisions and a new current revision leave what others
\* rely on.
LEMMA RowsGrow ==
  ASSUME KeyInv, UNCHANGED <<at, known, run, moved>>, NEW t \in Teachers, Ends(t),
         answer' \in [Keys -> Answer],
         \A k \in Keys :
           \/ answer'[k].row > answer[k].row
           \/ /\ answer'[k].row = answer[k].row
              /\ answer'[k].region = answer[k].region
              /\ answer[k].current # 0 => answer'[k].current # 0
              /\ \A n \in DOMAIN revs[k] : n \in DOMAIN revs'[k] /\ revs'[k][n].body = revs[k][n].body,
         \A k \in Keys : Exists(k) => answer'[k].row = answer[k].row,
         \A p \in Preps : ~prep'[p].crossed =>
           /\ ~prep[p].crossed
           /\ \A s \in Slots : prep[p].item[s].status \in {"matched", "confirmed"} =>
                /\ prep'[p].item[s].status \in {"matched", "confirmed"}
                /\ prep'[p].item[s].key = prep[p].item[s].key /\ prep'[p].item[s].body = prep[p].item[s].body
  PROVE  RequestsHold' /\ PromisesKept' /\ ItemsRevised' /\ ItemsLocked' /\ GradedByLock' /\ ItemsInPlace'
<1>0. /\ answer \in [Keys -> Answer] /\ request \in [Teachers -> Request] /\ known \subseteq Keys /\ run \in Run
  BY DEF KeyInv, KeyTypeOK
<1>1. /\ request'[t] = NoRequest /\ \A u \in Teachers : u # t => request'[u] = request[u]
      /\ NoRequest.op = "none"
  BY <1>0 DEF Ends, NoRequest
<1>2. ASSUME NEW k \in Keys, NEW row \in Nat, row <= answer[k].row,
             answer'[k].region # NoRegion, answer'[k].row = row
      PROVE  /\ Exists(k) /\ answer[k].row = row
             /\ answer[k].current # 0 => answer'[k].current # 0
             /\ \A n \in DOMAIN revs[k] : n \in DOMAIN revs'[k] /\ revs'[k][n].body = revs[k][n].body
  <2>1. answer[k].row \in Nat /\ answer'[k].row \in Nat
    BY <1>0, BoundsNat DEF Answer
  <2> QED BY <1>2, <2>1 DEF Exists
<1>3. \A k \in Keys : answer[k].row <= answer'[k].row /\ answer[k].row \in Nat /\ answer'[k].row \in Nat
  BY <1>0, BoundsNat DEF Answer
<1>4. RequestsHold'
  <2> SUFFICES ASSUME NEW u \in Teachers PROVE RequestStands(request'[u], prep', answer', revs')
    BY RequestsAre
  <2>1. RequestStands(request[u], prep, answer, revs)
    BY RequestsAre DEF KeyInv
  <2>2. request[u].prep \in Preps /\ Reads(request[u], prep) => Reads(request[u], prep')
    BY DEF Reads
  <2>3. ASSUME Writes(request[u], answer, revs), NEW k \in Keys
        PROVE  /\ request[u].seen[k].row <= answer'[k].row
               /\ request[u].pick[k] # 0 /\ answer'[k].region # NoRegion /\ answer'[k].row = request[u].seen[k].row
                    => request[u].pick[k] \in DOMAIN revs'[k]
    <3>1. /\ request[u].seen[k].row <= answer[k].row
          /\ request[u].pick[k] # 0 /\ answer[k].region # NoRegion /\ answer[k].row = request[u].seen[k].row
               => request[u].pick[k] \in DOMAIN revs[k]
      BY <2>3 DEF Writes
    <3>2. request[u].seen[k].row \in Nat
      BY <1>0, BoundsNat DEF Request, Id
    <3>3. request[u].seen[k].row <= answer'[k].row
      BY <1>3, <3>1, <3>2
    <3> QED BY <1>2, <3>1, <3>2, <3>3 DEF Exists
  <2>4. Writes(request[u], answer, revs) => Writes(request[u], answer', revs')
    BY <2>3 DEF Writes
  <2>5. RequestStands(request[u], prep', answer', revs') /\ RequestStands(NoRequest, prep', answer', revs')
    BY <2>1, <2>2, <2>4, BlankRequest DEF RequestStands
  <2> QED BY <1>1, <2>5
<1>5. PromisesKept'
  <2> SUFFICES ASSUME NEW k \in Keys, run.lock[k] # NoId
               PROVE  LET id == run.lock[k] IN
                        /\ id.key = k /\ id.row <= answer'[k].row /\ k \in known
                        /\ answer'[k].region # NoRegion /\ answer'[k].row = id.row =>
                             /\ answer'[k].current # 0
                             /\ id.number \in DOMAIN revs'[k] /\ revs'[k][id.number].body = run.promised[k]
    BY DEF PromisesKept, RowStands, Exists
  <2> DEFINE id == run.lock[k]
  <2>1. /\ id.key = k /\ id.row <= answer[k].row /\ k \in known
        /\ RowStands(k, id) => /\ answer[k].current # 0
                               /\ id.number \in DOMAIN revs[k] /\ revs[k][id.number].body = run.promised[k]
    BY DEF KeyInv, PromisesKept
  <2>2. id.row \in Nat
    BY <1>0, BoundsNat DEF Run, Id
  <2> HIDE DEF id
  <2>3. id.row <= answer'[k].row
    BY <1>3, <2>1, <2>2
  <2>4. answer'[k].region # NoRegion /\ answer'[k].row = id.row =>
          /\ answer'[k].current # 0
          /\ id.number \in DOMAIN revs'[k] /\ revs'[k][id.number].body = run.promised[k]
    BY <1>2, <2>1, <2>2 DEF RowStands
  <2> QED BY <2>1, <2>3, <2>4 DEF id
<1>6. ItemsLocked'
  <2> SUFFICES ASSUME NEW r \in Regions, run.item[r].status # "none", run.lock[run.item[r].key] # NoId
               PROVE  \/ run.item[r].rev = run.lock[run.item[r].key]
                      \/ /\ run.item[r].rev = NoId
                         /\ ~(/\ answer'[run.item[r].key].region # NoRegion
                              /\ answer'[run.item[r].key].row = run.lock[run.item[r].key].row)
    BY DEF KeyInv, ItemsLocked, RowStands, Exists
  <2>1. /\ run.item[r].key \in Keys
        /\ \/ run.item[r].rev = run.lock[run.item[r].key]
           \/ run.item[r].rev = NoId /\ ~RowStands(run.item[r].key, run.lock[run.item[r].key])
    BY <1>0 DEF KeyInv, ItemsLocked
  <2>2. run.lock[run.item[r].key].row \in Nat /\ run.lock[run.item[r].key].row <= answer[run.item[r].key].row
    BY <1>0, <2>1, BoundsNat DEF KeyInv, PromisesKept, Run, Id
  <2> QED BY <1>2, <2>1, <2>2 DEF RowStands
<1>7. GradedByLock' /\ ItemsInPlace'
  BY DEF KeyInv, GradedByLock, ItemsInPlace, Primary
<1>8. ItemsRevised'
  <2> SUFFICES ASSUME NEW r \in Regions, run.item[r].rev # NoId
               PROVE  LET id == run.item[r].rev IN
                        /\ id.key \in Keys /\ answer'[id.key].region # NoRegion /\ answer'[id.key].row = id.row
                        /\ answer'[id.key].current # 0 /\ id.number \in DOMAIN revs'[id.key]
    BY DEF ItemsRevised, RowStands, Exists
  <2> DEFINE id == run.item[r].rev
  <2>1. /\ id.key \in Keys /\ Exists(id.key) /\ answer[id.key].row = id.row
        /\ answer[id.key].current # 0 /\ id.number \in DOMAIN revs[id.key]
    BY DEF KeyInv, ItemsRevised, RowStands
  <2> HIDE DEF id
  <2>2. answer'[id.key].row = answer[id.key].row /\ answer[id.key].row \in Nat
    BY <1>3, <2>1
  <2>3. /\ answer'[id.key].region = answer[id.key].region
        /\ answer'[id.key].current # 0 /\ id.number \in DOMAIN revs'[id.key]
    BY <2>1, <2>2
  <2> QED BY <2>1, <2>2, <2>3 DEF Exists, id
<1> QED BY <1>4, <1>5, <1>6, <1>7, <1>8

\* A confirmation adds a revision to each of its questions.
LEMMA CommitConfirmKeeps == ASSUME KeyInv, NEW t \in Teachers, CommitConfirm(t) PROVE KeyInv'
<1> DEFINE p == request[t].prep
           q == request[t].item
           ks == {k \in Keys : ItemsFor(t, k) # {}}
           Draft(k) == [status |-> "draft", prep |-> p, body |-> q[CHOOSE s \in ItemsFor(t, k) : TRUE].body]
           item == [s \in Slots |-> IF q[s].key # NoKey THEN [prep[p].item[s] EXCEPT !.status = "confirmed"]
                                    ELSE prep[p].item[s]]
           new == [prep[p] EXCEPT !.confirmed = TRUE, !.item = item]
<1>0. /\ answer \in [Keys -> Answer] /\ revs \in [Keys -> Seq(Rev)] /\ prep \in [Preps -> Prep]
      /\ request \in [Teachers -> Request] /\ known \subseteq Keys /\ run \in Run
      /\ \A k \in Keys : Len(revs[k]) <= MaxRevs
  BY DEF KeyInv, KeyTypeOK
<1>1. /\ \A k \in ks : Len(revs[k]) < MaxRevs
      /\ revs' = [k \in Keys |-> IF k \in ks THEN Append(revs[k], Draft(k)) ELSE revs[k]]
      /\ prep' = [prep EXCEPT ![p].confirmed = TRUE, ![p].item = item]
      /\ Rows(ks) /\ Ends(t) /\ request[t].op = "confirm"
      /\ UNCHANGED <<regions, at, known, recognised, manual, run, moved>>
  BY DEF CommitConfirm, Revised
<1>2. /\ p \in Preps /\ \A s \in Slots : q[s].key # NoKey => q[s].body # NoBody
      /\ q \in [Slots -> Item] /\ \A s \in Slots : q[s].key \in known \cup {NoKey}
  BY <1>0, <1>1 DEF KeyInv, RequestsHold, Request, KeysKnown
<1>3. \A k \in Keys : k \in ks <=> \E s \in Slots : q[s].key = k
  BY DEF ItemsFor
<1>4. \A k \in ks : /\ Draft(k) \in Rev /\ Draft(k).prep = p
                    /\ \E s \in Slots : q[s].key = k /\ Draft(k).body = q[s].body
  <2> SUFFICES ASSUME NEW k \in ks
               PROVE  /\ Draft(k) \in Rev /\ Draft(k).prep = p
                      /\ \E s \in Slots : q[s].key = k /\ Draft(k).body = q[s].body
    OBVIOUS
  <2> DEFINE s == CHOOSE s \in ItemsFor(t, k) : TRUE
  <2>1. s \in ItemsFor(t, k)
    OBVIOUS
  <2>2. s \in Slots /\ q[s].key = k /\ k # NoKey
    BY <2>1, KeyBlanks DEF ItemsFor
  <2>3. q[s].body \in Bodies
    BY <1>2, <2>2 DEF Item
  <2>4. Draft(k).body = q[s].body
    OBVIOUS
  <2> HIDE DEF s, q, p
  <2>5. Draft(k) \in Rev /\ Draft(k).prep = p
    BY <1>2, <2>3 DEF Rev, s
  <2> HIDE DEF Draft
  <2> QED BY <2>2, <2>4, <2>5
<1>5. /\ prep' = [prep EXCEPT ![p] = new]
      /\ new.confirmed = TRUE /\ new.asks = prep[p].asks /\ new.item = item /\ new.crossed = prep[p].crossed
      /\ new \in Prep
  <2>1. prep[p] \in Prep
    BY <1>0, <1>2
  <2>2. item \in [Slots -> Item]
    BY <2>1 DEF Prep, Item
  <2> HIDE DEF item
  <2>3. prep' = [prep EXCEPT ![p] = new]
    BY <1>0, <1>1, <1>2
  <2> QED BY <2>1, <2>2, <2>3 DEF Prep
<1>6. \A s \in Slots :
        /\ item[s].key = prep[p].item[s].key /\ item[s].body = prep[p].item[s].body
        /\ prep[p].item[s].status = "confirmed" \/ q[s].key # NoKey => item[s].status = "confirmed"
        /\ item[s].status \in {"confirmed", prep[p].item[s].status}
  <2> SUFFICES ASSUME NEW s \in Slots
               PROVE  /\ item[s].key = prep[p].item[s].key /\ item[s].body = prep[p].item[s].body
                      /\ prep[p].item[s].status = "confirmed" \/ q[s].key # NoKey => item[s].status = "confirmed"
                      /\ item[s].status \in {"confirmed", prep[p].item[s].status}
    OBVIOUS
  <2>1. prep[p].item[s] \in Item
    BY <1>0, <1>2 DEF Prep
  <2> QED BY <2>1 DEF Item
<1> HIDE DEF item, new, ks, Draft
<1>7. /\ answer' \in [Keys -> Answer]
      /\ \A k \in Keys :
           IF k \in ks /\ ~Exists(k)
           THEN /\ answer'[k].row = answer[k].row + 1 /\ answer'[k].current = 0 /\ answer'[k].region = at[k][1]
                /\ at[k][1] \in regions \ manual
           ELSE answer'[k] = answer[k]
  <2>1. \A k \in ks : ~Exists(k) => /\ answer[k].row < MaxRows /\ at[k] # <<>> /\ at[k][1] \notin manual
    BY <1>1 DEF Rows
  <2>2. answer' = [k \in Keys |-> IF k \in ks /\ ~Exists(k)
                                  THEN [row |-> answer[k].row + 1, region |-> at[k][1], current |-> 0]
                                  ELSE answer[k]]
    BY <1>1 DEF Rows
  <2>3. \A k \in Keys : k \in ks /\ ~Exists(k) => at[k][1] \in regions \ manual /\ at[k][1] \in Regions
    BY <2>1, FirstOf DEF KeyInv
  <2>4. \A k \in Keys : k \in ks /\ ~Exists(k) => answer[k].row + 1 \in 0 .. MaxRows
    BY <1>0, <2>1, BoundsNat DEF Answer
  <2> QED BY <1>0, <2>2, <2>3, <2>4, BoundsNat DEF Answer
<1>8. /\ revs' \in [Keys -> Seq(Rev)]
      /\ \A k \in Keys :
           /\ Len(revs'[k]) <= MaxRevs
           /\ \A n \in DOMAIN revs[k] : n \in DOMAIN revs'[k] /\ revs'[k][n] = revs[k][n]
           /\ \A n \in DOMAIN revs'[k] : n \in DOMAIN revs[k] \/ (k \in ks /\ revs'[k][n] = Draft(k))
           /\ k \notin ks => revs'[k] = revs[k]
  <2>1. ASSUME NEW k \in ks, k \in Keys
        PROVE  /\ Append(revs[k], Draft(k)) \in Seq(Rev) /\ Len(Append(revs[k], Draft(k))) = Len(revs[k]) + 1
               /\ DOMAIN revs[k] = 1 .. Len(revs[k]) /\ Len(revs[k]) \in Nat
               /\ DOMAIN Append(revs[k], Draft(k)) = 1 .. Len(revs[k]) + 1
               /\ \A n \in 1 .. Len(revs[k]) : Append(revs[k], Draft(k))[n] = revs[k][n]
               /\ Append(revs[k], Draft(k))[Len(revs[k]) + 1] = Draft(k)
    <3>1. revs[k] \in Seq(Rev) /\ Draft(k) \in Rev
      BY <1>0, <1>4, <2>1
    <3>2. /\ Append(revs[k], Draft(k)) \in Seq(Rev) /\ Len(Append(revs[k], Draft(k))) = Len(revs[k]) + 1
          /\ \A n \in 1 .. Len(revs[k]) : Append(revs[k], Draft(k))[n] = revs[k][n]
          /\ Append(revs[k], Draft(k))[Len(revs[k]) + 1] = Draft(k)
      BY <3>1, AppendProperties
    <3> QED BY <3>1, <3>2, LenProperties
  <2>2. \A k \in Keys : k \in ks => revs'[k] = Append(revs[k], Draft(k))
    BY <1>1
  <2>3. \A k \in Keys : k \notin ks => revs'[k] = revs[k]
    BY <1>1
  <2>4. ASSUME NEW k \in Keys
        PROVE  /\ revs'[k] \in Seq(Rev) /\ Len(revs'[k]) <= MaxRevs
               /\ \A n \in DOMAIN revs[k] : n \in DOMAIN revs'[k] /\ revs'[k][n] = revs[k][n]
               /\ \A n \in DOMAIN revs'[k] : n \in DOMAIN revs[k] \/ (k \in ks /\ revs'[k][n] = Draft(k))
    <3>1. CASE k \in ks
      <4>1. revs'[k] = Append(revs[k], Draft(k)) /\ Len(revs[k]) < MaxRevs
        BY <1>1, <2>2, <3>1
      <4> QED BY <2>1, <3>1, <4>1, BoundsNat
    <3>2. CASE k \notin ks
      BY <1>0, <2>3, <3>2
    <3> QED BY <3>1, <3>2
  <2>5. DOMAIN revs' = Keys /\ revs' = [k \in Keys |-> revs'[k]]
    BY <1>1
  <2> QED BY <2>3, <2>4, <2>5
<1>9. KeyTypeOK'
  <2>1. \A k \in Keys : IF Exists(k)' THEN answer'[k].region \in regions' \ manual' ELSE revs'[k] = <<>>
    <3> SUFFICES ASSUME NEW k \in Keys
                 PROVE  IF answer'[k].region # NoRegion THEN answer'[k].region \in regions \ manual ELSE revs'[k] = <<>>
      BY <1>1 DEF Exists
    <3>1. regions \subseteq Regions /\ NoRegion \notin Regions
      BY KeyBlanks DEF KeyInv, KeyTypeOK
    <3>2. IF Exists(k) THEN answer[k].region \in regions \ manual ELSE revs[k] = <<>>
      BY DEF KeyInv, KeyTypeOK
    <3> QED BY <1>7, <1>8, <3>1, <3>2 DEF Exists
  <2>2. prep' \in [Preps -> Prep] /\ request' \in [Teachers -> Request]
    BY <1>0, <1>1, <1>5, KeyBlanks DEF Ends
  <2> QED BY <1>1, <1>7, <1>8, <2>1, <2>2 DEF KeyInv, KeyTypeOK
<1>10. /\ prep'[p] = new /\ \A o \in Preps : o # p => prep'[o] = prep[o]
       /\ request'[t] = NoRequest /\ \A u \in Teachers : u # t => request'[u] = request[u]
  BY <1>0, <1>1, <1>2, <1>5 DEF Ends
<1>11. KeysKnown'
  <2>1. /\ \A o \in Preps : prep[o].asks \subseteq known /\ \A s \in Slots : prep[o].item[s].key \in known \cup {NoKey}
        /\ \A k \in Keys : Exists(k) => k \in known
    BY DEF KeyInv, KeysKnown
  <2>2. \A k \in Keys : k \in ks => k \in known
    BY <1>2, <1>3, KeyBlanks
  <2>3. \A k \in Keys : Exists(k)' => k \in known
    BY <1>7, <2>1, <2>2 DEF Exists
  <2>4. \A o \in Preps : prep'[o].asks \subseteq known /\ \A s \in Slots : prep'[o].item[s].key \in known \cup {NoKey}
    BY <1>2, <1>5, <1>6, <1>10, <2>1
  <2> QED BY <1>1, <2>3, <2>4, EndsOnly, EndsKnown DEF KeysKnown
<1>12. MatchedSays'
  BY <1>2, <1>5, <1>6, <1>10 DEF KeyInv, MatchedSays
<1>13. OnlyConfirmed'
  <2>1. ASSUME NEW k \in Keys, NEW s \in Slots, NEW body \in Bodies, prep[p].item[s].key = k,
               prep[p].item[s].body = body, q[s].key = k \/ prep[p].item[s].status = "confirmed"
        PROVE  item[s] = Record(k, body)
    <3>1. item[s] \in Item
      BY <1>5 DEF Prep
    <3>2. item[s].status = "confirmed" /\ item[s].key = k /\ item[s].body = body
      BY <1>6, <2>1, KeyBlanks
    <3> QED BY <3>1, <3>2 DEF Item, Record
  <2>2. ASSUME NEW k \in Keys, NEW n \in DOMAIN revs'[k] PROVE Recorded(k, revs'[k][n], prep')
    <3>1. CASE n \in DOMAIN revs[k]
      <4>1. /\ revs'[k][n] = revs[k][n] /\ revs[k][n].prep \in Preps /\ revs[k][n].body \in Bodies
            /\ Recorded(k, revs[k][n], prep)
        BY <1>8, <3>1, RevTyped, RecordIs DEF KeyInv
      <4>2. CASE revs[k][n].prep = p /\ ~prep[p].crossed
        <5>1. PICK s \in Slots : prep[p].item[s] = Record(k, revs[k][n].body)
          BY <4>1, <4>2 DEF Recorded
        <5>2. item[s] = Record(k, revs[k][n].body)
          BY <2>1, <4>1, <5>1 DEF Record
        <5> QED BY <1>5, <1>10, <4>1, <4>2, <5>2 DEF Recorded
      <4>3. CASE revs[k][n].prep # p
        <5>1. prep'[revs[k][n].prep] = prep[revs[k][n].prep]
          BY <1>10, <4>1, <4>3
        <5> QED BY <4>1, <5>1 DEF Recorded
      <4>4. CASE revs[k][n].prep = p /\ prep[p].crossed
        <5>1. prep'[p].confirmed /\ prep'[p].crossed
          BY <1>5, <1>10, <4>4
        <5> QED BY <4>1, <4>4, <5>1 DEF Recorded
      <4> QED BY <4>2, <4>3, <4>4
    <3>2. CASE k \in ks /\ revs'[k][n] = Draft(k)
      <4>1. revs'[k][n].prep = p /\ revs'[k][n].body \in Bodies
        BY <1>4, <3>2 DEF Rev
      <4>2. PICK s \in Slots : q[s].key = k /\ revs'[k][n].body = q[s].body
        BY <1>4, <3>2
      <4>3. ~prep[p].crossed => prep[p].item[s].key = k /\ prep[p].item[s].body = revs'[k][n].body
        <5>1. Reads(request[t], prep)
          BY <1>1, RequestsAre DEF KeyInv, RequestStands
        <5> QED BY <4>2, <5>1, KeyBlanks DEF Reads
      <4>4. ~prep[p].crossed => item[s] = Record(k, revs'[k][n].body)
        BY <2>1, <4>1, <4>2, <4>3
      <4> QED BY <1>5, <1>10, <4>1, <4>4 DEF Recorded
    <3> QED BY <1>8, <3>1, <3>2
  <2>3. ASSUME NEW k \in Keys, Current(k)' # NoId PROVE InForce(k, Current(k))'
    <3>1. answer'[k].current # 0
      BY <2>3 DEF Current, IdOf
    <3>2. answer'[k] = answer[k]
      BY <1>7, <3>1
    <3>3. Current(k)' = Current(k)
      BY <3>2 DEF Current, IdOf
    <3>4. InForce(k, Current(k))
      BY <2>3, <3>3 DEF KeyInv, OnlyConfirmed
    <3> QED BY <1>8, <3>2, <3>3, <3>4 DEF InForce, Exists
  <2> QED BY <2>2, <2>3, RecordsKept
<1>14. RequestsHold' /\ PromisesKept' /\ ItemsRevised' /\ ItemsLocked' /\ GradedByLock' /\ ItemsInPlace'
  <2>1. UNCHANGED <<at, known, run, moved>> /\ Ends(t)
    BY <1>1
  <2>2. \A k \in Keys :
          \/ answer'[k].row > answer[k].row
          \/ /\ answer'[k].row = answer[k].row
             /\ answer'[k].region = answer[k].region
             /\ answer[k].current # 0 => answer'[k].current # 0
             /\ \A n \in DOMAIN revs[k] : n \in DOMAIN revs'[k] /\ revs'[k][n].body = revs[k][n].body
    <3> SUFFICES ASSUME NEW k \in Keys, ~(answer'[k].row > answer[k].row)
                 PROVE  answer'[k] = answer[k]
      BY <1>8
    <3>1. answer[k].row \in Nat
      BY <1>0, BoundsNat DEF Answer
    <3>2. ~(k \in ks /\ ~Exists(k))
      BY <1>7, <3>1
    <3> QED BY <1>7, <3>2
  <2>3. \A k \in Keys : Exists(k) => answer'[k].row = answer[k].row
    BY <1>7
  <2>4. \A o \in Preps : ~prep'[o].crossed =>
          /\ ~prep[o].crossed
          /\ \A s \in Slots : prep[o].item[s].status \in {"matched", "confirmed"} =>
               /\ prep'[o].item[s].status \in {"matched", "confirmed"}
               /\ prep'[o].item[s].key = prep[o].item[s].key /\ prep'[o].item[s].body = prep[o].item[s].body
    <3> SUFFICES ASSUME NEW o \in Preps, o = p
                 PROVE  /\ ~prep'[p].crossed => ~prep[p].crossed
                        /\ \A s \in Slots : prep[p].item[s].status \in {"matched", "confirmed"} =>
                             /\ prep'[p].item[s].status \in {"matched", "confirmed"}
                             /\ prep'[p].item[s].key = prep[p].item[s].key /\ prep'[p].item[s].body = prep[p].item[s].body
      BY <1>10
    <3>1. prep'[p].crossed = prep[p].crossed /\ prep'[p].item = item
      BY <1>5, <1>10
    <3> QED BY <1>6, <3>1
  <2> QED BY <1>7, <2>1, <2>2, <2>3, <2>4, RowsGrow
<1> QED BY <1>9, <1>11, <1>12, <1>13, <1>14 DEF KeyInv

\* A publication changes the status of revisions and which one is in force.
LEMMA CommitPublishKeeps == ASSUME KeyInv, NEW t \in Teachers, CommitPublish(t) PROVE KeyInv'
<1> DEFINE n == request[t].pick
           seen == request[t].seen
           ks == {k \in Keys : n[k] # 0}
           Out(k) == [revs[k] EXCEPT ![n[k]].status = "published"]
<1>0. /\ answer \in [Keys -> Answer] /\ revs \in [Keys -> Seq(Rev)] /\ prep \in [Preps -> Prep]
      /\ request \in [Teachers -> Request] /\ known \subseteq Keys /\ run \in Run
      /\ \A k \in Keys : Len(revs[k]) <= MaxRevs
  BY DEF KeyInv, KeyTypeOK
<1>1. /\ request[t].op = "publish" /\ Ends(t)
      /\ \A k \in ks : Exists(k) /\ answer[k].row = seen[k].row
      /\ revs' = [k \in Keys |-> IF k \in ks THEN Out(k) ELSE revs[k]]
      /\ answer' = [k \in Keys |-> IF k \in ks /\ n[k] # seen[k].number
                                   THEN [answer[k] EXCEPT !.current = n[k]] ELSE answer[k]]
      /\ UNCHANGED <<regions, at, known, recognised, prep, manual, run, moved>>
  BY DEF CommitPublish
<1>2. n \in [Keys -> 0 .. MaxRevs]
  BY <1>0 DEF Request
<1>3. ASSUME NEW k \in ks PROVE n[k] \in DOMAIN revs[k] /\ k \in Keys
  BY <1>1 DEF KeyInv, RequestsHold, RowStands
<1>4. ASSUME NEW k \in ks
      PROVE  /\ Out(k) \in Seq(Rev) /\ Len(Out(k)) = Len(revs[k]) /\ DOMAIN Out(k) = DOMAIN revs[k]
             /\ Out(k)[n[k]].status = "published"
             /\ \A m \in DOMAIN revs[k] : /\ Out(k)[m].body = revs[k][m].body /\ Out(k)[m].prep = revs[k][m].prep
                                          /\ revs[k][m].status = "published" => Out(k)[m] = revs[k][m]
  <2> DEFINE e == [revs[k][n[k]] EXCEPT !.status = "published"]
  <2>1. revs[k] \in Seq(Rev) /\ n[k] \in DOMAIN revs[k] /\ DOMAIN revs[k] = 1 .. Len(revs[k])
    BY <1>0, <1>3, LenProperties
  <2>2. revs[k][n[k]] \in Rev
    BY <2>1
  <2>3. /\ e \in Rev /\ e.status = "published" /\ e.body = revs[k][n[k]].body /\ e.prep = revs[k][n[k]].prep
        /\ revs[k][n[k]].status = "published" => e = revs[k][n[k]]
    BY <2>2 DEF Rev
  <2>4. Out(k) = [revs[k] EXCEPT ![n[k]] = e]
    OBVIOUS
  <2> HIDE DEF e, Out, n, ks
  <2>5. /\ Out(k) \in Seq(Rev) /\ Len(Out(k)) = Len(revs[k])
        /\ \A j \in 1 .. Len(revs[k]) : Out(k)[j] = IF j = n[k] THEN e ELSE revs[k][j]
    BY <2>1, <2>3, <2>4, ExceptSeq
  <2>6. DOMAIN Out(k) = DOMAIN revs[k]
    BY <2>1, <2>5, LenProperties
  <2> QED BY <2>1, <2>3, <2>5, <2>6
<1>5. /\ answer' \in [Keys -> Answer]
      /\ \A k \in Keys :
           /\ answer'[k].row = answer[k].row /\ answer'[k].region = answer[k].region
           /\ answer'[k].current = answer[k].current \/ (k \in ks /\ answer'[k].current = n[k])
  BY <1>0, <1>1, <1>2 DEF Answer
<1> HIDE DEF Out
<1>6. /\ revs' \in [Keys -> Seq(Rev)]
      /\ \A k \in Keys :
           /\ Len(revs'[k]) = Len(revs[k]) /\ DOMAIN revs'[k] = DOMAIN revs[k]
           /\ k \in ks => revs'[k][n[k]].status = "published"
           /\ k \notin ks => revs'[k] = revs[k]
           /\ \A m \in DOMAIN revs[k] :
                /\ revs'[k][m].body = revs[k][m].body /\ revs'[k][m].prep = revs[k][m].prep
                /\ revs[k][m].status = "published" => revs'[k][m] = revs[k][m]
  <2>1. \A k \in Keys : revs'[k] = IF k \in ks THEN Out(k) ELSE revs[k]
    BY <1>1
  <2>2. DOMAIN revs' = Keys /\ revs' = [k \in Keys |-> revs'[k]]
    BY <1>1
  <2> HIDE DEF ks, n
  <2>3. \A k \in Keys : revs'[k] \in Seq(Rev)
    BY <1>0, <1>4, <2>1
  <2> QED BY <1>4, <2>1, <2>2, <2>3
<1> HIDE DEF n, ks, seen
<1>7. KeyTypeOK'
  <2>1. \A k \in Keys : IF Exists(k)' THEN answer'[k].region \in regions' \ manual' ELSE revs'[k] = <<>>
    <3> SUFFICES ASSUME NEW k \in Keys
                 PROVE  IF answer'[k].region # NoRegion THEN answer'[k].region \in regions \ manual ELSE revs'[k] = <<>>
      BY <1>1 DEF Exists
    <3>1. IF Exists(k) THEN answer[k].region \in regions \ manual ELSE revs[k] = <<>>
      BY DEF KeyInv, KeyTypeOK
    <3>2. k \in ks => Exists(k)
      BY <1>1
    <3> QED BY <1>5, <1>6, <3>1, <3>2 DEF Exists
  <2>2. request' \in [Teachers -> Request]
    BY <1>0, <1>1, KeyBlanks DEF Ends
  <2> QED BY <1>0, <1>1, <1>5, <1>6, <2>1, <2>2 DEF KeyInv, KeyTypeOK
<1>8. KeysKnown'
  <2>1. /\ \A o \in Preps : prep[o].asks \subseteq known /\ \A s \in Slots : prep[o].item[s].key \in known \cup {NoKey}
        /\ \A k \in Keys : Exists(k) => k \in known
    BY DEF KeyInv, KeysKnown
  <2>2. \A k \in Keys : Exists(k)' => k \in known
    BY <1>5, <2>1 DEF Exists
  <2> QED BY <1>1, <2>1, <2>2, EndsOnly, EndsKnown DEF KeysKnown
<1>9. MatchedSays'
  BY <1>1 DEF KeyInv, MatchedSays
<1>10. OnlyConfirmed'
  <2>1. ASSUME NEW k \in Keys, NEW m \in DOMAIN revs'[k] PROVE Recorded(k, revs'[k][m], prep')
    <3>1. m \in DOMAIN revs[k] /\ revs'[k][m].prep = revs[k][m].prep /\ revs'[k][m].body = revs[k][m].body
      BY <1>6
    <3>2. Recorded(k, revs[k][m], prep)
      BY <3>1, RecordIs DEF KeyInv
    <3> QED BY <1>1, <3>1, <3>2 DEF Recorded
  <2>2. ASSUME NEW k \in Keys, Current(k)' # NoId PROVE InForce(k, Current(k))'
    <3> DEFINE c == answer'[k].current
    <3>1. c # 0 /\ Current(k)' = [key |-> k, row |-> answer'[k].row, number |-> c]
      BY <2>2 DEF Current, IdOf
    <3>2. answer'[k].region # NoRegion /\ c \in DOMAIN revs'[k] /\ revs'[k][c].status = "published"
      <4>1. CASE k \in ks /\ c = n[k]
        <5>1. Exists(k)
          BY <1>1, <4>1
        <5> QED BY <1>3, <1>5, <1>6, <4>1, <5>1 DEF Exists
      <4>2. CASE c = answer[k].current
        <5>1. Current(k) = [key |-> k, row |-> answer[k].row, number |-> c] /\ Current(k) # NoId
          <6>1. Current(k) = [key |-> k, row |-> answer[k].row, number |-> c]
            BY <3>1, <4>2 DEF Current, IdOf
          <6> QED BY <6>1, KeyBlanks DEF NoId
        <5>2. InForce(k, Current(k))
          BY <5>1 DEF KeyInv, OnlyConfirmed
        <5> QED BY <1>5, <1>6, <5>1, <5>2 DEF InForce, Exists
      <4> QED BY <1>5, <4>1, <4>2
    <3> QED BY <3>1, <3>2 DEF InForce, Exists
  <2> QED BY <2>1, <2>2, RecordsKept
<1>11. RequestsHold' /\ PromisesKept' /\ ItemsRevised' /\ ItemsLocked' /\ GradedByLock' /\ ItemsInPlace'
  <2>1. UNCHANGED <<at, known, run, moved>> /\ Ends(t)
    BY <1>1
  <2>2. \A k \in Keys :
          /\ answer'[k].row = answer[k].row
          /\ answer'[k].region = answer[k].region
          /\ answer[k].current # 0 => answer'[k].current # 0
          /\ \A m \in DOMAIN revs[k] : m \in DOMAIN revs'[k] /\ revs'[k][m].body = revs[k][m].body
    <3>1. \A k \in Keys : k \in ks => n[k] # 0
      BY DEF ks
    <3> QED BY <1>5, <1>6, <3>1
  <2>3. UNCHANGED prep
    BY <1>1
  <2> QED BY <1>5, <2>1, <2>2, <2>3, RowsGrow
<1> QED BY <1>7, <1>8, <1>9, <1>10, <1>11 DEF KeyInv

\* Questions are confirmed anew: each has its regions to itself.
LEMMA ConfirmSheetKeeps ==
  ASSUME KeyInv, NEW ks \in SUBSET Keys, NEW place \in [ks -> Places], ConfirmSheet(ks, place)
  PROVE  KeyInv'
<1>0. /\ regions \subseteq Regions /\ manual \subseteq regions /\ known \subseteq Keys /\ moved \in BOOLEAN
      /\ recognised \in 0 .. MaxSheets
      /\ \A k \in Keys : at[k] = <<>> \/ (at[k] \in Places /\ Rng(at[k]) \subseteq regions)
      /\ \A k, j \in Keys : k # j => Rng(at[k]) \cap Rng(at[j]) = {}
  BY DEF KeyInv, KeyTypeOK
<1>1. /\ recognised < MaxSheets
      /\ \A k, j \in ks : k # j => Rng(place[k]) \cap Rng(place[j]) = {}
      /\ at' = [k \in Keys |-> IF k \in ks THEN place[k] ELSE at[k]]
      /\ known' = known \cup ks
      /\ regions' = regions \cup UNION {Rng(place[k]) : k \in ks}
      /\ recognised' = recognised + 1
      /\ moved' = (moved \/ (HasItems /\ \E k \in ks : Primary(place[k]) # Primary(at[k])))
      /\ UNCHANGED <<prep, answer, manual, revs, request, run>>
  BY DEF ConfirmSheet
<1>2. \A k \in ks : \A j \in Keys : j \notin ks => Rng(place[k]) \cap Rng(at[j]) = {}
  BY DEF ConfirmSheet
<1>3. \A k \in Keys : at'[k] = IF k \in ks THEN place[k] ELSE at[k]
  BY <1>1
<1>4. KeyTypeOK'
  <2>1. \A k \in ks : place[k] \in Places /\ Rng(place[k]) \subseteq Regions /\ Rng(place[k]) \subseteq regions'
    BY <1>1, PlacesAre
  <2>2. regions \subseteq regions' /\ regions' \subseteq Regions
    BY <1>0, <1>1, <2>1
  <2>3. \A k \in Keys : at'[k] = <<>> \/ (at'[k] \in Places /\ Rng(at'[k]) \subseteq regions')
    BY <1>0, <1>3, <2>1, <2>2
  <2>4. ASSUME NEW k \in Keys, NEW j \in Keys, k # j PROVE Rng(at'[k]) \cap Rng(at'[j]) = {}
    <3>1. CASE k \in ks /\ j \in ks
      BY <1>1, <1>3, <2>4, <3>1
    <3>2. CASE k \in ks /\ j \notin ks
      BY <1>2, <1>3, <3>2
    <3>3. CASE k \notin ks /\ j \in ks
      BY <1>2, <1>3, <3>3
    <3>4. CASE k \notin ks /\ j \notin ks
      BY <1>0, <1>3, <2>4, <3>4
    <3> QED BY <3>1, <3>2, <3>3, <3>4
  <2>5. recognised' \in 0 .. MaxSheets /\ known' \subseteq Keys /\ moved' \in BOOLEAN
    BY <1>0, <1>1, BoundsNat
  <2>6. \A k \in Keys : IF Exists(k)' THEN answer'[k].region \in regions' \ manual' ELSE revs'[k] = <<>>
    BY <1>1, <2>2 DEF KeyInv, KeyTypeOK, Exists
  <2> QED BY <1>0, <1>1, <2>2, <2>3, <2>4, <2>5, <2>6 DEF KeyInv, KeyTypeOK
<1>5. KeysKnown'
  BY <1>1 DEF KeyInv, KeysKnown, Exists
<1>6. MatchedSays' /\ RequestsHold'
  BY <1>1, RequestsAre DEF KeyInv, MatchedSays
<1>7. OnlyConfirmed'
  <2>1. OnlyConfirmed /\ UNCHANGED <<prep, answer, revs>>
    BY <1>1 DEF KeyInv
  <2> QED BY <2>1 DEF OnlyConfirmed, Current, IdOf, InForce, Exists
<1>8. PromisesKept' /\ ItemsRevised'
  BY <1>1 DEF KeyInv, PromisesKept, ItemsRevised, RowStands, Exists
<1>9. ItemsLocked' /\ GradedByLock'
  BY <1>1 DEF KeyInv, ItemsLocked, GradedByLock, RowStands, Exists
<1>10. ItemsInPlace'
  <2> SUFFICES ASSUME ~moved' PROVE ItemsInPlace'
    BY DEF ItemsInPlace
  <2>1. ~moved /\ (HasItems => \A k \in ks : Primary(place[k]) = Primary(at[k]))
    BY <1>1
  <2>2. ASSUME NEW r \in Regions, run.item[r].status # "none" PROVE Primary(at'[run.item[r].key]) = r
    <3>1. HasItems /\ run.item[r].key \in Keys
      BY <2>2, ItemSays DEF HasItems
    <3>2. Primary(at[run.item[r].key]) = r
      BY <2>1, <2>2 DEF KeyInv, ItemsInPlace
    <3> QED BY <1>3, <2>1, <3>1, <3>2
  <2> QED BY <1>1, <2>1, <2>2 DEF KeyInv, ItemsInPlace
<1> QED BY <1>4, <1>5, <1>6, <1>7, <1>8, <1>9, <1>10 DEF KeyInv

\* The run locks what is in force.
LEMMA CreateRunKeeps == ASSUME KeyInv, CreateRun PROVE KeyInv'
<1> DEFINE lock == [k \in Keys |-> Current(k)]
           promised == [k \in Keys |-> IF answer[k].current = 0 THEN NoBody ELSE revs[k][answer[k].current].body]
<1>0. run \in Run /\ answer \in [Keys -> Answer] /\ revs \in [Keys -> Seq(Rev)]
  BY DEF KeyInv, KeyTypeOK
<1>1. /\ run.status = "none" /\ run' = [run EXCEPT !.status = "queued", !.lock = lock, !.promised = promised]
      /\ UNCHANGED <<regions, at, known, recognised, prep, answer, manual, revs, request, moved>>
  BY DEF CreateRun
<1>2. ASSUME NEW k \in Keys
      PROVE  /\ Current(k) \in Id
             /\ answer[k].current = 0 => Current(k) = NoId
             /\ answer[k].current # 0 =>
                  /\ Current(k).key = k /\ Current(k).row = answer[k].row /\ Current(k).number = answer[k].current
                  /\ Exists(k) /\ k \in known /\ answer[k].current \in DOMAIN revs[k]
                  /\ revs[k][answer[k].current].body \in Bodies
  <2>1. answer[k] \in Answer
    BY <1>0
  <2>2. CASE answer[k].current = 0
    BY <2>2, KeyBlanks DEF Current, IdOf
  <2>3. CASE answer[k].current # 0
    <3>1. Current(k) = [key |-> k, row |-> answer[k].row, number |-> answer[k].current]
      BY <2>3 DEF Current, IdOf
    <3>2. Current(k) \in Id /\ Current(k) # NoId
      BY <2>1, <3>1, KeyBlanks DEF Id, Answer, NoId
    <3>3. InForce(k, Current(k))
      BY <3>2 DEF KeyInv, OnlyConfirmed
    <3>4. Exists(k) /\ k \in known /\ answer[k].current \in DOMAIN revs[k]
      BY <3>1, <3>3 DEF InForce, KeyInv, KeysKnown
    <3>5. revs[k][answer[k].current] \in Rev
      <4>1. revs[k] \in Seq(Rev)
        BY <1>0
      <4> QED BY <3>4, <4>1
    <3> QED BY <2>3, <3>1, <3>2, <3>4, <3>5 DEF Rev
  <2> QED BY <2>2, <2>3
<1>3. lock \in [Keys -> Id] /\ promised \in [Keys -> Bodies \cup {NoBody}]
  BY <1>2
<1>4. /\ \A k \in Keys : lock[k] = Current(k)
      /\ \A k \in Keys : answer[k].current # 0 => promised[k] = revs[k][answer[k].current].body
  OBVIOUS
<1> HIDE DEF lock, promised
<1>5. /\ run' \in Run /\ run'.status = "queued" /\ run'.lock = lock /\ run'.promised = promised
      /\ run'.item = run.item /\ run'.work = run.work
  BY <1>0, <1>1, <1>3 DEF Run
<1>6. \A r \in Regions : run.item[r] = NoGrading /\ run.work[r] = NoBody
  BY <1>1 DEF KeyInv, ItemsLocked
<1>7. PromisesKept'
  <2> SUFFICES ASSUME NEW k \in Keys, lock[k] # NoId
               PROVE  LET id == lock[k] IN
                        /\ id.key = k /\ id.row <= answer[k].row /\ k \in known
                        /\ answer[k].current # 0
                        /\ id.number \in DOMAIN revs[k] /\ revs[k][id.number].body = promised[k]
    BY <1>1, <1>5 DEF PromisesKept, RowStands
  <2>1. answer[k].row <= answer[k].row
    BY <1>0, BoundsNat DEF Answer
  <2> QED BY <1>2, <1>4, <2>1
<1>8. ItemsRevised' /\ ItemsLocked' /\ GradedByLock' /\ ItemsInPlace'
  <2>1. NoGrading.rev = NoId /\ NoGrading.status = "none"
    BY DEF NoGrading
  <2>2. ItemsRevised'
    BY <1>5, <1>6, <2>1 DEF ItemsRevised
  <2>3. ItemsLocked'
    BY <1>5, <1>6, <2>1 DEF ItemsLocked
  <2>4. GradedByLock' /\ ItemsInPlace'
    BY <1>5, <1>6, <2>1 DEF GradedByLock, ItemsInPlace
  <2> QED BY <2>2, <2>3, <2>4
<1> QED BY <1>1, <1>5, <1>7, <1>8, RunSteps

\* Steps of the run that leave its lock and the questions' answers alone.
LEMMA LockRests ==
  ASSUME KeyInv, UNCHANGED <<known, answer, revs>>, run'.lock = run.lock, run'.promised = run.promised
  PROVE  PromisesKept'
BY DEF KeyInv, PromisesKept, RowStands, Exists

LEMMA SaveItemKeeps ==
  ASSUME KeyInv, NEW r \in Regions, NEW status \in {"graded", "failed"}, SaveItem(r, status)
  PROVE  KeyInv'
<1> DEFINE g == run.item[r]
           new == Saved(r, status)
<1>0. run \in Run
  BY DEF KeyInv, KeyTypeOK
<1>1. /\ run.status = "running" /\ run.work[r] # NoBody
      /\ run' = [run EXCEPT !.work = [run.work EXCEPT ![r] = NoBody], !.item = [run.item EXCEPT ![r] = new]]
      /\ UNCHANGED <<regions, at, known, recognised, prep, answer, manual, revs, request, moved>>
  BY DEF SaveItem
<1>2. /\ g \in Grading /\ run.work[r] \in Bodies \cup {NoBody}
      /\ g.status = "none" => g = NoGrading
  BY ItemSays
<1>3. /\ new \in Grading /\ new.key = g.key /\ new.rev = g.rev
      /\ g.status = "none" => new = g
      /\ g.status # "none" => /\ new.status = status
                              /\ status = "graded" => new.body = run.work[r]
  BY <1>2 DEF Saved, Grading
<1> HIDE DEF new
<1>4. /\ run' \in Run /\ run'.status = "running" /\ run'.lock = run.lock /\ run'.promised = run.promised
      /\ run'.item[r] = new /\ run'.work[r] = NoBody
      /\ \A s \in Regions : s # r => run'.item[s] = run.item[s] /\ run'.work[s] = run.work[s]
  BY <1>0, <1>1, <1>3 DEF Run
<1>5. PromisesKept'
  BY <1>1, <1>4, LockRests
<1>6. ItemsRevised'
  BY <1>1, <1>3, <1>4 DEF KeyInv, ItemsRevised, RowStands, Exists
<1>7. ItemsLocked'
  <2> SUFFICES ASSUME NEW s \in Regions
               PROVE  LET h == run'.item[s] IN
                      IF h.status = "none" THEN h = NoGrading
                      ELSE /\ h.key \in known
                           /\ run.lock[h.key] # NoId =>
                                /\ h.rev = run.lock[h.key] \/ (h.rev = NoId /\ ~RowStands(h.key, run.lock[h.key]))
                                /\ run'.work[s] \in {NoBody, run.promised[h.key]}
    BY <1>1, <1>4 DEF ItemsLocked, RowStands, Exists
  <2>1. LET h == run.item[s] IN
          IF h.status = "none" THEN h = NoGrading
          ELSE /\ h.key \in known
               /\ run.lock[h.key] # NoId =>
                    /\ h.rev = run.lock[h.key] \/ (h.rev = NoId /\ ~RowStands(h.key, run.lock[h.key]))
                    /\ run.work[s] \in {NoBody, run.promised[h.key]}
    BY DEF KeyInv, ItemsLocked
  <2>2. CASE s = r
    <3>1. CASE g.status = "none"
      BY <1>3, <1>4, <2>1, <2>2, <3>1
    <3>2. CASE g.status # "none"
      <4>1. new.status # "none"
        BY <1>3, <3>2
      <4> QED BY <1>3, <1>4, <2>1, <2>2, <3>2, <4>1
    <3> QED BY <3>1, <3>2
  <2>3. CASE s # r
    BY <1>4, <2>1, <2>3
  <2> QED BY <2>2, <2>3
<1>8. GradedByLock'
  <2> SUFFICES ASSUME NEW s \in Regions, run'.item[s].status = "graded", run.lock[run'.item[s].key] # NoId
               PROVE  run'.item[s].body = run.promised[run'.item[s].key]
    BY <1>4 DEF GradedByLock
  <2>1. CASE s = r
    <3>1. g.status # "none" /\ status = "graded" /\ new.body = run.work[r] /\ new.key = g.key
      <4>1. NoGrading.status # "graded"
        BY DEF NoGrading
      <4> QED BY <1>2, <1>3, <1>4, <2>1, <4>1
    <3>2. run.work[r] \in {NoBody, run.promised[g.key]}
      BY <1>4, <2>1, <3>1 DEF KeyInv, ItemsLocked
    <3> QED BY <1>1, <1>4, <2>1, <3>1, <3>2
  <2>2. CASE s # r
    BY <1>4, <2>2 DEF KeyInv, GradedByLock
  <2> QED BY <2>1, <2>2
<1>9. ItemsInPlace'
  <2> SUFFICES ASSUME ~moved
               PROVE  /\ \A s \in Regions : run'.item[s].status # "none" => Primary(at[run'.item[s].key]) = s
                      /\ \A k \in Keys : run.lock[k] # NoId => \E s \in Regions : run'.item[s].key = k
                      /\ \A s \in Regions : run'.item[s].status = "queued" /\ run.lock[run'.item[s].key] # NoId =>
                           run'.work[s] # NoBody
    BY <1>1, <1>4 DEF ItemsInPlace, Primary
  <2>1. /\ \A s \in Regions : run.item[s].status # "none" => Primary(at[run.item[s].key]) = s
        /\ \A k \in Keys : run.lock[k] # NoId => \E s \in Regions : run.item[s].key = k
        /\ \A s \in Regions : run.item[s].status = "queued" /\ run.lock[run.item[s].key] # NoId =>
             run.work[s] # NoBody
    BY <1>1 DEF KeyInv, ItemsInPlace
  <2>2. new.status # "queued" /\ (new.status # "none" => g.status # "none")
    <3>1. NoGrading.status = "none"
      BY DEF NoGrading
    <3> QED BY <1>2, <1>3, <3>1
  <2> QED BY <1>3, <1>4, <2>1, <2>2
<1> QED BY <1>1, <1>4, <1>5, <1>6, <1>7, <1>8, <1>9, RunSteps

\* Steps that settle the run or queue it again keep what its items say.
LEMMA RunSettles ==
  ASSUME KeyInv, UNCHANGED <<regions, at, known, recognised, prep, answer, manual, revs, request, moved>>,
         run' \in Run, run'.lock = run.lock, run'.promised = run.promised,
         run.status # "none", run'.status \in {"queued", "failed"},
         \A r \in Regions :
           /\ run'.work[r] = NoBody
           /\ \/ run'.item[r] = run.item[r]
              \/ run.item[r].status = "failed" /\ run'.item[r] = [run.item[r] EXCEPT !.status = "queued"]
  PROVE  KeyInv'
<1>1. \A r \in Regions :
        /\ run'.item[r].key = run.item[r].key /\ run'.item[r].rev = run.item[r].rev
        /\ run'.item[r].status = "none" <=> run.item[r].status = "none"
        /\ run.item[r].status = "none" => run'.item[r] = run.item[r]
        /\ run'.item[r].status = "graded" => run'.item[r] = run.item[r]
  <2> SUFFICES ASSUME NEW r \in Regions
               PROVE  /\ run'.item[r].key = run.item[r].key /\ run'.item[r].rev = run.item[r].rev
                      /\ run'.item[r].status = "none" <=> run.item[r].status = "none"
                      /\ run.item[r].status = "none" => run'.item[r] = run.item[r]
                      /\ run'.item[r].status = "graded" => run'.item[r] = run.item[r]
    OBVIOUS
  <2>1. run.item[r] \in Grading
    BY ItemSays
  <2>2. CASE run'.item[r] = run.item[r]
    BY <2>2
  <2>3. CASE run.item[r].status = "failed" /\ run'.item[r] = [run.item[r] EXCEPT !.status = "queued"]
    BY <2>1, <2>3 DEF Grading
  <2> QED BY <2>2, <2>3
<1>2. PromisesKept'
  BY LockRests
<1>3. ItemsRevised'
  BY <1>1 DEF KeyInv, ItemsRevised, RowStands, Exists
<1>4. ItemsLocked'
  <2> SUFFICES ASSUME NEW s \in Regions
               PROVE  LET h == run'.item[s] IN
                      IF h.status = "none" THEN h = NoGrading
                      ELSE /\ h.key \in known
                           /\ run.lock[h.key] # NoId =>
                                h.rev = run.lock[h.key] \/ (h.rev = NoId /\ ~RowStands(h.key, run.lock[h.key]))
    BY DEF ItemsLocked, RowStands, Exists
  <2> QED BY <1>1 DEF KeyInv, ItemsLocked
<1>5. GradedByLock'
  BY <1>1 DEF KeyInv, GradedByLock
<1>6. ItemsInPlace'
  <2> SUFFICES ASSUME ~moved, NEW s \in Regions, run'.item[s].status # "none"
               PROVE  Primary(at[run'.item[s].key]) = s
    BY DEF ItemsInPlace, Primary
  <2> QED BY <1>1 DEF KeyInv, ItemsInPlace
<1> QED BY <1>2, <1>3, <1>4, <1>5, <1>6, RunSteps

LEMMA FailRunKeeps == ASSUME KeyInv, FailRun PROVE KeyInv'
<1>0. run \in Run
  BY DEF KeyInv, KeyTypeOK
<1>1. /\ run' \in Run /\ run'.lock = run.lock /\ run'.promised = run.promised
      /\ run.status # "none" /\ run'.status = "failed" /\ run'.item = run.item
      /\ \A r \in Regions : run'.work[r] = NoBody
  BY <1>0 DEF FailRun, Run
<1>2. UNCHANGED <<regions, at, known, recognised, prep, answer, manual, revs, request, moved>>
  BY DEF FailRun
<1> QED BY <1>1, <1>2, RunSettles

LEMMA RetryRunKeeps == ASSUME KeyInv, RetryRun PROVE KeyInv'
<1>0. run \in Run
  BY DEF KeyInv, KeyTypeOK
<1> DEFINE item == [r \in Regions |->
              IF run.item[r].status = "failed" THEN [run.item[r] EXCEPT !.status = "queued"] ELSE run.item[r]]
<1>1. /\ run.status \in {"errors", "failed"} /\ run' = [run EXCEPT !.status = "queued", !.item = item]
      /\ UNCHANGED <<regions, at, known, recognised, prep, answer, manual, revs, request, moved>>
  BY DEF RetryRun
<1>2. item \in [Regions -> Grading]
  <2>1. \A r \in Regions : run.item[r] \in Grading
    BY ItemSays
  <2> QED BY <2>1 DEF Grading
<1>3. \A r \in Regions : item[r] = IF run.item[r].status = "failed" THEN [run.item[r] EXCEPT !.status = "queued"]
                                   ELSE run.item[r]
  OBVIOUS
<1> HIDE DEF item
<1>4. /\ run' \in Run /\ run'.lock = run.lock /\ run'.promised = run.promised
      /\ run'.status = "queued" /\ run'.item = item /\ run'.work = run.work
  BY <1>0, <1>1, <1>2 DEF Run
<1>5. \A r \in Regions : run.work[r] = NoBody
  BY <1>1 DEF KeyInv, ItemsLocked
<1>6. \A r \in Regions :
        /\ run'.work[r] = NoBody
        /\ \/ run'.item[r] = run.item[r]
           \/ run.item[r].status = "failed" /\ run'.item[r] = [run.item[r] EXCEPT !.status = "queued"]
  BY <1>3, <1>4, <1>5
<1> QED BY <1>1, <1>4, <1>6, RunSettles

LEMMA EndRunKeeps == ASSUME KeyInv, EndRun PROVE KeyInv'
<1>0. run \in Run
  BY DEF KeyInv, KeyTypeOK
<1>1. /\ run' \in Run /\ run'.lock = run.lock /\ run'.promised = run.promised
      /\ run.status = "running" /\ run'.item = run.item /\ run'.work = run.work
      /\ run'.status = IF \E r \in Regions : run.item[r].status = "failed" THEN "errors" ELSE "done"
  BY <1>0 DEF EndRun, Run
<1>2. /\ \A r \in Regions : run.work[r] = NoBody
      /\ UNCHANGED <<regions, at, known, recognised, prep, answer, manual, revs, request, moved>>
  BY DEF EndRun
<1>3. PromisesKept' /\ ItemsRevised'
  BY <1>1, <1>2, LockRests DEF KeyInv, ItemsRevised, RowStands, Exists
<1>4. ItemsLocked' /\ GradedByLock'
  BY <1>1, <1>2 DEF KeyInv, ItemsLocked, GradedByLock, RowStands, Exists
<1>5. ItemsInPlace'
  <2> SUFFICES ASSUME ~moved
               PROVE  /\ \A s \in Regions : run.item[s].status # "none" => Primary(at[run.item[s].key]) = s
                      /\ \A k \in Keys : run.lock[k] # NoId => \E s \in Regions : run.item[s].key = k
                      /\ run'.status = "done" => \A s \in Regions :
                           run.item[s].status # "none" /\ run.lock[run.item[s].key] # NoId =>
                             run.item[s].status = "graded"
    BY <1>1, <1>2 DEF ItemsInPlace, Primary
  <2>1. \A s \in Regions : run.item[s].status \in {"none", "queued", "graded", "failed"}
    BY ItemSays DEF Grading
  <2>2. run'.status = "done" => \A s \in Regions : run.item[s].status # "failed"
    BY <1>1
  <2>3. \A s \in Regions : run.item[s].status = "queued" => run.lock[run.item[s].key] = NoId
    BY <1>1, <1>2 DEF KeyInv, ItemsInPlace
  <2>4. /\ \A s \in Regions : run.item[s].status # "none" => Primary(at[run.item[s].key]) = s
        /\ \A k \in Keys : run.lock[k] # NoId => \E s \in Regions : run.item[s].key = k
    BY <1>1 DEF KeyInv, ItemsInPlace
  <2> QED BY <2>1, <2>2, <2>3, <2>4
<1> QED BY <1>1, <1>2, <1>3, <1>4, <1>5, RunSteps

\* What a question's revision is while a run can load its items.
LEMMA LockedIs ==
  ASSUME KeyInv, Loadable, NEW k \in known
  PROVE  /\ k \in Keys /\ at[k] # <<>>
         /\ LockedRevision(k) \in Id /\ LockedRevision(k) # NoId
         /\ run.lock[k] # NoId => LockedRevision(k) = run.lock[k]
         /\ LockedRevision(k).key = k /\ RowStands(k, LockedRevision(k))
         /\ answer[k].current # 0 /\ LockedRevision(k).number \in DOMAIN revs[k]
<1>0. /\ known \subseteq Keys /\ run \in Run /\ answer \in [Keys -> Answer] /\ k \in Keys
  BY DEF KeyInv, KeyTypeOK
<1>1. at[k] # <<>> /\ InForce(k, LockedRevision(k))
  BY DEF Loadable
<1>2. /\ LockedRevision(k).key = k /\ RowStands(k, LockedRevision(k))
      /\ LockedRevision(k).number \in DOMAIN revs[k]
  BY <1>1 DEF InForce, RowStands
<1>3. LockedRevision(k) # NoId
  BY <1>0, <1>2, KeyBlanks DEF NoId
<1>4. CASE run.lock[k] # NoId
  <2>1. LockedRevision(k) = run.lock[k]
    BY <1>4 DEF LockedRevision
  <2>2. answer[k].current # 0
    BY <1>0, <1>2, <1>4, <2>1 DEF KeyInv, PromisesKept
  <2> QED BY <1>0, <1>1, <1>2, <1>3, <2>1, <2>2 DEF Run
<1>5. CASE run.lock[k] = NoId
  <2>1. LockedRevision(k) = Current(k)
    BY <1>5 DEF LockedRevision
  <2>2. answer[k].current # 0
    BY <1>3, <2>1 DEF Current, IdOf
  <2>3. Current(k) \in Id
    <3>1. Current(k) = [key |-> k, row |-> answer[k].row, number |-> answer[k].current]
      BY <2>2 DEF Current, IdOf
    <3>2. answer[k] \in Answer
      BY <1>0
    <3> QED BY <1>0, <3>1, <3>2 DEF Id, Answer
  <2> QED BY <1>0, <1>1, <1>2, <1>3, <1>5, <2>1, <2>2, <2>3
<1> QED BY <1>4, <1>5

\* The item made for a target.
LEMMA NewItemIs ==
  ASSUME KeyInv, Loadable, NEW r \in Targets
  PROVE  /\ r \in Regions /\ KeyAt(r) \in known /\ KeyAt(r) \in Keys /\ Primary(at[KeyAt(r)]) = r
         /\ NewItem(r) \in Grading /\ NewItem(r).key = KeyAt(r) /\ NewItem(r).rev = LockedRevision(KeyAt(r))
         /\ NewItem(r).status = "queued" /\ NewItem(r).body = NoBody
<1>1. KeyTypeOK /\ \A k \in known : at[k] # <<>>
  BY DEF KeyInv, Loadable
<1>2. r \in Regions /\ KeyAt(r) \in known /\ KeyAt(r) \in Keys /\ Primary(at[KeyAt(r)]) = r
  BY <1>1, KeyAtIs
<1>3. LockedRevision(KeyAt(r)) \in Id
  BY <1>2, LockedIs
<1> QED BY <1>2, <1>3 DEF NewItem, Grading

\* Loading changes only items of targets, which are then of the locked revisions.
LEMMA Loads ==
  ASSUME KeyInv, Loadable,
         UNCHANGED <<regions, at, known, recognised, prep, answer, manual, revs, request, moved>>,
         run'.lock = run.lock, run'.promised = run.promised, run.status # "none", run'.status # "none",
         \A r \in Regions :
           \/ run'.item[r] = run.item[r]
           \/ r \in Targets /\ run.item[r].status = "none" /\ run'.item[r] = NewItem(r)
           \/ /\ r \in Targets /\ run.item[r].status \in {"queued", "failed"} /\ run.item[r].rev = NoId
              /\ run'.item[r] = [run.item[r] EXCEPT !.rev = LockedRevision(KeyAt(r))]
  PROVE  /\ \A r \in Regions :
              /\ run'.item[r] \in Grading
              /\ run'.item[r].status = "none" => run'.item[r] = NoGrading
              /\ run'.item[r].status # "none" => run'.item[r].key \in known
              /\ run'.item[r].status = "graded" => run'.item[r] = run.item[r]
              /\ run.item[r].status # "none" =>
                   run'.item[r].key = run.item[r].key /\ run'.item[r].status = run.item[r].status
              /\ run'.item[r].status # "none" /\ run.lock[run'.item[r].key] # NoId =>
                   run'.item[r].rev = run.lock[run'.item[r].key]
              /\ ~moved /\ run'.item[r].status # "none" => Primary(at[run'.item[r].key]) = r
         /\ PromisesKept' /\ ItemsRevised' /\ GradedByLock'
<1>1. ASSUME NEW r \in Regions
      PROVE  /\ run'.item[r] \in Grading
             /\ run'.item[r].status = "none" => run'.item[r] = NoGrading
             /\ run'.item[r].status # "none" => run'.item[r].key \in known
             /\ run'.item[r].status = "graded" => run'.item[r] = run.item[r]
             /\ run.item[r].status # "none" =>
                  run'.item[r].key = run.item[r].key /\ run'.item[r].status = run.item[r].status
             /\ run'.item[r].status # "none" /\ run.lock[run'.item[r].key] # NoId =>
                  run'.item[r].rev = run.lock[run'.item[r].key]
             /\ ~moved /\ run'.item[r].status # "none" => Primary(at[run'.item[r].key]) = r
             /\ run'.item[r].rev \in {run.item[r].rev} \cup {LockedRevision(k) : k \in known}
  <2>1. /\ run.item[r] \in Grading
        /\ run.item[r].status = "none" => run.item[r] = NoGrading
        /\ run.item[r].status # "none" => run.item[r].key \in known /\ run.item[r].key \in Keys
    BY ItemSays
  <2>2. run.item[r].status # "none" /\ run.lock[run.item[r].key] # NoId => run.item[r].rev = run.lock[run.item[r].key]
    <3> SUFFICES ASSUME run.item[r].status # "none", run.lock[run.item[r].key] # NoId
                 PROVE  run.item[r].rev = run.lock[run.item[r].key]
      OBVIOUS
    <3>1. LockedRevision(run.item[r].key) = run.lock[run.item[r].key]
          /\ RowStands(run.item[r].key, LockedRevision(run.item[r].key))
      BY <2>1, LockedIs
    <3> QED BY <3>1 DEF KeyInv, ItemsLocked
  <2>3. ~moved /\ run.item[r].status # "none" => Primary(at[run.item[r].key]) = r
    BY DEF KeyInv, ItemsInPlace
  <2>4. CASE run'.item[r] = run.item[r]
    BY <2>1, <2>2, <2>3, <2>4
  <2>5. CASE r \in Targets /\ run.item[r].status = "none" /\ run'.item[r] = NewItem(r)
    <3>1. /\ KeyAt(r) \in known /\ KeyAt(r) \in Keys /\ Primary(at[KeyAt(r)]) = r
          /\ NewItem(r) \in Grading /\ NewItem(r).key = KeyAt(r) /\ NewItem(r).rev = LockedRevision(KeyAt(r))
          /\ NewItem(r).status = "queued"
      BY <2>5, NewItemIs
    <3>2. run.lock[KeyAt(r)] # NoId => LockedRevision(KeyAt(r)) = run.lock[KeyAt(r)]
      BY <3>1, LockedIs
    <3> QED BY <2>5, <3>1, <3>2
  <2>6. CASE /\ r \in Targets /\ run.item[r].status \in {"queued", "failed"} /\ run.item[r].rev = NoId
             /\ run'.item[r] = [run.item[r] EXCEPT !.rev = LockedRevision(KeyAt(r))]
    <3>1. KeyAt(r) \in known /\ KeyAt(r) \in Keys
      BY <2>6, NewItemIs
    <3>2. LockedRevision(KeyAt(r)) \in Id
      BY <3>1, LockedIs
    <3>3. /\ run'.item[r] \in Grading /\ run'.item[r].key = run.item[r].key
          /\ run'.item[r].status = run.item[r].status /\ run'.item[r].rev = LockedRevision(KeyAt(r))
      BY <2>1, <2>6, <3>2 DEF Grading
    <3>4. run.lock[run.item[r].key] = NoId
      <4>1. SUFFICES ASSUME run.lock[run.item[r].key] # NoId PROVE FALSE
        OBVIOUS
      <4> QED BY <2>2, <2>6, <4>1
    <3> QED BY <2>1, <2>3, <2>6, <3>1, <3>3, <3>4
  <2> QED BY <2>4, <2>5, <2>6
<1>2. PromisesKept'
  BY LockRests
<1>3. ItemsRevised'
  <2> SUFFICES ASSUME NEW r \in Regions, run'.item[r].rev # NoId
               PROVE  LET id == run'.item[r].rev IN
                        /\ id.key \in Keys /\ RowStands(id.key, id)
                        /\ answer[id.key].current # 0 /\ id.number \in DOMAIN revs[id.key]
    BY DEF ItemsRevised, RowStands, Exists
  <2>1. CASE run'.item[r].rev = run.item[r].rev
    BY <2>1 DEF KeyInv, ItemsRevised
  <2>2. CASE \E k \in known : run'.item[r].rev = LockedRevision(k)
    BY <2>2, LockedIs
  <2> QED BY <1>1, <2>1, <2>2
<1>4. GradedByLock'
  <2> SUFFICES ASSUME NEW s \in Regions, run'.item[s].status = "graded", run.lock[run'.item[s].key] # NoId
               PROVE  run'.item[s].body = run.promised[run'.item[s].key]
    BY DEF GradedByLock
  <2> QED BY <1>1 DEF KeyInv, GradedByLock
<1> QED BY <1>1, <1>2, <1>3, <1>4

LEMMA BreakLoadKeeps == ASSUME KeyInv, BreakLoad PROVE KeyInv'
<1> DEFINE item == [r \in Regions |-> IF r \in Targets /\ run.item[r].status = "none" THEN NewItem(r) ELSE run.item[r]]
<1>0. run \in Run
  BY DEF KeyInv, KeyTypeOK
<1>1. /\ run.status = "queued" /\ Loadable /\ run' = [run EXCEPT !.status = "failed", !.item = item]
      /\ UNCHANGED <<regions, at, known, recognised, prep, answer, manual, revs, request, moved>>
  BY DEF BreakLoad
<1>2. /\ run'.lock = run.lock /\ run'.promised = run.promised /\ run'.status = "failed"
      /\ run'.work = run.work /\ run'.item = item
  BY <1>0, <1>1 DEF Run
<1>3. \A r \in Regions : \/ run'.item[r] = run.item[r]
                         \/ r \in Targets /\ run.item[r].status = "none" /\ run'.item[r] = NewItem(r)
  BY <1>2
<1>4. /\ \A r \in Regions :
           /\ run'.item[r] \in Grading
           /\ run'.item[r].status = "none" => run'.item[r] = NoGrading
           /\ run'.item[r].status # "none" => run'.item[r].key \in known
           /\ run'.item[r].status # "none" /\ run.lock[run'.item[r].key] # NoId =>
                run'.item[r].rev = run.lock[run'.item[r].key]
           /\ ~moved /\ run'.item[r].status # "none" => Primary(at[run'.item[r].key]) = r
      /\ PromisesKept' /\ ItemsRevised' /\ GradedByLock'
  BY <1>1, <1>2, <1>3, Loads
<1>5. \A r \in Regions : run.work[r] = NoBody
  BY <1>1 DEF KeyInv, ItemsLocked
<1>6. run' \in Run
  <2>1. item \in [Regions -> Grading]
    BY <1>2, <1>4
  <2> HIDE DEF item
  <2> QED BY <1>0, <1>1, <2>1 DEF Run
<1>7. ItemsLocked'
  BY <1>1, <1>2, <1>4, <1>5 DEF ItemsLocked
<1>8. ItemsInPlace'
  BY <1>1, <1>2, <1>4 DEF ItemsInPlace, Primary
<1> QED BY <1>1, <1>4, <1>6, <1>7, <1>8, RunSteps

\* An execution carries, for every item that waits, what its locked revision says.
LEMMA LoadRunKeeps == ASSUME KeyInv, LoadRun PROVE KeyInv'
<1> DEFINE item == [r \in Regions |-> IF r \in Targets THEN LoadedItem(r) ELSE run.item[r]]
           work == [r \in Regions |-> IF r \in Pending(item) THEN Carried(r, item[r]) ELSE NoBody]
<1>0. run \in Run /\ revs \in [Keys -> Seq(Rev)] /\ known \subseteq Keys
  BY DEF KeyInv, KeyTypeOK
<1>1. /\ run.status = "queued" /\ Loadable /\ Pending(run.item) \subseteq Targets
      /\ run' = [run EXCEPT !.item = item, !.work = work,
           !.status = IF \E r \in Regions : work[r] # NoBody THEN "running" ELSE "failed"]
      /\ UNCHANGED <<regions, at, known, recognised, prep, answer, manual, revs, request, moved>>
  BY DEF LoadRun
<1>2. /\ run'.lock = run.lock /\ run'.promised = run.promised /\ run'.item = item /\ run'.work = work
      /\ run'.status = IF \E r \in Regions : work[r] # NoBody THEN "running" ELSE "failed"
  <2> HIDE DEF item, work
  <2> QED BY <1>0, <1>1 DEF Run
<1>3. \A r \in Regions :
        /\ item[r] = IF r \in Targets THEN LoadedItem(r) ELSE run.item[r]
        /\ work[r] = IF r \in Pending(item) THEN Carried(r, item[r]) ELSE NoBody
        /\ r \in Pending(item) <=> item[r].status \in {"queued", "failed"}
  BY DEF Pending
<1> HIDE DEF item, work
<1>4. \A r \in Regions :
        \/ item[r] = run.item[r]
        \/ r \in Targets /\ run.item[r].status = "none" /\ item[r] = NewItem(r)
        \/ /\ r \in Targets /\ run.item[r].status \in {"queued", "failed"} /\ run.item[r].rev = NoId
           /\ item[r] = [run.item[r] EXCEPT !.rev = LockedRevision(KeyAt(r))]
  BY <1>3 DEF LoadedItem
<1>5. /\ \A r \in Regions :
           /\ item[r] \in Grading
           /\ item[r].status = "none" => item[r] = NoGrading
           /\ item[r].status # "none" => item[r].key \in known
           /\ run.item[r].status # "none" => item[r].key = run.item[r].key /\ item[r].status = run.item[r].status
           /\ item[r].status # "none" /\ run.lock[item[r].key] # NoId => item[r].rev = run.lock[item[r].key]
           /\ ~moved /\ item[r].status # "none" => Primary(at[item[r].key]) = r
      /\ PromisesKept' /\ ItemsRevised' /\ GradedByLock'
  <2>1. run.status # "none" /\ run'.status # "none"
    BY <1>1, <1>2
  <2>2. \A r \in Regions :
          \/ run'.item[r] = run.item[r]
          \/ r \in Targets /\ run.item[r].status = "none" /\ run'.item[r] = NewItem(r)
          \/ /\ r \in Targets /\ run.item[r].status \in {"queued", "failed"} /\ run.item[r].rev = NoId
             /\ run'.item[r] = [run.item[r] EXCEPT !.rev = LockedRevision(KeyAt(r))]
    BY <1>2, <1>4
  <2> QED BY <1>1, <1>2, <2>1, <2>2, Loads
<1>6. ASSUME NEW r \in Regions, r \in Pending(item)
      PROVE  item[r].rev # NoId
  <2>1. r \in Targets
    <3>1. CASE r \notin Targets
      <4>1. item[r] = run.item[r]
        BY <1>3, <3>1
      <4>2. r \in Pending(run.item)
        BY <1>3, <1>6, <4>1 DEF Pending
      <4> QED BY <1>1, <3>1, <4>2
    <3> QED BY <3>1
  <2>2. KeyAt(r) \in known /\ NewItem(r).rev = LockedRevision(KeyAt(r))
    BY <1>1, <2>1, NewItemIs
  <2>3. LockedRevision(KeyAt(r)) # NoId /\ LockedRevision(KeyAt(r)) \in Id
    BY <1>1, <2>2, LockedIs
  <2>4. run.item[r] \in Grading
    BY ItemSays
  <2>5. item[r] = LoadedItem(r) /\ item[r].status \in {"queued", "failed"}
    BY <1>3, <1>6, <2>1
  <2>6. CASE run.item[r].status = "none"
    BY <2>2, <2>3, <2>5, <2>6 DEF LoadedItem
  <2>7. CASE run.item[r].status \in {"queued", "failed"} /\ run.item[r].rev = NoId
    <3>1. item[r] = [run.item[r] EXCEPT !.rev = LockedRevision(KeyAt(r))]
      BY <2>5, <2>7 DEF LoadedItem
    <3> QED BY <2>3, <2>4, <3>1 DEF Grading
  <2>8. CASE run.item[r].status # "none" /\ ~(run.item[r].status \in {"queued", "failed"} /\ run.item[r].rev = NoId)
    <3>1. item[r] = run.item[r]
      BY <2>5, <2>8 DEF LoadedItem
    <3> QED BY <2>5, <2>8, <3>1
  <2> QED BY <2>6, <2>7, <2>8
<1>7. ASSUME NEW r \in Regions
      PROVE  /\ work[r] \in Bodies \cup {NoBody}
             /\ item[r].status # "none" /\ run.lock[item[r].key] # NoId =>
                  /\ work[r] \in {NoBody, run.promised[item[r].key]}
                  /\ item[r].status = "queued" => work[r] # NoBody
  <2>1. CASE r \notin Pending(item)
    BY <1>3, <2>1
  <2>2. CASE r \in Pending(item)
    <3> DEFINE id == item[r].rev
    <3>1. work[r] = Carried(r, item[r])
      BY <1>3, <2>2
    <3>2. id.key \in Keys /\ id.number \in DOMAIN revs[id.key]
      <4>1. id # NoId
        BY <1>6, <2>2
      <4>2. ItemsRevised' /\ run'.item[r].rev = id /\ UNCHANGED <<answer, revs>>
        BY <1>1, <1>2, <1>5
      <4> HIDE DEF id
      <4> QED BY <4>1, <4>2 DEF ItemsRevised
    <3>3. revs[id.key][id.number].body \in Bodies
      <4>1. revs[id.key] \in Seq(Rev)
        BY <1>0, <3>2
      <4>2. revs[id.key][id.number] \in Rev
        BY <3>2, <4>1
      <4> QED BY <4>2 DEF Rev
    <3>4. work[r] \in {revs[id.key][id.number].body, NoBody}
      BY <3>1 DEF Carried
    <3>5. ASSUME run.lock[item[r].key] # NoId, item[r].status # "none"
          PROVE  work[r] = run.promised[item[r].key] /\ work[r] # NoBody
      <4> DEFINE k == item[r].key
      <4>1. k \in known /\ k \in Keys /\ id = run.lock[k]
        BY <1>0, <1>5, <3>5
      <4>2. LockedRevision(k) = run.lock[k] /\ RowStands(k, run.lock[k])
        BY <1>1, <3>5, <4>1, LockedIs
      <4>3. work[r] = revs[id.key][id.number].body
        BY <3>1, <4>1, <4>2 DEF Carried, RowStands
      <4>4. id.key = k /\ revs[k][id.number].body = run.promised[k]
        BY <3>5, <4>1, <4>2 DEF KeyInv, PromisesKept
      <4> HIDE DEF id, k
      <4>5. work[r] = run.promised[k] /\ work[r] # NoBody
        BY <3>3, <4>3, <4>4, KeyBlanks
      <4> QED BY <4>5 DEF k
    <3> QED BY <3>3, <3>4, <3>5
  <2> QED BY <2>1, <2>2
<1>8. run' \in Run
  <2>1. item = [r \in Regions |-> item[r]] /\ work = [r \in Regions |-> work[r]]
    BY DEF item, work
  <2>2. item \in [Regions -> Grading] /\ work \in [Regions -> Bodies \cup {NoBody}]
    BY <1>5, <1>7, <2>1
  <2> QED BY <1>0, <1>1, <2>2 DEF Run
<1>9. ItemsLocked'
  <2>1. run'.status # "none" /\ (run'.status # "running" => \A r \in Regions : run'.work[r] = NoBody)
    BY <1>2
  <2> QED BY <1>1, <1>2, <1>5, <1>7, <2>1 DEF ItemsLocked
<1>10. ItemsInPlace'
  <2> SUFFICES ASSUME ~moved PROVE ItemsInPlace'
    BY <1>1 DEF ItemsInPlace
  <2>1. run'.status \in {"running", "failed"}
    BY <1>2
  <2>2. ASSUME NEW k \in Keys, run.lock[k] # NoId PROVE \E r \in Regions : item[r].key = k
    <3> DEFINE r == at[k][1]
    <3>1. k \in known
      BY <2>2 DEF KeyInv, PromisesKept
    <3>2. at[k] # <<>> /\ KeyTypeOK
      BY <1>1, <3>1, LockedIs DEF KeyInv
    <3>3. r \in Regions /\ r \in Targets /\ Primary(at[k]) = r
      BY <3>1, <3>2, FirstOf DEF Targets
    <3>4. CASE run.item[r].status = "none"
      <4>1. item[r] = NewItem(r)
        BY <1>3, <3>3, <3>4 DEF LoadedItem
      <4>2. KeyAt(r) \in Keys /\ Primary(at[KeyAt(r)]) = r /\ NewItem(r).key = KeyAt(r)
        BY <1>1, <3>3, NewItemIs
      <4>3. KeyAt(r) = k
        BY <3>2, <4>2, PrimaryApart
      <4> QED BY <3>3, <4>1, <4>2, <4>3
    <3>5. CASE run.item[r].status # "none"
      <4>1. run.item[r].key \in Keys /\ item[r].key = run.item[r].key
        BY <1>5, <3>3, <3>5, ItemSays
      <4>2. Primary(at[run.item[r].key]) = r
        BY <3>3, <3>5 DEF KeyInv, ItemsInPlace
      <4>3. run.item[r].key = k
        BY <3>2, <4>1, <4>2, PrimaryApart
      <4> QED BY <3>3, <4>1, <4>3
    <3> QED BY <3>4, <3>5
  <2>3. /\ \A r \in Regions : item[r].status # "none" => Primary(at[item[r].key]) = r
        /\ \A r \in Regions : item[r].status = "queued" /\ run.lock[item[r].key] # NoId => work[r] # NoBody
    BY <1>5, <1>7
  <2> QED BY <1>1, <1>2, <2>1, <2>2, <2>3 DEF ItemsInPlace, Primary
<1> QED BY <1>1, <1>5, <1>8, <1>9, <1>10, RunSteps

LEMMA KeySteps == ASSUME KeyInv, [KeyNext]_keyVars PROVE KeyInv'
<1>1. ASSUME NEW ks \in SUBSET Keys, NEW place \in [ks -> Places], ConfirmSheet(ks, place) PROVE KeyInv'
  BY <1>1, ConfirmSheetKeeps
<1>2. ASSUME NEW r \in Regions, CreateRegion(r) \/ DeleteRegion(r) \/ CreateManual(r) \/ DeleteManual(r)
      PROVE  KeyInv'
  BY <1>2, CreateRegionKeeps, DeleteRegionKeeps, CreateManualKeeps, DeleteManualKeeps
<1>3. ASSUME NEW r \in Regions, NEW status \in {"graded", "failed"}, SaveItem(r, status) PROVE KeyInv'
  BY <1>3, SaveItemKeeps
<1>4. ASSUME NEW t \in Teachers, NEW k \in Keys, BeginDelete(t, k) PROVE KeyInv'
  BY <1>4, BeginDeleteKeeps
<1>5. ASSUME NEW p \in Preps, CreatePrep(p) \/ BeginPrep(p) \/ FailPrep(p) PROVE KeyInv'
  BY <1>5, CreatePrepKeeps, BeginPrepKeeps, FailPrepKeeps
<1>6. ASSUME NEW p \in Preps, NEW f \in Proposals(p), FinishPrep(p, f) PROVE KeyInv'
  BY <1>6, FinishPrepKeeps
<1>7. ASSUME NEW t \in Teachers, NEW p \in Preps, NEW s \in Slots, NEW to \in Keys \cup {NoKey},
             BeginEdit(t, p, s, to)
      PROVE  KeyInv'
  BY <1>7, BeginEditKeeps
<1>8. ASSUME NEW t \in Teachers, NEW p \in Preps, BeginConfirm(t, p) PROVE KeyInv'
  BY <1>8, BeginConfirmKeeps
<1>9. ASSUME NEW t \in Teachers, NEW pick \in [Keys -> 0 .. MaxRevs], BeginPublish(t, pick) PROVE KeyInv'
  BY <1>9, BeginPublishKeeps
<1>10. ASSUME NEW t \in Teachers, CommitConfirm(t) \/ CommitPublish(t) \/ CommitDelete(t) \/ Abort(t)
       PROVE  KeyInv'
  BY <1>10, CommitConfirmKeeps, CommitPublishKeeps, CommitDeleteKeeps, AbortKeeps
<1>11. CASE CreateRun \/ LoadRun \/ BreakLoad
  BY <1>11, CreateRunKeeps, LoadRunKeeps, BreakLoadKeeps
<1>12. CASE EndRun \/ FailRun \/ RetryRun
  BY <1>12, EndRunKeeps, FailRunKeeps, RetryRunKeeps
<1>13. ASSUME NEW t \in Teachers, NEW s \in Slots, NEW body \in Bodies \cup {NoBody}, NEW stays \in BOOLEAN,
              CommitEdit(t, s, body, stays)
       PROVE  KeyInv'
  BY <1>13, CommitEditKeeps
<1>14. CASE UNCHANGED keyVars
  <2>1. UNCHANGED <<regions, at, known, recognised, prep, answer, manual, revs, request, moved>> /\ run' = run
    BY <1>14 DEF keyVars
  <2>2. run' \in Run
    BY <2>1 DEF KeyInv, KeyTypeOK
  <2>3. PromisesKept' /\ ItemsRevised' /\ ItemsLocked' /\ GradedByLock' /\ ItemsInPlace'
    BY <2>1, RunRests
  <2> QED BY <2>1, <2>2, <2>3, RunSteps
<1> QED BY <1>1, <1>2, <1>3, <1>4, <1>5, <1>6, <1>7, <1>8, <1>9, <1>10, <1>11, <1>12, <1>13, <1>14 DEF KeyNext

\* The answer key keeps its shape, and what the requests, the preparation runs and the
\* grading run rely on, whatever teachers edit, confirm, publish, delete and draw anew
\* in between (update_answer_preparation_item, confirm_answer_preparation_run,
\* publish_standard_answer_revisions, delete_exam_region, execute_grading_run).
THEOREM KeyInductive == KeySpec => []KeyInv
BY KeyStarts, KeySteps, PTL DEF KeySpec

\* For any questions, requests and preparation runs: every revision comes from a teacher's
\* confirmation, of which an item stays on record with the question and the text, unless
\* an edit was written across that confirmation; and what an answer points at is one of
\* its own published revisions (confirm_answer_preparation_run, update_answer_preparation_item,
\* publish_standard_answer_revisions).
THEOREM ConfirmedOnly == KeySpec => []OnlyConfirmed
<1>1. KeyInv => OnlyConfirmed
  BY DEF KeyInv
<1> QED BY <1>1, KeyInductive, PTL

\* For any number of revisions, rows and retries: what a run graded of a question it had
\* locked was graded by what the locked revision said when create_run locked it.
THEOREM GradesFollowLock == KeySpec => []GradedByLock
<1>1. KeyInv => GradedByLock
  BY DEF KeyInv
<1> QED BY <1>1, KeyInductive, PTL

LEMMA WholeFollows == KeyInv => RunIsWhole
<1> SUFFICES ASSUME KeyInv, ~moved, run.status \in {"done", "errors"}, NEW k \in Keys, run.lock[k] # NoId
             PROVE  /\ Cardinality({r \in Regions : run.item[r].key = k}) = 1
                    /\ run.status = "done" => \A r \in Regions : run.item[r].key = k => run.item[r].status = "graded"
  BY DEF RunIsWhole
<1>1. PICK r \in Regions : run.item[r].key = k
  BY DEF KeyInv, ItemsInPlace
<1>2. \A s \in Regions : run.item[s].key = k => run.item[s].status # "none" /\ Primary(at[k]) = s
  <2> SUFFICES ASSUME NEW s \in Regions, run.item[s].key = k PROVE run.item[s].status # "none" /\ Primary(at[k]) = s
    OBVIOUS
  <2>1. run.item[s].status # "none"
    BY ItemSays
  <2> QED BY <2>1 DEF KeyInv, ItemsInPlace
<1>3. {s \in Regions : run.item[s].key = k} = {r}
  BY <1>1, <1>2
<1>4. Cardinality({s \in Regions : run.item[s].key = k}) = 1
  BY <1>3, FS_Singleton
<1>5. run.status = "done" => \A s \in Regions : run.item[s].key = k => run.item[s].status = "graded"
  BY <1>2 DEF KeyInv, ItemsInPlace
<1> QED BY <1>4, <1>5

\* For any questions and regions: until a question's first region is moved or deleted, a run
\* that reports a result has one item for every question it locked, and one that reports
\* no errors has graded it (execute_grading_run).
THEOREM RunsWhole == KeySpec => []RunIsWhole
BY WholeFollows, KeyInductive, PTL

\* What an appended revision leaves alone.
LEMMA RevisedKeeps ==
  ASSUME KeyInv, NEW k \in Keys, NEW rev, NEW n \in DOMAIN revs[k]
  PROVE  n \in DOMAIN Revised(k, rev) /\ Revised(k, rev)[n] = revs[k][n]
<1> DEFINE S == Rev \cup {rev}
<1>1. revs[k] \in Seq(Rev)
  BY DEF KeyInv, KeyTypeOK
<1>2. revs[k] \in Seq(S) /\ rev \in S
  <2>1. Rev \subseteq S
    OBVIOUS
  <2> HIDE DEF S
  <2>2. revs[k] \in Seq(S)
    BY <1>1, <2>1, SeqMonotonic
  <2> QED BY <2>2 DEF S
<1> HIDE DEF S
<1>3. /\ Append(revs[k], rev) \in Seq(S) /\ Len(Append(revs[k], rev)) = Len(revs[k]) + 1
      /\ \A i \in 1 .. Len(revs[k]) : Append(revs[k], rev)[i] = revs[k][i]
  BY <1>2, AppendProperties
<1>4. DOMAIN revs[k] = 1 .. Len(revs[k]) /\ Len(revs[k]) \in Nat
      /\ DOMAIN Append(revs[k], rev) = 1 .. Len(Append(revs[k], rev))
  BY <1>2, <1>3, LenProperties
<1> QED BY <1>3, <1>4 DEF Revised

LEMMA RevisionsFrozen ==
  ASSUME KeyInv, [KeyNext]_keyVars, NEW k \in Keys, NEW n \in DOMAIN revs[k],
         revs[k][n].status = "published", answer'[k].region # NoRegion
  PROVE  n \in DOMAIN revs'[k] /\ revs'[k][n] = revs[k][n]
<1>0. answer \in [Keys -> Answer] /\ revs \in [Keys -> Seq(Rev)]
  BY DEF KeyInv, KeyTypeOK
<1>1. ASSUME NEW t \in Teachers, CommitConfirm(t) PROVE n \in DOMAIN revs'[k] /\ revs'[k][n] = revs[k][n]
  <2>1. revs'[k] = revs[k] \/ \E rev : revs'[k] = Revised(k, rev)
    BY <1>1 DEF CommitConfirm
  <2> QED BY <2>1, RevisedKeeps
<1>2. ASSUME NEW t \in Teachers, CommitPublish(t) PROVE n \in DOMAIN revs'[k] /\ revs'[k][n] = revs[k][n]
  <2> DEFINE m == request[t].pick[k]
             e == [revs[k][m] EXCEPT !.status = "published"]
  <2>1. revs'[k] = revs[k] \/ revs'[k] = [revs[k] EXCEPT ![m] = e]
    BY <1>2 DEF CommitPublish
  <2>2. revs[k] \in Seq(Rev)
    BY <1>0
  <2>3. revs[k][n] \in Rev
    BY <2>2
  <2>4. m = n => e = revs[k][n]
    BY <2>3 DEF Rev
  <2> HIDE DEF m, e
  <2> QED BY <2>1, <2>2, <2>4
<1>3. ASSUME NEW lost, LoseAnswers(lost) PROVE revs'[k] = revs[k]
  <2>1. k \notin lost
    BY <1>0, <1>3 DEF LoseAnswers, NoAnswer
  <2> QED BY <1>3, <2>1 DEF LoseAnswers
<1>4. ASSUME NEW t \in Teachers, CommitDelete(t) PROVE revs'[k] = revs[k]
  BY <1>3, <1>4 DEF CommitDelete
<1>5. CASE UNCHANGED revs
  BY <1>5
<1>6. ASSUME NEW ks \in SUBSET Keys, NEW place \in [ks -> Places], ConfirmSheet(ks, place) PROVE UNCHANGED revs
  BY <1>6 DEF ConfirmSheet
<1>7. ASSUME NEW r \in Regions, CreateRegion(r) \/ CreateManual(r) \/ DeleteManual(r) PROVE UNCHANGED revs
  BY <1>7 DEF CreateRegion, CreateManual, DeleteManual
<1>8. ASSUME NEW r \in Regions, NEW status \in {"graded", "failed"}, SaveItem(r, status) PROVE UNCHANGED revs
  BY <1>8 DEF SaveItem
<1>9. ASSUME NEW p \in Preps, CreatePrep(p) \/ BeginPrep(p) \/ FailPrep(p) PROVE UNCHANGED revs
  BY <1>9 DEF CreatePrep, BeginPrep, FailPrep
<1>10. ASSUME NEW p \in Preps, NEW f \in Proposals(p), FinishPrep(p, f) PROVE UNCHANGED revs
  BY <1>10 DEF FinishPrep
<1>11. ASSUME NEW t \in Teachers, NEW p \in Preps, NEW s \in Slots, NEW to \in Keys \cup {NoKey},
              BeginEdit(t, p, s, to)
       PROVE  UNCHANGED revs
  BY <1>11 DEF BeginEdit
<1>12. ASSUME NEW t \in Teachers, NEW p \in Preps, BeginConfirm(t, p) PROVE UNCHANGED revs
  BY <1>12 DEF BeginConfirm
<1>13. ASSUME NEW t \in Teachers, NEW pick \in [Keys -> 0 .. MaxRevs], BeginPublish(t, pick) PROVE UNCHANGED revs
  BY <1>13 DEF BeginPublish
<1>14. ASSUME NEW t \in Teachers, Abort(t) PROVE UNCHANGED revs
  BY <1>14 DEF Abort
<1>15. CASE CreateRun \/ LoadRun \/ BreakLoad \/ EndRun \/ FailRun \/ RetryRun
  BY <1>15 DEF CreateRun, LoadRun, BreakLoad, EndRun, FailRun, RetryRun
<1>16. ASSUME NEW t \in Teachers, NEW s \in Slots, NEW body \in Bodies \cup {NoBody}, NEW stays \in BOOLEAN,
              CommitEdit(t, s, body, stays)
       PROVE  UNCHANGED revs
  BY <1>16 DEF CommitEdit
<1>17. ASSUME NEW t \in Teachers, NEW j \in Keys, BeginDelete(t, j) PROVE UNCHANGED revs
  BY <1>17 DEF BeginDelete
<1>18. ASSUME NEW r \in Regions, DeleteRegion(r) PROVE revs'[k] = revs[k]
  BY <1>3, <1>18 DEF DeleteRegion
<1>19. CASE UNCHANGED keyVars
  BY <1>19 DEF keyVars
<1> QED BY <1>1, <1>2, <1>3, <1>4, <1>5, <1>6, <1>7, <1>8, <1>9, <1>10, <1>11, <1>12, <1>13, <1>14, <1>15, <1>16, <1>17, <1>18, <1>19 DEF KeyNext

\* For any questions and requests: a published revision is never changed nor withdrawn as
\* long as its answer's row stands (publish_standard_answer_revisions,
\* confirm_answer_preparation_run, delete_standard_answer).
THEOREM StaysPublished == KeySpec => PublishedFrozen
<1>1. KeyInv /\ [KeyNext]_keyVars =>
        [\A k \in Keys : \A n \in DOMAIN revs[k] :
           revs[k][n].status = "published" /\ answer'[k].region # NoRegion =>
             n \in DOMAIN revs'[k] /\ revs'[k][n] = revs[k][n]]_keyVars
  BY RevisionsFrozen
<1> QED BY <1>1, KeyInductive, PTL DEF KeySpec, PublishedFrozen

=============================================================================
