--------------------------- MODULE CreditsProofs ---------------------------
(***************************************************************************)
(* Proofs about Credits for any number of reservations, transactions and   *)
(* calls, any amounts and any caps.                                        *)
(***************************************************************************)
EXTENDS Credits, SumTheorems

\* A session without a transaction has the shape of one, and holds nothing.
LEMMA IdleIsTransaction == Idle \in Transaction /\ Fits(Idle)
BY DEF Idle, Transaction, Fits

\* Before the first reservation the invariant holds.
LEMMA InitInv == Init => IInv
<1> SUFFICES ASSUME Init PROVE IInv
  OBVIOUS
<1>1. NoRow \in Row
  BY DEF NoRow, Row
<1>2. RowsOK
  BY <1>1, IdleIsTransaction DEF Init, RowsOK
<1>3. Exclusive
  BY DEF Init, Exclusive, Idle
<1>4. \A s \in Sessions : Fits(tx[s])
  BY IdleIsTransaction DEF Init
<1>5. Apart
  BY DEF Init, Apart, Idle
<1>6. \A r \in Rids : RowFits(r)
  BY DEF Init, RowFits, NoRow, Active
<1> QED BY <1>2, <1>3, <1>4, <1>5, <1>6 DEF IInv

\* A step that only moves one transaction on: what its new state must satisfy.
LEMMA Moves ==
  ASSUME IInv, NEW s \in Sessions, NEW x \in Transaction,
         tx' = [tx EXCEPT ![s] = x], UNCHANGED rows,
         Fits(x),
         \A t \in Sessions \ {s} : x.holds \cap tx[t].holds = {},
         \A t \in Sessions \ {s} :
            /\ x.op = "authorize" /\ tx[t].op = "settle" => x.rid # tx[t].rid
            /\ x.op = "settle" /\ tx[t].op = "authorize" => x.rid # tx[t].rid
  PROVE  IInv'
<1>1. RowsOK'
  BY DEF IInv, RowsOK, rows
<1>2. \A t \in Sessions : tx'[t] = IF t = s THEN x ELSE tx[t]
  BY DEF IInv, RowsOK
<1>3. Exclusive'
  BY <1>2 DEF IInv, Exclusive
<1>4. (\A t \in Sessions : Fits(tx[t]))'
  <2>1. \A y : Fits(y) => Fits(y)'
    BY DEF Fits, ReserveFits, AuthorizeFits, SettleFits, ReconcileFits, Active, rows
  <2>2. \A t \in Sessions : Fits(tx[t])
    BY DEF IInv
  <2>3. \A t \in Sessions : Fits(tx'[t])
    BY <1>2, <2>2
  <2> QED BY <2>3 DEF Fits, ReserveFits, AuthorizeFits, SettleFits, ReconcileFits, Active, rows
<1>5. Apart'
  <2>1. Apart
    BY DEF IInv
  <2>2. ASSUME NEW t \in Sessions, NEW u \in Sessions,
               tx'[t].op = "authorize", tx'[u].op = "settle"
        PROVE  tx'[t].rid # tx'[u].rid
    <3>1. CASE t # s /\ u # s
      BY <3>1, <2>2, <1>2, <2>1 DEF Apart
    <3>2. CASE t = s /\ u # s
      BY <3>2, <2>2, <1>2
    <3>3. CASE t # s /\ u = s
      BY <3>3, <2>2, <1>2
    <3>4. CASE t = s /\ u = s
      BY <3>4, <2>2
    <3> QED BY <3>1, <3>2, <3>3, <3>4
  <2> QED BY <2>2 DEF Apart
<1>6. (\A r \in Rids : RowFits(r))'
  BY DEF IInv, RowFits, Active, rows
<1> QED BY <1>1, <1>3, <1>4, <1>5, <1>6 DEF IInv

\* A transaction that ends without writing.
LEMMA Drops ==
  ASSUME IInv, NEW s \in Sessions, tx' = [tx EXCEPT ![s] = Idle], UNCHANGED rows
  PROVE  IInv'
<1>1. \A t \in Sessions : Idle.holds \cap tx[t].holds = {}
  BY DEF Idle
<1>2. Idle.op = "idle"
  BY DEF Idle
<1>3. \A t \in Sessions \ {s} :
         /\ Idle.op = "authorize" /\ tx[t].op = "settle" => Idle.rid # tx[t].rid
         /\ Idle.op = "settle" /\ tx[t].op = "authorize" => Idle.rid # tx[t].rid
  BY <1>2
<1>4. PICK x : x = Idle
  OBVIOUS
<1>5. /\ x \in Transaction /\ Fits(x)
      /\ tx' = [tx EXCEPT ![s] = x] /\ UNCHANGED rows
      /\ \A t \in Sessions \ {s} : x.holds \cap tx[t].holds = {}
      /\ \A t \in Sessions \ {s} :
            /\ x.op = "authorize" /\ tx[t].op = "settle" => x.rid # tx[t].rid
            /\ x.op = "settle" /\ tx[t].op = "authorize" => x.rid # tx[t].rid
  BY <1>1, <1>3, <1>4, IdleIsTransaction
<1> QED BY <1>5, Moves

\* A commit of session s that writes reservations D nobody else has locked, and
\* sends a call for those whose worker is not settling.
LEMMA Commits ==
  ASSUME IInv, NEW s \in Sessions, NEW D \in SUBSET Rids,
         \A t \in Sessions \ {s} : D \cap tx[t].holds = {},
         tx' = [tx EXCEPT ![s] = Idle],
         resv' \in [Rids -> Row], flight' \in [Rids -> Nat], calls' \in Nat,
         \A r \in Rids \ D : resv'[r] = resv[r] /\ flight'[r] = flight[r],
         \A r \in D : resv[r].status # "none" /\ resv'[r].status # "none",
         \A r \in D : flight'[r] = flight[r]
                      \/ \A t \in Sessions : tx[t].op = "settle" => tx[t].rid # r,
         UNCHANGED <<used, keys, over, lost>>,
         \A r \in D : RowFits(r)'
  PROVE  IInv'
<1>1. RowsOK'
  BY IdleIsTransaction DEF IInv, RowsOK
<1>2. \A t \in Sessions : tx'[t] = IF t = s THEN Idle ELSE tx[t]
  BY DEF IInv, RowsOK
<1>3. Exclusive'
  BY <1>2 DEF IInv, Exclusive, Idle
<1>4. (\A t \in Sessions : Fits(tx[t]))'
  <2> SUFFICES ASSUME NEW t \in Sessions PROVE Fits(tx[t])'
    OBVIOUS
  <2>1. CASE t = s
    BY <1>2, <2>1 DEF Fits, Idle
  <2>2. CASE t # s
    <3>1. Fits(tx[t]) /\ tx'[t] = tx[t]
      BY <1>2, <2>2 DEF IInv
    <3>2. \A r \in D : r \notin tx[t].holds
      BY <2>2
    <3>3. tx[t] \in Transaction
      BY DEF IInv, RowsOK
    <3>4. (tx[t].op = "reserve" => ReserveFits(tx[t]))'
      BY <3>1 DEF Fits, ReserveFits
    <3>5. (tx[t].op = "authorize" => AuthorizeFits(tx[t]))'
      BY <3>1, <3>2 DEF Fits, AuthorizeFits, Active
    <3>6. (tx[t].op = "settle" => SettleFits(tx[t]))'
      <4> SUFFICES ASSUME tx[t].op = "settle" PROVE SettleFits(tx[t])'
        BY <3>1
      <4>1. SettleFits(tx[t])
        BY <3>1 DEF Fits
      <4>2. flight'[tx[t].rid] = flight[tx[t].rid]
        BY <4>1 DEF SettleFits
      <4>3. resv'[tx[t].rid].status # "none"
        BY <4>1 DEF SettleFits
      <4>4. tx[t].at # "row" => resv'[tx[t].rid] = resv[tx[t].rid]
        BY <4>1, <3>2 DEF SettleFits
      <4> QED BY <4>1, <4>2, <4>3, <4>4, <3>1 DEF SettleFits, Active
    <3>7. (tx[t].op = "reconcile" => ReconcileFits(tx[t]))'
      <4>1. \A r \in Rids : resv[r].status # "none" => resv'[r].status # "none"
        OBVIOUS
      <4>2. tx[t].todo \cup tx[t].done \subseteq Rids
        BY <3>3 DEF Transaction
      <4> QED BY <3>1, <4>1, <4>2 DEF Fits, ReconcileFits
    <3>8. (tx[t].op = "idle" => tx[t] = Idle)'
      BY <3>1 DEF Fits, Idle
    <3> QED BY <3>4, <3>5, <3>6, <3>7, <3>8 DEF Fits
  <2> QED BY <2>1, <2>2
<1>5. Apart'
  <2>1. Idle.op = "idle"
    BY DEF Idle
  <2> QED BY <1>2, <2>1 DEF IInv, Apart
<1>6. (\A r \in Rids : RowFits(r))'
  <2>1. ASSUME NEW r \in Rids \ D PROVE RowFits(r)'
    BY <2>1 DEF IInv, RowFits, Active
  <2> QED BY <2>1
<1> QED BY <1>1, <1>3, <1>4, <1>5, <1>6 DEF IInv

\* What the transaction of session s is, and what it holds.
LEMMA Mine ==
  ASSUME IInv, NEW s \in Sessions
  PROVE  /\ tx[s] \in Transaction
         /\ Fits(tx[s])
         /\ \A t \in Sessions \ {s} : tx[s].holds \cap tx[t].holds = {}
BY DEF IInv, RowsOK, Exclusive

\* A transaction that begins with a free lock.
LEMMA Begins ==
  ASSUME IInv, NEW s \in Sessions, NEW y \in Transaction, NEW l \in {"advisory", "answers"} \cup Rids,
         Begin(s, y, l), Fits([y EXCEPT !.holds = {l}]),
         y.op = "authorize" => ~Busy("settle", y.rid),
         y.op = "settle" => ~Busy("authorize", y.rid)
  PROVE  IInv'
<1> DEFINE x == [y EXCEPT !.holds = {l}]
<1>1. x \in Transaction
  BY DEF Transaction
<1>2. tx' = [tx EXCEPT ![s] = x] /\ UNCHANGED rows
  BY DEF Begin
<1>3. x.op = y.op /\ x.rid = y.rid /\ x.holds = {l}
  BY DEF Transaction
<1>4. \A t \in Sessions \ {s} : x.holds \cap tx[t].holds = {}
  BY <1>3 DEF Begin, Free
<1>5. \A t \in Sessions \ {s} :
         /\ x.op = "authorize" /\ tx[t].op = "settle" => x.rid # tx[t].rid
         /\ x.op = "settle" /\ tx[t].op = "authorize" => x.rid # tx[t].rid
  BY <1>3 DEF Busy
<1>6. Fits(x)
  OBVIOUS
<1> HIDE DEF x
<1> QED BY <1>1, <1>2, <1>4, <1>5, <1>6, Moves

\* reserve_credits begins.
LEMMA ReserveStartStep ==
  ASSUME IInv, NEW s \in Sessions, NEW r \in Rids, NEW e \in Estimates, NEW a \in BOOLEAN,
         ReserveStart(s, r, e, a)
  PROVE  IInv'
<1> DEFINE y == [Idle EXCEPT !.op = "reserve", !.at = IF a THEN "answers" ELSE "usage",
                             !.rid = r, !.inc = e]
<1>1. y \in Transaction
  BY AmountsNat DEF Idle, Transaction
<1>2. Fits([y EXCEPT !.holds = {"advisory"}])
  BY DEF ReserveStart, Fits, ReserveFits, Idle
<1>3. y.op = "reserve"
  BY DEF Idle
<1>4. Begin(s, y, "advisory")
  BY DEF ReserveStart
<1> HIDE DEF y
<1> QED BY <1>1, <1>2, <1>3, <1>4, Begins

\* Facts about a row that is there.
LEMMA RowFacts ==
  ASSUME IInv, NEW r \in Rids
  PROVE  /\ resv[r] \in Row /\ used[r] \in Nat /\ flight[r] \in Nat /\ over[r] \in Nat
         /\ resv[r].est \in Nat /\ resv[r].auth \in Nat /\ resv[r].settled \in Nat
         /\ Quote \in Nat
         /\ RowFits(r)
BY AmountsNat DEF IInv, RowsOK, Row

\* One call more costs one quote more.
LEMMA OneCallMore ==
  ASSUME NEW n \in Nat, NEW q \in Nat
  PROVE  (n + 1) * q = n * q + q /\ n * q \in Nat
OBVIOUS

\* authorize_next_model_call locks its row.
LEMMA AuthorizeStartStep ==
  ASSUME IInv, NEW s \in Sessions, NEW r \in Rids, AuthorizeStart(s, r)
  PROVE  IInv'
<1> DEFINE y == [Idle EXCEPT !.op = "authorize", !.at = "advisory", !.rid = r,
                             !.inc = Increment(r)]
<1>1. Increment(r) \in Nat /\ resv[r].auth + Quote <= resv[r].est + Increment(r)
  BY RowFacts DEF Increment
<1>2. y \in Transaction
  BY <1>1 DEF Idle, Transaction
<1>3. Fits([y EXCEPT !.holds = {r}])
  BY <1>1 DEF AuthorizeStart, Calls, Fits, AuthorizeFits, Idle
<1>4. y.op = "authorize" /\ y.rid = r
  BY DEF Idle
<1>5. Begin(s, y, r) /\ ~Busy("settle", r)
  BY DEF AuthorizeStart, Calls
<1> HIDE DEF y
<1> QED BY <1>2, <1>3, <1>4, <1>5, Begins

\* What a settlement has to add to the estimate is a number.
LEMMA ExcessNat ==
  ASSUME IInv, NEW r \in Rids
  PROVE  Excess(r) \in Nat /\ AfterRow(r) \in {"advisory", "grants"}
         /\ (AfterRow(r) = "advisory" => Excess(r) > 0)
BY RowFacts DEF Excess, AfterRow

\* settle_reservation locks its row.
LEMMA SettleStartStep ==
  ASSUME IInv, NEW s \in Sessions, NEW r \in Rids, SettleStart(s, r)
  PROVE  IInv'
<1> DEFINE y == [Idle EXCEPT !.op = "settle", !.at = AfterRow(r), !.rid = r,
                             !.inc = Excess(r)]
<1>1. y \in Transaction
  BY ExcessNat DEF Idle, Transaction
<1>2. r # "advisory"
  BY LocksDistinct
<1>3. Fits([y EXCEPT !.holds = {r}])
  <2>1. Active(r) /\ resv[r].status # "none" /\ flight[r] = 0
    BY DEF SettleStart, CallsReturned, Settles
  <2> QED BY <1>2, <2>1, ExcessNat DEF Fits, SettleFits, Idle
<1>4. y.op = "settle" /\ y.rid = r
  BY DEF Idle
<1>5. Begin(s, y, r) /\ ~Busy("authorize", r)
  BY DEF SettleStart, CallsReturned
<1> HIDE DEF y
<1> QED BY <1>1, <1>3, <1>4, <1>5, Begins

\* The settlement at the end of a grading run begins.
LEMMA SettleRunStartStep ==
  ASSUME IInv, NEW s \in Sessions, NEW r \in Rids, SettleRunStart(s, r)
  PROVE  IInv'
<1> DEFINE y == [Idle EXCEPT !.op = "settle", !.at = "row", !.rid = r]
<1>1. y \in Transaction
  BY DEF Idle, Transaction
<1>2. Fits([y EXCEPT !.holds = {"answers"}])
  <2>1. resv[r].status # "none" /\ flight[r] = 0
    BY DEF SettleRunStart, CallsReturned
  <2> QED BY <2>1 DEF Fits, SettleFits, Idle
<1>3. y.op = "settle" /\ y.rid = r
  BY DEF Idle
<1>4. Begin(s, y, "answers") /\ ~Busy("authorize", r)
  BY DEF SettleRunStart, CallsReturned
<1> HIDE DEF y
<1> QED BY <1>1, <1>2, <1>3, <1>4, Begins

\* reconcile_stale_reservations begins.
LEMMA ReconcileStartStep ==
  ASSUME IInv, NEW s \in Sessions, NEW r \in Rids, NEW stale \in SUBSET Rids,
         ReconcileStart(s, stale, r)
  PROVE  IInv'
<1> DEFINE y == [Idle EXCEPT !.op = "reconcile", !.at = "grants",
                             !.todo = stale \ {r}, !.done = {r}]
<1>1. y \in Transaction
  BY DEF Idle, Transaction
<1>2. Fits([y EXCEPT !.holds = {r}])
  BY DEF ReconcileStart, Fits, ReconcileFits, Active, Idle
<1>3. y.op = "reconcile"
  BY DEF Idle
<1>4. Begin(s, y, r)
  BY DEF ReconcileStart
<1> HIDE DEF y
<1> QED BY <1>1, <1>2, <1>3, <1>4, Begins

\* A transaction that gets lock l and goes on as x.
LEMMA Locks ==
  ASSUME IInv, NEW s \in Sessions, NEW x \in Transaction,
         NEW l \in {"advisory", "answers", "grants"} \cup Rids,
         tx' = [tx EXCEPT ![s] = x], UNCHANGED rows,
         x.op = tx[s].op, x.rid = tx[s].rid, x.holds \subseteq tx[s].holds \cup {l},
         Free(s, l) \/ x.holds \subseteq tx[s].holds,
         Fits(x)
  PROVE  IInv'
<1>1. \A t \in Sessions \ {s} : x.holds \cap tx[t].holds = {}
  BY Mine DEF Free
<1>2. \A t \in Sessions \ {s} :
         /\ x.op = "authorize" /\ tx[t].op = "settle" => x.rid # tx[t].rid
         /\ x.op = "settle" /\ tx[t].op = "authorize" => x.rid # tx[t].rid
  BY DEF IInv, Apart
<1> QED BY <1>1, <1>2, Moves

\* A transaction gets the school's advisory lock.
LEMMA AdvisoryStep ==
  ASSUME IInv, NEW s \in Sessions, Advisory(s)
  PROVE  IInv'
<1> DEFINE x == [tx[s] EXCEPT !.holds = @ \cup {"advisory"}, !.at = "usage"]
<1>1. x \in Transaction
  BY Mine DEF Transaction
<1>2. tx' = [tx EXCEPT ![s] = x] /\ UNCHANGED rows /\ Free(s, "advisory")
  BY Mine DEF Advisory, Lock, Transaction
<1>3. /\ x.op = tx[s].op /\ x.rid = tx[s].rid /\ x.holds = tx[s].holds \cup {"advisory"}
      /\ x.at = "usage" /\ x.inc = tx[s].inc /\ x.todo = tx[s].todo /\ x.done = tx[s].done
  BY Mine DEF Transaction
<1>4. tx[s].at = "advisory"
  BY DEF Advisory
<1>5. Fits(x)
  <2>1. tx[s].op # "idle" /\ tx[s].op # "reserve"
    BY <1>4, Mine DEF Fits, Idle, ReserveFits
  <2>2. tx[s].op = "authorize" => AuthorizeFits(x)
    BY <1>3, <1>4, Mine DEF Fits, AuthorizeFits
  <2>3. tx[s].op = "settle" => SettleFits(x)
    BY <1>3, <1>4, Mine DEF Fits, SettleFits
  <2>4. tx[s].op = "reconcile" => ReconcileFits(x)
    BY <1>3, Mine DEF Fits, ReconcileFits
  <2> QED BY <1>3, <2>1, <2>2, <2>3, <2>4 DEF Fits
<1> HIDE DEF x
<1> QED BY <1>1, <1>2, <1>3, <1>5, Locks

\* reserve_answer_quota, under the advisory lock.
LEMMA AnswersStep ==
  ASSUME IInv, NEW s \in Sessions, Answers(s)
  PROVE  IInv'
<1> DEFINE x == [tx[s] EXCEPT !.holds = @ \cup {"answers"}, !.at = "usage"]
<1>1. x \in Transaction
  BY Mine DEF Transaction
<1>2. tx' = [tx EXCEPT ![s] = x] /\ UNCHANGED rows /\ Free(s, "answers")
  BY Mine DEF Answers, Lock, Transaction
<1>3. /\ x.op = tx[s].op /\ x.rid = tx[s].rid /\ x.holds = tx[s].holds \cup {"answers"}
      /\ x.at = "usage" /\ x.inc = tx[s].inc /\ x.todo = tx[s].todo /\ x.done = tx[s].done
  BY Mine DEF Transaction
<1>4. tx[s].at = "answers"
  BY DEF Answers
<1>5. Fits(x)
  <2>1. tx[s].op \notin {"idle", "authorize", "settle"}
    BY <1>4, Mine DEF Fits, Idle, AuthorizeFits, SettleFits
  <2>2. tx[s].op = "reserve" => ReserveFits(x)
    BY <1>3, Mine DEF Fits, ReserveFits
  <2>3. tx[s].op = "reconcile" => ReconcileFits(x)
    BY <1>3, Mine DEF Fits, ReconcileFits
  <2> QED BY <1>3, <2>1, <2>2, <2>3 DEF Fits
<1> HIDE DEF x
<1> QED BY <1>1, <1>2, <1>3, <1>5, Locks

\* The settlement of a grading run gets its row.
LEMMA SettleRowStep ==
  ASSUME IInv, NEW s \in Sessions, SettleRow(s)
  PROVE  IInv'
<1> DEFINE r == tx[s].rid
           x == [tx[s] EXCEPT !.holds = @ \cup {r}, !.at = AfterRow(r), !.inc = Excess(r)]
<1>1. tx[s].op = "settle" /\ tx[s].at = "row" /\ SettleFits(tx[s]) /\ r \in Rids
  BY Mine DEF SettleRow, Fits, SettleFits
<1>2. x \in Transaction
  BY <1>1, Mine, ExcessNat DEF Transaction
<1>3. tx' = [tx EXCEPT ![s] = x] /\ UNCHANGED rows /\ Free(s, r)
  BY Mine DEF SettleRow, Transaction
<1>4. /\ x.op = tx[s].op /\ x.rid = tx[s].rid /\ x.holds = tx[s].holds \cup {r}
      /\ x.at = AfterRow(r) /\ x.inc = Excess(r)
  BY Mine DEF Transaction
<1>5. Fits(x)
  <2>1. r # "advisory"
    BY <1>1, LocksDistinct
  <2>2. Active(r)
    BY DEF SettleRow, Settles
  <2>3. SettleFits(x)
    BY <1>1, <1>4, <2>1, <2>2, ExcessNat DEF SettleFits
  <2> QED BY <1>1, <1>4, <2>3 DEF Fits
<1> HIDE DEF x
<1> QED BY <1>1, <1>2, <1>3, <1>4, <1>5, Locks

\* The reconciliation locks the next row.
LEMMA ReconcileRowStep ==
  ASSUME IInv, NEW s \in Sessions, NEW r \in Rids, ReconcileRow(s, r)
  PROVE  IInv'
<1> DEFINE x == [tx[s] EXCEPT !.holds = @ \cup {r}, !.at = "grants",
                              !.todo = @ \ {r}, !.done = @ \cup {r}]
<1>1. x \in Transaction
  BY Mine DEF Transaction
<1>2. tx' = [tx EXCEPT ![s] = x] /\ UNCHANGED rows /\ Free(s, r)
  BY Mine DEF ReconcileRow, Transaction
<1>3. /\ x.op = tx[s].op /\ x.rid = tx[s].rid /\ x.holds = tx[s].holds \cup {r}
      /\ x.todo = tx[s].todo \ {r} /\ x.done = tx[s].done \cup {r}
  BY Mine DEF Transaction
<1>4. tx[s].op = "reconcile" /\ r \in tx[s].todo
  BY DEF ReconcileRow
<1>5. Fits(x)
  <2>1. ReconcileFits(x)
    BY <1>3, <1>4, Mine DEF Fits, ReconcileFits
  <2> QED BY <1>3, <1>4, <2>1 DEF Fits
<1> HIDE DEF x
<1> QED BY <1>1, <1>2, <1>3, <1>5, Locks

\* The reconciliation locks the grants.
LEMMA ReconcileGrantsStep ==
  ASSUME IInv, NEW s \in Sessions, ReconcileGrants(s)
  PROVE  IInv'
<1> DEFINE x == [tx[s] EXCEPT !.holds = @ \cup {"grants"}, !.at = "row"]
<1>1. x \in Transaction
  BY Mine DEF Transaction
<1>2. tx' = [tx EXCEPT ![s] = x] /\ UNCHANGED rows /\ Free(s, "grants")
  BY Mine DEF ReconcileGrants, Lock, Transaction
<1>3. /\ x.op = tx[s].op /\ x.rid = tx[s].rid /\ x.holds = tx[s].holds \cup {"grants"}
      /\ x.todo = tx[s].todo /\ x.done = tx[s].done
  BY Mine DEF Transaction
<1>4. tx[s].op = "reconcile"
  BY DEF ReconcileGrants
<1>5. Fits(x)
  BY <1>3, <1>4, Mine DEF Fits, ReconcileFits
<1> HIDE DEF x
<1> QED BY <1>1, <1>2, <1>3, <1>5, Locks

\* A read moves a transaction on and takes no lock.
LEMMA Reads ==
  ASSUME IInv, NEW s \in Sessions, NEW p \in {"active", "grants"},
         tx' = [tx EXCEPT ![s].at = p], UNCHANGED rows,
         tx[s].at \in {"usage", "active"}
  PROVE  IInv'
<1> DEFINE x == [tx[s] EXCEPT !.at = p]
<1>1. x \in Transaction
  BY Mine DEF Transaction
<1>2. tx' = [tx EXCEPT ![s] = x]
  BY Mine DEF Transaction
<1>3. /\ x.op = tx[s].op /\ x.rid = tx[s].rid /\ x.holds = tx[s].holds /\ x.at = p
      /\ x.inc = tx[s].inc /\ x.todo = tx[s].todo /\ x.done = tx[s].done
  BY Mine DEF Transaction
<1>4. Fits(x)
  <2>1. tx[s].op # "idle"
    BY Mine DEF Fits, Idle
  <2>2. tx[s].op = "reserve" => ReserveFits(x)
    BY <1>3, Mine DEF Fits, ReserveFits
  <2>3. tx[s].op = "authorize" => AuthorizeFits(x)
    BY <1>3, Mine DEF Fits, AuthorizeFits
  <2>4. tx[s].op = "settle" => SettleFits(x)
    BY <1>3, Mine DEF Fits, SettleFits
  <2>5. tx[s].op = "reconcile" => ReconcileFits(x)
    BY <1>3, Mine DEF Fits, ReconcileFits
  <2> QED BY <1>3, <2>1, <2>2, <2>3, <2>4, <2>5 DEF Fits
<1> HIDE DEF x
<1> QED BY <1>1, <1>2, <1>3, <1>4, Locks

\* The first read of the cap check.
LEMMA ReadUsageStep ==
  ASSUME IInv, NEW s \in Sessions, ReadUsage(s)
  PROVE  IInv'
BY Reads DEF ReadUsage

\* The second read of the cap check.
LEMMA ReadActiveStep ==
  ASSUME IInv, NEW s \in Sessions, ReadActive(s)
  PROVE  IInv'
BY Reads DEF ReadActive

\* A transaction is refused or rolled back.
LEMMA RollbackStep ==
  ASSUME IInv, NEW s \in Sessions, Rollback(s)
  PROVE  IInv'
BY Drops DEF Rollback, End

\* The advisory lock makes the new reservation the only one of its key.
LEMMA ReserveCommitStep ==
  ASSUME IInv, NEW s \in Sessions, ReserveCommit(s)
  PROVE  IInv'
<1>0. tx[s].rid \in Rids
  BY Mine DEF ReserveCommit, Fits, ReserveFits
<1> PICK r \in Rids : r = tx[s].rid
  BY <1>0
<1> DEFINE row == [status |-> "active", est |-> tx[s].inc, auth |-> 0, settled |-> 0]
<1>1. ReserveFits(tx[s]) /\ r \in Rids /\ resv[r].status = "none" /\ "advisory" \in tx[s].holds
  BY Mine DEF ReserveCommit, Fits, ReserveFits
<1>2. /\ resv' = [resv EXCEPT ![r] = row]
      /\ tx' = [tx EXCEPT ![s] = Idle]
      /\ UNCHANGED <<used, keys, flight, calls, over, lost>>
  BY DEF ReserveCommit, End
<1>3. row \in Row
  BY Mine DEF Row, Transaction
<1>4. RowsOK'
  BY <1>1, <1>2, <1>3, IdleIsTransaction DEF IInv, RowsOK
<1>5. \A t \in Sessions : tx'[t] = IF t = s THEN Idle ELSE tx[t]
  BY <1>2 DEF IInv, RowsOK
<1>6. Exclusive'
  BY <1>5 DEF IInv, Exclusive, Idle
<1>7. \A q \in Rids : resv'[q] = IF q = r THEN row ELSE resv[q]
  BY <1>2 DEF IInv, RowsOK
<1>8. (\A t \in Sessions : Fits(tx[t]))'
  <2> SUFFICES ASSUME NEW t \in Sessions PROVE Fits(tx[t])'
    OBVIOUS
  <2>1. CASE t = s
    BY <1>5, <2>1 DEF Fits, Idle
  <2>2. CASE t # s
    <3>1. Fits(tx[t]) /\ tx'[t] = tx[t] /\ tx[t] \in Transaction
      BY <1>5, <2>2, Mine
    <3>2. "advisory" \notin tx[t].holds
      BY <1>1, <2>2 DEF IInv, Exclusive
    <3>3. tx[t].op # "reserve"
      BY <3>1, <3>2 DEF Fits, ReserveFits
    <3>4. (tx[t].op = "authorize" => AuthorizeFits(tx[t]))'
      BY <3>1, <1>1, <1>7 DEF Fits, AuthorizeFits, Active
    <3>5. (tx[t].op = "settle" => SettleFits(tx[t]))'
      BY <3>1, <1>1, <1>2, <1>7 DEF Fits, SettleFits, Active
    <3>6. (tx[t].op = "reconcile" => ReconcileFits(tx[t]))'
      <4>1. tx[t].todo \cup tx[t].done \subseteq Rids
        BY <3>1 DEF Transaction
      <4> QED BY <3>1, <4>1, <1>7 DEF Fits, ReconcileFits
    <3>7. (tx[t].op = "idle" => tx[t] = Idle)'
      BY <3>1 DEF Fits, Idle
    <3> QED BY <3>1, <3>3, <3>4, <3>5, <3>6, <3>7 DEF Fits
  <2> QED BY <2>1, <2>2
<1>9. Apart'
  <2>1. Idle.op = "idle"
    BY DEF Idle
  <2> QED BY <1>5, <2>1 DEF IInv, Apart
<1>10. (\A q \in Rids : RowFits(q))'
  <2>1. ASSUME NEW q \in Rids, q # r PROVE RowFits(q)'
    BY <2>1, <1>2, <1>7 DEF IInv, RowFits, Active
  <2>2. RowFits(r)'
    <3>1. used[r] = 0 /\ flight[r] = 0 /\ over[r] = 0 /\ tx[s].inc \in Nat /\ Quote \in Nat
      BY <1>1, RowFacts, Mine DEF RowFits, Transaction
    <3>2. resv'[r] = row
      BY <1>1, <1>7
    <3> QED BY <3>1, <3>2, <1>2 DEF RowFits, Active
  <2> QED BY <2>1, <2>2
<1> QED BY <1>4, <1>6, <1>8, <1>9, <1>10 DEF IInv

\* One call more fits into a row whose estimate covers its quote.
LEMMA CallFits ==
  ASSUME IInv, NEW r \in Rids, Active(r), NEW e \in Nat, resv[r].auth + Quote <= e,
         resv'[r].status = "active", resv'[r].est = e, resv'[r].auth = resv[r].auth + Quote,
         flight'[r] = flight[r] + 1, UNCHANGED <<used, over>>
  PROVE  RowFits(r)'
<1> DEFINE fq == flight[r] * Quote
<1>1. (flight[r] + 1) * Quote = fq + Quote /\ fq \in Nat
  BY RowFacts, OneCallMore
<1>2. used[r] + fq <= resv[r].auth + over[r]
  BY RowFacts DEF RowFits
<1>3. flight'[r] * Quote = fq + Quote
  BY <1>1
<1> HIDE DEF fq
<1>4. used[r] + (fq + Quote) <= resv[r].auth + Quote + over[r]
  BY <1>1, <1>2, RowFacts
<1> QED BY <1>3, <1>4 DEF RowFits, Active

\* authorize_next_model_call extends the estimate and sends its call.
LEMMA AuthorizeCommitStep ==
  ASSUME IInv, NEW s \in Sessions, AuthorizeCommit(s)
  PROVE  IInv'
<1>0. tx[s].rid \in Rids
  BY Mine DEF AuthorizeCommit, Fits, AuthorizeFits
<1> PICK r \in Rids : r = tx[s].rid
  BY <1>0
<1> DEFINE row == [resv[r] EXCEPT !.est = @ + tx[s].inc, !.auth = @ + Quote]
<1>1. /\ tx[s].op = "authorize" /\ r \in Rids /\ Active(r) /\ r \in tx[s].holds
      /\ resv[r].auth + Quote <= resv[r].est + tx[s].inc
  BY Mine DEF AuthorizeCommit, Fits, AuthorizeFits
<1>2. tx[s].inc \in Nat
  BY Mine DEF Transaction
<1>3. row \in Row /\ row.est = resv[r].est + tx[s].inc /\ row.auth = resv[r].auth + Quote
      /\ row.status = "active"
  <2>1. resv[r] \in Row /\ resv[r].est + tx[s].inc \in Nat /\ resv[r].auth + Quote \in Nat
    BY <1>1, <1>2, RowFacts
  <2>2. resv[r].status = "active"
    BY <1>1 DEF Active
  <2> QED BY <2>1, <2>2 DEF Row
<1>4. /\ resv' = [resv EXCEPT ![r] = row]
      /\ flight' = [flight EXCEPT ![r] = @ + 1]
      /\ calls' = calls + 1
      /\ tx' = [tx EXCEPT ![s] = Idle]
      /\ UNCHANGED <<used, keys, over, lost>>
  BY DEF AuthorizeCommit, Sent, End
<1>5. resv' \in [Rids -> Row] /\ flight' \in [Rids -> Nat] /\ calls' \in Nat
  <2>1. resv \in [Rids -> Row] /\ flight \in [Rids -> Nat] /\ calls \in Nat
    BY DEF IInv, RowsOK
  <2> HIDE DEF row
  <2>2. resv' \in [Rids -> Row]
    BY <2>1, <1>3, <1>4
  <2>3. flight' \in [Rids -> Nat]
    BY <2>1, <1>4
  <2>4. calls' \in Nat
    BY <2>1, <1>4
  <2> QED BY <2>2, <2>3, <2>4
<1>6. resv'[r] = row /\ flight'[r] = flight[r] + 1
  BY <1>1, <1>4 DEF IInv, RowsOK
<1>7. \A q \in Rids \ {r} : resv'[q] = resv[q] /\ flight'[q] = flight[q]
  BY <1>4 DEF IInv, RowsOK
<1>8. RowFits(r)'
  <2> DEFINE e == resv[r].est + tx[s].inc
  <2>1. e \in Nat /\ resv[r].auth + Quote <= e
    BY <1>1, <1>2, RowFacts
  <2>2. /\ resv'[r].status = "active" /\ resv'[r].est = e
        /\ resv'[r].auth = resv[r].auth + Quote /\ flight'[r] = flight[r] + 1
    BY <1>3, <1>6
  <2> HIDE DEF e, row
  <2> QED BY <1>1, <1>4, <2>1, <2>2, CallFits
<1>9. resv[r].status # "none" /\ resv'[r].status # "none"
  BY <1>1, <1>3, <1>6 DEF Active
<1> HIDE DEF row
<1>10. {r} \in SUBSET Rids /\ \A t \in Sessions \ {s} : {r} \cap tx[t].holds = {}
  BY <1>1, Mine
<1>11. \A t \in Sessions : tx[t].op = "settle" => tx[t].rid # r
  BY <1>1 DEF IInv, Apart
<1> DEFINE D == {r}
<1>12. /\ D \in SUBSET Rids /\ (\A t \in Sessions \ {s} : D \cap tx[t].holds = {})
       /\ \A q \in Rids \ D : resv'[q] = resv[q] /\ flight'[q] = flight[q]
       /\ \A q \in D : resv[q].status # "none" /\ resv'[q].status # "none"
       /\ \A q \in D : flight'[q] = flight[q]
                       \/ \A t \in Sessions : tx[t].op = "settle" => tx[t].rid # q
       /\ \A q \in D : RowFits(q)'
  BY <1>7, <1>8, <1>9, <1>10, <1>11
<1> HIDE DEF D
<1>13. tx' = [tx EXCEPT ![s] = Idle] /\ UNCHANGED <<used, keys, over, lost>>
  BY <1>4
<1> QED BY <1>5, <1>12, <1>13, Commits

\* settle_reservation commits.
LEMMA SettleCommitStep ==
  ASSUME IInv, NEW s \in Sessions, SettleCommit(s)
  PROVE  IInv'
<1>0. tx[s].rid \in Rids
  BY Mine DEF SettleCommit, Fits, SettleFits
<1> PICK r \in Rids : r = tx[s].rid
  BY <1>0
<1> DEFINE row == [resv[r] EXCEPT !.status = "settled", !.settled = used[r],
                        !.est = @ + tx[s].inc]
<1>1. r \in Rids /\ Active(r) /\ r \in tx[s].holds /\ flight[r] = 0
  BY Mine DEF SettleCommit, Fits, SettleFits
<1>2. tx[s].inc \in Nat
  BY Mine DEF Transaction
<1>3. row \in Row /\ row.status = "settled" /\ row.settled = used[r]
  <2>1. resv[r] \in Row /\ resv[r].est + tx[s].inc \in Nat /\ used[r] \in Nat
    BY <1>1, <1>2, RowFacts
  <2> QED BY <2>1 DEF Row
<1>4. /\ resv' = [resv EXCEPT ![r] = row]
      /\ tx' = [tx EXCEPT ![s] = Idle]
      /\ UNCHANGED <<used, keys, flight, calls, over, lost>>
  BY DEF SettleCommit, End
<1>5. resv' \in [Rids -> Row] /\ flight' \in [Rids -> Nat] /\ calls' \in Nat
  <2>1. resv \in [Rids -> Row] /\ flight \in [Rids -> Nat] /\ calls \in Nat
    BY DEF IInv, RowsOK
  <2> HIDE DEF row
  <2>2. resv' \in [Rids -> Row]
    BY <2>1, <1>3, <1>4
  <2>3. flight' \in [Rids -> Nat]
    BY <2>1, <1>4
  <2>4. calls' \in Nat
    BY <2>1, <1>4
  <2> QED BY <2>2, <2>3, <2>4
<1>6. resv'[r] = row
  BY <1>1, <1>4 DEF IInv, RowsOK
<1>7. \A q \in Rids \ {r} : resv'[q] = resv[q] /\ flight'[q] = flight[q]
  BY <1>4 DEF IInv, RowsOK
<1>8. RowFits(r)'
  BY <1>1, <1>3, <1>4, <1>6 DEF RowFits, Active
<1>9. resv[r].status # "none" /\ resv'[r].status # "none"
  BY <1>1, <1>3, <1>6 DEF Active
<1> HIDE DEF row
<1>10. {r} \in SUBSET Rids /\ \A t \in Sessions \ {s} : {r} \cap tx[t].holds = {}
  BY <1>1, Mine
<1>11. \A q \in {r} : /\ resv[q].status # "none" /\ resv'[q].status # "none"
                       /\ flight'[q] = flight[q]
                       /\ RowFits(q)'
  BY <1>8, <1>9, <1>4
<1> DEFINE D == {r}
<1>12. /\ D \in SUBSET Rids /\ (\A t \in Sessions \ {s} : D \cap tx[t].holds = {})
       /\ \A q \in Rids \ D : resv'[q] = resv[q] /\ flight'[q] = flight[q]
       /\ \A q \in D : resv[q].status # "none" /\ resv'[q].status # "none"
       /\ \A q \in D : flight'[q] = flight[q]
                       \/ \A t \in Sessions : tx[t].op = "settle" => tx[t].rid # q
       /\ \A q \in D : RowFits(q)'
  BY <1>7, <1>10, <1>11
<1> HIDE DEF D
<1>13. tx' = [tx EXCEPT ![s] = Idle] /\ UNCHANGED <<used, keys, over, lost>>
  BY <1>4
<1> QED BY <1>5, <1>12, <1>13, Commits

\* The reconciliation commits the releases.
LEMMA ReconcileCommitStep ==
  ASSUME IInv, NEW s \in Sessions, ReconcileCommit(s)
  PROVE  IInv'
<1> DEFINE D == tx[s].done
<1>1. D \subseteq Rids /\ D \subseteq tx[s].holds /\ \A r \in D : resv[r].status # "none"
  BY Mine DEF ReconcileCommit, Fits, ReconcileFits, Transaction
<1>2. /\ resv' = [r \in Rids |-> IF r \in D THEN [resv[r] EXCEPT !.status = "released"]
                                            ELSE resv[r]]
      /\ tx' = [tx EXCEPT ![s] = Idle]
      /\ UNCHANGED <<used, keys, flight, calls, over, lost>>
  BY DEF ReconcileCommit, End
<1>3. \A r \in D : resv'[r] \in Row /\ resv'[r].status = "released"
  BY <1>1, <1>2, RowFacts DEF Row
<1>4. \A r \in Rids \ D : resv'[r] = resv[r] /\ resv[r] \in Row
  BY <1>2, RowFacts
<1>5. resv' \in [Rids -> Row] /\ flight' \in [Rids -> Nat] /\ calls' \in Nat
  <2>1. flight' \in [Rids -> Nat] /\ calls' \in Nat
    BY <1>2 DEF IInv, RowsOK
  <2>2. \A r \in Rids : resv'[r] \in Row
    BY <1>3, <1>4
  <2> QED BY <1>2, <2>1, <2>2
<1>6. \A r \in D : RowFits(r)'
  BY <1>1, <1>3 DEF RowFits, Active
<1> HIDE DEF D
<1>7. \A t \in Sessions \ {s} : D \cap tx[t].holds = {}
  BY <1>1, Mine
<1> QED BY <1>1, <1>2, <1>3, <1>4, <1>5, <1>6, <1>7, Commits

\* A call the estimate covers already is sent at once.
LEMMA AuthorizeCoveredStep ==
  ASSUME IInv, NEW s \in Sessions, NEW r \in Rids, AuthorizeCovered(s, r)
  PROVE  IInv'
<1> DEFINE row == [resv[r] EXCEPT !.auth = @ + Quote]
<1>1. tx[s] = Idle
  BY Mine DEF AuthorizeCovered, Fits
<1>2. Active(r) /\ Increment(r) = 0 /\ ~Busy("settle", r)
  BY DEF AuthorizeCovered, Calls
<1>3. resv[r].auth + Quote <= resv[r].est
  BY <1>2, RowFacts DEF Increment
<1>4. row \in Row /\ row.est = resv[r].est /\ row.auth = resv[r].auth + Quote
      /\ row.status = "active"
  <2>1. resv[r] \in Row /\ resv[r].auth + Quote \in Nat /\ resv[r].status = "active"
    BY <1>2, RowFacts DEF Active
  <2> QED BY <2>1 DEF Row
<1>5. /\ resv' = [resv EXCEPT ![r] = row]
      /\ flight' = [flight EXCEPT ![r] = @ + 1]
      /\ calls' = calls + 1
      /\ tx' = tx
      /\ UNCHANGED <<used, keys, over, lost>>
  BY DEF AuthorizeCovered, Sent
<1> HIDE DEF row
<1>6. /\ resv \in [Rids -> Row] /\ flight \in [Rids -> Nat] /\ calls \in Nat
      /\ tx \in [Sessions -> Transaction]
  BY DEF IInv, RowsOK
<1>7. resv' \in [Rids -> Row]
  BY <1>4, <1>5, <1>6
<1>8. flight' \in [Rids -> Nat] /\ calls' \in Nat
  BY <1>5, <1>6
<1>9. tx' = [tx EXCEPT ![s] = Idle]
  BY <1>1, <1>5, <1>6
<1>10. RowFits(r)'
  <2>1. resv'[r] = row /\ flight'[r] = flight[r] + 1
    BY <1>5, <1>6
  <2> QED BY <2>1, <1>2, <1>3, <1>4, <1>5, RowFacts, CallFits
<1> DEFINE D == {r}
<1>11. \A t \in Sessions \ {s} : D \cap tx[t].holds = {}
  BY DEF AuthorizeCovered, Free
<1>12. \A q \in D : resv[q].status # "none" /\ resv'[q].status # "none" /\ RowFits(q)'
  BY <1>2, <1>4, <1>5, <1>6, <1>10 DEF Active
<1>13. \A q \in D : \A t \in Sessions : tx[t].op = "settle" => tx[t].rid # q
  BY <1>2 DEF Busy
<1>14. D \in SUBSET Rids /\ \A q \in Rids \ D : resv'[q] = resv[q] /\ flight'[q] = flight[q]
  BY <1>5, <1>6
<1> HIDE DEF D
<1>15. UNCHANGED <<used, keys, over, lost>>
  BY <1>5
<1>16. /\ \A q \in D : resv[q].status # "none" /\ resv'[q].status # "none"
       /\ \A q \in D : RowFits(q)'
       /\ \A q \in D : flight'[q] = flight[q] \/ \A t \in Sessions : tx[t].op = "settle" => tx[t].rid # q
  BY <1>12, <1>13
<1> QED BY <1>7, <1>8, <1>9, <1>11, <1>14, <1>15, <1>16, Commits

\* A call of reservation r that comes back: its quote leaves the ones under way,
\* what it cost joins the usage.
LEMMA Returns ==
  ASSUME IInv, NEW r \in Rids, flight[r] > 0,
         flight' = [flight EXCEPT ![r] = @ - 1],
         used' \in [Rids -> Nat], over' \in [Rids -> Nat], lost' \in Nat,
         keys' \subseteq Keys, UNCHANGED <<resv, tx, calls>>,
         \A q \in Rids \ {r} : used'[q] = used[q] /\ over'[q] = over[q],
         used'[r] + over[r] <= used[r] + over'[r] + Quote
  PROVE  IInv'
<1>1. flight \in [Rids -> Nat] /\ flight[r] \in Nat /\ flight[r] - 1 \in Nat
  BY RowFacts DEF IInv, RowsOK
<1>2. flight'[r] = flight[r] - 1 /\ \A q \in Rids \ {r} : flight'[q] = flight[q]
  BY <1>1
<1>3. RowsOK'
  BY <1>1 DEF IInv, RowsOK
<1>4. Exclusive' /\ Apart'
  BY DEF IInv, Exclusive, Apart
<1>5. (\A t \in Sessions : Fits(tx[t]))'
  <2> SUFFICES ASSUME NEW t \in Sessions PROVE Fits(tx[t])'
    OBVIOUS
  <2>1. Fits(tx[t])
    BY DEF IInv
  <2>2. (tx[t].op = "settle" => SettleFits(tx[t]))'
    BY <2>1, <1>2 DEF Fits, SettleFits, Active
  <2> QED BY <2>1, <2>2 DEF Fits, ReserveFits, AuthorizeFits, ReconcileFits, Active
<1>6. (\A q \in Rids : RowFits(q))'
  <2>1. ASSUME NEW q \in Rids, q # r PROVE RowFits(q)'
    BY <2>1, <1>2, RowFacts DEF RowFits, Active
  <2>2. RowFits(r)'
    <3> DEFINE fq == flight'[r] * Quote
    <3>1. flight[r] * Quote = fq + Quote /\ fq \in Nat
      <4>1. flight[r] = (flight[r] - 1) + 1
        BY <1>1
      <4> QED BY <4>1, <1>1, <1>2, RowFacts, OneCallMore
    <3>2. Active(r) => used[r] + (fq + Quote) <= resv[r].auth + over[r]
                       /\ resv[r].auth <= resv[r].est
      BY <3>1, RowFacts DEF RowFits
    <3>3. used'[r] \in Nat /\ over'[r] \in Nat
      OBVIOUS
    <3>4. resv[r].status \notin {"none", "settled"}
      BY RowFacts DEF RowFits
    <3> HIDE DEF fq
    <3>5. Active(r) => used'[r] + fq <= resv[r].auth + over'[r]
      BY <3>1, <3>2, <3>3, RowFacts
    <3> QED BY <3>2, <3>4, <3>5 DEF RowFits, Active, fq
  <2> QED BY <2>1, <2>2
<1> QED BY <1>3, <1>4, <1>5, <1>6 DEF IInv

\* A call that was not sent comes back.
LEMMA UnsentStep ==
  ASSUME IInv, NEW r \in Rids, Unsent(r)
  PROVE  IInv'
<1>1. used \in [Rids -> Nat] /\ over \in [Rids -> Nat] /\ lost \in Nat /\ keys \subseteq Keys
  BY DEF IInv, RowsOK
<1>2. used[r] + over[r] <= used[r] + over[r] + Quote
  BY RowFacts
<1> QED BY <1>1, <1>2, Returns DEF Unsent

\* record_model_attempt.
LEMMA RecordStep ==
  ASSUME IInv, NEW r \in Rids, NEW k \in Keys, NEW c \in Costs, Record(r, k, c)
  PROVE  IInv'
<1>1. /\ used \in [Rids -> Nat] /\ over \in [Rids -> Nat] /\ lost \in Nat
      /\ keys \subseteq Keys /\ c \in Nat
  BY AmountsNat DEF IInv, RowsOK
<1>2. used' \in [Rids -> Nat] /\ over' \in [Rids -> Nat] /\ lost' \in Nat /\ keys' \subseteq Keys
  <2>1. c > Quote => over[r] + c - Quote \in Nat
    BY <1>1, RowFacts
  <2>2. used[r] + c \in Nat /\ lost + c \in Nat
    BY <1>1
  <2> QED BY <1>1, <2>1, <2>2 DEF Record
<1>3. \A q \in Rids \ {r} : used'[q] = used[q] /\ over'[q] = over[q]
  BY <1>1 DEF Record
<1>4. used'[r] + over[r] <= used[r] + over'[r] + Quote
  BY <1>1, RowFacts DEF Record
<1> QED BY <1>2, <1>3, <1>4, Returns DEF Record

\* Every operation of billing.py keeps the invariant.
LEMMA StepInv == IInv /\ [Next]_vars => IInv'
<1> SUFFICES ASSUME IInv, [Next]_vars PROVE IInv'
  OBVIOUS
<1>1. ASSUME NEW s \in Sessions, NEW r \in Rids, NEW e \in Estimates, NEW a \in BOOLEAN,
             ReserveStart(s, r, e, a)
      PROVE  IInv'
  BY <1>1, ReserveStartStep
<1>2. ASSUME NEW s \in Sessions, NEW r \in Rids,
             \/ AuthorizeCovered(s, r) \/ AuthorizeStart(s, r) \/ SettleStart(s, r)
             \/ SettleRunStart(s, r) \/ ReconcileRow(s, r)
      PROVE  IInv'
  BY <1>2, AuthorizeCoveredStep, AuthorizeStartStep, SettleStartStep, SettleRunStartStep,
     ReconcileRowStep
<1>3. ASSUME NEW s \in Sessions, NEW r \in Rids, NEW stale \in SUBSET Rids,
             ReconcileStart(s, stale, r)
      PROVE  IInv'
  BY <1>3, ReconcileStartStep
<1>4. ASSUME NEW s \in Sessions,
             \/ Advisory(s) \/ Answers(s) \/ SettleRow(s) \/ ReconcileGrants(s)
             \/ ReadUsage(s) \/ ReadActive(s)
      PROVE  IInv'
  BY <1>4, AdvisoryStep, AnswersStep, SettleRowStep, ReconcileGrantsStep, ReadUsageStep,
     ReadActiveStep
<1>5. ASSUME NEW s \in Sessions,
             \/ ReserveCommit(s) \/ AuthorizeCommit(s) \/ SettleCommit(s)
             \/ ReconcileCommit(s) \/ Rollback(s)
      PROVE  IInv'
  BY <1>5, ReserveCommitStep, AuthorizeCommitStep, SettleCommitStep, ReconcileCommitStep,
     RollbackStep
<1>6. ASSUME NEW r \in Rids, Unsent(r) PROVE IInv'
  BY <1>6, UnsentStep
<1>7. ASSUME NEW r \in Rids, NEW k \in Keys, NEW c \in Costs, Record(r, k, c) PROVE IInv'
  BY <1>7, RecordStep
<1>8. CASE UNCHANGED vars
  BY <1>8 DEF vars, rows, IInv, RowsOK, Exclusive, Fits, ReserveFits, AuthorizeFits, SettleFits,
              ReconcileFits, Active, Apart, RowFits
<1> QED BY <1>1, <1>2, <1>3, <1>4, <1>5, <1>6, <1>7, <1>8 DEF Next

-----------------------------------------------------------------------------
\* Rows, locks and open transactions of billing.py fit together in every state: a
\* row is written by the transaction that holds its lock, and a row that is active
\* covers what its calls have cost and what those under way are quoted at.
THEOREM Inductive == Spec => []IInv
BY InitInv, StepInv, PTL DEF Spec

\* Rows and open transactions keep the shape the tables give them.
THEOREM RowsTyped == Spec => []RowsOK
<1>1. IInv => RowsOK
  BY DEF IInv
<1> QED BY <1>1, Inductive, PTL

\* authorize_next_model_call: a call is sent only when the estimate of its active
\* reservation covers it besides all that is spent or under way.
THEOREM CallsStayCovered == Spec => []CallsCovered
<1>1. IInv => CallsCovered
  <2> SUFFICES ASSUME IInv, NEW r \in Rids, Active(r)
               PROVE  used[r] + flight[r] * Quote <= resv[r].est + over[r]
    BY DEF CallsCovered
  <2>1. used[r] + flight[r] * Quote <= resv[r].auth + over[r] /\ resv[r].auth <= resv[r].est
    BY RowFacts DEF RowFits
  <2> DEFINE fq == flight[r] * Quote
  <2>2. fq \in Nat
    BY RowFacts, OneCallMore
  <2> HIDE DEF fq
  <2>3. used[r] + fq <= resv[r].est + over[r]
    BY <2>1, <2>2, RowFacts DEF fq
  <2> QED BY <2>3 DEF fq
<1> QED BY <1>1, Inductive, PTL

\* settle_reservation: a settled task was charged everything its calls recorded.
THEOREM SettledInFull == Spec => []ChargedInFull
<1>1. IInv => ChargedInFull
  BY DEF IInv, ChargedInFull, RowFits
<1> QED BY <1>1, Inductive, PTL

\* What each kind of transaction may hold: the grants only a reconciliation.
LEMMA Holdings ==
  ASSUME IInv, NEW s \in Sessions, tx[s].op # "reconcile"
  PROVE  /\ "grants" \notin tx[s].holds
         /\ \A r \in Rids : r \in tx[s].holds => tx[s].op \in {"authorize", "settle"} /\ tx[s].rid = r
         /\ tx[s].op = "settle" /\ tx[s].at = "row" => \A r \in Rids : r \notin tx[s].holds
         /\ tx[s].op = "reserve" => "advisory" \in tx[s].holds
         /\ "answers" \in tx[s].holds => tx[s].op \in {"reserve", "settle"}
         /\ "advisory" \in tx[s].holds =>
               tx[s].op \in {"reserve", "authorize"} \/ (tx[s].op = "settle" /\ tx[s].inc > 0)
<1>1. tx[s] \in Transaction /\ Fits(tx[s])
  BY Mine
<1>2. tx[s].op \in {"idle", "reserve", "authorize", "settle"}
  BY <1>1 DEF Transaction
<1>3. CASE tx[s].op = "idle"
  BY <1>1, <1>3 DEF Fits, Idle
<1>4. CASE tx[s].op = "reserve"
  BY <1>1, <1>4, LocksDistinct DEF Fits, ReserveFits
<1>5. CASE tx[s].op = "authorize"
  <2>1. tx[s].rid \in Rids /\ tx[s].holds \subseteq {tx[s].rid, "advisory"}
    BY <1>1, <1>5 DEF Fits, AuthorizeFits
  <2>2. tx[s].rid # "answers" /\ tx[s].rid # "grants" /\ "advisory" \notin Rids
    BY <2>1, LocksDistinct
  <2> QED BY <1>5, <2>1, <2>2
<1>6. CASE tx[s].op = "settle"
  <2>1. /\ tx[s].rid \in Rids /\ tx[s].holds \subseteq {"answers", tx[s].rid, "advisory"}
        /\ tx[s].at = "row" => tx[s].holds \subseteq {"answers"}
        /\ "advisory" \in tx[s].holds => tx[s].inc > 0
    BY <1>1, <1>6 DEF Fits, SettleFits
  <2>2. tx[s].rid # "grants" /\ "advisory" \notin Rids /\ "answers" \notin Rids
    BY <2>1, LocksDistinct
  <2> QED BY <1>6, <2>1, <2>2
<1> QED BY <1>2, <1>3, <1>4, <1>5, <1>6

\* What a transaction waits for that is neither a reconciliation nor a settlement
\* above the estimate.
LEMMA Waits ==
  ASSUME IInv, NEW s \in Sessions, Wanted(s) # {}, tx[s].op # "reconcile",
         ~(tx[s].op = "settle" /\ tx[s].inc > 0)
  PROVE  \/ tx[s].op = "reserve" /\ Wanted(s) = {"answers"}
         \/ tx[s].op = "authorize" /\ Wanted(s) = {"advisory"}
         \/ /\ tx[s].op = "settle" /\ tx[s].at = "row" /\ Wanted(s) = {tx[s].rid}
            /\ tx[s].rid \in Rids
         \/ Wanted(s) = {"grants"}
<1>1. tx[s] \in Transaction /\ Fits(tx[s])
  BY Mine
<1>2. tx[s].op \in {"idle", "reserve", "authorize", "settle"}
  BY <1>1 DEF Transaction
<1>3. tx[s].op # "idle"
  BY <1>1 DEF Fits, Idle, Wanted
<1>4. CASE tx[s].op = "reserve"
  BY <1>1, <1>4 DEF Fits, ReserveFits, Wanted
<1>5. CASE tx[s].op = "authorize"
  BY <1>1, <1>5 DEF Fits, AuthorizeFits, Wanted
<1>6. CASE tx[s].op = "settle"
  BY <1>1, <1>6 DEF Fits, SettleFits, Wanted
<1> QED BY <1>2, <1>3, <1>4, <1>5, <1>6

\* Reservations, calls and ordinary settlements of billing.py lock in an order that
\* cannot deadlock: nobody waits for the grants, so nobody who has locked its row waits, so
\* nobody holds the answer quota and waits, so nobody holds the advisory lock and
\* waits.
THEOREM OrderedLocks == Spec => []DeadlocksNamed
<1>1. IInv => DeadlocksNamed
  <2> SUFFICES ASSUME IInv, NEW S \in SUBSET Sessions, Deadlocked(S),
                      \A s \in S : tx[s].op # "reconcile" /\ ~(tx[s].op = "settle" /\ tx[s].inc > 0)
               PROVE  FALSE
    BY DEF DeadlocksNamed
  <2>1. \A s \in S : Wanted(s) # {} /\ \A x \in Wanted(s) : \E t \in S \ {s} : x \in tx[t].holds
    BY DEF Deadlocked
  <2>2. PICK s \in S : TRUE
    BY DEF Deadlocked
  <2>3. \A t \in S : "grants" \notin Wanted(t)
    BY <2>1, Holdings
  <2>4. \A t \in S : ~(tx[t].op = "settle" /\ tx[t].at = "row" /\ Wanted(t) = {tx[t].rid}
                        /\ tx[t].rid \in Rids)
    <3> SUFFICES ASSUME NEW t \in S, tx[t].op = "settle", Wanted(t) = {tx[t].rid},
                        tx[t].rid \in Rids
                 PROVE  FALSE
      OBVIOUS
    <3>1. PICK u \in S \ {t} : tx[t].rid \in tx[u].holds
      BY <2>1
    <3>2. tx[u].op = "settle" /\ tx[u].rid = tx[t].rid
      BY <3>1, Holdings DEF IInv, Apart
    <3>3. tx[u].at # "row"
      BY <3>1, <3>2, Holdings
    <3>4. "grants" \in Wanted(u)
      BY <2>1, <3>2, <3>3, Waits
    <3> QED BY <2>3, <3>4
  <2>5. \A t \in S : ~(tx[t].op = "reserve" /\ Wanted(t) = {"answers"})
    <3> SUFFICES ASSUME NEW t \in S, tx[t].op = "reserve", Wanted(t) = {"answers"} PROVE FALSE
      OBVIOUS
    <3>1. PICK u \in S \ {t} : "answers" \in tx[u].holds
      BY <2>1
    <3>2. tx[u].op # "settle"
      BY <2>1, <2>3, <2>4, Waits
    <3>3. tx[u].op = "reserve"
      BY <3>1, <3>2, Holdings
    <3>4. "advisory" \in tx[t].holds \cap tx[u].holds
      BY <3>3, Holdings
    <3> QED BY <3>4 DEF IInv, Exclusive
  <2>6. \A t \in S : tx[t].op = "authorize" /\ Wanted(t) = {"advisory"}
    BY <2>1, <2>3, <2>4, <2>5, Waits
  <2>7. PICK t \in S \ {s} : "advisory" \in tx[t].holds
    BY <2>1, <2>6
  <2>8. PICK u \in S \ {t} : "advisory" \in tx[u].holds
    BY <2>1, <2>6
  <2> QED BY <2>7, <2>8 DEF IInv, Exclusive
<1> QED BY <1>1, Inductive, PTL

-----------------------------------------------------------------------------
\* The cap.

NetOf == [r \in Rids |-> Net(r)]
HeldOf == [r \in Rids |-> IF Active(r) THEN resv[r].est ELSE 0]
ClosedOf == [r \in Rids |-> IF Active(r) THEN 0 ELSE used[r] - over[r]]

\* The four sums as totals of functions on the reservations.
LEMMA Totals ==
  /\ NetLoad = SumFunction(NetOf) /\ Held = SumFunction(HeldOf)
  /\ Closed = SumFunction(ClosedOf) /\ Usage = SumFunction(used)
BY DEF NetLoad, Held, Closed, Usage, NetOf, HeldOf, ClosedOf

\* The sums are numbers; what is held and what is closed make up the load, and
\* what is closed was used.
CapSums ==
  /\ NetOf \in [Rids -> Int] /\ ClosedOf \in [Rids -> Int] /\ used \in [Rids -> Nat]
  /\ NetLoad \in Int /\ Held \in Nat /\ Closed \in Int /\ Usage \in Nat
  /\ NetLoad = Held + Closed /\ Closed <= Usage
  /\ Cap \in Nat

\* These facts about the sums follow from the shape of the rows.
LEMMA CapNumbers == IInv => CapSums
<1> SUFFICES ASSUME IInv PROVE CapSums
  OBVIOUS
<1>1. \A r \in Rids : resv[r].est \in Nat /\ used[r] \in Nat /\ over[r] \in Nat
  BY RowFacts
<1>2. /\ NetOf \in [Rids -> Int] /\ ClosedOf \in [Rids -> Int]
      /\ HeldOf \in [Rids -> Nat] /\ HeldOf \in [Rids -> Int]
  BY <1>1 DEF NetOf, ClosedOf, HeldOf, Net
<1>3. used \in [Rids -> Nat] /\ used \in [Rids -> Int]
  BY <1>1 DEF IInv, RowsOK
<1>4. NetLoad \in Int /\ Closed \in Int
  BY <1>2, RidsFinite, TotalInt, Totals
<1>5. Held \in Nat /\ Usage \in Nat
  BY <1>2, <1>3, RidsFinite, TotalNat, Totals
<1>6. \A r \in Rids : NetOf[r] = HeldOf[r] + ClosedOf[r] /\ ClosedOf[r] <= used[r]
  BY <1>1 DEF NetOf, ClosedOf, HeldOf, Net
<1>7. NetLoad = Held + Closed
  BY <1>2, <1>6, RidsFinite, TotalPlus, Totals
<1>8. Closed <= Usage
  BY <1>2, <1>3, <1>6, RidsFinite, TotalLess, Totals
<1> QED
  BY <1>2, <1>3, <1>4, <1>5, <1>7, <1>8, AmountsNat DEF CapSums

\* What one reservation's row changes, it changes in the sums.
LEMMA NetChange ==
  ASSUME IInv, IInv', NEW r \in Rids,
         \A q \in Rids \ {r} : resv'[q] = resv[q] /\ used'[q] = used[q] /\ over'[q] = over[q]
  PROVE  /\ NetLoad' = NetLoad + Net(r)' - Net(r)
         /\ Closed' = Closed + (ClosedOf')[r] - ClosedOf[r]
         /\ Usage' = Usage + used'[r] - used[r]
<1>1. /\ NetOf \in [Rids -> Int] /\ ClosedOf \in [Rids -> Int] /\ used \in [Rids -> Nat]
  BY CapNumbers DEF CapSums
<1>2. /\ NetOf' \in [Rids -> Int] /\ ClosedOf' \in [Rids -> Int] /\ used' \in [Rids -> Nat]
  <2>1. IInv' => CapSums'
    BY CapNumbers, PTL
  <2> QED
    BY <2>1 DEF CapSums
<1>3. \A q \in Rids \ {r} : /\ (NetOf')[q] = NetOf[q] /\ (ClosedOf')[q] = ClosedOf[q]
                            /\ used'[q] = used[q]
  BY DEF NetOf, ClosedOf, Net, Active
<1>4. NetOf[r] = Net(r) /\ (NetOf')[r] = Net(r)'
  BY DEF NetOf, Net, Active
<1>5. /\ NetLoad' = SumFunction(NetOf') /\ Closed' = SumFunction(ClosedOf')
      /\ Usage' = SumFunction(used')
  BY DEF NetLoad, Closed, Usage, NetOf, ClosedOf
<1>6. SumFunction(NetOf') = SumFunction(NetOf) + (NetOf')[r] - NetOf[r]
  BY <1>1, <1>2, <1>3, RidsFinite, TotalChange
<1>7. SumFunction(ClosedOf') = SumFunction(ClosedOf) + (ClosedOf')[r] - ClosedOf[r]
  BY <1>1, <1>2, <1>3, RidsFinite, TotalChange
<1>8. SumFunction(used') = SumFunction(used) + used'[r] - used[r]
  <2>1. used \in [Rids -> Int] /\ used' \in [Rids -> Int]
    BY <1>1, <1>2
  <2> QED
    BY <1>3, <2>1, RidsFinite, TotalChange
<1> QED
  BY <1>4, <1>5, <1>6, <1>7, <1>8, Totals

\* Without a change of rows the sums stay.
LEMMA RowsSame ==
  ASSUME UNCHANGED <<resv, used, over>>
  PROVE  NetLoad' = NetLoad /\ Held' = Held /\ Closed' = Closed /\ Usage' = Usage
BY DEF NetLoad, Held, Closed, Usage, Net, Active

\* A step of a session's own transaction that changes no row.
LEMMA CapQuiet ==
  ASSUME CapInv, IInv', NEW s \in Sessions, NEW x, tx' = [tx EXCEPT ![s] = x], UNCHANGED rows,
         seen' \in [Sessions -> Nat], \A t \in Sessions \ {s} : seen'[t] = seen[t],
         x.at = "active" => seen'[s] <= Usage /\ Closed <= seen'[s] + unseen,
         x.op \in {"reserve", "authorize"} /\ x.at = "grants" => NetLoad + x.inc <= Cap + unseen,
         x.op = "authorize" /\ x.at # "advisory" => "advisory" \in x.holds
  PROVE  CapInv'
<1>1. NetLoad' = NetLoad /\ Closed' = Closed /\ Usage' = Usage /\ unseen' = unseen
  BY RowsSame DEF rows
<1>2. tx'[s] = x /\ \A t \in Sessions \ {s} : tx'[t] = tx[t]
  BY DEF CapInv, IInv, RowsOK
<1>3. \A t \in Sessions \ {s} : Checked(t)'
  BY <1>1, <1>2 DEF CapInv, Checked
<1>4. Checked(s)'
  BY <1>1, <1>2 DEF Checked
<1> QED
  BY <1>1, <1>3, <1>4 DEF CapInv

\* A step that changes rows and leaves every open transaction as it is or ends it.
LEMMA CapRows ==
  ASSUME CapInv, IInv', unseen' \in Nat, seen' \in [Sessions -> Nat],
         NetLoad' <= Cap + unseen', Usage <= Usage',
         \A t \in Sessions :
           \/ tx'[t] = Idle
           \/ /\ tx'[t] = tx[t] /\ seen'[t] = seen[t]
              /\ tx[t].at = "active" => Closed' <= seen[t] + unseen'
              /\ tx[t].op \in {"reserve", "authorize"} /\ tx[t].at = "grants" =>
                   NetLoad' + tx[t].inc <= Cap + unseen'
  PROVE  CapInv'
<1> SUFFICES ASSUME NEW t \in Sessions PROVE Checked(t)'
  BY DEF CapInv
<1>1. CASE tx'[t] = Idle
  BY <1>1 DEF Checked, Idle
<1>2. CASE tx'[t] # Idle
  <2>1. /\ tx'[t] = tx[t] /\ seen'[t] = seen[t]
        /\ tx[t].at = "active" => Closed' <= seen[t] + unseen'
        /\ tx[t].op \in {"reserve", "authorize"} /\ tx[t].at = "grants" =>
             NetLoad' + tx[t].inc <= Cap + unseen'
    BY <1>2
  <2>2. tx[t].at = "active" => seen[t] <= Usage'
    <3>1. Usage \in Nat /\ seen[t] \in Nat
      BY CapNumbers DEF CapInv, CapSums
    <3>2. Usage' \in Nat
      <4>1. IInv' => CapSums'
        BY CapNumbers, PTL
      <4> QED
        BY <4>1 DEF CapSums
    <3>3. tx[t].at = "active" => seen[t] <= Usage
      BY DEF CapInv, Checked
    <3> QED
      BY <3>1, <3>2, <3>3
  <2>3. Checked(t)
    BY DEF CapInv
  <2> QED
    BY <2>1, <2>2, <2>3 DEF Checked
<1> QED
  BY <1>1, <1>2

\* Before the first reservation nothing is taken of the cap.
LEMMA InitCap == Init => CapInv
<1> SUFFICES ASSUME Init PROVE CapInv
  OBVIOUS
<1>1. IInv
  BY InitInv
<1>2. \A r \in Rids : NetOf[r] = 0
  BY DEF Init, NetOf, Net, Active, NoRow
<1>3. NetLoad = 0
  BY <1>1, <1>2, CapNumbers, RidsFinite, TotalZero, Totals DEF CapSums
<1>4. \A s \in Sessions : Checked(s)
  BY DEF Init, Checked, Idle
<1>5. Cap \in Nat
  BY AmountsNat
<1> QED
  BY <1>1, <1>3, <1>4, <1>5 DEF Init, CapInv

\* What a step that only moves its own transaction finds in it.
LEMMA CapMine ==
  ASSUME CapInv, NEW s \in Sessions
  PROVE  /\ tx[s] \in Transaction /\ Fits(tx[s]) /\ Checked(s)
         /\ tx \in [Sessions -> Transaction] /\ seen \in [Sessions -> Nat]
         /\ unseen \in Nat /\ NetLoad <= Cap + unseen
         /\ CapSums
BY Mine, CapNumbers DEF CapInv, IInv, RowsOK

\* A transaction begins.
LEMMA CapBegins ==
  ASSUME CapInv, IInv', NEW s \in Sessions, NEW y \in Transaction, NEW l, Begin(s, y, l),
         y.at \notin {"active"}, y.op \in {"reserve", "authorize"} => y.at # "grants",
         y.op = "authorize" => y.at = "advisory"
  PROVE  CapInv'
<1> DEFINE x == [y EXCEPT !.holds = {l}]
<1>1. tx' = [tx EXCEPT ![s] = x] /\ UNCHANGED rows /\ seen' = seen
  BY DEF Begin
<1>2. x.op = y.op /\ x.at = y.at
  BY DEF Transaction
<1>3. seen' \in [Sessions -> Nat]
  BY <1>1, CapMine
<1> HIDE DEF x
<1> QED
  BY <1>1, <1>2, <1>3, CapQuiet

\* A transaction gets a lock that does not follow the cap check.
LEMMA CapLocks ==
  ASSUME CapInv, IInv', NEW s \in Sessions, NEW x,
         tx' = [tx EXCEPT ![s] = x], UNCHANGED <<rows, seen>>,
         x.at # "active", x.op \in {"reserve", "authorize"} => x.at # "grants",
         x.op = "authorize" => "advisory" \in x.holds
  PROVE  CapInv'
<1>1. seen' \in [Sessions -> Nat] /\ \A t \in Sessions \ {s} : seen'[t] = seen[t]
  BY CapMine
<1> QED
  BY <1>1, CapQuiet

\* reserve_credits begins.
LEMMA ReserveStartCap ==
  ASSUME CapInv, IInv', NEW s \in Sessions, NEW r \in Rids, NEW e \in Estimates, NEW a \in BOOLEAN,
         ReserveStart(s, r, e, a)
  PROVE  CapInv'
<1> DEFINE y == [Idle EXCEPT !.op = "reserve", !.at = IF a THEN "answers" ELSE "usage",
                             !.rid = r, !.inc = e]
<1>1. y \in Transaction /\ y.op = "reserve" /\ y.at \notin {"active", "grants"}
  BY AmountsNat DEF Idle, Transaction
<1>2. Begin(s, y, "advisory")
  BY DEF ReserveStart
<1> HIDE DEF y
<1> QED
  BY <1>1, <1>2, CapBegins

\* authorize_next_model_call begins.
LEMMA AuthorizeStartCap ==
  ASSUME CapInv, IInv', NEW s \in Sessions, NEW r \in Rids, AuthorizeStart(s, r)
  PROVE  CapInv'
<1> DEFINE y == [Idle EXCEPT !.op = "authorize", !.at = "advisory", !.rid = r,
                             !.inc = Increment(r)]
<1>1. Increment(r) \in Nat
  BY RowFacts DEF Increment, CapInv
<1>2. y \in Transaction /\ y.op = "authorize" /\ y.at = "advisory"
  BY <1>1 DEF Idle, Transaction
<1>3. Begin(s, y, r)
  BY DEF AuthorizeStart
<1> HIDE DEF y
<1> QED
  BY <1>2, <1>3, CapBegins

\* settle_reservation begins with its row.
LEMMA SettleStartCap ==
  ASSUME CapInv, IInv', NEW s \in Sessions, NEW r \in Rids, SettleStart(s, r)
  PROVE  CapInv'
<1> DEFINE y == [Idle EXCEPT !.op = "settle", !.at = AfterRow(r), !.rid = r,
                             !.inc = Excess(r)]
<1>1. y \in Transaction /\ y.op = "settle" /\ y.at # "active"
  BY ExcessNat DEF Idle, Transaction, CapInv
<1>2. Begin(s, y, r)
  BY DEF SettleStart
<1> HIDE DEF y
<1> QED
  BY <1>1, <1>2, CapBegins

\* The settlement at the end of a grading run begins with the answer quota.
LEMMA SettleRunStartCap ==
  ASSUME CapInv, IInv', NEW s \in Sessions, NEW r \in Rids, SettleRunStart(s, r)
  PROVE  CapInv'
<1> DEFINE y == [Idle EXCEPT !.op = "settle", !.at = "row", !.rid = r]
<1>1. y \in Transaction /\ y.op = "settle" /\ y.at # "active"
  BY DEF Idle, Transaction
<1>2. Begin(s, y, "answers")
  BY DEF SettleRunStart
<1> HIDE DEF y
<1> QED
  BY <1>1, <1>2, CapBegins

\* reconcile_stale_reservations begins.
LEMMA ReconcileStartCap ==
  ASSUME CapInv, IInv', NEW s \in Sessions, NEW r \in Rids, NEW stale \in SUBSET Rids,
         ReconcileStart(s, stale, r)
  PROVE  CapInv'
<1> DEFINE y == [Idle EXCEPT !.op = "reconcile", !.at = "grants",
                             !.todo = stale \ {r}, !.done = {r}]
<1>1. y \in Transaction /\ y.op = "reconcile" /\ y.at # "active"
  BY DEF Idle, Transaction
<1>2. Begin(s, y, r)
  BY DEF ReconcileStart
<1> HIDE DEF y
<1> QED
  BY <1>1, <1>2, CapBegins

\* A transaction gets a later lock.
LEMMA LockCap ==
  ASSUME CapInv, IInv', NEW s \in Sessions, NEW l, NEW p, Lock(s, l, p), p \in {"usage", "row"},
         tx[s].op = "authorize" => l = "advisory"
  PROVE  CapInv'
<1> DEFINE x == [tx[s] EXCEPT !.holds = @ \cup {l}, !.at = p]
<1>1. tx' = [tx EXCEPT ![s] = x] /\ UNCHANGED <<rows, seen>>
  BY CapMine DEF Lock, Transaction
<1>2. x.op = tx[s].op /\ x.at = p /\ l \in x.holds
  BY CapMine DEF Transaction
<1> HIDE DEF x
<1> QED
  BY <1>1, <1>2, CapLocks

\* The advisory lock, the answer quota and the grants.
LEMMA LocksCap ==
  ASSUME CapInv, IInv', NEW s \in Sessions, Advisory(s) \/ Answers(s) \/ ReconcileGrants(s)
  PROVE  CapInv'
<1>1. CASE Advisory(s)
  BY <1>1, LockCap DEF Advisory
<1>2. CASE Answers(s)
  <2>1. tx[s].op # "authorize"
    BY <1>2, CapMine DEF Answers, Fits, AuthorizeFits
  <2> QED
    BY <1>2, <2>1, LockCap DEF Answers
<1>3. CASE ReconcileGrants(s)
  BY <1>3, LockCap DEF ReconcileGrants
<1> QED
  BY <1>1, <1>2, <1>3

\* The settlement of a grading run gets its row.
LEMMA SettleRowCap ==
  ASSUME CapInv, IInv', NEW s \in Sessions, SettleRow(s)
  PROVE  CapInv'
<1> DEFINE r == tx[s].rid
           x == [tx[s] EXCEPT !.holds = @ \cup {r}, !.at = AfterRow(r), !.inc = Excess(r)]
<1>1. tx[s].op = "settle" /\ r \in Rids
  BY CapMine DEF SettleRow, Fits, SettleFits
<1>2. tx' = [tx EXCEPT ![s] = x] /\ UNCHANGED <<rows, seen>>
  BY CapMine DEF SettleRow, Transaction
<1>3. x.op = "settle" /\ x.at # "active"
  BY <1>1, CapMine, ExcessNat DEF Transaction, CapInv
<1> HIDE DEF x
<1> QED
  BY <1>2, <1>3, CapLocks

\* The reconciliation locks the next row.
LEMMA ReconcileRowCap ==
  ASSUME CapInv, IInv', NEW s \in Sessions, NEW r \in Rids, ReconcileRow(s, r)
  PROVE  CapInv'
<1> DEFINE x == [tx[s] EXCEPT !.holds = @ \cup {r}, !.at = "grants",
                              !.todo = @ \ {r}, !.done = @ \cup {r}]
<1>1. tx' = [tx EXCEPT ![s] = x] /\ UNCHANGED <<rows, seen>>
  BY CapMine DEF ReconcileRow, Transaction
<1>2. x.op = "reconcile" /\ x.at # "active"
  BY CapMine DEF ReconcileRow, Transaction
<1> HIDE DEF x
<1> QED
  BY <1>1, <1>2, CapLocks

\* The first read of the cap check: what closed reservations have used was used.
LEMMA ReadUsageCap ==
  ASSUME CapInv, IInv', NEW s \in Sessions, ReadUsage(s)
  PROVE  CapInv'
<1> DEFINE x == [tx[s] EXCEPT !.at = "active"]
<1>1. tx' = [tx EXCEPT ![s] = x] /\ UNCHANGED rows
  BY CapMine DEF ReadUsage, Transaction
<1>2. x.op = tx[s].op /\ x.at = "active" /\ x.holds = tx[s].holds
  BY CapMine DEF Transaction
<1>3. /\ seen' \in [Sessions -> Nat] /\ seen'[s] = Usage
      /\ \A t \in Sessions \ {s} : seen'[t] = seen[t]
  BY CapMine DEF ReadUsage, CapSums
<1>4. Closed <= seen'[s] + unseen /\ seen'[s] <= Usage
  BY <1>3, CapMine DEF CapSums
<1>5. x.op = "authorize" => "advisory" \in x.holds
  BY <1>2, CapMine DEF Checked, ReadUsage
<1> HIDE DEF x
<1> QED
  BY <1>1, <1>2, <1>3, <1>4, <1>5, CapQuiet

\* The second read: what is held and what was read of the closed make up the load.
LEMMA ReadActiveCap ==
  ASSUME CapInv, IInv', NEW s \in Sessions, ReadActive(s)
  PROVE  CapInv'
<1> DEFINE x == [tx[s] EXCEPT !.at = "grants"]
<1>1. tx' = [tx EXCEPT ![s] = x] /\ UNCHANGED rows
  BY CapMine DEF ReadActive, Transaction
<1>2. x.op = tx[s].op /\ x.at = "grants" /\ x.holds = tx[s].holds /\ x.inc = tx[s].inc
      /\ tx[s].inc \in Nat
  BY CapMine DEF Transaction
<1>3. seen' \in [Sessions -> Nat] /\ \A t \in Sessions \ {s} : seen'[t] = seen[t]
  BY CapMine DEF ReadActive
<1>4. seen[s] + Held + tx[s].inc <= Cap /\ Closed <= seen[s] + unseen
  BY CapMine DEF ReadActive, Checked
<1>5. NetLoad + tx[s].inc <= Cap + unseen
  BY <1>2, <1>4, CapMine DEF CapSums
<1>6. x.op = "authorize" => "advisory" \in x.holds
  BY <1>2, CapMine DEF Checked, ReadActive
<1> HIDE DEF x
<1> QED
  BY <1>1, <1>2, <1>3, <1>5, <1>6, CapQuiet

\* A transaction ends without writing.
LEMMA RollbackCap ==
  ASSUME CapInv, IInv', NEW s \in Sessions, Rollback(s)
  PROVE  CapInv'
<1>1. seen' \in [Sessions -> Nat] /\ \A t \in Sessions \ {s} : seen'[t] = seen[t]
  BY CapMine DEF Rollback, End
<1>2. PICK x : x = Idle
  OBVIOUS
<1>3. tx' = [tx EXCEPT ![s] = x] /\ UNCHANGED rows /\ x.op = "idle" /\ x.at = "idle"
  BY <1>2 DEF Rollback, End, Idle
<1> QED
  BY <1>1, <1>3, CapQuiet

\* The sums after a step.
LEMMA NextNumbers == IInv' => CapSums'
BY CapNumbers, PTL

\* What the sums and the bound are, whoever takes the step.
LEMMA CapFacts ==
  ASSUME CapInv, IInv'
  PROVE  /\ Cap \in Nat /\ unseen \in Nat /\ seen \in [Sessions -> Nat]
         /\ NetLoad \in Int /\ Closed \in Int /\ Usage \in Nat
         /\ NetLoad' \in Int /\ Closed' \in Int /\ Usage' \in Nat /\ Closed' <= Usage'
         /\ NetLoad <= Cap + unseen
<1>1. CapSums /\ CapSums'
  BY CapNumbers, NextNumbers DEF CapInv
<1> QED
  BY <1>1 DEF CapSums, CapInv

\* Nobody else passes a cap check while a session holds the advisory lock.
LEMMA AloneInside ==
  ASSUME CapInv, NEW s \in Sessions, "advisory" \in tx[s].holds, NEW t \in Sessions \ {s},
         tx[t].op \in {"reserve", "authorize"}, tx[t].at = "grants"
  PROVE  FALSE
<1>1. "advisory" \in tx[t].holds
  BY CapMine DEF Fits, ReserveFits, Checked
<1> QED
  BY <1>1 DEF CapInv, IInv, Exclusive

\* The new reservation takes what its own cap check found free.
LEMMA ReserveCommitCap ==
  ASSUME CapInv, IInv', NEW s \in Sessions, ReserveCommit(s)
  PROVE  CapInv'
<1>1. ReserveFits(tx[s]) /\ tx[s].rid \in Rids
  BY CapMine DEF ReserveCommit, Fits, ReserveFits
<1> PICK r \in Rids : r = tx[s].rid
  BY <1>1
<1>2. used[r] = 0 /\ over[r] = 0 /\ ~Active(r) /\ tx[s].inc \in Nat
  BY <1>1, RowFacts, CapMine DEF ReserveFits, RowFits, Active, CapInv, Transaction
<1>3. /\ \A q \in Rids \ {r} : resv'[q] = resv[q]
      /\ resv'[r].status = "active" /\ resv'[r].est = tx[s].inc
      /\ UNCHANGED <<used, over, unseen>>
  BY DEF ReserveCommit, CapInv, IInv, RowsOK
<1>4. /\ NetLoad' = NetLoad + Net(r)' - Net(r)
      /\ Closed' = Closed + (ClosedOf')[r] - ClosedOf[r]
      /\ Usage' = Usage + used'[r] - used[r]
  BY <1>3, NetChange DEF CapInv
<1>5. Net(r) = 0 /\ Net(r)' = tx[s].inc /\ ClosedOf[r] = 0 /\ (ClosedOf')[r] = 0
  BY <1>2, <1>3 DEF Net, ClosedOf, Active
<1>6. NetLoad' = NetLoad + tx[s].inc /\ Closed' = Closed /\ Usage' = Usage
  BY <1>2, <1>3, <1>4, <1>5, CapMine DEF CapSums
<1>7. NetLoad' <= Cap + unseen'
  BY <1>3, <1>6, CapMine DEF Checked, ReserveCommit
<1>8. seen' \in [Sessions -> Nat] /\ tx'[s] = Idle
      /\ \A t \in Sessions \ {s} : tx'[t] = tx[t] /\ seen'[t] = seen[t]
  BY CapMine DEF ReserveCommit, End
<1>9. \A t \in Sessions \ {s} :
         ~(tx[t].op \in {"reserve", "authorize"} /\ tx[t].at = "grants")
  BY <1>1, AloneInside DEF ReserveFits
<1>10. \A t \in Sessions : tx[t].at = "active" => Closed' <= seen[t] + unseen'
  BY <1>3, <1>6, CapMine DEF Checked
<1>11. Usage <= Usage' /\ unseen' \in Nat
  BY <1>3, <1>6, CapMine DEF CapSums
<1>12. \A t \in Sessions :
         \/ tx'[t] = Idle
         \/ /\ tx'[t] = tx[t] /\ seen'[t] = seen[t]
            /\ tx[t].at = "active" => Closed' <= seen[t] + unseen'
            /\ tx[t].op \in {"reserve", "authorize"} /\ tx[t].at = "grants" =>
                 NetLoad' + tx[t].inc <= Cap + unseen'
  BY <1>8, <1>9, <1>10
<1> QED
  BY <1>7, <1>8, <1>11, <1>12, CapRows

\* The extension of an estimate takes what its cap check found free.
LEMMA AuthorizeCommitCap ==
  ASSUME CapInv, IInv', NEW s \in Sessions, AuthorizeCommit(s)
  PROVE  CapInv'
<1>1. AuthorizeFits(tx[s]) /\ tx[s].rid \in Rids /\ tx[s].inc \in Nat
  BY CapMine DEF AuthorizeCommit, Fits, AuthorizeFits, Transaction
<1> PICK r \in Rids : r = tx[s].rid
  BY <1>1
<1>2. Active(r) /\ resv[r] \in Row
  BY <1>1, RowFacts DEF AuthorizeFits, CapInv
<1>3. /\ \A q \in Rids \ {r} : resv'[q] = resv[q]
      /\ resv'[r].status = "active" /\ resv'[r].est = resv[r].est + tx[s].inc
      /\ UNCHANGED <<used, over, unseen>>
  BY <1>2 DEF AuthorizeCommit, CapInv, IInv, RowsOK, Active, Row
<1>4. /\ NetLoad' = NetLoad + Net(r)' - Net(r)
      /\ Closed' = Closed + (ClosedOf')[r] - ClosedOf[r]
      /\ Usage' = Usage + used'[r] - used[r]
  BY <1>3, NetChange DEF CapInv
<1>5. /\ Net(r) = resv[r].est /\ Net(r)' = resv[r].est + tx[s].inc
      /\ ClosedOf[r] = 0 /\ (ClosedOf')[r] = 0
      /\ resv[r].est \in Nat /\ used[r] \in Nat
  BY <1>2, <1>3, RowFacts DEF Net, ClosedOf, Active, CapInv
<1>6. NetLoad' = NetLoad + tx[s].inc /\ Closed' = Closed /\ Usage' = Usage
  BY <1>1, <1>3, <1>4, <1>5, CapMine DEF CapSums
<1>7. NetLoad' <= Cap + unseen'
  BY <1>3, <1>6, CapMine DEF Checked, AuthorizeCommit
<1>8. seen' \in [Sessions -> Nat] /\ tx'[s] = Idle
      /\ \A t \in Sessions \ {s} : tx'[t] = tx[t] /\ seen'[t] = seen[t]
  BY CapMine DEF AuthorizeCommit, End
<1>9. \A t \in Sessions \ {s} :
         ~(tx[t].op \in {"reserve", "authorize"} /\ tx[t].at = "grants")
  <2>1. "advisory" \in tx[s].holds
    BY CapMine DEF Checked, AuthorizeCommit
  <2> QED
    BY <2>1, AloneInside
<1>10. \A t \in Sessions : tx[t].at = "active" => Closed' <= seen[t] + unseen'
  BY <1>3, <1>6, CapMine DEF Checked
<1>11. Usage <= Usage' /\ unseen' \in Nat
  BY <1>3, <1>6, CapMine DEF CapSums
<1>12. \A t \in Sessions :
         \/ tx'[t] = Idle
         \/ /\ tx'[t] = tx[t] /\ seen'[t] = seen[t]
            /\ tx[t].at = "active" => Closed' <= seen[t] + unseen'
            /\ tx[t].op \in {"reserve", "authorize"} /\ tx[t].at = "grants" =>
                 NetLoad' + tx[t].inc <= Cap + unseen'
  BY <1>8, <1>9, <1>10
<1> QED
  BY <1>7, <1>8, <1>11, <1>12, CapRows

\* Only the authorised amount of a covered call changes: the load does not.
LEMMA AuthorizeCoveredCap ==
  ASSUME CapInv, IInv', NEW s \in Sessions, NEW r \in Rids, AuthorizeCovered(s, r)
  PROVE  CapInv'
<1>1. Active(r) /\ resv[r] \in Row
  BY RowFacts DEF AuthorizeCovered, Calls, CapInv
<1>2. /\ \A q \in Rids : Net(q)' = Net(q) /\ Active(q)' = Active(q)
      /\ UNCHANGED <<used, over, unseen, tx, seen>>
  BY <1>1 DEF AuthorizeCovered, CapInv, IInv, RowsOK, Net, Active, Row
<1>3. NetLoad' = NetLoad
  BY <1>2 DEF NetLoad
<1>4. Closed' = Closed /\ Usage' = Usage
  <2>1. [q \in Rids |-> IF Active(q) THEN 0 ELSE used[q] - over[q]]'
          = [q \in Rids |-> IF Active(q) THEN 0 ELSE used[q] - over[q]]
    BY <1>2
  <2> QED
    BY <1>2, <2>1 DEF Closed, Usage
<1>5. \A t \in Sessions : Checked(t)'
  BY <1>2, <1>3, <1>4 DEF CapInv, Checked
<1> QED
  BY <1>2, <1>3, <1>5 DEF CapInv

\* What a closing transaction notes as unseen covers every open cap check.
LEMMA SlipCovers ==
  ASSUME CapInv, NEW s \in Sessions
  PROVE  /\ Slip(s) \in Nat
         /\ \A t \in Sessions \ {s} : tx[t].at = "active" => Usage <= seen[t] + Slip(s)
<1> DEFINE f == [t \in Sessions |-> IF t = s THEN 0 ELSE Missed(t)]
<1>1. \A t \in Sessions : Missed(t) \in Nat
  <2> SUFFICES ASSUME NEW t \in Sessions PROVE Missed(t) \in Nat
    OBVIOUS
  <2>1. Usage \in Nat /\ seen[t] \in Nat /\ (tx[t].at = "active" => seen[t] <= Usage)
    BY CapMine DEF CapSums, Checked
  <2> QED
    BY <2>1 DEF Missed
<1>2. f \in [Sessions -> Nat]
  BY <1>1
<1>3. SumFunction(f) = Slip(s)
  BY DEF Slip
<1>4. \A t \in Sessions \ {s} : f[t] = Missed(t)
  OBVIOUS
<1> HIDE DEF f
<1>5. Slip(s) \in Nat
  BY <1>2, <1>3, SessionsFinite, TotalNat
<1>6. \A t \in Sessions : f[t] <= Slip(s)
  BY <1>2, <1>3, SessionsFinite, TotalBound
<1>7. ASSUME NEW t \in Sessions \ {s}, tx[t].at = "active" PROVE Usage <= seen[t] + Slip(s)
  <2>1. Usage - seen[t] <= Slip(s)
    BY <1>4, <1>6, <1>7 DEF Missed
  <2>2. Usage \in Nat /\ seen[t] \in Nat
    BY CapMine DEF CapSums
  <2> QED
    BY <1>5, <2>1, <2>2
<1> QED
  BY <1>5, <1>7

\* Reservations are closed: the load does not grow, and what the open cap checks
\* miss is noted.
LEMMA CapCloses ==
  ASSUME CapInv, IInv', NEW s \in Sessions, End(s), unseen' = unseen + Slip(s),
         UNCHANGED <<used, over>>, NetLoad' <= NetLoad
  PROVE  CapInv'
<1>1. Slip(s) \in Nat /\ unseen \in Nat /\ unseen' \in Nat
  BY SlipCovers, CapMine
<1>2. /\ Cap \in Nat /\ NetLoad \in Int /\ NetLoad' \in Int /\ Closed' \in Int /\ Usage \in Nat
      /\ Closed' <= Usage' /\ NetLoad <= Cap + unseen
  BY CapFacts
<1>3. NetLoad' <= Cap + unseen'
  BY <1>1, <1>2
<1>4. Usage' = Usage /\ Usage <= Usage' /\ Closed' <= Usage
  <2>1. Usage' = Usage
    BY DEF Usage
  <2> QED
    BY <1>2, <2>1
<1>5. seen' \in [Sessions -> Nat] /\ tx'[s] = Idle
      /\ \A t \in Sessions \ {s} : tx'[t] = tx[t] /\ seen'[t] = seen[t]
  BY CapMine DEF End
<1>6. ASSUME NEW t \in Sessions \ {s}, tx[t].at = "active" PROVE Closed' <= seen[t] + unseen'
  <2>1. Usage <= seen[t] + Slip(s)
    BY <1>6, SlipCovers
  <2>2. seen[t] \in Nat /\ Closed' \in Int /\ Usage \in Nat
    BY <1>2, CapMine
  <2> QED
    BY <1>1, <1>4, <2>1, <2>2
<1>7. ASSUME NEW t \in Sessions, tx[t].op \in {"reserve", "authorize"}, tx[t].at = "grants"
      PROVE  NetLoad' + tx[t].inc <= Cap + unseen'
  <2>1. NetLoad + tx[t].inc <= Cap + unseen /\ tx[t].inc \in Nat
    BY <1>7, CapMine DEF Checked, Transaction
  <2> QED
    BY <1>1, <1>2, <2>1
<1>8. \A t \in Sessions :
         \/ tx'[t] = Idle
         \/ /\ tx'[t] = tx[t] /\ seen'[t] = seen[t]
            /\ tx[t].at = "active" => Closed' <= seen[t] + unseen'
            /\ tx[t].op \in {"reserve", "authorize"} /\ tx[t].at = "grants" =>
                 NetLoad' + tx[t].inc <= Cap + unseen'
  BY <1>5, <1>6, <1>7
<1> QED
  BY <1>1, <1>3, <1>4, <1>5, <1>8, CapRows

\* An active reservation has used no more than its estimate, but for dear calls.
LEMMA UsedWithin ==
  ASSUME IInv, NEW r \in Rids, Active(r)
  PROVE  used[r] - over[r] <= resv[r].est
<1> DEFINE fq == flight[r] * Quote
<1>1. fq \in Nat
  BY RowFacts, OneCallMore
<1>2. used[r] + fq <= resv[r].auth + over[r] /\ resv[r].auth <= resv[r].est
  BY RowFacts DEF RowFits
<1> HIDE DEF fq
<1> QED
  BY <1>1, <1>2, RowFacts

\* settle_reservation closes a reservation.
LEMMA SettleCommitCap ==
  ASSUME CapInv, IInv', NEW s \in Sessions, SettleCommit(s)
  PROVE  CapInv'
<1>1. SettleFits(tx[s]) /\ tx[s].rid \in Rids
  BY CapMine DEF SettleCommit, Fits, SettleFits
<1> PICK r \in Rids : r = tx[s].rid
  BY <1>1
<1>2. Active(r) /\ resv[r] \in Row
  BY <1>1, RowFacts DEF SettleFits, SettleCommit, CapInv
<1>3. /\ \A q \in Rids \ {r} : resv'[q] = resv[q]
      /\ resv'[r].status = "settled"
      /\ UNCHANGED <<used, over>>
  BY <1>2 DEF SettleCommit, CapInv, IInv, RowsOK, Row
<1>4. NetLoad' = NetLoad + Net(r)' - Net(r)
  BY <1>3, NetChange DEF CapInv
<1>5. /\ Net(r) = resv[r].est /\ Net(r)' = used[r] - over[r]
      /\ resv[r].est \in Nat /\ used[r] \in Nat /\ over[r] \in Nat
  BY <1>2, <1>3, RowFacts DEF Net, Active, CapInv
<1>6. used[r] - over[r] <= resv[r].est
  BY <1>2, UsedWithin DEF CapInv
<1>7. NetLoad' <= NetLoad
  BY <1>4, <1>5, <1>6, CapMine DEF CapSums
<1> QED
  BY <1>3, <1>7, CapCloses DEF SettleCommit

\* reconcile_stale_reservations closes several.
LEMMA ReconcileCommitCap ==
  ASSUME CapInv, IInv', NEW s \in Sessions, ReconcileCommit(s)
  PROVE  CapInv'
<1>1. CapSums /\ CapSums'
  BY NextNumbers, CapMine
<1>2. \A q \in Rids : (NetOf')[q] <= NetOf[q]
  <2> SUFFICES ASSUME NEW q \in Rids PROVE Net(q)' <= Net(q)
    BY DEF NetOf, Net, Active
  <2>1. resv[q] \in Row /\ used[q] \in Nat /\ over[q] \in Nat /\ resv[q].est \in Nat
    BY RowFacts DEF CapInv
  <2>2. /\ resv'[q] = IF q \in tx[s].done THEN [resv[q] EXCEPT !.status = "released"] ELSE resv[q]
        /\ UNCHANGED <<used, over>>
    BY DEF ReconcileCommit
  <2>3. CASE q \in tx[s].done
    <3>1. Net(q)' = used[q] - over[q]
      BY <2>1, <2>2, <2>3 DEF Net, Active, Row
    <3>2. Active(q) => used[q] - over[q] <= resv[q].est
      BY UsedWithin DEF CapInv
    <3> QED
      BY <2>1, <3>1, <3>2 DEF Net
  <2>4. CASE q \notin tx[s].done
    BY <2>1, <2>2, <2>4 DEF Net, Active
  <2> QED
    BY <2>3, <2>4
<1>3. NetOf \in [Rids -> Int] /\ NetOf' \in [Rids -> Int]
  BY <1>1 DEF CapSums
<1>4. SumFunction(NetOf') <= SumFunction(NetOf)
  BY <1>2, <1>3, RidsFinite, TotalLess
<1>5. NetLoad' = SumFunction(NetOf') /\ NetLoad = SumFunction(NetOf)
  BY DEF NetLoad, NetOf
<1> QED
  BY <1>4, <1>5, CapCloses DEF ReconcileCommit

\* A call that was never sent returns.
LEMMA UnsentCap ==
  ASSUME CapInv, IInv', NEW r \in Rids, Unsent(r)
  PROVE  CapInv'
<1>1. UNCHANGED <<resv, used, over, unseen, tx, seen>>
  BY DEF Unsent
<1>2. NetLoad' = NetLoad /\ Closed' = Closed /\ Usage' = Usage
  BY <1>1, RowsSame
<1> QED
  BY <1>1, <1>2 DEF CapInv, Checked

\* A bound that leaves room for u leaves room for what grows no more than u does.
LEMMA RoomKept ==
  \A x, y, i, m, u, v \in Int : y - x <= v - u =>
    /\ x <= m + u => y <= m + v
    /\ x + i <= m + u => y + i <= m + v
OBVIOUS

\* record_model_attempt: what a closed reservation's call adds is noted as unseen.
LEMMA RecordCap ==
  ASSUME CapInv, IInv', NEW r \in Rids, NEW k \in Keys, NEW c \in Costs, Record(r, k, c)
  PROVE  CapInv'
<1>1. c \in Nat /\ used[r] \in Nat /\ over[r] \in Nat /\ Quote \in Nat /\ resv[r].est \in Nat
      /\ unseen \in Nat
  BY AmountsNat, RowFacts, CapFacts DEF CapInv
<1>2. /\ \A q \in Rids \ {r} : used'[q] = used[q] /\ over'[q] = over[q]
      /\ UNCHANGED <<resv, tx, seen>>
      /\ used'[r] = IF k \notin keys THEN used[r] + c ELSE used[r]
      /\ over'[r] = IF k \notin keys /\ c > Quote THEN over[r] + c - Quote ELSE over[r]
      /\ unseen' = IF k \notin keys /\ ~Active(r) THEN unseen + c ELSE unseen
  BY DEF Record, CapInv, IInv, RowsOK
<1>3. /\ NetLoad' = NetLoad + Net(r)' - Net(r)
      /\ Closed' = Closed + (ClosedOf')[r] - ClosedOf[r]
      /\ Usage' = Usage + used'[r] - used[r]
  BY <1>2, NetChange DEF CapInv
<1>4. unseen' \in Nat /\ unseen <= unseen' /\ used'[r] \in Nat /\ used[r] <= used'[r]
  BY <1>1, <1>2
<1>5. /\ Net(r) \in Int /\ Net(r)' \in Int /\ Net(r)' - Net(r) <= unseen' - unseen
      /\ ClosedOf[r] \in Int /\ (ClosedOf')[r] \in Int
      /\ (ClosedOf')[r] - ClosedOf[r] <= unseen' - unseen
  <2>1. CASE Active(r)
    BY <1>1, <1>2, <2>1 DEF Net, ClosedOf, Active
  <2>2. CASE ~Active(r)
    <3>1. /\ Net(r) = used[r] - over[r] /\ Net(r)' = used'[r] - over'[r]
          /\ ClosedOf[r] = used[r] - over[r] /\ (ClosedOf')[r] = used'[r] - over'[r]
      BY <1>2, <2>2 DEF Net, ClosedOf, Active
    <3>2. over'[r] \in Nat /\ over[r] <= over'[r]
      BY <1>1, <1>2
    <3>3. used'[r] - used[r] <= unseen' - unseen
      BY <1>1, <1>2, <2>2
    <3> QED
      BY <1>1, <1>4, <3>1, <3>2, <3>3
  <2> QED
    BY <2>1, <2>2
<1>6. NetLoad' - NetLoad <= unseen' - unseen /\ Closed' - Closed <= unseen' - unseen
      /\ Usage <= Usage' /\ NetLoad' \in Int /\ Closed' \in Int
  BY <1>1, <1>3, <1>4, <1>5, CapFacts
<1>7. NetLoad' <= Cap + unseen'
  <2>1. NetLoad \in Int /\ NetLoad <= Cap + unseen /\ Cap \in Int
    BY CapFacts
  <2>2. unseen \in Int /\ unseen' \in Int /\ NetLoad' \in Int /\ NetLoad' - NetLoad <= unseen' - unseen
    BY <1>1, <1>4, <1>6
  <2> QED
    BY <2>1, <2>2, RoomKept
<1>8. ASSUME NEW t \in Sessions
      PROVE  /\ tx[t].at = "active" => Closed' <= seen[t] + unseen'
             /\ tx[t].op \in {"reserve", "authorize"} /\ tx[t].at = "grants" =>
                  NetLoad' + tx[t].inc <= Cap + unseen'
  <2>1. seen[t] \in Nat /\ tx[t].inc \in Nat /\ Checked(t) /\ CapSums
    BY CapMine DEF Transaction
  <2>2. tx[t].at = "active" => Closed <= seen[t] + unseen
    BY <2>1 DEF Checked
  <2>3. tx[t].op \in {"reserve", "authorize"} /\ tx[t].at = "grants"
          => NetLoad + tx[t].inc <= Cap + unseen
    BY <2>1 DEF Checked
  <2>4. /\ Closed \in Int /\ NetLoad \in Int /\ Cap \in Nat
        /\ Closed' \in Int /\ NetLoad' \in Int
    BY <1>6, <2>1 DEF CapSums
  <2>5. unseen \in Int /\ unseen' \in Int /\ Cap \in Int /\ seen[t] \in Int /\ tx[t].inc \in Int
    BY <1>1, <1>4, <2>1, <2>4
  <2>6. NetLoad' - NetLoad <= unseen' - unseen /\ Closed' - Closed <= unseen' - unseen
    BY <1>6
  <2>7. Closed <= seen[t] + unseen => Closed' <= seen[t] + unseen'
    BY <2>4, <2>5, <2>6, RoomKept
  <2>8. NetLoad + tx[t].inc <= Cap + unseen => NetLoad' + tx[t].inc <= Cap + unseen'
    BY <2>4, <2>5, <2>6, RoomKept
  <2> QED
    BY <2>2, <2>3, <2>7, <2>8
<1>9. seen' \in [Sessions -> Nat]
  BY <1>2, CapFacts
<1> QED
  BY <1>2, <1>4, <1>6, <1>7, <1>8, <1>9, CapRows

\* Every operation of billing.py keeps the invariant of the cap.
LEMMA StepCap == CapInv /\ [Next]_vars => CapInv'
<1> SUFFICES ASSUME CapInv, [Next]_vars PROVE CapInv'
  OBVIOUS
<1>0. IInv'
  BY StepInv DEF CapInv
<1>1. ASSUME NEW s \in Sessions, NEW r \in Rids, NEW e \in Estimates, NEW a \in BOOLEAN,
             ReserveStart(s, r, e, a)
      PROVE  CapInv'
  BY <1>0, <1>1, ReserveStartCap
<1>2. ASSUME NEW s \in Sessions, NEW r \in Rids,
             \/ AuthorizeCovered(s, r) \/ AuthorizeStart(s, r) \/ SettleStart(s, r)
             \/ SettleRunStart(s, r) \/ ReconcileRow(s, r)
      PROVE  CapInv'
  BY <1>0, <1>2, AuthorizeCoveredCap, AuthorizeStartCap, SettleStartCap, SettleRunStartCap,
     ReconcileRowCap
<1>3. ASSUME NEW s \in Sessions, NEW r \in Rids, NEW stale \in SUBSET Rids,
             ReconcileStart(s, stale, r)
      PROVE  CapInv'
  BY <1>0, <1>3, ReconcileStartCap
<1>4. ASSUME NEW s \in Sessions,
             \/ Advisory(s) \/ Answers(s) \/ SettleRow(s) \/ ReconcileGrants(s)
             \/ ReadUsage(s) \/ ReadActive(s)
      PROVE  CapInv'
  BY <1>0, <1>4, LocksCap, SettleRowCap, ReadUsageCap, ReadActiveCap
<1>5. ASSUME NEW s \in Sessions,
             \/ ReserveCommit(s) \/ AuthorizeCommit(s) \/ SettleCommit(s)
             \/ ReconcileCommit(s) \/ Rollback(s)
      PROVE  CapInv'
  BY <1>0, <1>5, ReserveCommitCap, AuthorizeCommitCap, SettleCommitCap, ReconcileCommitCap,
     RollbackCap
<1>6. ASSUME NEW r \in Rids, Unsent(r) PROVE CapInv'
  BY <1>0, <1>6, UnsentCap
<1>7. ASSUME NEW r \in Rids, NEW k \in Keys, NEW c \in Costs, Record(r, k, c) PROVE CapInv'
  BY <1>0, <1>7, RecordCap
<1>8. CASE UNCHANGED vars
  <2>1. UNCHANGED <<resv, used, over, unseen, tx, seen>>
    BY <1>8 DEF vars, rows
  <2>2. NetLoad' = NetLoad /\ Closed' = Closed /\ Usage' = Usage
    BY <2>1, RowsSame
  <2> QED
    BY <1>0, <2>1, <2>2 DEF CapInv, Checked
<1> QED BY <1>1, <1>2, <1>3, <1>4, <1>5, <1>6, <1>7, <1>8 DEF Next

\* reserve_credits, extend_reservation: with any number of concurrent transactions
\* the school's cap is overdrawn only by calls dearer than their quote, calls that
\* outlive their reservation, and what the two reads of a cap check miss.
THEOREM CapRespected == Spec => []CapHolds
<1>1. CapInv => CapHolds
  <2> SUFFICES ASSUME CapInv PROVE CapHolds
    OBVIOUS
  <2> DEFINE load == [r \in Rids |-> IF Active(r) THEN resv[r].est ELSE used[r]]
             sum == [r \in Rids |-> NetOf[r] + over[r]]
  <2>1. \A r \in Rids : /\ resv[r].est \in Nat /\ used[r] \in Nat /\ over[r] \in Nat
                        /\ NetOf[r] = IF Active(r) THEN resv[r].est ELSE used[r] - over[r]
    BY RowFacts DEF CapInv, NetOf, Net
  <2>2. load \in [Rids -> Int] /\ sum \in [Rids -> Int] /\ \A r \in Rids : load[r] <= sum[r]
    BY <2>1
  <2>3. NetOf \in [Rids -> Int] /\ over \in [Rids -> Int] /\ over \in [Rids -> Nat]
    BY CapMine, CapNumbers DEF CapSums, CapInv, IInv, RowsOK
  <2>4. \A r \in Rids : sum[r] = NetOf[r] + over[r]
    OBVIOUS
  <2>5. CapHolds <=> SumFunction(load) <= Cap + SumFunction(over) + unseen
    BY DEF CapHolds
  <2> HIDE DEF load, sum
  <2>6. SumFunction(load) <= SumFunction(sum)
    BY <2>2, RidsFinite, TotalLess
  <2>7. SumFunction(sum) = SumFunction(NetOf) + SumFunction(over)
    BY <2>2, <2>3, <2>4, RidsFinite, TotalPlus
  <2>8. /\ SumFunction(load) \in Int /\ SumFunction(over) \in Int /\ SumFunction(NetOf) \in Int
    BY <2>2, <2>3, RidsFinite, TotalInt
  <2>9. SumFunction(NetOf) <= Cap + unseen /\ unseen \in Nat /\ Cap \in Nat
    BY Totals, AmountsNat DEF CapInv
  <2> QED
    BY <2>5, <2>6, <2>7, <2>8, <2>9
<1> QED BY <1>1, InitCap, StepCap, PTL DEF Spec

=============================================================================
