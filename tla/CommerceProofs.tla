---------------------------- MODULE CommerceProofs ----------------------------
(***************************************************************************)
(* Proofs about Commerce for any orders, bank references and number of     *)
(* concurrent requests, any validity and any length of time.  PaidFor and  *)
(* the refinement need the unique keys and what a request knows of its     *)
(* order; Covered needs the row locks as well.                             *)
(***************************************************************************)
EXTENDS Commerce, SumTheorems

Rest == <<order, paid, notice, contract, prev, rows, use, refund, outbox, now>>

LEMMA InitInv == Init => IInv
<1> SUFFICES ASSUME Init PROVE IInv
  OBVIOUS
<1>1. Idle \in Request  BY DEF Idle, Request
<1>2. TablesOK  BY <1>1 DEF Init, TablesOK
<1>3. DeliveredOnce /\ KeysTell /\ PaidFor
  BY DEF Init, DeliveredOnce, KeysTell, PaidFor, Done
<1>4. RequestsKnown  BY DEF Init, RequestsKnown, Idle
<1> QED  BY <1>2, <1>3, <1>4 DEF IInv

\* A request that only moves on, with a record that fits its order, keeps the
\* invariant: the tables stay as they are.
LEMMA MovesOn ==
  ASSUME IInv, NEW s \in Sessions, NEW r \in Request,
         tx' = [tx EXCEPT ![s] = r], UNCHANGED Rest,
         r.op # "idle" =>
           /\ r.order \in Orders
           /\ order[r.order] # "absent"
           /\ r.op \in {"refund", "return"} => order[r.order] \in Done
           /\ r.op \in {"pay", "contracts", "fulfil"} => r.txn \in Txns
  PROVE  IInv'
<1> USE DEF Rest
<1>1. tx \in [Sessions -> Request]  BY DEF IInv, TablesOK
<1>2. tx' \in [Sessions -> Request]  BY <1>1
<1>3. \A u \in Sessions : tx'[u] = IF u = s THEN r ELSE tx[u]  BY <1>1
<1>4. TablesOK'  BY <1>2 DEF IInv, TablesOK
<1>5. (DeliveredOnce /\ KeysTell /\ PaidFor)'
  BY DEF IInv, DeliveredOnce, KeysTell, PaidFor, Done
<1>6. RequestsKnown'
  <2>1. \A o \in Orders : refund'[o] # "none" => order'[o] \in Done
    BY DEF IInv, RequestsKnown
  <2>2. ASSUME NEW u \in Sessions, tx'[u].op # "idle"
        PROVE  /\ tx'[u].order \in Orders
               /\ order'[tx'[u].order] # "absent"
               /\ tx'[u].op \in {"refund", "return"} => order'[tx'[u].order] \in Done
               /\ tx'[u].op \in {"pay", "contracts", "fulfil"} => tx'[u].txn \in Txns
    <3>1. CASE u = s  BY <1>3, <2>2, <3>1
    <3>2. CASE u # s
      <4>1. tx'[u] = tx[u]  BY <1>3, <3>2
      <4> QED  BY <4>1, <2>2 DEF IInv, RequestsKnown
    <3> QED  BY <3>1, <3>2
  <2> QED  BY <2>1, <2>2 DEF RequestsKnown, Done
<1> QED  BY <1>4, <1>5, <1>6 DEF IInv

LEMMA IdleMoves ==
  ASSUME IInv, NEW s \in Sessions, tx' = [tx EXCEPT ![s] = Idle], UNCHANGED Rest
  PROVE  IInv'
<1>1. Idle \in Request  BY DEF Idle, Request
<1>2. Idle.op = "idle"  BY DEF Idle
<1> QED  BY <1>1, <1>2, MovesOn

\* What a request is about: the type of its record, and RequestsKnown.
LEMMA KnownRequest ==
  ASSUME IInv, NEW s \in Sessions
  PROVE  /\ tx[s] \in Request
         /\ tx[s].op # "idle" =>
              /\ tx[s].order \in Orders
              /\ order[tx[s].order] # "absent"
              /\ tx[s].op \in {"refund", "return"} => order[tx[s].order] \in Done
              /\ tx[s].op \in {"pay", "contracts", "fulfil"} => tx[s].txn \in Txns
<1>1. tx[s] \in Request  BY DEF IInv, TablesOK
<1> QED  BY <1>1 DEF IInv, RequestsKnown

\* Entering the fulfilment of an order.
LEMMA EnterMoves ==
  ASSUME IInv, NEW s \in Sessions, NEW o \in Orders, NEW t \in Txns,
         NEW hook \in BOOLEAN, NEW at \in 0 .. now,
         NEW seen \in {"none", "pending", "fulfilled", "refunded", "open", "succeeded"},
         Enter(s, o, t, hook, seen, at), order[o] # "absent", UNCHANGED Rest
  PROVE  IInv'
<1> DEFINE r == [op |-> "contracts", order |-> o, txn |-> t, hook |-> hook,
                 seen |-> seen, rows |-> IF o \in Plans THEN Active ELSE {},
                 paidAt |-> at, closing |-> FALSE]
<1>1. at \in Nat  BY DEF IInv, TablesOK
<1>2. Active \subseteq Contracts  BY DEF Active
<1>3. r \in Request  BY <1>1, <1>2 DEF Request
<1>4. tx' = [tx EXCEPT ![s] = r]  BY DEF Enter
<1>5. r.op = "contracts" /\ r.order = o /\ r.txn = t  OBVIOUS
<1> HIDE DEF r
<1> QED  BY <1>3, <1>4, <1>5, MovesOn

-----------------------------------------------------------------------------
\* The steps of a request that change nothing but the request.

LEMMA TransferStep ==
  ASSUME IInv, NEW s \in Sessions, NEW o \in Orders, NEW t \in Refs, NEW at \in 0 .. now,
         Transfer(s, o, t, at)
  PROVE  IInv'
<1>1. order[o] = "pending" /\ Enter(s, o, t, FALSE, order[o], at) /\ UNCHANGED Rest
  BY DEF Transfer, Rest
<1>2. Enter(s, o, t, FALSE, "pending", at)  BY <1>1
<1>3. t \in Txns  BY DEF Txns
<1> QED  BY <1>1, <1>2, <1>3, EnterMoves

LEMMA NotifyStep ==
  ASSUME IInv, NEW s \in Sessions, NEW o \in Orders, Notify(s, o)
  PROVE  IInv'
<1> DEFINE r == [Idle EXCEPT !.op = "pay", !.order = o, !.txn = o,
                             !.hook = TRUE, !.seen = order[o]]
<1>1. order[o] \in {"absent", "pending", "fulfilled", "refunded"}  BY DEF IInv, TablesOK
<1>2. order[o] # "absent" /\ tx' = [tx EXCEPT ![s] = r] /\ UNCHANGED Rest
  BY DEF Notify, Rest
<1>3. r \in Request  BY <1>1, <1>2 DEF Request, Idle, Txns
<1>4. r.op = "pay" /\ r.order = o /\ r.txn = o  BY DEF Idle
<1>5. o \in Txns  BY DEF Txns
<1> HIDE DEF r
<1> QED  BY <1>2, <1>3, <1>4, <1>5, MovesOn

LEMMA PayLockStep ==
  ASSUME IInv, NEW s \in Sessions, NEW at \in 0 .. now, PayLock(s, at)
  PROVE  IInv'
<1> DEFINE o == tx[s].order
           r == [tx[s] EXCEPT !.op = "ack"]
<1>1. tx[s].op = "pay" /\ UNCHANGED Rest  BY DEF PayLock, Rest
<1>2. tx[s] \in Request /\ o \in Orders /\ order[o] # "absent"
  BY <1>1, KnownRequest
<1>3. \/ tx' = [tx EXCEPT ![s].op = "ack"]
      \/ Enter(s, o, o, TRUE, tx[s].seen, at)
  BY DEF PayLock
<1>4. CASE tx' = [tx EXCEPT ![s].op = "ack"]
  <2>1. tx' = [tx EXCEPT ![s] = r]  BY <1>4
  <2>2. r \in Request /\ r.op = "ack" /\ r.order = o  BY <1>2 DEF Request
  <2> HIDE DEF r
  <2> QED  BY <1>1, <1>2, <2>1, <2>2, MovesOn
<1>5. CASE Enter(s, o, o, TRUE, tx[s].seen, at)
  <2>1. o \in Txns  BY <1>2 DEF Txns
  <2>2. tx[s].seen \in {"none", "pending", "fulfilled", "refunded", "open", "succeeded"}
    BY <1>2 DEF Request
  <2> QED  BY <1>1, <1>2, <1>5, <2>1, <2>2, EnterMoves
<1> QED  BY <1>3, <1>4, <1>5

LEMMA PayContractsStep ==
  ASSUME IInv, NEW s \in Sessions, PayContracts(s)
  PROVE  IInv'
<1> DEFINE r == [tx[s] EXCEPT !.op = "fulfil", !.rows = @ \cap Active]
<1>1. tx[s].op = "contracts" /\ UNCHANGED Rest  BY DEF PayContracts, Rest
<1>2. /\ tx[s] \in Request /\ tx[s].order \in Orders /\ order[tx[s].order] # "absent"
      /\ tx[s].txn \in Txns
  BY <1>1, KnownRequest
<1>3. tx \in [Sessions -> Request]  BY DEF IInv, TablesOK
<1>4. tx' = [tx EXCEPT ![s] = r]  BY <1>3 DEF PayContracts
<1>5. r \in Request /\ r.op = "fulfil" /\ r.order = tx[s].order /\ r.txn = tx[s].txn
  BY <1>2 DEF Request
<1> HIDE DEF r
<1> QED  BY <1>1, <1>2, <1>4, <1>5, MovesOn

LEMMA RefundReadStep ==
  ASSUME IInv, NEW s \in Sessions, NEW o \in Orders, RefundRead(s, o)
  PROVE  IInv'
<1> DEFINE r == [Idle EXCEPT !.op = "refund", !.order = o, !.seen = refund[o]]
<1>1. refund[o] \in {"none", "open", "succeeded"} /\ order[o] \in Done
  BY DEF IInv, TablesOK, RequestsKnown, RefundRead
<1>2. order[o] # "absent"  BY <1>1 DEF Done
<1>3. tx' = [tx EXCEPT ![s] = r] /\ UNCHANGED Rest  BY DEF RefundRead, Rest
<1>4. r \in Request  BY <1>1 DEF Request, Idle
<1>5. r.op = "refund" /\ r.order = o  BY DEF Idle
<1> HIDE DEF r
<1> QED  BY <1>1, <1>2, <1>3, <1>4, <1>5, MovesOn

LEMMA RefundLockStep ==
  ASSUME IInv, NEW s \in Sessions, RefundLock(s)
  PROVE  IInv'
<1> DEFINE o == tx[s].order
           back == IF o \in Plans THEN {c \in prev[o] \ Active : contract[c].ends > now} ELSE {}
           own == o \in Active
           r == [tx[s] EXCEPT !.op = "return", !.closing = own, !.rows = back]
<1>1. tx[s].op = "refund" /\ UNCHANGED Rest  BY DEF RefundLock, Rest
<1>2. tx[s] \in Request /\ o \in Orders /\ order[o] # "absent" /\ order[o] \in Done
  BY <1>1, KnownRequest
<1>3. tx \in [Sessions -> Request]  BY DEF IInv, TablesOK
<1>4. \/ tx' = [tx EXCEPT ![s] = Idle]
      \/ tx' = [tx EXCEPT ![s].op = "return", ![s].closing = o \in Active, ![s].rows = back]
  BY DEF RefundLock
<1>5. CASE tx' = [tx EXCEPT ![s] = Idle]  BY <1>1, <1>5, IdleMoves
<1>6. CASE tx' = [tx EXCEPT ![s].op = "return", ![s].closing = o \in Active, ![s].rows = back]
  <2>1. tx' = [tx EXCEPT ![s] = r]  BY <1>3, <1>6
  <2>2. back \in SUBSET Contracts /\ own \in BOOLEAN  BY DEF IInv, TablesOK
  <2>3. ASSUME NEW b \in BOOLEAN, NEW k \in SUBSET Contracts
        PROVE  LET x == [tx[s] EXCEPT !.op = "return", !.closing = b, !.rows = k]
               IN  x \in Request /\ x.op = "return" /\ x.order = o
    BY <1>2 DEF Request
  <2>4. r \in Request /\ r.op = "return" /\ r.order = o
    <3> HIDE DEF back, own
    <3> QED  BY <2>2, <2>3
  <2> HIDE DEF r
  <2> QED  BY <1>1, <1>2, <2>1, <2>4, MovesOn
<1> QED  BY <1>4, <1>5, <1>6

LEMMA AbortStep ==
  ASSUME IInv, NEW s \in Sessions, Abort(s)
  PROVE  IInv'
<1>1. tx' = [tx EXCEPT ![s] = Idle] /\ UNCHANGED Rest  BY DEF Abort, Rest
<1> QED  BY <1>1, IdleMoves

-----------------------------------------------------------------------------
\* The steps that change the tables.

\* What the tables say of one order is enough: an order that changes does so
\* alone, and requests that stay keep knowing theirs.
LEMMA StillKnown ==
  ASSUME IInv, NEW o \in Orders, order' \in [Orders -> {"absent", "pending", "fulfilled", "refunded"}],
         \A q \in Orders \ {o} : order'[q] = order[q],
         order'[o] # "absent",
         order[o] \in Done => order'[o] \in Done
  PROVE  \A s \in Sessions : tx[s].op # "idle" =>
           /\ tx[s].order \in Orders
           /\ order'[tx[s].order] # "absent"
           /\ tx[s].op \in {"refund", "return"} => order'[tx[s].order] \in Done
           /\ tx[s].op \in {"pay", "contracts", "fulfil"} => tx[s].txn \in Txns
<1> TAKE s \in Sessions
<1> HAVE tx[s].op # "idle"
<1>1. /\ tx[s].order \in Orders
      /\ order[tx[s].order] # "absent"
      /\ tx[s].op \in {"refund", "return"} => order[tx[s].order] \in Done
      /\ tx[s].op \in {"pay", "contracts", "fulfil"} => tx[s].txn \in Txns
  BY DEF IInv, RequestsKnown
<1>2. CASE tx[s].order = o  BY <1>1, <1>2
<1>3. CASE tx[s].order # o  BY <1>1, <1>3
<1> QED  BY <1>2, <1>3

LEMMA CreateOrderStep ==
  ASSUME IInv, NEW o \in Orders, CreateOrder(o)
  PROVE  IInv'
<1> USE DEF IInv, TablesOK
<1>1. /\ order[o] = "absent" /\ order' = [order EXCEPT ![o] = "pending"]
      /\ UNCHANGED <<paid, prev, rows, use, refund, outbox, now, tx>>
  BY DEF CreateOrder
<1>2. /\ order'[o] = "pending"
      /\ \A q \in Orders \ {o} : order'[q] = order[q]
      /\ order' \in [Orders -> {"absent", "pending", "fulfilled", "refunded"}]
  BY <1>1
<1>3. TablesOK'  BY <1>1, <1>2
<1>4. DeliveredOnce'  BY <1>1, <1>2 DEF DeliveredOnce, Done
<1>5. KeysTell' /\ PaidFor'  BY <1>1, <1>2 DEF KeysTell, PaidFor, Done
<1>6. RequestsKnown'
  <2>1. order[o] \notin Done  BY <1>1 DEF Done
  <2>2. \A q \in Orders : refund'[q] # "none" => order'[q] \in Done
    BY <1>1, <1>2, <2>1 DEF RequestsKnown
  <2> QED  BY <1>1, <1>2, <2>1, <2>2, StillKnown DEF RequestsKnown, Done
<1> QED  BY <1>3, <1>4, <1>5, <1>6

LEMMA DrawStep ==
  ASSUME IInv, NEW o \in Orders, NEW what \in {"held", "released", "spent"}, Draw(o, what)
  PROVE  IInv' /\ order[o] = "fulfilled"
<1> USE DEF IInv, TablesOK
<1>1. /\ rows[o] > 0 /\ use' = [use EXCEPT ![o] = what]
      /\ UNCHANGED <<order, paid, prev, rows, refund, outbox, now, tx>>
  BY DEF Draw
<1>2. order[o] = "fulfilled"  BY <1>1 DEF DeliveredOnce
<1>3. TablesOK'  BY <1>1
<1>4. DeliveredOnce'  BY <1>1, <1>2 DEF DeliveredOnce, Done
<1>5. (KeysTell /\ PaidFor /\ RequestsKnown)'
  BY <1>1 DEF KeysTell, PaidFor, RequestsKnown, Done
<1> QED  BY <1>2, <1>3, <1>4, <1>5

LEMMA TickStep == ASSUME IInv, Tick PROVE IInv'
<1> USE DEF IInv, TablesOK
<1>1. now' = now + 1 /\ UNCHANGED <<order, paid, prev, rows, use, refund, outbox, tx>>
  BY DEF Tick
<1> QED  BY <1>1 DEF DeliveredOnce, KeysTell, PaidFor, RequestsKnown, Done

LEMMA RequestRefundStep == ASSUME IInv, NEW o \in Orders, RequestRefund(o) PROVE IInv'
<1> USE DEF IInv, TablesOK
<1>1. /\ order[o] \in Done /\ refund' = [refund EXCEPT ![o] = "open"]
      /\ UNCHANGED <<order, paid, prev, rows, use, outbox, now, tx>>
  BY DEF RequestRefund
<1> QED  BY <1>1 DEF DeliveredOnce, KeysTell, PaidFor, RequestsKnown, Done

LEMMA ReviewRefundStep == ASSUME IInv, NEW o \in Orders, ReviewRefund(o) PROVE IInv'
<1> USE DEF IInv, TablesOK
<1>1. /\ refund[o] = "succeeded" /\ refund' = [refund EXCEPT ![o] = "open"]
      /\ UNCHANGED <<order, paid, prev, rows, use, outbox, now, tx>>
  BY DEF ReviewRefund
<1>2. order[o] \in Done  BY <1>1 DEF RequestsKnown
<1> QED  BY <1>1, <1>2 DEF DeliveredOnce, KeysTell, PaidFor, RequestsKnown, Done

LEMMA AcknowledgeStep == ASSUME IInv, NEW s \in Sessions, Acknowledge(s) PROVE IInv'
<1> USE DEF IInv, TablesOK
<1>1. /\ tx' = [tx EXCEPT ![s] = Idle]
      /\ UNCHANGED <<order, paid, prev, rows, use, refund, outbox, now>>
  BY DEF Acknowledge
<1>2. Idle \in Request /\ Idle.op = "idle"  BY DEF Idle, Request
<1>3. TablesOK'  BY <1>1, <1>2
<1>4. (DeliveredOnce /\ KeysTell /\ PaidFor)'
  BY <1>1 DEF DeliveredOnce, KeysTell, PaidFor, Done
<1>5. \A u \in Sessions : tx'[u].op # "idle" => tx'[u] = tx[u]  BY <1>1, <1>2
<1>6. RequestsKnown'  BY <1>1, <1>5 DEF RequestsKnown, Done
<1> QED  BY <1>3, <1>4, <1>6

\* A request that ends, after its order o changed: what it left is idle or
\* waits for the acknowledgement.
LEMMA EndsKnown ==
  ASSUME IInv, NEW s \in Sessions, NEW o \in Orders, NEW r \in Request,
         tx' = [tx EXCEPT ![s] = r], r.op \in {"idle", "ack"},
         r.op = "ack" => r.order = o,
         order' \in [Orders -> {"absent", "pending", "fulfilled", "refunded"}],
         \A q \in Orders \ {o} : order'[q] = order[q],
         order'[o] # "absent",
         order[o] \in Done => order'[o] \in Done,
         \A q \in Orders : refund'[q] # "none" => order'[q] \in Done
  PROVE  RequestsKnown'
<1>1. tx \in [Sessions -> Request]  BY DEF IInv, TablesOK
<1>2. \A u \in Sessions : tx'[u] = IF u = s THEN r ELSE tx[u]  BY <1>1
<1>3. ASSUME NEW u \in Sessions, tx'[u].op # "idle"
      PROVE  /\ tx'[u].order \in Orders
             /\ order'[tx'[u].order] # "absent"
             /\ tx'[u].op \in {"refund", "return"} => order'[tx'[u].order] \in Done
             /\ tx'[u].op \in {"pay", "contracts", "fulfil"} => tx'[u].txn \in Txns
  <2>1. CASE u = s
    <3>1. tx'[u] = r  BY <1>2, <2>1
    <3>2. r.op = "ack" /\ r.order = o  BY <1>3, <3>1
    <3> QED  BY <3>1, <3>2
  <2>2. CASE u # s
    <3>1. tx'[u] = tx[u]  BY <1>2, <2>2
    <3> QED  BY <1>3, <3>1, StillKnown
  <2> QED  BY <2>1, <2>2
<1> QED  BY <1>3 DEF RequestsKnown, Done

\* Fulfilment: the outbox key says the order was not delivered before, so it
\* is pending and has no grant.
LEMMA PayCommitStep ==
  ASSUME IInv, NEW s \in Sessions, PayCommit(s)
  PROVE  /\ IInv'
         /\ \E o \in Orders : /\ order[o] = "pending"
                              /\ order' = [order EXCEPT ![o] = "fulfilled"]
                              /\ rows' = [rows EXCEPT ![o] = 1]
<1> USE DEF IInv, TablesOK
<1> DEFINE o == tx[s].order
           t == tx[s].txn
           r == IF tx[s].hook THEN [Idle EXCEPT !.op = "ack", !.order = o, !.hook = TRUE] ELSE Idle
<1>1. /\ tx[s].op = "fulfil"
      /\ KeyFresh("fulfilled", o) /\ OwnTransaction(t, o)
      /\ prev' = [p \in Plans |-> IF p = o THEN tx[s].rows ELSE prev[p]]
      /\ rows' = [rows EXCEPT ![o] = @ + 1]
      /\ paid' = [paid EXCEPT ![t] = IF @ = NoOrder THEN o ELSE @]
      /\ order' = [order EXCEPT ![o] = "fulfilled"]
      /\ outbox' = outbox \cup {<<"fulfilled", o>>}
      /\ tx' = [tx EXCEPT ![s] = r]
      /\ UNCHANGED <<use, refund, now>>
  BY DEF PayCommit
<1>2. tx[s] \in Request /\ o \in Orders /\ order[o] # "absent" /\ t \in Txns
  BY <1>1, KnownRequest
<1>3. r \in Request /\ r.op \in {"idle", "ack"} /\ (r.op = "ack" => r.order = o)
  <2>1. Idle \in Request /\ Idle.op = "idle"  BY DEF Idle, Request
  <2>2. [Idle EXCEPT !.op = "ack", !.order = o, !.hook = TRUE] \in Request  BY <1>2 DEF Idle, Request
  <2>3. [Idle EXCEPT !.op = "ack", !.order = o, !.hook = TRUE].op = "ack"  BY DEF Idle
  <2>4. [Idle EXCEPT !.op = "ack", !.order = o, !.hook = TRUE].order = o  BY DEF Idle
  <2> QED  BY <2>1, <2>2, <2>3, <2>4
<1> HIDE DEF r
<1>4. order[o] = "pending"
  <2>1. order[o] \notin Done  BY <1>1, <1>2 DEF KeysTell, KeyFresh
  <2> QED  BY <1>2, <2>1 DEF Done
<1>5. rows[o] = 0 /\ use[o] = "free"  BY <1>2, <1>4 DEF DeliveredOnce, Done
<1>6. rows' = [rows EXCEPT ![o] = 1]  BY <1>1, <1>2, <1>5
<1>7. /\ order'[o] = "fulfilled"
      /\ \A q \in Orders \ {o} : order'[q] = order[q]
      /\ order' \in [Orders -> {"absent", "pending", "fulfilled", "refunded"}]
  BY <1>1, <1>2
<1>8. paid'[t] = o /\ paid' \in [Txns -> Orders \cup {NoOrder}]
  BY <1>1, <1>2 DEF OwnTransaction
<1>9. TablesOK'
  <2>1. tx[s].rows \in SUBSET Contracts  BY <1>2 DEF Request
  <2>2. prev' \in [Plans -> SUBSET Contracts]  BY <1>1, <2>1
  <2>3. rows' \in [Orders -> Nat]  BY <1>6
  <2>4. tx' \in [Sessions -> Request]  BY <1>1, <1>3
  <2> QED  BY <1>1, <1>7, <1>8, <2>2, <2>3, <2>4
<1>10. DeliveredOnce'  BY <1>1, <1>2, <1>5, <1>6, <1>7 DEF DeliveredOnce, Done
<1>11. KeysTell'  BY <1>1, <1>2, <1>7 DEF KeysTell, Done
<1>12. PaidFor'
  <2>1. SUFFICES ASSUME NEW q \in Orders, order'[q] \in Done
                 PROVE  \E u \in Txns : paid'[u] = q
    BY DEF PaidFor, Done
  <2>2. CASE q = o  BY <1>2, <1>8, <2>2
  <2>3. CASE q # o
    <3>1. PICK u \in Txns : paid[u] = q  BY <1>7, <2>1, <2>3 DEF PaidFor
    <3>2. paid'[u] = q
      <4>1. q # NoOrder  BY OrderKinds
      <4> QED  BY <1>1, <1>2, <3>1, <4>1
    <3> QED  BY <3>2
  <2> QED  BY <2>2, <2>3
<1>13. \A q \in Orders : refund'[q] # "none" => order'[q] \in Done
  BY <1>1, <1>7 DEF RequestsKnown, Done
<1>14. order'[o] # "absent" /\ (order[o] \in Done => order'[o] \in Done)
  BY <1>7 DEF Done
<1>15. RequestsKnown'  BY <1>1, <1>2, <1>3, <1>7, <1>13, <1>14, EndsKnown
<1> QED  BY <1>1, <1>2, <1>4, <1>6, <1>9, <1>10, <1>11, <1>12, <1>15

\* A refund: the outbox key says the order was not refunded before, so it is
\* delivered, has its grant, and the foreign key says it was never used.
LEMMA RefundCommitStep ==
  ASSUME IInv, NEW s \in Sessions, RefundCommit(s)
  PROVE  /\ IInv'
         /\ \E o \in Orders : /\ order[o] = "fulfilled" /\ use[o] = "free"
                              /\ order' = [order EXCEPT ![o] = "refunded"]
                              /\ rows' = [rows EXCEPT ![o] = 0]
<1> USE DEF IInv, TablesOK
<1> DEFINE o == tx[s].order
<1>1. /\ tx[s].op = "return" /\ Unallocated(o) /\ KeyFresh("refunded", o)
      /\ rows' = [rows EXCEPT ![o] = 0]
      /\ order' = [order EXCEPT ![o] = "refunded"]
      /\ refund' = [refund EXCEPT ![o] = "succeeded"]
      /\ outbox' = outbox \cup {<<"refunded", o>>}
      /\ tx' = [tx EXCEPT ![s] = Idle]
      /\ UNCHANGED <<paid, prev, use, now>>
  BY DEF RefundCommit
<1>2. o \in Orders /\ order[o] \in Done  BY <1>1, KnownRequest
<1>3. order[o] = "fulfilled"
  <2>1. order[o] # "refunded"  BY <1>1, <1>2 DEF KeysTell, KeyFresh
  <2> QED  BY <1>2, <2>1 DEF Done
<1>4. use[o] = "free"
  <2>1. rows[o] = 1  BY <1>2, <1>3 DEF DeliveredOnce
  <2> QED  BY <1>1, <2>1 DEF Unallocated
<1>5. Idle \in Request /\ Idle.op = "idle"  BY DEF Idle, Request
<1>6. /\ order'[o] = "refunded"
      /\ \A q \in Orders \ {o} : order'[q] = order[q]
      /\ order' \in [Orders -> {"absent", "pending", "fulfilled", "refunded"}]
  BY <1>1, <1>2
<1>7. TablesOK'  BY <1>1, <1>2, <1>5, <1>6
<1>8. DeliveredOnce'  BY <1>1, <1>2, <1>6 DEF DeliveredOnce, Done
<1>9. KeysTell'  BY <1>1, <1>2, <1>3, <1>6 DEF KeysTell, Done
<1>10. PaidFor'  BY <1>1, <1>2, <1>6 DEF PaidFor, Done
<1>11. \A q \in Orders : refund'[q] # "none" => order'[q] \in Done
  BY <1>1, <1>2, <1>6 DEF RequestsKnown, Done
<1>12. order'[o] # "absent" /\ (order[o] \in Done => order'[o] \in Done)
  BY <1>6 DEF Done
<1>13. RequestsKnown'  BY <1>1, <1>2, <1>5, <1>6, <1>11, <1>12, EndsKnown
<1> QED  BY <1>1, <1>2, <1>3, <1>4, <1>7, <1>8, <1>9, <1>10, <1>13

-----------------------------------------------------------------------------
\* The steps that leave order, grants and their use alone.
Quiet ==
  \/ Tick
  \/ \E o \in Orders : RequestRefund(o) \/ ReviewRefund(o)
  \/ \E s \in Sessions, o \in Orders : Notify(s, o) \/ RefundRead(s, o)
  \/ \E s \in Sessions, o \in Orders, t \in Refs, at \in 0 .. now : Transfer(s, o, t, at)
  \/ \E s \in Sessions, at \in 0 .. now : PayLock(s, at)
  \/ \E s \in Sessions :
       PayContracts(s) \/ Acknowledge(s) \/ RefundLock(s) \/ Abort(s)

LEMMA NextCases ==
  Next => \/ Quiet
          \/ \E o \in Orders : CreateOrder(o)
          \/ \E o \in Orders, what \in {"held", "released", "spent"} : Draw(o, what)
          \/ \E s \in Sessions : PayCommit(s)
          \/ \E s \in Sessions : RefundCommit(s)
  BY DEF Next, Quiet

LEMMA QuietInv == IInv /\ Quiet => IInv' /\ UNCHANGED <<order, rows, use>>
<1> SUFFICES ASSUME IInv, Quiet PROVE IInv' /\ UNCHANGED <<order, rows, use>>
  OBVIOUS
<1>1. CASE Tick  BY <1>1, TickStep DEF Tick
<1>2. ASSUME NEW o \in Orders, RequestRefund(o) PROVE IInv' /\ UNCHANGED <<order, rows, use>>
  BY <1>2, RequestRefundStep DEF RequestRefund
<1>3. ASSUME NEW o \in Orders, ReviewRefund(o) PROVE IInv' /\ UNCHANGED <<order, rows, use>>
  BY <1>3, ReviewRefundStep DEF ReviewRefund
<1>4. ASSUME NEW s \in Sessions, NEW o \in Orders, Notify(s, o)
      PROVE  IInv' /\ UNCHANGED <<order, rows, use>>
  BY <1>4, NotifyStep DEF Notify
<1>5. ASSUME NEW s \in Sessions, NEW o \in Orders, RefundRead(s, o)
      PROVE  IInv' /\ UNCHANGED <<order, rows, use>>
  BY <1>5, RefundReadStep DEF RefundRead
<1>6. ASSUME NEW s \in Sessions, NEW o \in Orders, NEW t \in Refs, NEW at \in 0 .. now,
             Transfer(s, o, t, at)
      PROVE  IInv' /\ UNCHANGED <<order, rows, use>>
  BY <1>6, TransferStep DEF Transfer
<1>7. ASSUME NEW s \in Sessions, NEW at \in 0 .. now, PayLock(s, at)
      PROVE  IInv' /\ UNCHANGED <<order, rows, use>>
  BY <1>7, PayLockStep DEF PayLock
<1>8. ASSUME NEW s \in Sessions, PayContracts(s) PROVE IInv' /\ UNCHANGED <<order, rows, use>>
  BY <1>8, PayContractsStep DEF PayContracts
<1>9. ASSUME NEW s \in Sessions, Acknowledge(s) PROVE IInv' /\ UNCHANGED <<order, rows, use>>
  BY <1>9, AcknowledgeStep DEF Acknowledge
<1>10. ASSUME NEW s \in Sessions, RefundLock(s) PROVE IInv' /\ UNCHANGED <<order, rows, use>>
  BY <1>10, RefundLockStep DEF RefundLock
<1>11. ASSUME NEW s \in Sessions, Abort(s) PROVE IInv' /\ UNCHANGED <<order, rows, use>>
  BY <1>11, AbortStep DEF Abort
<1> QED  BY <1>1, <1>2, <1>3, <1>4, <1>5, <1>6, <1>7, <1>8, <1>9, <1>10, <1>11 DEF Quiet

LEMMA StutterInv == IInv /\ UNCHANGED vars => IInv'
  BY DEF IInv, TablesOK, DeliveredOnce, KeysTell, RequestsKnown, PaidFor, vars, Done

LEMMA NextInv == IInv /\ [Next]_vars => IInv'
<1> SUFFICES ASSUME IInv, [Next]_vars PROVE IInv'
  OBVIOUS
<1>1. CASE Quiet  BY <1>1, QuietInv
<1>2. CASE \E o \in Orders : CreateOrder(o)  BY <1>2, CreateOrderStep
<1>3. CASE \E o \in Orders, what \in {"held", "released", "spent"} : Draw(o, what)
  BY <1>3, DrawStep
<1>4. CASE \E s \in Sessions : PayCommit(s)  BY <1>4, PayCommitStep
<1>5. CASE \E s \in Sessions : RefundCommit(s)  BY <1>5, RefundCommitStep
<1>6. CASE UNCHANGED vars  BY <1>6, StutterInv
<1> QED  BY <1>1, <1>2, <1>3, <1>4, <1>5, <1>6, NextCases

\* The invariant holds in every reachable state.
THEOREM Inductive == Spec => []IInv
<1>1. Init => IInv  BY InitInv
<1>2. IInv /\ [Next]_vars => IInv'  BY NextInv
<1> QED  BY <1>1, <1>2, PTL DEF Spec

\* Whatever is notified twice, transferred twice under one reference or rolled
\* back half-way, a delivered order has been paid by a transaction of its own.
THEOREM OrdersPaid == Spec => []PaidFor
<1>1. IInv => PaidFor  BY DEF IInv
<1> QED  BY <1>1, Inductive, PTL

-----------------------------------------------------------------------------
\* The refinement.

LEMMA BookInit == Init => Book!Init
<1> SUFFICES ASSUME Init PROVE Book!Init
  OBVIOUS
<1>1. {o \in Orders : use[o] # "free"} = {}  BY DEF Init
<1> QED  BY <1>1 DEF Init, Book!Init

LEMMA BookNext == IInv /\ [Next]_vars => [Book!Next]_(Book!vars)
<1> SUFFICES ASSUME IInv, [Next]_vars PROVE Book!Next \/ UNCHANGED Book!vars
  OBVIOUS
<1> DEFINE used == {o \in Orders : use[o] # "free"}
<1>1. CASE Quiet
  <2>1. UNCHANGED <<order, rows, use>>  BY <1>1, QuietInv
  <2> QED  BY <2>1 DEF Book!vars
<1>2. CASE \E o \in Orders : CreateOrder(o)
  <2>1. PICK o \in Orders : CreateOrder(o)  BY <1>2
  <2>2. Book!Place(o)  BY <2>1 DEF CreateOrder, Book!Place
  <2> QED  BY <2>2 DEF Book!Next
<1>3. CASE \E o \in Orders, what \in {"held", "released", "spent"} : Draw(o, what)
  <2>1. PICK o \in Orders, what \in {"held", "released", "spent"} : Draw(o, what)
    BY <1>3
  <2>2. order[o] = "fulfilled"  BY <2>1, DrawStep
  <2>3. use' = [use EXCEPT ![o] = what] /\ UNCHANGED <<order, rows>>  BY <2>1 DEF Draw
  <2>4. used' = used \cup {o}
    <3>1. use \in [Orders -> {"free", "held", "released", "spent"}]  BY DEF IInv, TablesOK
    <3> QED  BY <2>3, <3>1
  <2>5. Book!Use(o)  BY <2>2, <2>3, <2>4 DEF Book!Use
  <2> QED  BY <2>5 DEF Book!Next
<1>4. CASE \E s \in Sessions : PayCommit(s)
  <2>1. PICK s \in Sessions : PayCommit(s)  BY <1>4
  <2>2. PICK o \in Orders : /\ order[o] = "pending"
                            /\ order' = [order EXCEPT ![o] = "fulfilled"]
                            /\ rows' = [rows EXCEPT ![o] = 1]
    BY <2>1, PayCommitStep
  <2>3. UNCHANGED use  BY <2>1 DEF PayCommit
  <2>4. Book!Deliver(o)  BY <2>2, <2>3 DEF Book!Deliver
  <2> QED  BY <2>4 DEF Book!Next
<1>5. CASE \E s \in Sessions : RefundCommit(s)
  <2>1. PICK s \in Sessions : RefundCommit(s)  BY <1>5
  <2>2. PICK o \in Orders : /\ order[o] = "fulfilled" /\ use[o] = "free"
                            /\ order' = [order EXCEPT ![o] = "refunded"]
                            /\ rows' = [rows EXCEPT ![o] = 0]
    BY <2>1, RefundCommitStep
  <2>3. UNCHANGED use  BY <2>1 DEF RefundCommit
  <2>4. o \notin used  BY <2>2
  <2>5. Book!TakeBack(o)  BY <2>2, <2>3, <2>4 DEF Book!TakeBack
  <2> QED  BY <2>5 DEF Book!Next
<1>6. CASE UNCHANGED vars  BY <1>6 DEF vars, Book!vars
<1> QED  BY <1>1, <1>2, <1>3, <1>4, <1>5, <1>6, NextCases

\* The shop keeps the book: each order is delivered at most once with its one
\* quota, and taken back at most once, unused.
THEOREM Refinement == Spec => BooksOrders
<1>1. Init => Book!Init  BY BookInit
<1>2. IInv /\ [Next]_vars => [Book!Next]_(Book!vars)  BY BookNext
<1> QED  BY <1>1, <1>2, Inductive, PTL DEF Spec, BooksOrders, Book!Spec

-----------------------------------------------------------------------------
\* The time of a delivered plan stays covered.

LEMMA InitChain == Init => ChainInv
<1> SUFFICES ASSUME Init PROVE ChainInv
  OBVIOUS
<1>1. ContractsOK
  <2>1. PICK trial \in {Absent, [status |-> "active", ends |-> 1]} :
          contract = [c \in Contracts |-> IF c = Trial THEN trial ELSE Absent]
    BY DEF Init
  <2>2. trial \in [status: {"absent", "active", "expired"}, ends: Nat]  BY DEF Absent
  <2>3. Absent \in [status: {"absent", "active", "expired"}, ends: Nat]  BY DEF Absent
  <2> QED  BY <2>1, <2>2, <2>3 DEF ContractsOK
<1>2. \A o \in Plans : order[o] = "absent"  BY DEF Init, Orders
<1>3. Replaced /\ Chained  BY <1>2 DEF Replaced, Chained
<1>4. \A s \in Sessions : tx[s].op = "idle"  BY DEF Init, Idle
<1>5. Held /\ Returning  BY <1>4 DEF Held, Returning
<1> QED  BY <1>1, <1>3, <1>5 DEF ChainInv

\* Contracts and replacements stay, time only passes, and an order that is
\* delivered stays so and is the only kind delivered.
LEMMA TablesKept ==
  ASSUME ChainInv, IInv, UNCHANGED <<contract, prev>>, now' \in Nat, now <= now',
         \A o \in Plans : order'[o] = "fulfilled" <=> order[o] = "fulfilled"
  PROVE  (ContractsOK /\ Replaced /\ Chained)'
<1>1. ContractsOK'  BY DEF ChainInv, ContractsOK
<1>2. Replaced'  BY DEF ChainInv, Replaced
<1>3. Chained'
  <2>1. SUFFICES ASSUME NEW p \in Plans, order'[p] = "fulfilled", contract[p].ends > now'
                 PROVE  p \in Active' \/ \E o \in Plans : order'[o] = "fulfilled" /\ p \in prev'[o]
    BY DEF Chained
  <2>2. contract[p].ends > now
    <3>1. contract[p].ends \in Nat  BY DEF ChainInv, ContractsOK, Contracts
    <3> QED  BY <2>1, <3>1 DEF IInv, TablesOK
  <2> QED  BY <2>1, <2>2 DEF ChainInv, Chained, Active
<1> QED  BY <1>1, <1>2, <1>3

\* A request moves on while contracts, replacements, orders and time stay.
LEMMA RequestKept ==
  ASSUME ChainInv, IInv, NEW s \in Sessions, NEW r, tx' = [tx EXCEPT ![s] = r],
         UNCHANGED <<contract, prev, order, now>>,
         r.op = "fulfil" =>
           /\ r.rows \subseteq Active
           /\ \A t \in Sessions \ {s} : tx[t].op = "fulfil" => r.rows \cap tx[t].rows = {},
         r.op \in {"contracts", "fulfil"} /\ r.order \in Addons => r.rows = {},
         r.op = "return" =>
           IF r.order \in Plans
             THEN /\ r.rows \subseteq prev[r.order]
                  /\ order[r.order] = "fulfilled" =>
                       {c \in prev[r.order] : contract[c].ends > now} \subseteq r.rows
             ELSE r.rows = {}
  PROVE  ChainInv'
<1>1. (ContractsOK /\ Replaced /\ Chained)'
  <2>1. now \in Nat  BY DEF IInv, TablesOK
  <2> QED  BY <2>1, TablesKept
<1>2. \A u \in Sessions : tx'[u] = IF u = s THEN r ELSE tx[u]
  BY DEF IInv, TablesOK
<1>3. Held'
  <2>1. Active' = Active  BY DEF Active
  <2>2. ASSUME NEW u \in Sessions, tx'[u].op = "fulfil"
        PROVE  /\ tx'[u].rows \subseteq Active
               /\ \A t \in Sessions \ {u} : tx'[t].op = "fulfil" => tx'[u].rows \cap tx'[t].rows = {}
    <3>1. CASE u = s
      BY <1>2, <2>2, <3>1
    <3>2. CASE u # s
      <4>1. tx[u].op = "fulfil" /\ tx'[u] = tx[u]  BY <1>2, <2>2, <3>2
      <4>2. /\ tx[u].rows \subseteq Active
            /\ \A t \in Sessions \ {u} : tx[t].op = "fulfil" => tx[u].rows \cap tx[t].rows = {}
        BY <4>1 DEF ChainInv, Held
      <4>3. r.op = "fulfil" => tx[u].rows \cap r.rows = {}  BY <3>2, <4>1
      <4> QED  BY <1>2, <4>1, <4>2, <4>3
    <3> QED  BY <3>1, <3>2
  <2>3. ASSUME NEW u \in Sessions, tx'[u].op \in {"contracts", "fulfil"}, tx'[u].order \in Addons
        PROVE  tx'[u].rows = {}
    <3>1. CASE u = s  BY <1>2, <2>3, <3>1
    <3>2. CASE u # s
      <4>1. tx'[u] = tx[u]  BY <1>2, <3>2
      <4> QED  BY <2>3, <4>1 DEF ChainInv, Held
    <3> QED  BY <3>1, <3>2
  <2> QED  BY <2>1, <2>2, <2>3 DEF Held
<1>4. Returning'
  <2>1. SUFFICES ASSUME NEW u \in Sessions, tx'[u].op = "return"
                 PROVE  IF tx'[u].order \in Plans
                          THEN /\ tx'[u].rows \subseteq prev[tx'[u].order]
                               /\ order[tx'[u].order] = "fulfilled" =>
                                    {c \in prev[tx'[u].order] : contract[c].ends > now} \subseteq tx'[u].rows
                          ELSE tx'[u].rows = {}
    BY DEF Returning
  <2>2. CASE u = s  BY <1>2, <2>1, <2>2
  <2>3. CASE u # s
    <3>1. tx'[u] = tx[u]  BY <1>2, <2>3
    <3> QED  BY <2>1, <3>1 DEF ChainInv, Returning
  <2> QED  BY <2>2, <2>3
<1> QED  BY <1>1, <1>3, <1>4 DEF ChainInv

\* Requests keep what they hold while only orders are placed or time passes.
LEMMA TimePasses ==
  ASSUME ChainInv, IInv, UNCHANGED <<contract, prev, tx>>, now' \in Nat, now <= now',
         \A o \in Plans : order'[o] = "fulfilled" <=> order[o] = "fulfilled"
  PROVE  ChainInv'
<1>1. (ContractsOK /\ Replaced /\ Chained)'  BY TablesKept
<1>2. Held'  BY DEF ChainInv, Held, Active
<1>3. Returning'
  <2>1. SUFFICES ASSUME NEW s \in Sessions, tx[s].op = "return"
                 PROVE  IF tx[s].order \in Plans
                          THEN /\ tx[s].rows \subseteq prev[tx[s].order]
                               /\ order'[tx[s].order] = "fulfilled" =>
                                    {c \in prev[tx[s].order] : contract[c].ends > now'} \subseteq tx[s].rows
                          ELSE tx[s].rows = {}
    BY DEF Returning
  <2>2. CASE tx[s].order \notin Plans  BY <2>1, <2>2 DEF ChainInv, Returning
  <2>3. CASE tx[s].order \in Plans
    <3> DEFINE o == tx[s].order
    <3>1. /\ tx[s].rows \subseteq prev[o]
          /\ order[o] = "fulfilled" => {c \in prev[o] : contract[c].ends > now} \subseteq tx[s].rows
      BY <2>1, <2>3 DEF ChainInv, Returning
    <3>2. \A c \in prev[o] : contract[c].ends > now' => contract[c].ends > now
      <4>1. prev[o] \subseteq Contracts /\ now \in Nat  BY <2>3 DEF IInv, TablesOK
      <4>2. \A c \in Contracts : contract[c].ends \in Nat  BY DEF ChainInv, ContractsOK
      <4> QED  BY <4>1, <4>2
    <3> QED  BY <2>3, <3>1, <3>2
  <2> QED  BY <2>2, <2>3
<1> QED  BY <1>1, <1>2, <1>3 DEF ChainInv

LEMMA EnterChain ==
  ASSUME ChainInv, IInv, NEW s \in Sessions, NEW o \in Orders, NEW t, NEW hook, NEW seen, NEW at,
         Enter(s, o, t, hook, seen, at), UNCHANGED <<contract, prev, order, now>>
  PROVE  ChainInv'
<1> DEFINE r == [op |-> "contracts", order |-> o, txn |-> t, hook |-> hook,
                 seen |-> seen, rows |-> IF o \in Plans THEN Active ELSE {},
                 paidAt |-> at, closing |-> FALSE]
<1>1. tx' = [tx EXCEPT ![s] = r]  BY DEF Enter
<1>2. r.op = "contracts" /\ (r.order \in Addons => r.rows = {})  BY OrderKinds
<1> HIDE DEF r
<1> QED  BY <1>1, <1>2, RequestKept

\* The steps that leave contracts, replacements and what is delivered alone.
LEMMA QuietChain ==
  ASSUME ChainInv, IInv, Quiet
  PROVE  ChainInv'
<1>1. CASE Tick
  <2>1. UNCHANGED <<contract, prev, tx, order>> /\ now' = now + 1 /\ now \in Nat
    BY <1>1 DEF Tick, IInv, TablesOK
  <2> QED  BY <2>1, TimePasses
<1>2. ASSUME NEW o \in Orders, RequestRefund(o) \/ ReviewRefund(o) PROVE ChainInv'
  <2>1. UNCHANGED <<contract, prev, tx, order, now>> /\ now \in Nat
    BY <1>2 DEF RequestRefund, ReviewRefund, IInv, TablesOK
  <2> QED  BY <2>1, TimePasses
<1>3. ASSUME NEW s \in Sessions, NEW o \in Orders, Notify(s, o) \/ RefundRead(s, o) PROVE ChainInv'
  <2>1. UNCHANGED <<contract, prev, order, now>>  BY <1>3 DEF Notify, RefundRead
  <2>2. PICK r : /\ tx' = [tx EXCEPT ![s] = r]
                 /\ r.op \in {"pay", "refund"}
    <3>1. CASE Notify(s, o)
      <4> DEFINE r == [Idle EXCEPT !.op = "pay", !.order = o, !.txn = o, !.hook = TRUE, !.seen = order[o]]
      <4>1. tx' = [tx EXCEPT ![s] = r] /\ r.op = "pay"  BY <3>1 DEF Notify, Idle
      <4> HIDE DEF r
      <4> QED  BY <4>1
    <3>2. CASE RefundRead(s, o)
      <4> DEFINE r == [Idle EXCEPT !.op = "refund", !.order = o, !.seen = refund[o]]
      <4>1. tx' = [tx EXCEPT ![s] = r] /\ r.op = "refund"  BY <3>2 DEF RefundRead, Idle
      <4> HIDE DEF r
      <4> QED  BY <4>1
    <3> QED  BY <1>3, <3>1, <3>2
  <2> QED  BY <2>1, <2>2, RequestKept
<1>4. ASSUME NEW s \in Sessions, NEW o \in Orders, NEW t \in Refs, NEW at \in 0 .. now,
             Transfer(s, o, t, at)
      PROVE  ChainInv'
  <2>1. Enter(s, o, t, FALSE, order[o], at) /\ UNCHANGED <<contract, prev, order, now>>
    BY <1>4 DEF Transfer
  <2> QED  BY <2>1, EnterChain
<1>5. ASSUME NEW s \in Sessions, NEW at \in 0 .. now, PayLock(s, at) PROVE ChainInv'
  <2> DEFINE o == tx[s].order
  <2>1. UNCHANGED <<contract, prev, order, now>> /\ tx[s].op = "pay"  BY <1>5 DEF PayLock
  <2>2. o \in Orders  BY <2>1, KnownRequest
  <2>3. CASE tx' = [tx EXCEPT ![s].op = "ack"]
    <3> DEFINE r == [tx[s] EXCEPT !.op = "ack"]
    <3>1. tx' = [tx EXCEPT ![s] = r] /\ tx[s] \in Request  BY <2>3, KnownRequest
    <3>2. r.op = "ack"  BY <3>1 DEF Request
    <3> HIDE DEF r
    <3> QED  BY <2>1, <3>1, <3>2, RequestKept
  <2>4. CASE Enter(s, o, o, TRUE, tx[s].seen, at)  BY <2>1, <2>2, <2>4, EnterChain
  <2> QED  BY <1>5, <2>3, <2>4 DEF PayLock
<1>6. ASSUME NEW s \in Sessions, PayContracts(s) PROVE ChainInv'
  <2> DEFINE r == [tx[s] EXCEPT !.op = "fulfil", !.rows = @ \cap Active]
  <2>1. /\ UNCHANGED <<contract, prev, order, now>> /\ tx[s].op = "contracts"
        /\ tx[s].rows \cap Locked(s) = {}
    BY <1>6 DEF PayContracts
  <2>2. tx[s] \in Request  BY KnownRequest
  <2>3. tx' = [tx EXCEPT ![s] = r]
    <3>1. tx \in [Sessions -> Request]  BY DEF IInv, TablesOK
    <3> QED  BY <1>6, <3>1 DEF PayContracts
  <2>4. r.op = "fulfil" /\ r.rows = tx[s].rows \cap Active /\ r.order = tx[s].order
    BY <2>2 DEF Request
  <2> HIDE DEF r
  <2>5. \A t \in Sessions \ {s} : tx[t].op = "fulfil" => r.rows \cap tx[t].rows = {}
    BY <2>1, <2>4 DEF Locked
  <2>6. r.order \in Addons => r.rows = {}  BY <2>1, <2>4 DEF ChainInv, Held
  <2> QED  BY <2>1, <2>3, <2>4, <2>5, <2>6, RequestKept
<1>7. ASSUME NEW s \in Sessions, Acknowledge(s) \/ Abort(s) PROVE ChainInv'
  <2>1. tx' = [tx EXCEPT ![s] = Idle] /\ UNCHANGED <<contract, prev, order, now>>
    BY <1>7 DEF Acknowledge, Abort
  <2>2. Idle.op = "idle"  BY DEF Idle
  <2> QED  BY <2>1, <2>2, RequestKept
<1>8. ASSUME NEW s \in Sessions, RefundLock(s) PROVE ChainInv'
  <2> DEFINE o == tx[s].order
             back == IF o \in Plans THEN {c \in prev[o] \ Active : contract[c].ends > now} ELSE {}
             own == o \in Active
             r == [tx[s] EXCEPT !.op = "return", !.closing = own, !.rows = back]
  <2>1. UNCHANGED <<contract, prev, order, now>>  BY <1>8 DEF RefundLock
  <2>2. tx[s] \in Request /\ tx \in [Sessions -> Request]  BY DEF IInv, TablesOK
  <2>3. CASE tx' = [tx EXCEPT ![s] = Idle]
    <3>1. Idle.op = "idle"  BY DEF Idle
    <3> QED  BY <2>1, <2>3, <3>1, RequestKept
  <2>4. CASE tx' = [tx EXCEPT ![s].op = "return", ![s].closing = own, ![s].rows = back]
    <3>1. tx' = [tx EXCEPT ![s] = r]  BY <2>2, <2>4
    <3>2. r.op = "return" /\ r.order = o /\ r.rows = back
      <4> HIDE DEF own, back
      <4> QED  BY <2>2 DEF Request
    <3>3. o \in Plans =>
            /\ back \subseteq prev[o]
            /\ order[o] = "fulfilled" => {c \in prev[o] : contract[c].ends > now} \subseteq back
      BY DEF ChainInv, Replaced, Active
    <3>4. o \notin Plans => back = {}  OBVIOUS
    <3> HIDE DEF r, back
    <3> QED  BY <2>1, <3>1, <3>2, <3>3, <3>4, RequestKept
  <2> QED  BY <1>8, <2>3, <2>4 DEF RefundLock
<1> QED  BY <1>1, <1>2, <1>3, <1>4, <1>5, <1>6, <1>7, <1>8 DEF Quiet

\* Of finitely many contracts one ends last.
LEMMA LastToEnd ==
  ASSUME ContractsOK, NEW C \in SUBSET Contracts, C # {}
  PROVE  \E c \in C : \A d \in C : contract[d].ends <= contract[c].ends
<1> DEFINE later(c) == {d \in C : contract[d].ends > contract[c].ends}
           D == {later(c) : c \in C}
<1>1. IsFiniteSet(C)
  <2>1. IsFiniteSet(Contracts)  BY PlansFinite, FS_AddElement DEF Contracts
  <2> QED  BY <2>1, FS_Subset
<1>2. PICK m \in D : \A k \in D : k \subseteq m => k = m
  <2>1. D # {} /\ D \in SUBSET SUBSET C  OBVIOUS
  <2> HIDE DEF D
  <2> QED  BY <1>1, <2>1, MinimalSet
<1>3. PICK c \in C : m = later(c)  BY <1>2
<1>4. \A d \in C : contract[d].ends \in Nat  BY DEF ContractsOK
<1>5. ASSUME NEW d \in C, contract[d].ends > contract[c].ends PROVE FALSE
  <2>1. later(d) \subseteq later(c)  BY <1>4, <1>5
  <2>2. d \in later(c) /\ d \notin later(d)  BY <1>4, <1>5
  <2> QED  BY <1>2, <1>3, <2>1, <2>2
<1> QED  BY <1>4, <1>5

\* A renewal ends later than every contract it replaces.
LEMMA EndsLater ==
  ASSUME ContractsOK, IInv, NEW s \in Sessions
  PROVE  /\ Ends(s) \in Nat
         /\ \A c \in tx[s].rows : contract[c].ends < Ends(s)
<1> DEFINE C == tx[s].rows
           E == {tx[s].paidAt} \cup {contract[c].ends : c \in C}
<1>1. C \subseteq Contracts /\ tx[s].paidAt \in Nat  BY KnownRequest DEF Request
<1>2. \A c \in C : contract[c].ends \in Nat  BY <1>1 DEF ContractsOK
<1>3. \E x \in E : \A y \in E : x >= y
  <2>1. CASE C = {}  BY <1>1, <2>1
  <2>2. CASE C # {}
    <3>1. PICK c \in C : \A d \in C : contract[d].ends <= contract[c].ends
      BY <1>1, <2>2, LastToEnd
    <3>2. CASE contract[c].ends >= tx[s].paidAt  BY <1>1, <1>2, <3>1, <3>2
    <3>3. CASE ~ (contract[c].ends >= tx[s].paidAt)  BY <1>1, <1>2, <3>1, <3>3
    <3> QED  BY <3>2, <3>3
  <2> QED  BY <2>1, <2>2
<1>4. Max(E) \in E /\ \A y \in E : Max(E) >= y
  <2> HIDE DEF E
  <2> QED  BY <1>3 DEF Max
<1>5. Max(E) \in Nat  BY <1>1, <1>2, <1>4
<1>6. Ends(s) = Max(E) + Validity  BY DEF Ends
<1>7. \A c \in C : Max(E) >= contract[c].ends  BY <1>4
<1> HIDE DEF E
<1> QED  BY <1>2, <1>5, <1>6, <1>7, TimesPositive

-----------------------------------------------------------------------------
\* Fulfilment.  The order was not delivered before, its contract is new, and
\* the contracts it replaces were active, so nobody had replaced them.
LEMMA PayCommitChain ==
  ASSUME ChainInv, IInv, NEW s \in Sessions, PayCommit(s)
  PROVE  ChainInv'
<1> DEFINE o == tx[s].order
           C == tx[s].rows
           r == IF tx[s].hook THEN [Idle EXCEPT !.op = "ack", !.order = o, !.hook = TRUE] ELSE Idle
<1>1. /\ tx[s].op = "fulfil"
      /\ o \in Plans => contract[o].status = "absent"
      /\ KeyFresh("fulfilled", o)
      /\ contract' = Renewed(s)
      /\ prev' = [p \in Plans |-> IF p = o THEN C ELSE prev[p]]
      /\ order' = [order EXCEPT ![o] = "fulfilled"]
      /\ tx' = [tx EXCEPT ![s] = r]
      /\ now' = now
  BY DEF PayCommit
<1>2. tx[s] \in Request /\ o \in Orders /\ C \subseteq Contracts  BY <1>1, KnownRequest DEF Request
<1>3. r.op \in {"idle", "ack"}  BY DEF Idle
<1> HIDE DEF r
<1>4. order[o] # "fulfilled" /\ order[o] # "refunded"
  BY <1>1, <1>2 DEF IInv, KeysTell, KeyFresh, Done
<1>5. /\ C \subseteq Active
      /\ \A t \in Sessions \ {s} : tx[t].op = "fulfil" => C \cap tx[t].rows = {}
      /\ o \in Addons => C = {}
  BY <1>1 DEF ChainInv, Held
<1>6. ContractsOK  BY DEF ChainInv
<1>7. Ends(s) \in Nat /\ \A c \in C : contract[c].ends < Ends(s)  BY <1>6, EndsLater
<1>8. \A q \in Orders : order'[q] = IF q = o THEN "fulfilled" ELSE order[q]
  BY <1>1 DEF IInv, TablesOK
<1>9. /\ o \in Contracts <=> o \in Plans
      /\ o \notin Plans <=> o \in Addons
  BY <1>2, OrderKinds DEF Orders, Contracts
<1>10. o \notin C  BY <1>1, <1>5, <1>9, <1>2 DEF Active
<1>11. ASSUME NEW c \in Contracts
       PROVE  /\ c = o => contract'[c] = [status |-> "active", ends |-> Ends(s)]
              /\ c \in C => contract'[c] = [contract[c] EXCEPT !.status = "expired"]
              /\ c # o /\ c \notin C => contract'[c] = contract[c]
  <2>1. contract'[c] = CASE c = o -> [status |-> "active", ends |-> Ends(s)]
                         [] c \in C -> [contract[c] EXCEPT !.status = "expired"]
                         [] OTHER -> contract[c]
    BY <1>1 DEF Renewed
  <2>2. ASSUME NEW x, NEW y, NEW z, NEW P \in BOOLEAN, NEW Q \in BOOLEAN, ~ (P /\ Q)
        PROVE  LET v == CASE P -> x [] Q -> y [] OTHER -> z
               IN  (P => v = x) /\ (Q => v = y) /\ (~P /\ ~Q => v = z)
    BY <2>2
  <2> QED  BY <1>10, <2>1, <2>2
<1>12. ASSUME NEW c \in Contracts
       PROVE  /\ c # o => contract'[c].ends = contract[c].ends
              /\ c \in C => contract'[c].status = "expired"
              /\ c # o /\ c \notin C => contract'[c].status = contract[c].status
              /\ c = o => contract'[c].status = "active" /\ contract'[c].ends = Ends(s)
              /\ contract'[c] \in [status: {"absent", "active", "expired"}, ends: Nat]
  <2>1. contract[c] \in [status: {"absent", "active", "expired"}, ends: Nat]
    BY <1>6 DEF ContractsOK
  <2>2. CASE c = o
    <3>1. contract'[c] = [status |-> "active", ends |-> Ends(s)] /\ c \notin C  BY <1>10, <1>11, <2>2
    <3> HIDE DEF o, C
    <3> QED  BY <1>7, <2>2, <3>1
  <2>3. CASE c \in C
    <3>1. contract'[c] = [contract[c] EXCEPT !.status = "expired"] /\ c # o  BY <1>10, <1>11, <2>3
    <3> HIDE DEF o, C
    <3> QED  BY <2>1, <2>3, <3>1
  <2>4. CASE c # o /\ c \notin C  BY <1>11, <2>1, <2>4
  <2> QED  BY <2>2, <2>3, <2>4
<1>13. ContractsOK'
  <2>1. contract' = [c \in Contracts |-> contract'[c]]  BY <1>1 DEF Renewed
  <2> QED  BY <1>12, <2>1 DEF ContractsOK
<1>14. \A p \in Plans : prev'[p] = IF p = o THEN C ELSE prev[p]  BY <1>1
<1>15. \A p \in Plans : p \in Orders /\ p \in Contracts  BY DEF Orders, Contracts
<1>16. \A p \in Plans : order[p] = "fulfilled" =>
         /\ p # o
         /\ contract[p].status # "absent"
         /\ prev[p] \subseteq Contracts
         /\ \A c \in prev[p] : contract[c].status = "expired" /\ contract[c].ends < contract[p].ends
         /\ prev[p] \cap C = {}
         /\ o \notin prev[p]
  <2>1. SUFFICES ASSUME NEW p \in Plans, order[p] = "fulfilled"
                 PROVE  /\ p # o
                        /\ contract[p].status # "absent"
                        /\ prev[p] \subseteq Contracts
                        /\ \A c \in prev[p] : contract[c].status = "expired" /\ contract[c].ends < contract[p].ends
                        /\ prev[p] \cap C = {}
                        /\ o \notin prev[p]
    OBVIOUS
  <2>2. prev[p] \subseteq Contracts  BY DEF IInv, TablesOK
  <2>3. /\ contract[p].status # "absent"
        /\ \A c \in prev[p] : contract[c].status = "expired" /\ contract[c].ends < contract[p].ends
    BY <2>1 DEF ChainInv, Replaced
  <2>4. prev[p] \cap C = {}  BY <1>5, <2>3 DEF Active
  <2>5. o \notin prev[p]  BY <1>1, <1>9, <2>2, <2>3
  <2> QED  BY <1>4, <2>1, <2>2, <2>3, <2>4, <2>5
<1>17. Replaced'
  <2>1. SUFFICES ASSUME NEW p \in Plans, order'[p] = "fulfilled"
                 PROVE  /\ contract'[p].status # "absent"
                        /\ \A c \in prev'[p] : contract'[c].status = "expired" /\ contract'[c].ends < contract'[p].ends
                        /\ \A q \in Plans \ {p} : order'[q] = "fulfilled" => prev'[p] \cap prev'[q] = {}
    BY DEF Replaced
  <2>2. CASE p = o
    <3>1. contract'[p].status # "absent" /\ prev'[p] = C  BY <1>12, <1>14, <1>15, <2>2
    <3>2. \A c \in C : contract'[c].status = "expired" /\ contract'[c].ends < contract'[p].ends
      BY <1>2, <1>7, <1>10, <1>12, <1>15, <2>2
    <3>3. \A q \in Plans \ {p} : order'[q] = "fulfilled" => C \cap prev'[q] = {}
      BY <1>8, <1>14, <1>15, <1>16, <2>2
    <3> QED  BY <3>1, <3>2, <3>3
  <2>3. CASE p # o
    <3>1. order[p] = "fulfilled" /\ prev'[p] = prev[p]  BY <1>8, <1>14, <1>15, <2>1, <2>3
    <3>2. /\ contract[p].status # "absent"
          /\ prev[p] \subseteq Contracts
          /\ \A c \in prev[p] : contract[c].status = "expired" /\ contract[c].ends < contract[p].ends
          /\ prev[p] \cap C = {}
          /\ o \notin prev[p]
      BY <1>16, <3>1
    <3>3. contract'[p].status # "absent" /\ contract'[p].ends = contract[p].ends
      BY <1>12, <1>15, <2>3, <3>2
    <3>4. \A c \in prev[p] : contract'[c].status = "expired" /\ contract'[c].ends = contract[c].ends
      BY <1>12, <3>2
    <3>5. \A q \in Plans \ {p} : order'[q] = "fulfilled" => prev[p] \cap prev'[q] = {}
      <4>1. TAKE q \in Plans \ {p}
      <4>2. HAVE order'[q] = "fulfilled"
      <4>3. CASE q = o  BY <1>14, <3>2, <4>3
      <4>4. CASE q # o
        <5>1. order[q] = "fulfilled" /\ prev'[q] = prev[q]  BY <1>8, <1>14, <1>15, <4>2, <4>4
        <5> QED  BY <3>1, <5>1 DEF ChainInv, Replaced
      <4> QED  BY <4>3, <4>4
    <3> QED  BY <3>1, <3>2, <3>3, <3>4, <3>5
  <2> QED  BY <2>2, <2>3
<1>18. Chained'
  <2>1. SUFFICES ASSUME NEW p \in Plans, order'[p] = "fulfilled", contract'[p].ends > now,
                        p \notin Active'
                 PROVE  \E q \in Plans : order'[q] = "fulfilled" /\ p \in prev'[q]
    BY <1>1 DEF Chained
  <2>2. p # o  BY <1>12, <1>15, <2>1 DEF Active
  <2>3. order[p] = "fulfilled" /\ contract[p].ends > now  BY <1>8, <1>12, <1>15, <2>1, <2>2
  <2>4. CASE p \in C
    <3>1. o \in Plans  BY <1>5, <1>9, <2>4
    <3> QED  BY <1>8, <1>14, <1>15, <2>4, <3>1
  <2>5. CASE p \notin C
    <3>1. p \notin Active  BY <1>12, <1>15, <2>1, <2>2, <2>5 DEF Active
    <3>2. PICK q \in Plans : order[q] = "fulfilled" /\ p \in prev[q]
      BY <2>3, <3>1 DEF ChainInv, Chained
    <3> QED  BY <1>8, <1>14, <1>15, <1>16, <3>2
  <2> QED  BY <2>4, <2>5
<1>19. \A u \in Sessions : tx'[u] = IF u = s THEN r ELSE tx[u]
  BY <1>1 DEF IInv, TablesOK
<1>20. Held'
  <2>1. ASSUME NEW u \in Sessions, tx'[u].op \in {"contracts", "fulfil"}
        PROVE  u # s /\ tx'[u] = tx[u]
    BY <1>3, <1>19, <2>1
  <2>2. ASSUME NEW u \in Sessions, tx'[u].op = "fulfil"
        PROVE  /\ tx'[u].rows \subseteq Active'
               /\ \A t \in Sessions \ {u} : tx'[t].op = "fulfil" => tx'[u].rows \cap tx'[t].rows = {}
    <3>1. u # s /\ tx'[u] = tx[u] /\ tx[u].op = "fulfil"  BY <2>1, <2>2
    <3>2. /\ tx[u].rows \subseteq Active
          /\ \A t \in Sessions \ {u} : tx[t].op = "fulfil" => tx[u].rows \cap tx[t].rows = {}
      BY <3>1 DEF ChainInv, Held
    <3>3. tx[u].rows \subseteq Active'
      <4>1. tx[u].rows \cap C = {}  BY <1>5, <3>1
      <4> QED  BY <1>12, <3>2, <4>1 DEF Active
    <3> QED  BY <2>1, <3>1, <3>2, <3>3
  <2>3. ASSUME NEW u \in Sessions, tx'[u].op \in {"contracts", "fulfil"}, tx'[u].order \in Addons
        PROVE  tx'[u].rows = {}
    BY <2>1, <2>3 DEF ChainInv, Held
  <2> QED  BY <2>2, <2>3 DEF Held
<1>21. Returning'
  <2>1. SUFFICES ASSUME NEW u \in Sessions, tx'[u].op = "return"
                 PROVE  IF tx'[u].order \in Plans
                          THEN /\ tx'[u].rows \subseteq prev'[tx'[u].order]
                               /\ order'[tx'[u].order] = "fulfilled" =>
                                    {c \in prev'[tx'[u].order] : contract'[c].ends > now} \subseteq tx'[u].rows
                          ELSE tx'[u].rows = {}
    BY <1>1 DEF Returning
  <2>2. tx'[u] = tx[u] /\ tx[u].op = "return"  BY <1>3, <1>19, <2>1
  <2>3. tx[u].order \in Orders /\ order[tx[u].order] \in Done  BY <2>2, KnownRequest
  <2>4. tx[u].order # o  BY <1>4, <2>3 DEF Done
  <2>5. CASE tx[u].order \notin Plans  BY <2>2, <2>5 DEF ChainInv, Returning
  <2>6. CASE tx[u].order \in Plans
    <3> DEFINE p == tx[u].order
    <3>1. /\ tx[u].rows \subseteq prev[p]
          /\ order[p] = "fulfilled" => {c \in prev[p] : contract[c].ends > now} \subseteq tx[u].rows
      BY <2>2, <2>6 DEF ChainInv, Returning
    <3>2. prev'[p] = prev[p] /\ order'[p] = order[p]  BY <1>8, <1>14, <2>3, <2>4, <2>6
    <3>3. order[p] = "fulfilled" => \A c \in prev[p] : contract'[c].ends = contract[c].ends
      BY <1>12, <1>16, <2>6
    <3> QED  BY <2>2, <2>6, <3>1, <3>2, <3>3
  <2> QED  BY <2>5, <2>6
<1> QED  BY <1>13, <1>17, <1>18, <1>20, <1>21 DEF ChainInv

\* A refund.  The order is delivered until this step, so the contracts it
\* replaced are its own to bring back, and every one that is not over is.
LEMMA RefundCommitChain ==
  ASSUME ChainInv, IInv, NEW s \in Sessions, RefundCommit(s)
  PROVE  ChainInv'
<1> DEFINE o == tx[s].order
           C == tx[s].rows
           closed(c) == c = o /\ tx[s].closing
<1>1. /\ tx[s].op = "return" /\ KeyFresh("refunded", o)
      /\ (C \cup {o}) \cap Locked(s) = {}
      /\ contract' = Restored(s)
      /\ order' = [order EXCEPT ![o] = "refunded"]
      /\ tx' = [tx EXCEPT ![s] = Idle]
      /\ UNCHANGED <<prev, now>>
  BY DEF RefundCommit
<1>2. o \in Orders /\ order[o] \in Done /\ C \subseteq Contracts  BY <1>1, KnownRequest DEF Request
<1>3. order[o] = "fulfilled"
  <2>1. order[o] # "refunded"  BY <1>1, <1>2 DEF IInv, KeysTell, KeyFresh
  <2> QED  BY <1>2, <2>1 DEF Done
<1>4. \A q \in Orders : order'[q] = IF q = o THEN "refunded" ELSE order[q]
  BY <1>1 DEF IInv, TablesOK
<1>5. /\ o \in Plans => C \subseteq prev[o] /\ {c \in prev[o] : contract[c].ends > now} \subseteq C
      /\ o \notin Plans => C = {}
  BY <1>1, <1>3 DEF ChainInv, Returning
<1>6. ContractsOK  BY DEF ChainInv
<1>7. ASSUME NEW c \in Contracts
      PROVE  /\ closed(c) => contract'[c] = [contract[c] EXCEPT !.status = "expired"]
             /\ ~closed(c) /\ c \in C => contract'[c] = [contract[c] EXCEPT !.status = "active"]
             /\ ~closed(c) /\ c \notin C => contract'[c] = contract[c]
  <2>1. contract'[c] = CASE c = tx[s].order /\ tx[s].closing -> [contract[c] EXCEPT !.status = "expired"]
                         [] c \in tx[s].rows -> [contract[c] EXCEPT !.status = "active"]
                         [] OTHER -> contract[c]
    BY <1>1 DEF Restored
  <2>2. c \notin C \/ ~closed(c)
    <3>1. SUFFICES ASSUME c \in C, closed(c) PROVE FALSE
      OBVIOUS
    <3>2. o \in Plans /\ o \in prev[o]  BY <1>5, <3>1
    <3>3. contract[o].ends < contract[o].ends  BY <1>3, <3>2 DEF ChainInv, Replaced
    <3>4. contract[o].ends \in Nat  BY <1>6, <3>1 DEF ContractsOK
    <3> QED  BY <3>3, <3>4
  <2>3. ASSUME NEW x, NEW y, NEW z, NEW P \in BOOLEAN, NEW Q \in BOOLEAN, ~ (P /\ Q)
        PROVE  LET v == CASE P -> x [] Q -> y [] OTHER -> z
               IN  (P => v = x) /\ (Q => v = y) /\ (~P /\ ~Q => v = z)
    BY <2>3
  <2>4. (c = o /\ tx[s].closing) \in BOOLEAN  OBVIOUS
  <2> QED  BY <2>1, <2>2, <2>3, <2>4
<1>8. ASSUME NEW c \in Contracts
      PROVE  /\ contract'[c].ends = contract[c].ends
             /\ closed(c) => contract'[c].status = "expired"
             /\ ~closed(c) /\ c \in C => contract'[c].status = "active"
             /\ ~closed(c) /\ c \notin C => contract'[c].status = contract[c].status
             /\ contract'[c] \in [status: {"absent", "active", "expired"}, ends: Nat]
  <2>1. contract[c] \in [status: {"absent", "active", "expired"}, ends: Nat]
    BY <1>6 DEF ContractsOK
  <2>2. CASE closed(c)
    <3>1. contract'[c] = [contract[c] EXCEPT !.status = "expired"]  BY <1>7, <2>2
    <3> HIDE DEF closed
    <3> QED  BY <2>1, <2>2, <3>1
  <2>3. CASE ~closed(c) /\ c \in C
    <3>1. contract'[c] = [contract[c] EXCEPT !.status = "active"]  BY <1>7, <2>3
    <3> HIDE DEF closed
    <3> QED  BY <2>1, <2>3, <3>1
  <2>4. CASE ~closed(c) /\ c \notin C
    <3>1. contract'[c] = contract[c]  BY <1>7, <2>4
    <3> HIDE DEF closed
    <3> QED  BY <2>1, <2>4, <3>1
  <2> QED  BY <2>2, <2>3, <2>4
<1>9. ContractsOK'
  <2>1. contract' = [c \in Contracts |-> contract'[c]]  BY <1>1 DEF Restored
  <2> QED  BY <1>8, <2>1 DEF ContractsOK
<1>10. \A p \in Plans : p \in Orders /\ p \in Contracts  BY DEF Orders, Contracts
<1>11. Replaced'
  <2>1. SUFFICES ASSUME NEW p \in Plans, order'[p] = "fulfilled"
                 PROVE  /\ contract'[p].status # "absent"
                        /\ \A c \in prev[p] : contract'[c].status = "expired" /\ contract'[c].ends < contract'[p].ends
                        /\ \A q \in Plans \ {p} : order'[q] = "fulfilled" => prev[p] \cap prev[q] = {}
    BY <1>1 DEF Replaced
  <2>2. p # o /\ order[p] = "fulfilled"  BY <1>4, <1>10, <2>1
  <2>3. /\ contract[p].status # "absent"
        /\ \A c \in prev[p] : contract[c].status = "expired" /\ contract[c].ends < contract[p].ends
        /\ \A q \in Plans \ {p} : order[q] = "fulfilled" => prev[p] \cap prev[q] = {}
    BY <2>2 DEF ChainInv, Replaced
  <2>4. prev[p] \subseteq Contracts  BY DEF IInv, TablesOK
  <2>5. prev[p] \cap C = {}  BY <1>3, <1>5, <2>2, <2>3
  <2>6. \A c \in prev[p] : contract'[c].status = "expired" /\ contract'[c].ends < contract'[p].ends
    BY <1>8, <1>10, <2>3, <2>4, <2>5
  <2>7. contract'[p].status # "absent"  BY <1>8, <1>10, <2>2, <2>3
  <2>8. \A q \in Plans \ {p} : order'[q] = "fulfilled" => prev[p] \cap prev[q] = {}
    BY <1>4, <1>10, <2>3
  <2> QED  BY <2>6, <2>7, <2>8
<1>12. Chained'
  <2>1. SUFFICES ASSUME NEW p \in Plans, order'[p] = "fulfilled", contract'[p].ends > now,
                        p \notin Active'
                 PROVE  \E q \in Plans : order'[q] = "fulfilled" /\ p \in prev[q]
    BY <1>1 DEF Chained
  <2>2. p # o /\ order[p] = "fulfilled" /\ contract[p].ends > now
    BY <1>4, <1>8, <1>10, <2>1
  <2>3. p \notin C /\ p \notin Active  BY <1>8, <1>10, <2>1, <2>2 DEF Active
  <2>4. PICK q \in Plans : order[q] = "fulfilled" /\ p \in prev[q]
    BY <2>2, <2>3 DEF ChainInv, Chained
  <2>5. q # o  BY <1>5, <2>2, <2>3, <2>4
  <2> QED  BY <1>4, <1>10, <2>4, <2>5
<1>13. \A u \in Sessions : tx'[u] = IF u = s THEN Idle ELSE tx[u]
  BY <1>1 DEF IInv, TablesOK
<1>14. ASSUME NEW u \in Sessions, tx'[u].op # "idle" PROVE u # s /\ tx'[u] = tx[u]
  BY <1>13, <1>14 DEF Idle
<1>15. Held'
  <2>1. ASSUME NEW u \in Sessions, tx'[u].op = "fulfil"
        PROVE  /\ tx'[u].rows \subseteq Active'
               /\ \A t \in Sessions \ {u} : tx'[t].op = "fulfil" => tx'[u].rows \cap tx'[t].rows = {}
    <3>1. u # s /\ tx'[u] = tx[u]  BY <1>14, <2>1
    <3>2. /\ tx[u].rows \subseteq Active
          /\ \A t \in Sessions \ {u} : tx[t].op = "fulfil" => tx[u].rows \cap tx[t].rows = {}
      BY <2>1, <3>1 DEF ChainInv, Held
    <3>3. tx[u].rows \subseteq Active'
      <4>1. tx[u].rows \cap (C \cup {o}) = {}  BY <1>1, <2>1, <3>1 DEF Locked
      <4> QED  BY <1>8, <3>2, <4>1 DEF Active
    <3> QED  BY <1>14, <3>1, <3>2, <3>3
  <2>2. ASSUME NEW u \in Sessions, tx'[u].op \in {"contracts", "fulfil"}, tx'[u].order \in Addons
        PROVE  tx'[u].rows = {}
    BY <1>14, <2>2 DEF ChainInv, Held
  <2> QED  BY <2>1, <2>2 DEF Held
<1>16. Returning'
  <2>1. SUFFICES ASSUME NEW u \in Sessions, tx'[u].op = "return"
                 PROVE  IF tx'[u].order \in Plans
                          THEN /\ tx'[u].rows \subseteq prev[tx'[u].order]
                               /\ order'[tx'[u].order] = "fulfilled" =>
                                    {c \in prev[tx'[u].order] : contract'[c].ends > now} \subseteq tx'[u].rows
                          ELSE tx'[u].rows = {}
    BY <1>1 DEF Returning
  <2>2. tx'[u] = tx[u] /\ tx[u].op = "return"  BY <1>14, <2>1
  <2>3. CASE tx[u].order \notin Plans  BY <2>2, <2>3 DEF ChainInv, Returning
  <2>4. CASE tx[u].order \in Plans
    <3> DEFINE p == tx[u].order
    <3>1. /\ tx[u].rows \subseteq prev[p]
          /\ order[p] = "fulfilled" => {c \in prev[p] : contract[c].ends > now} \subseteq tx[u].rows
      BY <2>2, <2>4 DEF ChainInv, Returning
    <3>2. order'[p] = "fulfilled" => order[p] = "fulfilled"  BY <1>4, <1>10, <2>4
    <3>3. \A c \in prev[p] : contract'[c].ends = contract[c].ends
      <4>1. prev[p] \subseteq Contracts  BY <2>4 DEF IInv, TablesOK
      <4> QED  BY <1>8, <4>1
    <3> QED  BY <2>2, <2>4, <3>1, <3>2, <3>3
  <2> QED  BY <2>3, <2>4
<1> QED  BY <1>9, <1>11, <1>12, <1>15, <1>16 DEF ChainInv

-----------------------------------------------------------------------------
LEMMA NextChain == IInv /\ ChainInv /\ [Next]_vars => ChainInv'
<1> SUFFICES ASSUME IInv, ChainInv, [Next]_vars PROVE ChainInv'
  OBVIOUS
<1>1. CASE Quiet  BY <1>1, QuietChain
<1>2. CASE \E o \in Orders : CreateOrder(o)
  <2>1. PICK o \in Orders : CreateOrder(o)  BY <1>2
  <2>2. /\ UNCHANGED <<contract, prev, tx, now>> /\ now \in Nat
        /\ order[o] = "absent" /\ order' = [order EXCEPT ![o] = "pending"]
    BY <2>1 DEF CreateOrder, IInv, TablesOK
  <2>3. \A p \in Plans : order'[p] = "fulfilled" <=> order[p] = "fulfilled"
    BY <2>2 DEF IInv, TablesOK, Orders
  <2> QED  BY <2>2, <2>3, TimePasses
<1>3. CASE \E o \in Orders, what \in {"held", "released", "spent"} : Draw(o, what)
  <2>1. UNCHANGED <<contract, prev, tx, order, now>> /\ now \in Nat
    BY <1>3 DEF Draw, IInv, TablesOK
  <2> QED  BY <2>1, TimePasses
<1>4. CASE \E s \in Sessions : PayCommit(s)  BY <1>4, PayCommitChain
<1>5. CASE \E s \in Sessions : RefundCommit(s)  BY <1>5, RefundCommitChain
<1>6. CASE UNCHANGED vars
  <2>1. UNCHANGED <<contract, prev, tx, order, now>> /\ now \in Nat
    BY <1>6 DEF vars, IInv, TablesOK
  <2> QED  BY <2>1, TimePasses
<1> QED  BY <1>1, <1>2, <1>3, <1>4, <1>5, <1>6, NextCases

\* Following the replacements from a delivered plan, the contracts end later
\* and later; there are finitely many, so the last is in service.
LEMMA ChainCovers == IInv /\ ChainInv => Covered
<1> SUFFICES ASSUME IInv, ChainInv, NEW o \in Plans, order[o] = "fulfilled", contract[o].ends > now
             PROVE  \E c \in Active : contract[c].ends >= contract[o].ends
  BY DEF Covered
<1> DEFINE C == {p \in Plans : order[p] = "fulfilled" /\ contract[p].ends >= contract[o].ends}
<1>1. \A c \in Contracts : contract[c].ends \in Nat  BY DEF ChainInv, ContractsOK
<1>2. Plans \subseteq Contracts /\ now \in Nat  BY DEF Contracts, IInv, TablesOK
<1>3. C \in SUBSET Contracts /\ o \in C  BY <1>1, <1>2
<1>4. PICK c \in C : \A d \in C : contract[d].ends <= contract[c].ends
  <2>1. C # {}  BY <1>3
  <2> HIDE DEF C
  <2> QED  BY <1>3, <2>1, LastToEnd DEF ChainInv
<1>5. contract[c].ends > now  BY <1>1, <1>2
<1>6. CASE c \in Active  BY <1>6
<1>7. CASE c \notin Active
  <2>1. PICK q \in Plans : order[q] = "fulfilled" /\ c \in prev[q]
    BY <1>5, <1>7 DEF ChainInv, Chained
  <2>2. contract[c].ends < contract[q].ends  BY <2>1 DEF ChainInv, Replaced
  <2>3. q \in C  BY <1>1, <1>2, <2>1, <2>2
  <2> QED  BY <1>1, <1>2, <1>4, <2>2, <2>3
<1> QED  BY <1>6, <1>7

\* However plans are renewed, paid at once and refunded in whatever order, the
\* time of each plan that stays delivered is covered by a contract in service.
THEOREM StaysCovered == Spec => []Covered
<1>1. Init => IInv /\ ChainInv  BY InitInv, InitChain
<1>2. IInv /\ ChainInv /\ [Next]_vars => (IInv /\ ChainInv)'  BY NextInv, NextChain
<1>3. IInv /\ ChainInv => Covered  BY ChainCovers
<1> QED  BY <1>1, <1>2, <1>3, PTL DEF Spec

=============================================================================
