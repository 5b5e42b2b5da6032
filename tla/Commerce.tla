------------------------------- MODULE Commerce -------------------------------
(***************************************************************************)
(* The shop of one school (services/commerce.py, routes/commerce.py):      *)
(* orders for yearly plans and for add-on packs, payment by WeChat         *)
(* notification or by a confirmed bank transfer, fulfilment (the contract, *)
(* the quota grant, the outbox event) and refunds.                         *)
(*                                                                         *)
(* A session is one request with its database transaction, READ COMMITTED. *)
(* A request that loads a row before it locks it keeps the values it       *)
(* loaded: the ORM does not refresh an object of its identity map.  A      *)
(* SELECT FOR UPDATE that waits re-checks the rows it found at its start   *)
(* and never sees rows inserted meanwhile.                                 *)
(***************************************************************************)
EXTENDS Integers, FiniteSets, FiniteSetsExt

CONSTANTS
  Plans,       \* orders with a plan line
  Addons,      \* orders of add-on packs only
  Refs,        \* bank references the finance office may enter
  Sessions,    \* concurrent requests
  Validity,    \* validity of a plan, in ticks
  MaxTime,     \* bound on the clock
  Trial,       \* a contract the platform entered by hand
  NoOrder

Orders == Plans \cup Addons
Contracts == Plans \cup {Trial}

\* The WeChat transaction that pays order o, and its notification, are named o.
Txns == Refs \cup Orders

ASSUME OrderKinds == Plans \cap Addons = {} /\ NoOrder \notin Orders /\ Trial \notin Orders
\* The orders of a school are the rows of a table.
ASSUME PlansFinite == IsFiniteSet(Plans)
ASSUME RefsDiffer == Refs \cap Orders = {}
ASSUME TimesPositive == Validity \in Nat \ {0} /\ MaxTime \in Nat

VARIABLES
  order,       \* CommerceOrder.status
  paid,        \* PaymentAttempt: the order each transaction paid
  notice,      \* PaymentWebhookEvent of each order's notification
  contract,    \* OrganizationSubscription rows, named after their order
  prev,        \* previous_active_subscription_ids in the plan line
  rows,        \* number of AnswerQuotaGrant rows of an order
  use,         \* what became of an order's quota
  refund,      \* RefundRequest.status
  outbox,      \* idempotency keys of the OutboxEvent rows
  now,
  tx           \* what each open request has read and locked

vars == <<order, paid, notice, contract, prev, rows, use, refund, outbox, now, tx>>

\* hook: a WeChat notification.  seen: order or refund status as loaded.
\* rows: contracts found active, then those locked; in a refund, the
\* contracts to restore.  closing: the refund found its own contract active.
Request == [op: {"idle", "pay", "contracts", "fulfil", "ack", "refund", "return"},
            order: Orders \cup {NoOrder}, txn: Txns \cup {NoOrder}, hook: BOOLEAN,
            seen: {"none", "pending", "fulfilled", "refunded", "open", "succeeded"},
            rows: SUBSET Contracts, paidAt: Nat, closing: BOOLEAN]

Idle == [op |-> "idle", order |-> NoOrder, txn |-> NoOrder, hook |-> FALSE,
         seen |-> "none", rows |-> {}, paidAt |-> 0, closing |-> FALSE]

Absent == [status |-> "absent", ends |-> 0]

Init ==
  /\ order = [o \in Orders |-> "absent"]
  /\ paid = [t \in Txns |-> NoOrder]
  /\ notice = [o \in Orders |-> "new"]
  /\ \E trial \in {Absent, [status |-> "active", ends |-> 1]} :
       contract = [c \in Contracts |-> IF c = Trial THEN trial ELSE Absent]
  /\ prev = [o \in Plans |-> {}]
  /\ rows = [o \in Orders |-> 0]
  /\ use = [o \in Orders |-> "free"]
  /\ refund = [o \in Orders |-> "none"]
  /\ outbox = {}
  /\ now = 0
  /\ tx = [s \in Sessions |-> Idle]

-----------------------------------------------------------------------------
\* Helpers.

Active == {c \in Contracts : contract[c].status = "active"}

\* _active_subscription: some contract is active and has not run out.
InService(cs) == \E c \in Contracts : cs[c].status = "active" /\ cs[c].ends > now

\* The advisory lock and the row lock of an order.
OrderFree(s, o) ==
  \A t \in Sessions \ {s} : tx[t].order = o => tx[t].op \notin {"contracts", "fulfil", "return"}

\* Contract rows taken FOR UPDATE by a payment.
Locked(s) == UNION {tx[t].rows : t \in {u \in Sessions \ {s} : tx[u].op = "fulfil"}}

Done == {"fulfilled", "refunded"}

-----------------------------------------------------------------------------
\* Orders and the use of their quota.

\* create_order: an add-on needs a contract in service.
CreateOrder(o) ==
  /\ order[o] = "absent"
  /\ o \in Addons => InService(contract)
  /\ order' = [order EXCEPT ![o] = "pending"]
  /\ UNCHANGED <<paid, notice, contract, prev, rows, use, refund, outbox, now, tx>>

\* Grading (module AnswerQuota) reserves, releases or consumes an order's
\* quota; a refund that has locked the grant rows keeps it waiting.
Draw(o, what) ==
  /\ rows[o] > 0
  /\ \A s \in Sessions : tx[s].op = "return" => tx[s].order # o
  /\ \/ use[o] \in {"free", "released"} /\ what = "held"
     \/ use[o] = "held" /\ what \in {"released", "spent"}
  /\ use' = [use EXCEPT ![o] = what]
  /\ UNCHANGED <<order, paid, notice, contract, prev, rows, refund, outbox, now, tx>>

Tick ==
  /\ now < MaxTime
  /\ now' = now + 1
  /\ UNCHANGED <<order, paid, notice, contract, prev, rows, use, refund, outbox, tx>>

-----------------------------------------------------------------------------
\* Payment and fulfilment.

\* Mutant: a transaction may pay a second order.
AnyTransaction(t, o) == TRUE

\* provider_transaction_id belongs to one order.
OwnTransaction(t, o) == paid[t] \in {NoOrder, o}

\* The order is locked: go on with the status the request loaded.
Enter(s, o, t, hook, seen, at) ==
  tx' = [tx EXCEPT ![s] = [op |-> "contracts", order |-> o, txn |-> t, hook |-> hook,
                           seen |-> seen, rows |-> IF o \in Plans THEN Active ELSE {},
                           paidAt |-> at, closing |-> FALSE]]

\* confirm_bank_transfer: nothing is loaded before the lock.
Transfer(s, o, t, at) ==
  /\ tx[s].op = "idle" /\ order[o] = "pending"
  /\ OrderFree(s, o) /\ OwnTransaction(t, o)
  /\ Enter(s, o, t, FALSE, order[o], at)
  /\ UNCHANGED <<order, paid, notice, contract, prev, rows, use, refund, outbox, now>>

\* wechat_webhook: insert the event, unless a delivery that failed half-way
\* left one, and load the order; a second insertion of one event waits.
Notify(s, o) ==
  /\ tx[s].op = "idle" /\ order[o] # "absent"
  /\ \/ notice[o] = "stored"
     \/ notice[o] = "new" /\ \A r \in Sessions : ~ (tx[r].hook /\ tx[r].order = o)
  /\ tx' = [tx EXCEPT ![s] = [Idle EXCEPT !.op = "pay", !.order = o, !.txn = o,
                                          !.hook = TRUE, !.seen = order[o]]]
  /\ UNCHANGED <<order, paid, notice, contract, prev, rows, use, refund, outbox, now>>

\* The notification's request gets the lock, with the order as it was loaded.
PayLock(s, at) ==
  LET o == tx[s].order
  IN  /\ tx[s].op = "pay"
      /\ OrderFree(s, o) /\ OwnTransaction(o, o)
      /\ \/ tx[s].seen \in Done /\ tx' = [tx EXCEPT ![s].op = "ack"]
         \/ tx[s].seen \notin Done /\ Enter(s, o, o, TRUE, tx[s].seen, at)
      /\ UNCHANGED <<order, paid, notice, contract, prev, rows, use, refund, outbox, now>>

\* The SELECT FOR UPDATE of the active contracts returns.
PayContracts(s) ==
  /\ tx[s].op = "contracts"
  /\ tx[s].rows \cap Locked(s) = {}
  /\ tx' = [tx EXCEPT ![s].op = "fulfil", ![s].rows = @ \cap Active]
  /\ UNCHANGED <<order, paid, notice, contract, prev, rows, use, refund, outbox, now>>

\* A renewal is appended to the latest of the contracts it replaces.
Ends(s) == Max({tx[s].paidAt} \cup {contract[c].ends : c \in tx[s].rows}) + Validity

\* The contracts after fulfilment: the locked ones expire, the new one starts.
Renewed(s) ==
  [c \in Contracts |->
     CASE c = tx[s].order -> [status |-> "active", ends |-> Ends(s)]
       [] c \in tx[s].rows -> [contract[c] EXCEPT !.status = "expired"]
       [] OTHER -> contract[c]]

KeyFresh(key, o) == <<key, o>> \notin outbox

\* Fulfil and commit; otherwise a constraint or a missing contract rolls back.
PayCommit(s) ==
  LET o == tx[s].order
      t == tx[s].txn
  IN  /\ tx[s].op = "fulfil"
      /\ o \in Plans => contract[o].status = "absent"
      /\ InService(Renewed(s))
      /\ KeyFresh("fulfilled", o) /\ OwnTransaction(t, o)
      /\ contract' = Renewed(s)
      /\ prev' = [p \in Plans |-> IF p = o THEN tx[s].rows ELSE prev[p]]
      /\ rows' = [rows EXCEPT ![o] = @ + 1]
      /\ paid' = [paid EXCEPT ![t] = IF @ = NoOrder THEN o ELSE @]
      /\ order' = [order EXCEPT ![o] = "fulfilled"]
      /\ outbox' = outbox \cup {<<"fulfilled", o>>}
      /\ notice' = [notice EXCEPT ![o] = IF tx[s].hook THEN "stored" ELSE @]
      /\ tx' = [tx EXCEPT ![s] = IF tx[s].hook THEN [Idle EXCEPT !.op = "ack", !.order = o, !.hook = TRUE]
                                               ELSE Idle]
      /\ UNCHANGED <<use, refund, now>>

\* The notification is marked processed and acknowledged.
Acknowledge(s) ==
  /\ tx[s].op = "ack"
  /\ notice' = [notice EXCEPT ![tx[s].order] = "processed"]
  /\ tx' = [tx EXCEPT ![s] = Idle]
  /\ UNCHANGED <<order, paid, contract, prev, rows, use, refund, outbox, now>>

-----------------------------------------------------------------------------
\* Refunds.

RequestRefund(o) ==
  /\ order[o] \in Done /\ refund[o] = "none"
  /\ refund' = [refund EXCEPT ![o] = "open"]
  /\ UNCHANGED <<order, paid, notice, contract, prev, rows, use, outbox, now, tx>>

\* review_refund to approved, processing, rejected or failed: whatever the
\* request was before.  finalize_refund holds the row.
ReviewRefund(o) ==
  /\ refund[o] = "succeeded"
  /\ \A s \in Sessions : tx[s].op = "return" => tx[s].order # o
  /\ refund' = [refund EXCEPT ![o] = "open"]
  /\ UNCHANGED <<order, paid, notice, contract, prev, rows, use, outbox, now, tx>>

\* review_refund to succeeded loads the request, unlocked.
RefundRead(s, o) ==
  /\ tx[s].op = "idle" /\ refund[o] # "none"
  /\ tx' = [tx EXCEPT ![s] = [Idle EXCEPT !.op = "refund", !.order = o, !.seen = refund[o]]]
  /\ UNCHANGED <<order, paid, notice, contract, prev, rows, use, refund, outbox, now>>

\* No answer of the grant is reserved or consumed.
Unused(o) == rows[o] > 0 => use[o] \in {"free", "released"}

\* finalize_refund locks request, order and grants, and reads the contracts.
RefundLock(s) ==
  LET o == tx[s].order
  IN  /\ tx[s].op = "refund"
      /\ OrderFree(s, o)
      /\ \/ /\ ~ (tx[s].seen = "succeeded" /\ order[o] = "refunded")
            /\ Unused(o)
            /\ tx' = [tx EXCEPT ![s].op = "return",
                        ![s].closing = o \in Active,
                        ![s].rows = IF o \in Plans
                                    THEN {c \in prev[o] \ Active : contract[c].ends > now}
                                    ELSE {}]
         \/ /\ tx[s].seen = "succeeded" /\ order[o] = "refunded"
            /\ tx' = [tx EXCEPT ![s] = Idle]
      /\ UNCHANGED <<order, paid, notice, contract, prev, rows, use, refund, outbox, now>>

\* Mutant: the contracts the renewal replaced stay expired.
NotRestored(s) ==
  [c \in Contracts |-> IF c = tx[s].order /\ tx[s].closing
                       THEN [contract[c] EXCEPT !.status = "expired"] ELSE contract[c]]

\* The statuses the refund writes: those it changed from what it read.
Restored(s) ==
  [c \in Contracts |->
     CASE c = tx[s].order /\ tx[s].closing -> [contract[c] EXCEPT !.status = "expired"]
       [] c \in tx[s].rows -> [contract[c] EXCEPT !.status = "active"]
       [] OTHER -> contract[c]]

\* Mutant: allocations go with their grant.
AllocationsCascade(o) == TRUE

\* The foreign key of an allocation, even a released one, keeps the grant.
Unallocated(o) == rows[o] > 0 => use[o] = "free"

\* Delete the grant and commit.
RefundCommit(s) ==
  LET o == tx[s].order
  IN  /\ tx[s].op = "return"
      /\ Unallocated(o)
      /\ (tx[s].rows \cup {o}) \cap Locked(s) = {}
      /\ KeyFresh("refunded", o)
      /\ rows' = [rows EXCEPT ![o] = 0]
      /\ contract' = Restored(s)
      /\ order' = [order EXCEPT ![o] = "refunded"]
      /\ refund' = [refund EXCEPT ![o] = "succeeded"]
      /\ outbox' = outbox \cup {<<"refunded", o>>}
      /\ tx' = [tx EXCEPT ![s] = Idle]
      /\ UNCHANGED <<paid, notice, prev, use, now>>

\* A refusal, a violated constraint, a deadlock or a crash rolls back.
Abort(s) ==
  /\ tx[s].op # "idle"
  /\ tx' = [tx EXCEPT ![s] = Idle]
  /\ UNCHANGED <<order, paid, notice, contract, prev, rows, use, refund, outbox, now>>

-----------------------------------------------------------------------------
Next ==
  \/ Tick
  \/ \E o \in Orders :
       \/ CreateOrder(o) \/ RequestRefund(o) \/ ReviewRefund(o)
       \/ \E what \in {"held", "released", "spent"} : Draw(o, what)
       \/ \E s \in Sessions : Notify(s, o) \/ RefundRead(s, o)
       \/ \E s \in Sessions, t \in Refs, at \in 0 .. now : Transfer(s, o, t, at)
  \/ \E s \in Sessions :
       \/ \E at \in 0 .. now : PayLock(s, at)
       \/ PayContracts(s) \/ PayCommit(s) \/ Acknowledge(s)
       \/ RefundLock(s) \/ RefundCommit(s) \/ Abort(s)

Spec == Init /\ [][Next]_vars

-----------------------------------------------------------------------------
\* Properties.

\* The rows and the requests are well formed, and no order has two grants:
\* however often an order is paid, one quota is granted.
TypeOK ==
  /\ order \in [Orders -> {"absent", "pending", "fulfilled", "refunded"}]
  /\ paid \in [Txns -> Orders \cup {NoOrder}]
  /\ notice \in [Orders -> {"new", "stored", "processed"}]
  /\ contract \in [Contracts -> [status: {"absent", "active", "expired"}, ends: Nat]]
  /\ prev \in [Plans -> SUBSET Contracts]
  /\ rows \in [Orders -> {0, 1}]
  /\ use \in [Orders -> {"free", "held", "released", "spent"}]
  /\ refund \in [Orders -> {"none", "open", "succeeded"}]
  /\ outbox \subseteq {"fulfilled", "refunded"} \X Orders
  /\ now \in Nat
  /\ tx \in [Sessions -> Request]

\* Every delivered order, refunded or not, was paid by a transaction that
\* paid no other order (record_payment_and_fulfill).
PaidFor == \A o \in Orders : order[o] \in Done => \E t \in Txns : paid[t] = o

\* Whatever renewals and refunds come after it, a plan that was delivered, not
\* refunded and is not over is covered by a contract in service that lasts at
\* least as long.  It is not the sum of what was paid: two renewals paid at once may
\* cover the same time.
Covered ==
  \A o \in Plans : order[o] = "fulfilled" /\ contract[o].ends > now =>
    \E c \in Active : contract[c].ends >= contract[o].ends

\* The orders are delivered and taken back as OrderBook promises.
Book == INSTANCE OrderBook WITH
  book <- order, quota <- rows, used <- {o \in Orders : use[o] # "free"}
BooksOrders == Book!Spec

-----------------------------------------------------------------------------
\* The inductive invariant behind PaidFor and BooksOrders.

\* An order has one grant from its delivery to its refund, and its quota was
\* used by nobody before.
DeliveredOnce ==
  \A o \in Orders :
    /\ rows[o] = IF order[o] = "fulfilled" THEN 1 ELSE 0
    /\ order[o] \notin Done => use[o] = "free"

\* The outbox knows every delivery and every refund.
KeysTell ==
  \A o \in Orders :
    /\ order[o] \in Done => <<"fulfilled", o>> \in outbox
    /\ order[o] = "refunded" => <<"refunded", o>> \in outbox

\* A request is about an order that exists, a refund about a delivered one.
RequestsKnown ==
  /\ \A o \in Orders : refund[o] # "none" => order[o] \in Done
  /\ \A s \in Sessions : tx[s].op # "idle" =>
       /\ tx[s].order \in Orders
       /\ order[tx[s].order] # "absent"
       /\ tx[s].op \in {"refund", "return"} => order[tx[s].order] \in Done
       /\ tx[s].op \in {"pay", "contracts", "fulfil"} => tx[s].txn \in Txns

TablesOK ==
  /\ order \in [Orders -> {"absent", "pending", "fulfilled", "refunded"}]
  /\ paid \in [Txns -> Orders \cup {NoOrder}]
  /\ prev \in [Plans -> SUBSET Contracts]
  /\ rows \in [Orders -> Nat]
  /\ use \in [Orders -> {"free", "held", "released", "spent"}]
  /\ refund \in [Orders -> {"none", "open", "succeeded"}]
  /\ now \in Nat
  /\ tx \in [Sessions -> Request]

\* What the prover shows every step to keep.
IInv == TablesOK /\ DeliveredOnce /\ KeysTell /\ RequestsKnown /\ PaidFor

-----------------------------------------------------------------------------
\* The inductive invariant behind Covered.  IInv holds beside it.

ContractsOK == contract \in [Contracts -> [status: {"absent", "active", "expired"}, ends: Nat]]

\* A contract replaced by a delivered plan has expired and ended sooner, and no
\* two delivered plans replaced the same contract.
Replaced ==
  \A o \in Plans : order[o] = "fulfilled" =>
    /\ contract[o].status # "absent"
    /\ \A c \in prev[o] : contract[c].status = "expired" /\ contract[c].ends < contract[o].ends
    /\ \A q \in Plans \ {o} : order[q] = "fulfilled" => prev[o] \cap prev[q] = {}

\* A delivered plan that is not over is in service or was replaced.
Chained ==
  \A p \in Plans : order[p] = "fulfilled" /\ contract[p].ends > now =>
    p \in Active \/ \E o \in Plans : order[o] = "fulfilled" /\ p \in prev[o]

\* What the row locks guarantee: the contracts a fulfilment has locked stay
\* active and are locked by nobody else.
Held ==
  \A s \in Sessions :
    /\ tx[s].op = "fulfil" =>
         /\ tx[s].rows \subseteq Active
         /\ \A t \in Sessions \ {s} : tx[t].op = "fulfil" => tx[s].rows \cap tx[t].rows = {}
    /\ tx[s].op \in {"contracts", "fulfil"} /\ tx[s].order \in Addons => tx[s].rows = {}

\* A refund brings back contracts its order replaced, and, while the order is
\* still delivered, every one of them that is not over.
Returning ==
  \A s \in Sessions : tx[s].op = "return" =>
    LET o == tx[s].order
    IN  IF o \in Plans
          THEN /\ tx[s].rows \subseteq prev[o]
               /\ order[o] = "fulfilled" => {c \in prev[o] : contract[c].ends > now} \subseteq tx[s].rows
          ELSE tx[s].rows = {}

ChainInv == ContractsOK /\ Replaced /\ Chained /\ Held /\ Returning

=============================================================================
