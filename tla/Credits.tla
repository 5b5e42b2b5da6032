------------------------------ MODULE Credits ------------------------------
(***************************************************************************)
(* The credit budget of one school (services/billing.py): reservations     *)
(* taken when a task is created, extended before every model call, settled *)
(* by the worker that ends the task or released by the reconciliation, and *)
(* the usage events model calls leave behind.  TOKEN_BUDGET_ENFORCEMENT is *)
(* on.                                                                     *)
(*                                                                         *)
(* A session is one database transaction.  It takes its locks one after    *)
(* the other and keeps them until it ends: the school's advisory lock, the *)
(* reservation row, the credit grants and, in the transactions of a        *)
(* grading run, the answer-quota grants.  A SELECT reads what is committed *)
(* at that moment, so the two sums of the cap check are two steps.         *)
(*                                                                         *)
(* The school has one live grant of each kind.  Grants never refuse        *)
(* anything here: only their row locks are modelled.  Daily and monthly    *)
(* caps are one Cap, and no day ends.  The price of the next call (the P95 *)
(* of the last 30 days) is the constant Quote.                             *)
(***************************************************************************)
EXTENDS Integers, FiniteSets, Functions

CONSTANTS
  Rids,        \* reservations that may be created, one per task or retry
  Keys,        \* billing keys of usage events: item, attempt number and route
  Sessions,    \* concurrent database transactions
  Estimates,   \* what a task may be estimated at when it is created
  Costs,       \* what a call may turn out to cost; 0: it returned no usage
  Quote,       \* price of the next call
  Cap,         \* daily and monthly cap of the school
  JobCap,      \* max_job_microcredits
  MaxCalls,    \* bound: model calls
  NoRid        \* no reservation

ASSUME RidsFinite == IsFiniteSet(Rids)
ASSUME SessionsFinite == IsFiniteSet(Sessions)
ASSUME NoRidOutside == NoRid \notin Rids
ASSUME LocksDistinct == Rids \cap {"advisory", "answers", "grants"} = {}
ASSUME AmountsNat == /\ Estimates \subseteq Nat /\ Costs \subseteq Nat
                     /\ Quote \in Nat /\ Cap \in Nat /\ JobCap \in Nat
ASSUME CallsBounded == MaxCalls \in Nat

VARIABLES
  resv,        \* CreditReservation rows
  used,        \* microcredits of the SUCCEEDED usage events of a reservation
  keys,        \* billing keys that have an event
  flight,      \* calls authorised and not yet recorded
  tx,          \* open transactions
  seen,        \* the usage an open cap check has read, 0 if none
  calls,       \* calls so far
  over,        \* history: cost of a reservation's events above their quote
  unseen,      \* history: usage the cap checks could not see
  lost         \* history: cost of calls whose key had an event already

rows == <<resv, used, keys, flight, calls, over, unseen, lost>>

vars == <<rows, tx, seen>>

Row == [status: {"none", "active", "settled", "released"},
        est: Nat, auth: Nat, settled: Nat]

NoRow == [status |-> "none", est |-> 0, auth |-> 0, settled |-> 0]

\* at: what the transaction does next.  inc: what it adds to the estimate.
\* todo: reservations a reconciliation still has to release; done: those it has
\* released.
Transaction == [op: {"idle", "reserve", "authorize", "settle", "reconcile"},
                at: {"idle", "advisory", "answers", "row", "usage", "active", "grants"},
                rid: Rids \cup {NoRid}, inc: Nat,
                todo: SUBSET Rids, done: SUBSET Rids,
                holds: SUBSET ({"advisory", "answers", "grants"} \cup Rids)]

Idle == [op |-> "idle", at |-> "idle", rid |-> NoRid, inc |-> 0,
         todo |-> {}, done |-> {}, holds |-> {}]

Init ==
  /\ resv = [r \in Rids |-> NoRow]
  /\ used = [r \in Rids |-> 0]
  /\ keys = {}
  /\ flight = [r \in Rids |-> 0]
  /\ tx = [s \in Sessions |-> Idle]
  /\ seen = [s \in Sessions |-> 0]
  /\ calls = 0 /\ unseen = 0 /\ lost = 0
  /\ over = [r \in Rids |-> 0]

-----------------------------------------------------------------------------
\* Helpers.

Active(r) == resv[r].status = "active"

\* SELECT sum(customer_microcredits): every SUCCEEDED event of the school.
Usage == SumFunction(used)

\* SELECT sum(estimated_microcredits) over the active reservations.
Held == SumFunction([r \in Rids |-> IF Active(r) THEN resv[r].est ELSE 0])

\* The lock a transaction waits for.
Wanted(s) ==
  CASE tx[s].at = "row" -> IF tx[s].op = "reconcile" THEN tx[s].todo ELSE {tx[s].rid}
    [] tx[s].at \in {"advisory", "answers", "grants"} -> {tx[s].at}
    [] OTHER -> {}

Free(s, x) == \A t \in Sessions \ {s} : x \notin tx[t].holds

End(s) ==
  /\ tx' = [tx EXCEPT ![s] = Idle]
  /\ seen' = [seen EXCEPT ![s] = 0]

\* What session s's cap check leaves out when reservations are closed between
\* its two reads: what was recorded since the first.
Missed(t) == IF tx[t].at = "active" THEN Usage - seen[t] ELSE 0

-----------------------------------------------------------------------------
\* How a transaction begins: with its first lock.  While it waits for that one
\* it has done nothing yet.

Busy(op, r) == \E t \in Sessions : tx[t].op = op /\ tx[t].rid = r

\* Session s begins transaction t with lock x.
Begin(s, t, x) ==
  /\ tx[s].op = "idle"
  /\ Free(s, x)
  /\ tx' = [tx EXCEPT ![s] = [t EXCEPT !.holds = {x}]]
  /\ UNCHANGED <<rows, seen>>

\* reserve_credits, in the transaction that creates or starts the task.  A
\* grading run takes its answer quota under the same advisory lock first.
ReserveStart(s, r, e, answers) ==
  /\ resv[r].status = "none"
  /\ e <= JobCap
  /\ Begin(s, [Idle EXCEPT !.op = "reserve", !.at = IF answers THEN "answers" ELSE "usage",
                           !.rid = r, !.inc = e], "advisory")

\* The missing part of the next call's quote.
Increment(r) ==
  IF resv[r].auth + Quote > resv[r].est THEN resv[r].auth + Quote - resv[r].est ELSE 0

\* A call of reservation r's task may be authorised: its worker is not settling.
Calls(r) == Active(r) /\ calls < MaxCalls /\ ~Busy("settle", r)

Sent(r) == flight' = [flight EXCEPT ![r] = @ + 1] /\ calls' = calls + 1

\* Mutant: the reservation is never extended.
AuthorizeFromEstimate(s, r) ==
  /\ tx[s].op = "idle" /\ Free(s, r)
  /\ Calls(r)
  /\ resv' = [resv EXCEPT ![r].auth = @ + Quote]
  /\ Sent(r)
  /\ UNCHANGED <<used, keys, tx, seen, over, unseen, lost>>

\* authorize_next_model_call: the reservation covers the next call.
AuthorizeCovered(s, r) ==
  /\ tx[s].op = "idle" /\ Free(s, r)
  /\ Calls(r) /\ Increment(r) = 0
  /\ resv' = [resv EXCEPT ![r].auth = @ + Quote]
  /\ Sent(r)
  /\ UNCHANGED <<used, keys, tx, seen, over, unseen, lost>>

\* It does not: the estimate must grow under the advisory lock.
AuthorizeStart(s, r) ==
  /\ Calls(r) /\ Increment(r) > 0
  /\ resv[r].est + Increment(r) <= JobCap
  /\ Begin(s, [Idle EXCEPT !.op = "authorize", !.at = "advisory", !.rid = r,
                           !.inc = Increment(r)], r)

\* A settlement that has locked its row: where it goes on, and what is missing.
Excess(r) == IF used[r] > resv[r].est THEN used[r] - resv[r].est ELSE 0

AfterRow(r) == IF Excess(r) > 0 THEN "advisory" ELSE "grants"

Settles(r) == Active(r) /\ resv[r].est + Excess(r) <= JobCap

\* Mutant: the worker settles while calls of the task are under way.
ReturnedOrNot(r) == resv[r].status # "none"

\* The worker settles when every call of the task has returned.
CallsReturned(r) == resv[r].status # "none" /\ flight[r] = 0 /\ ~Busy("authorize", r)

\* settle_reservation of a recognition, rubric or answer task.
SettleStart(s, r) ==
  /\ CallsReturned(r)
  /\ Settles(r)
  /\ Begin(s, [Idle EXCEPT !.op = "settle", !.at = AfterRow(r), !.rid = r,
                           !.inc = Excess(r)], r)

\* A grading run has settled its answer quota before, in the same transaction.
SettleRunStart(s, r) ==
  /\ CallsReturned(r)
  /\ Begin(s, [Idle EXCEPT !.op = "settle", !.at = "row", !.rid = r], "answers")

\* reconcile_stale_reservations lists, without a lock, the reservations older
\* than 24 hours, and locks one of them.  Which are is a free choice.
ReconcileStart(s, stale, r) ==
  /\ \A q \in stale : Active(q)
  /\ r \in stale
  /\ Begin(s, [Idle EXCEPT !.op = "reconcile", !.at = "grants",
                           !.todo = stale \ {r}, !.done = {r}], r)

-----------------------------------------------------------------------------
\* The locks that follow.

\* Session s gets lock x and goes on at p.
Lock(s, x, p) ==
  /\ Free(s, x)
  /\ tx' = [tx EXCEPT ![s].holds = @ \cup {x}, ![s].at = p]
  /\ UNCHANGED <<rows, seen>>

\* Mutant: the extension is decided on the reservation's own row lock.
AdvisorySkipped(s) ==
  /\ tx[s].at = "advisory"
  /\ tx' = [tx EXCEPT ![s].at = "usage"]
  /\ UNCHANGED <<rows, seen>>

\* extend_reservation.
Advisory(s) == tx[s].at = "advisory" /\ Lock(s, "advisory", "usage")

\* reserve_answer_quota, under the advisory lock.
Answers(s) == tx[s].at = "answers" /\ Lock(s, "answers", "usage")

\* The settlement of a grading run gets its row.
SettleRow(s) ==
  LET r == tx[s].rid
  IN  /\ tx[s].op = "settle" /\ tx[s].at = "row"
      /\ Free(s, r)
      /\ Settles(r)
      /\ tx' = [tx EXCEPT ![s].holds = @ \cup {r}, ![s].at = AfterRow(r), ![s].inc = Excess(r)]
      /\ UNCHANGED <<rows, seen>>

\* The reconciliation gets the next row.  The ORM returns the object of the
\* list, so its status is ACTIVE whatever was committed since.
ReconcileRow(s, r) ==
  /\ tx[s].op = "reconcile" /\ tx[s].at = "row"
  /\ r \in tx[s].todo
  /\ Free(s, r)
  /\ tx' = [tx EXCEPT ![s].holds = @ \cup {r}, ![s].at = "grants",
                      ![s].todo = @ \ {r}, ![s].done = @ \cup {r}]
  /\ UNCHANGED <<rows, seen>>

\* Writing the released amount back locks the grants before the next row.
ReconcileGrants(s) ==
  /\ tx[s].op = "reconcile" /\ tx[s].at = "grants"
  /\ tx[s].todo # {}
  /\ Lock(s, "grants", "row")

-----------------------------------------------------------------------------
\* The cap check: two sums, read one after the other.

ReadUsage(s) ==
  /\ tx[s].at = "usage"
  /\ seen' = [seen EXCEPT ![s] = Usage]
  /\ tx' = [tx EXCEPT ![s].at = "active"]
  /\ UNCHANGED rows

ReadActive(s) ==
  /\ tx[s].at = "active"
  /\ seen[s] + Held + tx[s].inc <= Cap
  /\ tx' = [tx EXCEPT ![s].at = "grants"]
  /\ seen' = [seen EXCEPT ![s] = 0]
  /\ UNCHANGED rows

-----------------------------------------------------------------------------
\* The commits.

\* The new reservation.
ReserveCommit(s) ==
  LET r == tx[s].rid
  IN  /\ tx[s].op = "reserve" /\ tx[s].at = "grants"
      /\ Free(s, "grants")
      /\ resv' = [resv EXCEPT ![r] = [status |-> "active", est |-> tx[s].inc,
                                      auth |-> 0, settled |-> 0]]
      /\ End(s)
      /\ UNCHANGED <<used, keys, flight, calls, over, unseen, lost>>

AuthorizeCommit(s) ==
  LET r == tx[s].rid
  IN  /\ tx[s].op = "authorize" /\ tx[s].at = "grants"
      /\ Free(s, "grants")
      /\ resv' = [resv EXCEPT ![r] = [resv[r] EXCEPT !.est = @ + tx[s].inc, !.auth = @ + Quote]]
      /\ Sent(r)
      /\ End(s)
      /\ UNCHANGED <<used, keys, over, unseen, lost>>

\* What the open cap check of another transaction misses now.
Slip(s) == SumFunction([t \in Sessions |-> IF t = s THEN 0 ELSE Missed(t)])

\* Mutant: the charge is capped by the estimate.
SettleCapped(s) ==
  LET r == tx[s].rid
  IN  /\ tx[s].op = "settle" /\ tx[s].at = "grants"
      /\ Free(s, "grants")
      /\ resv' = [resv EXCEPT ![r].status = "settled",
                              ![r].settled = IF Excess(r) > 0 THEN resv[r].est ELSE used[r]]
      /\ unseen' = unseen + Slip(s)
      /\ End(s)
      /\ UNCHANGED <<used, keys, flight, calls, over, lost>>

\* The charge is the usage that was recorded when the row was locked.
SettleCommit(s) ==
  LET r == tx[s].rid
  IN  /\ tx[s].op = "settle" /\ tx[s].at = "grants"
      /\ Free(s, "grants")
      /\ resv' = [resv EXCEPT ![r] = [resv[r] EXCEPT !.status = "settled",
                                                     !.settled = used[r], !.est = @ + tx[s].inc]]
      /\ unseen' = unseen + Slip(s)
      /\ End(s)
      /\ UNCHANGED <<used, keys, flight, calls, over, lost>>

ReconcileCommit(s) ==
  /\ tx[s].op = "reconcile" /\ tx[s].at = "grants"
  /\ tx[s].todo = {}
  /\ Free(s, "grants")
  /\ resv' = [r \in Rids |-> IF r \in tx[s].done
                               THEN [resv[r] EXCEPT !.status = "released"] ELSE resv[r]]
  /\ unseen' = unseen + Slip(s)
  /\ End(s)
  /\ UNCHANGED <<used, keys, flight, calls, over, lost>>

\* A refusal (402, 429, a settlement that cannot be covered, a closed
\* reservation), an error, a dead process or the database's choice of a deadlock
\* victim: nothing is written.
Rollback(s) ==
  /\ tx[s].op # "idle"
  /\ End(s)
  /\ UNCHANGED rows

\* The call was refused before it was sent (cooldown, no slot) or its worker
\* died: no event.
Unsent(r) ==
  /\ flight[r] > 0
  /\ flight' = [flight EXCEPT ![r] = @ - 1]
  /\ UNCHANGED <<resv, used, keys, tx, seen, calls, over, unseen, lost>>

\* record_model_attempt: the event of a call that returned usage worth c, or 0.
\* The key is unique: a second event with it is rolled back.  The key names the
\* item, its revision, the attempt number and the route; a retried item starts
\* at attempt one again, so a later call may have any key, an old one too.
Record(r, k, c) ==
  LET new == k \notin keys
  IN  /\ flight[r] > 0
      /\ flight' = [flight EXCEPT ![r] = @ - 1]
      /\ keys' = keys \cup {k}
      /\ used' = [used EXCEPT ![r] = IF new THEN @ + c ELSE @]
      /\ over' = [over EXCEPT ![r] = IF new /\ c > Quote THEN @ + c - Quote ELSE @]
      /\ unseen' = IF new /\ ~Active(r) THEN unseen + c ELSE unseen
      /\ lost' = IF new THEN lost ELSE lost + c
      /\ UNCHANGED <<resv, tx, seen, calls>>

-----------------------------------------------------------------------------
Next ==
  \/ \E s \in Sessions :
       \/ \E r \in Rids, e \in Estimates, answers \in BOOLEAN : ReserveStart(s, r, e, answers)
       \/ \E r \in Rids :
            \/ AuthorizeCovered(s, r)
            \/ AuthorizeStart(s, r)
            \/ SettleStart(s, r)
            \/ SettleRunStart(s, r)
            \/ \E stale \in SUBSET Rids : ReconcileStart(s, stale, r)
            \/ ReconcileRow(s, r)
       \/ Advisory(s)
       \/ Answers(s)
       \/ SettleRow(s)
       \/ ReconcileGrants(s)
       \/ ReadUsage(s)
       \/ ReadActive(s)
       \/ ReserveCommit(s)
       \/ AuthorizeCommit(s)
       \/ SettleCommit(s)
       \/ ReconcileCommit(s)
       \/ Rollback(s)
  \/ \E r \in Rids : Unsent(r)
  \/ \E r \in Rids, k \in Keys, c \in Costs : Record(r, k, c)

Spec == Init /\ [][Next]_vars

-----------------------------------------------------------------------------
\* Properties.

\* Every row and every open transaction has the shape the tables give it.
RowsOK ==
  /\ resv \in [Rids -> Row]
  /\ used \in [Rids -> Nat] /\ flight \in [Rids -> Nat] /\ over \in [Rids -> Nat]
  /\ keys \subseteq Keys
  /\ tx \in [Sessions -> Transaction]
  /\ calls \in Nat /\ lost \in Nat

\* No call is under way that its reservation does not pay for: while a
\* reservation is active, what its calls have cost and what the ones under way
\* are quoted at fits into its estimate, except for calls that turned out dearer
\* than the quote (authorize_next_model_call before every attempt).
CallsCovered ==
  \A r \in Rids : Active(r) => used[r] + flight[r] * Quote <= resv[r].est + over[r]

\* The school's cap (reserve_credits, extend_reservation): what closed tasks
\* have used and open ones may still use stays within it, but for calls dearer
\* than their quote, calls that outlive their reservation, and usage recorded
\* between the two reads of a cap check that a closing reservation overtakes.
CapHolds ==
  SumFunction([r \in Rids |-> IF Active(r) THEN resv[r].est ELSE used[r]])
    <= Cap + SumFunction(over) + unseen

\* A settled task was charged all the usage its calls recorded, also what was
\* recorded while the settlement waited for its locks, and whatever the first
\* estimate was (settle_reservation).
ChargedInFull ==
  \A r \in Rids : resv[r].status = "settled" => resv[r].settled = used[r]

\* A set of transactions each of which waits for a lock another of them holds.
Deadlocked(S) ==
  S # {} /\ \A s \in S : Wanted(s) # {} /\ \A x \in Wanted(s) : \E t \in S \ {s} : x \in tx[t].holds

\* The lock order: reservations, calls and settlements never wait for each other
\* in a circle, unless the reconciliation is part of it (it keeps several rows
\* and the grants) or a settlement above its estimate (it takes the advisory lock
\* while it holds the answer quota).
DeadlocksNamed ==
  \A S \in SUBSET Sessions : Deadlocked(S) =>
     \E s \in S : tx[s].op = "reconcile" \/ (tx[s].op = "settle" /\ tx[s].inc > 0)

\* A lock has one holder.
Exclusive == \A s, t \in Sessions : s # t => tx[s].holds \cap tx[t].holds = {}

\* What a transaction x has and needs of the rows, by operation.
ReserveFits(x) ==
  /\ x.rid \in Rids /\ resv[x.rid].status = "none"
  /\ x.at \in {"answers", "usage", "active", "grants"}
  /\ "advisory" \in x.holds /\ x.holds \subseteq {"advisory", "answers"}

AuthorizeFits(x) ==
  /\ x.rid \in Rids /\ Active(x.rid)
  /\ x.at \in {"advisory", "usage", "active", "grants"}
  /\ x.rid \in x.holds /\ x.holds \subseteq {x.rid, "advisory"}
  /\ resv[x.rid].auth + Quote <= resv[x.rid].est + x.inc

SettleFits(x) ==
  /\ x.rid \in Rids /\ resv[x.rid].status # "none" /\ flight[x.rid] = 0
  /\ x.at \in {"row", "advisory", "usage", "active", "grants"}
  /\ x.at = "row" => x.holds \subseteq {"answers"}
  /\ x.at # "row" => Active(x.rid) /\ x.rid \in x.holds
  /\ x.holds \subseteq {"answers", x.rid, "advisory"}
  /\ x.at = "advisory" \/ "advisory" \in x.holds => x.inc > 0

ReconcileFits(x) ==
  /\ x.done \subseteq x.holds
  /\ \A r \in x.todo \cup x.done : resv[r].status # "none"

Fits(x) ==
  /\ x.op = "idle" => x = Idle
  /\ x.op = "reserve" => ReserveFits(x)
  /\ x.op = "authorize" => AuthorizeFits(x)
  /\ x.op = "settle" => SettleFits(x)
  /\ x.op = "reconcile" => ReconcileFits(x)

\* No call of a task is authorised while its worker settles.
Apart ==
  \A s, t \in Sessions :
     tx[s].op = "authorize" /\ tx[t].op = "settle" => tx[s].rid # tx[t].rid

RowFits(r) ==
  /\ resv[r].status = "none" => used[r] = 0 /\ flight[r] = 0 /\ over[r] = 0
  /\ Active(r) => /\ used[r] + flight[r] * Quote <= resv[r].auth + over[r]
                  /\ resv[r].auth <= resv[r].est
  /\ resv[r].status = "settled" => flight[r] = 0 /\ resv[r].settled = used[r]

\* The inductive invariant behind CallsCovered, ChargedInFull and DeadlocksNamed.
IInv ==
  /\ RowsOK
  /\ Exclusive
  /\ \A s \in Sessions : Fits(tx[s])
  /\ Apart
  /\ \A r \in Rids : RowFits(r)

\* What reservation r takes of the cap, without what its calls cost above their
\* quote, and the part of closed reservations in it.
Net(r) == IF Active(r) THEN resv[r].est ELSE used[r] - over[r]

NetLoad == SumFunction([r \in Rids |-> Net(r)])

Closed == SumFunction([r \in Rids |-> IF Active(r) THEN 0 ELSE used[r] - over[r]])

\* What the cap check of session s has established so far: after its first read
\* that what closed reservations have used is in what it read, after the second
\* that its own amount still fits.  The advisory lock keeps both true.
Checked(s) ==
  /\ tx[s].at = "active" => seen[s] <= Usage /\ Closed <= seen[s] + unseen
  /\ tx[s].op \in {"reserve", "authorize"} /\ tx[s].at = "grants" =>
       NetLoad + tx[s].inc <= Cap + unseen
  /\ tx[s].op = "authorize" /\ tx[s].at # "advisory" => "advisory" \in tx[s].holds

\* The inductive invariant behind CapHolds.
CapInv ==
  /\ IInv
  /\ unseen \in Nat /\ seen \in [Sessions -> Nat]
  /\ NetLoad <= Cap + unseen
  /\ \A s \in Sessions : Checked(s)

\* No usage a call returned goes uncharged, that of a retry included: so
\* docs/provider-relay-operations.md says of retries and fallback calls.  In the
\* code an item's second try has the key of its first (_handle_item's
\* billing_key), and its event is dropped.
RetriesAreCharged == lost = 0

=============================================================================
