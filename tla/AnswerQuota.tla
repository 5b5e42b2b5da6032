---------------------------- MODULE AnswerQuota ----------------------------
(***************************************************************************)
(* The answer-sheet quota of one school (services/billing.py): grants      *)
(* bought by the school, reservations taken by grading runs, allocations   *)
(* of a reservation over the grants, and the BillableAnswerSheet rows.     *)
(*                                                                         *)
(* A session is one database transaction of an API request or a worker.    *)
(* PostgreSQL runs it under READ COMMITTED: each SELECT reads what is      *)
(* committed at that moment, row locks and the per-school advisory lock    *)
(* are kept until commit, and the ORM writes absolute counter values, the  *)
(* ones it computed from what it read.  Every operation is therefore split *)
(* at the point where another transaction can commit in between.  The      *)
(* UPDATEs of one transaction and its COMMIT are one step: a flushed row   *)
(* is locked and invisible until the commit.                               *)
(***************************************************************************)
EXTENDS Integers, FiniteSets, Functions

CONSTANTS
  Sheets,      \* billing identities, each of one exam
  Grants,      \* answer-quota grants, numbered in (expires_at, created_at) order
  Sizes,       \* the amounts a grant may be issued with
  Rids,        \* reservations that may be created
  Sessions     \* concurrent database transactions

ASSUME SheetsFinite == IsFiniteSet(Sheets)
ASSUME RidsFinite == IsFiniteSet(Rids)
ASSUME GrantsOrdered == Grants \subseteq Nat
ASSUME SizesPositive == Sizes \subseteq Nat \ {0}

VARIABLES
  grants,      \* AnswerQuotaGrant rows
  resv,        \* AnswerQuotaReservation rows with their AnswerQuotaAllocation rows
  billed,      \* BillableAnswerSheet rows
  tx           \* what each open transaction has read, locked and not yet written

vars == <<grants, resv, billed, tx>>

None == [g \in Grants |-> 0]

Amounts == [Grants -> Nat]

Grant == [state: {"absent", "live", "expired"}, total: Nat,
          reserved: Int, consumed: Int]

\* alloc and used are reserved_answers and consumed_answers of the allocations.
Reservation == [status: {"none", "active", "settled", "released"},
                sheets: SUBSET Sheets, settled: Nat,
                alloc: Amounts, used: Amounts]

\* todo: reservations still to release.  locked: reservation rows taken FOR
\* UPDATE.  touched, res, con, spend: grant objects loaded by the session,
\* their pending counter values and how much of them the settlement consumes.
Transaction == [op: {"idle", "reserve", "insert", "settle", "release", "reconcile"},
                want: SUBSET Sheets, sheets: SUBSET Sheets,
                todo: SUBSET Rids, locked: SUBSET Rids,
                touched: SUBSET Grants, res: [Grants -> Int],
                con: [Grants -> Int], spend: Amounts]

Idle == [op |-> "idle", want |-> {}, sheets |-> {}, todo |-> {}, locked |-> {},
         touched |-> {}, res |-> None, con |-> None, spend |-> None]

NoReservation == [status |-> "none", sheets |-> {}, settled |-> 0,
                  alloc |-> None, used |-> None]

Init ==
  /\ grants = [g \in Grants |-> [state |-> "absent", total |-> 0,
                                 reserved |-> 0, consumed |-> 0]]
  /\ resv = [r \in Rids |-> NoReservation]
  /\ billed = {}
  /\ tx = [s \in Sessions |-> Idle]

-----------------------------------------------------------------------------
\* Helpers.

Active(r) == resv[r].status = "active"

\* max(0, total - reserved - consumed) of an unexpired grant.
Free(g) ==
  LET left == grants[g].total - grants[g].reserved - grants[g].consumed
  IN  IF grants[g].state = "live" /\ left > 0 THEN left ELSE 0

Available == SumFunction([g \in Grants |-> Free(g)])

\* The FIFO loop: a grant is drawn on only when the earlier ones are used up.
Fifo(a, n) ==
  /\ SumFunction(a) = n
  /\ \A g \in Grants : a[g] <= Free(g)
  /\ \A g, h \in Grants : h < g /\ a[g] > 0 => a[h] = Free(h)

\* The settlement loop: allocations are consumed one after the other, in the
\* order the unordered SELECT returns them, until n sheets are covered.
Consume(a, u, n) ==
  /\ SumFunction(u) = n
  /\ \A g \in Grants : u[g] <= a[g]
  /\ \A g, h \in Grants : 0 < u[g] /\ u[g] < a[g] /\ 0 < u[h] /\ u[h] < a[h] => g = h

RowFree(s, r) == \A t \in Sessions \ {s} : r \notin tx[t].locked

\* The sheets held by active reservations.
ActiveSheets == UNION {resv[r].sheets : r \in {q \in Rids : Active(q)}}

-----------------------------------------------------------------------------
\* Grants.

GrantAnswers(g, n) ==
  /\ grants[g].state = "absent"
  /\ grants' = [grants EXCEPT ![g] = [state |-> "live", total |-> n,
                                      reserved |-> 0, consumed |-> 0]]
  /\ UNCHANGED <<resv, billed, tx>>

\* expires_at passes.
Expire(g) ==
  /\ grants[g].state = "live"
  /\ grants' = [grants EXCEPT ![g].state = "expired"]
  /\ UNCHANGED <<resv, billed, tx>>

-----------------------------------------------------------------------------
\* reserve_answer_quota.

\* pg_advisory_xact_lock: one reservation of the school at a time.
AdvisoryFree == \A t \in Sessions : tx[t].op \notin {"reserve", "insert"}

\* Take the advisory lock, then read which of the sheets are already billed.
ReserveRead(s, want) ==
  /\ tx[s].op = "idle"
  /\ AdvisoryFree
  /\ tx' = [tx EXCEPT ![s] = [Idle EXCEPT !.op = "reserve", !.want = want,
                                          !.sheets = want \ billed]]
  /\ UNCHANGED <<grants, resv, billed>>

\* Mutant: sheets of other active reservations are accepted.
ReserveUnchecked(s) ==
  /\ tx[s].op = "reserve"
  /\ tx' = [tx EXCEPT ![s].op = "insert"]
  /\ UNCHANGED <<grants, resv, billed>>

\* Read the active reservations: none may hold one of the sheets.
ReserveCheck(s) ==
  /\ tx[s].op = "reserve"
  /\ tx[s].want \cap ActiveSheets = {}
  /\ tx' = [tx EXCEPT ![s].op = "insert"]
  /\ UNCHANGED <<grants, resv, billed>>

\* Lock the grants, allocate and commit.
ReserveCommit(s, r, a) ==
  /\ tx[s].op = "insert"
  /\ resv[r].status = "none"
  /\ Available >= Cardinality(tx[s].sheets)
  /\ Fifo(a, Cardinality(tx[s].sheets))
  /\ resv' = [resv EXCEPT ![r] = [status |-> "active", sheets |-> tx[s].sheets,
                                  settled |-> 0, alloc |-> a, used |-> None]]
  /\ grants' = [g \in Grants |->
                  [grants[g] EXCEPT !.reserved = grants[g].reserved + a[g]]]
  /\ tx' = [tx EXCEPT ![s] = Idle]
  /\ UNCHANGED billed

\* 409: another run holds one of the sheets; 402: not enough quota.
ReserveRefused(s) ==
  /\ \/ tx[s].op = "reserve" /\ tx[s].want \cap ActiveSheets # {}
     \/ tx[s].op = "insert" /\ Available < Cardinality(tx[s].sheets)
  /\ tx' = [tx EXCEPT ![s] = Idle]
  /\ UNCHANGED <<grants, resv, billed>>

-----------------------------------------------------------------------------
\* settle_answer_quota and release_answer_quota.

\* SELECT reservation r FOR UPDATE.
Taken(s, r) == [tx[s] EXCEPT !.locked = @ \cup {r}, !.todo = @ \ {r}]

\* Mutant: only what was consumed is taken off the grant's reserved count.
DrawnPartly(s, r, u) ==
  LET hit == {g \in Grants : resv[r].alloc[g] > 0}
  IN  [Taken(s, r) EXCEPT
         !.touched = @ \cup hit,
         !.res     = [g \in Grants |-> IF g \in hit THEN grants[g].reserved - u[g] ELSE @[g]],
         !.con     = [g \in Grants |-> IF g \in hit THEN grants[g].consumed + u[g] ELSE @[g]],
         !.spend   = [g \in Grants |-> @[g] + u[g]]]

\* The transaction of s after it drops reservation r's allocations, spending u.
\* A grant the session has loaded before is not read again.
Drawn(s, r, u) ==
  LET hit  == {g \in Grants : resv[r].alloc[g] > 0}
      R(g) == IF g \in tx[s].touched THEN tx[s].res[g] ELSE grants[g].reserved
      C(g) == IF g \in tx[s].touched THEN tx[s].con[g] ELSE grants[g].consumed
  IN  [Taken(s, r) EXCEPT
         !.touched = @ \cup hit,
         !.res     = [g \in Grants |-> IF g \in hit THEN R(g) - resv[r].alloc[g] ELSE @[g]],
         !.con     = [g \in Grants |-> IF g \in hit THEN C(g) + u[g] ELSE @[g]],
         !.spend   = [g \in Grants |-> @[g] + u[g]]]

\* The counters session s writes: only the columns it changed.
Written(s) ==
  [g \in Grants |->
     IF g \in tx[s].touched
       THEN [grants[g] EXCEPT
               !.reserved = tx[s].res[g],
               !.consumed = IF tx[s].spend[g] > 0 THEN tx[s].con[g] ELSE @]
       ELSE grants[g]]

\* done: the sheets whose submission was graded completely.
SettleRead(s, r, done, u) ==
  LET charge == (resv[r].sheets \cap done) \ billed
  IN  /\ tx[s].op = "idle"
      /\ RowFree(s, r)
      /\ Active(r)
      /\ Consume(resv[r].alloc, u, Cardinality(charge))
      /\ tx' = [tx EXCEPT ![s] = [Drawn(s, r, u) EXCEPT !.op = "settle",
                                                        !.sheets = charge]]
      /\ UNCHANGED <<grants, resv, billed>>

\* Mutant: settled_answers counts every reserved sheet.
SettleAllReserved(s) ==
  /\ tx[s].op = "settle"
  /\ grants' = Written(s)
  /\ resv' = [r \in Rids |->
                IF r \in tx[s].locked
                  THEN [resv[r] EXCEPT !.status = "settled",
                                       !.settled = Cardinality(resv[r].sheets),
                                       !.used = tx[s].spend]
                  ELSE resv[r]]
  /\ billed' = billed \cup tx[s].sheets
  /\ tx' = [tx EXCEPT ![s] = Idle]

SettleCommit(s) ==
  /\ tx[s].op = "settle"
  /\ grants' = Written(s)
  /\ resv' = [r \in Rids |->
                IF r \in tx[s].locked
                  THEN [resv[r] EXCEPT !.status = "settled",
                                       !.settled = Cardinality(tx[s].sheets),
                                       !.used = tx[s].spend]
                  ELSE resv[r]]
  /\ billed' = billed \cup tx[s].sheets
  /\ tx' = [tx EXCEPT ![s] = Idle]

ReleaseRead(s, r) ==
  /\ tx[s].op = "idle"
  /\ RowFree(s, r)
  /\ Active(r)
  /\ tx' = [tx EXCEPT ![s] = [Drawn(s, r, None) EXCEPT !.op = "release"]]
  /\ UNCHANGED <<grants, resv, billed>>

ReleaseCommit(s) ==
  /\ \/ tx[s].op = "release"
     \/ tx[s].op = "reconcile" /\ tx[s].todo = {}
  /\ grants' = Written(s)
  /\ resv' = [r \in Rids |->
                IF r \in tx[s].locked THEN [resv[r] EXCEPT !.status = "released"]
                                      ELSE resv[r]]
  /\ tx' = [tx EXCEPT ![s] = Idle]
  /\ UNCHANGED billed

-----------------------------------------------------------------------------
\* reconcile_stale_reservations.

\* Select the active reservations older than the cutoff; which of them are is
\* a free choice.  No lock is taken.
ReconcileRead(s, stale) ==
  /\ tx[s].op = "idle"
  /\ stale # {}
  /\ \A r \in stale : Active(r)
  /\ tx' = [tx EXCEPT ![s] = [Idle EXCEPT !.op = "reconcile", !.todo = stale]]
  /\ UNCHANGED <<grants, resv, billed>>

\* Release one of them.  SELECT ... FOR UPDATE waits for the row, but the ORM
\* returns the object it loaded with the list: its status is still ACTIVE,
\* whatever was committed since.
ReconcileRelease(s, r) ==
  /\ tx[s].op = "reconcile"
  /\ r \in tx[s].todo
  /\ RowFree(s, r)
  /\ tx' = [tx EXCEPT ![s] = Drawn(s, r, None)]
  /\ UNCHANGED <<grants, resv, billed>>

\* A transaction that fails, is chosen as a deadlock victim or loses its
\* process is rolled back: nothing it computed is written.
Rollback(s) ==
  /\ tx[s].op # "idle"
  /\ tx' = [tx EXCEPT ![s] = Idle]
  /\ UNCHANGED <<grants, resv, billed>>

-----------------------------------------------------------------------------
Next ==
  \/ \E g \in Grants, n \in Sizes : GrantAnswers(g, n)
  \/ \E g \in Grants : Expire(g)
  \/ \E s \in Sessions :
       \/ \E want \in SUBSET Sheets \ {{}} : ReserveRead(s, want)
       \/ ReserveCheck(s)
       \/ \E r \in Rids, a \in [Grants -> 0 .. Cardinality(Sheets)] : ReserveCommit(s, r, a)
       \/ ReserveRefused(s)
       \/ \E r \in Rids, done \in SUBSET Sheets, u \in [Grants -> 0 .. Cardinality(Sheets)] :
            SettleRead(s, r, done, u)
       \/ SettleCommit(s)
       \/ \E r \in Rids : ReleaseRead(s, r)
       \/ ReleaseCommit(s)
       \/ \E stale \in SUBSET Rids : ReconcileRead(s, stale)
       \/ \E r \in Rids : ReconcileRelease(s, r)
       \/ Rollback(s)

Spec == Init /\ [][Next]_vars

-----------------------------------------------------------------------------
\* Properties.

\* Every row and every open transaction has the shape the tables give it.
TypeOK ==
  /\ grants \in [Grants -> Grant]
  /\ resv \in [Rids -> Reservation]
  /\ billed \in SUBSET Sheets
  /\ tx \in [Sessions -> Transaction]

\* No sheet is held by two active reservations, however reservations,
\* settlements and the reconciliation interleave: two runs over the same
\* answer sheet are never both entitled to bill it.
HoldsDisjoint ==
  \A q, r \in Rids : Active(q) /\ Active(r) /\ q # r =>
     resv[q].sheets \cap resv[r].sheets = {}

\* The unique constraint on BillableAnswerSheet is never what stops a double
\* charge: what a settlement is about to bill is billed by nobody else, in a
\* committed row or in another open settlement.
ChargesFresh ==
  \A s \in Sessions : tx[s].op = "settle" =>
     /\ tx[s].sheets \cap billed = {}
     /\ \A t \in Sessions \ {s} : tx[t].op = "settle" => tx[s].sheets \cap tx[t].sheets = {}

\* What the row locks guarantee: a reservation row is locked by one transaction
\* at a time, and one that is being settled or released by its own run stays
\* active, with the sheets about to be billed among its own, until the commit.
RowLocks ==
  /\ \A s, t \in Sessions : s # t => tx[s].locked \cap tx[t].locked = {}
  /\ \A s \in Sessions :
       /\ tx[s].op = "idle" => tx[s] = Idle
       /\ tx[s].op \in {"reserve", "insert"} => tx[s].locked = {} /\ tx[s].sheets \subseteq tx[s].want
       /\ tx[s].op \in {"settle", "release"} =>
            \E r \in Rids : /\ tx[s].locked = {r}
                            /\ Active(r)
                            /\ tx[s].sheets \subseteq resv[r].sheets

\* What the advisory lock guarantees: between the overlap check and the commit
\* of a reservation no other reservation can take one of its sheets.
CheckedStaysFree ==
  /\ \A s, t \in Sessions :
       tx[s].op \in {"reserve", "insert"} /\ tx[t].op \in {"reserve", "insert"} => s = t
  /\ \A s \in Sessions : tx[s].op = "insert" => tx[s].want \cap ActiveSheets = {}

\* The inductive invariant behind HoldsDisjoint, ChargesFresh and BillsOnce.
IInv == TypeOK /\ RowLocks /\ CheckedStaysFree /\ HoldsDisjoint /\ ChargesFresh

\* A reservation that was not settled has consumed and charged nothing.
Unused ==
  \A r \in Rids : resv[r].status \in {"none", "active"} =>
     resv[r].settled = 0 /\ resv[r].used = None

\* Every billed sheet is accounted for by exactly one reservation's
\* settled_answers, also after the reconciliation has overwritten its status.
ChargesAccounted ==
  Cardinality(billed) = SumFunction([r \in Rids |-> resv[r].settled])

\* The counters of every grant say what the reservations say: reserved is what
\* active reservations hold of it, consumed what settlements took from it, and
\* together they never exceed what the school bought.  Two settlements of one grant
\* that cross lose an update (billing.py:432).
LedgerExact ==
  \A g \in Grants :
     /\ grants[g].reserved =
          SumFunction([r \in Rids |-> IF Active(r) THEN resv[r].alloc[g] ELSE 0])
     /\ grants[g].consumed = SumFunction([r \in Rids |-> resv[r].used[g]])
     /\ grants[g].reserved + grants[g].consumed <= grants[g].total

\* The abstract specification, with the ledger and the transactions hidden.
held == [r \in Rids |-> IF Active(r) THEN resv[r].sheets ELSE {}]

Abstract == INSTANCE SheetBilling

\* Quota bookkeeping implements exactly-once billing: sheets are taken by one
\* reservation at a time and billed only by their holder, once.
BillsOnce == Abstract!Spec

=============================================================================
