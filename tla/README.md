# Specifications of ai-exam-grader

A school uploads answer sheets, a grading run sends every answer to a model,
and the school pays one answer of its quota for every sheet that was graded.
This directory holds TLA+ models of the parts of the backend (`src/backend/app`)
in which that can go wrong, the TLC runs that check them and the proofs that
TLAPS checks. It also says what is left out.

## 1. The system

Processes: FastAPI request handlers, Dramatiq worker threads (several worker
processes), a heartbeat thread per running job, a thread pool per grading run,
and a periodic reconciliation. They share one PostgreSQL database (READ
COMMITTED, row locks, advisory locks), the Redis queue of the actors and Redis
sets that count model calls.

| Component | State | Operations | What is hard |
|---|---|---|---|
| Answer-sheet quota (`services/billing.py`) | grants with their counters, reservations, allocations, `BillableAnswerSheet` rows | grant, reserve, settle, release, reconcile | transactions that interleave between their reads and their commit; counters written as absolute values |
| Running-job slots (`services/job_control.py`, `worker.py`) | `OrganizationJobLease` rows, session advisory locks, heartbeat threads, messages | acquire, heartbeat, run under lock, release, requeue | a dead or slow worker, leases that expire under a running job, redelivered messages |
| Grading run (`routes/grading.py`, `worker.py`, `services/grading_workflow.py`) | run row, items, reservation, messages, worker threads | create, start, retry, receive, execute, end | duplicate messages, stale reads before a lock, crashes, sheets that change between creation and execution |
| Item scheduling (`grading_workflow.py`) | pending payloads, futures, adaptive limit | pick, submit, record | limits per sheet and per run, throttling |
| Model call slots (`services/model_concurrency.py`) | three Redis sorted sets and a rate window | claim in order, release, expire | waiting while holding, TTL shorter than a call |
| Provider gateway and route health (`services/provider_gateway.py`, `vision_grading.py`, `routes/provider_channels.py`, `routes/model_offerings.py`) | channels, mappings, versioned routes, offerings; a health row per channel and model, cooldowns of a process | edit, save, publish, retire, resolve, try, record success or failure, probe | administrators who edit and publish at once while calls hold targets; answers of calls sent before the circuit opened, refusals of the platform itself |
| Answer key (`routes/questions_answers.py`, `services/question_answer_workflow.py`) | regions, questions, preparation runs with their items, answers and their revisions | confirm questions, prepare, edit, confirm, publish, delete | a redelivered preparation, two confirmations at once, edits while a grading run waits |
| Internal credit budget and usage (`services/billing.py`) | credit grants, reservations, usage events | reserve, extend, authorize, settle, release, record | lock orders, sums over two reads, calls under way at a settlement; off by default |
| Commerce (`services/commerce.py`, `routes/commerce.py`) | orders, payments, contracts, refunds | order, pay, fulfil, refund, review | repeated notifications, chained renewals refunded in any order |
| Other runs (recognition, question recognition, rubric) | one run row each | create, execute | the life cycle of the grading run without a quota |
| Scores and wrong-question book (`routes/exams.py`, `routes/grading.py`, `services/wrongbook.py`) | annotations, releases with their items, entries of the book | score, edit, publish, copy a release, delete an entry | late and repeated copies, edits that cross a model's result, a copy overtaken by a new release |
| Students and learner identity (`routes/classes.py`, `services/learner_identity.py`) | students, accounts, profiles, stays at a school | reassign, delete, bind, unbind, visit and adopt | entries adopted by an account bound late, rebound accounts, reassigned sheets |
| Practice (`services/practice_grading.py`, `services/wrongbook_review.py`, `routes/students.py`) | an attempt per item of a sheet, messages, a review per wrong question | send in a photo, grade, move the reviews, review, delete an entry | a photo replaced while it is graded, a task that breaks off between its commits, retries |
| Sign-up, outbox | one table each | | one-time links, retries |
| Scan preprocessing, OCR, rules, knowledge points, storage, administration, frontend | – | | data, pixels, single transactions: not modelled |

How they interact: `create_run` and `retry_run` reserve quota; `start_run` and
`retry_run` send a message; the actor checks the run's status, claims a job slot
of the school, takes the run's advisory lock and executes it; the execution
settles or releases the quota in its last commit; the reconciliation releases
reservations older than 24 hours in a transaction of its own. A grading run
locks the published revision of each answer when it is created, and every item
it grades is a call of the model pipeline: authorised by the credit budget,
routed by the published version of the route, held back by the slots of school,
channel and platform, reported to the channel's health row and recorded as usage.

## 2. The modules

| Module | Models |
|---|---|
| `SheetBilling` | what the quota promises: a reservation holds sheets nobody else holds, and bills each of them at most once |
| `AnswerQuota` | the quota of one school, one action per point at which another transaction can commit in between; implements `SheetBilling` |
| `QuotaCrossings` | AnswerQuota with the history `crossed` and the invariant behind `LedgerUncrossed` |
| `JobSlots` | the job slots of one school and the workers that use them |
| `GradingRun` | one grading run with its handlers, messages, workers, items and reservations; implements `SheetBilling` as well |
| `StrayRuns` | GradingRun with the history `stray` and the invariant behind `EndedIsSettled` |
| `WorkerProofs` | the TLAPS proofs about JobSlots, GradingRun and StrayRuns |
| `OrderBook` | what the shop promises of an order: delivered at most once, taken back at most once and unused |
| `Commerce` | the shop of one school: orders, notifications and transfers, fulfilment, contracts, refunds; implements `OrderBook` |
| `CommerceProofs` | the TLAPS proofs about it |
| `ModelRoutes` | channels, mappings, route versions, default model and offerings with concurrent administrators, and the calls routed by them |
| `ModelRoutesProofs` | the TLAPS proofs about it |
| `AnswerKey` | the questions and answers of one exam, from preparation to the grading run that uses them |
| `AnswerProofs` | the TLAPS proofs about AnswerQuota, QuotaCrossings and AnswerKey |
| `Credits` | the credit budget of one school, its locks and the usage of its calls |
| `CreditsProofs` | the TLAPS proofs about it |
| `ModelCalls` | the tries of model calls, their slots in Redis and the channels' circuits |
| `ModelCallsProofs` | the TLAPS proofs about it |
| `ScoreBook` | the annotations of one exam, its releases, the wrong-question book and the accounts that claim its entries |
| `Practice` | the practice of one student on one knowledge point: attempts, the tasks that grade them, the schedule of reviews |
| `BookProofs` | the TLAPS proofs about ScoreBook and Practice |
| `SumTheorems` | lemmas on sums over finite sets and on minimal elements, for all the proofs |
| `MC…` | the model values and symmetry sets of the runs |

Some proof modules extend two components. `JobSlots`, `AnswerKey` and `Practice` therefore
carry their name in their specification (`SlotsSpec`, `KeySpec`, `PracticeSpec` and so on).

### AnswerQuota

A session is one database transaction. `ReserveRead`, `ReserveCheck` and `ReserveCommit`
are the three parts of `reserve_answer_quota`: the billed sheets are read, then the
active reservations, then the grants are locked and the reservation committed.
`SettleRead`/`SettleCommit` and `ReleaseRead`/`ReleaseCommit` split settlement and
release between the last read and the commit. `ReconcileRead` lists old reservations and
`ReconcileRelease` releases them one by one in the same transaction; it does not look at
the status again, because SQLAlchemy's identity map returns the object of the list for
the locked SELECT. Row locks are the set `tx[s].locked`; the school's advisory lock is
`AdvisoryFree`. The counters of a grant are kept as the session computed them
(`tx[s].res`, `tx[s].con`) and written at the commit, since `settle_answer_quota` loads
the grant with `session.get`, without FOR UPDATE, and the ORM writes absolute values.
`QuotaCrossings` adds the history `crossed`: a commit has changed a grant or a
reservation another open transaction goes on with (`LedgerUncrossed`). `Rollback` stands
for an error, a deadlock victim or a lost process. Abstracted: amounts are numbers of
sheets; which sheets of a run were graded is any set; FIFO order and the order of
allocations are predicates (`Fifo`, `Consume`). The row locks on grants that a flush
takes are not modelled as waiting: they make transactions wait for the other's commit,
which is what happens in one step here, or end in a deadlock, which is `Rollback`.

### JobSlots

`leases[j]` is the row of job `j`: fresh, stale (past `expires_at`) or none.
`try_acquire_job_lease` is one transaction under the school's advisory lock, so it is
one action with three outcomes: `Acquire`, `Requeue`, `Duplicate`. The heartbeat thread
is `thread[w].beat`; `HeartbeatFails` ends it, and the history `missed` says that a
running job has been left without one. `Crash` drops the advisory lock with the
connection, leaves the lease behind and gives the message back to the broker.

### GradingRun

Handlers and worker steps that end in one commit are one action. `retry_run` is
two, `RetryLoad` and `RetryCommit`, because the run is loaded before its row is
locked and the loaded object keeps its status. `Receive` is the status check of
the actor, `Begin` the start of the execution under slot and lock, `Load` the
creation of items and of the pending list, `Dispatch` and `Answer` one item in the
thread pool, `Complete`, `Fail`, `FailSaving` and `CutOff` the ends. `Fail` is the except
branch around the whole execution, which may be reached after any number of results;
`FailSaving` is reached from within `_save_result`, and what it had assigned to the item
is committed with the failed run. A worker keeps what it read
(`rid`, `sel`, `subs`, `left`, `bad`) while the rows change. Reservations are created in
the order of their numbers (`NextRid`). `StrayRuns` adds the history `stray`: a request,
a message, an upload or the reconciliation has come between a run and the client that
started it, or an exception has ended an execution when some item had used up its
attempts. Abstracted: scores, regions (one per question) and the grants: the quota is
present with its reservations and billed sheets, as `SheetBilling` sees it.

### Commerce

A session `tx[s]` is one request. `order`, `paid`, `contract`, `refund` and `outbox`
are the tables of the same names; `prev[o]` is the list of replaced contracts a plan
line keeps. A notification loads the order before it asks for the lock, and the ORM
keeps the loaded object, so `tx[s].seen` may be stale when `PayLock` looks at it; a
bank transfer locks first. `PayContracts` is the return of the SELECT FOR UPDATE:
the contracts found at its start that are still active, and none inserted since.
`RefundLock` reads the contracts, which no lock protects, and `RefundCommit` writes
only the statuses the refund changed. Unique keys and foreign keys are guards of the
commit, and `Abort` is every way to roll back. `Draw` stands for AnswerQuota, and
one contract the platform entered by hand (`Trial`) may exist at the start. `OrderBook`
is what an order promises; `Book` maps status, grant rows and use onto it.
Abstracted: prices and amounts (refunds are of whole orders), several lines per
order (a plan order counts as its plan), days (`Validity` ticks).

### ModelRoutes

A target is a snapshot of a channel and a mapping; what it copies (address, code,
protocol, upstream model) is one revision number each. Saving a route is two steps,
`BeginSave` (the form and the newest version are read) and `SaveDraft`, and so is
publishing, `BeginPublish` (the checks) and `Publish` (the version goes into force,
those found in force retire), because no row is locked. `UpdateMapping` and
`UpdateChannel` are the editors, `UpdateDefault`, `PublishOffering` and
`WithdrawOffering` what the platform promises on top of a route. `BeginCall` takes
one target of `RouteTargets`, the published version or the compatibility path;
`BeginDirect` and `BeginProbe` are the ways around a route. `checked` remembers
what a publication has validated. `raced` becomes true when a save or a publication
writes into a route another publication has changed since it was read: the code has
nothing against that, so the three invariants speak of the time before (section 5).
`StaysInForce` speaks of every step: whatever races, a route is not left without a
published version, but by a publication that had found two.
Abstracted: weights, tiers, prices, routing modes.

### AnswerKey

`ConfirmSheet` is the confirmation of a recognised paper, which draws the questions
anew; `CreateRegion`/`DeleteRegion` are the editor's. A preparation run is created,
begins, writes its items and ends (`BeginPrep`, `FinishPrep`, `FailPrep`); a redelivered
message begins it again. `BeginEdit`/`CommitEdit`, `BeginConfirm`/`CommitConfirm`,
`BeginPublish`/`CommitPublish` and `BeginDelete`/`CommitDelete` are one request each,
split between what it reads and checks and what it writes, because no row is locked. An
edit writes the columns that differ from what it read, so that an item confirmed in
between gets another text or question, and keeps its status or loses it; the history
`crossed` of a preparation run says that an edit was written while or after the run was
confirmed. An answer row dies with its region and takes
its revisions along, so a revision's identity is the number of its row and its own.
`CreateRun` locks the revisions in force, `LoadRun` makes the items, one per first
region, `SaveItem` grades, `EndRun`, `FailRun` and `RetryRun` are as in GradingRun. A
run's loading fails when nothing is to be graded, and `BreakLoad` is a failure after
some items were made. `moved` is true once a question has got another first region after
a run made its items. Abstracted: what an answer says is a body; matching by position
and the parsing of model output are any assignment.

### Credits

A session is one transaction, `at` what it does next, `holds` its locks: the
advisory lock of the school, reservation rows, the credit grants and, in a grading
run's transactions, the answer quota. `Wanted` is what it waits for, and the locks
are taken in the order of the code (`ReserveStart`, `AuthorizeStart`, `SettleStart`,
`SettleRunStart`, `ReconcileStart`, then `Lock`). `ReadUsage` and `ReadActive` are
the two sums of the cap check. `flight` counts the calls sent and not recorded;
`Record` is `record_model_attempt`, whose key is unique. The histories `over`,
`unseen` and `lost` say what the caps cannot know: calls dearer than their quote,
usage recorded between the two reads, events whose key was taken. Abstracted: one
grant of each kind that never refuses, no end of a day.

### ModelCalls

A call resolves its route once (`Resolve`: the eligible channels, or all if there is
none; the others are its `skip`) and goes through it `Passes` times. Each try is
authorised (`Unpaid` if not), refused by a cooldown (`CoolingDown`) or passes the rate
window, then claims a slot of school, channel and platform one after the other (`Claim`,
one run of the Lua script: sweep, count, add) and is sent. `Answer` releases the slots
in the finally block, `Refuse` is a Redis error while it waits: removals may fail, and
after a timeout the claim may have been added although nobody will remove it. `old` are
the entries past their time, `lost` those nobody gives back. `Report` and `Insert` are
the health report with a row that is there or missing, `LoseReport` its failure, which
the code only logs. The school's limit is read before the waits; whether it is throttled
then is a free choice. Abstracted: one model, so that a health row and a cooldown belong
to a channel; one worker process.

### ScoreBook

A session `tx[t]` is a request or a task that reads in one action and writes in
another: `BeginEdit` and `BeginGrade` with `CommitNote` are a teacher's edit and a
model's result, `BeginCopy`, `ReadCopy` and `CommitCopy` the two reads and the commit
of `snapshot_release`, `BeginBind`/`CommitBind` and `BeginVisit`/`CommitVisit` an
account that is bound and a page a student opens. `Merged` is the ORM's write: only the
columns that differ from what was read. `Publish` is one step, since it holds the exam's
lock and all it writes is its own. Unique and foreign keys are guards of the commits
(`Fresh`, the rows of `old` that are still there) and `Abort` every way to roll back.
`entry[v][s]` is what release `v` left of sheet `s` in the book; `missed` is the score
whose missed points it shows. The histories: `was` (accounts a student has had),
`overtaken` (a release was published during the copy of another) and `late` (sheets with
a result after a release or across another write). Abstracted: one question, and one
annotation per sheet, so that which of several annotations a release takes is left out;
an entry's picture and text. The deletion of an exam or an account is left out.

### Practice

`attempt[i]` is the row of item `i`; `of` is the photo its verdict was read off, which
the row does not say. A request of the student reads in `BeginSubmit` or `BeginReview`
and writes in `CommitSubmit` or `CommitReview`; the message is sent after the commit,
and may fail to be. A task takes a message (`Take`, which does nothing unless the
attempt is pending), commits a verdict (`Grade`), lists the wrong questions of the point
(`List`) and commits one review after the other (`Read`, `Write`). `Fail` is the except
branch. `Raise` is what leaves the task: a write that failed leaves a session that
cannot write FAILED either (`WriteFails`), the time limit is no `Exception`
(`Interrupted`); the message is tried again twice. `Crash` brings it back without
counting. `Submitted` and `Reviewed` are the ORM's writes: columns that do not differ
from what was read are left as they are now. `NextStep` is an index into the five
intervals. The histories say which reviews a photo has moved (`moved`, `twice`), which
messages are gone (`lost`, `unsent`) and which items were sent in while something was
under way for them (`crossed`). Abstracted: scores and comments, the count of reviews
and the date itself, the figures per knowledge point. In the local environment the
request grades the photo itself; that mode is left out.

## 3. The runs

| Run | Module | Shows |
|---|---|---|
| `quota` | AnswerQuota | two transactions, two sheets, two reservations, two grants of one or two answers: the refinement `BillsOnce`, `ChargesAccounted`, `LedgerUncrossed` |
| `slots` | JobSlots | three workers, three jobs, two slots, lost heartbeats, a crash, a duplicate message beside its job: `LeasesWithinLimit`, `OneRunner`, `RunnersWithinLimit` until a heartbeat is missed, and `QueueDrains` under fairness |
| `grading_run` | GradingRun | two sheets, two workers, two retry clients, two tries, exceptions at any point, a crash, late uploads, reconciliation: `BilledIsGraded`, `GradedStays`, `BillsOnce`, `EndedIsSettled` (unless something strayed into it, an ended run holds no quota and a completed one has graded and charged every sheet), and `MessageServed` under fairness |
| `grading_run_charge` | GradingRun | violation of `GradedIsCharged` by an exception and a retry alone: one worker, no crash, upload or reconciliation (section 5) |
| `commerce` | Commerce | two of two plans and an add-on over a hand-made contract, notifications, a transfer and refunds in two concurrent requests: `PaidFor`, `Covered` and the refinement `BooksOrders` |
| `routes` | ModelRoutes | two administrators over one channel, one model and two versions with a call in flight: `RoutesPublished`, `PromisedIsPublished`, `CallsChecked`, `StaysInForce` |
| `answer_key` | AnswerKey | two requests (edits, confirmations, publications, deletions) over one question, two regions, two revisions, a preparation run executed twice and a grading run with a retry: `OnlyConfirmed`, `GradedByLock`, `RunIsWhole`, `PublishedFrozen` |
| `credits` | Credits | three transactions over two reservations, three calls of three prices: `CallsCovered`, `CapHolds`, `ChargedInFull`, `DeadlocksNamed` |
| `credits_retry_usage` | Credits | violation of `RetriesAreCharged` (section 5) |
| `model_calls` | ModelCalls | two calls of one school, two channels of one slot each, one error: `WithinLimits`, `CircuitExact`, `CircuitBlamesUpstream`, and `CallsEnd` under fairness |
| `score_book` | ScoreBook | two sessions over a sheet, two students, two accounts and two releases: `NewestOnly`, `NobodyElses`, `PointsMatch` |
| `practice` | Practice | one item, two wrong questions, two workers, two photos or one with a crash, a review of the student's own, deleted questions: `VerdictOfPhoto`, `ReviewedOnce`, and `Answered` under fairness |

Bounds. Two transactions are enough for every race of the quota: its hazards are one
transaction's write between another's read and commit. Two reservations and two sheets
let one reservation hold what another wants and let a settlement bill a part. Three
workers and three jobs with two slots give contention, a duplicate message beside its
job, and a lease that is swept under a running job and claimed again. `Few` leaves out
the products of the faults (a crash beside a second message, a missed heartbeat or a
blocked school); the proofs are for every limit and every combination. Two sheets of one
question are enough for the races of a run, since a run may fail on one of them; two
attempts (three in the code) for a retry within an execution. Nothing in the model
depends on the number of questions but `FullyGraded`, and the proofs hold for any.
`MaxSent`, `MaxStarts` and `MaxCrashes` only bound the environment; second messages of a
run come from retries and from a crash. `Rare` leaves out an upload or a reconciliation of
a run that something has strayed into already. Deadlock is not
checked: a system with nothing to grade stops.

In Commerce (constraint `TwoOrders`: two orders at a time) two requests are enough for a
notification beside a transfer, a refund beside a payment and two renewals at once; an
add-on is there because nothing but the outbox key protects it, and two plans with the
hand-made contract give a chain of three. The clock has two values, so that the
hand-made contract runs out.

In ModelRoutes two administrators are enough for every pair of a save, an edit and a
publication; a channel has two revisions, so a target can be out of date, and a
route two versions, so that one retires. `AfterRaces` goes on after a race only without
calls and offered plans, since `StaysInForce` alone speaks of what comes then. In AnswerKey two regions let a question move and two
revisions let one be replaced while a run has locked the other; `LateSheets` lets
the questions be confirmed again only when a run exists. In Credits the third
transaction is what a circle of three locks needs; two reservations let the
reconciliation hold one and wait for the other; the estimates 1 and 3 under a
job cap of 3 give one reservation that must grow and one that cannot. In
`model_calls` one error at a time is enough for every entry that is left behind, and
it is what makes the platform's two slots run short; two failures open a circuit
(five in the code) and one pass (two in the code) over two channels gives every call
a second try.

In ScoreBook two sessions give two copies at once, an edit across a result, a visit
during a copy; two releases an old message after a new one, two executions a repeated
one, two students and two accounts a sheet and an account that change hands.
`Quiet` leaves out the product of both halves: annotations are written again or deleted
while nobody has a profile, and a second release comes with at most one account bound.
The halves meet in the entries only, which neither changes for the other.

In Practice two photos and two workers give a message of the first beside a message of the
second, both being graded at once, and a redelivery of either; items share nothing but the
reviews, so one item is enough. Two wrong questions let a task break off between two
reviews: the second photo comes alone, the first with two more events (`Few`).

Fairness. In `JobSlots` and `GradingRun` a worker continues what it executes, a
lease that nobody keeps alive expires (wall clock), the broker delivers (WF), and a
message that again and again finds a slot is in the end the one that takes it
(SF): the requeue delays differ from the jobs' lengths. Nothing is assumed of the
users, of the platform (a blocked school's messages circulate for ever, see
`QueueDrains`) or of retries. In `ModelCalls` a thread that polls goes on when it can,
a call that was sent ends by its timeout, and entries run out (wall clock); each is
WF, since calls are finite in number and the others let go. In
`Practice` a worker goes on with what it can do (WF of `Work`); it may be interrupted at
any time, which the tries of a message bound, and nothing is assumed of the student.

## 4. What is proved

Every safety property of the passing runs is a theorem; TLC checks it on a small
instance, the theorem holds for every value of the constants.

For every finite set of sheets and reservations, and any grants and transactions
(`AnswerProofs`): type correctness, `HoldsDisjoint`,
`ChargesFresh`, and `Refinement`, that the transactions implement `SheetBilling`.
None of them is inductive alone. `IInv` adds what the locks give: `RowLocks` (a
reservation row is locked by one transaction, and one being settled or released
by its own run stays active with the sheets about to be billed among its own) and
`CheckedStaysFree` (the advisory lock keeps what the overlap check saw true until
the commit). Without `RowLocks` two settlements of one reservation would bill
twice; without `CheckedStaysFree` two reservations would both pass the check.
`ReserveCommit` needs `CheckedStaysFree` for `HoldsDisjoint`, `SettleRead` needs
`HoldsDisjoint` and `RowLocks` for `ChargesFresh`, and the refinement needs all of
them at `SettleCommit`, where the billed sheets must still be held.
`ChargesAccounted` equates the number of billed sheets with a sum over reservations. A
settlement adds to both sides what it bills, which is fresh (`ChargesFresh`), provided
that the reservation it writes had settled nothing: that is `Unused`. `LedgerUncrossed`
needs what open transactions are about to write. `CrossInv` says that without a crossing
each of them has the counters right for every grant it has read, less the reservations it
is ending (`WritesExact`); a commit then leaves the ledger exact, and another open
transaction either shares no grant with it or has been crossed.

For every number of workers, jobs and every limit (`WorkerProofs`):
`LeasesWithinLimit` and `OneRunner`. A live-lease bound is not inductive, because a
late heartbeat revives an expired row; `RowsWithinLimit` is, because every claim
deletes the expired rows before it counts. `OneRunner` follows from
`RunnersLocked`. As long as no heartbeat is missed (`~missed`), `RunnersCovered` is
inductive, and with `LeasesWithinLimit` it gives `RunnersWithinLimit` through an
injection of runners into leases.

For any sheets, questions, workers, retry requests, reservations, attempts and crashes
(`WorkerProofs`): `BilledIsGraded`, `GradedStays`, and `Refinement`, that the run
implements `SheetBilling`. `IInv` adds to `BilledIsGraded` that there is one execution
(`OneExecution`, from the slot and the lock), that what it still has to do is not
graded (`PendingUngraded`, so no result replaces the grade of another), and that active
reservations are disjoint and hold nothing that is billed (`HoldsFresh`). Each action
lemma shows three things of a step at once: it keeps `IInv`, it keeps the grades
(`Kept`), and it is a step of `SheetBilling` or none. The status of the run plays no
part: a stale retry may queue a completed run again, and the theorems hold all the same.

The status is what `EndedIsSettled` is about, which holds until something strays into the
run. `StrayInv` says what holds that long: nothing exists before the run does
(`NothingYet`), an execution works on the run as its row has it (`ThreadsFollow`), the
run's own reservation is the only active one and with what was billed before covers every
sheet (`QuotaFollows`), a result leaves no item pending and charges what is graded
(`ItemsFollow`), and the execution's lists are those of the items (`WorkFollows`). The
steps `Strays` names are those the proof could not pass without it. A run may fail with
some sheets graded, as long as no item has used up its attempts (`Spent`): its retry finds
no failed item, reserves every sheet that is not billed and charges them all. With a
failed item the retry reserves less, and `grading_run_charge` shows what is then lost.

For any orders, references, requests, validity and time (`CommerceProofs`):
`PaidFor`, and `Refinement`, that the shop implements `OrderBook`. The argument does
not use the row locks. `DeliveredOnce` ties the grants to the order's status,
and `KeysTell` says that the outbox has a key for each delivery and each refund. So a
second delivery, by a request that looked at a stale order, fails at the unique key
(`KeyFresh`), a second refund at the other one, and `RequestsKnown` says that what is
left is a pending order or a delivered one. That the quota of a refunded order was
never used comes from the foreign key of its allocations (`Unallocated`).

The locks matter for the contracts, that is for `Covered`, proved for finitely many plans.
`ChainInv` has the contracts as a chain. `Held`: what a fulfilment has locked stays in
service and is locked by nobody else. `Replaced`: what a delivered plan replaced has
expired and ended sooner, and no two replaced the same. `Chained`: a delivered plan that is
not over is in service or was replaced. `Returning`: a refund brings back what its order
replaced and is not over. An uncovered time would belong to a delivered plan that was
replaced, by one that ends later, and so on: among finitely many plans the one that ends
last is in service.

For any channels, models and administrators (`ModelRoutesProofs`): the type invariant
with the draft being the newest version, `RoutesPublished`, `PromisedIsPublished`,
`CallsChecked` and `StaysInForce` (`ForceKept`). The invariant carries, beside the three
invariants, that a target in force has been checked and that an open publication
knows which versions were in force, as long as nothing has raced. `ForceKept` needs only
what holds through races: a publication puts its version into force, unless it has read
it so; then it retires only others it has found in force, and with one found there is none.

For any tasks, transactions, calls, prices and caps (`CreditsProofs`): the row types,
`CallsCovered`, `ChargedInFull` and `DeadlocksNamed`. `CallsCovered` is not
inductive; `RowFits` is, which compares usage and calls under way with what was
authorised and that with the estimate, together with `Fits`, which says what an open
transaction holds and still has to add. `Apart` (no call is sent while the worker
settles) gives `ChargedInFull`. `DeadlocksNamed` follows from what each kind of
transaction can hold while it waits: in a circle without the two exceptions nobody
waits for the grants, hence nobody for a row, for the answer quota, for the advisory
lock. `CapHolds`, for finitely many reservations and transactions, bounds a sum over
reservations whose parts move between open and closed. `CapInv` has the bound with what a
check has missed (`unseen`), and `Checked`: a transaction past its sums has left room for
what it is about to add, because the advisory lock keeps every other addition out; what
closes between the two sums is what `unseen` counts.

For any calls, schools, channels, routes and limits (`ModelCallsProofs`): the type
invariant, `WithinLimits`, `SlotsReturned`, `CircuitExact` and
`CircuitBlamesUpstream`. `WithinLimits` counts the calls under way; what a claim
keeps is `RoomKept`, that the live entries of a set are within its limit, whoever
they belong to, and the tokens map the calls one to one into the entries. For a
throttled school that is not enough: the claims of one school name different limits,
so `LimitsKept` bounds, for each `n`, the live holders that read a limit of `n` or
less. `HealthFits` says that a health row counts what the history counts, and
`ReportsFit` that a failure about to be reported is of a channel that has answered
badly. Time, lost claims and removals that fail only take live entries away or add
one where there is room.

For any sheets, students, accounts, scores and sessions (`BookProofs`): the type
invariant, `NewestOnly`, `NobodyElses`, `PointsMatch` and `DeletedStays`. None of the
first three is inductive; the invariant has a part for each. `Ordered`: the statuses
follow from the number of releases, only published ones are written, and until one is
published during a copy every copy is of the newest and has collected all that is
active of the others. `Named`: every account that stands beside a student, in a row or
in what a copy or a visit has read, was bound to that student. `Matched`: a score that
is not a teacher's is the one the model's points are for, releases taken from such an
annotation stay explained by it, and an open write sees the annotation as it read it,
or deleted. `late` and `overtaken` are the exceptions of the properties themselves.
`DeletedStays` needs no more than the unique snapshots (`Fresh`) and the failure of a
task or a visit whose entry is gone.

For any items, wrong questions, workers, requests and crashes (`BookProofs`):
`VerdictOfPhoto` and `ReviewedOnce`. `PracticeInv` adds that a photo is sent in for one
item and that one about to be is nowhere yet (`PhotosApart`); that an item nobody sent in
across something under way has one message or one worker, with the photo of its row
(`OneAtATime`); and that this photo has moved no review before its verdict is there, nor
any its worker has still to write (`NotMovedYet`). A task that breaks off leaves its
message, but the attempt is pending no longer, so it is not graded again. A message that
is delivered once more after a crash before the verdict has moved nothing.

For any regions, questions, requests, preparations and revisions (`AnswerProofs`):
`OnlyConfirmed`, `GradedByLock`, `RunIsWhole` and the action property `PublishedFrozen`.
`OnlyConfirmed` needs that what a confirmation is about to write was read from items with
an answer, which still say it when it is written unless an edit has crossed it
(`MatchedSays`, `RequestsHold`). The others are about revisions that a run names
while their answer may be deleted and made anew. Row numbers only grow, so that a
revision's identity never comes back; `PromisesKept` says that the locked revision is
there and says what was promised as long as its row stands, and `ItemsLocked` that an
item of a locked question has that revision or lost it with its row. Loading requires
every locked revision, so that no execution starts on the second kind: a worker has the
promised body, and that is `GradedByLock`. `ItemsInPlace` gives `RunIsWhole`: until a
question moves, items are at the first regions of their questions, and these differ.

Sums. `LedgerUncrossed`, `ChargesAccounted` and `CapHolds` are about
`SumFunction` of the community modules, a recursive function on finite sets.
`SumTheorems` proves what they need (the sum of a function changed at one point, of a sum
of functions, of a smaller function) without an induction rule that takes a predicate as a
parameter: the subsets for which a lemma fails form a set, which has a minimal element
(`MinimalSet`), and that one without a member is no longer among them.

The assumptions are the named ASSUMEs of the modules, which the runs evaluate. The
finiteness ones (`SheetsFinite`, `RidsFinite`, `PlansFinite`, `SessionsFinite`,
`JobsFinite`, `CallsFinite`) say that the tables and the requests under way are finite.
Outside the prover: liveness under fairness (`QueueDrains`, `MessageServed`, `CallsEnd`,
`Answered`), which is model-checked only. `HoldsDisjoint`, `ChargesFresh`,
`SlotsReturned`, `RunnersCovered` and `DeletedStays` have theorems and no run of their own.

## 5. Where code and documentation disagree

* `grading_run_charge`: an exception at any point of an execution ends the run FAILED and
  releases its quota (`grading_workflow.py:991`), also after sheets were graded; if another
  item has failed by then, the retry reserves the sheets with failed items only
  (`grading.py:634`), and the run completes without a charge for the graded ones.
  `models.py:4155` says "Exactly-once commercial charge for one student in one exam".
* `credits_retry_usage`: the usage of an item's second try has the billing key of
  its first and is dropped (`grading_workflow.py:268`);
  `provider-relay-operations.md:59` says retries count.

Other places where the code does not do what a document or test says, found with the
modules but without a run of their own:

* A photo sent in while the one before is being graded gets the verdict of the one
  before, and its own message is skipped (`students.py:1571`, `practice_grading.py:98`);
  `students.py:1542` says only the newest answer is kept.
* The verdict is committed before the reviews are moved (`practice_grading.py:142`); a
  task that breaks off in between is not taken up again. `students.py:1542` says a verdict
  moves the intervals on or back.
* The time limit of the actor is not caught by `except Exception`
  (`practice_grading.py:174`); after three tries the attempt stays pending.
  `practice_grading.py:96` says that every exception ends in `failed`.
* `hard` for an entry that was never reviewed takes `INTERVAL_DAYS[-1]`, 30 days
  (`wrongbook_review.py:47`); line 26 says hard stays in place.
* Two settlements that share a grant lose an update of `consumed_answers`
  (`billing.py:432`; without `~crossed` in `LedgerUncrossed` TLC finds it); `test_billing.py:170` expects one per billed sheet.
* A run over "all sheets" grades a sheet uploaded after its creation and never
  charges it (`grading_workflow.py:732`); `models.py:4155` promises an exactly-once
  charge.
* A run whose worker died stays RUNNING and nothing gets it out (`worker.py:83`);
  `issue-backlog.md:811` asks for a recoverable service.
* Refunding a plan and then its renewal puts the refunded contract back into service
  (`commerce.py:324`); `production-operations.md:45` promises to restore the previous
  contract that is still good.
* "A new release supersedes the exam's earlier entries" (`wrongbook.py:240`,
  `issue-backlog.md:971`) fails when a release is published while the one before is being
  copied: the older copy commits later, with active entries, or supersedes the newer ones
  (`wrongbook.py:265`; without `~overtaken` in `NewestOnly` TLC finds it).
* A mapping drops out of production after one success without usage
  (`record_success`), after three according to `provider-relay-operations.md:58`.
* Refusals by a local cooldown and unreadable answers count toward the circuit: one
  429 and four local refusals open it (`vision_grading.py:725`);
  `provider-relay-operations.md:57` says five network or upstream failures.

Seen while modelling, reproducible from the modules with the constants named:

* A reservation that a run settles while the reconciliation is under way is marked
  RELEASED and its allocations are returned a second time (`ReconcileRelease` after
  `SettleCommit`; `billing.py:1075`). `ChargesAccounted` shows that the charge itself
  survives.
* Without `~missed`, `RunnersWithinLimit` fails: a heartbeat thread ends on the first
  database error (`job_control.py:127`), its lease is swept and another job takes
  the slot.
* Two start messages (`MaxStarts = 2`): a run that has ended is executed again by the
  second one (`worker.py:83`), and with nothing left to grade it ends FAILED, since
  `items` is assigned in the loop only.
* Two start messages received while the run is queued: the first execution grades a sheet
  and is cut off, the second finds nothing pending and releases the reservation, and the
  retry reserves the failed sheets only, so the graded one is never charged (without
  `~stray` in `EndedIsSettled` TLC finds it).
* An exception while the last result of an item is saved leaves the item EXTRACTING with
  its attempts used up: no execution picks it up (`grading_workflow.py:805`), no retry
  resets it, and its run may complete without it (`FailSaving`).
* Two renewals paid at once do not add up: the second finds the old contract expired
  and does not see the new one (`commerce.py:194`), so it starts at its payment.
  `Covered` holds all the same, with the longer of the two.
* An order whose reserved quota was released cannot be refunded: the allocation's
  foreign key stops the deletion of the grant (`models.py:4147`).
* With `Reconciles` a run started after its reservation was released is graded
  without a charge (`billing.py:401`).

* Routes: a draft saved while another administrator publishes it rewrites the
  published version's targets, and two publications at once leave two versions in
  force (`provider_channels.py:761`, `:1218`); changing a mapping's upstream model
  keeps its metering verification.
* Answer key: an edit that has found its run not confirmed (`questions_answers.py:904`,
  which refuses with 答案已确认，不能修改历史快照: what is confirmed is a snapshot not to be
  changed) and commits after the confirmation changes the confirmed item, and perhaps its
  status; the revision keeps what was confirmed (without `crossed` in `OnlyConfirmed` TLC
  finds it). An answer published while its deletion is under way is deleted with its
  published revision ("Published answers are immutable and cannot be deleted",
  `exams.py:4640`).
* Answer key, further: publishing all drafts publishes the newest of each question only, and
  a later "publish all" then goes back to an older draft; confirming one answer run
  twice at once makes two drafts; deleting a region deletes a published answer with
  its revisions although deleting the answer itself is refused (`models.py:1501`);
  a redelivered message executes a finished preparation run again, and if it fails
  its items can no longer be confirmed (`worker.py:221`); a question confirmed after
  a run's creation is graded by whatever revision is in force then
  (`grading_workflow.py:685`); questions drawn anew between an execution and its retry
  make items be graded twice or by another answer.
* Credits: the two sums of the cap check miss the usage of a reservation that closes
  in between (`billing.py:653`); the reconciliation and overspent settlements can
  deadlock with others (`DeadlocksNamed` names them); an overspent settlement beyond
  the job cap raises outside the handler's try block and leaves its run RUNNING
  (`billing.py:960`); the one-shot recognition path never settles
  (`recognition_workflow.py:323`).
* Model calls: the school's slot is held while the call waits for the others and may
  run out meanwhile, so that the limit is exceeded (`Outlive`); a timeout of Redis may
  leave an entry until it runs out; a late success closes a circuit that others
  opened.
* Scores: a model's result that comes after a teacher scored the annotation replaces the
  score (`grading_workflow.py:531`; `decision-log.md:138` protects it only where the
  evidence disagrees); points missed are read from the annotation when the book is written, so a result
  after the release shows points beside another score; two accounts can claim one entry,
  and the later visit keeps it; an account that was bound to a student once claims, by its
  recorded stay, what a later owner has not claimed yet (`learner_identity.py:104`); two
  requests can bind one account to two students (`classes.py:477`).

## 6. Not modelled

* Item scheduling (`AdaptiveConcurrency`, `next_schedulable_payload_index`): a pure
  function of one thread; the attempts and results are in GradingRun.
* Recognition, question recognition and rubric runs: one run row with the life cycle
  GradingRun and AnswerKey model; the rest is the parsing of model output and pages.
* Sign-up, outbox: one row each with a status, changed by one actor or request at a
  time.
* Practice sheets: how the items are generated; the dates of reviews, their
  counts and the mastery figures, which are derived.
* Reassigned submissions against the quota: `ScoreBook` reassigns sheets, but in
  `AnswerQuota` a sheet is a student in an exam, so that the billing identity cannot
  change between reservation and settlement (`billing.py:197`).
* Preprocessing, rules, segmentation, storage, administration, the frontend and the OCR
  service: pixels, text and single transactions.
