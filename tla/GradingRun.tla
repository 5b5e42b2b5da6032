----------------------------- MODULE GradingRun -----------------------------
(***************************************************************************)
(* The life of one grading run: the API handlers that create, start and    *)
(* retry it (api/routes/grading.py), the Dramatiq actor that receives its  *)
(* messages (worker.py, process_grading_run), the execution in the worker  *)
(* (services/grading_workflow.py, execute_grading_run), and the answer     *)
(* quota it holds and settles (services/billing.py, without the grants:    *)
(* AnswerQuota has them).                                                  *)
(*                                                                         *)
(* A handler or a worker step that ends in one commit is one action.  The  *)
(* retry handler is two: it reads the run before it waits for the row      *)
(* lock, and the locked SELECT gives it the object it has already loaded.  *)
(* The slot and the advisory lock of JobSlots appear here only in what     *)
(* they decide: a message runs, is sent again or is dropped.               *)
(*                                                                         *)
(* TOKEN_BUDGET_ENFORCEMENT_ENABLED is off and BILLING_ENFORCEMENT_ENABLED *)
(* is on, the defaults of core/config.py.                                  *)
(***************************************************************************)
EXTENDS Naturals, FiniteSets

CONSTANTS
  Sheets,      \* answer sheets of the exam (one submission each)
  Questions,   \* confirmed questions of the exam
  MaxTries,    \* attempts per item: 3 in the code
  Rids,        \* answer-quota reservations that may be created
  Workers,     \* worker threads
  Clients,     \* concurrent retry requests
  MaxStarts,   \* bound: start requests
  MaxCrashes,  \* bound: worker processes that die, executions that are cut off
  Uploads,     \* whether sheets are uploaded after the run was created
  Reconciles,  \* whether a reservation can reach its 24 hours
  NoResv       \* a run without a reservation

ASSUME TriesPositive == MaxTries \in Nat \ {0}
ASSUME RunBounds == MaxStarts \in Nat /\ MaxCrashes \in Nat
ASSUME NoResvOutside == NoResv \notin Rids
ASSUME SomeQuestion == Questions # {}

VARIABLES
  run,         \* the GradingRun row: status, submission_ids, reservation id
  item,        \* GradingItem rows
  exam,        \* sheets uploaded so far
  resv,        \* AnswerQuotaReservation rows
  billed,      \* BillableAnswerSheet rows
  msgs,        \* messages for the run, waiting or delayed
  starts,      \* start requests so far
  client,      \* retry requests that have read a run they may retry
  worker,      \* worker threads
  orphan,      \* the lease of a dead worker is still alive
  crashes

vars == <<run, item, exam, resv, billed, msgs, starts, client, worker, orphan, crashes>>

Items == Sheets \X Questions

ItemsOf(S) == S \X Questions

Terminal == {"completed", "with_errors", "failed"}

Retryable == {"with_errors", "failed"}

Graded(i) == item[i].st = "graded"

FullyGraded(s) == \A q \in Questions : Graded(<<s, q>>)

Active(r) == resv[r].status = "active"

\* rid, sel: the run as the worker loaded it.  subs: the submissions it grades.
\* left: the attempt that is pending or in flight for an item, 0 if none.
\* bad: items it knows as FAILED.  looped: `items` has been assigned.
Idle == [pc |-> "idle", rid |-> NoResv, sel |-> {}, subs |-> {},
         left |-> [i \in Items |-> 0], flight |-> {}, bad |-> {}, looped |-> FALSE]

Worker == [pc: {"idle", "checked", "loading", "grading"}, rid: Rids \cup {NoResv},
           sel: SUBSET Sheets, subs: SUBSET Sheets, left: [Items -> 0 .. MaxTries],
           flight: SUBSET Items, bad: SUBSET Items, looped: BOOLEAN]

Executing(w) == worker[w].pc \in {"loading", "grading"}

Init ==
  /\ run = [status |-> "absent", sel |-> {}, rid |-> NoResv]
  /\ item = [i \in Items |-> [st |-> "absent", tries |-> 0]]
  /\ exam \in (SUBSET Sheets) \ {{}}
  /\ resv = [r \in Rids |-> [status |-> "none", sheets |-> {}]]
  /\ billed = {}
  /\ msgs = 0 /\ starts = 0
  /\ client = [c \in Clients |-> "idle"]
  /\ worker = [w \in Workers |-> Idle]
  /\ orphan = FALSE
  /\ crashes = 0

-----------------------------------------------------------------------------
\* The quota, seen from the run.

\* The sheets of the run: those it names, or every sheet of the exam.
Selected(sel) == IF sel = {} THEN exam ELSE sel \cap exam

\* Mutant: reservations of other runs are not looked at.
OverlapsIgnored(S) == FALSE

Overlaps(S) == \E r \in Rids : Active(r) /\ resv[r].sheets \cap S # {}

\* The id of the next reservation: which one it gets makes no difference.
NextRid == CHOOSE r \in Rids : resv[r].status = "none"

\* reserve_answer_quota for the submissions S.
Reserve(r, S) ==
  /\ resv[r].status = "none" /\ r = NextRid
  /\ ~Overlaps(S)
  /\ resv' = [resv EXCEPT ![r] = [status |-> "active", sheets |-> S \ billed]]

\* Mutant: the BillableAnswerSheet rows are not inserted.
SettleWithoutRows(r, S) ==
  IF r # NoResv /\ Active(r)
    THEN resv' = [resv EXCEPT ![r].status = "settled"] /\ UNCHANGED billed
    ELSE UNCHANGED <<resv, billed>>

\* The quota part of the final commit: settle_answer_quota for the sheets S,
\* which does nothing unless the reservation is active.
Settle(r, S) ==
  IF r # NoResv /\ Active(r)
    THEN /\ resv' = [resv EXCEPT ![r].status = "settled"]
         /\ billed' = billed \cup (resv[r].sheets \cap S)
    ELSE UNCHANGED <<resv, billed>>

\* release_answer_quota.
Release(r) ==
  /\ resv' = IF r # NoResv /\ Active(r) THEN [resv EXCEPT ![r].status = "released"] ELSE resv
  /\ UNCHANGED billed

\* reconcile_stale_reservations reaches an old reservation.
Reconcile(r) ==
  /\ Reconciles
  /\ Active(r)
  /\ Release(r)
  /\ UNCHANGED <<run, item, exam, msgs, starts, client, worker, orphan, crashes>>

-----------------------------------------------------------------------------
\* API handlers.

Upload(s) ==
  /\ Uploads
  /\ s \notin exam
  /\ exam' = exam \cup {s}
  /\ UNCHANGED <<run, item, resv, billed, msgs, starts, client, worker, orphan, crashes>>

\* create_run: nothing is kept when the quota does not suffice.
CreateRun(sel, r) ==
  /\ run.status = "absent"
  /\ Reserve(r, Selected(sel))
  /\ run' = [status |-> "queued", sel |-> sel, rid |-> r]
  /\ UNCHANGED <<item, exam, billed, msgs, starts, client, worker, orphan, crashes>>

\* start_run: the status is read, not changed.
StartRun ==
  /\ run.status = "queued"
  /\ starts < MaxStarts
  /\ starts' = starts + 1
  /\ msgs' = msgs + 1
  /\ UNCHANGED <<run, item, exam, resv, billed, client, worker, orphan, crashes>>

\* retry_run up to the row lock.
RetryLoad(c) ==
  /\ client[c] = "idle"
  /\ run.status \in Retryable
  /\ client' = [client EXCEPT ![c] = "retry"]
  /\ UNCHANGED <<run, item, exam, resv, billed, msgs, starts, worker, orphan, crashes>>

\* Mutant: a retry starts every item again.
FailedItemsAll == {i \in Items : item[i].st # "absent"}

FailedItems == {i \in Items : item[i].st = "failed"}

\* The sheets with failed items, or all of the run's when there is none.
RetrySheets ==
  LET failed == {i[1] : i \in FailedItems}
  IN  IF failed = {} THEN Selected(run.sel) ELSE failed \cap exam

\* The rest of retry_run in one transaction; the status that was read is not
\* looked at again.
RetryCommit(c, r) ==
  /\ client[c] = "retry"
  /\ RetrySheets # {}
  /\ Reserve(r, RetrySheets)
  /\ item' = [i \in Items |-> IF i \in FailedItems THEN [st |-> "queued", tries |-> 0]
                                                  ELSE item[i]]
  /\ run' = [run EXCEPT !.status = "queued", !.rid = r]
  /\ msgs' = msgs + 1
  /\ client' = [client EXCEPT ![c] = "idle"]
  /\ UNCHANGED <<exam, billed, starts, worker, orphan, crashes>>

\* 409: a sheet is held by an active reservation; 402: the quota is used up.
RetryRefused(c) ==
  /\ client[c] = "retry"
  /\ client' = [client EXCEPT ![c] = "idle"]
  /\ UNCHANGED <<run, item, exam, resv, billed, msgs, starts, worker, orphan, crashes>>

-----------------------------------------------------------------------------
\* process_grading_run.

\* The status check: only RUNNING and COMPLETED stop a message.
Receive(w) ==
  /\ worker[w].pc = "idle" /\ msgs > 0
  /\ msgs' = msgs - 1
  /\ worker' = IF run.status \in {"running", "completed"} THEN worker
               ELSE [worker EXCEPT ![w].pc = "checked"]
  /\ UNCHANGED <<run, item, exam, resv, billed, starts, client, orphan, crashes>>

\* Mutant: the message is acknowledged and not sent again.
RequeueLost(w) ==
  /\ worker[w].pc = "checked"
  /\ worker' = [worker EXCEPT ![w] = Idle]
  /\ UNCHANGED <<run, item, exam, resv, billed, msgs, starts, client, orphan, crashes>>

\* No job slot of the school is free: the message is sent again, delayed.
Requeue(w) ==
  /\ worker[w].pc = "checked"
  /\ worker' = [worker EXCEPT ![w] = Idle]
  /\ msgs' = msgs + 1
  /\ UNCHANGED <<run, item, exam, resv, billed, starts, client, orphan, crashes>>

Claimed == orphan \/ \E v \in Workers : Executing(v)

\* The run has a live lease or its lock is held: the message is dropped.
Drop(w) ==
  /\ worker[w].pc = "checked"
  /\ Claimed
  /\ worker' = [worker EXCEPT ![w] = Idle]
  /\ UNCHANGED <<run, item, exam, resv, billed, msgs, starts, client, orphan, crashes>>

\* execute_grading_run begins: whatever the status is by now, it is RUNNING.
Begin(w) ==
  /\ worker[w].pc = "checked"
  /\ ~Claimed
  /\ run' = [run EXCEPT !.status = "running"]
  /\ worker' = [worker EXCEPT ![w] = [Idle EXCEPT !.pc = "loading", !.rid = run.rid,
                                                  !.sel = run.sel]]
  /\ UNCHANGED <<item, exam, resv, billed, msgs, starts, client, orphan, crashes>>

\* Read the submissions, create the missing items and collect the pending work.
Load(w) ==
  LET subs == Selected(worker[w].sel)
      have == [i \in Items |-> IF i \in ItemsOf(subs) /\ item[i].st = "absent"
                                 THEN [st |-> "queued", tries |-> 0] ELSE item[i]]
      todo == {i \in ItemsOf(subs) : have[i].st # "graded" /\ have[i].tries < MaxTries}
  IN  /\ worker[w].pc = "loading"
      /\ item' = have
      /\ worker' = [worker EXCEPT ![w].pc = "grading", ![w].subs = subs,
                      ![w].left = [i \in Items |-> IF i \in todo THEN have[i].tries + 1 ELSE 0],
                      ![w].bad = {i \in Items : have[i].st = "failed"}]
      /\ UNCHANGED <<run, exam, resv, billed, msgs, starts, client, orphan, crashes>>

\* Hand a pending item to the thread pool.
Dispatch(w, i) ==
  /\ worker[w].pc = "grading"
  /\ worker[w].left[i] > 0 /\ i \notin worker[w].flight
  /\ item' = [item EXCEPT ![i].st = "extracting"]
  /\ worker' = [worker EXCEPT ![w].flight = @ \cup {i}]
  /\ UNCHANGED <<run, exam, resv, billed, msgs, starts, client, orphan, crashes>>

\* A result comes back: COMPLETED or NEEDS_REVIEW (ok), or an error, which is
\* retried until the last attempt.
Answer(w, i, ok) ==
  LET n == worker[w].left[i]
  IN  /\ worker[w].pc = "grading"
      /\ i \in worker[w].flight
      /\ item' = [item EXCEPT ![i] =
                    [st |-> IF ok THEN "graded" ELSE IF n < MaxTries THEN "queued" ELSE "failed",
                     tries |-> n]]
      /\ worker' = [worker EXCEPT ![w].flight = @ \ {i},
                      ![w].left = [worker[w].left EXCEPT ![i] = IF ~ok /\ n < MaxTries THEN n + 1 ELSE 0],
                      ![w].bad = IF ok \/ n < MaxTries THEN @ \ {i} ELSE @ \cup {i},
                      ![w].looped = TRUE]
      /\ UNCHANGED <<run, exam, resv, billed, msgs, starts, client, orphan, crashes>>

Exhausted(w) == worker[w].pc = "grading" /\ \A i \in Items : worker[w].left[i] = 0

\* The final commit of an execution: status and config_snapshot as the worker
\* knows them, the quota, then the lock and the lease.
End(w, status) ==
  /\ run' = [run EXCEPT !.status = status, !.rid = worker[w].rid]
  /\ worker' = [worker EXCEPT ![w] = Idle]
  /\ UNCHANGED <<exam, msgs, starts, client, orphan, crashes>>

\* Mutants: every sheet of the run is billed; failed items are not looked at.
CompleteBillingAll(w) ==
  /\ Exhausted(w) /\ worker[w].looped
  /\ Settle(worker[w].rid, worker[w].subs)
  /\ End(w, IF worker[w].bad = {} THEN "completed" ELSE "with_errors")
  /\ UNCHANGED item

\* Every item is answered: bill the sheets that are graded completely.
Complete(w) ==
  /\ Exhausted(w) /\ worker[w].looped
  /\ Settle(worker[w].rid, {s \in worker[w].subs : FullyGraded(s)})
  /\ End(w, IF worker[w].bad = {} THEN "completed" ELSE "with_errors")
  /\ UNCHANGED item

\* An exception ends the execution as FAILED and gives the whole quota back, wherever
\* it is raised: a question has no published answer any more, nothing was pending and
\* `items` was never assigned, or something after any number of results.
Fail(w) ==
  /\ Executing(w)
  /\ Release(worker[w].rid)
  /\ End(w, "failed")
  /\ UNCHANGED item

\* An exception while a result is written to its item: what was assigned so far, the
\* attempt and perhaps the grade, is committed with the FAILED run.
FailSaving(w, i, st) ==
  /\ worker[w].pc = "grading"
  /\ i \in worker[w].flight /\ st \in {"extracting", "graded"}
  /\ item' = [item EXCEPT ![i] = [st |-> st, tries |-> worker[w].left[i]]]
  /\ Release(worker[w].rid)
  /\ End(w, "failed")

\* The execution is cut off by time_limit or a database error: lock and lease
\* are released, the message is not sent again, the row stays as it is.
CutOff(w) ==
  /\ crashes < MaxCrashes
  /\ Executing(w)
  /\ crashes' = crashes + 1
  /\ worker' = [worker EXCEPT ![w] = Idle]
  /\ UNCHANGED <<run, item, exam, resv, billed, msgs, starts, client, orphan>>

\* The worker process dies: the broker delivers the message again, the lease
\* lives on until LEASE_TTL.
Crash(w) ==
  /\ crashes < MaxCrashes
  /\ worker[w].pc # "idle"
  /\ crashes' = crashes + 1
  /\ orphan' = (orphan \/ Executing(w))
  /\ worker' = [worker EXCEPT ![w] = Idle]
  /\ msgs' = msgs + 1
  /\ UNCHANGED <<run, item, exam, resv, billed, starts, client>>

OrphanExpires ==
  /\ orphan
  /\ orphan' = FALSE
  /\ UNCHANGED <<run, item, exam, resv, billed, msgs, starts, client, worker, crashes>>

-----------------------------------------------------------------------------
Execute(w) ==
  \/ Load(w)
  \/ \E i \in Items : Dispatch(w, i)
  \/ \E i \in Items, ok \in BOOLEAN : Answer(w, i, ok)
  \/ \E i \in Items, st \in {"extracting", "graded"} : FailSaving(w, i, st)
  \/ Complete(w)
  \/ Fail(w)

Next ==
  \/ \E r \in Rids : Reconcile(r)
  \/ \E s \in Sheets : Upload(s)
  \/ \E sel \in SUBSET exam, r \in Rids : CreateRun(sel, r)
  \/ StartRun
  \/ \E c \in Clients : RetryLoad(c) \/ RetryRefused(c) \/ \E r \in Rids : RetryCommit(c, r)
  \/ \E w \in Workers : \/ Receive(w) \/ Requeue(w) \/ Drop(w) \/ Begin(w)
                        \/ Execute(w) \/ CutOff(w) \/ Crash(w)
  \/ OrphanExpires

Spec == Init /\ [][Next]_vars

\* A worker goes on with what it executes, the broker delivers, a lease
\* expires, and a message that finds a slot again and again takes it.
Fairness ==
  /\ WF_vars(\E w \in Workers : Receive(w))
  /\ SF_vars(\E w \in Workers : Begin(w) \/ Drop(w))
  /\ \A w \in Workers : WF_vars(Execute(w))
  /\ WF_vars(OrphanExpires)

FairSpec == Spec /\ Fairness

-----------------------------------------------------------------------------
\* Properties.

\* Every row, message and thread has the shape the code gives it.
TypeOK ==
  /\ run \in [status: {"absent", "queued", "running"} \cup Terminal,
              sel: SUBSET Sheets, rid: Rids \cup {NoResv}]
  /\ item \in [Items -> [st: {"absent", "queued", "extracting", "graded", "failed"},
                         tries: 0 .. MaxTries]]
  /\ exam \in SUBSET Sheets
  /\ resv \in [Rids -> [status: {"none", "active", "settled", "released"},
                        sheets: SUBSET Sheets]]
  /\ billed \in SUBSET Sheets
  /\ msgs \in Nat
  /\ starts \in 0 .. MaxStarts
  /\ client \in [Clients -> {"idle", "retry"}]
  /\ worker \in [Workers -> Worker]
  /\ orphan \in BOOLEAN
  /\ crashes \in 0 .. MaxCrashes

\* A sheet is billed only when every question of it has been graded, and no
\* retry, second message or stale request ever takes a grade away again.
BilledIsGraded == \A s \in billed : FullyGraded(s)

\* The slot and the lock leave one execution at a time.
OneExecution ==
  \A v, w \in Workers : Executing(v) /\ Executing(w) => v = w

\* What an execution still has to do is not graded yet, and only an execution has
\* items in flight.
PendingUngraded ==
  \A w \in Workers :
     /\ worker[w].pc = "grading" =>
          /\ \A i \in Items : worker[w].left[i] > 0 => ~Graded(i)
          /\ \A i \in worker[w].flight : worker[w].left[i] > 0
     /\ worker[w].pc # "grading" => worker[w].flight = {}

\* An active reservation holds sheets that are not billed and that no other
\* active reservation holds.
HoldsFresh ==
  \A r \in Rids : Active(r) =>
     /\ resv[r].sheets \cap billed = {}
     /\ \A t \in Rids \ {r} : Active(t) => resv[r].sheets \cap resv[t].sheets = {}

\* The inductive invariant behind BilledIsGraded, GradedStays and BillsOnce.
IInv == TypeOK /\ OneExecution /\ PendingUngraded /\ HoldsFresh /\ BilledIsGraded

\* What was graded once is not graded again, nor reset: repeated executions and
\* retries touch only the items that have failed.
GradedStays == [][\A i \in Items : Graded(i) => item'[i] = item[i]]_vars

\* A run that has ended holds no quota: every way out of an execution settles
\* or releases what the run reserved.
EndedHoldsNothing ==
  run.status \in Terminal => \A r \in Rids : Active(r) => resv[r].sheets = {}

\* A message of a queued run leads to a result, however often it finds no slot
\* and whatever messages came before it, unless an execution is cut off.
MessageServed ==
  run.status = "queued" /\ msgs > 0 ~> run.status \in Terminal \/ crashes > 0

\* "Exactly-once commercial charge for one student in one exam" (models.py): a run
\* that reports no errors has charged every sheet it graded.
GradedIsCharged ==
  run.status = "completed" => \A s \in Sheets : FullyGraded(s) => s \in billed

\* It has graded every item, too.
CompletedIsBilled ==
  /\ run.status = "completed" => \A i \in Items : item[i].st \in {"absent", "graded"}
  /\ GradedIsCharged

held == [r \in Rids |-> IF Active(r) THEN resv[r].sheets ELSE {}]

Abstract == INSTANCE SheetBilling

\* The run uses the quota the way SheetBilling promises: it bills only sheets it
\* holds, and what it does not bill it gives back.
BillsOnce == Abstract!Spec

=============================================================================
