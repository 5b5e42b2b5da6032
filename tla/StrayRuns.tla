----------------------------- MODULE StrayRuns -----------------------------
(***************************************************************************)
(* GradingRun with a history of what breaks the promises about a run that  *)
(* has ended, and the invariant that holds as long as nothing did.         *)
(***************************************************************************)
EXTENDS GradingRun

VARIABLE stray  \* history: one of the steps of Strays was taken

Pending(i) == item[i].st \in {"queued", "extracting"}

\* No further execution picks the item up: it has failed, or the write of its last
\* result did.
Spent(i) == item[i].st = "failed" \/ (Pending(i) /\ item[i].tries = MaxTries)

Strays ==
  \/ run.status # "absent" /\ exam' # exam                       \* a late sheet
  \/ resv' # resv /\ UNCHANGED run                               \* the reconciliation
  \/ run.status # "queued" /\ \E w \in Workers : worker[w].pc = "checked" /\ worker'[w].pc = "loading"
  \/ run.status \notin Retryable /\ client' # client /\ run' # run           \* a stale retry
  \/ run.status = "running" /\ run'.status = "failed" /\ \E i \in Items : Spent(i)'

StrayInit == Init /\ stray = FALSE

StrayNext == Next /\ stray' = (stray \/ Strays)

StraySpec == StrayInit /\ [][StrayNext]_<<vars, stray>>

\* However often a run fails, with results or without, and is retried, its quota and its
\* grades are as its result says once it has ended, unless a sheet came late, the
\* reservation timed out, an ended run was executed again, a retry went by a status that
\* had changed, or an exception ended an execution that had used up an item's attempts.
EndedIsSettled == ~stray => EndedHoldsNothing /\ CompletedIsBilled

-----------------------------------------------------------------------------
\* The inductive invariant behind EndedIsSettled.

Open == {"queued", "running"}

\* Before create_run there is nothing.
NothingYet ==
  run.status = "absent" =>
    /\ \A r \in Rids : resv[r].status = "none"
    /\ \A i \in Items : item[i].st = "absent"

\* An execution works on the run as the row has it.
ThreadsFollow ==
  \A w \in Workers : Executing(w) =>
    run.status = "running" /\ worker[w].rid = run.rid /\ worker[w].sel = run.sel

\* The run's own reservation is the only active one, until the run ends, and
\* with what was billed before it covers every sheet of the run.
QuotaFollows ==
  /\ run.status # "absent" => run.rid \in Rids /\ resv[run.rid].status # "none"
  /\ \A r \in Rids : Active(r) => r = run.rid /\ run.status \in Open
  /\ run.status \in Open =>
       Active(run.rid) /\ Selected(run.sel) \subseteq billed \cup resv[run.rid].sheets

\* The items are those of the run; a result leaves none pending and charges what
\* is graded; a run that is to be executed has no failed item.
ItemsFollow ==
  /\ \A i \in Items : item[i].st # "absent" => i[1] \in Selected(run.sel)
  /\ \A i \in Items : Pending(i) => item[i].tries < MaxTries
  /\ run.status \in {"completed", "with_errors"} =>
       /\ \A i \in ItemsOf(Selected(run.sel)) : item[i].st \in {"graded", "failed"}
       /\ \A s \in Sheets : FullyGraded(s) => s \in billed
  /\ run.status \in {"queued", "failed", "completed"} => FailedItems = {}

\* What an execution knows of the items.
WorkFollows ==
  \A w \in Workers :
    /\ worker[w].pc = "loading" => FailedItems = {}
    /\ worker[w].pc = "grading" =>
         /\ worker[w].subs = Selected(run.sel)
         /\ \A i \in ItemsOf(worker[w].subs) : item[i].st # "absent"
         /\ \A i \in Items : Pending(i) => worker[w].left[i] > 0
         /\ \A i \in Items : worker[w].left[i] > 0 => Pending(i)
         /\ worker[w].bad = FailedItems
         /\ ~worker[w].looped => FailedItems = {}

Straight == NothingYet /\ ThreadsFollow /\ QuotaFollows /\ ItemsFollow /\ WorkFollows

StrayInv == IInv /\ stray \in BOOLEAN /\ (~stray => Straight)

=============================================================================
