------------------------------ MODULE Practice ------------------------------
(***************************************************************************)
(* Practice of one student on one knowledge point: photos of answers to    *)
(* the items of a practice sheet (routes/students.py), the task that       *)
(* grades each (services/practice_grading.py, worker.py), and the dates on *)
(* which the student's wrong questions of that point are due again         *)
(* (services/wrongbook_review.py).                                         *)
(*                                                                         *)
(* A request and a task read in one step and write in another.  No row is  *)
(* locked, and the ORM writes the columns that differ from what was read.  *)
(* A message is delivered again after a crash, and after an exception as   *)
(* often as the actor allows.                                              *)
(***************************************************************************)
EXTENDS Integers

CONSTANTS
  Items,       \* questions of the sheet
  Entries,     \* WrongQuestionEntry rows of the knowledge point, superseded or not
  Workers,
  Requests,    \* requests of the student that may be open at once
  NoTarget,
  MaxPhotos,   \* bound: photos sent in
  MaxCrashes,  \* bound: workers that die
  MaxReviews   \* bound: reviews the student enters

ASSUME NoTargetOutside == NoTarget \notin Items \cup Entries
ASSUME PracticeBounds == MaxPhotos \in Nat /\ MaxCrashes \in Nat /\ MaxReviews \in Nat

VARIABLES
  attempt,  \* PracticeSheetAttempt of each item
  queue,    \* messages
  job,      \* what each worker does
  book,     \* entries the student has not deleted
  review,   \* WrongQuestionReview of each entry
  req,      \* what open requests have read
  photos, crashes, reviews,
  moved,    \* history: <<photo, entry>> whose review the verdict has moved
  twice,    \* history: those it has moved more than once
  lost,     \* history: items whose message was given up
  unsent,   \* history: items whose message could not be sent
  crossed   \* history: items sent in while something was under way for them

practiceVars == <<attempt, queue, job, book, review, req, photos, crashes, reviews, moved, twice, lost, unsent, crossed>>

Verdicts == {"correct", "partial", "wrong"}

ReviewResults == {"again", "hard", "good", "easy"}

\* The result a verdict stands for.
ResultOf(v) == CASE v = "correct" -> "good" [] v = "partial" -> "hard" [] v = "wrong" -> "again"

\* of: the photo the verdict was read off.
Attempt == [status: {"none", "pending", "graded", "failed"}, photo: 0 .. MaxPhotos,
            verdict: Verdicts \cup {"none"}, of: 0 .. MaxPhotos]

NoAttempt == [status |-> "none", photo |-> 0, verdict |-> "none", of |-> 0]

\* The last index of INTERVAL_DAYS.
Top == 4

\* step is the index of interval_days, -1 without a row.
Review == [step: -1 .. Top, result: ReviewResults \cup {"none"}]

NoReview == [step |-> -1, result |-> "none"]

\* max_retries of the actor.
MaxTries == 2

Message == [item: Items, photo: 1 .. MaxPhotos, tries: 0 .. MaxTries]

\* msg is the message of a busy worker; entry and seen are the entry it reviews and that
\* entry's review; fresh: it has committed no review.
Job == [stage: {"grade", "list", "review"}, msg: Message, photo: 1 .. MaxPhotos,
        verdict: Verdicts \cup {"none"}, todo: SUBSET Entries, entry: Entries \cup {NoTarget},
        seen: Review, fresh: BOOLEAN]

NoJob == [stage |-> "idle"]

NoReq == [op |-> "none"]

Req == [op: {"submit"}, item: Items, photo: 1 .. MaxPhotos, was: Attempt]
       \cup [op: {"review"}, entry: Entries, seen: Review, result: ReviewResults]

PracticeInit ==
  /\ attempt = [i \in Items |-> NoAttempt]
  /\ queue = {}
  /\ job = [w \in Workers |-> NoJob]
  /\ book = Entries
  /\ review = [e \in Entries |-> NoReview]
  /\ req = [r \in Requests |-> NoReq]
  /\ photos = 0 /\ crashes = 0 /\ reviews = 0
  /\ moved = {} /\ twice = {} /\ lost = {} /\ unsent = {} /\ crossed = {}

Working(i) == (\E m \in queue : m.item = i) \/ \E w \in Workers : job[w] # NoJob /\ job[w].msg.item = i

(***************************************************************************)
(* The schedule of reviews                                                 *)
(***************************************************************************)

Least(a, b) == IF a < b THEN a ELSE b

\* Index -1 of a Python tuple is its last element.
NextStep(step, result) ==
  CASE result = "again" -> 0
    [] result = "hard" -> IF step = -1 THEN Top ELSE Least(step, Top)
    [] result = "good" -> Least(step + 1, Top)
    [] result = "easy" -> Least(step + 2, Top)

\* A column that is set to what was read keeps what has been written since.
Reviewed(now, seen, result) ==
  LET step == NextStep(seen.step, result)
  IN [step |-> IF step = seen.step THEN now.step ELSE step,
      result |-> IF result = seen.result THEN now.result ELSE result]

\* The entry, and with it its review, is gone; or the review is another's.
Conflict(e, seen) == e \notin book \/ (seen = NoReview /\ review[e] # NoReview)

(***************************************************************************)
(* Requests of the student                                                 *)
(***************************************************************************)

BeginSubmit(r, i) ==
  /\ req[r] = NoReq /\ photos < MaxPhotos
  /\ photos' = photos + 1
  /\ req' = [req EXCEPT ![r] = [op |-> "submit", item |-> i, photo |-> photos + 1, was |-> attempt[i]]]
  /\ UNCHANGED <<attempt, queue, job, book, review, crashes, reviews, moved, twice, lost, unsent, crossed>>

\* Mutant: what was found about the earlier photo stays.
SubmittedOver(now, was, p) ==
  [now EXCEPT !.photo = p, !.status = IF was.status = "none" THEN "pending" ELSE now.status]

Submitted(now, was, p) ==
  [now EXCEPT !.photo = p,
              !.status = IF was.status = "pending" THEN now.status ELSE "pending",
              !.verdict = IF was.verdict = "none" THEN now.verdict ELSE "none"]

\* Of two first photos of an item one fails at the unique key.
CommitSubmit(r, sent) ==
  LET i == req[r].item
      was == req[r].was
  IN /\ req[r].op = "submit"
     /\ was = NoAttempt => attempt[i] = NoAttempt
     /\ attempt' = [attempt EXCEPT ![i] = Submitted(attempt[i], was, req[r].photo)]
     /\ queue' = IF sent THEN queue \cup {[item |-> i, photo |-> req[r].photo, tries |-> 0]} ELSE queue
     /\ unsent' = IF sent THEN unsent ELSE unsent \cup {i}
     /\ crossed' = IF attempt[i] # was \/ was.status = "pending" \/ Working(i) THEN crossed \cup {i} ELSE crossed
     /\ req' = [req EXCEPT ![r] = NoReq]
     /\ UNCHANGED <<job, book, review, photos, crashes, reviews, moved, twice, lost>>

BeginReview(r, e, result) ==
  /\ req[r] = NoReq /\ reviews < MaxReviews
  /\ e \in book
  /\ reviews' = reviews + 1
  /\ req' = [req EXCEPT ![r] = [op |-> "review", entry |-> e, seen |-> review[e], result |-> result]]
  /\ UNCHANGED <<attempt, queue, job, book, review, photos, crashes, moved, twice, lost, unsent, crossed>>

CommitReview(r) ==
  LET e == req[r].entry
  IN /\ req[r].op = "review"
     /\ ~Conflict(e, req[r].seen)
     /\ review' = [review EXCEPT ![e] = Reviewed(@, req[r].seen, req[r].result)]
     /\ req' = [req EXCEPT ![r] = NoReq]
     /\ UNCHANGED <<attempt, queue, job, book, photos, crashes, reviews, moved, twice, lost, unsent, crossed>>

AbortRequest(r) ==
  /\ req[r] # NoReq
  /\ req' = [req EXCEPT ![r] = NoReq]
  /\ UNCHANGED <<attempt, queue, job, book, review, photos, crashes, reviews, moved, twice, lost, unsent, crossed>>

\* The review goes with its entry.
DropEntry(e) ==
  /\ e \in book
  /\ book' = book \ {e}
  /\ review' = [review EXCEPT ![e] = NoReview]
  /\ UNCHANGED <<attempt, queue, job, req, photos, crashes, reviews, moved, twice, lost, unsent, crossed>>

(***************************************************************************)
(* The task                                                                *)
(***************************************************************************)

Started(m) == [stage |-> "grade", msg |-> m, photo |-> attempt[m.item].photo, verdict |-> "none",
               todo |-> {}, entry |-> NoTarget, seen |-> NoReview, fresh |-> TRUE]

\* Mutant: an attempt that is answered is graded again.
TakeAny(w, m) ==
  /\ job[w] = NoJob /\ m \in queue
  /\ queue' = queue \ {m}
  /\ job' = [job EXCEPT ![w] = Started(m)]
  /\ UNCHANGED <<attempt, book, review, req, photos, crashes, reviews, moved, twice, lost, unsent, crossed>>

\* A message of an attempt that is not pending does nothing.
Take(w, m) ==
  /\ job[w] = NoJob /\ m \in queue
  /\ queue' = queue \ {m}
  /\ job' = IF attempt[m.item].status = "pending" THEN [job EXCEPT ![w] = Started(m)] ELSE job
  /\ UNCHANGED <<attempt, book, review, req, photos, crashes, reviews, moved, twice, lost, unsent, crossed>>

\* The photo stays the row's.
Grade(w, v) ==
  LET i == job[w].msg.item
  IN /\ job[w].stage = "grade"
     /\ attempt' = [attempt EXCEPT ![i].status = "graded", ![i].verdict = v, ![i].of = job[w].photo]
     /\ job' = [job EXCEPT ![w].stage = "list", ![w].verdict = v]
     /\ UNCHANGED <<queue, book, review, req, photos, crashes, reviews, moved, twice, lost, unsent, crossed>>

Fail(w) ==
  /\ attempt' = [attempt EXCEPT ![job[w].msg.item].status = "failed"]
  /\ job' = [job EXCEPT ![w] = NoJob]
  /\ UNCHANGED <<queue, book, review, req, photos, crashes, reviews, moved, twice, lost, unsent, crossed>>

\* Mutant: without the except branch.
GradeFailsSilently(w) ==
  /\ job[w].stage = "grade"
  /\ job' = [job EXCEPT ![w] = NoJob]
  /\ UNCHANGED <<attempt, queue, book, review, req, photos, crashes, reviews, moved, twice, lost, unsent, crossed>>

\* No answer is found on the photo, a model fails, or the photo is gone.
GradeFails(w) == job[w].stage = "grade" /\ Fail(w)

List(w) ==
  /\ job[w].stage = "list"
  /\ job' = [job EXCEPT ![w].stage = "review", ![w].todo = book]
  /\ UNCHANGED <<attempt, queue, book, review, req, photos, crashes, reviews, moved, twice, lost, unsent, crossed>>

\* After a commit the ORM reads the entry again.
Read(w, e) ==
  /\ job[w].stage = "review" /\ job[w].entry = NoTarget
  /\ e \in job[w].todo
  /\ job[w].fresh \/ e \in book
  /\ job' = [job EXCEPT ![w].todo = @ \ {e}, ![w].entry = e, ![w].seen = review[e]]
  /\ UNCHANGED <<attempt, queue, book, review, req, photos, crashes, reviews, moved, twice, lost, unsent, crossed>>

\* An entry that is gone by then fails the attempt, graded or not.
ReadFails(w, e) ==
  /\ job[w].stage = "review" /\ job[w].entry = NoTarget
  /\ e \in job[w].todo \ book /\ ~job[w].fresh
  /\ Fail(w)

Write(w) ==
  LET e == job[w].entry
      pair == <<job[w].photo, e>>
  IN /\ job[w].stage = "review" /\ e # NoTarget
     /\ ~Conflict(e, job[w].seen)
     /\ review' = [review EXCEPT ![e] = Reviewed(@, job[w].seen, ResultOf(job[w].verdict))]
     /\ moved' = moved \cup {pair}
     /\ twice' = IF pair \in moved THEN twice \cup {pair} ELSE twice
     /\ job' = [job EXCEPT ![w].entry = NoTarget, ![w].fresh = FALSE]
     /\ UNCHANGED <<attempt, queue, book, req, photos, crashes, reviews, lost, unsent, crossed>>

Finish(w) ==
  /\ job[w].stage = "review" /\ job[w].entry = NoTarget /\ job[w].todo = {}
  /\ job' = [job EXCEPT ![w] = NoJob]
  /\ UNCHANGED <<attempt, queue, book, review, req, photos, crashes, reviews, moved, twice, lost, unsent, crossed>>

\* An exception that leaves the task: the message is tried again, or given up.
Raise(w) ==
  LET m == job[w].msg
  IN /\ queue' = IF m.tries < MaxTries THEN queue \cup {[m EXCEPT !.tries = @ + 1]} ELSE queue
     /\ lost' = IF m.tries < MaxTries THEN lost ELSE lost \cup {m.item}
     /\ job' = [job EXCEPT ![w] = NoJob]
     /\ UNCHANGED <<attempt, book, review, req, photos, crashes, reviews, moved, twice, unsent, crossed>>

\* The session cannot write FAILED after a write that failed.
WriteFails(w) ==
  /\ job[w].stage = "review" /\ job[w].entry # NoTarget
  /\ Conflict(job[w].entry, job[w].seen)
  /\ Raise(w)

\* The time limit, which is no Exception, or a lost connection.
Interrupted(w) == job[w] # NoJob /\ Raise(w)

Crash(w) ==
  /\ job[w] # NoJob /\ crashes < MaxCrashes
  /\ crashes' = crashes + 1
  /\ queue' = queue \cup {job[w].msg}
  /\ job' = [job EXCEPT ![w] = NoJob]
  /\ UNCHANGED <<attempt, book, review, req, photos, reviews, moved, twice, lost, unsent, crossed>>

Work(w) ==
  \/ \E m \in queue : Take(w, m)
  \/ \E v \in Verdicts : Grade(w, v)
  \/ GradeFails(w)
  \/ List(w)
  \/ \E e \in Entries : Read(w, e) \/ ReadFails(w, e)
  \/ Write(w) \/ WriteFails(w) \/ Finish(w)

PracticeNext ==
  \/ \E r \in Requests : \/ \E i \in Items : BeginSubmit(r, i)
                         \/ \E sent \in BOOLEAN : CommitSubmit(r, sent)
                         \/ \E e \in Entries, result \in ReviewResults : BeginReview(r, e, result)
                         \/ CommitReview(r) \/ AbortRequest(r)
  \/ \E e \in Entries : DropEntry(e)
  \/ \E w \in Workers : Work(w) \/ Interrupted(w) \/ Crash(w)

PracticeSpec == PracticeInit /\ [][PracticeNext]_practiceVars

\* Workers that are not interrupted go on.
PracticeFairness == \A w \in Workers : WF_practiceVars(Work(w))

(***************************************************************************)
(* Properties                                                              *)
(***************************************************************************)

\* Rows, messages and jobs keep their shape.
PracticeTypeOK ==
  /\ attempt \in [Items -> Attempt]
  /\ queue \subseteq Message
  /\ job \in [Workers -> Job \cup {NoJob}]
  /\ book \subseteq Entries
  /\ review \in [Entries -> Review]
  /\ req \in [Requests -> Req \cup {NoReq}]
  /\ photos \in 0 .. MaxPhotos /\ crashes \in 0 .. MaxCrashes /\ reviews \in 0 .. MaxReviews
  /\ moved \subseteq (1 .. MaxPhotos) \X Entries /\ twice \subseteq moved
  /\ lost \subseteq Items /\ unsent \subseteq Items /\ crossed \subseteq Items

\* A verdict stands beside the photo it was read off, whatever is delivered again, fails
\* and is sent in again, as long as nothing is under way for an item when it
\* is sent in.
VerdictOfPhoto == \A i \in Items \ crossed : attempt[i].status = "graded" => attempt[i].of = attempt[i].photo

\* However often a message is delivered and wherever its task breaks off, a verdict moves the review of
\* an entry once, as long as nothing is under way for an item when it is sent in.
ReviewedOnce == crossed = {} => twice = {}

\* A photo whose message was sent gets a verdict or an error, or its message is given up
\* after all its tries.
Answered == \A i \in Items : attempt[i].status = "pending" ~> (attempt[i].status # "pending" \/ i \in lost \cup unsent)

(***************************************************************************)
(* Why they hold                                                           *)
(***************************************************************************)

Serves(w, i) == job[w] # NoJob /\ job[w].msg.item = i

\* What a worker knows goes with its stage.
JobsInOrder ==
  \A w \in Workers : job[w] # NoJob =>
    /\ job[w].entry \notin job[w].todo
    /\ job[w].stage \in {"grade", "list"} => job[w].entry = NoTarget
    /\ job[w].stage # "grade" => job[w].verdict \in Verdicts

\* A photo is sent in for one item; one that is about to be is nowhere yet.
PhotosApart ==
  /\ \A i \in Items : attempt[i].photo <= photos /\ (attempt[i].status = "pending" => attempt[i].photo # 0)
  /\ \A i, j \in Items : i # j /\ attempt[i].photo # 0 => attempt[j].photo # attempt[i].photo
  /\ \A w \in Workers : job[w] # NoJob => job[w].photo <= photos
  /\ \A x \in moved : x[1] <= photos
  /\ \A r \in Requests : req[r].op = "submit" =>
       /\ req[r].photo <= photos
       /\ \A i \in Items : attempt[i].photo # req[r].photo
       /\ \A w \in Workers : job[w] # NoJob => job[w].photo # req[r].photo
       /\ \A x \in moved : x[1] # req[r].photo
       /\ \A q \in Requests \ {r} : req[q].op = "submit" => req[q].photo # req[r].photo

\* An item that was never sent in across something under way has one message or one
\* worker, which has the photo of the row, and is pending no longer once it is graded.
OneAtATime ==
  \A i \in Items \ crossed :
    /\ \A m, n \in queue : m.item = i /\ n.item = i => m = n
    /\ \A w \in Workers : Serves(w, i) =>
         /\ \A m \in queue : m.item # i
         /\ \A x \in Workers : Serves(x, i) => x = w
         /\ job[w].photo = attempt[i].photo
         /\ job[w].stage # "grade" => attempt[i].status # "pending"

\* The verdict of a photo has moved no review before it is there, and then none of
\* those its worker has yet to write.
NotMovedYet ==
  crossed = {} =>
    /\ \A i \in Items, e \in Entries : attempt[i].status = "pending" => <<attempt[i].photo, e>> \notin moved
    /\ \A w \in Workers, e \in Entries :
         job[w] # NoJob /\ (job[w].stage = "review" => e \in job[w].todo \cup {job[w].entry})
           => <<job[w].photo, e>> \notin moved

\* The inductive invariant.
PracticeInv ==
  /\ PracticeTypeOK /\ JobsInOrder /\ PhotosApart /\ OneAtATime /\ NotMovedYet
  /\ VerdictOfPhoto /\ ReviewedOnce

=============================================================================
