----------------------------- MODULE ScoreBook -----------------------------
(***************************************************************************)
(* The scores of one exam and what students keep of them: the annotation   *)
(* of an answer, which models and teachers write (routes/exams.py,         *)
(* services/grading_workflow.py), its releases (routes/grading.py), the    *)
(* wrong-question book a task copies each release into                     *)
(* (services/wrongbook.py), and the accounts that claim its entries        *)
(* (routes/classes.py, services/learner_identity.py).                      *)
(*                                                                         *)
(* A session is a request or a task that reads in one step and writes in   *)
(* another: no row is locked, and the ORM writes the columns that differ   *)
(* from what was read.  Publication locks the exam and reads nothing it    *)
(* writes from elsewhere, so it is one step.  The exam has one question,   *)
(* and a sheet at most one annotation.                                     *)
(***************************************************************************)
EXTENDS Naturals

CONSTANTS
  Sheets,       \* answer sheets
  Students,     \* Student rows of the school
  Users,        \* student accounts
  Scores,
  Sessions,
  NoOne, NoScore,
  MaxReleases,  \* bound: releases of the exam
  MaxWrites,    \* bound: writes of annotations
  MaxTasks,     \* bound: executions of the snapshot task
  MaxBinds      \* bound: accounts bound

ASSUME SheetsExist == Sheets # {}
ASSUME Outside == NoOne \notin Students \cup Users /\ NoScore \notin Scores
ASSUME BoundsNat == MaxReleases \in Nat /\ MaxWrites \in Nat /\ MaxTasks \in Nat /\ MaxBinds \in Nat

VARIABLES
  name,      \* the student written on each sheet
  pupils,    \* Student rows that are there
  note,      \* SubmissionAnnotation of each sheet
  released,  \* ScoreRelease rows so far, the newest version
  status,    \* their status
  item,      \* their ScoreReleaseItem rows
  entry,     \* WrongQuestionEntry rows of each release
  bound,     \* Student.user_id
  learners,  \* accounts with a LearnerProfile
  enrolled,  \* LearnerEnrollment rows
  tx,        \* what sessions have read and not yet written
  writes, tasks, binds,
  was,       \* history: accounts that were bound to a student at some time
  overtaken, \* history: a release was published while an older one was being copied
  late       \* history: sheets with a model's result that came after a release or crossed another write

vars == <<name, pupils, note, released, status, item, entry, bound, learners, enrolled, tx,
          writes, tasks, binds, was, overtaken, late>>

Versions == 1 .. MaxReleases

\* row counts the annotations there have been; model is model_score, whose points
\* grading_evidence lists.
Note == [row: Nat, there: BOOLEAN, score: Scores \cup {NoScore}, source: {"none", "auto", "human"},
         review: BOOLEAN, model: Scores \cup {NoScore}]

NoNote == [row |-> 0, there |-> FALSE, score |-> NoScore, source |-> "none", review |-> FALSE, model |-> NoScore]

\* row is the annotation's, 0 if the sheet had none.
Item == [row: Nat, score: Scores \cup {NoScore}, source: {"suggested", "human"}]

NoItem == [row |-> 0, score |-> NoScore, source |-> "suggested"]

\* missed: the score whose missed points the student is shown.
Entry == [status: {"none", "active", "superseded", "deleted"}, name: Students \cup {NoOne},
          user: Users \cup {NoOne}, learner: Users \cup {NoOne},
          score: Scores \cup {NoScore}, missed: Scores \cup {NoScore}]

NoEntry == [status |-> "none", name |-> NoOne, user |-> NoOne, learner |-> NoOne,
            score |-> NoScore, missed |-> NoScore]

Tx == [op: {"none", "edit", "grade", "check", "copy", "visit", "bind"}, sheet: Sheets, seen: Note, want: Note,
       version: 0 .. MaxReleases, old: SUBSET (Versions \X Sheets), page: [Sheets -> Entry],
       user: Users \cup {NoOne}, student: Students \cup {NoOne}, roll: SUBSET Students,
       profile: BOOLEAN, stay: BOOLEAN]

NoTx == [op |-> "none", sheet |-> CHOOSE s \in Sheets : TRUE, seen |-> NoNote, want |-> NoNote,
         version |-> 0, old |-> {}, page |-> [s \in Sheets |-> NoEntry],
         user |-> NoOne, student |-> NoOne, roll |-> {}, profile |-> FALSE, stay |-> FALSE]

Init ==
  /\ name \in [Sheets -> Students \cup {NoOne}]
  /\ pupils = Students
  /\ note = [s \in Sheets |-> NoNote]
  /\ released = 0
  /\ status = [v \in Versions |-> "none"]
  /\ item = [v \in Versions |-> [s \in Sheets |-> NoItem]]
  /\ entry = [v \in Versions |-> [s \in Sheets |-> NoEntry]]
  /\ bound = [c \in Students |-> NoOne]
  /\ learners = {} /\ enrolled = {}
  /\ tx = [t \in Sessions |-> NoTx]
  /\ writes = 0 /\ tasks = 0 /\ binds = 0
  /\ was = {} /\ overtaken = FALSE /\ late = {}

\* A row's reference to a student is emptied when the student is deleted.
Linked(c) == IF c \in pupils THEN c ELSE NoOne

Ends(t) == tx' = [tx EXCEPT ![t] = NoTx]

(***************************************************************************)
(* Annotations                                                             *)
(***************************************************************************)

\* A score, cleared or repeated beside a new comment.
Edited(n, score) == [n EXCEPT !.score = score, !.source = "human", !.review = FALSE]

\* A sheet without annotation gets a new one.
Found(n) == IF n.there THEN n ELSE [NoNote EXCEPT !.row = n.row + 1, !.there = TRUE]

Graded(n, score, review) == [n EXCEPT !.score = score, !.source = "auto", !.review = review, !.model = score]

\* A grade; evidence the models could not agree on, which leaves the score alone; a
\* last attempt that failed, and one that will be repeated.
Results(n) ==
  {Graded(Found(n), s, r) : s \in Scores, r \in BOOLEAN}
  \cup {[Found(n) EXCEPT !.review = TRUE, !.model = NoScore], [Found(n) EXCEPT !.review = TRUE], Found(n)}

BeginEdit(t, s, score) ==
  /\ tx[t].op = "none" /\ writes < MaxWrites
  /\ note[s].there
  /\ tx' = [tx EXCEPT ![t] = [NoTx EXCEPT !.op = "edit", !.sheet = s, !.seen = note[s],
                                          !.want = Edited(note[s], score)]]
  /\ writes' = writes + 1
  /\ UNCHANGED <<name, pupils, note, released, status, item, entry, bound, learners, enrolled,
                 tasks, binds, was, overtaken, late>>

BeginGrade(t, s, want) ==
  /\ tx[t].op = "none" /\ writes < MaxWrites
  /\ tx' = [tx EXCEPT ![t] = [NoTx EXCEPT !.op = "grade", !.sheet = s, !.seen = note[s], !.want = want]]
  /\ writes' = writes + 1
  /\ UNCHANGED <<name, pupils, note, released, status, item, entry, bound, learners, enrolled,
                 tasks, binds, was, overtaken, late>>

\* A column that is set to what was read keeps what has been written since.
Merged(now, seen, want) ==
  [row |-> want.row, there |-> TRUE,
   score |-> IF want.score = seen.score THEN now.score ELSE want.score,
   source |-> IF want.source = seen.source THEN now.source ELSE want.source,
   review |-> IF want.review = seen.review THEN now.review ELSE want.review,
   model |-> IF want.model = seen.model THEN now.model ELSE want.model]

\* An annotation deleted since then makes the request fail.
CommitNote(t) ==
  LET s == tx[t].sheet
      crossed == \E u \in Sessions \ {t} : tx[u].op \in {"edit", "grade"} /\ tx[u].sheet = s
  IN /\ tx[t].op \in {"edit", "grade"}
     /\ note[s].row = tx[t].seen.row /\ note[s].there = tx[t].seen.there
     /\ note' = [note EXCEPT ![s] = Merged(note[s], tx[t].seen, tx[t].want)]
     /\ late' = IF crossed \/ (tx[t].op = "grade" /\ released > 0) THEN late \cup {s} ELSE late
     /\ Ends(t)
     /\ UNCHANGED <<name, pupils, released, status, item, entry, bound, learners, enrolled,
                    writes, tasks, binds, was, overtaken>>

\* The items of releases forget it.
DeleteNote(s) ==
  /\ note[s].there
  /\ note' = [note EXCEPT ![s] = [NoNote EXCEPT !.row = note[s].row]]
  /\ UNCHANGED <<name, pupils, released, status, item, entry, bound, learners, enrolled, tx,
                 writes, tasks, binds, was, overtaken, late>>

(***************************************************************************)
(* Releases                                                                *)
(***************************************************************************)

\* The sheets of one student, by what is written on them.
Group(s) == IF name[s] = NoOne THEN {s} ELSE {h \in Sheets : name[h] = name[s]}

Released(s) ==
  IF note[s].there THEN [row |-> note[s].row, score |-> note[s].score,
                         source |-> IF note[s].source = "human" THEN "human" ELSE "suggested"]
  ELSE NoItem

\* Nothing waits for a review, and every student has a score.
Publish ==
  /\ released < MaxReleases
  /\ \A s \in Sheets : note[s].there => ~note[s].review \/ note[s].source = "human"
  /\ \A s \in Sheets : \E h \in Group(s) : note[h].there /\ note[h].score # NoScore
  /\ released' = released + 1
  /\ status' = [v \in Versions |-> IF v = released + 1 THEN "published"
                                   ELSE IF v = released THEN "superseded" ELSE status[v]]
  /\ item' = [item EXCEPT ![released + 1] = [s \in Sheets |-> Released(s)]]
  /\ overtaken' = (overtaken \/ \E t \in Sessions : tx[t].op \in {"check", "copy"})
  /\ UNCHANGED <<name, pupils, note, entry, bound, learners, enrolled, tx, writes, tasks, binds, was, late>>

(***************************************************************************)
(* The wrong-question book                                                 *)
(***************************************************************************)

Written(v) == \E s \in Sheets : entry[v][s].status # "none"

There(v, s) == entry[v][s].status \in {"active", "superseded"}

\* Mutant: whatever has become of the release.
BeginCopyAny(t, v) ==
  /\ tx[t].op = "none" /\ tasks < MaxTasks
  /\ v <= released /\ \A s \in Sheets : ~There(v, s)
  /\ tx' = [tx EXCEPT ![t] = [NoTx EXCEPT !.op = "check", !.version = v]]
  /\ tasks' = tasks + 1
  /\ UNCHANGED <<name, pupils, note, released, status, item, entry, bound, learners, enrolled,
                 writes, binds, was, overtaken, late>>

\* An execution for release v, which checks that it is the published one and has no
\* entries: its message, however late and often it comes, or the request itself
\* when sending fails, which takes no lock.
BeginCopy(t, v) ==
  /\ tx[t].op = "none" /\ tasks < MaxTasks
  /\ status[v] = "published"
  /\ \A s \in Sheets : ~There(v, s)
  /\ tx' = [tx EXCEPT ![t] = [NoTx EXCEPT !.op = "check", !.version = v]]
  /\ tasks' = tasks + 1
  /\ UNCHANGED <<name, pupils, note, released, status, item, entry, bound, learners, enrolled,
                 writes, binds, was, overtaken, late>>

\* Mutant: also where the teacher gave another score than the model.
MissedAlways(i, n) == IF n.there /\ n.row = i.row THEN n.model ELSE NoScore

\* The points of the model's grade are not shown where the teacher gave another score.
Missed(i, n) ==
  IF n.there /\ n.row = i.row /\ ~(i.source = "human" /\ n.model # NoScore /\ i.score # NoScore /\ i.score # n.model)
  THEN n.model ELSE NoScore

\* The account of a student, and its profile, when the book is written.
Copied(v, s) ==
  LET user == IF Linked(name[s]) = NoOne THEN NoOne ELSE bound[name[s]]
  IN IF item[v][s].row = 0 THEN NoEntry
     ELSE [status |-> "active", name |-> name[s], user |-> user,
           learner |-> IF user \in learners THEN user ELSE NoOne,
           score |-> item[v][s].score, missed |-> Missed(item[v][s], note[s])]

\* The active entries of all other releases are collected, and everything else is read.
ReadCopy(t) ==
  LET v == tx[t].version
  IN /\ tx[t].op = "check"
     /\ tx' = [tx EXCEPT ![t].op = "copy",
                         ![t].old = {p \in Versions \X Sheets : p[1] # v /\ entry[p[1]][p[2]].status = "active"},
                         ![t].page = [s \in Sheets |-> Copied(v, s)],
                         ![t].roll = {name[s] : s \in Sheets} \cap pupils]
     /\ UNCHANGED <<name, pupils, note, released, status, item, entry, bound, learners, enrolled,
                    writes, tasks, binds, was, overtaken, late>>

\* The questions' snapshots stay when entries are deleted, and are unique.
Fresh(v) == ~Written(v)

\* A student or an entry that is gone makes the task fail.
CommitCopy(t) ==
  LET v == tx[t].version
      After(w, s) == IF w = v THEN (IF tx[t].page[s].status = "none" THEN entry[w][s] ELSE tx[t].page[s])
                     ELSE IF <<w, s>> \in tx[t].old THEN [entry[w][s] EXCEPT !.status = "superseded"]
                     ELSE entry[w][s]
  IN /\ tx[t].op = "copy"
     /\ Fresh(v)
     /\ \A p \in tx[t].old : There(p[1], p[2])
     /\ tx[t].roll \subseteq pupils
     /\ entry' = [w \in Versions |-> [s \in Sheets |-> After(w, s)]]
     /\ Ends(t)
     /\ UNCHANGED <<name, pupils, note, released, status, item, bound, learners, enrolled,
                    writes, tasks, binds, was, overtaken, late>>

(***************************************************************************)
(* Students and their accounts                                             *)
(***************************************************************************)

\* A sheet given to another student.
Reassign(s, c) ==
  /\ c \in pupils /\ name[s] # c
  /\ name' = [name EXCEPT ![s] = c]
  /\ UNCHANGED <<pupils, note, released, status, item, entry, bound, learners, enrolled, tx,
                 writes, tasks, binds, was, overtaken, late>>

DeleteStudent(c) ==
  /\ c \in pupils
  /\ pupils' = pupils \ {c}
  /\ bound' = [bound EXCEPT ![c] = NoOne]
  /\ UNCHANGED <<name, note, released, status, item, entry, learners, enrolled, tx,
                 writes, tasks, binds, was, overtaken, late>>

\* No other student has the account.
BeginBind(t, c, u) ==
  /\ tx[t].op = "none" /\ binds < MaxBinds
  /\ c \in pupils /\ bound[c] # u
  /\ \A d \in pupils \ {c} : bound[d] # u
  /\ tx' = [tx EXCEPT ![t] = [NoTx EXCEPT !.op = "bind", !.student = c, !.user = u]]
  /\ binds' = binds + 1
  /\ UNCHANGED <<name, pupils, note, released, status, item, entry, bound, learners, enrolled,
                 writes, tasks, was, overtaken, late>>

CommitBind(t) ==
  /\ tx[t].op = "bind"
  /\ tx[t].student \in pupils
  /\ bound' = [bound EXCEPT ![tx[t].student] = tx[t].user]
  /\ was' = was \cup {<<tx[t].user, tx[t].student>>}
  /\ Ends(t)
  /\ UNCHANGED <<name, pupils, note, released, status, item, entry, learners, enrolled,
                 writes, tasks, binds, overtaken, late>>

Unbind(c) ==
  /\ c \in pupils /\ bound[c] # NoOne
  /\ bound' = [bound EXCEPT ![c] = NoOne]
  /\ UNCHANGED <<name, pupils, note, released, status, item, entry, learners, enrolled, tx,
                 writes, tasks, binds, was, overtaken, late>>

\* Mutant: of anybody's stays at the school.
OrphansOfAll(u, c) ==
  {p \in Versions \X Sheets :
     LET e == entry[p[1]][p[2]]
     IN /\ There(p[1], p[2]) /\ e.learner = NoOne
        /\ e.user = u \/ (Linked(e.name) # NoOne /\ \E w \in Users : <<w, e.name>> \in enrolled \cup {<<u, c>>})}

\* Entries nobody has claimed, of the account or of a student it has been.
Orphans(u, c) ==
  {p \in Versions \X Sheets :
     LET e == entry[p[1]][p[2]]
     IN /\ There(p[1], p[2]) /\ e.learner = NoOne
        /\ e.user = u \/ (Linked(e.name) # NoOne /\ <<u, e.name>> \in enrolled \cup {<<u, c>>})}

\* A page a student opens, with the student the account is bound to (NoOne: none); a
\* visit with nothing to write is left out.
BeginVisit(t, u, c) ==
  /\ tx[t].op = "none"
  /\ IF c = NoOne THEN \A d \in pupils : bound[d] # u ELSE c \in pupils /\ bound[c] = u
  /\ u \notin learners \/ Orphans(u, c) # {} \/ (c # NoOne /\ <<u, c>> \notin enrolled)
  /\ tx' = [tx EXCEPT ![t] = [NoTx EXCEPT !.op = "visit", !.user = u, !.student = c,
                                          !.old = Orphans(u, c), !.profile = (u \in learners),
                                          !.stay = (<<u, c>> \in enrolled)]]
  /\ UNCHANGED <<name, pupils, note, released, status, item, entry, bound, learners, enrolled,
                 writes, tasks, binds, was, overtaken, late>>

\* A profile, a stay or an entry written or deleted meanwhile makes the request fail; one
\* that another account has claimed does not.
CommitVisit(t) ==
  LET u == tx[t].user
      c == tx[t].student
  IN /\ tx[t].op = "visit"
     /\ tx[t].profile = (u \in learners)
     /\ c # NoOne => c \in pupils /\ tx[t].stay = (<<u, c>> \in enrolled)
     /\ \A p \in tx[t].old : There(p[1], p[2])
     /\ learners' = learners \cup {u}
     /\ enrolled' = IF c = NoOne THEN enrolled ELSE enrolled \cup {<<u, c>>}
     /\ entry' = [v \in Versions |-> [s \in Sheets |->
          IF <<v, s>> \in tx[t].old THEN [entry[v][s] EXCEPT !.learner = u] ELSE entry[v][s]]]
     /\ Ends(t)
     /\ UNCHANGED <<name, pupils, note, released, status, item, bound, writes, tasks, binds, was, overtaken, late>>

\* A student deletes an entry from the book.
DeleteEntry(v, s) ==
  /\ There(v, s) /\ entry[v][s].learner # NoOne
  /\ entry' = [entry EXCEPT ![v] = [entry[v] EXCEPT ![s] = [NoEntry EXCEPT !.status = "deleted"]]]
  /\ UNCHANGED <<name, pupils, note, released, status, item, bound, learners, enrolled, tx,
                 writes, tasks, binds, was, overtaken, late>>

\* A unique or foreign key, a row that is gone, a lost process.
Abort(t) ==
  /\ tx[t].op # "none"
  /\ Ends(t)
  /\ UNCHANGED <<name, pupils, note, released, status, item, entry, bound, learners, enrolled,
                 writes, tasks, binds, was, overtaken, late>>

Next ==
  \/ Publish
  \/ \E t \in Sessions :
       \/ \E s \in Sheets : \/ \E score \in Scores \cup {NoScore} : BeginEdit(t, s, score)
                            \/ \E want \in Results(note[s]) : BeginGrade(t, s, want)
       \/ \E v \in Versions : BeginCopy(t, v)
       \/ \E c \in Students, u \in Users : BeginBind(t, c, u)
       \/ \E u \in Users, c \in Students \cup {NoOne} : BeginVisit(t, u, c)
       \/ CommitNote(t) \/ ReadCopy(t) \/ CommitCopy(t) \/ CommitBind(t) \/ CommitVisit(t) \/ Abort(t)
  \/ \E s \in Sheets : \/ DeleteNote(s)
                       \/ \E c \in Students : Reassign(s, c)
                       \/ \E v \in Versions : DeleteEntry(v, s)
  \/ \E c \in Students : DeleteStudent(c) \/ Unbind(c)

Spec == Init /\ [][Next]_vars

(***************************************************************************)
(* Properties                                                              *)
(***************************************************************************)

TypeOK ==
  /\ name \in [Sheets -> Students \cup {NoOne}] /\ pupils \subseteq Students
  /\ note \in [Sheets -> Note]
  /\ released \in 0 .. MaxReleases
  /\ status \in [Versions -> {"none", "published", "superseded"}]
  /\ item \in [Versions -> [Sheets -> Item]]
  /\ entry \in [Versions -> [Sheets -> Entry]]
  /\ bound \in [Students -> Users \cup {NoOne}]
  /\ learners \subseteq Users /\ enrolled \subseteq Users \X Students
  /\ tx \in [Sessions -> Tx]
  /\ writes \in Nat /\ tasks \in Nat /\ binds \in Nat
  /\ was \subseteq Users \X Students /\ overtaken \in BOOLEAN /\ late \subseteq Sheets

\* Students see the newest scores: one release is published, the newest, and however late,
\* often and out of order the snapshot messages come, no older release has active
\* entries once a newer one is in the book, as long as no release was published
\* while an older one was being copied.
NewestOnly ==
  /\ \A v \in Versions : status[v] = "published" <=> (v = released /\ v > 0)
  /\ ~overtaken => \A v, w \in Versions : v < w /\ Written(w) => \A s \in Sheets : entry[v][s].status # "active"

\* However often the students of a sheet and their accounts change, an entry goes to an account that was
\* bound to the student who was on the sheet when the entry was written.
NobodyElses ==
  \A v \in Versions, s \in Sheets :
    entry[v][s].learner # NoOne => <<entry[v][s].learner, entry[v][s].name>> \in was

\* The points a student is shown as missed are those of the score beside them, or none, whatever
\* teachers change before and after the release, as long as no model's result comes
\* after a release and no two writes of the annotation cross.
PointsMatch ==
  \A v \in Versions, s \in Sheets :
    s \notin late /\ entry[v][s].score # NoScore => entry[v][s].missed \in {NoScore, entry[v][s].score}

\* An entry a student has deleted does not come back when its snapshot is written
\* again by a message that is delivered again.
DeletedStays ==
  [][\A v \in Versions, s \in Sheets : entry[v][s].status = "deleted" => entry'[v][s] = entry[v][s]]_vars

=============================================================================
