----------------------------- MODULE AnswerKey -----------------------------
(***************************************************************************)
(* The answer key of one exam (routes/questions_answers.py,                *)
(* services/question_answer_workflow.py, routes/exams.py): questions that  *)
(* teachers confirm from a recognition run, answers a preparation run      *)
(* proposes, the revisions a teacher's confirmation makes of them, their   *)
(* publication, and one grading run of one sheet that locks the revisions  *)
(* in force when it is created (routes/grading.py) and grades by them      *)
(* (services/grading_workflow.py) while teachers go on editing.            *)
(*                                                                         *)
(* What an answer says is one value, a body.  No row is locked: editing    *)
(* and confirming what a run proposes, publishing, deleting an answer and  *)
(* grading read in one step and write in another, and the ORM writes the   *)
(* columns that differ from what was read.                                 *)
(* What the models return and what teachers type is any body.  The columns *)
(* that publication copies from a revision into the answer's own row are   *)
(* left out: grading reads the revision.                                   *)
(***************************************************************************)
EXTENDS Naturals, Sequences, FiniteSets

CONSTANTS
  Keys,       \* question keys
  Regions,    \* regions of the paper, also those not drawn yet
  Bodies,     \* what an answer may say: its text, points and rubric
  Preps,      \* answer preparation runs
  Loose,      \* items of a run that match no question at first
  Teachers,   \* requests in progress that read and write in two steps
  NoKey, NoBody, NoRegion, NoPrep,
  MaxRevs,    \* bound: revisions of one answer
  MaxRows,    \* bound: answer rows made for one question
  MaxSheets,  \* bound: confirmed recognition runs
  MaxRedo     \* bound: redelivered messages of one preparation run

ASSUME Outside == NoKey \notin Keys /\ NoRegion \notin Regions /\ NoBody \notin Bodies /\ NoPrep \notin Preps
ASSUME BoundsNat == MaxRevs \in Nat /\ MaxRows \in Nat /\ MaxSheets \in Nat /\ MaxRedo \in Nat

VARIABLES
  regions,   \* ExamRegion rows
  at,        \* the regions of each confirmed question, in order; <<>> also before it is confirmed
  known,     \* confirmed ExamQuestion rows
  recognised,    \* confirmed recognition runs so far
  prep,      \* AnswerPreparationRun with its items
  answer,    \* StandardAnswer of each question
  manual,    \* regions with an answer typed in by hand, which belongs to no question
  revs,      \* StandardAnswerRevision rows of the question's answer, by number
  request,        \* requests that have read and not yet written
  run,       \* the grading run, its items and what its workers hold
  moved      \* history: a question's first region changed after the run had made items

keyVars == <<regions, at, known, recognised, prep, answer, manual, revs, request, run, moved>>

Slots == Keys \cup Loose

\* An item is matched when it names a question, is marked so and is complete: what an
\* open one says is forgotten, as an edit may say anything.
Item == [key: Keys \cup {NoKey}, status: {"none", "open", "matched", "confirmed"}, body: Bodies \cup {NoBody}]

NoItem == [key |-> NoKey, status |-> "none", body |-> NoBody]

\* asks: the questions an execution has read.  crossed is history: an edit was written
\* while or after the run was confirmed.
Prep == [status: {"none", "queued", "running", "completed", "partial", "failed"}, confirmed: BOOLEAN,
         crossed: BOOLEAN, redo: 0 .. MaxRedo, asks: SUBSET Keys, item: [Slots -> Item]]

\* The row of a question; row counts the rows there have been, region is where
\* it hangs, current the number of the revision in force.
Answer == [row: 0 .. MaxRows, region: Regions \cup {NoRegion}, current: 0 .. MaxRevs]

Rev == [status: {"draft", "published"}, body: Bodies, prep: Preps]

\* A revision's identity: its question, the answer row it dies with, its number.
Id == [key: Keys \cup {NoKey}, row: 0 .. MaxRows, number: 0 .. MaxRevs]

NoId == [key |-> NoKey, row |-> 0, number |-> 0]

\* item: what a confirmation or an edit has read; to: the question an edit asks for.
Request == [op: {"none", "edit", "confirm", "publish", "delete"}, prep: Preps \cup {NoPrep},
       item: [Slots -> Item], to: Keys \cup {NoKey}, pick: [Keys -> 0 .. MaxRevs], seen: [Keys -> Id]]

NoAnswer == [row |-> 0, region |-> NoRegion, current |-> 0]

NoRequest == [op |-> "none", prep |-> NoPrep, item |-> [s \in Slots |-> NoItem], to |-> NoKey,
         pick |-> [k \in Keys |-> 0], seen |-> [k \in Keys |-> NoId]]

Grading == [key: Keys \cup {NoKey}, rev: Id, status: {"none", "queued", "graded", "failed"},
            body: Bodies \cup {NoBody}]

NoGrading == [key |-> NoKey, rev |-> NoId, status |-> "none", body |-> NoBody]

\* lock is config_snapshot.answer_revision_ids; promised remembers what those
\* revisions said; work is the answer each submitted item carries.
Run == [status: {"none", "queued", "running", "done", "errors", "failed"}, lock: [Keys -> Id],
        promised: [Keys -> Bodies \cup {NoBody}], item: [Regions -> Grading],
        work: [Regions -> Bodies \cup {NoBody}]]

KeyInit ==
  /\ regions = {} /\ at = [k \in Keys |-> <<>>] /\ known = {} /\ recognised = 0
  /\ prep = [p \in Preps |-> [status |-> "none", confirmed |-> FALSE, crossed |-> FALSE,
                              redo |-> 0, asks |-> {}, item |-> [s \in Slots |-> NoItem]]]
  /\ answer = [k \in Keys |-> NoAnswer]
  /\ manual = {}
  /\ revs = [k \in Keys |-> <<>>]
  /\ request = [t \in Teachers |-> NoRequest]
  /\ run = [status |-> "none", lock |-> [k \in Keys |-> NoId], promised |-> [k \in Keys |-> NoBody],
            item |-> [r \in Regions |-> NoGrading], work |-> [r \in Regions |-> NoBody]]
  /\ moved = FALSE

Exists(k) == answer[k].region # NoRegion

IdOf(k, n) == IF n = 0 THEN NoId ELSE [key |-> k, row |-> answer[k].row, number |-> n]

Current(k) == IdOf(k, answer[k].current)

\* The answer row that revision id of question k hangs on is still the question's.
RowStands(k, id) == Exists(k) /\ answer[k].row = id.row

\* The revision is there, is one of the question's, and published.
InForce(k, id) ==
  /\ id.key = k /\ Exists(k) /\ id.row = answer[k].row
  /\ id.number \in DOMAIN revs[k]
  /\ revs[k][id.number].status = "published"

(***************************************************************************)
(* Questions                                                               *)
(***************************************************************************)

\* Regions of a question, first the primary one.
Places == {s \in [1 .. 1 -> Regions] \cup [1 .. 2 -> Regions] : Len(s) = 2 => s[1] # s[2]}

Rng(s) == {s[i] : i \in DOMAIN s}

\* What is left of them when region r goes: one at most.
Without(s, r) ==
  IF r \notin Rng(s) THEN s
  ELSE IF Rng(s) = {r} THEN <<>> ELSE <<CHOOSE q \in Rng(s) : q # r>>

Primary(s) == IF s = <<>> THEN NoRegion ELSE s[1]

HasItems == \E r \in Regions : run.item[r].status # "none"

\* The items of a run, edited at will, are confirmed in their order in one
\* transaction: a question that is there is overwritten, its regions replaced, and a
\* region that another question has at that moment refuses the whole request.
\* Regions an item does not name are drawn anew.
ConfirmSheet(ks, place) ==
  /\ recognised < MaxSheets
  /\ ks # {}
  /\ \A k \in ks : Rng(place[k]) \subseteq regions \/ Rng(place[k]) \cap regions = {}
  /\ \A k, j \in ks : k # j => Rng(place[k]) \cap Rng(place[j]) = {}
  /\ \E turn \in [ks -> 1 .. Cardinality(ks)] :
       /\ \A k, j \in ks : k # j => turn[k] # turn[j]
       /\ \A k \in ks : \A j \in Keys \ {k} :
            (j \notin ks \/ turn[k] < turn[j]) => Rng(place[k]) \cap Rng(at[j]) = {}
  /\ at' = [k \in Keys |-> IF k \in ks THEN place[k] ELSE at[k]]
  /\ known' = known \cup ks
  /\ regions' = regions \cup UNION {Rng(place[k]) : k \in ks}
  /\ recognised' = recognised + 1
  /\ moved' = (moved \/ (HasItems /\ \E k \in ks : Primary(place[k]) # Primary(at[k])))
  /\ UNCHANGED <<prep, answer, manual, revs, request, run>>

CreateRegion(r) ==
  /\ r \notin regions
  /\ regions' = regions \cup {r}
  /\ UNCHANGED <<at, known, recognised, prep, answer, manual, revs, request, run, moved>>

\* Foreign keys: an answer's revisions go with it, and items forget a revision that is
\* gone.
LoseAnswers(lost) ==
  /\ answer' = [k \in Keys |-> IF k \in lost THEN [NoAnswer EXCEPT !.row = answer[k].row] ELSE answer[k]]
  /\ revs' = [k \in Keys |-> IF k \in lost THEN <<>> ELSE revs[k]]

Forgetting(g, lost) == IF g.rev.key \in lost THEN [g EXCEPT !.rev = NoId] ELSE g

\* The region's question links, its answer and its grading items go with it.
DeleteRegion(r) ==
  LET lost == {k \in Keys : answer[k].region = r}
  IN /\ r \in regions
     /\ regions' = regions \ {r}
     /\ at' = [k \in Keys |-> Without(at[k], r)]
     /\ manual' = manual \ {r}
     /\ LoseAnswers(lost)
     /\ run' = [run EXCEPT !.item = [s \in Regions |->
          IF s = r THEN NoGrading ELSE Forgetting(run.item[s], lost)]]
     /\ moved' = (moved \/ (HasItems /\ \E k \in Keys : Primary(at[k]) = r))
     /\ UNCHANGED <<known, recognised, prep, request>>

\* An answer typed in on a region; it takes the region's only place.
CreateManual(r) ==
  /\ r \in regions \ manual
  /\ \A k \in Keys : answer[k].region # r
  /\ manual' = manual \cup {r}
  /\ UNCHANGED <<regions, at, known, recognised, prep, answer, revs, request, run, moved>>

DeleteManual(r) ==
  /\ r \in manual
  /\ manual' = manual \ {r}
  /\ UNCHANGED <<regions, at, known, recognised, prep, answer, revs, request, run, moved>>

Ends(t) == request' = [request EXCEPT ![t] = NoRequest]

\* A question's unpublished answer may be edited by hand, which grading never
\* sees, and deleted: the row goes with what it has been given since, a publication
\* included.
BeginDelete(t, k) ==
  /\ request[t].op = "none"
  /\ Exists(k) /\ answer[k].current = 0
  /\ request' = [request EXCEPT ![t] = [NoRequest EXCEPT !.op = "delete",
       !.seen = [NoRequest.seen EXCEPT ![k] = [key |-> k, row |-> answer[k].row, number |-> 0]]]]
  /\ UNCHANGED <<regions, at, known, recognised, prep, answer, manual, revs, run, moved>>

CommitDelete(t) ==
  LET lost == {k \in Keys : request[t].seen[k] # NoId /\ RowStands(k, request[t].seen[k])}
  IN /\ request[t].op = "delete"
     /\ LoseAnswers(lost)
     /\ run' = [run EXCEPT !.item = [r \in Regions |-> Forgetting(run.item[r], lost)]]
     /\ Ends(t)
     /\ UNCHANGED <<regions, at, known, recognised, prep, manual, moved>>

(***************************************************************************)
(* Answer preparation                                                      *)
(***************************************************************************)

CreatePrep(p) ==
  /\ prep[p].status = "none"
  /\ known # {}
  /\ prep' = [prep EXCEPT ![p].status = "queued"]
  /\ UNCHANGED <<regions, at, known, recognised, answer, manual, revs, request, run, moved>>

\* The actor skips a run that is running or completed; a redelivered message
\* starts a failed or partial one again.
BeginPrep(p) ==
  LET again == prep[p].status \in {"failed", "partial"}
  IN /\ again => prep[p].redo < MaxRedo
     /\ again \/ prep[p].status = "queued"
     /\ prep' = [prep EXCEPT ![p].status = "running", ![p].asks = known,
                             ![p].redo = IF again THEN prep[p].redo + 1 ELSE prep[p].redo]
     /\ UNCHANGED <<regions, at, known, recognised, answer, manual, revs, request, run, moved>>

\* Mutant: without the unique key.
BlankIgnored(p) == TRUE

Blank(p) == \A s \in Slots : prep[p].item[s].status = "none"

Filled(key, body) == [key |-> key, status |-> IF body = NoBody THEN "open" ELSE "matched", body |-> body]

\* What an execution may come back with: an item for each question it has read,
\* matched or not (failed, in conflict), and entries that match none.
Proposals(p) ==
  {f \in [Slots -> Item] : \A s \in Slots :
     IF s \in prep[p].asks THEN \E body \in Bodies \cup {NoBody} : f[s] = Filled(s, body)
     ELSE IF s \in Loose THEN f[s] \in {NoItem, Filled(NoKey, NoBody)}
     ELSE f[s] = NoItem}

\* The unique key of the items refuses a second set: that execution fails.
FinishPrep(p, f) ==
  /\ prep[p].status = "running" /\ Blank(p) /\ prep[p].asks # {}
  /\ \E status \in {"completed", "partial"} :
       /\ status = "partial" => \E k \in prep[p].asks : f[k].status = "open"
       /\ prep' = [prep EXCEPT ![p].status = status, ![p].item = f]
  /\ UNCHANGED <<regions, at, known, recognised, answer, manual, revs, request, run, moved>>

FailPrep(p) ==
  /\ prep[p].status = "running"
  /\ prep' = [prep EXCEPT ![p].status = "failed"]
  /\ UNCHANGED <<regions, at, known, recognised, answer, manual, revs, request, run, moved>>

\* A confirmation and its items are a snapshot: what is confirmed may not be edited.
BeginEdit(t, p, s, to) ==
  LET read == prep[p].item[s]
  IN /\ request[t].op = "none"
     /\ ~prep[p].confirmed
     /\ read.status \in {"matched", "open"}
     /\ to \in known \cup {NoKey}
     /\ request' = [request EXCEPT ![t] = [NoRequest EXCEPT !.op = "edit", !.prep = p, !.to = to,
          !.item = [NoRequest.item EXCEPT ![s] = [read EXCEPT !.body = NoBody]]]]
     /\ UNCHANGED <<regions, at, known, recognised, prep, answer, manual, revs, run, moved>>

Confirming(p) == \E t \in Teachers : request[t].op = "confirm" /\ request[t].prep = p

\* The check is not made again.  An item confirmed meanwhile gets the new text and
\* question, and its status only where that differs from the one read (~stays).
CommitEdit(t, s, body, stays) ==
  LET p == request[t].prep
      was == request[t].item[s]
      now == prep[p].item[s]
      key == IF request[t].to = was.key THEN now.key ELSE request[t].to
  IN /\ request[t].op = "edit" /\ was.status # "none"
     /\ key = NoKey => body = NoBody
     /\ stays => now.status = "confirmed"
     /\ now.status = "confirmed" /\ was.status = "matched" /\ ~stays => body = NoBody
     /\ prep' = [prep EXCEPT ![p].crossed = @ \/ prep[p].confirmed \/ Confirming(p),
          ![p].item[s] = IF stays THEN [key |-> key, status |-> "confirmed", body |-> body]
                                  ELSE Filled(key, body)]
     /\ Ends(t)
     /\ UNCHANGED <<regions, at, known, recognised, answer, manual, revs, run, moved>>

(***************************************************************************)
(* Confirmation and publication                                            *)
(***************************************************************************)

\* Every confirmed question has one item, and every item that names a question
\* is matched and complete.
Confirmable(p) ==
  LET f == prep[p].item
      Named == {s \in Slots : f[s].key # NoKey}
  IN /\ ~prep[p].confirmed
     /\ prep[p].status \in {"completed", "partial"}
     /\ known = {f[s].key : s \in Named}
     /\ \A s \in Named : f[s].status = "matched"
     /\ \A s, u \in Named : s # u => f[s].key # f[u].key

BeginConfirm(t, p) ==
  /\ request[t].op = "none"
  /\ Confirmable(p)
  /\ request' = [request EXCEPT ![t] = [NoRequest EXCEPT !.op = "confirm", !.prep = p, !.item = prep[p].item]]
  /\ UNCHANGED <<regions, at, known, recognised, prep, answer, manual, revs, run, moved>>

ItemsFor(t, k) == {s \in Slots : request[t].item[s].key = k}

\* A question without an answer row gets one at its first region, if no other
\* answer is there.
Rows(ks) ==
  /\ \A k \in ks : ~Exists(k) =>
       /\ answer[k].row < MaxRows
       /\ at[k] # <<>>
       /\ at[k][1] \notin manual
       /\ \A j \in Keys \ {k} : answer[j].region # at[k][1]
  /\ answer' = [k \in Keys |-> IF k \in ks /\ ~Exists(k)
                               THEN [row |-> answer[k].row + 1, region |-> at[k][1], current |-> 0]
                               ELSE answer[k]]

\* Mutant: the newest revision is changed in place.
RevisesInPlace(k, rev) ==
  IF revs[k] = <<>> THEN <<rev>> ELSE [revs[k] EXCEPT ![Len(revs[k])].body = rev.body]

Revised(k, rev) == Append(revs[k], rev)

\* The next free number is read just before a revision is written.
CommitConfirm(t) ==
  LET p == request[t].prep
      ks == {k \in Keys : ItemsFor(t, k) # {}}
      Draft(k) == [status |-> "draft", prep |-> p, body |-> request[t].item[CHOOSE s \in ItemsFor(t, k) : TRUE].body]
  IN /\ request[t].op = "confirm"
     /\ \A k \in ks : Len(revs[k]) < MaxRevs
     /\ Rows(ks)
     /\ revs' = [k \in Keys |-> IF k \in ks THEN Revised(k, Draft(k)) ELSE revs[k]]
     /\ prep' = [prep EXCEPT ![p].confirmed = TRUE,
          ![p].item = [s \in Slots |-> IF request[t].item[s].key # NoKey
                                        THEN [prep[p].item[s] EXCEPT !.status = "confirmed"]
                                        ELSE prep[p].item[s]]]
     /\ Ends(t)
     /\ UNCHANGED <<regions, at, known, recognised, manual, run, moved>>

\* A request names revisions, or takes all drafts: of each question the highest
\* number among them (pick).  Every confirmed question is picked or published already.
BeginPublish(t, pick) ==
  /\ request[t].op = "none"
  /\ \E k \in Keys : pick[k] # 0
  /\ \A k \in Keys : pick[k] # 0 => pick[k] \in DOMAIN revs[k]
  /\ \A k \in known : pick[k] # 0 \/ answer[k].current # 0
  /\ request' = [request EXCEPT ![t] = [NoRequest EXCEPT !.op = "publish", !.pick = pick,
               !.seen = [k \in Keys |-> [key |-> k, row |-> answer[k].row, number |-> answer[k].current]]]]
  /\ UNCHANGED <<regions, at, known, recognised, prep, answer, manual, revs, run, moved>>

\* A row that is gone makes the update fail; a pointer set to what was read is not
\* written.
CommitPublish(t) ==
  LET n == request[t].pick
      seen == request[t].seen
      ks == {k \in Keys : n[k] # 0}
  IN /\ request[t].op = "publish"
     /\ \A k \in ks : Exists(k) /\ answer[k].row = seen[k].row
     /\ revs' = [k \in Keys |-> IF k \in ks THEN [revs[k] EXCEPT ![n[k]].status = "published"] ELSE revs[k]]
     /\ answer' = [k \in Keys |-> IF k \in ks /\ n[k] # seen[k].number
                                  THEN [answer[k] EXCEPT !.current = n[k]] ELSE answer[k]]
     /\ Ends(t)
     /\ UNCHANGED <<regions, at, known, recognised, prep, manual, run, moved>>

\* A unique or foreign key, or a lost connection.
Abort(t) ==
  /\ request[t].op # "none"
  /\ Ends(t)
  /\ UNCHANGED <<regions, at, known, recognised, prep, answer, manual, revs, run, moved>>

(***************************************************************************)
(* Grading by the key                                                      *)
(***************************************************************************)

CreateRun ==
  /\ run.status = "none"
  /\ known # {}
  /\ \A k \in known : InForce(k, Current(k))
  /\ run' = [run EXCEPT !.status = "queued", !.lock = [k \in Keys |-> Current(k)],
       !.promised = [k \in Keys |-> IF answer[k].current = 0 THEN NoBody ELSE revs[k][answer[k].current].body]]
  /\ UNCHANGED <<regions, at, known, recognised, prep, answer, manual, revs, request, moved>>

\* Mutant: the answer in force when the execution begins.
LatestRevision(k) == Current(k)

\* A question confirmed after the run was created has nothing locked.
LockedRevision(k) == IF run.lock[k] # NoId THEN run.lock[k] ELSE Current(k)

Targets == {at[k][1] : k \in known}

KeyAt(r) == CHOOSE k \in known : at[k] # <<>> /\ at[k][1] = r

Pending(item) == {r \in Regions : item[r].status \in {"queued", "failed"}}

NewItem(r) == [key |-> KeyAt(r), rev |-> LockedRevision(KeyAt(r)), status |-> "queued", body |-> NoBody]

\* Items are made for regions.  One that is there keeps its question and its
\* revision, also when its region belongs to another question by now; an unfinished
\* one whose revision is gone gets that of the region's question.
LoadedItem(r) ==
  LET g == run.item[r]
  IN IF g.status = "none" THEN NewItem(r)
     ELSE IF g.status \in {"queued", "failed"} /\ g.rev = NoId THEN [g EXCEPT !.rev = LockedRevision(KeyAt(r))]
     ELSE g

\* What a worker grades an item by: the revision of the item, given up when that is
\* not the one of the region's question and the item's question has no answer.
Carried(r, g) ==
  IF g.rev = LockedRevision(KeyAt(r)) \/ Exists(g.key) THEN revs[g.rev.key][g.rev.number].body ELSE NoBody

Loadable == \A k \in known : at[k] # <<>> /\ InForce(k, LockedRevision(k))

\* An execution with nothing to submit fails.
LoadRun ==
  LET item == [r \in Regions |-> IF r \in Targets THEN LoadedItem(r) ELSE run.item[r]]
      work == [r \in Regions |-> IF r \in Pending(item) THEN Carried(r, item[r]) ELSE NoBody]
  IN /\ run.status = "queued"
     /\ Loadable
     /\ Pending(run.item) \subseteq Targets
     /\ run' = [run EXCEPT !.item = item, !.work = work,
          !.status = IF \E r \in Regions : work[r] # NoBody THEN "running" ELSE "failed"]
     /\ UNCHANGED <<regions, at, known, recognised, prep, answer, manual, revs, request, moved>>

\* An unfinished item whose region is nobody's first region stops the run, after the
\* missing items were committed.
BreakLoad ==
  /\ run.status = "queued"
  /\ Loadable
  /\ ~(Pending(run.item) \subseteq Targets)
  /\ run' = [run EXCEPT !.status = "failed",
       !.item = [r \in Regions |-> IF r \in Targets /\ run.item[r].status = "none" THEN NewItem(r) ELSE run.item[r]]]
  /\ UNCHANGED <<regions, at, known, recognised, prep, answer, manual, revs, request, moved>>

\* The item with its result.
Saved(r, status) ==
  LET g == run.item[r]
  IN IF g.status = "none" THEN g
     ELSE [key |-> g.key, rev |-> g.rev, status |-> status,
           body |-> IF status = "graded" THEN run.work[r] ELSE g.body]

\* A result is written to its item, if that is still there.
SaveItem(r, status) ==
  /\ run.status = "running" /\ run.work[r] # NoBody
  /\ run' = [run EXCEPT !.work = [run.work EXCEPT ![r] = NoBody],
                        !.item = [run.item EXCEPT ![r] = Saved(r, status)]]
  /\ UNCHANGED <<regions, at, known, recognised, prep, answer, manual, revs, request, moved>>

\* Mutant: an item that failed for good counts as graded.
EndRunDone ==
  /\ run.status = "running" /\ \A r \in Regions : run.work[r] = NoBody
  /\ run' = [run EXCEPT !.status = "done"]
  /\ UNCHANGED <<regions, at, known, recognised, prep, answer, manual, revs, request, moved>>

EndRun ==
  /\ run.status = "running" /\ \A r \in Regions : run.work[r] = NoBody
  /\ run' = [run EXCEPT !.status = IF \E r \in Regions : run.item[r].status = "failed" THEN "errors" ELSE "done"]
  /\ UNCHANGED <<regions, at, known, recognised, prep, answer, manual, revs, request, moved>>

\* A question without region or revision, or any error on the way.
FailRun ==
  /\ run.status \in {"queued", "running"}
  /\ run' = [run EXCEPT !.status = "failed", !.work = [r \in Regions |-> NoBody]]
  /\ UNCHANGED <<regions, at, known, recognised, prep, answer, manual, revs, request, moved>>

RetryRun ==
  /\ run.status \in {"errors", "failed"}
  /\ run' = [run EXCEPT !.status = "queued", !.item = [r \in Regions |->
       IF run.item[r].status = "failed" THEN [run.item[r] EXCEPT !.status = "queued"] ELSE run.item[r]]]
  /\ UNCHANGED <<regions, at, known, recognised, prep, answer, manual, revs, request, moved>>

KeyNext ==
  \/ \E ks \in SUBSET Keys : \E place \in [ks -> Places] : ConfirmSheet(ks, place)
  \/ \E r \in Regions : \/ CreateRegion(r) \/ DeleteRegion(r) \/ CreateManual(r) \/ DeleteManual(r)
                         \/ \E status \in {"graded", "failed"} : SaveItem(r, status)
  \/ \E p \in Preps :
       \/ CreatePrep(p) \/ BeginPrep(p) \/ FailPrep(p)
       \/ \E f \in Proposals(p) : FinishPrep(p, f)
  \/ \E t \in Teachers :
       \/ \E p \in Preps : BeginConfirm(t, p)
       \/ \E pick \in [Keys -> 0 .. MaxRevs] : BeginPublish(t, pick)
       \/ CommitConfirm(t) \/ CommitPublish(t) \/ CommitDelete(t) \/ Abort(t)
       \/ \E k \in Keys : BeginDelete(t, k)
       \/ \E p \in Preps, s \in Slots, to \in Keys \cup {NoKey} : BeginEdit(t, p, s, to)
       \/ \E s \in Slots, body \in Bodies \cup {NoBody}, stays \in BOOLEAN : CommitEdit(t, s, body, stays)
  \/ CreateRun \/ LoadRun \/ BreakLoad \/ EndRun \/ FailRun \/ RetryRun

KeySpec == KeyInit /\ [][KeyNext]_keyVars

(***************************************************************************)
(* Properties                                                              *)
(***************************************************************************)

\* The tables keep their shape: an answer points at a revision of its own or at
\* none, and a question that has no answer row has no revision.
KeyTypeOK ==
  /\ regions \subseteq Regions /\ manual \subseteq regions /\ known \subseteq Keys
  /\ recognised \in 0 .. MaxSheets
  /\ \A k \in Keys : at[k] = <<>> \/ (at[k] \in Places /\ Rng(at[k]) \subseteq regions)
  /\ \A k, j \in Keys : k # j => Rng(at[k]) \cap Rng(at[j]) = {}
  /\ prep \in [Preps -> Prep]
  /\ answer \in [Keys -> Answer]
  /\ revs \in [Keys -> Seq(Rev)] /\ \A k \in Keys : Len(revs[k]) <= MaxRevs
  /\ \A k \in Keys : IF Exists(k) THEN answer[k].region \in regions \ manual ELSE revs[k] = <<>>
  /\ request \in [Teachers -> Request]
  /\ run \in Run
  /\ moved \in BOOLEAN

\* Whatever requests and redelivered messages overlap, every revision was made by a teacher's
\* confirmation and the revision in force is a published one (models only draft,
\* D-010); and unless an edit crossed it, the confirmation stays on record: an item
\* that is confirmed, of this question, with what the revision says.
OnlyConfirmed ==
  \A k \in Keys :
    /\ \A n \in DOMAIN revs[k] :
         LET p == revs[k][n].prep
             record == [key |-> k, status |-> "confirmed", body |-> revs[k][n].body]
         IN prep[p].confirmed /\ (prep[p].crossed \/ \E s \in Slots : prep[p].item[s] = record)
    /\ Current(k) # NoId => InForce(k, Current(k))

\* However answers are revised, published, deleted and made anew while a run waits, executes and is
\* retried, whatever it graded of a question it had locked was graded by what the
\* published answer said when the run was created.
GradedByLock ==
  \A r \in Regions : LET g == run.item[r] IN
    g.status = "graded" /\ run.lock[g.key] # NoId => g.body = run.promised[g.key]

\* As long as no question's first region is moved or deleted after a run has made its items, a
\* run that reports a result has exactly one item for every question it locked, and
\* a run that reports no errors has graded it.
RunIsWhole ==
  ~moved /\ run.status \in {"done", "errors"} =>
    \A k \in Keys : run.lock[k] # NoId =>
      /\ Cardinality({r \in Regions : run.item[r].key = k}) = 1
      /\ run.status = "done" => \A r \in Regions : run.item[r].key = k => run.item[r].status = "graded"

\* A published revision is never changed nor withdrawn; it goes only with the
\* answer's row, when the region it hangs on is deleted or the deletion of an answer
\* without one was under way.
PublishedFrozen ==
  [][\A k \in Keys : \A n \in DOMAIN revs[k] :
       revs[k][n].status = "published" /\ answer'[k].region # NoRegion =>
         n \in DOMAIN revs'[k] /\ revs'[k][n] = revs[k][n]]_keyVars

(***************************************************************************)
(* Why they hold                                                           *)
(***************************************************************************)

\* What items and requests name, what has an answer and what a run has locked are
\* confirmed questions.
KeysKnown ==
  /\ \A p \in Preps : prep[p].asks \subseteq known /\ \A s \in Slots : prep[p].item[s].key \in known \cup {NoKey}
  /\ \A t \in Teachers : request[t].to \in known \cup {NoKey}
  /\ \A t \in Teachers, s \in Slots : request[t].item[s].key \in known \cup {NoKey}
  /\ \A k \in Keys : Exists(k) => k \in known

\* An item that is matched says something.
MatchedSays == \A p \in Preps, s \in Slots : prep[p].item[s].status = "matched" => prep[p].item[s].body # NoBody

\* A revision will be made of items that say something and, until an edit crosses it, of
\* the run's items as they are; what a publication is about to write to is there, or its
\* row is gone for good.
RequestsHold ==
  \A t \in Teachers :
    /\ request[t].op \in {"edit", "confirm"} => request[t].prep \in Preps
    /\ request[t].op = "confirm" => \A s \in Slots : request[t].item[s].key # NoKey =>
         /\ request[t].item[s].body # NoBody
         /\ ~prep[request[t].prep].crossed =>
              LET now == prep[request[t].prep].item[s]
              IN /\ now.status \in {"matched", "confirmed"}
                 /\ now.key = request[t].item[s].key /\ now.body = request[t].item[s].body
    /\ request[t].op = "publish" => \A k \in Keys :
         /\ request[t].seen[k].row <= answer[k].row
         /\ request[t].pick[k] # 0 /\ RowStands(k, request[t].seen[k]) => request[t].pick[k] \in DOMAIN revs[k]

\* As long as its row stands a locked revision is there, and says what it said.
PromisesKept ==
  \A k \in Keys : LET id == run.lock[k] IN
    id # NoId =>
      /\ id.key = k /\ id.row <= answer[k].row /\ k \in known
      /\ RowStands(k, id) => /\ answer[k].current # 0
                             /\ id.number \in DOMAIN revs[k] /\ revs[k][id.number].body = run.promised[k]

\* The revision an item names is there, of an answer with one in force.
ItemsRevised ==
  \A r \in Regions : LET id == run.item[r].rev IN
    id # NoId => /\ id.key \in Keys /\ RowStands(id.key, id)
                 /\ answer[id.key].current # 0 /\ id.number \in DOMAIN revs[id.key]

\* An item of a locked question has the locked revision, or lost it with its row;
\* what a worker grades it by is what was promised.
ItemsLocked ==
  /\ run.status = "none" => \A k \in Keys : run.lock[k] = NoId
  /\ run.status = "none" => \A r \in Regions : run.item[r] = NoGrading
  /\ run.status # "running" => \A r \in Regions : run.work[r] = NoBody
  /\ \A r \in Regions : LET g == run.item[r] IN
       IF g.status = "none" THEN g = NoGrading
       ELSE /\ g.key \in known
            /\ run.lock[g.key] # NoId =>
                 /\ g.rev = run.lock[g.key] \/ (g.rev = NoId /\ ~RowStands(g.key, run.lock[g.key]))
                 /\ run.work[r] \in {NoBody, run.promised[g.key]}

\* Until a first region is moved, items are at the first region of their question; an
\* execution has one for every locked question, works on those that wait, and a run
\* that reports no errors has graded them.
ItemsInPlace ==
  ~moved =>
    /\ \A r \in Regions : run.item[r].status # "none" => Primary(at[run.item[r].key]) = r
    /\ run.status \in {"running", "done", "errors"} =>
         \A k \in Keys : run.lock[k] # NoId => \E r \in Regions : run.item[r].key = k
    /\ \A r \in Regions : LET g == run.item[r] IN
         g.status # "none" /\ run.lock[g.key] # NoId =>
           /\ run.status = "running" /\ g.status = "queued" => run.work[r] # NoBody
           /\ run.status = "done" => g.status = "graded"

\* The inductive invariant.
KeyInv ==
  /\ KeyTypeOK /\ KeysKnown /\ MatchedSays /\ RequestsHold /\ OnlyConfirmed
  /\ PromisesKept /\ ItemsRevised /\ ItemsLocked /\ GradedByLock /\ ItemsInPlace

=============================================================================
