----------------------------- MODULE BookProofs -----------------------------
(***************************************************************************)
(* ScoreBook for any sheets, students, accounts, scores and sessions, and  *)
(* after it Practice for any items, entries, workers, requests and bounds. *)
(***************************************************************************)
EXTENDS ScoreBook, Practice, TLAPS

LEMMA Blank == NoNote \in Note /\ NoItem \in Item /\ NoEntry \in Entry /\ NoTx \in Tx
<1>1. NoNote \in Note /\ NoItem \in Item /\ NoEntry \in Entry
  BY DEF NoNote, Note, NoItem, Item, NoEntry, Entry
<1>2. (CHOOSE s \in Sheets : TRUE) \in Sheets
  BY SheetsExist
<1>3. 0 \in 0 .. MaxReleases
  BY BoundsNat
<1> QED
  BY <1>1, <1>2, <1>3 DEF NoTx, Tx

LEMMA EditedTyped ==
  ASSUME NEW n \in Note, NEW score \in Scores \cup {NoScore}
  PROVE  Edited(n, score) \in Note
  BY DEF Edited, Note

LEMMA EditTyped ==
  ASSUME TypeOK, NEW s \in Sheets, NEW score \in Scores \cup {NoScore}
  PROVE  [NoTx EXCEPT !.op = "edit", !.sheet = s, !.seen = note[s], !.want = Edited(note[s], score)] \in Tx
<1>1. note[s] \in Note /\ Edited(note[s], score) \in Note
  BY EditedTyped DEF TypeOK
<1> QED
  BY <1>1, Blank DEF Tx

\* What a result changes: nothing; the score, by one the model's points are for; or only
\* the review and the model's score.
LEMMA ResultsSay ==
  ASSUME NEW n \in Note, NEW want \in Results(n)
  PROVE  /\ want \in Note /\ want.there
         /\ (n.source # "human" => n.model \in {NoScore, n.score})
              => (want.source # "human" => want.model \in {NoScore, want.score})
<1> DEFINE m == Found(n)
<1>1. m \in Note /\ m.there
  <2>1. CASE n.there
    BY <2>1 DEF Found
  <2>2. CASE ~n.there
    <3>1. m = [NoNote EXCEPT !.row = n.row + 1, !.there = TRUE] /\ n.row + 1 \in Nat
      BY <2>2 DEF Note, Found
    <3> QED
      BY <3>1 DEF Note, NoNote
  <2> QED
    BY <2>1, <2>2
<1>2. (n.source # "human" => n.model \in {NoScore, n.score}) => (m.source # "human" => m.model \in {NoScore, m.score})
  BY DEF NoNote, Found
<1> HIDE DEF m
<1>3. CASE \E s \in Scores, r \in BOOLEAN : want = Graded(m, s, r)
  BY <1>1, <1>3 DEF Note, Graded
<1>4. CASE want = [m EXCEPT !.review = TRUE, !.model = NoScore]
  BY <1>1, <1>2, <1>4 DEF Note
<1>5. CASE want = [m EXCEPT !.review = TRUE]
  BY <1>1, <1>2, <1>5 DEF Note
<1>6. CASE want = m
  BY <1>1, <1>2, <1>6
<1>7. \/ \E s \in Scores, r \in BOOLEAN : want = Graded(m, s, r)
      \/ want \in {[m EXCEPT !.review = TRUE, !.model = NoScore], [m EXCEPT !.review = TRUE], m}
  BY DEF Results, m
<1> QED
  BY <1>3, <1>4, <1>5, <1>6, <1>7

LEMMA GradeTyped ==
  ASSUME TypeOK, NEW s \in Sheets, NEW want \in Results(note[s])
  PROVE  [NoTx EXCEPT !.op = "grade", !.sheet = s, !.seen = note[s], !.want = want] \in Tx
<1>1. note[s] \in Note /\ want \in Note
  BY ResultsSay DEF TypeOK
<1> QED
  BY <1>1, Blank DEF Tx

LEMMA MergedTyped ==
  ASSUME NEW now \in Note, NEW seen \in Note, NEW want \in Note
  PROVE  Merged(now, seen, want) \in Note
  BY DEF Merged, Note

LEMMA CopiedTyped ==
  ASSUME TypeOK, NEW v \in Versions, NEW s \in Sheets
  PROVE  Copied(v, s) \in Entry
<1>1. item[v][s] \in Item /\ note[s] \in Note /\ name[s] \in Students \cup {NoOne}
  BY DEF TypeOK
<1>2. Missed(item[v][s], note[s]) \in Scores \cup {NoScore}
  BY <1>1 DEF Missed, Note
<1>3. item[v][s].score \in Scores \cup {NoScore}
  BY <1>1 DEF Item
<1>4. (IF Linked(name[s]) = NoOne THEN NoOne ELSE bound[name[s]]) \in Users \cup {NoOne}
  BY <1>1 DEF TypeOK, Linked
<1> QED
  BY <1>1, <1>2, <1>3, <1>4, Blank DEF Copied, Entry

LEMMA Opened ==
  ASSUME TypeOK, NEW t \in Sessions, NEW r \in Tx, tx' = [tx EXCEPT ![t] = r]
  PROVE  tx' \in [Sessions -> Tx]
  BY DEF TypeOK

LEMMA Closed ==
  ASSUME TypeOK, NEW t \in Sessions, Ends(t)
  PROVE  tx' \in [Sessions -> Tx]
  BY Blank DEF TypeOK, Ends

\* A copy is of a release, and somebody binds or visits.
Aimed ==
  \A t \in Sessions : /\ tx[t].op \in {"check", "copy"} => tx[t].version \in Versions
                      /\ tx[t].op \in {"bind", "visit"} => tx[t].user \in Users

LEMMA TypeInit == Init => TypeOK /\ Aimed
<1> SUFFICES ASSUME Init PROVE TypeOK /\ Aimed
  OBVIOUS
<1>1. name \in [Sheets -> Students \cup {NoOne}] /\ pupils \subseteq Students /\ released \in 0 .. MaxReleases
  BY BoundsNat DEF Init
<1>2. note \in [Sheets -> Note] /\ item \in [Versions -> [Sheets -> Item]] /\ entry \in [Versions -> [Sheets -> Entry]]
  BY Blank DEF Init
<1>3. status \in [Versions -> {"none", "published", "superseded"}] /\ bound \in [Students -> Users \cup {NoOne}]
  BY DEF Init
<1>4. tx \in [Sessions -> Tx]
  BY Blank DEF Init
<1>5. /\ learners \subseteq Users /\ enrolled \subseteq Users \X Students
      /\ writes \in Nat /\ tasks \in Nat /\ binds \in Nat
      /\ was \subseteq Users \X Students /\ overtaken \in BOOLEAN /\ late \subseteq Sheets
  BY DEF Init
<1>6. Aimed
  BY DEF Init, Aimed, NoTx
<1> QED
  BY <1>1, <1>2, <1>3, <1>4, <1>5, <1>6 DEF TypeOK

LEMMA AnnotationsTyped ==
  ASSUME TypeOK
  PROVE  /\ \A t \in Sessions, s \in Sheets : \A score \in Scores \cup {NoScore} : BeginEdit(t, s, score) => TypeOK'
         /\ \A t \in Sessions, s \in Sheets : \A want \in Results(note[s]) : BeginGrade(t, s, want) => TypeOK'
         /\ \A t \in Sessions : CommitNote(t) => TypeOK'
         /\ \A s \in Sheets : DeleteNote(s) => TypeOK'
<1>1. ASSUME NEW t \in Sessions, NEW s \in Sheets, NEW score \in Scores \cup {NoScore}, BeginEdit(t, s, score)
      PROVE  TypeOK'
  <2>1. tx' \in [Sessions -> Tx]
    BY <1>1, EditTyped, Opened DEF BeginEdit
  <2> QED
    BY <1>1, <2>1 DEF BeginEdit, TypeOK
<1>2. ASSUME NEW t \in Sessions, NEW s \in Sheets, NEW want \in Results(note[s]), BeginGrade(t, s, want)
      PROVE  TypeOK'
  <2>1. tx' \in [Sessions -> Tx]
    BY <1>2, GradeTyped, Opened DEF BeginGrade
  <2> QED
    BY <1>2, <2>1 DEF BeginGrade, TypeOK
<1>3. ASSUME NEW t \in Sessions, CommitNote(t)
      PROVE  TypeOK'
  <2>1. tx' \in [Sessions -> Tx]
    BY <1>3, Closed DEF CommitNote
  <2>2. tx[t].sheet \in Sheets /\ tx[t].seen \in Note /\ tx[t].want \in Note
    BY DEF TypeOK, Tx
  <2>3. Merged(note[tx[t].sheet], tx[t].seen, tx[t].want) \in Note
    BY <2>2, MergedTyped DEF TypeOK
  <2>4. note' \in [Sheets -> Note] /\ late' \subseteq Sheets
    BY <1>3, <2>2, <2>3 DEF CommitNote, TypeOK
  <2> QED
    BY <1>3, <2>1, <2>4 DEF CommitNote, TypeOK
<1>4. ASSUME NEW s \in Sheets, DeleteNote(s)
      PROVE  TypeOK'
  <2>1. [NoNote EXCEPT !.row = note[s].row] \in Note
    BY Blank DEF TypeOK, Note
  <2> QED
    BY <1>4, <2>1 DEF DeleteNote, TypeOK
<1> QED
  BY <1>1, <1>2, <1>3, <1>4

LEMMA BookTyped ==
  ASSUME TypeOK, Aimed
  PROVE  /\ Publish => TypeOK'
         /\ \A t \in Sessions, v \in Versions : BeginCopy(t, v) => TypeOK'
         /\ \A t \in Sessions : ReadCopy(t) \/ CommitCopy(t) \/ Abort(t) => TypeOK'
         /\ \A v \in Versions, s \in Sheets : DeleteEntry(v, s) => TypeOK'
<1>1. ASSUME Publish
      PROVE  TypeOK'
  <2>1. \A s \in Sheets : Released(s) \in Item
    BY Blank DEF Released, Item, TypeOK, Note
  <2>2. item' \in [Versions -> [Sheets -> Item]]
    BY <1>1, <2>1 DEF Publish, TypeOK
  <2>3. released' \in 0 .. MaxReleases /\ status' \in [Versions -> {"none", "published", "superseded"}]
    BY <1>1, BoundsNat DEF Publish, TypeOK, Versions
  <2>4. overtaken' \in BOOLEAN
    BY <1>1 DEF Publish, TypeOK
  <2> QED
    BY <1>1, <2>2, <2>3, <2>4 DEF Publish, TypeOK
<1>2. ASSUME NEW t \in Sessions, NEW v \in Versions, BeginCopy(t, v)
      PROVE  TypeOK'
  <2>1. v \in 0 .. MaxReleases
    BY BoundsNat DEF Versions
  <2>2. [NoTx EXCEPT !.op = "check", !.version = v] \in Tx
    BY <2>1, Blank DEF Tx
  <2>3. tx' \in [Sessions -> Tx]
    BY <1>2, <2>2, Opened DEF BeginCopy
  <2> QED
    BY <1>2, <2>3 DEF BeginCopy, TypeOK
<1>3. ASSUME NEW t \in Sessions, ReadCopy(t)
      PROVE  TypeOK'
  <2> DEFINE v == tx[t].version
             old == {p \in Versions \X Sheets : p[1] # v /\ entry[p[1]][p[2]].status = "active"}
             page == [s \in Sheets |-> Copied(v, s)]
             roll == {name[s] : s \in Sheets} \cap pupils
  <2>1. v \in Versions /\ tx[t] \in Tx
    BY <1>3 DEF ReadCopy, Aimed, TypeOK
  <2>2. page \in [Sheets -> Entry]
    BY <2>1, CopiedTyped
  <2>3. old \in SUBSET (Versions \X Sheets) /\ roll \in SUBSET Students
    BY DEF TypeOK
  <2>4. tx' = [tx EXCEPT ![t] = [tx[t] EXCEPT !.op = "copy", !.old = old, !.page = page, !.roll = roll]]
    BY <1>3 DEF ReadCopy
  <2> HIDE DEF v, old, page, roll
  <2>5. [tx[t] EXCEPT !.op = "copy", !.old = old, !.page = page, !.roll = roll] \in Tx
    BY <2>1, <2>2, <2>3 DEF Tx
  <2>6. tx' \in [Sessions -> Tx]
    BY <2>4, <2>5, Opened
  <2> QED
    BY <1>3, <2>6 DEF ReadCopy, TypeOK
<1>4. ASSUME NEW t \in Sessions, CommitCopy(t)
      PROVE  TypeOK'
  <2>1. tx' \in [Sessions -> Tx]
    BY <1>4, Closed DEF CommitCopy
  <2>2. ASSUME NEW w \in Versions, NEW s \in Sheets
        PROVE  entry'[w][s] \in Entry
    <3>1. tx[t].page[s] \in Entry /\ entry[w][s] \in Entry
      BY DEF TypeOK, Tx
    <3>2. [entry[w][s] EXCEPT !.status = "superseded"] \in Entry
      BY <3>1 DEF Entry
    <3> QED
      BY <1>4, <3>1, <3>2 DEF CommitCopy
  <2>3. entry' \in [Versions -> [Sheets -> Entry]]
    BY <1>4, <2>2 DEF CommitCopy
  <2> QED
    BY <1>4, <2>1, <2>3 DEF CommitCopy, TypeOK
<1>5. ASSUME NEW t \in Sessions, Abort(t)
      PROVE  TypeOK'
  BY <1>5, Closed DEF Abort, TypeOK
<1>6. ASSUME NEW v \in Versions, NEW s \in Sheets, DeleteEntry(v, s)
      PROVE  TypeOK'
  <2>1. [NoEntry EXCEPT !.status = "deleted"] \in Entry
    BY Blank DEF Entry
  <2> QED
    BY <1>6, <2>1 DEF DeleteEntry, TypeOK
<1> QED
  BY <1>1, <1>2, <1>3, <1>4, <1>5, <1>6

LEMMA AccountsTyped ==
  ASSUME TypeOK, Aimed
  PROVE  /\ \A s \in Sheets, c \in Students : Reassign(s, c) => TypeOK'
         /\ \A c \in Students : DeleteStudent(c) \/ Unbind(c) => TypeOK'
         /\ \A t \in Sessions, c \in Students, u \in Users : BeginBind(t, c, u) => TypeOK'
         /\ \A t \in Sessions : CommitBind(t) => TypeOK'
         /\ \A t \in Sessions, u \in Users, c \in Students \cup {NoOne} : BeginVisit(t, u, c) => TypeOK'
         /\ \A t \in Sessions : CommitVisit(t) => TypeOK'
<1>1. ASSUME NEW s \in Sheets, NEW c \in Students, Reassign(s, c)
      PROVE  TypeOK'
  BY <1>1 DEF Reassign, TypeOK
<1>2. ASSUME NEW c \in Students, DeleteStudent(c) \/ Unbind(c)
      PROVE  TypeOK'
  <2>1. pupils' \subseteq Students /\ bound' \in [Students -> Users \cup {NoOne}]
    BY <1>2 DEF DeleteStudent, Unbind, TypeOK
  <2> QED
    BY <1>2, <2>1 DEF DeleteStudent, Unbind, TypeOK
<1>3. ASSUME NEW t \in Sessions, NEW c \in Students, NEW u \in Users, BeginBind(t, c, u)
      PROVE  TypeOK'
  <2>1. [NoTx EXCEPT !.op = "bind", !.student = c, !.user = u] \in Tx
    BY Blank DEF Tx
  <2>2. tx' \in [Sessions -> Tx]
    BY <1>3, <2>1, Opened DEF BeginBind
  <2> QED
    BY <1>3, <2>2 DEF BeginBind, TypeOK
<1>4. ASSUME NEW t \in Sessions, CommitBind(t)
      PROVE  TypeOK'
  <2>1. tx' \in [Sessions -> Tx]
    BY <1>4, Closed DEF CommitBind
  <2>2. tx[t].user \in Users /\ tx[t].student \in Students
    BY <1>4 DEF CommitBind, Aimed, TypeOK
  <2> QED
    BY <1>4, <2>1, <2>2 DEF CommitBind, TypeOK
<1>5. ASSUME NEW t \in Sessions, NEW u \in Users, NEW c \in Students \cup {NoOne}, BeginVisit(t, u, c)
      PROVE  TypeOK'
  <2> DEFINE old == Orphans(u, c)
             profile == u \in learners
             stay == <<u, c>> \in enrolled
  <2>1. old \in SUBSET (Versions \X Sheets) /\ profile \in BOOLEAN /\ stay \in BOOLEAN
    BY DEF Orphans
  <2>2. tx' = [tx EXCEPT ![t] = [NoTx EXCEPT !.op = "visit", !.user = u, !.student = c,
                                             !.old = old, !.profile = profile, !.stay = stay]]
    BY <1>5 DEF BeginVisit
  <2> HIDE DEF old, profile, stay
  <2>3. [NoTx EXCEPT !.op = "visit", !.user = u, !.student = c,
                     !.old = old, !.profile = profile, !.stay = stay] \in Tx
    BY <2>1, Blank DEF Tx
  <2>4. tx' \in [Sessions -> Tx]
    BY <2>2, <2>3, Opened
  <2> QED
    BY <1>5, <2>4 DEF BeginVisit, TypeOK
<1>6. ASSUME NEW t \in Sessions, CommitVisit(t)
      PROVE  TypeOK'
  <2>1. tx' \in [Sessions -> Tx]
    BY <1>6, Closed DEF CommitVisit
  <2>2. tx[t].user \in Users /\ tx[t].student \in Students \cup {NoOne}
    BY <1>6 DEF CommitVisit, Aimed, TypeOK, Tx
  <2>3. ASSUME NEW v \in Versions, NEW s \in Sheets
        PROVE  entry'[v][s] \in Entry
    <3>1. entry[v][s] \in Entry
      BY DEF TypeOK
    <3>2. [entry[v][s] EXCEPT !.learner = tx[t].user] \in Entry
      BY <3>1, <2>2 DEF Entry
    <3> QED
      BY <1>6, <3>1, <3>2 DEF CommitVisit
  <2>4. entry' \in [Versions -> [Sheets -> Entry]]
    BY <1>6, <2>3 DEF CommitVisit
  <2>5. learners' \subseteq Users /\ enrolled' \subseteq Users \X Students
    BY <1>6, <2>2 DEF CommitVisit, TypeOK
  <2> QED
    BY <1>6, <2>1, <2>4, <2>5 DEF CommitVisit, TypeOK
<1> QED
  BY <1>1, <1>2, <1>3, <1>4, <1>5, <1>6

\* What a session knows once it has read.
LEMMA CopyOpened ==
  ASSUME TypeOK, NEW t \in Sessions, ReadCopy(t)
  PROVE  /\ \A o \in Sessions \ {t} : tx'[o] = tx[o]
         /\ tx[t].op = "check" /\ tx'[t].op = "copy" /\ tx'[t].version = tx[t].version
         /\ tx'[t].old = {p \in Versions \X Sheets : p[1] # tx[t].version /\ entry[p[1]][p[2]].status = "active"}
         /\ tx'[t].page = [s \in Sheets |-> Copied(tx[t].version, s)]
<1> DEFINE v == tx[t].version
           old == {p \in Versions \X Sheets : p[1] # v /\ entry[p[1]][p[2]].status = "active"}
           page == [s \in Sheets |-> Copied(v, s)]
           roll == {name[s] : s \in Sheets} \cap pupils
           r == [tx[t] EXCEPT !.op = "copy", !.old = old, !.page = page, !.roll = roll]
<1>1. tx' = [tx EXCEPT ![t] = r] /\ tx[t].op = "check"
  BY DEF ReadCopy
<1>2. tx[t] \in Tx
  BY DEF TypeOK
<1> HIDE DEF v, old, page, roll
<1>3. r.op = "copy" /\ r.version = tx[t].version /\ r.old = old /\ r.page = page
  BY <1>2 DEF Tx
<1> HIDE DEF r
<1>4. tx'[t] = r /\ \A o \in Sessions \ {t} : tx'[o] = tx[o]
  BY <1>1 DEF TypeOK
<1> QED
  BY <1>1, <1>3, <1>4 DEF old, page, v

\* The actions that leave the sessions' targets alone, open one with a target, or close one.
LEMMA AimedKept ==
  ASSUME TypeOK, Aimed, [Next]_vars
  PROVE  Aimed'
<1>1. ASSUME NEW t \in Sessions, Ends(t)
      PROVE  Aimed'
  BY <1>1 DEF Ends, Aimed, TypeOK, NoTx
<1>2. ASSUME NEW t \in Sessions, NEW s \in Sheets, NEW score \in Scores \cup {NoScore}, BeginEdit(t, s, score)
      PROVE  Aimed'
  BY <1>2 DEF BeginEdit, Aimed, TypeOK, NoTx
<1>3. ASSUME NEW t \in Sessions, NEW s \in Sheets, NEW want \in Results(note[s]), BeginGrade(t, s, want)
      PROVE  Aimed'
  BY <1>3 DEF BeginGrade, Aimed, TypeOK, NoTx
<1>4. ASSUME NEW t \in Sessions, NEW v \in Versions, BeginCopy(t, v)
      PROVE  Aimed'
  BY <1>4 DEF BeginCopy, Aimed, TypeOK, NoTx
<1>5. ASSUME NEW t \in Sessions, ReadCopy(t)
      PROVE  Aimed'
  BY <1>5, CopyOpened DEF Aimed
<1>6. ASSUME NEW t \in Sessions, NEW c \in Students, NEW u \in Users, BeginBind(t, c, u)
      PROVE  Aimed'
  BY <1>6 DEF BeginBind, Aimed, TypeOK, NoTx
<1>7. ASSUME NEW t \in Sessions, NEW u \in Users, NEW c \in Students \cup {NoOne}, BeginVisit(t, u, c)
      PROVE  Aimed'
  BY <1>7 DEF BeginVisit, Aimed, TypeOK, NoTx
<1>8. CASE UNCHANGED tx
  BY <1>8 DEF Aimed
<1> QED
  BY <1>1, <1>2, <1>3, <1>4, <1>5, <1>6, <1>7, <1>8
  DEF Next, vars, Publish, CommitNote, CommitCopy, CommitBind, CommitVisit, Abort, DeleteNote, Reassign,
      DeleteEntry, DeleteStudent, Unbind

LEMMA TypeKept ==
  ASSUME TypeOK, Aimed, [Next]_vars
  PROVE  TypeOK'
<1>1. CASE UNCHANGED vars
  BY <1>1 DEF vars, TypeOK
<1> QED
  BY <1>1, AnnotationsTyped, BookTyped, AccountsTyped DEF Next

(***************************************************************************)
(* Whose entries                                                           *)
(***************************************************************************)

Own(e) == /\ e.user # NoOne => <<e.user, e.name>> \in was
          /\ e.learner # NoOne => <<e.learner, e.name>> \in was

\* What a visit is about to claim is there, or has been deleted.
Claims(r) ==
  /\ r.student # NoOne => <<r.user, r.student>> \in was
  /\ \A v \in Versions, s \in Sheets : <<v, s>> \in r.old =>
       /\ entry[v][s].status # "none"
       /\ There(v, s) => <<r.user, entry[v][s].name>> \in was

\* Every account written beside a student, in a row or in what a session is about to
\* write, was bound to the student at some time.
Named ==
  /\ \A c \in Students : bound[c] # NoOne => <<bound[c], c>> \in was
  /\ enrolled \subseteq was
  /\ \A v \in Versions, s \in Sheets : Own(entry[v][s])
  /\ \A t \in Sessions : tx[t].op = "copy" => \A s \in Sheets : Own(tx[t].page[s])
  /\ \A t \in Sessions : tx[t].op = "visit" => Claims(tx[t])

LEMMA CopiedOwn ==
  ASSUME TypeOK, Named, NEW v \in Versions, NEW s \in Sheets
  PROVE  Own(Copied(v, s))
<1>1. CASE item[v][s].row = 0
  BY <1>1 DEF Copied, Own, NoEntry
<1>2. CASE item[v][s].row # 0
  <2> DEFINE user == IF Linked(name[s]) = NoOne THEN NoOne ELSE bound[name[s]]
  <2>1. user # NoOne => <<user, name[s]>> \in was
    BY DEF Linked, Named, TypeOK
  <2>2. Copied(v, s).user = user /\ Copied(v, s).name = name[s] /\ Copied(v, s).learner \in {user, NoOne}
    BY <1>2 DEF Copied
  <2> QED
    BY <2>1, <2>2 DEF Own
<1> QED
  BY <1>1, <1>2

LEMMA OrphansOwn ==
  ASSUME TypeOK, Named, NEW u \in Users, NEW c \in Students \cup {NoOne}, c # NoOne => bound[c] = u,
         NEW v \in Versions, NEW s \in Sheets, <<v, s>> \in Orphans(u, c)
  PROVE  There(v, s) /\ <<u, entry[v][s].name>> \in was
<1> DEFINE e == entry[v][s]
<1>1. /\ There(v, s)
      /\ e.user = u \/ (Linked(e.name) # NoOne /\ <<u, e.name>> \in enrolled \cup {<<u, c>>})
  BY DEF Orphans
<1>2. u # NoOne
  BY Outside
<1>3. CASE e.user = u
  BY <1>1, <1>2, <1>3 DEF Named, Own
<1>4. CASE <<u, e.name>> \in enrolled
  BY <1>1, <1>4 DEF Named
<1>5. CASE e.name = c /\ Linked(e.name) # NoOne
  <2>1. c \in Students /\ bound[c] = u
    BY <1>5 DEF Linked, TypeOK
  <2> QED
    BY <1>1, <1>2, <1>5, <2>1 DEF Named
<1> QED
  BY <1>1, <1>3, <1>4, <1>5

LEMMA NamedKept ==
  ASSUME TypeOK, Aimed, Named, [Next]_vars
  PROVE  Named'
<1> USE DEF There
\* A session that ends, or begins with something else than a copy or a visit, next to no other change
\* than accounts unbound and bindings added to the history.
<1>1. ASSUME NEW t \in Sessions, \A o \in Sessions \ {t} : tx'[o] = tx[o], tx'[t].op \notin {"copy", "visit"},
             UNCHANGED <<enrolled, entry>>, was \subseteq was',
             \A c \in Students : bound'[c] # NoOne => <<bound'[c], c>> \in was'
      PROVE  Named'
  <2>1. \A o \in Sessions : tx'[o].op \in {"copy", "visit"} => tx'[o] = tx[o]
    BY <1>1
  <2>2. enrolled' \subseteq was'
    BY <1>1 DEF Named
  <2>3. \A v \in Versions, s \in Sheets : Own(entry[v][s])'
    BY <1>1 DEF Named, Own
  <2>4. ASSUME NEW o \in Sessions, tx'[o].op = "copy", NEW s \in Sheets
        PROVE  Own(tx[o].page[s])'
    <3>1. tx'[o] = tx[o]
      BY <2>1, <2>4
    <3>2. Own(tx[o].page[s])
      BY <2>4, <3>1 DEF Named
    <3> QED
      BY <1>1, <3>1, <3>2 DEF Own
  <2>5. ASSUME NEW o \in Sessions, tx'[o].op = "visit"
        PROVE  Claims(tx[o])'
    <3>1. tx'[o] = tx[o]
      BY <2>1, <2>5
    <3>2. Claims(tx[o])
      BY <2>5, <3>1 DEF Named
    <3> QED
      BY <1>1, <3>1, <3>2 DEF Claims
  <2> QED
    BY <1>1, <2>2, <2>3, <2>4, <2>5 DEF Named
<1>2. ASSUME UNCHANGED <<tx, enrolled, entry, was>>, \A c \in Students : bound'[c] \in {bound[c], NoOne}
      PROVE  Named'
  BY <1>2 DEF Named, Own, Claims
<1>3. ASSUME NEW t \in Sessions, \A o \in Sessions \ {t} : tx'[o] = tx[o], UNCHANGED <<bound, enrolled, entry, was>>,
             tx'[t].op = "copy" => \A s \in Sheets : Own(tx'[t].page[s]),
             tx'[t].op = "visit" => Claims(tx'[t])
      PROVE  Named'
  <2>1. ASSUME NEW o \in Sessions, tx'[o].op = "copy", NEW s \in Sheets
        PROVE  Own(tx[o].page[s])'
    BY <1>3, <2>1 DEF Named, Own
  <2>2. ASSUME NEW o \in Sessions, tx'[o].op = "visit"
        PROVE  Claims(tx[o])'
    <3>1. Claims(tx'[o])
      BY <1>3, <2>2 DEF Named
    <3> QED
      BY <1>3, <3>1 DEF Claims
  <2>3. \A v \in Versions, s \in Sheets : Own(entry[v][s])'
    BY <1>3 DEF Named, Own
  <2>4. \A o \in Sessions : (tx[o].op = "copy" => \A s \in Sheets : Own(tx[o].page[s]))'
    <3>1. \A s \in Sheets : tx'[t].op = "copy" => Own(tx[t].page[s])'
      BY <1>3 DEF Own
    <3> QED
      BY <1>3, <2>1, <3>1
  <2>5. \A o \in Sessions : (tx[o].op = "visit" => Claims(tx[o]))'
    <3>1. tx'[t].op = "visit" => Claims(tx[t])'
      BY <1>3 DEF Claims
    <3> QED
      BY <1>3, <2>2, <3>1
  <2> QED
    BY <1>3, <2>3, <2>4, <2>5 DEF Named
<1>4. ASSUME NEW t \in Sessions, ReadCopy(t)
      PROVE  Named'
  <2>1. tx[t].version \in Versions
    BY <1>4, CopyOpened DEF Aimed
  <2>2. \A s \in Sheets : Own(tx'[t].page[s])
    <3>1. tx'[t].page = [s \in Sheets |-> Copied(tx[t].version, s)]
      BY <1>4, CopyOpened
    <3>2. \A s \in Sheets : Own(Copied(tx[t].version, s))
      BY <2>1, CopiedOwn
    <3> QED
      BY <3>1, <3>2
  <2>3. UNCHANGED <<bound, enrolled, entry, was>>
    BY <1>4, Zenon DEF ReadCopy
  <2> QED
    BY <1>3, <1>4, <2>2, <2>3, CopyOpened
<1>5. ASSUME NEW t \in Sessions, NEW u \in Users, NEW c \in Students \cup {NoOne}, BeginVisit(t, u, c)
      PROVE  Named'
  <2>1. c # NoOne => bound[c] = u
    BY <1>5 DEF BeginVisit
  <2>2. tx'[t].op = "visit" /\ tx'[t].user = u /\ tx'[t].student = c /\ tx'[t].old = Orphans(u, c)
    BY <1>5 DEF BeginVisit, TypeOK, NoTx
  <2>3. c # NoOne => <<u, c>> \in was
    BY <2>1, Outside DEF Named
  <2>4. \A v \in Versions, s \in Sheets : <<v, s>> \in Orphans(u, c) => There(v, s) /\ <<u, entry[v][s].name>> \in was
    BY <2>1, OrphansOwn
  <2>5. Claims(tx'[t])
    BY <2>2, <2>3, <2>4 DEF Claims
  <2>6. UNCHANGED <<bound, enrolled, entry, was>> /\ \A o \in Sessions \ {t} : tx'[o] = tx[o]
    BY <1>5 DEF BeginVisit, TypeOK
  <2> QED
    BY <1>3, <2>2, <2>5, <2>6
\* Entries that keep their names and, once they are there or deleted, are not written again.
<1>6. ASSUME tx' = tx \/ (\E t \in Sessions : Ends(t)), UNCHANGED bound, enrolled' \subseteq was', was' = was,
             \A v \in Versions, s \in Sheets :
               /\ Own(entry'[v][s])
               /\ entry[v][s].status # "none" => entry'[v][s].status # "none"
               /\ entry[v][s].status # "none" /\ There(v, s)' => There(v, s) /\ entry'[v][s].name = entry[v][s].name
      PROVE  Named'
  <2>1. \A o \in Sessions : tx'[o].op # "none" => tx'[o] = tx[o]
    BY <1>6 DEF Ends, TypeOK, NoTx
  <2>2. ASSUME NEW o \in Sessions, tx'[o].op = "copy", NEW s \in Sheets
        PROVE  Own(tx[o].page[s])'
    BY <1>6, <2>1, <2>2 DEF Named, Own
  <2>3. ASSUME NEW o \in Sessions, tx'[o].op = "visit"
        PROVE  Claims(tx[o])'
    <3>1. Claims(tx[o]) /\ tx'[o] = tx[o]
      BY <2>1, <2>3 DEF Named
    <3> QED
      BY <1>6, <3>1 DEF Claims
  <2>4. \A v \in Versions, s \in Sheets : Own(entry[v][s])'
    BY <1>6 DEF Own
  <2> QED
    BY <1>6, <2>2, <2>3, <2>4 DEF Named
<1>7. ASSUME NEW t \in Sessions, CommitCopy(t)
      PROVE  Named'
  <2>1. tx[t].version \in Versions /\ tx[t].op = "copy" /\ Fresh(tx[t].version)
    BY <1>7 DEF CommitCopy, Aimed
  <2>2. ASSUME NEW v \in Versions, NEW s \in Sheets
        PROVE  /\ Own(entry'[v][s])
               /\ entry[v][s].status # "none" => entry'[v][s].status # "none"
               /\ entry[v][s].status # "none" /\ There(v, s)' => There(v, s) /\ entry'[v][s].name = entry[v][s].name
    <3>1. Own(entry[v][s]) /\ Own(tx[t].page[s])
      BY <2>1 DEF Named
    <3>2. CASE v = tx[t].version
      <4>1. entry[v][s].status = "none"
        BY <2>1, <3>2 DEF Fresh, Written
      <4>2. entry'[v][s] \in {entry[v][s], tx[t].page[s]}
        BY <1>7, <3>2 DEF CommitCopy
      <4> QED
        BY <3>1, <4>1, <4>2
    <3>3. CASE v # tx[t].version
      <4>1. entry'[v][s] = IF <<v, s>> \in tx[t].old THEN [entry[v][s] EXCEPT !.status = "superseded"] ELSE entry[v][s]
        BY <1>7, <3>3 DEF CommitCopy
      <4>2. <<v, s>> \in tx[t].old => There(v, s)
        BY <1>7 DEF CommitCopy
      <4>3. entry[v][s] \in Entry
        BY DEF TypeOK
      <4> QED
        BY <3>1, <4>1, <4>2, <4>3 DEF Own, Entry
    <3> QED
      BY <3>2, <3>3
  <2> QED
    BY <1>6, <1>7, <2>2 DEF CommitCopy, Named
<1>8. ASSUME NEW t \in Sessions, CommitVisit(t)
      PROVE  Named'
  <2>1. tx[t].op = "visit" /\ tx[t].user # NoOne /\ Claims(tx[t])
    BY <1>8, Outside DEF CommitVisit, Aimed, Named
  <2>2. ASSUME NEW v \in Versions, NEW s \in Sheets
        PROVE  /\ Own(entry'[v][s])
               /\ entry[v][s].status # "none" => entry'[v][s].status # "none"
               /\ entry[v][s].status # "none" /\ There(v, s)' => There(v, s) /\ entry'[v][s].name = entry[v][s].name
    <3>1. Own(entry[v][s])
      BY DEF Named
    <3>2. <<v, s>> \in tx[t].old => <<tx[t].user, entry[v][s].name>> \in was
      BY <1>8, <2>1 DEF CommitVisit, Claims
    <3>3. entry'[v][s] = IF <<v, s>> \in tx[t].old THEN [entry[v][s] EXCEPT !.learner = tx[t].user] ELSE entry[v][s]
      BY <1>8 DEF CommitVisit
    <3>4. entry[v][s] \in Entry
      BY DEF TypeOK
    <3> QED
      BY <3>1, <3>2, <3>3, <3>4 DEF Own, Entry
  <2>3. enrolled' \subseteq was
    BY <1>8, <2>1 DEF CommitVisit, Claims, Named
  <2> QED
    BY <1>6, <1>8, <2>2, <2>3 DEF CommitVisit
<1>9. ASSUME NEW v \in Versions, NEW s \in Sheets, DeleteEntry(v, s)
      PROVE  Named'
  <2>1. ASSUME NEW w \in Versions, NEW h \in Sheets
        PROVE  /\ Own(entry'[w][h])
               /\ entry[w][h].status # "none" => entry'[w][h].status # "none"
               /\ entry[w][h].status # "none" /\ There(w, h)' => There(w, h) /\ entry'[w][h].name = entry[w][h].name
    <3>1. entry'[w][h] = IF w = v /\ h = s THEN [NoEntry EXCEPT !.status = "deleted"] ELSE entry[w][h]
      BY <1>9 DEF DeleteEntry, TypeOK
    <3> QED
      BY <3>1 DEF Named, Own, NoEntry
  <2> QED
    BY <1>6, <1>9, <2>1 DEF DeleteEntry, Named
\* What is left touches neither entries nor stays.
<1>10. ASSUME NEW t \in Sessions,
              \/ \E s \in Sheets, score \in Scores \cup {NoScore} : BeginEdit(t, s, score)
              \/ \E s \in Sheets : \E want \in Results(note[s]) : BeginGrade(t, s, want)
              \/ \E v \in Versions : BeginCopy(t, v)
              \/ \E c \in Students, u \in Users : BeginBind(t, c, u)
              \/ CommitNote(t) \/ CommitBind(t) \/ Abort(t)
       PROVE  Named'
  <2>1. /\ \A o \in Sessions \ {t} : tx'[o] = tx[o]
        /\ tx'[t].op \notin {"copy", "visit"}
    <3>1. CASE \E s \in Sheets, score \in Scores \cup {NoScore} : BeginEdit(t, s, score)
      BY <3>1 DEF BeginEdit, NoTx, TypeOK
    <3>2. CASE \E s \in Sheets : \E want \in Results(note[s]) : BeginGrade(t, s, want)
      BY <3>2 DEF BeginGrade, NoTx, TypeOK
    <3>3. CASE \E v \in Versions : BeginCopy(t, v)
      BY <3>3 DEF BeginCopy, NoTx, TypeOK
    <3>4. CASE \E c \in Students, u \in Users : BeginBind(t, c, u)
      BY <3>4 DEF BeginBind, NoTx, TypeOK
    <3>5. CASE Ends(t)
      BY <3>5 DEF Ends, NoTx, TypeOK
    <3> QED
      BY <1>10, <3>1, <3>2, <3>3, <3>4, <3>5 DEF CommitNote, CommitBind, Abort
  <2>2. UNCHANGED <<enrolled, entry>> /\ was \subseteq was'
    BY <1>10 DEF BeginEdit, BeginGrade, BeginCopy, BeginBind, CommitNote, CommitBind, Abort
  <2>3. \A c \in Students : bound'[c] # NoOne => <<bound'[c], c>> \in was'
    BY <1>10 DEF BeginEdit, BeginGrade, BeginCopy, BeginBind, CommitNote, CommitBind, Abort, Named, TypeOK
  <2> QED
    BY <1>1, <2>1, <2>2, <2>3
<1>11. ASSUME \/ Publish \/ UNCHANGED vars
              \/ \E s \in Sheets : DeleteNote(s) \/ \E c \in Students : Reassign(s, c)
              \/ \E c \in Students : DeleteStudent(c) \/ Unbind(c)
       PROVE  Named'
  <2>1. UNCHANGED <<tx, enrolled, entry, was>>
    BY <1>11 DEF Publish, vars, DeleteNote, Reassign, DeleteStudent, Unbind
  <2>2. \A c \in Students : bound'[c] \in {bound[c], NoOne}
    BY <1>11 DEF Publish, vars, DeleteNote, Reassign, DeleteStudent, Unbind, TypeOK
  <2> QED
    BY <1>2, <2>1, <2>2
<1> QED
  BY <1>4, <1>5, <1>7, <1>8, <1>9, <1>10, <1>11 DEF Next

(***************************************************************************)
(* Which release the book shows                                            *)
(***************************************************************************)

\* Before the first publication during a copy, every copy is of the newest release, and
\* will supersede all that is active of the others.
Newest ==
  /\ \A t \in Sessions : tx[t].op \in {"check", "copy"} => tx[t].version = released
  /\ \A t \in Sessions : tx[t].op = "copy" =>
       \A v \in Versions, s \in Sheets : v # released /\ entry[v][s].status = "active" => <<v, s>> \in tx[t].old
  /\ \A v, w \in Versions : v < w /\ Written(w) => \A s \in Sheets : entry[v][s].status # "active"

Ordered ==
  /\ \A v \in Versions : status[v] = IF v < released THEN "superseded" ELSE IF v = released THEN "published" ELSE "none"
  /\ \A t \in Sessions : tx[t].op \in {"check", "copy"} => tx[t].version <= released
  /\ \A v \in Versions : Written(v) => v <= released
  /\ ~overtaken => Newest

LEMMA OrderedKept ==
  ASSUME TypeOK, Aimed, Ordered, [Next]_vars
  PROVE  Ordered'
<1>1. ASSUME status' = status, released' = released, ~overtaken' => ~overtaken,
             \A o \in Sessions : tx'[o].op \in {"check", "copy"} => tx'[o] = tx[o],
             \A v \in Versions, s \in Sheets :
               entry'[v][s].status = entry[v][s].status \/ (entry[v][s].status # "none" /\ entry'[v][s].status = "deleted")
      PROVE  Ordered'
  <2>1. \A v \in Versions : Written(v)' => Written(v)
    BY <1>1 DEF Written
  <2>2. \A v \in Versions, s \in Sheets : entry'[v][s].status = "active" => entry[v][s].status = "active"
    BY <1>1
  <2>3. Newest => Newest'
    BY <1>1, <2>1, <2>2 DEF Newest
  <2> QED
    BY <1>1, <2>1, <2>3 DEF Ordered
<1>2. ASSUME Publish
      PROVE  Ordered'
  <2>1. released' = released + 1 /\ released \in Nat /\ released + 1 \in Versions /\ UNCHANGED <<tx, entry>>
    BY <1>2, BoundsNat DEF Publish, TypeOK, Versions
  <2>2. \A v \in Versions : status'[v] = IF v < released' THEN "superseded" ELSE IF v = released' THEN "published" ELSE "none"
    BY <1>2, <2>1 DEF Publish, Ordered, Versions
  <2>3. \A v \in Versions : Written(v)' => v <= released'
    BY <2>1 DEF Written, Ordered, Versions
  <2>4. \A t \in Sessions : tx'[t].op \in {"check", "copy"} => tx'[t].version <= released'
    BY <2>1 DEF Ordered, Aimed, Versions
  <2>5. ASSUME ~overtaken'
        PROVE  Newest'
    <3>1. ~overtaken /\ \A t \in Sessions : tx[t].op \notin {"check", "copy"}
      BY <1>2, <2>5 DEF Publish
    <3> QED
      BY <2>1, <3>1 DEF Newest, Ordered, Written
  <2> QED
    BY <2>2, <2>3, <2>4, <2>5 DEF Ordered
<1>3. ASSUME NEW t \in Sessions, NEW v \in Versions, BeginCopy(t, v)
      PROVE  Ordered'
  <2>1. v = released
    BY <1>3 DEF BeginCopy, Ordered
  <2>2. /\ tx'[t].op = "check" /\ tx'[t].version = v /\ \A o \in Sessions \ {t} : tx'[o] = tx[o]
        /\ UNCHANGED <<status, released, overtaken, entry>>
    BY <1>3 DEF BeginCopy, NoTx, TypeOK
  <2>3. Newest => Newest'
    BY <2>1, <2>2 DEF Newest, Written
  <2> QED
    BY <2>1, <2>2, <2>3 DEF Ordered, Written, Versions
<1>4. ASSUME NEW t \in Sessions, ReadCopy(t)
      PROVE  Ordered'
  <2>1. UNCHANGED <<status, released, overtaken, entry>>
    BY <1>4 DEF ReadCopy
  <2>2. ASSUME Newest
        PROVE  Newest'
    <3>1. tx[t].version = released
      BY <1>4, <2>2, CopyOpened DEF Newest
    <3>2. \A w \in Versions, s \in Sheets : w # released /\ entry[w][s].status = "active" => <<w, s>> \in tx'[t].old
      BY <1>4, <3>1, CopyOpened
    <3>3. \A o \in Sessions : tx'[o].op \in {"check", "copy"} => tx'[o].version = released'
      BY <1>4, <2>1, <2>2, <3>1, CopyOpened DEF Newest
    <3>4. \A o \in Sessions : tx'[o].op = "copy" =>
       \A w \in Versions, s \in Sheets : w # released' /\ entry'[w][s].status = "active" => <<w, s>> \in tx'[o].old
      BY <1>4, <2>1, <2>2, <3>2, CopyOpened DEF Newest
    <3>5. \A w, x \in Versions : w < x /\ Written(x)' => \A s \in Sheets : entry'[w][s].status # "active"
      BY <2>1, <2>2 DEF Newest, Written
    <3> QED
      BY <3>3, <3>4, <3>5 DEF Newest
  <2>3. \A o \in Sessions : tx'[o].op \in {"check", "copy"} => tx'[o].version <= released'
    BY <1>4, <2>1, CopyOpened DEF Ordered
  <2> QED
    BY <2>1, <2>2, <2>3 DEF Ordered, Written
<1>5. ASSUME NEW t \in Sessions, CommitCopy(t)
      PROVE  Ordered'
  <2> DEFINE v == tx[t].version
  <2>1. v \in Versions /\ v <= released /\ UNCHANGED <<status, released, overtaken>>
    BY <1>5 DEF CommitCopy, Aimed, Ordered
  <2>2. \A o \in Sessions : tx'[o].op \in {"check", "copy"} => tx'[o] = tx[o]
    BY <1>5 DEF CommitCopy, Ends, NoTx, TypeOK
  <2>3. \A w \in Versions \ {v}, s \in Sheets :
          entry'[w][s] = IF <<w, s>> \in tx[t].old THEN [entry[w][s] EXCEPT !.status = "superseded"] ELSE entry[w][s]
    BY <1>5 DEF CommitCopy
  <2>4. \A w \in Versions \ {v}, s \in Sheets :
          entry'[w][s].status = IF <<w, s>> \in tx[t].old THEN "superseded" ELSE entry[w][s].status
    <3> SUFFICES ASSUME NEW w \in Versions \ {v}, NEW s \in Sheets
                 PROVE  entry'[w][s].status = IF <<w, s>> \in tx[t].old THEN "superseded" ELSE entry[w][s].status
      OBVIOUS
    <3>1. entry[w][s] \in Entry
      BY DEF TypeOK
    <3>2. [entry[w][s] EXCEPT !.status = "superseded"].status = "superseded"
      BY <3>1 DEF Entry
    <3> QED
      BY <2>3, <3>2
  <2>5. \A p \in tx[t].old : There(p[1], p[2])
    BY <1>5 DEF CommitCopy
  <2>6. \A w \in Versions \ {v} : Written(w)' => Written(w)
    BY <2>4, <2>5 DEF Written, There
  <2>7. \A w \in Versions : Written(w)' => w <= released'
    BY <2>1, <2>6 DEF Ordered
  <2>8. ASSUME Newest
        PROVE  Newest'
    <3>1. v = released
      BY <1>5, <2>8 DEF CommitCopy, Newest
    <3>2. \A w \in Versions \ {v}, s \in Sheets : entry'[w][s].status # "active"
      <4> SUFFICES ASSUME NEW w \in Versions \ {v}, NEW s \in Sheets
                   PROVE  entry'[w][s].status # "active"
        OBVIOUS
      <4>1. entry[w][s].status = "active" => <<w, s>> \in tx[t].old
        BY <1>5, <2>8, <3>1 DEF CommitCopy, Newest
      <4> QED
        BY <2>4, <4>1
    <3>3. \A w, x \in Versions : w < x /\ Written(x)' => w # v
      BY <2>1, <2>7, <3>1 DEF Versions
    <3> QED
      BY <2>1, <2>2, <2>8, <3>1, <3>2, <3>3 DEF Newest
  <2> QED
    BY <2>1, <2>2, <2>7, <2>8 DEF Ordered
\* The other actions leave releases alone, and of the entries they change the status of one to deleted at most.
<1>6. ASSUME NEW t \in Sessions,
             \/ \E s \in Sheets, score \in Scores \cup {NoScore} : BeginEdit(t, s, score)
             \/ \E s \in Sheets : \E want \in Results(note[s]) : BeginGrade(t, s, want)
             \/ \E c \in Students, u \in Users : BeginBind(t, c, u)
             \/ \E u \in Users, c \in Students \cup {NoOne} : BeginVisit(t, u, c)
      PROVE  Ordered'
  <2>1. status' = status /\ released' = released /\ overtaken' = overtaken /\ entry' = entry
    BY <1>6 DEF BeginEdit, BeginGrade, BeginBind, BeginVisit
  <2>2. \A o \in Sessions : tx'[o].op \in {"check", "copy"} => tx'[o] = tx[o]
    <3>1. CASE \E s \in Sheets, score \in Scores \cup {NoScore} : BeginEdit(t, s, score)
      BY <3>1 DEF BeginEdit, NoTx, TypeOK
    <3>2. CASE \E s \in Sheets : \E want \in Results(note[s]) : BeginGrade(t, s, want)
      BY <3>2 DEF BeginGrade, NoTx, TypeOK
    <3>3. CASE \E c \in Students, u \in Users : BeginBind(t, c, u)
      BY <3>3 DEF BeginBind, NoTx, TypeOK
    <3>4. CASE \E u \in Users, c \in Students \cup {NoOne} : BeginVisit(t, u, c)
      BY <3>4 DEF BeginVisit, NoTx, TypeOK
    <3> QED
      BY <1>6, <3>1, <3>2, <3>3, <3>4
  <2> QED
    <3>1. \A v \in Versions, s \in Sheets :
               entry'[v][s].status = entry[v][s].status \/ (entry[v][s].status # "none" /\ entry'[v][s].status = "deleted")
      BY <2>1
    <3>2. ~overtaken' => ~overtaken
      BY Zenon, <2>1
    <3> QED
      BY Zenon, <1>1, <2>1, <2>2, <3>1, <3>2
<1>7. ASSUME NEW t \in Sessions, CommitNote(t) \/ CommitBind(t) \/ CommitVisit(t) \/ Abort(t)
      PROVE  Ordered'
  <2>1. \A o \in Sessions : tx'[o].op \in {"check", "copy"} => tx'[o] = tx[o]
    BY <1>7 DEF CommitNote, CommitBind, CommitVisit, Abort, Ends, NoTx, TypeOK
  <2>2. status' = status /\ released' = released /\ (~overtaken' => ~overtaken)
    BY <1>7 DEF CommitNote, CommitBind, CommitVisit, Abort
  <2>3. \A v \in Versions, s \in Sheets : entry'[v][s].status = entry[v][s].status
    <3> SUFFICES ASSUME NEW v \in Versions, NEW s \in Sheets
                 PROVE  entry'[v][s].status = entry[v][s].status
      OBVIOUS
    <3>1. CASE entry' = entry
      BY <3>1
    <3>2. CASE CommitVisit(t)
      <4>1. entry'[v][s] = IF <<v, s>> \in tx[t].old THEN [entry[v][s] EXCEPT !.learner = tx[t].user] ELSE entry[v][s]
        BY <3>2 DEF CommitVisit
      <4>2. entry[v][s] \in Entry
        BY DEF TypeOK
      <4> QED
        BY <4>1, <4>2 DEF Entry
    <3> QED
      BY <1>7, <3>1, <3>2 DEF CommitNote, CommitBind, Abort
  <2> QED
    <3>1. \A v \in Versions, s \in Sheets :
               entry'[v][s].status = entry[v][s].status \/ (entry[v][s].status # "none" /\ entry'[v][s].status = "deleted")
      BY <2>3
    <3> QED
      BY Zenon, <1>1, <2>1, <2>2, <3>1
<1>8. ASSUME NEW v \in Versions, NEW s \in Sheets, DeleteEntry(v, s)
      PROVE  Ordered'
  <2>1. \A w \in Versions, h \in Sheets : entry'[w][h] = IF w = v /\ h = s THEN [NoEntry EXCEPT !.status = "deleted"] ELSE entry[w][h]
    BY <1>8 DEF DeleteEntry, TypeOK
  <2>2. entry[v][s].status # "none" /\ entry'[v][s].status = "deleted"
    BY <1>8, <2>1 DEF DeleteEntry, There, NoEntry
  <2>3. tx' = tx /\ status' = status /\ released' = released /\ (~overtaken' => ~overtaken)
    BY <1>8 DEF DeleteEntry
  <2>4. \A w \in Versions, h \in Sheets :
               entry'[w][h].status = entry[w][h].status \/ (entry[w][h].status # "none" /\ entry'[w][h].status = "deleted")
    BY <2>1, <2>2
  <2> QED
    <3>1. \A o \in Sessions : tx'[o].op \in {"check", "copy"} => tx'[o] = tx[o]
      BY <2>3
    <3> QED
      BY Zenon, <1>1, <2>3, <2>4, <3>1
<1>9. ASSUME \/ UNCHANGED vars
             \/ \E s \in Sheets : DeleteNote(s) \/ \E c \in Students : Reassign(s, c)
             \/ \E c \in Students : DeleteStudent(c) \/ Unbind(c)
      PROVE  Ordered'
  <2>1. tx' = tx /\ status' = status /\ released' = released /\ (~overtaken' => ~overtaken) /\ entry' = entry
    BY <1>9 DEF vars, DeleteNote, Reassign, DeleteStudent, Unbind
  <2> QED
    <3>1. \A o \in Sessions : tx'[o].op \in {"check", "copy"} => tx'[o] = tx[o]
      BY <2>1
    <3>2. \A v \in Versions, s \in Sheets :
               entry'[v][s].status = entry[v][s].status \/ (entry[v][s].status # "none" /\ entry'[v][s].status = "deleted")
      BY <2>1
    <3> QED
      BY Zenon, <1>1, <2>1, <3>1, <3>2
<1> QED
  BY <1>2, <1>3, <1>4, <1>5, <1>6, <1>7, <1>8, <1>9 DEF Next

(***************************************************************************)
(* Whose points are shown                                                  *)
(***************************************************************************)

\* A score that is not a teacher's is the model's, or there is none of the model.
Fits(n) == n.source # "human" => n.model \in {NoScore, n.score}

\* The points are those of the score beside them.
Agrees(e) == e.score # NoScore => e.missed \in {NoScore, e.score}

\* What a release has of an annotation is still what the model's points are for.
Explained(i, n) == i.row # 0 /\ n.there /\ n.row = i.row /\ i.source = "suggested" => n.model \in {NoScore, i.score}

\* A write of an annotation nobody else has written meanwhile: it is as it was read, or deleted.
Writes(r) ==
  /\ r.sheet \notin late => note[r.sheet] = r.seen \/ (r.seen.there /\ ~note[r.sheet].there)
  /\ r.op = "edit" => r.seen.there /\ r.want.source = "human" /\ r.want.model = r.seen.model /\ r.want.row = r.seen.row
  /\ r.op = "grade" => (Fits(r.seen) => Fits(r.want))

Matched ==
  /\ \A s \in Sheets : s \notin late => Fits(note[s])
  /\ \A t \in Sessions : tx[t].op \in {"edit", "grade"} => Writes(tx[t])
  /\ released = 0 => \A v \in Versions, s \in Sheets : item[v][s].row = 0
  /\ \A v \in Versions, s \in Sheets : s \notin late => Explained(item[v][s], note[s])
  /\ \A t \in Sessions : tx[t].op = "copy" => \A s \in Sheets : s \notin late => Agrees(tx[t].page[s])
  /\ \A v \in Versions, s \in Sheets : s \notin late => Agrees(entry[v][s])

LEMMA CopiedAgrees ==
  ASSUME TypeOK, Matched, NEW v \in Versions, NEW s \in Sheets, s \notin late
  PROVE  Agrees(Copied(v, s))
<1> DEFINE i == item[v][s]
           n == note[s]
<1>1. CASE i.row = 0
  BY <1>1 DEF Copied, Agrees, NoEntry
<1>2. CASE i.row # 0
  <2>1. Copied(v, s).score = i.score /\ Copied(v, s).missed = Missed(i, n)
    BY <1>2 DEF Copied
  <2>2. i.source \in {"suggested", "human"} /\ Explained(i, n)
    BY DEF TypeOK, Item, Matched
  <2>3. i.score # NoScore => Missed(i, n) \in {NoScore, i.score}
    BY <1>2, <2>2 DEF Missed, Explained
  <2> QED
    BY <2>1, <2>3 DEF Agrees
<1> QED
  BY <1>1, <1>2

LEMMA MatchedKept ==
  ASSUME TypeOK, Aimed, Matched, [Next]_vars
  PROVE  Matched'
\* Steps that leave annotations and releases alone, and write no points.
<1>1. ASSUME note' = note, released' = released, item' = item, late' = late,
             \A o \in Sessions : tx'[o].op \in {"edit", "grade"} => tx'[o] = tx[o],
             \A o \in Sessions : tx'[o].op = "copy" => \A s \in Sheets : s \notin late => Agrees(tx'[o].page[s]),
             \A v \in Versions, s \in Sheets : s \notin late => Agrees(entry'[v][s])
      PROVE  Matched'
  <2>1. \A t \in Sessions : tx'[t].op \in {"edit", "grade"} => Writes(tx[t])'
    <3> SUFFICES ASSUME NEW t \in Sessions, tx'[t].op \in {"edit", "grade"} PROVE Writes(tx[t])'
      OBVIOUS
    <3>1. tx'[t] = tx[t] /\ Writes(tx[t])
      BY <1>1 DEF Matched
    <3> QED
      BY <1>1, <3>1 DEF Writes, Fits
  <2> QED
    BY <1>1, <2>1 DEF Matched, Fits, Explained, Agrees
<1>9. ASSUME NEW t \in Sessions, \A o \in Sessions \ {t} : tx'[o] = tx[o], tx'[t].op \in {"edit", "grade"}, Writes(tx'[t]),
             note' = note, released' = released, item' = item, late' = late, entry' = entry
      PROVE  Matched'
  <2>1. \A o \in Sessions : tx'[o].op \in {"edit", "grade"} => Writes(tx[o])'
    <3> SUFFICES ASSUME NEW o \in Sessions, tx'[o].op \in {"edit", "grade"} PROVE Writes(tx[o])'
      OBVIOUS
    <3>1. Writes(tx'[o])
      BY <1>9 DEF Matched
    <3> QED
      BY <1>9, <3>1 DEF Writes, Fits
  <2>2. \A o \in Sessions : tx'[o].op = "copy" => tx'[o] = tx[o]
    BY <1>9
  <2> QED
    BY <1>9, <2>1, <2>2 DEF Matched, Fits, Explained, Agrees
<1>2. ASSUME NEW t \in Sessions, NEW s \in Sheets, NEW score \in Scores \cup {NoScore}, BeginEdit(t, s, score)
      PROVE  Matched'
  <2>1. tx'[t].op = "edit" /\ tx'[t].sheet = s /\ tx'[t].seen = note[s] /\ tx'[t].want = Edited(note[s], score)
    BY <1>2 DEF BeginEdit, NoTx, TypeOK
  <2>2. /\ Edited(note[s], score).source = "human" /\ Edited(note[s], score).model = note[s].model
        /\ Edited(note[s], score).row = note[s].row
    BY DEF Edited, TypeOK, Note
  <2>3. note[s].there
    BY <1>2 DEF BeginEdit
  <2>4. Writes(tx'[t])
    BY <2>1, <2>2, <2>3 DEF Writes
  <2>5. \A o \in Sessions \ {t} : tx'[o] = tx[o]
    BY <1>2 DEF BeginEdit, TypeOK
  <2> QED
    BY <1>2, <1>9, <2>1, <2>4, <2>5 DEF BeginEdit
<1>3. ASSUME NEW t \in Sessions, NEW s \in Sheets, NEW want \in Results(note[s]), BeginGrade(t, s, want)
      PROVE  Matched'
  <2>1. tx'[t].op = "grade" /\ tx'[t].sheet = s /\ tx'[t].seen = note[s] /\ tx'[t].want = want
    BY <1>3 DEF BeginGrade, NoTx, TypeOK
  <2>2. Fits(note[s]) => Fits(want)
    BY ResultsSay DEF Fits, TypeOK
  <2>3. Writes(tx'[t])
    BY <2>1, <2>2 DEF Writes
  <2>4. \A o \in Sessions \ {t} : tx'[o] = tx[o]
    BY <1>3 DEF BeginGrade, TypeOK
  <2> QED
    BY <1>3, <1>9, <2>1, <2>3, <2>4 DEF BeginGrade
<1>4. ASSUME NEW t \in Sessions, CommitNote(t)
      PROVE  Matched'
  <2> DEFINE s == tx[t].sheet
             n == note[s]
             m == Merged(n, tx[t].seen, tx[t].want)
  <2>1. s \in Sheets /\ tx[t].seen \in Note /\ tx[t].want \in Note /\ n \in Note /\ Writes(tx[t])
    BY <1>4 DEF CommitNote, TypeOK, Tx, Matched
  <2>2. \A h \in Sheets : note'[h] = IF h = s THEN m ELSE note[h]
    BY <1>4, <2>1 DEF CommitNote, TypeOK
  <2>3. released' = released /\ item' = item /\ entry' = entry /\ late \subseteq late'
    BY <1>4 DEF CommitNote
  <2>4. \A o \in Sessions : tx'[o].op # "none" => tx'[o] = tx[o] /\ o # t
    BY <1>4 DEF CommitNote, Ends, NoTx, TypeOK
  <2>5. \A o \in Sessions \ {t} : tx[o].op \in {"edit", "grade"} /\ tx[o].sheet = s => s \in late'
    BY <1>4 DEF CommitNote
  <2>6. tx[t].op = "grade" /\ released # 0 => s \in late'
    BY <1>4 DEF CommitNote, TypeOK
  <2>7. n.row = tx[t].seen.row /\ n.there = tx[t].seen.there /\ tx[t].op \in {"edit", "grade"}
    BY <1>4 DEF CommitNote
  <2>8. s \notin late => n = tx[t].seen
    BY Zenon, <2>1, <2>7 DEF Writes
  <2>9. s \notin late' => Fits(m)
    <3> SUFFICES ASSUME s \notin late' PROVE Fits(m)
      OBVIOUS
    <3>1. n = tx[t].seen /\ Fits(n)
      BY <2>1, <2>3, <2>8 DEF Matched
    <3>2. Fits(tx[t].want)
      BY <2>1, <2>7, <3>1 DEF Writes, Fits
    <3>3. m.source = tx[t].want.source /\ m.model = tx[t].want.model /\ m.score = tx[t].want.score
      BY <3>1 DEF Merged
    <3> QED
      BY <3>2, <3>3 DEF Fits
  <2>10. ASSUME NEW v \in Versions, s \notin late'
         PROVE  Explained(item[v][s], m)
    <3>1. CASE tx[t].op = "grade"
      <4>1. released = 0
        BY <2>6, <2>10, <3>1
      <4>2. item[v][s].row = 0
        BY <2>1, <4>1 DEF Matched
      <4> QED
        BY <4>2 DEF Explained
    <3>2. CASE tx[t].op = "edit"
      <4>1. m.model = n.model /\ m.row = n.row
        BY <2>1, <2>7, <3>2 DEF Writes, Merged
      <4>2. n.there
        BY Zenon, <2>1, <2>7, <3>2 DEF Writes
      <4>3. Explained(item[v][s], n)
        BY <2>1, <2>3, <2>10 DEF Matched
      <4> QED
        BY <4>1, <4>2, <4>3 DEF Explained
    <3> QED
      BY <2>7, <3>1, <3>2
  <2>11. ASSUME NEW o \in Sessions, tx'[o].op \in {"edit", "grade"}
         PROVE  Writes(tx[o])'
    <3>1. tx'[o] = tx[o] /\ o # t /\ Writes(tx[o]) /\ tx[o].sheet \in Sheets
      BY <2>4, <2>11 DEF Matched, TypeOK, Tx
    <3>2. tx[o].sheet \notin late' => note'[tx[o].sheet] = note[tx[o].sheet] /\ tx[o].sheet \notin late
      BY <2>2, <2>3, <2>5, <2>11, <3>1
    <3> QED
      BY <3>1, <3>2 DEF Writes, Fits
  <2>12. \A h \in Sheets : h \notin late' => Fits(note'[h])
    BY <2>2, <2>3, <2>9 DEF Matched
  <2>13. \A v \in Versions, h \in Sheets : h \notin late' => Explained(item'[v][h], note'[h])
    BY <2>2, <2>3, <2>10 DEF Matched
  <2>14. \A o \in Sessions : tx'[o].op = "copy" => \A h \in Sheets : h \notin late' => Agrees(tx'[o].page[h])
    BY <2>3, <2>4 DEF Matched
  <2>15. \A v \in Versions, h \in Sheets : h \notin late' => Agrees(entry'[v][h])
    BY <2>3 DEF Matched
  <2> QED
    BY <2>3, <2>11, <2>12, <2>13, <2>14, <2>15 DEF Matched, Fits, Explained, Agrees
<1>5. ASSUME NEW s \in Sheets, DeleteNote(s)
      PROVE  Matched'
  <2>1. \A h \in Sheets : note'[h] = IF h = s THEN [NoNote EXCEPT !.row = note[s].row] ELSE note[h]
    BY <1>5 DEF DeleteNote, TypeOK
  <2>2. ~note'[s].there /\ note'[s].model = NoScore
    BY <2>1 DEF NoNote
  <2>3. note[s].there /\ tx' = tx /\ released' = released /\ item' = item /\ late' = late /\ entry' = entry
    BY <1>5 DEF DeleteNote
  <2>4. \A h \in Sheets : h \notin late' => Fits(note'[h])
    BY <2>1, <2>2, <2>3 DEF Matched, Fits
  <2>5. \A v \in Versions, h \in Sheets : h \notin late' => Explained(item'[v][h], note'[h])
    BY <2>1, <2>2, <2>3 DEF Matched, Explained
  <2>6. \A o \in Sessions : tx'[o].op \in {"edit", "grade"} => Writes(tx[o])'
    <3> SUFFICES ASSUME NEW o \in Sessions, tx[o].op \in {"edit", "grade"} PROVE Writes(tx[o])'
      BY <2>3
    <3>1. Writes(tx[o]) /\ tx[o].sheet \in Sheets
      BY DEF Matched, TypeOK, Tx
    <3>2. tx[o].sheet \notin late => note'[tx[o].sheet] = tx[o].seen \/ (tx[o].seen.there /\ ~note'[tx[o].sheet].there)
      <4>1. CASE tx[o].sheet = s
        BY Zenon, <2>2, <2>3, <3>1, <4>1 DEF Writes
      <4>2. CASE tx[o].sheet # s
        BY <2>1, <3>1, <4>2 DEF Writes
      <4> QED
        BY <4>1, <4>2
    <3> QED
      BY <2>3, <3>1, <3>2 DEF Writes, Fits
  <2> QED
    BY <2>3, <2>4, <2>5, <2>6 DEF Matched, Agrees
<1>6. ASSUME Publish
      PROVE  Matched'
  <2>1. note' = note /\ tx' = tx /\ late' = late /\ entry' = entry /\ released' = released + 1 /\ released \in Nat
    BY <1>6, BoundsNat DEF Publish, TypeOK
  <2>2. \A v \in Versions, s \in Sheets : item'[v][s] \in {item[v][s], Released(s)}
    BY <1>6 DEF Publish, TypeOK
  <2>3. \A s \in Sheets : s \notin late => Explained(Released(s), note[s])
    BY DEF Explained, Released, Matched, Fits, NoItem
  <2>4. \A v \in Versions, s \in Sheets : s \notin late' => Explained(item'[v][s], note'[s])
    BY <2>1, <2>2, <2>3 DEF Matched
  <2>5. \A o \in Sessions : tx'[o].op \in {"edit", "grade"} => Writes(tx[o])'
    BY <2>1 DEF Matched, Writes, Fits
  <2>6. released' # 0
    BY <2>1
  <2> QED
    BY <2>1, <2>4, <2>5, <2>6 DEF Matched, Fits, Agrees
<1>7. ASSUME NEW t \in Sessions, ReadCopy(t)
      PROVE  Matched'
  <2>1. tx[t].version \in Versions
    BY <1>7, CopyOpened DEF Aimed
  <2>2. \A s \in Sheets : s \notin late => Agrees(tx'[t].page[s])
    <3> SUFFICES ASSUME NEW s \in Sheets, s \notin late PROVE Agrees(tx'[t].page[s])
      OBVIOUS
    <3>1. tx'[t].page = [h \in Sheets |-> Copied(tx[t].version, h)]
      BY <1>7, CopyOpened
    <3>2. Agrees(Copied(tx[t].version, s))
      BY <2>1, CopiedAgrees
    <3> QED
      BY <3>1, <3>2
  <2>3. \A o \in Sessions : tx'[o].op = "copy" => \A s \in Sheets : s \notin late => Agrees(tx'[o].page[s])
    <3> SUFFICES ASSUME NEW o \in Sessions, tx'[o].op = "copy", NEW s \in Sheets, s \notin late PROVE Agrees(tx'[o].page[s])
      OBVIOUS
    <3>1. CASE o = t
      BY <2>2, <3>1
    <3>2. CASE o # t
      <4>1. tx'[o] = tx[o]
        BY <1>7, <3>2, CopyOpened
      <4> QED
        BY <4>1 DEF Matched
    <3> QED
      BY <3>1, <3>2
  <2>4. \A o \in Sessions : tx'[o].op \in {"edit", "grade"} => tx'[o] = tx[o]
    BY <1>7, CopyOpened
  <2>5. note' = note /\ released' = released /\ item' = item /\ late' = late /\ entry' = entry
    BY <1>7 DEF ReadCopy
  <2>6. \A v \in Versions, s \in Sheets : s \notin late => Agrees(entry'[v][s])
    BY <2>5 DEF Matched
  <2> QED
    BY Zenon, <1>1, <2>3, <2>4, <2>5, <2>6
<1>8. ASSUME NEW t \in Sessions, CommitCopy(t) \/ CommitVisit(t) \/ CommitBind(t) \/ Abort(t)
      PROVE  Matched'
  <2>1. \A o \in Sessions : tx'[o].op # "none" => tx'[o] = tx[o]
    BY <1>8 DEF CommitCopy, CommitVisit, CommitBind, Abort, Ends, NoTx, TypeOK
  <2>2. note' = note /\ released' = released /\ item' = item /\ late' = late
    BY <1>8 DEF CommitCopy, CommitVisit, CommitBind, Abort
  <2>3. ASSUME NEW v \in Versions, NEW s \in Sheets, s \notin late
        PROVE  Agrees(entry'[v][s])
    <3>1. Agrees(entry[v][s]) /\ entry[v][s] \in Entry
      BY <2>3 DEF Matched, TypeOK
    <3>2. CASE CommitCopy(t)
      <4>1. Agrees(tx[t].page[s])
        BY <2>3, <3>2 DEF CommitCopy, Matched
      <4>2. entry'[v][s] \in {entry[v][s], tx[t].page[s], [entry[v][s] EXCEPT !.status = "superseded"]}
        BY <3>2 DEF CommitCopy
      <4>3. Agrees([entry[v][s] EXCEPT !.status = "superseded"])
        BY <3>1 DEF Agrees, Entry
      <4> QED
        BY <3>1, <4>1, <4>2, <4>3
    <3>3. CASE CommitVisit(t)
      <4>1. entry'[v][s] \in {entry[v][s], [entry[v][s] EXCEPT !.learner = tx[t].user]}
        BY <3>3 DEF CommitVisit
      <4>2. Agrees([entry[v][s] EXCEPT !.learner = tx[t].user])
        BY <3>1 DEF Agrees, Entry
      <4> QED
        BY <3>1, <4>1, <4>2
    <3> QED
      BY <1>8, <3>1, <3>2, <3>3 DEF CommitBind, Abort
  <2>4. \A o \in Sessions : tx'[o].op = "copy" => \A s \in Sheets : s \notin late => Agrees(tx'[o].page[s])
    BY <2>1 DEF Matched
  <2>5. \A o \in Sessions : tx'[o].op \in {"edit", "grade"} => tx'[o] = tx[o]
    BY <2>1
  <2> QED
    BY Zenon, <1>1, <2>2, <2>3, <2>4, <2>5
<1>10. ASSUME NEW t \in Sessions,
              \/ \E v \in Versions : BeginCopy(t, v)
              \/ \E c \in Students, u \in Users : BeginBind(t, c, u)
              \/ \E u \in Users, c \in Students \cup {NoOne} : BeginVisit(t, u, c)
       PROVE  Matched'
  <2>1. note' = note /\ released' = released /\ item' = item /\ late' = late /\ entry' = entry
    BY <1>10 DEF BeginCopy, BeginBind, BeginVisit
  <2>2. tx'[t].op \notin {"edit", "grade", "copy"} /\ \A o \in Sessions \ {t} : tx'[o] = tx[o]
    <3>1. CASE \E v \in Versions : BeginCopy(t, v)
      BY <3>1 DEF BeginCopy, NoTx, TypeOK
    <3>2. CASE \E c \in Students, u \in Users : BeginBind(t, c, u)
      BY <3>2 DEF BeginBind, NoTx, TypeOK
    <3>3. CASE \E u \in Users, c \in Students \cup {NoOne} : BeginVisit(t, u, c)
      BY <3>3 DEF BeginVisit, NoTx, TypeOK
    <3> QED
      BY <1>10, <3>1, <3>2, <3>3
  <2>3. \A o \in Sessions : tx'[o].op \in {"edit", "grade", "copy"} => tx'[o] = tx[o]
    BY <2>2
  <2>4. \A o \in Sessions : tx'[o].op = "copy" => \A s \in Sheets : s \notin late => Agrees(tx'[o].page[s])
    BY <2>3 DEF Matched
  <2>5. \A o \in Sessions : tx'[o].op \in {"edit", "grade"} => tx'[o] = tx[o]
    BY <2>3
  <2>6. \A v \in Versions, s \in Sheets : s \notin late => Agrees(entry'[v][s])
    BY <2>1 DEF Matched
  <2> QED
    BY Zenon, <1>1, <2>1, <2>4, <2>5, <2>6
<1>11. ASSUME NEW v \in Versions, NEW s \in Sheets, DeleteEntry(v, s)
       PROVE  Matched'
  <2>1. note' = note /\ released' = released /\ item' = item /\ late' = late /\ tx' = tx
    BY <1>11 DEF DeleteEntry
  <2>2. \A w \in Versions, h \in Sheets : entry'[w][h] = IF w = v /\ h = s THEN [NoEntry EXCEPT !.status = "deleted"] ELSE entry[w][h]
    BY <1>11 DEF DeleteEntry, TypeOK
  <2>3. \A w \in Versions, h \in Sheets : h \notin late => Agrees(entry'[w][h])
    BY <2>2 DEF Matched, Agrees, NoEntry
  <2> QED
    BY <1>1, <2>1, <2>3 DEF Matched
<1>12. ASSUME \/ UNCHANGED vars
              \/ \E s \in Sheets, c \in Students : Reassign(s, c)
              \/ \E c \in Students : DeleteStudent(c) \/ Unbind(c)
       PROVE  Matched'
  <2>1. note' = note /\ released' = released /\ item' = item /\ late' = late /\ tx' = tx /\ entry' = entry
    BY <1>12 DEF vars, Reassign, DeleteStudent, Unbind
  <2> QED
    BY <1>1, <2>1 DEF Matched
<1> QED
  BY <1>2, <1>3, <1>4, <1>5, <1>6, <1>7, <1>8, <1>10, <1>11, <1>12 DEF Next

(***************************************************************************)
(* The theorems                                                            *)
(***************************************************************************)

IInv == TypeOK /\ Aimed /\ Named /\ Ordered /\ Matched

LEMMA BookStarts == Init => IInv
<1> SUFFICES ASSUME Init PROVE IInv
  OBVIOUS
<1>1. TypeOK /\ Aimed
  BY TypeInit
<1>2. Named
  BY DEF Init, Named, Own, NoTx, NoEntry
<1>3. Ordered
  <2>1. \A v \in Versions : v # 0 /\ ~(v < 0)
    BY BoundsNat DEF Versions
  <2>2. released = 0 /\ \A v \in Versions : status[v] = "none"
    BY DEF Init
  <2>3. \A t \in Sessions : tx[t].op = "none"
    BY DEF Init, NoTx
  <2>4. \A v \in Versions, s \in Sheets : entry[v][s].status = "none"
    BY DEF Init, NoEntry
  <2>5. \A v \in Versions : ~Written(v)
    BY <2>4 DEF Written
  <2>6. Newest
    BY <2>3, <2>5 DEF Newest
  <2> QED
    BY <2>1, <2>2, <2>3, <2>5, <2>6 DEF Ordered
<1>4. Matched
  BY DEF Init, Matched, Fits, Explained, Agrees, NoTx, NoEntry, NoItem, NoNote
<1> QED
  BY <1>1, <1>2, <1>3, <1>4 DEF IInv

LEMMA Kept == IInv /\ [Next]_vars => IInv'
  BY TypeKept, AimedKept, NamedKept, OrderedKept, MatchedKept DEF IInv

\* The invariant the theorems below rest on.
THEOREM Inductive == Spec => []IInv
  BY BookStarts, Kept, PTL DEF Spec

\* Every table and every session keeps its shape.
THEOREM TypeCorrect == Spec => []TypeOK
<1>1. IInv => TypeOK
  BY DEF IInv
<1> QED
  BY <1>1, Inductive, PTL

\* However late, often and out of order a release is copied, the published one is the newest, and the book
\* shows nothing older than the newest release in it, until one is published during a copy.
THEOREM ShowsNewest == Spec => []NewestOnly
<1>1. IInv => NewestOnly
  <2> SUFFICES ASSUME IInv PROVE NewestOnly
    OBVIOUS
  <2>1. \A v \in Versions : status[v] = "published" <=> (v = released /\ v > 0)
    BY DEF IInv, Ordered, TypeOK, Versions
  <2>2. ~overtaken => \A v, w \in Versions : v < w /\ Written(w) => \A s \in Sheets : entry[v][s].status # "active"
    BY DEF IInv, Ordered, Newest
  <2> QED
    BY <2>1, <2>2 DEF NewestOnly
<1> QED
  BY <1>1, Inductive, PTL

\* An entry of the book only goes to an account that was bound to its student.
THEOREM GoesToItsStudent == Spec => []NobodyElses
<1>1. IInv => NobodyElses
  BY DEF IInv, Named, Own, NobodyElses
<1> QED
  BY <1>1, Inductive, PTL

\* Points shown as missed are those of the score beside them.
THEOREM PointsOfTheScore == Spec => []PointsMatch
<1>1. IInv => PointsMatch
  BY DEF IInv, Matched, Agrees, PointsMatch
<1> QED
  BY <1>1, Inductive, PTL

\* A deleted entry is never written again.
THEOREM NotWrittenAgain == Spec => DeletedStays
<1>1. ASSUME IInv, [Next]_vars, NEW v \in Versions, NEW s \in Sheets, entry[v][s].status = "deleted"
      PROVE  entry'[v][s] = entry[v][s]
  <2>1. ASSUME NEW t \in Sessions, CommitCopy(t)
        PROVE  entry'[v][s] = entry[v][s]
    <3>1. v # tx[t].version
      BY <1>1, <2>1 DEF CommitCopy, Fresh, Written
    <3>2. <<v, s>> \notin tx[t].old
      BY <1>1, <2>1 DEF CommitCopy, There
    <3> QED
      BY <2>1, <3>1, <3>2 DEF CommitCopy
  <2>2. ASSUME NEW t \in Sessions, CommitVisit(t)
        PROVE  entry'[v][s] = entry[v][s]
    <3>1. <<v, s>> \notin tx[t].old
      BY <1>1, <2>2 DEF CommitVisit, There
    <3> QED
      BY <2>2, <3>1 DEF CommitVisit
  <2>3. ASSUME NEW w \in Versions, NEW h \in Sheets, DeleteEntry(w, h)
        PROVE  entry'[v][s] = entry[v][s]
    <3>1. w # v \/ h # s
      BY <1>1, <2>3 DEF DeleteEntry, There
    <3> QED
      BY <1>1, <2>3, <3>1 DEF DeleteEntry, IInv, TypeOK
  <2>4. CASE entry' = entry
    BY <2>4
  <2>5. ASSUME NEW t \in Sessions,
               \/ \E h \in Sheets : \/ \E score \in Scores \cup {NoScore} : BeginEdit(t, h, score)
                                    \/ \E want \in Results(note[h]) : BeginGrade(t, h, want)
               \/ \E w \in Versions : BeginCopy(t, w)
               \/ \E c \in Students, u \in Users : BeginBind(t, c, u)
               \/ \E u \in Users, c \in Students \cup {NoOne} : BeginVisit(t, u, c)
        PROVE  entry' = entry
    BY <2>5 DEF BeginEdit, BeginGrade, BeginCopy, BeginBind, BeginVisit
  <2>6. ASSUME NEW t \in Sessions, CommitNote(t) \/ ReadCopy(t) \/ CommitBind(t) \/ Abort(t)
        PROVE  entry' = entry
    BY <2>6 DEF CommitNote, ReadCopy, CommitBind, Abort
  <2>7. ASSUME \/ \E h \in Sheets : DeleteNote(h) \/ \E c \in Students : Reassign(h, c)
               \/ \E c \in Students : DeleteStudent(c) \/ Unbind(c)
               \/ Publish \/ UNCHANGED vars
        PROVE  entry' = entry
    BY <2>7 DEF vars, Publish, DeleteNote, Reassign, DeleteStudent, Unbind
  <2> QED
    BY <1>1, <2>1, <2>2, <2>3, <2>4, <2>5, <2>6, <2>7 DEF Next
<1>2. IInv /\ [Next]_vars =>
        [\A v \in Versions, s \in Sheets : entry[v][s].status = "deleted" => entry'[v][s] = entry[v][s]]_vars
  BY <1>1
<1> QED
  BY <1>2, Inductive, PTL DEF Spec, DeletedStays

(***************************************************************************)
(* Practice for any items, entries, workers, requests and bounds           *)
(***************************************************************************)

LEMMA PracticeBlank == NoReview \in Review /\ NoAttempt \in Attempt /\ NoJob \notin Job /\ NoReq \notin Req
<1>1. NoReview \in Review /\ NoAttempt \in Attempt
  BY PracticeBounds DEF NoReview, Review, Top, NoAttempt, Attempt
<1>2. \A x \in Job : x.stage # NoJob.stage
  BY DEF Job, NoJob
<1>3. \A x \in Req : x.op # NoReq.op
  BY DEF Req, NoReq
<1> QED BY <1>1, <1>2, <1>3

\* A worker that is busy has a job, and its message an item.
LEMMA BusyWith ==
  ASSUME PracticeTypeOK, NEW w \in Workers
  PROVE  /\ job[w] # NoJob <=> job[w].stage \in {"grade", "list", "review"}
         /\ job[w] # NoJob => /\ job[w] \in Job /\ job[w].msg \in Message /\ job[w].msg.item \in Items
                              /\ job[w].photo \in 1 .. MaxPhotos
  BY DEF PracticeTypeOK, Job, NoJob, Message

LEMMA ReviewedTyped ==
  ASSUME NEW now \in Review, NEW seen \in Review, NEW result \in ReviewResults
  PROVE  Reviewed(now, seen, result) \in Review
<1>1. seen.step \in -1 .. Top /\ now.step \in -1 .. Top /\ now.result \in ReviewResults \cup {"none"}
  BY DEF Review
<1>2. NextStep(seen.step, result) \in -1 .. Top
  BY <1>1 DEF NextStep, Least, Top, ReviewResults
<1> QED BY <1>1, <1>2 DEF Reviewed, Review

LEMMA SubmittedIs ==
  ASSUME NEW now \in Attempt, NEW old \in Attempt, NEW p \in 1 .. MaxPhotos
  PROVE  /\ Submitted(now, old, p) \in Attempt
         /\ Submitted(now, old, p).photo = p
         /\ old.status # "pending" => Submitted(now, old, p).status = "pending"
<1> DEFINE st == IF old.status = "pending" THEN now.status ELSE "pending"
           vd == IF old.verdict = "none" THEN now.verdict ELSE "none"
<1>1. st \in {"none", "pending", "graded", "failed"} /\ vd \in Verdicts \cup {"none"}
  BY DEF Attempt
<1>2. Submitted(now, old, p) = [now EXCEPT !.photo = p, !.status = st, !.verdict = vd]
  BY DEF Submitted
<1>3. p \in 0 .. MaxPhotos
  BY PracticeBounds
<1>4. old.status # "pending" => st = "pending"
  OBVIOUS
<1> HIDE DEF st, vd
<1> QED BY <1>1, <1>2, <1>3, <1>4 DEF Attempt

\* What an open request to send a photo in has read.
LEMMA SubmitTyped ==
  ASSUME PracticeTypeOK, NEW r \in Requests, req[r].op = "submit"
  PROVE  req[r].item \in Items /\ req[r].photo \in 1 .. MaxPhotos /\ req[r].was \in Attempt
  BY DEF PracticeTypeOK, Req, NoReq

LEMMA ReviewTyped ==
  ASSUME PracticeTypeOK, NEW r \in Requests, req[r].op = "review"
  PROVE  req[r].entry \in Entries /\ req[r].seen \in Review /\ req[r].result \in ReviewResults
  BY DEF PracticeTypeOK, Req, NoReq

LEMMA PracticeStarts == PracticeInit => PracticeInv
<1> SUFFICES ASSUME PracticeInit PROVE PracticeInv
  OBVIOUS
<1>1. PracticeTypeOK
  BY PracticeBlank, PracticeBounds DEF PracticeInit, PracticeTypeOK
<1>2. JobsInOrder /\ OneAtATime /\ NotMovedYet
  BY DEF PracticeInit, JobsInOrder, OneAtATime, NotMovedYet, Serves, NoAttempt
<1>3. PhotosApart
  BY DEF PracticeInit, PhotosApart, NoAttempt, NoReq
<1>4. VerdictOfPhoto /\ ReviewedOnce
  BY DEF PracticeInit, VerdictOfPhoto, ReviewedOnce, NoAttempt
<1> QED BY <1>1, <1>2, <1>3, <1>4 DEF PracticeInv

(***************************************************************************)
(* Requests of the student                                                 *)
(***************************************************************************)

\* Steps that touch neither attempts, messages, workers nor what verdicts have moved.
LEMMA RequestInv ==
  ASSUME PracticeInv, UNCHANGED <<attempt, queue, job, moved, twice, crossed>>,
         PracticeTypeOK', PhotosApart'
  PROVE  PracticeInv'
<1>1. JobsInOrder' /\ NotMovedYet'
  BY DEF PracticeInv, JobsInOrder, NotMovedYet
<1>2. OneAtATime'
  BY DEF PracticeInv, OneAtATime, Serves
<1>3. VerdictOfPhoto' /\ ReviewedOnce'
  BY DEF PracticeInv, VerdictOfPhoto, ReviewedOnce
<1> QED BY <1>1, <1>2, <1>3 DEF PracticeInv

LEMMA BeginSubmitInv ==
  ASSUME PracticeInv, NEW r \in Requests, NEW i \in Items, BeginSubmit(r, i)
  PROVE  PracticeInv'
<1> DEFINE new == [op |-> "submit", item |-> i, photo |-> photos + 1, was |-> attempt[i]]
<1>1. /\ photos \in Nat /\ photos + 1 \in 1 .. MaxPhotos /\ photos' = photos + 1
      /\ attempt \in [Items -> Attempt] /\ moved \subseteq (1 .. MaxPhotos) \X Entries
      /\ \A j \in Items : attempt[j].photo \in Int
      /\ \A w \in Workers : job[w] # NoJob => job[w].photo \in Int
      /\ \A q \in Requests : req[q].op = "submit" => req[q].photo \in Int
      /\ \A x \in moved : x[1] \in Int
  BY PracticeBounds, BusyWith, SubmitTyped DEF PracticeInv, PracticeTypeOK, BeginSubmit, Attempt
<1>2. new \in Req
  BY <1>1 DEF Req
<1>3. /\ UNCHANGED <<attempt, queue, job, book, review, crashes, reviews, moved, twice, lost, unsent, crossed>>
      /\ req' = [req EXCEPT ![r] = new]
  BY DEF BeginSubmit
<1>4. new.op = "submit" /\ new.photo = photos + 1
  OBVIOUS
<1> HIDE DEF new
<1>5. PracticeTypeOK'
  BY <1>1, <1>2, <1>3 DEF PracticeInv, PracticeTypeOK
<1>6. req'[r] = new /\ \A q \in Requests \ {r} : req'[q] = req[q]
  BY <1>3 DEF PracticeInv, PracticeTypeOK
<1>7. PhotosApart'
  <2>1. /\ \A j \in Items : attempt[j].photo <= photos' /\ attempt[j].photo # photos + 1
        /\ \A w \in Workers : job[w] # NoJob => job[w].photo <= photos' /\ job[w].photo # photos + 1
        /\ \A x \in moved : x[1] <= photos' /\ x[1] # photos + 1
        /\ \A q \in Requests : req[q].op = "submit" => req[q].photo <= photos' /\ req[q].photo # photos + 1
    BY <1>1 DEF PracticeInv, PhotosApart
  <2>2. \A q \in Requests : req'[q].op = "submit" => req'[q].photo <= photos'
    BY <1>1, <1>4, <1>6, <2>1
  <2> QED
    BY <1>3, <1>4, <1>6, <2>1, <2>2 DEF PracticeInv, PhotosApart
<1> QED BY <1>3, <1>5, <1>7, RequestInv

\* A request that has read an entry's review, or ends without sending a photo in.
LEMMA RequestEndsInv ==
  ASSUME PracticeInv, NEW r \in Requests, NEW x \in Req \cup {NoReq}, x.op # "submit",
         req' = [req EXCEPT ![r] = x],
         review' \in [Entries -> Review], reviews' \in 0 .. MaxReviews,
         UNCHANGED <<attempt, queue, job, book, photos, crashes, moved, twice, lost, unsent, crossed>>
  PROVE  PracticeInv'
<1>1. PracticeTypeOK'
  BY DEF PracticeInv, PracticeTypeOK
<1>2. req'[r] = x /\ \A q \in Requests \ {r} : req'[q] = req[q]
  BY DEF PracticeInv, PracticeTypeOK
<1>3. PhotosApart'
  BY <1>2 DEF PracticeInv, PhotosApart
<1> QED BY <1>1, <1>3, RequestInv

LEMMA StudentReviewInv ==
  ASSUME PracticeInv, NEW r \in Requests,
         \/ \E e \in Entries, result \in ReviewResults : BeginReview(r, e, result)
         \/ CommitReview(r) \/ AbortRequest(r)
  PROVE  PracticeInv'
<1>1. /\ review \in [Entries -> Review] /\ reviews \in 0 .. MaxReviews
      /\ NoReq.op # "submit"
  BY DEF PracticeInv, PracticeTypeOK, NoReq
<1>2. ASSUME NEW e \in Entries, NEW result \in ReviewResults, BeginReview(r, e, result)
      PROVE  PracticeInv'
  <2> DEFINE new == [op |-> "review", entry |-> e, seen |-> review[e], result |-> result]
  <2>1. new \in Req /\ new.op # "submit"
    BY <1>1 DEF Req
  <2>2. reviews' \in 0 .. MaxReviews /\ review' \in [Entries -> Review]
    BY <1>1, <1>2, PracticeBounds DEF BeginReview
  <2> QED
    BY <1>2, <2>1, <2>2, RequestEndsInv DEF BeginReview
<1>3. CASE CommitReview(r)
  <2>1. req[r].op = "review"
    BY <1>3 DEF CommitReview
  <2>2. Reviewed(review[req[r].entry], req[r].seen, req[r].result) \in Review
    BY <1>1, <2>1, ReviewTyped, ReviewedTyped DEF PracticeInv
  <2>3. review' \in [Entries -> Review]
    BY <1>1, <1>3, <2>2 DEF CommitReview
  <2> QED
    BY <1>1, <1>3, <2>3, RequestEndsInv DEF CommitReview
<1>4. CASE AbortRequest(r)
  BY <1>1, <1>4, RequestEndsInv DEF AbortRequest
<1> QED BY <1>2, <1>3, <1>4

LEMMA DropEntryInv ==
  ASSUME PracticeInv, NEW e \in Entries, DropEntry(e)
  PROVE  PracticeInv'
<1>1. PracticeTypeOK'
  BY PracticeBlank DEF PracticeInv, PracticeTypeOK, DropEntry
<1>2. PhotosApart'
  BY DEF PracticeInv, PhotosApart, DropEntry
<1> QED BY <1>1, <1>2, RequestInv DEF DropEntry

\* The photo of a request takes the place of the item's last one; as nothing of the new
\* photo is anywhere yet, only an item that is sent in across something is disturbed.
LEMMA CommitSubmitInv ==
  ASSUME PracticeInv, NEW r \in Requests, NEW sent \in BOOLEAN, CommitSubmit(r, sent)
  PROVE  PracticeInv'
<1> DEFINE i == req[r].item
           p == req[r].photo
           old == req[r].was
           new == Submitted(attempt[i], old, p)
           msg == [item |-> i, photo |-> p, tries |-> 0]
<1>1. /\ req[r].op = "submit" /\ i \in Items /\ p \in 1 .. MaxPhotos /\ old \in Attempt
      /\ attempt[i] \in Attempt
  BY SubmitTyped DEF PracticeInv, PracticeTypeOK, CommitSubmit
<1>2. new \in Attempt /\ new.photo = p /\ (old.status # "pending" => new.status = "pending")
  BY <1>1, SubmittedIs
<1>3. msg \in Message /\ msg.item = i
  BY <1>1 DEF Message, MaxTries
<1>4. /\ attempt' = [attempt EXCEPT ![i] = new]
      /\ queue' = IF sent THEN queue \cup {msg} ELSE queue
      /\ unsent' = IF sent THEN unsent ELSE unsent \cup {i}
      /\ crossed' = IF attempt[i] # old \/ old.status = "pending" \/ Working(i) THEN crossed \cup {i} ELSE crossed
      /\ req' = [req EXCEPT ![r] = NoReq]
      /\ UNCHANGED <<job, book, review, photos, crashes, reviews, moved, twice, lost>>
  BY DEF CommitSubmit
<1> HIDE DEF new, msg, old
<1>5. PracticeTypeOK'
  <2>1. attempt' \in [Items -> Attempt] /\ queue' \subseteq Message /\ req' \in [Requests -> Req \cup {NoReq}]
    BY <1>1, <1>2, <1>3, <1>4 DEF PracticeInv, PracticeTypeOK
  <2>2. unsent' \subseteq Items /\ crossed' \subseteq Items
    BY <1>1, <1>4 DEF PracticeInv, PracticeTypeOK
  <2> QED
    BY <1>4, <2>1, <2>2 DEF PracticeInv, PracticeTypeOK
<1>6. attempt'[i] = new /\ \A j \in Items \ {i} : attempt'[j] = attempt[j]
  BY <1>1, <1>4 DEF PracticeInv, PracticeTypeOK
<1>7. /\ crossed \subseteq crossed'
      /\ i \notin crossed' => /\ old.status # "pending"
                              /\ \A m \in queue : m.item # i
                              /\ \A w \in Workers : ~Serves(w, i)
  BY <1>4 DEF Working, Serves
<1>8. JobsInOrder'
  BY <1>4 DEF PracticeInv, JobsInOrder
<1>9. PhotosApart'
  <2>1. \A q \in Requests : req'[q].op = "submit" => q # r /\ req'[q] = req[q]
    BY <1>4 DEF PracticeInv, PracticeTypeOK, NoReq
  <2>2. p # 0 /\ p <= photos /\ \A j \in Items : attempt[j].photo # p
    BY <1>1 DEF PracticeInv, PhotosApart
  <2>3. \A q \in Requests : req'[q].op = "submit" => req[q].photo # p
    BY <1>1, <2>1 DEF PracticeInv, PhotosApart
  <2>4. \A j \in Items : attempt'[j].photo <= photos /\ (attempt'[j].status = "pending" => attempt'[j].photo # 0)
    BY <1>2, <1>6, <2>2 DEF PracticeInv, PhotosApart
  <2>5. \A j, k \in Items : j # k /\ attempt'[j].photo # 0 => attempt'[k].photo # attempt'[j].photo
    BY <1>2, <1>6, <2>2 DEF PracticeInv, PhotosApart
  <2>6. \A q \in Requests : req'[q].op = "submit" => \A j \in Items : attempt'[j].photo # req'[q].photo
    BY <1>2, <1>6, <2>1, <2>3 DEF PracticeInv, PhotosApart
  <2> QED
    BY <1>4, <2>1, <2>4, <2>5, <2>6 DEF PracticeInv, PhotosApart
<1>10. OneAtATime'
  <2> SUFFICES ASSUME NEW j \in Items \ crossed'
               PROVE  /\ \A m, n \in queue' : m.item = j /\ n.item = j => m = n
                      /\ \A w \in Workers : Serves(w, j)' =>
                           /\ \A m \in queue' : m.item # j
                           /\ \A x \in Workers : Serves(x, j)' => x = w
                           /\ job'[w].photo = attempt'[j].photo
                           /\ job'[w].stage # "grade" => attempt'[j].status # "pending"
    BY DEF OneAtATime
  <2>1. \A w \in Workers : Serves(w, j)' <=> Serves(w, j)
    BY <1>4 DEF Serves
  <2>2. CASE j = i
    BY <1>3, <1>4, <1>7, <2>1, <2>2
  <2>3. CASE j # i
    BY <1>3, <1>4, <1>6, <1>7, <2>1, <2>3 DEF PracticeInv, OneAtATime
  <2> QED BY <2>2, <2>3
<1>11. NotMovedYet'
  BY <1>1, <1>2, <1>4, <1>6, <1>7 DEF PracticeInv, NotMovedYet, PhotosApart
<1>12. VerdictOfPhoto' /\ ReviewedOnce'
  BY <1>2, <1>4, <1>6, <1>7 DEF PracticeInv, VerdictOfPhoto, ReviewedOnce
<1> QED BY <1>5, <1>8, <1>9, <1>10, <1>11, <1>12 DEF PracticeInv

(***************************************************************************)
(* The task                                                                *)
(***************************************************************************)

LEMMA TakeInv ==
  ASSUME PracticeInv, NEW w \in Workers, NEW m \in queue, Take(w, m)
  PROVE  PracticeInv'
<1> DEFINE i == m.item
           new == Started(m)
<1>1. /\ job[w] = NoJob /\ queue' = queue \ {m} /\ i \in Items /\ m \in Message
      /\ UNCHANGED <<attempt, book, review, req, photos, crashes, reviews, moved, twice, lost, unsent, crossed>>
  BY DEF Take, PracticeInv, PracticeTypeOK, Message
<1>2. CASE job' = job
  <2>1. PracticeTypeOK' /\ PhotosApart'
    BY <1>1, <1>2 DEF PracticeInv, PracticeTypeOK, PhotosApart
  <2>2. JobsInOrder' /\ NotMovedYet' /\ VerdictOfPhoto' /\ ReviewedOnce'
    BY <1>1, <1>2 DEF PracticeInv, JobsInOrder, NotMovedYet, VerdictOfPhoto, ReviewedOnce
  <2>3. OneAtATime'
    BY <1>1, <1>2 DEF PracticeInv, OneAtATime, Serves
  <2> QED BY <2>1, <2>2, <2>3 DEF PracticeInv
<1>3. CASE attempt[i].status = "pending" /\ job' = [job EXCEPT ![w] = new]
  <2>1. attempt[i].photo \in 1 .. MaxPhotos
    BY <1>1, <1>3, PracticeBounds DEF PracticeInv, PracticeTypeOK, Attempt, PhotosApart
  <2>2. /\ new \in Job /\ new.msg = m /\ new.photo = attempt[i].photo /\ new.stage = "grade"
        /\ new.entry = NoTarget /\ new.todo = {}
    BY <1>1, <2>1, PracticeBlank DEF Started, Job
  <2> HIDE DEF new
  <2>3. job'[w] = new /\ \A x \in Workers \ {w} : job'[x] = job[x]
    BY <1>3 DEF PracticeInv, PracticeTypeOK
  <2>4. PracticeTypeOK'
    BY <1>1, <1>3, <2>2 DEF PracticeInv, PracticeTypeOK
  <2>5. JobsInOrder'
    BY <2>2, <2>3 DEF PracticeInv, JobsInOrder
  <2>6. PhotosApart'
    BY <1>1, <2>2, <2>3 DEF PracticeInv, PhotosApart
  <2>7. OneAtATime'
    <3>1. \A x \in Workers, j \in Items : Serves(x, j)' => IF x = w THEN j = i ELSE Serves(x, j)
      BY <2>2, <2>3 DEF Serves
    <3> QED
      BY <1>1, <2>2, <2>3, <3>1 DEF PracticeInv, OneAtATime
  <2>8. NotMovedYet'
    BY <1>1, <1>3, <2>2, <2>3 DEF PracticeInv, NotMovedYet
  <2>9. VerdictOfPhoto' /\ ReviewedOnce'
    BY <1>1 DEF PracticeInv, VerdictOfPhoto, ReviewedOnce
  <2> QED BY <2>4, <2>5, <2>6, <2>7, <2>8, <2>9 DEF PracticeInv
<1> QED BY <1>2, <1>3 DEF Take

\* The row of an item changes under its worker only: its status, verdict and whose
\* verdict it is, never its photo, and it is pending no longer.
LEMMA RowWritten ==
  ASSUME PracticeInv, NEW w \in Workers, job[w] # NoJob,
         NEW new \in Attempt,
         attempt' = [attempt EXCEPT ![job[w].msg.item] = new],
         new.photo = attempt[job[w].msg.item].photo, new.status # "pending",
         new.status = "graded" => new.of = job[w].photo,
         NEW x \in Job \cup {NoJob}, job' = [job EXCEPT ![w] = x],
         x # NoJob => /\ x.msg = job[w].msg /\ x.photo = job[w].photo /\ x.stage = "list"
                      /\ job[w].stage = "grade" /\ x.entry = NoTarget /\ x.entry \notin x.todo
                      /\ x.verdict \in Verdicts,
         UNCHANGED <<queue, book, review, req, photos, crashes, reviews, moved, twice, lost, unsent, crossed>>
  PROVE  PracticeInv'
<1> DEFINE i == job[w].msg.item
<1>1. i \in Items /\ job[w] \in Job
  BY BusyWith DEF PracticeInv
<1>2. attempt'[i] = new /\ \A j \in Items \ {i} : attempt'[j] = attempt[j]
  BY <1>1 DEF PracticeInv, PracticeTypeOK
<1>3. job'[w] = x /\ \A y \in Workers \ {w} : job'[y] = job[y]
  BY DEF PracticeInv, PracticeTypeOK
<1>4. PracticeTypeOK'
  BY <1>1 DEF PracticeInv, PracticeTypeOK
<1>5. JobsInOrder'
  BY <1>3 DEF PracticeInv, JobsInOrder
<1>6. \A j \in Items : attempt'[j].photo = attempt[j].photo /\ (attempt'[j].status = "pending" => attempt[j].status = "pending")
  BY <1>2
<1>7. \A y \in Workers : job'[y] # NoJob => job[y] # NoJob /\ job'[y].photo = job[y].photo /\ job'[y].msg = job[y].msg
  BY <1>3
<1>8. PhotosApart'
  BY <1>6, <1>7 DEF PracticeInv, PhotosApart
<1>9. OneAtATime'
  <2>1. \A y \in Workers, j \in Items : Serves(y, j)' => Serves(y, j)
    BY <1>7 DEF Serves
  <2>2. \A j \in Items \ crossed, y \in Workers : Serves(y, j)' => job'[y].photo = attempt'[j].photo
    BY <1>6, <1>7, <2>1 DEF PracticeInv, OneAtATime, Serves
  <2>3. \A j \in Items \ crossed, y \in Workers : Serves(y, j)' /\ job'[y].stage # "grade" => attempt'[j].status # "pending"
    BY <1>2, <1>3, <1>6, <2>1 DEF PracticeInv, OneAtATime, Serves
  <2>4. crossed' = crossed /\ queue' = queue
    OBVIOUS
  <2> QED
    BY <2>1, <2>2, <2>3, <2>4 DEF PracticeInv, OneAtATime
<1>10. NotMovedYet'
  BY <1>3, <1>6 DEF PracticeInv, NotMovedYet
<1>11. VerdictOfPhoto'
  <2> SUFFICES ASSUME NEW j \in Items \ crossed, attempt'[j].status = "graded"
               PROVE  attempt'[j].of = attempt'[j].photo
    BY DEF VerdictOfPhoto
  <2>1. CASE j = i
    <3>1. job[w].photo = attempt[i].photo
      BY <2>1 DEF PracticeInv, OneAtATime, Serves
    <3> QED BY <1>2, <2>1, <3>1
  <2>2. CASE j # i
    BY <1>2, <2>2 DEF PracticeInv, VerdictOfPhoto
  <2> QED BY <2>1, <2>2
<1>12. ReviewedOnce'
  BY DEF PracticeInv, ReviewedOnce
<1> QED BY <1>4, <1>5, <1>8, <1>9, <1>10, <1>11, <1>12 DEF PracticeInv

LEMMA GradeInv ==
  ASSUME PracticeInv, NEW w \in Workers, NEW v \in Verdicts, Grade(w, v)
  PROVE  PracticeInv'
<1> DEFINE i == job[w].msg.item
           new == [attempt[i] EXCEPT !.status = "graded", !.verdict = v, !.of = job[w].photo]
           x == [job[w] EXCEPT !.stage = "list", !.verdict = v]
<1>1. job[w].stage = "grade" /\ job[w] # NoJob /\ job[w] \in Job /\ i \in Items /\ job[w].photo \in 1 .. MaxPhotos
  BY BusyWith DEF Grade, PracticeInv
<1>2. attempt[i] \in Attempt /\ job[w].photo \in 0 .. MaxPhotos
  BY <1>1, PracticeBounds DEF PracticeInv, PracticeTypeOK
<1>3. new \in Attempt /\ new.photo = attempt[i].photo /\ new.status = "graded" /\ new.of = job[w].photo
  BY <1>2 DEF Attempt
<1>4. /\ x \in Job /\ x.msg = job[w].msg /\ x.photo = job[w].photo /\ x.stage = "list"
      /\ x.entry = job[w].entry /\ x.todo = job[w].todo /\ x.verdict = v
  BY <1>1 DEF Job
<1>5. /\ attempt' = [attempt EXCEPT ![i] = new] /\ job' = [job EXCEPT ![w] = x]
      /\ UNCHANGED <<queue, book, review, req, photos, crashes, reviews, moved, twice, lost, unsent, crossed>>
  BY DEF Grade
<1>6. job[w].entry = NoTarget /\ job[w].entry \notin job[w].todo
  BY <1>1 DEF PracticeInv, JobsInOrder
<1> HIDE DEF new, x
<1>7. x \in Job \cup {NoJob} /\ new.status # "pending"
  BY <1>3, <1>4
<1>8. new.status = "graded" => new.of = job[w].photo
  BY <1>3
<1>9. x # NoJob => /\ x.msg = job[w].msg /\ x.photo = job[w].photo /\ x.stage = "list"
                   /\ job[w].stage = "grade" /\ x.entry = NoTarget /\ x.entry \notin x.todo
                   /\ x.verdict \in Verdicts
  BY <1>1, <1>4, <1>6
<1> QED BY <1>1, <1>3, <1>5, <1>7, <1>8, <1>9, RowWritten

LEMMA FailInv ==
  ASSUME PracticeInv, NEW w \in Workers, job[w] # NoJob, Fail(w)
  PROVE  PracticeInv'
<1> DEFINE i == job[w].msg.item
           new == [attempt[i] EXCEPT !.status = "failed"]
<1>1. attempt[i] \in Attempt
  BY BusyWith DEF PracticeInv, PracticeTypeOK
<1>2. new \in Attempt /\ new.photo = attempt[i].photo /\ new.status = "failed"
  BY <1>1 DEF Attempt
<1>3. attempt' = [attempt EXCEPT ![i] = new] /\ job' = [job EXCEPT ![w] = NoJob]
      /\ UNCHANGED <<queue, book, review, req, photos, crashes, reviews, moved, twice, lost, unsent, crossed>>
  BY DEF Fail
<1> HIDE DEF new
<1>4. NoJob \in Job \cup {NoJob} /\ new.status # "pending" /\ new.status # "graded"
  BY <1>2
<1> QED BY <1>2, <1>3, <1>4, RowWritten

\* A worker that goes on with its message and touches no row but a review.
LEMMA GoesOn ==
  ASSUME PracticeInv, NEW w \in Workers, job[w] # NoJob,
         NEW x \in Job, job' = [job EXCEPT ![w] = x],
         x.msg = job[w].msg, x.photo = job[w].photo, x.verdict = job[w].verdict,
         x.stage = "review", job[w].stage # "grade", x.entry \notin x.todo,
         review' \in [Entries -> Review],
         moved \subseteq moved', moved' \subseteq (1 .. MaxPhotos) \X Entries, twice' \subseteq moved',
         \A y \in moved' \ moved : y[1] = job[w].photo /\ y[2] \notin x.todo \cup {x.entry},
         crossed = {} => twice' = {},
         crossed = {} => \A e \in x.todo \cup {x.entry} : <<job[w].photo, e>> \notin moved,
         UNCHANGED <<attempt, queue, book, req, photos, crashes, reviews, lost, unsent, crossed>>
  PROVE  PracticeInv'
<1>1. job'[w] = x /\ \A y \in Workers \ {w} : job'[y] = job[y]
  BY DEF PracticeInv, PracticeTypeOK
<1>2. \A y \in Workers : job'[y] # NoJob => /\ job[y] # NoJob /\ job'[y].photo = job[y].photo /\ job'[y].msg = job[y].msg
                                            /\ job'[y].stage # "grade" => job[y].stage # "grade"
  BY <1>1
<1>3. PracticeTypeOK'
  BY DEF PracticeInv, PracticeTypeOK
<1>4. JobsInOrder'
  BY <1>1 DEF PracticeInv, JobsInOrder
<1>5. PhotosApart'
  <2>1. \A y \in moved' : y \in moved \/ y[1] = job[w].photo
    OBVIOUS
  <2> QED
    BY <1>2, <2>1 DEF PracticeInv, PhotosApart
<1>6. OneAtATime'
  <2>1. \A y \in Workers, j \in Items : Serves(y, j)' => Serves(y, j)
    BY <1>2 DEF Serves
  <2>2. \A y \in Workers, j \in Items : Serves(y, j)' =>
          job'[y].photo = job[y].photo /\ (job'[y].stage # "grade" => job[y].stage # "grade")
    BY <1>2 DEF Serves
  <2>3. crossed' = crossed /\ queue' = queue /\ attempt' = attempt
    OBVIOUS
  <2> QED
    BY <2>1, <2>2, <2>3 DEF PracticeInv, OneAtATime
<1>7. NotMovedYet'
  <2> SUFFICES ASSUME crossed = {}
               PROVE  NotMovedYet'
    BY DEF NotMovedYet
  <2> DEFINE i == job[w].msg.item
  <2>1. i \in Items /\ Serves(w, i) /\ job[w].photo \in 1 .. MaxPhotos
    BY BusyWith DEF PracticeInv, Serves
  <2>2. job[w].photo = attempt[i].photo /\ attempt[i].status # "pending"
    BY <2>1 DEF PracticeInv, OneAtATime
  <2>3. \A j \in Items : attempt[j].status = "pending" => attempt[j].photo # job[w].photo
    BY <2>1, <2>2 DEF PracticeInv, PhotosApart
  <2>4. \A j \in Items, e \in Entries : attempt[j].status = "pending" => <<attempt[j].photo, e>> \notin moved'
    BY <2>3 DEF PracticeInv, NotMovedYet
  <2>5. ASSUME NEW y \in Workers \ {w}, job[y] # NoJob
        PROVE  job[y].photo # job[w].photo
    <3> DEFINE j == job[y].msg.item
    <3>1. j \in Items /\ Serves(y, j) /\ job[y].photo \in 1 .. MaxPhotos
      BY <2>5, BusyWith DEF PracticeInv, Serves
    <3>2. job[y].photo = attempt[j].photo /\ j # i
      BY <2>1, <3>1 DEF PracticeInv, OneAtATime
    <3> QED
      BY <2>1, <2>2, <3>1, <3>2 DEF PracticeInv, PhotosApart
  <2>6. ASSUME NEW y \in Workers, NEW e \in Entries, job'[y] # NoJob,
               job'[y].stage = "review" => e \in job'[y].todo \cup {job'[y].entry}
        PROVE  <<job'[y].photo, e>> \notin moved'
    <3>1. CASE y = w
      BY <1>1, <2>6, <3>1
    <3>2. CASE y # w
      <4>1. job'[y] = job[y] /\ job[y].photo # job[w].photo
        BY <1>1, <2>5, <2>6, <3>2
      <4>2. <<job[y].photo, e>> \notin moved
        BY <2>6, <4>1 DEF PracticeInv, NotMovedYet
      <4> QED BY <4>1, <4>2
    <3> QED BY <3>1, <3>2
  <2> QED
    BY <2>4, <2>6 DEF NotMovedYet
<1>8. VerdictOfPhoto' /\ ReviewedOnce'
  BY DEF PracticeInv, VerdictOfPhoto, ReviewedOnce
<1> QED BY <1>3, <1>4, <1>5, <1>6, <1>7, <1>8 DEF PracticeInv

LEMMA ListInv ==
  ASSUME PracticeInv, NEW w \in Workers, List(w)
  PROVE  PracticeInv'
<1> DEFINE x == [job[w] EXCEPT !.stage = "review", !.todo = book]
<1>1. job[w].stage = "list" /\ job[w] # NoJob /\ job[w] \in Job
  BY BusyWith DEF List, PracticeInv
<1>2. book \subseteq Entries /\ job[w].entry = NoTarget /\ NoTarget \notin Entries
  BY <1>1, NoTargetOutside DEF PracticeInv, PracticeTypeOK, JobsInOrder
<1>3. /\ x \in Job /\ x.msg = job[w].msg /\ x.photo = job[w].photo /\ x.verdict = job[w].verdict
      /\ x.stage = "review" /\ x.entry = NoTarget /\ x.todo = book
  BY <1>1, <1>2 DEF Job
<1>4. /\ job' = [job EXCEPT ![w] = x]
      /\ UNCHANGED <<attempt, queue, book, review, req, photos, crashes, reviews, moved, twice, lost, unsent, crossed>>
  BY DEF List
<1> HIDE DEF x
<1>5. /\ review \in [Entries -> Review] /\ moved \subseteq (1 .. MaxPhotos) \X Entries /\ twice \subseteq moved
      /\ crossed = {} => twice = {}
  BY DEF PracticeInv, PracticeTypeOK, ReviewedOnce
<1>6. crossed = {} => \A e \in Entries : <<job[w].photo, e>> \notin moved
  BY <1>1 DEF PracticeInv, NotMovedYet
<1>7. <<job[w].photo, NoTarget>> \notin moved
  BY <1>2, <1>5
<1>8. crossed = {} => \A e \in x.todo \cup {x.entry} : <<job[w].photo, e>> \notin moved
  BY <1>2, <1>3, <1>6, <1>7
<1>9. x.entry \notin x.todo /\ job[w].stage # "grade"
  BY <1>1, <1>2, <1>3
<1>10. /\ review' \in [Entries -> Review] /\ moved \subseteq moved' /\ twice' \subseteq moved'
       /\ moved' \subseteq (1 .. MaxPhotos) \X Entries
       /\ crossed = {} => twice' = {}
       /\ \A y \in moved' \ moved : y[1] = job[w].photo /\ y[2] \notin x.todo \cup {x.entry}
  BY <1>4, <1>5
<1> QED BY <1>1, <1>3, <1>4, <1>8, <1>9, <1>10, GoesOn

LEMMA ReadInv ==
  ASSUME PracticeInv, NEW w \in Workers, NEW e \in Entries, Read(w, e)
  PROVE  PracticeInv'
<1> DEFINE x == [job[w] EXCEPT !.todo = @ \ {e}, !.entry = e, !.seen = review[e]]
<1>1. job[w].stage = "review" /\ job[w] # NoJob /\ job[w] \in Job /\ e \in job[w].todo
  BY BusyWith DEF Read, PracticeInv
<1>2. review[e] \in Review
  BY DEF PracticeInv, PracticeTypeOK
<1>3. /\ x \in Job /\ x.msg = job[w].msg /\ x.photo = job[w].photo /\ x.verdict = job[w].verdict
      /\ x.stage = "review" /\ x.entry = e /\ x.todo = job[w].todo \ {e}
  BY <1>1, <1>2 DEF Job
<1>4. /\ job' = [job EXCEPT ![w] = x]
      /\ UNCHANGED <<attempt, queue, book, review, req, photos, crashes, reviews, moved, twice, lost, unsent, crossed>>
  BY DEF Read
<1> HIDE DEF x
<1>5. /\ review \in [Entries -> Review] /\ moved \subseteq (1 .. MaxPhotos) \X Entries /\ twice \subseteq moved
      /\ crossed = {} => twice = {}
  BY DEF PracticeInv, PracticeTypeOK, ReviewedOnce
<1>6. x.todo \cup {x.entry} = job[w].todo /\ job[w].todo \subseteq Entries
  BY <1>1, <1>3 DEF Job
<1>7. crossed = {} => \A d \in x.todo \cup {x.entry} : <<job[w].photo, d>> \notin moved
  BY <1>1, <1>6 DEF PracticeInv, NotMovedYet
<1>8. x.entry \notin x.todo /\ job[w].stage # "grade"
  BY <1>1, <1>3
<1>9. /\ review' \in [Entries -> Review] /\ moved \subseteq moved' /\ twice' \subseteq moved'
      /\ moved' \subseteq (1 .. MaxPhotos) \X Entries
      /\ crossed = {} => twice' = {}
      /\ \A y \in moved' \ moved : y[1] = job[w].photo /\ y[2] \notin x.todo \cup {x.entry}
  BY <1>4, <1>5
<1> QED BY <1>1, <1>3, <1>4, <1>7, <1>8, <1>9, GoesOn

LEMMA WriteInv ==
  ASSUME PracticeInv, NEW w \in Workers, Write(w)
  PROVE  PracticeInv'
<1> DEFINE e == job[w].entry
           pair == <<job[w].photo, e>>
           x == [job[w] EXCEPT !.entry = NoTarget, !.fresh = FALSE]
           after == Reviewed(review[e], job[w].seen, ResultOf(job[w].verdict))
<1>1. job[w].stage = "review" /\ job[w] # NoJob /\ job[w] \in Job /\ e # NoTarget
  BY BusyWith DEF Write, PracticeInv
<1>2. e \in Entries /\ e \notin job[w].todo /\ job[w].todo \subseteq Entries /\ job[w].seen \in Review
      /\ job[w].photo \in 1 .. MaxPhotos
  BY <1>1 DEF Job, PracticeInv, JobsInOrder
<1>3. after \in Review
  <2>1. job[w].verdict \in Verdicts
    BY <1>1 DEF PracticeInv, JobsInOrder
  <2>2. ResultOf(job[w].verdict) \in ReviewResults
    BY <2>1 DEF ResultOf, Verdicts, ReviewResults
  <2>3. review[e] \in Review
    BY <1>2 DEF PracticeInv, PracticeTypeOK
  <2> QED
    BY <1>2, <2>2, <2>3, ReviewedTyped
<1>4. /\ x \in Job /\ x.msg = job[w].msg /\ x.photo = job[w].photo /\ x.verdict = job[w].verdict
      /\ x.stage = "review" /\ x.entry = NoTarget /\ x.todo = job[w].todo
  BY <1>1 DEF Job
<1>5. /\ job' = [job EXCEPT ![w] = x] /\ review' = [review EXCEPT ![e] = after]
      /\ moved' = moved \cup {pair}
      /\ twice' = IF pair \in moved THEN twice \cup {pair} ELSE twice
      /\ UNCHANGED <<attempt, queue, book, req, photos, crashes, reviews, lost, unsent, crossed>>
  BY DEF Write
<1> HIDE DEF x, after
<1>6. /\ review \in [Entries -> Review] /\ moved \subseteq (1 .. MaxPhotos) \X Entries /\ twice \subseteq moved
      /\ crossed = {} => twice = {}
  BY DEF PracticeInv, PracticeTypeOK, ReviewedOnce
<1>7. crossed = {} => pair \notin moved /\ \A d \in job[w].todo : <<job[w].photo, d>> \notin moved
  BY <1>1, <1>2 DEF PracticeInv, NotMovedYet
<1>8. NoTarget \notin Entries /\ <<job[w].photo, NoTarget>> \notin moved
  BY <1>6, NoTargetOutside
<1>9. crossed = {} => \A d \in x.todo \cup {x.entry} : <<job[w].photo, d>> \notin moved
  BY <1>4, <1>7, <1>8
<1>10. x.entry \notin x.todo /\ job[w].stage # "grade"
  BY <1>1, <1>2, <1>4, <1>8
<1>11. \A y \in moved' \ moved : y[1] = job[w].photo /\ y[2] \notin x.todo \cup {x.entry}
  BY <1>1, <1>2, <1>4, <1>5
<1>12. /\ review' \in [Entries -> Review] /\ moved \subseteq moved' /\ twice' \subseteq moved'
       /\ moved' \subseteq (1 .. MaxPhotos) \X Entries
       /\ crossed = {} => twice' = {}
  BY <1>2, <1>3, <1>5, <1>6, <1>7
<1> QED BY <1>1, <1>4, <1>5, <1>9, <1>10, <1>11, <1>12, GoesOn

\* A worker lets go of its message, which may come again for the same item.
LEMMA LetGo ==
  ASSUME PracticeInv, NEW w \in Workers, job[w] # NoJob, job' = [job EXCEPT ![w] = NoJob],
         queue' \subseteq Message, queue \subseteq queue', crashes' \in 0 .. MaxCrashes, lost' \subseteq Items,
         \A m, n \in queue' \ queue : m.item = job[w].msg.item /\ m = n,
         UNCHANGED <<attempt, book, review, req, photos, reviews, moved, twice, unsent, crossed>>
  PROVE  PracticeInv'
<1>1. job'[w] = NoJob /\ \A y \in Workers \ {w} : job'[y] = job[y]
  BY DEF PracticeInv, PracticeTypeOK
<1>2. PracticeTypeOK'
  BY DEF PracticeInv, PracticeTypeOK
<1>3. JobsInOrder' /\ PhotosApart' /\ NotMovedYet'
  BY <1>1 DEF PracticeInv, JobsInOrder, PhotosApart, NotMovedYet
<1>4. OneAtATime'
  <2>1. \A y \in Workers, j \in Items : Serves(y, j)' => y # w /\ Serves(y, j) /\ job'[y] = job[y]
    BY <1>1 DEF Serves
  <2>2. \A j \in Items : Serves(w, j) <=> job[w].msg.item = j
    BY DEF Serves
  <2> SUFFICES ASSUME NEW j \in Items \ crossed
               PROVE  /\ \A m, n \in queue' : m.item = j /\ n.item = j => m = n
                      /\ \A y \in Workers : Serves(y, j)' =>
                           /\ \A m \in queue' : m.item # j
                           /\ \A z \in Workers : Serves(z, j)' => z = y
                           /\ job'[y].photo = attempt[j].photo
                           /\ job'[y].stage # "grade" => attempt[j].status # "pending"
    BY DEF OneAtATime
  <2>3. /\ \A m, n \in queue : m.item = j /\ n.item = j => m = n
        /\ \A y \in Workers : Serves(y, j) =>
             /\ \A m \in queue : m.item # j
             /\ \A z \in Workers : Serves(z, j) => z = y
             /\ job[y].photo = attempt[j].photo
             /\ job[y].stage # "grade" => attempt[j].status # "pending"
    BY DEF PracticeInv, OneAtATime
  <2> QED
    BY <2>1, <2>2, <2>3
<1>5. VerdictOfPhoto' /\ ReviewedOnce'
  BY DEF PracticeInv, VerdictOfPhoto, ReviewedOnce
<1> QED BY <1>2, <1>3, <1>4, <1>5 DEF PracticeInv

LEMMA LetGoInv ==
  ASSUME PracticeInv, NEW w \in Workers, job[w] # NoJob, Finish(w) \/ Raise(w) \/ Crash(w)
  PROVE  PracticeInv'
<1> DEFINE m == job[w].msg
           again == [m EXCEPT !.tries = @ + 1]
<1>1. m \in Message /\ m.item \in Items
  BY BusyWith DEF PracticeInv
<1>2. /\ queue \subseteq Message /\ crashes \in 0 .. MaxCrashes /\ lost \subseteq Items
  BY DEF PracticeInv, PracticeTypeOK
<1>3. m.tries < MaxTries => again \in Message /\ again.item = m.item
  BY <1>1 DEF Message, MaxTries
<1>4. CASE Finish(w)
  BY <1>2, <1>4, LetGo DEF Finish
<1>5. CASE Raise(w)
  <2>1. /\ queue' = IF m.tries < MaxTries THEN queue \cup {again} ELSE queue
        /\ lost' = IF m.tries < MaxTries THEN lost ELSE lost \cup {m.item}
        /\ job' = [job EXCEPT ![w] = NoJob]
        /\ UNCHANGED <<attempt, book, review, req, photos, crashes, reviews, moved, twice, unsent, crossed>>
    BY <1>5 DEF Raise
  <2> HIDE DEF again
  <2>2. /\ queue' \subseteq Message /\ queue \subseteq queue' /\ lost' \subseteq Items
        /\ \A k, n \in queue' \ queue : k.item = m.item /\ k = n
    BY <1>1, <1>2, <1>3, <2>1
  <2> QED
    BY <1>2, <2>1, <2>2, LetGo
<1>6. CASE Crash(w)
  <2>1. /\ crashes < MaxCrashes /\ crashes' = crashes + 1 /\ queue' = queue \cup {m}
        /\ job' = [job EXCEPT ![w] = NoJob]
        /\ UNCHANGED <<attempt, book, review, req, photos, reviews, moved, twice, lost, unsent, crossed>>
    BY <1>6 DEF Crash
  <2>2. crashes' \in 0 .. MaxCrashes
    BY <1>2, <2>1, PracticeBounds
  <2>3. /\ queue' \subseteq Message /\ queue \subseteq queue'
        /\ \A k, n \in queue' \ queue : k.item = m.item /\ k = n
    BY <1>1, <1>2, <2>1
  <2> QED
    BY <1>2, <2>1, <2>2, <2>3, LetGo
<1> QED BY <1>4, <1>5, <1>6

LEMMA PracticeSteps == PracticeInv /\ [PracticeNext]_practiceVars => PracticeInv'
<1> SUFFICES ASSUME PracticeInv, [PracticeNext]_practiceVars PROVE PracticeInv'
  OBVIOUS
<1>1. ASSUME NEW r \in Requests, NEW i \in Items, BeginSubmit(r, i) PROVE PracticeInv'
  BY <1>1, BeginSubmitInv
<1>2. ASSUME NEW r \in Requests, NEW sent \in BOOLEAN, CommitSubmit(r, sent) PROVE PracticeInv'
  BY <1>2, CommitSubmitInv
<1>3. ASSUME NEW r \in Requests,
             \/ \E e \in Entries, result \in ReviewResults : BeginReview(r, e, result)
             \/ CommitReview(r) \/ AbortRequest(r)
      PROVE  PracticeInv'
  BY <1>3, StudentReviewInv
<1>4. ASSUME NEW e \in Entries, DropEntry(e) PROVE PracticeInv'
  BY <1>4, DropEntryInv
<1>5. ASSUME NEW w \in Workers, Work(w) PROVE PracticeInv'
  <2>1. ASSUME NEW m \in queue, Take(w, m) PROVE PracticeInv'
    BY <2>1, TakeInv
  <2>2. ASSUME NEW v \in Verdicts, Grade(w, v) PROVE PracticeInv'
    BY <2>2, GradeInv
  <2>3. job[w].stage \in {"grade", "list", "review"} => job[w] # NoJob
    BY BusyWith DEF PracticeInv
  <2>4. CASE GradeFails(w)
    BY <2>3, <2>4, FailInv DEF GradeFails
  <2>5. CASE List(w)
    BY <2>5, ListInv
  <2>6. ASSUME NEW e \in Entries, Read(w, e) PROVE PracticeInv'
    BY <2>6, ReadInv
  <2>7. ASSUME NEW e \in Entries, ReadFails(w, e) PROVE PracticeInv'
    BY <2>3, <2>7, FailInv DEF ReadFails
  <2>8. CASE Write(w)
    BY <2>8, WriteInv
  <2>9. CASE WriteFails(w) \/ Finish(w)
    BY <2>3, <2>9, LetGoInv DEF WriteFails, Finish
  <2> QED
    BY <1>5, <2>1, <2>2, <2>4, <2>5, <2>6, <2>7, <2>8, <2>9 DEF Work
<1>6. ASSUME NEW w \in Workers, Interrupted(w) \/ Crash(w) PROVE PracticeInv'
  BY <1>6, LetGoInv DEF Interrupted, Crash
<1>7. CASE UNCHANGED practiceVars
  <2>1. PracticeTypeOK' /\ PhotosApart'
    BY <1>7 DEF PracticeInv, PracticeTypeOK, PhotosApart, practiceVars
  <2> QED
    BY <1>7, <2>1, RequestInv DEF practiceVars
<1> QED BY <1>1, <1>2, <1>3, <1>4, <1>5, <1>6, <1>7 DEF PracticeNext

\* practice_grading.py, create_my_practice_attempt: rows, messages and jobs keep their
\* shape, each photo is its item's alone, and an item that was not sent in across
\* something under way has one message or one worker.
THEOREM PracticeInductive == PracticeSpec => []PracticeInv
<1> QED BY PracticeStarts, PracticeSteps, PTL DEF PracticeSpec

\* grade_practice_attempt: however often a message is delivered and wherever its
\* task breaks off, the verdict in a row was read off the photo beside it, unless
\* the item was sent in while something was under way for it.
THEOREM VerdictsOfPhotos == PracticeSpec => []VerdictOfPhoto
<1>1. PracticeInv => VerdictOfPhoto
  BY DEF PracticeInv
<1> QED BY <1>1, PracticeInductive, PTL

\* grade_practice_attempt, record_review: as long as nothing is sent in across
\* something under way, no verdict moves the review of an entry twice.
THEOREM MovedOnce == PracticeSpec => []ReviewedOnce
<1>1. PracticeInv => ReviewedOnce
  BY DEF PracticeInv
<1> QED BY <1>1, PracticeInductive, PTL

=============================================================================
