---------------------------- MODULE WorkerProofs ----------------------------
(***************************************************************************)
(* Proofs about the worker: the running-job slots of JobSlots for any      *)
(* number of threads and jobs and any limit, and the life of a run in      *)
(* GradingRun for any number of sheets, questions, workers, retry          *)
(* requests, reservations, attempts, crashes and starts.                   *)
(***************************************************************************)
EXTENDS StrayRuns, JobSlots, FunctionTheorems, FiniteSetTheorems, TLAPS

-----------------------------------------------------------------------------
\* Slots: lease rows and advisory locks.

\* The rows left by a sweep are the fresh ones.
LEMMA SweptRows ==
  ASSUME SlotsTypeOK
  PROVE  /\ Swept \in [Jobs -> [state: {"none", "fresh", "stale"}, owner: Threads \cup {NoOne}]]
         /\ \A j \in Jobs : Swept[j].state # "none" <=> Fresh(j)
         /\ \A j \in Jobs : Fresh(j) => Swept[j] = leases[j]
<1>1. \A j \in Jobs : leases[j] \in [state: {"none", "fresh", "stale"}, owner: Threads \cup {NoOne}]
  BY DEF SlotsTypeOK
<1>2. NoLease \in [state: {"none", "fresh", "stale"}, owner: Threads \cup {NoOne}]
  BY DEF NoLease
<1> QED  BY <1>1, <1>2 DEF Swept, Fresh, NoLease

\* Adding one element to a finite set below a bound reaches the bound at most.
LEMMA OneMore ==
  ASSUME NEW S, IsFiniteSet(S), NEW x, Cardinality(S) < Limit
  PROVE  Cardinality(S \cup {x}) <= Limit
<1>1. Cardinality(S) \in Nat  BY FS_CardinalityType
<1>2. Limit \in Nat  BY LimitPositive
<1>3. Cardinality(S \cup {x}) = Cardinality(S) \/ Cardinality(S \cup {x}) = Cardinality(S) + 1
  BY FS_AddElement
<1> QED  BY <1>1, <1>2, <1>3

\* Subsets of the jobs are finite, and a smaller one has no more elements.
LEMMA JobSets ==
  ASSUME NEW S \in SUBSET Jobs, NEW T \in SUBSET S
  PROVE  /\ IsFiniteSet(S) /\ IsFiniteSet(T)
         /\ Cardinality(S) \in Nat /\ Cardinality(T) \in Nat
         /\ Cardinality(T) <= Cardinality(S)
<1>1. IsFiniteSet(S)  BY JobsFinite, FS_Subset
<1> QED  BY <1>1, FS_Subset, FS_CardinalityType

LEMMA SlotsInitInv == SlotsInit => SlotsInv
<1> SUFFICES ASSUME SlotsInit PROVE SlotsInv
  OBVIOUS
<1>1. SlotsTypeOK
  <2>1. AnyJob \in Jobs  BY JobsFinite DEF AnyJob
  <2>2. thread \in [Threads -> Thread]  BY <2>1 DEF SlotsInit, Thread
  <2>3. leases \in [Jobs -> [state: {"none", "fresh", "stale"}, owner: Threads \cup {NoOne}]]
    BY DEF SlotsInit, NoLease
  <2>4. queue \in [Jobs -> Nat] /\ sent \in [Jobs -> 0 .. MaxSent] /\ deaths \in 0 .. MaxDeaths
    BY BoundsNat DEF SlotsInit
  <2>5. locks \in [Jobs -> Threads \cup {NoOne}] /\ admitted \in BOOLEAN /\ missed \in BOOLEAN
    BY DEF SlotsInit
  <2> QED  BY <2>2, <2>3, <2>4, <2>5 DEF SlotsTypeOK
<1>2. RowsWithinLimit
  <2>1. {j \in Jobs : leases[j].state # "none"} = {}  BY DEF SlotsInit, NoLease
  <2> QED  BY <2>1, FS_EmptySet, LimitPositive DEF RowsWithinLimit
<1>3. RunnersLocked  BY DEF SlotsInit, RunnersLocked, Running
<1> QED  BY <1>1, <1>2, <1>3 DEF SlotsInv

LEMMA SlotsNextType == SlotsTypeOK /\ [SlotsNext]_slotsVars => SlotsTypeOK'
<1> SUFFICES ASSUME SlotsTypeOK, [SlotsNext]_slotsVars PROVE SlotsTypeOK'
  OBVIOUS
<1> USE DEF SlotsTypeOK
<1>1. ASSUME NEW j \in Jobs, Send(j) PROVE SlotsTypeOK'
  BY <1>1, BoundsNat DEF Send
<1>2. ASSUME NEW j \in Jobs, LeaseExpires(j) PROVE SlotsTypeOK'
  BY <1>2 DEF LeaseExpires
<1>3. ASSUME NEW b \in BOOLEAN, SetAdmitted(b) PROVE SlotsTypeOK'
  BY <1>3 DEF SetAdmitted
<1>4. ASSUME NEW w \in Threads, NEW j \in Jobs, Acquire(w, j) PROVE SlotsTypeOK'
  <2>1. thread' \in [Threads -> Thread]  BY <1>4 DEF Acquire, Thread
  <2>2. leases' = [Swept EXCEPT ![j] = [state |-> "fresh", owner |-> w]]  BY <1>4 DEF Acquire
  <2>3. leases' \in [Jobs -> [state: {"none", "fresh", "stale"}, owner: Threads \cup {NoOne}]]
    BY <2>2, SweptRows
  <2>4. queue' \in [Jobs -> Nat]  BY <1>4 DEF Acquire
  <2> QED  BY <1>4, <2>1, <2>3, <2>4 DEF Acquire
<1>5. ASSUME NEW w \in Threads, NEW j \in Jobs, SendAgain(w, j) PROVE SlotsTypeOK'
  BY <1>5, SweptRows DEF SendAgain
<1>6. ASSUME NEW w \in Threads, NEW j \in Jobs, Duplicate(w, j) PROVE SlotsTypeOK'
  BY <1>6 DEF Duplicate
<1>7. ASSUME NEW w \in Threads, TryLock(w) PROVE SlotsTypeOK'
  <2>1. thread[w].job \in Jobs  BY DEF Thread
  <2>2. locks' \in [Jobs -> Threads \cup {NoOne}]  BY <1>7, <2>1 DEF TryLock
  <2>3. thread' \in [Threads -> Thread]
    <3>1. \/ thread' = [thread EXCEPT ![w].pc = "running"]
          \/ thread' = [thread EXCEPT ![w].pc = "leaving"]
      BY <1>7 DEF TryLock
    <3>2. CASE thread' = [thread EXCEPT ![w].pc = "running"]  BY <3>2 DEF Thread
    <3>3. CASE thread' = [thread EXCEPT ![w].pc = "leaving"]  BY <3>3 DEF Thread
    <3> QED  BY <3>1, <3>2, <3>3
  <2> QED  BY <1>7, <2>2, <2>3 DEF TryLock
<1>8. ASSUME NEW w \in Threads, Finish(w) PROVE SlotsTypeOK'
  <2>1. thread[w].job \in Jobs /\ thread' \in [Threads -> Thread]  BY <1>8 DEF Finish, Thread
  <2>2. locks' \in [Jobs -> Threads \cup {NoOne}]  BY <1>8, <2>1 DEF Finish
  <2>3. UNCHANGED <<leases, queue, sent, admitted, deaths, missed>>  BY <1>8 DEF Finish
  <2> QED  BY <2>1, <2>2, <2>3
<1>9. ASSUME NEW w \in Threads, Leave(w) PROVE SlotsTypeOK'
  <2>0. thread' = [thread EXCEPT ![w].pc = "idle", ![w].beat = FALSE]  BY <1>9 DEF Leave
  <2>1. thread[w].job \in Jobs /\ thread' \in [Threads -> Thread]  BY <2>0 DEF Thread
  <2>2. leases' \in [Jobs -> [state: {"none", "fresh", "stale"}, owner: Threads \cup {NoOne}]]
    BY <1>9 DEF Leave, NoLease
  <2> QED  BY <1>9, <2>1, <2>2 DEF Leave
<1>10. ASSUME NEW w \in Threads, Heartbeat(w) PROVE SlotsTypeOK'
  <2>1. CASE Owns(w)
    <3>1. /\ leases' = [leases EXCEPT ![thread[w].job].state = "fresh"]
          /\ UNCHANGED <<thread, locks, queue, sent, admitted, deaths, missed>>
      BY <1>10, <2>1 DEF Heartbeat
    <3> QED  BY <3>1
  <2>2. CASE ~Owns(w)
    <3>1. /\ thread' = [thread EXCEPT ![w].beat = FALSE]
          /\ UNCHANGED <<leases, locks, queue, sent, admitted, deaths, missed>>
      BY <1>10, <2>2 DEF Heartbeat
    <3> QED  BY <3>1 DEF Thread
  <2> QED  BY <2>1, <2>2
<1>11. ASSUME NEW w \in Threads, HeartbeatFails(w) PROVE SlotsTypeOK'
  BY <1>11 DEF HeartbeatFails, Thread
<1>12. ASSUME NEW w \in Threads, ThreadDies(w) PROVE SlotsTypeOK'
  <2>1. thread[w].job \in Jobs /\ thread' \in [Threads -> Thread]  BY <1>12 DEF ThreadDies, Thread
  <2>2. leases' \in [Jobs -> [state: {"none", "fresh", "stale"}, owner: Threads \cup {NoOne}]]
    BY <1>12 DEF ThreadDies
  <2>3. locks' \in [Jobs -> Threads \cup {NoOne}]  BY <1>12 DEF ThreadDies
  <2>4. deaths' \in 0 .. MaxDeaths  BY <1>12, BoundsNat DEF ThreadDies
  <2>5. queue' \in [Jobs -> Nat]
    <3>1. queue' = [queue EXCEPT ![thread[w].job] = @ + 1]  BY <1>12 DEF ThreadDies
    <3>2. queue \in [Jobs -> Nat]  OBVIOUS
    <3> HIDE DEF SlotsTypeOK
    <3> QED  BY <2>1, <3>1, <3>2
  <2> QED  BY <1>12, <2>1, <2>2, <2>3, <2>4, <2>5 DEF ThreadDies
<1>13. CASE UNCHANGED slotsVars
  BY <1>13 DEF slotsVars
<1> QED
  BY <1>1, <1>2, <1>3, <1>4, <1>5, <1>6, <1>7, <1>8, <1>9, <1>10, <1>11, <1>12, <1>13
  DEF SlotsNext, Step

\* Only a claim adds a row, and it counts the fresh rows after the sweep.
LEMMA NextRows == SlotsTypeOK /\ RowsWithinLimit /\ [SlotsNext]_slotsVars => RowsWithinLimit'
<1> SUFFICES ASSUME SlotsTypeOK, RowsWithinLimit, [SlotsNext]_slotsVars PROVE RowsWithinLimit'
  OBVIOUS
<1> DEFINE Rows == {j \in Jobs : leases[j].state # "none"}
           FreshRows == {j \in Jobs : Fresh(j)}
<1>1. ASSUME Rows' \subseteq Rows PROVE RowsWithinLimit'
  <2>1. Rows \in SUBSET Jobs /\ Rows' \in SUBSET Rows  BY <1>1
  <2>2. Cardinality(Rows') <= Cardinality(Rows) /\ Cardinality(Rows) \in Nat
        /\ Cardinality(Rows') \in Nat
    BY <2>1, JobSets
  <2>3. Limit \in Nat  BY LimitPositive
  <2> QED  BY <2>2, <2>3 DEF RowsWithinLimit
<1>2. ASSUME NEW w \in Threads, NEW j \in Jobs, Acquire(w, j) PROVE RowsWithinLimit'
  <2>1. Rows' = FreshRows \cup {j}
    <3>1. leases' = [Swept EXCEPT ![j] = [state |-> "fresh", owner |-> w]]  BY <1>2 DEF Acquire
    <3> QED  BY <3>1, SweptRows
  <2>2. Cardinality(FreshRows) < Limit  BY <1>2 DEF Acquire, Free
  <2>3. IsFiniteSet(FreshRows)  BY JobsFinite, FS_Subset
  <2> HIDE DEF FreshRows
  <2>4. Cardinality(FreshRows \cup {j}) <= Limit  BY <2>2, <2>3, OneMore
  <2> QED  BY <2>1, <2>4 DEF RowsWithinLimit
<1>3. ASSUME NEW w \in Threads, NEW j \in Jobs, SendAgain(w, j) PROVE RowsWithinLimit'
  <2>1. leases' = Swept  BY <1>3 DEF SendAgain
  <2> QED  BY <2>1, <1>1, SweptRows DEF Fresh
<1>4. ASSUME NEW j \in Jobs, LeaseExpires(j) PROVE RowsWithinLimit'
  BY <1>4, <1>1 DEF LeaseExpires, Fresh, SlotsTypeOK
<1>5. ASSUME NEW w \in Threads, Heartbeat(w) PROVE RowsWithinLimit'
  BY <1>5, <1>1 DEF Heartbeat, Owns, SlotsTypeOK
<1>6. ASSUME NEW w \in Threads, Leave(w) PROVE RowsWithinLimit'
  BY <1>6, <1>1 DEF Leave, Owns, NoLease, SlotsTypeOK
<1>7. ASSUME NEW w \in Threads, ThreadDies(w) PROVE RowsWithinLimit'
  BY <1>7, <1>1 DEF ThreadDies, Owns, SlotsTypeOK
<1>8. ASSUME UNCHANGED leases PROVE RowsWithinLimit'
  BY <1>8, <1>1
<1> QED
  BY <1>2, <1>3, <1>4, <1>5, <1>6, <1>7, <1>8
  DEF SlotsNext, Step, Send, SetAdmitted, Duplicate, TryLock, Finish, HeartbeatFails, slotsVars

\* A worker that starts to run has just taken the lock; nobody takes it away.
LEMMA NextLocked == SlotsTypeOK /\ RunnersLocked /\ [SlotsNext]_slotsVars => RunnersLocked'
<1> SUFFICES ASSUME SlotsTypeOK, RunnersLocked, [SlotsNext]_slotsVars PROVE RunnersLocked'
  OBVIOUS
<1> USE DEF SlotsTypeOK, RunnersLocked, Running, Thread
<1>1. ASSUME NEW w \in Threads, NEW j \in Jobs, Acquire(w, j) PROVE RunnersLocked'
  BY <1>1 DEF Acquire
<1>2. ASSUME NEW w \in Threads, TryLock(w) PROVE RunnersLocked'
  BY <1>2, NoOneOutside DEF TryLock
<1>3. ASSUME NEW w \in Threads, Finish(w) PROVE RunnersLocked'
  BY <1>3 DEF Finish
<1>4. ASSUME NEW w \in Threads, Leave(w) PROVE RunnersLocked'
  BY <1>4 DEF Leave
<1>5. ASSUME NEW w \in Threads, Heartbeat(w) PROVE RunnersLocked'
  <2>1. locks' = locks /\ (thread' = thread \/ thread' = [thread EXCEPT ![w].beat = FALSE])
    BY <1>5 DEF Heartbeat
  <2> QED  BY <2>1
<1>6. ASSUME NEW w \in Threads, HeartbeatFails(w) PROVE RunnersLocked'
  BY <1>6 DEF HeartbeatFails
<1>7. ASSUME NEW w \in Threads, ThreadDies(w) PROVE RunnersLocked'
  BY <1>7 DEF ThreadDies
<1>8. ASSUME UNCHANGED <<thread, locks>> PROVE RunnersLocked'
  BY <1>8
<1> QED
  BY <1>1, <1>2, <1>3, <1>4, <1>5, <1>6, <1>7, <1>8
  DEF SlotsNext, Step, Send, LeaseExpires, SetAdmitted, SendAgain, Duplicate, slotsVars

\* Rows have their types, the rows of a school never exceed its limit, and a
\* runner holds its lock: in every state, whatever expires, fails or deaths.
THEOREM SlotsInductive == SlotsSpec => []SlotsInv
<1>1. SlotsInv /\ [SlotsNext]_slotsVars => SlotsInv'
  BY SlotsNextType, NextRows, NextLocked DEF SlotsInv
<1> QED  BY <1>1, SlotsInitInv, PTL DEF SlotsSpec

\* Every row, lock and thread keeps the shape the code gives it.
THEOREM SlotsTypeCorrect == SlotsSpec => []SlotsTypeOK
<1>1. SlotsInv => SlotsTypeOK  BY DEF SlotsInv
<1> QED  BY <1>1, SlotsInductive, PTL

\* A school never has more live leases than its limit, although a heartbeat may
\* revive a lease that already expired.
THEOREM LeaseBound == SlotsSpec => []LeasesWithinLimit
<1>1. SlotsInv => LeasesWithinLimit
  <2> SUFFICES ASSUME SlotsInv PROVE LeasesWithinLimit
    OBVIOUS
  <2> DEFINE Rows == {j \in Jobs : leases[j].state # "none"}
             FreshRows == {j \in Jobs : Fresh(j)}
  <2>1. Rows \in SUBSET Jobs /\ FreshRows \in SUBSET Rows  BY DEF Fresh
  <2>2. Cardinality(FreshRows) <= Cardinality(Rows) /\ Cardinality(Rows) \in Nat
        /\ Cardinality(FreshRows) \in Nat
    BY <2>1, JobSets
  <2>3. Cardinality(Rows) <= Limit  BY DEF SlotsInv, RowsWithinLimit
  <2>4. Limit \in Nat  BY LimitPositive
  <2> HIDE DEF Rows, FreshRows
  <2>5. Cardinality(FreshRows) <= Limit  BY <2>2, <2>3, <2>4
  <2> QED  BY <2>5 DEF LeasesWithinLimit, FreshRows
<1> QED  BY <1>1, SlotsInductive, PTL

\* No job runs in two workers at once.
THEOREM OneRunnerOnly == SlotsSpec => []OneRunner
<1>1. SlotsInv => OneRunner  BY DEF SlotsInv, OneRunner, RunnersLocked
<1> QED  BY <1>1, SlotsInductive, PTL

-----------------------------------------------------------------------------
\* With heartbeats that arrive, a claimed slot stays claimed.

\* What was missed stays missed.
LEMMA NextMissed == SlotsTypeOK /\ [SlotsNext]_slotsVars /\ ~missed' => ~missed
<1> SUFFICES ASSUME SlotsTypeOK, [SlotsNext]_slotsVars, ~missed' PROVE ~missed
  OBVIOUS
<1>1. ASSUME NEW j \in Jobs, LeaseExpires(j) PROVE ~missed
  BY <1>1 DEF LeaseExpires, SlotsTypeOK
<1>2. ASSUME UNCHANGED missed PROVE ~missed
  BY <1>2
<1>3. ASSUME NEW w \in Threads, HeartbeatFails(w) PROVE ~missed
  BY <1>3 DEF HeartbeatFails
<1> QED
  BY <1>1, <1>2, <1>3
  DEF SlotsNext, Step, Send, SetAdmitted, Acquire, SendAgain, Duplicate, Heartbeat, TryLock, Finish, Leave, ThreadDies, slotsVars

LEMMA NextCovered == SlotsTypeOK /\ RunnersCovered /\ [SlotsNext]_slotsVars => RunnersCovered'
<1> SUFFICES ASSUME SlotsTypeOK, RunnersCovered, [SlotsNext]_slotsVars, ~missed',
                    NEW v \in Threads, thread'[v].pc # "idle"
             PROVE  thread'[v].beat /\ leases'[thread'[v].job] = [state |-> "fresh", owner |-> v]
  BY DEF RunnersCovered
<1> DEFINE Kept == thread'[v].beat /\ leases'[thread'[v].job] = [state |-> "fresh", owner |-> v]
<1>0. /\ thread \in [Threads -> Thread] /\ thread[v].job \in Jobs
      /\ leases \in [Jobs -> [state: {"none", "fresh", "stale"}, owner: Threads \cup {NoOne}]]
  BY DEF SlotsTypeOK, Thread
<1>1. thread[v].pc # "idle" =>
        thread[v].beat /\ leases[thread[v].job] = [state |-> "fresh", owner |-> v]
  BY NextMissed DEF RunnersCovered
<1>2. ASSUME NEW j \in Jobs, LeaseExpires(j) PROVE Kept
  <2>1. thread' = thread /\ leases' = [leases EXCEPT ![j].state = "stale"]
    BY <1>2 DEF LeaseExpires
  <2>2. leases[j].owner = v => ~thread[v].beat  BY <1>2 DEF LeaseExpires, Unattended, SlotsTypeOK
  <2>3. j # thread[v].job  BY <2>1, <2>2, <1>1
  <2> QED  BY <2>1, <2>3, <1>1, <1>0
<1>3. ASSUME NEW w \in Threads, NEW j \in Jobs, Acquire(w, j) PROVE Kept
  <2>1. /\ leases' = [Swept EXCEPT ![j] = [state |-> "fresh", owner |-> w]]
        /\ thread' = [thread EXCEPT ![w] = [pc |-> "leased", job |-> j, beat |-> TRUE]]
        /\ ~Fresh(j)
    BY <1>3 DEF Acquire
  <2>2. CASE v = w
    BY <2>1, <2>2, <1>0, SweptRows
  <2>3. CASE v # w
    <3>1. thread'[v] = thread[v]  BY <2>1, <2>3, <1>0
    <3>2. Fresh(thread[v].job)  BY <3>1, <1>1 DEF Fresh
    <3>3. leases'[thread[v].job] = leases[thread[v].job]
      BY <3>2, <2>1, <1>0, SweptRows
    <3> QED  BY <3>1, <3>3, <1>1
  <2> QED  BY <2>2, <2>3
<1>4. ASSUME NEW w \in Threads, NEW j \in Jobs, SendAgain(w, j) PROVE Kept
  <2>1. thread' = thread /\ leases' = Swept  BY <1>4 DEF SendAgain
  <2>2. Fresh(thread[v].job)  BY <2>1, <1>1 DEF Fresh
  <2> QED  BY <2>1, <2>2, <1>0, <1>1, SweptRows
<1>5. ASSUME NEW w \in Threads, TryLock(w) PROVE Kept
  <2>1. /\ leases' = leases /\ thread[w].pc # "idle"
        /\ \/ thread' = [thread EXCEPT ![w].pc = "running"]
           \/ thread' = [thread EXCEPT ![w].pc = "leaving"]
    BY <1>5 DEF TryLock
  <2>2. thread'[v].job = thread[v].job /\ thread'[v].beat = thread[v].beat
    <3>1. CASE thread' = [thread EXCEPT ![w].pc = "running"]  BY <3>1, <1>0 DEF Thread
    <3>2. CASE thread' = [thread EXCEPT ![w].pc = "leaving"]  BY <3>2, <1>0 DEF Thread
    <3> QED  BY <2>1, <3>1, <3>2
  <2>3. thread[v].pc # "idle"
    <3>1. CASE v = w  BY <2>1, <3>1
    <3>2. CASE v # w
      <4>1. thread'[v] = thread[v]
        <5>1. CASE thread' = [thread EXCEPT ![w].pc = "running"]  BY <5>1, <3>2, <1>0
        <5>2. CASE thread' = [thread EXCEPT ![w].pc = "leaving"]  BY <5>2, <3>2, <1>0
        <5> QED  BY <2>1, <5>1, <5>2
      <4> QED  BY <4>1
    <3> QED  BY <3>1, <3>2
  <2> QED  BY <2>1, <2>2, <2>3, <1>1
<1>6. ASSUME NEW w \in Threads, Finish(w) PROVE Kept
  <2>1. /\ leases' = leases /\ thread[w].pc # "idle"
        /\ thread' = [thread EXCEPT ![w].pc = "leaving"]
    BY <1>6 DEF Finish, Running
  <2> QED  BY <2>1, <1>0, <1>1 DEF Thread
<1>7. ASSUME NEW w \in Threads, Leave(w) PROVE Kept
  <2>1. /\ thread' = [thread EXCEPT ![w].pc = "idle", ![w].beat = FALSE]
        /\ leases' = IF Owns(w) THEN [leases EXCEPT ![thread[w].job] = NoLease] ELSE leases
    BY <1>7 DEF Leave
  <2>2. v # w /\ thread'[v] = thread[v]  BY <2>1, <1>0 DEF Thread
  <2>3. leases'[thread[v].job] = leases[thread[v].job]
    BY <2>1, <2>2, <1>0, <1>1 DEF Owns
  <2> QED  BY <2>2, <2>3, <1>1
<1>8. ASSUME NEW w \in Threads, Heartbeat(w) PROVE Kept
  <2>1. CASE Owns(w)
    <3>1. /\ thread' = thread
          /\ leases' = [leases EXCEPT ![thread[w].job].state = "fresh"]
      BY <1>8, <2>1 DEF Heartbeat
    <3> QED  BY <3>1, <1>0, <1>1
  <2>2. CASE ~Owns(w)
    <3>1. leases' = leases /\ thread' = [thread EXCEPT ![w].beat = FALSE]
      BY <1>8, <2>2 DEF Heartbeat
    <3>2. thread[v].pc # "idle"  BY <3>1, <1>0 DEF Thread
    <3>3. Owns(v)  BY <3>2, <1>1 DEF Owns
    <3>4. thread'[v] = thread[v]  BY <3>1, <3>3, <2>2, <1>0
    <3> QED  BY <3>1, <3>2, <3>4, <1>1
  <2> QED  BY <2>1, <2>2
<1>9. ASSUME NEW w \in Threads, ThreadDies(w) PROVE Kept
  <2>1. /\ thread' = [thread EXCEPT ![w].pc = "idle", ![w].beat = FALSE]
        /\ leases' = IF Owns(w) THEN [leases EXCEPT ![thread[w].job].owner = NoOne] ELSE leases
    BY <1>9 DEF ThreadDies
  <2>2. v # w /\ thread'[v] = thread[v]  BY <2>1, <1>0 DEF Thread
  <2>3. leases'[thread[v].job] = leases[thread[v].job]
    BY <2>1, <2>2, <1>0, <1>1 DEF Owns
  <2> QED  BY <2>2, <2>3, <1>1
<1>10. ASSUME UNCHANGED <<thread, leases>> PROVE Kept
  BY <1>10, <1>1
<1> QED
  BY <1>2, <1>3, <1>4, <1>5, <1>6, <1>7, <1>8, <1>9, <1>10
  DEF SlotsNext, Step, Send, SetAdmitted, Duplicate, HeartbeatFails, slotsVars

\* While no heartbeat is lost or late, every thread that claimed a slot is
\* covered by its own live lease.
THEOREM RunnersStayCovered == SlotsSpec => []RunnersCovered
<1>1. SlotsInit => RunnersCovered  BY DEF SlotsInit, RunnersCovered
<1>2. SlotsTypeOK /\ RunnersCovered /\ [SlotsNext]_slotsVars => RunnersCovered'  BY NextCovered
<1> QED  BY <1>1, <1>2, SlotsTypeCorrect, PTL DEF SlotsSpec

\* So long the school's limit bounds its running jobs, not only its rows:
\* running workers map one to one to live leases.
THEOREM ReliableLimit == SlotsSpec => []RunnersWithinLimit
<1>1. SlotsTypeOK /\ RunnersCovered /\ LeasesWithinLimit => RunnersWithinLimit
  <2> SUFFICES ASSUME SlotsTypeOK, RunnersCovered, LeasesWithinLimit, ~missed PROVE Cardinality({w \in Threads : Running(w)}) <= Limit
    BY DEF RunnersWithinLimit
  <2> DEFINE S == {w \in Threads : Running(w)}
             T == {j \in Jobs : Fresh(j)}
             f == [w \in S |-> thread[w].job]
  <2>1. \A w \in S : thread[w].job \in T /\ leases[thread[w].job].owner = w
    <3> SUFFICES ASSUME NEW w \in S
                 PROVE  thread[w].job \in T /\ leases[thread[w].job].owner = w
      OBVIOUS
    <3>1. w \in Threads /\ thread[w].pc # "idle"  BY DEF Running
    <3>2. thread[w].job \in Jobs  BY <3>1 DEF SlotsTypeOK, Thread
    <3>3. leases[thread[w].job] = [state |-> "fresh", owner |-> w]
      BY <3>1 DEF RunnersCovered
    <3> QED  BY <3>2, <3>3 DEF Fresh
  <2>2. f \in [S -> T]  BY <2>1
  <2>3. \A v, w \in S : f[v] = f[w] => v = w  BY <2>1
  <2>4. f \in Injection(S, T)  BY <2>2, <2>3, Fun_IsInj
  <2>5. IsFiniteSet(T)  BY JobsFinite, FS_Subset
  <2> HIDE DEF S, T, f
  <2>6. IsFiniteSet(S) /\ Cardinality(S) <= Cardinality(T)  BY <2>4, <2>5, FS_Injection
  <2>7. Cardinality(S) \in Nat /\ Cardinality(T) \in Nat  BY <2>5, <2>6, FS_CardinalityType
  <2>8. Cardinality(T) <= Limit  BY DEF LeasesWithinLimit, T
  <2>9. Limit \in Nat  BY LimitPositive
  <2>10. Cardinality(S) <= Limit  BY <2>6, <2>7, <2>8, <2>9
  <2> QED  BY <2>10 DEF S
<1> QED  BY <1>1, SlotsTypeCorrect, LeaseBound, RunnersStayCovered, PTL

-----------------------------------------------------------------------------
\* Runs: the shape of what they read and write.

Reservation == [status: {"none", "active", "settled", "released"}, sheets: SUBSET Sheets]

Item == [st: {"absent", "queued", "extracting", "graded", "failed"}, tries: 0 .. MaxTries]

Run == [status: {"absent", "queued", "running"} \cup Terminal,
        sel: SUBSET Sheets, rid: Rids \cup {NoResv}]

Pcs == {"idle", "checked", "loading", "grading"}

\* A thread that executes nothing.
LEMMA IdleType == Idle \in Worker /\ Idle.pc = "idle" /\ Idle.flight = {}
<1>1. 0 \in 0 .. MaxTries
  BY TriesPositive
<1> QED BY <1>1 DEF Idle, Worker

\* A run names sheets, and the sheets of a retry are its own.
LEMMA SelectedType ==
  ASSUME TypeOK
  PROVE  /\ \A sel \in SUBSET Sheets : Selected(sel) \in SUBSET Sheets
         /\ RetrySheets \in SUBSET Sheets
BY DEF TypeOK, Selected, RetrySheets

-----------------------------------------------------------------------------
\* The quota.

\* A new reservation holds sheets nobody holds and nobody has billed.
LEMMA ReserveFits ==
  ASSUME TypeOK, HoldsFresh, NEW r \in Rids, NEW S \in SUBSET Sheets, Reserve(r, S),
         UNCHANGED billed
  PROVE  resv' \in [Rids -> Reservation] /\ HoldsFresh' /\ Abstract!Hold(r, S \ billed)
<1>1. resv \in [Rids -> Reservation] /\ ~Active(r)
  BY DEF TypeOK, Reservation, Reserve, Active
<1>2. /\ resv'[r] = [status |-> "active", sheets |-> S \ billed]
      /\ \A t \in Rids \ {r} : resv'[t] = resv[t]
  BY <1>1 DEF Reserve
<1>3. \A t \in Rids : Active(t) => resv[t].sheets \cap S = {}
  BY DEF Reserve, Overlaps
<1>4. resv' \in [Rids -> Reservation]
  BY <1>1 DEF Reserve, Reservation
<1>5. HoldsFresh'
  BY <1>1, <1>2, <1>3 DEF HoldsFresh, Active
<1>6. held' = [held EXCEPT ![r] = S \ billed]
  <2>1. Active(r)' /\ resv'[r].sheets = S \ billed
    BY <1>2 DEF Active
  <2>2. \A t \in Rids \ {r} : Active(t)' = Active(t) /\ resv'[t].sheets = resv[t].sheets
    BY <1>2 DEF Active
  <2> QED BY <2>1, <2>2 DEF held
<1>7. held[r] = {} /\ \A t \in Rids : held[t] \cap (S \ billed) = {}
  BY <1>1, <1>3 DEF held
<1> QED BY <1>4, <1>5, <1>6, <1>7 DEF Abstract!Hold

\* A settlement bills sheets its reservation holds, and leaves it inactive.
LEMMA SettleFits ==
  ASSUME TypeOK, HoldsFresh, NEW r \in Rids \cup {NoResv}, NEW S \in SUBSET Sheets, Settle(r, S)
  PROVE  /\ resv' \in [Rids -> Reservation] /\ billed' \in SUBSET Sheets /\ HoldsFresh'
         /\ billed' \subseteq billed \cup S
         /\ \/ UNCHANGED <<resv, billed>>
            \/ r \in Rids /\ Abstract!Settle(r, resv[r].sheets \cap S)
<1>1. resv \in [Rids -> Reservation] /\ billed \in SUBSET Sheets
  BY DEF TypeOK, Reservation
<1>2. CASE r = NoResv \/ ~Active(r)
  BY <1>1, <1>2 DEF Settle, HoldsFresh, Active
<1>3. CASE r # NoResv /\ Active(r)
  <2>1. r \in Rids
    BY <1>3
  <2>2. /\ resv' = [resv EXCEPT ![r].status = "settled"]
        /\ billed' = billed \cup (resv[r].sheets \cap S)
    BY <1>3 DEF Settle
  <2>3. resv' \in [Rids -> Reservation] /\ billed' \in SUBSET Sheets
    BY <1>1, <2>1, <2>2 DEF Reservation
  <2>4. resv'[r].status = "settled" /\ \A t \in Rids \ {r} : resv'[t] = resv[t]
    BY <1>1, <2>1, <2>2 DEF Reservation
  <2>5. HoldsFresh'
    BY <1>3, <2>1, <2>2, <2>4 DEF HoldsFresh, Active
  <2>6. held' = [held EXCEPT ![r] = {}]
    BY <2>1, <2>4 DEF held, Active
  <2>7. resv[r].sheets \cap S \subseteq held[r] \ billed
    BY <1>3, <2>1 DEF held, HoldsFresh
  <2> QED BY <2>1, <2>2, <2>3, <2>5, <2>6, <2>7 DEF Abstract!Settle
<1> QED BY <1>2, <1>3

\* A release drops what its reservation holds.
LEMMA ReleaseFits ==
  ASSUME TypeOK, HoldsFresh, NEW r \in Rids \cup {NoResv}, Release(r)
  PROVE  /\ resv' \in [Rids -> Reservation] /\ UNCHANGED billed /\ HoldsFresh'
         /\ \/ UNCHANGED <<resv, billed>>
            \/ r \in Rids /\ Abstract!Drop({r})
<1>1. resv \in [Rids -> Reservation]
  BY DEF TypeOK, Reservation
<1>2. CASE r = NoResv \/ ~Active(r)
  BY <1>1, <1>2 DEF Release, HoldsFresh, Active
<1>3. CASE r # NoResv /\ Active(r)
  <2>1. r \in Rids
    BY <1>3
  <2>2. resv' = [resv EXCEPT ![r].status = "released"] /\ UNCHANGED billed
    BY <1>3 DEF Release
  <2>3. resv' \in [Rids -> Reservation]
    BY <1>1, <2>1, <2>2 DEF Reservation
  <2>4. resv'[r].status = "released" /\ \A t \in Rids \ {r} : resv'[t] = resv[t]
    BY <1>1, <2>1, <2>2 DEF Reservation
  <2>5. HoldsFresh'
    BY <2>1, <2>2, <2>4 DEF HoldsFresh, Active
  <2>6. held' = [t \in Rids |-> IF t \in {r} THEN {} ELSE held[t]]
    BY <2>1, <2>4 DEF held, Active
  <2> QED BY <2>1, <2>2, <2>3, <2>5, <2>6 DEF Abstract!Drop
<1> QED BY <1>2, <1>3

-----------------------------------------------------------------------------
\* Grades.

\* No grade is taken away by this step.
Kept == \A i \in Items : Graded(i) => item'[i] = item[i]

\* Billed sheets stay graded if no grade is lost and only graded ones are added.
LEMMA BilledKept ==
  ASSUME BilledIsGraded, Kept, billed \in SUBSET Sheets, billed' \in SUBSET Sheets,
         \A s \in billed' \ billed : FullyGraded(s)
  PROVE  BilledIsGraded'
<1>1. \A i \in Items : Graded(i) => Graded(i)'
  BY DEF Kept, Graded
<1>2. \A s \in billed' : FullyGraded(s)
  BY DEF BilledIsGraded
<1> QED BY <1>1, <1>2 DEF BilledIsGraded, FullyGraded, Items

\* The execution that goes on is the only one.
LEMMA OnlyOne ==
  ASSUME OneExecution, NEW w \in Workers, Executing(w)
  PROVE  \A v \in Workers \ {w} : ~Executing(v) /\ worker[v].pc # "grading"
BY DEF OneExecution, Executing

\* A thread that stops, or has not begun, executes nothing.
LEMMA StopFits ==
  ASSUME IInv, NEW w \in Workers, NEW x \in Worker, x.pc \in {"idle", "checked"},
         x.flight = {}, worker' = [worker EXCEPT ![w] = x], UNCHANGED item
  PROVE  worker' \in [Workers -> Worker] /\ OneExecution' /\ PendingUngraded' /\ Kept
<1>1. worker \in [Workers -> Worker] /\ worker'[w] = x
      /\ \A v \in Workers \ {w} : worker'[v] = worker[v]
  BY DEF IInv, TypeOK
<1>2. worker' \in [Workers -> Worker]
  BY <1>1
<1>3. \A v \in Workers : Executing(v)' => v # w /\ Executing(v)
  BY <1>1 DEF Executing
<1>4. OneExecution'
  BY <1>3 DEF IInv, OneExecution
<1>5. PendingUngraded'
  BY <1>1 DEF IInv, PendingUngraded, Graded
<1> QED BY <1>2, <1>4, <1>5 DEF Kept

\* Steps that leave threads and items alone.
LEMMA ThreadsSame ==
  ASSUME IInv, UNCHANGED <<item, worker>>
  PROVE  OneExecution' /\ PendingUngraded' /\ Kept
BY DEF IInv, OneExecution, Executing, PendingUngraded, Graded, Kept

\* Steps that leave the quota alone.
LEMMA QuotaSame ==
  ASSUME IInv, Kept, UNCHANGED <<resv, billed>>
  PROVE  HoldsFresh' /\ BilledIsGraded' /\ UNCHANGED Abstract!vars
<1>1. BilledIsGraded'
  BY BilledKept DEF IInv, TypeOK
<1>2. HoldsFresh' /\ UNCHANGED <<held, billed>>
  BY DEF IInv, HoldsFresh, Active, held
<1> QED BY <1>1, <1>2 DEF Abstract!vars

-----------------------------------------------------------------------------
\* What every step does: it keeps the invariant and the grades, and it is a step
\* of SheetBilling or none.
Good == IInv' /\ Kept /\ [Abstract!Next]_(Abstract!vars)

\* A step that touches neither threads nor items nor the quota.
LEMMA OutsideGood ==
  ASSUME IInv, TypeOK', UNCHANGED <<item, worker, resv, billed>>
  PROVE  Good
<1>1. OneExecution' /\ PendingUngraded' /\ Kept
  BY ThreadsSame
<1>2. HoldsFresh' /\ BilledIsGraded' /\ UNCHANGED Abstract!vars
  BY <1>1, QuotaSame
<1> QED BY <1>1, <1>2 DEF Good, IInv

LEMMA UploadGood == ASSUME IInv, NEW s \in Sheets, Upload(s) PROVE Good
<1>1. TypeOK'
  BY DEF IInv, TypeOK, Upload
<1> QED BY <1>1, OutsideGood DEF Upload

LEMMA StartRunGood == ASSUME IInv, StartRun PROVE Good
<1>1. TypeOK'
  BY RunBounds DEF IInv, TypeOK, StartRun
<1> QED BY <1>1, OutsideGood DEF StartRun

LEMMA RetryReadGood ==
  ASSUME IInv, NEW c \in Clients, RetryLoad(c) \/ RetryRefused(c)
  PROVE  Good
<1>1. TypeOK'
  BY DEF IInv, TypeOK, RetryLoad, RetryRefused
<1> QED BY <1>1, OutsideGood DEF RetryLoad, RetryRefused

LEMMA OrphanExpiresGood == ASSUME IInv, OrphanExpires PROVE Good
<1>1. TypeOK'
  BY DEF IInv, TypeOK, OrphanExpires
<1> QED BY <1>1, OutsideGood DEF OrphanExpires

LEMMA ReconcileGood == ASSUME IInv, NEW r \in Rids, Reconcile(r) PROVE Good
<1>1. OneExecution' /\ PendingUngraded' /\ Kept
  BY ThreadsSame DEF Reconcile
<1>2. /\ resv' \in [Rids -> Reservation] /\ UNCHANGED billed /\ HoldsFresh'
      /\ UNCHANGED <<resv, billed>> \/ Abstract!Drop({r})
  BY ReleaseFits DEF IInv, Reconcile
<1>3. TypeOK'
  BY <1>2 DEF IInv, TypeOK, Reservation, Reconcile
<1>4. BilledIsGraded'
  BY <1>1, <1>2, BilledKept DEF IInv, TypeOK
<1>5. [Abstract!Next]_(Abstract!vars)
  BY <1>1, <1>2, QuotaSame DEF Abstract!Next
<1> QED BY <1>1, <1>2, <1>3, <1>4, <1>5 DEF Good, IInv

LEMMA CreateRunGood ==
  ASSUME IInv, NEW sel \in SUBSET exam, NEW r \in Rids, CreateRun(sel, r)
  PROVE  Good
<1>1. OneExecution' /\ PendingUngraded' /\ Kept
  BY ThreadsSame DEF CreateRun
<1>2. sel \in SUBSET Sheets /\ Selected(sel) \in SUBSET Sheets
  BY SelectedType DEF IInv, TypeOK
<1>3. resv' \in [Rids -> Reservation] /\ HoldsFresh' /\ Abstract!Hold(r, Selected(sel) \ billed)
  BY <1>2, ReserveFits DEF IInv, CreateRun
<1>4. TypeOK'
  BY <1>2, <1>3 DEF IInv, TypeOK, Reservation, CreateRun
<1>5. BilledIsGraded'
  BY <1>1, BilledKept DEF IInv, TypeOK, CreateRun
<1>6. Abstract!Next
  BY <1>2, <1>3 DEF Abstract!Next
<1> QED BY <1>1, <1>3, <1>4, <1>5, <1>6 DEF Good, IInv

\* A retry, also a late one, puts back only items that have failed.
LEMMA RetryCommitGood ==
  ASSUME IInv, NEW c \in Clients, NEW r \in Rids, RetryCommit(c, r)
  PROVE  Good
<1>1. item' = [i \in Items |-> IF i \in FailedItems THEN [st |-> "queued", tries |-> 0] ELSE item[i]]
      /\ UNCHANGED <<worker, billed>>
  BY DEF RetryCommit
<1>2. Kept /\ \A i \in Items : Graded(i)' => Graded(i)
  BY <1>1 DEF Kept, FailedItems, Graded
<1>3. OneExecution' /\ PendingUngraded'
  BY <1>1, <1>2 DEF IInv, OneExecution, Executing, PendingUngraded
<1>4. RetrySheets \in SUBSET Sheets
  BY SelectedType DEF IInv
<1>5. resv' \in [Rids -> Reservation] /\ HoldsFresh' /\ Abstract!Hold(r, RetrySheets \ billed)
  BY <1>1, <1>4, ReserveFits DEF IInv, RetryCommit
<1>6. TypeOK'
  <2>1. item' \in [Items -> Item]
    BY <1>1, TriesPositive DEF IInv, TypeOK, Item
  <2>2. run' \in Run
    <3>1. run \in Run /\ run' = [run EXCEPT !.status = "queued", !.rid = r]
      BY DEF IInv, TypeOK, Run, RetryCommit
    <3> QED BY <3>1 DEF Run
  <2>3. msgs' \in Nat /\ client' \in [Clients -> {"idle", "retry"}]
    BY DEF IInv, TypeOK, RetryCommit
  <2>4. UNCHANGED <<exam, starts, orphan, crashes>>
    BY DEF RetryCommit
  <2> QED BY <1>1, <1>5, <2>1, <2>2, <2>3, <2>4 DEF IInv, TypeOK, Reservation, Item, Run
<1>7. BilledIsGraded'
  BY <1>1, <1>2, BilledKept DEF IInv, TypeOK
<1>8. Abstract!Next
  BY <1>4, <1>5 DEF Abstract!Next
<1> QED BY <1>2, <1>3, <1>5, <1>6, <1>7, <1>8 DEF Good, IInv

-----------------------------------------------------------------------------
\* Messages.

\* A step of the queue: a thread stops or has not begun, and rows stay.
LEMMA QueueGood ==
  ASSUME IInv, NEW w \in Workers, NEW x \in Worker, x.pc \in {"idle", "checked"},
         x.flight = {}, worker' = worker \/ worker' = [worker EXCEPT ![w] = x],
         UNCHANGED <<run, item, exam, resv, billed, starts, client>>,
         msgs' \in Nat, orphan' \in BOOLEAN, crashes' \in 0 .. MaxCrashes
  PROVE  Good
<1>1. worker' \in [Workers -> Worker] /\ OneExecution' /\ PendingUngraded' /\ Kept
  BY StopFits, ThreadsSame DEF IInv, TypeOK
<1>2. TypeOK'
  BY <1>1 DEF IInv, TypeOK
<1>3. HoldsFresh' /\ BilledIsGraded' /\ UNCHANGED Abstract!vars
  BY <1>1, QuotaSame
<1> QED BY <1>1, <1>2, <1>3 DEF Good, IInv

LEMMA ReceiveGood == ASSUME IInv, NEW w \in Workers, Receive(w) PROVE Good
<1> DEFINE x == [worker[w] EXCEPT !.pc = "checked"]
<1>1. worker[w] \in Worker /\ msgs \in Nat /\ crashes \in 0 .. MaxCrashes /\ orphan \in BOOLEAN
  BY DEF IInv, TypeOK
<1>2. x \in Worker /\ x.pc = "checked" /\ x.flight = worker[w].flight
  BY <1>1 DEF Worker
<1>3. worker' = worker \/ worker' = [worker EXCEPT ![w] = x]
  BY DEF Receive, IInv, TypeOK
<1>4. msgs' \in Nat
  BY <1>1 DEF Receive
<1>5. worker[w].flight = {}
  BY DEF Receive, IInv, PendingUngraded
<1> HIDE DEF x
<1> QED BY <1>1, <1>2, <1>3, <1>4, <1>5, QueueGood DEF Receive

LEMMA StopGood ==
  ASSUME IInv, NEW w \in Workers, Requeue(w) \/ Drop(w) \/ CutOff(w) \/ Crash(w)
  PROVE  Good
<1>1. msgs \in Nat /\ crashes \in 0 .. MaxCrashes /\ orphan \in BOOLEAN
  BY DEF IInv, TypeOK
<1>2. msgs' \in Nat /\ crashes' \in 0 .. MaxCrashes /\ orphan' \in BOOLEAN
  <2>1. msgs' \in Nat
    BY <1>1 DEF Requeue, Drop, CutOff, Crash
  <2>2. crashes' \in 0 .. MaxCrashes
    BY <1>1, RunBounds DEF Requeue, Drop, CutOff, Crash
  <2>3. UNCHANGED orphan \/ orphan' = (orphan \/ Executing(w))
    BY DEF Requeue, Drop, CutOff, Crash
  <2>4. orphan' \in BOOLEAN
    BY <1>1, <2>3, Zenon DEF Executing
  <2> QED BY <2>1, <2>2, <2>4
<1>3. /\ worker' = [worker EXCEPT ![w] = Idle]
      /\ UNCHANGED <<run, item, exam, resv, billed, starts, client>>
  BY DEF Requeue, Drop, CutOff, Crash
<1> QED BY <1>2, <1>3, IdleType, QueueGood

-----------------------------------------------------------------------------
\* The execution in a worker.

\* A step of the one execution there is, after which thread w is x: the others
\* execute nothing.
LEMMA ExecutionFits ==
  ASSUME IInv, NEW w \in Workers, NEW x \in Worker, worker' = [worker EXCEPT ![w] = x],
         \A v \in Workers \ {w} : ~Executing(v),
         x.pc = "grading" => /\ \A i \in Items : x.left[i] > 0 => ~Graded(i)'
                             /\ \A i \in x.flight : x.left[i] > 0,
         x.pc # "grading" => x.flight = {}
  PROVE  worker' \in [Workers -> Worker] /\ OneExecution' /\ PendingUngraded'
<1>1. worker \in [Workers -> Worker] /\ worker'[w] = x
      /\ \A v \in Workers \ {w} : worker'[v] = worker[v]
  BY DEF IInv, TypeOK
<1>2. \A v \in Workers \ {w} : ~Executing(v)' /\ worker'[v].pc # "grading"
  BY <1>1 DEF Executing
<1>3. OneExecution'
  BY <1>2 DEF OneExecution
<1>4. PendingUngraded'
  BY <1>1, <1>2 DEF IInv, PendingUngraded
<1> QED BY <1>1, <1>3, <1>4

\* Begin: nobody else executes, since the lease and the lock are free.
LEMMA BeginGood == ASSUME IInv, NEW w \in Workers, Begin(w) PROVE Good
<1> DEFINE x == [Idle EXCEPT !.pc = "loading", !.rid = run.rid, !.sel = run.sel]
<1>1. run \in Run /\ Idle \in Worker
  BY IdleType DEF IInv, TypeOK, Run
<1>2. x \in Worker /\ x.pc = "loading" /\ x.flight = {}
  BY <1>1, IdleType DEF Worker, Run
<1>3. worker' = [worker EXCEPT ![w] = x] /\ \A v \in Workers : ~Executing(v)
  BY DEF Begin, Claimed
<1> HIDE DEF x
<1>4. worker' \in [Workers -> Worker] /\ OneExecution' /\ PendingUngraded'
  BY <1>2, <1>3, ExecutionFits
<1>5. Kept /\ UNCHANGED <<item, exam, resv, billed, msgs, starts, client, orphan, crashes>>
  BY DEF Begin, Kept
<1>6. run' \in Run
  BY <1>1 DEF Begin, Run
<1>7. TypeOK'
  BY <1>4, <1>5, <1>6 DEF IInv, TypeOK, Run
<1>8. HoldsFresh' /\ BilledIsGraded' /\ UNCHANGED Abstract!vars
  BY <1>5, QuotaSame
<1> QED BY <1>4, <1>5, <1>7, <1>8 DEF Good, IInv

\* A step of an execution that leaves the run, the queue and the quota alone.
LEMMA WorkGood ==
  ASSUME IInv, NEW w \in Workers, NEW x \in Worker, worker' = [worker EXCEPT ![w] = x],
         x.pc = "grading", Executing(w), item' \in [Items -> Item], Kept,
         /\ \A i \in Items : x.left[i] > 0 => ~Graded(i)'
         /\ \A i \in x.flight : x.left[i] > 0,
         UNCHANGED <<run, exam, resv, billed, msgs, starts, client, orphan, crashes>>
  PROVE  Good
<1>1. \A v \in Workers \ {w} : ~Executing(v)
  BY OnlyOne DEF IInv
<1>2. worker' \in [Workers -> Worker] /\ OneExecution' /\ PendingUngraded'
  BY <1>1, ExecutionFits
<1>3. TypeOK'
  BY <1>2 DEF IInv, TypeOK, Item
<1>4. HoldsFresh' /\ BilledIsGraded' /\ UNCHANGED Abstract!vars
  BY QuotaSame
<1> QED BY <1>2, <1>3, <1>4 DEF Good, IInv

LEMMA LoadGood == ASSUME IInv, NEW w \in Workers, Load(w) PROVE Good
<1> DEFINE subs == Selected(worker[w].sel)
           have == [i \in Items |-> IF i \in ItemsOf(subs) /\ item[i].st = "absent"
                                      THEN [st |-> "queued", tries |-> 0] ELSE item[i]]
           todo == {i \in ItemsOf(subs) : have[i].st # "graded" /\ have[i].tries < MaxTries}
           left == [i \in Items |-> IF i \in todo THEN have[i].tries + 1 ELSE 0]
           bad == {i \in Items : have[i].st = "failed"}
           x == [worker[w] EXCEPT !.pc = "grading", !.subs = subs, !.left = left, !.bad = bad]
<1>1. worker[w] \in Worker /\ item \in [Items -> Item] /\ worker[w].pc = "loading"
  BY DEF IInv, TypeOK, Item, Load
<1>2. subs \in SUBSET Sheets
  BY <1>1, SelectedType DEF IInv, Worker
<1>3. have \in [Items -> Item]
  BY <1>1, TriesPositive DEF Item
<1>4. left \in [Items -> 0 .. MaxTries] /\ \A i \in Items : left[i] > 0 => have[i].st # "graded"
  BY <1>3, TriesPositive DEF Item
<1>5. bad \in SUBSET Items
  OBVIOUS
<1>6. item' = have /\ worker' = [worker EXCEPT ![w] = x]
  BY <1>1 DEF Load, IInv, TypeOK
<1>7. UNCHANGED <<run, exam, resv, billed, msgs, starts, client, orphan, crashes>>
  BY DEF Load
<1>8. \A i \in Items : item[i].st = "graded" => have[i] = item[i]
  OBVIOUS
<1>9. worker[w].flight = {}
  BY <1>1 DEF IInv, PendingUngraded
<1> HIDE DEF subs, have, left, bad
<1>10. x \in Worker /\ x.pc = "grading" /\ x.left = left /\ x.flight = {}
  BY <1>1, <1>2, <1>4, <1>5, <1>9 DEF Worker
<1> HIDE DEF x
<1>11. Kept /\ \A i \in Items : x.left[i] > 0 => ~Graded(i)'
  BY <1>4, <1>6, <1>8, <1>10 DEF Kept, Graded
<1> QED BY <1>1, <1>3, <1>6, <1>7, <1>10, <1>11, WorkGood DEF Executing

LEMMA DispatchGood ==
  ASSUME IInv, NEW w \in Workers, NEW i \in Items, Dispatch(w, i)
  PROVE  Good
<1> DEFINE x == [worker[w] EXCEPT !.flight = @ \cup {i}]
<1>1. worker[w] \in Worker /\ item \in [Items -> Item] /\ worker[w].pc = "grading"
  BY DEF IInv, TypeOK, Item, Dispatch
<1>2. /\ \A j \in Items : worker[w].left[j] > 0 => ~Graded(j)
      /\ \A j \in worker[w].flight : worker[w].left[j] > 0
      /\ worker[w].left[i] > 0
  BY <1>1 DEF IInv, PendingUngraded, Dispatch
<1>3. x \in Worker /\ x.pc = "grading" /\ x.left = worker[w].left /\ x.flight = worker[w].flight \cup {i}
  BY <1>1 DEF Worker
<1>4. worker' = [worker EXCEPT ![w] = x] /\ item' = [item EXCEPT ![i].st = "extracting"]
  BY DEF Dispatch, IInv, TypeOK
<1> HIDE DEF x
<1>5. item' \in [Items -> Item]
  BY <1>1, <1>4 DEF Item
<1>6. Kept /\ \A j \in Items : Graded(j)' => Graded(j)
  BY <1>1, <1>2, <1>4 DEF Kept, Graded, Item
<1>7. UNCHANGED <<run, exam, resv, billed, msgs, starts, client, orphan, crashes>>
  BY DEF Dispatch
<1> QED BY <1>1, <1>2, <1>3, <1>4, <1>5, <1>6, <1>7, WorkGood DEF Executing

LEMMA AnswerGood ==
  ASSUME IInv, NEW w \in Workers, NEW i \in Items, NEW ok \in BOOLEAN, Answer(w, i, ok)
  PROVE  Good
<1> DEFINE n == worker[w].left[i]
           again == ~ok /\ n < MaxTries
           left == [worker[w].left EXCEPT ![i] = IF again THEN n + 1 ELSE 0]
           flight == worker[w].flight \ {i}
           bad == IF ok \/ n < MaxTries THEN worker[w].bad \ {i} ELSE worker[w].bad \cup {i}
           row == [st |-> IF ok THEN "graded" ELSE IF n < MaxTries THEN "queued" ELSE "failed",
                   tries |-> n]
           x == [worker[w] EXCEPT !.flight = flight, !.left = left, !.bad = bad, !.looped = TRUE]
<1>1. worker[w] \in Worker /\ item \in [Items -> Item] /\ worker[w].pc = "grading"
      /\ i \in worker[w].flight
  BY DEF IInv, TypeOK, Item, Answer
<1>2. /\ \A j \in Items : worker[w].left[j] > 0 => ~Graded(j)
      /\ \A j \in worker[w].flight : worker[w].left[j] > 0
  BY <1>1 DEF IInv, PendingUngraded
<1>3. worker[w].left \in [Items -> 0 .. MaxTries] /\ n \in 0 .. MaxTries
  BY <1>1 DEF Worker
<1>4. /\ left \in [Items -> 0 .. MaxTries]
      /\ left[i] > 0 => ~ok
      /\ \A j \in Items \ {i} : left[j] = worker[w].left[j]
  BY <1>3, TriesPositive
<1>5. row \in Item /\ (row.st = "graded" => ok)
  BY <1>3 DEF Item
<1>6. item' = [item EXCEPT ![i] = row] /\ worker' = [worker EXCEPT ![w] = x]
  BY DEF Answer, IInv, TypeOK
<1>7. bad \in SUBSET Items /\ flight \in SUBSET Items
  BY <1>1 DEF Worker
<1> HIDE DEF left, flight, bad, row
<1>8. x \in Worker /\ x.pc = "grading" /\ x.left = left /\ x.flight = flight
  BY <1>1, <1>4, <1>7 DEF Worker
<1> HIDE DEF x
<1>9. item' \in [Items -> Item] /\ item'[i] = row /\ \A j \in Items \ {i} : item'[j] = item[j]
  BY <1>1, <1>5, <1>6
<1>10. Kept
  BY <1>1, <1>2, <1>9 DEF Kept
<1>11. \A j \in Items : x.left[j] > 0 => ~Graded(j)'
  BY <1>2, <1>4, <1>5, <1>8, <1>9 DEF Graded
<1>12. \A j \in x.flight : x.left[j] > 0
  BY <1>1, <1>2, <1>4, <1>8 DEF flight, Worker
<1>13. UNCHANGED <<run, exam, resv, billed, msgs, starts, client, orphan, crashes>>
  BY DEF Answer
<1> QED BY <1>1, <1>6, <1>8, <1>9, <1>10, <1>11, <1>12, <1>13, WorkGood DEF Executing

\* The end of an execution writes the run as the worker knows it.
LEMMA EndFits ==
  ASSUME IInv, NEW w \in Workers, Executing(w), NEW status \in Terminal, End(w, status),
         item' \in [Items -> Item], Kept,
         resv' \in [Rids -> Reservation], billed' \in SUBSET Sheets
  PROVE  TypeOK' /\ OneExecution' /\ PendingUngraded'
<1>1. /\ run' = [run EXCEPT !.status = status, !.rid = worker[w].rid]
      /\ worker' = [worker EXCEPT ![w] = Idle]
      /\ UNCHANGED <<exam, msgs, starts, client, orphan, crashes>>
  BY DEF End
<1>2. worker' \in [Workers -> Worker] /\ worker'[w] = Idle
      /\ \A v \in Workers \ {w} : worker'[v] = worker[v]
  BY <1>1, IdleType DEF IInv, TypeOK
<1>3. \A v \in Workers : ~Executing(v)'
  BY <1>2, OnlyOne, IdleType DEF IInv, Executing
<1>4. OneExecution' /\ PendingUngraded'
  BY <1>2, <1>3, IdleType DEF IInv, OneExecution, PendingUngraded, Executing
<1>5. run \in Run /\ worker[w].rid \in Rids \cup {NoResv}
  BY DEF IInv, TypeOK, Run, Worker
<1>6. run' \in Run
  BY <1>1, <1>5 DEF Run
<1>7. TypeOK'
  BY <1>1, <1>2, <1>6 DEF IInv, TypeOK, Run, Reservation, Item
<1> QED BY <1>4, <1>7

\* Completion bills sheets that are graded completely.
LEMMA CompleteGood == ASSUME IInv, NEW w \in Workers, Complete(w) PROVE Good
<1> DEFINE S == {s \in worker[w].subs : FullyGraded(s)}
           r == worker[w].rid
<1>1. r \in Rids \cup {NoResv} /\ S \in SUBSET Sheets /\ Settle(r, S)
  BY DEF IInv, TypeOK, Worker, Complete
<1>2. \A s \in S : FullyGraded(s)
  OBVIOUS
<1> HIDE DEF S, r
<1>3. /\ resv' \in [Rids -> Reservation] /\ billed' \in SUBSET Sheets /\ HoldsFresh'
      /\ billed' \subseteq billed \cup S
      /\ \/ UNCHANGED <<resv, billed>>
         \/ r \in Rids /\ Abstract!Settle(r, resv[r].sheets \cap S)
  BY <1>1, SettleFits DEF IInv
<1>4. PICK status \in Terminal : End(w, status)
  BY DEF Complete, Terminal
<1>5. TypeOK' /\ OneExecution' /\ PendingUngraded' /\ Kept
  <2>1. Executing(w) /\ UNCHANGED item
    BY DEF Complete, Exhausted, Executing
  <2>2. item' \in [Items -> Item] /\ Kept
    BY <2>1 DEF IInv, TypeOK, Item, Kept
  <2> QED BY <1>3, <1>4, <2>1, <2>2, EndFits
<1>6. BilledIsGraded'
  BY <1>2, <1>3, <1>5, BilledKept DEF IInv, TypeOK
<1>7. [Abstract!Next]_(Abstract!vars)
  <2>1. CASE UNCHANGED <<resv, billed>>
    BY <1>5, <2>1, QuotaSame
  <2>2. CASE r \in Rids /\ Abstract!Settle(r, resv[r].sheets \cap S)
    <3>1. resv[r].sheets \cap S \in SUBSET Sheets
      BY <1>1
    <3> QED BY <2>2, <3>1 DEF Abstract!Next
  <2> QED BY <1>3, <2>1, <2>2
<1> QED BY <1>3, <1>5, <1>6, <1>7 DEF Good, IInv

\* However it fails, an execution releases its reservation and takes no grade away.
LEMMA FailedGood ==
  ASSUME IInv, NEW w \in Workers, Executing(w), Release(worker[w].rid), End(w, "failed"),
         item' \in [Items -> Item], Kept
  PROVE  Good
<1> DEFINE r == worker[w].rid
<1>1. r \in Rids \cup {NoResv} /\ Release(r) /\ "failed" \in Terminal
  BY DEF IInv, TypeOK, Worker, Terminal
<1> HIDE DEF r
<1>2. /\ resv' \in [Rids -> Reservation] /\ UNCHANGED billed /\ HoldsFresh'
      /\ UNCHANGED <<resv, billed>> \/ (r \in Rids /\ Abstract!Drop({r}))
  BY <1>1, ReleaseFits DEF IInv
<1>3. TypeOK' /\ OneExecution' /\ PendingUngraded'
  BY <1>1, <1>2, EndFits DEF IInv, TypeOK
<1>4. BilledIsGraded'
  BY <1>2, BilledKept DEF IInv, TypeOK
<1>5. [Abstract!Next]_(Abstract!vars)
  <2>1. CASE UNCHANGED <<resv, billed>>
    BY <2>1, QuotaSame
  <2>2. CASE r \in Rids /\ Abstract!Drop({r})
    BY <2>2 DEF Abstract!Next
  <2> QED BY <1>2, <2>1, <2>2
<1> QED BY <1>2, <1>3, <1>4, <1>5 DEF Good, IInv

LEMMA FailGood == ASSUME IInv, NEW w \in Workers, Fail(w) PROVE Good
<1>1. item' \in [Items -> Item] /\ Kept
  BY DEF IInv, TypeOK, Item, Kept, Fail
<1> QED BY <1>1, FailedGood DEF Fail

\* The item that is written when the execution fails was not graded.
LEMMA FailSavingGood ==
  ASSUME IInv, NEW w \in Workers, NEW i \in Items, NEW st \in {"extracting", "graded"},
         FailSaving(w, i, st)
  PROVE  Good
<1> DEFINE row == [st |-> st, tries |-> worker[w].left[i]]
<1>1. worker[w] \in Worker /\ item \in [Items -> Item] /\ Executing(w) /\ ~Graded(i)
  BY DEF IInv, TypeOK, Item, FailSaving, PendingUngraded, Executing
<1>2. row \in Item
  BY <1>1 DEF Item, Worker
<1>3. item' = [item EXCEPT ![i] = row]
  BY DEF FailSaving
<1>4. item' \in [Items -> Item] /\ Kept
  BY <1>1, <1>2, <1>3 DEF Kept
<1> QED BY <1>1, <1>4, FailedGood DEF FailSaving

-----------------------------------------------------------------------------
LEMMA InitFits == Init => IInv
<1> SUFFICES ASSUME Init PROVE IInv
  OBVIOUS
<1>1. TypeOK
  <2>1. 0 \in 0 .. MaxTries /\ 0 \in 0 .. MaxStarts /\ 0 \in 0 .. MaxCrashes
    BY RunBounds, TriesPositive
  <2>2. run \in Run /\ item \in [Items -> Item] /\ resv \in [Rids -> Reservation]
    BY <2>1 DEF Init, Run, Item, Reservation
  <2>3. exam \in SUBSET Sheets /\ billed \in SUBSET Sheets /\ worker \in [Workers -> Worker]
    BY IdleType DEF Init
  <2> QED BY <2>1, <2>2, <2>3 DEF Init, TypeOK, Run, Item, Reservation
<1>2. OneExecution /\ PendingUngraded
  BY IdleType DEF Init, OneExecution, Executing, PendingUngraded
<1>3. HoldsFresh /\ BilledIsGraded
  BY DEF Init, HoldsFresh, Active, BilledIsGraded
<1> QED BY <1>1, <1>2, <1>3 DEF IInv

\* Every step keeps the invariant and the grades, and is a step of SheetBilling or
\* none.
LEMMA NextGood == IInv /\ Next => Good
<1> SUFFICES ASSUME IInv, Next PROVE Good
  OBVIOUS
<1>1. ASSUME NEW w \in Workers, Execute(w) PROVE Good
  BY <1>1, LoadGood, DispatchGood, AnswerGood, CompleteGood, FailGood,
     FailSavingGood DEF Execute
<1>2. ASSUME NEW w \in Workers, Receive(w) \/ Requeue(w) \/ Drop(w) \/ Begin(w) \/ CutOff(w) \/ Crash(w)
      PROVE  Good
  BY <1>2, ReceiveGood, StopGood, BeginGood
<1>3. ASSUME NEW c \in Clients,
             RetryLoad(c) \/ RetryRefused(c) \/ \E r \in Rids : RetryCommit(c, r)
      PROVE  Good
  BY <1>3, RetryReadGood, RetryCommitGood
<1>4. CASE \E sel \in SUBSET exam, r \in Rids : CreateRun(sel, r)
  BY <1>4, CreateRunGood
<1>5. CASE (\E r \in Rids : Reconcile(r)) \/ (\E s \in Sheets : Upload(s)) \/ StartRun \/ OrphanExpires
  BY <1>5, ReconcileGood, UploadGood, StartRunGood, OrphanExpiresGood
<1> QED BY <1>1, <1>2, <1>3, <1>4, <1>5 DEF Next

LEMMA StepGood == IInv /\ [Next]_vars => Good
<1>1. ASSUME IInv, UNCHANGED vars PROVE Good
  BY <1>1, OutsideGood DEF vars, IInv, TypeOK
<1> QED BY <1>1, NextGood

-----------------------------------------------------------------------------
\* With any number of workers, messages, retries and crashes, the slot and the lock
\* leave one execution, what it has to do is not graded, active reservations are
\* disjoint and unbilled, and billed sheets are graded.
THEOREM Inductive == Spec => []IInv
<1>1. IInv /\ [Next]_vars => IInv'
  BY StepGood DEF Good
<1> QED BY <1>1, InitFits, PTL DEF Spec

\* No retry, second message, stale request or late result takes the grade away from
\* a sheet that has been billed (execute_grading_run, settle_answer_quota).
THEOREM BilledStaysGraded == Spec => []BilledIsGraded
<1>1. IInv => BilledIsGraded
  BY DEF IInv
<1> QED BY <1>1, Inductive, PTL

\* A graded item is never graded again or reset by an execution or a retry
\* (execute_grading_run's pending work, retry_run's reset of the failed items).
THEOREM GradesKept == Spec => GradedStays
<1>1. IInv /\ [Next]_vars => [\A i \in Items : Graded(i) => item'[i] = item[i]]_vars
  BY StepGood DEF Good, Kept
<1> QED BY <1>1, Inductive, PTL DEF Spec, GradedStays

\* The run with its handlers, workers and faults uses the quota as SheetBilling
\* promises: a sheet is held by one reservation at a time and billed by its holder.
THEOREM Refinement == Spec => BillsOnce
<1>1. Init => Abstract!Init
  BY DEF Init, Abstract!Init, held, Active
<1>2. IInv /\ [Next]_vars => [Abstract!Next]_(Abstract!vars)
  BY StepGood DEF Good
<1> QED BY <1>1, <1>2, Inductive, PTL DEF Spec, BillsOnce, Abstract!Spec

-----------------------------------------------------------------------------
\* A run that has ended, as long as no step strayed.

\* What the rows of the run are.
LEMMA RowsTyped ==
  ASSUME IInv
  PROVE  /\ run \in Run /\ item \in [Items -> Item] /\ exam \in SUBSET Sheets
         /\ resv \in [Rids -> Reservation] /\ billed \in SUBSET Sheets
         /\ worker \in [Workers -> Worker] /\ client \in [Clients -> {"idle", "retry"}]
BY DEF IInv, TypeOK, Run, Item, Reservation

\* Nothing executes a run that is not RUNNING.
LEMMA NobodyExecutes ==
  ASSUME Straight, run.status # "running"
  PROVE  \A w \in Workers : ~Executing(w) /\ worker[w].pc \notin {"loading", "grading"}
BY DEF Straight, ThreadsFollow, Executing

\* Messages, requests and threads that stop or have not begun change nothing of it.
LEMMA QuietStraight ==
  ASSUME Straight, UNCHANGED <<run, item, exam, resv, billed>>,
         \A w \in Workers : worker'[w] = worker[w] \/ worker'[w].pc \in {"idle", "checked"}
  PROVE  Straight'
<1>1. \A w \in Workers : Executing(w)' => worker'[w] = worker[w] /\ Executing(w)
  BY DEF Executing
<1>2. NothingYet' /\ ItemsFollow'
  BY DEF Straight, NothingYet, ItemsFollow, Pending, Selected, FullyGraded, Graded, FailedItems
<1>3. ThreadsFollow'
  BY <1>1 DEF Straight, ThreadsFollow
<1>4. QuotaFollows'
  BY DEF Straight, QuotaFollows, Active, Selected
<1>5. WorkFollows'
  <2> SUFFICES ASSUME NEW w \in Workers, worker'[w].pc \in {"loading", "grading"}
               PROVE  worker'[w] = worker[w]
    BY DEF Straight, WorkFollows, Selected, Pending, FailedItems
  <2> QED OBVIOUS
<1> QED BY <1>2, <1>3, <1>4, <1>5 DEF Straight

\* A sheet uploaded before the run was created belongs to it.
LEMMA UploadStraight ==
  ASSUME IInv, Straight, NEW s \in Sheets, Upload(s), run.status = "absent"
  PROVE  Straight'
<1>1. UNCHANGED <<run, item, resv, billed, worker>>
  BY DEF Upload
<1>2. \A w \in Workers : ~Executing(w)' /\ worker'[w].pc \notin {"loading", "grading"}
  BY <1>1, NobodyExecutes DEF Executing
<1>3. NothingYet' /\ \A i \in Items : item'[i].st = "absent"
  BY <1>1 DEF Straight, NothingYet
<1>4. ThreadsFollow' /\ WorkFollows'
  BY <1>2 DEF ThreadsFollow, WorkFollows
<1>5. QuotaFollows'
  BY <1>1 DEF Straight, NothingYet, QuotaFollows, Active, Open
<1>6. ItemsFollow'
  BY <1>1, <1>3 DEF ItemsFollow, Pending
<1> QED BY <1>3, <1>4, <1>5, <1>6 DEF Straight

\* create_run reserves what its sheets have not been billed for.
LEMMA CreateRunStraight ==
  ASSUME IInv, Straight, NEW sel \in SUBSET exam, NEW r \in Rids, CreateRun(sel, r)
  PROVE  Straight'
<1>1. /\ run.status = "absent" /\ resv[r].status = "none"
      /\ resv' = [resv EXCEPT ![r] = [status |-> "active", sheets |-> Selected(sel) \ billed]]
      /\ run' = [status |-> "queued", sel |-> sel, rid |-> r]
      /\ UNCHANGED <<item, exam, billed, worker>>
  BY DEF CreateRun, Reserve
<1>2. \A w \in Workers : ~Executing(w)' /\ worker'[w].pc \notin {"loading", "grading"}
  BY <1>1, NobodyExecutes DEF Executing
<1>3. \A i \in Items : item'[i].st = "absent"
  BY <1>1 DEF Straight, NothingYet
<1>4. NothingYet' /\ ThreadsFollow' /\ WorkFollows'
  BY <1>1, <1>2 DEF NothingYet, ThreadsFollow, WorkFollows
<1>5. QuotaFollows'
  <2>1. /\ resv'[r].status = "active" /\ resv'[r].sheets = Selected(sel) \ billed
        /\ \A t \in Rids \ {r} : resv'[t].status = "none"
    BY <1>1, RowsTyped DEF Straight, NothingYet
  <2>2. run'.rid = r /\ run'.status = "queued" /\ Selected(run.sel)' = Selected(sel)
    BY <1>1 DEF Selected
  <2> QED BY <1>1, <2>1, <2>2 DEF QuotaFollows, Active, Open
<1>6. ItemsFollow'
  BY <1>1, <1>3 DEF ItemsFollow, Pending, FailedItems
<1> QED BY <1>4, <1>5, <1>6 DEF Straight

\* A retry reserves what is not billed yet: the sheets that failed, since the others
\* were charged, or all of them.
LEMMA RetryStraight ==
  ASSUME IInv, Straight, NEW c \in Clients, NEW r \in Rids, RetryCommit(c, r),
         run.status \in Retryable
  PROVE  Straight'
<1>1. /\ resv[r].status = "none"
      /\ resv' = [resv EXCEPT ![r] = [status |-> "active", sheets |-> RetrySheets \ billed]]
      /\ run' = [run EXCEPT !.status = "queued", !.rid = r]
      /\ item' = [i \in Items |-> IF i \in FailedItems THEN [st |-> "queued", tries |-> 0]
                                                      ELSE item[i]]
      /\ UNCHANGED <<exam, billed, worker>>
  BY DEF RetryCommit, Reserve
<1>2. \A w \in Workers : ~Executing(w)' /\ worker'[w].pc \notin {"loading", "grading"}
  BY <1>1, NobodyExecutes DEF Executing, Retryable
<1>3. run'.status = "queued" /\ run'.rid = r /\ run'.sel = run.sel
      /\ Selected(run.sel)' = Selected(run.sel)
  BY <1>1, RowsTyped DEF Run, Selected
<1>4. NothingYet' /\ ThreadsFollow' /\ WorkFollows'
  BY <1>2, <1>3 DEF NothingYet, ThreadsFollow, WorkFollows
<1>5. Selected(run.sel) \subseteq billed \cup RetrySheets
  <2> SUFFICES ASSUME NEW s \in Selected(run.sel), s \notin RetrySheets PROVE s \in billed
    OBVIOUS
  <2>1. FailedItems # {} /\ s \in exam /\ s \in Sheets
    BY RowsTyped DEF RetrySheets, Selected, Run
  <2>2. \A i \in FailedItems : i[1] # s
    BY <2>1 DEF RetrySheets
  <2>3. run.status = "with_errors"
    BY <2>1 DEF Straight, ItemsFollow, Retryable
  <2>4. \A q \in Questions : <<s, q>> \in Items /\ item[<<s, q>>].st \in {"graded", "failed"}
    BY <2>1, <2>3 DEF Straight, ItemsFollow, ItemsOf, Items
  <2>5. FullyGraded(s)
    <3>1. \A q \in Questions : <<s, q>> \notin FailedItems
      BY <2>2
    <3> QED BY <2>4, <3>1 DEF FailedItems, FullyGraded, Graded
  <2> QED BY <2>1, <2>3, <2>5 DEF Straight, ItemsFollow
<1>6. QuotaFollows'
  <2>1. \A t \in Rids : ~Active(t)
    BY DEF Straight, QuotaFollows, Open, Retryable
  <2>2. /\ resv'[r].status = "active" /\ resv'[r].sheets = RetrySheets \ billed
        /\ \A t \in Rids \ {r} : resv'[t] = resv[t]
    BY <1>1, RowsTyped
  <2> QED BY <1>1, <1>3, <1>5, <2>1, <2>2 DEF QuotaFollows, Active, Open
<1>7. ItemsFollow'
  <2>1. \A i \in Items : /\ item'[i].st # "failed"
                         /\ item'[i].st # "absent" => item[i].st # "absent"
                         /\ Pending(i)' => Pending(i) \/ item'[i].tries = 0
                         /\ item'[i].tries \in {0, item[i].tries}
                         /\ i \notin FailedItems => item'[i] = item[i]
    BY <1>1 DEF FailedItems, Pending
  <2>2. \A i \in Items : Pending(i)' => item'[i].tries < MaxTries
    BY <1>1, TriesPositive DEF Straight, ItemsFollow, FailedItems, Pending
  <2> QED BY <1>3, <2>1, <2>2 DEF Straight, ItemsFollow, FailedItems
<1> QED BY <1>4, <1>6, <1>7 DEF Straight

\* A queued run begins with its own reservation and without failed items.
LEMMA BeginStraight ==
  ASSUME IInv, Straight, NEW w \in Workers, Begin(w), run.status = "queued"
  PROVE  Straight'
<1>1. /\ run' = [run EXCEPT !.status = "running"]
      /\ worker' = [worker EXCEPT ![w] = [Idle EXCEPT !.pc = "loading", !.rid = run.rid,
                                                      !.sel = run.sel]]
      /\ UNCHANGED <<item, exam, resv, billed>>
  BY DEF Begin
<1>2. run'.status = "running" /\ run'.rid = run.rid /\ run'.sel = run.sel
      /\ Selected(run.sel)' = Selected(run.sel)
  BY <1>1, RowsTyped DEF Run, Selected
<1>3. /\ worker'[w].pc = "loading" /\ worker'[w].rid = run.rid /\ worker'[w].sel = run.sel
      /\ \A v \in Workers \ {w} : worker'[v] = worker[v]
  BY <1>1, RowsTyped DEF Idle
<1>4. \A v \in Workers \ {w} : worker'[v].pc \notin {"loading", "grading"}
  BY <1>3, NobodyExecutes
<1>5. NothingYet' /\ ThreadsFollow'
  BY <1>2, <1>3, <1>4 DEF NothingYet, ThreadsFollow, Executing
<1>6. QuotaFollows'
  BY <1>1, <1>2 DEF Straight, QuotaFollows, Active, Open
<1>7. ItemsFollow'
  BY <1>1, <1>2 DEF Straight, ItemsFollow, Pending, FailedItems
<1>8. WorkFollows'
  BY <1>1, <1>3, <1>4 DEF Straight, ItemsFollow, WorkFollows, FailedItems
<1> QED BY <1>5, <1>6, <1>7, <1>8 DEF Straight

\* A step of the execution on its items: what must hold of them and of thread w,
\* which is x.
LEMMA WorkStraight ==
  ASSUME IInv, Straight, NEW w \in Workers, NEW x, worker' = [worker EXCEPT ![w] = x],
         Executing(w), UNCHANGED <<run, exam, resv, billed>>,
         x.pc = "grading", x.rid = worker[w].rid, x.sel = worker[w].sel,
         x.subs = Selected(run.sel),
         \A i \in Items : item'[i].st # "absent" => i[1] \in Selected(run.sel),
         \A i \in Items : Pending(i)' => item'[i].tries < MaxTries,
         \A i \in ItemsOf(x.subs) : item'[i].st # "absent",
         \A i \in Items : Pending(i)' => x.left[i] > 0,
         \A i \in Items : x.left[i] > 0 => Pending(i)',
         x.bad = FailedItems', ~x.looped => FailedItems' = {}
  PROVE  Straight'
<1>1. run.status = "running" /\ worker[w].rid = run.rid /\ worker[w].sel = run.sel
  BY DEF Straight, ThreadsFollow
<1>2. worker'[w] = x /\ \A v \in Workers \ {w} : worker'[v] = worker[v]
  BY RowsTyped
<1>3. \A v \in Workers \ {w} : worker'[v].pc \notin {"loading", "grading"}
  BY <1>2, OnlyOne DEF IInv, Executing
<1>4. NothingYet' /\ ThreadsFollow'
  BY <1>1, <1>2, <1>3 DEF NothingYet, ThreadsFollow, Executing
<1>5. QuotaFollows' /\ Selected(run.sel)' = Selected(run.sel)
  BY DEF Straight, QuotaFollows, Active, Selected
<1>6. ItemsFollow'
  BY <1>1, <1>5 DEF ItemsFollow
<1>7. WorkFollows'
  BY <1>2, <1>3, <1>5 DEF WorkFollows
<1> QED BY <1>4, <1>5, <1>6, <1>7 DEF Straight

\* Reading the items makes the missing ones, and finds all that are not graded.
LEMMA LoadStraight ==
  ASSUME IInv, Straight, NEW w \in Workers, Load(w)
  PROVE  Straight'
<1> DEFINE subs == Selected(worker[w].sel)
           have == [i \in Items |-> IF i \in ItemsOf(subs) /\ item[i].st = "absent"
                                      THEN [st |-> "queued", tries |-> 0] ELSE item[i]]
           todo == {i \in ItemsOf(subs) : have[i].st # "graded" /\ have[i].tries < MaxTries}
           left == [i \in Items |-> IF i \in todo THEN have[i].tries + 1 ELSE 0]
           bad == {i \in Items : have[i].st = "failed"}
           x == [worker[w] EXCEPT !.pc = "grading", !.subs = subs, !.left = left, !.bad = bad]
<1>1. worker[w] \in Worker /\ item \in [Items -> Item] /\ worker[w].pc = "loading" /\ Executing(w)
  BY RowsTyped DEF Load, Executing
<1>2. worker[w].sel = run.sel /\ subs = Selected(run.sel) /\ FailedItems = {}
  BY <1>1 DEF Straight, ThreadsFollow, WorkFollows
<1>3. item' = have /\ worker' = [worker EXCEPT ![w] = x]
  BY <1>1 DEF Load, IInv, TypeOK
<1>4. UNCHANGED <<run, exam, resv, billed>>
  BY DEF Load
<1>5. \A i \in Items : /\ i \in ItemsOf(subs) <=> i[1] \in subs
                       /\ have[i].st # "failed" /\ have[i].tries \in Nat
  <2>1. \A i \in Items : item[i].st # "failed" /\ item[i].tries \in Nat
    BY <1>1, <1>2 DEF FailedItems, Item
  <2>2. \A i \in Items : i \in ItemsOf(subs) <=> i[1] \in subs
    BY DEF Items, ItemsOf
  <2> QED BY <2>1, <2>2
<1>6. \A i \in Items : i \in ItemsOf(subs) => have[i].st # "absent"
  OBVIOUS
<1>7. \A i \in Items : have[i].st # "absent" => i[1] \in subs
  BY <1>2, <1>5 DEF Straight, ItemsFollow
<1>8. \A i \in Items : have[i].st \in {"queued", "extracting"} => have[i].tries < MaxTries
  BY TriesPositive DEF Straight, ItemsFollow, Pending
<1>9. \A i \in Items : have[i].st \in {"queued", "extracting"} => left[i] > 0
  BY <1>5, <1>7, <1>8
<1>10. \A i \in Items : left[i] > 0 => have[i].st \in {"queued", "extracting"}
  <2> SUFFICES ASSUME NEW i \in Items, left[i] > 0 PROVE have[i].st \in {"queued", "extracting"}
    OBVIOUS
  <2>1. i \in todo
    OBVIOUS
  <2>2. have[i].st \in {"absent", "queued", "extracting", "graded", "failed"}
    BY <1>1 DEF Item
  <2> QED BY <1>5, <1>6, <2>1, <2>2
<1>11. bad = {}
  BY <1>5
<1>12. subs \in SUBSET Sheets
  BY <1>1, SelectedType DEF IInv, Worker
<1> HIDE DEF subs, have, left, bad, todo
<1>13. /\ x.pc = "grading" /\ x.rid = worker[w].rid /\ x.sel = worker[w].sel /\ x.subs = subs
       /\ x.left = left /\ x.bad = bad
  BY <1>1 DEF Worker
<1> HIDE DEF x
<1>14. FailedItems' = {}
  BY <1>3, <1>5 DEF FailedItems
<1>15. \A i \in ItemsOf(subs) : i \in Items
  BY <1>12 DEF ItemsOf, Items
<1>16. \A i \in Items : Pending(i)' <=> have[i].st \in {"queued", "extracting"}
  BY <1>3 DEF Pending
<1> QED BY <1>1, <1>2, <1>3, <1>4, <1>6, <1>7, <1>8, <1>9, <1>10, <1>11, <1>13, <1>14, <1>15, <1>16,
           WorkStraight

\* A pending item is handed out.
LEMMA DispatchStraight ==
  ASSUME IInv, Straight, NEW w \in Workers, NEW i \in Items, Dispatch(w, i)
  PROVE  Straight'
<1> DEFINE x == [worker[w] EXCEPT !.flight = @ \cup {i}]
<1>1. /\ worker[w] \in Worker /\ item \in [Items -> Item]
      /\ worker[w].pc = "grading" /\ worker[w].left[i] > 0 /\ Executing(w)
  BY RowsTyped DEF Dispatch, Executing
<1>2. /\ worker[w].subs = Selected(run.sel)
      /\ \A j \in ItemsOf(worker[w].subs) : item[j].st # "absent"
      /\ \A j \in Items : Pending(j) => worker[w].left[j] > 0
      /\ \A j \in Items : worker[w].left[j] > 0 => Pending(j)
      /\ worker[w].bad = FailedItems
      /\ ~worker[w].looped => FailedItems = {}
  BY <1>1 DEF Straight, WorkFollows
<1>3. /\ x.pc = "grading" /\ x.rid = worker[w].rid /\ x.sel = worker[w].sel
      /\ x.subs = worker[w].subs /\ x.left = worker[w].left /\ x.bad = worker[w].bad
      /\ x.looped = worker[w].looped
  BY <1>1 DEF Worker
<1>4. worker' = [worker EXCEPT ![w] = x] /\ UNCHANGED <<run, exam, resv, billed>>
  BY RowsTyped DEF Dispatch
<1> HIDE DEF x
<1>5. /\ item'[i].st = "extracting" /\ item'[i].tries = item[i].tries
      /\ \A j \in Items \ {i} : item'[j] = item[j]
  BY <1>1 DEF Dispatch, Item
<1>6. Pending(i) /\ item[i].tries < MaxTries /\ i[1] \in Selected(run.sel)
  BY <1>1, <1>2 DEF Straight, ItemsFollow, Pending
<1>7. \A j \in Items : Pending(j)' <=> Pending(j)
  BY <1>5, <1>6 DEF Pending
<1>8. FailedItems' = FailedItems
  BY <1>5, <1>6 DEF FailedItems, Pending
<1>9. \A j \in Items : /\ item'[j].st # "absent" => j[1] \in Selected(run.sel)
                       /\ Pending(j)' => item'[j].tries < MaxTries
                       /\ item[j].st # "absent" => item'[j].st # "absent"
  BY <1>5, <1>6, <1>7 DEF Straight, ItemsFollow
<1>10. \A j \in ItemsOf(x.subs) : item'[j].st # "absent"
  <2>1. \A j \in ItemsOf(x.subs) : j \in Items
    BY <1>1, <1>3 DEF ItemsOf, Items, Worker
  <2> QED BY <1>2, <1>3, <1>9, <2>1
<1> QED BY <1>1, <1>2, <1>3, <1>4, <1>7, <1>8, <1>9, <1>10, WorkStraight

\* A result is written.
LEMMA AnswerStraight ==
  ASSUME IInv, Straight, NEW w \in Workers, NEW i \in Items, NEW ok \in BOOLEAN, Answer(w, i, ok)
  PROVE  Straight'
<1> DEFINE n == worker[w].left[i]
           again == ~ok /\ n < MaxTries
           left == [worker[w].left EXCEPT ![i] = IF again THEN n + 1 ELSE 0]
           flight == worker[w].flight \ {i}
           bad == IF ok \/ n < MaxTries THEN worker[w].bad \ {i} ELSE worker[w].bad \cup {i}
           row == [st |-> IF ok THEN "graded" ELSE IF n < MaxTries THEN "queued" ELSE "failed",
                   tries |-> n]
           x == [worker[w] EXCEPT !.flight = flight, !.left = left, !.bad = bad, !.looped = TRUE]
<1>1. /\ worker[w] \in Worker /\ item \in [Items -> Item]
      /\ worker[w].pc = "grading" /\ i \in worker[w].flight /\ Executing(w)
      /\ worker[w].left \in [Items -> 0 .. MaxTries] /\ n \in Nat
  BY RowsTyped, TriesPositive DEF Answer, Executing, Worker
<1>2. /\ worker[w].subs = Selected(run.sel)
      /\ \A j \in ItemsOf(worker[w].subs) : item[j].st # "absent"
      /\ \A j \in Items : Pending(j) => worker[w].left[j] > 0
      /\ \A j \in Items : worker[w].left[j] > 0 => Pending(j)
      /\ worker[w].bad = FailedItems
      /\ n > 0
  BY <1>1 DEF Straight, WorkFollows, IInv, PendingUngraded
<1>3. item' = [item EXCEPT ![i] = row] /\ worker' = [worker EXCEPT ![w] = x]
      /\ UNCHANGED <<run, exam, resv, billed>>
  BY RowsTyped DEF Answer
<1>4. /\ left[i] > 0 <=> again
      /\ \A j \in Items \ {i} : left[j] = worker[w].left[j]
  BY <1>1
<1>5. /\ row.st = "queued" <=> again
      /\ row.st = "failed" <=> ~(ok \/ n < MaxTries)
      /\ row.st \notin {"absent", "extracting"} /\ row.tries = n /\ (again => n < MaxTries)
  OBVIOUS
<1>6. bad = IF row.st = "failed" THEN FailedItems \cup {i} ELSE FailedItems \ {i}
  BY <1>2, <1>5
<1> HIDE DEF left, flight, bad, row, again
<1>7. /\ x.pc = "grading" /\ x.rid = worker[w].rid /\ x.sel = worker[w].sel
      /\ x.subs = worker[w].subs /\ x.left = left /\ x.bad = bad /\ x.looped
  BY <1>1 DEF Worker
<1> HIDE DEF x
<1>8. item'[i] = row /\ \A j \in Items \ {i} : item'[j] = item[j]
  BY <1>1, <1>3
<1>9. Pending(i) /\ i[1] \in Selected(run.sel)
  BY <1>2 DEF Straight, ItemsFollow, Pending
<1>10. \A j \in Items : /\ Pending(j)' => x.left[j] > 0
                        /\ x.left[j] > 0 => Pending(j)'
  BY <1>2, <1>4, <1>5, <1>7, <1>8 DEF Pending
<1>11. x.bad = FailedItems'
  BY <1>6, <1>7, <1>8 DEF FailedItems
<1>12. \A j \in Items : /\ item'[j].st # "absent" => j[1] \in Selected(run.sel)
                        /\ Pending(j)' => item'[j].tries < MaxTries
                        /\ item[j].st # "absent" => item'[j].st # "absent"
  BY <1>5, <1>8, <1>9 DEF Straight, ItemsFollow, Pending
<1>13. \A j \in ItemsOf(x.subs) : item'[j].st # "absent"
  <2>1. \A j \in ItemsOf(x.subs) : j \in Items
    BY <1>1, <1>7 DEF ItemsOf, Items, Worker
  <2> QED BY <1>2, <1>7, <1>12, <2>1
<1> QED BY <1>1, <1>2, <1>3, <1>7, <1>10, <1>11, <1>12, <1>13, WorkStraight

\* How every execution ends: with its own reservation closed.
LEMMA EndStraight ==
  ASSUME IInv, Straight, NEW w \in Workers, Executing(w), NEW status \in Terminal, End(w, status),
         \A r \in Rids : resv'[r].status = IF r = run.rid THEN resv'[run.rid].status ELSE resv[r].status,
         resv'[run.rid].status \in {"settled", "released"}
  PROVE  /\ NothingYet' /\ ThreadsFollow' /\ QuotaFollows' /\ WorkFollows'
         /\ run'.status = status /\ Selected(run.sel)' = Selected(run.sel)
<1>1. run.status = "running" /\ worker[w].rid = run.rid
  BY DEF Straight, ThreadsFollow
<1>2. /\ run'.status = status /\ run'.rid = run.rid /\ run'.sel = run.sel
      /\ Selected(run.sel)' = Selected(run.sel)
  BY <1>1, RowsTyped DEF End, Run, Selected
<1>3. \A v \in Workers : worker'[v].pc \notin {"loading", "grading"}
  <2>1. worker'[w] = Idle /\ \A v \in Workers \ {w} : worker'[v] = worker[v]
    BY RowsTyped DEF End
  <2>2. \A v \in Workers \ {w} : ~Executing(v)
    BY OnlyOne DEF IInv
  <2> QED BY <2>1, <2>2, IdleType DEF Executing
<1>4. NothingYet' /\ ThreadsFollow' /\ WorkFollows'
  BY <1>2, <1>3 DEF NothingYet, ThreadsFollow, WorkFollows, Executing, Terminal
<1>5. run.rid \in Rids /\ \A r \in Rids : Active(r) => r = run.rid
  BY <1>1 DEF Straight, QuotaFollows
<1>6. QuotaFollows'
  BY <1>2, <1>5 DEF QuotaFollows, Active, Terminal, Open
<1> QED BY <1>2, <1>4, <1>6

\* A completed execution has graded or failed every item and charges every sheet
\* it has graded completely.
LEMMA CompleteStraight ==
  ASSUME IInv, Straight, NEW w \in Workers, Complete(w)
  PROVE  Straight'
<1> DEFINE S == {s \in worker[w].subs : FullyGraded(s)}
           status == IF worker[w].bad = {} THEN "completed" ELSE "with_errors"
<1>1. /\ worker[w].pc = "grading" /\ Executing(w) /\ worker[w].left \in [Items -> 0 .. MaxTries]
      /\ \A i \in Items : worker[w].left[i] = 0
  BY RowsTyped DEF Complete, Exhausted, Executing, Worker
<1>2. run.status = "running" /\ worker[w].rid = run.rid /\ run.rid \in Rids /\ Active(run.rid)
      /\ run.rid # NoResv
  BY <1>1, NoResvOutside DEF Straight, ThreadsFollow, QuotaFollows, Open
<1>3. /\ resv' = [resv EXCEPT ![run.rid].status = "settled"]
      /\ billed' = billed \cup (resv[run.rid].sheets \cap S)
  BY <1>2 DEF Complete, Settle
<1>4. End(w, status) /\ status \in Terminal
  BY DEF Complete, Terminal
<1>5. \A r \in Rids : resv'[r].status = IF r = run.rid THEN "settled" ELSE resv[r].status
  BY <1>2, <1>3, RowsTyped DEF Reservation
<1> HIDE DEF status
<1>6. /\ NothingYet' /\ ThreadsFollow' /\ QuotaFollows' /\ WorkFollows'
      /\ run'.status = status /\ Selected(run.sel)' = Selected(run.sel) /\ UNCHANGED item
  BY <1>1, <1>2, <1>4, <1>5, EndStraight DEF Complete
<1>7. /\ worker[w].subs = Selected(run.sel)
      /\ \A i \in ItemsOf(worker[w].subs) : item[i].st # "absent"
      /\ \A i \in Items : ~Pending(i)
      /\ worker[w].bad = FailedItems
  BY <1>1 DEF Straight, WorkFollows
<1>8. \A i \in Items : item[i].st \in {"absent", "graded", "failed"}
  BY <1>7, RowsTyped DEF Pending, Item
<1>9. \A i \in ItemsOf(Selected(run.sel)) : item[i].st \in {"graded", "failed"}
  <2>1. Selected(run.sel) \in SUBSET Sheets
    BY RowsTyped, SelectedType DEF IInv, Run
  <2>2. \A i \in ItemsOf(Selected(run.sel)) : i \in Items
    BY <2>1 DEF ItemsOf, Items
  <2> QED BY <1>7, <1>8, <2>2
<1>10. \A s \in Sheets : FullyGraded(s) => s \in billed'
  <2> SUFFICES ASSUME NEW s \in Sheets, FullyGraded(s) PROVE s \in billed'
    OBVIOUS
  <2>1. PICK q \in Questions : TRUE
    BY SomeQuestion
  <2>2. <<s, q>> \in Items /\ item[<<s, q>>].st = "graded"
    BY <2>1 DEF Items, FullyGraded, Graded
  <2>3. s \in Selected(run.sel)
    BY <2>2 DEF Straight, ItemsFollow
  <2>4. s \in S /\ s \in billed \cup resv[run.rid].sheets
    BY <1>2, <1>7, <2>3 DEF Straight, QuotaFollows, Open
  <2> QED BY <1>3, <2>4
<1>11. (\A s \in Sheets : FullyGraded(s) => s \in billed)'
  BY <1>6, <1>10 DEF FullyGraded, Graded
<1>12. run'.status \in {"queued", "failed", "completed"} => FailedItems' = {}
  BY <1>6, <1>7 DEF status, FailedItems
<1>13. ItemsFollow'
  BY <1>6, <1>9, <1>11, <1>12 DEF Straight, ItemsFollow, Pending
<1> QED BY <1>6, <1>13 DEF Straight

\* A failed execution releases the quota; when no item is used up, all that is not
\* graded waits for the next execution.
LEMMA FailedStraight ==
  ASSUME IInv, Straight, NEW w \in Workers, Executing(w), Release(worker[w].rid),
         End(w, "failed"), item' \in [Items -> Item],
         \A i \in Items : item'[i].st # "absent" => item[i].st # "absent", ~Strays
  PROVE  Straight'
<1>1. /\ worker[w].rid = run.rid /\ run.rid \in Rids /\ Active(run.rid) /\ run.rid # NoResv
      /\ run.status = "running" /\ "failed" \in Terminal
  BY NoResvOutside DEF Straight, ThreadsFollow, QuotaFollows, Open, Terminal
<1>2. resv' = [resv EXCEPT ![run.rid].status = "released"]
  BY <1>1 DEF Release
<1>3. \A r \in Rids : resv'[r].status = IF r = run.rid THEN "released" ELSE resv[r].status
  BY <1>1, <1>2, RowsTyped DEF Reservation
<1>4. /\ NothingYet' /\ ThreadsFollow' /\ QuotaFollows' /\ WorkFollows'
      /\ run'.status = "failed" /\ Selected(run.sel)' = Selected(run.sel)
  BY <1>1, <1>3, EndStraight
<1>5. \A i \in Items : ~Spent(i)'
  BY <1>1, <1>4 DEF Strays
<1>6. FailedItems' = {}
  BY <1>5 DEF Spent, FailedItems
<1>7. \A i \in Items : Pending(i)' => item'[i].tries < MaxTries
  BY <1>5, TriesPositive DEF Spent, Item
<1>8. ItemsFollow'
  BY <1>4, <1>6, <1>7 DEF Straight, ItemsFollow
<1> QED BY <1>4, <1>8 DEF Straight

LEMMA FailStraight ==
  ASSUME IInv, Straight, NEW w \in Workers, Fail(w), ~Strays
  PROVE  Straight'
BY RowsTyped, FailedStraight DEF Fail

LEMMA FailSavingStraight ==
  ASSUME IInv, Straight, NEW w \in Workers, NEW i \in Items, NEW st \in {"extracting", "graded"},
         FailSaving(w, i, st), ~Strays
  PROVE  Straight'
<1> DEFINE row == [st |-> st, tries |-> worker[w].left[i]]
<1>1. worker[w] \in Worker /\ Executing(w) /\ Pending(i)
  BY RowsTyped DEF FailSaving, Executing, IInv, PendingUngraded, Straight, WorkFollows
<1>2. row \in Item /\ item' = [item EXCEPT ![i] = row]
  BY <1>1 DEF FailSaving, Item, Worker
<1>3. /\ item' \in [Items -> Item]
      /\ \A j \in Items : item'[j].st # "absent" => item[j].st # "absent"
  BY <1>1, <1>2, RowsTyped DEF Pending
<1> QED BY <1>1, <1>3, FailedStraight DEF FailSaving

\* A retry request changes the run, and no reservation is the next one twice.
LEMMA RetryStrays ==
  ASSUME IInv, Straight, NEW c \in Clients, NEW r \in Rids, RetryCommit(c, r), ~Strays
  PROVE  run.status \in Retryable
<1>1. client' # client
  BY RowsTyped DEF RetryCommit
<1>2. run' # run
  <2>1. run' = [run EXCEPT !.status = "queued", !.rid = r] /\ resv[r].status = "none"
    BY DEF RetryCommit, Reserve
  <2>2. run'.status = "queued" /\ run'.rid = r
    BY <2>1, RowsTyped DEF Run
  <2>3. run.status # "absent" => resv[run.rid].status # "none"
    BY DEF Straight, QuotaFollows
  <2> QED BY <2>1, <2>2, <2>3
<1> QED BY <1>1, <1>2 DEF Strays

\* The steps that are not among Strays keep the run straight.
LEMMA NextStraight ==
  ASSUME IInv, Straight, Next, ~Strays
  PROVE  Straight'
<1>1. ASSUME NEW r \in Rids, Reconcile(r) PROVE Straight'
  <2>1. resv'[r] # resv[r]
    BY <1>1, NoResvOutside, RowsTyped DEF Reconcile, Release, Active, Reservation
  <2> QED BY <1>1, <2>1 DEF Strays, Reconcile
<1>2. ASSUME NEW s \in Sheets, Upload(s) PROVE Straight'
  <2>1. exam' # exam
    BY <1>2 DEF Upload
  <2> QED BY <1>2, <2>1, UploadStraight DEF Strays
<1>3. CASE \E sel \in SUBSET exam, r \in Rids : CreateRun(sel, r)
  BY <1>3, CreateRunStraight
<1>4. CASE StartRun \/ OrphanExpires
  BY <1>4, QuietStraight DEF StartRun, OrphanExpires
<1>5. ASSUME NEW c \in Clients,
             RetryLoad(c) \/ RetryRefused(c) \/ \E r \in Rids : RetryCommit(c, r)
      PROVE  Straight'
  <2>1. CASE RetryLoad(c) \/ RetryRefused(c)
    BY <2>1, QuietStraight DEF RetryLoad, RetryRefused
  <2>2. CASE \E r \in Rids : RetryCommit(c, r)
    BY <2>2, RetryStrays, RetryStraight
  <2> QED BY <1>5, <2>1, <2>2
<1>6. ASSUME NEW w \in Workers, Receive(w) \/ Requeue(w) \/ Drop(w) \/ CutOff(w) \/ Crash(w)
      PROVE  Straight'
  <2>1. UNCHANGED <<run, item, exam, resv, billed>>
    BY <1>6 DEF Receive, Requeue, Drop, CutOff, Crash
  <2>2. \A v \in Workers : worker'[v] = worker[v] \/ worker'[v].pc \in {"idle", "checked"}
    BY <1>6, RowsTyped, IdleType DEF Receive, Requeue, Drop, CutOff, Crash, Worker
  <2> QED BY <2>1, <2>2, QuietStraight
<1>7. ASSUME NEW w \in Workers, Begin(w) PROVE Straight'
  <2>1. worker[w].pc = "checked" /\ worker'[w].pc = "loading"
    BY <1>7, RowsTyped DEF Begin, Idle
  <2> QED BY <1>7, <2>1, BeginStraight DEF Strays
<1>8. ASSUME NEW w \in Workers, Execute(w) PROVE Straight'
  BY <1>8, LoadStraight, DispatchStraight, AnswerStraight, CompleteStraight, FailStraight,
     FailSavingStraight DEF Execute
<1> QED BY <1>1, <1>2, <1>3, <1>4, <1>5, <1>6, <1>7, <1>8 DEF Next

\* Nothing has strayed before the run is created.
LEMMA InitStraight == StrayInit => StrayInv
<1> SUFFICES ASSUME StrayInit PROVE StrayInv
  OBVIOUS
<1>1. IInv
  BY InitFits DEF StrayInit
<1>2. \A w \in Workers : worker[w].pc = "idle"
  BY IdleType DEF StrayInit, Init
<1>3. ThreadsFollow /\ WorkFollows
  BY <1>2 DEF ThreadsFollow, WorkFollows, Executing
<1>4. NothingYet /\ QuotaFollows /\ ItemsFollow
  BY DEF StrayInit, Init, NothingYet, QuotaFollows, ItemsFollow, Active, Open, Pending
<1> QED BY <1>1, <1>3, <1>4 DEF StrayInit, StrayInv, Straight

\* Every step keeps the run straight or is noted as a stray one.
LEMMA StepStraight == StrayInv /\ [StrayNext]_<<vars, stray>> => StrayInv'
<1> SUFFICES ASSUME StrayInv, [StrayNext]_<<vars, stray>> PROVE StrayInv'
  OBVIOUS
<1>1. [Next]_vars
  BY DEF StrayNext
<1>2. IInv'
  BY <1>1, StepGood DEF StrayInv, Good
<1>3. CASE StrayNext
  <2>1. stray' \in BOOLEAN /\ (~stray' => ~stray /\ ~Strays)
    BY <1>3 DEF StrayNext, StrayInv
  <2>2. ~stray' => Straight'
    BY <1>3, <2>1, NextStraight DEF StrayNext, StrayInv
  <2> QED BY <1>2, <2>1, <2>2 DEF StrayInv
<1>4. CASE UNCHANGED <<vars, stray>>
  <2>1. Straight => Straight'
    BY <1>4, QuietStraight DEF vars
  <2> QED BY <1>2, <1>4, <2>1 DEF StrayInv
<1> QED BY <1>3, <1>4

\* execute_grading_run, retry_run: whatever requests, messages, failed items, exceptions
\* and crashes a run goes through, once it has ended it holds no quota, and a completed
\* one has graded every item and charged every sheet it graded, unless a step of Strays
\* was taken: an exception after an item's last attempt is one, any other is not.
THEOREM EndsSettled == StraySpec => []EndedIsSettled
<1>1. StrayInv => EndedIsSettled
  <2> SUFFICES ASSUME IInv, Straight PROVE EndedHoldsNothing /\ CompletedIsBilled
    BY DEF StrayInv, EndedIsSettled
  <2>1. EndedHoldsNothing
    BY DEF Straight, QuotaFollows, EndedHoldsNothing, Terminal, Open
  <2>2. CompletedIsBilled
    <3> SUFFICES ASSUME run.status = "completed"
                 PROVE  /\ \A i \in Items : item[i].st \in {"absent", "graded"}
                        /\ \A s \in Sheets : FullyGraded(s) => s \in billed
      BY DEF CompletedIsBilled, GradedIsCharged
    <3>1. FailedItems = {} /\ \A s \in Sheets : FullyGraded(s) => s \in billed
      BY DEF Straight, ItemsFollow
    <3>2. ASSUME NEW i \in Items, item[i].st # "absent" PROVE item[i].st = "graded"
      <4>1. i \in ItemsOf(Selected(run.sel))
        BY <3>2 DEF Straight, ItemsFollow, Items, ItemsOf
      <4>2. item[i].st # "failed"
        BY <3>1 DEF FailedItems
      <4> QED BY <4>1, <4>2 DEF Straight, ItemsFollow
    <3> QED BY <3>1, <3>2
  <2> QED BY <2>1, <2>2
<1> QED BY <1>1, InitStraight, StepStraight, PTL DEF StraySpec

=============================================================================
