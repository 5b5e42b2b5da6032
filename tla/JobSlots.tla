------------------------------ MODULE JobSlots ------------------------------
(***************************************************************************)
(* The running-job slots of one school (services/job_control.py) and the   *)
(* way every long Dramatiq actor uses them (worker.py, _run_org_job_once): *)
(* claim a lease row, keep it alive from a heartbeat thread, run the job   *)
(* under a PostgreSQL advisory lock, delete the lease.  A message that     *)
(* finds no slot is sent again.                                            *)
(*                                                                         *)
(* A lease row is unique per (task_type, resource_id), so a lease is       *)
(* identified by its job.  Time is reduced to what the code compares: a    *)
(* lease is fresh while expires_at lies ahead and stale afterwards.        *)
(***************************************************************************)
EXTENDS Naturals, FiniteSets

CONSTANTS
  Threads,     \* worker threads
  Jobs,        \* (task_type, resource_id) pairs of the school
  Limit,       \* max_running_jobs of the usage policy, or 8
  MaxSent,     \* bound: messages ever sent for one job
  MaxDeaths,   \* bound: worker processes that die
  NoOne        \* the owner of a lease whose worker died

ASSUME JobsFinite == Jobs # {} /\ IsFiniteSet(Jobs)
ASSUME LimitPositive == Limit \in Nat \ {0}
ASSUME BoundsNat == MaxSent \in Nat /\ MaxDeaths \in Nat
ASSUME NoOneOutside == NoOne \notin Threads

VARIABLES
  leases,      \* OrganizationJobLease rows
  locks,       \* session-level advisory locks, by job
  thread,      \* the worker threads
  queue,       \* messages waiting for each job
  sent,        \* messages sent by the API so far
  admitted,    \* the school is active and not blocked or frozen
  deaths,      \* worker processes that died so far
  missed       \* history: a heartbeat thread died or was late for its lease

slotsVars == <<leases, locks, thread, queue, sent, admitted, deaths, missed>>

NoLease == [state |-> "none", owner |-> NoOne]

\* beat: the heartbeat thread runs.  An idle thread still carries its last job,
\* which nothing reads.
Thread == [pc: {"idle", "leased", "running", "leaving"}, job: Jobs, beat: BOOLEAN]

AnyJob == CHOOSE j \in Jobs : TRUE

Fresh(j) == leases[j].state = "fresh"

Running(w) == thread[w].pc = "running"

SlotsInit ==
  /\ leases = [j \in Jobs |-> NoLease]
  /\ locks = [j \in Jobs |-> NoOne]
  /\ thread = [w \in Threads |-> [pc |-> "idle", job |-> AnyJob, beat |-> FALSE]]
  /\ queue = [j \in Jobs |-> 0]
  /\ sent = [j \in Jobs |-> 0]
  /\ admitted = TRUE
  /\ deaths = 0
  /\ missed = FALSE

-----------------------------------------------------------------------------
\* The environment.

\* An API request sends a job's message.
Send(j) ==
  /\ sent[j] < MaxSent
  /\ sent' = [sent EXCEPT ![j] = @ + 1]
  /\ queue' = [queue EXCEPT ![j] = @ + 1]
  /\ UNCHANGED <<leases, locks, thread, admitted, deaths, missed>>

\* The platform changes the school's status or risk state.
SetAdmitted(b) ==
  /\ admitted # b
  /\ admitted' = b
  /\ UNCHANGED <<leases, locks, thread, queue, sent, deaths, missed>>

\* No thread sends heartbeats for the lease of j.
Unattended(j) == leases[j].owner \in Threads => ~thread[leases[j].owner].beat

\* LEASE_TTL passes without a heartbeat: the thread that sends them is gone or late.
LeaseExpires(j) ==
  /\ Fresh(j)
  /\ leases' = [leases EXCEPT ![j].state = "stale"]
  /\ missed' = (missed \/ ~Unattended(j))
  /\ UNCHANGED <<locks, thread, queue, sent, admitted, deaths>>

-----------------------------------------------------------------------------
\* try_acquire_job_lease, one transaction under the school's advisory lock.

\* Mutant: expired leases are not deleted, only left out of the count.
SweptNothing == leases

\* Expired leases are deleted before anything else.
Swept == [j \in Jobs |-> IF leases[j].state = "stale" THEN NoLease ELSE leases[j]]

Free == Cardinality({j \in Jobs : Fresh(j)}) < Limit

\* Mutant: the heartbeat thread is not started.
AcquireSilently(w, j) ==
  /\ thread[w].pc = "idle" /\ queue[j] > 0
  /\ admitted /\ Free
  /\ ~Fresh(j)
  /\ leases' = [Swept EXCEPT ![j] = [state |-> "fresh", owner |-> w]]
  /\ thread' = [thread EXCEPT ![w] = [pc |-> "leased", job |-> j, beat |-> FALSE]]
  /\ queue' = [queue EXCEPT ![j] = @ - 1]
  /\ UNCHANGED <<locks, sent, admitted, deaths, missed>>

\* A slot is free: insert the lease and start the heartbeat thread.
Acquire(w, j) ==
  /\ thread[w].pc = "idle" /\ queue[j] > 0
  /\ admitted /\ Free
  /\ ~Fresh(j)
  /\ leases' = [Swept EXCEPT ![j] = [state |-> "fresh", owner |-> w]]
  /\ thread' = [thread EXCEPT ![w] = [pc |-> "leased", job |-> j, beat |-> TRUE]]
  /\ queue' = [queue EXCEPT ![j] = @ - 1]
  /\ UNCHANGED <<locks, sent, admitted, deaths, missed>>

\* No slot: the sweep is committed and the message is sent again with a delay,
\* so the queue is as it was.
SendAgain(w, j) ==
  /\ thread[w].pc = "idle" /\ queue[j] > 0
  /\ ~admitted \/ ~Free
  /\ leases' = Swept
  /\ UNCHANGED <<locks, thread, queue, sent, admitted, deaths, missed>>

\* The job has a live lease: the unique constraint rejects the row, the whole
\* transaction rolls back and the message is lost (max_retries = 0).
Duplicate(w, j) ==
  /\ thread[w].pc = "idle" /\ queue[j] > 0
  /\ admitted /\ Free
  /\ Fresh(j)
  /\ queue' = [queue EXCEPT ![j] = @ - 1]
  /\ UNCHANGED <<leases, locks, thread, sent, admitted, deaths, missed>>

-----------------------------------------------------------------------------
\* The heartbeat thread of w.

Owns(w) == leases[thread[w].job].owner = w /\ leases[thread[w].job].state # "none"

\* UPDATE by token: it also revives a lease that expired but was not swept.  No
\* row means the lease is gone, and the thread ends.
Heartbeat(w) ==
  /\ thread[w].beat
  /\ IF Owns(w)
       THEN /\ leases' = [leases EXCEPT ![thread[w].job].state = "fresh"]
            /\ UNCHANGED thread
       ELSE /\ thread' = [thread EXCEPT ![w].beat = FALSE]
            /\ UNCHANGED leases
  /\ UNCHANGED <<locks, queue, sent, admitted, deaths, missed>>

\* A database error in the thread ends it silently; the job goes on.
HeartbeatFails(w) ==
  /\ thread[w].beat
  /\ thread' = [thread EXCEPT ![w].beat = FALSE]
  /\ missed' = TRUE
  /\ UNCHANGED <<leases, locks, queue, sent, admitted, deaths>>

-----------------------------------------------------------------------------
\* _run_once and the end of organization_job_slot.

\* Mutant: the answer of pg_try_advisory_lock is ignored.
TryNoLock(w) ==
  /\ thread[w].pc = "leased"
  /\ locks' = [locks EXCEPT ![thread[w].job] = w]
  /\ thread' = [thread EXCEPT ![w].pc = "running"]
  /\ UNCHANGED <<leases, queue, sent, admitted, deaths, missed>>

\* pg_try_advisory_lock: the job runs only if nobody else holds its lock.
TryLock(w) ==
  LET j == thread[w].job
  IN  /\ thread[w].pc = "leased"
      /\ IF locks[j] = NoOne
           THEN /\ locks' = [locks EXCEPT ![j] = w]
                /\ thread' = [thread EXCEPT ![w].pc = "running"]
           ELSE /\ thread' = [thread EXCEPT ![w].pc = "leaving"]
                /\ UNCHANGED locks
      /\ UNCHANGED <<leases, queue, sent, admitted, deaths, missed>>

\* The callback returns or raises: unlock.
Finish(w) ==
  /\ Running(w)
  /\ locks' = [locks EXCEPT ![thread[w].job] = NoOne]
  /\ thread' = [thread EXCEPT ![w].pc = "leaving"]
  /\ UNCHANGED <<leases, queue, sent, admitted, deaths, missed>>

\* Mutant: the end of the slot is not in a finally block.
LeaveWithoutCleanup(w) ==
  /\ thread[w].pc = "leaving"
  /\ thread' = [thread EXCEPT ![w].pc = "idle"]
  /\ UNCHANGED <<leases, locks, queue, sent, admitted, deaths, missed>>

\* Stop the heartbeat thread and delete the lease by its token.
Leave(w) ==
  LET j == thread[w].job
  IN  /\ thread[w].pc = "leaving"
      /\ leases' = IF Owns(w) THEN [leases EXCEPT ![j] = NoLease] ELSE leases
      /\ thread' = [thread EXCEPT ![w].pc = "idle", ![w].beat = FALSE]
      /\ UNCHANGED <<locks, queue, sent, admitted, deaths, missed>>

\* The worker process dies: PostgreSQL drops its advisory lock, the lease row
\* stays until it expires, and the broker gives the unacknowledged message to
\* another worker.
ThreadDies(w) ==
  LET j == thread[w].job
  IN  /\ deaths < MaxDeaths
      /\ thread[w].pc # "idle"
      /\ deaths' = deaths + 1
      /\ leases' = IF Owns(w) THEN [leases EXCEPT ![j].owner = NoOne] ELSE leases
      /\ locks' = IF locks[j] = w THEN [locks EXCEPT ![j] = NoOne] ELSE locks
      /\ thread' = [thread EXCEPT ![w].pc = "idle", ![w].beat = FALSE]
      /\ queue' = [queue EXCEPT ![j] = @ + 1]
      /\ UNCHANGED <<sent, admitted, missed>>

-----------------------------------------------------------------------------
Step(w) ==
  \/ \E j \in Jobs : Acquire(w, j) \/ SendAgain(w, j) \/ Duplicate(w, j)
  \/ TryLock(w)
  \/ Finish(w)
  \/ Leave(w)

SlotsNext ==
  \/ \E j \in Jobs : Send(j) \/ LeaseExpires(j)
  \/ \E b \in BOOLEAN : SetAdmitted(b)
  \/ \E w \in Threads : Step(w) \/ Heartbeat(w) \/ HeartbeatFails(w) \/ ThreadDies(w)

SlotsSpec == SlotsInit /\ [][SlotsNext]_slotsVars

\* Jobs end (time_limit), leases nobody keeps alive reach their TTL, the broker
\* keeps delivering, and a message that keeps finding a free slot takes it.
\* Nothing makes the platform admit a school or stops it from blocking one.
SlotsFairness ==
  /\ \A w \in Threads : WF_slotsVars(TryLock(w)) /\ WF_slotsVars(Finish(w)) /\ WF_slotsVars(Leave(w))
  /\ \A j \in Jobs : WF_slotsVars(LeaseExpires(j) /\ Unattended(j))
  /\ \A j \in Jobs : SF_slotsVars(\E w \in Threads : Acquire(w, j) \/ Duplicate(w, j))

SlotsFairSpec == SlotsSpec /\ SlotsFairness

-----------------------------------------------------------------------------
\* Properties.

\* Every row, lock and thread has the shape the code gives it.
SlotsTypeOK ==
  /\ leases \in [Jobs -> [state: {"none", "fresh", "stale"}, owner: Threads \cup {NoOne}]]
  /\ locks \in [Jobs -> Threads \cup {NoOne}]
  /\ thread \in [Threads -> Thread]
  /\ queue \in [Jobs -> Nat]
  /\ sent \in [Jobs -> 0 .. MaxSent]
  /\ admitted \in BOOLEAN
  /\ deaths \in 0 .. MaxDeaths
  /\ missed \in BOOLEAN

\* Live leases never exceed the school's limit, although a late heartbeat may
\* revive an expired lease while another worker is claiming a slot.
LeasesWithinLimit == Cardinality({j \in Jobs : Fresh(j)}) <= Limit

\* A job never runs in two workers at once, whatever happens to its lease: after
\* the lease expired, was swept and was claimed again, the advisory lock still
\* stops the second worker.
OneRunner ==
  \A v, w \in Threads :
     Running(v) /\ Running(w) /\ thread[v].job = thread[w].job => v = w

\* As long as heartbeats arrive, every thread that claimed a slot is covered by
\* its own live lease until it leaves, so a limit on leases limits running jobs.
RunnersCovered ==
  ~missed => \A w \in Threads : thread[w].pc # "idle" =>
     thread[w].beat /\ leases[thread[w].job] = [state |-> "fresh", owner |-> w]

\* issue-backlog.md promises that leases keep a school from exceeding its
\* concurrent jobs: they do as long as no heartbeat is missed, whatever crashes.
RunnersWithinLimit == ~missed => Cardinality({w \in Threads : Running(w)}) <= Limit

\* Why the limit holds although stale leases come back to life: every claim
\* sweeps first, so fresh and stale rows together never exceed it.
RowsWithinLimit == Cardinality({j \in Jobs : leases[j].state # "none"}) <= Limit

\* The worker that runs a job holds its advisory lock.
RunnersLocked == \A w \in Threads : Running(w) => locks[thread[w].job] = w

\* The inductive invariant behind LeasesWithinLimit and OneRunner.
SlotsInv == SlotsTypeOK /\ RowsWithinLimit /\ RunnersLocked

\* The lease of a dead worker never blocks its job for good: if the school stays
\* admitted, every message is in the end delivered to a run or dropped as a
\* duplicate of one.
QueueDrains == (\A j \in Jobs : []<>(queue[j] = 0)) \/ []<>~admitted

=============================================================================
