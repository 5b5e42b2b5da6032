----------------------------- MODULE ModelCalls -----------------------------
(***************************************************************************)
(* Calls to model channels from the worker processes of several schools    *)
(* (services/vision_grading.py, model_concurrency.py, provider_gateway.py).*)
(*                                                                         *)
(* A call resolves its route once, then tries every channel of it, twice.  *)
(* Before a try is sent it passes the school's rate window and takes a     *)
(* slot of the school, of the channel and of the platform, each a sorted   *)
(* set in Redis whose entries run out after a while; it polls for each.    *)
(* Afterwards it gives the slots back and reports to the channel's health  *)
(* row, whose circuit opens after Threshold failures in a row.             *)
(*                                                                         *)
(* Billing is enforced, so a Redis error refuses the try.  All channels    *)
(* serve one model, so a health row and a local cooldown belong to a       *)
(* channel, and the calls run in one process.  What a channel answers is   *)
(* good or bad; usage events are those of Credits.                         *)
(***************************************************************************)
EXTENDS Integers, FiniteSets, Sequences

CONSTANTS
  Calls,          \* calls, one after the other per thread
  Schools, Channels,
  Platform,       \* the key of the platform's slots
  School,         \* the school of each call
  Route,          \* the channels of the model, best first
  SchoolLimit, ChannelLimit, PlatformLimit,
  Rate,           \* calls per minute of a school
  Threshold,      \* failures in a row that open a circuit
  Passes,         \* how often a call goes through its route
  MaxFaults       \* bound: Redis and database errors, slots that run out under a call

ASSUME KeysDistinct == /\ Schools \cap Channels = {}
                       /\ Platform \notin Schools \cup Channels
ASSUME RouteUsable == Route \in Seq(Channels) /\ Len(Route) > 0
ASSUME SchoolOfCall == School \in [Calls -> Schools]
ASSUME CallsFinite == IsFiniteSet(Calls)
ASSUME LimitsPositive == {SchoolLimit, ChannelLimit, PlatformLimit, Rate, Threshold, Passes}
                           \subseteq Nat \ {0}
ASSUME BoundsNat == MaxFaults \in Nat

VARIABLES
  call,        \* per call: where it is, the channels it skips, its try, the limit it read
  slots,       \* entries of the slot sets, one token per try
  old,         \* those past their time that no claim has swept yet
  rate,        \* entries of a school's rate window
  health,      \* ProviderHealthState
  faults,
  lost,        \* history: entries nobody will give back
  streak,      \* history: failures reported in a row
  blamed       \* channels that have answered badly

redis == <<slots, old, lost>>
channel == <<health, streak, blamed>>
vars == <<call, redis, rate, channel, faults>>

Keys == {Platform} \cup Schools \cup Channels

Tries == 1 .. Passes * Len(Route)

Tokens == Calls \X Tries

Waits == {"rate", "school", "channel", "platform"}

Call == [at: {"idle", "gate", "sent", "report", "insert", "done", "failed"} \cup Waits,
         skip: SUBSET Channels, try: Tries \cup {0}, limit: 0 .. SchoolLimit,
         good: BOOLEAN]

Row == [status: {"none", "healthy", "degraded", "open"}, failures: 0 .. Threshold]

\* A call that has not begun or has ended.
Outside(a) == [at |-> a, skip |-> {}, try |-> 0, limit |-> 0, good |-> FALSE]

Init ==
  /\ call = [p \in Calls |-> Outside("idle")]
  /\ slots = [k \in Keys |-> {}] /\ old = [k \in Keys |-> {}] /\ lost = [k \in Keys |-> {}]
  /\ rate = [o \in Schools |-> 0]
  /\ blamed = {}
  /\ health = [c \in Channels |-> [status |-> "none", failures |-> 0]]
  /\ streak = [c \in Channels |-> 0]
  /\ faults = 0

-----------------------------------------------------------------------------
\* Helpers.

\* The channel of try n: the route, again and again.
ChannelOf(n) == Route[((n - 1) % Len(Route)) + 1]

Target(p) == ChannelOf(call[p].try)

Token(p) == <<p, call[p].try>>

\* The slots a call has claimed, in the order of the code: school, channel,
\* platform.
Held(p) ==
  CASE call[p].at = "channel" -> {School[p]}
    [] call[p].at = "platform" -> {School[p], Target(p)}
    [] call[p].at = "sent" -> {School[p], Target(p), Platform}
    [] OTHER -> {}

\* effective_org_concurrency: one for a school that is throttled.  The platform
\* may throttle a school and lift it at any time.
LimitsOfSchool == {1, SchoolLimit}

\* The limit a call's claim names.
LimitFor(p, k) ==
  CASE k \in Schools -> call[p].limit
    [] k \in Channels -> ChannelLimit
    [] k = Platform -> PlatformLimit

\* A circuit that is open takes no call before its time is over.
Eligible(c, over) == health[c].status = "open" => c \in over

\* Call p's next try, of a channel it does not skip, or its end.
Try(p, skip) ==
  LET left == {n \in Tries : n > call[p].try /\ ChannelOf(n) \notin skip}
  IN  \/ left = {} /\ call' = [call EXCEPT ![p] = Outside("failed")]
      \/ \E n \in left : /\ \A m \in left : n <= m
                         /\ call' = [call EXCEPT ![p] = [Outside("gate") EXCEPT !.skip = skip, !.try = n]]

NextTry(p) == Try(p, call[p].skip)

\* Call p goes on at a.
Go(p, a) == call' = [call EXCEPT ![p].at = a]

-----------------------------------------------------------------------------
\* A call until it is sent.

\* resolve_targets: the eligible channels, or all of them if there is none.  For
\* which open circuits the time is over is a free choice.
Resolve(p, over) ==
  LET bad == {c \in Channels : ~Eligible(c, over)}
  IN  /\ call[p].at = "idle"
      /\ Try(p, IF \A i \in DOMAIN Route : Route[i] \in bad THEN {} ELSE bad)
      /\ UNCHANGED <<redis, rate, channel, faults>>

\* authorize_next_model_call refuses: the call ends.
Unpaid(p) ==
  /\ call[p].at = "gate"
  /\ call' = [call EXCEPT ![p] = Outside("failed")]
  /\ UNCHANGED <<redis, rate, channel, faults>>

\* Mutant: one cooldown for the channels of all providers.
CooledTogether(p) == blamed # {}

\* _cool_down_provider: a bad answer may have made the process leave the channel
\* alone; for how long is a free choice.
Cooled(p) == Target(p) \in blamed

\* _provider_cooldown_reason: the try fails at once, and counts as a failure of the
\* channel like one that was sent.
CoolingDown(p) ==
  /\ call[p].at = "gate" /\ Cooled(p)
  /\ call' = [call EXCEPT ![p].at = "report", ![p].good = FALSE]
  /\ UNCHANGED <<redis, rate, channel, faults>>

\* The school's limit is read before the wait.
Enter(p, limit) ==
  /\ call[p].at = "gate"
  /\ call' = [call EXCEPT ![p].at = "rate", ![p].limit = limit]
  /\ UNCHANGED <<redis, rate, channel, faults>>

\* _acquire_rate.
PassRate(p) ==
  LET o == School[p]
  IN  /\ call[p].at = "rate"
      /\ rate[o] < Rate
      /\ rate' = [rate EXCEPT ![o] = @ + 1]
      /\ Go(p, "school")
      /\ UNCHANGED <<redis, channel, faults>>

\* Set k has room for call p, once what is past its time is swept.
Room(p, k) == Cardinality(slots[k] \ old[k]) < LimitFor(p, k)

\* Mutant: a full set is not looked at again before the claim.
ClaimUnchecked(p, k, a) ==
  /\ slots' = [slots EXCEPT ![k] = (@ \ old[k]) \cup {Token(p)}]
  /\ old' = [old EXCEPT ![k] = {}]
  /\ lost' = [lost EXCEPT ![k] = @ \ old[k]]
  /\ Go(p, a)
  /\ UNCHANGED <<rate, channel, faults>>

\* Mutant: entries past their time are counted.
ClaimUnswept(p, k, a) ==
  /\ Cardinality(slots[k]) < LimitFor(p, k)
  /\ slots' = [slots EXCEPT ![k] = @ \cup {Token(p)}]
  /\ Go(p, a)
  /\ UNCHANGED <<old, lost, rate, channel, faults>>

\* One run of the _ACQUIRE script: sweep, count, add.
Claim(p, k, a) ==
  /\ Room(p, k)
  /\ slots' = [slots EXCEPT ![k] = (@ \ old[k]) \cup {Token(p)}]
  /\ old' = [old EXCEPT ![k] = {}]
  /\ lost' = [lost EXCEPT ![k] = @ \ old[k]]
  /\ Go(p, a)
  /\ UNCHANGED <<rate, channel, faults>>

ClaimSchool(p) == call[p].at = "school" /\ Claim(p, School[p], "channel")

ClaimChannel(p) == call[p].at = "channel" /\ Claim(p, Target(p), "platform")

ClaimPlatform(p) == call[p].at = "platform" /\ Claim(p, Platform, "sent")

-----------------------------------------------------------------------------
\* A call that has its slots, and the end of a try.

\* The finally block: the claimed slots, but for those whose removal fails too.
\* A claim added without an answer is not among them.
Release(p, kept, added) ==
  LET freed == Held(p) \ kept
  IN  /\ slots' = [k \in Keys |-> CASE k \in freed -> slots[k] \ {Token(p)}
                                 [] k \in added -> (slots[k] \ old[k]) \cup {Token(p)}
                                 [] OTHER -> slots[k]]
      /\ old' = [k \in Keys |-> CASE k \in freed -> old[k] \ {Token(p)}
                               [] k \in added -> {}
                               [] OTHER -> old[k]]
      /\ lost' = [k \in Keys |-> CASE k \in freed -> lost[k] \ {Token(p)}
                                [] k \in added -> (lost[k] \ old[k]) \cup {Token(p)}
                                [] k \in kept /\ Token(p) \in slots[k] -> lost[k] \cup {Token(p)}
                                [] OTHER -> lost[k]]

\* Redis errors: removals that fail count as one.
Faulty(kept) == faults' = faults + (IF kept = {} THEN 0 ELSE 1) /\ faults' <= MaxFaults

\* The channel answers, or its timeout passes.
Answer(p, good, kept) ==
  /\ call[p].at = "sent"
  /\ call' = [call EXCEPT ![p].at = "report", ![p].good = good, ![p].limit = 0]
  /\ Release(p, kept, {})
  /\ Faulty(kept)
  /\ blamed' = IF good THEN blamed ELSE blamed \cup {Target(p)}
  /\ UNCHANGED <<rate, health, streak>>

\* The set a waiting call claims next.
Claimed(p) ==
  CASE call[p].at = "school" -> {School[p]}
    [] call[p].at = "channel" -> {Target(p)}
    [] call[p].at = "platform" -> {Platform}
    [] OTHER -> {}

\* ModelConcurrencyUnavailable: a wait ends in a Redis error, and the next try
\* begins without a report.  After a timeout the claim may have been added all
\* the same, and nobody gives it back.
Refuse(p, kept, added) ==
  /\ call[p].at \in Waits
  /\ faults < MaxFaults /\ faults' = faults + 1
  /\ added \subseteq Claimed(p) /\ \A k \in added : Room(p, k)
  /\ NextTry(p)
  /\ Release(p, kept, added)
  /\ UNCHANGED <<rate, channel>>

-----------------------------------------------------------------------------
\* Health reports.

\* The row after a report: a success closes the circuit, also one that was sent
\* before it opened.
Reported(row, good) ==
  LET n == IF row.failures < Threshold THEN row.failures + 1 ELSE Threshold
  IN  IF good THEN [status |-> "healthy", failures |-> 0]
      ELSE [status |-> IF n = Threshold THEN "open" ELSE "degraded", failures |-> n]

\* The call after its report: a good answer ends it.
AfterReport(p) ==
  IF call[p].good THEN call' = [call EXCEPT ![p] = Outside("done")] ELSE NextTry(p)

\* Call p's report is committed on the row as it is.
Commit(p) ==
  LET c == Target(p)
  IN  /\ health' = [health EXCEPT ![c] = Reported(@, call[p].good)]
      /\ streak' = [streak EXCEPT ![c] = IF call[p].good THEN 0
                                         ELSE IF @ < Threshold THEN @ + 1 ELSE @]
      /\ AfterReport(p)
      /\ UNCHANGED <<redis, rate, blamed, faults>>

\* _locked_health: the row is there and gets locked, or it is missing.
Report(p) ==
  /\ call[p].at = "report"
  /\ IF health[Target(p)].status # "none" THEN Commit(p)
     ELSE /\ Go(p, "insert")
          /\ UNCHANGED <<redis, rate, channel, faults>>

\* Mutant: the row another call has inserted meanwhile is written over.
InsertOver(p) ==
  LET c == Target(p)
  IN  /\ call[p].at = "insert"
      /\ health' = [health EXCEPT ![c] = Reported([status |-> "none", failures |-> 0], call[p].good)]
      /\ streak' = [streak EXCEPT ![c] = IF call[p].good THEN 0
                                         ELSE IF @ < Threshold THEN @ + 1 ELSE @]
      /\ AfterReport(p)
      /\ UNCHANGED <<redis, rate, blamed, faults>>

\* It is inserted, or the unique constraint sends the call to the row another
\* call has inserted meanwhile.
Insert(p) == call[p].at = "insert" /\ Commit(p)

\* The transaction fails: the report is lost, and the call goes on.
LoseReport(p) ==
  /\ call[p].at \in {"report", "insert"}
  /\ faults < MaxFaults /\ faults' = faults + 1
  /\ AfterReport(p)
  /\ UNCHANGED <<redis, rate, channel>>

-----------------------------------------------------------------------------
\* Time.

\* An entry nobody will give back runs out.
RunsOut(k, t) ==
  /\ t \in lost[k] \ old[k]
  /\ old' = [old EXCEPT ![k] = @ \cup {t}]
  /\ UNCHANGED <<call, slots, lost, rate, channel, faults>>

\* A slot runs out under a call that waits or is sent.
Outlive(p, k) ==
  /\ k \in Held(p) /\ Token(p) \in slots[k] \ old[k]
  /\ faults < MaxFaults /\ faults' = faults + 1
  /\ old' = [old EXCEPT ![k] = @ \cup {Token(p)}]
  /\ UNCHANGED <<call, slots, lost, rate, channel>>

\* The oldest entry of the rate window leaves it.
MinutePasses(o) ==
  /\ rate[o] > 0
  /\ rate' = [rate EXCEPT ![o] = @ - 1]
  /\ UNCHANGED <<call, redis, channel, faults>>

-----------------------------------------------------------------------------
Resolves(p) == \E over \in SUBSET Channels : Resolve(p, over)
Enters(p) == \E limit \in LimitsOfSchool : Enter(p, limit)
Answers(p) == \E good \in BOOLEAN, kept \in SUBSET Held(p) : Answer(p, good, kept)

\* What the thread of a call does by itself.
Step(p) ==
  \/ Resolves(p) \/ Unpaid(p) \/ CoolingDown(p) \/ Enters(p)
  \/ PassRate(p) \/ ClaimSchool(p) \/ ClaimChannel(p) \/ ClaimPlatform(p)
  \/ Answers(p) \/ Report(p) \/ Insert(p)

Next ==
  \/ \E p \in Calls : \/ Step(p)
                      \/ \E kept \in SUBSET Held(p), added \in SUBSET Claimed(p) : Refuse(p, kept, added)
                      \/ LoseReport(p) \/ \E k \in Keys : Outlive(p, k)
  \/ \E k \in Keys, t \in Tokens : RunsOut(k, t)
  \/ \E o \in Schools : MinutePasses(o)

Spec == Init /\ [][Next]_vars

\* A thread goes on when it can (polling, and a timeout on every call), and time
\* passes.
Fairness ==
  /\ \A p \in Calls : WF_vars(Step(p))
  /\ WF_vars(\E k \in Keys, t \in Tokens : RunsOut(k, t))
  /\ \A o \in Schools : WF_vars(MinutePasses(o))

FairSpec == Spec /\ Fairness

-----------------------------------------------------------------------------
\* Properties.

TypeOK ==
  /\ call \in [Calls -> Call]
  /\ slots \in [Keys -> SUBSET Tokens] /\ old \in [Keys -> SUBSET Tokens]
  /\ lost \in [Keys -> SUBSET Tokens]
  /\ \A k \in Keys : old[k] \subseteq slots[k] /\ lost[k] \subseteq slots[k]
  /\ rate \in [Schools -> 0 .. Rate]
  /\ blamed \subseteq Channels
  /\ health \in [Channels -> Row] /\ streak \in [Channels -> 0 .. Threshold]
  /\ faults \in 0 .. MaxFaults

\* The calls under way that count against set k, and the live entries of k.
Senders(k) == {p \in Calls : call[p].at = "sent" /\ k \in Held(p)}
Live(k) == slots[k] \ old[k]

MaxOf(k) == IF k = Platform THEN PlatformLimit ELSE IF k \in Channels THEN ChannelLimit ELSE SchoolLimit

\* No school, channel or platform has more calls under way than its limit, and a
\* school no more of those begun while it was throttled than one, as long as no
\* slot has run out under one of them (distributed_model_slot).
WithinLimits ==
  \A k \in Keys : (\A p \in Senders(k) : Token(p) \in Live(k)) =>
    /\ Cardinality(Senders(k)) <= MaxOf(k)
    /\ \A n \in 1 .. SchoolLimit : k \in Schools =>
         Cardinality({p \in Senders(k) : call[p].limit <= n}) <= n

\* A slot is taken by a call that waits for the next one or is under way, or its
\* removal has failed: no error path leaves one behind (the finally block).
SlotsReturned ==
  \A k \in Keys : \A t \in slots[k] \ lost[k] : k \in Held(t[1]) /\ t = Token(t[1])

\* The circuit is open exactly after Threshold failures in a row, whichever
\* calls reported them and in whatever order their rows were made.
CircuitExact ==
  \A c \in Channels : (health[c].status = "open") = (streak[c] = Threshold)

\* "Capacity/rate-limit failures say nothing about the upstream channel's
\* health": whatever refusals of its own the platform reports meanwhile, the
\* circuit of a channel opens only when that channel itself has failed once.
CircuitBlamesUpstream == \A c \in Channels : health[c].status = "open" => c \in blamed

\* Every call ends, although it waits for its slots without a limit and Redis
\* forgets to give some back.
CallsEnd == \A p \in Calls : call[p].at # "idle" ~> call[p].at \in {"done", "failed"}

-----------------------------------------------------------------------------
\* The inductive invariant behind WithinLimits, SlotsReturned, CircuitExact and
\* CircuitBlamesUpstream.

Outsides == {"idle", "done", "failed"}

TriesFit == \A p \in Calls : call[p].at \notin Outsides => call[p].try # 0

\* A set holds no more live entries than its limit, whoever they belong to.
RoomKept == \A k \in Keys : Cardinality(Live(k)) <= MaxOf(k)

\* Calls with a live slot of school k that read a limit of n or less.
Limited(k, n) ==
  {p \in Calls : k \in Held(p) /\ Token(p) \in Live(k) /\ call[p].limit <= n}

LimitsKept == \A k \in Schools, n \in 1 .. SchoolLimit : Cardinality(Limited(k, n)) <= n

\* A health row counts failures of a channel that has answered badly.
HealthFits ==
  \A c \in Channels :
    /\ health[c].failures = streak[c]
    /\ health[c].status = "open" <=> health[c].failures = Threshold
    /\ health[c].failures > 0 => c \in blamed

\* And so does a failure that is about to be reported.
ReportsFit ==
  \A p \in Calls : call[p].at \in {"report", "insert"} /\ ~call[p].good => Target(p) \in blamed

IInv ==
  /\ TypeOK /\ TriesFit
  /\ SlotsReturned /\ RoomKept /\ LimitsKept
  /\ HealthFits /\ ReportsFit

=============================================================================
