-------------------------- MODULE ModelCallsProofs --------------------------
(***************************************************************************)
(* Proofs about ModelCalls for any number of calls, schools and channels,  *)
(* any limits and any route.                                               *)
(***************************************************************************)
EXTENDS ModelCalls, FiniteSetTheorems, TLAPS

\* The tries are numbered from one.
LEMMA TriesNat == Tries \subseteq Nat \ {0} /\ Len(Route) \in Nat \ {0}
BY RouteUsable, LimitsPositive DEF Tries

\* Each try has a channel of the route.
LEMMA ChannelTyped == ASSUME NEW n \in Nat \ {0} PROVE ChannelOf(n) \in Channels
<1>1. ((n - 1) % Len(Route)) + 1 \in 1 .. Len(Route)
  BY TriesNat
<1> QED BY <1>1, RouteUsable DEF ChannelOf

\* A call under way has a target and a token of its own.
LEMMA TargetTyped ==
  ASSUME TypeOK, TriesFit, NEW p \in Calls, call[p].at \notin Outsides
  PROVE  Target(p) \in Channels /\ Token(p) \in Tokens
<1>1. call[p].try \in Tries
  BY DEF TypeOK, TriesFit, Call
<1> QED BY <1>1, TriesNat, ChannelTyped DEF Target, Token, Tokens

\* A call holds slots of sets that exist.
LEMMA HeldTyped ==
  ASSUME TypeOK, TriesFit, NEW p \in Calls
  PROVE  /\ Held(p) \subseteq Keys /\ Claimed(p) \subseteq Keys
         /\ Held(p) \cap Claimed(p) = {}
         /\ (Held(p) # {} \/ Claimed(p) # {} => call[p].at \notin Outsides)
<1>1. School[p] \in Schools
  BY SchoolOfCall
<1>2. CASE call[p].at \in Outsides
  BY <1>2 DEF Held, Claimed, Outsides
<1>3. CASE call[p].at \notin Outsides
  BY <1>1, <1>3, TargetTyped, KeysDistinct DEF Held, Claimed, Keys, Outsides
<1> QED BY <1>2, <1>3

\* The limits are positive, and a claim names one that is not above its set's.
LEMMA LimitsTyped ==
  ASSUME TypeOK
  PROVE  /\ Threshold \in Nat \ {0} /\ SchoolLimit \in Nat \ {0}
         /\ \A k \in Keys : MaxOf(k) \in Nat \ {0}
         /\ \A p \in Calls, k \in Keys : LimitFor(p, k) \in Nat /\ LimitFor(p, k) <= MaxOf(k)
<1>1. {SchoolLimit, ChannelLimit, PlatformLimit, Threshold} \subseteq Nat \ {0}
  BY LimitsPositive
<1>2. \A p \in Calls : call[p].limit \in 0 .. SchoolLimit
  BY DEF TypeOK, Call
<1> QED BY <1>1, <1>2, KeysDistinct DEF MaxOf, LimitFor, Keys

\* There are finitely many tokens, so every set of slots is finite.
LEMMA SlotsFinite ==
  ASSUME TypeOK
  PROVE  IsFiniteSet(Tokens) /\ \A k \in Keys : IsFiniteSet(slots[k]) /\ IsFiniteSet(Live(k))
<1>1. Passes * Len(Route) \in Nat
  BY TriesNat, LimitsPositive
<1>2. IsFiniteSet(Tries)
  BY <1>1, FS_Interval DEF Tries
<1>3. IsFiniteSet(Tokens)
  BY <1>2, CallsFinite, FS_Product DEF Tokens
<1>4. \A k \in Keys : slots[k] \subseteq Tokens /\ Live(k) \subseteq Tokens
  BY DEF TypeOK, Live
<1> QED BY <1>3, <1>4, FS_Subset

-----------------------------------------------------------------------------
\* A call in some new state x: what x must satisfy.
CallFits(x) == x \in Call /\ (x.at \notin Outsides => x.try # 0)

\* A call that is not under way has the shape of a call.
LEMMA OutsideFits == \A a \in Outsides : CallFits(Outside(a))
BY LimitsPositive DEF Outsides, Outside, CallFits, Call

LEMMA InitInv == Init => IInv
<1> SUFFICES ASSUME Init PROVE IInv
  OBVIOUS
<1>1. TypeOK
  BY OutsideFits, LimitsPositive, BoundsNat
     DEF Init, TypeOK, Row, CallFits, Outsides
<1>2. TriesFit
  BY DEF Init, TriesFit, Outside, Outsides
<1>3. SlotsReturned
  BY DEF Init, SlotsReturned
<1>4. RoomKept
  BY <1>1, LimitsTyped, FS_EmptySet DEF Init, RoomKept, Live
<1>5. LimitsKept
  <2>1. \A k \in Schools, n \in 1 .. SchoolLimit : Limited(k, n) = {}
    BY DEF Init, Limited, Live, Keys
  <2> QED BY <2>1, FS_EmptySet, LimitsPositive DEF LimitsKept
<1>6. HealthFits
  BY LimitsPositive DEF Init, HealthFits
<1>7. ReportsFit
  BY DEF Init, ReportsFit, Outside
<1> QED BY <1>1, <1>2, <1>3, <1>4, <1>5, <1>6, <1>7 DEF IInv

-----------------------------------------------------------------------------
\* What a call holds, by the place it has reached.
LEMMA HeldIs ==
  ASSUME NEW p \in Calls
  PROVE  /\ call[p].at \notin {"channel", "platform", "sent"} => Held(p) = {}
         /\ call[p].at = "channel" => Held(p) = {School[p]}
         /\ call[p].at = "platform" => Held(p) = {School[p], Target(p)}
         /\ call[p].at = "sent" => Held(p) = {School[p], Target(p), Platform}
         /\ call'[p].at \notin {"channel", "platform", "sent"} => Held(p)' = {}
         /\ call'[p].at = "channel" => Held(p)' = {School[p]}
         /\ call'[p].at = "platform" => Held(p)' = {School[p], Target(p)'}
         /\ call'[p].at = "sent" => Held(p)' = {School[p], Target(p)', Platform}
BY DEF Held

\* A step of call p leaves the other calls as they are.
LEMMA Others ==
  ASSUME call \in [Calls -> Call], NEW p \in Calls, NEW x, call' = [call EXCEPT ![p] = x]
  PROVE  /\ call'[p] = x
         /\ \A q \in Calls \ {p} : /\ call'[q] = call[q]
                                   /\ Held(q)' = Held(q) /\ Token(q)' = Token(q)
                                   /\ Target(q)' = Target(q)
<1>1. call'[p] = x /\ \A q \in Calls \ {p} : call'[q] = call[q]
  OBVIOUS
<1> QED BY <1>1 DEF Held, Token, Target

\* A call that gets the shape of a call keeps the table of calls typed.
LEMMA CallsTyped ==
  ASSUME TypeOK, TriesFit, NEW p \in Calls, NEW x, CallFits(x), call' = [call EXCEPT ![p] = x]
  PROVE  call' \in [Calls -> Call] /\ TriesFit'
BY DEF TypeOK, TriesFit, CallFits

\* A call under way that goes on at another place.
LEMMA GoFits ==
  ASSUME TypeOK, TriesFit, NEW p \in Calls, call[p].at \notin Outsides,
         NEW a \in {"gate", "sent", "report", "insert"} \cup Waits
  PROVE  CallFits([call[p] EXCEPT !.at = a])
BY DEF TypeOK, TriesFit, CallFits, Call, Waits, Outsides

\* A set that maps one to one into another has no more elements.
LEMMA Injects ==
  ASSUME NEW S, NEW T, IsFiniteSet(T), NEW f \in [S -> T],
         \A x, y \in S : f[x] = f[y] => x = y
  PROVE  IsFiniteSet(S) /\ Cardinality(S) <= Cardinality(T)
<1>1. f \in Injection(S, T)
  BY DEF Injection, IsInjective
<1> QED BY <1>1, FS_Injection

\* One more element makes a set larger by one at most.
LEMMA AddsOne ==
  ASSUME NEW S, NEW e, IsFiniteSet(S)
  PROVE  /\ IsFiniteSet(S \cup {e}) /\ Cardinality(S) \in Nat
         /\ Cardinality(S \cup {e}) \in Nat /\ Cardinality(S \cup {e}) <= Cardinality(S) + 1
<1>1. /\ IsFiniteSet(S \cup {e})
      /\ Cardinality(S \cup {e}) = IF e \in S THEN Cardinality(S) ELSE Cardinality(S) + 1
  BY FS_AddElement
<1>2. Cardinality(S) \in Nat /\ Cardinality(S \cup {e}) \in Nat
  BY <1>1, FS_CardinalityType
<1> QED BY <1>1, <1>2

-----------------------------------------------------------------------------
\* Health: a step that writes no health row and reports only failures of channels
\* that have answered badly.
LEMMA HealthSame ==
  ASSUME IInv, NEW p \in Calls, NEW x, call' = [call EXCEPT ![p] = x],
         UNCHANGED <<health, streak>>, blamed \subseteq blamed',
         x.at \in {"report", "insert"} /\ ~x.good => ChannelOf(x.try) \in blamed'
  PROVE  HealthFits' /\ ReportsFit'
<1>1. call \in [Calls -> Call]
  BY DEF IInv, TypeOK
<1>2. HealthFits'
  BY DEF IInv, HealthFits
<1>3. Target(p)' = ChannelOf(x.try)
  BY <1>1, Others DEF Target
<1>4. ReportsFit'
  BY <1>1, <1>3, Others DEF IInv, ReportsFit
<1> QED BY <1>2, <1>4

\* Slots: no set gets more live entries than its limit if only a claim that has
\* found room adds one.
LEMMA RoomStep ==
  ASSUME TypeOK, TypeOK', RoomKept, NEW p \in Calls,
         \A k \in Keys : \/ Live(k)' \subseteq Live(k)
                         \/ Room(p, k) /\ Live(k)' \subseteq Live(k) \cup {Token(p)}
  PROVE  RoomKept'
<1> SUFFICES ASSUME NEW k \in Keys PROVE Cardinality(Live(k)') <= MaxOf(k)
  BY DEF RoomKept, MaxOf
<1>1. IsFiniteSet(Live(k)) /\ Cardinality(Live(k)) \in Nat /\ Cardinality(Live(k)) <= MaxOf(k)
  BY SlotsFinite, FS_CardinalityType DEF RoomKept
<1>2. MaxOf(k) \in Nat
  BY LimitsTyped
<1>3. CASE Live(k)' \subseteq Live(k)
  <2>1. IsFiniteSet(Live(k)') /\ Cardinality(Live(k)') <= Cardinality(Live(k))
    BY <1>1, <1>3, FS_Subset
  <2>2. Cardinality(Live(k)') \in Nat
    BY <2>1, FS_CardinalityType
  <2> QED BY <1>1, <1>2, <2>1, <2>2
<1>4. CASE Room(p, k) /\ Live(k)' \subseteq Live(k) \cup {Token(p)}
  <2>1. Cardinality(Live(k)) < LimitFor(p, k) /\ LimitFor(p, k) \in Nat /\ LimitFor(p, k) <= MaxOf(k)
    BY <1>4, LimitsTyped DEF Room, Live
  <2>2. /\ IsFiniteSet(Live(k) \cup {Token(p)})
        /\ Cardinality(Live(k) \cup {Token(p)}) <= Cardinality(Live(k)) + 1
        /\ Cardinality(Live(k) \cup {Token(p)}) \in Nat
    BY <1>1, AddsOne
  <2>3. IsFiniteSet(Live(k)') /\ Cardinality(Live(k)') <= Cardinality(Live(k) \cup {Token(p)})
    BY <1>4, <2>2, FS_Subset
  <2>4. Cardinality(Live(k)') \in Nat
    BY <2>3, FS_CardinalityType
  <2> QED BY <1>1, <1>2, <2>1, <2>2, <2>3, <2>4
<1> QED BY <1>3, <1>4

\* Fewer calls hold slots: what a school's limit says of them still holds.
LEMMA FewerLimited ==
  ASSUME LimitsKept,
         \A k \in Schools, n \in 1 .. SchoolLimit : Limited(k, n)' \subseteq Limited(k, n)
  PROVE  LimitsKept'
<1> SUFFICES ASSUME NEW k \in Schools, NEW n \in 1 .. SchoolLimit
             PROVE  Cardinality(Limited(k, n)') <= n
  BY DEF LimitsKept
<1>1. IsFiniteSet(Limited(k, n)) /\ Cardinality(Limited(k, n)) \in Nat
      /\ Cardinality(Limited(k, n)) <= n
  BY CallsFinite, FS_Subset, FS_CardinalityType DEF Limited, LimitsKept
<1>2. IsFiniteSet(Limited(k, n)') /\ Cardinality(Limited(k, n)') <= Cardinality(Limited(k, n))
  BY <1>1, FS_Subset
<1>3. Cardinality(Limited(k, n)') \in Nat
  BY <1>2, FS_CardinalityType
<1> QED BY <1>1, <1>2, <1>3, LimitsPositive

\* A step after which call p holds nothing, and no slot of p is left that
\* somebody should give back.
LEMMA HoldsNothing ==
  ASSUME IInv, NEW p \in Calls, NEW x, call' = [call EXCEPT ![p] = x],
         x.at \notin {"channel", "platform", "sent"},
         \A k \in Keys : Live(k)' \subseteq Live(k) \cup {Token(p)},
         \A k \in Keys : \A t \in slots'[k] \ lost'[k] : t \in slots[k] \ lost[k] /\ t[1] # p
  PROVE  SlotsReturned' /\ LimitsKept'
<1>1. call \in [Calls -> Call] /\ Held(p)' = {}
  BY HeldIs, Others DEF IInv, TypeOK
<1>2. SlotsReturned'
  <2> SUFFICES ASSUME NEW k \in Keys, NEW t \in slots'[k] \ lost'[k]
               PROVE  k \in Held(t[1])' /\ t = Token(t[1])'
    BY DEF SlotsReturned
  <2>1. t \in slots[k] \ lost[k] /\ t[1] # p /\ t[1] \in Calls
    BY DEF IInv, TypeOK, Tokens
  <2>2. k \in Held(t[1]) /\ t = Token(t[1])
    BY <2>1 DEF IInv, SlotsReturned
  <2>3. \A q \in Calls \ {p} : Held(q)' = Held(q) /\ Token(q)' = Token(q)
    BY <1>1, Others
  <2> QED BY <2>1, <2>2, <2>3
<1>3. LimitsKept'
  <2>1. SUFFICES ASSUME NEW k \in Schools, NEW n \in 1 .. SchoolLimit, NEW q \in Limited(k, n)'
               PROVE  q \in Limited(k, n)
    BY FewerLimited DEF IInv
  <2>2. q \in Calls /\ k \in Held(q)' /\ Token(q)' \in Live(k)' /\ call'[q].limit <= n
    BY DEF Limited
  <2>3. q # p
    BY <1>1, <2>2
  <2>4. k \in Held(q) /\ Token(q) \in Live(k)' /\ call[q].limit <= n
    BY <1>1, <2>2, <2>3, Others
  <2>5. Token(q) # Token(p)
    BY <2>3 DEF Token
  <2>6. Token(q) \in Live(k)
    BY <2>4, <2>5 DEF Keys
  <2> QED BY <2>2, <2>4, <2>6 DEF Limited
<1> QED BY <1>2, <1>3

-----------------------------------------------------------------------------
\* A call that holds nothing moves on to a place where it holds nothing, and
\* writes neither slots nor health rows.
LEMMA QuietStep ==
  ASSUME IInv, NEW p \in Calls, NEW x, call' = [call EXCEPT ![p] = x],
         CallFits(x), Held(p) = {}, x.at \notin {"channel", "platform", "sent"},
         x.at \in {"report", "insert"} /\ ~x.good => ChannelOf(x.try) \in blamed,
         UNCHANGED <<redis, channel>>,
         rate' \in [Schools -> 0 .. Rate], faults' \in 0 .. MaxFaults
  PROVE  IInv'
<1>1. TypeOK' /\ TriesFit'
  BY CallsTyped DEF IInv, TypeOK, redis, channel
<1>2. \A k \in Keys : Live(k)' = Live(k)
  BY DEF redis, Live
<1>3. \A k \in Keys : \A t \in slots'[k] \ lost'[k] : t \in slots[k] \ lost[k] /\ t[1] # p
  BY DEF redis, IInv, SlotsReturned
<1>4. SlotsReturned' /\ LimitsKept'
  BY <1>2, <1>3, HoldsNothing
<1>5. RoomKept'
  BY <1>1, <1>2, RoomStep DEF IInv
<1>6. HealthFits' /\ ReportsFit'
  BY HealthSame DEF channel
<1> QED BY <1>1, <1>4, <1>5, <1>6 DEF IInv

\* The next try, or the end.
LEMMA TryMoves ==
  ASSUME TypeOK, NEW p \in Calls, NEW skip \in SUBSET Channels, Try(p, skip)
  PROVE  \E x : /\ call' = [call EXCEPT ![p] = x] /\ CallFits(x)
                /\ x.at \in {"gate", "failed"}
<1> DEFINE left == {n \in Tries : n > call[p].try /\ ChannelOf(n) \notin skip}
<1>1. CASE call' = [call EXCEPT ![p] = Outside("failed")]
  <2>1. CallFits(Outside("failed")) /\ Outside("failed").at = "failed"
    BY OutsideFits DEF Outsides, Outside
  <2> QED BY <1>1, <2>1
<1>2. CASE \E n \in left : call' = [call EXCEPT ![p] = [Outside("gate") EXCEPT !.skip = skip, !.try = n]]
  <2>1. PICK n \in Tries : call' = [call EXCEPT ![p] = [Outside("gate") EXCEPT !.skip = skip, !.try = n]]
    BY <1>2
  <2> DEFINE x == [Outside("gate") EXCEPT !.skip = skip, !.try = n]
  <2>2. n # 0 /\ 0 \in 0 .. SchoolLimit
    BY TriesNat, LimitsPositive
  <2>3. Outside("gate") \in Call /\ Outside("gate").at = "gate"
    BY <2>2 DEF Call, Outside
  <2>4. x \in Call /\ x.at = "gate" /\ x.try # 0
    BY <2>2, <2>3 DEF Call
  <2> HIDE DEF x
  <2>5. CallFits(x)
    BY <2>4 DEF CallFits
  <2> QED BY <2>1, <2>4, <2>5 DEF x
<1> QED BY <1>1, <1>2 DEF Try

\* What follows a report.
LEMMA AfterMoves ==
  ASSUME TypeOK, NEW p \in Calls, AfterReport(p)
  PROVE  \E x : /\ call' = [call EXCEPT ![p] = x] /\ CallFits(x)
                /\ x.at \in {"gate", "failed", "done"}
<1>1. CASE call[p].good
  <2>1. CallFits(Outside("done")) /\ Outside("done").at = "done"
    BY OutsideFits DEF Outsides, Outside
  <2> QED BY <1>1, <2>1 DEF AfterReport
<1>2. CASE ~call[p].good
  <2>1. call[p].skip \in SUBSET Channels
    BY DEF TypeOK, Call
  <2>2. Try(p, call[p].skip)
    BY <1>2 DEF AfterReport, NextTry
  <2> QED BY <2>1, <2>2, TryMoves
<1> QED BY <1>1, <1>2

-----------------------------------------------------------------------------
\* The actions, one by one.

LEMMA ResolveInv ==
  ASSUME IInv, NEW p \in Calls, NEW over \in SUBSET Channels, Resolve(p, over)
  PROVE  IInv'
<1> DEFINE bad == {c \in Channels : ~Eligible(c, over)}
           skip == IF \A i \in DOMAIN Route : Route[i] \in bad THEN {} ELSE bad
<1>1. skip \in SUBSET Channels /\ Try(p, skip)
  BY DEF Resolve
<1> HIDE DEF skip
<1>2. PICK x : call' = [call EXCEPT ![p] = x] /\ CallFits(x) /\ x.at \in {"gate", "failed"}
  BY <1>1, TryMoves DEF IInv
<1>3. Held(p) = {} /\ UNCHANGED <<redis, channel, rate, faults>>
  BY HeldIs DEF Resolve
<1> QED BY <1>2, <1>3, QuietStep DEF IInv, TypeOK

LEMMA UnpaidInv == ASSUME IInv, NEW p \in Calls, Unpaid(p) PROVE IInv'
<1>1. Held(p) = {} /\ UNCHANGED <<redis, channel, rate, faults>>
  BY HeldIs DEF Unpaid
<1>2. CallFits(Outside("failed")) /\ Outside("failed").at = "failed"
  BY OutsideFits DEF Outsides, Outside
<1>3. call' = [call EXCEPT ![p] = Outside("failed")]
  BY DEF Unpaid
<1> QED BY <1>1, <1>2, <1>3, QuietStep DEF IInv, TypeOK

LEMMA CoolingDownInv == ASSUME IInv, NEW p \in Calls, CoolingDown(p) PROVE IInv'
<1> DEFINE x == [call[p] EXCEPT !.at = "report", !.good = FALSE]
<1>1. Held(p) = {} /\ UNCHANGED <<redis, channel, rate, faults>>
  BY HeldIs DEF CoolingDown
<1>2. call[p] \in Call /\ call[p].at = "gate" /\ call[p].try # 0
  BY DEF CoolingDown, IInv, TypeOK, TriesFit, Outsides
<1>3. CallFits(x) /\ x.at = "report" /\ x.try = call[p].try
  BY <1>2 DEF CallFits, Call
<1>4. call' = [call EXCEPT ![p] = x]
  BY DEF CoolingDown, IInv, TypeOK
<1>5. ChannelOf(x.try) \in blamed
  BY <1>3 DEF CoolingDown, Cooled, Target
<1> HIDE DEF x
<1> QED BY <1>1, <1>3, <1>4, <1>5, QuietStep DEF IInv, TypeOK

LEMMA EnterInv ==
  ASSUME IInv, NEW p \in Calls, NEW limit \in LimitsOfSchool, Enter(p, limit)
  PROVE  IInv'
<1> DEFINE x == [call[p] EXCEPT !.at = "rate", !.limit = limit]
<1>1. Held(p) = {} /\ UNCHANGED <<redis, channel, rate, faults>>
  BY HeldIs DEF Enter
<1>2. call[p] \in Call /\ call[p].try # 0 /\ limit \in 0 .. SchoolLimit
  BY LimitsPositive DEF Enter, IInv, TypeOK, TriesFit, Outsides, LimitsOfSchool
<1>3. CallFits(x) /\ x.at = "rate"
  BY <1>2 DEF CallFits, Call, Waits
<1>4. call' = [call EXCEPT ![p] = x]
  BY DEF Enter, IInv, TypeOK
<1> HIDE DEF x
<1> QED BY <1>1, <1>3, <1>4, QuietStep DEF IInv, TypeOK

LEMMA PassRateInv == ASSUME IInv, NEW p \in Calls, PassRate(p) PROVE IInv'
<1> DEFINE x == [call[p] EXCEPT !.at = "school"]
<1>1. Held(p) = {} /\ UNCHANGED <<redis, channel, faults>>
  BY HeldIs DEF PassRate
<1>2. CallFits(x) /\ x.at = "school"
  <2>1. call[p] \in Call /\ call[p].try # 0
    BY DEF PassRate, IInv, TypeOK, TriesFit, Outsides
  <2> QED BY <2>1 DEF CallFits, Call, Waits
<1>3. call' = [call EXCEPT ![p] = x]
  BY DEF PassRate, Go, IInv, TypeOK
<1>4. rate' \in [Schools -> 0 .. Rate]
  BY SchoolOfCall, LimitsPositive DEF PassRate, IInv, TypeOK
<1> HIDE DEF x
<1> QED BY <1>1, <1>2, <1>3, <1>4, QuietStep DEF IInv, TypeOK

LEMMA LoseReportInv == ASSUME IInv, NEW p \in Calls, LoseReport(p) PROVE IInv'
<1>1. Held(p) = {} /\ UNCHANGED <<redis, channel, rate>>
  BY HeldIs DEF LoseReport
<1>2. PICK x : call' = [call EXCEPT ![p] = x] /\ CallFits(x) /\ x.at \in {"gate", "failed", "done"}
  BY AfterMoves DEF LoseReport, IInv
<1>3. faults' \in 0 .. MaxFaults
  BY BoundsNat DEF LoseReport, IInv, TypeOK
<1> QED BY <1>1, <1>2, <1>3, QuietStep DEF IInv, TypeOK

\* What a claim leaves of a slot set.
LEMMA ClaimIs ==
  ASSUME TypeOK, NEW p \in Calls, NEW k \in Keys, NEW a, Claim(p, k, a)
  PROVE  /\ slots'[k] = (slots[k] \ old[k]) \cup {Token(p)} /\ old'[k] = {}
         /\ lost'[k] = lost[k] \ old[k]
         /\ \A j \in Keys \ {k} : slots'[j] = slots[j] /\ old'[j] = old[j] /\ lost'[j] = lost[j]
         /\ Live(k)' = Live(k) \cup {Token(p)} /\ \A j \in Keys \ {k} : Live(j)' = Live(j)
<1>1. /\ slots'[k] = (slots[k] \ old[k]) \cup {Token(p)} /\ old'[k] = {}
      /\ lost'[k] = lost[k] \ old[k]
      /\ \A j \in Keys \ {k} : slots'[j] = slots[j] /\ old'[j] = old[j] /\ lost'[j] = lost[j]
  BY DEF Claim, TypeOK
<1> QED BY <1>1 DEF Live

\* A claim: the set had room, for the limit the call has read.
LEMMA ClaimInv ==
  ASSUME IInv, NEW p \in Calls, NEW k \in Keys, NEW a \in {"channel", "platform", "sent"},
         call[p].at \in {"school", "channel", "platform"}, Claim(p, k, a),
         k \notin Held(p), Held(p)' = Held(p) \cup {k}
  PROVE  IInv'
<1> DEFINE x == [call[p] EXCEPT !.at = a]
<1>1. TypeOK /\ TriesFit /\ call[p].at \notin Outsides
  BY DEF IInv, Outsides
<1>2. call' = [call EXCEPT ![p] = x] /\ x.at = a /\ x.try = call[p].try /\ x.limit = call[p].limit
  BY <1>1 DEF Claim, Go, TypeOK, Call
<1>3. CallFits(x)
  BY <1>1, GoFits DEF Waits
<1>4. Token(p) \in Tokens
  BY <1>1, TargetTyped
<1> HIDE DEF x
<1>5. UNCHANGED <<rate, channel, faults>>
  BY DEF Claim
<1>6. call' \in [Calls -> Call] /\ TriesFit'
  BY <1>1, <1>2, <1>3, CallsTyped
<1>7. /\ slots' \in [Keys -> SUBSET Tokens] /\ old' \in [Keys -> SUBSET Tokens]
      /\ lost' \in [Keys -> SUBSET Tokens]
  BY <1>1, <1>4 DEF Claim, TypeOK
<1>8. \A j \in Keys : old'[j] \subseteq slots'[j] /\ lost'[j] \subseteq slots'[j]
  BY <1>1, ClaimIs DEF TypeOK
<1>9. TypeOK'
  BY <1>1, <1>5, <1>6, <1>7, <1>8 DEF TypeOK, channel
<1>10. \A q \in Calls : /\ Token(q)' = Token(q) /\ call'[q].limit = call[q].limit
                        /\ Held(q) \subseteq Held(q)' /\ (q # p => Held(q)' = Held(q))
  <2>1. \A q \in Calls \ {p} : call'[q] = call[q] /\ Held(q)' = Held(q) /\ Token(q)' = Token(q)
    BY <1>1, <1>2, Others DEF TypeOK
  <2>2. call'[p] = x /\ Token(p)' = Token(p)
    BY <1>1, <1>2 DEF TypeOK, Token
  <2> QED BY <1>2, <2>1, <2>2
<1>11. SlotsReturned'
  <2> SUFFICES ASSUME NEW j \in Keys, NEW t \in slots'[j] \ lost'[j]
               PROVE  j \in Held(t[1])' /\ t = Token(t[1])'
    BY DEF SlotsReturned
  <2>1. t \in slots[j] \ lost[j] \/ (j = k /\ t = Token(p))
    BY <1>1, ClaimIs
  <2>2. t[1] \in Calls
    BY <1>7 DEF Tokens
  <2>3. CASE j = k /\ t = Token(p)
    BY <1>10, <2>3 DEF Token
  <2>4. CASE t \in slots[j] \ lost[j]
    BY <1>10, <2>2, <2>4 DEF IInv, SlotsReturned
  <2> QED BY <2>1, <2>3, <2>4
<1>12. Room(p, k)
  BY DEF Claim
<1>13. RoomKept'
  <2>1. \A j \in Keys : \/ Live(j)' \subseteq Live(j)
                        \/ Room(p, j) /\ Live(j)' \subseteq Live(j) \cup {Token(p)}
    BY <1>1, <1>12, ClaimIs
  <2> QED BY <1>9, <2>1, RoomStep DEF IInv
<1>14. LimitsKept'
  <2> SUFFICES ASSUME NEW s \in Schools, NEW n \in 1 .. SchoolLimit
               PROVE  Cardinality(Limited(s, n)') <= n
    BY DEF LimitsKept
  <2>1. s \in Keys /\ n \in Nat
    BY DEF Keys
  <2>2. CASE s = k /\ call[p].limit <= n
    <3>0. LimitFor(p, k) = call[p].limit
      BY <2>2, KeysDistinct DEF LimitFor
    <3>1. Cardinality(Live(k)) < call[p].limit
      BY <1>12, <3>0 DEF Room, Live
    <3>2. call[p].limit \in Nat
      BY <1>1 DEF TypeOK, Call
    <3>3. IsFiniteSet(Live(k)') /\ Cardinality(Live(k)) \in Nat
          /\ Cardinality(Live(k)') \in Nat /\ Cardinality(Live(k)') <= Cardinality(Live(k)) + 1
      <4>1. IsFiniteSet(Live(k)) /\ Live(k)' = Live(k) \cup {Token(p)}
        BY <1>1, SlotsFinite, ClaimIs
      <4>2. /\ IsFiniteSet(Live(k) \cup {Token(p)}) /\ Cardinality(Live(k)) \in Nat
            /\ Cardinality(Live(k) \cup {Token(p)}) \in Nat
            /\ Cardinality(Live(k) \cup {Token(p)}) <= Cardinality(Live(k)) + 1
        BY <4>1, AddsOne
      <4> QED BY <4>1, <4>2
    <3> DEFINE S == Limited(s, n)'
               f == [q \in S |-> Token(q)]
    <3>4. \A q \in S : q \in Calls /\ Token(q) \in Live(k)'
      BY <1>10, <2>2 DEF Limited
    <3>5. f \in [S -> Live(k)']
      BY <3>4
    <3>6. \A q, r \in S : f[q] = f[r] => q = r
      BY DEF Token
    <3> HIDE DEF f, S
    <3>7. IsFiniteSet(S) /\ Cardinality(S) <= Cardinality(Live(k)')
      BY <3>3, <3>5, <3>6, Injects
    <3>8. Cardinality(S) \in Nat
      BY <3>7, FS_CardinalityType
    <3>9. Cardinality(S) <= n
      BY <2>1, <2>2, <3>1, <3>2, <3>3, <3>7, <3>8
    <3> QED BY <3>9 DEF S
  <2>3. CASE ~(s = k /\ call[p].limit <= n)
    <3>1. Limited(s, n)' \subseteq Limited(s, n)
      <4> SUFFICES ASSUME NEW q \in Limited(s, n)' PROVE q \in Limited(s, n)
        OBVIOUS
      <4>1. q \in Calls /\ s \in Held(q)' /\ Token(q) \in Live(s)' /\ call[q].limit <= n
        BY <1>10 DEF Limited
      <4>2. s \in Held(q) /\ (q = p => s # k)
        BY <1>10, <2>3, <4>1
      <4>3. Token(q) \in Live(s)
        <5>1. CASE s # k
          BY <1>1, <2>1, <4>1, <5>1, ClaimIs
        <5>2. CASE s = k /\ q # p
          <6>1. Token(q) # Token(p)
            BY <5>2 DEF Token
          <6> QED BY <1>1, <4>1, <5>2, <6>1, ClaimIs
        <5> QED BY <4>2, <5>1, <5>2
      <4> QED BY <4>1, <4>2, <4>3 DEF Limited
    <3>2. IsFiniteSet(Limited(s, n)) /\ Cardinality(Limited(s, n)) <= n
      BY CallsFinite, FS_Subset DEF Limited, IInv, LimitsKept
    <3>3. /\ Cardinality(Limited(s, n)') <= Cardinality(Limited(s, n))
          /\ IsFiniteSet(Limited(s, n)')
      BY <3>1, <3>2, FS_Subset
    <3>4. Cardinality(Limited(s, n)) \in Nat /\ Cardinality(Limited(s, n)') \in Nat
      BY <3>2, <3>3, FS_CardinalityType
    <3> QED BY <2>1, <3>2, <3>3, <3>4
  <2> QED BY <2>2, <2>3
<1>15. HealthFits' /\ ReportsFit'
  BY <1>2, <1>5, HealthSame DEF channel
<1> QED BY <1>6, <1>9, <1>11, <1>13, <1>14, <1>15 DEF IInv

\* The three claims: each adds one set to those the call holds.
LEMMA ClaimsInv ==
  ASSUME IInv, NEW p \in Calls, ClaimSchool(p) \/ ClaimChannel(p) \/ ClaimPlatform(p)
  PROVE  IInv'
<1>1. TypeOK /\ TriesFit /\ School[p] \in Schools
  BY SchoolOfCall DEF IInv
<1>2. ASSUME NEW k, NEW a, Claim(p, k, a)
      PROVE  call' = [call EXCEPT ![p].at = a] /\ call'[p].at = a /\ Target(p)' = Target(p)
  BY <1>1, <1>2 DEF Claim, Go, TypeOK, Call, Target
<1>3. CASE ClaimSchool(p)
  <2>1. School[p] \in Keys /\ Held(p) = {} /\ Held(p)' = {School[p]}
    BY <1>1, <1>2, <1>3, HeldIs DEF ClaimSchool, Keys
  <2> QED BY <1>3, <2>1, ClaimInv DEF ClaimSchool
<1>4. CASE ClaimChannel(p)
  <2>1. Target(p) \in Channels
    BY <1>1, <1>4, TargetTyped DEF ClaimChannel, Outsides
  <2>2. Held(p) = {School[p]} /\ Held(p)' = {School[p], Target(p)}
    BY <1>2, <1>4, HeldIs DEF ClaimChannel
  <2>3. Target(p) \in Keys /\ Target(p) \notin Held(p)
    BY <1>1, <2>1, <2>2, KeysDistinct DEF Keys
  <2> QED BY <1>4, <2>2, <2>3, ClaimInv DEF ClaimChannel
<1>5. CASE ClaimPlatform(p)
  <2>1. Target(p) \in Channels
    BY <1>1, <1>5, TargetTyped DEF ClaimPlatform, Outsides
  <2>2. Held(p) = {School[p], Target(p)} /\ Held(p)' = {School[p], Target(p), Platform}
    BY <1>2, <1>5, HeldIs DEF ClaimPlatform
  <2>3. Platform \in Keys /\ Platform \notin Held(p)
    BY <1>1, <2>1, <2>2, KeysDistinct DEF Keys
  <2> QED BY <1>5, <2>2, <2>3, ClaimInv DEF ClaimPlatform
<1> QED BY <1>3, <1>4, <1>5

\* A try that ends leaves slots only where their removal has failed, and adds one
\* only where there is room.
LEMMA ReleaseFrees ==
  ASSUME IInv, NEW p \in Calls, NEW kept \in SUBSET Held(p), NEW added \in SUBSET Claimed(p),
         Release(p, kept, added)
  PROVE  /\ \A k \in Keys : /\ slots'[k] \subseteq Tokens
                            /\ old'[k] \subseteq slots'[k] /\ lost'[k] \subseteq slots'[k]
         /\ \A k \in Keys : \/ Live(k)' \subseteq Live(k)
                            \/ k \in added /\ Live(k)' \subseteq Live(k) \cup {Token(p)}
         /\ \A k \in Keys : \A t \in slots'[k] \ lost'[k] : t \in slots[k] \ lost[k] /\ t[1] # p
<1>1. TypeOK /\ TriesFit /\ SlotsReturned
  BY DEF IInv
<1>2. /\ Held(p) \cap Claimed(p) = {}
      /\ added # {} => call[p].at \notin Outsides
  BY <1>1, HeldTyped
<1>3. added # {} => Token(p) \in Tokens
  BY <1>1, <1>2, TargetTyped
<1> SUFFICES ASSUME NEW k \in Keys
             PROVE  /\ slots'[k] \subseteq Tokens
                    /\ old'[k] \subseteq slots'[k] /\ lost'[k] \subseteq slots'[k]
                    /\ \/ Live(k)' \subseteq Live(k)
                       \/ k \in added /\ Live(k)' \subseteq Live(k) \cup {Token(p)}
                    /\ \A t \in slots'[k] \ lost'[k] : t \in slots[k] \ lost[k] /\ t[1] # p
  OBVIOUS
<1>4. /\ slots[k] \subseteq Tokens /\ old[k] \subseteq slots[k] /\ lost[k] \subseteq slots[k]
      /\ \A t \in slots[k] \ lost[k] : t[1] = p => k \in Held(p) /\ t = Token(p)
      /\ Token(p)[1] = p
  BY <1>1 DEF TypeOK, SlotsReturned, Token
<1>5. CASE k \in Held(p) \ kept
  <2>1. /\ slots'[k] = slots[k] \ {Token(p)} /\ old'[k] = old[k] \ {Token(p)}
        /\ lost'[k] = lost[k] \ {Token(p)}
    BY <1>2, <1>5 DEF Release
  <2>2. /\ slots'[k] \subseteq Tokens
        /\ old'[k] \subseteq slots'[k] /\ lost'[k] \subseteq slots'[k]
    BY <1>4, <1>5, <2>1
  <2>3. \/ Live(k)' \subseteq Live(k)
        \/ k \in added /\ Live(k)' \subseteq Live(k) \cup {Token(p)}
    BY <1>5, <2>1 DEF Live
  <2>4. \A t \in slots'[k] \ lost'[k] : t \in slots[k] \ lost[k] /\ t[1] # p
    BY <1>4, <1>5, <2>1
  <2> QED BY <2>2, <2>3, <2>4
<1>6. CASE k \in added
  <2>1. /\ slots'[k] = (slots[k] \ old[k]) \cup {Token(p)} /\ old'[k] = {}
        /\ lost'[k] = (lost[k] \ old[k]) \cup {Token(p)}
    BY <1>2, <1>6 DEF Release
  <2>2. /\ slots'[k] \subseteq Tokens
        /\ old'[k] \subseteq slots'[k] /\ lost'[k] \subseteq slots'[k]
    BY <1>3, <1>4, <1>6, <2>1
  <2>3. \/ Live(k)' \subseteq Live(k)
        \/ k \in added /\ Live(k)' \subseteq Live(k) \cup {Token(p)}
    BY <1>6, <2>1 DEF Live
  <2>4. \A t \in slots'[k] \ lost'[k] : t \in slots[k] \ lost[k] /\ t[1] # p
    BY <1>4, <1>6, <2>1
  <2> QED BY <2>2, <2>3, <2>4
<1>7. CASE k \in kept
  <2>1. /\ slots'[k] = slots[k] /\ old'[k] = old[k]
        /\ lost'[k] = IF Token(p) \in slots[k] THEN lost[k] \cup {Token(p)} ELSE lost[k]
    BY <1>2, <1>7 DEF Release
  <2>2. /\ slots'[k] \subseteq Tokens
        /\ old'[k] \subseteq slots'[k] /\ lost'[k] \subseteq slots'[k]
    BY <1>3, <1>4, <1>7, <2>1
  <2>3. \/ Live(k)' \subseteq Live(k)
        \/ k \in added /\ Live(k)' \subseteq Live(k) \cup {Token(p)}
    BY <1>7, <2>1 DEF Live
  <2>4. \A t \in slots'[k] \ lost'[k] : t \in slots[k] \ lost[k] /\ t[1] # p
    BY <1>4, <1>7, <2>1
  <2> QED BY <2>2, <2>3, <2>4
<1>8. CASE k \notin Held(p) \cup added
  <2>1. slots'[k] = slots[k] /\ old'[k] = old[k] /\ lost'[k] = lost[k]
    BY <1>2, <1>8 DEF Release
  <2>2. /\ slots'[k] \subseteq Tokens
        /\ old'[k] \subseteq slots'[k] /\ lost'[k] \subseteq slots'[k]
    BY <1>3, <1>4, <1>8, <2>1
  <2>3. \/ Live(k)' \subseteq Live(k)
        \/ k \in added /\ Live(k)' \subseteq Live(k) \cup {Token(p)}
    BY <1>8, <2>1 DEF Live
  <2>4. \A t \in slots'[k] \ lost'[k] : t \in slots[k] \ lost[k] /\ t[1] # p
    BY <1>4, <1>8, <2>1
  <2> QED BY <2>2, <2>3, <2>4
<1> QED BY <1>5, <1>6, <1>7, <1>8

LEMMA ReleaseTyped ==
  ASSUME IInv, NEW p \in Calls, NEW kept \in SUBSET Held(p), NEW added \in SUBSET Claimed(p),
         Release(p, kept, added)
  PROVE  /\ slots' \in [Keys -> SUBSET Tokens] /\ old' \in [Keys -> SUBSET Tokens]
         /\ lost' \in [Keys -> SUBSET Tokens]
         /\ \A k \in Keys : old'[k] \subseteq slots'[k] /\ lost'[k] \subseteq slots'[k]
<1>1. \A k \in Keys : /\ slots'[k] \subseteq Tokens
                      /\ old'[k] \subseteq slots'[k] /\ lost'[k] \subseteq slots'[k]
  BY ReleaseFrees
<1>2. /\ slots' = [k \in Keys |-> slots'[k]] /\ old' = [k \in Keys |-> old'[k]]
      /\ lost' = [k \in Keys |-> lost'[k]]
  BY DEF Release
<1> QED BY <1>1, <1>2

\* A try ends with a release of its slots.
LEMMA ReleaseInv ==
  ASSUME IInv, NEW p \in Calls, NEW x, call' = [call EXCEPT ![p] = x],
         CallFits(x), x.at \notin {"channel", "platform", "sent"},
         x.at \in {"report", "insert"} /\ ~x.good => ChannelOf(x.try) \in blamed',
         NEW kept \in SUBSET Held(p), NEW added \in SUBSET Claimed(p),
         \A k \in added : Room(p, k), Release(p, kept, added),
         UNCHANGED <<rate, health, streak>>, faults' \in 0 .. MaxFaults,
         blamed \subseteq blamed', blamed' \subseteq Channels
  PROVE  IInv'
<1>1. call' \in [Calls -> Call] /\ TriesFit'
  BY CallsTyped DEF IInv
<1>2. TypeOK'
  BY <1>1, ReleaseTyped DEF IInv, TypeOK
<1>3. \A k \in Keys : \/ Live(k)' \subseteq Live(k)
                      \/ k \in added /\ Live(k)' \subseteq Live(k) \cup {Token(p)}
  BY ReleaseFrees
<1>4. \A k \in Keys : \A t \in slots'[k] \ lost'[k] : t \in slots[k] \ lost[k] /\ t[1] # p
  BY ReleaseFrees
<1>5. SlotsReturned' /\ LimitsKept'
  BY <1>3, <1>4, HoldsNothing
<1>6. RoomKept'
  BY <1>2, <1>3, RoomStep DEF IInv
<1>7. HealthFits' /\ ReportsFit'
  BY HealthSame
<1> QED BY <1>1, <1>2, <1>5, <1>6, <1>7 DEF IInv

LEMMA AnswerInv ==
  ASSUME IInv, NEW p \in Calls, NEW good \in BOOLEAN, NEW kept \in SUBSET Held(p),
         Answer(p, good, kept)
  PROVE  IInv'
<1> DEFINE x == [call[p] EXCEPT !.at = "report", !.good = good, !.limit = 0]
<1>1. call' = [call EXCEPT ![p] = x]
  BY DEF Answer, IInv, TypeOK
<1>2. call[p] \in Call /\ call[p].try # 0 /\ 0 \in 0 .. SchoolLimit
  BY LimitsPositive DEF Answer, IInv, TypeOK, TriesFit, Outsides
<1>3. x \in Call /\ x.at = "report" /\ x.good = good /\ x.try = call[p].try
  BY <1>2 DEF Call
<1>4. Target(p) \in Channels /\ Target(p) = ChannelOf(call[p].try)
  BY TargetTyped DEF Answer, IInv, Outsides, Target
<1> HIDE DEF x
<1>5. CallFits(x)
  BY <1>2, <1>3 DEF CallFits
<1>6. /\ blamed \subseteq blamed' /\ blamed' \subseteq Channels
      /\ ~x.good => ChannelOf(x.try) \in blamed'
  BY <1>3, <1>4 DEF Answer, IInv, TypeOK
<1>7. faults' \in 0 .. MaxFaults
  BY BoundsNat DEF Answer, Faulty, IInv, TypeOK
<1>8. Release(p, kept, {}) /\ UNCHANGED <<rate, health, streak>>
  BY DEF Answer
<1>9. {} \in SUBSET Claimed(p) /\ \A k \in {} : Room(p, k)
  OBVIOUS
<1>10. x.at \notin {"channel", "platform", "sent"}
  BY <1>3
<1> QED BY <1>1, <1>5, <1>6, <1>7, <1>8, <1>9, <1>10, ReleaseInv

LEMMA RefuseInv ==
  ASSUME IInv, NEW p \in Calls, NEW kept \in SUBSET Held(p), NEW added \in SUBSET Claimed(p),
         Refuse(p, kept, added)
  PROVE  IInv'
<1>1. call[p].skip \in SUBSET Channels /\ TypeOK
  BY DEF IInv, TypeOK, Call
<1>2. PICK x : call' = [call EXCEPT ![p] = x] /\ CallFits(x) /\ x.at \in {"gate", "failed"}
  BY <1>1, TryMoves DEF Refuse, NextTry
<1>3. faults' \in 0 .. MaxFaults
  BY <1>1, BoundsNat DEF Refuse, TypeOK
<1>4. /\ \A k \in added : Room(p, k)
      /\ Release(p, kept, added) /\ UNCHANGED <<rate, health, streak, blamed>>
  BY DEF Refuse, channel
<1>5. blamed \subseteq blamed' /\ blamed' \subseteq Channels
  BY <1>1, <1>4 DEF TypeOK
<1> QED BY <1>2, <1>3, <1>4, <1>5, ReleaseInv

-----------------------------------------------------------------------------
\* A report on a health row: the row counts like the history of failures.
LEMMA ReportedFits ==
  ASSUME NEW row \in Row, NEW good \in BOOLEAN
  PROVE  /\ Reported(row, good) \in Row
         /\ Reported(row, good).failures =
              IF good THEN 0 ELSE IF row.failures < Threshold THEN row.failures + 1 ELSE row.failures
         /\ Reported(row, good).status = "open" <=> Reported(row, good).failures = Threshold
BY LimitsPositive DEF Reported, Row

LEMMA CommitInv ==
  ASSUME IInv, NEW p \in Calls, call[p].at \in {"report", "insert"}, Commit(p)
  PROVE  IInv'
<1> DEFINE c == Target(p)
           good == call[p].good
<1>1. TypeOK /\ TriesFit /\ HealthFits /\ ReportsFit
  BY DEF IInv
<1>2. c \in Channels /\ good \in BOOLEAN /\ health[c] \in Row
  BY <1>1, TargetTyped DEF TypeOK, Call, Outsides
<1>3. PICK x : call' = [call EXCEPT ![p] = x] /\ CallFits(x) /\ x.at \in {"gate", "failed", "done"}
  BY <1>1, AfterMoves DEF Commit
<1>4. Held(p) = {} /\ UNCHANGED <<redis, rate, blamed, faults>>
  BY HeldIs DEF Commit
<1>5. /\ health' = [health EXCEPT ![c] = Reported(health[c], good)]
      /\ streak' = [streak EXCEPT ![c] = IF good THEN 0
                                         ELSE IF streak[c] < Threshold THEN streak[c] + 1 ELSE streak[c]]
  BY DEF Commit
<1>6. call' \in [Calls -> Call] /\ TriesFit'
  BY <1>1, <1>3, CallsTyped
<1>7. health' \in [Channels -> Row] /\ streak' \in [Channels -> 0 .. Threshold]
  <2>1. Reported(health[c], good) \in Row /\ streak[c] \in 0 .. Threshold
    BY <1>1, <1>2, ReportedFits DEF TypeOK
  <2> QED BY <1>1, <1>2, <1>5, <2>1, LimitsPositive DEF TypeOK
<1>8. TypeOK'
  BY <1>1, <1>4, <1>6, <1>7 DEF TypeOK, redis
<1>9. \A k \in Keys : Live(k)' = Live(k)
  BY <1>4 DEF redis, Live
<1>10. \A k \in Keys : \A t \in slots'[k] \ lost'[k] : t \in slots[k] \ lost[k] /\ t[1] # p
  BY <1>4 DEF redis, IInv, SlotsReturned
<1>11. SlotsReturned' /\ LimitsKept'
  BY <1>3, <1>9, <1>10, HoldsNothing
<1>12. RoomKept'
  BY <1>8, <1>9, RoomStep DEF IInv
<1>13. HealthFits'
  <2> SUFFICES ASSUME NEW d \in Channels
               PROVE  /\ health'[d].failures = streak'[d]
                      /\ health'[d].status = "open" <=> health'[d].failures = Threshold
                      /\ health'[d].failures > 0 => d \in blamed'
    BY DEF HealthFits
  <2>1. CASE d # c
    BY <1>1, <1>4, <1>5, <2>1 DEF TypeOK, HealthFits
  <2>2. CASE d = c
    <3>1. /\ health'[c] = Reported(health[c], good)
          /\ streak'[c] = IF good THEN 0
                          ELSE IF streak[c] < Threshold THEN streak[c] + 1 ELSE streak[c]
      BY <1>1, <1>2, <1>5 DEF TypeOK
    <3>2. health[c].failures = streak[c]
      BY <1>1, <1>2 DEF HealthFits
    <3>3. ~good => c \in blamed'
      BY <1>1, <1>4 DEF ReportsFit
    <3> HIDE DEF good, c
    <3>4. health'[c].failures = streak'[c]
      BY <1>2, <3>1, <3>2, ReportedFits
    <3>5. health'[c].status = "open" <=> health'[c].failures = Threshold
      BY <1>2, <3>1, ReportedFits
    <3>6. good => health'[c].failures = 0
      BY <3>1, <3>4
    <3> QED BY <2>2, <3>3, <3>4, <3>5, <3>6
  <2> QED BY <2>1, <2>2
<1>14. ReportsFit'
  <2> SUFFICES ASSUME NEW q \in Calls, call'[q].at \in {"report", "insert"}, ~call'[q].good
               PROVE  Target(q)' \in blamed'
    BY DEF ReportsFit
  <2>1. q # p
    BY <1>1, <1>3 DEF TypeOK
  <2>2. call'[q] = call[q] /\ Target(q)' = Target(q)
    BY <1>1, <1>3, <2>1, Others DEF TypeOK
  <2> QED BY <1>1, <1>4, <2>2 DEF ReportsFit
<1> QED BY <1>6, <1>8, <1>11, <1>12, <1>13, <1>14 DEF IInv

LEMMA ReportInv == ASSUME IInv, NEW p \in Calls, Report(p) \/ Insert(p) PROVE IInv'
<1>1. CASE Commit(p) /\ call[p].at \in {"report", "insert"}
  BY <1>1, CommitInv
<1>2. CASE Go(p, "insert") /\ call[p].at = "report" /\ UNCHANGED <<redis, rate, channel, faults>>
  <2> DEFINE x == [call[p] EXCEPT !.at = "insert"]
  <2>1. TypeOK /\ TriesFit /\ ReportsFit /\ Held(p) = {}
    BY <1>2, HeldIs DEF IInv
  <2>2. CallFits(x)
    BY <1>2, <2>1, GoFits DEF Outsides
  <2>3. x.at = "insert" /\ x.try = call[p].try /\ x.good = call[p].good
    BY <2>1 DEF TypeOK, Call
  <2>4. call' = [call EXCEPT ![p] = x]
    BY <1>2, <2>1 DEF Go, TypeOK
  <2>5. ~x.good => ChannelOf(x.try) \in blamed
    BY <1>2, <2>1, <2>3 DEF ReportsFit, Target
  <2> HIDE DEF x
  <2> QED BY <1>2, <2>1, <2>2, <2>3, <2>4, <2>5, QuietStep DEF TypeOK
<1> QED BY <1>1, <1>2 DEF Report, Insert

\* An entry of a slot set runs out: fewer entries are live.
LEMMA AgingInv ==
  ASSUME IInv, NEW k \in Keys, NEW t \in slots[k], old' = [old EXCEPT ![k] = @ \cup {t}],
         UNCHANGED <<call, slots, lost, rate, channel>>, faults' \in 0 .. MaxFaults
  PROVE  IInv'
<1>1. TypeOK /\ t \in Tokens
  BY DEF IInv, TypeOK
<1>2. TypeOK'
  BY <1>1 DEF TypeOK, channel
<1>3. \A j \in Keys : Live(j)' \subseteq Live(j)
  BY <1>1 DEF TypeOK, Live
<1>4. \A p \in Calls : Held(p)' = Held(p) /\ Token(p)' = Token(p) /\ Target(p)' = Target(p)
  BY DEF Held, Token, Target
<1>5. RoomKept'
  BY <1>1, <1>2, <1>3, RoomStep DEF IInv, Tokens
<1>6. LimitsKept'
  <2>1. \A s \in Schools, n \in 1 .. SchoolLimit : Limited(s, n)' \subseteq Limited(s, n)
    BY <1>3, <1>4 DEF Limited, Keys
  <2> QED BY <2>1, FewerLimited DEF IInv
<1>7. SlotsReturned'
  BY <1>1, <1>4 DEF IInv, SlotsReturned, TypeOK, Tokens
<1>8. TriesFit' /\ HealthFits' /\ ReportsFit'
  BY <1>4 DEF IInv, TriesFit, HealthFits, ReportsFit, channel
<1> QED BY <1>2, <1>5, <1>6, <1>7, <1>8 DEF IInv

\* Every action keeps the invariant.
LEMMA StepInv == IInv /\ [Next]_vars => IInv'
<1> SUFFICES ASSUME IInv, [Next]_vars PROVE IInv'
  OBVIOUS
<1>1. ASSUME NEW p \in Calls, Step(p) PROVE IInv'
  BY <1>1, ResolveInv, UnpaidInv, CoolingDownInv, EnterInv, PassRateInv, ClaimsInv, AnswerInv,
     ReportInv DEF Step, Resolves, Enters, Answers
<1>2. ASSUME NEW p \in Calls, NEW kept \in SUBSET Held(p), NEW added \in SUBSET Claimed(p),
             Refuse(p, kept, added)
      PROVE  IInv'
  BY <1>2, RefuseInv
<1>3. ASSUME NEW p \in Calls, LoseReport(p) PROVE IInv'
  BY <1>3, LoseReportInv
<1>4. ASSUME NEW p \in Calls, NEW k \in Keys, Outlive(p, k) PROVE IInv'
  <2>1. faults' \in 0 .. MaxFaults /\ Token(p) \in slots[k]
    BY <1>4, BoundsNat DEF Outlive, IInv, TypeOK
  <2> QED BY <1>4, <2>1, AgingInv DEF Outlive
<1>5. ASSUME NEW k \in Keys, NEW t \in Tokens, RunsOut(k, t) PROVE IInv'
  <2>1. faults' \in 0 .. MaxFaults /\ t \in slots[k]
    BY <1>5 DEF RunsOut, IInv, TypeOK
  <2> QED BY <1>5, <2>1, AgingInv DEF RunsOut
<1>6. ASSUME rate' \in [Schools -> 0 .. Rate], UNCHANGED <<call, redis, channel, faults>>
      PROVE  IInv'
  <2>1. TypeOK'
    BY <1>6 DEF IInv, TypeOK, redis, channel
  <2>2. SlotsReturned' /\ RoomKept' /\ LimitsKept'
    BY <1>6 DEF IInv, SlotsReturned, RoomKept, LimitsKept, Limited, Live, Held, Token, Target, redis
  <2>3. TriesFit' /\ HealthFits' /\ ReportsFit'
    BY <1>6 DEF IInv, TriesFit, HealthFits, ReportsFit, Target, channel
  <2> QED BY <2>1, <2>2, <2>3 DEF IInv
<1>7. ASSUME NEW o \in Schools, MinutePasses(o) PROVE IInv'
  <2>1. rate' \in [Schools -> 0 .. Rate]
    BY <1>7, LimitsPositive DEF MinutePasses, IInv, TypeOK
  <2> QED BY <1>6, <1>7, <2>1 DEF MinutePasses
<1>8. CASE UNCHANGED vars
  BY <1>6, <1>8 DEF vars, IInv, TypeOK
<1> QED BY <1>1, <1>2, <1>3, <1>4, <1>5, <1>7, <1>8 DEF Next

\* The invariant holds in every state of every behaviour, whatever faults strike.
THEOREM Inductive == Spec => []IInv
BY InitInv, StepInv, PTL DEF Spec

-----------------------------------------------------------------------------
\* Every variable keeps its type; in particular a call never goes beyond the last
\* try of its route.
THEOREM TypeCorrect == Spec => []TypeOK
<1>1. IInv => TypeOK
  BY DEF IInv
<1> QED BY <1>1, Inductive, PTL

\* Between two schools, any channels and the platform, no set of slots is used by
\* more calls under way than its limit, unless a slot has run out under one of
\* them (distributed_model_slot).
THEOREM LimitsRespected == Spec => []WithinLimits
<1>1. IInv => WithinLimits
  <2> SUFFICES ASSUME IInv, NEW k \in Keys, \A p \in Senders(k) : Token(p) \in Live(k)
               PROVE  /\ Cardinality(Senders(k)) <= MaxOf(k)
                      /\ \A n \in 1 .. SchoolLimit : k \in Schools =>
                           Cardinality({p \in Senders(k) : call[p].limit <= n}) <= n
    BY DEF WithinLimits
  <2>1. IsFiniteSet(Live(k)) /\ Cardinality(Live(k)) \in Nat /\ Cardinality(Live(k)) <= MaxOf(k)
        /\ MaxOf(k) \in Nat
    <3>1. IsFiniteSet(Live(k)) /\ MaxOf(k) \in Nat
      BY SlotsFinite, LimitsTyped DEF IInv
    <3> QED BY <3>1, FS_CardinalityType DEF IInv, RoomKept
  <2>2. Cardinality(Senders(k)) <= MaxOf(k)
    <3> DEFINE S == Senders(k)
               f == [p \in S |-> Token(p)]
    <3>1. f \in [S -> Live(k)]
      OBVIOUS
    <3>2. \A p, q \in S : f[p] = f[q] => p = q
      BY DEF Token
    <3> HIDE DEF f, S
    <3>3. IsFiniteSet(S) /\ Cardinality(S) <= Cardinality(Live(k))
      BY <2>1, <3>1, <3>2, Injects
    <3>4. Cardinality(S) \in Nat
      BY <3>3, FS_CardinalityType
    <3>5. Cardinality(S) <= MaxOf(k)
      BY <2>1, <3>3, <3>4
    <3> QED BY <3>5 DEF S
  <2>3. ASSUME NEW n \in 1 .. SchoolLimit, k \in Schools
        PROVE  Cardinality({p \in Senders(k) : call[p].limit <= n}) <= n
    <3> DEFINE S == {p \in Senders(k) : call[p].limit <= n}
    <3>1. S \subseteq Limited(k, n)
      BY DEF Senders, Limited
    <3>2. IsFiniteSet(Limited(k, n)) /\ Cardinality(Limited(k, n)) <= n
      BY <2>3, CallsFinite, FS_Subset DEF Limited, IInv, LimitsKept
    <3> HIDE DEF S
    <3>3. IsFiniteSet(S) /\ Cardinality(S) <= Cardinality(Limited(k, n))
      BY <3>1, <3>2, FS_Subset
    <3>4. Cardinality(S) \in Nat /\ Cardinality(Limited(k, n)) \in Nat
      BY <3>2, <3>3, FS_CardinalityType
    <3>5. Cardinality(S) <= n
      BY <3>2, <3>3, <3>4
    <3> QED BY <3>5 DEF S
  <2> QED BY <2>2, <2>3
<1> QED BY <1>1, Inductive, PTL

\* On every path out of a try, errors included, the slots it has claimed are given
\* back, but for those whose removal fails or whose claim got no answer (the
\* finally block of distributed_model_slot).
THEOREM NoSlotLeftBehind == Spec => []SlotsReturned
<1>1. IInv => SlotsReturned
  BY DEF IInv
<1> QED BY <1>1, Inductive, PTL

\* Reports in any order, with rows made by whichever call comes first, leave a
\* circuit open exactly after Threshold failures in a row (_locked_health and
\* record_provider_result).
THEOREM CircuitCounts == Spec => []CircuitExact
<1>1. IInv => CircuitExact
  BY DEF IInv, HealthFits, CircuitExact
<1> QED BY <1>1, Inductive, PTL

\* No refusal of the platform's own opens the circuit of a channel that has never
\* answered badly ("Capacity/rate-limit failures say nothing about the upstream
\* channel's health").
THEOREM OnlyUpstreamOpensCircuit == Spec => []CircuitBlamesUpstream
<1>1. IInv => CircuitBlamesUpstream
  BY LimitsPositive DEF IInv, HealthFits, CircuitBlamesUpstream
<1> QED BY <1>1, Inductive, PTL
=============================================================================
