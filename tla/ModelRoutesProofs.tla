------------------------- MODULE ModelRoutesProofs -------------------------
(***************************************************************************)
(* ModelRoutes for any channels, models and administrators: its tables     *)
(* keep their shape, and, until a publication is raced, routes in force    *)
(* and promised models are published and calls follow what was checked.    *)
(***************************************************************************)
EXTENDS ModelRoutes, FiniteSetTheorems, TLAPS

\* The state behind the three safety invariants: a published version is the only
\* one of its route, and its targets have been checked.
Safe ==
  ~raced =>
    /\ \A m \in Models : enabled[m] => Published(m) # {}
    /\ \A m \in Models : \A i, j \in Published(m) : i = j
    /\ \A m \in offered \cup ({default} \ {NoModel}) : Published(m) # {}
    /\ \A m \in Models : \A i \in Published(m) : Enabled(versions[m][i]) \subseteq checked[m]
    /\ \A k \in calls : k.kind = "route" => \E m \in Models : \E t \in checked[m] :
         t.at = k.at /\ t.url = k.url /\ t.upstream = k.upstream

IInv == TypeOK /\ Safe

LEMMA Elements ==
  ASSUME NEW V, NEW s \in Seq(V)
  PROVE  /\ DOMAIN s = 1 .. Len(s) /\ Len(s) \in Nat
         /\ \A i \in DOMAIN s : s[i] \in V
         /\ s # <<>> => Len(s) \in DOMAIN s
  OBVIOUS

\* Rewriting one element keeps a sequence of versions.
LEMMA Rewritten ==
  ASSUME NEW V, NEW s \in Seq(V), NEW n \in DOMAIN s, NEW v \in V
  PROVE  /\ [s EXCEPT ![n] = v] \in Seq(V)
         /\ Len([s EXCEPT ![n] = v]) = Len(s)
         /\ DOMAIN [s EXCEPT ![n] = v] = DOMAIN s
  OBVIOUS

\* A function on an initial segment of the naturals is a sequence.
LEMMA Tabulated ==
  ASSUME NEW V, NEW k \in Nat, NEW f \in [1 .. k -> V]
  PROVE  f \in Seq(V) /\ Len(f) = k /\ DOMAIN f = 1 .. k
  OBVIOUS

\* Appending keeps what was there.
LEMMA Appended ==
  ASSUME NEW V, NEW s \in Seq(V), NEW v \in V
  PROVE  /\ Append(s, v) \in Seq(V) /\ Append(s, v) # <<>> /\ Len(Append(s, v)) = Len(s) + 1
         /\ DOMAIN s \subseteq DOMAIN Append(s, v)
         /\ \A i \in DOMAIN s : Append(s, v)[i] = s[i]
         /\ \A i \in DOMAIN Append(s, v) \ DOMAIN s :
              i = Len(Append(s, v)) /\ Append(s, v)[i] = v
<1>1. Len(s) \in Nat /\ DOMAIN s = 1 .. Len(s)
  OBVIOUS
<1>2. DOMAIN Append(s, v) = 1 .. (Len(s) + 1) /\ Append(s, v) \in Seq(V)
  OBVIOUS
<1>3. \A i \in 1 .. Len(s) : Append(s, v)[i] = s[i]
  OBVIOUS
<1>4. Append(s, v)[Len(s) + 1] = v /\ Len(Append(s, v)) = Len(s) + 1
  OBVIOUS
<1> QED BY <1>1, <1>2, <1>3, <1>4

\* A snapshot of a mapping is a target.
LEMMA Snapshots ==
  ASSUME TypeOK, NEW x \in Mappings, NEW on \in BOOLEAN
  PROVE  Snapshot(x, on) \in Target
  BY DEF TypeOK, Snapshot, Target, Mappings, ChannelRow, MappingRow

Rows == /\ channel \in [Channels -> ChannelRow]
        /\ mapping \in [Mappings -> MappingRow]

\* What the registry and the calls touch: channels, mappings and calls.
LEMMA OutsideRoutes ==
  ASSUME TypeOK, UNCHANGED routing, Rows', calls' \subseteq Call
  PROVE  TypeOK'
  BY DEF TypeOK, routing, Rows, Published, InService, Enabled

LEMMA ImportTyped ==
  ASSUME TypeOK, NEW cs \in SUBSET Channels, ImportEnvironment(cs)
  PROVE  Rows' /\ UNCHANGED <<routing, calls>>
<1>0. Rows
  BY DEF TypeOK, Rows
<1>1. channel' \in [Channels -> ChannelRow]
  <2>1. \A d \in Channels :
          [channel[d] EXCEPT !.key = TRUE,
                             !.status = IF @ = "none" THEN "active" ELSE @] \in ChannelRow
    BY <1>0 DEF Rows, ChannelRow, Statuses
  <2> QED BY <2>1, <1>0 DEF Rows, ImportEnvironment
<1>2. mapping' \in [Mappings -> MappingRow]
  <2>1. \A y \in Mappings :
          [mapping[y] EXCEPT !.status = IF @ = "none" THEN "enabled" ELSE @] \in MappingRow
    BY <1>0 DEF Rows, MappingRow
  <2> QED BY <2>1, <1>0 DEF Rows, ImportEnvironment
<1> QED BY <1>1, <1>2 DEF Rows, ImportEnvironment

LEMMA RegistryTyped ==
  ASSUME TypeOK, NEW c \in Channels,
         \/ \E status \in Statuses, key \in BOOLEAN : CreateChannel(c, status, key)
         \/ \E status \in Statuses, rev \in Urls : UpdateChannel(c, status, rev)
         \/ RotateCredential(c)
         \/ \E m \in Models : CreateMapping(<<c, m>>)
         \/ \E m \in Models, status \in {"enabled", "disabled"}, rev \in Upstreams :
              UpdateMapping(<<c, m>>, status, rev)
  PROVE  TypeOK' /\ UNCHANGED <<routing, calls>>
<1>1. \A m \in Models : <<c, m>> \in Mappings
  BY DEF Mappings
<1>2. Rows
  BY DEF TypeOK, Rows
<1>3. Rows' /\ UNCHANGED <<routing, calls>>
  <2> DEFINE r == channel[c]
  <2>0. r \in ChannelRow /\ \A m \in Models : mapping[<<c, m>>] \in MappingRow
    BY <1>1, <1>2 DEF Rows
  <2>1. CASE \E status \in Statuses, key \in BOOLEAN : CreateChannel(c, status, key)
    <3> PICK status \in Statuses, key \in BOOLEAN : CreateChannel(c, status, key)
      BY <2>1
    <3>1. [r EXCEPT !.status = status, !.key = key] \in ChannelRow
      BY <2>0 DEF ChannelRow
    <3> QED BY <3>1, <1>2 DEF Rows, CreateChannel
  <2>2. CASE \E status \in Statuses, rev \in Urls : UpdateChannel(c, status, rev)
    <3> PICK status \in Statuses, rev \in Urls : UpdateChannel(c, status, rev)
      BY <2>2
    <3>1. [r EXCEPT !.status = status, !.rev = rev] \in ChannelRow
      BY <2>0 DEF ChannelRow
    <3> QED BY <3>1, <1>2 DEF Rows, UpdateChannel
  <2>3. CASE RotateCredential(c)
    <3>1. [r EXCEPT !.key = TRUE] \in ChannelRow
      BY <2>0 DEF ChannelRow
    <3> QED BY <2>3, <3>1, <1>2 DEF Rows, RotateCredential
  <2>4. CASE \E m \in Models : CreateMapping(<<c, m>>)
    <3> PICK m \in Models : CreateMapping(<<c, m>>)
      BY <2>4
    <3> DEFINE x == <<c, m>>
    <3>1. [mapping[x] EXCEPT !.status = "enabled"] \in MappingRow
      BY <2>0 DEF MappingRow
    <3> QED BY <3>1, <1>1, <1>2 DEF Rows, CreateMapping
  <2>5. CASE \E m \in Models, status \in {"enabled", "disabled"}, rev \in Upstreams :
               UpdateMapping(<<c, m>>, status, rev)
    <3> PICK m \in Models, status \in {"enabled", "disabled"}, rev \in Upstreams :
          UpdateMapping(<<c, m>>, status, rev)
      BY <2>5
    <3> DEFINE x == <<c, m>>
    <3>1. [mapping[x] EXCEPT !.status = status, !.rev = rev] \in MappingRow
      BY <2>0 DEF MappingRow
    <3> QED BY <3>1, <1>1, <1>2 DEF Rows, UpdateMapping
  <2> QED BY <2>1, <2>2, <2>3, <2>4, <2>5
<1>4. calls' \subseteq Call
  BY <1>3 DEF TypeOK
<1> QED BY <1>3, <1>4, OutsideRoutes

LEMMA CallsTyped ==
  ASSUME TypeOK,
         \/ \E c \in Channels, m \in Models : BeginDirect(m, c) \/ BeginProbe(c, m)
         \/ \E k \in calls : Fail(k) \/ ProbeRefused(k) \/ \E usage \in BOOLEAN : Answer(k, usage)
  PROVE  /\ TypeOK' /\ UNCHANGED routing
         /\ \A k \in calls' : k.kind = "route" => k \in calls
<1>1. CASE \E c \in Channels, m \in Models : BeginDirect(m, c) \/ BeginProbe(c, m)
  <2> PICK c \in Channels, m \in Models : BeginDirect(m, c) \/ BeginProbe(c, m)
    BY <1>1
  <2>0. Rows /\ calls \subseteq Call
    BY DEF TypeOK, Rows
  <2> DEFINE x == <<c, m>>
  <2>1. x \in Mappings
    BY DEF Mappings
  <2>2. channel[c].rev \in Urls /\ mapping[x].rev \in Upstreams
    BY <2>0, <2>1 DEF Rows, ChannelRow, MappingRow
  <2>3. \A kind \in {"direct", "probe"} :
          [at |-> x, url |-> channel[c].rev, upstream |-> mapping[x].rev, kind |-> kind] \in Call
    BY <2>1, <2>2 DEF Call
  <2> DEFINE new(kind) == [at |-> x, url |-> channel[c].rev, upstream |-> mapping[x].rev, kind |-> kind]
  <2>4. PICK kind \in {"direct", "probe"} :
          calls' = calls \cup {new(kind)} /\ UNCHANGED <<channel, mapping, routing>>
    BY DEF BeginDirect, BeginProbe, Hold
  <2>5. new(kind) \in Call /\ new(kind).kind # "route"
    BY <2>3
  <2>6. Rows' /\ UNCHANGED routing
    BY <2>0, <2>4 DEF Rows
  <2> HIDE DEF new
  <2>7. calls' \subseteq Call /\ \A k \in calls' : k.kind = "route" => k \in calls
    BY <2>0, <2>4, <2>5
  <2> QED BY <2>6, <2>7, OutsideRoutes
<1>2. CASE \E k \in calls : Fail(k) \/ ProbeRefused(k) \/ \E usage \in BOOLEAN : Answer(k, usage)
  <2> PICK k \in calls : Fail(k) \/ ProbeRefused(k) \/ \E usage \in BOOLEAN : Answer(k, usage)
    BY <1>2
  <2>0. Rows /\ calls \subseteq Call
    BY DEF TypeOK, Rows
  <2>1. k.at \in Mappings /\ k.at[1] \in Channels
    BY <2>0 DEF Call, Mappings
  <2>2. /\ [channel[k.at[1]] EXCEPT !.status = "off"] \in ChannelRow
        /\ \A usage \in BOOLEAN : [mapping[k.at] EXCEPT !.metered = usage] \in MappingRow
    BY <2>0, <2>1 DEF Rows, ChannelRow, MappingRow, Statuses
  <2>3. Rows'
    <3>1. CASE Fail(k)
      BY <2>0, <2>1, <2>2, <3>1 DEF Rows, Fail
    <3>2. CASE ProbeRefused(k)
      BY <2>0, <2>1, <2>2, <3>2 DEF Rows, ProbeRefused
    <3>3. ASSUME NEW usage \in BOOLEAN, Answer(k, usage) PROVE Rows'
      BY <2>0, <2>1, <2>2, <3>3 DEF Rows, Answer
    <3> QED BY <3>1, <3>2, <3>3
  <2>4. calls' \subseteq calls /\ UNCHANGED routing
    BY DEF Fail, ProbeRefused, Answer
  <2> QED BY <2>0, <2>3, <2>4, OutsideRoutes
<1> QED BY <1>1, <1>2

\* A target in a version or under way names its mapping and its snapshot.
LEMMA RouteTargetsTyped ==
  ASSUME TypeOK, NEW m \in Models, versions[m] # <<>>, NEW t \in RouteTargets(m)
  PROVE  t \in Target
<1>1. versions[m] \in Seq(Version) /\ Rows
  BY DEF TypeOK, Rows
<1>2. \A i \in DOMAIN versions[m] : versions[m][i].targets \subseteq Target
  <2>1. \A i \in DOMAIN versions[m] : versions[m][i] \in Version
    BY <1>1, Elements
  <2> QED BY <2>1 DEF Version
<1>3. Latest(versions[m]).targets \subseteq Target
  BY <1>1, <1>2, Elements DEF Latest
<1>4. \A u \in Target : Snapshot(u.at, u.on) \in Target
  BY Snapshots DEF Target
<1> QED BY <1>2, <1>3, <1>4 DEF RouteTargets, Enabled, Published, InService
\* A transaction is behind the versions vs of its route.
Behind(t, vs) ==
  /\ t.op # "none" =>
       /\ t.model \in Models
       /\ Len(t.seen) <= Len(vs[t.model])
       /\ \A i \in DOMAIN t.seen :
            vs[t.model][i].status = "draft" => t.seen[i].status = "draft"
  /\ t.op = "publish" => /\ t.version \in DOMAIN t.seen
                         /\ t.targets = Enabled(t.seen[t.version])

\* Versions that only grow and only leave the draft state.
Grows(s, u) ==
  /\ Len(s) <= Len(u)
  /\ \A i \in DOMAIN s : u[i].status = "draft" => s[i].status = "draft"

\* The transaction of an administrator ends, its route has grown.
LEMMA RouteStep ==
  ASSUME TypeOK, NEW a \in Admins, tx' = [tx EXCEPT ![a] = NoTx],
         versions' \in [Models -> Seq(Version)],
         \A m \in Models : Grows(versions[m], versions'[m]),
         \A m \in Models : \A i \in DOMAIN versions'[m] :
           versions'[m][i].status = "draft" => i = Len(versions'[m]),
         enabled' \in [Models -> BOOLEAN],
         \A m \in Models : enabled'[m] => versions'[m] # <<>>,
         default' \in Models \cup {NoModel},
         checked' \in [Models -> SUBSET Target], raced' \in BOOLEAN,
         UNCHANGED <<channel, mapping, offered, calls>>
  PROVE  TypeOK'
<1>1. tx' \in [Admins -> Tx]
  <2>1. NoTx \in Tx
    BY DEF NoTx, Tx
  <2>2. tx \in [Admins -> Tx]
    BY DEF TypeOK
  <2> QED BY <2>1, <2>2
<1>2. \A b \in Admins : Behind(tx'[b], versions')
  <2> SUFFICES ASSUME NEW b \in Admins PROVE Behind(tx'[b], versions')
    OBVIOUS
  <2>1. CASE b = a
    BY <2>1 DEF TypeOK, NoTx, Behind
  <2>2. CASE b # a
    <3>1. tx'[b] = tx[b] /\ Behind(tx[b], versions)
      BY <2>2 DEF TypeOK, Behind
    <3>2. tx[b].seen \in Seq(Version) /\ tx[b] \in Tx
      BY DEF TypeOK, Tx
    <3>3. CASE tx[b].op # "none"
      <4> DEFINE m == tx[b].model
      <4>1. m \in Models /\ Grows(versions[m], versions'[m]) /\ versions[m] \in Seq(Version)
            /\ versions'[m] \in Seq(Version)
        BY <3>1, <3>3 DEF Behind, TypeOK
      <4>2. DOMAIN tx[b].seen \subseteq DOMAIN versions[m]
        BY <3>1, <3>2, <3>3, <4>1, Elements DEF Behind
      <4>3. Len(tx[b].seen) <= Len(versions'[m])
        BY <3>1, <3>2, <3>3, <4>1, Elements DEF Behind, Grows
      <4> QED BY <3>1, <3>3, <4>1, <4>2, <4>3 DEF Behind, Grows
    <3> QED BY <3>1, <3>3 DEF Behind
  <2> QED BY <2>1, <2>2
<1> QED BY <1>1, <1>2 DEF TypeOK, Behind

\* An administrator opens a form or a publication.
LEMMA BeginStep ==
  ASSUME TypeOK, NEW a \in Admins, NEW t \in Tx, Behind(t, versions),
         tx' = [tx EXCEPT ![a] = t],
         UNCHANGED <<channel, mapping, enabled, versions, default, offered, calls, checked, raced>>
  PROVE  TypeOK'
<1>1. tx' \in [Admins -> Tx]
  BY DEF TypeOK
<1>2. \A b \in Admins : Behind(tx'[b], versions)
  BY DEF TypeOK, Behind
<1> QED BY <1>1, <1>2 DEF TypeOK, Behind, Published, InService, Enabled

LEMMA FreshBehind ==
  ASSUME TypeOK, NEW t, NEW m \in Models, t.model = m, t.seen = versions[m],
         t.op = "publish" => t.version \in DOMAIN t.seen /\ t.targets = Enabled(t.seen[t.version])
  PROVE  Behind(t, versions)
<1>1. versions[m] \in Seq(Version)
  BY DEF TypeOK
<1>2. Len(versions[m]) \in Nat
  BY <1>1, Elements
<1> QED BY <1>2 DEF Behind

LEMMA BeginSaveTyped ==
  ASSUME TypeOK, NEW a \in Admins, NEW m \in Models, NEW targets \in SUBSET Target,
         NEW off \in BOOLEAN, BeginSave(a, m, targets, off)
  PROVE  TypeOK'
<1> DEFINE t == [op |-> "save", model |-> m, targets |-> targets, version |-> 0,
                 seen |-> versions[m], on |-> enabled[m], off |-> off]
<1>1. versions[m] \in Seq(Version) /\ enabled[m] \in BOOLEAN
  BY DEF TypeOK
<1>2. t \in Tx
  BY <1>1, Zenon DEF Tx
<1>3. Behind(t, versions)
  BY FreshBehind
<1>4. tx' = [tx EXCEPT ![a] = t]
      /\ UNCHANGED <<channel, mapping, enabled, versions, default, offered, calls, checked, raced>>
  BY DEF BeginSave
<1> QED BY <1>2, <1>3, <1>4, BeginStep

LEMMA FormsTyped ==
  ASSUME TypeOK, NEW m \in Models, NEW targets \in Forms(m)
  PROVE  targets \in SUBSET Target
<1>1. \A c \in Channels, on \in BOOLEAN : Snapshot(<<c, m>>, on) \in Target
  BY Snapshots DEF Mappings
<1>2. PICK cs \in SUBSET {c \in Channels : mapping[<<c, m>>].status # "none"} :
       targets \in {{Snapshot(<<c, m>>, on[c]) : c \in cs} : on \in [cs -> BOOLEAN]}
  BY DEF Forms
<1>3. PICK on \in [cs -> BOOLEAN] : targets = {Snapshot(<<c, m>>, on[c]) : c \in cs}
  BY <1>2
<1> QED BY <1>1, <1>3

LEMMA AddTargetTyped ==
  ASSUME TypeOK, NEW a \in Admins, NEW m \in Models, NEW c \in Channels,
         NEW on \in BOOLEAN, AddTarget(a, m, c, on)
  PROVE  TypeOK'
<1> DEFINE old == IF versions[m] = <<>> THEN {} ELSE Latest(versions[m]).targets
           kept == {Snapshot(t.at, t.on) : t \in {u \in old : u.at # <<c, m>>}}
<1>1. versions[m] \in Seq(Version)
  BY DEF TypeOK
<1>2. old \subseteq Target
  <2>1. versions[m] # <<>> => Latest(versions[m]) \in Version
    BY <1>1, Elements DEF Latest
  <2> QED BY <2>1 DEF Version
<1>3. \A u \in Target : Snapshot(u.at, u.on) \in Target
  BY Snapshots DEF Target
<1>4. kept \subseteq Target
  BY <1>2, <1>3
<1>5. Snapshot(<<c, m>>, on) \in Target
  BY Snapshots DEF Mappings
<1> HIDE DEF kept
<1>6. kept \cup {Snapshot(<<c, m>>, on)} \in SUBSET Target
  BY <1>4, <1>5
<1>7. BeginSave(a, m, kept \cup {Snapshot(<<c, m>>, on)}, FALSE)
  BY DEF AddTarget, kept
<1> QED BY <1>6, <1>7, BeginSaveTyped

LEMMA BeginPublishTyped ==
  ASSUME TypeOK, NEW a \in Admins, NEW m \in Models, NEW n \in DOMAIN versions[m],
         BeginPublish(a, m, n)
  PROVE  TypeOK'
<1> DEFINE t == [op |-> "publish", model |-> m, targets |-> Enabled(versions[m][n]),
                 version |-> n, seen |-> versions[m], on |-> enabled[m], off |-> FALSE]
<1>1. versions[m] \in Seq(Version) /\ enabled[m] \in BOOLEAN
  BY DEF TypeOK
<1>2. versions[m][n] \in Version /\ n \in Nat
  BY <1>1, Elements
<1>3. Enabled(versions[m][n]) \subseteq Target
  BY <1>2 DEF Enabled, Version
<1>4. t \in Tx
  BY <1>1, <1>2, <1>3 DEF Tx
<1>5. Behind(t, versions)
  BY FreshBehind
<1>6. tx' = [tx EXCEPT ![a] = t]
      /\ UNCHANGED <<channel, mapping, enabled, versions, default, offered, calls, checked, raced>>
  BY DEF BeginPublish
<1> QED BY <1>4, <1>5, <1>6, BeginStep

LEMMA AbortTyped ==
  ASSUME TypeOK, NEW a \in Admins, Abort(a)
  PROVE  TypeOK'
<1>1. NoTx \in Tx /\ Behind(NoTx, versions)
  BY DEF NoTx, Tx, Behind
<1> QED BY <1>1, BeginStep DEF Abort, End

\* The version a save writes into exists, and is the newest the save has read.
LEMMA SavedVersion ==
  ASSUME TypeOK, NEW a \in Admins, tx[a].op = "save", Reuses(tx[a].seen)
  PROVE  LET t == tx[a]
             n == Len(t.seen)
         IN /\ t.model \in Models /\ t.seen \in Seq(Version)
            /\ n \in DOMAIN t.seen /\ n \in DOMAIN versions[t.model]
            /\ t.seen[n].status = "draft"
            /\ t.targets \subseteq Target
<1>1. tx[a] \in Tx /\ tx[a].model \in Models /\ Len(tx[a].seen) <= Len(versions[tx[a].model])
  BY DEF TypeOK
<1>2. tx[a].seen \in Seq(Version) /\ tx[a].targets \subseteq Target
  BY <1>1 DEF Tx
<1>3. versions[tx[a].model] \in Seq(Version)
  BY <1>1 DEF TypeOK
<1> QED BY <1>1, <1>2, <1>3, Elements DEF Reuses, Latest

Rewrite(s, n, ts) == [s EXCEPT ![n] = [s[n] EXCEPT !.targets = ts]]

\* Writing targets into version n of a route keeps its shape and its statuses.
LEMMA Retargeted ==
  ASSUME NEW s \in Seq(Version), NEW n \in DOMAIN s, NEW ts \in SUBSET Target
  PROVE  LET u == Rewrite(s, n, ts)
         IN /\ u \in Seq(Version) /\ Len(u) = Len(s) /\ DOMAIN u = DOMAIN s
            /\ u # <<>>
            /\ u[n].targets = ts
            /\ \A i \in DOMAIN s : u[i].status = s[i].status
            /\ \A i \in DOMAIN s : i # n => u[i] = s[i]
<1> DEFINE v == [s[n] EXCEPT !.targets = ts]
<1>1. s[n] \in Version
  BY Elements
<1>2. v \in Version /\ v.status = s[n].status /\ v.targets = ts
  BY <1>1 DEF Version
<1> HIDE DEF v
<1>4. [s EXCEPT ![n] = v] \in Seq(Version) /\ Len([s EXCEPT ![n] = v]) = Len(s)
      /\ DOMAIN [s EXCEPT ![n] = v] = DOMAIN s
  BY <1>2, Rewritten
<1>5. [s EXCEPT ![n] = v] # <<>>
  BY <1>4, Elements
<1> QED BY <1>2, <1>4, <1>5 DEF v, Rewrite

\* What every save writes besides the versions.
LEMMA SavedTyped ==
  ASSUME TypeOK, NEW a \in Admins, tx[a].op = "save", Saved(a),
         versions' \in [Models -> Seq(Version)],
         \A m \in Models : Grows(versions[m], versions'[m]),
         \A m \in Models : versions[m] # <<>> => versions'[m] # <<>>,
         \A m \in Models : \A i \in DOMAIN versions'[m] :
           versions'[m][i].status = "draft" => i = Len(versions'[m]),
         raced' \in BOOLEAN
  PROVE  TypeOK' /\ \A k \in Models : enabled'[k] => enabled[k]
<1> DEFINE t == tx[a]
           m == tx[a].model
           b == enabled[m] /\ ~(t.off /\ t.on)
<1>1. /\ m \in Models
      /\ enabled \in [Models -> BOOLEAN]
      /\ \A k \in Models : enabled[k] => versions[k] # <<>>
  BY DEF TypeOK
<1>2. enabled' = [enabled EXCEPT ![m] = b]
  BY Zenon DEF Saved
<1>3. b \in BOOLEAN /\ (b => enabled[m])
  OBVIOUS
<1> HIDE DEF b
<1>4. enabled'[m] = b /\ \A k \in Models \ {m} : enabled'[k] = enabled[k]
  BY <1>1, <1>2, Zenon
<1>5. enabled' \in [Models -> BOOLEAN]
  BY <1>1, <1>2, <1>3, Zenon
<1>6. \A k \in Models : enabled'[k] => enabled[k]
  BY <1>3, <1>4, Zenon
<1>7. \A k \in Models : enabled'[k] => versions'[k] # <<>>
  BY <1>1, <1>6, Zenon
<1>8. /\ UNCHANGED <<channel, mapping, offered, calls, default, checked>>
      /\ tx' = [tx EXCEPT ![a] = NoTx]
  BY DEF Saved, End
<1>9. default \in Models \cup {NoModel} /\ checked \in [Models -> SUBSET Target]
  BY DEF TypeOK
<1> QED BY <1>5, <1>6, <1>7, <1>8, <1>9, RouteStep

LEMMA SaveDraftTyped ==
  ASSUME TypeOK, NEW a \in Admins, SaveDraft(a)
  PROVE  LET m == tx[a].model
             n == Len(tx[a].seen)
         IN /\ TypeOK'
            /\ m \in Models /\ n \in DOMAIN versions[m]
            /\ \A k \in Models \ {m} : versions'[k] = versions[k]
            /\ DOMAIN versions'[m] = DOMAIN versions[m]
            /\ \A i \in DOMAIN versions[m] : versions'[m][i].status = versions[m][i].status
            /\ \A i \in DOMAIN versions[m] : i # n => versions'[m][i] = versions[m][i]
            /\ ~raced' => ~raced /\ versions[m][n].status = "draft"
            /\ \A k \in Models : enabled'[k] => enabled[k]
<1> DEFINE t == tx[a]
           m == tx[a].model
           n == Len(tx[a].seen)
           s == versions[m]
<1>0. /\ t.op = "save" /\ Reuses(t.seen)
      /\ raced' = (raced \/ versions[m][n].status # t.seen[n].status)
      /\ Saved(a)
  BY DEF SaveDraft
<1>1. /\ m \in Models /\ t.seen \in Seq(Version) /\ n \in DOMAIN t.seen /\ n \in DOMAIN s
      /\ t.seen[n].status = "draft" /\ t.targets \subseteq Target
  BY <1>0, SavedVersion
<1>2. s \in Seq(Version)
  BY <1>1 DEF TypeOK
<1>3. PICK kept \in {{}, s[n].targets \ Latest(t.seen).targets} :
        versions' = [versions EXCEPT ![m][n].targets = kept \cup t.targets]
  BY DEF SaveDraft
<1>4. kept \cup t.targets \in SUBSET Target
  <2>1. s[n] \in Version
    BY <1>1, <1>2, Elements
  <2> QED BY <2>1, <1>1 DEF Version
<1> DEFINE ts == kept \cup t.targets
           u == Rewrite(s, n, ts)
<1>5. /\ u \in Seq(Version) /\ Len(u) = Len(s) /\ DOMAIN u = DOMAIN s /\ u # <<>>
      /\ \A i \in DOMAIN s : u[i].status = s[i].status
      /\ \A i \in DOMAIN s : i # n => u[i] = s[i]
  <2>1. s \in Seq(Version) /\ n \in DOMAIN s /\ ts \in SUBSET Target
    BY <1>1, <1>2, <1>4
  <2> HIDE DEF s, n, ts
  <2> QED BY <2>1, Retargeted
<1>6. versions \in [Models -> Seq(Version)]
  BY DEF TypeOK
<1>7. versions' = [versions EXCEPT ![m] = u]
  BY <1>3 DEF Rewrite
<1> HIDE DEF u, ts
<1>8. /\ versions' \in [Models -> Seq(Version)]
      /\ versions'[m] = u
      /\ \A k \in Models \ {m} : versions'[k] = versions[k]
  BY <1>1, <1>5, <1>6, <1>7
<1>9. \A k \in Models : Grows(versions[k], versions'[k])
  <2>1. Len(s) \in Nat
    BY <1>2, Elements
  <2>2. Grows(s, u)
    BY <2>1, <1>5 DEF Grows
  <2>3. \A k \in Models : Grows(versions[k], versions[k])
    <3> TAKE k \in Models
    <3>1. Len(versions[k]) \in Nat
      BY <1>6, Elements
    <3> QED BY <3>1 DEF Grows
  <2> QED BY <2>2, <2>3, <1>8, Zenon
<1>10. \A k \in Models : \A i \in DOMAIN versions'[k] :
         versions'[k][i].status = "draft" => i = Len(versions'[k])
  <2>1. \A k \in Models : \A i \in DOMAIN versions[k] :
          versions[k][i].status = "draft" => i = Len(versions[k])
    BY DEF TypeOK
  <2>2. \A i \in DOMAIN u : u[i].status = "draft" => i = Len(u)
    BY <2>1, <1>1, <1>5
  <2> QED BY <2>1, <2>2, <1>8, Zenon
<1>11. raced' \in BOOLEAN
  BY <1>0 DEF TypeOK
<1>12. TypeOK' /\ \A k \in Models : enabled'[k] => enabled[k]
  <2>1. \A k \in Models : versions[k] # <<>> => versions'[k] # <<>>
    BY <1>5, <1>8, Zenon
  <2> QED BY <2>1, <1>0, <1>8, <1>9, <1>10, <1>11, SavedTyped
<1> QED BY <1>0, <1>1, <1>5, <1>8, <1>12

LEMMA NewDraftTyped ==
  ASSUME TypeOK, NEW a \in Admins, NewDraft(a)
  PROVE  LET m == tx[a].model
         IN /\ TypeOK'
            /\ m \in Models
            /\ \A k \in Models \ {m} : versions'[k] = versions[k]
            /\ DOMAIN versions[m] \subseteq DOMAIN versions'[m]
            /\ \A i \in DOMAIN versions[m] : versions'[m][i] = versions[m][i]
            /\ \A i \in DOMAIN versions'[m] \ DOMAIN versions[m] :
                 versions'[m][i].status = "draft"
            /\ raced' = raced
            /\ \A k \in Models : enabled'[k] => enabled[k]
<1> DEFINE t == tx[a]
           m == tx[a].model
           s == versions[m]
           v == [status |-> "draft", targets |-> t.targets]
           u == Append(s, v)
<1>0. /\ t.op = "save" /\ ~Reuses(t.seen)
      /\ Len(s) = Len(t.seen)
      /\ versions' = [versions EXCEPT ![m] = u]
      /\ raced' = raced
      /\ Saved(a)
  BY DEF NewDraft
<1>1. m \in Models /\ t \in Tx
  BY <1>0 DEF TypeOK
<1>2. t.seen \in Seq(Version) /\ v \in Version /\ v.status = "draft"
  BY <1>1 DEF Tx, Version
<1>3. versions \in [Models -> Seq(Version)] /\ s \in Seq(Version)
  BY <1>1 DEF TypeOK
<1>4. \A i \in DOMAIN s : s[i].status # "draft"
  <2> SUFFICES ASSUME NEW i \in DOMAIN s, s[i].status = "draft" PROVE FALSE
    OBVIOUS
  <2>1. i = Len(s)
    BY <1>1 DEF TypeOK
  <2>2. i \in DOMAIN t.seen
    BY <1>0, <1>2, <1>3, Elements
  <2>3. t.seen[i].status = "draft"
    BY <2>2, <1>0, <1>1 DEF TypeOK
  <2> QED BY <2>1, <2>2, <2>3, <1>0 DEF Reuses, Latest
<1> HIDE DEF v
<1>5. /\ u \in Seq(Version) /\ u # <<>> /\ Len(u) = Len(s) + 1
      /\ DOMAIN s \subseteq DOMAIN u
      /\ \A i \in DOMAIN s : u[i] = s[i]
      /\ \A i \in DOMAIN u \ DOMAIN s : i = Len(u) /\ u[i] = v
  <2> HIDE DEF s
  <2> QED BY <1>2, <1>3, Appended, Zenon
<1> HIDE DEF u
<1>6. /\ versions' \in [Models -> Seq(Version)]
      /\ versions'[m] = u
      /\ \A k \in Models \ {m} : versions'[k] = versions[k]
  BY <1>0, <1>1, <1>3, <1>5
<1>7. \A k \in Models : Grows(versions[k], versions'[k])
  <2>1. Len(s) \in Nat
    BY <1>3, Elements
  <2>2. Grows(s, u)
    BY <2>1, <1>5 DEF Grows
  <2>3. \A k \in Models : Grows(versions[k], versions[k])
    <3> TAKE k \in Models
    <3>1. Len(versions[k]) \in Nat
      BY <1>3, Elements
    <3> QED BY <3>1 DEF Grows
  <2> QED BY <2>2, <2>3, <1>6, Zenon
<1>8. \A k \in Models : \A i \in DOMAIN versions'[k] :
         versions'[k][i].status = "draft" => i = Len(versions'[k])
  <2>1. \A k \in Models : \A i \in DOMAIN versions[k] :
          versions[k][i].status = "draft" => i = Len(versions[k])
    BY DEF TypeOK
  <2>2. \A i \in DOMAIN u : u[i].status = "draft" => i = Len(u)
    BY <1>4, <1>5
  <2> QED BY <2>1, <2>2, <1>6, Zenon
<1>9. TypeOK' /\ \A k \in Models : enabled'[k] => enabled[k]
  <2>0. raced' \in BOOLEAN
    BY <1>0 DEF TypeOK
  <2>1. \A k \in Models : versions[k] # <<>> => versions'[k] # <<>>
    BY <1>5, <1>6, Zenon
  <2> QED BY <2>0, <2>1, <1>0, <1>6, <1>7, <1>8, SavedTyped
<1> QED BY <1>0, <1>1, <1>2, <1>5, <1>6, <1>9

\* The version i of route s once the transaction t has published.
Labelled(s, t, i) ==
  [s[i] EXCEPT !.status =
     IF Retires(t, i) THEN "retired"
     ELSE IF i = t.version /\ t.seen[i].status # "published" THEN "published"
     ELSE s[i].status]

\* A publication relabels versions: it rewrites no target and makes no draft; what
\* it has read as published is retired, its version is published.
LEMMA Labels ==
  ASSUME NEW s \in Seq(Version), NEW t \in Tx, t.version \in DOMAIN t.seen,
         NEW i \in DOMAIN s
  PROVE  LET v == Labelled(s, t, i)
         IN /\ v \in Version /\ v.targets = s[i].targets
            /\ v.status = "draft" => s[i].status = "draft"
            /\ InService(s) = InService(t.seen) =>
                 (v.status = "published" <=> i = t.version)
<1> DEFINE st == IF Retires(t, i) THEN "retired"
                 ELSE IF i = t.version /\ t.seen[i].status # "published" THEN "published"
                 ELSE s[i].status
<1>1. s[i] \in Version
  BY Elements
<1>2. st \in {"draft", "published", "retired"} /\ (st = "draft" => s[i].status = "draft")
  BY <1>1 DEF Version
<1>3. InService(s) = InService(t.seen) => (st = "published" <=> i = t.version)
  BY DEF Retires, InService
<1> HIDE DEF st
<1>4. [s[i] EXCEPT !.status = st] \in Version
      /\ [s[i] EXCEPT !.status = st].targets = s[i].targets
      /\ [s[i] EXCEPT !.status = st].status = st
  BY <1>1, <1>2 DEF Version
<1> QED BY <1>2, <1>3, <1>4 DEF Labelled, st

LEMMA PublishTyped ==
  ASSUME TypeOK, NEW a \in Admins, Publish(a)
  PROVE  LET t == tx[a]
             m == tx[a].model
         IN /\ TypeOK'
            /\ m \in Models /\ t.version \in DOMAIN versions[m]
            /\ \A k \in Models \ {m} : versions'[k] = versions[k]
            /\ DOMAIN versions'[m] = DOMAIN versions[m]
            /\ \A i \in DOMAIN versions[m] :
                 /\ versions'[m][i].targets = versions[m][i].targets
                 /\ versions'[m][i].status = "draft" => versions[m][i].status = "draft"
            /\ ~raced' => /\ ~raced
                          /\ \A i \in DOMAIN versions[m] :
                               versions'[m][i].status = "published" <=> i = t.version
                          /\ Enabled(versions[m][t.version]) = t.targets
            /\ checked' = [checked EXCEPT ![m] = @ \cup t.targets]
            /\ \A k \in Models \ {m} : enabled'[k] = enabled[k]
            /\ default' = IF default = NoModel THEN m ELSE default
<1> DEFINE t == tx[a]
           m == tx[a].model
           s == versions[m]
           u == [i \in DOMAIN s |-> Labelled(s, t, i)]
           b == enabled[m] \/ ~t.on
<1>0. /\ t.op = "publish"
      /\ versions' = [versions EXCEPT ![m] = u]
      /\ enabled' = [enabled EXCEPT ![m] = b]
      /\ default' = IF default = NoModel THEN m ELSE default
      /\ checked' = [checked EXCEPT ![m] = @ \cup t.targets]
      /\ raced' = (raced \/ Published(m) # InService(t.seen)
                         \/ Enabled(versions[m][t.version]) # t.targets)
      /\ tx' = [tx EXCEPT ![a] = NoTx]
      /\ UNCHANGED <<channel, mapping, offered, calls>>
  BY DEF Publish, Labelled, End
<1>1. m \in Models /\ t \in Tx
  BY <1>0 DEF TypeOK
<1>2. t.seen \in Seq(Version) /\ t.version \in DOMAIN t.seen /\ Len(t.seen) <= Len(s)
  BY <1>0, <1>1 DEF Tx, TypeOK
<1>3. versions \in [Models -> Seq(Version)] /\ s \in Seq(Version)
  BY <1>1 DEF TypeOK
<1>4. t.version \in DOMAIN s
  BY <1>2, <1>3, Elements
<1>5. Published(m) = InService(s)
  BY DEF Published
<1>6. /\ u \in Seq(Version) /\ Len(u) = Len(s) /\ DOMAIN u = DOMAIN s
      /\ \A i \in DOMAIN s :
           /\ u[i].targets = s[i].targets
           /\ u[i].status = "draft" => s[i].status = "draft"
           /\ InService(s) = InService(t.seen) => (u[i].status = "published" <=> i = t.version)
  <2> HIDE DEF s, t
  <2>1. Len(s) \in Nat /\ DOMAIN s = 1 .. Len(s)
    BY <1>3, Elements
  <2>2. \A i \in DOMAIN s : Labelled(s, t, i) \in Version
    BY <1>1, <1>2, <1>3, Labels
  <2>3. u \in [1 .. Len(s) -> Version]
    BY <2>1, <2>2
  <2>4. u \in Seq(Version) /\ Len(u) = Len(s) /\ DOMAIN u = DOMAIN s
    BY <2>1, <2>3, Tabulated
  <2>5. \A i \in DOMAIN s : u[i] = Labelled(s, t, i)
    OBVIOUS
  <2> HIDE DEF u
  <2> QED BY <2>4, <2>5, <1>1, <1>2, <1>3, Labels
<1> HIDE DEF u
<1>7. /\ versions' \in [Models -> Seq(Version)]
      /\ versions'[m] = u
      /\ \A k \in Models \ {m} : versions'[k] = versions[k]
  BY <1>0, <1>1, <1>3, <1>6
<1>8. \A k \in Models : Grows(versions[k], versions'[k])
  <2>1. Len(s) \in Nat
    BY <1>3, Elements
  <2>2. Grows(s, u)
    BY <2>1, <1>6 DEF Grows
  <2>3. \A k \in Models : Grows(versions[k], versions[k])
    <3> TAKE k \in Models
    <3>1. Len(versions[k]) \in Nat
      BY <1>3, Elements
    <3> QED BY <3>1 DEF Grows
  <2> QED BY <2>2, <2>3, <1>7, Zenon
<1>9. \A k \in Models : \A i \in DOMAIN versions'[k] :
         versions'[k][i].status = "draft" => i = Len(versions'[k])
  <2>1. \A k \in Models : \A i \in DOMAIN versions[k] :
          versions[k][i].status = "draft" => i = Len(versions[k])
    BY DEF TypeOK
  <2>2. \A i \in DOMAIN u : u[i].status = "draft" => i = Len(u)
    BY <2>1, <1>1, <1>6
  <2> QED BY <2>1, <2>2, <1>7, Zenon
<1>10. /\ enabled' \in [Models -> BOOLEAN]
       /\ \A k \in Models \ {m} : enabled'[k] = enabled[k]
       /\ \A k \in Models : enabled'[k] => versions'[k] # <<>>
  <2>1. enabled \in [Models -> BOOLEAN] /\ \A k \in Models : enabled[k] => versions[k] # <<>>
    BY DEF TypeOK
  <2>2. b \in BOOLEAN
    OBVIOUS
  <2> HIDE DEF b
  <2>3. enabled' \in [Models -> BOOLEAN] /\ \A k \in Models \ {m} : enabled'[k] = enabled[k]
    BY <2>1, <2>2, <1>0, Zenon
  <2>4. versions'[m] # <<>>
    BY <1>4, <1>6, <1>7
  <2> QED BY <2>1, <2>3, <2>4, <1>7, Zenon
<1>11. default' \in Models \cup {NoModel} /\ checked' \in [Models -> SUBSET Target]
       /\ raced' \in BOOLEAN
  <2>1. t.targets \subseteq Target
    BY <1>1 DEF Tx
  <2>2. default \in Models \cup {NoModel} /\ checked \in [Models -> SUBSET Target]
        /\ raced \in BOOLEAN
    BY DEF TypeOK
  <2> HIDE DEF t
  <2>3. raced' \in BOOLEAN
    BY <1>0, <2>2
  <2> QED BY <2>1, <2>2, <2>3, <1>0, <1>1
<1>12. TypeOK'
  BY <1>0, <1>7, <1>8, <1>9, <1>10, <1>11, RouteStep
<1>13. ~raced' => /\ ~raced /\ InService(s) = InService(t.seen)
                  /\ Enabled(versions[m][t.version]) = t.targets
  BY <1>0, <1>5, Zenon
<1>14. /\ DOMAIN versions'[m] = DOMAIN versions[m]
       /\ \A i \in DOMAIN versions[m] :
            /\ versions'[m][i].targets = versions[m][i].targets
            /\ versions'[m][i].status = "draft" => versions[m][i].status = "draft"
       /\ ~raced' => \A i \in DOMAIN versions[m] :
                       versions'[m][i].status = "published" <=> i = t.version
  BY <1>6, <1>7, <1>13, Zenon
<1> QED BY <1>0, <1>1, <1>4, <1>7, <1>10, <1>12, <1>13, <1>14, Zenon

\* The default model, the plans and routed calls change nothing of a route.
LEMMA BeginCallTyped ==
  ASSUME TypeOK, NEW m \in Models, NEW school \in BOOLEAN, BeginCall(m, school)
  PROVE  /\ TypeOK' /\ UNCHANGED routing
         /\ \E k \in Models : \E t \in RouteTargets(k) :
              /\ enabled[k]
              /\ calls' = calls \cup {[at |-> t.at, url |-> t.url, upstream |-> t.upstream,
                                       kind |-> "route"]}
<1>1. PICK k \in Policy(m, school) : \E t \in RouteTargets(k) :
        Hold(t.at, t.url, t.upstream, "route")
  BY DEF BeginCall
<1>2. PICK t \in RouteTargets(k) : Hold(t.at, t.url, t.upstream, "route")
  BY <1>1
<1>3. k \in Models /\ enabled[k]
  BY DEF Policy, TypeOK
<1>4. t \in Target
  BY <1>3, RouteTargetsTyped DEF TypeOK
<1> DEFINE new == [at |-> t.at, url |-> t.url, upstream |-> t.upstream, kind |-> "route"]
<1>5. new \in Call
  BY <1>4 DEF Target, Call
<1>6. calls' = calls \cup {new} /\ UNCHANGED <<channel, mapping, routing>>
  BY <1>2 DEF Hold
<1>7. Rows' /\ calls' \subseteq Call /\ UNCHANGED routing
  BY <1>5, <1>6 DEF TypeOK, Rows
<1>8. TypeOK'
  BY <1>7, OutsideRoutes
<1> QED BY <1>2, <1>3, <1>6, <1>7, <1>8

LEMMA PromisesTyped ==
  ASSUME TypeOK, NEW m \in Models,
         UpdateDefault(m) \/ PublishOffering(m) \/ WithdrawOffering(m)
  PROVE  /\ TypeOK'
         /\ UNCHANGED <<versions, enabled, calls, checked, raced>>
         /\ \A k \in offered' \cup ({default'} \ {NoModel}) :
              k \in offered \cup ({default} \ {NoModel}) \/ Published(k) # {}
<1>1. /\ UNCHANGED <<channel, mapping, enabled, versions, tx, calls, checked, raced>>
      /\ default' \in Models \cup {NoModel} /\ offered' \subseteq Models
  BY DEF UpdateDefault, PublishOffering, WithdrawOffering, TypeOK
<1>2. TypeOK'
  BY <1>1 DEF TypeOK, Enabled
<1>3. \A k \in offered' \cup ({default'} \ {NoModel}) :
              k \in offered \cup ({default} \ {NoModel}) \/ Published(k) # {}
  BY DEF UpdateDefault, PublishOffering, WithdrawOffering
<1> QED BY <1>1, <1>2, <1>3

Promised == offered \cup ({default} \ {NoModel})

\* The step action of StaysInForce.
ForceStays ==
  \A m \in Models : Published(m) # {} /\ Published(m)' = {} =>
    \E a \in Admins : /\ tx[a].op = "publish" /\ tx'[a].op = "none"
                       /\ tx[a].model = m /\ FoundTwo(a)

\* A step that leaves the versions in force as they are keeps Safe.
LEMMA Kept ==
  ASSUME Safe, ~raced' => ~raced,
         ~raced' => \A m \in Models :
           /\ Published(m)' = Published(m)
           /\ \A i \in Published(m) : versions'[m][i].targets = versions[m][i].targets
           /\ enabled'[m] => enabled[m],
         checked' = checked,
         ~raced' => \A m \in Promised' : m \in Promised \/ Published(m) # {},
         ~raced' => \A m \in Promised' : m \in Models,
         ~raced' => \A k \in calls' : k.kind = "route" =>
           k \in calls \/ \E m \in Models : \E t \in checked[m] :
             t.at = k.at /\ t.url = k.url /\ t.upstream = k.upstream
  PROVE  Safe'
<1> SUFFICES ASSUME ~raced' PROVE Safe'
  BY DEF Safe
<1>1. /\ \A m \in Models : enabled[m] => Published(m) # {}
      /\ \A m \in Models : \A i, j \in Published(m) : i = j
      /\ \A m \in Promised : Published(m) # {}
      /\ \A m \in Models : \A i \in Published(m) : Enabled(versions[m][i]) \subseteq checked[m]
      /\ \A k \in calls : k.kind = "route" => \E m \in Models : \E t \in checked[m] :
           t.at = k.at /\ t.url = k.url /\ t.upstream = k.upstream
  BY DEF Safe, Promised
<1>2. \A m \in Models : enabled'[m] => Published(m)' # {}
  BY <1>1
<1>3. \A m \in Models : \A i, j \in Published(m)' : i = j
  BY <1>1
<1>4. \A m \in Promised' : Published(m)' # {}
  BY <1>1
<1>5. \A m \in Models : \A i \in Published(m)' : Enabled(versions'[m][i]) \subseteq checked'[m]
  BY <1>1 DEF Enabled
<1>6. \A k \in calls' : k.kind = "route" => \E m \in Models : \E t \in checked'[m] :
         t.at = k.at /\ t.url = k.url /\ t.upstream = k.upstream
  BY <1>1
<1> QED BY <1>2, <1>3, <1>4, <1>5, <1>6 DEF Safe, Promised

\* The same for steps that do not touch versions, policies or the history.
LEMMA Aside ==
  ASSUME Safe, UNCHANGED <<versions, enabled, checked, raced, calls>>,
         Promised' \subseteq Models,
         \A m \in Promised' : m \in Promised \/ Published(m) # {}
  PROVE  Safe' /\ ForceStays
<1>1. \A m \in Models : Published(m)' = Published(m)
  BY DEF Published
<1>2. Safe'
  BY <1>1, Kept
<1>3. ForceStays
  BY <1>1 DEF ForceStays
<1> QED BY <1>2, <1>3

LEMMA PromisedModels ==
  ASSUME TypeOK
  PROVE  Promised \subseteq Models
  BY DEF TypeOK, Promised

LEMMA SaveDraftSafe ==
  ASSUME TypeOK, Safe, NEW a \in Admins, SaveDraft(a)
  PROVE  Safe' /\ ForceStays
<1>0. PICK m, n : m = tx[a].model /\ n = Len(tx[a].seen)
  OBVIOUS
<1>1. /\ m \in Models /\ n \in DOMAIN versions[m]
      /\ \A k \in Models \ {m} : versions'[k] = versions[k]
      /\ DOMAIN versions'[m] = DOMAIN versions[m]
      /\ \A i \in DOMAIN versions[m] : versions'[m][i].status = versions[m][i].status
      /\ \A i \in DOMAIN versions[m] : i # n => versions'[m][i] = versions[m][i]
      /\ ~raced' => ~raced /\ versions[m][n].status = "draft"
      /\ \A k \in Models : enabled'[k] => enabled[k]
  BY <1>0, SaveDraftTyped
<1>2. UNCHANGED <<offered, default, checked, calls>>
  BY DEF SaveDraft, Saved
<1>3. \A k \in Models : Published(k)' = Published(k)
  BY <1>1 DEF Published, InService
<1>4. ~raced' => \A k \in Models : \A i \in Published(k) :
        versions'[k][i].targets = versions[k][i].targets
  BY <1>1 DEF Published, InService
<1>5. Promised' = Promised /\ Promised \subseteq Models
  BY <1>2, PromisedModels DEF Promised
<1>6. Safe'
  BY <1>1, <1>2, <1>3, <1>4, <1>5, Kept
<1>7. ForceStays
  BY <1>3 DEF ForceStays
<1> QED BY <1>6, <1>7

LEMMA NewDraftSafe ==
  ASSUME TypeOK, Safe, NEW a \in Admins, NewDraft(a)
  PROVE  Safe' /\ ForceStays
<1>1. PICK m \in Models :
      /\ m = tx[a].model
      /\ \A k \in Models \ {m} : versions'[k] = versions[k]
      /\ DOMAIN versions[m] \subseteq DOMAIN versions'[m]
      /\ \A i \in DOMAIN versions[m] : versions'[m][i] = versions[m][i]
      /\ \A i \in DOMAIN versions'[m] \ DOMAIN versions[m] : versions'[m][i].status = "draft"
      /\ raced' = raced
      /\ \A k \in Models : enabled'[k] => enabled[k]
  BY NewDraftTyped
<1>2. UNCHANGED <<offered, default, checked, calls>>
  BY DEF NewDraft, Saved
<1>3. \A k \in Models : Published(k)' = Published(k)
  <2>1. Published(m)' = Published(m)
    BY <1>1 DEF Published, InService
  <2>2. \A k \in Models \ {m} : Published(k)' = Published(k)
    BY <1>1 DEF Published, InService
  <2> QED BY <2>1, <2>2
<1>4. \A k \in Models : \A i \in Published(k) :
        versions'[k][i].targets = versions[k][i].targets
  BY <1>1 DEF Published, InService
<1>5. Promised' = Promised /\ Promised \subseteq Models
  BY <1>2, PromisedModels DEF Promised
<1>6. Safe'
  BY <1>1, <1>2, <1>3, <1>4, <1>5, Kept
<1>7. ForceStays
  BY <1>3 DEF ForceStays
<1> QED BY <1>6, <1>7

\* A publication puts its version in force or had read it so; in that case it takes out
\* of force only another one that it had read so.
LEMMA PublishStays ==
  ASSUME TypeOK, NEW a \in Admins, Publish(a)
  PROVE  ForceStays
<1> DEFINE t == tx[a]
           m == tx[a].model
           s == versions[m]
<1> SUFFICES ASSUME NEW k \in Models, Published(k) # {}, Published(k)' = {}
             PROVE  t.op = "publish" /\ tx'[a].op = "none" /\ m = k /\ FoundTwo(a)
  BY DEF ForceStays
<1>1. /\ m \in Models /\ t.version \in DOMAIN s /\ DOMAIN versions'[m] = DOMAIN s
      /\ \A j \in Models \ {m} : versions'[j] = versions[j]
  BY PublishTyped
<1>2. m = k
  BY <1>1 DEF Published
<1>3. t.op = "publish" /\ tx' = [tx EXCEPT ![a] = NoTx]
      /\ versions' = [versions EXCEPT ![m] = [i \in DOMAIN s |-> Labelled(s, t, i)]]
  BY DEF Publish, End, Labelled
<1>4. tx'[a].op = "none"
  BY <1>3 DEF TypeOK, NoTx
<1>5. \A i \in DOMAIN s : versions'[m][i] = Labelled(s, t, i)
  BY <1>1, <1>3 DEF TypeOK
<1>6. \A i \in DOMAIN s : Labelled(s, t, i).status # "published"
  BY <1>1, <1>2, <1>5 DEF Published, InService
<1>7. \A i \in DOMAIN s : s[i] \in Version
  BY <1>1, Elements DEF TypeOK
<1>8. /\ t.seen[t.version].status = "published"
      /\ \A i \in DOMAIN s : s[i].status = "published" => Retires(t, i)
  BY <1>1, <1>6, <1>7 DEF Labelled, Retires, Version
<1>9. t.version \in DOMAIN t.seen
  BY <1>3 DEF TypeOK
<1>10. PICK i \in DOMAIN s : s[i].status = "published"
  BY <1>2 DEF Published, InService
<1>11. t.version \in InService(t.seen) /\ i \in InService(t.seen) /\ i # t.version
  BY <1>8, <1>9, <1>10 DEF InService, Retires
<1> QED BY <1>2, <1>3, <1>4, <1>11 DEF FoundTwo

\* A publication that has read its route as it is leaves its version alone in
\* force, with the targets it has checked.
LEMMA PublishSafe ==
  ASSUME TypeOK, Safe, NEW a \in Admins, Publish(a)
  PROVE  Safe' /\ ForceStays
<1>1. PICK m, n, ts :
      /\ m = tx[a].model /\ n = tx[a].version /\ ts = tx[a].targets
      /\ m \in Models /\ n \in DOMAIN versions[m]
      /\ \A k \in Models \ {m} : versions'[k] = versions[k]
      /\ DOMAIN versions'[m] = DOMAIN versions[m]
      /\ \A i \in DOMAIN versions[m] :
           /\ versions'[m][i].targets = versions[m][i].targets
           /\ versions'[m][i].status = "draft" => versions[m][i].status = "draft"
      /\ ~raced' => /\ ~raced
                    /\ \A i \in DOMAIN versions[m] :
                         versions'[m][i].status = "published" <=> i = n
                    /\ Enabled(versions[m][n]) = ts
      /\ checked' = [checked EXCEPT ![m] = @ \cup ts]
      /\ \A k \in Models \ {m} : enabled'[k] = enabled[k]
      /\ default' = IF default = NoModel THEN m ELSE default
  BY PublishTyped
<1>2. UNCHANGED <<offered, calls>> /\ checked \in [Models -> SUBSET Target]
  BY DEF Publish, TypeOK
<1>3. Promised \subseteq Models
  BY PromisedModels
<1>4. ForceStays
  BY PublishStays
<1>5. Safe'
  <2> SUFFICES ASSUME ~raced' PROVE Safe'
    BY DEF Safe
  <2>1. /\ \A k \in Models : enabled[k] => Published(k) # {}
        /\ \A k \in Models : \A i, j \in Published(k) : i = j
        /\ \A k \in Promised : Published(k) # {}
        /\ \A k \in Models : \A i \in Published(k) : Enabled(versions[k][i]) \subseteq checked[k]
        /\ \A k \in calls : k.kind = "route" => \E j \in Models : \E x \in checked[j] :
             x.at = k.at /\ x.url = k.url /\ x.upstream = k.upstream
    BY <1>1 DEF Safe, Promised
  <2>2. Published(m)' = {n}
    BY <1>1 DEF Published, InService
  <2>3. \A k \in Models \ {m} : Published(k)' = Published(k)
    BY <1>1 DEF Published, InService
  <2>4. checked'[m] = checked[m] \cup ts
        /\ \A k \in Models \ {m} : checked'[k] = checked[k]
    BY <1>1, <1>2
  <2>5. \A k \in Models : enabled'[k] => Published(k)' # {}
    <3>1. \A k \in Models \ {m} : enabled'[k] => Published(k)' # {}
      <4>1. \A k \in Models \ {m} : enabled'[k] = enabled[k]
        BY <1>1
      <4> QED BY <4>1, <2>1, <2>3, Zenon
    <3> QED BY <3>1, <2>2, Zenon
  <2>6. \A k \in Models : \A i, j \in Published(k)' : i = j
    BY <2>1, <2>2, <2>3
  <2>7. \A k \in Promised' : Published(k)' # {}
    <3>1. Promised' \subseteq Promised \cup {m}
      BY <1>1, <1>2 DEF Promised
    <3> QED BY <3>1, <1>3, <2>1, <2>2, <2>3
  <2>8. \A k \in Models : \A i \in Published(k)' : Enabled(versions'[k][i]) \subseteq checked'[k]
    <3>1. Enabled(versions'[m][n]) \subseteq checked'[m]
      <4>1. Enabled(versions'[m][n]) = Enabled(versions[m][n])
        BY <1>1 DEF Enabled
      <4> QED BY <4>1, <1>1, <2>4
    <3>2. \A k \in Models \ {m} : \A i \in Published(k)' :
            Enabled(versions'[k][i]) \subseteq checked'[k]
      BY <1>1, <2>1, <2>3, <2>4
    <3> QED BY <3>1, <3>2, <2>2
  <2>9. \A k \in calls' : k.kind = "route" => \E j \in Models : \E x \in checked'[j] :
           x.at = k.at /\ x.url = k.url /\ x.upstream = k.upstream
    <3>1. \A j \in Models : checked[j] \subseteq checked'[j]
      BY <2>4
    <3> QED BY <3>1, <2>1, <1>2
  <2> QED BY <2>5, <2>6, <2>7, <2>8, <2>9 DEF Safe, Promised
<1> QED BY <1>4, <1>5

LEMMA InitInv ==
  ASSUME Init
  PROVE  IInv
<1>1. NoTx \in Tx
  BY DEF NoTx, Tx
<1>2. tx \in [Admins -> Tx] /\ \A a \in Admins : tx[a] = NoTx
  BY <1>1 DEF Init
<1>3. TypeOK
  <2>1. channel \in [Channels -> ChannelRow] /\ mapping \in [Mappings -> MappingRow]
    BY BoundsNat DEF Init, ChannelRow, MappingRow, Urls, Upstreams
  <2>2. enabled \in [Models -> BOOLEAN] /\ \A m \in Models : ~enabled[m] /\ versions[m] = <<>>
    BY DEF Init
  <2>3. versions \in [Models -> Seq(Version)] /\ checked \in [Models -> SUBSET Target]
    BY DEF Init
  <2>4. \A a \in Admins : tx[a].op = "none"
    BY <1>2 DEF NoTx
  <2>5. \A m \in Models : \A i \in DOMAIN versions[m] : FALSE
    BY <2>2
  <2>6. /\ default \in Models \cup {NoModel} /\ offered \subseteq Models
        /\ calls \subseteq Call /\ raced \in BOOLEAN
    BY DEF Init
  <2> QED BY <1>2, <2>1, <2>2, <2>3, <2>4, <2>5, <2>6 DEF TypeOK
<1>4. Safe
  BY DEF Init, Safe, Published, InService
<1> QED BY <1>3, <1>4 DEF IInv

\* One step keeps the inductive invariant and leaves a route in force.
LEMMA Step ==
  ASSUME IInv, [Next]_vars
  PROVE  IInv' /\ ForceStays
<1> USE DEF IInv
<1>1. Promised \subseteq Models
  BY PromisedModels
<1>2. ASSUME UNCHANGED <<versions, enabled, checked, raced, calls>>, Promised' = Promised
      PROVE  Safe' /\ ForceStays
  BY <1>1, <1>2, Aside
<1>3. ASSUME UNCHANGED routing, \A k \in calls' : k.kind = "route" =>
               k \in calls \/ \E m \in Models : \E t \in RouteTargets(m) :
                 enabled[m] /\ t.at = k.at /\ t.url = k.url /\ t.upstream = k.upstream
      PROVE  Safe' /\ ForceStays
  <2>1. UNCHANGED <<versions, enabled, checked, raced, default, offered>> /\ Promised' = Promised
    BY <1>3 DEF routing, Promised
  <2>2. \A m \in Models : Published(m)' = Published(m)
    BY <2>1 DEF Published
  <2>3. ~raced => \A m \in Models : enabled[m] => RouteTargets(m) \subseteq checked[m]
    BY DEF Safe, RouteTargets
  <2>4. Safe'
    BY <1>1, <1>3, <2>1, <2>2, <2>3, Kept
  <2>5. ForceStays
    BY <2>2 DEF ForceStays
  <2> QED BY <2>4, <2>5
<1>4. ASSUME NEW c \in Channels,
             \/ \E status \in Statuses, key \in BOOLEAN : CreateChannel(c, status, key)
             \/ \E status \in Statuses, rev \in Urls : UpdateChannel(c, status, rev)
             \/ RotateCredential(c)
             \/ \E m \in Models : CreateMapping(<<c, m>>)
             \/ \E m \in Models, status \in {"enabled", "disabled"}, rev \in Upstreams :
                  UpdateMapping(<<c, m>>, status, rev)
      PROVE  IInv' /\ ForceStays
  <2>1. TypeOK' /\ UNCHANGED <<routing, calls>>
    BY <1>4, RegistryTyped
  <2> QED BY <2>1, <1>3
<1>5. ASSUME NEW a \in Admins,
             \/ \E m \in Models : \E targets \in Forms(m), off \in BOOLEAN :
                  BeginSave(a, m, targets, off)
             \/ \E c \in Channels, m \in Models, on \in BOOLEAN : AddTarget(a, m, c, on)
             \/ \E m \in Models : \E n \in DOMAIN versions[m] : BeginPublish(a, m, n)
             \/ Abort(a)
      PROVE  IInv' /\ ForceStays
  <2>1. TypeOK'
    BY <1>5, FormsTyped, BeginSaveTyped, AddTargetTyped, BeginPublishTyped, AbortTyped
  <2>2. UNCHANGED <<versions, enabled, checked, raced, calls, default, offered>>
    BY <1>5 DEF AddTarget, BeginSave, BeginPublish, Abort
  <2>3. Promised' = Promised
    BY <2>2 DEF Promised
  <2> QED BY <2>1, <2>2, <2>3, <1>2
<1>6. ASSUME NEW a \in Admins, SaveDraft(a) PROVE IInv' /\ ForceStays
  BY <1>6, SaveDraftTyped, SaveDraftSafe
<1>7. ASSUME NEW a \in Admins, NewDraft(a) PROVE IInv' /\ ForceStays
  BY <1>7, NewDraftTyped, NewDraftSafe
<1>8. ASSUME NEW a \in Admins, Publish(a) PROVE IInv' /\ ForceStays
  BY <1>8, PublishTyped, PublishSafe
<1>9. ASSUME NEW m \in Models, UpdateDefault(m) \/ PublishOffering(m) \/ WithdrawOffering(m)
      PROVE  IInv' /\ ForceStays
  <2>1. /\ TypeOK' /\ UNCHANGED <<versions, enabled, calls, checked, raced>>
        /\ \A k \in Promised' : k \in Promised \/ Published(k) # {}
    BY <1>9, PromisesTyped DEF Promised
  <2>2. Promised' \subseteq Models
    BY <2>1 DEF TypeOK, Promised
  <2> QED BY <2>1, <2>2, Aside
<1>10. ASSUME NEW m \in Models, NEW school \in BOOLEAN, BeginCall(m, school)
       PROVE  IInv' /\ ForceStays
  <2>1. /\ TypeOK' /\ UNCHANGED routing
        /\ \E k \in Models : \E t \in RouteTargets(k) :
             /\ enabled[k]
             /\ calls' = calls \cup {[at |-> t.at, url |-> t.url, upstream |-> t.upstream,
                                      kind |-> "route"]}
    BY <1>10, BeginCallTyped
  <2> QED BY <2>1, <1>3
<1>11. ASSUME \/ \E c \in Channels, m \in Models : BeginDirect(m, c) \/ BeginProbe(c, m)
              \/ \E k \in calls : Fail(k) \/ ProbeRefused(k) \/ \E usage \in BOOLEAN : Answer(k, usage)
       PROVE  IInv' /\ ForceStays
  <2>1. /\ TypeOK' /\ UNCHANGED routing
        /\ \A k \in calls' : k.kind = "route" => k \in calls
    BY <1>11, CallsTyped
  <2> QED BY <2>1, <1>3
<1>12. CASE UNCHANGED vars
  <2>1. TypeOK'
    BY <1>12 DEF vars, TypeOK, Enabled
  <2> QED BY <2>1, <1>12, <1>2 DEF vars, Promised
<1>13. CASE \E cs \in SUBSET Channels : ImportEnvironment(cs)
  <2>1. PICK cs \in SUBSET Channels : ImportEnvironment(cs)
    BY <1>13
  <2>2. Rows' /\ UNCHANGED <<routing, calls>>
    BY <2>1, ImportTyped
  <2>3. TypeOK'
    BY <2>2, OutsideRoutes DEF TypeOK
  <2> QED BY <2>2, <2>3, <1>3
<1>14. CASE Next
  <2>1. CASE \E c \in Channels :
               \/ \E status \in Statuses, key \in BOOLEAN : CreateChannel(c, status, key)
               \/ \E status \in Statuses, rev \in Urls :
                    rev \in {channel[c].rev, channel[c].rev + 1} /\ UpdateChannel(c, status, rev)
               \/ RotateCredential(c)
               \/ \E m \in Models :
                    \/ CreateMapping(<<c, m>>)
                    \/ \E status \in {"enabled", "disabled"}, rev \in Upstreams :
                         rev \in {mapping[<<c, m>>].rev, mapping[<<c, m>>].rev + 1}
                         /\ UpdateMapping(<<c, m>>, status, rev)
    BY <2>1, <1>4, Zenon
  <2>2. CASE \E c \in Channels : \E m \in Models :
               \/ \E a \in Admins, on \in BOOLEAN : AddTarget(a, m, c, on)
               \/ BeginDirect(m, c)
               \/ BeginProbe(c, m)
    BY <2>2, <1>5, <1>11, Zenon
  <2>3. CASE \E a \in Admins :
               \/ \E m \in Models :
                    \/ \E targets \in Forms(m), off \in BOOLEAN : BeginSave(a, m, targets, off)
                    \/ \E n \in DOMAIN versions[m] : BeginPublish(a, m, n)
               \/ SaveDraft(a)
               \/ NewDraft(a)
               \/ Publish(a)
               \/ Abort(a)
    BY <2>3, <1>5, <1>6, <1>7, <1>8, Zenon
  <2>4. CASE \E m \in Models :
               \/ UpdateDefault(m) \/ PublishOffering(m) \/ WithdrawOffering(m)
               \/ \E school \in BOOLEAN : BeginCall(m, school)
    BY <2>4, <1>9, <1>10, Zenon
  <2>5. CASE \E k \in calls : Fail(k) \/ ProbeRefused(k) \/ \E usage \in BOOLEAN : Answer(k, usage)
    BY <2>5, <1>11, Zenon
  <2> QED BY <1>13, <1>14, <2>1, <2>2, <2>3, <2>4, <2>5, Zenon DEF Next
<1> QED BY <1>12, <1>14

\* The tables keep their shape (TypeOK), whatever transactions interleave.
THEOREM TypeCorrect == Spec => []TypeOK
<1>1. Init => IInv
  BY InitInv
<1>2. IInv /\ [Next]_vars => IInv'
  BY Step
<1>3. IInv => TypeOK
  BY DEF IInv
<1> QED BY <1>1, <1>2, <1>3, PTL DEF Spec

\* A route in force has exactly one published version: calls never fall back to
\* targets nobody has published.
THEOREM InForce == Spec => []RoutesPublished
<1>1. Init => IInv
  BY InitInv
<1>2. IInv /\ [Next]_vars => IInv'
  BY Step
<1>3. IInv => RoutesPublished
  <2> SUFFICES ASSUME IInv, ~raced, NEW m \in Models
               PROVE  /\ enabled[m] => Published(m) # {}
                      /\ Cardinality(Published(m)) <= 1
    BY DEF RoutesPublished
  <2>1. /\ enabled[m] => Published(m) # {}
        /\ \A i, j \in Published(m) : i = j
    BY DEF IInv, Safe
  <2>2. CASE Published(m) = {}
    BY <2>1, <2>2, FS_EmptySet
  <2>3. CASE Published(m) # {}
    <3>1. PICK i : Published(m) = {i}
      BY <2>1, <2>3
    <3>2. Cardinality(Published(m)) = 1
      BY <3>1, FS_Singleton, Zenon
    <3> QED BY <2>1, <3>2
  <2> QED BY <2>2, <2>3
<1> QED BY <1>1, <1>2, <1>3, PTL DEF Spec

\* The default model and the plans offered to schools keep a published route.
THEOREM PromisesKept == Spec => []PromisedIsPublished
<1>1. Init => IInv
  BY InitInv
<1>2. IInv /\ [Next]_vars => IInv'
  BY Step
<1>3. IInv => PromisedIsPublished
  BY DEF IInv, Safe, PromisedIsPublished
<1> QED BY <1>1, <1>2, <1>3, PTL DEF Spec

\* A routed call goes where a publication has checked that it may.
THEOREM TrafficChecked == Spec => []CallsChecked
<1>1. Init => IInv
  BY InitInv
<1>2. IInv /\ [Next]_vars => IInv'
  BY Step
<1>3. IInv => CallsChecked
  BY DEF IInv, Safe, CallsChecked
<1> QED BY <1>1, <1>2, <1>3, PTL DEF Spec

\* publish_route_version: whatever transactions interleave, a route loses its
\* last published version only to a publication that had found two of them.
THEOREM ForceKept == Spec => StaysInForce
<1>1. Init => IInv
  BY InitInv
<1>2. IInv /\ [Next]_vars => IInv' /\ [ForceStays]_vars
  BY Step
<1> QED BY <1>1, <1>2, PTL DEF Spec, StaysInForce, ForceStays
=============================================================================
