---------------------------- MODULE ModelRoutes ----------------------------
(***************************************************************************)
(* The control plane of the model channels for one business purpose        *)
(* (routes/provider_channels.py, routes/model_offerings.py) and the way    *)
(* services/provider_gateway.py routes calls by it: channels, their model  *)
(* mappings, versioned routes that are saved as drafts and published, the  *)
(* default model of the purpose, the plans offered to schools, and calls   *)
(* that hold a target while an administrator changes all of these.         *)
(*                                                                         *)
(* A mapping is a channel with a standard model.  What a target snapshots  *)
(* (base URL, code, protocol of the channel; upstream model of the         *)
(* mapping) is one revision number each.  The editor's form is read in one *)
(* step and written in another: the database runs READ COMMITTED and no    *)
(* row of these tables is locked.  Weights, tiers, prices and routing      *)
(* modes only order or refuse what is here, and are left out; so is the    *)
(* circuit breaker, which never empties a route (see ModelCalls).          *)
(***************************************************************************)
EXTENDS Naturals, Sequences, FiniteSets

CONSTANTS
  Channels,    \* channel codes
  Models,      \* standard models allowed for the purpose
  Admins,      \* requests of platform administrators in progress
  NoModel,     \* no default model, no request
  MaxUrl,      \* bound: revisions of one channel
  MaxUpstream, \* bound: revisions of one mapping
  MaxVersions, \* bound: versions of one route
  MaxCalls     \* bound: calls in flight

ASSUME NoModelOutside == NoModel \notin Models
ASSUME BoundsNat == MaxUrl \in Nat /\ MaxUpstream \in Nat /\ MaxVersions \in Nat \ {0} /\ MaxCalls \in Nat

VARIABLES
  channel,     \* ProviderChannel with its ProviderCredential
  mapping,     \* ProviderModelMapping
  enabled,     \* ModelRoutePolicy.enabled
  versions,    \* ModelRouteVersion with its targets, by model, in version order
  default,     \* FunctionModelAssignment of the purpose
  offered,     \* models of published PlatformModelOffering rows
  tx,          \* the administrators' transactions
  calls,       \* calls in flight and the targets they hold
  checked,     \* history: targets some publication has validated, by model
  raced        \* history: a draft was saved into a version published meanwhile, or
               \* a version published beside another publication or a save of it

vars == <<channel, mapping, enabled, versions, default, offered, tx, calls, checked, raced>>

Mappings == Channels \X Models

Urls == 0 .. MaxUrl

Upstreams == 0 .. MaxUpstream

\* Draft, draining and disabled channels are off alike.
Statuses == {"active", "off"}

ChannelRow == [status: Statuses \cup {"none"}, rev: Urls, key: BOOLEAN]

MappingRow == [status: {"none", "enabled", "disabled"}, rev: Upstreams, metered: BOOLEAN]

\* A target as a version stores it: the mapping with what it looked like.
Target == [at: Mappings, url: Urls, upstream: Upstreams, on: BOOLEAN]

Version == [status: {"draft", "published", "retired"}, targets: SUBSET Target]

Tx == [op: {"none", "save", "publish"}, model: Models \cup {NoModel}, targets: SUBSET Target,
       version: Nat, seen: Seq(Version), on: BOOLEAN, off: BOOLEAN]

NoTx == [op |-> "none", model |-> NoModel, targets |-> {}, version |-> 0, seen |-> <<>>,
         on |-> FALSE, off |-> FALSE]

Call == [at: Mappings, url: Urls, upstream: Upstreams, kind: {"route", "direct", "probe"}]

Init ==
  /\ channel = [c \in Channels |-> [status |-> "none", rev |-> 0, key |-> FALSE]]
  /\ mapping = [x \in Mappings |-> [status |-> "none", rev |-> 0, metered |-> FALSE]]
  /\ enabled = [m \in Models |-> FALSE]
  /\ versions = [m \in Models |-> <<>>]
  /\ default = NoModel
  /\ offered = {}
  /\ tx = [a \in Admins |-> NoTx]
  /\ calls = {}
  /\ checked = [m \in Models |-> {}]
  /\ raced = FALSE

routing == <<enabled, versions, default, offered, tx, checked, raced>>

(***************************************************************************)
(* Channels and mappings                                                   *)
(***************************************************************************)

\* An active channel needs a key (and, for some kinds, an acknowledged risk:
\* without it the request is refused).
CreateChannel(c, status, key) ==
  /\ channel[c].status = "none"
  /\ status = "active" => key
  /\ channel' = [channel EXCEPT ![c] = [@ EXCEPT !.status = status, !.key = key]]
  /\ UNCHANGED <<mapping, calls, routing>>

\* One import covers every channel named in the environment; it never changes a
\* channel, key or mapping that is there.
ImportEnvironment(cs) ==
  /\ cs # {}
  /\ channel' = [c \in Channels |-> IF c \notin cs THEN channel[c]
       ELSE [channel[c] EXCEPT !.key = TRUE, !.status = IF @ = "none" THEN "active" ELSE @]]
  /\ mapping' = [x \in Mappings |-> IF x[1] \notin cs THEN mapping[x]
       ELSE [mapping[x] EXCEPT !.status = IF @ = "none" THEN "enabled" ELSE @]]
  /\ UNCHANGED <<calls, routing>>

UpdateChannel(c, status, rev) ==
  /\ channel[c].status # "none"
  /\ status = "active" => channel[c].key
  /\ channel' = [channel EXCEPT ![c] = [@ EXCEPT !.status = status, !.rev = rev]]
  /\ UNCHANGED <<mapping, calls, routing>>

RotateCredential(c) ==
  /\ channel[c].status # "none"
  /\ channel' = [channel EXCEPT ![c].key = TRUE]
  /\ UNCHANGED <<mapping, calls, routing>>

CreateMapping(x) ==
  /\ channel[x[1]].status # "none"
  /\ mapping[x].status = "none"
  /\ mapping' = [mapping EXCEPT ![x].status = "enabled"]
  /\ UNCHANGED <<channel, calls, routing>>

\* A changed upstream model keeps the old model's metering result.
UpdateMapping(x, status, rev) ==
  /\ mapping[x].status # "none"
  /\ mapping' = [mapping EXCEPT ![x] = [@ EXCEPT !.status = status, !.rev = rev]]
  /\ UNCHANGED <<channel, calls, routing>>

(***************************************************************************)
(* Route versions: save a draft, publish a version                         *)
(***************************************************************************)

Snapshot(x, on) ==
  [at |-> x, url |-> channel[x[1]].rev, upstream |-> mapping[x].rev, on |-> on]

Latest(s) == s[Len(s)]

Reuses(s) == s # <<>> /\ Latest(s).status = "draft"

\* The form names existing mappings of the model, each once.
Forms(m) ==
  UNION {{{Snapshot(<<c, m>>, on[c]) : c \in cs} : on \in [cs -> BOOLEAN]} :
         cs \in SUBSET {c \in Channels : mapping[<<c, m>>].status # "none"}}

BeginSave(a, m, targets, off) ==
  /\ tx[a].op = "none"
  /\ targets # {}
  /\ Len(versions[m]) = MaxVersions => Reuses(versions[m])
  /\ tx' = [tx EXCEPT ![a] = [op |-> "save", model |-> m, targets |-> targets, version |-> 0,
                              seen |-> versions[m], on |-> enabled[m], off |-> off]]
  /\ UNCHANGED <<channel, mapping, enabled, versions, default, offered, calls, checked, raced>>

\* One more target in the editor: the draft is written anew from the policy's
\* targets, whose snapshots are taken again.
AddTarget(a, m, c, on) ==
  LET old == IF versions[m] = <<>> THEN {} ELSE Latest(versions[m]).targets
      kept == {Snapshot(t.at, t.on) : t \in {u \in old : u.at # <<c, m>>}}
  IN /\ mapping[<<c, m>>].status # "none"
     /\ BeginSave(a, m, kept \cup {Snapshot(<<c, m>>, on)}, FALSE)

End(a) == tx' = [tx EXCEPT ![a] = NoTx]

Saved(a) ==
  /\ enabled' = [enabled EXCEPT ![tx[a].model] = @ /\ ~(tx[a].off /\ tx[a].on)]
  /\ End(a)
  /\ UNCHANGED <<channel, mapping, default, offered, calls, checked>>

\* A save into the draft it has read.  Rows another save has inserted since
\* (kept) may escape the delete.
SaveDraft(a) ==
  LET t == tx[a]
      m == t.model
      n == Len(t.seen)
  IN /\ t.op = "save" /\ Reuses(t.seen)
     /\ \E kept \in {{}, versions[m][n].targets \ Latest(t.seen).targets} :
          /\ \A u \in kept, v \in t.targets : u.at # v.at  \* uq_route_version_mapping
          /\ versions' = [versions EXCEPT ![m][n].targets = kept \cup t.targets]
     /\ raced' = (raced \/ versions[m][n].status # t.seen[n].status)
     /\ Saved(a)

\* A save that opens the next version.
NewDraft(a) ==
  LET t == tx[a]
      m == t.model
  IN /\ t.op = "save" /\ ~Reuses(t.seen)
     /\ Len(versions[m]) = Len(t.seen)                    \* uq_route_policy_version
     /\ versions' = [versions EXCEPT ![m] = Append(@, [status |-> "draft", targets |-> t.targets])]
     /\ raced' = raced
     /\ Saved(a)

InService(s) == {i \in DOMAIN s : s[i].status = "published"}

Published(m) == InService(versions[m])

Enabled(v) == {t \in v.targets : t.on}

\* A version may be published whatever its status: publishing a retired one is
\* the way back.
Publishable(v) ==
  /\ Enabled(v) # {}
  /\ \A t \in Enabled(v) :
       /\ channel[t.at[1]].status = "active"
       /\ mapping[t.at].status = "enabled"
       /\ t.url = channel[t.at[1]].rev
       /\ t.upstream = mapping[t.at].rev
       /\ mapping[t.at].metered

BeginPublish(a, m, n) ==
  /\ tx[a].op = "none"
  /\ Publishable(versions[m][n])
  /\ tx' = [tx EXCEPT ![a] = [op |-> "publish", model |-> m, targets |-> Enabled(versions[m][n]),
                              version |-> n, seen |-> versions[m], on |-> enabled[m], off |-> FALSE]]
  /\ UNCHANGED <<channel, mapping, enabled, versions, default, offered, calls, checked, raced>>

\* Mutants: the versions in force before stay so; the published one goes too; what is
\* in force by the time of the write is retired, not what was read.
RetiresNone(t, i) == FALSE
RetiresAll(t, i) == i \in InService(t.seen)
RetiresNow(t, i) == i # t.version /\ i \in Published(t.model)

Retires(t, i) == i # t.version /\ i \in InService(t.seen)

\* Only columns that differ from what the transaction read are written.
Publish(a) ==
  LET t == tx[a]
      m == t.model
      Becomes(i) == IF Retires(t, i) THEN "retired"
                    ELSE IF i = t.version /\ t.seen[i].status # "published" THEN "published"
                    ELSE versions[m][i].status
  IN /\ t.op = "publish"
     /\ versions' = [versions EXCEPT ![m] =
          [i \in DOMAIN @ |-> [@[i] EXCEPT !.status = Becomes(i)]]]
     /\ enabled' = [enabled EXCEPT ![m] = @ \/ ~t.on]
     /\ default' = IF default = NoModel THEN m ELSE default
     /\ checked' = [checked EXCEPT ![m] = @ \cup t.targets]
     /\ raced' = (raced \/ Published(m) # InService(t.seen)
                        \/ Enabled(versions[m][t.version]) # t.targets)
     /\ End(a)
     /\ UNCHANGED <<channel, mapping, offered, calls>>

\* A transaction that meets a unique constraint, or a lost connection.
Abort(a) ==
  /\ tx[a].op # "none"
  /\ End(a)
  /\ UNCHANGED <<channel, mapping, enabled, versions, default, offered, calls, checked, raced>>

UpdateDefault(m) ==
  /\ enabled[m]
  /\ Published(m) # {}
  /\ default' = m
  /\ UNCHANGED <<channel, mapping, enabled, versions, offered, tx, calls, checked, raced>>

Live(x) ==
  /\ channel[x[1]].status = "active"
  /\ mapping[x].status = "enabled"
  /\ mapping[x].metered

PublishOffering(m) ==
  /\ m \notin offered
  /\ \E c \in Channels : Live(<<c, m>>)
  /\ enabled[m]
  /\ Published(m) # {}
  /\ offered' = offered \cup {m}
  /\ UNCHANGED <<channel, mapping, enabled, versions, default, tx, calls, checked, raced>>

WithdrawOffering(m) ==
  /\ m \in offered
  /\ offered' = offered \ {m}
  /\ UNCHANGED <<channel, mapping, enabled, versions, default, tx, calls, checked, raced>>

(***************************************************************************)
(* Calls                                                                   *)
(***************************************************************************)

\* The policy of a call for model m: the purpose's default takes its place,
\* except for a plan the school has selected.
Policy(m, school) ==
  LET wanted == IF school \/ default = NoModel THEN m ELSE default
  IN IF enabled[wanted] THEN {wanted}
     ELSE IF default = NoModel /\ ~school THEN {k \in Models : enabled[k]}
     ELSE {}

\* Mutant: a published target is looked up with today's address and model.
LiveTargets(m) ==
  {Snapshot(t.at, t.on) : t \in UNION {Enabled(versions[m][i]) : i \in Published(m)}}

\* Targets of the highest published version; of the newest one where a policy
\* in force has none.
RouteTargets(m) ==
  LET newest == {i \in Published(m) : \A j \in Published(m) : j <= i}
  IN IF Published(m) # {} THEN UNION {Enabled(versions[m][i]) : i \in newest}
     ELSE {Snapshot(t.at, t.on) : t \in Enabled(Latest(versions[m]))}

Hold(x, url, upstream, kind) ==
  /\ Cardinality(calls) < MaxCalls
  /\ calls' = calls \cup {[at |-> x, url |-> url, upstream |-> upstream, kind |-> kind]}
  /\ UNCHANGED <<channel, mapping, routing>>

BeginCall(m, school) ==
  \E k \in Policy(m, school) : \E t \in RouteTargets(k) :
    /\ Live(t.at) /\ channel[t.at[1]].key
    /\ Hold(t.at, t.url, t.upstream, "route")

\* No route and no default for the purpose: the channel the caller names.
BeginDirect(m, c) ==
  /\ default = NoModel
  /\ Policy(m, FALSE) = {}
  /\ Live(<<c, m>>) /\ channel[c].key
  /\ Hold(<<c, m>>, channel[c].rev, mapping[<<c, m>>].rev, "direct")

BeginProbe(c, m) ==
  /\ mapping[<<c, m>>].status = "enabled"
  /\ channel[c].key
  /\ Hold(<<c, m>>, channel[c].rev, mapping[<<c, m>>].rev, "probe")

\* A valid answer measures the mapping, also when the mapping has changed since.
Answer(k, usage) ==
  /\ k \in calls
  /\ calls' = calls \ {k}
  /\ mapping' = [mapping EXCEPT ![k.at].metered = usage]
  /\ UNCHANGED <<channel, routing>>

Fail(k) ==
  /\ k \in calls
  /\ calls' = calls \ {k}
  /\ UNCHANGED <<channel, mapping, routing>>

\* A probe that is refused for its key takes the channel out of service.
ProbeRefused(k) ==
  /\ k \in calls
  /\ k.kind = "probe"
  /\ calls' = calls \ {k}
  /\ channel' = [channel EXCEPT ![k.at[1]].status = "off"]
  /\ UNCHANGED <<mapping, routing>>

Next ==
  \/ \E c \in Channels :
       \/ \E status \in Statuses, key \in BOOLEAN : CreateChannel(c, status, key)
       \/ \E status \in Statuses, rev \in Urls :
            rev \in {channel[c].rev, channel[c].rev + 1} /\ UpdateChannel(c, status, rev)
       \/ RotateCredential(c)
       \/ \E m \in Models :
            \/ CreateMapping(<<c, m>>)
            \/ \E status \in {"enabled", "disabled"}, rev \in Upstreams :
                 rev \in {mapping[<<c, m>>].rev, mapping[<<c, m>>].rev + 1}
                 /\ UpdateMapping(<<c, m>>, status, rev)
            \/ \E a \in Admins, on \in BOOLEAN : AddTarget(a, m, c, on)
            \/ BeginDirect(m, c)
            \/ BeginProbe(c, m)
  \/ \E cs \in SUBSET Channels : ImportEnvironment(cs)
  \/ \E a \in Admins :
       \/ \E m \in Models :
            \/ \E targets \in Forms(m), off \in BOOLEAN : BeginSave(a, m, targets, off)
            \/ \E n \in DOMAIN versions[m] : BeginPublish(a, m, n)
       \/ SaveDraft(a)
       \/ NewDraft(a)
       \/ Publish(a)
       \/ Abort(a)
  \/ \E m \in Models :
       \/ UpdateDefault(m) \/ PublishOffering(m) \/ WithdrawOffering(m)
       \/ \E school \in BOOLEAN : BeginCall(m, school)
  \/ \E k \in calls : Fail(k) \/ ProbeRefused(k) \/ \E usage \in BOOLEAN : Answer(k, usage)

Spec == Init /\ [][Next]_vars

(***************************************************************************)
(* Properties                                                              *)
(***************************************************************************)

\* The tables and transactions keep their shape: only the newest version of a route
\* is a draft, no version becomes a draft again behind an open transaction's back,
\* and an open publication names a version it has read.
TypeOK ==
  /\ channel \in [Channels -> ChannelRow]
  /\ mapping \in [Mappings -> MappingRow]
  /\ enabled \in [Models -> BOOLEAN]
  /\ versions \in [Models -> Seq(Version)]
  /\ default \in Models \cup {NoModel}
  /\ offered \subseteq Models
  /\ tx \in [Admins -> Tx]
  /\ calls \subseteq Call
  /\ checked \in [Models -> SUBSET Target]
  /\ raced \in BOOLEAN
  /\ \A m \in Models : enabled[m] => versions[m] # <<>>
  /\ \A m \in Models : \A i \in DOMAIN versions[m] :
       versions[m][i].status = "draft" => i = Len(versions[m])
  /\ \A a \in Admins : tx[a].op # "none" =>
       /\ tx[a].model \in Models
       /\ Len(tx[a].seen) <= Len(versions[tx[a].model])
       /\ \A i \in DOMAIN tx[a].seen :
            versions[tx[a].model][i].status = "draft" => tx[a].seen[i].status = "draft"
  /\ \A a \in Admins : tx[a].op = "publish" =>
       /\ tx[a].version \in DOMAIN tx[a].seen
       /\ tx[a].targets = Enabled(tx[a].seen[tx[a].version])

\* Unless a save or a publication meets another publication of its route, a route in force has
\* exactly one published version, so a call never falls back to targets nobody
\* has published (the compatibility path of resolve_targets).
RoutesPublished ==
  ~raced => \A m \in Models :
    /\ enabled[m] => Published(m) # {}
    /\ Cardinality(Published(m)) <= 1

\* Unless a save or a publication meets another publication of its route, the purpose's default
\* model and every plan offered to schools keep a published route behind them.
PromisedIsPublished ==
  ~raced => \A m \in offered \cup ({default} \ {NoModel}) : Published(m) # {}

\* Unless a save or a publication meets another publication of its route, a routed call goes to a
\* channel, address and upstream model that a publication has checked together:
\* no draft, no edit of a channel or mapping reaches traffic before it is published.
CallsChecked ==
  ~raced => \A k \in calls : k.kind = "route" => \E m \in Models : \E t \in checked[m] :
    t.at = k.at /\ t.url = k.url /\ t.upstream = k.upstream

\* However publications race with each other and with saves, no step takes the last
\* published version of a route out of force, unless its administrator had found two
\* of them in force.
FoundTwo(a) == \E i, j \in InService(tx[a].seen) : i # j

StaysInForce ==
  [][\A m \in Models : Published(m) # {} /\ Published(m)' = {} =>
       \E a \in Admins : /\ tx[a].op = "publish" /\ tx'[a].op = "none"
                          /\ tx[a].model = m /\ FoundTwo(a)]_vars

=============================================================================
