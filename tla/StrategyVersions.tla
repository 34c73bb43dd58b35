-------------------------- MODULE StrategyVersions -------------------------
(***************************************************************************)
(* Strategies, their versions and the backtests run on them                *)
(* (packages/core/src/strategies/strategies.ts, backtest/service.ts,       *)
(* migrations 0003, 0007 and 0011), for one account.                       *)
(*                                                                         *)
(* A request is a transaction of one step, or of two where another request *)
(* may run between a check and the write that rests on it.  Held locks are *)
(* visible in where a request stands: strategy creation holds the account's*)
(* advisory lock, an edit or a publication the strategy's row, a backtest  *)
(* the users row.  A deletion checks the versions without locking.         *)
(***************************************************************************)
EXTENDS Naturals, Sequences, FiniteSets

CONSTANTS
    Owners,         \* concurrent requests of the account
    StrategyIds,
    Configs,        \* version configurations; 0 is not publishable
    MaxVersions,    \* bound on versions of a strategy
    MaxStrategies,  \* entitlement
    MaxBacktests    \* entitlement: backtests in a month

VersionsAssumption ==
    0 \in Configs /\ Configs \subseteq Nat /\ MaxVersions \in Nat /\ MaxStrategies \in Nat /\ MaxBacktests \in Nat

VARIABLES
    versions,   \* versions of a strategy: [status, config], in number order
    live,       \* rows in strategies: id -> status, or "absent"
    backtests,  \* backtest_runs: [s, v, config], config ghost
    vpc,        \* where each request stands
    req         \* what it works on: [s, v, config]

versionVars == <<versions, live, backtests, vpc, req>>

StrategyStatus == {"draft", "active", "paused", "archived"}
VersionStatus == {"draft", "published", "deprecated"}
NoReq == [s |-> "none", v |-> 0, config |-> 0]

VersionsTypeOK ==
    /\ versions \in [StrategyIds -> Seq([status : VersionStatus, config : Configs])]
    /\ live \in [StrategyIds -> StrategyStatus \cup {"absent"}]
    /\ \A s \in StrategyIds : live[s] = "absent" <=> versions[s] = <<>>
    /\ vpc \in [Owners -> {"idle", "insert", "delete", "edit", "publish", "run", "record"}]

VersionsInit ==
    /\ versions = [s \in StrategyIds |-> <<>>]
    /\ live = [s \in StrategyIds |-> "absent"]
    /\ backtests = {}
    /\ vpc = [o \in Owners |-> "idle"]
    /\ req = [o \in Owners |-> NoReq]

Exists(s) == live[s] # "absent"
Drafts(s) == {i \in DOMAIN versions[s] : versions[s][i].status = "draft"}
VersionAt(s, i) == versions[s][i]
readVersionConfig(s, i) == VersionAt(s, i).config

Begin(o, place, s, v, config) ==
    /\ vpc' = [vpc EXCEPT ![o] = place]
    /\ req' = [req EXCEPT ![o] = [s |-> s, v |-> v, config |-> config]]
End(o) == vpc' = [vpc EXCEPT ![o] = "idle"] /\ req' = [req EXCEPT ![o] = NoReq]

\* Locks: nobody else holds the creation lock, the users row, or s's row.
CreationFree(o) == \A p \in Owners \ {o} : vpc[p] # "insert"
UserRowFree(o) == \A p \in Owners \ {o} : vpc[p] # "record"
StrategyRowFree(o, s) == \A p \in Owners \ {o} : ~(vpc[p] \in {"edit", "publish"} /\ req[p].s = s)

----------------------------------------------------------------------------
(* The immutability triggers of migration 0007.                            *)

\* Mutant: no trigger, the service's own checks alone.
strategy_version_unguarded(status) == status # "absent"

strategy_version_guard(status) == status = "draft"
version_config_guard(status) == status = "draft"

----------------------------------------------------------------------------
(* Strategies.                                                             *)

\* createStrategy: the account's advisory lock, then the count.
countStrategies(o, s) ==
    /\ vpc[o] = "idle" /\ ~Exists(s) /\ CreationFree(o)
    /\ Cardinality({t \in StrategyIds : Exists(t)}) < MaxStrategies
    /\ \E config \in Configs : Begin(o, "insert", s, 1, config)
    /\ UNCHANGED <<versions, live, backtests>>

createStrategy(o) ==
    /\ vpc[o] = "insert"
    /\ IF Exists(req[o].s) THEN UNCHANGED <<versions, live>>
       ELSE /\ versions' = [versions EXCEPT ![req[o].s] = <<[status |-> "draft", config |-> req[o].config]>>]
            /\ live' = [live EXCEPT ![req[o].s] = "draft"]
    /\ End(o) /\ UNCHANGED backtests

updateStrategy(s, status) ==
    /\ Exists(s) /\ live[s] # status
    /\ \A o \in Owners : ~(vpc[o] \in {"edit", "publish"} /\ req[o].s = s)
    /\ live' = [live EXCEPT ![s] = status]
    /\ UNCHANGED <<versions, backtests, vpc, req>>

\* deleteStrategy reads that all versions are drafts, without a lock...
checkHistory(o, s) ==
    /\ vpc[o] = "idle" /\ Exists(s) /\ Drafts(s) = DOMAIN versions[s]
    /\ Begin(o, "delete", s, 0, 0)
    /\ UNCHANGED <<versions, live, backtests>>

\* ...and deletes: the cascade meets the trigger if a version is not a draft.
CascadePasses(s) == \A i \in DOMAIN versions[s] : strategy_version_guard(VersionAt(s, i).status)

deleteStrategy(o) ==
    /\ vpc[o] = "delete" /\ StrategyRowFree(o, req[o].s)
    /\ IF Exists(req[o].s) /\ CascadePasses(req[o].s)
       THEN /\ versions' = [versions EXCEPT ![req[o].s] = <<>>]
            /\ live' = [live EXCEPT ![req[o].s] = "absent"]
       ELSE UNCHANGED <<versions, live>>
    /\ End(o) /\ UNCHANGED backtests

----------------------------------------------------------------------------
(* Versions.                                                               *)

\* createVersion under the strategy's row lock: one draft at a time, numbered
\* next, with the configuration of a version of the same strategy if asked.
createVersion(o, s, from) ==
    /\ vpc[o] = "idle" /\ Exists(s) /\ StrategyRowFree(o, s)
    /\ Drafts(s) = {} /\ Len(versions[s]) < MaxVersions
    /\ from \in 0..Len(versions[s])
    /\ versions' = [versions EXCEPT ![s] =
                      Append(@, [status |-> "draft", config |-> IF from = 0 THEN 0 ELSE readVersionConfig(s, from)])]
    /\ UNCHANGED <<live, backtests, vpc, req>>

\* updateVersionConfig: both rows locked and the draft status read, then the
\* configuration rows are replaced, each under the trigger.
lockForEdit(o, s, v, config) ==
    /\ vpc[o] = "idle" /\ Exists(s) /\ StrategyRowFree(o, s)
    /\ v \in DOMAIN versions[s] /\ VersionAt(s, v).status = "draft"
    /\ Begin(o, "edit", s, v, config)
    /\ UNCHANGED <<versions, live, backtests>>

writeVersionConfig(o) ==
    /\ vpc[o] = "edit"
    /\ versions' = [versions EXCEPT ![req[o].s][req[o].v].config =
                      IF version_config_guard(VersionAt(req[o].s, req[o].v).status) THEN req[o].config ELSE @]
    /\ End(o) /\ UNCHANGED <<live, backtests>>

validatePublishable(config) == config # 0

\* publishVersion: the locked draft's configuration is read and validated...
lockForPublish(o, s, v) ==
    /\ vpc[o] = "idle" /\ Exists(s) /\ StrategyRowFree(o, s)
    /\ v \in DOMAIN versions[s] /\ VersionAt(s, v).status = "draft" /\ validatePublishable(readVersionConfig(s, v))
    /\ Begin(o, "publish", s, v, readVersionConfig(s, v))
    /\ UNCHANGED <<versions, live, backtests>>

\* ...and what was validated is published.
publishVersion(o) ==
    /\ vpc[o] = "publish"
    /\ versions' = [versions EXCEPT ![req[o].s][req[o].v].status = "published"]
    /\ End(o) /\ UNCHANGED <<live, backtests>>

deprecateVersion(o, s, v) ==
    /\ vpc[o] = "idle" /\ Exists(s) /\ StrategyRowFree(o, s)
    /\ v \in DOMAIN versions[s] /\ VersionAt(s, v).status = "published"
    /\ versions' = [versions EXCEPT ![s][v].status = "deprecated"]
    /\ UNCHANGED <<live, backtests, vpc, req>>

----------------------------------------------------------------------------
(* Backtests.                                                              *)

\* createBacktest reads the version and runs the engine, without a lock.
runBacktest(o, s, v) ==
    /\ vpc[o] = "idle" /\ Exists(s)
    /\ v \in DOMAIN versions[s] /\ VersionAt(s, v).status # "draft"
    /\ Begin(o, "run", s, v, readVersionConfig(s, v))
    /\ UNCHANGED <<versions, live, backtests>>

\* Its transaction: the users row, the month's count (a replay of a recorded
\* run is refused at the limit too), then the insert.
countBacktests(o) ==
    /\ vpc[o] = "run" /\ UserRowFree(o)
    /\ IF Cardinality(backtests) < MaxBacktests THEN vpc' = [vpc EXCEPT ![o] = "record"] /\ UNCHANGED req
       ELSE End(o)
    /\ UNCHANGED <<versions, live, backtests>>

\* ON CONFLICT DO NOTHING: an existing run of the same inputs wins.
createBacktest(o) ==
    /\ vpc[o] = "record"
    /\ backtests' = IF \E b \in backtests : b.s = req[o].s /\ b.v = req[o].v THEN backtests
                    ELSE backtests \cup {req[o]}
    /\ End(o) /\ UNCHANGED <<versions, live>>

\* A request fails: its transaction is rolled back.
requestFails(o) ==
    /\ vpc[o] # "idle" /\ End(o)
    /\ UNCHANGED <<versions, live, backtests>>

OwnerStep(o, s) ==
    \/ countStrategies(o, s) \/ checkHistory(o, s)
    \/ \E from \in 0..MaxVersions : createVersion(o, s, from)
    \/ \E v \in 1..MaxVersions :
          \/ lockForPublish(o, s, v) \/ deprecateVersion(o, s, v) \/ runBacktest(o, s, v)
          \/ \E config \in Configs : lockForEdit(o, s, v, config)

VersionsNext ==
    \/ \E o \in Owners :
          \/ \E s \in StrategyIds : OwnerStep(o, s)
          \/ createStrategy(o) \/ deleteStrategy(o) \/ writeVersionConfig(o) \/ publishVersion(o)
          \/ countBacktests(o) \/ createBacktest(o) \/ requestFails(o)
    \/ \E s \in StrategyIds : updateStrategy(s, "active") \/ updateStrategy(s, "archived")

VersionsSpec == VersionsInit /\ [][VersionsNext]_versionVars

----------------------------------------------------------------------------
(* Properties.                                                             *)

\* A version that has been published keeps its place and its configuration
\* for ever and can only become deprecated: no edit that read it as a draft,
\* no deletion that saw only drafts, changes it (migration 0007).
PublishedKept ==
    \A s \in StrategyIds : \A i \in DOMAIN versions[s] :
        VersionAt(s, i).status # "draft" =>
           /\ i \in DOMAIN versions'[s]
           /\ versions'[s][i].config = VersionAt(s, i).config /\ validatePublishable(VersionAt(s, i).config)
           /\ \/ versions'[s][i].status = VersionAt(s, i).status
              \/ VersionAt(s, i).status = "published" /\ versions'[s][i].status = "deprecated"

PublishedVersionsFrozen == [][PublishedKept]_versionVars

\* However requests overlap, subscription row or not, the account stays within
\* its strategies and its backtests, and a recorded backtest still describes
\* the version it names.
LimitsSerialized ==
    /\ Cardinality({s \in StrategyIds : Exists(s)}) <= MaxStrategies
    /\ Cardinality(backtests) <= MaxBacktests
    /\ \A b \in backtests : b.v \in DOMAIN versions[b.s] /\ VersionAt(b.s, b.v).config = b.config

\* Versions as a whole.
VersionsAreFrozen == [](VersionsTypeOK /\ LimitsSerialized) /\ PublishedVersionsFrozen
============================================================================
