---------------------------- MODULE MCDelivery ----------------------------
(* From a published strategy version to a delivered alert, and the servers   *)
(* that do the work, for TLC.  A behaviour exercises one component: `focus`  *)
(* says which and never changes; the others rest in an initial state.        *)
EXTENDS NotificationOutbox, NotificationRouting, StrategyVersions, SetupPipeline,
        ServerLifecycle, TLC

CONSTANTS e1, h1, w1, w2    \* model values: jobs and workers

MCJob == {e1, h1}
MCChannelOf == (e1 :> "email") @@ (h1 :> "webhook")
MCWorker == {w1, w2}

\* Workers are interchangeable; used for safety only.
MCSymmetry == Permutations(Worker)

VARIABLE focus

mcVars == <<vars, routingVars, versionVars, setupVars, lifecycleVars, focus>>

-----------------------------------------------------------------------------
(* Setups: one scanner and one request on one strategy; the first candle     *)
(* qualifies long and scores well, the second short and scores poorly.       *)

MCQualifying == {<<"s1", "long", 1>>, <<"s1", "short", 2>>}
MCGoodScore == {<<"s1", "long", 1>>}

(* Routing: one alert, generated while its owner's settings may be edited    *)
(* and the process restarted: two edits with an ordinary secret under one    *)
(* key, one edit when the secret may look like a ciphertext and the key may  *)
(* change.                                                                   *)

MCKeyManagers == [version : {1}, key : {"k1", "k2"}]
MCQuiet == {<<1, 0>>}
OrdinarySecret == keys'.key = "k1" /\ \A c \in RouteChannels : prefs'[c].latest # "v1"

(* Servers: two over one database, a release that adds a migration, and one  *)
(* that changed an applied one; the old server also works and stops.         *)

MCReleases ==
    {[i \in Servers |-> IF i = "old" THEN <<"a", "b">> ELSE <<"a", "b", "c">>],
     [i \in Servers |-> IF i = "old" THEN <<"a", "b">> ELSE <<"a", "x">>]}
MCTickersOf == [i \in Servers |-> IF i = "old" THEN {"scanner", "notifications", "fxSource"} ELSE {}]

ASSUME /\ VersionsAssumption /\ SetupAssumption
       /\ RoutingAssumption /\ ServersAssumption

-----------------------------------------------------------------------------
\* Only the component in focus starts in more than one state.
DeliveryInit ==
    /\ focus \in {"outbox", "versions", "setups", "routing", "secrets", "diagnostic", "servers"}
    /\ Init /\ VersionsInit /\ SetupInit /\ RoutingInit /\ LifecycleInit
    /\ focus # "outbox" => configured = {"webhook"}
    /\ focus # "setups" => subscribed
    /\ focus # "secrets" => keys.key = "k1"
    /\ focus \notin {"routing", "secrets"} => ~prefs["webhook"].stored
    /\ focus # "servers" => Len(release["new"]) = 3

DeliveryNext ==
    \/ /\ focus = "outbox" /\ Next
       /\ UNCHANGED <<routingVars, versionVars, setupVars, lifecycleVars, focus>>
    \/ /\ focus = "versions" /\ VersionsNext
       /\ UNCHANGED <<vars, routingVars, setupVars, lifecycleVars, focus>>
    \/ /\ focus = "setups" /\ SetupNext
       /\ UNCHANGED <<vars, routingVars, versionVars, lifecycleVars, focus>>
    \/ /\ \/ focus = "routing" /\ AlertNext /\ OrdinarySecret
          \/ focus = "secrets" /\ AlertNext /\ edits' <= 1
          \/ focus = "diagnostic" /\ DiagnosticNext
       /\ UNCHANGED <<vars, versionVars, setupVars, lifecycleVars, focus>>
    \/ /\ focus = "servers"
       /\ (\E i \in Servers : BootNext(i)) \/ ServingNext("old")
       /\ UNCHANGED <<vars, routingVars, versionVars, setupVars, focus>>
    \* The other components end where their bounds do.
    \/ focus # "outbox" /\ UNCHANGED mcVars

DeliverySpec == DeliveryInit /\ [][DeliveryNext]_mcVars

\* VersionsAreFrozen (StrategyVersions), AlertsAreOnce (SetupPipeline),
\* AlertsGoWhereConfigured (NotificationRouting) and ServerLifeIsOrderly
\* (ServerLifecycle) are the components' own properties: their variables rest
\* while the focus is elsewhere.
=============================================================================
