---------------------------- MODULE MCExecution ----------------------------
(* The execution layer around a provider mutation, for TLC.  A behaviour     *)
(* exercises one component: `focus` says which and never changes.  The       *)
(* submission lineage (ProviderMutations), the stops (SafetyControls), the   *)
(* transport (SafeTransport), the paper books (PaperBooks) and composed      *)
(* entries (ComposedEntry) keep their own variables; the reconciliation,     *)
(* which is examined with two sets of constants, admission and the risk      *)
(* ledger are instantiated on the slots v1 .. v7.                            *)
EXTENDS MCProviderMutations, SafetyControls, SafeTransport, PaperBooks, ComposedEntry

VARIABLES focus, v1, v2, v3, v4, v5, v6, v7

slots == <<v1, v2, v3, v4, v5, v6, v7>>
mcVars == <<vars, safetyVars, paperVars, transportVars, entryVars, focus, slots>>

Others == UNCHANGED <<vars, safetyVars, paperVars, transportVars, entryVars, focus>>

-----------------------------------------------------------------------------
(* The paper books: two callers, one of them with injected fill failures, on *)
(* a setup and on one whose levels are on the wrong side; bars that touch    *)
(* nothing, both levels, and one that is not a bar.                          *)

Levels(way) == [state |-> "confirmed", direction |-> way, entry |-> 6, stop |-> 4,
                target |-> 8, quality |-> 7, minimum |-> 7]
TwoSetups == ("s" :> Levels("long")) @@ ("bad" :> Levels("short"))
Bar(high, low, close) == [high |-> high, low |-> low, close |-> close]
ThreeBars == {Bar(7, 5, 6), Bar(9, 3, 5), Bar(1, 2, 1)}

-----------------------------------------------------------------------------
(* The bridge transport: one execution, a replayed and a conflicting submit, *)
(* two cancels.                                                              *)

Wire(id, op, fingerprint) == [id |-> id, op |-> op, execution |-> "x", fingerprint |-> fingerprint]

MCRequests == {Wire(1, "submit", "f"), Wire(2, "submit", "f"), Wire(2, "submit", "g"),
               Wire(3, "cancel", "o"), Wire(4, "cancel", "o")}

-----------------------------------------------------------------------------
(* Reconciliation, twice: every pair of small books against one run, and two *)
(* sessions with two reviewers racing over one uncertain order.              *)

Fn(S, R) == UNION {[D -> R] : D \in SUBSET S}
OrderRows == [status : {"submitted", "accepted", "filled"}, provider : {"none", "p1"}]
             \cup [status : {"rejected"}, provider : {"none"}]
PlacedRows == [client : {"none", "o1"}, status : {"uncertain", "accepted", "rejected"}, differs : {{}}]
              \cup [client : {"o1"}, status : {"accepted"}, differs : {{"averagePrice"}}]
PositionRows == [status : {"open", "closed"}, provider : {"none", "p1"}, shape : {1}]
OpenRows == [shape : {1, 2}, differs : {{}, {"stopLossPrice"}}]

\* A provider id belongs to one internal row, and the client id the provider
\* echoes for it is that row's.
Coherent(b) ==
    /\ \A o, p \in DOMAIN b.orders :
          b.orders[o].provider = b.orders[p].provider /\ b.orders[o].provider # "none" => o = p
    /\ \A o \in DOMAIN b.orders :
          b.orders[o].provider \in DOMAIN b.placed =>
              b.placed[b.orders[o].provider].client \in {"none", o}

OrderBooks == {b \in [orders : Fn({"o1", "o2"}, OrderRows), placed : Fn({"p1", "p2"}, PlacedRows),
                      positions : {<<>>}, open : {<<>>}] : Coherent(b)}
PositionBooks == [orders : {<<>>}, placed : {<<>>}, positions : Fn({"q1", "q2"}, PositionRows),
                  open : Fn({"p1", "p2"}, OpenRows)]
OneBook == {[orders |-> [o \in {"o1"} |-> [status |-> "submitted", provider |-> "none"]],
             placed |-> <<>>, positions |-> <<>>, open |-> <<>>]}

Compared == INSTANCE Reconciliation WITH
    OrderSeq <- <<"o1", "o2">>, PositionSeq <- <<"q1", "q2">>, ProviderIds <- {"p1", "p2"},
    Books <- OrderBooks \cup PositionBooks, Reconcilers <- {w1}, Reviewers <- {}, Window <- 2,
    MaxClock <- 0, MaxReviews <- 0, MaxDrifts <- 1,
    books <- v1, runs <- v2, session <- v3, review <- v4, time <- v5

Reviewed == INSTANCE Reconciliation WITH
    OrderSeq <- <<"o1">>, PositionSeq <- <<>>, ProviderIds <- {"p1"},
    Books <- OneBook, Reconcilers <- MCWorker, Reviewers <- {"ann", "bob"}, Window <- 1,
    MaxClock <- 1, MaxReviews <- 2, MaxDrifts <- 0,
    books <- v1, runs <- v2, session <- v3, review <- v4, time <- v5

-----------------------------------------------------------------------------
(* Admission: every decision of a small price grid, and two intakes of one key. *)

PriceGrid == 0..4
SizeGrid == 0..6
TwoIntakes == {"c1", "c2"}
Brought == [direction : {"long"}, entry : {2}, stop : {1, 2}, target : {3, 4}, rr : {2}]

Admission == INSTANCE OrderAdmission WITH
    Prices <- PriceGrid, MinRr <- 2, Sizes <- SizeGrid, IntakeCallers <- TwoIntakes, Submitted <- Brought,
    probe <- v1, intake <- v2, stored <- v3, held <- v4

-----------------------------------------------------------------------------
(* Composed entries: two calls on one setup, of its owner and of another     *)
(* user, with a wrong direction, a closing action, a cited decision and a    *)
(* profile that is not paper.                                                *)

Ask(user, place, action, cited) ==
    [user |-> user, profile |-> place, setup |-> "s1", action |-> action, cited |-> cited]

Asked == {Ask("u1", "p", "none", 0), Ask("u1", "p", "open_short", 0), Ask("u1", "p", "invalid", 0),
          Ask("u1", "d", "none", 0), Ask("u1", "p", "none", 9), Ask("u2", "p", "none", 0)}
OwnerOf == [x \in {"p", "d"} |-> "u1"]
ProviderOf == [x \in {"p", "d"} |-> IF x = "p" THEN "paper" ELSE "demo"]
StrategyOwner == [x \in {"s1"} |-> "u1"]
DirectionOf == [x \in {"s1"} |-> "open_long"]
ThreeScores == {0, 1, 2}
TwoSizes == {0, 1}

-----------------------------------------------------------------------------
(* The risk ledger over two weeks of two days, closes of one unit won or     *)
(* lost, a row from before drawdown was tracked; and cases of the engine     *)
(* around every cap.                                                         *)

Threshold(pair) == [warn |-> pair[1], limit |-> pair[2]]
Drawdown(day, week, ever) ==
    [daily |-> Threshold(day), weekly |-> Threshold(week), max |-> Threshold(ever)]
DefaultLimits == Drawdown(<<20, 30>>, <<30, 40>>, <<40, 50>>)
TightLimits == Drawdown(<<5, 10>>, <<10, 20>>, <<10, 20>>)

LegacyRow == [day |-> 0, week |-> 0, initial |-> 0, cumulative |-> 0, daily |-> -1, weekly |-> -1,
              streak |-> 1, peak |-> 0, high |-> 0, open |-> 0,
              pct |-> [daily |-> 0, weekly |-> 0, max |-> 0], initialized |-> FALSE, touched |-> 0]

QuoteSpec == [contract |-> 4, mode |-> "quote_linear", min |-> 2, step |-> 2, max |-> 30]
BaseSpec == [QuoteSpec EXCEPT !.mode = "base_linear", !.step = 3, !.max = 12]
Held(id, symbol, direction, quantity, stop) ==
    [id |-> id, symbol |-> symbol, direction |-> direction, quantity |-> quantity, entry |-> 8,
     stop |-> stop, specified |-> TRUE, spec |-> QuoteSpec]
Kept(id, symbol, amount) == [id |-> id, symbol |-> symbol, direction |-> "long", risk |-> amount]
Caps(trade, total, instrument, direction, group) ==
    [trade |-> trade, daily |-> 20, weekly |-> 30, total |-> total, instrument |-> instrument,
     direction |-> direction, group |-> group]
Group(members, cap, known) == [members |-> members, cap |-> cap, known |-> known]
NoWindows == {<<-1, -1>>}

CrowdedCases ==
    [symbol : {"A"}, direction : {"long"}, gates : {{}}, close : {FALSE}, hour : {2},
     windows : {NoWindows, {<<22, 3>>}, {<<2, 2>>}}, equity : {40, 90}, daily : {0, 6}, weekly : {6},
     pct : {Caps(10, 40, 20, 30, 25), Caps(20, 20, 30, 15, 40)}, maxRisk : {0, 5}, positions : {3},
     held : {{}, {Held(1, "A", "long", 4, 5)}, {Held(1, "B", "short", 4, 0)},
             {Held(1, "B", "long", 6, 4), Held(2, "A", "short", 4, 6)}},
     reserved : {{}, {Kept(1, "A", 4)}, {Kept(1, "B", 7)}},
     groups : {{}, {Group({"A", "B"}, 0, TRUE)}, {Group({"A"}, 15, TRUE)}, {Group({}, 0, FALSE)}},
     correlationRequired : BOOLEAN, entry : {9}, stop : {6}, spec : {QuoteSpec, BaseSpec}]
EmptyCases ==
    [symbol : {"A"}, direction : {"long"}, gates : {{}, {"KILL_SWITCH_ACTIVE"}}, close : BOOLEAN, hour : {2},
     windows : {NoWindows}, equity : {0, 40, 70, 90}, daily : {0}, weekly : {0},
     pct : {Caps(10, 40, 40, 40, 40), Caps(30, 40, 40, 40, 40)}, maxRisk : {0, 5}, positions : {3},
     held : {{}}, reserved : {{}}, groups : {{}}, correlationRequired : {FALSE},
     entry : {6, 7, 9}, stop : {3, 6, 7}, spec : {QuoteSpec, BaseSpec}]

OneProfile == {"p1"}
WinOrLose == {-1, 1}
EitherLimits == {DefaultLimits, TightLimits}
PlatformCeiling == [daily |-> 50, weekly |-> 60, max |-> 70]
OtherLimits == [daily |-> 25, weekly |-> 50, streak |-> 3, positions |-> 2]
OldRows == {LegacyRow}
AllCases == CrowdedCases \cup EmptyCases

Risk == INSTANCE RiskLedger WITH
    DecScale <- 4, Profiles <- OneProfile, PaperEquity <- 8, PlValues <- WinOrLose,
    LimitChoices <- EitherLimits, DefaultDrawdown <- DefaultLimits,
    DrawdownCeiling <- PlatformCeiling, LossLimits <- OtherLimits,
    DaysPerWeek <- 2, MaxDay <- 2, MaxLag <- 1, MaxCloses <- 3, PctScale <- 1,
    LegacyRows <- OldRows, RiskCases <- AllCases,
    policy <- v1, account <- v2, holdings <- v3, breaker <- v4, decision <- v5,
    today <- v6, considered <- v7

ASSUME /\ TransportAssumption /\ EntryAssumption
       /\ Compared!ReconciliationAssumption
       /\ Reviewed!ReconciliationAssumption
       /\ Admission!AdmissionAssumption /\ Risk!DecAssumption /\ Risk!RiskAssumption

-----------------------------------------------------------------------------
LastTwoEmpty == v6 = 0 /\ v7 = 0

\* Only the component in focus starts in more than one state.
ExecutionInit ==
    /\ Init /\ SafetyInit /\ PaperInit /\ TransportInit
    /\ \/ focus \in {"lineage", "stops", "fence", "trades", "sweep", "transport", "composed"}
          /\ v1 = 0 /\ v2 = 0 /\ v3 = 0 /\ v4 = 0 /\ v5 = 0 /\ LastTwoEmpty
       \/ focus = "compared" /\ Compared!ReconInit /\ LastTwoEmpty
       \/ focus = "reviewed" /\ Reviewed!ReconInit /\ LastTwoEmpty
       \/ focus = "admission" /\ Admission!AdmissionInit /\ v5 = 0 /\ LastTwoEmpty
       \/ focus = "risk" /\ Risk!RiskInit
    /\ focus \notin {"trades", "sweep"} => candleRows[1] = Bar(7, 5, 6)
    /\ focus # "composed" => input = [c \in Composers |-> NoComposition.snap]
    /\ ComposedInit

ExecutionNext ==
    \/ focus = "lineage" /\ Next /\ UNCHANGED <<safetyVars, paperVars, transportVars, entryVars, focus, slots>>
    \* The stops: two writers at a time, or one writer and an entry.
    \/ focus = "stops" /\ SafetyNext /\ UNCHANGED <<attempt, vars, paperVars, transportVars, entryVars, focus, slots>>
    \/ focus = "fence" /\ SafetyNext /\ UNCHANGED <<vars, paperVars, transportVars, entryVars, focus, slots>>
                       /\ Cardinality({t \in Txs : tx'[t].at # "idle"}) <= 1
    \/ focus = "trades" /\ TradeNext /\ UNCHANGED <<vars, safetyVars, transportVars, entryVars, focus, slots>>
    \* The sweep reads beside the trades of the first two instants.
    \/ focus = "sweep" /\ PaperNext /\ now' < MaxNow /\ UNCHANGED <<vars, safetyVars, transportVars, entryVars, focus, slots>>
    \/ focus = "transport" /\ TransportNext /\ UNCHANGED <<vars, safetyVars, paperVars, entryVars, focus, slots>>
    \/ focus = "composed" /\ ComposedNext /\ UNCHANGED <<vars, safetyVars, paperVars, transportVars, focus, slots>>
    \/ focus = "compared" /\ Compared!ReconNext /\ Others /\ UNCHANGED <<v6, v7>>
    \/ focus = "reviewed" /\ Reviewed!ReconNext /\ Others /\ UNCHANGED <<v6, v7>>
    \/ focus = "admission" /\ Admission!AdmissionNext /\ Others /\ UNCHANGED <<v5, v6, v7>>
    \/ focus = "risk" /\ Risk!RiskNext /\ Others

ExecutionSpec == ExecutionInit /\ [][ExecutionNext]_mcVars

\* The risk ledger alone.
RiskOnlySpec == (ExecutionInit /\ focus = "risk") /\ [][ExecutionNext]_mcVars

-----------------------------------------------------------------------------
\* Reconciliation's promises on what a run says, when runs start and how a
\* review changes an account's status.
ReconciliationIsHonest ==
    /\ focus = "compared" => Compared!ReconTypeOK /\ Compared!ReconciliationIsHonest
    /\ focus = "reviewed" => Reviewed!ReconTypeOK /\ Reviewed!ReconciliationIsHonest

\* What is admitted and approved: OrderAdmission's promises on the gates, the
\* intake and the bridge checks, and RiskLedger's, that the account row is the
\* account's history and what the engine approves is within every cap.
ApprovalsAreSound ==
    /\ focus = "admission" => Admission!AdmittedOrdersAreSound /\ Admission!BridgeRefusesDoubt
    /\ focus = "risk" => Risk!RiskTypeOK /\ Risk!AccountStaysCoherent /\ Risk!ApprovedWithinEveryCap

\* docs/milestones.md: drawdown thresholds are "User-editable within platform
\* ceilings".  No trade is approved on an account whose drawdown has reached a
\* hard stop its user configured (RiskLedger's evaluate).
ConfiguredLimitsBind == focus = "risk" => Risk!ConfiguredLimitsBind
=============================================================================
