------------------------------ MODULE Backtest ------------------------------
(* Backtests: the pure replay of a published version over candleRows candles,    *)
(* and the service that loads the candles, replays, and records the result   *)
(* once per set of inputs and within the plan's monthly allowance.           *)
(*                                                                           *)
(* Times are whole periods, prices whole ticks, 0 a missing price (the code's *)
(* null), R-multiples and ratios ten-thousandths.  The evaluation and the    *)
(* score of one direction at one anchor are the parameter Evaluate (module   *)
(* StrategyEvaluation models them): it sees the closed candles of each role. *)
EXTENDS Integers, Sequences, FiniteSets, SequencesExt, FiniteSetsExt

CONSTANTS
    Period,             \* [Roles -> 1..]: the period of each role's timeframe
    Warmup,             \* [Roles -> Nat]: requiredWindows of the version
    Reads,              \* SUBSET Roles: the roles the version's conditions read
    Evaluate(_, _),     \* (closed candles by role, direction) -> verdict
    Structural,         \* BOOLEAN: takeProfitMethod = 'structure'
    MinQuality,         \* risk.minQualityScore
    MaxSteps,           \* MAX_BACKTEST_STEPS
    MaxRoleCandles,     \* MAX_BACKTEST_ROLE_CANDLES
    MaxTrades,          \* MAX_BACKTEST_TRADES
    PipSize,            \* instrument_risk_specs.pip_size, 0 when there is none
    Requests,           \* the requests made
    Bases,              \* what the candle store holds to begin with
    Prints,             \* the candles the market prints (without a time)
    MaxTime,            \* bound: no candle opens later
    BtCallers, BtMonthly, BtMonths    \* callers, maxBacktestsPerMonth, bound on months

Roles == {"htf_bias", "setup", "entry"}

VARIABLES
    candleRows,         \* [Roles -> Seq(candle)]: the candles table, oldest first
    btRuns,             \* the backtest_runs rows with their trades, oldest first
    btCalls,            \* [BtCallers -> call]
    btMonth             \* the current month

btVars == <<candleRows, btRuns, btCalls, btMonth>>

BacktestAssumption ==
    /\ \A r \in Roles : Period[r] \in Nat \ {0} /\ Warmup[r] \in Nat
    /\ Reads \subseteq Roles /\ MaxSteps \in Nat \ {0} /\ MaxTrades \in Nat

-----------------------------------------------------------------------------
(* Rounding and levels.                                                      *)

Scale == 10000

\* Math.round of a quotient, in ten-thousandths: halves go up.
round4(num, den) == (2 * Scale * num + den) \div (2 * den)

\* A ratio is the set of its value, empty where the code reports null.
Ratio(num, den) == IF den > 0 THEN {round4(num, den)} ELSE {}

mirrorPrice(entry, p) == 2 * entry - p
Positive(p) == IF p > 0 THEN p ELSE 0
shortTarget(entry, p) ==
    LET oriented == IF p < entry THEN p ELSE mirrorPrice(entry, p)
    IN IF p # 0 /\ oriented > 0 /\ oriented < entry THEN oriented ELSE 0

\* setups/levels.ts: a candidate oriented for its direction.
detectionLevels(candidate, direction) ==
    IF direction = "long"
    THEN [entry |-> Positive(candidate.entry), stop |-> Positive(candidate.stop),
          tp |-> [n \in 1..3 |-> Positive(candidate.tp[n])]]
    ELSE LET stop == IF candidate.stop > candidate.entry THEN candidate.stop
                     ELSE mirrorPrice(candidate.entry, candidate.stop)
         IN [entry |-> Positive(candidate.entry), stop |-> IF stop > candidate.entry THEN stop ELSE 0,
             tp |-> [n \in 1..3 |-> shortTarget(candidate.entry, candidate.tp[n])]]

-----------------------------------------------------------------------------
(* The replay.                                                               *)

ClosesBy(candles, period, t) == Cardinality({i \in DOMAIN candles : candles[i].time + period <= t})

\* The anchors of [from, to): the closes of setup candles, the first MaxSteps of them.
anchorsInRange(setup, from, to) ==
    LET closes == [i \in DOMAIN setup |-> setup[i].time + Period["setup"]]
    IN SelectSeq(closes, LAMBDA t : from <= t /\ t < to)
Evaluated(anchors) == SubSeq(anchors, 1, Min({Len(anchors), MaxSteps}))

\* A role the version reads has candles, and they are not used up before the anchor.
assertRoleCoverage(candles, role, anchor) ==
    role \in Reads =>
        /\ candles # <<>>
        /\ ~ /\ ClosesBy(candles, Period[role], anchor) = Len(candles)
             /\ Last(candles).time + Period[role] < anchor

takeProfit == <<"take_profit_1", "take_profit_2", "take_profit_3">>

isStopTouched(direction, c, p) == IF direction = "long" THEN c.low <= p ELSE c.high >= p
isTargetTouched(direction, c, p) == IF direction = "long" THEN c.high >= p ELSE c.low <= p

\* The target the exit policy aims at, by number; 0 for none.
selectTarget(policy, levels) ==
    CASE policy.take = 0 -> 0
      [] policy.take = 3 /\ levels.tp[3] = 0 -> IF Structural /\ levels.tp[1] # 0 THEN 1 ELSE 0
      [] OTHER -> IF levels.tp[policy.take] # 0 THEN policy.take ELSE 0

totalCostPips(q) == 2 * (q.fee + q.slippage) + q.spread

\* The exit of a trade entered at candle `from` - 1: the first later candle, inside
\* the range, that touches the stop or the target or ends the hold; stop first.
Exit(setup, from, to, direction, levels, policy) ==
    LET target == selectTarget(policy, levels)
        inside == {i \in from..Len(setup) : setup[i].time + Period["setup"] <= to}
        stopped(i) == policy.stop /\ isStopTouched(direction, setup[i], levels.stop)
        reached(i) == target # 0 /\ isTargetTouched(direction, setup[i], levels.tp[target])
        ends == {i \in inside : stopped(i) \/ reached(i) \/ i - from + 1 = policy.maxHold}
        at(i) == setup[i].time + Period["setup"]
    IN IF ends # {}
       THEN LET i == Min(ends)
            IN CASE stopped(i) -> [reason |-> "stop_loss", price |-> levels.stop, at |-> at(i)]
                 [] ~stopped(i) /\ reached(i) ->
                        [reason |-> takeProfit[target], price |-> levels.tp[target], at |-> at(i)]
                 [] OTHER -> [reason |-> "max_hold", price |-> setup[i].close, at |-> at(i)]
       ELSE IF inside # {}
            THEN [reason |-> "range_end", price |-> setup[Max(inside)].close, at |-> at(Max(inside))]
            ELSE [reason |-> "range_end", price |-> levels.entry, at |-> 0]

simulateTrade(setup, setupEnd, anchor, direction, verdict, q) ==
    LET levels == detectionLevels(verdict.candidate, direction)
        base == [direction |-> direction, signal |-> anchor, levels |-> levels, score |-> verdict.score]
        risk == IF levels.entry > levels.stop THEN levels.entry - levels.stop ELSE levels.stop - levels.entry
    IN IF levels.entry = 0 \/ levels.stop = 0 \/ risk = 0
       THEN base @@ [reason |-> "no_levels", price |-> 0, at |-> 0, pnlR |-> 0]
       ELSE LET e == Exit(setup, setupEnd + 1, q.to, direction, levels, q.policy)
                move == IF direction = "long" THEN e.price - levels.entry ELSE levels.entry - e.price
            IN base @@ [reason |-> e.reason, price |-> e.price, at |-> IF e.at = 0 THEN anchor ELSE e.at,
                        pnlR |-> round4(move - totalCostPips(q.cost) * PipSize, risk)]

\* What one anchor contributes: the directions that pass and score enough.
TradesAt(candles, anchor, q) ==
    LET ends == [r \in Roles |-> ClosesBy(candles[r], Period[r], anchor)]
        closed == [r \in Roles |-> SubSeq(candles[r], 1, ends[r])]
        trade(d) == LET verdict == Evaluate(closed, d)
                    IN IF verdict.passed /\ verdict.score >= MinQuality
                       THEN <<simulateTrade(candles["setup"], ends["setup"], anchor, d, verdict, q)>>
                       ELSE <<>>
    IN (IF q.direction # "short" THEN trade("long") ELSE <<>>) \o
       (IF q.direction # "long" THEN trade("short") ELSE <<>>)

computeMetrics(trades, steps) ==
    LET closed == SelectSeq(trades, LAMBDA t : t.reason # "no_levels")
        pnl == [k \in DOMAIN closed |-> closed[k].pnlR]
        wins == {k \in DOMAIN pnl : pnl[k] > 0}
        losses == {k \in DOMAIN pnl : pnl[k] < 0}
        gross(S) == MapThenSumSet(LAMBDA k : pnl[k], S)
        equity[k \in 0..Len(pnl)] == IF k = 0 THEN 0 ELSE equity[k - 1] + pnl[k]
        drawdowns == UNION {{equity[i] - equity[j] : i \in 0..j} : j \in 0..Len(pnl)}
        total == equity[Len(pnl)]
    IN [steps |-> steps, setups |-> Len(trades), closed |-> Len(closed),
        wins |-> Cardinality(wins), losses |-> Cardinality(losses), totalR |-> total,
        winRate |-> Ratio(Cardinality(wins), Len(closed)),
        expectancyR |-> Ratio(total, Len(closed) * Scale),
        profitFactor |-> Ratio(gross(wins), -gross(losses)),
        maxDrawdownR |-> IF closed = <<>> THEN {} ELSE {Max(drawdowns)}]

Refused == [ok |-> FALSE, trades |-> <<>>, metrics |-> computeMetrics(<<>>, 0)]

\* runBacktest: refused without a pip size for its costs, or with a role not covered.
runBacktest(candles, q) ==
    LET anchors == Evaluated(anchorsInRange(candles["setup"], q.from, q.to))
        covered == \A k \in DOMAIN anchors : \A r \in {"htf_bias", "entry"} :
                       assertRoleCoverage(candles[r], r, anchors[k])
        trades == FlattenSeq([k \in DOMAIN anchors |-> TradesAt(candles, anchors[k], q)])
    IN IF ~covered \/ (totalCostPips(q.cost) > 0 /\ PipSize = 0) THEN Refused
       ELSE [ok |-> TRUE, trades |-> trades, metrics |-> computeMetrics(trades, Len(anchors))]

-----------------------------------------------------------------------------
(* What the service loads.                                                   *)

queryCandles(candles, from, to, limit) ==
    LET rows == SelectSeq(candles, LAMBDA c : from <= c.time /\ c.time < to)
    IN SubSeq(rows, 1, Min({Len(rows), limit}))

WarmFrom(role, from) == Max({0, from - (Warmup[role] + 1) * Period[role]})

setupCoverageWindow(q) ==
    [from |-> WarmFrom("setup", q.from), to |-> q.to,
     limit |-> Warmup["setup"] + 1 + MaxSteps + q.policy.maxHold + 2]

anchorHorizonMs(setup, q) ==
    LET anchors == Evaluated(anchorsInRange(setup, q.from, q.to))
    IN IF anchors = <<>> THEN q.from ELSE Last(anchors)

roleCoverageWindow(role, from, horizon) ==
    LET start == WarmFrom(role, from)
        end == horizon + Period[role]
    IN [from |-> start, to |-> end,
        limit |-> Warmup[role] + 2 + (end - start + Period[role] - 1) \div Period[role]]

Through(candles, w) == queryCandles(candles, w.from, w.to, w.limit)

\* The other roles, loaded once the setup candles say how far the replay goes.
loadRoles(candles, setup, q) ==
    [r \in Roles |->
        CASE r = "setup" -> setup
          [] r # "setup" /\ r \in Reads ->
                Through(candles[r], roleCoverageWindow(r, q.from, anchorHorizonMs(setup, q)))
          [] OTHER -> <<>>]

assertWithinRoleCap(w) == w.limit <= MaxRoleCandles
WithinCaps(setup, q) ==
    \A r \in Reads \ {"setup"} : assertWithinRoleCap(roleCoverageWindow(r, q.from, anchorHorizonMs(setup, q)))

-----------------------------------------------------------------------------
(* The service.  A call is a request under way.                              *)

Idle == [at |-> "idle"]
TheKey(q) == [from |-> q.from, to |-> q.to, direction |-> q.direction, policy |-> q.policy, cost |-> q.cost]
ThisMonth == Cardinality({i \in DOMAIN btRuns : btRuns[i].month = btMonth})
Recorded(q) == {i \in DOMAIN btRuns : TheKey(btRuns[i].req) = TheKey(q)}
Answer(run, created) ==
    [created |-> created, trades |-> run.trades, metrics |-> run.metrics,
     truncated |-> run.metrics.setups > Len(run.trades)]

BtInit ==
    /\ candleRows \in Bases
    /\ btRuns = <<>> /\ btMonth = 1
    /\ btCalls = [c \in BtCallers |-> Idle]

SetCall(c, call) == btCalls' = [btCalls EXCEPT ![c] = call]

\* Ingestion appends the next candle of a role, possibly after a pause of the market.
storeCandle(r, shape, pause) ==
    LET t == IF candleRows[r] = <<>> THEN 0 ELSE Last(candleRows[r]).time + (1 + pause) * Period[r]
    IN /\ t <= MaxTime
       /\ candleRows' = [candleRows EXCEPT ![r] = Append(@, shape @@ [time |-> t])]
       /\ UNCHANGED <<btRuns, btCalls, btMonth>>

\* The route's own look at the allowance, before anything is computed.
RouteAllows == ThisMonth < BtMonthly

\* The route's look, the checks on the range, and the setup candles.
beginBacktest(c, q) ==
    LET w == setupCoverageWindow(q)
    IN /\ btCalls[c].at = "idle"
       /\ IF RouteAllows /\ q.from < q.to /\ assertWithinRoleCap(w)
          THEN SetCall(c, [at |-> "loaded", req |-> q, setup |-> Through(candleRows["setup"], w)])
          ELSE SetCall(c, [at |-> "refused"])
       /\ UNCHANGED <<candleRows, btRuns, btMonth>>

\* The other roles are loaded and the replay runs.
replayBacktest(c) ==
    /\ btCalls[c].at = "loaded"
    /\ LET call == btCalls[c]
           result == runBacktest(loadRoles(candleRows, call.setup, call.req), call.req)
       IN IF WithinCaps(call.setup, call.req) /\ result.ok
          THEN SetCall(c, [at |-> "replayed", req |-> call.req, result |-> result])
          ELSE SetCall(c, [at |-> "refused"])
    /\ UNCHANGED <<candleRows, btRuns, btMonth>>

\* The limit, looked at with the user's row locked.
AllowanceLeft == ThisMonth < BtMonthly

\* The recording transaction: the user's row is locked, so it is one step.  Over
\* the limit nothing is written; inputs already recorded return the record.
persistBacktest(c) ==
    /\ btCalls[c].at = "replayed"
    /\ LET call == btCalls[c]
           run == [req |-> call.req, month |-> btMonth, metrics |-> call.result.metrics,
                   trades |-> SubSeq(call.result.trades, 1, Min({Len(call.result.trades), MaxTrades}))]
       IN \/ ~AllowanceLeft /\ SetCall(c, [at |-> "refused"]) /\ UNCHANGED btRuns
          \/ /\ AllowanceLeft /\ Recorded(call.req) = {}
             /\ btRuns' = Append(btRuns, run)
             /\ SetCall(c, [at |-> "answered", req |-> call.req, answer |-> Answer(run, TRUE)])
          \/ \E i \in Recorded(call.req) :
             /\ AllowanceLeft
             /\ SetCall(c, [at |-> "answered", req |-> call.req, answer |-> Answer(btRuns[i], FALSE)])
             /\ UNCHANGED btRuns
    /\ UNCHANGED <<candleRows, btMonth>>

\* The transaction fails and rolls back, or the process dies: nothing is kept.
failBacktest(c) ==
    /\ btCalls[c].at \in {"loaded", "replayed"}
    /\ SetCall(c, Idle)
    /\ UNCHANGED <<candleRows, btRuns, btMonth>>

nextMonth == btMonth < BtMonths /\ btMonth' = btMonth + 1 /\ UNCHANGED <<candleRows, btRuns, btCalls>>

StoreNext == \E r \in Roles, shape \in Prints, pause \in 0..1 : storeCandle(r, shape, pause)
ServiceNext ==
    \/ \E c \in BtCallers : \/ \E q \in Requests : beginBacktest(c, q)
                            \/ replayBacktest(c) \/ persistBacktest(c) \/ failBacktest(c)
    \/ nextMonth

-----------------------------------------------------------------------------
\* However calls race, a month never holds more runs than the plan allows
\* (the count is taken with the user's row locked), a set of inputs has one
\* run, and everyone who asked for it was answered with what it records, also
\* when the candles have changed since.
BacktestsRecordedOnce ==
    /\ \A m \in 1..BtMonths : Cardinality({i \in DOMAIN btRuns : btRuns[i].month = m}) <= BtMonthly
    /\ \A i, j \in DOMAIN btRuns : TheKey(btRuns[i].req) = TheKey(btRuns[j].req) => i = j
    /\ \A c \in BtCallers : btCalls[c].at = "answered" =>
         \E i \in DOMAIN btRuns :
             /\ TheKey(btRuns[i].req) = TheKey(btCalls[c].req)
             /\ btCalls[c].answer = Answer(btRuns[i], btCalls[c].answer.created)

GapFree(candles, period) ==
    \A i \in 1..Len(candles) - 1 : candles[i + 1].time = candles[i].time + period

\* The windows the service loads are enough: on a market without pauses the
\* replay of what was loaded is the replay of everything stored.
LoadedIsEnough ==
    (\A r \in Roles : GapFree(candleRows[r], Period[r])) =>
        \A q \in Requests :
            LET all == [r \in Roles |-> IF r \in Reads \cup {"setup"} THEN candleRows[r] ELSE <<>>]
            IN runBacktest(loadRoles(candleRows, Through(candleRows["setup"], setupCoverageWindow(q)), q), q)
               = runBacktest(all, q)

\* The numbers of a run agree with one another: no closed trade is counted
\* twice, a profit factor above one means money made, the deepest fall is at
\* least what was lost in the end, a stopped trade never loses less than its
\* risk, and no trade leaves with a profit through a candle that touched its stop.
MetricsAddUp ==
    \A q \in Requests : \A result \in {runBacktest(candleRows, q)} : result.ok =>
        \A m \in {result.metrics} :
            /\ m.wins + m.losses <= m.closed /\ m.closed <= m.setups
            /\ \A f \in m.profitFactor : f > Scale => m.totalR > 0
            /\ \A d \in m.maxDrawdownR : d >= -m.totalR /\ d >= 0
            /\ \A k \in DOMAIN result.trades : \A t \in {result.trades[k]} :
                   /\ t.reason = "stop_loss" => t.pnlR <= -Scale
                   /\ q.policy.stop /\ t.pnlR > 0 =>
                        \A i \in DOMAIN candleRows["setup"] : \A c \in {candleRows["setup"][i]} :
                            c.time >= t.signal /\ c.time < t.at => ~isStopTouched(t.direction, c, t.levels.stop)

\* Everything stored that has closed by t.
ClosedBy(candles, period, t) == Len(SelectSeq(candles, LAMBDA c : c.time + period <= t))
ClosedStore(t) == [r \in Roles |-> SubSeq(candleRows[r], 1, ClosedBy(candleRows[r], Period[r], t))]

\* No look-ahead: the same trades are signalled, on the same levels, by a store
\* that ends at their anchor.
SignalsNeedNoFuture ==
    \A q \in Requests : \A result \in {runBacktest(candleRows, q)} : result.ok =>
        \A k \in DOMAIN result.trades : \A t \in {result.trades[k]} :
            \E early \in ToSet(TradesAt(ClosedStore(t.signal), t.signal, q)) :
                early.direction = t.direction /\ early.levels = t.levels /\ early.score = t.score

\* A replay sees no future and no stale past: when candles arrive, in whatever
\* order the roles get them, the trades a replay of the same range had stay,
\* those already closed with the same exit, and new ones come later.
DecidedTradesStand ==
    [][candleRows' # candleRows => \A q \in Requests : \A a \in {runBacktest(candleRows, q)}, b \in {runBacktest(candleRows', q)} :
          a.ok /\ b.ok =>
            /\ \A k \in DOMAIN a.trades :
                 /\ k \in DOMAIN b.trades
                 /\ b.trades[k].signal = a.trades[k].signal
                 /\ b.trades[k].direction = a.trades[k].direction
                 /\ a.trades[k].reason # "range_end" => b.trades[k] = a.trades[k]
            /\ \A k \in DOMAIN b.trades \ DOMAIN a.trades :
                 \A i \in DOMAIN candleRows["setup"] : b.trades[k].signal > candleRows["setup"][i].time + Period["setup"]
      ]_candleRows
=============================================================================
