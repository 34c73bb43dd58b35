------------------------------ MODULE MCMarket ------------------------------
(* The market side and the broker's wire, for TLC: scanner runs, candle      *)
(* ingestion, what the candles go through, the evaluation of strategies,     *)
(* backtests, and the broker path.  A behaviour exercises one component: `focus` says which *)
(* and never changes; the variables of the others keep their initial values. *)
EXTENDS ScannerRuns, CandleIngestion, BrokerSubmit, StrategyEvaluation, SequencesExt, TLC

CONSTANTS w1, w2, c1, c2    \* model values: sessions and calls

VARIABLES focus, feed, candleRows, btRuns, btCalls, btMonth

backtestVars == <<candleRows, btRuns, btCalls, btMonth>>
componentVars == <<scannerVars, ingestVars, brokerVars, evaluationVars, feed, backtestVars>>
mcVars == <<focus, componentVars>>

MCWorkers == {w1, w2}
MCWarmers == {w1}
MCClients == {c1, c2}

-----------------------------------------------------------------------------
(* Candles.  The market prints four shapes and their mirror images, after    *)
(* nothing, after a rising market or after a rest.                           *)

Candle(o, h, l, c) == [open |-> o, high |-> h, low |-> l, close |-> c]
HalfShapes == {Candle(5, 9, 5, 8), Candle(6, 7, 4, 5), Candle(6, 9, 5, 6), Candle(8, 9, 8, 9)}
MCShapes == HalfShapes \cup {Mirrored(c) : c \in HalfShapes}
Rising == <<Candle(2, 3, 2, 3), Candle(3, 5, 3, 4), Candle(4, 4, 2, 3), Candle(5, 7, 5, 6), Candle(6, 6, 3, 4)>>
Resting == <<Candle(5, 9, 1, 5), Candle(7, 8, 7, 8), Candle(7, 8, 7, 8), Candle(8, 8, 7, 7)>>
Falling == [i \in DOMAIN Rising |-> Mirrored(Rising[i])]
MCHistories == {<<>>, <<Candle(5, 9, 5, 8), Candle(6, 7, 4, 5)>>, Rising, Falling, Resting}

Of(t) == [type |-> t, offset |-> 0]
MCConditions ==
    {Of("liquidity_sweep") @@ [side |-> "above", lookback |-> 4, wickTenths |-> 3],
     Of("choch") @@ [direction |-> "bullish", lookback |-> 8, displaced |-> FALSE],
     Of("bos") @@ [direction |-> "bearish", lookback |-> 8, displaced |-> TRUE],
     Of("bos") @@ [direction |-> "either", lookback |-> 8, displaced |-> FALSE],
     Of("break_retest") @@ [direction |-> "either", maxRetest |-> 2, hundredths |-> 10],
     Of("order_block") @@ [kind |-> "bullish", validation |-> "mitigation", maxAge |-> 4],
     Of("order_block") @@ [kind |-> "bullish", validation |-> "break", maxAge |-> 4],
     Of("fvg") @@ [kind |-> "bullish", gapPct |-> 0, mitigation |-> FALSE],
     Of("support") @@ [lookback |-> 8, minTouches |-> 2],
     Of("supply") @@ [source |-> "swing", minTouches |-> 1],
     Of("supply") @@ [source |-> "order_block", minTouches |-> 1],
     Of("supply") @@ [source |-> "consolidation", minTouches |-> 1],
     Of("rejection_candle") @@ [direction |-> "bullish", ratio |-> 1],
     [type |-> "engulfing_candle", offset |-> 1, direction |-> "either", ratio |-> 1],
     Of("displacement") @@ [direction |-> "bullish", period |-> 2, half |-> 2],
     Of("session_requirement") @@ [timezone |-> "utc", sessions |-> {"london"}, mode |-> "exclude"],
     Of("volatility_filter") @@ [metric |-> "atr", period |-> 2, min |-> 1, max |-> 3],
     Of("htf_alignment") @@ [direction |-> "either", source |-> "trend"],
     Of("htf_alignment") @@ [direction |-> "bullish", source |-> "structure"],
     Of("news_filter"), Of("rr_requirement") @@ [minRr |-> 2]}

RiskSettings(stop, take, unit, pip) ==
    [stop |-> stop, take |-> take, unit |-> unit, pip |-> pip, buffer |-> 1, rr |-> <<1, 2, 3>>]
MCRisks == {RiskSettings("structure", "structure", "pct", 0), RiskSettings("fixed", "rr", "pct", 0),
            RiskSettings("atr", "rr", "pips", 1), RiskSettings("atr", "manual", "pips", 0)}

\* Directions of two groups: every pair of classes in either logic, then an alternative.
Undecided(class, role) == [class |-> class, role |-> role, status |-> "unsatisfied"]
Classes == {"required", "confirmation", "disqualifying", "optional"}
MCOutcomes ==
    {[pipUnresolved |-> FALSE, candidate |-> TRUE, targets |-> TRUE, rrMet |-> TRUE, filters |-> <<"satisfied">>,
      groups |-> <<[logic |-> l, conditions |-> <<Undecided(a, "htf_bias"), Undecided(b, "setup")>>],
                   [logic |-> "OR", conditions |-> <<Undecided(c, "setup")>>]>>] :
        l \in {"AND", "OR"}, a \in Classes, b \in Classes, c \in {"required", "optional"}}

-----------------------------------------------------------------------------
(* Feeds: pages of two bars, chunks of three, resampling by three.           *)

SevenTimes == 0..6
SixTimes == {0, 2, 4, 5, 6, 8}
Feed == INSTANCE CandleFeed WITH
    FeedTimes <- SevenTimes, SourcePeriod <- 1, PageSize <- 2, ChunkMs <- 3, Factor <- 3,
    BatchTimes <- SixTimes, BatchPeriod <- 2, StaleThreshold <- 5, MinCandles <- 2

ASSUME Feed!FeedAssumption

-----------------------------------------------------------------------------
(* Backtests: a version that reads two timeframes and follows the last close *)
(* of the higher one and the last two of the lower; at most three anchors a  *)
(* replay, one candleRows trade a run, one run a month.                          *)

Bar(h, l, c) == [high |-> h, low |-> l, close |-> c]
BarAt(t, h, l, c) == [high |-> h, low |-> l, close |-> c, time |-> t]
MCPrints == {Bar(12, 8, 11), Bar(12, 8, 9), Bar(11, 9, 10)}
Follow(closed, d) ==
    LET s == closed["setup"]
        h == closed["htf_bias"]
        entry == IF s = <<>> THEN 0 ELSE Last(s).close
        further(a, b) == IF d = "long" THEN b > a ELSE b < a
        passed == Len(s) >= 2 /\ h # <<>> /\ further(s[Len(s) - 1].close, entry) /\ further(10, Last(h).close)
    IN [passed |-> passed, score |-> IF passed /\ Last(s).low = 9 THEN 40 ELSE 80,
        candidate |-> [entry |-> entry, stop |-> IF entry = 10 THEN 10 ELSE entry - 2,
                       tp |-> <<entry + 1, 0, 0>>]]
Policy(stop, take, hold) == [stop |-> stop, take |-> take, maxHold |-> hold]
Spread(pips) == [fee |-> 0, slippage |-> 0, spread |-> pips]
Replay(from, to, direction, policy, cost) ==
    [from |-> from, to |-> to, direction |-> direction, policy |-> policy, cost |-> cost]
MCRequests == {Replay(2, 6, "both", Policy(TRUE, 3, 2), Spread(0)),
               Replay(3, 9, "both", Policy(TRUE, 1, 1), Spread(1)),
               Replay(1, 9, "long", Policy(FALSE, 0, 3), Spread(0))}
FourBars == <<BarAt(0, 11, 9, 10), BarAt(1, 12, 8, 11), BarAt(2, 12, 9, 10), BarAt(3, 12, 8, 9)>>
Covered == [setup |-> FourBars, htf_bias |-> <<BarAt(0, 12, 8, 11), BarAt(2, 12, 8, 9)>>, entry |-> <<>>]
Starting == [setup |-> SubSeq(FourBars, 1, 2), htf_bias |-> <<BarAt(0, 12, 8, 11)>>, entry |-> <<>>]
Replays == INSTANCE Backtest WITH
    Period <- [setup |-> 1, htf_bias |-> 2, entry |-> 1], Warmup <- [setup |-> 2, htf_bias |-> 1, entry |-> 0],
    Reads <- {"htf_bias", "setup"}, Evaluate <- Follow, Structural <- TRUE, MinQuality <- 50,
    MaxSteps <- 3, MaxRoleCandles <- 12, MaxTrades <- 1, PipSize <- 1, Requests <- MCRequests,
    Bases <- {Covered, Starting}, Prints <- MCPrints, MaxTime <- 7,
    BtCallers <- MCClients, BtMonthly <- 1, BtMonths <- 2

ASSUME Replays!BacktestAssumption

\* Bound: how many candles are added, by focus; no condition reads the entry role.
Grows ==
    /\ LET size == Len(candleRows["setup"]) + Len(candleRows["htf_bias"])
       IN size < 5 \/ size = 6 \/ (size = 7 /\ focus = "replay")
    /\ Replays!StoreNext
    /\ candleRows'["entry"] = <<>>

-----------------------------------------------------------------------------
AFeed == [kind |-> "none"]
AnOutcome == CHOOSE o \in MCOutcomes : TRUE

MarketInit ==
    /\ ScannerInit /\ IngestInit /\ BrokerInit /\ EvaluationInit
    /\ \/ focus \in {"scan", "ingest", "broker", "replay", "backtests"} /\ series = <<>> /\ outcome = AnOutcome /\ feed = AFeed
       \/ focus = "candles" /\ outcome = AnOutcome /\ feed = AFeed
       \/ focus = "score" /\ series = <<>> /\ feed = AFeed
       \/ focus = "feed" /\ series = <<>> /\ outcome = AnOutcome /\ Feed!FeedInit
    /\ Replays!BtInit /\ (focus # "replay" => candleRows = Covered)

InScan == focus = "scan" /\ UNCHANGED <<focus, ingestVars, brokerVars, evaluationVars, feed, backtestVars>>
InIngest == focus = "ingest" /\ UNCHANGED <<focus, scannerVars, brokerVars, evaluationVars, feed, backtestVars>>
InBroker == focus = "broker" /\ UNCHANGED <<focus, scannerVars, ingestVars, evaluationVars, feed, backtestVars>>
InReplay == UNCHANGED <<focus, scannerVars, ingestVars, brokerVars, evaluationVars, feed>>
InMarket == UNCHANGED <<focus, scannerVars, ingestVars, brokerVars, feed, backtestVars>>

AllNext ==
    \/ InScan /\ ScannerNext
    \/ InIngest /\ IngestNext
    \/ InBroker /\ BrokerNext
    \/ focus = "candles" /\ MarketNext /\ InMarket
    \/ focus = "score" /\ OutcomeNext /\ InMarket
    \/ focus \in {"replay", "backtests"} /\ Grows /\ InReplay
    \/ focus = "backtests" /\ Replays!ServiceNext /\ InReplay

\* The fairness of ScannerRuns and of CandleIngestion, each in its own focus.
MarketFairness ==
    /\ \A w \in MCWorkers : WF_mcVars(InScan /\ WorkerStep(w))
    /\ WF_mcVars(InScan /\ tickerRunOnce(Ticker))
    /\ \A i \in 1..MaxRuns : WF_mcVars(InScan /\ passTime(i))
    /\ \A w \in MCWarmers : WF_mcVars(InIngest /\ startCycle(w)) /\ WF_mcVars(InIngest /\ WarmStep(w))
    /\ WF_mcVars(InIngest /\ intervalElapses)

MarketSpec == MarketInit /\ [][AllNext]_mcVars /\ MarketFairness

-----------------------------------------------------------------------------
\* What is read of the market is what happened in it: CandleFeed's promises on
\* the candles, StrategyEvaluation's on conditions, candidates and verdicts,
\* CandleIngestion's on warm cycles, Backtest's on what a replay sees, loads,
\* computes and records, and BrokerSubmit's on the record of an order.  What
\* the scanner promises of its runs is ScansAreSound, a property of its own.
MarketReadsAreSound ==
    CASE focus = "feed"    -> Feed!FeedIsExact /\ Feed!ScanCandleSound
      [] focus = "candles" -> LongMirrorsShort /\ CandidateIsTradable
      [] focus = "score"   -> PassNeedsNoLuck
      [] focus = "replay"  -> Replays!SignalsNeedNoFuture /\ Replays!LoadedIsEnough /\ Replays!MetricsAddUp
      [] focus = "backtests" -> Replays!BacktestsRecordedOnce
      [] focus = "ingest"  -> CyclesAreSound
      [] focus = "broker"  -> BrokerTypeOK /\ OrderIsOnRecord
      [] focus = "scan"    -> TRUE

\* Nothing known is rewritten: a confirmed swing stays confirmed, added evidence
\* never lowers a score, and candles that arrive change no decided trade of a
\* backtest (StrategyEvaluation, Backtest).
NothingIsRewritten ==
    NothingRepaints /\ EvidenceRaisesScore /\ Replays!DecidedTradesStand

\* What was started is done: every run leaves 'running' and the advisory lock is
\* freed, whoever crashed or lost its session (ScannerRuns), and the rotation of
\* the warm cycle starves no pair (CandleIngestion).
StartedWorkIsDone ==
    /\ focus = "scan" => RunsSettle /\ LockIsFreed
    /\ focus = "ingest" => EveryPairWarmed
=============================================================================
