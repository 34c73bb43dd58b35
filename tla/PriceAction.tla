----------------------------- MODULE PriceAction -----------------------------
(***************************************************************************)
(* The deterministic price-action arithmetic of the strategy engine        *)
(* (core/src/strategies/evaluation/indicators.ts) and the handlers of the  *)
(* nineteen condition types built on it (handlers.ts).                     *)
(*                                                                         *)
(* A candle is [open, high, low, close] over the naturals, a series a      *)
(* sequence of them, oldest first.  A quotient of the code is compared by  *)
(* cross-multiplication, so no rounding enters; the Wilder average is the  *)
(* fraction [num, den].  The widths the code fixes (2, 5, 14, 20 candles)  *)
(* are constants, so that a short series reaches every branch.  Handlers   *)
(* return the status alone: the detail string is left out.                 *)
(***************************************************************************)
EXTENDS Integers, Sequences, FiniteSets, FiniteSetsExt

CONSTANTS HalfWidth,     \* PIVOT_HALF_WIDTH (2 in the code)
          MinCandles,    \* MIN_CANDLES (5)
          AtrPeriod,     \* the ATR period of structure breaks, zones and candidates (14)
          SmaPeriod      \* the trend average of htf_alignment (20)

Size(x) == IF x < 0 THEN -x ELSE x
Higher(a, b) == IF a > b THEN a ELSE b
Lower(a, b) == IF a < b THEN a ELSE b
Suffix(s, n) == SubSeq(s, Higher(1, Len(s) - n + 1), Len(s))
Final(s) == s[Len(s)]
Highs(s) == {s[i].high : i \in DOMAIN s}
Lows(s) == {s[i].low : i \in DOMAIN s}

\* sums of x(1..n) and the like are sums over index sets
Total(f, S) == MapThenSumSet(LAMBDA i : f[i], S)

candleAnatomy(c) ==
    [range |-> c.high - c.low,
     body |-> Size(c.close - c.open),
     upperWick |-> c.high - Higher(c.open, c.close),
     lowerWick |-> Lower(c.open, c.close) - c.low,
     bullish |-> c.close > c.open,
     bearish |-> c.close < c.open]

(***************************************************************************)
(* Indicators.                                                             *)
(***************************************************************************)

NoAtr == [num |-> 0, den |-> 0]

\* Wilder's average: the mean of the first `period` true ranges, then smoothed.
atrWilder(s, period) ==
    LET n == Len(s) - 1
        tr == [i \in 1..n |->
                 Max({s[i + 1].high - s[i + 1].low, Size(s[i + 1].high - s[i].close),
                      Size(s[i + 1].low - s[i].close)})]
        smooth[i \in period..n] ==
            IF i = period THEN [num |-> Total(tr, 1..period), den |-> period]
            ELSE [num |-> smooth[i - 1].num * (period - 1) + tr[i] * smooth[i - 1].den,
                  den |-> smooth[i - 1].den * period]
    IN IF period < 2 \/ Len(s) < period + 1 THEN NoAtr ELSE smooth[n]

\* a pivot that only its past confirms
pivotHighsEarly(s, k) ==
    {i \in (k + 1)..Len(s) :
        \A j \in (i - k)..Lower(i + k, Len(s)) : j /= i => s[j].high < s[i].high}

\* The strict fractal: strictly beyond its k neighbours on both sides.
pivotHighs(s, k) ==
    {i \in (k + 1)..(Len(s) - k) : \A j \in (i - k)..(i + k) : j /= i => s[j].high < s[i].high}
pivotLows(s, k) ==
    {i \in (k + 1)..(Len(s) - k) : \A j \in (i - k)..(i + k) : j /= i => s[j].low > s[i].low}

structureBias(s) ==
    LET hs == pivotHighs(s, HalfWidth)
        ls == pivotLows(s, HalfWidth)
        h == Max(hs)  l == Max(ls)
        h0 == Max(hs \ {h})  l0 == Max(ls \ {l})
    IN CASE Cardinality(hs) < 2 \/ Cardinality(ls) < 2 -> "range"
         [] OTHER ->
              IF s[h].high > s[h0].high /\ s[l].low > s[l0].low THEN "bullish"
              ELSE IF s[h].high < s[h0].high /\ s[l].low < s[l0].low THEN "bearish" ELSE "range"

\* The index of the most recent pivot beyond a price, or 0.
lastPivotHighAbove(s, ref) ==
    LET P == {i \in pivotHighs(s, HalfWidth) : s[i].high > ref} IN IF P = {} THEN 0 ELSE Max(P)
lastPivotLowBelow(s, ref) ==
    LET P == {i \in pivotLows(s, HalfWidth) : s[i].low < ref} IN IF P = {} THEN 0 ELSE Max(P)

\* The nearest structural level on the winning side, as a singleton, or {}.
structuralTarget(s, direction, entry) ==
    LET above == {s[i].high : i \in pivotHighs(s, HalfWidth)}
        below == {s[i].low : i \in pivotLows(s, HalfWidth)}
        better == IF direction = "long" THEN {p \in above : p > entry} ELSE {p \in below : p < entry}
    IN IF better = {} THEN {}
       ELSE {IF direction = "long" THEN Min(better) ELSE Max(better)}

\* the bearish side compared with the bullish one's bound
engulfsAnything(prev, cur, direction, minBodyRatio) ==
    LET p == candleAnatomy(prev)
        c == candleAnatomy(cur)
        large == minBodyRatio = 0 \/ (p.body > 0 /\ c.body >= minBodyRatio * p.body)
    IN IF direction = "bullish"
       THEN p.bearish /\ c.bullish /\ cur.open <= prev.close /\ cur.close >= prev.open /\ large
       ELSE p.bullish /\ c.bearish /\ cur.open >= prev.close /\ cur.close < prev.open /\ large

isEngulfing(prev, cur, direction, minBodyRatio) ==
    LET p == candleAnatomy(prev)
        c == candleAnatomy(cur)
        large == minBodyRatio = 0 \/ (p.body > 0 /\ c.body >= minBodyRatio * p.body)
    IN IF direction = "bullish"
       THEN p.bearish /\ c.bullish /\ cur.open <= prev.close /\ cur.close >= prev.open /\ large
       ELSE p.bullish /\ c.bearish /\ cur.open >= prev.close /\ cur.close <= prev.open /\ large

\* `half` is twice the multiple of the ATR (1.5 is 3).
isDisplacement(c, atr, half, direction) ==
    /\ atr.num > 0
    /\ 2 * candleAnatomy(c).body * atr.den >= half * atr.num
    /\ CASE direction = "either"  -> TRUE
         [] direction = "bullish" -> c.close > c.open
         [] direction = "bearish" -> c.close < c.open

\* |v - level| within pct percent of the level, pct in hundredths of a percent
levelTolerance(v, level, hundredths) == Size(v - level) * 10000 <= Size(level) * hundredths

countTouches(s, level, side) ==
    Cardinality({i \in DOMAIN s :
                   levelTolerance(IF side = "high" THEN s[i].high ELSE s[i].low, level, 10)})

NoZone == [bottom |-> 0, top |-> 0, index |-> 0]

\* The most recent three-candle gap of at least pct percent of its top (0: any).
findFvg(s, kind, pct) ==
    LET Gap(i) == IF kind = "bullish" THEN [bottom |-> s[i - 2].high, top |-> s[i].low, index |-> i]
                  ELSE [bottom |-> s[i].high, top |-> s[i - 2].low, index |-> i]
        gaps == {i \in 3..Len(s) :
                   /\ Gap(i).top > Gap(i).bottom
                   /\ (Gap(i).top - Gap(i).bottom) * 100 >= pct * Gap(i).top}
    IN IF gaps = {} THEN NoZone ELSE Gap(Max(gaps))

\* The most recent opposite candle before a breaking one; the first is never one.
findOrderBlock(s, kind, maxAge) ==
    LET Origin(j) ==
            LET o == candleAnatomy(s[j])
                n == candleAnatomy(s[j + 1])
            IN /\ 2 * n.body >= 3 * o.body
               /\ IF kind = "bullish" THEN o.bearish /\ n.bullish /\ s[j + 1].close > s[j].high
                  ELSE o.bullish /\ n.bearish /\ s[j + 1].close < s[j].low
        J == {j \in Higher(2, Len(s) - maxAge + 1)..(Len(s) - 1) : Origin(j)}
        z == Max(J)
    IN IF J = {} THEN NoZone ELSE [bottom |-> s[z].low, top |-> s[z].high, index |-> z]

Overlaps(c, zone) == c.low <= zone.top /\ c.high >= zone.bottom

\* hourInSession: Sydney wraps over midnight.
SessionHours == [asia |-> 0..8, london |-> 7..15, new_york |-> 12..20, sydney |-> (21..23) \union (0..5)]
timeInSession(hour, session) == (hour % 24) \in SessionHours[session]

\* validPipSize and bufferToPrice: the buffer as a fraction, or none without a pip size.
NoBuffer == [num |-> 0, den |-> 0]
bufferToPrice(risk, entry) ==
    IF risk.unit = "pct" THEN [num |-> risk.buffer * entry, den |-> 100]
    ELSE IF risk.pip > 0 THEN [num |-> risk.buffer * risk.pip, den |-> 1] ELSE NoBuffer

(***************************************************************************)
(* Condition handlers: the status of a condition [type, ...params] for a   *)
(* direction, on the closed candles of its role.                           *)
(***************************************************************************)

Verdict(b) == IF b THEN "satisfied" ELSE "unsatisfied"
Insufficient == "insufficient_data"
Unsupported == "unsupported"

dirMatches(param, direction) ==
    param = "either" \/ (param = "bullish" /\ direction = "long") \/ (param = "bearish" /\ direction = "short")

\* A one-candle window has no reference: Math.max of nothing is -Infinity, so
\* nothing was swept.
liquiditySweep(p, direction, s) ==
    LET wanted == IF p.side = "above" THEN "short" ELSE "long"
        window == Suffix(s, p.lookback)
        anchor == Final(window)
        ref == SubSeq(window, 1, Len(window) - 1)
        a == candleAnatomy(anchor)
    IN IF direction /= wanted THEN Verdict(FALSE)
       ELSE IF Len(s) < MinCandles + 1 THEN Insufficient
       ELSE IF a.range <= 0 \/ ref = <<>> THEN Verdict(FALSE)
       ELSE IF p.side = "above"
            THEN Verdict(/\ anchor.high > Max(Highs(ref)) /\ anchor.close < Max(Highs(ref))
                         /\ a.upperWick * 10 >= p.wickTenths * a.range)
            ELSE Verdict(/\ anchor.low < Min(Lows(ref)) /\ anchor.close > Min(Lows(ref))
                         /\ a.lowerWick * 10 >= p.wickTenths * a.range)

\* choch breaks against the bias, bos along it.
pivotBreakEvent(kind, p, direction, s) ==
    LET window == Suffix(s, p.lookback)
        bias == structureBias(window)
        close == Final(window).close
        up == /\ bias = IF kind = "choch" THEN "bearish" ELSE "bullish"
              /\ close > window[Max(pivotHighs(window, HalfWidth))].high
        down == /\ bias = IF kind = "choch" THEN "bullish" ELSE "bearish"
                /\ close < window[Max(pivotLows(window, HalfWidth))].low
        atr == atrWilder(window, AtrPeriod)
    IN IF Len(s) < MinCandles + 1 \/ bias = "range" THEN Insufficient
       ELSE IF p.displaced /\ (up \/ down) /\ atr = NoAtr THEN Insufficient
       ELSE Verdict(/\ p.displaced => isDisplacement(Final(window), atr, 3, IF up THEN "bullish" ELSE "bearish")
                    /\ IF direction = "long" THEN up ELSE down
                    /\ dirMatches(p.direction, direction))

\* The most recent pivot the close is beyond decides: broken by a close after it,
\* then revisited within so many candles by one that held.
breakRetest(p, direction, s) ==
    LET window == Suffix(s, p.maxRetest + 40)
        close == Final(window).close
        long == direction = "long"
        Level(i) == IF long THEN window[i].high ELSE window[i].low
        Beyond(c, level) == IF long THEN c.close > level ELSE c.close < level
        BreaksOf(i) == {b \in (i + 1)..Len(window) : Beyond(window[b], Level(i))}
        broken == {i \in IF long THEN pivotHighs(window, HalfWidth) ELSE pivotLows(window, HalfWidth) :
                     (IF long THEN Level(i) < close ELSE Level(i) > close) /\ BreaksOf(i) /= {}}
        i == Max(broken)
        b == Min(BreaksOf(i))
        Near(c) == \/ IF long THEN c.low <= Level(i) ELSE c.high >= Level(i)
                   \/ levelTolerance(IF long THEN c.low ELSE c.high, Level(i), p.hundredths)
    IN IF ~dirMatches(p.direction, direction) THEN Verdict(FALSE)
       ELSE IF Len(s) < MinCandles + 2 THEN Insufficient
       ELSE Verdict(/\ broken /= {}
                    /\ \E r \in (b + 1)..Lower(Len(window), b + p.maxRetest) :
                          Near(window[r]) /\ Beyond(window[r], Level(i)))

Wanted(kind) == IF kind = "bullish" THEN "long" ELSE "short"

orderBlock(p, direction, s) ==
    LET window == Suffix(s, p.maxAge)
        zone == findOrderBlock(window, p.kind, p.maxAge)
        later == {window[j] : j \in (zone.index + 2)..Len(window)}
        Past(c) == IF p.kind = "bullish" THEN c.close > zone.top ELSE c.close < zone.bottom
    IN IF direction /= Wanted(p.kind) THEN Verdict(FALSE)
       ELSE IF Len(s) < MinCandles THEN Insufficient
       ELSE Verdict(/\ zone /= NoZone
                    /\ IF p.validation = "mitigation"
                       THEN (\E c \in later : Overlaps(c, zone)) /\ Past(Final(window))
                       ELSE \E c \in later : Past(c))

fvg(p, direction, s) ==
    LET window == Suffix(s, 200)
        zone == findFvg(window, p.kind, p.gapPct)
        close == Final(window).close
    IN IF direction /= Wanted(p.kind) THEN Verdict(FALSE)
       ELSE IF Len(s) < 3 THEN Insufficient
       ELSE Verdict(/\ zone /= NoZone
                    /\ p.mitigation => \E j \in (zone.index + 1)..Len(window) : Overlaps(window[j], zone)
                    /\ IF p.kind = "bullish" THEN close > zone.bottom ELSE close < zone.top)

\* A level touched often enough, tested by the last candle and held by its close.
Held(window, level, side, minTouches) ==
    LET anchor == Final(window)
    IN /\ countTouches(window, level, side) >= minTouches
       /\ IF side = "low" THEN /\ anchor.low <= level \/ levelTolerance(anchor.low, level, 10)
                               /\ anchor.close > level
          ELSE /\ anchor.high >= level \/ levelTolerance(anchor.high, level, 10)
               /\ anchor.close < level

support(p, direction, s) ==
    LET window == Suffix(s, p.lookback)
    IN IF direction /= "long" THEN Verdict(FALSE)
       ELSE IF Len(s) < MinCandles + 5 THEN Insufficient
       ELSE Verdict(Held(window, Min(Lows(window)), "low", p.minTouches))

resistance(p, direction, s) ==
    LET window == Suffix(s, p.lookback)
    IN IF direction /= "short" THEN Verdict(FALSE)
       ELSE IF Len(s) < MinCandles + 5 THEN Insufficient
       ELSE Verdict(Held(window, Max(Highs(window)), "high", p.minTouches))

\* The maximal runs of at least three candles no wider than half the ATR.
Consolidations(s, atr) ==
    LET Narrow(i) == 2 * candleAnatomy(s[i]).range * atr.den <= atr.num
    IN {r \in {[from |-> a, to |-> b] : a \in DOMAIN s, b \in DOMAIN s} :
          /\ r.to >= r.from + 2
          /\ \A i \in r.from..r.to : Narrow(i)
          /\ r.from = 1 \/ ~Narrow(r.from - 1)
          /\ r.to = Len(s) \/ ~Narrow(r.to + 1)}

supply(p, direction, s) ==
    LET window == Suffix(s, 300)
        anchor == Final(window)
        level == lastPivotHighAbove(window, anchor.close)
        zone == findOrderBlock(window, "bearish", 300)
        atr == atrWilder(Suffix(window, 50), AtrPeriod)
        Bottom(r) == Min({window[i].low : i \in r.from..r.to})
        over == {r \in Consolidations(window, atr) : Bottom(r) > anchor.close}
        last == CHOOSE r \in over : \A q \in over : q.to <= r.to
    IN IF direction /= "short" THEN Verdict(FALSE)
       ELSE IF Len(s) < MinCandles + 5 THEN Insufficient
       ELSE CASE p.source = "swing" ->
                   Verdict(level /= 0 /\ Held(window, window[level].high, "high", p.minTouches))
              [] p.source = "order_block" ->
                   Verdict(zone /= NoZone /\ zone.top > anchor.close /\ anchor.high >= zone.bottom)
              [] p.source = "consolidation" ->
                   IF atr = NoAtr THEN Insufficient
                   ELSE Verdict(over /= {} /\ anchor.high >= Bottom(last))

demand(p, direction, s) ==
    LET window == Suffix(s, 300)
        anchor == Final(window)
        level == lastPivotLowBelow(window, anchor.close)
        zone == findOrderBlock(window, "bullish", 300)
        atr == atrWilder(Suffix(window, 50), AtrPeriod)
        Top(r) == Max({window[i].high : i \in r.from..r.to})
        under == {r \in Consolidations(window, atr) : Top(r) < anchor.close}
        last == CHOOSE r \in under : \A q \in under : q.to <= r.to
    IN IF direction /= "long" THEN Verdict(FALSE)
       ELSE IF Len(s) < MinCandles + 5 THEN Insufficient
       ELSE CASE p.source = "swing" ->
                   Verdict(level /= 0 /\ Held(window, window[level].low, "low", p.minTouches))
              [] p.source = "order_block" ->
                   Verdict(zone /= NoZone /\ zone.bottom < anchor.close /\ anchor.low <= zone.top)
              [] p.source = "consolidation" ->
                   IF atr = NoAtr THEN Insufficient
                   ELSE Verdict(under /= {} /\ anchor.low <= Top(last))

\* A doji's body counts as a billionth of its range: any wick is long enough.
rejectionCandle(p, direction, s) ==
    LET a == candleAnatomy(Final(s))
        wick == IF p.direction = "bullish" THEN a.lowerWick ELSE a.upperWick
    IN IF Len(s) < 1 THEN Insufficient
       ELSE Verdict(/\ dirMatches(p.direction, direction)
                    /\ IF a.body > 0 THEN wick >= p.ratio * a.body ELSE wick > 0)

engulfingCandle(p, direction, s) ==
    IF Len(s) < 2 THEN Insufficient
    ELSE Verdict(/\ isEngulfing(s[Len(s) - 1], Final(s),
                                IF direction = "long" THEN "bullish" ELSE "bearish", p.ratio)
                 /\ dirMatches(p.direction, direction))

\* The polarity is the parameter's, not the direction's: with "either" a falling
\* candle satisfies the condition for a long too.
displacement(p, direction, s) ==
    LET atr == atrWilder(s, p.period)
    IN IF atr = NoAtr THEN Insufficient
       ELSE Verdict(isDisplacement(Final(s), atr, p.half, p.direction) /\ dirMatches(p.direction, direction))

\* A candidate is [rr: its reward in risks as a fraction], or NoCandidate.
NoCandidate == [entry |-> 0]

rrRequirement(p, candidate, risk) ==
    IF candidate = NoCandidate THEN Insufficient
    ELSE CASE risk.take = "rr" -> Verdict(risk.rr[3] >= p.minRr)
           [] risk.take = "structure" ->
                IF candidate.rr.den = 0 THEN Insufficient
                ELSE Verdict(candidate.rr.num >= p.minRr * candidate.rr.den)
           [] OTHER -> Unsupported

\* Hour of the anchor candle: an hourly series starting at midnight.
sessionRequirement(p, s) ==
    IF p.timezone = "exchange" THEN Unsupported
    ELSE IF s = <<>> THEN Insufficient
    ELSE LET inAny == \E n \in p.sessions : timeInSession(Len(s) - 1, n)
         IN Verdict(IF p.mode = "include" THEN inAny ELSE ~inAny)

volatilityFilter(p, s) ==
    LET atr == atrWilder(s, p.period)
        window == Suffix(s, p.period)
        value == IF p.metric = "atr" THEN atr
                 ELSE [num |-> Total([i \in DOMAIN window |-> candleAnatomy(window[i]).body], DOMAIN window),
                       den |-> p.period]
    IN IF (p.metric = "atr" /\ atr = NoAtr) \/ Len(s) < p.period THEN Insufficient
       ELSE Verdict(value.num >= p.min * value.den /\ value.num <= p.max * value.den)

htfAlignment(p, direction, s) ==
    LET window == Suffix(s, 100)
        recent == Suffix(window, SmaPeriod)
        sum == Total([i \in DOMAIN recent |-> recent[i].close], DOMAIN recent)
        close == Final(window).close * SmaPeriod
        bias == structureBias(window)
    IN IF ~dirMatches(p.direction, direction) THEN Verdict(FALSE)
       ELSE IF window = <<>> THEN Insufficient
       ELSE IF p.source = "trend"
            THEN IF Len(window) < SmaPeriod THEN Insufficient
                 ELSE Verdict(IF direction = "long" THEN close > sum ELSE close < sum)
       ELSE IF bias = "range" THEN Insufficient
       ELSE Verdict(bias = IF direction = "long" THEN "bullish" ELSE "bearish")

\* CONDITION_HANDLERS
handle(p, direction, s, candidate, risk) ==
    CASE p.type = "liquidity_sweep"     -> liquiditySweep(p, direction, s)
      [] p.type \in {"choch", "bos"}    -> pivotBreakEvent(p.type, p, direction, s)
      [] p.type = "break_retest"        -> breakRetest(p, direction, s)
      [] p.type = "order_block"         -> orderBlock(p, direction, s)
      [] p.type = "fvg"                 -> fvg(p, direction, s)
      [] p.type = "support"             -> support(p, direction, s)
      [] p.type = "resistance"          -> resistance(p, direction, s)
      [] p.type = "supply"              -> supply(p, direction, s)
      [] p.type = "demand"              -> demand(p, direction, s)
      [] p.type = "rejection_candle"    -> rejectionCandle(p, direction, s)
      [] p.type = "engulfing_candle"    -> engulfingCandle(p, direction, s)
      [] p.type = "displacement"        -> displacement(p, direction, s)
      [] p.type = "rr_requirement"      -> rrRequirement(p, candidate, risk)
      [] p.type = "session_requirement" -> sessionRequirement(p, s)
      [] p.type = "volatility_filter"   -> volatilityFilter(p, s)
      [] p.type = "htf_alignment"       -> htfAlignment(p, direction, s)
      [] p.type \in {"news_filter", "spread_filter"} -> Insufficient
      [] OTHER -> Unsupported
=============================================================================
