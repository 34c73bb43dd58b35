----------------------------- MODULE CandleFeed ----------------------------
(***************************************************************************)
(* What the scanner's candles go through, as functions of their input: the *)
(* Twelve Data provider's paging and resampling, the batch normalisation   *)
(* and validation, the freshness rules and the multi-timeframe checks.     *)
(*                                                                         *)
(* `feed` is one input, chosen initially; nothing changes it.  Times are   *)
(* small integers, Period is a bar, and a price bar is the record          *)
(* [time, open, high, low, close].                                         *)
(***************************************************************************)
EXTENDS Integers, Sequences, FiniteSets, SequencesExt, FiniteSetsExt

CONSTANTS
    FeedTimes,      \* times at which a bar may exist
    SourcePeriod,   \* length of a bar the vendor serves
    PageSize,       \* bars in a full vendor page
    ChunkMs,        \* time span one vendor request asks for
    Factor,         \* source bars in a resampled bar
    BatchTimes,     \* times of the candles of a batch to be checked
    BatchPeriod,    \* the timeframe of that batch
    StaleThreshold, \* STALE_THRESHOLDS_MS of that timeframe
    MinCandles      \* candles a timeframe role needs

FeedAssumption ==
    /\ FeedTimes \subseteq Nat /\ BatchTimes \subseteq Nat
    /\ {SourcePeriod, PageSize, ChunkMs, BatchPeriod} \subseteq Nat \ {0} /\ Factor > 1
    /\ PageSize > 1

VARIABLE feed

MAX_PAGES_PER_CALL == 12

\* Some price path; the highs and lows differ from bar to bar.
Bar(t) == [time |-> t, open |-> 10 + (t % 3), high |-> 14 + (t % 4), low |-> 5 + (t % 5), close |-> 10 + ((t + 1) % 3)]

----------------------------------------------------------------------------
(* The vendor and the provider.                                            *)

\* GET /time_series: the bars of [s, e], ascending, at most a page of them.
timeSeries(bars, s, e) ==
    LET seq == SetToSortSeq({t \in bars : s <= t /\ t <= e}, <)
    IN SubSeq(seq, 1, Min({Len(seq), PageSize}))

\* fetchSourceRange: page after page.  A full page continues at its last bar,
\* a short one exhausts its date chunk only; no progress ends the loop.
NextPage(bars, from, to, p) ==
    LET end    == Min({to, p.cursor + ChunkMs})
        page   == timeSeries(bars, p.cursor, end)
        inside == {t \in Range(page) : from <= t /\ t < to}
        last   == Max({-1} \cup inside)
        next   == [p EXCEPT !.got = @ \cup inside]
    IN IF Len(page) >= PageSize
       THEN IF last < 0 \/ last <= p.progress THEN [next EXCEPT !.done = TRUE]
            ELSE [next EXCEPT !.progress = last, !.cursor = last + 1]
       ELSE IF end >= to THEN [next EXCEPT !.done = TRUE] ELSE [next EXCEPT !.cursor = end]

fetchSourceRange(bars, from, to) ==
    LET pages[n \in 0..MAX_PAGES_PER_CALL] ==
          IF n = 0 THEN [cursor |-> from, progress |-> -1, got |-> {}, done |-> FALSE]
          ELSE LET p == pages[n - 1]
               IN IF p.done \/ p.cursor >= to THEN p ELSE NextPage(bars, from, to, p)
    IN pages[MAX_PAGES_PER_CALL].got

\* resampleCandles: epoch-aligned buckets of Factor source bars.
Bucket(t) == (t \div (SourcePeriod * Factor)) * (SourcePeriod * Factor)

resampleCandles(times) ==
    {LET inside == {t \in times : Bucket(t) = b}
     IN [time |-> b, open |-> Bar(Min(inside)).open, close |-> Bar(Max(inside)).close,
         high |-> Max({Bar(t).high : t \in inside}), low |-> Min({Bar(t).low : t \in inside})] :
     b \in {Bucket(t) : t \in times}}

\* getHistoricalCandles: resampled where the vendor has no such interval, then
\* cut to the half-open range.
getHistoricalCandles(bars, from, to, native) ==
    LET source == fetchSourceRange(bars, from, to)
        all    == IF native THEN {Bar(t) : t \in source} ELSE resampleCandles(source)
    IN {c \in all : from <= c.time /\ c.time < to}

----------------------------------------------------------------------------
(* Normalisation and validation.  A candle of a batch is [time, sane, id]: *)
(* sane stands for positive finite prices with low <= open, close <= high. *)

normalizeCandle(c) == c.time > 0 /\ c.sane

\* normalizeCandleBatch: nothing if a candle is bad; else sorted by time, the
\* last candle of a time winning.
normalizeCandleBatch(cs) ==
    LET last(t) == cs[Max({i \in DOMAIN cs : cs[i].time = t})]
        order   == SetToSortSeq({cs[i].time : i \in DOMAIN cs}, <)
    IN IF \A i \in DOMAIN cs : normalizeCandle(cs[i])
       THEN [ok |-> TRUE, candles |-> [k \in DOMAIN order |-> last(order[k])]]
       ELSE [ok |-> FALSE, candles |-> <<>>]

\* More than a tenth of the steps between candles are too long or too short.
MissingCandles(cs) ==
    LET diff(i) == cs[i].time - cs[i - 1].time
        gaps == {i \in 2..Len(cs) : diff(i) > 2 * BatchPeriod \/ 2 * diff(i) < BatchPeriod}
    IN 10 * Cardinality(gaps) > Len(cs)

\* The span that was asked for is more than twice the span that came.
IncompleteSpan(cs, from, to) ==
    to - from > 2 * (Last(cs).time - cs[1].time + BatchPeriod) /\ Len(cs) < 10

validateCandleBatch(cs, from, to, allowGaps) ==
    /\ cs # <<>>
    /\ \A i \in 2..Len(cs) : cs[i].time > cs[i - 1].time
    /\ \A i \in DOMAIN cs : cs[i].sane
    /\ allowGaps \/ ~MissingCandles(cs)
    /\ ~IncompleteSpan(cs, from, to)

checkFreshness(cs, now) ==
    cs # <<>> /\ now - Last(cs).time \in 0..StaleThreshold

\* validateMultiTimeframe for one timeframe of its own period: gaps are
\* tolerated in the higher timeframe only, the newest candle is at most three
\* periods old, and there are enough candles.
validateMultiTimeframe(cs, now, isHtf) ==
    /\ cs # <<>> /\ \A i \in 2..Len(cs) : cs[i].time > cs[i - 1].time
    /\ \A i \in DOMAIN cs : cs[i].sane
    /\ isHtf \/ ~MissingCandles(cs)
    /\ now - Last(cs).time <= 3 * BatchPeriod
    /\ Len(cs) >= MinCandles

----------------------------------------------------------------------------
(* fetchValidatedCandles and the decision of scanInstrument.               *)

Closed(cs, now) == SelectSeq(cs, LAMBDA c : c.time + BatchPeriod <= now)

\* The stored candles suffice: closed, enough of them, valid and fresh.
StoreSuffices(stored, from, now, coarse) ==
    LET n == normalizeCandleBatch(Closed(stored, now))
    IN /\ n.ok /\ Len(n.candles) >= MinCandles
       /\ validateCandleBatch(n.candles, from, now, coarse)
       /\ checkFreshness(n.candles, now)

\* Otherwise the provider's batch, forming bar included, if it is valid; its
\* freshness is left to the caller.  Nothing stands for the thrown error.
fetchValidatedCandles(stored, fetched, from, now, coarse) ==
    LET n == normalizeCandleBatch(fetched)
    IN IF StoreSuffices(stored, from, now, coarse) THEN normalizeCandleBatch(Closed(stored, now)).candles
       ELSE IF n.ok /\ validateCandleBatch(n.candles, from, now, coarse) THEN n.candles
       ELSE <<>>

\* scanInstrument goes on to detection with the newest closed candle.
ScanAccepts(cs, now) ==
    validateMultiTimeframe(cs, now, FALSE) /\ checkFreshness(cs, now) /\ Closed(cs, now) # <<>>

latestClosedSetupCandle(cs, now) == Last(Closed(cs, now))

----------------------------------------------------------------------------
(* Inputs.                                                                 *)

Candles == [time : BatchTimes, sane : {TRUE}, id : {1}] \cup [time : {Max(BatchTimes)}, sane : {FALSE}, id : {1}]
                \cup [time : {Max(BatchTimes)}, sane : {TRUE}, id : {2}]

FeedInit ==
    feed \in [kind : {"fetch"}, bars : SUBSET FeedTimes, from : FeedTimes, to : FeedTimes]
             \cup [kind : {"batch"}, cs : SeqOf(Candles, 3), now : BatchTimes]

FeedNext == UNCHANGED feed

----------------------------------------------------------------------------
(* Properties.                                                             *)

Full(b, from, to) == {t \in FeedTimes : Bucket(t) = b /\ from <= t /\ t < to}

\* Whatever the vendor's page and chunk boundaries, getHistoricalCandles gives
\* exactly the bars of [from, to); a resampled bar that ends inside the range
\* has the open, close and extremes of all of its source bars, never of the
\* part of them that follows `from`.
FeedIsExact ==
    feed.kind = "fetch" /\ feed.from < feed.to =>
        LET from == feed.from
            to   == feed.to
        IN /\ getHistoricalCandles(feed.bars, from, to, TRUE) = {Bar(t) : t \in {t \in feed.bars : from <= t /\ t < to}}
           /\ \A c \in getHistoricalCandles(feed.bars, from, to, FALSE) :
                 c.time + SourcePeriod * Factor <= to =>
                    c \in resampleCandles({t \in feed.bars : Bucket(t) = c.time})

\* The order in which a provider lists its candles is irrelevant, and a scan
\* that accepts them detects on a candle that is closed, sound and recent.
ScanCandleSound ==
    feed.kind = "batch" =>
        LET used == fetchValidatedCandles(feed.cs, feed.cs, 0, feed.now, FALSE)
        IN ScanAccepts(used, feed.now) =>
              LET c == latestClosedSetupCandle(used, feed.now)
              IN /\ c.sane /\ c.time + BatchPeriod <= feed.now
                 /\ feed.now - c.time <= StaleThreshold + 2 * BatchPeriod
                 /\ c \in Range(feed.cs)
                 /\ \A d \in Range(feed.cs) : d.time + BatchPeriod <= feed.now => d.time <= c.time
============================================================================
