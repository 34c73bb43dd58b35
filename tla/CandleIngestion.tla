-------------------------- MODULE CandleIngestion --------------------------
(***************************************************************************)
(* The shared candle store, fetch-through reads, backfills, and the        *)
(* scheduled warm cycle with its request budget and its rotation           *)
(* (packages/core/src/market-data).                                        *)
(*                                                                         *)
(* A pair is an instrument and a timeframe.  Of the bars stored for a pair *)
(* a reader asks two questions about the window it wants: does the store   *)
(* begin late enough that a bar may be missing at the head, and does a     *)
(* whole period fit behind its last bar?  The state keeps these answers.   *)
(* Time passing makes a tail missing.  A provider that has no bars at the  *)
(* start of a window (a weekend, a young instrument) leaves the head       *)
(* missing after every fetch: those pairs are HeadGaps.                    *)
(***************************************************************************)
EXTENDS Naturals, Sequences, FiniteSets

CONSTANTS
    NPairs,         \* pairs 0..NPairs-1 of resolveUniverse x timeframes
    Budget,         \* maxRequestsPerCycle
    HeadGaps,       \* pairs whose window starts before the provider's data
    Warmers,        \* processes that run the warm cycle
    Nobody,         \* no session holds the warm-cycle lock
    MaxIngestFaults \* bound on failed requests, crashes and lost records

Pairs == 0..NPairs - 1

ASSUME IngestAssumption ==
    /\ NPairs \in Nat \ {0} /\ Budget \in Nat \ {0} /\ MaxIngestFaults \in Nat
    /\ HeadGaps \subseteq Pairs /\ Nobody \notin Warmers

VARIABLES
    store,      \* [any, head, tail] of a pair: has bars, misses head, misses tail
    offset,     \* rotationOffset of the newest recorded scheduled run
    due,        \* the minimum interval since that run has elapsed
    warmLock,   \* the session holding the warm-cycle advisory lock
    wpc,        \* where a warmer stands
    cycle,      \* a warmer's [start, i, todo, requests, failed, done]
    warmed,     \* pair the last step read successfully in a warm cycle
    backfillRun,\* status of the backfill run row, and the pairs left
    ingestFaults

ingestVars == <<store, offset, due, warmLock, wpc, cycle, warmed, backfillRun, ingestFaults>>

NoPair == NPairs
IdleCycle == [start |-> 0, i |-> 0, todo |-> <<>>, requests |-> 0, failed |-> 0, done |-> 0]
NoBackfill == [status |-> "none", left |-> {}, failed |-> 0]
BackfillStatus == {"none", "running", "completed", "partial", "failed"}

IngestTypeOK ==
    /\ store \in [Pairs -> [any : BOOLEAN, head : BOOLEAN, tail : BOOLEAN]]
    /\ offset \in Pairs /\ due \in BOOLEAN /\ warmed \in 0..NPairs
    /\ warmLock \in Warmers \cup {Nobody}
    /\ wpc \in [Warmers -> {"idle", "lock", "prior", "pairs", "record", "unlock"}]
    /\ \A w \in Warmers : cycle[w].requests <= Budget /\ cycle[w].i \in 0..NPairs
    /\ backfillRun \in [status : BackfillStatus, left : SUBSET Pairs, failed : 0..NPairs]
    /\ ingestFaults \in 0..MaxIngestFaults

IngestInit ==
    /\ store = [p \in Pairs |-> [any |-> FALSE, head |-> TRUE, tail |-> TRUE]]
    /\ offset = 0 /\ due = TRUE /\ warmed = NoPair /\ warmLock = Nobody
    /\ wpc = [w \in Warmers |-> "idle"]
    /\ cycle = [w \in Warmers |-> IdleCycle]
    /\ backfillRun = NoBackfill
    /\ ingestFaults = 0

Fault == ingestFaults < MaxIngestFaults /\ ingestFaults' = ingestFaults + 1
WarmGo(w, place) == wpc' = [wpc EXCEPT ![w] = place]

----------------------------------------------------------------------------
(* The store and fetch-through.                                            *)

\* rangeStats and missingRanges: the whole window, or its head and its tail.
missingRanges(p) ==
    IF ~store[p].any THEN <<"all">>
    ELSE (IF store[p].head THEN <<"head">> ELSE <<>>) \o (IF store[p].tail THEN <<"tail">> ELSE <<>>)

\* getHistoricalCandles and upsertCandles of one range: what was fetched is
\* stored whatever happens to the next range.
upsertCandles(s, p, range) ==
    CASE range = "all"  -> [any |-> TRUE, head |-> p \in HeadGaps, tail |-> FALSE]
      [] range = "head" -> [s EXCEPT !.head = p \in HeadGaps]
      [] range = "tail" -> [s EXCEPT !.tail = FALSE]

\* The pair after every missing range has been fetched and stored.
fetchThrough(s, p) ==
    [any |-> TRUE, head |-> (s.any => s.head) /\ p \in HeadGaps, tail |-> FALSE]

\* A read by a user or by the scanner: all of its ranges, or those before the
\* request that failed.
getCandles(p) ==
    /\ missingRanges(p) # <<>>
    /\ \/ store' = [store EXCEPT ![p] = fetchThrough(@, p)]
          /\ UNCHANGED ingestFaults
       \/ store' = [store EXCEPT ![p] = IF Len(missingRanges(p)) = 2 THEN upsertCandles(@, p, "head") ELSE @]
          /\ Fault
    /\ UNCHANGED <<offset, due, warmLock, wpc, cycle, warmed, backfillRun>>

----------------------------------------------------------------------------
(* The warm cycle.                                                         *)

startCycle(w) ==
    /\ wpc[w] = "idle" /\ WarmGo(w, "lock")
    /\ UNCHANGED <<store, offset, due, warmLock, cycle, warmed, backfillRun, ingestFaults>>

\* warmCache: a cycle that does not get the lock is skipped.
warmCache(w) ==
    /\ wpc[w] = "lock"
    /\ IF warmLock = Nobody THEN warmLock' = w /\ WarmGo(w, "prior")
       ELSE WarmGo(w, "idle") /\ UNCHANGED warmLock
    /\ UNCHANGED <<store, offset, due, cycle, warmed, backfillRun, ingestFaults>>

\* Mutant: the cursor does not advance.
sameRotationOffset(previous, budget, total) == previous

nextRotationOffset(previous, budget, total) == (previous + budget) % total

\* The newest scheduled run: whether it is recent, and its cursor.
lastScheduledRunState == [recent |-> ~due, rotationOffset |-> offset]

\* warmCacheLocked up to the loop: an attempt within the minimum interval, or
\* an unreadable prior run, skips the cycle.
warmCacheLocked(w, prior) ==
    /\ wpc[w] = "prior"
    /\ \/ ~prior.recent
          /\ cycle' = [cycle EXCEPT ![w] =
                [IdleCycle EXCEPT !.start = nextRotationOffset(prior.rotationOffset, Budget, NPairs)]]
          /\ WarmGo(w, "pairs") /\ UNCHANGED ingestFaults
       \/ prior.recent /\ WarmGo(w, "unlock") /\ UNCHANGED <<cycle, ingestFaults>>
       \/ ~prior.recent /\ Fault /\ WarmGo(w, "unlock") /\ UNCHANGED cycle
    /\ UNCHANGED <<store, offset, due, warmLock, warmed, backfillRun>>

Current(w) == (cycle[w].start + cycle[w].i) % NPairs
EndOfCycle(w, c) == cycle' = [cycle EXCEPT ![w] = c] /\ WarmGo(w, "record")
PairDone(w, c) ==
    /\ cycle' = [cycle EXCEPT ![w] = [c EXCEPT !.i = @ + 1, !.todo = <<>>]]
    /\ WarmGo(w, IF cycle[w].i + 1 = NPairs THEN "record" ELSE "pairs")

\* warmPair begins: a pair with nothing missing is a cache hit.
warmPair(w) ==
    /\ wpc[w] = "pairs" /\ cycle[w].todo = <<>>
    /\ IF missingRanges(Current(w)) = <<>>
       THEN PairDone(w, [cycle[w] EXCEPT !.done = @ + 1]) /\ warmed' = Current(w)
       ELSE /\ cycle' = [cycle EXCEPT ![w].todo = missingRanges(Current(w))]
            /\ warmed' = NoPair /\ UNCHANGED wpc
    /\ UNCHANGED <<store, offset, due, warmLock, backfillRun, ingestFaults>>

BudgetLeft(w) == cycle[w].requests < Budget

\* One provider request of the pair.  A spent budget or a rate limit stops the
\* cycle; another failure ends the pair only.
providerRequest(w) ==
    /\ wpc[w] = "pairs" /\ cycle[w].todo # <<>>
    /\ LET c == [cycle[w] EXCEPT !.requests = @ + 1]
           p == Current(w)
       IN \/ /\ ~BudgetLeft(w)
             /\ EndOfCycle(w, cycle[w]) /\ warmed' = NoPair /\ UNCHANGED <<store, ingestFaults>>
          \/ /\ BudgetLeft(w)
             /\ store' = [store EXCEPT ![p] = upsertCandles(@, p, Head(c.todo))]
             /\ IF Len(c.todo) = 1
                THEN PairDone(w, [c EXCEPT !.done = @ + 1]) /\ warmed' = p
                ELSE /\ cycle' = [cycle EXCEPT ![w] = [c EXCEPT !.todo = Tail(@)]]
                     /\ warmed' = NoPair /\ UNCHANGED wpc
             /\ UNCHANGED ingestFaults
          \/ /\ BudgetLeft(w) /\ Fault
             /\ warmed' = NoPair /\ UNCHANGED store
             /\ \/ EndOfCycle(w, [c EXCEPT !.failed = @ + 1])
                \/ PairDone(w, [c EXCEPT !.failed = @ + 1])
    /\ UNCHANGED <<offset, due, warmLock, backfillRun>>

\* recordRun: the row that carries the cursor and starts the interval.
recordRun(c) == offset' = c.start /\ due' = FALSE

\* The end of warmCacheLocked: a run that cannot be recorded is logged and
\* forgotten.
finishCycle(w) ==
    /\ wpc[w] = "record"
    /\ \/ recordRun(cycle[w]) /\ UNCHANGED ingestFaults
       \/ Fault /\ UNCHANGED <<offset, due>>
    /\ WarmGo(w, "unlock")
    /\ warmed' = NoPair
    /\ UNCHANGED <<store, warmLock, cycle, backfillRun>>

releaseWarmLock(w) ==
    /\ wpc[w] = "unlock"
    /\ warmLock' = Nobody
    /\ cycle' = [cycle EXCEPT ![w] = IdleCycle]
    /\ WarmGo(w, "idle")
    /\ UNCHANGED <<store, offset, due, warmed, backfillRun, ingestFaults>>

----------------------------------------------------------------------------
(* Backfills.                                                              *)

\* openRun, before the first request.
openRun ==
    /\ backfillRun.status # "running"
    /\ backfillRun' = [status |-> "running", left |-> Pairs, failed |-> 0]
    /\ UNCHANGED <<store, offset, due, warmLock, wpc, cycle, warmed, ingestFaults>>

\* One pair of the backfill: its failure does not stop the others.
backfillPair(p) ==
    /\ backfillRun.status = "running" /\ p \in backfillRun.left /\ \A q \in backfillRun.left : p <= q
    /\ \/ store' = [store EXCEPT ![p] = upsertCandles(@, p, "all")]
          /\ backfillRun' = [backfillRun EXCEPT !.left = @ \ {p}] /\ UNCHANGED ingestFaults
       \/ backfillRun' = [backfillRun EXCEPT !.left = @ \ {p}, !.failed = @ + 1]
          /\ Fault /\ UNCHANGED store
    /\ UNCHANGED <<offset, due, warmLock, wpc, cycle, warmed>>

closeRun ==
    /\ backfillRun.status = "running" /\ backfillRun.left = {}
    /\ backfillRun' = [NoBackfill EXCEPT !.status =
                         IF backfillRun.failed = 0 THEN "completed"
                         ELSE IF backfillRun.failed = NPairs THEN "failed" ELSE "partial"]
    /\ UNCHANGED <<store, offset, due, warmLock, wpc, cycle, warmed, ingestFaults>>

----------------------------------------------------------------------------
(* The environment.                                                        *)

\* A period passes, and with it the minimum interval.
barCloses ==
    /\ \E p \in Pairs : store[p].any /\ ~store[p].tail
    /\ due' = TRUE
    /\ store' = [p \in Pairs |-> [store[p] EXCEPT !.tail = TRUE]]
    /\ UNCHANGED <<offset, warmLock, wpc, cycle, warmed, backfillRun, ingestFaults>>

intervalElapses ==
    /\ ~due /\ due' = TRUE
    /\ UNCHANGED <<store, offset, warmLock, wpc, cycle, warmed, backfillRun, ingestFaults>>

\* A warmer dies: its session and its lock go, no run is recorded.
warmerCrash(w) ==
    /\ wpc[w] # "idle" /\ Fault
    /\ warmLock' = IF warmLock = w THEN Nobody ELSE warmLock
    /\ cycle' = [cycle EXCEPT ![w] = IdleCycle]
    /\ WarmGo(w, "idle")
    /\ UNCHANGED <<store, offset, due, warmed, backfillRun>>

WarmStep(w) ==
    \/ warmCache(w) \/ warmCacheLocked(w, lastScheduledRunState) \/ warmPair(w) \/ providerRequest(w)
    \/ finishCycle(w) \/ releaseWarmLock(w)

IngestNext ==
    \/ \E w \in Warmers : startCycle(w) \/ WarmStep(w) \/ warmerCrash(w)
    \/ \E p \in Pairs : getCandles(p) \/ backfillPair(p)
    \/ openRun \/ closeRun \/ barCloses \/ intervalElapses

IngestSpec == IngestInit /\ [][IngestNext]_ingestVars

\* The ticker starts cycles for ever, a started cycle runs, and time passes.
IngestFairness ==
    /\ \A w \in Warmers : WF_ingestVars(startCycle(w)) /\ WF_ingestVars(WarmStep(w))
    /\ WF_ingestVars(intervalElapses)

----------------------------------------------------------------------------
(* Properties.                                                             *)

\* At most one warm cycle spends provider requests at a time, and a cycle
\* never exceeds its budget, whatever fails or crashes in it.
WarmCyclesExclusive ==
    /\ Cardinality({w \in Warmers : wpc[w] \in {"prior", "pairs", "record"}}) <= 1
    /\ \A w \in Warmers : wpc[w] \in {"prior", "pairs", "record", "unlock"} => warmLock = w

\* The warm cycle, as a whole: one at a time, within its budget.
CyclesAreSound == IngestTypeOK /\ WarmCyclesExclusive

\* nextRotationOffset: "every pair is reached within ceil(totalPairs / budget)
\* cycles - no pair can starve": a pair is warmed again and again.
EveryPairWarmed == \A p \in Pairs : []<>(warmed = p)
============================================================================
