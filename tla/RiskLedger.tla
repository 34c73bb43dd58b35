----------------------------- MODULE RiskLedger -----------------------------
(***************************************************************************)
(* The risk engine and its account ledger (packages/core/src/risk).        *)
(* evaluate and the recording of realized P&L run under the same two       *)
(* advisory locks, so each is one step; the circuit breaker is tripped     *)
(* AFTER the rejecting transaction has committed.  Both work at an instant *)
(* their caller read earlier (a close at the instant it was authorised),   *)
(* so the UTC day of a step may lie before the day of the step before it:  *)
(* MaxLag bounds how far.                                                  *)
(*                                                                         *)
(* Money is an integer; a percentage of it is compared without division.   *)
(* The sizing and exposure checks of evaluateRisk are RiskEngine's: here   *)
(* a trade is one more position, and cases of the pure part are looked at  *)
(* on their own through `considered`.                                      *)
(***************************************************************************)
EXTENDS RiskEngine

CONSTANTS
    Profiles,          \* execution profiles of one user
    PaperEquity,       \* risk_policies.paper_equity
    PlValues,          \* what a close may realize
    LimitChoices,      \* drawdown thresholds a user may configure
    DefaultDrawdown,   \* DEFAULT_RISK_POLICY's thresholds
    DrawdownCeiling,   \* PLATFORM_RISK_CEILINGS' thresholds
    LossLimits,        \* [daily, weekly : percent, streak, positions : count]
    DaysPerWeek,
    MaxDay,            \* bound on the clock, in days
    MaxLag,            \* bound on the age of a caller's instant, in days
    MaxCloses,         \* bound on closed positions
    PctScale,          \* the stored percentages keep this many units of one percent
    LegacyRows,        \* account rows written before drawdown was tracked
    RiskCases          \* inputs of RiskEngine's verdict

RiskAssumption ==
    /\ {PaperEquity, DaysPerWeek, PctScale} \subseteq Nat \ {0}
    /\ {MaxDay, MaxLag, MaxCloses} \subseteq Nat
    /\ PlValues \subseteq Int

VARIABLES
    policy,     \* [drawdown : thresholds, version]
    account,    \* [Profiles -> risk_account_states row or NoRow]
    holdings,   \* [Profiles -> [reserved, open : Nat, closed : Nat, sum : Int, best : Int]]
    breaker,    \* [stopped : BOOLEAN, pending : SUBSET Profiles]
    decision,   \* the last decision
    today,      \* the clock
    considered  \* a case of RiskEngine, or NoCase

riskVars == <<policy, account, holdings, breaker, decision, today, considered>>

(***************************************************************************)
(* The policy the engine works with.  evaluate hands applyPlatformCeilings *)
(* every field of the stored policy but the six drawdown thresholds, which *)
(* therefore take their defaults.                                          *)
(***************************************************************************)
Windows == {"daily", "weekly", "max"}

capDrawdown(raw, w, part) ==
    LET lim == Min({raw[w].limit, DrawdownCeiling[w]})
    IN  IF part = "limit" THEN lim ELSE Min({raw[w].warn, DrawdownCeiling[w], lim})

applyPlatformCeilings(raw) ==
    [w \in Windows |-> [warn |-> capDrawdown(raw, w, "warn"), limit |-> capDrawdown(raw, w, "limit")]]

PolicyOfEvaluate == applyPlatformCeilings(DefaultDrawdown)

(***************************************************************************)
(* The account row.                                                        *)
(***************************************************************************)
NoRow == [day |-> -1]
Exists(row) == row.day # -1
Week(day) == day \div DaysPerWeek
Value(row) == row.initial + row.cumulative

StoredPct(base, value) ==
    IF base > 0 /\ base > value THEN RoundStored((base - value) * 100 * PctScale, base) ELSE 0

VerifiedPct(base, value) ==
    IF base > 0 /\ base > value THEN RoundEven((base - value) * 100 * PctScale, base) ELSE 0

Pcts(peak, high, open, value) ==
    [max |-> StoredPct(peak, value), daily |-> StoredPct(high, value), weekly |-> StoredPct(open, value)]

NewRow(now) ==
    [day |-> now, week |-> Week(now), initial |-> PaperEquity, cumulative |-> 0, daily |-> 0, weekly |-> 0,
     streak |-> 0, peak |-> PaperEquity, high |-> PaperEquity, open |-> PaperEquity,
     pct |-> [w \in Windows |-> 0], initialized |-> TRUE, touched |-> today]

\* A row from before drawdown tracking starts from the policy's equity, with the
\* worst loss it knows of as its drawdown.
InitializeEquity(row) ==
    LET loss == Min({0, row.cumulative, row.daily, row.weekly})
    IN  IF row.initialized THEN row
        ELSE [row EXCEPT !.initial = PaperEquity, !.peak = PaperEquity, !.high = PaperEquity,
                         !.open = PaperEquity, !.initialized = TRUE, !.touched = today,
                         !.pct = [w \in Windows |-> StoredPct(PaperEquity, PaperEquity + loss)]]

\* The windows roll whenever the caller's day or week is another one.
RollWindows(row, now) ==
    LET newDay == row.day # now
        newWeek == row.week # Week(now)
        high == IF newDay THEN Value(row) ELSE row.high
        open == IF newWeek THEN Value(row) ELSE row.open
    IN  IF ~newDay /\ ~newWeek THEN row
        ELSE [row EXCEPT !.day = now, !.week = Week(now), !.high = high, !.open = open,
                         !.daily = IF newDay THEN 0 ELSE @, !.weekly = IF newWeek THEN 0 ELSE @,
                         !.pct = Pcts(row.peak, high, open, Value(row)), !.touched = today]

loadOrCreateAccountState(row, now) ==
    RollWindows(InitializeEquity(IF Exists(row) THEN row ELSE NewRow(now)), now)

Coherent(row) ==
    /\ row.peak >= Value(row) /\ row.high >= Value(row)
    /\ row.high <= row.peak /\ row.open <= row.peak

(***************************************************************************)
(* loadDrawdownInput: the engine sees drawdown only if the row agrees with *)
(* itself, with its own stored percentages and with the closed positions.  *)
(***************************************************************************)
DrawdownKnown(row, held) ==
    /\ row.initialized /\ row.initial > 0 /\ row.peak > 0 /\ row.high > 0 /\ row.open > 0
    /\ row.touched >= row.day - 1
    /\ Coherent(row)
    /\ row.pct = [max |-> VerifiedPct(row.peak, Value(row)), daily |-> VerifiedPct(row.high, Value(row)),
                  weekly |-> VerifiedPct(row.open, Value(row))]
    /\ held.closed > 0 => held.sum = row.cumulative

Baseline(row, w) == CASE w = "daily" -> row.high [] w = "weekly" -> row.open [] w = "max" -> row.peak

Reaches(row, w, pct) ==
    LET base == Baseline(row, w)
    IN  pct > 0 /\ base > Value(row) /\ (base - Value(row)) * 100 >= pct * base

DrawdownCodes(row, held, limits) ==
    IF ~DrawdownKnown(row, held) \/ Value(row) <= 0 THEN {<<"equity", "UNAVAILABLE">>}
    ELSE { <<w, IF Reaches(row, w, limits[w].limit) THEN "LIMIT" ELSE "WARNING">> :
              w \in {x \in Windows : Reaches(row, x, limits[x].warn)} }

LossCodes(row) ==
    {<<w, "LOSS">> : w \in {x \in {"daily", "weekly"} :
          LET pl == IF x = "daily" THEN row.daily ELSE row.weekly
          IN  pl < 0 /\ -pl * 100 >= LossLimits[x] * row.initial}}
    \cup CodeIf(<<"streak", "LOSS">>, row.streak >= LossLimits.streak)

ExposureCodes(held) ==
    CodeIf(<<"positions", "LIMIT">>, held.open + held.reserved + 1 > LossLimits.positions)

evaluateRisk(row, held, stopped) ==
    CodeIf(<<"kill", "ACTIVE">>, stopped) \cup LossCodes(row) \cup DrawdownCodes(row, held, PolicyOfEvaluate) \cup ExposureCodes(held)

isCircuitBreakerCode(code) ==
    code = <<"equity", "UNAVAILABLE">> \/ code \in {"daily", "weekly", "max", "streak"} \X {"LIMIT", "LOSS"}

\* What the policy the user configured, and is shown, would have stopped.
ConfiguredStop(row) == \E w \in Windows : Reaches(row, w, applyPlatformCeilings(policy.drawdown)[w].limit)

(***************************************************************************)
(* Operations.                                                             *)
(***************************************************************************)
NoDecision == [outcome |-> "none", stopConfigured |-> FALSE]

Instants == {d \in 0..MaxDay : d <= today /\ d >= today - MaxLag}

evaluate(p, now) ==
    LET row == loadOrCreateAccountState(account[p], now)
        codes == evaluateRisk(row, holdings[p], breaker.stopped)
        trips == \E c \in codes : isCircuitBreakerCode(c)
    IN  /\ account' = [account EXCEPT ![p] = row]
        /\ decision' = [outcome |-> IF codes = {} THEN "approved" ELSE "rejected",
                        stopConfigured |-> ConfiguredStop(row)]
        /\ holdings' = [holdings EXCEPT ![p].reserved = @ + (IF codes = {} THEN 1 ELSE 0)]
        /\ breaker' = [breaker EXCEPT !.pending = IF trips THEN @ \cup {p} ELSE @]
        /\ UNCHANGED <<policy, today, considered>>

\* A failed trip is logged and the call returns.
tripCircuitBreaker(p, trips) ==
    /\ p \in breaker.pending
    /\ breaker' = [stopped |-> breaker.stopped \/ trips, pending |-> breaker.pending \ {p}]
    /\ UNCHANGED <<policy, account, holdings, decision, today, considered>>

clearBreaker ==
    /\ breaker.stopped
    /\ breaker' = [breaker EXCEPT !.stopped = FALSE]
    /\ UNCHANGED <<policy, account, holdings, decision, today, considered>>

\* releaseReservation, and a reservation whose sixty seconds have passed.
releaseReservation(p) ==
    /\ holdings[p].reserved > 0
    /\ holdings' = [holdings EXCEPT ![p].reserved = @ - 1]
    /\ UNCHANGED <<policy, account, breaker, decision, today, considered>>

\* The fill that opens the position consumes the reservation.
openPosition(p) ==
    /\ holdings[p].reserved > 0
    /\ holdings' = [holdings EXCEPT ![p].reserved = @ - 1, ![p].open = @ + 1]
    /\ UNCHANGED <<policy, account, breaker, decision, today, considered>>

\* The recording that leaves the high-water mark to the next rollover.
RecordedWithoutPeak(row, pl) ==
    [row EXCEPT !.daily = @ + pl, !.weekly = @ + pl, !.cumulative = @ + pl,
                !.streak = IF pl < 0 THEN @ + 1 ELSE 0, !.touched = today]

RecordedPl(row, pl) ==
    LET value == Value(row) + pl
        peak == Max({row.peak, value})
        high == Max({row.high, value})
    IN  [row EXCEPT !.daily = @ + pl, !.weekly = @ + pl, !.cumulative = @ + pl,
                    !.streak = IF pl < 0 THEN @ + 1 ELSE 0, !.peak = peak, !.high = high,
                    !.pct = Pcts(peak, high, row.open, value), !.touched = today]

\* The close of a position and the recording of its P&L are one transaction; a
\* contradictory row throws and nothing of either is left.
recordRealizedPl(p, now, pl) ==
    LET row == loadOrCreateAccountState(account[p], now)
        held == holdings[p]
    IN  /\ held.open > 0 /\ held.closed < MaxCloses
        /\ Coherent(row)
        /\ account' = [account EXCEPT ![p] = RecordedPl(row, pl)]
        /\ holdings' = [holdings EXCEPT ![p] =
              [held EXCEPT !.open = @ - 1, !.closed = @ + 1, !.sum = @ + pl,
                           !.best = Max({@, PaperEquity + held.sum + pl})]]
        /\ UNCHANGED <<policy, breaker, decision, today, considered>>

updatePolicy(limits) ==
    /\ policy.drawdown # limits
    /\ \A w \in Windows : limits[w].limit <= DrawdownCeiling[w] /\ limits[w].warn <= limits[w].limit
    /\ policy' = [drawdown |-> limits]
    /\ UNCHANGED <<account, holdings, breaker, decision, today, considered>>

newDay ==
    /\ today < MaxDay
    /\ today' = today + 1
    /\ UNCHANGED <<policy, account, holdings, breaker, decision, considered>>

NoCase == [case |-> FALSE]

\* Either a case of the pure engine is looked at, or the ledger starts.
RiskInit ==
    /\ policy = [drawdown |-> DefaultDrawdown]
    /\ account \in [Profiles -> {NoRow} \cup LegacyRows]
    /\ holdings = [p \in Profiles |-> [reserved |-> 0, open |-> 0, closed |-> 0, sum |-> 0, best |-> PaperEquity]]
    /\ breaker = [stopped |-> FALSE, pending |-> {}]
    /\ decision = NoDecision
    /\ today = 0
    /\ considered \in {[case |-> TRUE, input |-> c, verdict |-> verdict(c)] : c \in RiskCases} \cup {NoCase}

RiskNext ==
    /\ considered = NoCase
    /\ \/ \E p \in Profiles, now \in Instants :
             \/ evaluate(p, now)
             \/ \E pl \in PlValues : recordRealizedPl(p, now, pl)
       \/ \E p \in Profiles :
             \/ releaseReservation(p) \/ openPosition(p)
             \/ \E trips \in BOOLEAN : tripCircuitBreaker(p, trips)
       \/ clearBreaker
       \/ \E limits \in LimitChoices : updatePolicy(limits)
       \/ newDay

RiskSpec == RiskInit /\ [][RiskNext]_riskVars

(***************************************************************************)
(* Properties.                                                             *)
(***************************************************************************)
RiskTypeOK ==
    /\ \A p \in Profiles :
          /\ account[p].day \in -1..MaxDay
          /\ holdings[p].reserved \in Nat /\ holdings[p].open \in Nat
    /\ breaker.stopped \in BOOLEAN /\ breaker.pending \subseteq Profiles
    /\ decision.outcome \in {"none", "approved", "rejected"}

\* However closes, evaluations and midnights interleave, and whatever day each of
\* them believes it is, the row this code keeps is never contradictory (so a close
\* never throws at service.ts 555-564), it adds up to the closed positions, and its
\* peak is the true high-water mark of the account.
AccountStaysCoherent ==
    \A p \in Profiles :
        Exists(account[p]) /\ account[p].initialized =>
            /\ Coherent(account[p])
            /\ account[p].cumulative = holdings[p].sum
            /\ account[p].peak = holdings[p].best

\* Whatever is open and reserved, a trade evaluateRisk approves (engine.ts 503-587)
\* is sized and bounded as WithinEveryCap says: dropping the caps that are already
\* exceeded (engine.ts 512-514) never lets a trade through.
ApprovedWithinEveryCap == considered.case => WithinEveryCap(considered.input, considered.verdict)

\* docs/milestones.md: drawdown thresholds are "User-editable within platform
\* ceilings".  No trade is approved on an account whose drawdown has reached a hard
\* stop the user configured.
ConfiguredLimitsBind == decision.outcome = "approved" => ~decision.stopConfigured

=============================================================================
