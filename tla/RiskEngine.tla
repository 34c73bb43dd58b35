----------------------------- MODULE RiskEngine -----------------------------
(***************************************************************************)
(* The pure part of the risk engine: fixed-point decimals (decimal.ts),    *)
(* position sizing (sizing.ts) and the checks of evaluateRiskInner         *)
(* (engine.ts) but for the drawdown part, which RiskLedger adds.           *)
(*                                                                         *)
(* A decimal is an integer number of 1/DecScale.  A case c is one input of *)
(* the engine after the strategy's override was applied:                   *)
(*   gates      what blocks the trade without any arithmetic               *)
(*   close      the action is close_position                               *)
(*   hour, windows   the evaluation hour, and the allowed sessions as      *)
(*                   <<start, end>> pairs, or Always                       *)
(*   equity, daily, weekly   the account's value and its realized losses   *)
(*   pct        the policy's percentages, maxRisk its monetary cap (0 none)*)
(*   held, reserved   open positions and active reservations               *)
(*   groups     the candidate's correlation groups, known FALSE if dangling*)
(*   entry, stop, spec   the candidate's prices and its instrument         *)
(***************************************************************************)
EXTENDS Integers, FiniteSets, FiniteSetsExt

CONSTANT DecScale      \* units of one, in the engine's decimals

DecAssumption == DecScale \in Nat \ {0}

RoundEven(n, d) ==
    LET q == n \div d
        twice == 2 * (n % d)
    IN  IF twice < d \/ (twice = d /\ q % 2 = 0) THEN q ELSE q + 1

\* What numeric(10,6) makes of a value: half away from zero.
RoundStored(n, d) == (2 * n + d) \div (2 * d)

DecMul(a, b) == RoundEven(a * b, DecScale)
DecDiv(a, b) == RoundEven(a * DecScale, b)
DecDivDown(a, b) == (a * DecScale) \div b

\* The size rounded to the nearest step instead of down to it.
roundToStep(a, step) == RoundStored(a, step) * step

floorToStep(a, step) == (a \div step) * step

Distance(a, b) == IF a > b THEN a - b ELSE b - a

valuePerUnit(spec, entry, distance) ==
    LET product == DecMul(spec.contract, distance)
    IN  IF spec.mode = "quote_linear" THEN product ELSE DecDiv(product, entry)

(***************************************************************************)
(* Sizing.                                                                 *)
(***************************************************************************)
pctOf(c, pct) == RoundEven(c.equity * pct, 100)

BudgetOf(c, caps) == Min({pctOf(c, c.pct.trade)} \cup caps \cup ({c.maxRisk} \ {0}))

Unsized(code) == [ok |-> FALSE, code |-> code, quantity |-> 0, risk |-> 0]

sizePosition(c, caps) ==
    LET distance == Distance(c.entry, c.stop)
        vpu == valuePerUnit(c.spec, c.entry, distance)
        budget == BudgetOf(c, caps)
        qty == floorToStep(DecDivDown(budget, vpu), c.spec.step)
    IN  IF c.equity <= 0 THEN Unsized("ZERO_OR_NEGATIVE_EQUITY")
        ELSE IF distance = 0 THEN Unsized("STOP_DISTANCE_NOT_POSITIVE")
        ELSE IF budget <= 0 THEN Unsized("MONETARY_RISK_EXCEEDS_LIMIT")
        ELSE IF vpu <= 0 THEN Unsized("POSITION_SIZE_UNCOMPUTABLE")
        ELSE IF qty <= 0 \/ qty < c.spec.min THEN Unsized("POSITION_SIZE_BELOW_MINIMUM")
        ELSE IF qty > c.spec.max THEN Unsized("POSITION_SIZE_EXCEEDS_MAXIMUM")
        ELSE IF DecMul(qty, vpu) > budget THEN Unsized("MONETARY_RISK_EXCEEDS_LIMIT")
        ELSE [ok |-> TRUE, code |-> "none", quantity |-> qty, risk |-> DecMul(qty, vpu)]

(***************************************************************************)
(* Sessions: an interval of hours may wrap midnight, an empty one allows   *)
(* nothing.                                                                *)
(***************************************************************************)
Always == {<<-1, -1>>}

sessionAllows(windows, hour) ==
    \/ windows = Always
    \/ \E w \in windows :
          /\ w[1] # w[2]
          /\ IF w[2] > w[1] THEN hour >= w[1] /\ hour < w[2] ELSE hour >= w[1] \/ hour < w[2]

(***************************************************************************)
(* Exposure.  A position without a stop loss or a specification has no     *)
(* computable risk: it counts for nothing and raises a violation.          *)
(***************************************************************************)
Unknown == -1

openRiskOf(p) ==
    LET distance == Distance(p.entry, p.stop)
    IN  IF p.stop = 0 \/ ~p.specified \/ distance = 0 THEN Unknown
        ELSE DecMul(p.quantity, valuePerUnit(p.spec, p.entry, distance))

SumOf(S, weight(_)) == MapThenSumSet(weight, S)

\* held and reserved are sets of records with distinct ids.
ExposureOf(c, held(_), reserved(_)) ==
      SumOf({p \in c.held : held(p) /\ openRiskOf(p) # Unknown}, openRiskOf)
    + SumOf({r \in c.reserved : reserved(r)}, LAMBDA r : r.risk)

TotalRisk(c) == ExposureOf(c, LAMBDA p : TRUE, LAMBDA r : TRUE)
InstrumentRisk(c) == ExposureOf(c, LAMBDA p : p.symbol = c.symbol, LAMBDA r : r.symbol = c.symbol)
DirectionRisk(c) == ExposureOf(c, LAMBDA p : p.direction = c.direction, LAMBDA r : r.direction = c.direction)
GroupRisk(c, g) == ExposureOf(c, LAMBDA p : p.symbol \in g.members, LAMBDA r : r.symbol \in g.members)

CodeIf(code, holds) == IF holds THEN {code} ELSE {}

\* Every check before the one for a close: its violations block closes too.
CommonCodes(c) ==
    c.gates
    \cup CodeIf("ZERO_OR_NEGATIVE_EQUITY", c.equity <= 0)
    \cup CodeIf("SESSION_NOT_ALLOWED", ~sessionAllows(c.windows, c.hour))
    \cup CodeIf("OPEN_POSITION_RISK_UNCOMPUTABLE", \E p \in c.held : openRiskOf(p) = Unknown)
    \cup CodeIf("DAILY_LOSS_LIMIT", c.daily >= pctOf(c, c.pct.daily) /\ pctOf(c, c.pct.daily) > 0)
    \cup CodeIf("WEEKLY_LOSS_LIMIT", c.weekly >= pctOf(c, c.pct.weekly) /\ pctOf(c, c.pct.weekly) > 0)

\* What is left under each cap; one that is already exceeded is dropped here, and
\* refused by the projected exposure below.
RemainingCaps(c) ==
    {x \in {pctOf(c, c.pct.daily) - c.daily, pctOf(c, c.pct.weekly) - c.weekly,
            pctOf(c, c.pct.total) - TotalRisk(c), pctOf(c, c.pct.instrument) - InstrumentRisk(c),
            pctOf(c, c.pct.direction) - DirectionRisk(c)} : x >= 0}

GroupCap(c, g) == IF g.cap = 0 THEN pctOf(c, c.pct.group) ELSE pctOf(c, g.cap)

\* The check that leaves exposure to the caps already given to the sizing.
ProjectedCodesBySize(c, risk) ==
    CodeIf("SIMULTANEOUS_POSITION_LIMIT", Cardinality(c.held) + Cardinality(c.reserved) + 1 > c.positions)
    \cup CodeIf("CORRELATION_EXPOSURE_LIMIT",
                \E g \in {x \in c.groups : x.known} : risk + GroupRisk(c, g) > GroupCap(c, g))

ProjectedCodes(c, risk) ==
    CodeIf("SIMULTANEOUS_POSITION_LIMIT", Cardinality(c.held) + Cardinality(c.reserved) + 1 > c.positions)
    \cup CodeIf("TOTAL_OPEN_RISK_LIMIT", TotalRisk(c) + risk > pctOf(c, c.pct.total))
    \cup CodeIf("INSTRUMENT_EXPOSURE_LIMIT", InstrumentRisk(c) + risk > pctOf(c, c.pct.instrument))
    \cup CodeIf("DIRECTION_EXPOSURE_LIMIT", DirectionRisk(c) + risk > pctOf(c, c.pct.direction))
    \cup CodeIf("CORRELATION_METADATA_UNAVAILABLE",
                c.correlationRequired /\ (c.groups = {} \/ \E g \in c.groups : ~g.known))
    \cup CodeIf("CORRELATION_EXPOSURE_LIMIT",
                \E g \in {x \in c.groups : x.known} : risk + GroupRisk(c, g) > GroupCap(c, g))

verdict(c) ==
    LET sized == sizePosition(c, RemainingCaps(c))
        codes == CommonCodes(c) \cup CodeIf(sized.code, ~sized.ok) \cup ProjectedCodes(c, sized.risk)
    IN  IF c.close THEN [approved |-> CommonCodes(c) = {}, quantity |-> 0, risk |-> 0]
        ELSE [approved |-> codes = {}, quantity |-> sized.quantity, risk |-> sized.risk]

(***************************************************************************)
(* The operator's promise, without the operator's arithmetic: an approved  *)
(* size is a multiple of the step within the instrument's bounds, its      *)
(* exact risk is under the per-trade budget and, with everything open and  *)
(* reserved, under every cap, and the hour is one the policy allows.       *)
(***************************************************************************)
HoursOf(w) == {h \in 0..23 : IF w[2] > w[1] THEN h \in w[1]..(w[2] - 1)
                             ELSE w[1] # w[2] /\ h \notin w[2]..(w[1] - 1)}

WithinEveryCap(c, v) ==
    LET vpu == valuePerUnit(c.spec, c.entry, Distance(c.entry, c.stop))
        cap == [t |-> pctOf(c, c.pct.total), i |-> pctOf(c, c.pct.instrument), d |-> pctOf(c, c.pct.direction)]
    IN  v.approved /\ ~c.close =>
          /\ v.quantity % c.spec.step = 0 /\ v.quantity \in c.spec.min..c.spec.max
          /\ v.quantity * vpu <= pctOf(c, c.pct.trade) * DecScale
          /\ c.maxRisk > 0 => v.quantity * vpu <= c.maxRisk * DecScale
          /\ TotalRisk(c) + v.risk <= cap.t /\ InstrumentRisk(c) + v.risk <= cap.i
          /\ DirectionRisk(c) + v.risk <= cap.d
          /\ \A g \in c.groups : g.known => GroupRisk(c, g) + v.risk <= GroupCap(c, g)
          /\ c.daily + v.risk <= pctOf(c, c.pct.daily) /\ c.weekly + v.risk <= pctOf(c, c.pct.weekly)
          /\ Cardinality(c.held) + Cardinality(c.reserved) < c.positions
          /\ \A p \in c.held : openRiskOf(p) # Unknown
          /\ c.windows = Always \/ c.hour \in UNION {HoursOf(w) : w \in c.windows}

=============================================================================
