-------------------------- MODULE StrategyEvaluation --------------------------
(***************************************************************************)
(* The strategy evaluation engine (core/src/strategies/evaluation/         *)
(* engine.ts) and the setup-quality score (core/src/scoring/engine.ts).    *)
(*                                                                         *)
(* The market appends candles: `series` are the candles stored so far and  *)
(* the last of them may still be forming (it closes at the next step and   *)
(* may move until then).  The engine is a pure function of the stored      *)
(* candles and the anchor: a direction passes when its rule groups say so, *)
(* and its candidate entry, stop and targets are derived from the same     *)
(* candles.  What the groups' conditions came to is also taken as an input *)
(* of its own (`outcome`), so that the verdict and the score are examined  *)
(* over every combination of statuses.                                     *)
(***************************************************************************)
EXTENDS PriceAction, TLC

CONSTANTS Shapes,        \* the candles the market prints
          Histories,     \* the candles stored when the market opens
          MaxGrowth,     \* bound: candles printed after them
          TopPrice,      \* the price candles are mirrored about
          Conditions,    \* conditions with their parameters
          Risks,         \* risk configurations
          Outcomes       \* evaluated directions for the verdict and the score

VARIABLES series,    \* candles, oldest first
          stored,    \* how many of them were there at the start
          forming,   \* the last of them is not closed yet
          outcome    \* an evaluated direction

evaluationVars == <<series, stored, forming, outcome>>

(***************************************************************************)
(* The engine.                                                             *)
(***************************************************************************)

\* candles whose period is not over are read too
allCandles(s, asOf) == s

\* Candle i opens at i - 1 and closes at i: only closed ones count at the anchor.
closedCandles(s, asOf) == SubSeq(s, 1, Lower(Len(s), asOf))

\* anchorOffsetCandles moves the condition's own anchor back.
conditionCandles(s, offset) == SubSeq(s, 1, Higher(0, Len(s) - offset))

Fraction(n, d) == [num |-> n, den |-> d]
NoFraction == Fraction(0, 0)
Plus(a, b) == Fraction(a.num * b.den + b.num * a.den, a.den * b.den)

\* the last swing, wherever the price is
stopAtLastSwing(risk, s, direction) ==
    LET window == Suffix(s, 50)
        entry == Final(s).close
        long == direction = "long"
        P == IF long THEN pivotLows(window, HalfWidth) ELSE pivotHighs(window, HalfWidth)
        distance == IF long THEN entry - window[Max(P)].low ELSE window[Max(P)].high - entry
    IN IF P = {} THEN NoFraction ELSE Plus(Fraction(distance, 1), bufferToPrice(risk, entry))

\* How far the structure stop is from the entry: beyond the last swing, or beyond
\* the window's extreme when there is none; NoFraction when that is not a stop.
structureStop(risk, s, direction) ==
    LET window == Suffix(s, 50)
        entry == Final(s).close
        buffer == bufferToPrice(risk, entry)
        long == direction = "long"
        pivot == IF long THEN lastPivotLowBelow(window, entry) ELSE lastPivotHighAbove(window, entry)
        extreme == IF long THEN Min(Lows(window)) ELSE Max(Highs(window))
        level == IF pivot = 0 THEN extreme ELSE IF long THEN window[pivot].low ELSE window[pivot].high
        distance == IF long THEN entry - level ELSE level - entry
    IN IF pivot = 0 /\ distance <= 0 THEN NoFraction ELSE Plus(Fraction(distance, 1), buffer)

\* How far the stop is from the entry, by the strategy's rule.
stopDistance(risk, s, direction, buffer, atr) ==
    CASE risk.stop = "structure" -> structureStop(risk, s, direction)
      [] risk.stop = "fixed"     -> buffer
      [] risk.stop = "atr"       -> IF atr = NoAtr THEN NoFraction ELSE Plus(atr, buffer)

\* The targets of a position, and its reward in multiples of the distance:
\* `target` is the structural level as a singleton, or {}.
targetsOf(risk, entry, side, dist, target) ==
    LET tp(n) == Fraction(entry * dist.den + side * Size(dist.num) * risk.rr[n], dist.den)
    IN CASE risk.take = "rr" ->
              [targets |-> [n \in 1..3 |-> IF tp(n).num > 0 THEN tp(n) ELSE NoFraction],
               rr |-> Fraction(risk.rr[3], 1)]
         [] risk.take = "structure" /\ target /= {} ->
              [targets |-> <<Fraction(Max(target), 1), NoFraction, NoFraction>>,
               rr |-> Fraction(Size(Max(target) - entry) * dist.den, Size(dist.num))]
         [] OTHER -> [targets |-> <<NoFraction, NoFraction, NoFraction>>, rr |-> NoFraction]

\* A position of that distance; none when the distance or the stop is not positive.
candidateAt(entry, side, dist, plan) ==
    IF dist.den = 0 \/ dist.num = 0 \/ entry * dist.den - side * dist.num <= 0 THEN NoCandidate
    ELSE [entry |-> entry, stop |-> Fraction(entry * dist.den - side * dist.num, dist.den)] @@ plan

planFor(risk, s, direction, entry, side, dist) ==
    candidateAt(entry, side, dist, targetsOf(risk, entry, side, dist, structuralTarget(Suffix(s, 50), direction, entry)))

\* deriveCandidate: the entry, the stop, and the targets as multiples of their
\* distance; NoCandidate when any level is missing.
deriveCandidate(risk, s, direction) ==
    LET entry == Final(s).close
        buffer == bufferToPrice(risk, entry)
    IN IF Len(s) < 2 \/ buffer = NoBuffer THEN NoCandidate
       ELSE planFor(risk, s, direction, entry, IF direction = "long" THEN 1 ELSE -1,
                    stopDistance(risk, s, direction, buffer, atrWilder(Suffix(s, 50), AtrPeriod)))

\* One condition, as the engine evaluates it at an anchor.
evaluateCondition(p, direction, s, asOf, risk) ==
    LET closed == closedCandles(s, asOf)
    IN handle(p, direction, conditionCandles(closed, p.offset), deriveCandidate(risk, closed, direction), risk)

\* A group's verdict, and whether it decides at all.
groupSatisfied(g) ==
    IF g.logic = "AND" THEN \A c \in DOMAIN g.conditions : g.conditions[c].status = "satisfied"
    ELSE \E c \in DOMAIN g.conditions : g.conditions[c].status = "satisfied"
groupDecides(g) ==
    \E c \in DOMAIN g.conditions : g.conditions[c].class \in {"required", "confirmation"}

Unknown(status) == status \in {Insufficient, Unsupported}

\* a veto that could not be evaluated counts as ruled out
conditionAllows(c) ==
    /\ c.class = "disqualifying" => c.status /= "satisfied"
    /\ c.class \in {"required", "confirmation"} => ~Unknown(c.status)

\* What a single condition may not be, whatever its group.
conditionClear(c) ==
    /\ c.class = "disqualifying" => c.status /= "satisfied" /\ ~Unknown(c.status)
    /\ c.class \in {"required", "confirmation"} => ~Unknown(c.status)

\* evaluateDirection: passed means there is no reason to fail.
evaluateDirection(o) ==
    /\ ~o.pipUnresolved
    /\ \A g \in DOMAIN o.groups :
        /\ groupDecides(o.groups[g]) => groupSatisfied(o.groups[g])
        /\ \A c \in DOMAIN o.groups[g].conditions : conditionClear(o.groups[g].conditions[c])
    /\ \A f \in DOMAIN o.filters : o.filters[f] = "satisfied"

(***************************************************************************)
(* The score, in hundredths of a point.                                    *)
(***************************************************************************)

Rows(o) == {<<g, c>> : g \in DOMAIN o.groups, c \in 1..3}
Cond(o, r) == o.groups[r[1]].conditions[r[2]]
Present(o) == {r \in Rows(o) : r[2] \in DOMAIN o.groups[r[1]].conditions}

\* scoringUnits: an OR group counts once, the members of an AND group each.
\* The result is [of |-> units, met |-> satisfied ones].
scoringUnits(o, Include(_)) ==
    LET R == {r \in Present(o) : Include(Cond(o, r))}
        ors == {r[1] : r \in {q \in R : o.groups[q[1]].logic = "OR"}}
        ands == {r \in R : o.groups[r[1]].logic = "AND"}
    IN [of |-> Cardinality(ors) + Cardinality(ands),
        met |-> Cardinality({g \in ors : \E r \in R : r[1] = g /\ Cond(o, r).status = "satisfied"})
                + Cardinality({r \in ands : Cond(o, r).status = "satisfied"})]

\* component: the weight times the fraction, rounded to hundredths.
points(weight, met, of) == (2 * weight * 100 * met + of) \div (2 * of)
gateComponent(weight, u) == IF u.of = 0 THEN weight * 100 ELSE points(weight, u.met, u.of)
evidenceComponent(weight, u) == IF u.of = 0 THEN 0 ELSE points(weight, u.met, u.of)

\* the polarity of a veto forgotten
clearanceOfMet(o) ==
    LET D == {r \in Present(o) : Cond(o, r).class = "disqualifying"}
    IN gateComponent(20, [of |-> Cardinality(D),
                          met |-> Cardinality({r \in D : Cond(o, r).status = "satisfied"})])

clearanceComponent(o) ==
    LET D == {r \in Present(o) : Cond(o, r).class = "disqualifying"}
    IN gateComponent(20, [of |-> Cardinality(D),
                          met |-> Cardinality({r \in D : Cond(o, r).status = "unsatisfied"})])

completenessComponent(o) ==
    LET checks == <<o.candidate, o.candidate /\ o.targets, o.candidate /\ o.rrMet,
                    \A f \in DOMAIN o.filters : o.filters[f] = "satisfied">>
    IN points(10, Cardinality({i \in 1..4 : checks[i]}), 4)

dataSufficiencyComponent(o) ==
    LET n == Cardinality(Present(o)) + Len(o.filters)
        known == Cardinality({r \in Present(o) : ~Unknown(Cond(o, r).status)})
                 + Cardinality({f \in DOMAIN o.filters : ~Unknown(o.filters[f])})
    IN IF n = 0 THEN 0 ELSE points(5, known, n)

\* the failing direction is not capped
scoreUncapped(o) ==
    (gateComponent(25, scoringUnits(o, LAMBDA c : c.class = "required"))
     + gateComponent(15, scoringUnits(o, LAMBDA c : c.class = "confirmation"))
     + clearanceComponent(o)
     + evidenceComponent(15, scoringUnits(o, LAMBDA c : c.class = "optional"))
     + evidenceComponent(10, scoringUnits(o, LAMBDA c : c.role = "htf_bias" /\ c.class /= "disqualifying"))
     + completenessComponent(o) + dataSufficiencyComponent(o) + 50) \div 100

\* scoreSetupQuality: a failing direction is capped below the alert grades.
scoreSetupQuality(o) ==
    LET total == (gateComponent(25, scoringUnits(o, LAMBDA c : c.class = "required"))
                  + gateComponent(15, scoringUnits(o, LAMBDA c : c.class = "confirmation"))
                  + clearanceComponent(o)
                  + evidenceComponent(15, scoringUnits(o, LAMBDA c : c.class = "optional"))
                  + evidenceComponent(10, scoringUnits(o, LAMBDA c : c.role = "htf_bias"
                                                                     /\ c.class /= "disqualifying"))
                  + completenessComponent(o) + dataSufficiencyComponent(o) + 50) \div 100
        bounded == Higher(0, Lower(100, total))
    IN IF evaluateDirection(o) THEN bounded ELSE Lower(bounded, 64)

-----------------------------------------------------------------------------

EvaluationInit ==
    /\ series \in Histories
    /\ stored = Len(series)
    /\ forming = FALSE
    /\ outcome \in Outcomes

\* The market prints: a new candle opens (the last one is closed), or the
\* forming candle moves.
openCandle(c) ==
    /\ Len(series) < stored + MaxGrowth
    /\ series' = Append(series, c)
    /\ forming' = TRUE
    /\ UNCHANGED <<stored, outcome>>

moveCandle(c) ==
    /\ forming
    /\ series' = [series EXCEPT ![Len(series)] = c]
    /\ UNCHANGED <<stored, forming, outcome>>

closeCandle ==
    /\ forming /\ forming' = FALSE
    /\ UNCHANGED <<series, stored, outcome>>

MarketNext == (\E c \in Shapes : openCandle(c) \/ moveCandle(c)) \/ closeCandle

\* One condition's status changes from one evaluation to the next.
Restatus(g, c, status) ==
    /\ g \in DOMAIN outcome.groups /\ c \in DOMAIN outcome.groups[g].conditions
    /\ outcome' = [outcome EXCEPT !.groups[g].conditions[c].status = status]
    /\ UNCHANGED <<series, stored, forming>>

Statuses == {"satisfied", "unsatisfied", Insufficient, Unsupported}
OutcomeNext == \E g \in 1..2, c \in 1..3, st \in Statuses : Restatus(g, c, st)

EvaluationNext == MarketNext \/ OutcomeNext

EvaluationSpec == EvaluationInit /\ [][EvaluationNext]_evaluationVars

-----------------------------------------------------------------------------

\* The anchor is the close of the last closed candle.
Anchor == Len(series) - (IF forming THEN 1 ELSE 0)
Closed == SubSeq(series, 1, Anchor)

Mirrored(c) == [open |-> TopPrice - c.open, high |-> TopPrice - c.low,
                low |-> TopPrice - c.high, close |-> TopPrice - c.close]
MirroredSeries(s) == [i \in DOMAIN s |-> Mirrored(s[i])]

Flip == [x \in {"bullish", "bearish", "either", "long", "short", "above", "below"} |->
           CASE x = "bullish" -> "bearish" [] x = "bearish" -> "bullish" [] x = "either" -> "either"
             [] x = "long" -> "short" [] x = "short" -> "long"
             [] x = "above" -> "below" [] x = "below" -> "above"]
TypeFlip(t) == CASE t = "support" -> "resistance" [] t = "resistance" -> "support"
                 [] t = "supply" -> "demand" [] t = "demand" -> "supply" [] OTHER -> t
FlippedCondition(p) ==
    [k \in DOMAIN p |-> CASE k = "type" -> TypeFlip(p.type)
                          [] k \in {"side", "direction", "kind"} -> Flip[p[k]]
                          [] OTHER -> p[k]]

\* What a condition that needs no candidate says at the anchor.
Says(p, d, s) == evaluateCondition(p, d, s, Anchor, CHOOSE r \in Risks : TRUE)

\* Long and short are mirror images: the code writes the two sides of every
\* condition out by hand (handlers.ts, indicators.ts), so on the mirrored candles
\* the mirrored condition must say of a short what the condition says of a long.
LongMirrorsShort ==
    \A p \in {q \in Conditions : q.type /= "rr_requirement"}, d \in {"long", "short"} :
        Says(p, d, series) = Says(FlippedCondition(p), Flip[d], MirroredSeries(series))

\* Nothing repaints: the candles the engine reads at an anchor are settled once that
\* anchor has passed (closedCandles), and a swing confirmed by them stays one whatever
\* candles follow (findPivots), so no structure break appears in hindsight.
NothingRepaints ==
    [][/\ closedCandles(series', Anchor) = Closed
       /\ pivotHighs(Closed, HalfWidth) \subseteq pivotHighs(Closed', HalfWidth)
       /\ pivotLows(Closed, HalfWidth) \subseteq pivotLows(Closed', HalfWidth)]_evaluationVars

Less(a, b) == a.num * b.den < b.num * a.den

Tradable(k, d) ==
    LET entry == Fraction(k.entry, 1)
        Wins(a, b) == IF d = "long" THEN Less(a, b) ELSE Less(b, a)
    IN /\ k.stop.num > 0 /\ Wins(k.stop, entry)
       /\ \A n \in 1..3 : k.targets[n] /= NoFraction =>
             /\ k.targets[n].num > 0 /\ Wins(entry, k.targets[n])
             /\ n > 1 /\ k.targets[n - 1] /= NoFraction => ~Wins(k.targets[n], k.targets[n - 1])

\* A candidate's stop is a positive price on the losing side of the entry, and its
\* targets are positive, on the winning side and ordered (deriveCandidate).
CandidateIsTradable ==
    \A r \in Risks, d \in {"long", "short"} :
        \A k \in {deriveCandidate(r, Closed, d)} : k /= NoCandidate => Tradable(k, d)

\* Missing data never decides for a trade: a direction that passes would pass
\* whatever the conditions that could not be evaluated turn out to be, and a
\* direction that fails never scores above the cap (engine.ts, scoring/engine.ts).
PassNeedsNoLuck ==
    LET Unknowns == {r \in Present(outcome) : Unknown(Cond(outcome, r).status)}
        Resolved(f) == [outcome EXCEPT !.groups =
            [g \in DOMAIN @ |-> [@[g] EXCEPT !.conditions =
                [c \in DOMAIN @ |-> IF <<g, c>> \in Unknowns THEN [@[c] EXCEPT !.status = f[<<g, c>>]]
                                    ELSE @[c]]]]]
    IN /\ evaluateDirection(outcome) =>
            \A f \in [Unknowns -> {"satisfied", "unsatisfied"}] : evaluateDirection(Resolved(f))
       /\ scoreSetupQuality(outcome) \in 0..100
       /\ ~evaluateDirection(outcome) => scoreSetupQuality(outcome) <= 64

\* Evidence is rewarded: when a condition of a setup becomes satisfied (or a veto is
\* ruled out) the score does not fall (scoring/engine.ts).
EvidenceRaisesScore ==
    [][\A g \in DOMAIN outcome.groups : \A c \in DOMAIN outcome.groups[g].conditions :
          LET a == outcome.groups[g].conditions[c]
              b == outcome'.groups[g].conditions[c]
          IN a.status /= b.status /\ b.status = (IF a.class = "disqualifying" THEN "unsatisfied" ELSE "satisfied")
             => scoreSetupQuality(outcome') >= scoreSetupQuality(outcome)]_outcome
=============================================================================
