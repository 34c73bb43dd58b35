------------------------------ MODULE PaperBooks ------------------------------
(***************************************************************************)
(* The paper simulator's books: what an order, its fill, its position and  *)
(* the realized result are worth, in money (execution/paper-engine.ts and  *)
(* the transactions of paper-service.ts), the market they are priced from  *)
(* (paper-market.ts) and the two reconciliations that compare them, inside *)
(* every fill and as a sweep over three separate reads (reconciliation.ts).*)
(*                                                                         *)
(* PaperExecution asks who may trade; here every gate but the market price *)
(* is one yes or no.  A caller is a request of one server process; some    *)
(* processes run with the simulator's failure mode, so an entry may need   *)
(* several attempts.  A fill transaction is one step: it runs under the    *)
(* profile's advisory locks.  Prices are whole pips, money is counted in   *)
(* 1/MoneyScale of the account currency.  One candle row per instant.      *)
(***************************************************************************)
EXTENDS Integers, Sequences, FiniteSets, FiniteSetsExt, TLC

CONSTANTS
    PaperSetups,    \* setup -> [state, direction, entry, stop, target, quality, minimum]
    PaperCallers,
    FailingCallers, \* callers whose process injects fill failures
    FailUntil,      \* the instant after which they are redeployed without
    Bars,           \* candle rows that may be stored: [high, low, close]
    EntrySlippage, ExitSlippage, FeePips,
    ContractSize, PnlMode, MoneyScale,
    PositionSizes,  \* quantities the risk engine may approve
    StaleAge, AuthorizationTtl,
    EvaluationLimit, \* rows candlesSince reads
    MaxNow,         \* bound on the clock
    MaxAttempts     \* bound on an entry's attempts

VARIABLES
    now,        \* the clock, also the newest candle's instant
    candleRows, \* candles: the rows stored, by instant
    paperOrders, \* execution_orders, by client order id
    paperFills,  \* execution_fills, by client order id
    paperPositions, \* execution_positions, by setup
    ledgerPl,   \* realized P&L handed to the risk ledger
    paperCall,  \* what each caller is doing
    auditSweep  \* the reconciliation sweep: what it has read, what it found

paperVars == <<now, candleRows, paperOrders, paperFills, paperPositions, ledgerPl, paperCall,
               auditSweep>>

SetupNames == DOMAIN PaperSetups
ExitReasons == {"stop_loss", "take_profit", "close"}
\* An entry's id carries its attempt; an exit has one id of each kind.
EntryId(s, attempt) == <<s, "entry", attempt>>
ExitId(s, reason) == <<s, reason, 1>>
KindOf(id) == id[2]
SetupOf(id) == id[1]

OrderRow == [status : {"filled", "failed"}, side : {"buy", "sell"}, qty : Nat, filled : Nat,
             price : Nat, fees : Nat, slippage : Nat]
FillRow == [qty : Nat, price : Nat, fees : Nat, slippage : Nat]
PositionRow == [status : {"open", "closed"}, direction : {"long", "short"}, qty : Nat, entry : Nat,
                exit : Nat, reason : ExitReasons \cup {"none"}, pl : Int, fees : Nat,
                slippage : Nat, openedBy : SetupNames \X {"entry"} \X (1..MaxAttempts),
                openedAt : 1..MaxNow, mark : Nat, unrealized : Int]

None == <<>>
PaperIdle == [pc |-> "idle", id |-> None, ref |-> 0, qty |-> 0, at |-> 0]

-----------------------------------------------------------------------------
(* order-machine.ts                                                        *)

ORDER_TRANSITIONS ==
    [requested |-> {"validating", "rejected", "failed", "cancelled"},
     validating |-> {"submitted", "rejected", "failed", "cancelled"},
     submitted |-> {"accepted", "rejected", "cancelled", "expired", "failed"},
     accepted |-> {"partially_filled", "filled", "cancelled", "expired", "failed"},
     partially_filled |-> {"partially_filled", "filled", "cancelled", "expired", "failed"},
     filled |-> {}, rejected |-> {}, cancelled |-> {}, expired |-> {}, failed |-> {}]

\* Unknown statuses, repeats and moves out of a terminal status throw.
assertOrderTransition(from, to) == from \in DOMAIN ORDER_TRANSITIONS /\ to \in ORDER_TRANSITIONS[from]

\* A simulated order walks its whole life inside one transaction.
Walk(steps) == \A i \in 1..(Len(steps) - 1) : assertOrderTransition(steps[i], steps[i + 1])
ORDER_STEPS == <<"requested", "validating", "submitted", "accepted", "filled">>
ORDER_FAILURE_STEPS == <<"requested", "validating", "submitted", "failed">>

-----------------------------------------------------------------------------
(* paper-market.ts                                                         *)

usable(row) == row.high > 0 /\ row.low > 0 /\ row.close > 0 /\ row.high >= row.low

\* The newest of the last five rows that is usable, unless it is stale.
latestPrice(nowMs) ==
    LET stored == {t \in DOMAIN candleRows : t <= nowMs}
        recent == {t \in stored : Cardinality({u \in stored : u > t}) < 5}
        good == {t \in recent : usable(candleRows[t])}
    IN IF good = {} \/ nowMs - Max(good) > StaleAge THEN 0 ELSE candleRows[Max(good)].close

\* The first rows after an instant, oldest first; the limit counts unusable rows.
candlesSince(since, nowMs) ==
    LET rows == {t \in DOMAIN candleRows : since < t /\ t <= nowMs}
    IN {t \in rows : Cardinality({u \in rows : u < t}) < EvaluationLimit /\ usable(candleRows[t])}

-----------------------------------------------------------------------------
(* paper-engine.ts: prices and money                                       *)

Sign(direction) == IF direction = "long" THEN 1 ELSE -1

moneyPerPriceUnit(price, qty) ==
    IF PnlMode = "quote_linear" THEN qty * ContractSize * MoneyScale
    ELSE (qty * ContractSize * MoneyScale) \div price

signedPriceMoveValue(reference, from, to, qty) == (to - from) * moneyPerPriceUnit(reference, qty)

feeMoney(price, qty) == FeePips * moneyPerPriceUnit(price, qty)

Magnitude(n) == IF n < 0 THEN -n ELSE n

FillAt(base, price, feeBase, qty) ==
    [price |-> price, slippage |-> Magnitude(signedPriceMoveValue(base, base, price, qty)),
     fees |-> feeMoney(feeBase, qty)]

\* Slippage is always against the trader; a price of zero or less is no fill.
computeEntryFill(direction, reference, qty) ==
    LET price == reference + Sign(direction) * EntrySlippage
    IN IF reference <= 0 \/ price <= 0 THEN None ELSE FillAt(reference, price, price, qty)

\* A target is a limit: it does not slip.
computeExitFill(direction, reason, base, qty) ==
    LET price == IF reason = "take_profit" THEN base
                 ELSE base - Sign(direction) * ExitSlippage
    IN IF base <= 0 \/ price <= 0 THEN None ELSE FillAt(base, price, base, qty)

grossRealizedPl(direction, entry, exit, qty) ==
    signedPriceMoveValue(entry, 0, Sign(direction) * (exit - entry), qty)

netRealizedPl(gross, entryFees, exitFees) == gross - entryFees - exitFees

\* A setup is tradable when its state, score and levels are: the stop
\* protects, the target rewards.
buildServerExecutionDecision(setup) ==
    /\ setup.state \in {"confirmed", "triggered"}
    /\ setup.entry > 0 /\ setup.stop > 0 /\ setup.target > 0
    /\ setup.quality >= setup.minimum
    /\ Sign(setup.direction) * (setup.entry - setup.stop) > 0
    /\ Sign(setup.direction) * (setup.target - setup.entry) > 0

StopHit(setup, row) == IF setup.direction = "long" THEN row.low <= setup.stop ELSE row.high >= setup.stop
TargetHit(setup, row) ==
    IF setup.direction = "long" THEN row.high >= setup.target ELSE row.low <= setup.target

\* Mutant: a bar that touches both levels counts as the target.
detectExitHopefully(setup, times) ==
    LET hits == {t \in times : StopHit(setup, candleRows[t]) \/ TargetHit(setup, candleRows[t])}
    IN IF hits = {} THEN "none"
       ELSE IF TargetHit(setup, candleRows[Min(hits)]) THEN "take_profit" ELSE "stop_loss"

\* The first bar that touches a level decides; both in one bar is the stop.
detectExit(setup, times) ==
    LET hits == {t \in times : StopHit(setup, candleRows[t]) \/ TargetHit(setup, candleRows[t])}
    IN IF hits = {} THEN "none"
       ELSE IF StopHit(setup, candleRows[Min(hits)]) THEN "stop_loss" ELSE "take_profit"

-----------------------------------------------------------------------------
(* reconciliation.ts: pure checks over a set of books                      *)

When(condition, finding) == IF condition THEN {finding} ELSE {}

FillSum(id, rows) == IF id \in DOMAIN rows THEN rows[id].qty ELSE 0

reconcileOrderState(id, order, rows) ==
    LET sum == FillSum(id, rows)
        full == order.status = "filled"
    IN When(sum # order.filled, "fill_ledger_sum_mismatch")
       \cup When(sum > order.qty, "order_fill_exceeds_quantity")
       \cup When(\/ order.filled > order.qty
                 \/ full /\ order.filled # order.qty
                 \/ ~full /\ order.filled > 0, "order_fill_quantity_mismatch")
       \cup When(full /\ id \notin DOMAIN rows, "order_filled_but_no_fill_row")
       \cup When(full /\ order.price = 0, "order_filled_without_price")

FillsOf(s, rows) == {id \in DOMAIN rows : SetupOf(id) = s}

computeExpectedNetPl(position, fees) ==
    grossRealizedPl(position.direction, position.entry, position.exit, position.qty) - fees

\* The position against its own fills.
PositionFindings(s, position, rows) ==
    LET own == FillsOf(s, rows)
        entries == {id \in own : KindOf(id) = "entry"}
        fees == MapThenSumSet(LAMBDA id : rows[id].fees, own)
        closed == position.status = "closed"
    IN When(position.qty <= 0, "position_quantity_not_positive")
       \cup When(position.entry <= 0, "position_entry_price_invalid")
       \cup When(~closed /\ (position.exit # 0 \/ position.reason # "none"), "position_open_with_exit_data")
       \cup When(closed /\ (position.exit = 0 \/ position.reason = "none"),
                 "position_closed_without_exit_price")
       \cup When(Cardinality(own \ entries) > 1, "position_duplicate_exit_fills")
       \cup When(own # {} /\ Cardinality(entries) # 1, "position_open_without_order")
       \cup When(closed /\ computeExpectedNetPl(position, fees) # position.pl,
                 "position_realized_pl_mismatch")

\* Mutant: a position whose opening order was not read is reported.
reconcilePositionStrictly(s, position, openingOrder, rows) ==
    PositionFindings(s, position, rows) \cup When(openingOrder = {}, "position_metadata_missing")

\* And against the order under its opening link: a set of one, or of none.
reconcilePositionState(s, position, openingOrder, rows) ==
    PositionFindings(s, position, rows)
    \cup When(\E o \in openingOrder : o.side # (IF position.direction = "long" THEN "buy" ELSE "sell"),
              "position_direction_conflicts_with_order")

\* Mutant: the books are not compared before the commit.
reconcileNothing(id, ords, rows, poss) == {}

\* Inside the fill transaction: this order and the position it touched.
reconcileInTransaction(id, ords, rows, poss) ==
    LET s == SetupOf(id) IN
    reconcileOrderState(id, ords[id], rows)
    \cup reconcilePositionState(s, poss[s], {ords[poss[s].openedBy]}, rows)

-----------------------------------------------------------------------------
(* Entries: identity, price, authorization                                 *)

Failed(s) == {id \in DOMAIN paperOrders :
                 SetupOf(id) = s /\ KindOf(id) = "entry" /\ paperOrders[id].status = "failed"}

failedAttemptCount(s) == Cardinality(Failed(s))

BooksUnchanged == UNCHANGED <<paperOrders, paperFills, paperPositions, ledgerPl>>

\* A call ends refused or with a result.  Either is told to the user and noted
\* in the event trail, which no code reads back.
refuse(c) == paperCall' = [paperCall EXCEPT ![c] = PaperIdle]
completedResult(c) == paperCall' = [paperCall EXCEPT ![c] = PaperIdle]

\* A live order is reported again: the call ends where it began.
replayResult(id) == id \in DOMAIN paperOrders /\ paperOrders[id].status # "failed"

\* The first attempt's order is looked up; a live one is replayed.
simulate(c, s) ==
    /\ paperCall[c].pc = "idle" /\ buildServerExecutionDecision(PaperSetups[s])
    /\ ~replayResult(EntryId(s, 1))
    /\ IF EntryId(s, 1) \notin DOMAIN paperOrders
       THEN paperCall' = [paperCall EXCEPT ![c] =
               [PaperIdle EXCEPT !.pc = "price", !.id = EntryId(s, 1), !.at = now]]
       ELSE paperCall' = [paperCall EXCEPT ![c] =
               [PaperIdle EXCEPT !.pc = "count", !.id = EntryId(s, 1), !.at = now]]
    /\ UNCHANGED <<now, candleRows, auditSweep>> /\ BooksUnchanged

\* The attempt is one more than the failures counted by a second read.
countAttempts(c) ==
    /\ paperCall[c].pc = "count" /\ failedAttemptCount(SetupOf(paperCall[c].id)) < MaxAttempts
    /\ paperCall' = [paperCall EXCEPT ![c].pc = "price",
          ![c].id = EntryId(SetupOf(@), failedAttemptCount(SetupOf(@)) + 1)]
    /\ UNCHANGED <<now, candleRows, auditSweep>> /\ BooksUnchanged

createAuthorization(id, reference, qty) ==
    [pc |-> "submit", id |-> id, ref |-> reference, qty |-> qty, at |-> now]

\* Risk and gates say yes or no; without a fresh price the call is refused.
\* The authorization is stamped with the clock, the price with the time the
\* call began.
priceEntry(c) ==
    /\ paperCall[c].pc = "price"
    /\ \/ refuse(c)
       \/ /\ latestPrice(paperCall[c].at) # 0
          /\ \E qty \in PositionSizes :
                paperCall' = [paperCall EXCEPT ![c] =
                    createAuthorization(@.id, latestPrice(@.at), qty)]
    /\ UNCHANGED <<now, candleRows, auditSweep>> /\ BooksUnchanged

\* A composed entry presents the identity it derived before; an order that
\* is live under it is replayed, a moved attempt index refused.
executeComposedEntry(c) ==
    LET id == paperCall[c].id
        s == SetupOf(id)
        attempt == IF EntryId(s, 1) \in DOMAIN paperOrders THEN failedAttemptCount(s) + 1 ELSE 1
    IN
    /\ paperCall[c].pc = "price"
    /\ ~replayResult(id) /\ id = EntryId(s, attempt)
    /\ latestPrice(paperCall[c].at) # 0
    /\ \E qty \in PositionSizes :
          paperCall' = [paperCall EXCEPT ![c].pc = "composed", ![c].qty = qty,
                           ![c].ref = latestPrice(paperCall[c].at)]
    /\ UNCHANGED <<now, candleRows, auditSweep>> /\ BooksUnchanged

-----------------------------------------------------------------------------
(* The fill transaction                                                    *)

Setup(c) == PaperSetups[SetupOf(paperCall[c].id)]
IsEntry(c) == KindOf(paperCall[c].id) = "entry"

insertOrder(c, row) == (paperCall[c].id :> row) @@ paperOrders

EntrySide(c) == IF (Setup(c).direction = "long") = IsEntry(c) THEN "buy" ELSE "sell"

\* ORDER_FAILURE_STEPS: a failed order is committed, with its reason.
failOrder(c) ==
    /\ Walk(ORDER_FAILURE_STEPS)
    /\ paperOrders' = insertOrder(c, [status |-> "failed", side |-> EntrySide(c), qty |-> paperCall[c].qty,
                                      filled |-> 0, price |-> 0, fees |-> 0, slippage |-> 0])
    /\ UNCHANGED <<paperFills, paperPositions, ledgerPl>>

FilledOrder(c, fill) ==
    insertOrder(c, [status |-> "filled", side |-> EntrySide(c), qty |-> paperCall[c].qty,
                    filled |-> paperCall[c].qty, price |-> fill.price, fees |-> fill.fees,
                    slippage |-> fill.slippage])

NewFill(c, fill) ==
    (paperCall[c].id :> [qty |-> paperCall[c].qty, price |-> fill.price, fees |-> fill.fees,
                         slippage |-> fill.slippage]) @@ paperFills

\* One position per setup and direction: a second insert leaves the first.
openPositionRow(c, fill) ==
    LET s == SetupOf(paperCall[c].id) IN
    IF s \in DOMAIN paperPositions THEN paperPositions
    ELSE (s :> [status |-> "open", direction |-> Setup(c).direction, qty |-> paperCall[c].qty,
                entry |-> fill.price, exit |-> 0, reason |-> "none", pl |-> 0,
                fees |-> fill.fees, slippage |-> fill.slippage, openedBy |-> paperCall[c].id,
                openedAt |-> paperCall[c].at, mark |-> fill.price, unrealized |-> 0])
         @@ paperPositions

closePositionRow(c, fill) ==
    LET s == SetupOf(paperCall[c].id)
        p == paperPositions[s]
        gross == grossRealizedPl(p.direction, p.entry, fill.price, p.qty)
    IN [paperPositions EXCEPT ![s] =
           [p EXCEPT !.status = "closed", !.exit = fill.price, !.reason = KindOf(paperCall[c].id),
                     !.pl = netRealizedPl(gross, p.fees, fill.fees), !.fees = @ + fill.fees,
                     !.slippage = @ + fill.slippage, !.mark = fill.price, !.unrealized = 0]]

\* A position closed meanwhile is left alone and gets no second fill.
Applied(c) == IsEntry(c) \/ paperPositions[SetupOf(paperCall[c].id)].status = "open"

\* Everything is rolled back; the finding is recorded on its own.
persistIntegrityFailure == BooksUnchanged

\* The rows a fill writes; kept only when reconcileInTransaction finds nothing.
fillOrder(c, fill) ==
    LET id == paperCall[c].id
        s == SetupOf(id)
        poss == IF IsEntry(c) THEN openPositionRow(c, fill)
                ELSE IF Applied(c) THEN closePositionRow(c, fill) ELSE paperPositions
        rows == IF Applied(c) THEN NewFill(c, fill) ELSE paperFills
        ords == FilledOrder(c, fill)
    IN IF Walk(ORDER_STEPS) /\ reconcileInTransaction(id, ords, rows, poss) = {}
       THEN /\ paperOrders' = ords
            /\ paperFills' = rows
            /\ paperPositions' = poss
            /\ ledgerPl' = IF IsEntry(c) THEN ledgerPl ELSE ledgerPl + poss[s].pl
       ELSE persistIntegrityFailure

Failing(c) == c \in FailingCallers /\ now <= FailUntil

\* An order under the same id is replayed, whatever its status.
runFillTransaction(c) ==
    LET call == paperCall[c]
        fill == IF IsEntry(c) THEN computeEntryFill(Setup(c).direction, call.ref, call.qty)
                ELSE computeExitFill(Setup(c).direction, KindOf(call.id), call.ref, call.qty)
    IN CASE call.id \in DOMAIN paperOrders -> BooksUnchanged
         [] call.id \notin DOMAIN paperOrders /\ Failing(c) -> failOrder(c)
         [] call.id \notin DOMAIN paperOrders /\ ~Failing(c) ->
               IF fill = None THEN BooksUnchanged ELSE fillOrder(c, fill)

\* The authorization is spent whatever happens, and void after its time.
submitAuthorizedOrder(c) ==
    /\ paperCall[c].pc = "submit"
    /\ IF now - paperCall[c].at > AuthorizationTtl THEN BooksUnchanged ELSE runFillTransaction(c)
    /\ completedResult(c)
    /\ UNCHANGED <<now, candleRows, auditSweep>>

\* The composed entry's bundle carries the call's own time and no deadline.
submitComposed(c) ==
    /\ paperCall[c].pc = "composed"
    /\ runFillTransaction(c)
    /\ completedResult(c)
    /\ UNCHANGED <<now, candleRows, auditSweep>>

-----------------------------------------------------------------------------
(* Exits                                                                   *)

ExitCall(s, reason, reference) ==
    createAuthorization(ExitId(s, reason), reference, paperPositions[s].qty)

\* Mutant: the mark is taken at the opening price.
MarkedAtEntry(p, mark) == [p EXCEPT !.unrealized = grossRealizedPl(p.direction, mark, p.entry, p.qty),
                                    !.mark = mark]

Marked(p, mark) == [p EXCEPT !.unrealized = grossRealizedPl(p.direction, p.entry, mark, p.qty),
                             !.mark = mark]

\* A position read as open is evaluated on the rows since it was opened: an
\* exit that has no order yet is submitted, otherwise it is marked to the
\* last row's close, if it is still open.  A clock read earlier may be used.
evaluatePosition(c, s, nowMs) ==
    LET times == candlesSince(paperPositions[s].openedAt, nowMs)
        found == detectExit(PaperSetups[s], times)
        level == IF found = "stop_loss" THEN PaperSetups[s].stop ELSE PaperSetups[s].target
    IN
    /\ paperCall[c].pc = "idle"
    /\ s \in DOMAIN paperPositions /\ paperPositions[s].status = "open"
    /\ \/ /\ found # "none" /\ ExitId(s, found) \notin DOMAIN paperOrders
          /\ paperCall' = [paperCall EXCEPT ![c] = ExitCall(s, found, level)]
          /\ BooksUnchanged
       \/ /\ found = "none" /\ times # {}
          /\ paperPositions' = [paperPositions EXCEPT ![s] = Marked(@, candleRows[Max(times)].close)]
          /\ UNCHANGED <<paperCall, paperOrders, paperFills, ledgerPl>>
    /\ UNCHANGED <<now, candleRows, auditSweep>>

\* A forced close needs a fresh price.
closePosition(c, s) ==
    /\ paperCall[c].pc = "idle"
    /\ s \in DOMAIN paperPositions /\ paperPositions[s].status = "open"
    /\ latestPrice(now) # 0 /\ ExitId(s, "close") \notin DOMAIN paperOrders
    /\ paperCall' = [paperCall EXCEPT ![c] = ExitCall(s, "close", latestPrice(now))]
    /\ UNCHANGED <<now, candleRows, auditSweep>> /\ BooksUnchanged

-----------------------------------------------------------------------------
(* The reconciliation sweep: orders, then positions, then fills            *)

SweepIdle == [pc |-> "idle", orders |-> None, positions |-> None, findings |-> {}]

readOrders ==
    /\ auditSweep.pc = "idle" /\ paperOrders # None
    /\ auditSweep' = [SweepIdle EXCEPT !.pc = "positions", !.orders = paperOrders]
    /\ UNCHANGED <<now, candleRows, paperCall>> /\ BooksUnchanged

readPositions ==
    /\ auditSweep.pc = "positions"
    /\ auditSweep' = [auditSweep EXCEPT !.pc = "fills", !.positions = paperPositions]
    /\ UNCHANGED <<now, candleRows, paperCall>> /\ BooksUnchanged

\* An opening order the first read did not see is no finding.
SweepFindings(rows) ==
    LET ords == auditSweep.orders
        poss == auditSweep.positions
        opening(s) == IF poss[s].openedBy \in DOMAIN ords THEN {ords[poss[s].openedBy]} ELSE {}
    IN UNION {reconcileOrderState(id, ords[id], rows) : id \in DOMAIN ords}
       \cup UNION {reconcilePositionState(s, poss[s], opening(s), rows) : s \in DOMAIN poss}

\* What the sweep leaves on record.
recordReconciliation(found) == [SweepIdle EXCEPT !.findings = found]

readFills ==
    /\ auditSweep.pc = "fills"
    /\ auditSweep' = recordReconciliation(SweepFindings(paperFills))
    /\ UNCHANGED <<now, candleRows, paperCall>> /\ BooksUnchanged

-----------------------------------------------------------------------------
\* A moment passes; the ingestion may store one more row, a bad one too.
storeCandle ==
    /\ now < MaxNow
    /\ now' = now + 1
    /\ \/ \E bar \in Bars : candleRows' = (now + 1 :> bar) @@ candleRows
       \/ UNCHANGED candleRows
    /\ UNCHANGED <<paperCall, auditSweep>> /\ BooksUnchanged

PaperInit ==
    /\ now = 1
    /\ candleRows \in [{1} -> Bars]
    /\ paperOrders = None /\ paperFills = None /\ paperPositions = None
    /\ ledgerPl = 0
    /\ paperCall = [c \in PaperCallers |-> PaperIdle]
    /\ auditSweep = SweepIdle

TradeNext ==
    \/ \E c \in PaperCallers :
          \/ \E s \in SetupNames : simulate(c, s) \/ closePosition(c, s)
          \/ \E s \in SetupNames, nowMs \in {now, now - 1} : evaluatePosition(c, s, nowMs)
          \/ countAttempts(c) \/ priceEntry(c) \/ executeComposedEntry(c)
          \/ submitAuthorizedOrder(c) \/ submitComposed(c)
    \/ storeCandle

SweepNext == readOrders \/ readPositions \/ readFills

PaperNext == TradeNext \/ SweepNext

PaperSpec == PaperInit /\ [][PaperNext]_paperVars

-----------------------------------------------------------------------------
(* Properties                                                              *)

PaperTypeOK ==
    /\ now \in 1..MaxNow /\ DOMAIN candleRows \subseteq 1..now
    /\ \A id \in DOMAIN paperOrders : paperOrders[id] \in OrderRow
    /\ \A id \in DOMAIN paperFills : paperFills[id] \in FillRow
    /\ \A s \in DOMAIN paperPositions : paperPositions[s] \in PositionRow
    /\ ledgerPl \in Int
    /\ \A c \in PaperCallers : paperCall[c].pc \in {"idle", "count", "price", "submit", "composed"}
    /\ auditSweep.pc \in {"idle", "positions", "fills"}

FilledIds(s, kinds) == {id \in DOMAIN paperOrders :
    SetupOf(id) = s /\ KindOf(id) \in kinds /\ paperOrders[id].status = "filled"}

\* However attempts fail, retries race, exits of different kinds collide and
\* authorizations expire, the books balance in money: a setup has at most one
\* filled entry and a position exactly when it has it, a closed position has
\* exactly one filled exit and its result is what those two fills cost and
\* earned, an open one is marked consistently, and the risk ledger received
\* the sum of all results (fillOrder and its reconcileInTransaction).
BooksBalance ==
    /\ \A id \in DOMAIN paperOrders :
          (paperOrders[id].status = "filled") <=> id \in DOMAIN paperFills
    /\ \A s \in SetupNames :
          /\ Cardinality(FilledIds(s, {"entry"})) = IF s \in DOMAIN paperPositions THEN 1 ELSE 0
          /\ s \in DOMAIN paperPositions =>
                LET p == paperPositions[s]
                    opened == paperFills[p.openedBy]
                    exits == FilledIds(s, ExitReasons)
                IN /\ p.openedBy \in FilledIds(s, {"entry"})
                   /\ p.status = "open" =>
                         /\ exits = {}
                         /\ p.unrealized = grossRealizedPl(p.direction, p.entry, p.mark, p.qty)
                   /\ p.status = "closed" => \E id \in exits :
                         /\ exits = {id} /\ KindOf(id) = p.reason
                         /\ p.pl = grossRealizedPl(p.direction, opened.price, paperFills[id].price, opened.qty)
                                      - opened.fees - paperFills[id].fees
                         /\ p.fees = opened.fees + paperFills[id].fees
                         /\ p.slippage = opened.slippage + paperFills[id].slippage
    /\ ledgerPl = MapThenSumSet(LAMBDA s : paperPositions[s].pl, DOMAIN paperPositions)

\* A stop or target exit is the one the stored market dictates: the first
\* usable bar after the entry that touches a level decides which, a bar that
\* touches both is the stop, and no bar beyond the evaluation limit is needed
\* to see it (detectExit over candlesSince, whenever the sweep ran).
ExitFollowsMarket ==
    \A s \in DOMAIN paperPositions :
        LET p == paperPositions[s]
            after == {t \in DOMAIN candleRows : t > p.openedAt /\ usable(candleRows[t])}
            touching == {t \in after : \/ StopHit(PaperSetups[s], candleRows[t])
                                       \/ TargetHit(PaperSetups[s], candleRows[t])}
        IN p.reason \in {"stop_loss", "take_profit"} =>
              /\ touching # {}
              /\ (p.reason = "stop_loss") <=> StopHit(PaperSetups[s], candleRows[Min(touching)])

\* A sweep whose three reads straddle fills and exits reports nothing: reading
\* orders before positions before fills, it never mistakes work in progress
\* for a mismatch (reconcile).
SweepIsQuiet == auditSweep.findings = {}

\* What the paper books promise, together.
PaperBooksAreTrue == PaperTypeOK /\ BooksBalance /\ ExitFollowsMarket /\ SweepIsQuiet
=============================================================================
