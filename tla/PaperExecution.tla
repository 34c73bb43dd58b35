--------------------------- MODULE PaperExecution ---------------------------
(***************************************************************************)
(* Paper entries and exits of one user's execution profile:                *)
(* composeAndSubmit and its final safety fence (execution/composition.ts,  *)
(* composition-fence.ts), the direct simulate flow, position evaluation    *)
(* and closing (execution/paper-service.ts), the B1 authorizations         *)
(* (execution/authorization.ts) and the risk engine's evaluation with its  *)
(* reservations (risk/service.ts).                                         *)
(*                                                                         *)
(* A call is a process.  Between two awaits anything may happen: another   *)
(* call, a stop, an expiry, a crash.  Risk evaluation and the fill are     *)
(* transactions under the profile's advisory locks and are one step each;  *)
(* every safety read is a step of its own.  All quantities are one         *)
(* position; the limit is maxSimultaneousPositions.  The simulator's       *)
(* failure modes are left out: no deployment sets them, so every committed *)
(* order is filled and the attempt index is always 1.                      *)
(***************************************************************************)
EXTENDS Naturals, FiniteSets, Sequences

CONSTANTS
    Setup,        \* setups with a server-built decision
    NoSetup,
    Caller,       \* calls that may run at the same time
    Op,           \* the operations callers make, of the four below
    Withdrawable, \* the switches and setups that may be withdrawn
    MaxPositions, \* maxSimultaneousPositions of the risk policy
    MaxCrashes    \* bound: callers that die in mid-flight

ASSUME OpAssumption == Op \subseteq {"compose", "simulate", "evaluate", "close"}
ASSUME LimitAssumption == MaxPositions \in Nat /\ MaxCrashes \in Nat
ASSUME SetupAssumption == NoSetup \notin Setup
ASSUME FiniteAssumption == IsFiniteSet(Setup) /\ IsFiniteSet(Caller)

ExitKind == {"stop_loss", "take_profit", "close"}
Kind == {"entry"} \cup ExitKind
\* What a user or an operator may withdraw and give back.
Switch == {"profile", "automation", "kill"}

ASSUME WithdrawableAssumption == Withdrawable \subseteq Switch \cup Setup

VARIABLES
    off,        \* switches withdrawn ("kill": a stop is active), setups no longer eligible
    orders,     \* execution_orders: client order ids, all filled
    fills,      \* execution_fills, by the order they fill
    position,   \* execution_positions.status of each setup's position
    booked,     \* realized P&L entries in the risk ledger, by setup
    mismatch,   \* orders refused with a reconciliation_mismatch record
    holds,      \* risk_reservations: the row of each running call's decision
    orphans,    \* unexpired rows of calls that died
    auth,       \* calls with a live B1 authorization
    caller,     \* where each call is
    uncovered,  \* history: positions opened after their reservation was gone
    crashes

book == <<orders, fills, position, booked, mismatch, uncovered>>
risk == <<holds, orphans>>
vars == <<off, orders, fills, position, booked, mismatch, holds, orphans, auth, caller,
          uncovered, crashes>>

-----------------------------------------------------------------------------
(* The checks of a composed entry, in order: each is one fresh read.       *)

\* Profile, automation, kill switches; then authorization and reservation.
runFinalSafetyFence == <<"profile", "automation", "kill", "authorization", "reservation">>

\* Profile and setup are reloaded, the reservation re-read, the fence run
\* again, the stops read once more by the paper gates, and the order looked up.
executeComposedEntry ==
    <<"profile", "setup", "reservation">> \o runFinalSafetyFence \o <<"kill", "order">>

composedChecks == runFinalSafetyFence \o executeComposedEntry

CallerState ==
    [pc : {"idle", "gates", "risk", "judge", "check", "fill", "release", "next", "exit", "exitFill"},
     op : Op \cup {"none"}, setup : Setup \cup {NoSetup}, kind : Kind,
     ok : BOOLEAN,                           \* no gate has failed so far
     step : 0..Len(composedChecks),          \* the next check
     todo : SUBSET Setup,                    \* positions evaluate has yet to visit
     withdrawn : SUBSET (Switch \cup Setup)] \* history: see WithdrawalPreventsFill
Idle == [pc |-> "idle", op |-> "none", setup |-> NoSetup, kind |-> "entry", ok |-> TRUE,
         step |-> 0, todo |-> {}, withdrawn |-> {}]

TypeOK ==
    /\ off \in SUBSET (Switch \cup Setup)
    /\ orders \in SUBSET (Setup \X Kind)
    /\ fills \in SUBSET (Setup \X Kind)
    /\ position \in [Setup -> {"none", "open", "closed"}]
    /\ booked \in [Setup -> Nat]
    /\ mismatch \in SUBSET (Setup \X Kind)
    /\ holds \in [Caller -> {"none", "live", "expired"}]
    /\ orphans \in Nat
    /\ auth \in SUBSET Caller
    /\ caller \in [Caller -> CallerState]
    /\ uncovered \in SUBSET Setup
    /\ crashes \in Nat

Init ==
    /\ off \in SUBSET (Withdrawable \cap Switch)
    /\ orders = {} /\ fills = {} /\ mismatch = {} /\ uncovered = {}
    /\ position = [s \in Setup |-> "none"]
    /\ booked = [s \in Setup |-> 0]
    /\ holds = [c \in Caller |-> "none"]
    /\ orphans = 0 /\ crashes = 0
    /\ auth = {}
    /\ caller = [c \in Caller |-> Idle]

At(c, pc) == caller[c].pc = pc
\* A composed entry is given up, or done: only its cleanup is left.
Abandon(c) == caller' = [caller EXCEPT ![c] = [Idle EXCEPT !.pc = "release", !.op = "compose"]]
Open == {s \in Setup : position[s] = "open"}

-----------------------------------------------------------------------------
(* Entries: reads, risk evaluation and gates                               *)

\* Both flows load profile and setup and replay an order that exists; the
\* profile's flag is judged later.  An ineligible setup or a replay ends the
\* call at once.
startEntry(c, op, s) ==
    /\ At(c, "idle")
    /\ s \notin off /\ <<s, "entry">> \notin orders
    /\ caller' = [caller EXCEPT ![c] =
          [Idle EXCEPT !.pc = IF op = "compose" THEN "gates" ELSE "risk",
                       !.op = op, !.setup = s, !.ok = "profile" \notin off,
                       !.withdrawn = IF op = "compose" THEN {} ELSE off \cap {"profile", "kill"}]]
    /\ UNCHANGED <<off, book, risk, auth, crashes>>

composeAndSubmit(c, s) == "compose" \in Op /\ startEntry(c, "compose", s)
simulate(c, s) == "simulate" \in Op /\ startEntry(c, "simulate", s)

\* The composition reads automation and stops before the risk engine runs.
readGates(c) ==
    /\ At(c, "gates")
    /\ caller' = [caller EXCEPT ![c].pc = "risk",
                                ![c].ok = @ /\ off \cap {"automation", "kill"} = {}]
    /\ UNCHANGED <<off, book, risk, auth, crashes>>

Expired == {d \in Caller : holds[d] = "expired"}

\* Mutant: only open positions count against the limit.
WithinLimitPositionsOnly(reclaimed) == Cardinality(Open) + 1 <= MaxPositions

\* Open positions and the reservations left after reclaiming, plus this entry.
WithinLimit(reclaimed) ==
    Cardinality(Open) + Cardinality({d \in Caller : holds[d] # "none"} \ reclaimed)
        + orphans + 1 <= MaxPositions

\* The risk engine's transaction: reclaim expired rows, judge, reserve.  The
\* engine may reject for other reasons.  simulate passes the clock it read on
\* entry, for which a row may not have expired yet.
evaluate(c) ==
    /\ At(c, "risk")
    /\ \E reclaimed \in SUBSET Expired, approved \in BOOLEAN :
          /\ caller[c].op = "compose" => reclaimed = Expired
          /\ approved => "kill" \notin off /\ WithinLimit(reclaimed)
          /\ holds' = [d \in Caller |->
                IF d = c /\ approved THEN "live"
                ELSE IF d \in reclaimed THEN "none" ELSE holds[d]]
          /\ caller' = [caller EXCEPT ![c].pc = "judge", ![c].ok = @ /\ approved]
    /\ UNCHANGED <<off, book, orphans, auth, crashes>>

\* The composition's gates on what was read, then its B1 authorization; any
\* failure releases the reservation.
mintAuthorization(c) ==
    /\ At(c, "judge") /\ caller[c].op = "compose"
    /\ \/ /\ caller[c].ok
          /\ auth' = auth \cup {c}
          /\ caller' = [caller EXCEPT ![c].pc = "check", ![c].step = 1]
       \/ Abandon(c) /\ UNCHANGED auth
    /\ UNCHANGED <<off, book, risk, crashes>>

\* The paper gates of simulate read the stops afresh.  The reservation is
\* released whatever they say, before the order is submitted.
simulationGates(c) ==
    /\ At(c, "judge") /\ caller[c].op = "simulate"
    /\ holds' = [holds EXCEPT ![c] = "none"]
    /\ \/ /\ caller[c].ok /\ "kill" \notin off
          /\ caller' = [caller EXCEPT ![c].pc = "fill"]
       \/ caller' = [caller EXCEPT ![c] = Idle]
    /\ UNCHANGED <<off, book, orphans, auth, crashes>>

-----------------------------------------------------------------------------
(* The composed entry's checks, fill and cleanup                           *)

\* Mutant: the fence does not read the stops.
PassesNoKill(c) ==
    LET k == composedChecks[caller[c].step] IN
    /\ k \in Switch \ {"kill"} => k \notin off
    /\ k = "setup" => caller[c].setup \notin off
    /\ k = "reservation" => holds[c] # "none"
    /\ k \in {"authorization", "order"} => c \in auth
    /\ k = "order" => <<caller[c].setup, "entry">> \notin orders

\* The reservation is looked up with the clock read when the composition
\* began, so a row counts until an evaluation reclaims it.
Passes(c) ==
    LET k == composedChecks[caller[c].step] IN
    /\ k \in Switch => k \notin off
    /\ k = "setup" => caller[c].setup \notin off
    /\ k = "reservation" => holds[c] # "none"
    /\ k \in {"authorization", "order"} => c \in auth
    /\ k = "order" => <<caller[c].setup, "entry">> \notin orders

\* The last check consumes the authorization.
consumeAuthorization(c) ==
    auth' = IF caller[c].step = Len(composedChecks) THEN auth \ {c} ELSE auth

\* A check fails when its read says so, and may fail for what is not modelled
\* (price, health, market gates, a database error).
check(c) ==
    LET n == caller[c].step IN
    /\ At(c, "check")
    /\ \/ /\ Passes(c)
          /\ consumeAuthorization(c)
          /\ caller' = [caller EXCEPT
                ![c].pc = IF n = Len(composedChecks) THEN "fill" ELSE "check",
                ![c].step = IF n = Len(composedChecks) THEN 0 ELSE n + 1,
                ![c].withdrawn = IF n = Len(runFinalSafetyFence)
                                 THEN off \cap (Switch \cup {caller[c].setup}) ELSE @]
       \/ Abandon(c) /\ UNCHANGED auth
    /\ UNCHANGED <<off, book, risk, crashes>>

AfterFill(c) ==
    IF caller[c].op = "compose" THEN Abandon(c) ELSE caller' = [caller EXCEPT ![c] = Idle]

\* runFillTransaction for an entry: a twin's order is replayed; a failure rolls
\* everything back.
fillEntry(c) ==
    LET s == caller[c].setup IN
    /\ At(c, "fill")
    /\ \/ /\ <<s, "entry">> \notin orders
          /\ orders' = orders \cup {<<s, "entry">>}
          /\ fills' = fills \cup {<<s, "entry">>}
          /\ position' = [position EXCEPT ![s] = "open"]
          /\ uncovered' = IF holds[c] = "none" THEN uncovered \cup {s} ELSE uncovered
          /\ UNCHANGED <<booked, mismatch>>
       \/ UNCHANGED book
    /\ AfterFill(c)
    /\ UNCHANGED <<off, risk, auth, crashes>>

\* Mutant: the leftover authorization is not revoked.
releaseReservationOnly(c) ==
    /\ At(c, "release")
    /\ holds' = [holds EXCEPT ![c] = "none"]
    /\ caller' = [caller EXCEPT ![c] = Idle]
    /\ UNCHANGED <<off, book, orphans, auth, crashes>>

\* Every way out of a composed entry releases the reservation and revokes
\* what is left of the authorization.
releaseReservation(c) ==
    /\ At(c, "release")
    /\ holds' = [holds EXCEPT ![c] = "none"]
    /\ auth' = auth \ {c}
    /\ caller' = [caller EXCEPT ![c] = Idle]
    /\ UNCHANGED <<off, book, orphans, crashes>>

-----------------------------------------------------------------------------
(* Exits.  No switch stops an exit.                                        *)

\* A sweep loads the open positions once.
evaluateOpenPositions(c) ==
    /\ "evaluate" \in Op /\ At(c, "idle") /\ Open # {}
    /\ caller' = [caller EXCEPT ![c] = [Idle EXCEPT !.pc = "next", !.op = "evaluate", !.todo = Open]]
    /\ UNCHANGED <<off, book, risk, auth, crashes>>

\* Mutant: a bar that touches both levels gets a reason of its own.
detectExitConflict == {"stop_loss", "take_profit", "sl_tp_conflict"}

\* Why the candles since the entry end a position, when they do; a bar that
\* touches both levels counts as the stop.
detectExit == {"stop_loss", "take_profit"}

evaluatePosition(c, s) ==
    /\ At(c, "next") /\ s \in caller[c].todo
    /\ \/ \E k \in detectExit :
             caller' = [caller EXCEPT ![c].pc = "exit", ![c].setup = s, ![c].kind = k,
                                      ![c].todo = @ \ {s}]
       \/ caller' = [caller EXCEPT ![c].todo = @ \ {s}]
    /\ UNCHANGED <<off, book, risk, auth, crashes>>

endSweep(c) ==
    /\ At(c, "next") /\ caller[c].todo = {}
    /\ caller' = [caller EXCEPT ![c] = Idle]
    /\ UNCHANGED <<off, book, risk, auth, crashes>>

closePosition(c, s) ==
    /\ "close" \in Op /\ At(c, "idle") /\ position[s] = "open"
    /\ caller' = [caller EXCEPT ![c] = [Idle EXCEPT !.pc = "exit", !.op = "close", !.setup = s,
                                                    !.kind = "close"]]
    /\ UNCHANGED <<off, book, risk, auth, crashes>>

\* Back to the sweep, or done.
AfterExit(c) ==
    caller' = [caller EXCEPT ![c] =
        IF caller[c].op = "evaluate" THEN [Idle EXCEPT !.pc = "next", !.op = "evaluate", !.todo = caller[c].todo]
        ELSE Idle]

\* An exit order of the same kind is replayed; otherwise one is submitted.
submitExitOrder(c) ==
    /\ At(c, "exit")
    /\ IF <<caller[c].setup, caller[c].kind>> \in orders
       THEN AfterExit(c)
       ELSE caller' = [caller EXCEPT ![c].pc = "exitFill"]
    /\ UNCHANGED <<off, book, risk, auth, crashes>>

\* Mutant: the position's status is not looked at.
closePositionRowAnyStatus(c) ==
    LET s == caller[c].setup
        o == <<s, caller[c].kind>>
    IN
    /\ o \notin orders
    /\ orders' = orders \cup {o}
    /\ fills' = fills \cup {o}
    /\ position' = [position EXCEPT ![s] = "closed"]
    /\ booked' = [booked EXCEPT ![s] = @ + 1]
    /\ UNCHANGED <<mismatch, uncovered>>

\* Order, close, ledger entry and fill commit together.
closePositionRow(c) ==
    LET s == caller[c].setup
        o == <<s, caller[c].kind>>
    IN
    /\ o \notin orders /\ position[s] = "open"
    /\ orders' = orders \cup {o}
    /\ fills' = fills \cup {o}
    /\ position' = [position EXCEPT ![s] = "closed"]
    /\ booked' = [booked EXCEPT ![s] = @ + 1]
    /\ UNCHANGED <<mismatch, uncovered>>

\* The position was closed by another kind of exit: closePositionRow applies
\* nothing and no fill is written, so reconcileInTransaction finds a filled
\* order without one; everything is rolled back but the finding.
PaperIntegrityError(c) ==
    LET s == caller[c].setup
        o == <<s, caller[c].kind>>
    IN
    /\ o \notin orders /\ position[s] # "open"
    /\ mismatch' = mismatch \cup {o}
    /\ UNCHANGED <<orders, fills, position, booked, uncovered>>

\* runFillTransaction for an exit.  A replay and an error of the provider let
\* the sweep go on; an integrity error is thrown to its caller and ends it.
fillExit(c) ==
    /\ At(c, "exitFill")
    /\ \/ closePositionRow(c) /\ AfterExit(c)
       \/ PaperIntegrityError(c) /\ caller' = [caller EXCEPT ![c] = Idle]
       \/ UNCHANGED book /\ AfterExit(c)
    /\ UNCHANGED <<off, risk, auth, crashes>>

-----------------------------------------------------------------------------
(* The environment                                                         *)

\* A stop is activated, automation or the profile disabled, a setup
\* invalidated.
withdraw(f) ==
    /\ f \notin off
    /\ off' = off \cup {f}
    /\ UNCHANGED <<book, risk, auth, caller, crashes>>

restore(f) ==
    /\ f \in off
    /\ off' = off \ {f}
    /\ caller' = [c \in Caller |-> [caller[c] EXCEPT !.withdrawn = @ \ {f}]]
    /\ UNCHANGED <<book, risk, auth, crashes>>

\* A minute passes while the call waits.
reservationExpires(c) ==
    /\ holds[c] = "live"
    /\ holds' = [holds EXCEPT ![c] = "expired"]
    /\ UNCHANGED <<off, book, orphans, auth, caller, crashes>>

orphanExpires ==
    /\ orphans > 0
    /\ orphans' = orphans - 1
    /\ UNCHANGED <<off, book, holds, auth, caller, crashes>>

\* The authorization's time is up, or it is evicted.
authorizationExpires(c) ==
    /\ c \in auth
    /\ auth' = auth \ {c}
    /\ UNCHANGED <<off, book, risk, caller, crashes>>

\* The process dies: its authorization with it, its reservation row stays.
crash(c) ==
    /\ ~At(c, "idle") /\ crashes < MaxCrashes
    /\ crashes' = crashes + 1
    /\ caller' = [caller EXCEPT ![c] = Idle]
    /\ auth' = auth \ {c}
    /\ orphans' = IF holds[c] = "live" THEN orphans + 1 ELSE orphans
    /\ holds' = [holds EXCEPT ![c] = "none"]
    /\ UNCHANGED <<off, book>>

-----------------------------------------------------------------------------
entryStep(c) ==
    \/ (\E s \in Setup : composeAndSubmit(c, s) \/ simulate(c, s))
    \/ readGates(c) \/ evaluate(c) \/ mintAuthorization(c) \/ simulationGates(c)
    \/ check(c) \/ fillEntry(c) \/ releaseReservation(c)
exitStep(c) ==
    \/ (\E s \in Setup : closePosition(c, s) \/ evaluatePosition(c, s))
    \/ evaluateOpenPositions(c) \/ endSweep(c) \/ submitExitOrder(c) \/ fillExit(c)

Next ==
    \/ \E c \in Caller : entryStep(c) \/ exitStep(c)
    \/ \E f \in Withdrawable : withdraw(f)
    \/ \E f \in Withdrawable \cap Switch : restore(f)
    \/ \E c \in Caller : reservationExpires(c) \/ authorizationExpires(c) \/ crash(c)
    \/ orphanExpires

Spec == Init /\ [][Next]_vars

-----------------------------------------------------------------------------
(* Properties                                                              *)

\* However entries overlap, expire, crash or are replayed, the positions
\* opened under a reservation never exceed maxSimultaneousPositions:
\* evaluate's row covers an entry until its position counts.
ExposureWithinLimit == Cardinality(Open \ uncovered) <= MaxPositions

\* Orders, fills, positions and the risk ledger agree after every step: each
\* order has its fill, a position exists exactly when its entry was filled, and
\* is closed by exactly one exit whose P&L is booked exactly once, whichever
\* of stop, target and manual close race for it.
LedgerConsistent ==
    /\ fills = orders
    /\ \A s \in Setup :
          /\ <<s, "entry">> \in orders <=> position[s] # "none"
          /\ booked[s] = IF position[s] = "closed" THEN 1 ELSE 0
          /\ Cardinality({k \in ExitKind : <<s, k>> \in orders}) = booked[s]

\* A call that is over leaves nothing behind: no reservation row and no B1
\* authorization that could still be consumed, on every path out.
NothingStranded ==
    \A c \in Caller : At(c, "idle") => holds[c] = "none" /\ c \notin auth

\* What was withdrawn before the composition's own fence was passed (for
\* simulate: before the call began) and not given back since prevents the
\* fill: a stop, a disabled profile, automation turned off or an invalidated
\* setup that lands after the early gate reads is caught.
WithdrawalPreventsFill ==
    [][\A c \in Caller :
          At(c, "fill") /\ caller'[c] # caller[c] /\ orders' # orders
             => caller[c].withdrawn = {}]_vars

\* docs/risk.md: "An approval inserts a `risk_reservations` row so a
\* concurrent twin sees the reserved exposure."  Hence two approvals are never
\* given for one free place, and the limit holds without exception.
PositionsWithinLimit == Cardinality(Open) <= MaxPositions

\* The comment in closePositionRow: a repeated exit of a closed position is
\* replayed to its caller; it is no integrity failure.
RepeatedExitReplays == mismatch = {}
=============================================================================
