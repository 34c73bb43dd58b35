---------------------------- MODULE SetupPipeline --------------------------
(***************************************************************************)
(* From a closed candle to an alert: SetupService.detect and               *)
(* transitionSetup, ScoringService.scoreSetup, AlertService.generateAlert, *)
(* and the scanner's scanInstrument with its cursor, for one account.      *)
(*                                                                         *)
(* Scanners are scans of one instrument; they may overlap (module          *)
(* ScannerRuns shows when the advisory lock is lost).  Callers are HTTP    *)
(* requests of the owner.  Each database transaction is a step, or two     *)
(* when another transaction may run between its statements: the count of   *)
(* an entitlement limit and the insert after it are only atomic while the  *)
(* account's subscriptions row is locked, and an account on the free tier  *)
(* or on an operator grant has no such row.                                *)
(***************************************************************************)
EXTENDS Naturals, Sequences, FiniteSets, Functions

CONSTANTS
    Scanners, Callers,  \* overlapping scans; overlapping requests
    Strategies,         \* published strategy versions of the account
    MaxCandle,          \* bound on setup candles that close
    Qualifying,         \* detection keys whose rules pass (the evaluation)
    GoodScore,          \* detection keys scored at or above minQualityScore
    MaxSavedSetups,     \* entitlement: setups of the account
    MaxAlertsPerMonth,  \* entitlement: alerts of the account in a month
    ToStates,           \* states a transition request may ask for
    Triggers            \* trigger states an alert request may ask for

Directions == <<"long", "short">>
Keys == Strategies \X Range(Directions) \X (1..MaxCandle)

SETUP_TRANSITIONS ==
    [developing   |-> {"watching", "invalidated", "expired"},
     watching     |-> {"almost_ready", "invalidated", "expired"},
     almost_ready |-> {"confirmed", "invalidated", "expired"},
     confirmed    |-> {"triggered", "invalidated", "expired"},
     triggered    |-> {"completed", "invalidated", "expired"},
     completed    |-> {}, invalidated |-> {}, expired |-> {}]
SetupStates == DOMAIN SETUP_TRANSITIONS
SetupOver(st) == SETUP_TRANSITIONS[st] = {}
ELIGIBLE_STATES == {"confirmed", "triggered"}

SetupAssumption ==
    /\ Scanners \cap Callers = {}
    /\ Qualifying \subseteq Keys /\ GoodScore \subseteq Keys
    /\ Triggers \subseteq ELIGIBLE_STATES \cup {"none"}
    /\ MaxCandle \in Nat \ {0} /\ MaxSavedSetups \in Nat /\ MaxAlertsPerMonth \in Nat

VARIABLES
    candle,     \* the latest closed setup candle
    setup,      \* setups by detection key: a state, or "absent"
    scored,     \* keys with a row in setup_scores at their anchor
    alerts,     \* alerts in insertion order: <<key, trigger state>>
    jobs,       \* notification jobs, one per alert
    acked,      \* alerts the owner acknowledged
    month,      \* alerts inserted before the current month began
    cursor,     \* scanner_cursors: last processed candle of a strategy, 0 none
    subscribed, \* the account has a row in subscriptions
    apc,        \* where each scanner and each caller stands
    work,       \* [strat, dirs, at, trig]: what it works on
    refused     \* ghost: keys a scanner passed over because of a limit

setupVars == <<candle, setup, scored, alerts, jobs, acked, month, cursor, subscribed, apc, work, refused>>

Actors == Scanners \cup Callers
NoWork == [strat |-> "none", dirs |-> <<>>, at |-> 0, trig |-> "none"]
SetupPlaces == {"idle", "detect", "count", "insert", "score", "alert", "alertTx", "alertInsert", "cursor"}

SetupTypeOK ==
    /\ candle \in 1..MaxCandle /\ month \in Nat /\ subscribed \in BOOLEAN
    /\ setup \in [Keys -> SetupStates \cup {"absent"}]
    /\ scored \subseteq Keys /\ refused \subseteq Keys
    /\ alerts \in Seq(Keys \X ELIGIBLE_STATES) /\ jobs \in Seq(Keys \X ELIGIBLE_STATES)
    /\ acked \subseteq Range(alerts)
    /\ cursor \in [Strategies -> 0..MaxCandle]
    /\ apc \in [Actors -> SetupPlaces]
    /\ \A a \in Actors : apc[a] # "idle" => work[a].strat \in Strategies /\ work[a].at \in 1..MaxCandle

SetupInit ==
    /\ candle = 1 /\ month = 0 /\ subscribed \in BOOLEAN
    /\ setup = [k \in Keys |-> "absent"]
    /\ scored = {} /\ alerts = <<>> /\ jobs = <<>> /\ acked = {} /\ refused = {}
    /\ cursor = [s \in Strategies |-> 0]
    /\ apc = [a \in Actors |-> "idle"]
    /\ work = [a \in Actors |-> NoWork]

Key(a) == <<work[a].strat, Head(work[a].dirs), work[a].at>>
Saved == {k \in Keys : setup[k] # "absent"}

\* FOR UPDATE on the account's subscriptions row, held to the commit.
RowFree(a) == subscribed => \A b \in Actors \ {a} : apc[b] \notin {"insert", "alertInsert"}

Proceed(a, place) == apc' = [apc EXCEPT ![a] = place] /\ UNCHANGED work
Finish(a) == apc' = [apc EXCEPT ![a] = "idle"] /\ work' = [work EXCEPT ![a] = NoWork]

\* The end of a direction: the scanner goes on to the next one, then to the
\* cursor; a request is answered.
DirectionDone(a) ==
    IF a \in Callers THEN Finish(a)
    ELSE /\ work' = [work EXCEPT ![a].dirs = Tail(@)]
         /\ apc' = [apc EXCEPT ![a] = IF Len(work[a].dirs) = 1 THEN "cursor" ELSE "detect"]

\* A step that succeeded: the scanner continues with `next`, a request ends.
Onwards(a, next) == IF a \in Callers THEN Finish(a) ELSE Proceed(a, next)

\* 'limit reached' is caught per direction; the scan goes on to the cursor.
PassOver(a) ==
    /\ DirectionDone(a)
    /\ refused' = IF a \in Scanners THEN refused \cup {Key(a)} ELSE refused

----------------------------------------------------------------------------
(* Entry points.                                                           *)

\* scanInstrument, once valid and fresh candles of all three timeframes are
\* there (anything else changes nothing): a candle the cursor already names
\* is skipped unless the scan is forced.
scanInstrument(a, s) ==
    /\ a \in Scanners /\ apc[a] = "idle"
    /\ \E force \in BOOLEAN : force \/ cursor[s] # candle
    /\ work' = [work EXCEPT ![a] = [strat |-> s, dirs |-> Directions, at |-> candle, trig |-> "confirmed"]]
    /\ apc' = [apc EXCEPT ![a] = "detect"]
    /\ UNCHANGED <<candle, setup, scored, alerts, jobs, acked, month, cursor, subscribed, refused>>

Request(a, k, place, trig) ==
    /\ a \in Callers /\ apc[a] = "idle"
    /\ work' = [work EXCEPT ![a] = [strat |-> k[1], dirs |-> <<k[2]>>, at |-> k[3], trig |-> trig]]
    /\ apc' = [apc EXCEPT ![a] = place]
    /\ UNCHANGED <<candle, setup, scored, alerts, jobs, acked, month, cursor, subscribed, refused>>

detectRoute(a, k) == k[3] <= candle /\ Request(a, k, "detect", "none")
scoreRoute(a, k) == setup[k] # "absent" /\ k \notin scored /\ Request(a, k, "score", "none")
alertRoute(a, k, trig) == setup[k] # "absent" /\ Request(a, k, "alert", trig)

----------------------------------------------------------------------------
(* Detection.                                                              *)

\* detect: the evaluation decides; an existing setup of the key is returned.
detect(a) ==
    /\ apc[a] = "detect"
    /\ IF Key(a) \notin Qualifying THEN DirectionDone(a)
       ELSE IF setup[Key(a)] # "absent" THEN Onwards(a, "score")
       ELSE Proceed(a, "count")
    /\ UNCHANGED <<candle, setup, scored, alerts, jobs, acked, month, cursor, subscribed, refused>>

\* insertOrGetSetup, first half of the transaction: the subscription row is
\* locked if there is one, and the account's setups are counted.
countSetups(a) ==
    /\ apc[a] = "count" /\ RowFree(a)
    /\ IF Cardinality(Saved) >= MaxSavedSetups THEN PassOver(a)
       ELSE Proceed(a, "insert") /\ UNCHANGED refused
    /\ UNCHANGED <<candle, setup, scored, alerts, jobs, acked, month, cursor, subscribed>>

\* Second half: INSERT ... ON CONFLICT DO NOTHING on the detection key.
insertSetup(a) ==
    /\ apc[a] = "insert"
    /\ setup' = [setup EXCEPT ![Key(a)] = IF @ = "absent" THEN "confirmed" ELSE @]
    /\ Onwards(a, "score")
    /\ UNCHANGED <<candle, scored, alerts, jobs, acked, month, cursor, subscribed, refused>>

\* The owner moves a setup on.  It waits for the share lock of an alert
\* transaction on the same setup.
transitionSetup(k, to) ==
    /\ setup[k] # "absent" /\ to \in SETUP_TRANSITIONS[setup[k]]
    /\ \A a \in Actors : ~(apc[a] = "alertInsert" /\ Key(a) = k)
    /\ setup' = [setup EXCEPT ![k] = to]
    /\ UNCHANGED <<candle, scored, alerts, jobs, acked, month, cursor, subscribed, apc, work, refused>>

----------------------------------------------------------------------------
(* Scoring and alerting.                                                   *)

\* An error other than a limit ends the instrument's scan without a cursor.
GiveUp(a) == Finish(a)

scoreSetup(a) ==
    /\ apc[a] = "score"
    /\ IF SetupOver(setup[Key(a)]) THEN GiveUp(a) /\ UNCHANGED scored
       ELSE scored' = scored \cup {Key(a)} /\ Onwards(a, "alert")
    /\ UNCHANGED <<candle, setup, alerts, jobs, acked, month, cursor, subscribed, refused>>

\* resolveTriggerState: what the alert is about, or nothing for a refusal.
TriggerState(st, requested) ==
    IF requested = "none" THEN st
    ELSE IF requested = "triggered" /\ st # "triggered" THEN "refused"
    ELSE requested

\* generateAlert up to its transaction: all of these reads may be out of
\* date when the transaction begins.
generateAlert(a) ==
    /\ apc[a] = "alert"
    /\ LET k == Key(a)
           trig == TriggerState(setup[k], work[a].trig)
       IN IF setup[k] \notin ELIGIBLE_STATES \/ trig = "refused" \/ k \notin scored THEN GiveUp(a)
          ELSE IF k \notin GoodScore THEN DirectionDone(a)
          ELSE /\ apc' = [apc EXCEPT ![a] = "alertTx"]
               /\ work' = [work EXCEPT ![a].trig = trig]
    /\ UNCHANGED <<candle, setup, scored, alerts, jobs, acked, month, cursor, subscribed, refused>>

\* Mutant of the gate: the state read before the transaction is trusted.
EligibleWhenRead(k) == setup[k] # "absent"

\* The lifecycle gate, read again inside the transaction under FOR SHARE.
StillEligible(k) == setup[k] \in ELIGIBLE_STATES

\* First half of the transaction: the gate, the row lock, the month's count.
alertLimit(a) ==
    /\ apc[a] = "alertTx" /\ RowFree(a)
    /\ IF ~StillEligible(Key(a)) THEN GiveUp(a) /\ UNCHANGED refused
       ELSE IF Len(alerts) - month >= MaxAlertsPerMonth THEN PassOver(a)
       ELSE Proceed(a, "alertInsert") /\ UNCHANGED refused
    /\ UNCHANGED <<candle, setup, scored, alerts, jobs, acked, month, cursor, subscribed>>

AddOnce(seq, x) == IF x \in Range(seq) THEN seq ELSE Append(seq, x)

\* Second half: the alert, its stub delivery and its outbox job, each under a
\* unique key, in one commit.
insertAlert(a) ==
    /\ apc[a] = "alertInsert"
    /\ LET row == <<Key(a), work[a].trig>>
       IN alerts' = AddOnce(alerts, row) /\ jobs' = AddOnce(jobs, row)
    /\ DirectionDone(a)
    /\ UNCHANGED <<candle, setup, scored, acked, month, cursor, subscribed, refused>>

\* acknowledgeAlert: once, under the alert's row lock; a repeat changes
\* nothing.
acknowledgeAlert(i) ==
    /\ i \in DOMAIN alerts /\ alerts[i] \notin acked
    /\ acked' = acked \cup {alerts[i]}
    /\ UNCHANGED <<candle, setup, scored, alerts, jobs, month, cursor, subscribed, apc, work, refused>>

\* The cursor names the candle the scan started from, whatever another scan
\* wrote meanwhile.
upsertCursor(a) ==
    /\ apc[a] = "cursor"
    /\ cursor' = [cursor EXCEPT ![work[a].strat] = work[a].at]
    /\ Finish(a)
    /\ UNCHANGED <<candle, setup, scored, alerts, jobs, acked, month, subscribed, refused>>

\* A database error or a crash: the open transaction is rolled back and the
\* instrument's scan, or the request, is over.
abandon(a) ==
    /\ apc[a] # "idle"
    /\ Finish(a)
    /\ UNCHANGED <<candle, setup, scored, alerts, jobs, acked, month, cursor, subscribed, refused>>

closeCandle ==
    /\ candle < MaxCandle /\ candle' = candle + 1
    /\ UNCHANGED <<setup, scored, alerts, jobs, acked, month, cursor, subscribed, apc, work, refused>>

newMonth ==
    /\ month = 0 /\ alerts # <<>> /\ month' = Len(alerts)
    /\ UNCHANGED <<candle, setup, scored, alerts, jobs, acked, cursor, subscribed, apc, work, refused>>

ActorStep(a) ==
    \/ \E s \in Strategies : scanInstrument(a, s)
    \/ \E k \in Qualifying : detectRoute(a, k) \/ scoreRoute(a, k)
    \/ \E k \in Qualifying, t \in Triggers : alertRoute(a, k, t)
    \/ detect(a) \/ countSetups(a) \/ insertSetup(a) \/ scoreSetup(a) \/ generateAlert(a)
    \/ alertLimit(a) \/ insertAlert(a) \/ upsertCursor(a) \/ abandon(a)

SetupNext ==
    \/ \E a \in Actors : ActorStep(a)
    \/ \E k \in Keys, to \in ToStates : transitionSetup(k, to)
    \/ \E i \in 1..Cardinality(Keys) : acknowledgeAlert(i)
    \/ closeCandle \/ newMonth

SetupSpec == SetupInit /\ [][SetupNext]_setupVars

----------------------------------------------------------------------------
(* Properties.                                                             *)

\* However scans, requests, retries and crashes overlap, a setup has at most
\* one alert per trigger state and every alert exactly one delivery job.
AlertedOnce ==
    /\ IsInjective(alerts) /\ IsInjective(jobs)
    /\ Range(jobs) = Range(alerts)

\* No alert is written for a setup that is over at that moment, although the
\* state was read before the transaction began (generateAlert, step 4).
NewAlertIsLive ==
    \A i \in DOMAIN alerts' \ DOMAIN alerts : ~SetupOver(setup[alerts'[i][1]])

NoAlertForFinishedSetup == [][NewAlertIsLive]_setupVars

\* An account with a subscription row never has more setups, nor more alerts
\* in a month, than its plan allows ("Atomic entitlement enforcement").
WithinEntitlements ==
    subscribed => /\ Cardinality(Saved) <= MaxSavedSetups
                  /\ Len(alerts) - month <= MaxAlertsPerMonth

\* A cursor is only ever advanced over a candle whose qualifying setups were
\* alerted, were too poor to alert, or met a limit: a crash, an error or an
\* overlapping scan never lets the scanner skip one silently.
CursorSkipsNothing ==
    \A s \in Strategies, d \in Range(Directions) :
        LET k == <<s, d, cursor[s]>>
        IN cursor[s] > 0 /\ k \in Qualifying /\ k \in GoodScore =>
              \/ \E t \in ELIGIBLE_STATES : <<k, t>> \in Range(alerts)
              \/ k \in refused

\* From a closed candle to an alert, as a whole.
AlertsAreOnce ==
    /\ [](SetupTypeOK /\ AlertedOnce /\ WithinEntitlements /\ CursorSkipsNothing)
    /\ NoAlertForFinishedSetup
============================================================================
