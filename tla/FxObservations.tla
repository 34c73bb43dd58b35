--------------------------- MODULE FxObservations ---------------------------
(***************************************************************************)
(* The read-only watch of the central bank's published rate: retrieval of  *)
(* the page, validation of the one row it is read for, the append-only     *)
(* table of observations, the staleness report, and the session advisory   *)
(* lock that keeps two checks from overlapping                             *)
(* (packages/core/src/billing/fx-source-observations, migration 0038,      *)
(* packages/providers/bank-of-ghana).                                      *)
(*                                                                         *)
(* A figure stands for the three published ones; the publisher may correct *)
(* a day's figure, also back to an earlier one.  A database session dies   *)
(* at any time, and its locks with it.                                     *)
(***************************************************************************)
EXTENDS Naturals, FiniteSets

CONSTANTS
    Checkers,       \* concurrent calls of runCheck
    Sessions,       \* sessions of the connection pool
    Figures,        \* coherent figures (buying <= mid <= selling)
    BadFigures,     \* figures that are incoherent, unparseable or too precise
    WarningAfter, StaleAfter,   \* ages in days
    MaxMoment,      \* bound on the clock, one unit a day
    MaxDeaths

ASSUME ObservationsAssumption ==
    /\ WarningAfter \in Nat /\ StaleAfter \in Nat /\ WarningAfter <= StaleAfter
    /\ Figures \cap BadFigures = {} /\ Checkers # {} /\ Sessions # {}
    /\ MaxMoment \in Nat /\ MaxDeaths \in Nat

VARIABLES
    page,       \* what the publisher shows: [day, figure]
    observed,   \* billing_fx_source_observations: [day, figure, at]
    checks,     \* where each call stands
    sessions,   \* "pooled", "out" or "gone"
    lockHolder, \* the sessions holding the advisory lock: at most one
    moment,     \* the clock
    deaths

observationVars == <<page, observed, checks, sessions, lockHolder, moment, deaths>>

NoCheck == [at |-> "idle", session |-> {}, read |-> {}, report |-> "none"]
Published == [day : 0 .. MaxMoment + 1, figure : Figures \cup BadFigures]

ObservationInit ==
    /\ page \in [day : {0}, figure : Figures] /\ observed = {}
    /\ checks = [c \in Checkers |-> NoCheck]
    /\ sessions = [s \in Sessions |-> "pooled"]
    /\ lockHolder = {} /\ moment = 0 /\ deaths = 0

Locked(c) == checks[c].at \in {"retrieve", "record", "report", "unlock"}

----------------------------------------------------------------------------
(* One check.                                                              *)

\* acquireLockClient: without a session the check is skipped, like an overlap.
acquireLockClient(c) ==
    /\ checks[c].at = "idle"
    /\ \E s \in Sessions :
         /\ sessions[s] = "pooled"
         /\ sessions' = [sessions EXCEPT ![s] = "out"]
         /\ checks' = [checks EXCEPT ![c] = [NoCheck EXCEPT !.at = "lock", !.session = {s}]]
    /\ UNCHANGED <<page, observed, lockHolder, moment, deaths>>

Return(c) == sessions' = [s \in Sessions |-> IF s \in checks[c].session /\ sessions[s] = "out" THEN "pooled" ELSE sessions[s]]

\* pg_try_advisory_lock; a session that holds the lock already gets it again.
tryLock(c) ==
    /\ checks[c].at = "lock"
    /\ LET s == checks[c].session
           free == lockHolder \subseteq s /\ \A x \in s : sessions[x] # "gone"
       IN  \/ /\ free
              /\ lockHolder' = s
              /\ checks' = [checks EXCEPT ![c].at = "retrieve"]
              /\ UNCHANGED sessions
           \/ /\ ~free
              /\ checks' = [checks EXCEPT ![c] = NoCheck] /\ Return(c)
              /\ UNCHANGED lockHolder
    /\ UNCHANGED <<page, observed, moment, deaths>>

\* retrieve: the page as it stands, or nothing (timeout, redirect, status,
\* content type, size, network, no row, two rows, a row of another shape).
fetchDailyFxRatesPage == {{}, {[day |-> page.day, figure |-> page.figure, at |-> moment]}}
retrieve(c) ==
    /\ checks[c].at = "retrieve"
    /\ \E rows \in fetchDailyFxRatesPage :
         checks' = [checks EXCEPT ![c].read = rows, ![c].at = IF rows = {} THEN "report" ELSE "record"]
    /\ UNCHANGED <<page, observed, sessions, lockHolder, moment, deaths>>

\* The row is coherent and no later than the instant it was read.
validateFxSourceRow(row) == row.figure \in Figures /\ row.day <= row.at

\* What makes two readings the same observation: day and figures, not the
\* instant or the bytes they were read from.
everyReadingIsNew(row) == row
fxSourceObservationKey(row) == [day |-> row.day, figure |-> row.figure]

recorded(row) == \E o \in observed : [k \in DOMAIN fxSourceObservationKey(row) |-> o[k]] = fxSourceObservationKey(row)

\* The insert does nothing on a conflict; its connection is the pool's, not
\* the lock's session.  The insert itself may fail, which ends the check.
record(c) ==
    /\ checks[c].at = "record"
    /\ \E row \in checks[c].read :
         \/ /\ validateFxSourceRow(row)
            /\ observed' = IF recorded(row) THEN observed ELSE observed \cup {row}
            /\ checks' = [checks EXCEPT ![c].at = "report"]
         \/ ~validateFxSourceRow(row) /\ checks' = [checks EXCEPT ![c].at = "report"] /\ UNCHANGED observed
         \/ checks' = [checks EXCEPT ![c].at = "unlock"] /\ UNCHANGED observed
    /\ UNCHANGED <<page, sessions, lockHolder, moment, deaths>>

Newest(rows) == {o \in rows : \A p \in rows : p.day < o.day \/ (p.day = o.day /\ p.at <= o.at)}
stalenessOf(age) == IF age >= StaleAfter THEN "stale" ELSE IF age >= WarningAfter THEN "warning" ELSE "fresh"
analyzeFxSourceObservations == IF observed = {} THEN {"never"} ELSE {stalenessOf(moment - o.day) : o \in Newest(observed)}

report(c) ==
    /\ checks[c].at = "report"
    /\ \E state \in analyzeFxSourceObservations : checks' = [checks EXCEPT ![c].at = "unlock", ![c].report = state]
    /\ UNCHANGED <<page, observed, sessions, lockHolder, moment, deaths>>

\* The finally block.  An unlock that fails or is not confirmed ends the
\* session, and with it the lock; otherwise the session goes back.
returnUnconfirmed(c) == Return(c) /\ UNCHANGED lockHolder
evict(c) ==
    /\ sessions' = [s \in Sessions |-> IF s \in checks[c].session THEN "gone" ELSE sessions[s]]
    /\ lockHolder' = lockHolder \ checks[c].session

releaseLock(c) ==
    /\ checks[c].at = "unlock"
    /\ \/ checks[c].session = lockHolder /\ lockHolder' = {} /\ Return(c)
       \/ evict(c)
    /\ checks' = [checks EXCEPT ![c] = NoCheck]
    /\ UNCHANGED <<page, observed, moment, deaths>>

----------------------------------------------------------------------------
(* The environment.                                                        *)

publishPage(day, figure) ==
    /\ page.day <= day /\ day <= moment + 1 /\ page # [day |-> day, figure |-> figure]
    /\ page' = [day |-> day, figure |-> figure]
    /\ UNCHANGED <<observed, checks, sessions, lockHolder, moment, deaths>>

passDay == moment < MaxMoment /\ moment' = moment + 1 /\ UNCHANGED <<page, observed, checks, sessions, lockHolder, deaths>>

\* The pool opens a session in the place of one that is gone.
reopen(s) ==
    /\ sessions[s] = "gone" /\ \A c \in Checkers : s \notin checks[c].session
    /\ sessions' = [sessions EXCEPT ![s] = "pooled"]
    /\ UNCHANGED <<page, observed, checks, lockHolder, moment, deaths>>

die(s) ==
    /\ sessions[s] # "gone" /\ deaths < MaxDeaths
    /\ sessions' = [sessions EXCEPT ![s] = "gone"]
    /\ lockHolder' = lockHolder \ {s} /\ deaths' = deaths + 1
    /\ UNCHANGED <<page, observed, checks, moment>>

ObservationNext ==
    \/ \E c \in Checkers : acquireLockClient(c) \/ tryLock(c) \/ retrieve(c) \/ record(c) \/ report(c) \/ releaseLock(c)
    \/ \E day \in 0 .. MaxMoment + 1, figure \in Figures \cup BadFigures : publishPage(day, figure)
    \/ passDay
    \/ \E s \in Sessions : reopen(s) \/ die(s)

ObservationSpec == ObservationInit /\ [][ObservationNext]_observationVars

----------------------------------------------------------------------------
(* Properties.                                                             *)

ObservationTypeOK ==
    /\ page \in Published /\ observed \subseteq [day : 0 .. MaxMoment, figure : Figures, at : 0 .. MaxMoment]
    /\ \A c \in Checkers : Cardinality(checks[c].read) <= 1 /\ checks[c].session \subseteq Sessions
    /\ lockHolder \subseteq Sessions /\ Cardinality(lockHolder) <= 1

\* fx-source-observations.ts 1075-1155, 884-933: the lock is never left with a
\* session that no check is using, so a failed unlock cannot turn every later
\* check away; and two checks that overlap after a session died, or a figure
\* corrected back and forth, never record a day's figure twice nor a day
\* that had not come.
ObservationsSound ==
    /\ \A s \in lockHolder : \E c \in Checkers : s \in checks[c].session /\ Locked(c)
    /\ \A o, p \in observed : o.day = p.day /\ o.figure = p.figure => o = p
    /\ \A o \in observed : o.day <= o.at
=============================================================================
