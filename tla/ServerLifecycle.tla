-------------------------- MODULE ServerLifecycle --------------------------
(***************************************************************************)
(* The life of an API process: boot and migrations, the background         *)
(* tickers, the internal heartbeat requests, readiness and shutdown        *)
(* (packages/core/src/db/migrate.ts, apps/api/src/server.ts,               *)
(* delivery-worker.ts, scanner-worker.ts, fx-source-runner.ts,             *)
(* notification-heartbeat.ts, worker-liveness.ts, routes/health.ts).       *)
(*                                                                         *)
(* Several servers boot against one database, each with the migration      *)
(* files of its own release.  What a batch does is the business of the     *)
(* modules of its worker; here it is only begun, awaited and over.         *)
(***************************************************************************)
EXTENDS Naturals, FiniteSets, Sequences

CONSTANTS
    Servers,       \* processes sharing the database
    NoServer,      \* nobody holds the migration lock
    Releases,      \* set of [Servers -> Seq(checksum)]: the files of each
    TickersOf,     \* [Servers -> set of workers its configuration enables]
    Slots,         \* concurrent internal requests a server may be serving
    MaxBoots       \* bound: boots of one server

BackgroundWorkers == {"scanner", "notifications", "fxSource"}

ServersAssumption ==
    /\ NoServer \notin Servers /\ MaxBoots \in Nat
    /\ \A files \in Releases, i \in Servers : Len(files[i]) \in Nat
    /\ \A i \in Servers : TickersOf[i] \subseteq BackgroundWorkers
    /\ IsFiniteSet(Slots)

NoRequest == "none"
Stopped == [at |-> "down", file |-> 1, cause |-> "none", busy |-> {}, halted |-> {},
            slot |-> [s \in Slots |-> NoRequest], orphans |-> 0,
            inFlight |-> [w \in BackgroundWorkers |-> 0]]

VARIABLES
    release,         \* the migration files each server was built with
    schemaRows,      \* schema_migrations: version -> checksum
    executed,        \* SQL committed, in order: <<version, checksum>> (history)
    migrationHolder, \* session holding pg_advisory_lock(MIGRATION_LOCK_KEY)
    server,          \* the state of each process
    boots            \* boots so far

lifecycleVars == <<release, schemaRows, executed, migrationHolder, server, boots>>
schemaVars == <<schemaRows, executed, migrationHolder>>

LifecycleInit ==
    /\ release \in Releases
    /\ schemaRows = <<>> /\ executed = <<>>
    /\ migrationHolder = NoServer
    /\ server = [i \in Servers |-> Stopped]
    /\ boots = [i \in Servers |-> 0]

Become(i, s) == server' = [server EXCEPT ![i] = s]
Advance(i, phase) == Become(i, [server[i] EXCEPT !.at = phase])
InPhase(i, phase) == server[i].at = phase
\* main().catch: the process exits, whatever it held is released
Exit(i, cause) == Become(i, [Stopped EXCEPT !.cause = cause])
Unlocked(i) == IF migrationHolder = i THEN NoServer ELSE migrationHolder

-----------------------------------------------------------------------------
(* Boot.                                                                   *)

\* main: waitForDatabase gives up after its attempts, or the boot goes on.
bootServer(i) ==
    /\ InPhase(i, "down") /\ boots[i] < MaxBoots
    /\ boots' = [boots EXCEPT ![i] = @ + 1]
    /\ \/ Become(i, [Stopped EXCEPT !.at = "lock"])
       \/ Exit(i, "no_database")
    /\ UNCHANGED <<release, schemaVars>>

\* Mutant: every migrator believes it holds the lock.
acquireAnyway(i) ==
    /\ InPhase(i, "lock")
    /\ migrationHolder' = i /\ Advance(i, "migrate")
    /\ UNCHANGED <<release, schemaRows, executed, boots>>

\* acquireMigrationLock: pg_try_advisory_lock, polled until the deadline.
acquireMigrationLock(i) ==
    /\ InPhase(i, "lock")
    /\ \/ migrationHolder = NoServer /\ migrationHolder' = i /\ Advance(i, "migrate")
       \/ migrationHolder # NoServer /\ Exit(i, "lock_timeout") /\ UNCHANGED migrationHolder
    /\ UNCHANGED <<release, schemaRows, executed, boots>>

\* The end of runMigrations: unlock, then the server starts.
runMigrations(i) ==
    /\ InPhase(i, "migrate") /\ server[i].file > Len(release[i])
    /\ migrationHolder' = Unlocked(i)
    /\ Advance(i, "start")
    /\ UNCHANGED <<release, schemaRows, executed, boots>>

\* The look-up of one file: already applied with these contents, applied with
\* others (the boot fails), or not yet.
checkMigration(i) ==
    LET v == server[i].file IN
    /\ InPhase(i, "migrate") /\ v <= Len(release[i])
    /\ IF v \notin DOMAIN schemaRows
         THEN Advance(i, "apply") /\ UNCHANGED migrationHolder
         ELSE IF schemaRows[v] = release[i][v]
         THEN Become(i, [server[i] EXCEPT !.file = v + 1]) /\ UNCHANGED migrationHolder
         ELSE Exit(i, "edited") /\ migrationHolder' = Unlocked(i)
    /\ UNCHANGED <<release, schemaRows, executed, boots>>

\* Mutant: the SQL is committed before its record is written.
applyThenRecord(i) ==
    LET v == server[i].file
        sum == release[i][v]
    IN
    /\ InPhase(i, "apply")
    /\ executed' = Append(executed, <<v, sum>>)
    /\ \/ /\ schemaRows' = [u \in DOMAIN schemaRows \cup {v} |->
                               IF u = v THEN sum ELSE schemaRows[u]]
          /\ Become(i, [server[i] EXCEPT !.file = v + 1, !.at = "migrate"])
          /\ UNCHANGED migrationHolder
       \/ /\ Exit(i, "migration_failed")
          /\ migrationHolder' = Unlocked(i)
          /\ UNCHANGED schemaRows
    /\ UNCHANGED <<release, boots>>

\* BEGIN, the SQL, the record, COMMIT: both or neither.  The primary key
\* refuses a version somebody else has recorded since the look-up.
applyMigration(i) ==
    LET v == server[i].file
        sum == release[i][v]
    IN
    /\ InPhase(i, "apply")
    /\ \/ /\ v \notin DOMAIN schemaRows
          /\ schemaRows' = [u \in DOMAIN schemaRows \cup {v} |->
                               IF u = v THEN sum ELSE schemaRows[u]]
          /\ executed' = Append(executed, <<v, sum>>)
          /\ Become(i, [server[i] EXCEPT !.file = v + 1, !.at = "migrate"])
          /\ UNCHANGED migrationHolder
       \/ /\ Exit(i, IF v \in DOMAIN schemaRows THEN "conflict" ELSE "migration_failed")
          /\ migrationHolder' = Unlocked(i)
          /\ UNCHANGED <<schemaRows, executed>>
    /\ UNCHANGED <<release, boots>>

\* The rest of main: housekeeping and the two recoveries (a failure is only
\* logged), buildApp, listen and the tickers of the configuration.
startServing(i) ==
    /\ InPhase(i, "start")
    /\ Advance(i, "serving")
    /\ UNCHANGED <<release, schemaVars, boots>>

-----------------------------------------------------------------------------
(* Background work.                                                        *)

Alive(i) == server[i].at \in {"serving", "stopScanner", "stopDelivery", "waitScans", "close"}
Listening(i) == server[i].at \in {"serving", "stopScanner", "stopDelivery", "waitScans"}

recordWorkerStart(s, w) == [s EXCEPT !.inFlight[w] = @ + 1]
\* recordWorkerSuccess and recordWorkerFailure
recordWorkerEnd(s, w) == [s EXCEPT !.inFlight[w] = IF @ = 0 THEN 0 ELSE @ - 1]

\* The scanner's ticker is not recorded (only the heartbeat endpoint is).
Recorded(w) == w # "scanner"

\* runOnce of startScannerWorkerTicker, startDeliveryWorkerTicker and
\* startFxSourceTicker: a tick finds the ticker stopped, busy, or starts.
tick(i, w) ==
    /\ Alive(i) /\ w \in TickersOf[i]
    /\ w \notin server[i].halted /\ w \notin server[i].busy
    /\ LET s == [server[i] EXCEPT !.busy = @ \cup {w}] IN
       Become(i, IF Recorded(w) THEN recordWorkerStart(s, w) ELSE s)
    /\ UNCHANGED <<release, schemaVars, boots>>

\* The batch of a ticker succeeds or fails.
batchEnds(i, w) ==
    /\ w \in server[i].busy
    /\ LET s == [server[i] EXCEPT !.busy = @ \ {w}] IN
       Become(i, IF Recorded(w) THEN recordWorkerEnd(s, w) ELSE s)
    /\ UNCHANGED <<release, schemaVars, boots>>

\* The worker an internal request has in flight.
WorkerOfRequest(r) == CASE r = "heartbeat" -> "notifications"
                        [] r = "deliver" -> "notifications"
                        [] r = "scan" -> "scanner"
                        [] r = "fxCheck" -> "fxSource"

\* POST /api/internal/scanner/run (its heartbeat drain comes first),
\* /api/internal/notifications/deliveries/run and /billing/fx/source-check.
internalRequest(i, k) ==
    /\ Listening(i) /\ server[i].slot[k] = NoRequest
    /\ \E r \in {"heartbeat", "deliver", "fxCheck"} :
          Become(i, recordWorkerStart([server[i] EXCEPT !.slot[k] = r], WorkerOfRequest(r)))
    /\ UNCHANGED <<release, schemaVars, boots>>

\* Mutant: the timed-out drain stays counted until its batch is over.
forgetTimeout(i, k) ==
    /\ server[i].slot[k] = "heartbeat"
    /\ \E late \in {0, 1} :
          /\ server[i].orphans + late <= 1
          /\ Become(i, recordWorkerStart(
                [IF late = 1 THEN server[i] ELSE recordWorkerEnd(server[i], "notifications")
                    EXCEPT !.slot[k] = "scan", !.orphans = @ + late], "scanner"))
    /\ UNCHANGED <<release, schemaVars, boots>>

\* drainNotificationOutbox: the batch ends, or withTimeout lets go of it and
\* it runs on, counted no more.  The request goes on to the scan either way.
drainNotificationOutbox(i, k) ==
    /\ server[i].slot[k] = "heartbeat"
    /\ \E late \in {0, 1} :
          /\ server[i].orphans + late <= 1
          /\ Become(i, recordWorkerStart(
                [recordWorkerEnd(server[i], "notifications")
                    EXCEPT !.slot[k] = "scan", !.orphans = @ + late], "scanner"))
    /\ UNCHANGED <<release, schemaVars, boots>>

\* runScannerWorkerCycle, the delivery batch or runFxSourceCheckOnce is over:
\* the request answers.
answerInternal(i, k) ==
    /\ server[i].slot[k] \in {"scan", "deliver", "fxCheck"}
    /\ Become(i, recordWorkerEnd([server[i] EXCEPT !.slot[k] = NoRequest],
                                 WorkerOfRequest(server[i].slot[k])))
    /\ UNCHANGED <<release, schemaVars, boots>>

\* The batch a timed-out drain left behind is over.
orphanEnds(i) ==
    /\ server[i].orphans > 0
    /\ Become(i, [server[i] EXCEPT !.orphans = @ - 1])
    /\ UNCHANGED <<release, schemaVars, boots>>

-----------------------------------------------------------------------------
(* Shutdown, in the order of the handler.                                  *)

\* SIGTERM; fxSourceTicker.stop() stops the timer and does not wait
shutdown(i) ==
    /\ InPhase(i, "serving")
    /\ Become(i, [server[i] EXCEPT !.at = "stopScanner",
                                   !.halted = {"fxSource", "scanner"}])
    /\ UNCHANGED <<release, schemaVars, boots>>

\* Scans of the service in flight: the ticker's and the requests'
ScansInFlight(i) == "scanner" \in server[i].busy \/ \E k \in Slots : server[i].slot[k] = "scan"

\* scannerTicker.stop() waits for the batch and for every scan; then the
\* delivery ticker is told to stop.
stopScannerTicker(i) ==
    /\ InPhase(i, "stopScanner")
    /\ "scanner" \in TickersOf[i] => ~ScansInFlight(i)
    /\ Become(i, [server[i] EXCEPT !.at = "stopDelivery", !.halted = @ \cup {"notifications"}])
    /\ UNCHANGED <<release, schemaVars, boots>>

\* Mutant: the delivery ticker's stop does not wait for its batch.
stopWithoutWaiting(i) ==
    /\ InPhase(i, "stopDelivery")
    /\ Advance(i, "waitScans")
    /\ UNCHANGED <<release, schemaVars, boots>>

\* workerTicker.stop() waits for its batch.
stopDeliveryTicker(i) ==
    /\ InPhase(i, "stopDelivery")
    /\ "notifications" \notin server[i].busy
    /\ Advance(i, "waitScans")
    /\ UNCHANGED <<release, schemaVars, boots>>

\* ctx.scanner.waitForInFlight, then app.close takes no more requests.
waitForInFlight(i) ==
    /\ InPhase(i, "waitScans")
    /\ ~ScansInFlight(i)
    /\ Advance(i, "close")
    /\ UNCHANGED <<release, schemaVars, boots>>

\* app.close has waited for the requests, pool.end for its clients.
endPool(i) ==
    /\ InPhase(i, "close")
    /\ \A k \in Slots : server[i].slot[k] = NoRequest
    /\ Advance(i, "ended")
    /\ UNCHANGED <<release, schemaVars, boots>>

\* process.exit(0), or the process dies at any point: its sessions go with it,
\* an open transaction is rolled back.
processEnds(i) ==
    /\ ~InPhase(i, "down")
    /\ Exit(i, IF InPhase(i, "ended") THEN "stopped" ELSE "killed")
    /\ migrationHolder' = Unlocked(i)
    /\ UNCHANGED <<release, schemaRows, executed, boots>>

BootNext(i) ==
    \/ bootServer(i) \/ acquireMigrationLock(i) \/ checkMigration(i) \/ applyMigration(i)
    \/ runMigrations(i) \/ startServing(i) \/ processEnds(i)

ServingNext(i) ==
    \/ \E w \in BackgroundWorkers : tick(i, w) \/ batchEnds(i, w)
    \/ \E k \in Slots : internalRequest(i, k) \/ drainNotificationOutbox(i, k) \/ answerInternal(i, k)
    \/ orphanEnds(i) \/ shutdown(i) \/ stopScannerTicker(i) \/ stopDeliveryTicker(i)
    \/ waitForInFlight(i) \/ endPool(i)

LifecycleNext == \E i \in Servers : BootNext(i) \/ ServingNext(i)

LifecycleSpec == LifecycleInit /\ [][LifecycleNext]_lifecycleVars

-----------------------------------------------------------------------------
(* Properties.                                                             *)

LifecycleTypeOK ==
    /\ \A v \in DOMAIN schemaRows : v \in Nat
    /\ migrationHolder \in Servers \cup {NoServer}
    /\ \A i \in Servers :
          /\ server[i].busy \subseteq TickersOf[i]
          /\ server[i].file \in 1..(Len(release[i]) + 1)

\* migrationStatus: nothing pending, and every applied row is a file of this
\* release with these contents
pendingMigrations(i) == (1..Len(release[i])) \ DOMAIN schemaRows
checksumsMatch(i) ==
    \A v \in DOMAIN schemaRows : v <= Len(release[i]) /\ release[i][v] = schemaRows[v]
\* GET /api/health/ready
readyAnswer(i) == pendingMigrations(i) = {} /\ checksumsMatch(i)

\* The schema is what schema_migrations says: every migration ran exactly once
\* with the recorded contents, in version order, whatever servers raced or
\* died in the middle.
SchemaIsAsRecorded ==
    /\ Len(executed) = Cardinality(DOMAIN schemaRows)
    /\ \A n \in 1..Len(executed) : executed[n][1] = n /\ schemaRows[n] = executed[n][2]

\* Two servers migrating at once wait for each other: neither fails because
\* the other recorded the version it was about to apply.
MigratorsTakeTurns == \A i \in Servers : server[i].cause # "conflict"

\* A server that serves has its whole schema; it answers "not ready" only
\* because a later release has migrated past it.
ServingMeansMigrated ==
    \A i \in Servers :
        Alive(i) =>
            /\ pendingMigrations(i) = {}
            /\ readyAnswer(i) \/ \E v \in DOMAIN schemaRows : v > Len(release[i])

\* When the pool ends, no scan and no delivery batch that anybody waits for is
\* still running on it.
PoolOutlivesBatches ==
    \A i \in Servers :
        InPhase(i, "ended") =>
            /\ server[i].busy \subseteq {"fxSource"}
            /\ \A k \in Slots : server[i].slot[k] = NoRequest

\* The in-flight counters of /api/health are the batches that somebody awaits:
\* ticks, heartbeats and requests add up, also after a drain timed out.
CountersAddUp ==
    \A i \in Servers, w \in BackgroundWorkers :
        server[i].inFlight[w] =
            Cardinality({k \in Slots : server[i].slot[k] # NoRequest
                                       /\ WorkerOfRequest(server[i].slot[k]) = w})
            + IF w \in server[i].busy /\ Recorded(w) THEN 1 ELSE 0

\* What the deployment guide expects of a server's life, in one piece.
ServerLifeIsOrderly ==
    /\ LifecycleTypeOK /\ SchemaIsAsRecorded /\ MigratorsTakeTurns /\ ServingMeansMigrated
    /\ PoolOutlivesBatches /\ CountersAddUp
=============================================================================
