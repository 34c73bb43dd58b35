---------------------------- MODULE ScannerRuns ----------------------------
(***************************************************************************)
(* The live scanner's run ledger and its session advisory lock             *)
(* (packages/core/src/scanner/service.ts, db/advisory-lock.ts) driven by   *)
(* the ticker and the routes of apps/api.                                  *)
(*                                                                         *)
(* A worker is one invocation path with a database session of its own: the *)
(* in-process ticker, the internal cron route, a user's manual trigger.    *)
(* The lock belongs to the session; it vanishes with it, and the worker    *)
(* only finds out at its next verification.  Strategies are scanned one by *)
(* one; what a scan does to setups and alerts is module SetupPipeline.     *)
(***************************************************************************)
EXTENDS Naturals, Sequences, FiniteSets, FiniteSetsExt

CONSTANTS
    Workers,            \* sessions that may scan
    Ticker,             \* the one driven by the in-process ticker
    NoWorker,           \* nobody holds the advisory lock
    NStrategies,        \* eligible strategies of one cycle
    MaxRuns,            \* bound on rows ever inserted into scanner_runs
    MaintenanceEvery,   \* ticker: maintenance every N ticks
    PruneLimit,         \* rows one retention sweep may delete
    MaxFaults           \* bound on crashes and killed lock sessions

ASSUME ScannerAssumption ==
    /\ NoWorker \notin Workers /\ Ticker \in Workers
    /\ NStrategies \in Nat /\ MaxRuns \in Nat /\ MaxFaults \in Nat
    /\ MaintenanceEvery \in Nat \ {0} /\ PruneLimit \in Nat \ {0} /\ IsFiniteSet(Workers)

VARIABLES
    runs,       \* scanner_runs in started_at order: [status, age, fin]
    holder,     \* the session PostgreSQL records as holding the lock
    spc,        \* where each worker's invocation stands
    runOf,      \* index in runs of the run a worker executes, 0 if none
    left,       \* strategies the worker has still to scan
    lost,       \* the heartbeat's flag: ownership was disproven
    scan,       \* [fails, partial, found]: the metrics the status depends on
    verdict,    \* the terminal status a worker is about to write
    tick,       \* the ticker's run counter modulo MaintenanceEvery
    faults,     \* crashes and killed sessions so far
    overlap     \* pairs of runs that scanned strategies at the same time

scannerVars == <<runs, holder, spc, runOf, left, lost, scan, verdict, tick, faults, overlap>>

RunStatus == {"running", "completed", "failed", "partial", "deleted"}
Pcs == {"idle", "maintain", "recover", "acquire", "create", "select",
        "scan", "verify", "complete", "readback", "release"}
NoMetrics == [fails |-> 0, partial |-> FALSE, found |-> FALSE]

\* age: 0 inside the lease, 1 past the lease, 2 past the retention window.
ScannerTypeOK ==
    /\ runs \in Seq([status : RunStatus, age : 0..2, fin : Nat]) /\ Len(runs) <= MaxRuns
    /\ holder \in Workers \cup {NoWorker}
    /\ spc \in [Workers -> Pcs]
    /\ runOf \in [Workers -> 0..MaxRuns]
    /\ left \in [Workers -> 0..NStrategies]
    /\ lost \in [Workers -> BOOLEAN]
    /\ scan \in [Workers -> [fails : Nat, partial : BOOLEAN, found : BOOLEAN]]
    /\ verdict \in [Workers -> RunStatus]
    /\ tick \in 0..MaintenanceEvery - 1
    /\ faults \in 0..MaxFaults
    /\ overlap \subseteq (1..MaxRuns) \X (1..MaxRuns)

ScannerInit ==
    /\ runs = <<>>
    /\ holder = NoWorker
    /\ spc = [w \in Workers |-> "idle"]
    /\ runOf = [w \in Workers |-> 0]
    /\ left = [w \in Workers |-> 0]
    /\ lost = [w \in Workers |-> FALSE]
    /\ scan = [w \in Workers |-> NoMetrics]
    /\ verdict = [w \in Workers |-> "running"]
    /\ tick = 0
    /\ faults = 0
    /\ overlap = {}

Go(w, place) == spc' = [spc EXCEPT ![w] = place]

----------------------------------------------------------------------------
(* The ledger's maintenance.                                               *)

\* recoverStaleRuns: every running row older than the lease becomes failed,
\* whether or not somebody is still executing it.
Recovered(rs) ==
    [i \in DOMAIN rs |->
        IF rs[i].status = "running" /\ rs[i].age >= 1
        THEN [rs[i] EXCEPT !.status = "failed"]
        ELSE rs[i]]

Ended(rs) == {i \in DOMAIN rs : rs[i].status \in {"completed", "failed"}}
Successful(rs) == {i \in DOMAIN rs : rs[i].status = "completed"}

\* The two rows behind getHealth().lastRun and lastSuccessfulRun, as the
\* retention statement computes them.
NewestEnded(rs) == {i \in Ended(rs) : \A j \in Ended(rs) : j <= i}
NewestSuccessful(rs) ==
    {i \in Successful(rs) : \A j \in Successful(rs) : rs[j].fin <= rs[i].fin}

\* pruneTerminalRuns: the oldest ended rows past the retention window, less
\* the two kept rows, up to the sweep's ceiling.
Prunable(rs) ==
    {i \in Ended(rs) : rs[i].age = 2} \ (NewestEnded(rs) \cup NewestSuccessful(rs))

Pruned(rs) ==
    LET doomed == {i \in Prunable(rs) :
                     Cardinality({j \in Prunable(rs) : j < i}) < PruneLimit}
    IN [i \in DOMAIN rs |->
          IF i \in doomed THEN [rs[i] EXCEPT !.status = "deleted"] ELSE rs[i]]

\* runMaintenance: recovery, then the retention sweep.
runMaintenance(w) ==
    /\ spc[w] = "maintain"
    /\ runs' = Pruned(Recovered(runs))
    /\ Go(w, "recover")
    /\ UNCHANGED <<holder, runOf, left, lost, scan, verdict, tick, faults, overlap>>

----------------------------------------------------------------------------
(* Entry points.                                                           *)

\* The ticker never overlaps itself: a tick finds the worker idle.
tickerRunOnce(w) ==
    /\ w = Ticker /\ spc[w] = "idle"
    /\ tick' = (tick + 1) % MaintenanceEvery
    /\ Go(w, IF tick' = 0 THEN "maintain" ELSE "recover")
    /\ UNCHANGED <<runs, holder, runOf, left, lost, scan, verdict, faults, overlap>>

\* POST /api/internal/scanner/run: the external scheduler's cycle.
internalRunRoute(w) ==
    /\ w # Ticker /\ spc[w] = "idle"
    /\ Go(w, "recover")
    /\ UNCHANGED <<runs, holder, runOf, left, lost, scan, verdict, tick, faults, overlap>>

\* POST /api/scanner/trigger goes straight to triggerScan: no recovery first.
triggerRoute(w) ==
    /\ w # Ticker /\ spc[w] = "idle"
    /\ Go(w, "acquire")
    /\ UNCHANGED <<runs, holder, runOf, left, lost, scan, verdict, tick, faults, overlap>>

\* runWorkerOnce: stale runs are recovered first; without a market-data
\* provider the cycle is skipped.
runWorkerOnce(w) ==
    /\ spc[w] = "recover"
    /\ runs' = Recovered(runs)
    /\ \/ Go(w, "idle")
       \/ Go(w, "acquire")
    /\ UNCHANGED <<holder, runOf, left, lost, scan, verdict, tick, faults, overlap>>

----------------------------------------------------------------------------
(* The advisory lock.                                                      *)

\* acquireSessionAdvisoryLock: won and proven on this backend; contended (the
\* scan is skipped); or not provable, and the session is destroyed with
\* whatever it held.
AtBound == Len(runs) + Cardinality({w \in Workers : spc[w] = "create"}) >= MaxRuns

acquireSessionAdvisoryLock(w) ==
    /\ spc[w] = "acquire"
    /\ \/ /\ holder = NoWorker /\ ~AtBound
          /\ holder' = w /\ Go(w, "create")
          /\ UNCHANGED faults
       \/ holder # NoWorker /\ Go(w, "idle") /\ UNCHANGED <<holder, faults>>
       \/ /\ holder = NoWorker
          /\ AtBound \/ faults < MaxFaults
          /\ faults' = IF AtBound THEN faults ELSE faults + 1
          /\ Go(w, "idle") /\ UNCHANGED holder
    /\ lost' = [lost EXCEPT ![w] = FALSE]
    /\ UNCHANGED <<runs, runOf, left, scan, verdict, tick, overlap>>

InRun(w) == spc[w] \in {"create", "select", "scan", "verify", "complete", "readback"}

\* SessionAdvisoryLock.verify: this backend is in pg_locks for the key.
Owned(w) == holder = w

\* The heartbeat timer disproves ownership; it never restores it.
heartbeat(w) ==
    /\ InRun(w) /\ ~Owned(w) /\ ~lost[w]
    /\ lost' = [lost EXCEPT ![w] = TRUE]
    /\ UNCHANGED <<runs, holder, spc, runOf, left, scan, verdict, tick, faults, overlap>>

\* The invocation is over: its local variables are gone.
Forget(w) ==
    /\ runOf' = [runOf EXCEPT ![w] = 0]
    /\ left' = [left EXCEPT ![w] = 0]
    /\ lost' = [lost EXCEPT ![w] = FALSE]
    /\ scan' = [scan EXCEPT ![w] = NoMetrics]
    /\ verdict' = [verdict EXCEPT ![w] = "running"]
    /\ Go(w, "idle")

\* release: unlock and prove it; an unclean release destroys the session, so
\* the lock is gone either way.  Another session's lock is never touched.
releaseLock(w) ==
    /\ spc[w] = "release"
    /\ holder' = IF Owned(w) THEN NoWorker ELSE holder
    /\ Forget(w)
    /\ UNCHANGED <<runs, tick, faults, overlap>>

----------------------------------------------------------------------------
(* One scan.                                                               *)

\* executeScan: without a provider it throws before a row exists; otherwise
\* the run is inserted as running.
createRun(w) ==
    /\ spc[w] = "create"
    /\ \/ Go(w, "release") /\ UNCHANGED <<runs, runOf, scan>>
       \/ /\ runs' = Append(runs, [status |-> "running", age |-> 0, fin |-> 0])
          /\ runOf' = [runOf EXCEPT ![w] = Len(runs')]
          /\ scan' = [scan EXCEPT ![w] = NoMetrics]
          /\ Go(w, "select")
    /\ UNCHANGED <<holder, left, lost, verdict, tick, faults, overlap>>

Abort(w) == verdict' = [verdict EXCEPT ![w] = "failed"] /\ Go(w, "complete")

Scanning(w) == spc[w] = "scan"

\* Ghost: the runs that are scanning strategies at the same time as w's.
NowOverlapping(w) ==
    {<<runOf[w], runOf[o]>> : o \in {o \in Workers \ {w} : spc[o] = "scan"}}

\* getEligibleStrategies: a known loss aborts; an empty selection goes
\* straight to the ownership proof of the success path.
getEligibleStrategies(w) ==
    /\ spc[w] = "select"
    /\ \/ lost[w] /\ Abort(w) /\ UNCHANGED <<left, overlap>>
       \/ /\ ~lost[w]
          /\ \E n \in {0, NStrategies} :
                /\ left' = [left EXCEPT ![w] = n]
                /\ Go(w, IF n = 0 THEN "verify" ELSE "scan")
                /\ overlap' = IF n = 0 THEN overlap ELSE overlap \cup NowOverlapping(w)
          /\ UNCHANGED verdict
    /\ UNCHANGED <<runs, holder, runOf, lost, scan, tick, faults>>

\* The strategy loop: the flag is read at every boundary.  A strategy works
\* (detecting something or not), loses its instruments to the provider, or
\* throws and makes the run partial.
scanStrategy(w) ==
    /\ Scanning(w)
    /\ \/ lost[w] /\ Abort(w) /\ UNCHANGED <<left, scan>>
       \/ /\ ~lost[w]
          /\ left' = [left EXCEPT ![w] = @ - 1]
          /\ \/ \E found \in BOOLEAN : scan' = [scan EXCEPT ![w].found = @ \/ found]
             \/ scan' = [scan EXCEPT ![w].fails = @ + 1]
             \/ scan' = [scan EXCEPT ![w].fails = @ + 1, ![w].partial = TRUE]
          /\ Go(w, IF left'[w] = 0 THEN "verify" ELSE "scan")
          /\ UNCHANGED verdict
    /\ UNCHANGED <<runs, holder, runOf, lost, tick, faults, overlap>>

\* The status executeScan decides: everything failed and nothing was found,
\* a strategy threw, or a clean run.
FinalStatus(w) ==
    IF scan[w].fails >= NStrategies /\ scan[w].fails > 0 /\ ~scan[w].found THEN "failed"
    ELSE IF scan[w].partial THEN "partial"
    ELSE "completed"

\* Mutant: the heartbeat's flag is trusted, the session is not asked again.
verifyByFlag(w) == ~lost[w]

\* assertLockOwnership: ownership is proven again, now, before any status
\* other than failed may be written.
VerifyPasses(w) == Owned(w) /\ ~lost[w]

assertLockOwnership(w) ==
    /\ spc[w] = "verify"
    /\ IF VerifyPasses(w)
       THEN verdict' = [verdict EXCEPT ![w] = FinalStatus(w)]
       ELSE verdict' = [verdict EXCEPT ![w] = "failed"]
    /\ lost' = [lost EXCEPT ![w] = ~VerifyPasses(w)]
    /\ Go(w, "complete")
    /\ UNCHANGED <<runs, holder, runOf, left, scan, tick, faults, overlap>>

\* finished_at, kept only as the order in which the completed runs finished.
LastFin(rs) == Max({0} \cup {rs[j].fin : j \in DOMAIN rs})

\* completeRun: UPDATE ... WHERE id = $1, with no condition on the status the
\* row has by now; a row that retention removed is not touched.
Completed(rs, i, status) ==
    [rs EXCEPT ![i] = IF @.status = "deleted" THEN @
                      ELSE [@ EXCEPT !.status = status,
                                     !.fin = IF status = "completed" THEN 1 + LastFin(rs) ELSE 0]]

completeRun(w) ==
    /\ spc[w] = "complete"
    /\ runs' = Completed(runs, runOf[w], verdict[w])
    /\ Go(w, "readback")
    /\ UNCHANGED <<holder, runOf, left, lost, scan, verdict, tick, faults, overlap>>

\* getRun reads the row back inside the same try block: when that fails after
\* a successful verdict, the catch block completes the run again, as failed.
getRun(w) ==
    /\ spc[w] = "readback"
    /\ \/ Go(w, "release") /\ UNCHANGED <<verdict, faults>>
       \/ /\ verdict[w] # "failed"
          /\ faults < MaxFaults \/ runs[runOf[w]].status = "deleted"
          /\ faults' = IF faults < MaxFaults THEN faults + 1 ELSE faults
          /\ Abort(w)
    /\ UNCHANGED <<runs, holder, runOf, left, lost, scan, tick, overlap>>

----------------------------------------------------------------------------
(* The environment.                                                        *)

\* The server ends the lock session of a running scan.
killSession(w) ==
    /\ InRun(w) /\ Owned(w) /\ faults < MaxFaults
    /\ holder' = NoWorker
    /\ faults' = faults + 1
    /\ UNCHANGED <<runs, spc, runOf, left, lost, scan, verdict, tick, overlap>>

\* The process dies anywhere: its session ends, its row stays as it was.
crash(w) ==
    /\ spc[w] # "idle" /\ faults < MaxFaults
    /\ faults' = faults + 1
    /\ holder' = IF Owned(w) THEN NoWorker ELSE holder
    /\ Forget(w)
    /\ UNCHANGED <<runs, tick, overlap>>

\* started_at falls behind the lease, later behind the retention window.
passTime(i) ==
    /\ i \in DOMAIN runs /\ runs[i].age < 2
    /\ \A j \in 1..i : runs[j].age >= runs[i].age
    /\ runs' = [runs EXCEPT ![i].age = @ + 1]
    /\ UNCHANGED <<holder, spc, runOf, left, lost, scan, verdict, tick, faults, overlap>>

WorkerStep(w) ==
    \/ runMaintenance(w) \/ runWorkerOnce(w)
    \/ acquireSessionAdvisoryLock(w) \/ createRun(w) \/ getEligibleStrategies(w)
    \/ scanStrategy(w) \/ assertLockOwnership(w)
    \/ completeRun(w) \/ getRun(w) \/ releaseLock(w)

ScannerNext ==
    \/ \E w \in Workers :
          \/ tickerRunOnce(w) \/ internalRunRoute(w) \/ triggerRoute(w) \/ WorkerStep(w)
          \/ heartbeat(w) \/ killSession(w) \/ crash(w)
    \/ \E i \in 1..MaxRuns : passTime(i)

ScannerSpec == ScannerInit /\ [][ScannerNext]_scannerVars

\* An invocation runs to its end, the ticker ticks again, and a lease runs out.
ScannerFairness ==
    /\ \A w \in Workers : WF_scannerVars(WorkerStep(w))
    /\ WF_scannerVars(tickerRunOnce(Ticker))
    /\ \A i \in 1..MaxRuns : WF_scannerVars(passTime(i))

----------------------------------------------------------------------------
(* Properties.                                                             *)

\* Two runs that scanned strategies at the same time (the lock was lost under
\* one of them) are never both recorded as runs that worked: the one that no
\* longer owns the lock ends as failed (assertLockOwnership).
OverlappingRunsNotBothClean ==
    \A p \in overlap :
        ~(runs[p[1]].status \in {"completed", "partial"} /\ runs[p[2]].status \in {"completed", "partial"})

\* A retention sweep never takes away what getHealth reports: the newest
\* ended run and the run that finished last successfully are the same after it.
PruneKeepsHealth ==
    [][\A w \in Workers : runMaintenance(w) =>
          /\ NewestEnded(runs') = NewestEnded(Recovered(runs))
          /\ NewestSuccessful(runs') = NewestSuccessful(runs)]_scannerVars

\* The run ledger, as a whole: overlapping runs are never both recorded as
\* having worked, and a sweep keeps what getHealth reports.
ScansAreSound == [](ScannerTypeOK /\ OverlappingRunsNotBothClean) /\ PruneKeepsHealth

\* Every run leaves 'running', however its worker ends: it is completed by
\* its worker or recovered by a later cycle of any worker.
RunsSettle ==
    \A i \in 1..MaxRuns :
        (i \in DOMAIN runs /\ runs[i].status = "running")
            ~> (i \in DOMAIN runs /\ runs[i].status # "running")

\* The lock is not leaked: whoever acquired it, it becomes free again.
LockIsFreed == \A w \in Workers : (holder = w) ~> (holder # w)
============================================================================
