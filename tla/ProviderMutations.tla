-------------------------- MODULE ProviderMutations --------------------------
(***************************************************************************)
(* The provider-mutation ledger of the execution subsystem                 *)
(* (packages/core/src/execution/provider-mutations.ts and the guards of    *)
(* migrations 0029 and 0030): the durable record of every order submission *)
(* to an external provider.                                                *)
(*                                                                         *)
(* A submission is an intent row with a reservation row.  prepareSubmit or *)
(* prepareRetry commits both and hands out a single-use barrier; a process *)
(* consumes the barrier, calls the provider outside any transaction,       *)
(* stores a receipt and moves the intent, each in a transaction of its     *)
(* own.  Reconciliation, an operator and restart recovery move the same    *)
(* rows concurrently.  One action below is one committed transaction, one  *)
(* read or one exchange with the provider; a refused or rolled-back        *)
(* transaction leaves the state alone.                                     *)
(***************************************************************************)
EXTENDS Naturals, FiniteSets

CONSTANTS
    IntentId,   \* ids the database may give to intent rows
    Order,      \* managed orders
    Request,    \* submit and retry requests the callers may make
    Worker,     \* processes that may run executeSubmit
    Resolver,   \* processes that reconcile or resolve
    NoIntent, NoOrder, NoRequest

ASSUME NullAssumption ==
    /\ NoIntent \notin IntentId
    /\ NoOrder \notin Order
    /\ NoRequest \notin Request

\* A request carries its mutation identity (client order id, idempotency key,
\* canonical request hash), the managed order it belongs to, the risk decision
\* that backs it and, for a retry, the authorization it consumes.
ASSUME RequestAssumption ==
    \A q \in Request : q.order \in Order \cup {NoOrder}

VARIABLES
    row,          \* the immutable columns of each intent row
    status,       \* execution_provider_intents.status, "none" before insert
    stateVersion, \* execution_provider_intents.state_version
    resolution,   \* execution_provider_intents.resolution
    supersededBy, \* execution_provider_intents.superseded_by_intent_id
    reservation,  \* execution_provider_mutation_reservations.state
    receipts,     \* outcomes of the execution_provider_receipts of each intent
    barrier,      \* stateVersion of the barrier minted for each intent, 0 if none
    worker,       \* executeSubmit in progress in each process
    resolver,     \* the row read by each resolver before it takes the lock
    wire,         \* intents whose submit request is on its way to the provider
    calls,        \* how often the provider function was invoked for each intent
    book          \* what the provider really did with each intent

ledger == <<row, status, stateVersion, resolution, supersededBy, reservation>>
vars == <<row, status, stateVersion, resolution, supersededBy, reservation,
          receipts, barrier, worker, resolver, wire, calls, book>>

Unresolved == {"prepared", "submitting", "uncertain"}
Terminal == {"confirmed", "rejected", "reconciled"}
Status == {"none"} \cup Unresolved \cup Terminal
Resolution == {"none", "provider_accepted", "provider_rejected", "provider_absent"}
ReservationState == {"none", "reserved", "known_completed", "known_rejected", "uncertain"}
Outcome == {"accepted", "rejected", "uncertain"}
Book == {"none", "accepted", "rejected", "cancelled"}

Row == [request : Request \cup {NoRequest}, order : Order \cup {NoOrder},
        attempt : Nat, parent : IntentId \cup {NoIntent},
        root : IntentId \cup {NoIntent}]
NoRow == [request |-> NoRequest, order |-> NoOrder, attempt |-> 0,
          parent |-> NoIntent, root |-> NoIntent]

WorkerState == [pc : {"idle", "calling", "waiting", "answered", "persisted"},
                intent : IntentId \cup {NoIntent}, outcome : Outcome]
Idle == [pc |-> "idle", intent |-> NoIntent, outcome |-> "uncertain"]

ResolverState == [intent : IntentId \cup {NoIntent}, version : Nat]
NoSnapshot == [intent |-> NoIntent, version |-> 0]

TypeOK ==
    /\ row \in [IntentId -> Row]
    /\ status \in [IntentId -> Status]
    /\ stateVersion \in [IntentId -> Nat]
    /\ resolution \in [IntentId -> Resolution]
    /\ supersededBy \in [IntentId -> IntentId \cup {NoIntent}]
    /\ reservation \in [IntentId -> ReservationState]
    /\ receipts \in [IntentId -> SUBSET Outcome]
    /\ barrier \in [IntentId -> Nat]
    /\ worker \in [Worker -> WorkerState]
    /\ resolver \in [Resolver -> ResolverState]
    /\ wire \in SUBSET IntentId
    /\ calls \in [IntentId -> Nat]
    /\ book \in [IntentId -> Book]

Init ==
    /\ row = [i \in IntentId |-> NoRow]
    /\ status = [i \in IntentId |-> "none"]
    /\ stateVersion = [i \in IntentId |-> 0]
    /\ resolution = [i \in IntentId |-> "none"]
    /\ supersededBy = [i \in IntentId |-> NoIntent]
    /\ reservation = [i \in IntentId |-> "none"]
    /\ receipts = [i \in IntentId |-> {}]
    /\ barrier = [i \in IntentId |-> 0]
    /\ worker = [w \in Worker |-> Idle]
    /\ resolver = [r \in Resolver |-> NoSnapshot]
    /\ wire = {}
    /\ calls = [i \in IntentId |-> 0]
    /\ book = [i \in IntentId |-> "none"]

-----------------------------------------------------------------------------
(* Reading the ledger                                                      *)

Exists(i) == status[i] # "none"

isProviderAcceptedIntent(i) ==
    \/ status[i] = "confirmed"
    \/ status[i] = "reconciled" /\ resolution[i] = "provider_accepted"

isRetryEligibleResolution(i) ==
    \/ status[i] = "rejected"
    \/ status[i] = "reconciled" /\ resolution[i] \in {"provider_rejected", "provider_absent"}

\* Mutant: an uncertain mutation no longer closes its order.
LiveOrderMutationNoUncertain(i) ==
    status[i] \in {"prepared", "submitting"} \/ isProviderAcceptedIntent(i)

\* The rows that close a managed order to a new mutation.
LiveOrderMutation(i) == status[i] \in Unresolved \/ isProviderAcceptedIntent(i)

OrderAcceptsNewMutation(o) ==
    o # NoOrder => \A i \in IntentId : row[i].order = o => ~LiveOrderMutation(i)

\* Any one of the three identities makes a request a duplicate of a stored one.
SameIdentity(p, q) == p.cid = q.cid \/ p.key = q.key \/ p.hash = q.hash
findByIdentity(q) ==
    {i \in IntentId : Exists(i) /\ SameIdentity(row[i].request, q)}

lineageMembers(root) == {i \in IntentId : Exists(i) /\ row[i].root = root}
IsNewest(i) == \A j \in lineageMembers(row[i].root) : row[j].attempt <= row[i].attempt

\* A retry's risk decision backs no other intent and its authorization was
\* consumed by no earlier retry.
FreshRetryAuthorization(q) ==
    \A i \in IntentId : Exists(i) =>
        /\ row[i].request.risk # q.risk
        /\ row[i].parent # NoIntent => row[i].request.auth # q.auth

-----------------------------------------------------------------------------
(* Preparing a submission: one transaction under the order and identity    *)
(* locks, backed by the unique indexes of 0029 and 0030.                   *)

\* Inserts the intent as prepared (version 1), advances it to submitting
\* (version 2) and reserves its exposure; version 2 is the barrier.
InsertIntent(i, newRow) ==
    /\ row' = [row EXCEPT ![i] = newRow]
    /\ status' = [status EXCEPT ![i] = "submitting"]
    /\ reservation' = [reservation EXCEPT ![i] = "reserved"]
    /\ barrier' = [barrier EXCEPT ![i] = 2]

prepareSubmit(q, i) ==
    /\ ~Exists(i)
    /\ findByIdentity(q) = {}
    /\ OrderAcceptsNewMutation(q.order)
    /\ InsertIntent(i, [request |-> q, order |-> q.order, attempt |-> 1,
                        parent |-> NoIntent, root |-> i])
    /\ stateVersion' = [stateVersion EXCEPT ![i] = 2]
    /\ UNCHANGED <<resolution, supersededBy, receipts, worker, resolver, wire, calls, book>>

\* A retry names no order of its own or its parent's.
RetryOrder(q, p) == IF q.order = NoOrder THEN row[p].order ELSE q.order

\* Mutant: the parent need be neither unsuperseded nor the newest attempt.
RetryAllowedSibling(q, p) ==
    /\ status[p] \in Terminal
    /\ findByIdentity(q) = {}
    /\ isRetryEligibleResolution(p)
    /\ \A j \in lineageMembers(row[p].root) : status[j] \notin Unresolved
    /\ OrderAcceptsNewMutation(RetryOrder(q, p))
    /\ FreshRetryAuthorization(q)

RetryAllowed(q, p) ==
    /\ status[p] \in Terminal
    /\ findByIdentity(q) = {}
    /\ supersededBy[p] = NoIntent
    /\ IsNewest(p)
    /\ isRetryEligibleResolution(p)
    /\ q.order # NoOrder /\ row[p].order # NoOrder => q.order = row[p].order
    /\ \A j \in lineageMembers(row[p].root) : status[j] \notin Unresolved
    /\ OrderAcceptsNewMutation(RetryOrder(q, p))
    /\ FreshRetryAuthorization(q)

prepareRetry(q, p, i) ==
    /\ ~Exists(i)
    /\ RetryAllowed(q, p)
    /\ InsertIntent(i, [request |-> q, order |-> RetryOrder(q, p),
                        attempt |-> row[p].attempt + 1,
                        parent |-> p, root |-> row[p].root])
    /\ stateVersion' = [stateVersion EXCEPT ![i] = 2, ![p] = @ + 1]
    /\ supersededBy' = [supersededBy EXCEPT ![p] = i]
    /\ UNCHANGED <<resolution, receipts, worker, resolver, wire, calls, book>>

-----------------------------------------------------------------------------
(* Moving an intent                                                        *)

\* Mutant: no trigger.
StateGuardOff(from, to) == TRUE

\* The trigger of 0029: a status may only move along these edges.
StateGuard(from, to) ==
    \/ from = to
    \/ from = "submitting" /\ to \in {"confirmed", "rejected", "uncertain", "reconciled"}
    \/ from = "uncertain" /\ to = "reconciled"

\* Mutant: an absence falls through to the last reconciled case.
ReservationAfterNoAbsent(to, res) ==
    IF to \in {"confirmed", "reconciled"} /\ res # "provider_rejected" THEN "known_completed"
    ELSE IF to = "rejected" \/ res = "provider_rejected" THEN "known_rejected"
    ELSE "uncertain"

ReservationAfter(to, res) ==
    IF to = "confirmed" \/ res = "provider_accepted" THEN "known_completed"
    ELSE IF to = "rejected" \/ res \in {"provider_rejected", "provider_absent"} THEN "known_rejected"
    ELSE "uncertain"

ReservationGuard(from, to) ==
    \/ from = to
    \/ from = "reserved"
    \/ from = "uncertain" /\ to \in {"known_completed", "known_rejected"}

\* transitionIntent's compare-and-swap on the version the caller read.
CanTransition(i, version, to, res) ==
    /\ stateVersion[i] = version
    /\ StateGuard(status[i], to)
    /\ ReservationGuard(reservation[i], ReservationAfter(to, res))

transitionIntent(i, to, res) ==
    /\ status' = [status EXCEPT ![i] = to]
    /\ stateVersion' = [stateVersion EXCEPT ![i] = @ + 1]
    /\ resolution' = [resolution EXCEPT ![i] = res]
    /\ reservation' = [reservation EXCEPT ![i] = ReservationAfter(to, res)]
    /\ UNCHANGED <<row, supersededBy>>

-----------------------------------------------------------------------------
(* executeSubmit                                                           *)

\* Mutant: the consuming write does not compare the version.
BarrierMatchesStatusOnly(i) == status[i] = "submitting"

\* A barrier value can be presented at any time and by any process.
BarrierMatches(i) == status[i] = "submitting" /\ stateVersion[i] = barrier[i]

consumeSubmitBarrier(w, i) ==
    /\ worker[w].pc = "idle"
    /\ barrier[i] # 0
    /\ BarrierMatches(i)
    /\ stateVersion' = [stateVersion EXCEPT ![i] = @ + 1]
    /\ worker' = [worker EXCEPT ![w] = [pc |-> "calling", intent |-> i, outcome |-> "uncertain"]]
    /\ UNCHANGED <<row, status, resolution, supersededBy, reservation, receipts,
                   barrier, resolver, wire, calls, book>>

callProvider(w) ==
    LET i == worker[w].intent IN
    /\ worker[w].pc = "calling"
    /\ worker' = [worker EXCEPT ![w] = [pc |-> "waiting", intent |-> i, outcome |-> "uncertain"]]
    /\ calls' = [calls EXCEPT ![i] = @ + 1]
    /\ wire' = wire \cup {i}
    /\ UNCHANGED <<ledger, receipts, barrier, resolver, book>>

\* Mutant: a missing answer counts as a rejection.
SubmitOutcomesLossRejects(i) ==
    IF book[i] \in {"accepted", "cancelled"} THEN {"accepted", "rejected"} ELSE {"rejected"}

\* The classes a status of the provider's order may have been read as: a
\* cancelled or expired order was accepted when read earlier, and belongs to
\* PROVIDER_REJECTED_STATUSES when read now.
StatusClasses(i) == {o \in {"accepted", "rejected"} : book[i] \in {o, "cancelled"}}

\* Mutant: a lost answer keeps a class of its own.
SubmitOutcomesTimeout(i) == {"timeout"} \cup StatusClasses(i)

\* The outcomes normalizeSubmitOutcome may return: a verified answer keeps its
\* class, and a lost, late, malformed or unverifiable one is uncertain.
SubmitOutcomes(i) == {"uncertain"} \cup StatusClasses(i)

receiveOutcome(w) ==
    LET i == worker[w].intent IN
    /\ worker[w].pc = "waiting"
    /\ \E o \in SubmitOutcomes(i) :
          worker' = [worker EXCEPT ![w] = [pc |-> "answered", intent |-> i, outcome |-> o]]
    /\ UNCHANGED <<ledger, receipts, barrier, resolver, wire, calls, book>>

\* The receipt is written unless the insert fails (a database error, or the
\* unique index on definitive receipts), which turns the outcome uncertain.
persistReceipt(w) ==
    LET i == worker[w].intent
        o == worker[w].outcome
    IN
    /\ worker[w].pc = "answered"
    /\ \/ /\ o = "uncertain" \/ receipts[i] \cap {"accepted", "rejected"} = {}
          /\ receipts' = [receipts EXCEPT ![i] = @ \cup {o}]
          /\ worker' = [worker EXCEPT ![w] = [pc |-> "persisted", intent |-> i, outcome |-> o]]
       \/ /\ worker' = [worker EXCEPT ![w] = [pc |-> "persisted", intent |-> i, outcome |-> "uncertain"]]
          /\ UNCHANGED receipts
    /\ UNCHANGED <<ledger, barrier, resolver, wire, calls, book>>

OutcomeStatus(o) ==
    IF o = "accepted" THEN "confirmed" ELSE IF o = "rejected" THEN "rejected" ELSE "uncertain"

\* The intent is re-read under its lock, so only the guards can refuse; a
\* refused or failed write is reported as state_commit_failed.
applyOutcome(w) ==
    LET i == worker[w].intent
        to == OutcomeStatus(worker[w].outcome)
    IN
    /\ worker[w].pc = "persisted"
    /\ \/ CanTransition(i, stateVersion[i], to, "none") /\ transitionIntent(i, to, "none")
       \/ UNCHANGED ledger
    /\ worker' = [worker EXCEPT ![w] = Idle]
    /\ UNCHANGED <<receipts, barrier, resolver, wire, calls, book>>

\* The process dies anywhere inside executeSubmit.
WorkerCrash(w) ==
    /\ worker[w].pc # "idle"
    /\ worker' = [worker EXCEPT ![w] = Idle]
    /\ UNCHANGED <<ledger, receipts, barrier, resolver, wire, calls, book>>

-----------------------------------------------------------------------------
(* Reconciliation, operator resolution and restart recovery                *)

\* requireIntent reads the row outside the transaction that will use it.
requireIntent(r, i) ==
    /\ resolver[r].intent = NoIntent
    /\ status[i] \in Unresolved
    /\ resolver' = [resolver EXCEPT ![r] = [intent |-> i, version |-> stateVersion[i]]]
    /\ UNCHANGED <<ledger, receipts, barrier, worker, wire, calls, book>>

\* Resolutions a matched, certain observation of the provider's order gives.
ObservedResolutions(i) ==
    {res \in {"provider_accepted"} : "accepted" \in StatusClasses(i)} \cup
    {res \in {"provider_rejected"} : "rejected" \in StatusClasses(i)}

ObservationStale(i) ==
    \/ \E j \in lineageMembers(row[i].root) : row[j].attempt > row[i].attempt
    \/ status[i] \in Terminal

recordReconciliationObservation(r) ==
    LET i == resolver[r].intent IN
    /\ i # NoIntent
    /\ \/ \E res \in ObservedResolutions(i) :
             /\ ~ObservationStale(i)
             /\ CanTransition(i, resolver[r].version, "reconciled", res)
             /\ transitionIntent(i, "reconciled", res)
       \/ UNCHANGED ledger  \* stale, not found, mismatched, uncertain or refused
    /\ resolver' = [resolver EXCEPT ![r] = NoSnapshot]
    /\ UNCHANGED <<receipts, barrier, worker, wire, calls, book>>

\* What an operator's documented evidence can say: the provider's own answer,
\* or an absence once no request of this intent can still reach the provider.
RequestOutstanding(i) ==
    i \in wire \/ \E w \in Worker : worker[w].pc = "calling" /\ worker[w].intent = i
OperatorEvidence(i) ==
    ObservedResolutions(i) \cup
        {res \in {"provider_absent"} : book[i] = "none" /\ ~RequestOutstanding(i)}

resolveByOperator(r) ==
    LET i == resolver[r].intent IN
    /\ i # NoIntent
    /\ \E res \in OperatorEvidence(i) :
          /\ CanTransition(i, resolver[r].version, "reconciled", res)
          /\ transitionIntent(i, "reconciled", res)
    /\ resolver' = [resolver EXCEPT ![r] = NoSnapshot]
    /\ UNCHANGED <<receipts, barrier, worker, wire, calls, book>>

\* Restart recovery re-reads each candidate under its lock.  It may meet an
\* intent whose call another process is still making.
recoverAfterRestart(i) ==
    /\ status[i] = "submitting"
    /\ CanTransition(i, stateVersion[i], "uncertain", "none")
    /\ transitionIntent(i, "uncertain", "none")
    /\ UNCHANGED <<receipts, barrier, worker, resolver, wire, calls, book>>

-----------------------------------------------------------------------------
(* The provider and the network (external)                                 *)

ProviderAnswers(i, b) ==
    /\ i \in wire
    /\ wire' = wire \ {i}
    /\ book' = [book EXCEPT ![i] = b]
    /\ UNCHANGED <<ledger, receipts, barrier, worker, resolver, calls>>

RequestLost(i) ==
    /\ i \in wire
    /\ wire' = wire \ {i}
    /\ UNCHANGED <<ledger, receipts, barrier, worker, resolver, calls, book>>

\* An accepted order is cancelled or expires at the provider.
ProviderCancels(i) ==
    /\ book[i] = "accepted"
    /\ book' = [book EXCEPT ![i] = "cancelled"]
    /\ UNCHANGED <<ledger, receipts, barrier, worker, resolver, wire, calls>>

-----------------------------------------------------------------------------
Next ==
    \/ \E q \in Request, i \in IntentId : prepareSubmit(q, i)
    \/ \E q \in Request, p, i \in IntentId : prepareRetry(q, p, i)
    \/ \E w \in Worker, i \in IntentId : consumeSubmitBarrier(w, i)
    \/ \E w \in Worker : callProvider(w)
    \/ \E w \in Worker : receiveOutcome(w)
    \/ \E w \in Worker : persistReceipt(w)
    \/ \E w \in Worker : applyOutcome(w)
    \/ \E w \in Worker : WorkerCrash(w)
    \/ \E r \in Resolver, i \in IntentId : requireIntent(r, i)
    \/ \E r \in Resolver : recordReconciliationObservation(r)
    \/ \E r \in Resolver : resolveByOperator(r)
    \/ \E i \in IntentId : recoverAfterRestart(i)
    \/ \E i \in IntentId, b \in {"accepted", "rejected"} : ProviderAnswers(i, b)
    \/ \E i \in IntentId : RequestLost(i)
    \/ \E i \in IntentId : ProviderCancels(i)

Spec == Init /\ [][Next]_vars

-----------------------------------------------------------------------------
(* Properties                                                              *)

\* The exposure of an intent is given back (its reservation is known_rejected)
\* only when the provider has no open order for it and no request of it can
\* still reach the provider: a crash, a lost answer or a late recovery never
\* releases an order that is, or may become, open.
ReleasedMeansNotWorking ==
    \A i \in IntentId : reservation[i] = "known_rejected" =>
        book[i] # "accepted" /\ ~RequestOutstanding(i)

\* Across submissions, retries, crashes and resolutions, a managed order never
\* has two orders open at the provider.
NoDoubleWorkingOrder ==
    \A i, j \in IntentId :
        /\ row[i].order = row[j].order /\ row[i].order # NoOrder
        /\ book[i] = "accepted" /\ book[j] = "accepted"
        => i = j

\* A barrier authorizes at most one provider call, whoever presents it and
\* however often: executeSubmit invokes the provider once per intent.
AtMostOneProviderCall ==
    \A i \in IntentId :
        /\ calls[i] <= 1
        /\ calls[i] = 1 => \A w \in Worker : worker[w].intent = i => worker[w].pc # "calling"

\* The reservation row always tells the same story as the intent row, so the
\* exposure counted by unresolvedMutationExposure is that of the unresolved
\* intents.
ReservationCoherent ==
    \A i \in IntentId :
        /\ reservation[i] = "none" <=> status[i] = "none"
        /\ reservation[i] = "reserved" <=> status[i] \in {"prepared", "submitting"}
        /\ reservation[i] = "uncertain" <=> status[i] = "uncertain"
        /\ reservation[i] = "known_completed" <=> isProviderAcceptedIntent(i)
        /\ reservation[i] = "known_rejected" <=> isRetryEligibleResolution(i)

\* A retry lineage is a chain: one member per attempt number, every member
\* but the newest was rejected or absent and is superseded by the next one.
LineageIsChain ==
    \A i, j \in IntentId :
        Exists(i) /\ Exists(j) /\ row[i].root = row[j].root =>
            /\ row[i].attempt = row[j].attempt => i = j
            /\ row[j].attempt > row[i].attempt =>
                  /\ isRetryEligibleResolution(i)
                  /\ supersededBy[i] # NoIntent
                  /\ row[supersededBy[i]].attempt = row[i].attempt + 1

\* A definitive answer is never forgotten or overwritten: once an intent is
\* confirmed, rejected or reconciled, a late outcome, an observation made on
\* an older read and recovery all leave its status, resolution and
\* reservation alone.
ResolvedStaysResolved ==
    [][\A i \in IntentId : status[i] \in Terminal =>
            /\ status'[i] = status[i]
            /\ resolution'[i] = resolution[i]
            /\ reservation'[i] = reservation[i]]_vars

\* contracts/src/provider-mutations.ts:344 says of the tokens that resolve an
\* intent as rejected that "the provider definitively did not accept".
RejectedMeansNeverAccepted ==
    \A i \in IntentId :
        status[i] = "rejected" \/ resolution[i] = "provider_rejected" => book[i] = "rejected"
=============================================================================
