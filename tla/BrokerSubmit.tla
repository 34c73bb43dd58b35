----------------------------- MODULE BrokerSubmit -----------------------------
(***************************************************************************)
(* The broker path of an execution, from the composition to the wire       *)
(* (packages/core/src/execution: composition.ts, composition-fence.ts,     *)
(* authorization.ts, submit-boundary.ts, mt5.ts, provider-mutations.ts),   *)
(* for one order identity: the (user, profile, setup, action) from which   *)
(* the client order id and the idempotency key are derived.  Several calls *)
(* race for it in one process; the process may crash and forget its        *)
(* authorizations and barriers, authorizations and risk reservations       *)
(* expire, and the request may reach the broker after its caller gave up.  *)
(* resolveBrokerAccountAuthorization grants no broker account today, so    *)
(* the gates in front of this path are left open: Gates says whether a     *)
(* call passes them.                                                       *)
(***************************************************************************)
EXTENDS Naturals, FiniteSets

CONSTANTS
    Clients,        \* calls of composeAndSubmit for the identity
    MaxCrashes,     \* bound on crashes of the process
    MaxExpiries     \* bound on expiries of authorizations and reservations

ASSUME BrokerAssumption == MaxCrashes \in Nat /\ MaxExpiries \in Nat

VARIABLES
    call,       \* each call: where it stands, and the provider's outcome it holds
    answer,     \* what each call last returned
    intent,     \* the intent row of the identity: status, whose call inserted it, barrier consumed, ticket
    cover,      \* risk_reservations active, by call
    auths,      \* the authorization service's map
    memory,     \* armed contexts, presented barriers, barriers the provider has seen
    broker,     \* the order at the broker, the requests on the wire, how often each call asked
    budget      \* crashes and expiries left

brokerVars == <<call, answer, intent, cover, auths, memory, broker, budget>>

NoIntentRow == [status |-> "none", by |-> {}, consumed |-> FALSE, ticket |-> FALSE]
Forgotten == [armed |-> {}, presented |-> {}, seen |-> {}]

BrokerTypeOK ==
    /\ \A c \in Clients :
         /\ call[c].pc \in {"idle", "evaluate", "gates", "request", "authorize", "fence", "handoff", "prepare",
                            "consume", "provider", "lookup", "wire", "receipt", "apply", "finish"}
         /\ call[c].outcome \in {"none", "accepted", "rejected", "uncertain", "duplicate", "refused"}
         /\ answer[c] \in {"nothing", "accepted", "rejected", "refused", "unknown"}
    /\ intent.status \in {"none", "submitting", "confirmed", "rejected", "uncertain", "reconciled"}
    /\ intent.by \subseteq Clients /\ cover \subseteq Clients /\ auths \subseteq Clients
    /\ broker.order \in {"none", "open", "refused"} /\ broker.wire \subseteq Clients

BrokerInit ==
    /\ call = [c \in Clients |-> [pc |-> "idle", outcome |-> "none"]]
    /\ answer = [c \in Clients |-> "nothing"]
    /\ intent = NoIntentRow
    /\ cover = {} /\ auths = {}
    /\ memory = Forgotten
    /\ broker = [order |-> "none", wire |-> {}, asked |-> [c \in Clients |-> 0]]
    /\ budget = [crashes |-> MaxCrashes, expiries |-> MaxExpiries]

GoTo(c, pc) == call' = [call EXCEPT ![c].pc = pc]
Hold(c, pc, outcome) == call' = [call EXCEPT ![c] = [pc |-> pc, outcome |-> outcome]]

\* A call returns: its authorization is revoked and its reservation released.
Return(c, what) ==
    /\ call' = [call EXCEPT ![c] = [pc |-> "idle", outcome |-> "none"]]
    /\ answer' = [answer EXCEPT ![c] = what]
    /\ auths' = auths \ {c} /\ cover' = cover \ {c}

-----------------------------------------------------------------------------
(* composeAndSubmit.                                                       *)

\* What a stored intent tells a caller that finds it.
replayBrokerIntent ==
    CASE intent.status = "rejected" -> "rejected"
      [] intent.status = "confirmed" /\ intent.ticket -> "accepted"
      [] OTHER -> "unknown"

checkReplay(c) ==
    /\ call[c].pc = "idle"
    /\ IF intent.status # "none"
       THEN answer' = [answer EXCEPT ![c] = replayBrokerIntent] /\ UNCHANGED call
       ELSE GoTo(c, "evaluate") /\ answer' = [answer EXCEPT ![c] = "nothing"]
    /\ UNCHANGED <<intent, cover, auths, memory, broker, budget>>

\* The risk evaluation reserves when it approves.
evaluateRisk(c, approved) ==
    /\ call[c].pc = "evaluate"
    /\ cover' = IF approved THEN cover \cup {c} ELSE cover
    /\ GoTo(c, "gates")
    /\ UNCHANGED <<answer, intent, auths, memory, broker, budget>>

\* evaluateExecutionGates; a query that fails before them releases nothing.
composeGates(c, passed) ==
    /\ call[c].pc = "gates"
    /\ IF passed /\ c \in cover
       THEN GoTo(c, "request") /\ UNCHANGED <<answer, cover, auths>>
       ELSE Return(c, "refused")
    /\ UNCHANGED <<intent, memory, broker, budget>>

composeFails(c) ==
    /\ call[c].pc = "gates"
    /\ GoTo(c, "idle")
    /\ UNCHANGED <<answer, intent, cover, auths, memory, broker, budget>>

\* The execution_requests row is inserted or, after a conflict, the one
\* there is taken over; a failure of either releases and throws.
resolveRequestRowOrFail(c, ok) ==
    /\ call[c].pc = "request"
    /\ IF ok THEN GoTo(c, "authorize") /\ UNCHANGED <<answer, cover, auths>> ELSE Return(c, "refused")
    /\ UNCHANGED <<intent, memory, broker, budget>>

createAuthorization(c) ==
    /\ call[c].pc = "authorize"
    /\ auths' = auths \cup {c} /\ GoTo(c, "fence")
    /\ UNCHANGED <<answer, intent, cover, memory, broker, budget>>

\* runFinalSafetyFence: profile, automation and stops (ok), then the
\* authorization and the reservation.
brokerFence(c, ok) ==
    /\ call[c].pc = "fence"
    /\ IF ok /\ c \in auths /\ c \in cover
       THEN GoTo(c, "handoff") /\ UNCHANGED <<answer, cover, auths>>
       ELSE Return(c, "refused")
    /\ UNCHANGED <<intent, memory, broker, budget>>

\* toGate9RiskHandoff and arm; a lapsed reservation or a provider that is
\* not registered ends the call.
toGate9RiskHandoff(c, registered) ==
    /\ call[c].pc = "handoff"
    /\ IF registered /\ c \in cover
       THEN /\ memory' = [memory EXCEPT !.armed = @ \cup {c}]
            /\ GoTo(c, "prepare") /\ UNCHANGED <<answer, cover, auths>>
       ELSE Return(c, "refused") /\ UNCHANGED memory
    /\ UNCHANGED <<intent, broker, budget>>

-----------------------------------------------------------------------------
(* submitOrderThroughGate9 and the ledger.                                 *)

\* Mutant: an intent that is still submitting makes no duplicate.
findSettledOnly == intent.status \notin {"none", "submitting"}

\* findByIdentityIn: client order id, idempotency key or request hash.
findIntent == intent.status # "none"

\* bound: verifyProviderBinding; ok: the transaction commits.  A stored
\* intent with the identity makes the call a duplicate.
prepareIntent(c, bound, ok) ==
    /\ call[c].pc = "prepare"
    /\ IF ~bound \/ ~ok THEN Hold(c, "finish", "refused") /\ UNCHANGED intent
       ELSE IF findIntent THEN Hold(c, "finish", "duplicate") /\ UNCHANGED intent
       ELSE /\ intent' = [status |-> "submitting", by |-> {c}, consumed |-> FALSE, ticket |-> FALSE]
            /\ GoTo(c, "consume")
    /\ UNCHANGED <<answer, cover, auths, memory, broker, budget>>

\* consumeSubmitBarrier, then the handoff gets the barrier.
consumeBarrier(c, ok) ==
    /\ call[c].pc = "consume"
    /\ IF ok /\ intent.status = "submitting" /\ ~intent.consumed
       THEN /\ intent' = [intent EXCEPT !.consumed = TRUE]
            /\ memory' = [memory EXCEPT !.presented = @ \cup {c}]
            /\ GoTo(c, "provider")
       ELSE Hold(c, "finish", "refused") /\ UNCHANGED <<intent, memory>>
    /\ UNCHANGED <<answer, cover, auths, broker, budget>>

\* consumeAuthorization of the handoff: a presented barrier is given out once.
takeBarrier(c, m) == [m EXCEPT !.presented = @ \ {c}]

\* submitOrder of the MT5 provider up to its first await of the transport:
\* the barrier is taken once, then the armed authorization.
presentBarrier(c) ==
    /\ call[c].pc = "provider"
    /\ LET given == c \in memory.presented
           permitted == given /\ c \notin memory.seen
           kept == takeBarrier(c, memory) IN
       /\ memory' = [kept EXCEPT !.armed = IF permitted THEN @ \ {c} ELSE @,
                                !.seen = IF given THEN @ \cup {c} ELSE @]
       /\ IF permitted /\ c \in memory.armed /\ c \in auths
          THEN GoTo(c, "lookup") /\ auths' = auths \ {c}
          ELSE Hold(c, "receipt", "uncertain") /\ UNCHANGED auths
    /\ UNCHANGED <<answer, intent, cover, broker, budget>>

\* Readiness, instrument, volume, protection and quote (ok), then the
\* broker's own record of the client order id; only then the request leaves.
submitOrder(c, ok) ==
    /\ call[c].pc = "lookup"
    /\ IF ~ok THEN Hold(c, "receipt", "uncertain") /\ UNCHANGED broker
       ELSE IF broker.order # "none"
       THEN Hold(c, "receipt", IF broker.order = "open" THEN "accepted" ELSE "rejected") /\ UNCHANGED broker
       ELSE broker' = [broker EXCEPT !.wire = @ \cup {c}, !.asked[c] = @ + 1] /\ GoTo(c, "wire")
    /\ UNCHANGED <<answer, intent, cover, auths, memory, budget>>

\* The broker takes or refuses a request; a request may also get lost.
brokerDecides(c, decision) ==
    /\ c \in broker.wire
    /\ broker' = [broker EXCEPT !.wire = @ \ {c}, !.order = IF @ = "none" THEN decision ELSE @]
    /\ UNCHANGED <<call, answer, intent, cover, auths, memory, budget>>

\* The answer arrives, or the exchange fails, times out or has an unknown
\* status: any throw is uncertain.
receiveAnswer(c, ok) ==
    /\ call[c].pc = "wire"
    /\ IF ok THEN /\ c \notin broker.wire /\ broker.order # "none"
                  /\ Hold(c, "receipt", IF broker.order = "open" THEN "accepted" ELSE "rejected")
             ELSE Hold(c, "receipt", "uncertain")
    /\ UNCHANGED <<answer, intent, cover, auths, memory, broker, budget>>

\* persistReceipt: without a receipt the outcome is uncertain.
storeReceipt(c, ok) ==
    /\ call[c].pc = "receipt"
    /\ Hold(c, "apply", IF ok THEN call[c].outcome ELSE "uncertain")
    /\ intent' = IF ok /\ call[c].outcome = "accepted" THEN [intent EXCEPT !.ticket = TRUE] ELSE intent
    /\ UNCHANGED <<answer, cover, auths, memory, broker, budget>>

SettledStatus(outcome) ==
    CASE outcome = "accepted" -> "confirmed" [] outcome = "rejected" -> "rejected" [] OTHER -> "uncertain"

\* Mutant: an outcome that is not an acceptance rejects the intent.
applyAsRejected(c, ok) ==
    /\ call[c].pc = "apply"
    /\ intent' = IF ok /\ intent.status = "submitting"
                 THEN [intent EXCEPT !.status = IF call[c].outcome = "accepted" THEN "confirmed" ELSE "rejected"]
                 ELSE intent
    /\ GoTo(c, "finish")
    /\ UNCHANGED <<answer, cover, auths, memory, broker, budget>>

\* applyOutcome moves an intent that is still submitting; a failure leaves it.
applySubmitOutcome(c, ok) ==
    /\ call[c].pc = "apply"
    /\ intent' = IF ok /\ intent.status = "submitting"
                 THEN [intent EXCEPT !.status = SettledStatus(call[c].outcome)]
                 ELSE intent
    /\ GoTo(c, "finish")
    /\ UNCHANGED <<answer, cover, auths, memory, broker, budget>>

\* A duplicate tells only what is durable: a rejection, or an acceptance with
\* the ticket of its receipt.
projectDuplicate ==
    IF intent.status = "rejected" THEN "rejected"
    ELSE IF intent.status = "confirmed" /\ intent.ticket THEN "accepted" ELSE "duplicate_unresolved"

\* The call's own result; an acceptance without a ticket is not one.
projectSubmitted(c) ==
    IF call[c].outcome = "rejected" THEN "rejected"
    ELSE IF call[c].outcome = "accepted" /\ intent.ticket THEN "accepted" ELSE "provider_uncertain"

\* What the call reports.
mapBrokerSubmitOutcome(c) ==
    LET result == CASE call[c].outcome = "refused" -> "refused"
                    [] call[c].outcome = "duplicate" -> projectDuplicate
                    [] OTHER -> projectSubmitted(c)
    IN  IF result \in {"duplicate_unresolved", "provider_uncertain"} THEN "unknown" ELSE result

finishSubmit(c) ==
    /\ call[c].pc = "finish"
    /\ Return(c, mapBrokerSubmitOutcome(c))
    /\ memory' = [memory EXCEPT !.armed = @ \ {c}]
    /\ UNCHANGED <<intent, broker, budget>>

-----------------------------------------------------------------------------
(* Time, crashes and reconciliation.                                       *)

expire(c) ==
    /\ budget.expiries > 0 /\ budget' = [budget EXCEPT !.expiries = @ - 1]
    /\ \/ c \in auths /\ auths' = auths \ {c} /\ UNCHANGED cover
       \/ c \in cover /\ cover' = cover \ {c} /\ UNCHANGED auths
    /\ UNCHANGED <<call, answer, intent, memory, broker>>

\* The process dies: what it kept in memory is gone, its calls end unanswered.
processCrash ==
    /\ budget.crashes > 0 /\ budget' = [budget EXCEPT !.crashes = @ - 1]
    /\ call' = [c \in Clients |-> [pc |-> "idle", outcome |-> "none"]]
    /\ answer' = [c \in Clients |-> IF call[c].pc = "idle" THEN answer[c] ELSE "nothing"]
    /\ auths' = {} /\ memory' = Forgotten
    /\ UNCHANGED <<intent, cover, broker>>

\* Restart recovery marks an interrupted submission uncertain.
recoverIntent ==
    /\ intent.status = "submitting" /\ \A c \in intent.by : call[c].pc = "idle"
    /\ intent' = [intent EXCEPT !.status = "uncertain"]
    /\ UNCHANGED <<call, answer, cover, auths, memory, broker, budget>>

\* A verified observation, once the request is no longer on the wire.
reconcileIntent ==
    /\ intent.status = "uncertain" /\ broker.wire = {}
    /\ intent' = [intent EXCEPT !.status = "reconciled"]
    /\ UNCHANGED <<call, answer, cover, auths, memory, broker, budget>>

-----------------------------------------------------------------------------
ClientStep(c, ok) ==
    \/ evaluateRisk(c, ok) \/ composeGates(c, ok) \/ resolveRequestRowOrFail(c, ok)
    \/ brokerFence(c, ok) \/ toGate9RiskHandoff(c, ok) \/ consumeBarrier(c, ok) \/ submitOrder(c, ok)
    \/ receiveAnswer(c, ok) \/ storeReceipt(c, ok) \/ applySubmitOutcome(c, ok)
    \/ \E bound \in BOOLEAN : prepareIntent(c, bound, ok)

BrokerNext ==
    \/ processCrash \/ recoverIntent \/ reconcileIntent
    \/ \E c \in Clients :
         \/ checkReplay(c) \/ composeFails(c) \/ createAuthorization(c) \/ presentBarrier(c) \/ finishSubmit(c)
         \/ expire(c)
         \/ \E ok \in BOOLEAN : ClientStep(c, ok)
         \/ \E d \in {"none", "open", "refused"} : brokerDecides(c, d)

BrokerSpec == BrokerInit /\ [][BrokerNext]_brokerVars

-----------------------------------------------------------------------------
(* Properties.                                                             *)

\* The broker path implements the promise of SubmitOnce: however calls race,
\* crash, expire and retry, the broker is asked at most once for the
\* identity, and no call reports an acceptance, a rejection or a refusal
\* that is not so.
Promise == INSTANCE SubmitOnce WITH asked <- broker.asked, order <- broker.order, told <- answer
ImplementsSubmitOnce == Promise!OnceSpec

\* An order open at the broker, or a request that can still become one, is on
\* record: its intent exists, its barrier was spent, and no call has turned
\* it into a rejection.
OrderIsOnRecord ==
    broker.order = "open" \/ broker.wire # {} =>
        intent.consumed /\ intent.status \notin {"none", "rejected"}
===============================================================================
