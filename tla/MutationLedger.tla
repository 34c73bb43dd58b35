---------------------------- MODULE MutationLedger ----------------------------
(***************************************************************************)
(* The rows behind one provider mutation: what each statement of           *)
(* packages/core/src/execution/provider-mutations.ts writes, and what the  *)
(* CHECK constraints and triggers of migration 0029 let it write.          *)
(*                                                                         *)
(* ProviderMutations follows many intents and keeps only their states;     *)
(* here there is one intent with all of its columns, its reservation and   *)
(* the four append-only tables: receipts, observations, resolutions and    *)
(* events.  A provider answer is normalised field by field, as             *)
(* packages/contracts/src/provider-mutations.ts does.  A statement that a  *)
(* table refuses rolls its transaction back, and is remembered in refused. *)
(***************************************************************************)
EXTENDS Naturals, Sequences, FiniteSets

CONSTANTS
    RawAnswers,      \* what the injected provider function may do
    Observers,       \* processes that record reconciliation observations
    Operators,       \* people who resolve an intent
    Sightings,       \* reconciliation observations an observer may record
    Verdicts,        \* resolutions an operator may ask for
    MaxObservations  \* bound: rows of the observation table

VARIABLES
    intent,        \* the execution_provider_intents row, NoIntentRow before insert
    held,          \* its execution_provider_mutation_reservations row
    receiptRows, observationRows, resolutionRows, eventRows,
    exec,          \* executeSubmit in progress
    desk,          \* the row each observer and operator read before its lock
    refused        \* statements a constraint or trigger refused

ledgerVars == <<intent, held, receiptRows, observationRows, resolutionRows,
                eventRows, exec, desk, refused>>

-----------------------------------------------------------------------------
(* Vocabularies                                                            *)

PROVIDER_UNCERTAINTY_REASONS ==
    {"timeout", "connection_failure", "lost_response", "malformed_response",
     "unknown_provider_status", "identity_verification_failed",
     "receipt_persistence_failure", "state_commit_failed", "process_restart",
     "crash_before_provider_call"}
PROVIDER_TERMINAL_EVIDENCE ==
    {"provider_response_verified", "reconciliation_verified",
     "operator_resolution", "pre_exchange_reservation_proof"}
NormalizedStatuses ==
    {"requested", "validating", "submitted", "accepted", "partially_filled",
     "filled", "rejected", "cancelled", "expired", "failed", "uncertain"}
PROVIDER_ACCEPTED_STATUSES == {"requested", "placed", "accepted", "partial", "filled"}
PROVIDER_REJECTED_STATUSES == {"rejected", "cancelled", "canceled", "expired"}

PROVIDER_ORDER_STATUS_VOCABULARY ==
    [requested |-> "submitted", placed |-> "accepted", accepted |-> "accepted",
     partial |-> "partially_filled", filled |-> "filled", rejected |-> "rejected",
     cancelled |-> "cancelled", canceled |-> "cancelled", expired |-> "expired"]

PROVIDER_RESOLUTIONS == {"provider_accepted", "provider_rejected", "provider_absent"}

isProviderIntentTerminalState(s) == s \in {"confirmed", "rejected", "reconciled"}
isProviderIntentUnresolvedState(s) == s \in {"prepared", "submitting", "uncertain"}

\* What the callers' own types allow; the note is measured by nobody.
LedgerAssumption ==
    /\ Observers \cap Operators = {}
    /\ MaxObservations \in Nat
    /\ \A s \in Sightings : s.status \in NormalizedStatuses \cup {"none"}
    /\ \A v \in Verdicts : /\ v.resolution \in PROVIDER_RESOLUTIONS
                          /\ v.reference \in {"ok", "blank"} /\ v.note \in {"none", "ok", "empty"}

-----------------------------------------------------------------------------
(* Normalising what the provider function returned or threw                *)

\* A status outside the vocabulary, market_closed among them, stays unknown.
normalizeProviderOrderStatus(token) ==
    IF token \in DOMAIN PROVIDER_ORDER_STATUS_VOCABULARY
    THEN PROVIDER_ORDER_STATUS_VOCABULARY[token] ELSE "uncertain"

\* An answer names the order it is about, and contradicts nothing it repeats.
verifyProviderResponseIdentity(raw) ==
    /\ raw.client = "same"
    /\ raw.key \in {"absent", "same"}
    /\ raw.account \in {"absent", "same"}
    /\ raw.ticket \in {"absent", "ok"}

\* An unknown receipt field or a credential-shaped key rejects the whole receipt.
sanitizeProviderReceipt(raw, status) ==
    /\ ~raw.forbidden
    /\ raw.ticket \in {"absent", "ok"}
    /\ status \in NormalizedStatuses

Uncertain(reason, status) ==
    [outcome |-> "uncertain", reason |-> reason, ticket |-> "none", status |-> status]

classifyTransportFailure(code) == IF code = "timeout" THEN "timeout" ELSE "connection_failure"

\* Mutant: an accepted answer without a ticket is an acceptance.
normalizeWithoutTicket(raw) ==
    LET status == normalizeProviderOrderStatus(raw.status) IN
    CASE raw.shape = "thrown" -> Uncertain(classifyTransportFailure(raw.status), "none")
      [] raw.shape = "nothing" -> Uncertain("lost_response", "uncertain")
      [] raw.shape = "scalar" \/ raw.forbidden \/ raw.extra ->
            Uncertain("malformed_response", "uncertain")
      [] ~verifyProviderResponseIdentity(raw) -> Uncertain("identity_verification_failed", "uncertain")
      [] status = "uncertain" -> Uncertain("unknown_provider_status", "uncertain")
      [] OTHER -> [outcome |-> IF raw.status \in PROVIDER_ACCEPTED_STATUSES THEN "accepted"
                               ELSE "rejected",
                   reason |-> "none", status |-> status,
                   ticket |-> IF raw.ticket = "ok" THEN "ok" ELSE "none"]

\* The checks in the code's order; a thrown call never reached them.
normalizeSubmitOutcome(raw) ==
    LET status == normalizeProviderOrderStatus(raw.status)
        ticket == IF raw.ticket = "ok" THEN "ok" ELSE "none"
        Definite(o) == [outcome |-> o, reason |-> "none", ticket |-> ticket, status |-> status]
    IN
    CASE raw.shape = "thrown" -> Uncertain(classifyTransportFailure(raw.status), "none")
      [] raw.shape = "nothing" -> Uncertain("lost_response", "uncertain")
      [] raw.shape = "scalar" \/ raw.forbidden \/ raw.extra ->
            Uncertain("malformed_response", "uncertain")
      [] ~verifyProviderResponseIdentity(raw) -> Uncertain("identity_verification_failed", "uncertain")
      [] status = "uncertain" -> Uncertain("unknown_provider_status", "uncertain")
      [] ~sanitizeProviderReceipt(raw, status) -> Uncertain("malformed_response", "uncertain")
      [] raw.status \in PROVIDER_ACCEPTED_STATUSES ->
            IF ticket = "ok" THEN Definite("accepted")
            ELSE Uncertain("identity_verification_failed", "uncertain")
      [] raw.status \in PROVIDER_REJECTED_STATUSES -> Definite("rejected")
      [] OTHER -> Uncertain("unknown_provider_status", status)

-----------------------------------------------------------------------------
(* The tables' own rules                                                   *)

uncertainty_reason_check(x) == x = "none" \/ x \in PROVIDER_UNCERTAINTY_REASONS
terminal_evidence_check(x) == x = "none" \/ x \in PROVIDER_TERMINAL_EVIDENCE
provider_status_check(x) == x = "none" \/ x \in NormalizedStatuses

state_coherence_check(r) ==
    \/ /\ r.status \in {"prepared", "submitting"}
       /\ r.outcome = "none" /\ r.evidence = "none" /\ r.resolution = "none" /\ ~r.resolved
    \/ /\ r.status \in {"confirmed", "rejected"}
       /\ r.outcome = IF r.status = "confirmed" THEN "accepted" ELSE "rejected"
       /\ ~r.required /\ r.evidence # "none" /\ r.reason = "none" /\ r.resolved
    \/ /\ r.status = "uncertain" /\ r.outcome = "uncertain"
       /\ r.required /\ r.recState = "pending" /\ r.evidence = "none" /\ ~r.resolved
    \/ /\ r.status = "reconciled" /\ r.outcome \in {"none", "accepted", "rejected"}
       /\ r.evidence # "none" /\ r.resolution # "none" /\ r.resolved
       /\ r.recState = "resolved" /\ ~r.required

IntentRowFits(r) ==
    /\ uncertainty_reason_check(r.reason) /\ terminal_evidence_check(r.evidence)
    /\ state_coherence_check(r)

provider_intent_state_guard(from, to) ==
    from = to \/ <<from, to>> \in
        {<<"prepared", "submitting">>, <<"submitting", "confirmed">>, <<"submitting", "rejected">>,
         <<"submitting", "uncertain">>, <<"submitting", "reconciled">>, <<"uncertain", "reconciled">>}

provider_mutation_reservation_state_guard(from, to) ==
    from = to \/ <<from, to>> \in
        ({"reserved"} \X {"known_completed", "known_rejected", "uncertain"})
            \cup ({"uncertain"} \X {"known_completed", "known_rejected"})

reservations_coherence_check(r) == r.required <=> r.state = "uncertain"

receipts_outcome_coherence_check(r) ==
    \/ r.outcome = "uncertain" /\ r.evidence = "none" /\ r.reason # "none" /\ r.ticket = "none"
    \/ r.outcome = "accepted" /\ r.evidence # "none" /\ r.reason = "none" /\ r.ticket # "none"
    \/ r.outcome = "rejected" /\ r.evidence # "none" /\ r.reason = "none"
ReceiptRowFits(r) ==
    /\ uncertainty_reason_check(r.reason) /\ provider_status_check(r.status)
    /\ terminal_evidence_check(r.evidence)
    /\ receipts_outcome_coherence_check(r)
receipts_definitive_uniq(r) ==
    r.outcome = "uncertain" \/ \A other \in receiptRows : other.outcome = "uncertain"

ObservationRowFits(r) ==
    /\ provider_status_check(r.status)
    /\ r.applied => ~r.stale
    /\ r.outcome = "not_found" => r.status = "none" /\ ~r.unsure
    /\ r.outcome = "uncertain" => r.unsure /\ r.evidence = "none"
    /\ r.outcome \in {"matched", "mismatched"} => r.status # "none"

ResolutionRowFits(r) ==
    /\ r.from \in {"submitting", "uncertain"}
    /\ r.evidence \in PROVIDER_TERMINAL_EVIDENCE
    /\ r.reference \in {"ok"} /\ r.note \in {"none", "ok"}
    /\ r.evidence = "operator_resolution" => r.by # "none"

EventRowFits(r) ==
    /\ r.outcome \in {"none", "accepted", "rejected", "uncertain"}
    /\ terminal_evidence_check(r.evidence) /\ uncertainty_reason_check(r.reason)

-----------------------------------------------------------------------------
(* Writing the ledger                                                      *)

NoIntentRow ==
    [status |-> "none", outcome |-> "none", reason |-> "none", evidence |-> "none",
     resolution |-> "none", required |-> FALSE, recState |-> "not_required",
     resolved |-> FALSE, version |-> 0]
NoRun == [pc |-> "idle", barrier |-> 0, result |-> Uncertain("none", "none"),
          failure |-> "none", state |-> "none"]
NoDesk == [doing |-> "nothing", seen |-> NoIntentRow]

Event(from, to, outcome, evidence, reason) ==
    [from |-> from, to |-> to, outcome |-> outcome, evidence |-> evidence, reason |-> reason]
insertEvent(e) == EventRowFits(e) /\ eventRows' = Append(eventRows, e)

\* The reservation state that goes with a transition.
ReservationStateFor(to, outcome, resolution) ==
    IF to = "confirmed" \/ outcome = "accepted" THEN "known_completed"
    ELSE IF to = "rejected" \/ resolution \in {"provider_rejected", "provider_absent"} THEN "known_rejected"
    ELSE IF to = "reconciled" THEN "known_completed"
    ELSE "uncertain"

\* The columns transitionIntent sets from its arguments.
Columns(seen, a) ==
    [status |-> a.to, outcome |-> a.outcome, reason |-> a.reason, evidence |-> a.evidence,
     resolution |-> a.resolution, required |-> a.to = "uncertain",
     recState |-> CASE a.to = "uncertain" -> "pending" [] a.to = "reconciled" -> "resolved"
                    [] OTHER -> "not_required",
     resolved |-> isProviderIntentTerminalState(a.to), version |-> seen.version + 1]

\* Why the tables refuse the transition of a row read as seen: "none" if they do not.
Refusal(seen, a) ==
    LET now == ReservationStateFor(a.to, a.outcome, a.resolution) IN
    CASE intent.version # seen.version -> "version"
      [] ~provider_intent_state_guard(intent.status, a.to) -> "transition"
      [] ~IntentRowFits(Columns(seen, a)) -> "check"
      [] ~provider_mutation_reservation_state_guard(held.state, now) -> "transition"
      [] OTHER -> "none"

\* Mutant: the event repeats the state the ledger is moved to.
transitionForgettingFrom(seen, a) ==
    LET now == ReservationStateFor(a.to, a.outcome, a.resolution) IN
    /\ Refusal(seen, a) = "none"
    /\ intent' = Columns(seen, a)
    /\ held' = [state |-> now, required |-> now = "uncertain", version |-> held.version + 1]
    /\ insertEvent(Event(a.to, a.to, a.outcome, a.evidence, a.reason))

transitionIntent(seen, a) ==
    LET now == ReservationStateFor(a.to, a.outcome, a.resolution) IN
    /\ Refusal(seen, a) = "none"
    /\ intent' = Columns(seen, a)
    /\ held' = [state |-> now, required |-> now = "uncertain", version |-> held.version + 1]
    /\ reservations_coherence_check(held')
    /\ insertEvent(Event(seen.status, a.to, a.outcome, a.evidence, a.reason))

Refuse(what, why) == refused' = refused \cup {<<what, why>>}

-----------------------------------------------------------------------------
(* Submitting: prepareSubmit, then executeSubmit step by step              *)

\* One transaction: the row as prepared, advanced to submitting, its
\* reservation, and the first two events.
prepareSubmit ==
    LET row == [NoIntentRow EXCEPT !.status = "submitting", !.version = 2] IN
    /\ intent.status = "none"
    /\ IntentRowFits([row EXCEPT !.status = "prepared"]) /\ IntentRowFits(row)
    /\ intent' = row
    /\ held' = [state |-> "reserved", required |-> FALSE, version |-> 1]
    /\ eventRows' = <<Event("none", "prepared", "none", "none", "none"),
                      Event("prepared", "submitting", "none", "none", "none")>>
    /\ exec' = [exec EXCEPT !.pc = "authorized", !.barrier = row.version]
    /\ UNCHANGED <<receiptRows, observationRows, resolutionRows, desk, refused>>

\* Zero rows make the barrier useless, and the provider is never called.
consumeSubmitBarrier ==
    /\ exec.pc = "authorized"
    /\ \/ /\ intent.status = "submitting" /\ intent.version = exec.barrier
          /\ intent' = [intent EXCEPT !.version = @ + 1]
          /\ insertEvent(Event("submitting", "submitting", "none", "none", "none"))
          /\ exec' = [exec EXCEPT !.pc = "calling"]
       \/ /\ ~(intent.status = "submitting" /\ intent.version = exec.barrier)
          /\ exec' = [exec EXCEPT !.pc = "refused"]
          /\ UNCHANGED <<intent, eventRows>>
    /\ UNCHANGED <<held, receiptRows, observationRows, resolutionRows, desk, refused>>

callProvider ==
    /\ exec.pc = "calling"
    /\ \E raw \in RawAnswers :
          exec' = [exec EXCEPT !.pc = "answered", !.result = normalizeSubmitOutcome(raw)]
    /\ UNCHANGED <<intent, held, receiptRows, observationRows, resolutionRows, eventRows,
                   desk, refused>>

\* A failed insert, whatever its cause, makes the outcome uncertain.
persistReceipt ==
    LET o == exec.result
        r == [outcome |-> o.outcome, reason |-> o.reason, ticket |-> o.ticket,
              status |-> o.status,
              evidence |-> IF o.outcome = "uncertain" THEN "none"
                           ELSE "provider_response_verified"]
        fits == ReceiptRowFits(r) /\ receipts_definitive_uniq(r)
        failed == [exec EXCEPT !.pc = "persisted", !.failure = "receipt_persistence_failure",
                          !.result = Uncertain("receipt_persistence_failure", "none")]
    IN
    /\ exec.pc = "answered"
    /\ \/ /\ fits
          /\ receiptRows' = receiptRows \cup {r}
          /\ exec' = [exec EXCEPT !.pc = "persisted"]
          /\ UNCHANGED refused
       \/ /\ ~fits
          /\ Refuse("receipt", "check")
          /\ exec' = failed
          /\ UNCHANGED receiptRows
       \/ /\ fits                                  \* a database error
          /\ exec' = failed
          /\ UNCHANGED <<receiptRows, refused>>
    /\ UNCHANGED <<intent, held, observationRows, resolutionRows, eventRows, desk>>

\* The row is read again under the intent's lock; a refusal or a database
\* error leaves it as it is, and the caller is told the state it has.
applyOutcome ==
    LET o == exec.result
        a == [to |-> CASE o.outcome = "accepted" -> "confirmed"
                       [] o.outcome = "rejected" -> "rejected" [] OTHER -> "uncertain",
              outcome |-> o.outcome, resolution |-> "none",
              evidence |-> IF o.outcome = "uncertain" THEN "none"
                           ELSE "provider_response_verified",
              reason |-> o.reason]
    IN
    /\ exec.pc = "persisted"
    /\ \/ /\ transitionIntent(intent, a)
          /\ exec' = [exec EXCEPT !.pc = "done", !.state = a.to]
          /\ UNCHANGED refused
       \/ /\ exec' = [exec EXCEPT !.pc = "done", !.state = intent.status,
                                  !.failure = "state_commit_failed"]
          /\ IF Refusal(intent, a) = "none" THEN UNCHANGED refused   \* a database error
             ELSE Refuse("outcome", Refusal(intent, a))
          /\ UNCHANGED <<intent, held, eventRows>>
    /\ UNCHANGED <<receiptRows, observationRows, resolutionRows, desk>>

\* The process dies with the barrier, or with the provider's answer.
crashSubmit ==
    /\ exec.pc \in {"authorized", "calling", "answered", "persisted"}
    /\ exec' = [exec EXCEPT !.pc = "crashed"]
    /\ UNCHANGED <<intent, held, receiptRows, observationRows, resolutionRows, eventRows,
                   desk, refused>>

recoverAfterRestart ==
    /\ intent.status = "submitting"
    /\ transitionIntent(intent, [to |-> "uncertain", outcome |-> "uncertain",
                                 resolution |-> "none", evidence |-> "none",
                                 reason |-> "process_restart"])
    /\ UNCHANGED <<receiptRows, observationRows, resolutionRows, exec, desk, refused>>

SubmitNext ==
    \/ prepareSubmit \/ consumeSubmitBarrier \/ callProvider \/ persistReceipt
    \/ applyOutcome \/ crashSubmit \/ recoverAfterRestart

-----------------------------------------------------------------------------
(* Reconciliation and operators                                            *)

\* Both read the row before they take the intent's lock; an operator is
\* turned away from a resolved one.
requireIntent(p, doing) ==
    /\ desk[p].doing = "nothing"
    /\ intent.status # "none"
    /\ doing = "resolving" => ~isProviderIntentTerminalState(intent.status)
    /\ desk' = [desk EXCEPT ![p] = [doing |-> doing, seen |-> intent]]
    /\ UNCHANGED <<intent, held, receiptRows, observationRows, resolutionRows, eventRows,
                   exec, refused>>

validateObservation(s) ==
    /\ s.outcome = "not_found" => s.status = "none" /\ ~s.unsure
    /\ s.outcome = "uncertain" => s.unsure
    /\ s.outcome \in {"matched", "mismatched"} => s.status # "none"

\* A certain match in a status of either list; the lists hold the provider's
\* own tokens, the observation a normalised status.
WillApply(seen, s) ==
    /\ ~isProviderIntentTerminalState(seen.status)
    /\ s.outcome = "matched" /\ ~s.unsure /\ s.status # "none"
    /\ s.status \in PROVIDER_ACCEPTED_STATUSES \cup PROVIDER_REJECTED_STATUSES

\* The row as provider_reconciliation_observation_staleness_guard leaves it.
StoredObservation(seen, s) ==
    LET stale == isProviderIntentTerminalState(intent.status) IN
    [outcome |-> s.outcome, status |-> s.status, unsure |-> s.unsure, stale |-> stale,
     applied |-> WillApply(seen, s) /\ ~stale,
     evidence |-> IF WillApply(seen, s) THEN "reconciliation_verified" ELSE "none"]

Resolution(seen, a, by, reference, note) ==
    [resolution |-> a.resolution, evidence |-> a.evidence, by |-> by,
     reference |-> reference, note |-> note, from |-> seen.status]

recordReconciliationObservation(p) ==
    /\ desk[p].doing = "observing"
    /\ desk' = [desk EXCEPT ![p] = NoDesk]
    /\ \E s \in {x \in Sightings : validateObservation(x)} :
         LET seen == desk[p].seen
             o == StoredObservation(seen, s)
             accepted == s.status \in PROVIDER_ACCEPTED_STATUSES
             a == [to |-> "reconciled", outcome |-> IF accepted THEN "accepted" ELSE "rejected",
                   resolution |-> IF accepted THEN "provider_accepted" ELSE "provider_rejected",
                   evidence |-> "reconciliation_verified", reason |-> "none"]
             r == Resolution(seen, a, "none", "ok", "none")
         IN
         /\ Cardinality(observationRows \cup {o}) <= MaxObservations
         /\ \/ /\ ObservationRowFits(o) /\ ~o.applied
               /\ observationRows' = observationRows \cup {o}
               /\ UNCHANGED <<intent, held, eventRows, resolutionRows, refused>>
            \/ /\ ObservationRowFits(o) /\ o.applied
               /\ transitionIntent(seen, a) /\ ResolutionRowFits(r)
               /\ observationRows' = observationRows \cup {o}
               /\ resolutionRows' = resolutionRows \cup {r}
               /\ UNCHANGED refused
            \/ /\ \/ ~ObservationRowFits(o)
                  \/ o.applied /\ (Refusal(seen, a) # "none" \/ ~ResolutionRowFits(r))
               /\ Refuse("observation", IF o.applied THEN Refusal(seen, a) ELSE "check")
               /\ UNCHANGED <<intent, held, eventRows, observationRows, resolutionRows>>
    /\ UNCHANGED <<receiptRows, exec>>

\* An actor, a documented reference and, for an operator's own word, a name.
VerdictAllowed(v) ==
    /\ v.reference # "blank"
    /\ v.evidence = "operator_resolution" => v.by # "none"
    /\ v.evidence \in PROVIDER_TERMINAL_EVIDENCE

resolveByOperator(p) ==
    /\ desk[p].doing = "resolving"
    /\ desk' = [desk EXCEPT ![p] = NoDesk]
    /\ \E v \in {x \in Verdicts : VerdictAllowed(x)} :
         LET seen == desk[p].seen
             a == [to |-> "reconciled", resolution |-> v.resolution, evidence |-> v.evidence,
                   outcome |-> CASE v.resolution = "provider_accepted" -> "accepted"
                                 [] v.resolution = "provider_rejected" -> "rejected"
                                 [] OTHER -> "none",
                   reason |-> "none"]
             r == Resolution(seen, a, IF v.evidence = "operator_resolution" THEN v.by ELSE "none",
                             v.reference, v.note)
         IN
         \/ /\ transitionIntent(seen, a) /\ ResolutionRowFits(r)
            /\ resolutionRows' = resolutionRows \cup {r}
            /\ UNCHANGED refused
         \/ /\ Refusal(seen, a) # "none" \/ ~ResolutionRowFits(r)
            /\ Refuse("resolution", IF Refusal(seen, a) # "none" THEN Refusal(seen, a) ELSE v.note)
            /\ UNCHANGED <<intent, held, eventRows, resolutionRows>>
    /\ UNCHANGED <<receiptRows, observationRows, exec>>

ResolveNext ==
    \/ \E p \in Observers : requireIntent(p, "observing") \/ recordReconciliationObservation(p)
    \/ \E p \in Operators : requireIntent(p, "resolving") \/ resolveByOperator(p)

LedgerInit ==
    /\ intent = NoIntentRow
    /\ held = [state |-> "none", required |-> FALSE, version |-> 0]
    /\ receiptRows = {} /\ observationRows = {} /\ resolutionRows = {}
    /\ eventRows = <<>>
    /\ exec = NoRun
    /\ desk = [p \in Observers \cup Operators |-> NoDesk]
    /\ refused = {}

LedgerNext == SubmitNext \/ ResolveNext

LedgerSpec == LedgerInit /\ [][LedgerNext]_ledgerVars

-----------------------------------------------------------------------------
(* Properties                                                              *)

\* Rows hold values of their tables' vocabularies.
LedgerTypeOK ==
    /\ intent.status = "none" \/ IntentRowFits(intent)
    /\ intent.version \in Nat /\ held.version \in Nat
    /\ \A r \in receiptRows : ReceiptRowFits(r)
    /\ \A r \in observationRows : ObservationRowFits(r)
    /\ \A r \in resolutionRows : ResolutionRowFits(r)
    /\ exec.pc \in {"idle", "authorized", "calling", "answered", "persisted", "done",
                    "refused", "crashed"}

\* No column the code computes is refused by a CHECK of migration 0029: a
\* statement fails only because another actor moved the row first, or because
\* an operator's free-text note does not fit (the code does not measure it).
WritesFitTheTables ==
    \A x \in refused :
        \/ x[1] \in {"outcome", "observation", "resolution"} /\ x[2] \in {"version", "transition"}
        \/ x = <<"resolution", "empty">>

\* The five tables tell one story: the events form a chain that ends in the
\* intent's status; a reconciled intent, and no other, has exactly one
\* resolution, which it repeats; a confirmed or rejected intent has the one
\* definitive receipt of that outcome; the reservation follows the outcome;
\* an applied observation is the evidence of the resolution.
RowsAgree ==
    /\ \A k \in 1..Len(eventRows) - 1 : eventRows[k].to = eventRows[k + 1].from
    /\ eventRows # <<>> => eventRows[Len(eventRows)].to = intent.status
    /\ Cardinality(resolutionRows) = IF intent.status = "reconciled" THEN 1 ELSE 0
    /\ \A r \in resolutionRows : r.resolution = intent.resolution /\ r.evidence = intent.evidence
    /\ intent.status \in {"confirmed", "rejected"} =>
           {r.outcome : r \in {x \in receiptRows : x.outcome # "uncertain"}} = {intent.outcome}
    /\ held.state = CASE intent.status = "none" -> "none"
                      [] intent.status = "submitting" -> "reserved"
                      [] intent.status = "uncertain" -> "uncertain"
                      [] intent.outcome = "accepted" -> "known_completed"
                      [] OTHER -> "known_rejected"
    /\ \A o \in observationRows : o.applied => intent.evidence = "reconciliation_verified"

\* What executeSubmit tells its caller is on record: a definite outcome has a
\* receipt, an outcome applied without failure is the row's own, and a caller
\* told that no reconciliation is needed reads a row that is resolved.
ResultIsOnRecord ==
    exec.pc = "done" =>
        /\ exec.result.outcome # "uncertain" =>
              \E r \in receiptRows : r.outcome = exec.result.outcome
        /\ exec.failure = "none" /\ exec.state # "uncertain" => intent.outcome = exec.result.outcome
        /\ ~isProviderIntentUnresolvedState(exec.state) =>
              isProviderIntentTerminalState(intent.status)

\* The provider-mutation tables never contradict each other, whatever the
\* provider answers and whoever resolves the intent first.
LedgerTellsOneStory == LedgerTypeOK /\ WritesFitTheTables /\ RowsAgree /\ ResultIsOnRecord
=============================================================================
