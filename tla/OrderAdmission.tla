---------------------------- MODULE OrderAdmission ----------------------------
(***************************************************************************)
(* What an order must satisfy before it may leave: the ordered execution   *)
(* gates (packages/core/src/execution/gates.ts), the paper simulation      *)
(* gates (paper-gates.ts), the preflight of the bridge to the broker       *)
(* (packages/contracts/src/mt5-bridge-protocol.ts), and the intake that    *)
(* records a decision under its idempotency key (intake.ts), with two      *)
(* callers of the same key.  The decision comes from the caller; levels    *)
(* are integers and ratios are compared by multiplication.                 *)
(***************************************************************************)
EXTENDS Integers, Sequences, FiniteSets, FiniteSetsExt

CONSTANTS
    Prices,         \* price levels, 0 for one that is not positive
    MinRr,          \* effectiveMinRr, at least the platform's
    Sizes,          \* quantities and volumes
    IntakeCallers,  \* calls of submitExecutionDecision for one key
    Submitted       \* decisions those calls bring

AdmissionAssumption ==
    /\ Prices \subseteq Nat /\ MinRr \in Nat /\ Sizes \subseteq Nat
    /\ Submitted # {} /\ Submitted \subseteq [direction : {"long", "short"}, entry : Prices, stop : Prices,
                                               target : Prices, rr : {0, MinRr, MinRr + 1}]

VARIABLES
    probe,      \* an input of the checks below, chosen once
    intake,     \* per call: where it stands, its decision, its gate result, its answer
    stored,     \* the execution_requests row of the key
    held        \* active risk reservations, by call

admissionVars == <<probe, intake, stored, held>>

Decisions == [direction : {"long", "short"}, entry : Prices, stop : Prices, target : Prices, rr : {0, MinRr, MinRr + 1}]
Gap(a, b) == IF a > b THEN a - b ELSE b - a

-----------------------------------------------------------------------------
(* Gates.                                                                  *)

Protects(d, at) == IF d.direction = "long" THEN d.stop < at ELSE d.stop > at
Rewards(d, at) == IF d.direction = "long" THEN d.target > at ELSE d.target < at

\* The ratio the decision claims must be enough, and the levels must give it.
acceptableRr(d) ==
    /\ d.rr >= MinRr
    /\ IF d.entry = d.stop THEN d.rr = 0 ELSE Gap(d.target, d.entry) >= d.rr * Gap(d.entry, d.stop)

EXECUTION_GATE_IDS ==
    <<"entitlement", "automation_on", "profile_enabled", "kill_switch", "valid_signal", "risk_decision",
      "valid_order_params", "valid_stop_loss", "valid_take_profit", "acceptable_rr", "exposure_limits",
      "provider_healthy", "environment_safety", "broker_authorized">>

\* shut: the gates about the account and the platform that do not hold.
GateHolds(gate, d, shut) ==
    CASE gate = "valid_order_params" -> d.entry > 0 /\ d.stop > 0 /\ d.target > 0
      [] gate = "valid_stop_loss" -> Protects(d, d.entry)
      [] gate = "valid_take_profit" -> Rewards(d, d.entry)
      [] gate = "acceptable_rr" -> acceptableRr(d)
      [] OTHER -> gate \notin shut

\* The first gate that fails, in order, or "passed".
evaluateExecutionGates(d, shut) ==
    LET failing == {k \in DOMAIN EXECUTION_GATE_IDS : ~GateHolds(EXECUTION_GATE_IDS[k], d, shut)} IN
    IF failing = {} THEN "passed" ELSE EXECUTION_GATE_IDS[Min(failing)]

\* Reward and risk at the price the paper fill would get.
fillRr(d, fill) == fill # d.stop /\ Gap(d.target, fill) >= MinRr * Gap(fill, d.stop)

\* floorToStep of the paper gates: a multiple of the step.
OnQuantityStep(size, spec) == size % spec.step = 0

evaluatePaperSimulationGates(d, fill, size, spec) ==
    /\ size > 0 /\ size >= spec.min /\ size <= spec.max /\ OnQuantityStep(size, spec)
    /\ d.entry > 0 /\ d.stop > 0 /\ d.target > 0 /\ fill > 0
    /\ Protects(d, fill) /\ Rewards(d, fill) /\ fillRr(d, fill)

-----------------------------------------------------------------------------
(* The bridge to the broker.                                               *)

Conditions == {"configured", "authenticated", "connected", "available", "healthy"}

READINESS_PROFILES ==
    [providerHealth |-> Conditions,
     transportHealth |-> {"configured", "authenticated", "connected", "healthy"},
     reconciliationHealth |-> {"available", "healthy"}]

READINESS_DEPENDENCIES ==
    [configured |-> {}, authenticated |-> {"configured"}, connected |-> {"configured", "authenticated"},
     available |-> {"configured", "authenticated", "connected"}, healthy |-> {"configured", "available"}]

\* Mutant: only what is required is looked at.
readyWithoutDependencies(health, required) ==
    /\ health.state # "uncertain"
    /\ \A c \in required : health[c] = "true"

\* Each required flag is explicitly true, and no flag it depends on is
\* explicitly false; an absent one is tolerated.
resolveBridgeReadiness(health, required) ==
    /\ health.state # "uncertain"
    /\ \A c \in required : health[c] = "true"
    /\ \A c \in required : \A d \in READINESS_DEPENDENCIES[c] : health[d] # "false"

Healths == [configured : {"true", "false", "absent"}, authenticated : {"true", "false", "absent"},
            connected : {"true", "false", "absent"}, available : {"true", "false", "absent"},
            healthy : {"true", "false", "absent"}, state : {"ready", "uncertain"}]

evaluateQuoteFreshness(quote, now, policy) ==
    CASE quote.bid = 0 \/ quote.ask = 0 -> "quote_malformed"
      [] quote.ask < quote.bid -> "quote_spread_inverted"
      [] now - quote.at < -policy.skew -> "quote_future_beyond_clock_skew"
      [] now - quote.at > policy.age -> "quote_stale"
      [] OTHER -> "fresh"

\* The broker's volumes start at the minimum and go up by the step.
validateVolumeAgainstInstrument(volume, spec) ==
    /\ volume > 0 /\ volume <= spec.max /\ volume >= spec.min
    /\ (volume - spec.min) % spec.step = 0

validateInstrumentContract(spec) == spec.min > 0 /\ spec.step > 0 /\ spec.max >= spec.min /\ spec.step <= spec.max

\* A handshake is bound to the demo account it was configured for, and what
\* is attested is what is bound.
evaluateBridgeHandshake(offer, expected) ==
    CASE offer.version # "same" -> IF offer.version = "higher" THEN "protocol_higher_major_rejected"
                                                              ELSE "protocol_version_unsupported"
      [] ~(offer.capabilities \subseteq expected.capabilities) -> "capability_unsupported"
      [] offer.environment # "demo" -> IF offer.environment = "live" THEN "live_environment_prohibited"
                                                                    ELSE "environment_unsupported"
      [] offer.account # expected.account -> "account_identity_mismatch"
      [] offer.attested \notin {"none", offer.account} -> "attestation_mismatch"
      [] OTHER -> "accepted"

PROVIDER_ORDER_STATUS_VOCABULARY ==
    [requested |-> "submitted", placed |-> "accepted", accepted |-> "accepted", partial |-> "partially_filled",
     filled |-> "filled", rejected |-> "rejected", cancelled |-> "cancelled", expired |-> "expired"]

\* A word outside the vocabulary, market_closed too, is uncertain.
normalizeProviderOrderStatus(raw) ==
    IF raw \in DOMAIN PROVIDER_ORDER_STATUS_VOCABULARY THEN PROVIDER_ORDER_STATUS_VOCABULARY[raw] ELSE "uncertain"

\* What the schemas let a reconciliation result and an outcome say.
bridgeReconciliationResultSchema(r) ==
    /\ (r.outcome = "uncertain" \/ r.status = "uncertain") => r.requires /\ r.status \notin {"failed", "rejected"}
    /\ r.outcome = "not_found" => r.status = "null"
    /\ r.outcome \in {"matched", "mismatched"} => r.status # "null"

bridgeMutationOutcomeSchema(o) == (o.outcome = "uncertain") = o.unknown /\ o.unknown # o.evidence

-----------------------------------------------------------------------------
(* Intake.                                                                 *)

NoRequestRow == [status |-> "none", decision |-> CHOOSE d \in Submitted : TRUE, by |-> {}]
Resting(d) == [pc |-> "idle", decision |-> d, gate |-> "none", answer |-> "none"]

\* submitExecutionDecision: a stored row is replayed, otherwise the state of
\* the account and the platform is read (shut: the gates closed by it).
submitExecutionDecision(c, shut) ==
    /\ intake[c].pc = "idle" /\ intake[c].answer = "none"
    /\ IF stored.status # "none"
       THEN intake' = [intake EXCEPT ![c].answer = IF stored.status = "requested" THEN "accepted" ELSE "rejected"]
            /\ UNCHANGED held
       ELSE /\ intake' = [intake EXCEPT ![c].pc = "insert", ![c].gate = evaluateExecutionGates(intake[c].decision, shut)]
            /\ held' = IF "risk_decision" \in shut THEN held ELSE held \cup {c}
    /\ UNCHANGED <<probe, stored>>

\* Mutant: the later call overwrites the row.
insertOver(c) ==
    /\ intake[c].pc = "insert"
    /\ stored' = [status |-> IF stored.status = "requested" \/ intake[c].gate = "passed" THEN "requested" ELSE "rejected",
                  decision |-> intake[c].decision, by |-> {c}]
    /\ intake' = [intake EXCEPT ![c].pc = "settle"]
    /\ UNCHANGED <<probe, held>>

\* The insert: the unique key keeps the first row.
insertRequest(c) ==
    /\ intake[c].pc = "insert"
    /\ stored' = IF stored.status # "none" THEN stored
                 ELSE [status |-> IF intake[c].gate = "passed" THEN "requested" ELSE "rejected",
                       decision |-> intake[c].decision, by |-> {c}]
    /\ intake' = [intake EXCEPT ![c].pc = "settle"]
    /\ UNCHANGED <<probe, held>>

\* The answer is the call's own gate result; a rejected one releases.
settleIntake(c) ==
    /\ intake[c].pc = "settle"
    /\ intake' = [intake EXCEPT ![c].pc = "idle",
                    ![c].answer = IF intake[c].gate = "passed" THEN "accepted" ELSE "rejected"]
    /\ held' = IF intake[c].gate = "passed" THEN held ELSE held \ {c}
    /\ UNCHANGED <<probe, stored>>

-----------------------------------------------------------------------------
Specs == [min : Sizes, max : Sizes, step : Sizes]
Quotes == [bid : {0, 1, 2}, ask : {1}, at : 0..4]
Offers == [version : {"same", "higher", "lower"}, capabilities : SUBSET {"submit", "lookup"},
           environment : {"paper", "demo", "live"}, account : {"a", "b"}, attested : {"none", "a", "b"}]
Words == {"placed", "filled", "rejected", "market_closed", "strange"}

Probes ==
    [kind : {"gates"}, decision : Decisions, fill : Prices]
    \cup [kind : {"bridge"}, spec : Specs, volume : Sizes, quote : Quotes]
    \cup [kind : {"health"}, health : Healths]
    \cup [kind : {"handshake"}, offer : Offers]
    \cup [kind : {"word"}, raw : Words, outcome : {"matched", "mismatched", "not_found", "uncertain"}, requires : BOOLEAN,
          unknown : BOOLEAN, evidence : BOOLEAN]

AdmissionInit ==
    /\ probe \in Probes \cup {[kind |-> "intake"]}
    /\ stored = NoRequestRow /\ held = {}
    /\ IF probe.kind = "intake"
       THEN \E f \in [IntakeCallers -> Submitted] : intake = [c \in IntakeCallers |-> Resting(f[c])]
       ELSE intake = [c \in IntakeCallers |-> [Resting(NoRequestRow.decision) EXCEPT !.answer = "done"]]

AdmissionNext ==
    \E c \in IntakeCallers :
        \/ \E shut \in {{}, {"kill_switch"}, {"risk_decision"}} : submitExecutionDecision(c, shut)
        \/ insertRequest(c) \/ settleIntake(c)

AdmissionSpec == AdmissionInit /\ [][AdmissionNext]_admissionVars

-----------------------------------------------------------------------------
(* Properties.                                                             *)

\* Sound(d): the stop loses less than the target wins by at least MinRr.
Sound(d, at) ==
    /\ IF d.direction = "long" THEN d.stop < at /\ at < d.target ELSE d.target < at /\ at < d.stop
    /\ Gap(d.target, at) >= MinRr * Gap(at, d.stop)

\* What passes the gates is a protected order with the reward it claims, at
\* the decision's entry and, on paper, at the fill; and a request recorded as
\* requested is such an order even when calls with different decisions race
\* for its key.
AdmittedOrdersAreSound ==
    /\ probe.kind = "gates" =>
         /\ evaluateExecutionGates(probe.decision, {}) = "passed" => Sound(probe.decision, probe.decision.entry)
         /\ evaluatePaperSimulationGates(probe.decision, probe.fill, 1, [min |-> 1, max |-> 1, step |-> 1]) =>
              Sound(probe.decision, probe.fill)
    /\ stored.status = "requested" => Sound(stored.decision, stored.decision.entry)

\* What the bridge lets through reaches a connected demo account with a
\* volume it trades and a price it still quotes, and no unknown word of the
\* broker ever becomes a definitive result.
BridgeRefusesDoubt ==
    /\ probe.kind = "health" =>
         \A p \in DOMAIN READINESS_PROFILES : resolveBridgeReadiness(probe.health, READINESS_PROFILES[p]) =>
             probe.health.state = "ready" /\ \A c \in {"configured", "authenticated", "connected"} : probe.health[c] # "false"
    /\ probe.kind = "bridge" /\ validateInstrumentContract(probe.spec)
         /\ validateVolumeAgainstInstrument(probe.volume, probe.spec) =>
             \E k \in 0..probe.volume : probe.volume = probe.spec.min + k * probe.spec.step
    /\ probe.kind = "bridge" /\ evaluateQuoteFreshness(probe.quote, 2, [age |-> 2, skew |-> 1]) = "fresh" =>
             probe.quote.at \in 0..3 /\ probe.quote.bid \in 1..probe.quote.ask
    /\ probe.kind = "handshake"
         /\ evaluateBridgeHandshake(probe.offer, [account |-> "a", capabilities |-> {"submit"}]) = "accepted" =>
             probe.offer.environment = "demo" /\ probe.offer.account = "a" /\ probe.offer.attested # "b"
    /\ probe.kind = "word" =>
         LET r == [outcome |-> probe.outcome, requires |-> probe.requires,
                   status |-> IF probe.outcome = "not_found" THEN "null" ELSE normalizeProviderOrderStatus(probe.raw)] IN
         bridgeReconciliationResultSchema(r) /\ probe.raw \in {"market_closed", "strange"} /\ probe.outcome # "not_found" =>
             r.requires /\ r.status = "uncertain"
    /\ probe.kind = "word" =>
         LET o == [outcome |-> IF normalizeProviderOrderStatus(probe.raw) = "uncertain" THEN "uncertain" ELSE "accepted",
                   unknown |-> probe.unknown, evidence |-> probe.evidence] IN
         bridgeMutationOutcomeSchema(o) /\ o.evidence => probe.raw \in DOMAIN PROVIDER_ORDER_STATUS_VOCABULARY
===============================================================================
