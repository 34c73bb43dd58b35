--------------------------- MODULE BillingPricing ---------------------------
(***************************************************************************)
(* How an amount to charge comes into being: exchange-rate versions, the   *)
(* provider-plan epochs registered under one of them, and the pricing      *)
(* snapshots derived from an epoch (packages/core/src/billing:             *)
(* fx-rate-versions, provisioning, live-plan-registration, provider-plans, *)
(* pricing; migration 0032).                                               *)
(*                                                                         *)
(* Amounts are minor units; a rate is a numerator over RateUnit.  At most  *)
(* one version starts at an instant, so a version is named by its start.   *)
(* The catalogue is compiled in: a deployment may change it while epochs   *)
(* of the earlier one are on sale.                                         *)
(***************************************************************************)
EXTENDS Naturals, Sequences, FiniteSets, FiniteSetsExt, SequencesExt

CONSTANTS
    PlanMatrix,     \* SANDBOX_PLAN_MATRIX: the sellable combinations, in order
    Catalogues,     \* deployable catalogues: combination -> USD amount
    Rates,          \* publishable rate numerators
    RateUnit,       \* 10^scale
    MinimumMinor,   \* BILLING_PAYMENT_MINIMUM_MINOR
    MaxAge,         \* maxAgeSeconds
    PlanCodes,      \* codes the provider issued
    ExcludedCodes,  \* codes provisioning refuses: excluded, malformed, placeholder
    DashboardRates, \* rates the operator may have priced the provider's plans at
    ProviderModes,  \* among "test" and "live"
    Registrars,     \* concurrent registration commands
    Candidates,     \* what an operator may hand to the dry-run validator of rates
    MaxTime, MaxVersions

PricingAssumption ==
    /\ PlanMatrix # <<>> /\ RateUnit \in Nat \ {0} /\ MaxAge \in Nat /\ MinimumMinor \in Nat \ {0}
    /\ Rates \subseteq Nat \ {0} /\ ExcludedCodes \subseteq PlanCodes /\ MaxTime \in Nat
    /\ PlanMatrix \in Seq(Range(PlanMatrix))
    /\ \A i, j \in DOMAIN PlanMatrix : PlanMatrix[i] = PlanMatrix[j] => i = j
    /\ \A c \in Catalogues : c \in [Range(PlanMatrix) -> Nat \ {0}]
    /\ \A c \in Candidates : {c.from, c.captured, c.decimal[1], c.decimal[2]} \subseteq Nat
                            /\ 10 ^ c.decimal[3] \in Nat \ {0}

VARIABLES
    versions,   \* billing_fx_rate_versions: start -> [rate, captured]
    epochRows,  \* billing_provider_plans, committed
    registrar,  \* each command's transaction: rows to insert, how many are in
    quotes,     \* billing_pricing_snapshots
    catalogue,  \* the deployed catalogue
    clock

pricingVars == <<versions, epochRows, registrar, quotes, catalogue, clock>>

Combos == Range(PlanMatrix)
Instants == 0 .. MaxTime
NoTransaction == [rows |-> <<>>, inserted |-> 0]

PricingInit ==
    /\ versions = <<>> /\ epochRows = {} /\ quotes = {}
    /\ registrar = [r \in Registrars |-> NoTransaction]
    /\ catalogue \in Catalogues /\ clock = 0

----------------------------------------------------------------------------
(* Exchange rates.                                                         *)

\* One half-up step on exact integers.
roundDown(usd, rate) == (usd * rate) \div RateUnit
computePaymentAmountMinor(usd, rate) == (2 * usd * rate + RateUnit) \div (2 * RateUnit)

\* A version is captured no later than it starts and than it is published.
publish(rate, from, captured) ==
    /\ from \notin DOMAIN versions /\ captured <= from /\ captured <= clock
    /\ Cardinality(DOMAIN versions) < MaxVersions
    /\ versions' = [v \in DOMAIN versions \cup {from} |->
                      IF v = from THEN [rate |-> rate, captured |-> captured] ELSE versions[v]]
    /\ UNCHANGED <<epochRows, registrar, quotes, catalogue, clock>>

\* A version is too old, or captured after the instant it would price.
FreshAt(version, at) == version.captured <= at /\ at - version.captured <= MaxAge
assertFxRateVersionFresh(v, at) == FreshAt(versions[v], at)

\* The newest effective version of a table, if it is fresh; otherwise no rate.
resolveIn(table, at) == LET effective == {v \in DOMAIN table : v <= at}
                        IN  IF effective = {} THEN {} ELSE {v \in {Max(effective)} : FreshAt(table[v], at)}
resolve(at) == resolveIn(versions, at)

\* priceCommercialPlan: the amount a combination would cost at an instant.
priceCommercialPlan(combo, at) ==
    {computePaymentAmountMinor(catalogue[combo], versions[v].rate) : v \in resolve(at)} \ 0 .. MinimumMinor - 1

----------------------------------------------------------------------------
(* The dry-run validator of a rate and its evidence.                       *)

RequiredEvidence == {"source", "sourceReference", "operator", "reason", "fxSource", "currencies"}

\* An exact decimal, <<whole, fraction, fractional digits>>, as a numerator
\* over RateUnit; too many digits, and zero, are refused.
parseFxRateDecimal(decimal) ==
    LET unit == 10 ^ decimal[3]
    IN  IF RateUnit % unit # 0 THEN {} ELSE {decimal[1] * RateUnit + decimal[2] * (RateUnit \div unit)} \ {0}

requiredText(c) == RequiredEvidence \subseteq c.supplied

\* No publication flag, all evidence, a captured instant the version contract
\* accepts, fresh and effective at the instant of the evaluation.
validateFxRateCandidate(c, asOf) ==
    /\ ~c.flagged /\ requiredText(c) /\ parseFxRateDecimal(c.decimal) # {}
    /\ c.captured <= c.from /\ FreshAt(c, asOf) /\ c.from <= asOf

----------------------------------------------------------------------------
(* Registration of a batch of epochs.                                      *)

\* Evidence: one entry for each combination, in the operator's order, with
\* a code and the amount of the provider's plan.  A live registration may
\* leave the amounts out; the evidence then carries the derived ones.
amountObserved(combo, fx, dashboard) ==
    IF dashboard = 0 THEN computePaymentAmountMinor(catalogue[combo], versions[fx].rate)
    ELSE computePaymentAmountMinor(catalogue[combo], dashboard)

validateProviderPlanCode(codes) ==
    /\ \A c \in Combos : codes[c] \notin ExcludedCodes
    /\ \A c, d \in Combos : codes[c] = codes[d] => c = d

\* prepareSandboxProvisioningBatch: the version is effective and fresh at the
\* registration instant, and every amount confirms the derived one.
prepareSandboxProvisioningBatch(fx, codes, dashboard) ==
    /\ fx \in DOMAIN versions /\ fx <= clock /\ assertFxRateVersionFresh(fx, clock)
    /\ validateProviderPlanCode(codes)
    /\ \A c \in Combos :
         LET derived == computePaymentAmountMinor(catalogue[c], versions[fx].rate)
         IN  derived >= MinimumMinor /\ amountObserved(c, fx, dashboard) = derived

EpochRow(mode, combo, code, fx) ==
    [mode |-> mode, combo |-> combo, code |-> code, fx |-> fx, usd |-> catalogue[combo],
     amount |-> computePaymentAmountMinor(catalogue[combo], versions[fx].rate),
     from |-> clock, status |-> "active", retiredAt |-> 0]

\* The batch in the order of the matrix, whatever order the evidence came in.
operatorOrder(order) == order
registrationOrder(order) == PlanMatrix

\* The transaction of a batch: what it will insert, nothing of it visible.
beginBatch(r, mode, fx, codes, dashboard, order) ==
    /\ registrar[r] = NoTransaction
    /\ prepareSandboxProvisioningBatch(fx, codes, dashboard)
    /\ LET sorted == registrationOrder(order)
           rows == [i \in DOMAIN sorted |-> EpochRow(mode, sorted[i], codes[sorted[i]], fx)]
       IN  registrar' = [registrar EXCEPT ![r] = [rows |-> rows, inserted |-> 0]]
    /\ UNCHANGED <<versions, epochRows, quotes, catalogue, clock>>

\* A request in the live mode names its operator and reason (audited).
registerSandboxPlanEpochs(r, mode, fx, codes, dashboard, order, audited) ==
    /\ mode = "live" => audited
    /\ dashboard # 0 /\ DOMAIN codes = Combos
    /\ beginBatch(r, mode, fx, codes, dashboard, order)

\* Every slot has a code and none has that of another.
parseLivePlanCodes(codes) ==
    DOMAIN codes = Combos /\ \A c, d \in DOMAIN codes : codes[c] = codes[d] => c = d

\* The live command: only in the live mode, amounts may be left out, and the
\* evidence is built in the order of the matrix; a dry run stops before the
\* transaction.
registerLivePlanEpochs(r, mode, fx, codes, dashboard, dryRun) ==
    /\ mode = "live" /\ parseLivePlanCodes(codes) /\ ~dryRun
    /\ beginBatch(r, mode, fx, codes, dashboard, PlanMatrix)

\* The two unique indexes of billing_provider_plans.
Clash(a, b) == a.mode = b.mode /\ \/ a.code = b.code
                                  \/ a.combo = b.combo /\ a.status = "active" /\ b.status = "active"
NextRow(r) == registrar[r].rows[registrar[r].inserted + 1]
Inserting(r) == registrar[r].inserted < Len(registrar[r].rows)
Uncommitted(r) == {registrar[r].rows[i] : i \in 1 .. registrar[r].inserted}
Collides(r) == \E e \in epochRows : Clash(NextRow(r), e)

\* An insert that collides with another's uncommitted row waits for its end.
WaitsFor(r, s) == r # s /\ Inserting(r) /\ ~Collides(r) /\ \E e \in Uncommitted(s) : Clash(NextRow(r), e)

registerPlan(r) ==
    /\ Inserting(r) /\ ~Collides(r) /\ \A s \in Registrars : ~WaitsFor(r, s)
    /\ registrar' = [registrar EXCEPT ![r].inserted = @ + 1]
    /\ UNCHANGED <<versions, epochRows, quotes, catalogue, clock>>

\* A conflict, a failed audit record, any other error or a crash.
rollback(r) ==
    /\ registrar[r].rows # <<>>
    /\ registrar' = [registrar EXCEPT ![r] = NoTransaction]
    /\ UNCHANGED <<versions, epochRows, quotes, catalogue, clock>>

commitInserted(r) ==
    /\ registrar[r].rows # <<>> /\ registrar[r].inserted > 0
    /\ epochRows' = epochRows \cup Uncommitted(r)
    /\ registrar' = [registrar EXCEPT ![r] = NoTransaction]
    /\ UNCHANGED <<versions, quotes, catalogue, clock>>
commitBatch(r) ==
    /\ registrar[r].rows # <<>> /\ ~Inserting(r)
    /\ epochRows' = epochRows \cup Uncommitted(r)
    /\ registrar' = [registrar EXCEPT ![r] = NoTransaction]
    /\ UNCHANGED <<versions, quotes, catalogue, clock>>

\* Of a retired epoch too: the update has no status in its condition.
retireEpoch(e) ==
    /\ e \in epochRows
    /\ epochRows' = (epochRows \ {e}) \cup {[e EXCEPT !.status = "retired", !.retiredAt = clock]}
    /\ UNCHANGED <<versions, registrar, quotes, catalogue, clock>>

----------------------------------------------------------------------------
(* Pricing snapshots.                                                      *)

\* selectActiveProviderPlan: exactly one active epoch, or nothing is charged.
selectActiveProviderPlan(mode, combo) ==
    LET active == {e \in epochRows : e.mode = mode /\ e.combo = combo /\ e.status = "active"}
    IN  {e \in active : Cardinality(active) = 1}

\* The amount recomputes from the snapshot's own USD amount and rate.
verifyPricingSnapshot(q) ==
    q.amount = computePaymentAmountMinor(q.usd, versions[q.fx].rate) /\ q.amount >= MinimumMinor

\* The epoch's amount under the epoch's rate; only the USD amount is today's.
repriceEpoch(e) == [mode |-> e.mode, combo |-> e.combo, code |-> e.code, fx |-> e.fx, usd |-> catalogue[e.combo],
                    amount |-> computePaymentAmountMinor(catalogue[e.combo], versions[e.fx].rate)]
priceFromProviderPlanEpoch(e) ==
    [mode |-> e.mode, combo |-> e.combo, code |-> e.code, fx |-> e.fx, usd |-> catalogue[e.combo], amount |-> e.amount]

quote(mode, combo) ==
    /\ \E e \in selectActiveProviderPlan(mode, combo) :
         /\ verifyPricingSnapshot(priceFromProviderPlanEpoch(e))
         /\ quotes' = quotes \cup {priceFromProviderPlanEpoch(e)}
    /\ UNCHANGED <<versions, epochRows, registrar, catalogue, clock>>

----------------------------------------------------------------------------

deploy(c) == c # catalogue /\ catalogue' = c /\ UNCHANGED <<versions, epochRows, registrar, quotes, clock>>
passTime == clock < MaxTime /\ clock' = clock + 1 /\ UNCHANGED <<versions, epochRows, registrar, quotes, catalogue>>

PricingNext ==
    \/ \E rate \in Rates, from, captured \in Instants : publish(rate, from, captured)
    \/ \E r \in Registrars, mode \in ProviderModes, fx \in DOMAIN versions, dashboard \in DashboardRates :
         \/ \E slots \in SUBSET Combos : \E codes \in [slots -> PlanCodes], flag \in BOOLEAN :
              registerLivePlanEpochs(r, mode, fx, codes, dashboard, flag)
         \/ \E order \in SetToSeqs(Combos) :
            \E slots \in SUBSET Combos : \E codes \in [slots -> PlanCodes], flag \in BOOLEAN :
                 registerSandboxPlanEpochs(r, mode, fx, codes, dashboard, order, flag)
    \/ \E r \in Registrars : registerPlan(r) \/ rollback(r) \/ commitBatch(r)
    \/ \E e \in epochRows : retireEpoch(e)
    \/ \E mode \in ProviderModes, combo \in Combos : quote(mode, combo)
    \/ \E c \in Catalogues : deploy(c)
    \/ passTime

PricingSpec == PricingInit /\ [][PricingNext]_pricingVars

----------------------------------------------------------------------------
(* Properties.                                                             *)

PricingTypeOK ==
    /\ DOMAIN versions \subseteq Instants /\ \A v \in DOMAIN versions : versions[v] \in [rate : Rates, captured : Instants]
    /\ \A r \in Registrars : registrar[r].inserted \in 0 .. Len(registrar[r].rows)
    /\ catalogue \in Catalogues /\ clock \in Instants

\* provisioning.ts 884-962: however two registrations, conflicts and failures
\* interleave, an instant's epochs of a mode under a version cover every
\* combination equally often, none was registered under a version that had not
\* started or was stale then, and no two commands ever wait for each other.
BatchesAreWhole ==
    /\ \A e \in epochRows :
         /\ \A c \in Combos :
              LET sameBatch(x) == {f \in epochRows : f.combo = x /\ f.mode = e.mode /\ f.from = e.from /\ f.fx = e.fx}
              IN  Cardinality(sameBatch(c)) = Cardinality(sameBatch(e.combo))
         /\ e.fx <= e.from /\ assertFxRateVersionFresh(e.fx, e.from)
    /\ \A r, s \in Registrars : ~(WaitsFor(r, s) /\ WaitsFor(s, r))

\* pricing.ts 436-512: a provider plan charges one amount for ever, so every
\* snapshot bound to a code names the same amount, that of an epoch with this
\* code, whatever catalogue was deployed and whatever rate was published
\* in between; and it is the snapshot's own USD amount at its own rate,
\* to the nearest minor unit, which is what pricing without an epoch gives
\* while the epoch's rate is in force.
QuotesAreLocked ==
    /\ \A q \in quotes : LET exact == q.usd * versions[q.fx].rate
                        IN  /\ 2 * exact < 2 * (q.amount * RateUnit) + RateUnit
                            /\ 2 * (q.amount * RateUnit) <= 2 * exact + RateUnit
    /\ \A q, o \in quotes : q.mode = o.mode /\ q.code = o.code => q.amount = o.amount /\ q.combo = o.combo
    /\ \A q \in quotes : \E e \in epochRows : e.mode = q.mode /\ e.code = q.code /\ e.amount = q.amount
    /\ \A e \in epochRows : e.fx \in resolve(clock) /\ e.usd = catalogue[e.combo]
                            => priceCommercialPlan(e.combo, clock) = {e.amount}

\* fx-validation.ts 360-584: what the dry run calls valid now can be published
\* now, unless a version starts at the same instant, and prices from then on
\* at the rate as it was written, unless a version that starts later does.
ValidMeansUsable ==
    \A c \in Candidates : validateFxRateCandidate(c, clock) /\ c.from \notin DOMAIN versions =>
        \A rate \in parseFxRateDecimal(c.decimal) :
            LET published == [v \in DOMAIN versions \cup {c.from} |->
                                IF v = c.from THEN [rate |-> rate, captured |-> c.captured] ELSE versions[v]]
            IN  /\ c.captured <= clock
                /\ \/ \E v \in DOMAIN versions : c.from < v /\ v <= clock
                   \/ resolveIn(published, clock) = {c.from}
                /\ rate * 10 ^ c.decimal[3] = (c.decimal[1] * 10 ^ c.decimal[3] + c.decimal[2]) * RateUnit
=============================================================================
