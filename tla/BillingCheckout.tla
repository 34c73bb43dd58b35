-------------------------- MODULE BillingCheckout --------------------------
(***************************************************************************)
(* How one account buys a plan: provider-plan epochs and their retirement, *)
(* the priced sale row, the provider customer, the payment, its evidence,  *)
(* the activation of the subscription, and operator grants                 *)
(* (packages/core/src/billing: checkout, snapshots, provider-plans,        *)
(* customers, confirmation, payment-reconciliation, verified-transactions, *)
(* activation, entitlement-grants, entitlement-resolution, legacy-free-row-*)
(* remediation; migrations 0031 to 0036).                                  *)
(*                                                                         *)
(* A process is one HTTP request or operator command; several run at once. *)
(* An epoch is a batch and a plan, and stands for its price.  A pricing    *)
(* snapshot is derived from its epoch alone (the idempotency key is stable *)
(* over derivations), so it is named by its epoch, and so is the checkout  *)
(* reference, a hash of the account and that key.                          *)
(***************************************************************************)
EXTENDS Naturals, FiniteSets

CONSTANTS
    Buyers,         \* concurrent requests and commands
    Batches,        \* registrations of epochs
    CataloguePlans, \* sellable plans, among "pro" and "elite"
    Codes,          \* provider customer codes
    TakenCodes,     \* codes bound to other accounts
    InitialRows     \* subscriptions row the account may start with: "none", "legacy"

CheckoutAssumption ==
    /\ CataloguePlans \subseteq {"pro", "elite"}
    /\ TakenCodes \subseteq Codes
    /\ InitialRows \subseteq {"none", "legacy"}

VARIABLES
    epochs,     \* billing_provider_plans
    snapshots,  \* billing_pricing_snapshots
    sub,        \* the account's subscriptions row: its lock, or None, or Legacy
    customer,   \* billing_customers: [status, code]
    atProvider, \* the provider's customer of the account's address
    txns,       \* provider transactions by checkout reference
    evidence,   \* billing_verified_transactions
    activation, \* billing_subscription_activations: an epoch, or None
    grant,      \* billing_entitlement_grants: a tier, or "none"
    work        \* where each process stands and what it holds

checkoutVars == <<epochs, snapshots, sub, customer, atProvider, txns, evidence, activation, grant, work>>

Epochs == Batches \X CataloguePlans
PlanOf(e) == e[2]
None == <<0, "none">>       \* no epoch
Legacy == <<0, "legacy">>   \* a row without a pricing lock
Other == <<0, "other">>     \* an amount that is no epoch's
NoTxn == [status |-> "none", paid |-> None, code |-> "none"]
Idle == [at |-> "idle", epoch |-> None, code |-> "none", seen |-> NoTxn]
RowLocked == sub \in Epochs

Places == {"idle", "lock", "sell", "customer", "provider", "persist", "verify", "find", "record", "refused", "grant"}
Txns == [status : {"none", "pending", "failed", "success"}, paid : Epochs \cup {None, Other}, code : Codes \cup {"none"}]

CheckoutTypeOK ==
    /\ epochs \in [Epochs -> {"unregistered", "active", "retired"}]
    /\ snapshots \subseteq Epochs
    /\ sub \in Epochs \cup {None, Legacy}
    /\ customer \in [status : {"absent", "unprovisioned", "provisioned"}, code : Codes \cup {"none"}]
    /\ txns \in [Epochs -> Txns] /\ evidence \in Txns
    /\ activation \in Epochs \cup {None} /\ grant \in {"none", "pro", "premium"}
    /\ work \in [Buyers -> [at : Places, epoch : Epochs \cup {None, <<0, "pro">>, <<0, "premium">>},
                            code : Codes \cup {"none"}, seen : Txns]]

CheckoutInit ==
    /\ epochs = [e \in Epochs |-> "unregistered"]
    /\ snapshots = {} /\ sub \in {<<0, row>> : row \in InitialRows}
    /\ customer \in [status : {"absent", "unprovisioned"}, code : {"none"}]
    /\ atProvider = "none" /\ txns = [e \in Epochs |-> NoTxn]
    /\ evidence = NoTxn /\ activation = None /\ grant = "none"
    /\ work = [p \in Buyers |-> Idle]

Go(p, place) == work' = [work EXCEPT ![p].at = place]
Stop(p) == work' = [work EXCEPT ![p] = Idle]

----------------------------------------------------------------------------
(* Provider-plan epochs.                                                   *)

ActiveEpochs(plan) == {e \in Epochs : PlanOf(e) = plan /\ epochs[e] = "active"}

\* registerSandboxPlanEpochs, registerLivePlanEpochs: the whole batch or nothing;
\* at most one active epoch of a plan, and no epoch is registered twice.
registerEpochs(b) ==
    /\ \A plan \in CataloguePlans : epochs[<<b, plan>>] = "unregistered" /\ ActiveEpochs(plan) = {}
    /\ epochs' = [e \in Epochs |-> IF e[1] = b THEN "active" ELSE epochs[e]]
    /\ UNCHANGED <<snapshots, sub, customer, atProvider, txns, evidence, activation, grant, work>>

\* The row lock the sale holds (FOR SHARE) makes the retirement wait.
Shared(e) == \E p \in Buyers : work[p].at = "sell" /\ work[p].epoch = e

retireIgnoringShare(e) ==
    /\ epochs[e] = "active"
    /\ epochs' = [epochs EXCEPT ![e] = "retired"]
    /\ UNCHANGED <<snapshots, sub, customer, atProvider, txns, evidence, activation, grant, work>>
retire(e) ==
    /\ epochs[e] = "active" /\ ~Shared(e)
    /\ epochs' = [epochs EXCEPT ![e] = "retired"]
    /\ UNCHANGED <<snapshots, sub, customer, atProvider, txns, evidence, activation, grant, work>>

----------------------------------------------------------------------------
(* Checkout.                                                               *)

\* A legacy row has no pricing lock and is refused.  A row-less account takes
\* a candidate, the plan's one active epoch; a locked one is charged its lock.
checkout(p, plan) ==
    /\ work[p].at = "idle" /\ sub # Legacy
    /\ IF sub = None
         THEN \E e \in ActiveEpochs(plan) : work' = [work EXCEPT ![p] = [Idle EXCEPT !.at = "lock", !.epoch = e]]
         ELSE work' = [work EXCEPT ![p] = [Idle EXCEPT !.at = "lock"]]
    /\ UNCHANGED <<epochs, snapshots, sub, customer, atProvider, txns, evidence, activation, grant>>

assertCandidateEpochStillActive(e) == e # None /\ epochs[e] = "active"

\* obtainLock: the row FOR UPDATE; without one the candidate's row FOR SHARE.
selectLock(p) ==
    /\ work[p].at = "lock"
    /\ IF RowLocked THEN Go(p, "customer")
       ELSE IF sub = None /\ assertCandidateEpochStillActive(work[p].epoch) THEN Go(p, "sell")
       ELSE Stop(p)
    /\ UNCHANGED <<epochs, snapshots, sub, customer, atProvider, txns, evidence, activation, grant>>

\* The snapshot and the row in one savepoint: the loser of ON CONFLICT rolls
\* back to it and reads the winner's row.
obtainLockWithoutSavepoint(p) ==
    /\ work[p].at = "sell"
    /\ snapshots' = snapshots \cup {work[p].epoch}
    /\ sub' = IF sub = None THEN work[p].epoch ELSE sub
    /\ Go(p, "customer")
    /\ UNCHANGED <<epochs, customer, atProvider, txns, evidence, activation, grant>>
obtainLock(p) ==
    /\ work[p].at = "sell"
    /\ IF sub = None
         THEN /\ snapshots' = snapshots \cup {work[p].epoch}
              /\ sub' = work[p].epoch
         ELSE UNCHANGED <<snapshots, sub>>
    /\ Go(p, "customer")
    /\ UNCHANGED <<epochs, customer, atProvider, txns, evidence, activation, grant>>

isCheckoutReadyBillingCustomer == customer.status = "provisioned" /\ customer.code # "none"

\* requireExistingCustomer, then the provider opens a transaction under the
\* reference of the lock; it opens a reference once.
openTransaction(p) ==
    /\ work[p].at = "customer"
    /\ txns' = IF isCheckoutReadyBillingCustomer /\ txns[sub] = NoTxn
                 THEN [txns EXCEPT ![sub] = [status |-> "pending", paid |-> None, code |-> customer.code]]
                 ELSE txns
    /\ Stop(p)
    /\ UNCHANGED <<epochs, snapshots, sub, customer, atProvider, evidence, activation, grant>>

\* The buyer pays, or fails to: the provider reports whatever it charged, under
\* the customer it knows.
pay(e) ==
    /\ txns[e].status \in {"pending", "failed"}
    /\ \/ \E paid \in {e, Other}, code \in {txns[e].code, "none"} :
            txns' = [txns EXCEPT ![e] = [status |-> "success", paid |-> paid, code |-> code]]
       \/ txns[e].status = "pending" /\ txns' = [txns EXCEPT ![e].status = "failed"]
    /\ UNCHANGED <<epochs, snapshots, sub, customer, atProvider, evidence, activation, grant, work>>

----------------------------------------------------------------------------
(* The provider customer.                                                  *)

decideExistingBillingCustomer ==
    CASE customer.status = "provisioned" -> IF isCheckoutReadyBillingCustomer THEN "ready" ELSE "refuse"
      [] OTHER -> "provision"

ensureCustomer(p) ==
    /\ work[p].at = "idle" /\ decideExistingBillingCustomer = "provision"
    /\ Go(p, "provider")
    /\ UNCHANGED <<epochs, snapshots, sub, customer, atProvider, txns, evidence, activation, grant>>

\* Found, or created; another process may be creating as well.
provision(p) ==
    /\ work[p].at = "provider"
    /\ \E code \in IF atProvider = "none" THEN Codes ELSE {atProvider} :
         /\ atProvider' = code
         /\ work' = [work EXCEPT ![p].at = "persist", ![p].code = code]
    /\ UNCHANGED <<epochs, snapshots, sub, customer, txns, evidence, activation, grant>>

\* A lookup of the provider that fails leaves nothing behind.
providerUnavailable(p) ==
    /\ work[p].at \in {"provider", "verify"}
    /\ Stop(p)
    /\ UNCHANGED <<epochs, snapshots, sub, customer, atProvider, txns, evidence, activation, grant>>

\* INSERT ... ON CONFLICT DO UPDATE ... WHERE status = 'unprovisioned'; a code of
\* another account violates the unique index.
persistOverwriting(p) ==
    /\ work[p].at = "persist"
    /\ customer' = [status |-> "provisioned", code |-> work[p].code]
    /\ Stop(p)
    /\ UNCHANGED <<epochs, snapshots, sub, atProvider, txns, evidence, activation, grant>>
persist(p) ==
    /\ work[p].at = "persist"
    /\ customer' = IF work[p].code \notin TakenCodes /\ customer.status \in {"absent", "unprovisioned"}
                     THEN [status |-> "provisioned", code |-> work[p].code] ELSE customer
    /\ Stop(p)
    /\ UNCHANGED <<epochs, snapshots, sub, atProvider, txns, evidence, activation, grant>>

\* The account's address changes at the provider: its customer is a new one.
providerCustomerReplaced ==
    /\ atProvider # "none"
    /\ \E code \in Codes \ {atProvider} : atProvider' = code
    /\ UNCHANGED <<epochs, snapshots, sub, customer, txns, evidence, activation, grant, work>>

----------------------------------------------------------------------------
(* Payment evidence.                                                       *)

\* What a transaction must be to count as payment of lock e by local code c.
\* An identity the provider leaves out is refused only where one is known here.
SameCustomer(t, c) == c # "none" => t.code = c
reconcileStatusOnly(t, e, c) == t.status = "success" /\ SameCustomer(t, c)
reconcileBillingPaymentEvidence(t, e, c) == t.status = "success" /\ t.paid = e /\ SameCustomer(t, c)

confirm(p) ==
    /\ work[p].at = "idle" /\ RowLocked
    /\ work' = [work EXCEPT ![p] = [Idle EXCEPT !.at = "verify", !.code = customer.code]]
    /\ UNCHANGED <<epochs, snapshots, sub, customer, atProvider, txns, evidence, activation, grant>>

verifyPayment(p) ==
    /\ work[p].at = "verify" /\ txns[sub] # NoTxn
    /\ IF reconcileBillingPaymentEvidence(txns[sub], sub, work[p].code)
         THEN work' = [work EXCEPT ![p].at = "find", ![p].seen = txns[sub]]
         ELSE Stop(p)
    /\ UNCHANGED <<epochs, snapshots, sub, customer, atProvider, txns, evidence, activation, grant>>

findByIdempotencyKey(p) ==
    /\ work[p].at = "find"
    /\ IF evidence = NoTxn THEN Go(p, "record")
       ELSE IF evidence.paid = work[p].seen.paid /\ evidence.status = work[p].seen.status THEN Stop(p)
       ELSE Go(p, "refused")
    /\ UNCHANGED <<epochs, snapshots, sub, customer, atProvider, txns, evidence, activation, grant>>

\* The loser of ON CONFLICT compares hashes that include the instant each
\* process verified at: they never agree.
evidenceEqual(p) == FALSE
recordTransaction(p) ==
    /\ work[p].at = "record"
    /\ evidence' = IF evidence = NoTxn THEN work[p].seen ELSE evidence
    /\ IF evidence = NoTxn \/ evidenceEqual(p) THEN Stop(p) ELSE Go(p, "refused")
    /\ UNCHANGED <<epochs, snapshots, sub, customer, atProvider, txns, activation, grant>>

respond(p) ==
    /\ work[p].at = "refused" /\ Stop(p)
    /\ UNCHANGED <<epochs, snapshots, sub, customer, atProvider, txns, evidence, activation, grant>>

----------------------------------------------------------------------------
(* Activation, grants and what the account may use.                        *)

billing_subscription_activations_coherent(e) == e = sub /\ e \in snapshots

\* One transaction under the subscription's row lock.
activate ==
    /\ RowLocked /\ activation = None /\ evidence # NoTxn
    /\ reconcileBillingPaymentEvidence(evidence, sub, customer.code)
    /\ billing_subscription_activations_coherent(sub)
    /\ activation' = sub
    /\ UNCHANGED <<epochs, snapshots, sub, customer, atProvider, txns, evidence, grant, work>>

USER_PLANS == <<"free", "pro", "premium">>
TierRank(tier) == CHOOSE i \in 1..3 : USER_PLANS[i] = tier
internalPlanForCommercialPlan(plan) == IF plan = "elite" THEN "premium" ELSE plan

resolvePaidTier(row, active) ==
    IF row \in Epochs /\ active THEN internalPlanForCommercialPlan(PlanOf(row)) ELSE "free"
resolveEntitlements(row, active, granted) == IF granted # "none" THEN granted ELSE resolvePaidTier(row, active)
readPaidTier == resolvePaidTier(sub, activation # None)
getBillingState == resolveEntitlements(sub, activation # None, grant)

grantNarrowsPaidTier(paid, plan) == TierRank(paid) > TierRank(plan)

\* The users row FOR UPDATE serialises grants; the paid tier is read without
\* the subscription's lock.
beginGrant(p, plan) ==
    /\ work[p].at = "idle" /\ grant = "none"
    /\ \A q \in Buyers : work[q].at # "grant"
    /\ ~grantNarrowsPaidTier(readPaidTier, plan)
    /\ work' = [work EXCEPT ![p] = [Idle EXCEPT !.at = "grant", !.epoch = <<0, plan>>]]
    /\ UNCHANGED <<epochs, snapshots, sub, customer, atProvider, txns, evidence, activation, grant>>

grantTier(p) ==
    /\ work[p].at = "grant"
    /\ grant' = work[p].epoch[2]
    /\ Stop(p)
    /\ UNCHANGED <<epochs, snapshots, sub, customer, atProvider, txns, evidence, activation>>

\* Only the row no sale, payment or activation stands on is removed.
remediate ==
    /\ sub = Legacy /\ evidence = NoTxn /\ activation = None
    /\ sub' = None
    /\ UNCHANGED <<epochs, snapshots, customer, atProvider, txns, evidence, activation, grant, work>>

----------------------------------------------------------------------------
BuyerStep(p) ==
    \/ \E plan \in CataloguePlans : checkout(p, plan)
    \/ selectLock(p) \/ obtainLock(p) \/ openTransaction(p)
    \/ ensureCustomer(p) \/ provision(p) \/ providerUnavailable(p) \/ persist(p)
    \/ confirm(p) \/ verifyPayment(p) \/ findByIdempotencyKey(p) \/ recordTransaction(p) \/ respond(p)
    \/ \E plan \in {"pro", "premium"} : beginGrant(p, plan)
    \/ grantTier(p)

CheckoutNext ==
    \/ \E p \in Buyers : BuyerStep(p)
    \/ \E b \in Batches : registerEpochs(b)
    \/ \E e \in Epochs : retire(e) \/ pay(e)
    \/ providerCustomerReplaced \/ activate \/ remediate

CheckoutSpec == CheckoutInit /\ [][CheckoutNext]_checkoutVars

----------------------------------------------------------------------------
(* Properties.                                                             *)

\* Whatever checkouts race and whatever epochs are retired meanwhile, the
\* account has one sale: every stored snapshot, every transaction opened at the
\* provider, the evidence and the activation are of the lock its row carries.
OneSalePerAccount ==
    /\ snapshots \subseteq {sub}
    /\ \A e \in Epochs : txns[e] # NoTxn => sub = e
    /\ evidence # NoTxn => evidence.paid = sub
    /\ activation # None => activation = sub

SaleIsOpen == sub' # sub /\ sub' \in Epochs => epochs'[sub'] = "active"

\* A row is sold only at the price of an epoch that is still active when the
\* sale commits, although the epoch was chosen requests earlier
\* (assertCandidateEpochStillActive, FOR SHARE).
SoldWhileActive == [][SaleIsOpen]_checkoutVars

\* A tier above free is a grant, or was paid for: the provider took exactly the
\* locked price, and evidence of it is stored.
PaidTierIsPaidFor ==
    getBillingState # "free" =>
        \/ grant # "none"
        \/ txns[sub].status = "success" /\ txns[sub].paid = sub /\ evidence = txns[sub]

IdentityKept == customer.status = "provisioned" => customer' = customer

\* A provisioned customer keeps its provider code, however many provisioning
\* requests finish late (persist writes only an unprovisioned row).
CustomerIdentityStable == [][IdentityKept]_checkoutVars

\* Buying a plan, as a whole.
SalesAreSound ==
    /\ [](CheckoutTypeOK /\ OneSalePerAccount /\ PaidTierIsPaidFor)
    /\ SoldWhileActive /\ CustomerIdentityStable
=============================================================================
