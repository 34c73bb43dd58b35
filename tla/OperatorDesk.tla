---------------------------- MODULE OperatorDesk ----------------------------
(***************************************************************************)
(* The three operator tools that write billing facts about one account:    *)
(* activation of a paid subscription (packages/core/src/billing/           *)
(* activation.ts), an entitlement grant (entitlement-grants.ts) and the    *)
(* removal of a legacy free row (legacy-free-row-remediation.ts).          *)
(*                                                                         *)
(* BillingCheckout takes each of them as one step of the sale; here they   *)
(* run statement by statement, several at once, against each other and     *)
(* against a checkout that writes the same row.  Each tool checks what the *)
(* operator typed, takes its row lock, decides, writes a fact and its      *)
(* audit event in the same transaction, and answers the operator.          *)
(***************************************************************************)
EXTENDS Naturals, Sequences, FiniteSets, SequencesExt

CONSTANTS
    DeskOperators,  \* people who run a tool
    Orders,         \* command lines they may type
    FirstAccounts,  \* accounts as the tools may find them
    SaleSnapshots,  \* pricing snapshots a row may be locked to
    Payments,       \* payment evidence the provider may confirm for them
    DeskMode        \* the configured provider mode, "test" or "live"

VARIABLES
    subRow,      \* the subscriptions row of the account
    proofs,      \* its billing_verified_transactions rows, oldest first
    activated,   \* billing_subscription_activations rows
    granted,     \* billing_entitlement_grants rows
    removed,     \* rows the remediation deleted
    audit,       \* audit events
    rowHolder, userHolder,   \* who holds the row locks, "nobody" if free
    tool         \* what each operator's tool is doing

deskVars == <<subRow, proofs, activated, granted, removed, audit, rowHolder, userHolder, tool>>
facts == <<subRow, proofs, activated, granted, removed, audit>>

NoSubRow == [kind |-> "none", snapshot |-> "none", plan |-> "none"]
LegacyRow == [kind |-> "free", snapshot |-> "none", plan |-> "free"]
SoldRow(s) == [kind |-> "sold", snapshot |-> s, plan |-> SaleSnapshots[s].plan]
Rows == {NoSubRow, LegacyRow} \cup {SoldRow(s) : s \in DOMAIN SaleSnapshots}
NoTool == [at |-> "ready", order |-> "none", read |-> NoSubRow, answer |-> "none", fact |-> "none"]

\* Nobody is called "nobody"; a command line names a tool and says whether to
\* apply; an epoch is sound, missing or excluded; an account starts with a row
\* of the schema and payments of the provider.
DeskAssumption ==
    /\ "nobody" \notin DeskOperators
    /\ \A q \in Orders : q.tool \in {"activate", "grant", "remediate"} /\ q.apply \in BOOLEAN
    /\ \A s \in DOMAIN SaleSnapshots : SaleSnapshots[s].epoch \in {"ok", "none", "excluded"}
    /\ \A a \in FirstAccounts : a.row \in Rows /\ a.proofs \in Seq(Payments)

Answer(o, a) == tool' = [tool EXCEPT ![o].at = "answered", ![o].answer = a]
FreeLocks(o) ==
    /\ rowHolder' = IF rowHolder = o THEN "nobody" ELSE rowHolder
    /\ userHolder' = IF userHolder = o THEN "nobody" ELSE userHolder
\* ROLLBACK, or the COMMIT of a transaction that wrote nothing.
EndTool(o, a) == Answer(o, a) /\ FreeLocks(o) /\ UNCHANGED facts

-----------------------------------------------------------------------------
(* What the operator typed                                                 *)

\* A name and a reason: not blank, not too long, not shaped like a credential.
operatorTextOrRefuse(text) == text = "ok"
assertActivationInput(q) == operatorTextOrRefuse(q.by) /\ operatorTextOrRefuse(q.reason)
assertGrantInput(q) ==
    /\ operatorTextOrRefuse(q.by) /\ operatorTextOrRefuse(q.reason)
    /\ q.plan \in {"pro", "premium"}

\* The account by its id or its exact, lower-case email; the remediation alone
\* folds the case of what was typed.
readUser(q) == q.user \in {"id", "email"}
readUserFolded(q) == q.user \in {"id", "email", "Email"}

start(o, q) ==
    LET accepted == CASE q.tool = "activate" -> assertActivationInput(q)
                      [] q.tool = "grant" -> assertGrantInput(q)
                      [] OTHER -> operatorTextOrRefuse(q.by) /\ operatorTextOrRefuse(q.reason)
        found == IF q.tool = "remediate" THEN readUserFolded(q) ELSE readUser(q)
    IN
    /\ tool[o].at \in {"ready", "answered"}
    /\ tool' = [tool EXCEPT ![o] =
                   IF accepted /\ found THEN [NoTool EXCEPT !.at = "lock", !.order = q]
                   ELSE [NoTool EXCEPT !.at = "answered", !.order = q, !.answer = "refused"]]
    /\ UNCHANGED <<facts, rowHolder, userHolder>>

-----------------------------------------------------------------------------
(* Activation                                                              *)

\* The row stays locked until the transaction ends.
selectSubscriptionForUpdate(o) ==
    /\ tool[o].at = "lock" /\ tool[o].order.tool = "activate"
    /\ rowHolder = "nobody" /\ userHolder' = userHolder
    /\ IF subRow = NoSubRow THEN Answer(o, "refused") /\ rowHolder' = rowHolder
       ELSE /\ tool' = [tool EXCEPT ![o].at = "decide", ![o].read = subRow]
            /\ rowHolder' = o
    /\ UNCHANGED facts

verifySnapshot(s) == SaleSnapshots[s].valid
assertActivatableBillingPlan(s) ==
    SaleSnapshots[s].plan # "starter" /\ SaleSnapshots[s].epoch \notin {"none", "excluded"}
assertSubscriptionCoherent(row) == row.plan = SaleSnapshots[row.snapshot].plan

\* The evidence the operator pinned, or a successful one of this mode, for
\* this row and the snapshot it is locked to.
EvidenceFits(q, row, e) ==
    /\ e.snapshot = row.snapshot
    /\ IF q.evidence # "any" THEN e.id = q.evidence ELSE e.domain = DeskMode /\ e.status = "success"

\* Newest first, the first only: no payment or one.
locateEvidence(q, row) ==
    {proofs[i] : i \in {n \in DOMAIN proofs :
                         /\ EvidenceFits(q, row, proofs[n])
                         /\ \A later \in DOMAIN proofs :
                               later > n => ~EvidenceFits(q, row, proofs[later])}}

Successful(e) == e.domain = DeskMode /\ e.status = "success"
\* Reference, amount, currency and customer against the locked snapshot.
Reconciles(e) == e.exact

\* Mutant: any stored payment of the row activates it.
activatesAnyPayment(q, row) ==
    /\ row.snapshot # "none" /\ verifySnapshot(row.snapshot)
    /\ assertActivatableBillingPlan(row.snapshot) /\ assertSubscriptionCoherent(row)
    /\ locateEvidence(q, row) # {}

Activatable(q, row) ==
    /\ row.snapshot # "none" /\ verifySnapshot(row.snapshot)
    /\ assertActivatableBillingPlan(row.snapshot) /\ assertSubscriptionCoherent(row)
    /\ \E e \in locateEvidence(q, row) : Successful(e) /\ Reconciles(e)

billingSubscriptionActivationIdempotencyKey(e, s) == <<e.id, s>>

\* A fact that exists is answered again, never written again.
replayResult(o) == EndTool(o, "already_activated")

decideActivation(o) ==
    LET q == tool[o].order
        row == tool[o].read
    IN
    /\ tool[o].at = "decide" /\ q.tool = "activate"
    /\ \/ activated # {} /\ replayResult(o)
       \/ activated = {} /\ ~Activatable(q, row) /\ EndTool(o, "refused")
       \/ /\ activated = {} /\ Activatable(q, row)
          /\ \E e \in locateEvidence(q, row) :
                tool' = [tool EXCEPT ![o].at = "audit",
                           ![o].fact = [key |-> billingSubscriptionActivationIdempotencyKey(e, row.snapshot),
                                        by |-> o, row |-> row, payment |-> e]]
          /\ UNCHANGED <<facts, rowHolder, userHolder>>

\* The fact and its audit event commit together, or not at all.
commitActivation(o) ==
    /\ tool[o].at = "audit" /\ tool[o].order.tool = "activate"
    /\ \/ /\ activated' = activated \cup {tool[o].fact}
          /\ audit' = audit \cup {<<"activated", o, tool[o].fact>>}
          /\ Answer(o, "activated") /\ FreeLocks(o)
          /\ UNCHANGED <<subRow, proofs, granted, removed>>
       \/ EndTool(o, "refused")                    \* the audit insert failed

-----------------------------------------------------------------------------
(* Grants                                                                  *)

Rank(plan) == CASE plan \in {"none", "free"} -> 0 [] plan = "pro" -> 1 [] OTHER -> 2
PaidTier == IF subRow.kind = "sold" /\ activated # {} THEN subRow.plan ELSE "free"
NarrowsPaidTier(q) == Rank(PaidTier) > Rank(q.plan)

billingEntitlementGrantIdempotencyKey(q) == <<"owner", q.plan>>
candidateGrant(o, q) == [key |-> billingEntitlementGrantIdempotencyKey(q), by |-> o, plan |-> q.plan]

\* A dry run reads in a READ ONLY transaction and takes no lock.
lockUser(o) ==
    /\ tool[o].at = "lock" /\ tool[o].order.tool = "grant"
    /\ IF tool[o].order.apply THEN userHolder = "nobody" /\ userHolder' = o
       ELSE userHolder' = userHolder
    /\ tool' = [tool EXCEPT ![o].at = "existing"]
    /\ UNCHANGED <<facts, rowHolder>>

findByUserId(o) ==
    LET q == tool[o].order IN
    /\ tool[o].at = "existing"
    /\ \/ /\ granted = {}
          /\ tool' = [tool EXCEPT ![o].at = "narrow"]
          /\ UNCHANGED <<facts, rowHolder, userHolder>>
       \/ /\ granted # {}
          /\ EndTool(o, IF \A g \in granted : g.plan = q.plan THEN "already_granted" ELSE "refused")

assertGrantDoesNotNarrow(o) ==
    LET q == tool[o].order IN
    /\ tool[o].at = "narrow"
    /\ \/ NarrowsPaidTier(q) /\ EndTool(o, "refused")
       \/ ~NarrowsPaidTier(q) /\ ~q.apply /\ EndTool(o, "dry_run")
       \/ /\ ~NarrowsPaidTier(q) /\ q.apply
          /\ tool' = [tool EXCEPT ![o].at = "audit", ![o].fact = candidateGrant(o, q)]
          /\ UNCHANGED <<facts, rowHolder, userHolder>>

\* The unique index on the account refuses a second grant.
mapDatabaseRefusal(o) == granted # {}

commitGrant(o) ==
    /\ tool[o].at = "audit" /\ tool[o].order.tool = "grant"
    /\ \/ /\ ~mapDatabaseRefusal(o)
          /\ granted' = granted \cup {tool[o].fact}
          /\ audit' = audit \cup {<<"granted", o, tool[o].fact>>}
          /\ Answer(o, "granted") /\ FreeLocks(o)
          /\ UNCHANGED <<subRow, proofs, activated, removed>>
       \/ EndTool(o, "refused")                    \* refused, or the audit insert failed

-----------------------------------------------------------------------------
(* Removal of a legacy free row                                            *)

\* Mutant: a row with a pricing lock may still be a placeholder.
PredicatesIgnoringLock(row) == proofs = <<>> /\ activated = {} /\ row # NoSubRow

\* Thirty predicates: a free, unsold, unsynchronised row no evidence stands on.
LEGACY_FREE_ROW_PREDICATES(row) == row = LegacyRow /\ proofs = <<>> /\ activated = {}

\* FOR UPDATE only when the tool will delete.
selectRow(o) ==
    /\ tool[o].at = "lock" /\ tool[o].order.tool = "remediate"
    /\ tool[o].order.apply => rowHolder = "nobody"
    /\ IF subRow = NoSubRow THEN Answer(o, "absent") /\ UNCHANGED <<rowHolder, userHolder>>
       ELSE /\ tool' = [tool EXCEPT ![o].at = "check", ![o].read = subRow]
            /\ rowHolder' = IF tool[o].order.apply THEN o ELSE rowHolder
            /\ UNCHANGED userHolder
    /\ UNCHANGED facts

\* The predicates are evaluated by a statement of their own, on the row as it
\* is then.
checkPredicates(o) ==
    LET q == tool[o].order IN
    /\ tool[o].at = "check"
    /\ \/ ~LEGACY_FREE_ROW_PREDICATES(subRow) /\ EndTool(o, "refused")
       \/ LEGACY_FREE_ROW_PREDICATES(subRow) /\ ~q.apply /\ EndTool(o, "dry_run")
       \/ /\ LEGACY_FREE_ROW_PREDICATES(subRow) /\ q.apply
          /\ tool' = [tool EXCEPT ![o].at = "delete"]
          /\ UNCHANGED <<facts, rowHolder, userHolder>>

\* The DELETE repeats every predicate; its audit event commits with it.
deleteRow(o) ==
    LET fact == [by |-> o, row |-> subRow] IN
    /\ tool[o].at = "delete"
    /\ \/ /\ LEGACY_FREE_ROW_PREDICATES(subRow)
          /\ removed' = removed \cup {fact}
          /\ subRow' = NoSubRow
          /\ audit' = audit \cup {<<"removed", o, fact>>}
          /\ Answer(o, "removed") /\ FreeLocks(o)
          /\ UNCHANGED <<proofs, activated, granted>>
       \/ EndTool(o, "refused")          \* the row changed, or the audit insert failed

-----------------------------------------------------------------------------
(* The account lives on meanwhile                                          *)

\* A checkout sells a row-less account, or waits for whoever holds its row.
sell(s) ==
    /\ subRow = NoSubRow /\ rowHolder = "nobody"
    /\ subRow' = SoldRow(s)
    /\ UNCHANGED <<proofs, activated, granted, removed, audit, rowHolder, userHolder, tool>>

\* Evidence references the row, so its insert waits for the row's lock.
recordEvidence(e) ==
    /\ subRow.snapshot = e.snapshot /\ rowHolder = "nobody"
    /\ ~Contains(proofs, e)
    /\ proofs' = Append(proofs, e)
    /\ UNCHANGED <<subRow, activated, granted, removed, audit, rowHolder, userHolder, tool>>

OperatorStep(o) ==
    \/ \E q \in Orders : start(o, q)
    \/ selectSubscriptionForUpdate(o) \/ decideActivation(o) \/ commitActivation(o)
    \/ lockUser(o) \/ findByUserId(o) \/ assertGrantDoesNotNarrow(o) \/ commitGrant(o)
    \/ selectRow(o) \/ checkPredicates(o) \/ deleteRow(o)

DeskInit ==
    /\ \E a \in FirstAccounts : subRow = a.row /\ proofs = a.proofs
    /\ activated = {} /\ granted = {} /\ removed = {} /\ audit = {}
    /\ rowHolder = "nobody" /\ userHolder = "nobody"
    /\ tool = [o \in DeskOperators |-> NoTool]

DeskNext ==
    \/ \E o \in DeskOperators : OperatorStep(o)
    \/ \E s \in DOMAIN SaleSnapshots : sell(s)
    \/ \E e \in Payments : recordEvidence(e)

DeskSpec == DeskInit /\ [][DeskNext]_deskVars

-----------------------------------------------------------------------------
(* Properties                                                              *)

\* The locks, rows and tools hold values of their types.
DeskTypeOK ==
    /\ subRow \in Rows
    /\ ToSet(proofs) \subseteq Payments
    /\ rowHolder \in DeskOperators \cup {"nobody"} /\ userHolder \in DeskOperators \cup {"nobody"}
    /\ \A o \in DeskOperators :
          /\ tool[o].at \in {"ready", "lock", "decide", "existing", "narrow", "check", "delete",
                             "audit", "answered"}
          /\ tool[o].answer \in {"none", "refused", "activated", "already_activated", "granted",
                                 "already_granted", "dry_run", "removed", "absent"}

\* Every fact has one audit event, by the operator who wrote it, and every
\* event a fact: the transaction of each tool is whole.
TrailMatchesFacts ==
    audit = {<<"activated", f.by, f>> : f \in activated}
                \cup {<<"granted", f.by, f>> : f \in granted}
                \cup {<<"removed", f.by, f>> : f \in removed}

\* An account is activated once and granted once, however many operators try.
FactsAreSingle == Cardinality(activated) <= 1 /\ Cardinality(granted) <= 1

\* An activation stands on a successful, exact payment of this mode for the
\* snapshot the row is locked to, and the row it was decided on is still there.
ActivationStandsOnPayment ==
    \A f \in activated :
        /\ Successful(f.payment) /\ f.payment.exact /\ f.payment.snapshot = f.row.snapshot
        /\ subRow = f.row
        /\ SaleSnapshots[f.row.snapshot].epoch = "ok"

\* Only placeholders are removed: no row that was sold or paid ever is.
OnlyPlaceholdersRemoved == \A f \in removed : f.row = LegacyRow

\* What a tool told its operator is what the tables say.
AnswersAreTrue ==
    \A o \in DeskOperators :
        LET a == tool[o].answer IN
        /\ a = "activated" => \E f \in activated : f.by = o
        /\ a = "already_activated" => activated # {}
        /\ a = "granted" => \E f \in granted : f.by = o /\ f.plan = tool[o].order.plan
        /\ a = "already_granted" => \E f \in granted : f.plan = tool[o].order.plan
        /\ a = "removed" => \E f \in removed : f.by = o

\* The operator tools are accountable: their facts are audited, single, earned
\* and truthfully reported, whatever order the tools and the checkout run in.
OperatorActsAreAccountable ==
    /\ DeskTypeOK /\ TrailMatchesFacts /\ FactsAreSingle /\ ActivationStandsOnPayment
    /\ OnlyPlaceholdersRemoved /\ AnswersAreTrue
=============================================================================
