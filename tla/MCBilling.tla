------------------------------ MODULE MCBilling ------------------------------
(* Accounts and billing, for TLC: sessions, checkout, synchronisation,       *)
(* pricing, exchange-rate observations, the payment provider's adapter and   *)
(* the operator tools.  A behaviour exercises one component: `focus` says    *)
(* which and never changes.  Pricing and the checkout page are instantiated  *)
(* on the slots v1 .. v6; the others keep their own variables.               *)
EXTENDS AccountSessions, BillingSync, FxObservations, PaystackAdapter, OperatorDesk, BillingCheckout, TLC

CONSTANTS m1, m2        \* interchangeable processes, sessions and codes

VARIABLES focus, v1, v2, v3, v4, v5, v6

slots == <<v1, v2, v3, v4, v5, v6>>
ownVars == <<accountVars, syncVars, observationVars, adapterVars, deskVars, checkoutVars>>
mcVars == <<ownVars, focus, slots>>

MCPair == {m1, m2}
MCSymmetry == Permutations(MCPair)

-----------------------------------------------------------------------------
(* Synchronisation: two events of one account and one of another that        *)
(* carries the same code.                                                    *)

MCEventUser == [e1 |-> "u1", e3 |-> "u2"]
MCEventCode == [e1 |-> "k1", e3 |-> "k1"]
MCEventKind == [e1 |-> "subscription.created", e3 |-> "subscription.created"]
MCEventAt == [e1 |-> 1, e3 |-> 1]
MCStateAt == <<"active", "canceled">>
MCIdOf == [k1 |-> "i1", k2 |-> "i1"]

-----------------------------------------------------------------------------
(* Checkout: two requests, two registrations of epochs of one plan.          *)

TwoBuyers == {"p1", "p2"}
TwoBatches == {1, 2}
OnePlan == {"elite"}
TwoCodes == {"c1", "c2"}
Nothing == {}
NoneOrLegacy == {"none", "legacy"}

-----------------------------------------------------------------------------
(* Pricing: two plans, two deployable catalogues, a rate of 2.5 that goes    *)
(* stale, and candidate rates with and without their evidence.               *)

TwoPlans == <<"pro", "elite">>
TwoCatalogues == {("pro" :> 3) @@ ("elite" :> 5), ("pro" :> 4) @@ ("elite" :> 5)}
OneRate == {25}
BothCodes == {m1, m2}
PricedAt == {0, 25, 35}
LiveOnly == {"live"}
AllEvidence == {"source", "sourceReference", "operator", "reason", "fxSource", "currencies"}
Best == [decimal |-> <<2, 5, 1>>, flagged |-> FALSE, supplied |-> AllEvidence,
         captured |-> 1, from |-> 1]
Offered ==
    {[Best EXCEPT !.decimal = d, !.captured = c, !.from = f] :
        d \in {<<2, 5, 1>>, <<0, 5, 1>>, <<0, 0, 1>>, <<1, 25, 2>>}, c \in 0 .. 2, f \in 0 .. 2}
    \cup {[Best EXCEPT !.flagged = b, !.supplied = e] :
        b \in BOOLEAN, e \in {AllEvidence, AllEvidence \ {"reason"}}}

Pricing == INSTANCE BillingPricing WITH
    PlanMatrix <- TwoPlans, Catalogues <- TwoCatalogues, Rates <- OneRate, RateUnit <- 10,
    MinimumMinor <- 4, MaxAge <- 1, PlanCodes <- BothCodes, ExcludedCodes <- Nothing,
    DashboardRates <- PricedAt, ProviderModes <- LiveOnly, Registrars <- MCPair,
    Candidates <- Offered, MaxTime <- 2, MaxVersions <- 1,
    versions <- v1, epochRows <- v2, registrar <- v3, quotes <- v4, catalogue <- v5, clock <- v6

-----------------------------------------------------------------------------
(* The adapter: two calls on one reference, and deliveries of every shape.   *)

Payloads ==
    [name : {"unreadable", "other", "charge.success", "subscription.create", "invoice.update",
             "invoice.payment_failed"},
     well : BOOLEAN, domain : {"test", "live"}, status : {"success", "active", "odd"},
     currency : BOOLEAN, amounts : BOOLEAN, paid : BOOLEAN]

-----------------------------------------------------------------------------
(* The operator tools: two operators, every tool, dry runs, orders that the  *)
(* tool refuses, and three payments of which one fits.                       *)

Locks == [s1 |-> [plan |-> "premium", valid |-> TRUE, epoch |-> "ok"],
          s2 |-> [plan |-> "pro", valid |-> TRUE, epoch |-> "excluded"]]
Payment(id, snapshot, exact) ==
    [id |-> id, snapshot |-> snapshot, domain |-> "test", status |-> "success", exact |-> exact]
Paid == {Payment("e1", "s1", TRUE), Payment("e2", "s1", FALSE), Payment("e3", "s2", TRUE)}
Activate == [tool |-> "activate", user |-> "id", by |-> "ok", reason |-> "ok", plan |-> "none",
             evidence |-> "any", apply |-> TRUE]
Grant == [Activate EXCEPT !.tool = "grant", !.plan = "pro"]
Remediate == [Activate EXCEPT !.tool = "remediate", !.user = "Email"]
Typed == {Activate, [Activate EXCEPT !.evidence = "e1"], [Activate EXCEPT !.by = "credential"],
          [Activate EXCEPT !.user = "Email"], Grant, [Grant EXCEPT !.apply = FALSE],
          [Grant EXCEPT !.plan = "starter"], Remediate, [Remediate EXCEPT !.apply = FALSE]}
Start == {[row |-> row, proofs |-> <<>>] : row \in {NoSubRow, LegacyRow}}

-----------------------------------------------------------------------------
(* The checkout page: one tab whose reads may overtake each other, while     *)
(* other devices act on the same account.                                    *)

OneTab == {"tab"}
TwoChoices == {"pro", "elite"}

Page == INSTANCE CheckoutPage WITH
    Tabs <- OneTab, PlanChoices <- TwoChoices, NoChoice <- "none", MaxReads <- 2,
    account <- v1, page <- v2, reads <- v3, answers <- v4, call <- v5

ASSUME /\ CheckoutAssumption /\ Pricing!PricingAssumption /\ Page!PageAssumption
       /\ DeskAssumption /\ AdapterAssumption

-----------------------------------------------------------------------------
\* Only the component in focus starts in more than one state.
BillingInit ==
    /\ AccountsInit /\ SyncInit /\ ObservationInit /\ AdapterInit /\ DeskInit /\ CheckoutInit
    /\ \/ /\ focus \in {"accounts", "sync", "observe", "calls", "deliveries", "desk", "checkout"}
          /\ v1 = 0 /\ v2 = 0 /\ v3 = 0 /\ v4 = 0 /\ v5 = 0 /\ v6 = 0
       \/ focus = "pricing" /\ Pricing!PricingInit
       \/ focus = "page" /\ Page!PageInit /\ v6 = 0
    /\ focus # "desk" => subRow = NoSubRow
    /\ focus \notin {"calls", "deliveries"} => world.customer /\ world.sub = "none"
    /\ focus # "checkout" => sub = None /\ customer.status = "absent"

\* The other components of this module stay as they are.
Keeps(theirs) == UNCHANGED <<theirs, focus, slots>>

BillingNext ==
    \/ focus = "accounts" /\ AccountsNext
       /\ Keeps(<<syncVars, observationVars, adapterVars, deskVars, checkoutVars>>)
    \/ focus = "sync" /\ SyncNext
       /\ Keeps(<<accountVars, observationVars, adapterVars, deskVars, checkoutVars>>)
    \/ focus = "observe" /\ ObservationNext
       /\ Keeps(<<accountVars, syncVars, adapterVars, deskVars, checkoutVars>>)
    \/ focus = "calls" /\ CallsNext
       /\ Keeps(<<accountVars, syncVars, observationVars, deskVars, checkoutVars>>)
    \/ focus = "deliveries" /\ DeliveriesNext
       /\ Keeps(<<accountVars, syncVars, observationVars, deskVars, checkoutVars>>)
    \/ focus = "desk" /\ DeskNext
       /\ Keeps(<<accountVars, syncVars, observationVars, adapterVars, checkoutVars>>)
    \/ focus = "checkout" /\ CheckoutNext
       /\ Keeps(<<accountVars, syncVars, observationVars, adapterVars, deskVars>>)
    \/ focus = "pricing" /\ Pricing!PricingNext /\ UNCHANGED <<ownVars, focus>>
    \/ focus = "page" /\ Page!PageNext /\ UNCHANGED <<ownVars, focus, v6>>

BillingSpec == BillingInit /\ [][BillingNext]_mcVars

-----------------------------------------------------------------------------
(* SessionsAreSafe, SyncIsSound, AdapterTellsTruth,                          *)
(* OperatorActsAreAccountable and SalesAreSound are properties of            *)
(* AccountSessions, BillingSync, PaystackAdapter, OperatorDesk and           *)
(* BillingCheckout themselves, whose variables rest while the focus is       *)
(* elsewhere.                                                                *)

\* Prices and what is shown of them: whole batches of epochs, quotes that keep
\* their amount, exchange-rate observations that are made once, and a page that
\* claims nothing that is not so (BillingPricing, FxObservations, CheckoutPage).
PricesAreSound ==
    /\ focus = "pricing" => Pricing!PricingTypeOK /\ Pricing!BatchesAreWhole /\ Pricing!QuotesAreLocked
                         /\ Pricing!ValidMeansUsable
    /\ focus = "observe" => ObservationTypeOK /\ ObservationsSound
    /\ focus = "page" => Page!PageTypeOK /\ Page!PageIsHonest
==============================================================================
