---------------------------- MODULE CheckoutPage ----------------------------
(***************************************************************************)
(* The settings page's checkout surface in several browser tabs of one     *)
(* account (apps/web/app/settings/page.tsx, components/billing-checkout.tsx,*)
(* contracts/billing-checkout.ts, apps/api/src/routes/billing.ts).         *)
(*                                                                         *)
(* The page reads the billing state with requests whose answers arrive in  *)
(* any order, or not at all, and calls the server to create a checkout and *)
(* to verify the payment.  A reload forgets the page and what was on its   *)
(* way to it; the server still carries out a call it was sent.  Of the     *)
(* server this module keeps what BillingCheckout shows it promises: one    *)
(* immutable lock, evidence only of a payment, activation only by an       *)
(* operator and only with evidence.                                        *)
(***************************************************************************)
EXTENDS Naturals, FiniteSets

CONSTANTS
    Tabs,
    PlanChoices, \* BILLING_CHECKOUT_CHOICES
    NoChoice,
    MaxReads    \* bound on a tab's billing reads that are not yet applied

PageAssumption == PlanChoices # {} /\ NoChoice \notin PlanChoices /\ MaxReads \in Nat \ {0}

VARIABLES
    account,    \* the server: locked choice, payment link issued, paid, evidence, activated
    page,       \* a tab's component state
    reads,      \* a tab's billing reads the server has not answered yet
    answers,    \* answers on their way to the tab
    call        \* the tab's checkout or verify call: kind, choice, still awaited, reply

pageVars == <<account, page, reads, answers, call>>

NoSession == [choice |-> NoChoice, link |-> FALSE]
NoCall == [kind |-> "none", choice |-> NoChoice, awaited |-> FALSE, reply |-> "none", session |-> NoSession]
NotRead == [read |-> FALSE, provider |-> FALSE, confirmed |-> FALSE]

\* The component as it is first rendered.
FreshPage(choice) ==
    [billing |-> NotRead, unavailable |-> FALSE, evidenceRecorded |-> FALSE, selected |-> choice,
     session |-> NoSession, verified |-> FALSE, busy |-> "idle"]

FirstChoice == CHOOSE c \in PlanChoices : TRUE

PageInit ==
    /\ account = [locked |-> NoChoice, link |-> FALSE, paid |-> FALSE, evidence |-> FALSE, activated |-> FALSE]
    /\ page = [t \in Tabs |-> FreshPage(FirstChoice)]
    /\ reads = [t \in Tabs |-> 1] /\ answers = [t \in Tabs |-> {}]
    /\ call = [t \in Tabs |-> NoCall]

PageTypeOK ==
    /\ account.locked \in PlanChoices \cup {NoChoice}
    /\ \A t \in Tabs : /\ page[t].selected \in PlanChoices /\ page[t].busy \in {"idle", "checkout", "verify"}
                       /\ reads[t] + Cardinality(answers[t]) \in 0 .. MaxReads + 1
                       /\ call[t].reply \in {"none", "session", "verified", "unverified", "error"}

-----------------------------------------------------------------------------
(* What the page shows.                                                    *)

\* Server facts outrank what this page was told, and a state that could not
\* be read is not the free plan.
resolveBillingCheckoutState(p) ==
    CASE ~p.billing.read -> "unavailable"
      [] p.billing.read /\ p.billing.confirmed -> "activated"
      [] p.billing.read /\ ~p.billing.confirmed /\ p.evidenceRecorded -> "evidence_recorded"
      [] p.billing.read /\ ~p.billing.confirmed /\ ~p.evidenceRecorded /\ p.billing.provider -> "awaiting_verification"
      [] OTHER -> IF p.unavailable THEN "unavailable" ELSE "free"

billingCheckoutOffered(state) == state \in {"free", "awaiting_verification"}

Offers(t) == billingCheckoutOffered(resolveBillingCheckoutState(page[t]))

\* BillingCheckoutSessionDisclosure, rendered while checkout is offered: the
\* payment link, and the notice that another choice is locked.
ShowsLink(t) == Offers(t) /\ page[t].session.link
lockedPlanDiffers(t) == page[t].session.choice \notin {NoChoice, page[t].selected}

-----------------------------------------------------------------------------
(* Reading the billing state.                                              *)

\* loadBilling sends a read; a read more than the bound is not sent.
Loaded(t) == reads' = [reads EXCEPT ![t] = IF @ + Cardinality(answers[t]) < MaxReads THEN @ + 1 ELSE @]

\* GET /api/billing/me.
getBillingState(t, ok) ==
    /\ reads[t] > 0
    /\ reads' = [reads EXCEPT ![t] = @ - 1]
    /\ answers' = [answers EXCEPT ![t] = @ \cup
         {IF ok THEN [read |-> TRUE, provider |-> account.locked # NoChoice, confirmed |-> account.activated]
          ELSE NotRead}]
    /\ UNCHANGED <<account, page, call>>

\* An answer is applied when it arrives, whichever read it answers.
applyBilling(t, a) ==
    /\ a \in answers[t] /\ answers' = [answers EXCEPT ![t] = @ \ {a}]
    /\ page' = [page EXCEPT ![t].billing = a, ![t].unavailable = ~a.read]
    /\ UNCHANGED <<account, reads, call>>

reload(t) ==
    /\ page' = [page EXCEPT ![t] = FreshPage(FirstChoice)]
    /\ reads' = [reads EXCEPT ![t] = 1] /\ answers' = [answers EXCEPT ![t] = {}]
    /\ call' = [call EXCEPT ![t] = IF @.reply = "none" THEN [@ EXCEPT !.awaited = FALSE] ELSE NoCall]
    /\ UNCHANGED account

-----------------------------------------------------------------------------
(* The choices, the checkout and the verification.                         *)

select(t, choice) ==
    /\ Offers(t) /\ page[t].busy = "idle" /\ choice # page[t].selected
    /\ page' = [page EXCEPT ![t].selected = choice]
    /\ UNCHANGED <<account, reads, answers, call>>

\* One call of a tab at a time is on its way (a reload may leave one behind).
createCheckout(t) ==
    /\ Offers(t) /\ page[t].busy = "idle" /\ call[t] = NoCall
    /\ page' = [page EXCEPT ![t].busy = "checkout", ![t].session = NoSession, ![t].verified = FALSE]
    /\ call' = [call EXCEPT ![t] = [NoCall EXCEPT !.kind = "checkout", !.choice = page[t].selected, !.awaited = TRUE]]
    /\ UNCHANGED <<account, reads, answers>>

verifyPayment(t) ==
    /\ ShowsLink(t) /\ page[t].busy = "idle" /\ call[t] = NoCall
    /\ page' = [page EXCEPT ![t].busy = "verify"]
    /\ call' = [call EXCEPT ![t] = [NoCall EXCEPT !.kind = "verify", !.awaited = TRUE]]
    /\ UNCHANGED <<account, reads, answers>>

\* A reply nobody awaits any more is dropped.
Reply(t, reply, session) ==
    call' = [call EXCEPT ![t] = IF @.awaited THEN [@ EXCEPT !.reply = reply, !.session = session] ELSE NoCall]

\* projectBillingCheckoutSession: the price is the locked one, and the link is
\* there only with it.
projectBillingCheckoutSession(locked, initialized) == [choice |-> locked, link |-> initialized]

\* POST /api/billing/checkout: the first call locks its choice and later ones
\* find that lock; refused before it, or after it by the provider, whose
\* session may also say that it was not initialized.
postCheckout(t, outcome) ==
    /\ call[t].kind = "checkout" /\ call[t].reply = "none"
    /\ LET locked == IF account.locked = NoChoice THEN call[t].choice ELSE account.locked IN
       IF outcome = "refused" THEN UNCHANGED account /\ Reply(t, "error", NoSession)
       ELSE /\ account' = [account EXCEPT !.locked = locked, !.link = @ \/ outcome = "initialized"]
            /\ IF outcome = "failed" THEN Reply(t, "error", NoSession)
               ELSE Reply(t, "session", projectBillingCheckoutSession(locked, outcome = "initialized"))
    /\ UNCHANGED <<page, reads, answers>>

\* POST /api/billing/verify: evidence of a payment, recorded once.
postVerify(t, ok) ==
    /\ call[t].kind = "verify" /\ call[t].reply = "none"
    /\ IF ~ok THEN UNCHANGED account /\ Reply(t, "error", NoSession)
       ELSE /\ account' = [account EXCEPT !.evidence = @ \/ account.paid]
            /\ Reply(t, IF account.paid THEN "verified" ELSE "unverified", NoSession)
    /\ UNCHANGED <<page, reads, answers>>

\* The rest of createCheckout: the billing state is read again either way.
checkoutReplied(t) ==
    /\ call[t].kind = "checkout" /\ call[t].reply # "none"
    /\ page' = [page EXCEPT ![t].busy = "idle", ![t].session = call[t].session]
    /\ call' = [call EXCEPT ![t] = NoCall]
    /\ Loaded(t)
    /\ UNCHANGED <<account, answers>>

\* The rest of verifyPayment and handleEvidenceRecorded.
verifyReplied(t) ==
    /\ call[t].kind = "verify" /\ call[t].reply # "none"
    /\ LET verified == call[t].reply = "verified"
       IN  page' = [page EXCEPT ![t].busy = "idle", ![t].verified = verified, ![t].evidenceRecorded = @ \/ verified]
    /\ call' = [call EXCEPT ![t] = NoCall]
    /\ UNCHANGED <<account, reads, answers>>

-----------------------------------------------------------------------------
(* The buyer on another device or on the provider's page, and the operator. *)

\* postCheckout and postVerify, as an unmodelled tab calls them.
elsewhere(choice) ==
    /\ \/ /\ account.locked = NoChoice
          /\ \E link \in BOOLEAN : account' = [account EXCEPT !.locked = choice, !.link = link]
       \/ account.paid /\ ~account.evidence /\ account' = [account EXCEPT !.evidence = TRUE]
    /\ UNCHANGED <<page, reads, answers, call>>

payOnProviderPage ==
    /\ account.link /\ ~account.paid
    /\ account' = [account EXCEPT !.paid = TRUE]
    /\ UNCHANGED <<page, reads, answers, call>>

operatorActivates ==
    /\ account.evidence /\ ~account.activated
    /\ account' = [account EXCEPT !.activated = TRUE]
    /\ UNCHANGED <<page, reads, answers, call>>

TabNext(t) ==
    \/ \E ok \in BOOLEAN : getBillingState(t, ok) \/ postVerify(t, ok)
    \/ \E a \in answers[t] : applyBilling(t, a)
    \/ \E c \in PlanChoices : select(t, c)
    \/ \E outcome \in {"refused", "failed", "not_initialized", "initialized"} : postCheckout(t, outcome)
    \/ reload(t) \/ createCheckout(t) \/ verifyPayment(t) \/ checkoutReplied(t) \/ verifyReplied(t)

PageNext ==
    \/ payOnProviderPage \/ operatorActivates \/ \E c \in PlanChoices : elsewhere(c)
    \/ \E t \in Tabs : TabNext(t)

PageSpec == PageInit /\ [][PageNext]_pageVars

-----------------------------------------------------------------------------
(* Properties.                                                             *)

\* However answers, reloads, tabs and the operator interleave, the page claims
\* nothing the server does not hold: activation and evidence are on record;
\* a price on show is the locked one, and a selection that differs from it is
\* said to differ; and a tab that was told of its evidence offers no further
\* payment until it is reloaded, whatever older answer arrives afterwards.
PageIsHonest ==
    \A t \in Tabs :
        /\ resolveBillingCheckoutState(page[t]) = "activated" => account.activated /\ account.paid
        /\ resolveBillingCheckoutState(page[t]) = "evidence_recorded" => account.evidence /\ account.paid
        /\ page[t].session.choice # NoChoice =>
             /\ page[t].session.choice = account.locked
             /\ lockedPlanDiffers(t) <=> page[t].selected # account.locked
        /\ page[t].evidenceRecorded => ~Offers(t) /\ ~ShowsLink(t)
        /\ ShowsLink(t) => account.link
=============================================================================
