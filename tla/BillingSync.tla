---------------------------- MODULE BillingSync ----------------------------
(***************************************************************************)
(* Provider webhooks and the synchronisation of subscriptions              *)
(* (packages/core/src/billing/webhook.ts, sync.ts, portal.ts; migrations   *)
(* 0031 and 0035).                                                         *)
(*                                                                         *)
(* A delivery records an event in the ledger under its idempotency key and *)
(* may bind the provider's subscription code to the row; a synchronisation *)
(* reads the row, asks the provider, and applies what it saw only if the   *)
(* row's state_version has not moved, settling the events it claims in the *)
(* same transaction.  The provider's view of a subscription moves through  *)
(* StateAt; `synced` is a ghost, the view last applied to the row.         *)
(***************************************************************************)
EXTENDS Naturals, Sequences, FiniteSets

CONSTANTS
    Accounts,
    SyncWorkers,    \* concurrent deliveries and synchronisations
    Events,         \* deliveries by idempotency key
    EventUser,      \* the account an event is about
    EventCode,      \* the provider subscription code it carries
    EventKind,      \* "subscription.created", "other" or "unrecognized"
    EventAt,        \* the provider's view it announces
    StateAt,        \* the provider's successive views, 1..Len(StateAt)
    IdOf,           \* provider subscription id behind a code
    ClaimLimit,     \* BILLING_PROVIDER_EVENT_CLAIM_LIMIT
    MaxStateVersion \* bound on state_version

ASSUME SyncAssumption ==
    /\ EventUser \in [Events -> Accounts] /\ EventCode \in [Events -> DOMAIN IdOf]
    /\ EventKind \in [Events -> {"subscription.created", "other", "unrecognized"}]
    /\ Len(StateAt) \in Nat \ {0} /\ EventAt \in [Events -> 1..Len(StateAt)]
    /\ "none" \notin Accounts \cup DOMAIN IdOf \cup {IdOf[c] : c \in DOMAIN IdOf}
    /\ ClaimLimit \in Nat \ {0} /\ MaxStateVersion \in Nat

VARIABLES
    rows,   \* subscriptions of the accounts
    ledger, \* billing_provider_events: [status, user]
    view,   \* how far the provider's view of each account has come
    task    \* what each worker does

syncVars == <<rows, ledger, view, task>>

Unset == "none"
NoRow == [exists |-> FALSE, version |-> 0, status |-> Unset, code |-> Unset, subId |-> Unset, sync |-> "never_synced", synced |-> 0]
Resting == [at |-> "idle", event |-> Unset, user |-> Unset, row |-> NoRow, seen |-> 0]
Settled == {"processed", "ignored", "failed"}
Statuses == {"active", "past_due", "canceled"}
Ids == {IdOf[c] : c \in DOMAIN IdOf}

SyncTypeOK ==
    /\ \A u \in Accounts :
         /\ rows[u].exists \in BOOLEAN /\ rows[u].version \in Nat /\ rows[u].synced \in 0..Len(StateAt)
         /\ rows[u].status \in Statuses \cup {Unset} /\ rows[u].sync \in {"never_synced", "pending", "synced", "conflict"}
         /\ rows[u].code \in DOMAIN IdOf \cup {Unset} /\ rows[u].subId \in Ids \cup {Unset}
    /\ ledger \in [Events -> [status : Settled \cup {"absent", "received"}, user : Accounts \cup {Unset}]]
    /\ view \in [Accounts -> 1..Len(StateAt)]
    /\ \A w \in SyncWorkers : task[w].at \in {"idle", "record", "owner", "bind", "verify", "apply"}

SyncInit ==
    /\ rows = [u \in Accounts |-> NoRow]
    /\ ledger = [e \in Events |-> [status |-> "absent", user |-> Unset]]
    /\ view = [u \in Accounts |-> 1]
    /\ task = [w \in SyncWorkers |-> Resting]

\* The account checks out: a provider-backed row with a pricing lock.
checkOut(u) ==
    /\ ~rows[u].exists
    /\ rows' = [rows EXCEPT ![u] = [NoRow EXCEPT !.exists = TRUE, !.version = 1, !.status = "active"]]
    /\ UNCHANGED <<ledger, view, task>>

\* The subscription moves on at the provider.
viewMoves(u) ==
    /\ view[u] < Len(StateAt)
    /\ view' = [view EXCEPT ![u] = @ + 1]
    /\ UNCHANGED <<rows, ledger, task>>

Forgets(w) == task' = [task EXCEPT ![w] = Resting]
Moves(w, place) == task' = [task EXCEPT ![w].at = place]

----------------------------------------------------------------------------
(* Deliveries.                                                             *)

\* One account answers to the identifiers the event carries, and it has a row.
createBillingEventSubjectResolver(e) == IF rows[EventUser[e]].exists THEN EventUser[e] ELSE Unset

\* receive: a delivery, or its redelivery at any later time.
receive(w, e) ==
    /\ task[w].at = "idle" /\ view[EventUser[e]] >= EventAt[e] /\ rows[EventUser[e]].version < MaxStateVersion
    /\ task' = [task EXCEPT ![w] = [Resting EXCEPT !.at = "record", !.event = e,
                                        !.user = createBillingEventSubjectResolver(e)]]
    /\ UNCHANGED <<rows, ledger, view>>

bindsCode(e, u) == EventKind[e] = "subscription.created" /\ u # Unset

\* INSERT ... ON CONFLICT (idempotency_key) DO NOTHING, then the code is bound
\* also when the event was known.
recordEvent(w) ==
    /\ task[w].at = "record"
    /\ LET e == task[w].event IN
         /\ ledger' = IF ledger[e].status = "absent"
                        THEN [ledger EXCEPT ![e] = [status |-> "received", user |-> task[w].user]] ELSE ledger
         /\ IF bindsCode(e, task[w].user) THEN Moves(w, "owner") ELSE Forgets(w)
    /\ UNCHANGED <<rows, view>>

Owners(code) == {u \in Accounts : rows[u].code = code}

bindSubscriptionCode(w) ==
    /\ task[w].at = "owner"
    /\ IF Owners(EventCode[task[w].event]) = {} THEN Moves(w, "bind") ELSE Forgets(w)
    /\ UNCHANGED <<rows, ledger, view>>

\* The guarded UPDATE; the unique index refuses a code another row took meanwhile.
BindableIfFree(row, code) == TRUE
Bindable(row, code) == row.code = Unset /\ row.subId \in {Unset, code}
bindProviderSubscriptionCode(w) ==
    /\ task[w].at = "bind"
    /\ LET code == EventCode[task[w].event]
           u == task[w].user IN
         rows' = IF Bindable(rows[u], code) /\ Owners(code) = {}
                   THEN [rows EXCEPT ![u].code = code, ![u].version = @ + 1] ELSE rows
    /\ Forgets(w)
    /\ UNCHANGED <<ledger, view>>

\* A process dies, or the provider does not answer: the delivery comes again.
abandon(w) ==
    /\ task[w].at # "idle" /\ Forgets(w)
    /\ UNCHANGED <<rows, ledger, view>>

----------------------------------------------------------------------------
(* Synchronisation.                                                        *)

readSubscription(w, u) ==
    /\ task[w].at = "idle" /\ rows[u].exists /\ rows[u].version < MaxStateVersion
    /\ task' = [task EXCEPT ![w] = [Resting EXCEPT !.at = "verify", !.user = u, !.row = rows[u]]]
    /\ UNCHANGED <<rows, ledger, view>>

verifyWithProvider(w) ==
    /\ task[w].at = "verify"
    /\ task' = [task EXCEPT ![w].at = "apply", ![w].seen = view[task[w].user]]
    /\ UNCHANGED <<rows, ledger, view>>

SUBSCRIPTION_STATUS_FOR_PROVIDER_STATE(state) ==
    IF state \in {"active", "past_due", "canceled"} THEN state ELSE Unset

\* The id a view shows is bound once the row is known by its code.
IdToBind(row) == IF row.code = Unset THEN Unset ELSE IdOf[row.code]

planSync(row, seen) ==
    LET state == StateAt[seen]
        target == SUBSCRIPTION_STATUS_FOR_PROVIDER_STATE(state) IN
    CASE state = "foreign" \/ (row.subId # Unset /\ IdToBind(row) # row.subId) -> "conflict"
      [] target # Unset -> IF target = row.status THEN "unchanged" ELSE "updated"
      [] state = "unprovisioned" -> "ignored"
      [] OTHER -> "requires_manual_review"

settlementFor(outcome, e) ==
    CASE outcome \in {"updated", "unchanged"} -> IF EventKind[e] = "unrecognized" THEN "ignored" ELSE "processed"
      [] outcome = "conflict" -> "failed"
      [] OTHER -> "ignored"

\* The earliest received events of the row, at most ClaimLimit of them.
claimReceivedBillingProviderEvents(u) ==
    LET received == {e \in Events : ledger[e] = [status |-> "received", user |-> u]} IN
    {S \in SUBSET received : Cardinality(S) = IF Cardinality(received) < ClaimLimit THEN Cardinality(received) ELSE ClaimLimit}

settleBillingProviderEvents(claimed, outcome) ==
    [e \in Events |-> IF e \in claimed THEN [ledger[e] EXCEPT !.status = settlementFor(outcome, e)] ELSE ledger[e]]

AnyVersion(w) == TRUE
SameVersion(w) == rows[task[w].user].version = task[w].row.version

\* The UPDATE of a synchronisation.
updateFromProvider(row, outcome, id, seen) ==
    LET settles == outcome \in {"updated", "unchanged"} IN
    [row EXCEPT !.version = @ + 1,
                !.status = IF settles THEN SUBSCRIPTION_STATUS_FOR_PROVIDER_STATE(StateAt[seen]) ELSE @,
                !.subId = IF @ = Unset /\ outcome # "conflict" THEN id ELSE @,
                !.sync = CASE settles -> "synced" [] outcome = "ignored" -> "pending" [] OTHER -> "conflict",
                !.synced = IF outcome # "conflict" THEN seen ELSE @]

\* One transaction: claim, the UPDATE guarded by state_version, settle.  A row
\* that moved makes it roll back.
apply(w) ==
    /\ task[w].at = "apply"
    /\ LET u == task[w].user
           row == task[w].row
           id == IdToBind(row)
           taken == id # Unset /\ \E v \in Accounts \ {u} : rows[v].subId = id
           outcome == IF taken THEN "conflict" ELSE planSync(row, task[w].seen) IN
         IF SameVersion(w)
           THEN \E claimed \in claimReceivedBillingProviderEvents(u) :
                  /\ ledger' = settleBillingProviderEvents(claimed, outcome)
                  /\ rows' = [rows EXCEPT ![u] = updateFromProvider(rows[u], outcome, id, task[w].seen)]
           ELSE UNCHANGED <<rows, ledger>>
    /\ Forgets(w)
    /\ UNCHANGED view

----------------------------------------------------------------------------
(* What the portal shows.                                                  *)

billingPortalLifecycleLive(u) == rows[u].status \in {"active", "trialing", "past_due"}
readBillingPortalFacts(u) ==
    [present |-> rows[u].exists, live |-> rows[u].exists /\ billingPortalLifecycleLive(u),
     review |-> rows[u].sync = "conflict"]

----------------------------------------------------------------------------
SyncStep(w) ==
    \/ \E e \in Events : receive(w, e)
    \/ recordEvent(w) \/ bindSubscriptionCode(w) \/ bindProviderSubscriptionCode(w) \/ abandon(w)
    \/ \E u \in Accounts : readSubscription(w, u)
    \/ verifyWithProvider(w) \/ apply(w)

SyncNext ==
    \/ \E w \in SyncWorkers : SyncStep(w)
    \/ \E u \in Accounts : checkOut(u) \/ viewMoves(u)

SyncSpec == SyncInit /\ [][SyncNext]_syncVars

----------------------------------------------------------------------------
(* Properties.                                                             *)

\* However synchronisations, bindings and deliveries interleave, a row never
\* goes back to an older view of the provider than one already applied to it.
ObservationsMonotone == [][\A u \in Accounts : rows'[u].synced >= rows[u].synced]_syncVars

\* A provider code or id names one account, and is never rebound.
IdentityBoundOnce ==
    [][\A u \in Accounts :
         /\ rows[u].code # Unset => rows'[u].code = rows[u].code
         /\ rows[u].subId # Unset => rows'[u].subId = rows[u].subId
         /\ \A v \in Accounts \ {u} :
              /\ rows'[u].code # Unset => rows'[u].code # rows'[v].code
              /\ rows'[u].subId # Unset => rows'[u].subId # rows'[v].subId]_syncVars

\* An account whose portal asks for no review is shown the status of the view
\* last applied, whatever conflicts and reviews came before.
PortalShowsLastView ==
    \A u \in Accounts :
        LET facts == readBillingPortalFacts(u) IN
        rows[u].sync = "synced" /\ ~facts.review =>
            facts.live = (StateAt[rows[u].synced] \in {"active", "past_due"})

\* Synchronisation as a whole: an account's view of the provider never goes back,
\* a subscription is bound once and to one account, and the portal shows the view
\* last applied.
SyncIsSound == [](SyncTypeOK /\ PortalShowsLastView) /\ ObservationsMonotone /\ IdentityBoundOnce
=============================================================================
