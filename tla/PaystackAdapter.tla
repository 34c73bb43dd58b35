--------------------------- MODULE PaystackAdapter ---------------------------
(***************************************************************************)
(* The payment-provider adapter (packages/providers/paystack/src): the     *)
(* HTTP client, which turns every answer into a record or one of a closed  *)
(* set of reasons, the six operations of the billing provider built on it, *)
(* and the normalisation of webhook deliveries.                            *)
(*                                                                         *)
(* The provider is external.  It is honest and its network is not: a       *)
(* request may be lost, take effect and lose its answer, or be answered by *)
(* something in between (a proxy's 404, a 5xx, a body that is no JSON), and *)
(* a well-formed answer may be about another record or another domain.     *)
(* A rejection, and a 404 that names the subject and its absence, are the  *)
(* provider's own words and true when they are said.  Several callers      *)
(* share the account: another cancellation, or the provider's own renewal, *)
(* moves a subscription between this call's read and its write.            *)
(***************************************************************************)
EXTENDS Naturals, FiniteSets

CONSTANTS AdapterCallers,   \* concurrent calls of the adapter
          Refs,             \* checkout references
          Mode,             \* "test" or "live": the mode of the secret key
          Deliveries        \* webhook payloads

\* A delivery is unreadable, of one of the four kinds the adapter reads, or other.
AdapterAssumption ==
    \A d \in Deliveries :
        d.name \in {"unreadable", "other", "charge.success", "subscription.create", "invoice.update",
                   "invoice.payment_failed"}

VARIABLES world,        \* what the provider holds
          calls,        \* AdapterCallers -> the call's state
          effects,      \* requests that took effect at the provider (history)
          event         \* the webhook delivery being normalised

adapterVars == <<world, calls, effects, event>>

OtherMode == IF Mode = "test" THEN "live" ELSE "test"
NoRecord == [well |-> FALSE, echo |-> "none", domain |-> "none", status |-> "none", token |-> FALSE,
             amounts |-> FALSE]
NoAnswer == [http |-> "none", body |-> "none", ok |-> FALSE, message |-> "other", data |-> NoRecord]

(***************************************************************************)
(* The client.                                                             *)
(***************************************************************************)

\* every 404 taken for an absence
everyNotFound(message) == "not_found"

classifyNotFound(message) ==
    CASE message = "authorization" -> "provider_rejected"
      [] message = "absence"       -> "not_found"
      [] OTHER                     -> "ambiguous_not_found"

\* PaystackClient.request: "ok", or the reason it throws.
request(a, requireData) ==
    IF a.http = "none" THEN "provider_unavailable"
    ELSE IF a.body = "unreadable"
         THEN IF a.http = "404" THEN "ambiguous_not_found" ELSE "unexpected_response"
    ELSE IF a.http = "404"
         THEN classifyNotFound(IF a.body = "envelope" THEN a.message ELSE "other")
    ELSE IF a.body = "foreign" THEN "unexpected_response"
    ELSE IF a.http = "5xx" THEN "provider_unavailable"
    ELSE IF a.http = "4xx" \/ ~a.ok THEN "provider_rejected"
    ELSE IF requireData /\ a.data = NoRecord THEN "unexpected_response"
    ELSE "ok"

\* The record a read carries, or the reason there is none (fetchCustomer,
\* verifyTransaction, fetchSubscription parse alike).
fetched(a) ==
    IF request(a, TRUE) /= "ok" THEN request(a, TRUE)
    ELSE IF ~a.data.well THEN "unexpected_response" ELSE "ok"

(***************************************************************************)
(* The operations.  A call is made of requests; `pc` says which one is out *)
(* ("read" or "write"), or "done" with the verdict the caller gets: a      *)
(* session's status, "found", "absent", "cancelled", or an error's reason. *)
(***************************************************************************)

Ops == {"findCustomer", "createCustomer", "initialize", "verify", "findSubscription", "cancel"}

Quiet == [pc |-> "idle", op |-> "none", ref |-> "none", answer |-> NoAnswer,
          verdict |-> "none", state |-> "none", at |-> [customer |-> FALSE, tx |-> "none", sub |-> "none"]]

Answered(pc) == IF pc = "read" THEN "read-answered" ELSE "write-answered"

Done(c, verdict, state) ==
    calls' = [calls EXCEPT ![c] = [@ EXCEPT !.pc = "done", !.verdict = verdict, !.state = state,
                                            !.answer = NoAnswer]]

\* authorizeSnapshot: the price was authorised for this very checkout.
authorizeSnapshot(s) ==
    s.plan /\ s.currency /\ s.reference \in {"none", "same"} /\ s.verifies

\* assertPlanAuthorized: a recurring price needs a matching local epoch.
assertPlanAuthorized(s) ==
    CASE s.epoch \in {"none", "matching"} -> "ok"
      [] s.epoch = "missing"              -> "plan_not_registered"
      [] s.epoch = "other"                -> "plan_mismatch"

Snapshots == [plan : BOOLEAN, currency : BOOLEAN, reference : {"none", "same", "other"},
              verifies : BOOLEAN, epoch : {"none", "matching", "missing", "other"}]

\* What initializeCheckout decides before anything is sent.
admitted(s, known) ==
    IF ~authorizeSnapshot(s) THEN "unauthorized_amount"
    ELSE IF assertPlanAuthorized(s) /= "ok" THEN assertPlanAuthorized(s)
    ELSE IF ~known THEN "customer_not_provisioned" ELSE "ok"

\* A caller starts an operation: refused before any request, or a request is out.
initializeCheckout(c, ref) ==
    /\ calls[c].pc = "idle"
    /\ \E s \in Snapshots, known \in BOOLEAN :
        LET why == admitted(s, known)
        IN calls' = [calls EXCEPT ![c] =
             IF why = "ok" THEN [Quiet EXCEPT !.pc = "write", !.op = "initialize", !.ref = ref]
             ELSE [Quiet EXCEPT !.pc = "done", !.op = "initialize", !.ref = ref, !.verdict = why]]
    /\ UNCHANGED <<world, effects, event>>

begin(c, op, pc, ref) ==
    /\ calls[c].pc = "idle"
    /\ calls' = [calls EXCEPT ![c] = [Quiet EXCEPT !.pc = pc, !.op = op, !.ref = ref]]
    /\ UNCHANGED <<world, effects, event>>

findCustomer(c) == begin(c, "findCustomer", "read", "none")
createCustomer(c) == begin(c, "createCustomer", "write", "none")
verifySubscription(c, ref) == begin(c, "verify", "read", ref)
findSubscription(c) == begin(c, "findSubscription", "read", "none")

\* cancelSubscription refuses an immediate cancellation without calling anyone.
cancelSubscription(c, immediate) ==
    IF immediate
    THEN /\ calls[c].pc = "idle"
         /\ calls' = [calls EXCEPT ![c] = [Quiet EXCEPT !.pc = "done", !.op = "cancel",
                                                        !.verdict = "invalid_request"]]
         /\ UNCHANGED <<world, effects, event>>
    ELSE begin(c, "cancel", "read", "none")

(***************************************************************************)
(* The provider (external).                                                *)
(***************************************************************************)

Envelope(http, ok, message, data) ==
    [http |-> http, body |-> "envelope", ok |-> ok, message |-> message, data |-> data]
Absent == Envelope("404", FALSE, "absence", NoRecord)
Refusal == Envelope("4xx", FALSE, "other", NoRecord)
Carries(status) == {Envelope("200", TRUE, "other", [well |-> TRUE, echo |-> "same", domain |-> Mode,
                                                   status |-> status, token |-> TRUE,
                                                   amounts |-> TRUE])}

\* What the provider itself answers to the request c has out, in world w.
Truth(c, w) ==
    LET k == calls[c] IN
    CASE k.op = "findCustomer" -> IF w.customer THEN Carries("known") ELSE {Absent}
      [] k.op = "createCustomer" -> Carries("known")
      [] k.op = "initialize" -> IF w.txs[k.ref] = "none" THEN Carries("pending") ELSE {Refusal}
      [] k.op = "verify" -> IF w.txs[k.ref] = "none" THEN {Refusal} ELSE Carries(w.txs[k.ref])
      [] k.op \in {"findSubscription", "cancel"} /\ k.pc = "read" ->
            IF w.sub = "none" THEN {Absent} ELSE Carries(w.sub)
      [] k.op = "cancel" /\ k.pc = "write" ->
            IF w.sub = "active" THEN {Envelope("200", TRUE, "other", NoRecord)}
            ELSE {Absent, Refusal}

\* ... and what it changes.
Effect(c, w) ==
    LET k == calls[c] IN
    CASE k.op = "createCustomer" -> [w EXCEPT !.customer = TRUE]
      [] k.op = "initialize" /\ w.txs[k.ref] = "none" -> [w EXCEPT !.txs[k.ref] = "pending"]
      [] k.op = "cancel" /\ k.pc = "write" /\ w.sub = "active" -> [w EXCEPT !.sub = "non-renewing"]
      [] OTHER -> w

\* What the network may make of the answer to an operation on its way back.
Garbled(a, op) ==
    {a, NoAnswer, [a EXCEPT !.body = "unreadable"], [a EXCEPT !.body = "foreign"],
     Envelope("5xx", FALSE, "other", NoRecord), Envelope("404", FALSE, "other", NoRecord)}
    \union IF a.data = NoRecord THEN {}
           ELSE {[a EXCEPT !.data = NoRecord], [a EXCEPT !.data.well = FALSE],
                 [a EXCEPT !.data.token = FALSE], [a EXCEPT !.data.amounts = FALSE]}
                \union {[a EXCEPT !.data.echo = "other", !.data.status = st] : st \in {"success", "active"}}
                \union {[a EXCEPT !.data.domain = OtherMode, !.data.status = st] : st \in {"success", "active"}}
    \union IF op /= "createCustomer" THEN {} ELSE {[a EXCEPT !.data.echo = "silent"]}

\* The request reaches the provider, takes its effect and is answered.
serve(c) ==
    /\ calls[c].pc \in {"read", "write"} /\ calls[c].answer = NoAnswer
    /\ \E a \in Truth(c, world) : \E seen \in Garbled(a, calls[c].op) :
        calls' = [calls EXCEPT ![c].answer = seen, ![c].pc = Answered(@),
                               ![c].at = [customer |-> world.customer,
                                          tx |-> IF calls[c].ref \in Refs THEN world.txs[calls[c].ref]
                                                 ELSE "none",
                                          sub |-> world.sub]]
    /\ world' = Effect(c, world)
    /\ effects' = IF world' = world THEN effects ELSE effects \union {c}
    /\ UNCHANGED event

\* The request never arrives: the timer aborts it (fetch throws), or something on
\* the way answers in the provider's place.
lose(c) ==
    /\ calls[c].pc \in {"read", "write"}
    /\ \E a \in {NoAnswer, Envelope("5xx", FALSE, "other", NoRecord),
                 Envelope("404", FALSE, "other", NoRecord),
                 Envelope("404", FALSE, "authorization", NoRecord)} :
        calls' = [calls EXCEPT ![c].answer = a, ![c].pc = Answered(@)]
    /\ UNCHANGED <<world, effects, event>>

\* The provider's own life: a payment completes, a subscription starts or lapses.
providerMoves ==
    /\ \/ \E r \in Refs : world.txs[r] = "pending" /\ world' = [world EXCEPT !.txs[r] = "success",
                                                                            !.sub = "active"]
       \/ world.sub \in {"active", "non-renewing"} /\ world' = [world EXCEPT !.sub = "completed"]
    /\ UNCHANGED <<calls, effects, event>>

(***************************************************************************)
(* The answers come back.                                                  *)
(***************************************************************************)

paystackLifecycleState(status) ==
    CASE status = "active" -> "active"
      [] status = "cancelled" -> "cancelled"
      [] status = "completed" -> "expired"
      [] status = "non-renewing" -> "unsubscribed"
      [] OTHER -> "unknown"

\* findCustomer: a definite absence is null, everything else an identity or an error.
customerFound(c) ==
    /\ calls[c].op = "findCustomer" /\ calls[c].pc = "read-answered"
    /\ LET why == fetched(calls[c].answer)
       IN CASE why = "ok"        -> Done(c, "found", "provisioned")
            [] why = "not_found" -> Done(c, "absent", "none")
            [] OTHER             -> Done(c, why, "none")
    /\ UNCHANGED <<world, effects, event>>

customerCreated(c) ==
    /\ calls[c].op = "createCustomer" /\ calls[c].pc = "write-answered"
    /\ LET a == calls[c].answer
           why == IF fetched(a) = "ok" /\ a.data.echo = "other" THEN "response_conflict" ELSE fetched(a)
       IN IF why = "ok" THEN Done(c, "found", "provisioned") ELSE Done(c, why, "none")
    /\ UNCHANGED <<world, effects, event>>

\* an unreachable provider reported as a failed checkout
sessionFailed(why) ==
    CASE why = "ok" -> "initialized"
      [] why \in {"provider_rejected", "provider_unavailable"} -> "failed"
      [] why = "unexpected_response" -> "unavailable"
      [] OTHER -> why

\* The session an initialisation becomes: a rejection is a failed session, an
\* unreachable or unreadable provider an undetermined one, anything else throws.
sessionStatus(why) ==
    CASE why = "ok" -> "initialized"
      [] why = "provider_rejected" -> "failed"
      [] why \in {"provider_unavailable", "unexpected_response"} -> "unavailable"
      [] OTHER -> why

checkoutAnswered(c) ==
    /\ calls[c].op = "initialize" /\ calls[c].pc = "write-answered"
    /\ LET a == calls[c].answer
           why == IF fetched(a) = "ok" /\ a.data.echo /= "same" THEN "reference_conflict" ELSE fetched(a)
       IN Done(c, sessionStatus(why), "none")
    /\ UNCHANGED <<world, effects, event>>

\* any record of any domain
echoUnchecked(a) == "ok"

\* The record must be the one asked for, of this adapter's own mode.
Echoed(a) ==
    IF a.data.echo /= "same" \/ a.data.domain /= Mode THEN "response_conflict" ELSE "ok"

\* verifySubscription: only a paid transaction has the paid_at it needs.
transactionVerified(c) ==
    /\ calls[c].op = "verify" /\ calls[c].pc = "read-answered"
    /\ LET a == calls[c].answer
           why == IF fetched(a) /= "ok" THEN fetched(a)
                  ELSE IF Echoed(a) /= "ok" THEN Echoed(a)
                  ELSE IF a.data.status /= "success" THEN "unexpected_response" ELSE "ok"
       IN IF why = "ok" THEN Done(c, "found", "success") ELSE Done(c, why, "none")
    /\ UNCHANGED <<world, effects, event>>

\* A subscription amount that disagrees with its plan's is no amount at all.
subscriptionPayment(a) == IF a.data.amounts THEN "ok" ELSE "unexpected_response"

subscriptionFound(c) ==
    /\ calls[c].op = "findSubscription" /\ calls[c].pc = "read-answered"
    /\ LET a == calls[c].answer
           why == IF fetched(a) /= "ok" THEN fetched(a)
                  ELSE IF Echoed(a) /= "ok" THEN Echoed(a) ELSE subscriptionPayment(a)
       IN CASE why = "ok"        -> Done(c, "found", paystackLifecycleState(a.data.status))
            [] why = "not_found" -> Done(c, "absent", "none")
            [] OTHER             -> Done(c, why, "none")
    /\ UNCHANGED <<world, effects, event>>

\* disableSubscription, after the read: nothing is sent unless the record is the
\* right one, of the right domain, and carries the token.
disableSubscription(c) ==
    /\ calls[c].op = "cancel" /\ calls[c].pc = "read-answered"
    /\ LET a == calls[c].answer
           why == IF fetched(a) /= "ok" THEN fetched(a)
                  ELSE IF Echoed(a) /= "ok" THEN Echoed(a)
                  ELSE IF ~a.data.token THEN "unexpected_response" ELSE "ok"
       IN IF why = "ok"
          THEN calls' = [calls EXCEPT ![c].pc = "write", ![c].answer = NoAnswer]
          ELSE Done(c, "untouched", why)
    /\ UNCHANGED <<world, effects, event>>

\* ... and after the write, which needs no data to be an acknowledgement.
subscriptionDisabled(c) ==
    /\ calls[c].op = "cancel" /\ calls[c].pc = "write-answered"
    /\ LET why == request(calls[c].answer, FALSE)
       IN IF why = "ok" THEN Done(c, "cancelled", paystackLifecycleState("non-renewing"))
          ELSE Done(c, why, "none")
    /\ UNCHANGED <<world, effects, event>>

(***************************************************************************)
(* Webhook deliveries (events.ts): a delivery becomes the facts it states, *)
(* or is refused.                                                          *)
(***************************************************************************)

Facts(type, state, pays) == [type |-> type, state |-> state, pays |-> pays]
Refused(why) == Facts(why, "none", FALSE)

normalizeChargeSuccess(d) ==
    IF d.status /= "success" THEN Refused("contradiction")
    ELSE IF ~d.currency THEN Refused("contradiction")
    ELSE Facts("payment.succeeded", "none", TRUE)

normalizeSubscriptionCreate(d) ==
    IF ~d.amounts THEN Refused("contradiction")
    ELSE IF ~d.currency THEN Refused("contradiction")
    ELSE Facts("subscription.created", paystackLifecycleState(d.status), TRUE)

invoiceFacts(d, failed) ==
    Facts(IF failed THEN "invoice.failed" ELSE "invoice.processed", paystackLifecycleState(d.status), FALSE)

normalizePaystackEventPayload(d) ==
    IF d.name = "unreadable" THEN Refused("unreadable")
    ELSE IF d.name = "other" THEN Facts("unrecognized", "none", FALSE)
    ELSE IF ~d.well THEN Refused("malformed")
    ELSE IF d.domain /= Mode THEN Refused("invalid_configuration")
    ELSE CASE d.name = "charge.success" -> normalizeChargeSuccess(d)
           [] d.name = "subscription.create" -> normalizeSubscriptionCreate(d)
           [] d.name = "invoice.update" -> invoiceFacts(d, ~d.paid)
           [] d.name = "invoice.payment_failed" -> invoiceFacts(d, TRUE)

NoDelivery == [delivery |-> <<>>, facts |-> Refused("none")]

normalizeEvent(d) ==
    /\ event = NoDelivery
    /\ event' = [delivery |-> <<d>>, facts |-> normalizePaystackEventPayload(d)]
    /\ UNCHANGED <<world, calls, effects>>

-----------------------------------------------------------------------------

AdapterInit ==
    /\ world \in [customer : BOOLEAN, txs : {[r \in Refs |-> "none"]}, sub : {"none", "active"}]
    /\ calls = [c \in AdapterCallers |-> Quiet]
    /\ effects = {}
    /\ event = NoDelivery

CallsNext ==
    \/ \E c \in AdapterCallers :
        \/ \E r \in Refs : initializeCheckout(c, r) \/ verifySubscription(c, r)
        \/ findCustomer(c) \/ createCustomer(c) \/ findSubscription(c)
        \/ \E immediate \in BOOLEAN : cancelSubscription(c, immediate)
        \/ serve(c) \/ lose(c)
        \/ customerFound(c) \/ customerCreated(c) \/ checkoutAnswered(c)
        \/ transactionVerified(c) \/ subscriptionFound(c)
        \/ disableSubscription(c) \/ subscriptionDisabled(c)
    \/ providerMoves

DeliveriesNext == \E d \in Deliveries : normalizeEvent(d)

AdapterNext == CallsNext \/ DeliveriesNext

AdapterSpec == AdapterInit /\ [][AdapterNext]_adapterVars

-----------------------------------------------------------------------------

AdapterTypeOK ==
    /\ world \in [customer : BOOLEAN, txs : [Refs -> {"none", "pending", "success"}],
                  sub : {"none", "active", "non-renewing", "completed"}]
    /\ \A c \in AdapterCallers :
        calls[c].pc \in {"idle", "read", "write", "read-answered", "write-answered", "done"}
    /\ effects \subseteq AdapterCallers

\* What the adapter tells its caller is what the provider said and holds, whatever
\* the network did: a failed session made no transaction and an initialised one did
\* (initializeCheckout); a customer or a subscription is reported absent only if the
\* provider had none when it answered, and reported found with the lifecycle state it
\* had then (findCustomer, findSubscription, verifySubscription); a cancellation
\* reported done is done, by this very call, and one refused before its write left
\* the subscription alone (cancelSubscription); and a webhook delivery of another
\* domain, or one that contradicts itself, states no payment (normalizeEvent).
AdapterTellsTruth ==
    /\ AdapterTypeOK
    /\ \A c \in AdapterCallers :
        LET k == calls[c] IN k.pc = "done" =>
        /\ k.op = "initialize" =>
              /\ k.verdict = "initialized" => c \in effects /\ world.txs[k.ref] /= "none"
              /\ k.verdict \notin {"initialized", "unavailable", "reference_conflict",
                                   "ambiguous_not_found"} => c \notin effects
        /\ k.verdict = "absent" =>
              IF k.op = "findCustomer" THEN ~k.at.customer ELSE k.at.sub = "none"
        /\ k.verdict = "found" /\ k.op = "createCustomer" => world.customer
        /\ k.verdict = "found" /\ k.op = "verify" => k.at.tx = "success"
        /\ k.verdict = "found" /\ k.op = "findSubscription" =>
              k.at.sub /= "none" /\ k.state = paystackLifecycleState(k.at.sub)
        /\ k.op = "cancel" =>
              /\ k.verdict = "cancelled" => c \in effects /\ world.sub /= "none"
              /\ k.verdict = "untouched" => c \notin effects
    /\ event.facts.pays =>
          LET d == event.delivery[1]
          IN d.domain = Mode /\ d.currency /\ (d.name = "charge.success" => d.status = "success")
=============================================================================
