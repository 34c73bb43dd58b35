---------------------------- MODULE SafeTransport ----------------------------
(***************************************************************************)
(* The execution transport (packages/core/src/execution/transport/         *)
(* adapters.ts): one connection with an epoch that disconnect advances,    *)
(* and a submission and a cancellation per execution, each performed once  *)
(* whatever requests ask for it.  Every await is a step; a disconnect may  *)
(* come between any two of them.  The far side of the wire is external:    *)
(* it takes a request or refuses it, and its answer may be lost.           *)
(***************************************************************************)
EXTENDS Naturals, FiniteSets

CONSTANTS
    Executions,    \* executionId
    Requests,      \* [id, op, execution, fingerprint]
    Capacity,      \* maxExecutions
    MaxEpoch       \* bound on disconnects

TransportAssumption ==
    /\ \A r \in Requests : r.op \in {"submit", "cancel"} /\ r.execution \in Executions
    /\ Capacity \in Nat \ {0} /\ MaxEpoch \in Nat

VARIABLES
    link,       \* connection: state, epoch, and what the running connect does
    requests,   \* requestId -> identity, for the ids seen
    entries,    \* submissions and cancellations by execution
    orders,     \* the transport's view of each execution
    remote      \* what the far side made of each execution, and how often it was asked to submit

transportVars == <<link, requests, entries, orders, remote>>

Ops == {"submit", "cancel"}
NoEntry == [at |-> "none", fingerprint |-> "none", epoch |-> 0, attempted |-> FALSE, aborted |-> FALSE,
            prior |-> "none", answer |-> "none"]
UnknownOrder == [state |-> "none", uncertain |-> FALSE]

TransportTypeOK ==
    /\ link.state \in {"disconnected", "connecting", "connected", "unavailable"} /\ link.epoch \in 0..MaxEpoch
    /\ link.connect \in {"none", "emit", "wire", "emitted"} /\ link.asked \in 0..MaxEpoch /\ link.aborted \in BOOLEAN
    /\ requests \subseteq Requests
    /\ \A x \in Executions, op \in Ops :
         entries[op][x].at \in {"none", "perform", "emit", "ready", "wire", "settle", "done"}
    /\ \A x \in Executions : orders[x].state \in {"none", "submitting", "acknowledged", "rejected", "cancelled", "failed"}

TransportInit ==
    /\ link = [state |-> "disconnected", epoch |-> 0, connect |-> "none", asked |-> 0, aborted |-> FALSE]
    /\ requests = {}
    /\ entries = [op \in Ops |-> [x \in Executions |-> NoEntry]]
    /\ orders = [x \in Executions |-> UnknownOrder]
    /\ remote = [x \in Executions |-> [order |-> "none", submits |-> 0]]

----------------------------------------------------------------------------
(* Connection.                                                             *)

\* connect: a call while one runs waits for it.
connect ==
    /\ link.state # "connected" /\ link.connect = "none"
    /\ link' = [link EXCEPT !.state = "connecting", !.connect = "emit", !.asked = link.epoch, !.aborted = FALSE]
    /\ UNCHANGED <<requests, entries, orders, remote>>

Undisturbed == link.asked = link.epoch /\ link.state = "connecting"

\* The catch of connect: unavailable, unless a disconnect took over.
FailedLink(l) == [l EXCEPT !.connect = "none",
                !.state = IF l.asked = l.epoch /\ l.state # "disconnected" THEN "unavailable" ELSE @]

\* Each await of connect ends well or badly, and is followed by the epoch check.
connectStep(ok) ==
    /\ link.connect \in {"emit", "wire", "emitted"}
    /\ link' = IF ~ok \/ ~Undisturbed \/ link.aborted THEN FailedLink(link)
               ELSE CASE link.connect = "emit" -> [link EXCEPT !.connect = "wire"]
                      [] link.connect = "wire" -> [link EXCEPT !.connect = "emitted"]
                      [] OTHER -> [link EXCEPT !.connect = "none", !.state = "connected"]
    /\ UNCHANGED <<requests, entries, orders, remote>>

\* disconnect aborts what waits on the wire.
Waiting(e) == e.at \in {"ready", "wire"}
disconnectOnly ==
    /\ link.epoch < MaxEpoch
    /\ link' = [link EXCEPT !.state = "disconnected", !.epoch = @ + 1]
    /\ UNCHANGED <<requests, entries, orders, remote>>
disconnect ==
    /\ link.epoch < MaxEpoch
    /\ link' = [link EXCEPT !.state = "disconnected", !.epoch = @ + 1, !.aborted = (link.connect = "wire")]
    /\ entries' = [op \in Ops |-> [x \in Executions |->
                     [entries[op][x] EXCEPT !.aborted = @ \/ Waiting(entries[op][x])]]]
    /\ UNCHANGED <<requests, orders, remote>>

----------------------------------------------------------------------------
(* One performance per execution.                                          *)

Identity(r) == <<r.op, r.execution, r.fingerprint>>
IdempotencyConflict(r) ==
    \/ \E q \in requests : q.id = r.id /\ Identity(q) # Identity(r)
    \/ /\ entries[r.op][r.execution].at # "none"
       /\ entries[r.op][r.execution].fingerprint # r.fingerprint

cancelPreflight(r) == link.state = "connected" /\ orders[r.execution].state = "acknowledged"
Entered(op) == Cardinality({x \in Executions : entries[op][x].at # "none"})
Full(r) == \/ (entries[r.op][r.execution].at = "none" /\ Entered(r.op) >= Capacity)
           \/ Cardinality({q.id : q \in requests}) >= Capacity * 2

\* submit and cancel with a fresh permit; a refusal changes nothing, a request
\* for a known entry gets that entry's result.
onceEachRequest(r) ==
    /\ entries[r.op][r.execution].at \in {"none", "done"} /\ ~\E q \in requests : q.id = r.id
    /\ r.op = "cancel" => cancelPreflight(r)
    /\ requests' = requests \cup {r}
    /\ entries' = [entries EXCEPT ![r.op][r.execution] = [NoEntry EXCEPT !.at = "perform", !.fingerprint = r.fingerprint]]
    /\ UNCHANGED <<link, orders, remote>>
once(r) ==
    LET entry == entries[r.op][r.execution] IN
    /\ ~IdempotencyConflict(r)
    /\ ~(entry.at # "none" /\ \E q \in requests : q.id = r.id)
    /\ (entry.at = "none" /\ r.op = "cancel") => cancelPreflight(r)
    /\ ~Full(r)
    /\ requests' = requests \cup {r}
    /\ entries' = IF entry.at # "none" THEN entries
                  ELSE [entries EXCEPT ![r.op][r.execution] =
                          [NoEntry EXCEPT !.at = "perform", !.fingerprint = r.fingerprint]]
    /\ UNCHANGED <<link, orders, remote>>

\* What is left of an entry: a cancellation that never reached the wire may be retried.
Ended(op, e) == IF op = "cancel" /\ ~e.attempted THEN NoEntry ELSE [e EXCEPT !.at = "done"]
Enter(op, x, e) == entries' = [entries EXCEPT ![op][x] = e]

perform(op, x) ==
    LET e == entries[op][x] IN
    /\ e.at = "perform"
    /\ IF link.state # "connected" \/ (op = "cancel" /\ orders[x].state # "acknowledged")
         THEN Enter(op, x, Ended(op, e))
         ELSE Enter(op, x, [e EXCEPT !.at = "emit", !.epoch = link.epoch, !.prior = orders[x].state])
    /\ UNCHANGED <<link, requests, orders, remote>>

\* The audit hook may throw; afterwards the connection must be the same one.
emitted(op, x, ok) ==
    LET e == entries[op][x] IN
    /\ e.at = "emit"
    /\ IF ok /\ e.epoch = link.epoch /\ link.state = "connected"
         THEN /\ Enter(op, x, [e EXCEPT !.at = "ready"])
              /\ orders' = [orders EXCEPT ![x] = [state |-> "submitting", uncertain |-> FALSE]]
         ELSE Enter(op, x, Ended(op, e)) /\ UNCHANGED orders
    /\ UNCHANGED <<link, requests, remote>>

\* deadline: an abort before the exchange starts means it never starts.
abortBeforeExchange(op, x) ==
    LET e == entries[op][x] IN
    /\ e.at = "ready" /\ e.aborted
    /\ Enter(op, x, [e EXCEPT !.at = "settle", !.answer = "failed"])
    /\ UNCHANGED <<link, requests, orders, remote>>

Takes(op, x) == IF op = "submit" THEN remote[x].order = "none" ELSE remote[x].order = "open"
startExchange(op, x) ==
    LET e == entries[op][x] IN
    /\ e.at = "ready" /\ ~e.aborted
    /\ Enter(op, x, [e EXCEPT !.at = "wire", !.attempted = TRUE])
    /\ \E takes \in {FALSE, Takes(op, x)} :
         remote' = [remote EXCEPT
            ![x].order = IF ~takes THEN @ ELSE IF op = "submit" THEN "open" ELSE "cancelled",
            ![x].submits = @ + (IF op = "submit" THEN 1 ELSE 0)]
    /\ UNCHANGED <<link, requests, orders>>

\* The answer as the far side gave it, or none in time, or one that does not parse.
Answers(op, x) ==
    {"failed"} \cup (IF op = "submit"
                       THEN IF remote[x].order = "open" THEN {"acknowledged"} ELSE {"rejected"}
                       ELSE IF remote[x].order = "cancelled" THEN {"cancelled"} ELSE {"rejected"})
endExchange(op, x) ==
    LET e == entries[op][x] IN
    /\ e.at = "wire"
    /\ \E answer \in Answers(op, x) :
         /\ e.aborted => answer = "failed"
         /\ Enter(op, x, [e EXCEPT !.at = "settle", !.answer = answer])
    /\ UNCHANGED <<link, requests, orders, remote>>

OutcomeCertain(op, e) ==
    IF op = "cancel" /\ (~e.attempted \/ e.answer = "rejected")
      THEN [state |-> e.prior, uncertain |-> FALSE] ELSE [state |-> e.answer, uncertain |-> FALSE]
ViewAfter(op, e) ==
    IF op = "cancel" /\ (~e.attempted \/ e.answer = "rejected")
      THEN [state |-> e.prior, uncertain |-> FALSE]
      ELSE [state |-> e.answer, uncertain |-> e.answer = "failed" /\ e.attempted]
settle(op, x) ==
    LET e == entries[op][x] IN
    /\ e.at = "settle"
    /\ orders' = [orders EXCEPT ![x] = ViewAfter(op, e)]
    /\ Enter(op, x, Ended(op, e))
    /\ UNCHANGED <<link, requests, remote>>

----------------------------------------------------------------------------

TransportNext ==
    \/ connect \/ disconnect
    \/ \E ok \in BOOLEAN : connectStep(ok)
    \/ \E r \in Requests : once(r)
    \/ \E op \in Ops, x \in Executions :
         \/ perform(op, x) \/ abortBeforeExchange(op, x) \/ startExchange(op, x) \/ endExchange(op, x) \/ settle(op, x)
         \/ \E ok \in BOOLEAN : emitted(op, x, ok)

TransportSpec == TransportInit /\ [][TransportNext]_transportVars

----------------------------------------------------------------------------
(* Properties.                                                             *)

\* An execution is submitted at most once, and what the transport says of it is
\* true at the far side unless it says it does not know: an acknowledged order
\* is open there (also after a cancellation that failed), a failure that is not
\* uncertain never arrived.
Quiet(x) == \A op \in Ops : entries[op][x].at \in {"none", "done", "perform", "emit"}
TransportTellsTruth ==
    \A x \in Executions :
      /\ remote[x].submits <= 1
      /\ Quiet(x) /\ ~orders[x].uncertain =>
           remote[x].order = CASE orders[x].state = "acknowledged" -> "open"
                               [] orders[x].state = "cancelled" -> "cancelled"
                               [] OTHER -> "none"

\* Nothing goes on the wire after the connection it was prepared for is gone.
ExchangeIsFresh ==
    \A op \in Ops, x \in Executions :
        startExchange(op, x) => link.state = "connected" /\ entries[op][x].epoch = link.epoch

NoStaleExchange == [][ExchangeIsFresh]_transportVars

\* The transport as a whole: the two properties above in every reachable state.
TransportIsSafe == [](TransportTypeOK /\ TransportTellsTruth) /\ NoStaleExchange
=============================================================================
