-------------------------- MODULE SafeTransportProofs --------------------------
(***************************************************************************)
(* The execution transport, for any executions, requests and capacity: an  *)
(* execution is submitted at most once, what the transport says of it is   *)
(* so at the far side unless it says it does not know, and nothing goes on *)
(* the wire once the connection it was prepared for is gone.  And the      *)
(* tables of a submission (MutationLedger), for any provider answers,      *)
(* observers, operators, sightings and verdicts: the intent, its           *)
(* reservation, receipts, observations, resolutions and events always      *)
(* tell one story, and what executeSubmit returned is on record.           *)
(***************************************************************************)
EXTENDS SafeTransport, MutationLedger, SequenceTheorems, FiniteSetTheorems, TLAPS

OrderState == {"none", "submitting", "acknowledged", "rejected", "cancelled", "failed"}
Fingerprints == {"none"} \cup {r.fingerprint : r \in Requests}
EntryState == [at : {"none", "perform", "emit", "ready", "wire", "settle", "done"},
               fingerprint : Fingerprints, epoch : Nat, attempted : BOOLEAN, aborted : BOOLEAN,
               prior : OrderState, answer : {"none", "failed", "acknowledged", "rejected", "cancelled"}]
OrderView == [state : OrderState, uncertain : BOOLEAN]
FarSide == [order : {"none", "open", "cancelled"}, submits : Nat]

LinkState == [state : {"disconnected", "connecting", "connected", "unavailable"}, epoch : Nat,
              connect : {"none", "emit", "wire", "emitted"}, asked : Nat, aborted : BOOLEAN]

Shapes ==
    /\ link \in LinkState
    /\ requests \subseteq Requests
    /\ entries \in [Ops -> [Executions -> EntryState]]
    /\ orders \in [Executions -> OrderView]
    /\ remote \in [Executions -> FarSide]

\* What the transport says of an order is so at the far side, or uncertain.
Truth(o, m) ==
    /\ o.state # "submitting"
    /\ o.uncertain => o.state = "failed"
    /\ ~o.uncertain => m.order = CASE o.state = "acknowledged" -> "open"
                                   [] o.state = "cancelled" -> "cancelled"
                                   [] OTHER -> "none"

Busy(e) == e.at \in {"ready", "wire", "settle"}

\* The submission s of an execution, before any cancellation: attempted once,
\* when it goes on the wire.
SubmitFits(s, o, m) ==
    /\ s.attempted => m.submits = 1
    /\ ~s.attempted => m.submits = 0 /\ m.order = "none"
    /\ s.at \in {"none", "perform", "emit", "ready"} => ~s.attempted
    /\ s.at = "wire" => s.attempted
    /\ s.at \in {"none", "perform", "emit"} => o.state = "none"
    /\ s.at = "settle" =>
          /\ s.answer \in {"failed", "acknowledged", "rejected"}
          /\ s.answer = "acknowledged" => m.order = "open"
          /\ s.answer = "rejected" => m.order = "none"
          /\ ~s.attempted => s.answer = "failed"

\* The cancellation c: begun only of an acknowledged order, once its
\* submission is over, and attempted at most once.
CancelFits(s, c, o, m) ==
    /\ c.at # "none" => s.at = "done"
    /\ c.at \in {"none", "perform", "emit", "ready"} => ~c.attempted
    /\ c.at \in {"wire", "done"} => c.attempted
    /\ ~c.attempted => m.order # "cancelled"
    /\ c.at \in {"emit", "ready", "wire", "settle"} => c.prior = "acknowledged"
    /\ c.at \in {"emit", "ready"} => m.order = "open"
    /\ c.at = "emit" => o.state = "acknowledged"
    /\ c.at = "wire" => m.order \in {"open", "cancelled"}
    /\ c.at = "settle" =>
          /\ c.answer \in {"failed", "cancelled", "rejected"}
          /\ c.answer = "cancelled" => m.order = "cancelled"
          /\ c.answer = "rejected" => m.order = "open"
          /\ ~c.attempted => c.answer = "failed" /\ m.order = "open"

Fits(s, c, o, m) ==
    /\ SubmitFits(s, o, m)
    /\ CancelFits(s, c, o, m)
    /\ Busy(s) \/ Busy(c) => o.state = "submitting"
    /\ ~Busy(s) /\ ~Busy(c) => Truth(o, m)

\* An exchange that is ready and not aborted is for the connection there is.
Linked ==
    /\ link.connect # "none" => link.state # "connected"
    /\ \A op \in Ops, x \in Executions :
          entries[op][x].at = "ready" /\ ~entries[op][x].aborted =>
              link.state = "connected" /\ entries[op][x].epoch = link.epoch

TInv ==
    /\ Shapes
    /\ Linked
    /\ \A x \in Executions : Fits(entries["submit"][x], entries["cancel"][x], orders[x], remote[x])

-----------------------------------------------------------------------------
\* Nothing is asked or said initially.
LEMMA InitInv == TransportInit => TInv
<1> SUFFICES ASSUME TransportInit PROVE TInv
  OBVIOUS
<1>1. NoEntry \in EntryState /\ UnknownOrder \in OrderView
  BY DEF NoEntry, EntryState, Fingerprints, OrderState, UnknownOrder, OrderView
<1>2. /\ entries \in [Ops -> [Executions -> EntryState]]
      /\ \A op \in Ops, x \in Executions : entries[op][x] = NoEntry
  BY <1>1 DEF TransportInit
<1>3. Shapes
  BY <1>1, <1>2 DEF TransportInit, Shapes, FarSide, LinkState
<1>4. Linked
  BY <1>2 DEF TransportInit, Linked, NoEntry
<1>5. ASSUME NEW x \in Executions
      PROVE  Fits(entries["submit"][x], entries["cancel"][x], orders[x], remote[x])
  <2>1. /\ entries["submit"][x] = NoEntry /\ entries["cancel"][x] = NoEntry
        /\ orders[x] = UnknownOrder /\ remote[x] = [order |-> "none", submits |-> 0]
    BY <1>2 DEF TransportInit, Ops
  <2> QED
    BY <2>1 DEF Fits, SubmitFits, CancelFits, Busy, Truth, NoEntry, UnknownOrder
<1> QED
  BY <1>3, <1>4, <1>5 DEF TInv

\* A step on execution x: the other executions are left alone, x fits, and x's
\* entry becomes ready only for the connection there is.
Move(op, x, r, o, m) ==
    /\ r \in EntryState /\ o \in OrderView /\ m \in FarSide
    /\ entries' = [entries EXCEPT ![op][x] = r]
    /\ orders' = [orders EXCEPT ![x] = o]
    /\ remote' = [remote EXCEPT ![x] = m]
    /\ link' = link /\ requests' \subseteq Requests
    /\ r.at = "ready" /\ ~r.aborted => link.state = "connected" /\ r.epoch = link.epoch
    /\ op = "submit" => Fits(r, entries["cancel"][x], o, m)
    /\ op = "cancel" => Fits(entries["submit"][x], r, o, m)

\* Such a step keeps the invariant.
LEMMA ExecutionMove ==
    ASSUME TInv, NEW op \in Ops, NEW x \in Executions, NEW r, NEW o, NEW m, Move(op, x, r, o, m)
    PROVE  TInv'
<1> USE DEF Move
<1>1. /\ entries' \in [Ops -> [Executions -> EntryState]] /\ entries'[op][x] = r
      /\ \A p \in Ops, y \in Executions : p # op \/ y # x => entries'[p][y] = entries[p][y]
  BY DEF TInv, Shapes
<1>2. /\ orders' \in [Executions -> OrderView] /\ remote' \in [Executions -> FarSide]
      /\ orders'[x] = o /\ remote'[x] = m
      /\ \A y \in Executions \ {x} : orders'[y] = orders[y] /\ remote'[y] = remote[y]
  BY DEF TInv, Shapes
<1>3. Shapes'
  BY <1>1, <1>2 DEF TInv, Shapes
<1>4. Linked'
  BY <1>1 DEF TInv, Linked
<1>5. ASSUME NEW y \in Executions
      PROVE  Fits(entries'["submit"][y], entries'["cancel"][y], orders'[y], remote'[y])
  <2>1. "submit" \in Ops /\ "cancel" \in Ops /\ op \in {"submit", "cancel"}
    BY DEF Ops
  <2>2. CASE y = x
    BY <1>1, <1>2, <2>1, <2>2
  <2>3. CASE y # x
    BY <1>1, <1>2, <2>1, <2>3 DEF TInv
  <2> QED
    BY <2>2, <2>3
<1>6. (\A y \in Executions : Fits(entries["submit"][y], entries["cancel"][y], orders[y], remote[y]))'
  BY <1>5 DEF Fits, SubmitFits, CancelFits, Busy, Truth
<1> QED
  BY <1>3, <1>4, <1>6 DEF TInv

\* What is known of an execution and of one of its entries.
LEMMA Known ==
    ASSUME TInv, NEW op \in Ops, NEW x \in Executions
    PROVE  /\ op = "submit" \/ op = "cancel"
           /\ entries[op][x] \in EntryState
           /\ orders[x] \in OrderView /\ remote[x] \in FarSide
           /\ orders = [orders EXCEPT ![x] = orders[x]] /\ remote = [remote EXCEPT ![x] = remote[x]]
           /\ requests \subseteq Requests /\ link.epoch \in Nat
           /\ Fits(entries["submit"][x], entries["cancel"][x], orders[x], remote[x])
  BY DEF TInv, Shapes, Ops, LinkState

\* An entry that ends without having reached the wire.
LEMMA EndUnattempted ==
    ASSUME TInv, NEW op \in Ops, NEW x \in Executions, entries[op][x].at \in {"perform", "emit"},
           Enter(op, x, Ended(op, entries[op][x])), UNCHANGED <<link, requests, orders, remote>>
    PROVE  TInv'
<1> DEFINE e == entries[op][x]
           r == Ended(op, e)
<1>1. /\ op = "submit" \/ op = "cancel"
      /\ e \in EntryState
      /\ orders[x] \in OrderView /\ remote[x] \in FarSide
      /\ orders = [orders EXCEPT ![x] = orders[x]] /\ remote = [remote EXCEPT ![x] = remote[x]]
      /\ requests \subseteq Requests
      /\ Fits(entries["submit"][x], entries["cancel"][x], orders[x], remote[x])
  BY Known
<1>2. ~e.attempted
  BY <1>1 DEF Fits, SubmitFits, CancelFits
<1>3. /\ r \in EntryState /\ ~r.attempted
      /\ op = "submit" => r.at = "done"
      /\ op = "cancel" => r.at = "none"
  BY <1>1, <1>2 DEF Ended, NoEntry, EntryState, Fingerprints, OrderState
<1>4. entries' = [entries EXCEPT ![op][x] = r]
  BY DEF Enter
<1> HIDE DEF r
<1>5. op = "submit" => Fits(r, entries["cancel"][x], orders[x], remote[x])
  BY <1>1, <1>2, <1>3 DEF Fits, SubmitFits, CancelFits, Busy
<1>6. op = "cancel" => Fits(entries["submit"][x], r, orders[x], remote[x])
  BY <1>1, <1>2, <1>3 DEF Fits, SubmitFits, CancelFits, Busy
<1>7. Move(op, x, r, orders[x], remote[x])
  BY <1>1, <1>3, <1>4, <1>5, <1>6 DEF Move
<1> QED
  BY <1>7, ExecutionMove

\* The performance begins; a cancellation only of an acknowledged order.
LEMMA PerformStep ==
    ASSUME TInv, NEW op \in Ops, NEW x \in Executions, perform(op, x)
    PROVE  TInv'
<1> DEFINE e == entries[op][x]
           r == [e EXCEPT !.at = "emit", !.epoch = link.epoch, !.prior = orders[x].state]
<1>1. /\ op = "submit" \/ op = "cancel"
      /\ e \in EntryState
      /\ orders[x] \in OrderView /\ remote[x] \in FarSide
      /\ orders = [orders EXCEPT ![x] = orders[x]] /\ remote = [remote EXCEPT ![x] = remote[x]]
      /\ requests \subseteq Requests /\ link.epoch \in Nat
      /\ Fits(entries["submit"][x], entries["cancel"][x], orders[x], remote[x])
  BY Known
<1>2. e.at = "perform" /\ UNCHANGED <<link, requests, orders, remote>>
  BY DEF perform
<1>3. CASE Enter(op, x, Ended(op, e))
  BY <1>2, <1>3, EndUnattempted
<1>4. CASE Enter(op, x, r) /\ (op = "cancel" => orders[x].state = "acknowledged")
  <2>1. r \in EntryState /\ r.at = "emit" /\ r.attempted = e.attempted /\ r.prior = orders[x].state
    BY <1>1 DEF EntryState, OrderView
  <2>2. entries' = [entries EXCEPT ![op][x] = r]
    BY <1>4 DEF Enter
  <2> HIDE DEF r
  <2>3. op = "submit" => Fits(r, entries["cancel"][x], orders[x], remote[x])
    BY <1>1, <1>2, <2>1 DEF Fits, SubmitFits, CancelFits, Busy
  <2>4. ASSUME op = "cancel" PROVE Fits(entries["submit"][x], r, orders[x], remote[x])
    <3>1. Truth(orders[x], remote[x]) /\ orders[x].state = "acknowledged"
      BY <1>1, <1>2, <1>4, <2>4 DEF Fits, CancelFits, Busy
    <3>2. remote[x].order = "open"
      BY <1>1, <3>1 DEF Truth, OrderView
    <3> QED
      BY <1>1, <1>2, <2>1, <2>4, <3>1, <3>2 DEF Fits, SubmitFits, CancelFits, Busy
  <2>5. Move(op, x, r, orders[x], remote[x])
    BY <1>1, <1>2, <2>1, <2>2, <2>3, <2>4 DEF Move
  <2> QED
    BY <2>5, ExecutionMove
<1> QED
  BY <1>3, <1>4 DEF perform

\* The audit hook returned: the same connection still stands, or the entry ends.
LEMMA EmittedStep ==
    ASSUME TInv, NEW op \in Ops, NEW x \in Executions, NEW ok \in BOOLEAN, emitted(op, x, ok)
    PROVE  TInv'
<1> DEFINE e == entries[op][x]
           r == [e EXCEPT !.at = "ready"]
           o == [state |-> "submitting", uncertain |-> FALSE]
<1>1. /\ op = "submit" \/ op = "cancel"
      /\ e \in EntryState
      /\ orders[x] \in OrderView /\ remote[x] \in FarSide
      /\ orders = [orders EXCEPT ![x] = orders[x]] /\ remote = [remote EXCEPT ![x] = remote[x]]
      /\ requests \subseteq Requests /\ link.epoch \in Nat
      /\ Fits(entries["submit"][x], entries["cancel"][x], orders[x], remote[x])
  BY Known
<1>2. e.at = "emit" /\ UNCHANGED <<link, requests, remote>>
  BY DEF emitted
<1>3. CASE Enter(op, x, Ended(op, e)) /\ UNCHANGED orders
  BY <1>2, <1>3, EndUnattempted
<1>4. CASE /\ Enter(op, x, r) /\ orders' = [orders EXCEPT ![x] = o]
           /\ e.epoch = link.epoch /\ link.state = "connected"
  <2>1. /\ r \in EntryState /\ r.at = "ready" /\ r.attempted = e.attempted /\ r.prior = e.prior
        /\ r.epoch = e.epoch
    BY <1>1 DEF EntryState
  <2>2. o \in OrderView /\ o.state = "submitting"
    BY DEF OrderView, OrderState
  <2>3. entries' = [entries EXCEPT ![op][x] = r] /\ orders' = [orders EXCEPT ![x] = o]
    BY <1>4 DEF Enter
  <2> HIDE DEF r, o
  <2>4. op = "submit" => Fits(r, entries["cancel"][x], o, remote[x])
    BY <1>1, <1>2, <2>1, <2>2 DEF Fits, SubmitFits, CancelFits, Busy
  <2>5. op = "cancel" => Fits(entries["submit"][x], r, o, remote[x])
    BY <1>1, <1>2, <2>1, <2>2 DEF Fits, SubmitFits, CancelFits, Busy
  <2>6. Move(op, x, r, o, remote[x])
    BY <1>1, <1>2, <1>4, <2>1, <2>2, <2>3, <2>4, <2>5 DEF Move
  <2> QED
    BY <2>6, ExecutionMove
<1> QED
  BY <1>3, <1>4 DEF emitted

\* An abort before the exchange: it never starts.
LEMMA AbortStep ==
    ASSUME TInv, NEW op \in Ops, NEW x \in Executions, abortBeforeExchange(op, x)
    PROVE  TInv'
<1> DEFINE e == entries[op][x]
           r == [e EXCEPT !.at = "settle", !.answer = "failed"]
<1>1. /\ op = "submit" \/ op = "cancel"
      /\ e \in EntryState
      /\ orders[x] \in OrderView /\ remote[x] \in FarSide
      /\ orders = [orders EXCEPT ![x] = orders[x]] /\ remote = [remote EXCEPT ![x] = remote[x]]
      /\ requests \subseteq Requests /\ link.epoch \in Nat
      /\ Fits(entries["submit"][x], entries["cancel"][x], orders[x], remote[x])
  BY Known
<1>2. e.at = "ready" /\ UNCHANGED <<link, requests, orders, remote>>
  BY DEF abortBeforeExchange
<1>3. /\ r \in EntryState /\ r.at = "settle" /\ r.attempted = e.attempted /\ r.prior = e.prior
      /\ r.answer = "failed"
  BY <1>1 DEF EntryState
<1>4. entries' = [entries EXCEPT ![op][x] = r]
  BY DEF abortBeforeExchange, Enter
<1> HIDE DEF r
<1>5. op = "submit" => Fits(r, entries["cancel"][x], orders[x], remote[x])
  BY <1>1, <1>2, <1>3 DEF Fits, SubmitFits, CancelFits, Busy
<1>6. op = "cancel" => Fits(entries["submit"][x], r, orders[x], remote[x])
  BY <1>1, <1>2, <1>3 DEF Fits, SubmitFits, CancelFits, Busy
<1>7. Move(op, x, r, orders[x], remote[x])
  BY <1>1, <1>2, <1>3, <1>4, <1>5, <1>6 DEF Move
<1> QED
  BY <1>7, ExecutionMove

\* The request goes on the wire, the first and last of its kind.
LEMMA StartStep ==
    ASSUME TInv, NEW op \in Ops, NEW x \in Executions, startExchange(op, x)
    PROVE  TInv'
<1> DEFINE e == entries[op][x]
           r == [e EXCEPT !.at = "wire", !.attempted = TRUE]
<1>1. /\ op = "submit" \/ op = "cancel"
      /\ e \in EntryState
      /\ orders[x] \in OrderView /\ remote[x] \in FarSide
      /\ orders = [orders EXCEPT ![x] = orders[x]] /\ remote = [remote EXCEPT ![x] = remote[x]]
      /\ requests \subseteq Requests /\ link.epoch \in Nat
      /\ Fits(entries["submit"][x], entries["cancel"][x], orders[x], remote[x])
  BY Known
<1>2. e.at = "ready" /\ UNCHANGED <<link, requests, orders>>
  BY DEF startExchange
<1>3. r \in EntryState /\ r.at = "wire" /\ r.attempted /\ r.prior = e.prior
  BY <1>1 DEF EntryState
<1>4. entries' = [entries EXCEPT ![op][x] = r]
  BY DEF startExchange, Enter
<1>5. PICK takes \in {FALSE, Takes(op, x)} :
         remote' = [remote EXCEPT
            ![x].order = IF ~takes THEN @ ELSE IF op = "submit" THEN "open" ELSE "cancelled",
            ![x].submits = @ + (IF op = "submit" THEN 1 ELSE 0)]
  BY DEF startExchange
<1> DEFINE m == [remote[x] EXCEPT
                   !.order = IF ~takes THEN @ ELSE IF op = "submit" THEN "open" ELSE "cancelled",
                   !.submits = @ + (IF op = "submit" THEN 1 ELSE 0)]
<1>6. remote' = [remote EXCEPT ![x] = m]
  <2>1. remote \in [Executions -> FarSide]
    BY DEF TInv, Shapes
  <2> QED
    BY <1>1, <1>5, <2>1 DEF FarSide
<1>7. /\ m \in FarSide
      /\ op = "submit" => m.order \in {remote[x].order, "open"} /\ m.submits = remote[x].submits + 1
      /\ op = "cancel" => m.order \in {remote[x].order, "cancelled"} /\ m.submits = remote[x].submits
  <2>1. /\ remote[x].order \in {"none", "open", "cancelled"} /\ remote[x].submits \in Nat
        /\ DOMAIN remote[x] = {"order", "submits"}
    BY <1>1 DEF FarSide
  <2> DEFINE od == IF ~takes THEN remote[x].order ELSE IF op = "submit" THEN "open" ELSE "cancelled"
             sb == remote[x].submits + (IF op = "submit" THEN 1 ELSE 0)
  <2>5. m = [remote[x] EXCEPT !.order = od, !.submits = sb]
    BY <2>1
  <2> HIDE DEF m, od, sb
  <2>6. m = [order |-> od, submits |-> sb]
    BY <1>1, <2>5 DEF FarSide
  <2>2. /\ m = [order |-> m.order, submits |-> m.submits]
        /\ m.order = IF ~takes THEN remote[x].order ELSE IF op = "submit" THEN "open" ELSE "cancelled"
        /\ m.submits = remote[x].submits + (IF op = "submit" THEN 1 ELSE 0)
    BY <2>6 DEF od, sb
  <2>3. m.order \in {"none", "open", "cancelled"} /\ m.submits \in Nat
    BY <1>1, <2>1, <2>2
  <2>4. m \in FarSide
    BY <2>2, <2>3 DEF FarSide
  <2> QED
    BY <1>1, <2>1, <2>2, <2>4
<1> HIDE DEF m, r
<1>8. op = "submit" => Fits(r, entries["cancel"][x], orders[x], m)
  BY <1>1, <1>2, <1>3, <1>7 DEF Fits, SubmitFits, CancelFits, Busy, FarSide
<1>9. op = "cancel" => Fits(entries["submit"][x], r, orders[x], m)
  BY <1>1, <1>2, <1>3, <1>7 DEF Fits, SubmitFits, CancelFits, Busy, FarSide
<1>10. Move(op, x, r, orders[x], m)
  BY <1>1, <1>2, <1>3, <1>4, <1>6, <1>7, <1>8, <1>9 DEF Move
<1> QED
  BY <1>10, ExecutionMove

\* An answer is the far side's, or a failure.
LEMMA EndStep ==
    ASSUME TInv, NEW op \in Ops, NEW x \in Executions, endExchange(op, x)
    PROVE  TInv'
<1> DEFINE e == entries[op][x]
<1>1. /\ op = "submit" \/ op = "cancel"
      /\ e \in EntryState
      /\ orders[x] \in OrderView /\ remote[x] \in FarSide
      /\ orders = [orders EXCEPT ![x] = orders[x]] /\ remote = [remote EXCEPT ![x] = remote[x]]
      /\ requests \subseteq Requests /\ link.epoch \in Nat
      /\ Fits(entries["submit"][x], entries["cancel"][x], orders[x], remote[x])
  BY Known
<1>2. e.at = "wire" /\ UNCHANGED <<link, requests, orders, remote>>
  BY DEF endExchange
<1>3. PICK answer \in Answers(op, x) : Enter(op, x, [e EXCEPT !.at = "settle", !.answer = answer])
  BY DEF endExchange
<1> DEFINE r == [e EXCEPT !.at = "settle", !.answer = answer]
<1>4. /\ op = "submit" => answer \in {"failed", IF remote[x].order = "open" THEN "acknowledged" ELSE "rejected"}
      /\ op = "cancel" => answer \in {"failed", IF remote[x].order = "cancelled" THEN "cancelled" ELSE "rejected"}
  BY DEF Answers
<1>5. /\ r \in EntryState /\ r.at = "settle" /\ r.attempted = e.attempted /\ r.prior = e.prior
      /\ r.answer = answer
  BY <1>1, <1>4 DEF EntryState
<1>6. entries' = [entries EXCEPT ![op][x] = r]
  BY <1>3 DEF Enter
<1> HIDE DEF r
<1>7. op = "submit" => Fits(r, entries["cancel"][x], orders[x], remote[x])
  BY <1>1, <1>2, <1>4, <1>5 DEF Fits, SubmitFits, CancelFits, Busy, FarSide
<1>8. op = "cancel" => Fits(entries["submit"][x], r, orders[x], remote[x])
  BY <1>1, <1>2, <1>4, <1>5 DEF Fits, SubmitFits, CancelFits, Busy, FarSide
<1>9. Move(op, x, r, orders[x], remote[x])
  BY <1>1, <1>2, <1>5, <1>6, <1>7, <1>8 DEF Move
<1> QED
  BY <1>9, ExecutionMove

\* What the answer makes of the order.
LEMMA SettleStep ==
    ASSUME TInv, NEW op \in Ops, NEW x \in Executions, settle(op, x)
    PROVE  TInv'
<1> DEFINE e == entries[op][x]
           r == Ended(op, e)
           o == ViewAfter(op, e)
<1>1. /\ op = "submit" \/ op = "cancel"
      /\ e \in EntryState
      /\ orders[x] \in OrderView /\ remote[x] \in FarSide
      /\ remote = [remote EXCEPT ![x] = remote[x]]
      /\ requests \subseteq Requests
      /\ Fits(entries["submit"][x], entries["cancel"][x], orders[x], remote[x])
  BY Known
<1>2. e.at = "settle" /\ UNCHANGED <<link, requests, remote>>
  BY DEF settle
<1>3. /\ r \in EntryState
      /\ op = "submit" \/ e.attempted => r.at = "done" /\ r.attempted = e.attempted
      /\ op = "cancel" /\ ~e.attempted => r.at = "none" /\ ~r.attempted
  BY <1>1 DEF Ended, NoEntry, EntryState, Fingerprints, OrderState
<1>4. /\ o \in OrderView
      /\ op = "submit" => o.state = e.answer /\ o.uncertain = (e.answer = "failed" /\ e.attempted)
      /\ op = "cancel" /\ (~e.attempted \/ e.answer = "rejected") => o.state = e.prior /\ ~o.uncertain
      /\ op = "cancel" /\ e.attempted /\ e.answer # "rejected" =>
            o.state = e.answer /\ o.uncertain = (e.answer = "failed")
  BY <1>1 DEF ViewAfter, OrderView, EntryState, OrderState
<1>5. entries' = [entries EXCEPT ![op][x] = r] /\ orders' = [orders EXCEPT ![x] = o]
  BY DEF settle, Enter
<1> HIDE DEF r, o
<1>6. ASSUME op = "submit" PROVE Fits(r, entries["cancel"][x], o, remote[x])
  <2>1. r.at = "done" /\ r.attempted = e.attempted
    BY <1>3, <1>6
  <2>2. entries["cancel"][x].at = "none"
    BY <1>1, <1>2, <1>6 DEF Fits, CancelFits
  <2>3. /\ e.answer \in {"failed", "acknowledged", "rejected"}
        /\ e.answer = "acknowledged" => remote[x].order = "open"
        /\ e.answer = "rejected" => remote[x].order = "none"
        /\ ~e.attempted => e.answer = "failed" /\ remote[x].order = "none"
    BY <1>1, <1>2, <1>6 DEF Fits, SubmitFits
  <2>4. Truth(o, remote[x])
    BY <1>1, <1>4, <1>6, <2>3 DEF Truth, EntryState
  <2> QED
    BY <1>1, <1>6, <2>1, <2>2, <2>4 DEF Fits, SubmitFits, CancelFits, Busy
<1>7. ASSUME op = "cancel" PROVE Fits(entries["submit"][x], r, o, remote[x])
  <2>1. entries["submit"][x].at = "done"
    BY <1>1, <1>2, <1>7 DEF Fits, CancelFits
  <2>2. /\ e.prior = "acknowledged"
        /\ e.answer \in {"failed", "cancelled", "rejected"}
        /\ e.answer = "cancelled" => remote[x].order = "cancelled"
        /\ e.answer = "rejected" => remote[x].order = "open"
        /\ ~e.attempted => e.answer = "failed" /\ remote[x].order = "open"
    BY <1>1, <1>2, <1>7 DEF Fits, CancelFits
  <2>3. Truth(o, remote[x])
    BY <1>1, <1>4, <1>7, <2>2 DEF Truth, EntryState
  <2>4. CASE e.attempted
    BY <1>1, <1>3, <1>7, <2>1, <2>3, <2>4 DEF Fits, SubmitFits, CancelFits, Busy
  <2>5. CASE ~e.attempted
    BY <1>1, <1>3, <1>7, <2>1, <2>2, <2>3, <2>5 DEF Fits, SubmitFits, CancelFits, Busy
  <2> QED
    BY <2>4, <2>5
<1>8. Move(op, x, r, o, remote[x])
  BY <1>1, <1>2, <1>3, <1>5, <1>4, <1>6, <1>7 DEF Move
<1> QED
  BY <1>8, ExecutionMove

\* A request enters a submission, or a cancellation of an acknowledged order.
LEMMA OnceStep ==
    ASSUME TransportAssumption, TInv, NEW q \in Requests, once(q)
    PROVE  TInv'
<1> DEFINE op == q.op
           x == q.execution
           e == entries[op][x]
           r == [NoEntry EXCEPT !.at = "perform", !.fingerprint = q.fingerprint]
<1>0. op \in Ops /\ x \in Executions
  BY DEF TransportAssumption, Ops
<1>1. /\ op = "submit" \/ op = "cancel"
      /\ e \in EntryState
      /\ orders[x] \in OrderView /\ remote[x] \in FarSide
      /\ orders = [orders EXCEPT ![x] = orders[x]] /\ remote = [remote EXCEPT ![x] = remote[x]]
      /\ requests \subseteq Requests
      /\ Fits(entries["submit"][x], entries["cancel"][x], orders[x], remote[x])
  BY <1>0, Known
<1>2. requests' \subseteq Requests /\ UNCHANGED <<link, orders, remote>>
  BY <1>1 DEF once
<1>3. CASE e.at # "none"
  <2>1. entries' = entries
    BY <1>3 DEF once
  <2>2. Shapes' /\ Linked'
    BY <1>2, <2>1 DEF TInv, Shapes, Linked
  <2> QED
    BY <1>2, <2>1, <2>2 DEF TInv
<1>4. CASE e.at = "none"
  <2>1. entries' = [entries EXCEPT ![op][x] = r]
    BY <1>4 DEF once
  <2>2. r \in EntryState /\ r.at = "perform" /\ ~r.attempted
    BY DEF EntryState, NoEntry, Fingerprints, OrderState
  <2>3. op = "cancel" => orders[x].state = "acknowledged"
    BY <1>4 DEF once, cancelPreflight
  <2> HIDE DEF r, op, x
  <2>4. op = "submit" => Fits(r, entries["cancel"][x], orders[x], remote[x])
    BY <1>1, <1>4, <2>2 DEF Fits, SubmitFits, CancelFits, Busy
  <2>5. ASSUME op = "cancel" PROVE Fits(entries["submit"][x], r, orders[x], remote[x])
    <3>0. entries["submit"][x] \in EntryState
      BY <1>0 DEF TInv, Shapes, Ops
    <3>1. entries["submit"][x].at = "done"
      BY <1>1, <2>3, <2>5, <3>0 DEF Fits, SubmitFits, Busy, EntryState
    <3> QED
      BY <1>1, <1>4, <2>2, <2>5, <3>1 DEF Fits, SubmitFits, CancelFits, Busy
  <2>6. Move(op, x, r, orders[x], remote[x])
    BY <1>1, <1>2, <2>1, <2>2, <2>4, <2>5 DEF Move
  <2> QED
    BY <1>0, <2>6, ExecutionMove
<1> QED
  BY <1>3, <1>4

\* The connection moves; no step of connect touches one that is connected.
LEMMA ConnectStep ==
    ASSUME TInv, connect \/ \E ok \in BOOLEAN : connectStep(ok)
    PROVE  TInv'
<1>1. UNCHANGED <<requests, entries, orders, remote>>
  BY DEF connect, connectStep
<1>2. /\ link' \in LinkState
      /\ link'.connect # "none" => link'.state # "connected"
      /\ link'.epoch = link.epoch
      /\ link.state # "connected"
  <2>1. /\ link \in LinkState
        /\ link.connect # "none" => link.state # "connected"
    BY DEF TInv, Shapes, Linked
  <2>2. CASE connect
    BY <2>1, <2>2 DEF connect, LinkState
  <2>3. ASSUME NEW ok \in BOOLEAN, connectStep(ok)
        PROVE  /\ link.state # "connected"
               /\ \/ link' = FailedLink(link)
                  \/ link' = [link EXCEPT !.connect = "wire"]
                  \/ link' = [link EXCEPT !.connect = "emitted"]
                  \/ link' = [link EXCEPT !.connect = "none", !.state = "connected"]
    BY <2>1, <2>3 DEF connectStep
  <2>4. ASSUME link' = FailedLink(link), link.state # "connected"
        PROVE  /\ link' \in LinkState
               /\ link'.connect = "none" /\ link'.epoch = link.epoch
    BY <2>1, <2>4 DEF FailedLink, LinkState
  <2>5. ASSUME link.state # "connected",
               \/ link' = [link EXCEPT !.connect = "wire"]
               \/ link' = [link EXCEPT !.connect = "emitted"]
               \/ link' = [link EXCEPT !.connect = "none", !.state = "connected"]
        PROVE  /\ link' \in LinkState
               /\ link'.connect # "none" => link'.state # "connected"
               /\ link'.epoch = link.epoch
    BY <2>1, <2>5 DEF LinkState
  <2> QED
    BY <2>2, <2>3, <2>4, <2>5
<1>3. Shapes'
  BY <1>1, <1>2 DEF TInv, Shapes
<1>4. Linked'
  BY <1>1, <1>2 DEF TInv, Linked
<1> QED
  BY <1>1, <1>3, <1>4 DEF TInv

\* A disconnect aborts every exchange that is ready.
LEMMA DisconnectStep ==
    ASSUME TInv, disconnect
    PROVE  TInv'
<1>1. UNCHANGED <<requests, orders, remote>>
  BY DEF disconnect
<1>2. /\ link' \in LinkState
      /\ link'.state = "disconnected"
  <2>1. (link.connect = "wire") \in BOOLEAN
    OBVIOUS
  <2>2. PICK b \in BOOLEAN : link' = [link EXCEPT !.state = "disconnected", !.epoch = link.epoch + 1, !.aborted = b]
    BY <2>1, Zenon DEF disconnect
  <2>3. /\ link \in LinkState
        /\ link.epoch + 1 \in Nat
    BY DEF TInv, Shapes, LinkState
  <2> QED
    BY <2>2, <2>3 DEF LinkState
<1>3. ASSUME NEW p \in Ops, NEW y \in Executions
      PROVE  \E b \in BOOLEAN : /\ entries'[p][y] = [entries[p][y] EXCEPT !.aborted = b]
                                /\ entries[p][y].at = "ready" => b
  <2> DEFINE b == entries[p][y].aborted \/ Waiting(entries[p][y])
  <2>1. b \in BOOLEAN
    OBVIOUS
  <2>2. entries'[p][y] = [entries[p][y] EXCEPT !.aborted = b]
    BY DEF disconnect
  <2>3. entries[p][y].at = "ready" => b
    BY DEF Waiting
  <2> QED
    BY <2>1, <2>2, <2>3, Zenon
<1>4. ASSUME NEW p \in Ops, NEW y \in Executions
      PROVE  /\ entries'[p][y] \in EntryState
             /\ entries'[p][y].at = entries[p][y].at
             /\ entries'[p][y].attempted = entries[p][y].attempted
             /\ entries'[p][y].prior = entries[p][y].prior
             /\ entries'[p][y].answer = entries[p][y].answer
             /\ entries'[p][y].at = "ready" => entries'[p][y].aborted
  <2>1. PICK b \in BOOLEAN : /\ entries'[p][y] = [entries[p][y] EXCEPT !.aborted = b]
                             /\ entries[p][y].at = "ready" => b
    BY <1>3
  <2>2. entries[p][y] \in EntryState
    BY DEF TInv, Shapes
  <2> QED
    BY <2>1, <2>2 DEF EntryState
<1>5. entries' \in [Ops -> [Executions -> EntryState]]
  <2>1. entries' = [p \in Ops |-> [y \in Executions |-> entries'[p][y]]]
    BY DEF disconnect
  <2> QED
    BY <1>4, <2>1
<1>6. Shapes'
  BY <1>1, <1>2, <1>5 DEF TInv, Shapes
<1>7. Linked'
  BY <1>2, <1>4 DEF Linked
<1>8. ASSUME NEW y \in Executions
      PROVE  Fits(entries'["submit"][y], entries'["cancel"][y], orders[y], remote[y])
  <2>1. Fits(entries["submit"][y], entries["cancel"][y], orders[y], remote[y])
    BY DEF TInv
  <2>2. "submit" \in Ops /\ "cancel" \in Ops
    BY DEF Ops
  <2> QED
    BY <1>4, <2>1, <2>2 DEF Fits, SubmitFits, CancelFits, Busy
<1>9. (\A y \in Executions : Fits(entries["submit"][y], entries["cancel"][y], orders[y], remote[y]))'
  BY <1>1, <1>8 DEF Fits, SubmitFits, CancelFits, Busy, Truth
<1> QED
  BY <1>6, <1>7, <1>9 DEF TInv

-----------------------------------------------------------------------------
\* Every step of the transport keeps the invariant.
LEMMA NextInv == ASSUME TransportAssumption, TInv, [TransportNext]_transportVars PROVE TInv'
<1>1. CASE UNCHANGED transportVars
  <2>1. Shapes' /\ Linked'
    BY <1>1 DEF transportVars, TInv, Shapes, Linked
  <2> QED
    BY <1>1, <2>1 DEF transportVars, TInv
<1>2. CASE connect \/ \E ok \in BOOLEAN : connectStep(ok)
  BY <1>2, ConnectStep
<1>3. CASE disconnect
  BY <1>3, DisconnectStep
<1>4. CASE \E r \in Requests : once(r)
  BY <1>4, OnceStep
<1>5. ASSUME NEW op \in Ops, NEW x \in Executions,
             \/ perform(op, x) \/ abortBeforeExchange(op, x) \/ startExchange(op, x)
             \/ endExchange(op, x) \/ settle(op, x)
             \/ \E ok \in BOOLEAN : emitted(op, x, ok)
      PROVE  TInv'
  BY <1>5, PerformStep, AbortStep, StartStep, EndStep, SettleStep, EmittedStep
<1> QED
  BY <1>1, <1>2, <1>3, <1>4, <1>5 DEF TransportNext

\* The invariant holds in every reachable state of the transport, for any
\* executions, requests and capacity.
THEOREM TransportInvariance == ASSUME TransportAssumption PROVE TransportSpec => []TInv
  BY InitInv, NextInv, PTL DEF TransportSpec

\* The transport tells the truth (adapters.ts submit, cancel and their settling):
\* an execution reaches the wire as a submission at most once, and while nothing
\* of it is under way its view is the far side's, or uncertain.
THEOREM TruthAlways == ASSUME TransportAssumption PROVE TransportSpec => []TransportTellsTruth
<1>1. ASSUME TInv PROVE TransportTellsTruth
  <2> SUFFICES ASSUME NEW x \in Executions
               PROVE  /\ remote[x].submits <= 1
                      /\ Quiet(x) /\ ~orders[x].uncertain =>
                           remote[x].order = CASE orders[x].state = "acknowledged" -> "open"
                                               [] orders[x].state = "cancelled" -> "cancelled"
                                               [] OTHER -> "none"
    BY DEF TransportTellsTruth
  <2>1. Fits(entries["submit"][x], entries["cancel"][x], orders[x], remote[x])
    BY <1>1 DEF TInv
  <2>2. "submit" \in Ops /\ "cancel" \in Ops
    BY DEF Ops
  <2>3. remote[x].submits <= 1
    BY <2>1 DEF Fits, SubmitFits
  <2>4. Quiet(x) => Truth(orders[x], remote[x])
    BY <2>1, <2>2 DEF Quiet, Fits, Busy
  <2> QED
    BY <2>3, <2>4 DEF Truth
<1> QED
  BY <1>1, TransportInvariance, PTL

\* Nothing goes on the wire after the connection it was prepared for is gone
\* (adapters.ts deadline and disconnect): a disconnect aborts what is ready.
THEOREM FreshAlways == ASSUME TransportAssumption PROVE TransportSpec => NoStaleExchange
<1>1. ASSUME TInv PROVE ExchangeIsFresh
  BY <1>1 DEF TInv, Linked, ExchangeIsFresh, startExchange
<1>2. TInv => [ExchangeIsFresh]_transportVars
  BY <1>1
<1> QED
  BY <1>2, TransportInvariance, PTL DEF NoStaleExchange

-----------------------------------------------------------------------------
\* No epoch is beyond the one a disconnect may still reach.
Epochs == link.epoch \in 0..MaxEpoch /\ link.asked \in 0..MaxEpoch

\* Only a disconnect raises the epoch, and a connect takes it over.
LEMMA EpochsStep ==
    ASSUME TransportAssumption, TInv, Epochs, [TransportNext]_transportVars PROVE Epochs'
<1>1. link \in LinkState /\ link.epoch \in 0..MaxEpoch /\ link.asked \in 0..MaxEpoch /\ MaxEpoch \in Nat
  BY DEF TInv, Shapes, Epochs, TransportAssumption
<1>2. CASE connect
  BY <1>1, <1>2 DEF connect, LinkState, Epochs
<1>3. CASE disconnect
  <2>1. link.epoch + 1 \in 0..MaxEpoch
    BY <1>1, <1>3 DEF disconnect
  <2>2. link'.epoch = link.epoch + 1 /\ link'.asked = link.asked
    BY <1>1, <1>3 DEF disconnect, LinkState
  <2> QED
    BY <1>1, <2>1, <2>2 DEF Epochs
<1>4. ASSUME NEW ok \in BOOLEAN, connectStep(ok) PROVE Epochs'
  <2>1. link'.epoch = link.epoch /\ link'.asked = link.asked
    BY <1>1, <1>4 DEF connectStep, FailedLink, LinkState
  <2> QED
    BY <1>1, <2>1 DEF Epochs
<1>5. CASE link' = link
  BY <1>1, <1>5 DEF Epochs
<1>6. ASSUME NEW r \in Requests, once(r) PROVE link' = link
  BY <1>6 DEF once
<1>7. ASSUME NEW op \in Ops, NEW x \in Executions,
             \/ perform(op, x) \/ abortBeforeExchange(op, x) \/ startExchange(op, x) \/ endExchange(op, x) \/ settle(op, x)
             \/ \E ok \in BOOLEAN : emitted(op, x, ok)
      PROVE  link' = link
  BY <1>7 DEF perform, abortBeforeExchange, startExchange, endExchange, settle, emitted
<1> QED
  BY <1>2, <1>3, <1>4, <1>5, <1>6, <1>7 DEF TransportNext, transportVars

\* The transport is safe (adapters.ts): every state is well formed, what it says
\* of an execution is so at the far side or uncertain, and nothing goes on the
\* wire after the connection it was prepared for is gone.
THEOREM TransportIsSafeAlways == ASSUME TransportAssumption PROVE TransportSpec => TransportIsSafe
<1>1. TransportInit => Epochs
  BY DEF TransportInit, Epochs, TransportAssumption
<1>2. TInv /\ Epochs /\ [TransportNext]_transportVars => Epochs'
  BY EpochsStep
<1>3. TInv /\ Epochs => TransportTypeOK
  BY DEF TInv, Shapes, Epochs, TransportTypeOK, LinkState, EntryState, OrderView, OrderState
<1>4. TransportSpec => []Epochs
  BY <1>1, <1>2, TransportInvariance, PTL DEF TransportSpec
<1> QED
  BY <1>3, <1>4, TransportInvariance, TruthAlways, FreshAlways, PTL DEF TransportIsSafe

-----------------------------------------------------------------------------
(* The rows behind a mutation: the inductive invariant.                    *)

\* The states a committed row is in: no transaction ends in "prepared".
RowStates == {"none", "submitting", "uncertain", "confirmed", "rejected", "reconciled"}
RowOutcomes == {"none", "accepted", "rejected", "uncertain"}
Reasons == PROVIDER_UNCERTAINTY_REASONS \cup {"none"}
Evidence == PROVIDER_TERMINAL_EVIDENCE \cup {"none"}
IntentRows ==
    [status : RowStates, outcome : RowOutcomes, reason : Reasons, evidence : Evidence,
     resolution : PROVIDER_RESOLUTIONS \cup {"none"}, required : BOOLEAN,
     recState : {"not_required", "pending", "resolved"}, resolved : BOOLEAN, version : Nat]
HeldRows ==
    [state : {"none", "reserved", "uncertain", "known_completed", "known_rejected"},
     required : BOOLEAN, version : Nat]
EventShapes ==
    [from : RowStates \cup {"prepared"}, to : RowStates \cup {"prepared"}, outcome : RowOutcomes,
     evidence : Evidence, reason : Reasons]
ResultRows ==
    [outcome : RowOutcomes, reason : Reasons, ticket : {"ok", "none"}, status : NormalizedStatuses \cup {"none"}]
Runs ==
    [pc : {"idle", "authorized", "calling", "answered", "persisted", "done", "refused", "crashed"},
     barrier : Nat, result : ResultRows,
     failure : {"none", "receipt_persistence_failure", "state_commit_failed"}, state : RowStates]
Desks == [doing : {"nothing", "observing", "resolving"}, seen : IntentRows]

LedgerShapes ==
    /\ intent \in IntentRows /\ held \in HeldRows /\ eventRows \in Seq(EventShapes)
    /\ exec \in Runs /\ desk \in [Observers \cup Operators -> Desks]

\* A normalised outcome is one a receipt row can hold.
OutcomeFits(o) ==
    \/ o.outcome = "uncertain" /\ o.reason \in PROVIDER_UNCERTAINTY_REASONS /\ o.ticket = "none"
    \/ o.outcome = "accepted" /\ o.reason = "none" /\ o.ticket = "ok"
    \/ o.outcome = "rejected" /\ o.reason = "none"

\* The reservation that goes with an intent row.
HeldState(row) ==
    CASE row.status = "none" -> "none"
      [] row.status = "submitting" -> "reserved"
      [] row.status = "uncertain" -> "uncertain"
      [] row.outcome = "accepted" -> "known_completed"
      [] OTHER -> "known_rejected"

EventsChain(rows) == \A k \in 1..Len(rows) - 1 : rows[k].to = rows[k + 1].from
EventsFit(rows, status) ==
    /\ EventsChain(rows) /\ (rows = <<>> <=> status = "none")
    /\ rows # <<>> => rows[Len(rows)].to = status

ResolutionsFit(rows, row) ==
    /\ row.status # "reconciled" => rows = {}
    /\ row.status = "reconciled" =>
          \E r \in rows : /\ rows = {r} /\ ResolutionRowFits(r)
                          /\ r.resolution = row.resolution /\ r.evidence = row.evidence

ObservationsFit(rows, row) ==
    \A o \in rows : /\ ObservationRowFits(o)
                    /\ o.applied => row.status = "reconciled" /\ row.evidence = "reconciliation_verified"

ReceiptsFit(rows) == (\A r \in rows : ReceiptRowFits(r)) /\ \A x, y \in rows : x = y

\* What a run of executeSubmit knows is on record.
RunFits(run, rows, row) ==
    /\ run.pc = "idle" <=> row.status = "none"
    /\ run.pc \in {"idle", "authorized", "calling", "answered", "refused"} => rows = {}
    /\ run.pc \in {"answered", "persisted", "done"} => OutcomeFits(run.result)
    /\ run.pc \in {"persisted", "done"} /\ run.result.outcome # "uncertain" =>
          \E r \in rows : r.outcome = run.result.outcome
    /\ row.status \in {"confirmed", "rejected"} => run.pc = "done" /\ run.result.outcome = row.outcome
    /\ run.pc = "done" =>
          /\ run.state # "none"
          /\ run.failure = "none" /\ run.state # "uncertain" => row.status \in {"confirmed", "rejected"}
          /\ isProviderIntentTerminalState(run.state) => isProviderIntentTerminalState(row.status)

\* A row read before the lock is the row as it is unless its version moved.
DeskFits(d, row) ==
    d.doing # "nothing" =>
        /\ row.status # "none" /\ d.seen.status # "none" /\ d.seen.version <= row.version
        /\ d.seen.version = row.version => d.seen = row
        /\ d.doing = "resolving" => ~isProviderIntentTerminalState(d.seen.status)

MInv ==
    /\ LedgerShapes
    /\ intent.status = "none" \/ IntentRowFits(intent)
    /\ held.state = HeldState(intent)
    /\ EventsFit(eventRows, intent.status)
    /\ ResolutionsFit(resolutionRows, intent)
    /\ ObservationsFit(observationRows, intent)
    /\ ReceiptsFit(receiptRows)
    /\ RunFits(exec, receiptRows, intent)
    /\ \A p \in Observers \cup Operators : DeskFits(desk[p], intent)
    /\ WritesFitTheTables

-----------------------------------------------------------------------------
(* Operators.                                                              *)

\* Whatever the provider answers, the normalised outcome fits.
LEMMA NormalizedFits ==
    ASSUME NEW raw PROVE normalizeSubmitOutcome(raw) \in ResultRows /\ OutcomeFits(normalizeSubmitOutcome(raw))
<1> DEFINE status == normalizeProviderOrderStatus(raw.status)
           ticket == IF raw.ticket = "ok" THEN "ok" ELSE "none"
           Definite(o) == [outcome |-> o, reason |-> "none", ticket |-> ticket, status |-> status]
           Good(o) == o \in ResultRows /\ OutcomeFits(o)
<1>1. status \in NormalizedStatuses
  BY DEF normalizeProviderOrderStatus, PROVIDER_ORDER_STATUS_VOCABULARY, NormalizedStatuses
<1>2. ticket \in {"ok", "none"}
  OBVIOUS
<1> HIDE DEF status, ticket
<1>3. ASSUME NEW reason \in PROVIDER_UNCERTAINTY_REASONS, NEW s \in NormalizedStatuses \cup {"none"}
      PROVE  Good(Uncertain(reason, s))
  BY DEF Uncertain, ResultRows, OutcomeFits, RowOutcomes, Reasons
<1>4. /\ ticket = "ok" => Good(Definite("accepted"))
      /\ Good(Definite("rejected"))
  BY <1>1, <1>2 DEF ResultRows, OutcomeFits, RowOutcomes, Reasons
<1>5. classifyTransportFailure(raw.status) \in PROVIDER_UNCERTAINTY_REASONS
  BY DEF classifyTransportFailure, PROVIDER_UNCERTAINTY_REASONS
<1>6. /\ {"lost_response", "malformed_response", "identity_verification_failed",
          "unknown_provider_status"} \subseteq PROVIDER_UNCERTAINTY_REASONS
      /\ "uncertain" \in NormalizedStatuses
  BY DEF PROVIDER_UNCERTAINTY_REASONS, NormalizedStatuses
<1>7. /\ Good(Uncertain(classifyTransportFailure(raw.status), "none"))
      /\ Good(Uncertain("lost_response", "uncertain")) /\ Good(Uncertain("malformed_response", "uncertain"))
      /\ Good(Uncertain("identity_verification_failed", "uncertain"))
      /\ Good(Uncertain("unknown_provider_status", "uncertain"))
      /\ Good(Uncertain("unknown_provider_status", status))
  BY <1>1, <1>3, <1>5, <1>6
<1> HIDE DEF Good, Definite
<1>8. Good(normalizeSubmitOutcome(raw))
  BY <1>4, <1>7 DEF normalizeSubmitOutcome, status, ticket, Definite
<1> QED
  BY <1>8 DEF Good

\* The arguments the code gives transitionIntent.
ArgsFit(a) ==
    \/ /\ a.to = "confirmed" /\ a.outcome = "accepted" /\ a.evidence = "provider_response_verified"
       /\ a.reason = "none" /\ a.resolution = "none"
    \/ /\ a.to = "rejected" /\ a.outcome = "rejected" /\ a.evidence = "provider_response_verified"
       /\ a.reason = "none" /\ a.resolution = "none"
    \/ /\ a.to = "uncertain" /\ a.outcome = "uncertain" /\ a.evidence = "none"
       /\ a.reason \in PROVIDER_UNCERTAINTY_REASONS /\ a.resolution = "none"
    \/ /\ a.to = "reconciled" /\ a.evidence \in PROVIDER_TERMINAL_EVIDENCE /\ a.reason = "none"
       /\ \/ a.outcome = "accepted" /\ a.resolution = "provider_accepted"
          \/ a.outcome = "rejected" /\ a.resolution = "provider_rejected"
          \/ a.outcome = "none" /\ a.resolution = "provider_absent"

\* The columns fit the table.
LEMMA ColumnsFit ==
    ASSUME NEW seen, seen.version \in Nat, NEW a, ArgsFit(a)
    PROVE  /\ Columns(seen, a) \in IntentRows /\ IntentRowFits(Columns(seen, a))
           /\ Columns(seen, a).status = a.to /\ Columns(seen, a).outcome = a.outcome
           /\ Columns(seen, a).resolution = a.resolution /\ Columns(seen, a).evidence = a.evidence
           /\ Columns(seen, a).version = seen.version + 1
<1>1. /\ a.to \in {"confirmed", "rejected", "uncertain", "reconciled"} /\ a.outcome \in RowOutcomes
      /\ a.reason \in Reasons /\ a.evidence \in Evidence /\ a.resolution \in PROVIDER_RESOLUTIONS \cup {"none"}
      /\ a.to # "uncertain" => a.evidence # "none"
  BY DEF ArgsFit, RowOutcomes, Reasons, Evidence, PROVIDER_RESOLUTIONS, PROVIDER_TERMINAL_EVIDENCE
<1> DEFINE rec == CASE a.to = "uncertain" -> "pending" [] a.to = "reconciled" -> "resolved"
                    [] OTHER -> "not_required"
           req == a.to = "uncertain"
           res == isProviderIntentTerminalState(a.to)
           n == seen.version + 1
           row == [status |-> a.to, outcome |-> a.outcome, reason |-> a.reason, evidence |-> a.evidence,
                   resolution |-> a.resolution, required |-> req, recState |-> rec, resolved |-> res, version |-> n]
<1>2. Columns(seen, a) = row
  BY DEF Columns
<1>3. req \in BOOLEAN /\ res \in BOOLEAN /\ n \in Nat
  BY DEF isProviderIntentTerminalState
<1>4. rec \in {"not_required", "pending", "resolved"} /\ (a.to = "uncertain" => rec = "pending")
      /\ (a.to = "reconciled" => rec = "resolved")
  BY <1>1
<1>5. (req <=> a.to = "uncertain") /\ (res <=> a.to # "uncertain")
  BY <1>1 DEF isProviderIntentTerminalState
<1> HIDE DEF rec, req, res, n
<1>6. row \in IntentRows
  BY <1>1, <1>3, <1>4 DEF IntentRows, RowStates
<1>7. /\ row.status = a.to /\ row.outcome = a.outcome /\ row.resolution = a.resolution
      /\ row.evidence = a.evidence /\ row.version = n /\ row.reason = a.reason /\ row.recState = rec
  OBVIOUS
<1>8. (row.required <=> a.to = "uncertain") /\ (row.resolved <=> a.to # "uncertain")
  BY <1>5
<1> HIDE DEF row
<1>9. state_coherence_check(row)
  BY <1>1, <1>4, <1>7, <1>8 DEF ArgsFit, state_coherence_check
<1>10. IntentRowFits(row)
  BY <1>1, <1>7, <1>9 DEF IntentRowFits, uncertainty_reason_check, terminal_evidence_check, Reasons, Evidence
<1> QED
  BY <1>2, <1>6, <1>7, <1>10 DEF n

\* A transition is refused only for its version or its states.
LEMMA RefusedFor ==
    ASSUME NEW seen, seen.version \in Nat, NEW a, ArgsFit(a)
    PROVE  /\ Refusal(seen, a) \in {"none", "version", "transition"}
           /\ Refusal(seen, a) = "none" => intent.version = seen.version /\ provider_intent_state_guard(intent.status, a.to)
<1>1. IntentRowFits(Columns(seen, a))
  BY ColumnsFit
<1> QED
  BY <1>1 DEF Refusal

\* An event that starts where the last one ended continues the chain.
LEMMA ChainGrows ==
    ASSUME NEW rows \in Seq(EventShapes), NEW e \in EventShapes, rows # <<>>,
           EventsChain(rows), rows[Len(rows)].to = e.from
    PROVE  /\ Append(rows, e) \in Seq(EventShapes) /\ Append(rows, e) # <<>> /\ EventsChain(Append(rows, e))
           /\ Append(rows, e)[Len(Append(rows, e))] = e
<1> DEFINE s == Append(rows, e)
<1>1. /\ s \in Seq(EventShapes) /\ Len(s) = Len(rows) + 1 /\ s[Len(rows) + 1] = e
      /\ \A i \in 1..Len(rows) : s[i] = rows[i]
  BY AppendProperties
<1>2. Len(rows) \in Nat /\ Len(rows) # 0
  BY EmptySeq
<1> HIDE DEF s
<1>3. EventsChain(s)
  <2> SUFFICES ASSUME NEW k \in 1..Len(s) - 1 PROVE s[k].to = s[k + 1].from
    BY DEF EventsChain
  <2>1. k \in 1..Len(rows)
    BY <1>1, <1>2
  <2>2. CASE k = Len(rows)
    BY <1>1, <1>2, <2>1, <2>2
  <2>3. CASE k # Len(rows)
    <3>1. k \in 1..Len(rows) - 1 /\ k + 1 \in 1..Len(rows)
      BY <1>2, <2>1, <2>3
    <3> QED
      BY <1>1, <2>1, <3>1 DEF EventsChain
  <2> QED
    BY <2>2, <2>3
<1>4. s # <<>>
  BY <1>1, <1>2
<1> QED
  BY <1>1, <1>3, <1>4 DEF s

Transitioned(a) ==
    /\ intent' \in IntentRows /\ IntentRowFits(intent') /\ intent'.status = a.to /\ intent'.outcome = a.outcome
    /\ intent'.resolution = a.resolution /\ intent'.evidence = a.evidence
    /\ held' \in HeldRows /\ held'.state = HeldState(intent')
    /\ eventRows' \in Seq(EventShapes) /\ EventsFit(eventRows', a.to)
    /\ \A p \in Observers \cup Operators : DeskFits(desk[p], intent')

\* What transitionIntent leaves of an unresolved row.
LEMMA TransitionLeaves ==
    ASSUME MInv, NEW seen \in IntentRows, NEW a, ArgsFit(a), transitionIntent(seen, a),
           seen.version = intent.version => seen = intent, seen.status \in {"submitting", "uncertain"}
    PROVE  Transitioned(a) /\ seen = intent
<1>1. /\ intent \in IntentRows /\ held \in HeldRows /\ eventRows \in Seq(EventShapes)
      /\ desk \in [Observers \cup Operators -> Desks] /\ EventsFit(eventRows, intent.status)
      /\ \A p \in Observers \cup Operators : DeskFits(desk[p], intent)
  BY DEF MInv, LedgerShapes
<1>2. seen.version \in Nat
  BY DEF IntentRows
<1>3. seen = intent
  BY <1>2, RefusedFor DEF transitionIntent
<1>4. /\ intent' \in IntentRows /\ IntentRowFits(intent') /\ intent'.status = a.to /\ intent'.outcome = a.outcome
      /\ intent'.resolution = a.resolution /\ intent'.evidence = a.evidence
      /\ intent'.version = intent.version + 1
  BY <1>2, <1>3, ColumnsFit DEF transitionIntent
<1>5. a.to \in {"confirmed", "rejected", "uncertain", "reconciled"}
  BY DEF ArgsFit
<1>6. held' \in HeldRows /\ held'.state = HeldState(intent')
  <2> DEFINE now == ReservationStateFor(a.to, a.outcome, a.resolution)
             r == now = "uncertain"
             n == held.version + 1
  <2>1. now \in {"uncertain", "known_completed", "known_rejected"}
    BY DEF ReservationStateFor
  <2>2. now = HeldState(intent')
    <3>1. CASE a.to = "uncertain"
      <4>1. now = "uncertain"
        BY <3>1 DEF ReservationStateFor, ArgsFit
      <4> QED
        BY <1>4, <3>1, <4>1 DEF HeldState, ArgsFit
    <3>2. CASE a.to # "uncertain" /\ a.outcome = "accepted"
      <4>1. now = "known_completed"
        BY <3>2 DEF ReservationStateFor
      <4> QED
        BY <1>4, <1>5, <3>2, <4>1 DEF HeldState
    <3>3. CASE a.to # "uncertain" /\ a.outcome # "accepted"
      <4>1. now = "known_rejected"
        BY <3>3 DEF ReservationStateFor, ArgsFit
      <4> QED
        BY <1>4, <1>5, <3>3, <4>1 DEF HeldState
    <3> QED
      BY <3>1, <3>2, <3>3
  <2>3. n \in Nat /\ r \in BOOLEAN
    BY <1>1 DEF HeldRows
  <2>4. held' = [state |-> now, required |-> r, version |-> n]
    BY DEF transitionIntent
  <2> HIDE DEF now, r, n
  <2> QED
    BY <2>1, <2>2, <2>3, <2>4 DEF HeldRows
<1>7. eventRows' \in Seq(EventShapes) /\ EventsFit(eventRows', a.to)
  <2> DEFINE e == Event(intent.status, a.to, a.outcome, a.evidence, a.reason)
  <2>1. eventRows' = Append(eventRows, e)
    BY <1>3 DEF transitionIntent, insertEvent
  <2>2. e \in EventShapes /\ e.from = intent.status /\ e.to = a.to
    BY <1>1, <1>5 DEF Event, EventShapes, IntentRows, RowStates, ArgsFit, RowOutcomes, Reasons, Evidence,
              PROVIDER_TERMINAL_EVIDENCE
  <2> HIDE DEF e
  <2>3. eventRows # <<>> /\ eventRows[Len(eventRows)].to = e.from /\ EventsChain(eventRows)
    BY <1>1, <1>3, <2>2 DEF EventsFit
  <2>4. /\ eventRows' \in Seq(EventShapes) /\ eventRows' # <<>> /\ EventsChain(eventRows')
        /\ eventRows'[Len(eventRows')] = e
    BY <1>1, <2>1, <2>2, <2>3, ChainGrows
  <2> QED
    BY <1>5, <2>2, <2>4 DEF EventsFit
<1>8. ASSUME NEW p \in Observers \cup Operators PROVE DeskFits(desk[p], intent')
  <2>1. DeskFits(desk[p], intent) /\ desk[p].seen.version \in Nat /\ intent.version \in Nat
    BY <1>1 DEF Desks, IntentRows
  <2> QED
    BY <1>4, <1>5, <2>1 DEF DeskFits
<1> QED
  BY <1>3, <1>4, <1>6, <1>7, <1>8 DEF Transitioned
-----------------------------------------------------------------------------
(* The steps.                                                              *)

\* There is no row initially.
LEMMA LedgerInitInv == LedgerInit => MInv
<1> SUFFICES ASSUME LedgerInit PROVE MInv
  OBVIOUS
<1>1. NoIntentRow \in IntentRows /\ NoIntentRow.status = "none"
  BY DEF NoIntentRow, IntentRows, RowStates, RowOutcomes, Reasons, Evidence
<1>2. NoRun \in Runs /\ NoRun.pc = "idle"
  BY DEF NoRun, Runs, Uncertain, ResultRows, RowOutcomes, Reasons, RowStates
<1>3. NoDesk \in Desks /\ NoDesk.doing = "nothing"
  BY <1>1 DEF NoDesk, Desks
<1>4. held \in HeldRows /\ held.state = "none"
  BY DEF LedgerInit, HeldRows
<1>5. <<>> \in Seq(EventShapes) /\ Len(<<>>) = 0
  OBVIOUS
<1>6. LedgerShapes
  BY <1>1, <1>2, <1>3, <1>4, <1>5 DEF LedgerInit, LedgerShapes
<1>7. EventsFit(eventRows, intent.status)
  BY <1>1, <1>5 DEF LedgerInit, EventsFit, EventsChain
<1>8. RunFits(exec, receiptRows, intent)
  BY <1>1, <1>2 DEF LedgerInit, RunFits
<1>9. ResolutionsFit(resolutionRows, intent) /\ ObservationsFit(observationRows, intent) /\ ReceiptsFit(receiptRows)
  BY <1>1 DEF LedgerInit, ResolutionsFit, ObservationsFit, ReceiptsFit
<1>10. held.state = HeldState(intent)
  BY <1>1, <1>4 DEF LedgerInit, HeldState, NoIntentRow
<1>11. \A p \in Observers \cup Operators : DeskFits(desk[p], intent)
  BY <1>3 DEF LedgerInit, DeskFits
<1>12. WritesFitTheTables
  BY DEF LedgerInit, WritesFitTheTables
<1> QED
  BY <1>1, <1>6, <1>7, <1>8, <1>9, <1>10, <1>11, <1>12 DEF MInv, LedgerInit

\* A step of a run that leaves the intent row alone.
LEMMA RunMoves ==
    ASSUME MInv, UNCHANGED <<intent, held, observationRows, resolutionRows, eventRows, desk>>,
           exec' \in Runs, ReceiptsFit(receiptRows'), RunFits(exec', receiptRows', intent), WritesFitTheTables'
    PROVE  MInv'
<1>1. LedgerShapes'
  BY DEF MInv, LedgerShapes
<1> QED
  BY <1>1 DEF MInv

\* prepareSubmit commits the row as submitting.
LEMMA PrepareInv == ASSUME MInv, prepareSubmit PROVE MInv'
<1> DEFINE row == [NoIntentRow EXCEPT !.status = "submitting", !.version = 2]
           e1 == Event("none", "prepared", "none", "none", "none")
           e2 == Event("prepared", "submitting", "none", "none", "none")
<1>1. /\ intent.status = "none" /\ IntentRowFits(row) /\ intent' = row
      /\ held' = [state |-> "reserved", required |-> FALSE, version |-> 1] /\ eventRows' = <<e1, e2>>
      /\ exec' = [exec EXCEPT !.pc = "authorized", !.barrier = row.version]
      /\ UNCHANGED <<receiptRows, observationRows, resolutionRows, desk, refused>>
  BY DEF prepareSubmit
<1>2. row \in IntentRows /\ row.status = "submitting" /\ row.version = 2 /\ row.outcome = "none"
  BY DEF NoIntentRow, IntentRows, RowStates, RowOutcomes, Reasons, Evidence
<1> HIDE DEF row
<1>3. held' \in HeldRows /\ held'.state = "reserved"
  BY <1>1 DEF HeldRows
<1>4. e1 \in EventShapes /\ e2 \in EventShapes /\ e1.to = "prepared" /\ e2.from = "prepared" /\ e2.to = "submitting"
  BY DEF Event, EventShapes, RowStates, RowOutcomes, Reasons, Evidence
<1> HIDE DEF e1, e2
<1>5. eventRows' \in Seq(EventShapes) /\ EventsFit(eventRows', "submitting")
  <2>1. /\ <<e1, e2>> \in Seq(EventShapes) /\ Len(<<e1, e2>>) = 2 /\ <<e1, e2>>[1] = e1 /\ <<e1, e2>>[2] = e2
        /\ <<e1, e2>> # <<>>
    BY <1>4
  <2>2. \A k \in 1..(2 - 1) : k = 1
    OBVIOUS
  <2> QED
    BY <1>1, <1>4, <2>1, <2>2 DEF EventsFit, EventsChain
<1>6. exec \in Runs /\ exec.pc = "idle" /\ RunFits(exec, receiptRows, intent)
  BY <1>1 DEF MInv, LedgerShapes, RunFits
<1>7. exec' \in Runs /\ exec'.pc = "authorized"
  <2>1. exec' = [exec EXCEPT !.pc = "authorized", !.barrier = 2]
    BY <1>1, <1>2
  <2> QED
    BY <1>6, <2>1 DEF Runs
<1>8. RunFits(exec', receiptRows', intent')
  BY <1>1, <1>2, <1>6, <1>7 DEF RunFits
<1>9. \A p \in Observers \cup Operators : DeskFits(desk'[p], intent')
  BY <1>1 DEF MInv, DeskFits
<1>10. LedgerShapes'
  BY <1>1, <1>2, <1>3, <1>5, <1>7 DEF MInv, LedgerShapes
<1>11. held'.state = HeldState(intent')
  BY <1>1, <1>2, <1>3 DEF HeldState
<1>12. ResolutionsFit(resolutionRows', intent') /\ ReceiptsFit(receiptRows') /\ WritesFitTheTables'
  BY <1>1, <1>2 DEF MInv, ResolutionsFit, WritesFitTheTables
<1>13. ObservationsFit(observationRows', intent')
  BY <1>1 DEF MInv, ObservationsFit
<1> QED
  BY <1>1, <1>2, <1>5, <1>8, <1>9, <1>10, <1>11, <1>12, <1>13 DEF MInv

\* The barrier is consumed by a version of its own, or is useless.
LEMMA BarrierInv == ASSUME MInv, consumeSubmitBarrier PROVE MInv'
<1>1. /\ exec.pc = "authorized" /\ UNCHANGED <<held, receiptRows, observationRows, resolutionRows, desk, refused>>
      /\ exec \in Runs /\ intent \in IntentRows /\ eventRows \in Seq(EventShapes)
      /\ RunFits(exec, receiptRows, intent) /\ ReceiptsFit(receiptRows) /\ WritesFitTheTables
  BY DEF consumeSubmitBarrier, MInv, LedgerShapes
<1>2. WritesFitTheTables'
  BY <1>1 DEF WritesFitTheTables
<1>3. CASE exec' = [exec EXCEPT !.pc = "refused"] /\ UNCHANGED <<intent, eventRows>>
  <2>1. exec' \in Runs /\ exec'.pc = "refused"
    BY <1>1, <1>3 DEF Runs
  <2>2. RunFits(exec', receiptRows', intent)
    BY <1>1, <2>1 DEF RunFits
  <2> QED
    BY <1>1, <1>2, <1>3, <2>1, <2>2, RunMoves
<1>4. CASE /\ intent.status = "submitting" /\ intent' = [intent EXCEPT !.version = @ + 1]
           /\ insertEvent(Event("submitting", "submitting", "none", "none", "none"))
           /\ exec' = [exec EXCEPT !.pc = "calling"]
  <2>1. intent.version \in Nat /\ intent.version + 1 \in Nat
    BY <1>1 DEF IntentRows
  <2>2. /\ intent' \in IntentRows /\ intent'.version = intent.version + 1 /\ intent'.status = "submitting"
        /\ intent'.outcome = intent.outcome /\ intent'.reason = intent.reason /\ intent'.evidence = intent.evidence
        /\ intent'.resolution = intent.resolution /\ intent'.required = intent.required
        /\ intent'.recState = intent.recState /\ intent'.resolved = intent.resolved
    BY <1>1, <1>4, <2>1 DEF IntentRows
  <2>3. IntentRowFits(intent')
    <3>1. IntentRowFits(intent)
      BY <1>4 DEF MInv
    <3> QED
      BY <1>4, <2>2, <3>1 DEF IntentRowFits, state_coherence_check
  <2>4. exec' \in Runs /\ exec'.pc = "calling"
    BY <1>1, <1>4 DEF Runs
  <2>5. RunFits(exec', receiptRows', intent')
    BY <1>1, <1>4, <2>2, <2>4 DEF RunFits
  <2>6. eventRows' \in Seq(EventShapes) /\ EventsFit(eventRows', intent'.status)
    <3> DEFINE e == Event("submitting", "submitting", "none", "none", "none")
    <3>1. e \in EventShapes /\ e.from = "submitting" /\ e.to = "submitting"
      BY DEF Event, EventShapes, RowStates, RowOutcomes, Reasons, Evidence
    <3>2. eventRows' = Append(eventRows, e)
      BY <1>4 DEF insertEvent
    <3> HIDE DEF e
    <3>3. eventRows # <<>> /\ eventRows[Len(eventRows)].to = e.from /\ EventsChain(eventRows)
      BY <1>4, <3>1 DEF MInv, EventsFit
    <3>4. /\ eventRows' \in Seq(EventShapes) /\ eventRows' # <<>> /\ EventsChain(eventRows')
          /\ eventRows'[Len(eventRows')] = e
      BY <1>1, <3>1, <3>2, <3>3, ChainGrows
    <3> QED
      BY <2>2, <3>1, <3>4 DEF EventsFit
  <2>7. ASSUME NEW p \in Observers \cup Operators PROVE DeskFits(desk[p], intent')
    <3>1. DeskFits(desk[p], intent) /\ desk[p].seen.version \in Nat
      BY DEF MInv, LedgerShapes, Desks, IntentRows
    <3> QED
      BY <1>4, <2>1, <2>2, <3>1 DEF DeskFits
  <2>8. LedgerShapes'
    BY <1>1, <2>2, <2>4, <2>6 DEF MInv, LedgerShapes
  <2>9. held'.state = HeldState(intent')
    BY <1>1, <1>4, <2>2 DEF MInv, HeldState
  <2>10. ResolutionsFit(resolutionRows', intent')
    BY <1>1, <1>4, <2>2 DEF MInv, ResolutionsFit
  <2>11. ObservationsFit(observationRows', intent')
    BY <1>1, <1>4, <2>2 DEF MInv, ObservationsFit
  <2> QED
    BY <1>1, <1>2, <2>3, <2>5, <2>6, <2>7, <2>8, <2>9, <2>10, <2>11 DEF MInv
<1> QED
  BY <1>3, <1>4 DEF consumeSubmitBarrier

\* The provider answers, or the process dies.
LEMMA CallInv == ASSUME MInv, callProvider \/ crashSubmit PROVE MInv'
<1>1. /\ UNCHANGED <<intent, held, receiptRows, observationRows, resolutionRows, eventRows, desk, refused>>
      /\ exec \in Runs /\ RunFits(exec, receiptRows, intent) /\ ReceiptsFit(receiptRows) /\ WritesFitTheTables
      /\ intent \in IntentRows
  BY DEF callProvider, crashSubmit, MInv, LedgerShapes
<1>2. WritesFitTheTables'
  BY <1>1 DEF WritesFitTheTables
<1>3. exec' \in Runs /\ RunFits(exec', receiptRows', intent)
  <2>1. CASE callProvider
    <3>1. PICK raw \in RawAnswers : exec' = [exec EXCEPT !.pc = "answered", !.result = normalizeSubmitOutcome(raw)]
      BY <2>1 DEF callProvider
    <3>2. normalizeSubmitOutcome(raw) \in ResultRows /\ OutcomeFits(normalizeSubmitOutcome(raw))
      BY NormalizedFits
    <3>3. exec' \in Runs /\ exec'.pc = "answered" /\ exec'.result = normalizeSubmitOutcome(raw)
      BY <1>1, <3>1, <3>2 DEF Runs
    <3> QED
      BY <1>1, <2>1, <3>2, <3>3 DEF RunFits, callProvider
  <2>2. CASE crashSubmit
    <3>1. exec' \in Runs /\ exec'.pc = "crashed" /\ exec.pc \in {"authorized", "calling", "answered", "persisted"}
      BY <1>1, <2>2 DEF Runs, crashSubmit
    <3> QED
      BY <1>1, <3>1 DEF RunFits
  <2> QED
    BY <2>1, <2>2
<1> QED
  BY <1>1, <1>2, <1>3, RunMoves

\* The receipt always fits its table.
LEMMA ReceiptInv == ASSUME MInv, persistReceipt PROVE MInv'
<1> DEFINE o == exec.result
           ev == IF o.outcome = "uncertain" THEN "none" ELSE "provider_response_verified"
           r == [outcome |-> o.outcome, reason |-> o.reason, ticket |-> o.ticket, status |-> o.status, evidence |-> ev]
           failed == Uncertain("receipt_persistence_failure", "none")
<1>1. /\ UNCHANGED <<intent, held, observationRows, resolutionRows, eventRows, desk>>
      /\ exec \in Runs /\ RunFits(exec, receiptRows, intent) /\ WritesFitTheTables /\ exec.pc = "answered"
      /\ intent \in IntentRows
  BY DEF persistReceipt, MInv, LedgerShapes
<1>2. receiptRows = {} /\ OutcomeFits(o) /\ o \in ResultRows /\ intent.status \notin {"none", "confirmed", "rejected"}
  BY <1>1 DEF RunFits, Runs
<1>3. ReceiptRowFits(r)
  <2>1. /\ r.outcome = o.outcome /\ r.reason = o.reason /\ r.ticket = o.ticket /\ r.status = o.status
        /\ r.evidence = ev
    OBVIOUS
  <2>2. o.outcome # "uncertain" => ev = "provider_response_verified"
    OBVIOUS
  <2>3. o.outcome = "uncertain" => ev = "none"
    OBVIOUS
  <2>4. ev \in Evidence
    BY DEF Evidence, PROVIDER_TERMINAL_EVIDENCE
  <2>5. o.reason \in Reasons /\ o.status \in NormalizedStatuses \cup {"none"} /\ "none" \notin PROVIDER_UNCERTAINTY_REASONS
    BY <1>2 DEF ResultRows, PROVIDER_UNCERTAINTY_REASONS
  <2> HIDE DEF r, ev
  <2>6. receipts_outcome_coherence_check(r)
    BY <1>2, <2>1, <2>2, <2>3, <2>5 DEF receipts_outcome_coherence_check, OutcomeFits
  <2> QED
    BY <2>1, <2>4, <2>5, <2>6 DEF ReceiptRowFits, uncertainty_reason_check, provider_status_check,
                                 terminal_evidence_check, Reasons, Evidence
<1>4. receipts_definitive_uniq(r)
  BY <1>2 DEF receipts_definitive_uniq
<1>5. r.outcome = o.outcome
  OBVIOUS
<1>6. \/ receiptRows' = receiptRows \cup {r} /\ exec' = [exec EXCEPT !.pc = "persisted"] /\ UNCHANGED refused
      \/ /\ exec' = [exec EXCEPT !.pc = "persisted", !.failure = "receipt_persistence_failure", !.result = failed]
         /\ UNCHANGED <<receiptRows, refused>>
  BY <1>3, <1>4 DEF persistReceipt
<1> HIDE DEF r
<1>7. failed \in ResultRows /\ OutcomeFits(failed) /\ failed.outcome = "uncertain"
  BY DEF Uncertain, ResultRows, OutcomeFits, RowOutcomes, Reasons, PROVIDER_UNCERTAINTY_REASONS
<1> HIDE DEF failed
<1>8. WritesFitTheTables'
  BY <1>1, <1>6 DEF WritesFitTheTables
<1>9. CASE receiptRows' = receiptRows \cup {r} /\ exec' = [exec EXCEPT !.pc = "persisted"]
  <2>1. exec' \in Runs /\ exec'.pc = "persisted" /\ exec'.result = o
    BY <1>1, <1>9 DEF Runs
  <2>2. receiptRows' = {r}
    BY <1>2, <1>9
  <2>3. ReceiptsFit(receiptRows')
    BY <1>3, <2>2 DEF ReceiptsFit
  <2>4. RunFits(exec', receiptRows', intent)
    BY <1>2, <1>5, <2>1, <2>2 DEF RunFits
  <2> QED
    BY <1>1, <1>8, <2>1, <2>3, <2>4, RunMoves
<1>10. CASE /\ exec' = [exec EXCEPT !.pc = "persisted", !.failure = "receipt_persistence_failure", !.result = failed]
            /\ UNCHANGED receiptRows
  <2>1. exec' \in Runs /\ exec'.pc = "persisted" /\ exec'.result = failed
    BY <1>1, <1>7, <1>10 DEF Runs
  <2>2. RunFits(exec', receiptRows', intent)
    BY <1>2, <1>7, <2>1 DEF RunFits
  <2> QED
    BY <1>1, <1>8, <1>10, <2>1, <2>2, RunMoves DEF MInv
<1> QED
  BY <1>6, <1>9, <1>10

\* The outcome is applied to the row as it is, or the caller is told what it is.
LEMMA ApplyInv == ASSUME MInv, applyOutcome PROVE MInv'
<1> DEFINE o == exec.result
           to == CASE o.outcome = "accepted" -> "confirmed" [] o.outcome = "rejected" -> "rejected"
                   [] OTHER -> "uncertain"
           ev == IF o.outcome = "uncertain" THEN "none" ELSE "provider_response_verified"
           a == [to |-> to, outcome |-> o.outcome, resolution |-> "none", evidence |-> ev, reason |-> o.reason]
<1>1. /\ UNCHANGED <<receiptRows, observationRows, resolutionRows, desk>>
      /\ exec \in Runs /\ RunFits(exec, receiptRows, intent) /\ WritesFitTheTables /\ exec.pc = "persisted"
      /\ intent \in IntentRows /\ ReceiptsFit(receiptRows)
  BY DEF applyOutcome, MInv, LedgerShapes
<1>2. /\ OutcomeFits(o) /\ o \in ResultRows /\ intent.status \in {"submitting", "uncertain", "reconciled"}
      /\ o.outcome # "uncertain" => \E r \in receiptRows : r.outcome = o.outcome
  BY <1>1 DEF RunFits, Runs, IntentRows, RowStates
<1>3. ArgsFit(a) /\ a.to \in {"confirmed", "rejected", "uncertain"} /\ a.outcome = o.outcome
      /\ (a.to = "uncertain" <=> o.outcome = "uncertain")
  <2>1. a.to = to /\ a.outcome = o.outcome /\ a.evidence = ev /\ a.reason = o.reason /\ a.resolution = "none"
    OBVIOUS
  <2>2. \/ o.outcome = "accepted" /\ to = "confirmed" /\ ev = "provider_response_verified"
        \/ o.outcome = "rejected" /\ to = "rejected" /\ ev = "provider_response_verified"
        \/ o.outcome = "uncertain" /\ to = "uncertain" /\ ev = "none"
    BY <1>2 DEF OutcomeFits
  <2> HIDE DEF a, to, ev
  <2> QED
    BY <1>2, <2>1, <2>2 DEF ArgsFit, OutcomeFits
<1>4. intent.version \in Nat
  BY <1>1 DEF IntentRows
<1>5. \/ transitionIntent(intent, a) /\ exec' = [exec EXCEPT !.pc = "done", !.state = a.to] /\ UNCHANGED refused
      \/ /\ exec' = [exec EXCEPT !.pc = "done", !.state = intent.status, !.failure = "state_commit_failed"]
         /\ UNCHANGED <<intent, held, eventRows>>
         /\ \/ UNCHANGED refused
            \/ refused' = refused \cup {<<"outcome", Refusal(intent, a)>>} /\ Refusal(intent, a) # "none"
  BY DEF applyOutcome, Refuse
<1> HIDE DEF a
<1>6. CASE /\ transitionIntent(intent, a) /\ exec' = [exec EXCEPT !.pc = "done", !.state = a.to] /\ UNCHANGED refused
  <2>1. intent.status \in {"submitting", "uncertain"}
    <3>1. provider_intent_state_guard(intent.status, a.to)
      BY <1>3, <1>4, <1>6, RefusedFor DEF transitionIntent
    <3> QED
      BY <1>2, <1>3, <3>1 DEF provider_intent_state_guard
  <2>2. Transitioned(a)
    BY <1>1, <1>3, <1>6, <2>1, TransitionLeaves
  <2>3. exec' \in Runs /\ exec'.pc = "done" /\ exec'.result = o /\ exec'.state = a.to
    BY <1>1, <1>3, <1>6 DEF Runs, RowStates
  <2>4. RunFits(exec', receiptRows', intent')
    BY <1>1, <1>2, <1>3, <2>2, <2>3 DEF RunFits, Transitioned
  <2>5. LedgerShapes'
    BY <1>1, <2>2, <2>3 DEF LedgerShapes, MInv, Transitioned
  <2>6. ResolutionsFit(resolutionRows', intent')
    BY <1>1, <1>3, <2>1, <2>2 DEF ResolutionsFit, MInv, Transitioned
  <2>7. ObservationsFit(observationRows', intent')
    BY <1>1, <2>1 DEF ObservationsFit, MInv
  <2>8. WritesFitTheTables'
    BY <1>1, <1>6 DEF WritesFitTheTables
  <2> QED
    BY <1>1, <2>2, <2>4, <2>5, <2>6, <2>7, <2>8 DEF MInv, Transitioned
<1>7. CASE /\ exec' = [exec EXCEPT !.pc = "done", !.state = intent.status, !.failure = "state_commit_failed"]
           /\ UNCHANGED <<intent, held, eventRows>>
           /\ \/ UNCHANGED refused
              \/ refused' = refused \cup {<<"outcome", Refusal(intent, a)>>} /\ Refusal(intent, a) # "none"
  <2>1. /\ exec' \in Runs /\ exec'.pc = "done" /\ exec'.result = o /\ exec'.state = intent.status
        /\ exec'.failure = "state_commit_failed"
    BY <1>1, <1>7 DEF Runs, IntentRows
  <2>2. RunFits(exec', receiptRows', intent)
    BY <1>1, <1>2, <2>1 DEF RunFits
  <2>3. Refusal(intent, a) \in {"none", "version", "transition"}
    BY <1>3, <1>4, RefusedFor
  <2>4. WritesFitTheTables'
    BY <1>1, <1>7, <2>3 DEF WritesFitTheTables
  <2> QED
    BY <1>1, <1>7, <2>1, <2>2, <2>4, RunMoves
<1> QED
  BY <1>5, <1>6, <1>7

\* A restart makes a submitting row uncertain.
LEMMA RecoverInv == ASSUME MInv, recoverAfterRestart PROVE MInv'
<1> DEFINE a == [to |-> "uncertain", outcome |-> "uncertain", resolution |-> "none", evidence |-> "none",
                 reason |-> "process_restart"]
<1>1. /\ intent.status = "submitting" /\ transitionIntent(intent, a) /\ intent \in IntentRows
      /\ UNCHANGED <<receiptRows, observationRows, resolutionRows, exec, desk, refused>>
  BY DEF recoverAfterRestart, MInv, LedgerShapes
<1>2. ArgsFit(a) /\ a.to = "uncertain"
  BY DEF ArgsFit, PROVIDER_UNCERTAINTY_REASONS
<1> HIDE DEF a
<1>3. Transitioned(a)
  BY <1>1, <1>2, TransitionLeaves
<1>4. RunFits(exec', receiptRows', intent')
  BY <1>1, <1>2, <1>3 DEF MInv, RunFits, Transitioned, isProviderIntentTerminalState
<1>5. LedgerShapes'
  BY <1>1, <1>3 DEF LedgerShapes, MInv, Transitioned
<1>6. ResolutionsFit(resolutionRows', intent') /\ ReceiptsFit(receiptRows')
  BY <1>1, <1>2, <1>3 DEF ResolutionsFit, MInv, Transitioned
<1>7. ObservationsFit(observationRows', intent')
  BY <1>1 DEF ObservationsFit, MInv
<1>8. WritesFitTheTables'
  BY <1>1 DEF WritesFitTheTables, MInv
<1> QED
  BY <1>1, <1>2, <1>3, <1>4, <1>5, <1>6, <1>7, <1>8 DEF MInv, Transitioned
\* An observer or an operator reads the row before its lock.
LEMMA RequireInv ==
    ASSUME MInv, NEW p \in Observers \cup Operators, NEW doing \in {"observing", "resolving"}, requireIntent(p, doing)
    PROVE  MInv'
<1> DEFINE d == [doing |-> doing, seen |-> intent]
<1>1. /\ intent.status # "none" /\ desk' = [desk EXCEPT ![p] = d] /\ intent \in IntentRows
      /\ doing = "resolving" => ~isProviderIntentTerminalState(intent.status)
      /\ UNCHANGED <<intent, held, receiptRows, observationRows, resolutionRows, eventRows, exec, refused>>
      /\ desk \in [Observers \cup Operators -> Desks]
  BY DEF requireIntent, MInv, LedgerShapes
<1>2. d \in Desks /\ d.seen = intent /\ d.doing = doing /\ intent.version \in Nat
  BY <1>1 DEF Desks, IntentRows
<1> HIDE DEF d
<1>3. DeskFits(d, intent)
  BY <1>1, <1>2 DEF DeskFits
<1>4. desk' \in [Observers \cup Operators -> Desks] /\ \A q \in Observers \cup Operators : DeskFits(desk'[q], intent)
  BY <1>1, <1>2, <1>3 DEF MInv
<1>5. LedgerShapes'
  BY <1>1, <1>4 DEF MInv, LedgerShapes
<1>6. WritesFitTheTables'
  BY <1>1 DEF MInv, WritesFitTheTables
<1> QED
  BY <1>1, <1>4, <1>5, <1>6 DEF MInv

\* Someone leaves the desk.
LEMMA DeskLeft ==
    ASSUME MInv, NEW p \in Observers \cup Operators, desk' = [desk EXCEPT ![p] = NoDesk],
           NEW row, \A q \in Observers \cup Operators : DeskFits(desk[q], row)
    PROVE  desk' \in [Observers \cup Operators -> Desks] /\ \A q \in Observers \cup Operators : DeskFits(desk'[q], row)
<1>1. NoIntentRow \in IntentRows
  BY DEF NoIntentRow, IntentRows, RowStates, RowOutcomes, Reasons, Evidence
<1>2. NoDesk \in Desks /\ NoDesk.doing = "nothing"
  BY <1>1 DEF NoDesk, Desks
<1>3. desk \in [Observers \cup Operators -> Desks]
  BY DEF MInv, LedgerShapes
<1> QED
  BY <1>2, <1>3 DEF DeskFits

\* A step at the desk that leaves the intent row alone.
LEMMA DeskMoves ==
    ASSUME MInv, NEW p \in Observers \cup Operators, desk' = [desk EXCEPT ![p] = NoDesk],
           UNCHANGED <<intent, held, eventRows, resolutionRows, receiptRows, exec>>,
           ObservationsFit(observationRows', intent), WritesFitTheTables'
    PROVE  MInv'
<1>1. desk' \in [Observers \cup Operators -> Desks] /\ \A q \in Observers \cup Operators : DeskFits(desk'[q], intent)
  BY DeskLeft DEF MInv
<1>2. LedgerShapes'
  BY <1>1 DEF MInv, LedgerShapes
<1> QED
  BY <1>1, <1>2 DEF MInv

\* A step at the desk that resolves the intent.
LEMMA DeskResolves ==
    ASSUME MInv, NEW p \in Observers \cup Operators, desk' = [desk EXCEPT ![p] = NoDesk],
           NEW a, a.to = "reconciled", intent.status \in {"submitting", "uncertain"}, Transitioned(a),
           NEW r, ResolutionRowFits(r), r.resolution = a.resolution, r.evidence = a.evidence,
           resolutionRows' = resolutionRows \cup {r},
           UNCHANGED <<receiptRows, exec, refused>>,
           \A x \in observationRows' \ observationRows :
               ObservationRowFits(x) /\ (x.applied => a.evidence = "reconciliation_verified")
    PROVE  MInv'
<1>1. desk' \in [Observers \cup Operators -> Desks] /\ \A q \in Observers \cup Operators : DeskFits(desk'[q], intent')
  BY DeskLeft DEF Transitioned
<1>2. LedgerShapes'
  BY <1>1 DEF MInv, LedgerShapes, Transitioned
<1>3. RunFits(exec', receiptRows', intent')
  BY DEF MInv, RunFits, Transitioned, isProviderIntentTerminalState
<1>4. ResolutionsFit(resolutionRows', intent')
  <2>1. resolutionRows' = {r}
    BY DEF MInv, ResolutionsFit
  <2> QED
    BY <2>1 DEF ResolutionsFit, Transitioned
<1>5. ObservationsFit(observationRows', intent')
  BY DEF MInv, ObservationsFit, Transitioned
<1>6. WritesFitTheTables'
  BY DEF MInv, WritesFitTheTables
<1> QED
  BY <1>1, <1>2, <1>3, <1>4, <1>5, <1>6 DEF MInv, Transitioned

\* What an observer read is unresolved when its observation applies.
LEMMA SeenFits ==
    ASSUME MInv, NEW p \in Observers \cup Operators, desk[p].doing # "nothing"
    PROVE  /\ desk[p].seen \in IntentRows /\ desk[p].seen.version \in Nat
           /\ desk[p].seen.version = intent.version => desk[p].seen = intent
           /\ ~isProviderIntentTerminalState(desk[p].seen.status) => desk[p].seen.status \in {"submitting", "uncertain"}
           /\ desk[p].doing = "resolving" => ~isProviderIntentTerminalState(desk[p].seen.status)
<1>1. desk[p].seen \in IntentRows /\ DeskFits(desk[p], intent)
  BY DEF MInv, LedgerShapes, Desks
<1> QED
  BY <1>1 DEF DeskFits, IntentRows, RowStates, isProviderIntentTerminalState

\* An observation fits its table, and applies to an unresolved intent only.
LEMMA ObserveInv ==
    ASSUME LedgerAssumption, MInv, NEW p \in Observers, recordReconciliationObservation(p)
    PROVE  MInv'
<1> DEFINE seen == desk[p].seen
<1>1. PICK s \in {x \in Sightings : validateObservation(x)} :
         LET o == StoredObservation(seen, s)
             accepted == s.status \in PROVIDER_ACCEPTED_STATUSES
             a == [to |-> "reconciled", outcome |-> IF accepted THEN "accepted" ELSE "rejected",
                   resolution |-> IF accepted THEN "provider_accepted" ELSE "provider_rejected",
                   evidence |-> "reconciliation_verified", reason |-> "none"]
             r == Resolution(seen, a, "none", "ok", "none")
         IN
         \/ /\ ObservationRowFits(o) /\ ~o.applied
            /\ observationRows' = observationRows \cup {o}
            /\ UNCHANGED <<intent, held, eventRows, resolutionRows, refused>>
         \/ /\ ObservationRowFits(o) /\ o.applied
            /\ transitionIntent(seen, a) /\ ResolutionRowFits(r)
            /\ observationRows' = observationRows \cup {o}
            /\ resolutionRows' = resolutionRows \cup {r}
            /\ UNCHANGED refused
         \/ /\ \/ ~ObservationRowFits(o)
               \/ o.applied /\ (Refusal(seen, a) # "none" \/ ~ResolutionRowFits(r))
            /\ refused' = refused \cup {<<"observation", IF o.applied THEN Refusal(seen, a) ELSE "check">>}
            /\ UNCHANGED <<intent, held, eventRows, observationRows, resolutionRows>>
  BY DEF recordReconciliationObservation, Refuse
<1> DEFINE o == StoredObservation(seen, s)
           accepted == s.status \in PROVIDER_ACCEPTED_STATUSES
           out == IF accepted THEN "accepted" ELSE "rejected"
           res == IF accepted THEN "provider_accepted" ELSE "provider_rejected"
           a == [to |-> "reconciled", outcome |-> out, resolution |-> res,
                 evidence |-> "reconciliation_verified", reason |-> "none"]
           r == Resolution(seen, a, "none", "ok", "none")
<1>2. /\ desk[p].doing = "observing" /\ desk' = [desk EXCEPT ![p] = NoDesk] /\ UNCHANGED <<receiptRows, exec>>
      /\ p \in Observers \cup Operators
  BY DEF recordReconciliationObservation
<1>3. /\ seen \in IntentRows /\ seen.version \in Nat /\ (seen.version = intent.version => seen = intent)
      /\ ~isProviderIntentTerminalState(seen.status) => seen.status \in {"submitting", "uncertain"}
  BY <1>2, SeenFits
<1>4. ArgsFit(a) /\ a.to = "reconciled" /\ a.evidence = "reconciliation_verified" /\ a.resolution = res
  BY DEF ArgsFit, PROVIDER_TERMINAL_EVIDENCE
<1>5. /\ r.resolution = res /\ r.evidence = "reconciliation_verified" /\ r.from = seen.status /\ r.by = "none"
      /\ r.reference = "ok" /\ r.note = "none"
  BY DEF Resolution
<1>6. ObservationRowFits(o)
  <2> DEFINE stale == isProviderIntentTerminalState(intent.status)
             applies == WillApply(seen, s)
  <2>1. /\ o.outcome = s.outcome /\ o.status = s.status /\ o.unsure = s.unsure
        /\ o.evidence = IF applies THEN "reconciliation_verified" ELSE "none"
        /\ o.stale = stale /\ o.applied = (applies /\ ~stale)
    BY DEF StoredObservation
  <2>2. validateObservation(s) /\ s.status \in NormalizedStatuses \cup {"none"}
    BY DEF LedgerAssumption
  <2>3. applies => s.outcome = "matched"
    BY DEF WillApply
  <2>4. o.applied => ~o.stale
    BY <2>1
  <2> HIDE DEF o, stale, applies
  <2> QED
    BY <2>1, <2>2, <2>3, <2>4 DEF ObservationRowFits, validateObservation, provider_status_check
<1>7. o.applied => ~isProviderIntentTerminalState(seen.status)
  BY DEF StoredObservation, WillApply
<1>8. o.applied => ResolutionRowFits(r)
  BY <1>3, <1>5, <1>7 DEF ResolutionRowFits, PROVIDER_TERMINAL_EVIDENCE
<1>9. \/ /\ ~o.applied /\ observationRows' = observationRows \cup {o}
         /\ UNCHANGED <<intent, held, eventRows, resolutionRows, refused>>
      \/ /\ o.applied /\ transitionIntent(seen, a) /\ ResolutionRowFits(r)
         /\ observationRows' = observationRows \cup {o}
         /\ resolutionRows' = resolutionRows \cup {r} /\ UNCHANGED refused
      \/ /\ o.applied /\ Refusal(seen, a) # "none"
         /\ refused' = refused \cup {<<"observation", Refusal(seen, a)>>}
         /\ UNCHANGED <<intent, held, eventRows, observationRows, resolutionRows>>
  BY <1>1, <1>6, <1>8
<1> HIDE DEF o, a, r, seen, res
<1>10. CASE /\ ~o.applied /\ observationRows' = observationRows \cup {o}
            /\ UNCHANGED <<intent, held, eventRows, resolutionRows, refused>>
  <2>1. ObservationsFit(observationRows', intent)
    BY <1>6, <1>10 DEF ObservationsFit, MInv
  <2>2. WritesFitTheTables'
    BY <1>10 DEF WritesFitTheTables, MInv
  <2> QED
    BY <1>2, <1>10, <2>1, <2>2, DeskMoves
<1>11. CASE /\ o.applied /\ transitionIntent(seen, a) /\ ResolutionRowFits(r)
            /\ observationRows' = observationRows \cup {o}
            /\ resolutionRows' = resolutionRows \cup {r} /\ UNCHANGED refused
  <2>1. Transitioned(a) /\ seen = intent /\ seen.status \in {"submitting", "uncertain"}
    BY <1>3, <1>4, <1>7, <1>11, TransitionLeaves
  <2>2. \A x \in observationRows' \ observationRows :
            ObservationRowFits(x) /\ (x.applied => a.evidence = "reconciliation_verified")
    BY <1>4, <1>6, <1>11
  <2> QED
    BY <1>2, <1>4, <1>5, <1>11, <2>1, <2>2, DeskResolves
<1>12. CASE /\ o.applied /\ Refusal(seen, a) # "none"
            /\ refused' = refused \cup {<<"observation", Refusal(seen, a)>>}
            /\ UNCHANGED <<intent, held, eventRows, observationRows, resolutionRows>>
  <2>1. Refusal(seen, a) \in {"version", "transition"}
    BY <1>3, <1>4, <1>12, RefusedFor
  <2>2. WritesFitTheTables'
    BY <1>12, <2>1 DEF WritesFitTheTables, MInv
  <2>3. ObservationsFit(observationRows', intent)
    BY <1>12 DEF MInv
  <2> QED
    BY <1>2, <1>12, <2>2, <2>3, DeskMoves
<1> QED
  BY <1>9, <1>10, <1>11, <1>12

\* An operator's verdict resolves the intent read, if nobody moved it.
LEMMA ResolveInv ==
    ASSUME LedgerAssumption, MInv, NEW p \in Operators, resolveByOperator(p)
    PROVE  MInv'
<1> DEFINE seen == desk[p].seen
<1>1. PICK v \in {x \in Verdicts : VerdictAllowed(x)} :
         LET a == [to |-> "reconciled", resolution |-> v.resolution, evidence |-> v.evidence,
                   outcome |-> CASE v.resolution = "provider_accepted" -> "accepted"
                                 [] v.resolution = "provider_rejected" -> "rejected"
                                 [] OTHER -> "none",
                   reason |-> "none"]
             r == Resolution(seen, a, IF v.evidence = "operator_resolution" THEN v.by ELSE "none",
                             v.reference, v.note)
         IN
         \/ /\ transitionIntent(seen, a) /\ ResolutionRowFits(r)
            /\ resolutionRows' = resolutionRows \cup {r}
            /\ UNCHANGED refused
         \/ /\ Refusal(seen, a) # "none" \/ ~ResolutionRowFits(r)
            /\ refused' = refused \cup {<<"resolution", IF Refusal(seen, a) # "none" THEN Refusal(seen, a) ELSE v.note>>}
            /\ UNCHANGED <<intent, held, eventRows, resolutionRows>>
  BY DEF resolveByOperator, Refuse
<1> DEFINE out == CASE v.resolution = "provider_accepted" -> "accepted"
                    [] v.resolution = "provider_rejected" -> "rejected"
                    [] OTHER -> "none"
           a == [to |-> "reconciled", resolution |-> v.resolution, evidence |-> v.evidence,
                 outcome |-> out, reason |-> "none"]
           by == IF v.evidence = "operator_resolution" THEN v.by ELSE "none"
           r == Resolution(seen, a, by, v.reference, v.note)
<1>2. /\ desk[p].doing = "resolving" /\ desk' = [desk EXCEPT ![p] = NoDesk]
      /\ UNCHANGED <<receiptRows, exec, observationRows>> /\ p \in Observers \cup Operators
  BY DEF resolveByOperator
<1>3. /\ seen \in IntentRows /\ seen.version \in Nat /\ (seen.version = intent.version => seen = intent)
      /\ seen.status \in {"submitting", "uncertain"}
  BY <1>2, SeenFits
<1>4. /\ v.resolution \in PROVIDER_RESOLUTIONS /\ v.reference = "ok" /\ v.note \in {"none", "ok", "empty"}
      /\ v.evidence \in PROVIDER_TERMINAL_EVIDENCE /\ (v.evidence = "operator_resolution" => v.by # "none")
  BY DEF LedgerAssumption, VerdictAllowed
<1>5. \/ out = "accepted" /\ v.resolution = "provider_accepted"
      \/ out = "rejected" /\ v.resolution = "provider_rejected"
      \/ out = "none" /\ v.resolution = "provider_absent"
  BY <1>4 DEF PROVIDER_RESOLUTIONS
<1>6. v.evidence = "operator_resolution" => by # "none"
  BY <1>4
<1> HIDE DEF out, by
<1>7. ArgsFit(a) /\ a.to = "reconciled" /\ a.evidence = v.evidence /\ a.resolution = v.resolution
  BY <1>4, <1>5 DEF ArgsFit
<1>8. /\ r.resolution = v.resolution /\ r.evidence = v.evidence /\ r.from = seen.status /\ r.by = by
      /\ r.reference = v.reference /\ r.note = v.note
  BY DEF Resolution
<1>9. \/ /\ transitionIntent(seen, a) /\ ResolutionRowFits(r)
         /\ resolutionRows' = resolutionRows \cup {r} /\ UNCHANGED refused
      \/ /\ Refusal(seen, a) # "none"
         /\ refused' = refused \cup {<<"resolution", Refusal(seen, a)>>}
         /\ UNCHANGED <<intent, held, eventRows, resolutionRows>>
      \/ /\ ~ResolutionRowFits(r)
         /\ refused' = refused \cup {<<"resolution", v.note>>}
         /\ UNCHANGED <<intent, held, eventRows, resolutionRows>>
  BY <1>1 DEF out, by
<1> HIDE DEF a, r, seen
<1>10. CASE /\ transitionIntent(seen, a) /\ ResolutionRowFits(r)
            /\ resolutionRows' = resolutionRows \cup {r} /\ UNCHANGED refused
  <2>1. Transitioned(a) /\ seen = intent
    BY <1>3, <1>7, <1>10, TransitionLeaves
  <2>2. observationRows' \ observationRows = {}
    BY <1>2
  <2> QED
    BY <1>2, <1>3, <1>7, <1>8, <1>10, <2>1, <2>2, DeskResolves
<1>11. CASE /\ Refusal(seen, a) # "none"
            /\ refused' = refused \cup {<<"resolution", Refusal(seen, a)>>}
            /\ UNCHANGED <<intent, held, eventRows, resolutionRows>>
  <2>1. Refusal(seen, a) \in {"version", "transition"}
    BY <1>3, <1>7, <1>11, RefusedFor
  <2>2. WritesFitTheTables'
    BY <1>11, <2>1 DEF WritesFitTheTables, MInv
  <2>3. ObservationsFit(observationRows', intent)
    BY <1>2 DEF MInv
  <2> QED
    BY <1>2, <1>11, <2>2, <2>3, DeskMoves
<1>12. CASE /\ ~ResolutionRowFits(r)
            /\ refused' = refused \cup {<<"resolution", v.note>>}
            /\ UNCHANGED <<intent, held, eventRows, resolutionRows>>
  <2>1. v.note = "empty"
    BY <1>3, <1>4, <1>6, <1>8, <1>12 DEF ResolutionRowFits
  <2>2. WritesFitTheTables'
    BY <1>12, <2>1 DEF WritesFitTheTables, MInv
  <2>3. ObservationsFit(observationRows', intent)
    BY <1>2 DEF MInv
  <2> QED
    BY <1>2, <1>12, <2>2, <2>3, DeskMoves
<1> QED
  BY <1>9, <1>10, <1>11, <1>12

\* Every step keeps the invariant.
LEMMA LedgerNextInv ==
    ASSUME LedgerAssumption, MInv, [LedgerNext]_ledgerVars PROVE MInv'
<1>1. CASE SubmitNext
  BY <1>1, PrepareInv, BarrierInv, CallInv, ReceiptInv, ApplyInv, RecoverInv DEF SubmitNext
<1>2. CASE ResolveNext
  BY <1>2, RequireInv, ObserveInv, ResolveInv DEF ResolveNext
<1>3. CASE UNCHANGED ledgerVars
  <2>1. UNCHANGED <<intent, held, receiptRows, observationRows, resolutionRows, eventRows, exec, desk, refused>>
    BY <1>3 DEF ledgerVars
  <2>2. LedgerShapes' /\ WritesFitTheTables'
    BY <2>1 DEF MInv, LedgerShapes, WritesFitTheTables
  <2> QED
    BY <2>1, <2>2 DEF MInv
<1> QED
  BY <1>1, <1>2, <1>3 DEF LedgerNext

\* The inductive invariant of the ledger's rows: a row read before its lock is
\* the row as it is unless the version moved, a normalised outcome always fits
\* its tables, and what a run of executeSubmit knows is on record.
THEOREM LedgerInvariance == ASSUME LedgerAssumption PROVE LedgerSpec => []MInv
<1>1. MInv /\ [LedgerNext]_ledgerVars => MInv'
  BY LedgerNextInv
<1> QED
  BY <1>1, LedgerInitInv, PTL DEF LedgerSpec

\* LedgerTellsOneStory for any provider answers, observers, operators, sightings
\* and verdicts: no column the code computes is refused by a CHECK, the five tables
\* agree, and a caller is told what is on record (provider-mutations.ts, 0029).
THEOREM LedgerIsOneStory == ASSUME LedgerAssumption PROVE LedgerSpec => []LedgerTellsOneStory
<1>1. LedgerSpec => []MInv
  BY LedgerInvariance
<1>2. MInv => LedgerTellsOneStory
  <2> SUFFICES ASSUME MInv PROVE LedgerTellsOneStory
    OBVIOUS
  <2>1. /\ intent \in IntentRows /\ held \in HeldRows /\ exec \in Runs
        /\ intent.status \in RowStates /\ exec.state \in RowStates
    BY DEF MInv, LedgerShapes, IntentRows, Runs
  <2>2. \A r \in resolutionRows : ResolutionRowFits(r) /\ r.resolution = intent.resolution /\ r.evidence = intent.evidence
    BY DEF MInv, ResolutionsFit
  <2>3. LedgerTypeOK
    <3>1. intent.version \in Nat /\ held.version \in Nat
      BY <2>1 DEF IntentRows, HeldRows
    <3>2. exec.pc \in {"idle", "authorized", "calling", "answered", "persisted", "done", "refused", "crashed"}
      BY <2>1 DEF Runs
    <3> QED
      BY <2>2, <3>1, <3>2 DEF MInv, LedgerTypeOK, ReceiptsFit, ObservationsFit
  <2>4. Cardinality(resolutionRows) = IF intent.status = "reconciled" THEN 1 ELSE 0
    <3>1. CASE intent.status = "reconciled"
      <4>1. PICK r : resolutionRows = {r}
        BY <3>1 DEF MInv, ResolutionsFit
      <4>2. Cardinality(resolutionRows) = 1
        BY <4>1, FS_Singleton
      <4> QED
        BY <3>1, <4>2
    <3>2. CASE intent.status # "reconciled"
      <4>1. resolutionRows = {}
        BY <3>2 DEF MInv, ResolutionsFit
      <4>2. Cardinality(resolutionRows) = 0
        BY <4>1, FS_EmptySet
      <4> QED
        BY <3>2, <4>2
    <3> QED
      BY <3>1, <3>2
  <2>5. intent.status \in {"confirmed", "rejected"} =>
           {r.outcome : r \in {x \in receiptRows : x.outcome # "uncertain"}} = {intent.outcome}
    <3> SUFFICES ASSUME intent.status \in {"confirmed", "rejected"}
                 PROVE  {r.outcome : r \in {x \in receiptRows : x.outcome # "uncertain"}} = {intent.outcome}
      OBVIOUS
    <3>1. intent.outcome \in {"accepted", "rejected"}
      BY DEF MInv, IntentRowFits, state_coherence_check
    <3>2. PICK r \in receiptRows : r.outcome = intent.outcome
      BY <3>1 DEF MInv, RunFits
    <3>3. \A x \in receiptRows : x = r
      BY DEF MInv, ReceiptsFit
    <3> QED
      BY <3>1, <3>2, <3>3
  <2>6. held.state = CASE intent.status = "none" -> "none"
                      [] intent.status = "submitting" -> "reserved"
                      [] intent.status = "uncertain" -> "uncertain"
                      [] intent.outcome = "accepted" -> "known_completed"
                      [] OTHER -> "known_rejected"
    BY DEF MInv, HeldState
  <2>7. RowsAgree
    <3>1. \A k \in 1..Len(eventRows) - 1 : eventRows[k].to = eventRows[k + 1].from
      BY DEF MInv, EventsFit, EventsChain
    <3>2. eventRows # <<>> => eventRows[Len(eventRows)].to = intent.status
      BY DEF MInv, EventsFit
    <3>3. \A o \in observationRows : o.applied => intent.evidence = "reconciliation_verified"
      BY DEF MInv, ObservationsFit
    <3> QED
      BY <2>2, <2>4, <2>5, <2>6, <3>1, <3>2, <3>3 DEF RowsAgree
  <2>8. ResultIsOnRecord
    <3> SUFFICES ASSUME exec.pc = "done"
                 PROVE  /\ exec.result.outcome # "uncertain" => \E r \in receiptRows : r.outcome = exec.result.outcome
                        /\ exec.failure = "none" /\ exec.state # "uncertain" => intent.outcome = exec.result.outcome
                        /\ ~isProviderIntentUnresolvedState(exec.state) => isProviderIntentTerminalState(intent.status)
      BY DEF ResultIsOnRecord
    <3>1. RunFits(exec, receiptRows, intent)
      BY DEF MInv
    <3> QED
      BY <2>1, <3>1 DEF RunFits, RowStates, isProviderIntentTerminalState, isProviderIntentUnresolvedState
  <2> QED
    BY <2>3, <2>7, <2>8 DEF LedgerTellsOneStory, MInv
<1> QED
  BY <1>1, <1>2, PTL
=============================================================================
