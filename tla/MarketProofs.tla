---------------------------- MODULE MarketProofs ----------------------------
(***************************************************************************)
(* Proofs about the market side and the broker's wire.                     *)
(*                                                                         *)
(* The broker path implements SubmitOnce for any set of calls: the broker  *)
(* is asked at most once, decides at most once, and nobody is told what is *)
(* not so.                                                                 *)
(*                                                                         *)
(* The scanner's run ledger: of two runs that scanned at the same time one *)
(* never says that it worked, and no retention sweep deletes what the      *)
(* health endpoint reports.                                                *)
(*                                                                         *)
(* The warm cycle: at most one at a time, within its budget.               *)
(*                                                                         *)
(* Fairness plays no part; the proofs are of every step.                   *)
(***************************************************************************)
EXTENDS BrokerSubmit, ScannerRuns, CandleIngestion,
        SequenceTheorems, FiniteSetTheorems, WellFoundedInduction, TLAPS

-----------------------------------------------------------------------------
(* The broker path.                                                          *)

Place == {"idle", "evaluate", "gates", "request", "authorize", "fence", "handoff", "prepare",
          "consume", "provider", "lookup", "wire", "receipt", "apply", "finish"}
Outcome == {"none", "accepted", "rejected", "uncertain", "duplicate", "refused"}
IntentStatus == {"none", "submitting", "confirmed", "rejected", "uncertain", "reconciled"}
Told == {"nothing", "accepted", "rejected", "refused", "unknown"}

\* The types of what the promise is about; the rest of the state only guards.
Shapes ==
    /\ call \in [Clients -> [pc : Place, outcome : Outcome]]
    /\ answer \in [Clients -> Told]
    /\ intent \in [status : IntentStatus, by : SUBSET Clients,
                   consumed : BOOLEAN, ticket : BOOLEAN]
    /\ broker \in [order : {"none", "open", "refused"}, wire : SUBSET Clients,
                   asked : [Clients -> Nat]]

\* The intent row belongs to the call that inserted it, and that call alone is
\* past the ledger; what it learnt of the broker is so.
CallFits(c) ==
    /\ call[c].pc # "idle" => answer[c] = "nothing"
    /\ call[c].pc \in {"consume", "provider", "lookup", "wire", "receipt", "apply"} =>
          intent.by = {c} /\ intent.status # "none"
    /\ call[c].pc \in {"provider", "lookup", "wire", "receipt", "apply"} => intent.consumed
    /\ call[c].pc \notin {"receipt", "apply", "finish"} => call[c].outcome = "none"
    /\ call[c].outcome = "accepted" => broker.order = "open"
    /\ call[c].outcome = "rejected" => broker.order = "refused"

\* A call that made the broker be asked did so once, as the owner of the row
\* whose barrier it spent, and can neither ask again nor be told it was refused.
AskedFits(c) ==
    broker.asked[c] # 0 =>
       /\ broker.asked[c] = 1
       /\ intent.by = {c} /\ intent.status # "none" /\ intent.consumed
       /\ call[c].pc \in {"wire", "receipt", "apply", "finish", "idle"}
       /\ call[c].outcome # "refused"

\* The row says what the broker decided; a decided order has no request left.
RowFits ==
    /\ intent.status = "rejected" => broker.order = "refused"
    /\ intent.status = "confirmed" => broker.order = "open"
    /\ \A c \in broker.wire : broker.asked[c] = 1
    /\ broker.order # "none" => broker.wire = {} /\ \E c \in Clients : broker.asked[c] = 1

BInv == Shapes /\ RowFits /\ \A c \in Clients : CallFits(c) /\ AskedFits(c)

-----------------------------------------------------------------------------
\* Nothing is asked or told initially.
LEMMA InitInv == BrokerInit => BInv
  BY DEF BrokerInit, BInv, Shapes, RowFits, CallFits, AskedFits, NoIntentRow, Place, Outcome,
         Told, IntentStatus

\* A call moves to the record r and tells a, while the row keeps its owner and
\* says nothing the broker did not decide; the broker stays as it is.
LEMMA RowMove ==
    ASSUME BInv, NEW c \in Clients, NEW r \in [pc : Place, outcome : Outcome], NEW a \in Told,
           call' = [call EXCEPT ![c] = r], answer' = [answer EXCEPT ![c] = a], broker' = broker,
           intent' \in [status : IntentStatus, by : SUBSET Clients,
                        consumed : BOOLEAN, ticket : BOOLEAN],
           intent'.by = intent.by, intent.status # "none" => intent'.status # "none",
           intent.consumed => intent'.consumed,
           intent'.status = "rejected" => broker.order = "refused",
           intent'.status = "confirmed" => broker.order = "open",
           r.pc # "idle" => a = "nothing",
           r.pc \in {"consume", "provider", "lookup", "wire", "receipt", "apply"} =>
              intent.by = {c} /\ intent.status # "none",
           r.pc \in {"provider", "lookup", "wire", "receipt", "apply"} => intent'.consumed,
           r.pc \notin {"receipt", "apply", "finish"} => r.outcome = "none",
           r.outcome = "accepted" => broker.order = "open",
           r.outcome = "rejected" => broker.order = "refused",
           broker.asked[c] # 0 => /\ r.pc \in {"wire", "receipt", "apply", "finish", "idle"}
                                  /\ r.outcome # "refused"
    PROVE  BInv'
<1>1. Shapes'
  BY DEF BInv, Shapes
<1>2. /\ call'[c] = r /\ answer'[c] = a
      /\ \A d \in Clients \ {c} : call'[d] = call[d] /\ answer'[d] = answer[d]
  BY DEF BInv, Shapes
<1>3. RowFits'
  BY DEF BInv, RowFits
<1>4. ASSUME NEW d \in Clients PROVE CallFits(d)' /\ AskedFits(d)'
  <2>1. CASE d = c
    BY <1>2, <2>1 DEF BInv, CallFits, AskedFits
  <2>2. CASE d # c
    BY <1>2, <2>2 DEF BInv, CallFits, AskedFits
  <2> QED
    BY <2>1, <2>2
<1> QED
  BY <1>1, <1>3, <1>4 DEF BInv

\* The same when the row stays as it is.
LEMMA CallMove ==
    ASSUME BInv, NEW c \in Clients, NEW r \in [pc : Place, outcome : Outcome], NEW a \in Told,
           call' = [call EXCEPT ![c] = r], answer' = [answer EXCEPT ![c] = a],
           UNCHANGED <<intent, broker>>,
           r.pc # "idle" => a = "nothing",
           r.pc \in {"consume", "provider", "lookup", "wire", "receipt", "apply"} =>
              intent.by = {c} /\ intent.status # "none",
           r.pc \in {"provider", "lookup", "wire", "receipt", "apply"} => intent.consumed,
           r.pc \notin {"receipt", "apply", "finish"} => r.outcome = "none",
           r.outcome = "accepted" => broker.order = "open",
           r.outcome = "rejected" => broker.order = "refused",
           broker.asked[c] # 0 => /\ r.pc \in {"wire", "receipt", "apply", "finish", "idle"}
                                  /\ r.outcome # "refused"
    PROVE  BInv'
<1>1. /\ intent' = intent /\ intent \in [status : IntentStatus, by : SUBSET Clients,
                                         consumed : BOOLEAN, ticket : BOOLEAN]
      /\ intent.status = "rejected" => broker.order = "refused"
      /\ intent.status = "confirmed" => broker.order = "open"
  BY DEF BInv, Shapes, RowFits
<1> QED
  BY <1>1, RowMove

\* What a call is, and that it has not asked before it reaches the wire.
LEMMA CallFacts ==
    ASSUME BInv, NEW c \in Clients
    PROVE  /\ call[c] \in [pc : Place, outcome : Outcome] /\ answer[c] \in Told
           /\ CallFits(c) /\ AskedFits(c)
           /\ call[c].pc \notin {"wire", "receipt", "apply", "finish", "idle"} =>
                 broker.asked[c] = 0
  BY DEF BInv, Shapes, AskedFits

\* A call goes on: only its place changes.
LEMMA GoToMove ==
    ASSUME BInv, NEW c \in Clients, NEW p \in Place, GoTo(c, p),
           UNCHANGED <<answer, intent, broker>>,
           p # "idle" => call[c].pc # "idle",
           call[c].pc \in {"receipt", "apply", "finish"} => p \in {"receipt", "apply", "finish"},
           p \in {"consume", "provider", "lookup", "wire", "receipt", "apply"} =>
              intent.by = {c} /\ intent.status # "none",
           p \in {"provider", "lookup", "wire", "receipt", "apply"} => intent.consumed,
           broker.asked[c] # 0 => p \in {"wire", "receipt", "apply", "finish", "idle"}
    PROVE  BInv'
<1> DEFINE r == [call[c] EXCEPT !.pc = p]
<1>1. call' = [call EXCEPT ![c] = r]
  BY DEF GoTo, BInv, Shapes
<1>2. /\ r \in [pc : Place, outcome : Outcome] /\ r.pc = p /\ r.outcome = call[c].outcome
  BY CallFacts
<1>3. answer' = [answer EXCEPT ![c] = answer[c]]
  BY DEF BInv, Shapes
<1> HIDE DEF r
<1>4. /\ p # "idle" => answer[c] = "nothing"
      /\ p \notin {"receipt", "apply", "finish"} => r.outcome = "none"
      /\ r.outcome = "accepted" => broker.order = "open"
      /\ r.outcome = "rejected" => broker.order = "refused"
      /\ broker.asked[c] # 0 => r.outcome # "refused"
  BY <1>2, CallFacts DEF CallFits, AskedFits
<1>5. answer[c] \in Told
  BY CallFacts
<1> QED
  BY <1>1, <1>2, <1>3, <1>4, <1>5, CallMove

\* A call goes on with an outcome.
LEMMA HoldMove ==
    ASSUME BInv, NEW c \in Clients, NEW p \in Place \ {"idle"}, NEW o \in Outcome, Hold(c, p, o),
           UNCHANGED <<answer, intent, broker>>, call[c].pc # "idle",
           p \notin {"receipt", "apply", "finish"} => o = "none",
           p \in {"consume", "provider", "lookup", "wire", "receipt", "apply"} =>
              intent.by = {c} /\ intent.status # "none",
           p \in {"provider", "lookup", "wire", "receipt", "apply"} => intent.consumed,
           o = "accepted" => broker.order = "open", o = "rejected" => broker.order = "refused",
           broker.asked[c] # 0 => /\ p \in {"wire", "receipt", "apply", "finish", "idle"}
                                  /\ o # "refused"
    PROVE  BInv'
<1> DEFINE r == [pc |-> p, outcome |-> o]
<1>1. call' = [call EXCEPT ![c] = r] /\ r \in [pc : Place, outcome : Outcome] /\ r.pc = p /\ r.outcome = o
  BY DEF Hold
<1>2. answer' = [answer EXCEPT ![c] = answer[c]] /\ answer[c] = "nothing" /\ answer[c] \in Told
  BY CallFacts DEF BInv, Shapes, CallFits
<1> HIDE DEF r
<1>3. /\ r.pc # "idle" => answer[c] = "nothing"
      /\ r.pc \in {"consume", "provider", "lookup", "wire", "receipt", "apply"} =>
            intent.by = {c} /\ intent.status # "none"
      /\ r.pc \in {"provider", "lookup", "wire", "receipt", "apply"} => intent.consumed
      /\ r.pc \notin {"receipt", "apply", "finish"} => r.outcome = "none"
      /\ r.outcome = "accepted" => broker.order = "open"
      /\ r.outcome = "rejected" => broker.order = "refused"
      /\ broker.asked[c] # 0 => /\ r.pc \in {"wire", "receipt", "apply", "finish", "idle"}
                                /\ r.outcome # "refused"
  BY <1>1, <1>2
<1>4. UNCHANGED <<intent, broker>>
  OBVIOUS
<1> QED
  BY <1>1, <1>2, <1>3, <1>4, CallMove

\* A call returns an answer.
LEMMA ReturnMove ==
    ASSUME BInv, NEW c \in Clients, NEW a \in Told, Return(c, a), UNCHANGED <<intent, broker>>
    PROVE  BInv'
<1> DEFINE r == [pc |-> "idle", outcome |-> "none"]
<1>1. /\ call' = [call EXCEPT ![c] = r] /\ answer' = [answer EXCEPT ![c] = a]
      /\ r \in [pc : Place, outcome : Outcome] /\ r.pc = "idle" /\ r.outcome = "none"
  BY DEF Return, Place, Outcome
<1> HIDE DEF r
<1> QED
  BY <1>1, CallMove

\* The composition's steps before the ledger.
LEMMA ComposeSteps ==
    ASSUME BInv, NEW c \in Clients, NEW ok \in BOOLEAN,
           \/ evaluateRisk(c, ok) \/ composeGates(c, ok) \/ composeFails(c)
           \/ resolveRequestRowOrFail(c, ok) \/ createAuthorization(c)
           \/ brokerFence(c, ok) \/ toGate9RiskHandoff(c, ok)
    PROVE  BInv'
<1>1. /\ call[c].pc \in {"evaluate", "gates", "request", "authorize", "fence", "handoff"}
      /\ UNCHANGED <<intent, broker>>
  BY DEF evaluateRisk, composeGates, composeFails, resolveRequestRowOrFail, createAuthorization,
         brokerFence, toGate9RiskHandoff
<1>2. broker.asked[c] = 0
  BY <1>1, CallFacts
<1>3. \/ Return(c, "refused")
      \/ /\ UNCHANGED answer
         /\ \E p \in {"gates", "idle", "request", "authorize", "fence", "handoff", "prepare"} : GoTo(c, p)
  BY DEF evaluateRisk, composeGates, composeFails, resolveRequestRowOrFail, createAuthorization,
         brokerFence, toGate9RiskHandoff
<1>4. CASE Return(c, "refused")
  BY <1>1, <1>4, ReturnMove DEF Told
<1>5. CASE /\ UNCHANGED answer
           /\ \E p \in {"gates", "idle", "request", "authorize", "fence", "handoff", "prepare"} : GoTo(c, p)
  <2>1. PICK p \in {"gates", "idle", "request", "authorize", "fence", "handoff", "prepare"} : GoTo(c, p)
    BY <1>5
  <2> QED
    BY <1>1, <1>2, <1>5, <2>1, GoToMove DEF Place
<1> QED
  BY <1>3, <1>4, <1>5

\* A replay tells what the row says; otherwise the call begins.
LEMMA ReplayStep ==
    ASSUME BInv, NEW c \in Clients, checkReplay(c)
    PROVE  BInv'
<1>1. call[c].pc = "idle" /\ UNCHANGED <<intent, broker>>
  BY DEF checkReplay
<1>2. CASE intent.status # "none"
  <2>1. /\ call' = [call EXCEPT ![c] = call[c]]
        /\ answer' = [answer EXCEPT ![c] = replayBrokerIntent]
    BY <1>2 DEF checkReplay, BInv, Shapes
  <2>2. replayBrokerIntent \in Told
    BY DEF replayBrokerIntent, Told
  <2>3. /\ call[c].outcome = "none"
        /\ call[c].outcome = "accepted" => broker.order = "open"
        /\ call[c].outcome = "rejected" => broker.order = "refused"
        /\ broker.asked[c] # 0 => call[c].outcome # "refused"
    BY <1>1, CallFacts DEF CallFits, AskedFits
  <2>4. call[c] \in [pc : Place, outcome : Outcome]
    BY CallFacts
  <2> QED
    BY <1>1, <2>1, <2>2, <2>3, <2>4, CallMove
<1>3. CASE intent.status = "none"
  <2> DEFINE r == [call[c] EXCEPT !.pc = "evaluate"]
  <2>1. /\ call' = [call EXCEPT ![c] = r]
        /\ answer' = [answer EXCEPT ![c] = "nothing"]
    BY <1>3 DEF checkReplay, GoTo, BInv, Shapes
  <2>2. /\ r \in [pc : Place, outcome : Outcome] /\ r.pc = "evaluate" /\ r.outcome = call[c].outcome
        /\ "nothing" \in Told
    BY CallFacts DEF Place, Told
  <2> HIDE DEF r
  <2>3. /\ r.outcome = "none" /\ broker.asked[c] = 0
        /\ r.outcome = "accepted" => broker.order = "open"
        /\ r.outcome = "rejected" => broker.order = "refused"
    BY <1>1, <1>3, <2>2, CallFacts DEF CallFits, AskedFits
  <2> QED
    BY <1>1, <2>1, <2>2, <2>3, CallMove
<1> QED
  BY <1>2, <1>3


\* The ledger: a stored intent makes a duplicate; otherwise the call inserts
\* the row, which nobody owned and for which nobody asked.
LEMMA PrepareStep ==
    ASSUME BInv, NEW c \in Clients, NEW bound \in BOOLEAN, NEW ok \in BOOLEAN,
           prepareIntent(c, bound, ok)
    PROVE  BInv'
<1>1. /\ call[c].pc = "prepare" /\ broker.asked[c] = 0 /\ UNCHANGED <<answer, broker>>
      /\ answer[c] = "nothing" /\ call[c].outcome = "none"
  BY CallFacts DEF prepareIntent, CallFits
<1>2. CASE \E o \in {"refused", "duplicate"} : Hold(c, "finish", o) /\ UNCHANGED intent
  <2>1. PICK o \in {"refused", "duplicate"} : Hold(c, "finish", o) /\ UNCHANGED intent
    BY <1>2
  <2>2. o \in Outcome /\ "finish" \in Place \ {"idle"} /\ o \notin {"accepted", "rejected"}
    BY DEF Outcome, Place
  <2> QED
    BY <1>1, <2>1, <2>2, HoldMove
<1>3. CASE /\ ~findIntent /\ GoTo(c, "consume")
           /\ intent' = [status |-> "submitting", by |-> {c}, consumed |-> FALSE, ticket |-> FALSE]
  <2> DEFINE r == [call[c] EXCEPT !.pc = "consume"]
  <2>1. /\ call' = [call EXCEPT ![c] = r] /\ r \in [pc : Place, outcome : Outcome]
        /\ r.pc = "consume" /\ r.outcome = "none"
    BY <1>1, <1>3, CallFacts DEF GoTo, BInv, Shapes, Place
  <2> HIDE DEF r
  <2>2. /\ call'[c] = r /\ \A d \in Clients \ {c} : call'[d] = call[d]
    BY <2>1 DEF BInv, Shapes
  <2>3. intent.status = "none"
    BY <1>3 DEF findIntent
  <2>4. \A d \in Clients :
           /\ broker.asked[d] = 0
           /\ call[d].pc \notin {"consume", "provider", "lookup", "wire", "receipt", "apply"}
    BY <2>3 DEF BInv, AskedFits, CallFits
  <2>5. broker.order = "none"
    BY <2>4 DEF BInv, RowFits, Shapes
  <2>6. Shapes'
    BY <1>1, <1>3, <2>1 DEF BInv, Shapes, IntentStatus
  <2>7. RowFits'
    BY <1>1, <1>3, <2>5 DEF BInv, RowFits
  <2>8. ASSUME NEW d \in Clients PROVE CallFits(d)' /\ AskedFits(d)'
    <3>1. AskedFits(d)'
      BY <1>1, <2>4 DEF AskedFits
    <3>2. CASE d = c
      BY <1>1, <1>3, <2>1, <2>2, <3>1, <3>2 DEF CallFits
    <3>3. CASE d # c
      <4>1. call'[d] = call[d] /\ answer'[d] = answer[d] /\ CallFits(d)
        BY <1>1, <2>2, <3>3 DEF BInv
      <4> QED
        BY <1>1, <2>4, <3>1, <4>1 DEF CallFits
    <3> QED
      BY <3>2, <3>3
  <2> QED
    BY <2>6, <2>7, <2>8 DEF BInv
<1> QED
  BY <1>2, <1>3 DEF prepareIntent

\* Spending the barrier keeps the row's owner.
LEMMA ConsumeStep ==
    ASSUME BInv, NEW c \in Clients, NEW ok \in BOOLEAN, consumeBarrier(c, ok)
    PROVE  BInv'
<1>1. /\ call[c].pc = "consume" /\ broker.asked[c] = 0 /\ UNCHANGED <<answer, broker>>
      /\ answer[c] = "nothing" /\ call[c].outcome = "none"
      /\ intent.by = {c} /\ intent.status # "none"
  BY CallFacts DEF consumeBarrier, CallFits
<1>2. CASE Hold(c, "finish", "refused") /\ UNCHANGED intent
  <2>1. "refused" \in Outcome /\ "finish" \in Place \ {"idle"}
    BY DEF Outcome, Place
  <2> QED
    BY <1>1, <1>2, <2>1, HoldMove
<1>3. CASE /\ intent.status = "submitting" /\ intent' = [intent EXCEPT !.consumed = TRUE]
           /\ GoTo(c, "provider")
  <2> DEFINE r == [call[c] EXCEPT !.pc = "provider"]
  <2>1. /\ call' = [call EXCEPT ![c] = r] /\ r \in [pc : Place, outcome : Outcome]
        /\ r.pc = "provider" /\ r.outcome = "none"
    BY <1>1, <1>3, CallFacts DEF GoTo, BInv, Shapes, Place
  <2> HIDE DEF r
  <2>2. /\ intent' \in [status : IntentStatus, by : SUBSET Clients,
                        consumed : BOOLEAN, ticket : BOOLEAN]
        /\ intent'.by = intent.by /\ intent'.status = "submitting" /\ intent'.consumed
    BY <1>3 DEF BInv, Shapes
  <2>3. answer' = [answer EXCEPT ![c] = answer[c]] /\ answer[c] \in Told
    BY <1>1, CallFacts DEF BInv, Shapes
  <2> QED
    BY <1>1, <2>1, <2>2, <2>3, RowMove
<1> QED
  BY <1>2, <1>3 DEF consumeBarrier

\* The provider's own barrier: on to the lookup, or uncertain.
LEMMA PresentStep ==
    ASSUME BInv, NEW c \in Clients, presentBarrier(c)
    PROVE  BInv'
<1>1. /\ call[c].pc = "provider" /\ broker.asked[c] = 0 /\ UNCHANGED <<answer, intent, broker>>
      /\ intent.by = {c} /\ intent.status # "none" /\ intent.consumed
  BY CallFacts DEF presentBarrier, CallFits
<1>2. GoTo(c, "lookup") \/ Hold(c, "receipt", "uncertain")
  BY DEF presentBarrier
<1>3. "lookup" \in Place /\ "receipt" \in Place \ {"idle"} /\ "uncertain" \in Outcome
  BY DEF Place, Outcome
<1>4. CASE GoTo(c, "lookup")
  BY <1>1, <1>3, <1>4, GoToMove
<1>5. CASE Hold(c, "receipt", "uncertain")
  BY <1>1, <1>3, <1>5, HoldMove
<1> QED
  BY <1>2, <1>4, <1>5

\* The only step that asks: nobody asked before, since the row's owner would
\* have been this call, which is not past its lookup; and nothing is decided.
LEMMA OnlyOwnerAsks ==
    ASSUME BInv, NEW c \in Clients, call[c].pc = "lookup"
    PROVE  \A d \in Clients : broker.asked[d] = 0
<1>1. intent.by = {c} /\ broker.asked[c] = 0
  BY CallFacts DEF CallFits
<1>2. ASSUME NEW d \in Clients, broker.asked[d] # 0 PROVE FALSE
  <2>1. intent.by = {d}
    BY <1>2 DEF BInv, AskedFits
  <2>2. d = c
    BY <1>1, <2>1
  <2> QED
    BY <1>1, <1>2, <2>2
<1> QED
  BY <1>2

\* Sending leaves one request on the wire, the call's own.
LEMMA SubmitStep ==
    ASSUME BInv, NEW c \in Clients, NEW ok \in BOOLEAN, submitOrder(c, ok)
    PROVE  BInv'
<1>1. /\ call[c].pc = "lookup" /\ broker.asked[c] = 0 /\ UNCHANGED <<answer, intent>>
      /\ intent.by = {c} /\ intent.status # "none" /\ intent.consumed
      /\ answer[c] = "nothing" /\ call[c].outcome = "none"
  BY CallFacts DEF submitOrder, CallFits
<1>2. CASE /\ UNCHANGED broker
           /\ \/ Hold(c, "receipt", "uncertain")
              \/ broker.order # "none" /\ Hold(c, "receipt", IF broker.order = "open" THEN "accepted" ELSE "rejected")
  <2>1. "receipt" \in Place \ {"idle"} /\ {"uncertain", "accepted", "rejected"} \subseteq Outcome
    BY DEF Outcome, Place
  <2>2. PICK o \in {"uncertain", "accepted", "rejected"} :
           /\ Hold(c, "receipt", o)
           /\ o = "accepted" => broker.order = "open"
           /\ o = "rejected" => broker.order = "refused"
    BY <1>2 DEF BInv, Shapes
  <2> QED
    BY <1>1, <1>2, <2>1, <2>2, HoldMove
<1>3. CASE /\ broker.order = "none" /\ GoTo(c, "wire")
           /\ broker' = [broker EXCEPT !.wire = @ \cup {c}, !.asked[c] = @ + 1]
  <2> DEFINE r == [call[c] EXCEPT !.pc = "wire"]
  <2>1. /\ call' = [call EXCEPT ![c] = r] /\ r \in [pc : Place, outcome : Outcome]
        /\ r.pc = "wire" /\ r.outcome = "none"
    BY <1>1, <1>3, CallFacts DEF GoTo, BInv, Shapes, Place
  <2> HIDE DEF r
  <2>2. /\ call'[c] = r /\ \A d \in Clients \ {c} : call'[d] = call[d]
    BY <2>1 DEF BInv, Shapes
  <2>3. \A d \in Clients : broker.asked[d] = 0
    BY <1>1, OnlyOwnerAsks
  <2>4. /\ broker' = [order |-> broker.order, wire |-> broker.wire \cup {c},
                      asked |-> [broker.asked EXCEPT ![c] = broker.asked[c] + 1]]
        /\ broker.asked \in [Clients -> Nat] /\ broker.wire \subseteq Clients
    BY <1>3 DEF BInv, Shapes
  <2>5. broker.wire = {}
    BY <2>3, <2>4 DEF BInv, RowFits
  <2>6. /\ broker'.order = "none" /\ broker'.wire = {c} /\ broker'.asked \in [Clients -> Nat]
        /\ broker'.asked[c] = 1 /\ \A d \in Clients \ {c} : broker'.asked[d] = 0
        /\ broker' \in [order : {"none", "open", "refused"}, wire : SUBSET Clients,
                        asked : [Clients -> Nat]]
    <3> DEFINE a == [broker.asked EXCEPT ![c] = broker.asked[c] + 1]
    <3>1. a \in [Clients -> Nat] /\ a[c] = 1 /\ \A d \in Clients \ {c} : a[d] = 0
      BY <2>3, <2>4
    <3> HIDE DEF a
    <3>2. broker.wire \cup {c} = {c}
      BY <2>5
    <3>3. broker' = [order |-> "none", wire |-> {c}, asked |-> a]
      BY <1>3, <2>4, <3>2 DEF a
    <3>4. {c} \in SUBSET Clients
      OBVIOUS
    <3> QED
      BY <3>1, <3>3, <3>4
  <2>7. Shapes'
    BY <1>1, <2>1, <2>6 DEF BInv, Shapes
  <2>8. RowFits'
    BY <1>1, <1>3, <2>6 DEF BInv, RowFits
  <2>9. ASSUME NEW d \in Clients PROVE CallFits(d)' /\ AskedFits(d)'
    <3>1. CASE d = c
      BY <1>1, <2>1, <2>2, <2>6, <3>1 DEF CallFits, AskedFits
    <3>2. CASE d # c
      <4>1. /\ call'[d] = call[d] /\ answer'[d] = answer[d] /\ CallFits(d)
            /\ broker'.asked[d] = 0 /\ broker'.order = broker.order /\ intent' = intent
        BY <1>1, <1>3, <2>2, <2>6, <3>2 DEF BInv
      <4> QED
        BY <4>1 DEF CallFits, AskedFits
    <3> QED
      BY <3>1, <3>2
  <2> QED
    BY <2>7, <2>8, <2>9 DEF BInv
<1> QED
  BY <1>2, <1>3 DEF submitOrder

\* The broker decides the one request there is; the order was none.
LEMMA DecideStep ==
    ASSUME BInv, NEW c \in Clients, NEW d \in {"none", "open", "refused"}, brokerDecides(c, d)
    PROVE  /\ broker.order = "none" /\ broker'.order = d /\ broker'.asked = broker.asked
           /\ broker.asked[c] = 1
           /\ BInv'
<1>1. /\ c \in broker.wire /\ UNCHANGED <<call, answer, intent>> /\ broker.order = "none"
      /\ broker.asked[c] = 1
  BY DEF brokerDecides, BInv, RowFits
<1>2. broker.wire = {c}
  <2>1. ASSUME NEW e \in broker.wire PROVE e = c
    <3>1. e \in Clients /\ broker.asked[e] = 1
      BY <2>1 DEF BInv, RowFits, Shapes
    <3>2. intent.by = {e}
      BY <3>1 DEF BInv, AskedFits
    <3>3. intent.by = {c}
      BY <1>1 DEF BInv, AskedFits
    <3> QED
      BY <3>2, <3>3
  <2> QED
    BY <1>1, <2>1
<1>3. broker' = [order |-> d, wire |-> {}, asked |-> broker.asked]
  BY <1>1, <1>2 DEF brokerDecides, BInv, Shapes
<1>4. /\ broker'.order = d /\ broker'.wire = {} /\ broker'.asked = broker.asked
      /\ broker.asked \in [Clients -> Nat]
  BY <1>3 DEF BInv, Shapes
<1>5. Shapes'
  BY <1>1, <1>3, <1>4 DEF BInv, Shapes
<1>6. intent.status \notin {"rejected", "confirmed"}
  BY <1>1 DEF BInv, RowFits
<1>7. RowFits'
  BY <1>1, <1>4, <1>6 DEF RowFits
<1>8. ASSUME NEW e \in Clients PROVE CallFits(e)' /\ AskedFits(e)'
  <2>1. CallFits(e) /\ AskedFits(e)
    BY DEF BInv
  <2> QED
    BY <1>1, <1>4, <2>1 DEF CallFits, AskedFits
<1> QED
  BY <1>1, <1>4, <1>5, <1>7, <1>8 DEF BInv

\* The answer the call takes from the wire is the broker's, or uncertain.
LEMMA AnswerStep ==
    ASSUME BInv, NEW c \in Clients, NEW ok \in BOOLEAN, receiveAnswer(c, ok)
    PROVE  BInv'
<1>1. /\ call[c].pc = "wire" /\ UNCHANGED <<answer, intent, broker>>
      /\ intent.by = {c} /\ intent.status # "none" /\ intent.consumed
  BY CallFacts DEF receiveAnswer, CallFits
<1>2. "receipt" \in Place \ {"idle"} /\ {"uncertain", "accepted", "rejected"} \subseteq Outcome
  BY DEF Outcome, Place
<1>3. PICK o \in {"uncertain", "accepted", "rejected"} :
         /\ Hold(c, "receipt", o)
         /\ o = "accepted" => broker.order = "open"
         /\ o = "rejected" => broker.order = "refused"
  BY DEF receiveAnswer, BInv, Shapes
<1> QED
  BY <1>1, <1>2, <1>3, HoldMove

\* Storing the receipt adds at most a ticket.
LEMMA ReceiptStep ==
    ASSUME BInv, NEW c \in Clients, NEW ok \in BOOLEAN, storeReceipt(c, ok)
    PROVE  BInv'
<1>1. /\ call[c].pc = "receipt" /\ UNCHANGED <<answer, broker>> /\ answer[c] = "nothing"
      /\ intent.by = {c} /\ intent.status # "none" /\ intent.consumed
      /\ call[c].outcome \in Outcome /\ CallFits(c) /\ AskedFits(c)
      /\ answer[c] \in Told
  BY CallFacts DEF storeReceipt, CallFits
<1>2. PICK o \in {"uncertain", call[c].outcome} : Hold(c, "apply", o)
  BY DEF storeReceipt
<1> DEFINE r == [pc |-> "apply", outcome |-> o]
<1>3. /\ call' = [call EXCEPT ![c] = r] /\ r \in [pc : Place, outcome : Outcome]
      /\ r.pc = "apply" /\ r.outcome = o
  BY <1>1, <1>2 DEF Hold, Place, Outcome
<1> HIDE DEF r
<1>4. /\ intent' \in [status : IntentStatus, by : SUBSET Clients,
                      consumed : BOOLEAN, ticket : BOOLEAN]
      /\ intent'.by = intent.by /\ intent'.status = intent.status
      /\ intent'.consumed = intent.consumed
  BY DEF storeReceipt, BInv, Shapes
<1>5. /\ answer' = [answer EXCEPT ![c] = answer[c]]
      /\ intent.status = "rejected" => broker.order = "refused"
      /\ intent.status = "confirmed" => broker.order = "open"
  BY <1>1 DEF BInv, Shapes, RowFits
<1>6. /\ o = "accepted" => broker.order = "open"
      /\ o = "rejected" => broker.order = "refused"
      /\ broker.asked[c] # 0 => o # "refused"
  BY <1>1, <1>2 DEF CallFits, AskedFits
<1> QED
  BY <1>1, <1>3, <1>4, <1>5, <1>6, RowMove, ZenonT(60)

\* The status a settled row gets is what the call learnt of the broker.
LEMMA ApplyStep ==
    ASSUME BInv, NEW c \in Clients, NEW ok \in BOOLEAN, applySubmitOutcome(c, ok)
    PROVE  BInv'
<1>1. /\ call[c].pc = "apply" /\ UNCHANGED <<answer, broker>> /\ answer[c] = "nothing"
      /\ CallFits(c) /\ AskedFits(c) /\ answer[c] \in Told
      /\ intent.status # "none"
  BY CallFacts DEF applySubmitOutcome, CallFits
<1> DEFINE r == [call[c] EXCEPT !.pc = "finish"]
<1>2. /\ call' = [call EXCEPT ![c] = r] /\ r \in [pc : Place, outcome : Outcome]
      /\ r.pc = "finish" /\ r.outcome = call[c].outcome
  BY CallFacts DEF applySubmitOutcome, GoTo, BInv, Shapes, Place
<1> HIDE DEF r
<1>3. /\ answer' = [answer EXCEPT ![c] = answer[c]]
      /\ intent.status = "rejected" => broker.order = "refused"
      /\ intent.status = "confirmed" => broker.order = "open"
      /\ intent \in [status : IntentStatus, by : SUBSET Clients, consumed : BOOLEAN, ticket : BOOLEAN]
  BY <1>1 DEF BInv, Shapes, RowFits
<1>4. /\ SettledStatus(call[c].outcome) \in IntentStatus \ {"none"}
      /\ SettledStatus(call[c].outcome) = "rejected" => call[c].outcome = "rejected"
      /\ SettledStatus(call[c].outcome) = "confirmed" => call[c].outcome = "accepted"
  BY DEF SettledStatus, IntentStatus
<1>5. PICK st \in {intent.status, SettledStatus(call[c].outcome)} :
         intent' = [intent EXCEPT !.status = st]
  BY <1>3 DEF applySubmitOutcome
<1>6. /\ intent' \in [status : IntentStatus, by : SUBSET Clients,
                      consumed : BOOLEAN, ticket : BOOLEAN]
      /\ intent'.by = intent.by /\ intent'.consumed = intent.consumed /\ intent'.status = st
  BY <1>3, <1>4, <1>5
<1>7. /\ st # "none"
      /\ st = "rejected" => broker.order = "refused"
      /\ st = "confirmed" => broker.order = "open"
      /\ r.outcome = "accepted" => broker.order = "open"
      /\ r.outcome = "rejected" => broker.order = "refused"
      /\ broker.asked[c] # 0 => r.outcome # "refused"
  BY <1>1, <1>2, <1>3, <1>4, <1>5 DEF CallFits, AskedFits
<1> QED
  BY <1>1, <1>2, <1>3, <1>6, <1>7, RowMove, ZenonT(60)

\* What a call may be told: an acceptance or a rejection the broker decided,
\* and a refusal only if its call asked nobody.
Truthful(c, a) ==
    /\ a \in Told
    /\ a = "accepted" => broker.order = "open"
    /\ a = "rejected" => broker.order = "refused"
    /\ a = "refused" => broker.asked[c] = 0

\* The result of a finished call is truthful.
LEMMA ResultIsTruthful ==
    ASSUME BInv, NEW c \in Clients, call[c].pc = "finish"
    PROVE  Truthful(c, mapBrokerSubmitOutcome(c))
<1>1. /\ CallFits(c) /\ AskedFits(c)
      /\ intent.status = "rejected" => broker.order = "refused"
      /\ intent.status = "confirmed" => broker.order = "open"
      /\ broker.asked[c] \in Nat
  BY DEF BInv, RowFits, Shapes
<1>2. CASE call[c].outcome = "refused"
  BY <1>1, <1>2 DEF AskedFits, Truthful, mapBrokerSubmitOutcome, Told
<1>3. CASE call[c].outcome = "duplicate"
  BY <1>1, <1>3 DEF Truthful, mapBrokerSubmitOutcome, projectDuplicate, Told
<1>4. CASE call[c].outcome \notin {"refused", "duplicate"}
  BY <1>1, <1>4 DEF CallFits, Truthful, mapBrokerSubmitOutcome, projectSubmitted, Told
<1> QED
  BY <1>2, <1>3, <1>4

\* A finished call returns.
LEMMA FinishStep ==
    ASSUME BInv, NEW c \in Clients, finishSubmit(c)
    PROVE  BInv'
  BY ResultIsTruthful, ReturnMove DEF finishSubmit, Truthful

\* Steps that leave the calls and the broker alone and settle the row.
LEMMA OutsideSteps ==
    ASSUME BInv, recoverIntent \/ reconcileIntent \/ \E c \in Clients : expire(c)
    PROVE  BInv'
<1>1. UNCHANGED <<call, answer, broker>>
  BY DEF recoverIntent, reconcileIntent, expire
<1>2. \/ UNCHANGED intent
      \/ /\ intent.status # "none"
         /\ \E st \in {"uncertain", "reconciled"} : intent' = [intent EXCEPT !.status = st]
  BY DEF recoverIntent, reconcileIntent, expire
<1>3. CASE UNCHANGED intent
  BY <1>1, <1>3 DEF BInv, Shapes, RowFits, CallFits, AskedFits
<1>4. CASE /\ intent.status # "none"
           /\ \E st \in {"uncertain", "reconciled"} : intent' = [intent EXCEPT !.status = st]
  <2>1. /\ intent' \in [status : IntentStatus, by : SUBSET Clients,
                        consumed : BOOLEAN, ticket : BOOLEAN]
        /\ intent'.by = intent.by /\ intent'.consumed = intent.consumed
        /\ intent'.status \in {"uncertain", "reconciled"}
    BY <1>4 DEF BInv, Shapes, IntentStatus
  <2>2. Shapes' /\ RowFits'
    BY <1>1, <2>1 DEF BInv, Shapes, RowFits
  <2>3. ASSUME NEW c \in Clients PROVE CallFits(c)' /\ AskedFits(c)'
    BY <1>1, <1>4, <2>1 DEF BInv, CallFits, AskedFits
  <2> QED
    BY <2>2, <2>3 DEF BInv
<1> QED
  BY <1>2, <1>3, <1>4

\* A crash leaves every call idle and tells nobody anything new.
LEMMA CrashStep ==
    ASSUME BInv, processCrash
    PROVE  BInv' /\ UNCHANGED answer
<1>1. /\ UNCHANGED <<intent, broker>>
      /\ call' = [c \in Clients |-> [pc |-> "idle", outcome |-> "none"]]
  BY DEF processCrash
<1>2. UNCHANGED answer
  <2>1. \A c \in Clients : call[c].pc # "idle" => answer[c] = "nothing"
    BY DEF BInv, CallFits
  <2>2. answer = [c \in Clients |-> answer[c]]
    BY DEF BInv, Shapes
  <2> QED
    BY <2>1, <2>2 DEF processCrash
<1>3. Shapes'
  BY <1>1, <1>2 DEF BInv, Shapes, Place, Outcome
<1>4. RowFits'
  BY <1>1 DEF BInv, RowFits
<1>5. ASSUME NEW c \in Clients PROVE CallFits(c)' /\ AskedFits(c)'
  BY <1>1, <1>2 DEF BInv, CallFits, AskedFits
<1> QED
  BY <1>2, <1>3, <1>4, <1>5 DEF BInv

-----------------------------------------------------------------------------
\* Every step preserves the invariant.
LEMMA NextInv == BInv /\ [BrokerNext]_brokerVars => BInv'
<1> SUFFICES ASSUME BInv, [BrokerNext]_brokerVars PROVE BInv'
  OBVIOUS
<1>1. CASE UNCHANGED brokerVars
  BY <1>1 DEF brokerVars, BInv, Shapes, RowFits, CallFits, AskedFits
<1>2. CASE processCrash
  BY <1>2, CrashStep
<1>3. CASE recoverIntent \/ reconcileIntent \/ \E c \in Clients : expire(c)
  BY <1>3, OutsideSteps
<1>4. ASSUME NEW c \in Clients, checkReplay(c) PROVE BInv'
  BY <1>4, ReplayStep
<1>5. ASSUME NEW c \in Clients, composeFails(c) \/ createAuthorization(c) PROVE BInv'
  BY <1>5, ComposeSteps
<1>6. ASSUME NEW c \in Clients, presentBarrier(c) PROVE BInv'
  BY <1>6, PresentStep
<1>7. ASSUME NEW c \in Clients, finishSubmit(c) PROVE BInv'
  BY <1>7, FinishStep
<1>8. ASSUME NEW c \in Clients, NEW ok \in BOOLEAN, ClientStep(c, ok) PROVE BInv'
  BY <1>8, ComposeSteps, PrepareStep, ConsumeStep, SubmitStep, AnswerStep, ReceiptStep, ApplyStep
     DEF ClientStep
<1>9. ASSUME NEW c \in Clients, NEW d \in {"none", "open", "refused"}, brokerDecides(c, d)
      PROVE  BInv'
  BY <1>9, DecideStep
<1> QED
  BY <1>1, <1>2, <1>3, <1>4, <1>5, <1>6, <1>7, <1>8, <1>9 DEF BrokerNext

\* The row's owner alone is past the ledger and asks once: BInv holds in every
\* state the broker path reaches, for any set of calls and any number of
\* crashes and expiries.
THEOREM BrokerInvariance == BrokerSpec => []BInv
  BY InitInv, NextInv, PTL DEF BrokerSpec

\* An order open at the broker, or a request still on the wire, has an intent
\* whose barrier was spent and which no call turned into a rejection
\* (submit-boundary.ts: the intent commits before the provider is called).
THEOREM OnRecord == BrokerSpec => []OrderIsOnRecord
<1>1. ASSUME BInv PROVE OrderIsOnRecord
  <2>1. SUFFICES ASSUME broker.order = "open" \/ broker.wire # {}
                 PROVE  intent.consumed /\ intent.status \notin {"none", "rejected"}
    BY DEF OrderIsOnRecord
  <2>2. PICK c \in Clients : broker.asked[c] = 1
    BY <1>1, <2>1 DEF BInv, RowFits, Shapes
  <2>3. intent.consumed /\ intent.status # "none"
    BY <1>1, <2>2 DEF BInv, AskedFits
  <2>4. intent.status # "rejected"
    BY <1>1, <2>1 DEF BInv, RowFits
  <2> QED
    BY <2>3, <2>4
<1> QED
  BY <1>1, BrokerInvariance, PTL

-----------------------------------------------------------------------------
(* The refinement of SubmitOnce, step by step.                             *)

\* Telling a call what is truthful is a Tell of the promise.
LEMMA TellRefines ==
    ASSUME BInv, NEW c \in Clients, NEW a, Truthful(c, a),
           answer' = [answer EXCEPT ![c] = a], UNCHANGED broker
    PROVE  Promise!Tell(c)
  BY DEF Truthful, Told, Promise!Tell, Promise!Permitted

\* What a replay tells is truthful.
LEMMA ReplayIsTruthful ==
    ASSUME BInv, NEW c \in Clients
    PROVE  Truthful(c, replayBrokerIntent) /\ Truthful(c, "nothing")
  BY DEF BInv, RowFits, Truthful, replayBrokerIntent, Told

\* Only submitOrder asks, and then it is an Ask of the promise.
LEMMA AskRefines ==
    ASSUME BInv, NEW c \in Clients, NEW ok \in BOOLEAN, submitOrder(c, ok)
    PROVE  Promise!Ask(c) \/ UNCHANGED <<broker, answer>>
<1>1. /\ call[c].pc = "lookup" /\ UNCHANGED answer
  BY DEF submitOrder
<1>2. CASE /\ broker.order = "none"
           /\ broker' = [broker EXCEPT !.wire = @ \cup {c}, !.asked[c] = @ + 1]
  <2>1. \A d \in Clients : broker.asked[d] = 0
    BY <1>1, OnlyOwnerAsks
  <2>2. broker'.asked = [broker.asked EXCEPT ![c] = 1] /\ broker'.order = broker.order
    BY <1>2, <2>1 DEF BInv, Shapes
  <2> QED
    BY <1>1, <2>1, <2>2 DEF Promise!Ask
<1> QED
  BY <1>1, <1>2 DEF submitOrder

\* A call that has not reached the wire may be told it was refused.
LEMMA RefusalRefines ==
    ASSUME BInv, NEW c \in Clients, NEW ok \in BOOLEAN,
           \/ evaluateRisk(c, ok) \/ composeGates(c, ok) \/ composeFails(c)
           \/ resolveRequestRowOrFail(c, ok) \/ createAuthorization(c)
           \/ brokerFence(c, ok) \/ toGate9RiskHandoff(c, ok)
    PROVE  Promise!Tell(c) \/ UNCHANGED <<broker, answer>>
<1>1. /\ call[c].pc \in {"evaluate", "gates", "request", "authorize", "fence", "handoff"}
      /\ UNCHANGED broker
  BY DEF evaluateRisk, composeGates, composeFails, resolveRequestRowOrFail, createAuthorization,
         brokerFence, toGate9RiskHandoff
<1>2. broker.asked[c] = 0
  BY <1>1, CallFacts
<1>3. UNCHANGED answer \/ answer' = [answer EXCEPT ![c] = "refused"]
  BY DEF evaluateRisk, composeGates, composeFails, resolveRequestRowOrFail, createAuthorization,
         brokerFence, toGate9RiskHandoff, Return
<1>4. Truthful(c, "refused")
  BY <1>2 DEF Truthful, Told
<1> QED
  BY <1>1, <1>3, <1>4, TellRefines

\* Every step of the broker path is a step of the promise or stutters.
LEMMA StepRefines == BInv /\ [BrokerNext]_brokerVars => [Promise!OnceNext]_(Promise!once)
<1> SUFFICES ASSUME BInv, [BrokerNext]_brokerVars,
                    ~ UNCHANGED <<broker, answer>>
             PROVE  Promise!OnceNext \/ Promise!once' = Promise!once
  BY DEF Promise!once
<1>1. CASE UNCHANGED brokerVars
  BY <1>1 DEF brokerVars
<1>2. CASE processCrash
  BY <1>2, CrashStep DEF processCrash
<1>3. CASE recoverIntent \/ reconcileIntent \/ \E c \in Clients : expire(c)
  BY <1>3 DEF recoverIntent, reconcileIntent, expire
<1>4. ASSUME NEW c \in Clients, checkReplay(c) PROVE Promise!OnceNext
  <2>1. /\ UNCHANGED broker
        /\ \/ answer' = [answer EXCEPT ![c] = replayBrokerIntent]
           \/ answer' = [answer EXCEPT ![c] = "nothing"]
    BY <1>4 DEF checkReplay
  <2> QED
    BY <2>1, ReplayIsTruthful, TellRefines DEF Promise!OnceNext
<1>5. ASSUME NEW c \in Clients, composeFails(c) \/ createAuthorization(c) PROVE Promise!OnceNext
  BY <1>5 DEF composeFails, createAuthorization
<1>6. ASSUME NEW c \in Clients, presentBarrier(c) PROVE Promise!OnceNext
  BY <1>6 DEF presentBarrier
<1>7. ASSUME NEW c \in Clients, finishSubmit(c) PROVE Promise!OnceNext
  <2>1. /\ UNCHANGED broker /\ call[c].pc = "finish"
        /\ answer' = [answer EXCEPT ![c] = mapBrokerSubmitOutcome(c)]
    BY <1>7 DEF finishSubmit, Return
  <2> QED
    BY <2>1, ResultIsTruthful, TellRefines DEF Promise!OnceNext
<1>8. ASSUME NEW c \in Clients, NEW ok \in BOOLEAN, ClientStep(c, ok) PROVE Promise!OnceNext
  <2>1. CASE \/ evaluateRisk(c, ok) \/ composeGates(c, ok) \/ resolveRequestRowOrFail(c, ok)
             \/ brokerFence(c, ok) \/ toGate9RiskHandoff(c, ok)
    BY <2>1, RefusalRefines DEF Promise!OnceNext
  <2>2. CASE submitOrder(c, ok)
    BY <2>2, AskRefines DEF Promise!OnceNext
  <2>3. CASE consumeBarrier(c, ok) \/ receiveAnswer(c, ok) \/ storeReceipt(c, ok) \/ applySubmitOutcome(c, ok)
    BY <2>3 DEF consumeBarrier, receiveAnswer, storeReceipt, applySubmitOutcome
  <2>4. CASE \E bound \in BOOLEAN : prepareIntent(c, bound, ok)
    BY <2>4 DEF prepareIntent
  <2> QED
    BY <1>8, <2>1, <2>2, <2>3, <2>4 DEF ClientStep
<1>9. ASSUME NEW c \in Clients, NEW d \in {"none", "open", "refused"}, brokerDecides(c, d)
      PROVE  Promise!OnceNext \/ Promise!once' = Promise!once
  <2>1. /\ broker.order = "none" /\ broker'.order = d /\ broker'.asked = broker.asked
        /\ broker.asked[c] = 1 /\ answer' = answer
    BY <1>9, DecideStep DEF brokerDecides
  <2> QED
    BY <2>1 DEF Promise!OnceNext, Promise!Decide, Promise!once
<1> QED
  BY <1>1, <1>2, <1>3, <1>4, <1>5, <1>6, <1>7, <1>8, <1>9 DEF BrokerNext

\* The broker path implements SubmitOnce: for any set of racing calls, with
\* crashes, expiries and lost answers, the broker is asked at most once for
\* the identity, decides at most once, and no call is told an acceptance, a
\* rejection or a refusal that is not so (composition.ts, submit-boundary.ts).
THEOREM RefinesSubmitOnce == BrokerSpec => ImplementsSubmitOnce
<1>1. BrokerInit => Promise!OnceInit
  BY DEF BrokerInit, Promise!OnceInit
<1> QED
  BY <1>1, StepRefines, BrokerInvariance, PTL DEF BrokerSpec, ImplementsSubmitOnce, Promise!OnceSpec

-----------------------------------------------------------------------------
(* The run ledger of the scanner.                                            *)

\* A set of numbers that is not empty has a least member.
LEMMA LeastNatural ==
    ASSUME NEW T \in SUBSET Nat, T # {}
    PROVE \E x \in T : \A y \in T : x <= y
<1>1. PICK x \in T : \A y \in T : ~(<<y, x>> \in OpToRel(<, Nat))
  BY WFMin, NatLessThanWellFounded
<1>2. \A y \in T : ~(y < x)
  BY <1>1 DEF OpToRel
<1> QED BY <1>2

\* A set of numbers below a bound has a greatest member.
LEMMA GreatestNatural ==
    ASSUME NEW T \in SUBSET Nat, T # {}, NEW b \in Nat, \A y \in T : y <= b
    PROVE \E x \in T : \A y \in T : y <= x
<1> DEFINE U == {n \in Nat : \E y \in T : n = b - y}
<1>1. PICK t : t \in T OBVIOUS
<1>2. t \in Nat /\ t <= b /\ b - t \in Nat BY <1>1
<1>3. b - t \in U BY <1>1, <1>2
<1>4. U \in SUBSET Nat /\ U # {} BY <1>3
<1>5. PICK u \in U : \A v \in U : u <= v
  <2> HIDE DEF U
  <2> QED BY <1>4, LeastNatural
<1>6. PICK x \in T : u = b - x BY <1>5
<1>7. ASSUME NEW y \in T PROVE y <= x
  <2>1. y \in Nat /\ y <= b /\ b - y \in Nat OBVIOUS
  <2>2. b - y \in U BY <2>1
  <2>3. b - x <= b - y BY <2>2, <1>5, <1>6
  <2> QED BY <2>1, <2>3
<1> QED BY <1>7

\* What Max returns.
LEMMA MaxIs ==
    ASSUME NEW T \in SUBSET Nat, T # {}, NEW b \in Nat, \A y \in T : y <= b
    PROVE Max(T) \in T /\ \A y \in T : y <= Max(T)
<1>1. \E x \in T : \A y \in T : x >= y
  <2>1. PICK x \in T : \A y \in T : y <= x BY GreatestNatural
  <2> QED BY <2>1
<1>2. Max(T) \in T /\ \A y \in T : Max(T) >= y
  BY <1>1 DEF Max
<1> QED BY <1>2

\* A row of scanner_runs, and a bound on the finish numbers of a ledger.
Run == [status : RunStatus, age : 0..2, fin : Nat]
Bounded(rs) == \E b \in Nat : \A i \in DOMAIN rs : rs[i].fin <= b

\* The number of the newest successful finish is one of those in the rows.
LEMMA LastFinIs ==
    ASSUME NEW rs \in Seq(Run), NEW b \in Nat, \A i \in DOMAIN rs : rs[i].fin <= b
    PROVE LastFin(rs) \in Nat /\ LastFin(rs) <= b
<1> DEFINE T == {0} \cup {rs[j].fin : j \in DOMAIN rs}
<1>1. \A j \in DOMAIN rs : rs[j].fin \in Nat
  <2>1. \A j \in DOMAIN rs : rs[j] \in Run OBVIOUS
  <2> QED BY <2>1 DEF Run
<1>2. T \in SUBSET Nat /\ 0 \in T /\ \A y \in T : y <= b BY <1>1
<1>3. Max(T) \in T
  <2> HIDE DEF T
  <2> QED BY <1>2, MaxIs
<1> QED BY <1>2, <1>3 DEF LastFin

\* A ledger rewritten row by row is a ledger of the same length.
LEMMA Mapped ==
    ASSUME NEW rs \in Seq(Run), NEW rs2, DOMAIN rs2 = DOMAIN rs, rs2 = [i \in DOMAIN rs |-> rs2[i]],
           \A i \in DOMAIN rs : rs2[i] \in Run
    PROVE rs2 \in Seq(Run) /\ Len(rs2) = Len(rs)
<1>1. DOMAIN rs = 1..Len(rs) /\ Len(rs) \in Nat OBVIOUS
<1>2. rs2 \in [1..Len(rs) -> Run] BY <1>1
<1>3. rs2 \in Seq(Run) BY <1>1, <1>2, SeqDef
<1> QED BY <1>1, <1>3

\* recoverStaleRuns changes the status of a row at most, and only to failed.
LEMMA RecoveredIs ==
    ASSUME NEW rs \in Seq(Run)
    PROVE /\ Recovered(rs) \in Seq(Run) /\ Len(Recovered(rs)) = Len(rs)
          /\ \A i \in DOMAIN rs :
                /\ Recovered(rs)[i].fin = rs[i].fin
                /\ Recovered(rs)[i].age = rs[i].age
                /\ Recovered(rs)[i].status \in {rs[i].status, "failed"}
                /\ Recovered(rs)[i].status = "completed" <=> rs[i].status = "completed"
<1>1. \A i \in DOMAIN rs : rs[i] \in Run OBVIOUS
<1>2. DOMAIN Recovered(rs) = DOMAIN rs /\ Recovered(rs) = [i \in DOMAIN rs |-> Recovered(rs)[i]] BY DEF Recovered
<1>3. ASSUME NEW i \in DOMAIN rs
      PROVE /\ Recovered(rs)[i] \in Run
            /\ Recovered(rs)[i].fin = rs[i].fin
            /\ Recovered(rs)[i].age = rs[i].age
            /\ Recovered(rs)[i].status \in {rs[i].status, "failed"}
            /\ Recovered(rs)[i].status = "completed" <=> rs[i].status = "completed"
  BY <1>1 DEF Recovered, Run, RunStatus
<1> QED BY <1>2, <1>3, Mapped

\* pruneTerminalRuns deletes rows of its selection and changes no other.
LEMMA PrunedIs ==
    ASSUME NEW rs \in Seq(Run)
    PROVE /\ Pruned(rs) \in Seq(Run) /\ Len(Pruned(rs)) = Len(rs)
          /\ \A i \in DOMAIN rs :
                /\ Pruned(rs)[i].fin = rs[i].fin
                /\ Pruned(rs)[i].age = rs[i].age
                /\ Pruned(rs)[i].status = rs[i].status
                   \/ (Pruned(rs)[i].status = "deleted" /\ i \in Prunable(rs))
<1>1. \A i \in DOMAIN rs : rs[i] \in Run OBVIOUS
<1>2. DOMAIN Pruned(rs) = DOMAIN rs /\ Pruned(rs) = [i \in DOMAIN rs |-> Pruned(rs)[i]] BY DEF Pruned
<1>3. ASSUME NEW i \in DOMAIN rs
      PROVE /\ Pruned(rs)[i] \in Run
            /\ Pruned(rs)[i].fin = rs[i].fin
            /\ Pruned(rs)[i].age = rs[i].age
            /\ Pruned(rs)[i].status = rs[i].status
               \/ (Pruned(rs)[i].status = "deleted" /\ i \in Prunable(rs))
  <2>1. \/ Pruned(rs)[i] = rs[i]
        \/ i \in Prunable(rs) /\ Pruned(rs)[i] = [rs[i] EXCEPT !.status = "deleted"]
    BY DEF Pruned
  <2> QED BY <2>1, <1>1 DEF Run, RunStatus
<1> QED BY <1>2, <1>3, Mapped

\* The two rows that the health endpoint reports survive a sweep.
LEMMA PruneKeeps ==
    ASSUME NEW rs \in Seq(Run), Bounded(rs)
    PROVE /\ NewestEnded(Pruned(rs)) = NewestEnded(rs)
          /\ NewestSuccessful(Pruned(rs)) = NewestSuccessful(rs)
<1> DEFINE ps == Pruned(rs)
<1>1. DOMAIN rs = 1..Len(rs) /\ Len(rs) \in Nat /\ \A i \in DOMAIN rs : rs[i] \in Run OBVIOUS
<1>2. DOMAIN ps = DOMAIN rs BY DEF Pruned
<1>3. \A i \in DOMAIN rs : /\ ps[i].fin = rs[i].fin
                           /\ ps[i].status = rs[i].status
                              \/ (ps[i].status = "deleted" /\ i \in Prunable(rs))
  BY PrunedIs
<1> HIDE DEF ps
<1>4. Ended(ps) \subseteq Ended(rs) /\ Successful(ps) \subseteq Successful(rs)
  BY <1>2, <1>3 DEF Ended, Successful
<1>5. NewestEnded(rs) \subseteq Ended(ps)
  BY <1>2, <1>3 DEF Ended, NewestEnded, Prunable
<1>6. NewestSuccessful(rs) \subseteq Successful(ps)
  BY <1>2, <1>3 DEF Successful, NewestSuccessful, Prunable
<1>7. NewestEnded(ps) = NewestEnded(rs)
  <2>1. CASE Ended(rs) = {}
    BY <2>1, <1>4 DEF NewestEnded
  <2>2. CASE Ended(rs) # {}
    <3>1. Ended(rs) \in SUBSET Nat /\ \A y \in Ended(rs) : y <= Len(rs) BY <1>1 DEF Ended
    <3>2. PICK m \in Ended(rs) : \A j \in Ended(rs) : j <= m
      BY <2>2, <3>1, <1>1, GreatestNatural
    <3>3. m \in NewestEnded(rs) BY <3>2 DEF NewestEnded
    <3>4. m \in Ended(ps) BY <3>3, <1>5
    <3>5. ASSUME NEW i \in NewestEnded(ps) PROVE i \in NewestEnded(rs)
      BY <3>1, <3>2, <3>4, <1>4 DEF NewestEnded
    <3>6. ASSUME NEW i \in NewestEnded(rs) PROVE i \in NewestEnded(ps)
      BY <1>5, <1>4 DEF NewestEnded
    <3> QED BY <3>5, <3>6
  <2> QED BY <2>1, <2>2
<1>8. NewestSuccessful(ps) = NewestSuccessful(rs)
  <2>1. CASE Successful(rs) = {}
    BY <2>1, <1>4 DEF NewestSuccessful
  <2>2. CASE Successful(rs) # {}
    <3> DEFINE F == {rs[i].fin : i \in Successful(rs)}
    <3>0. \A i \in Successful(rs) : i \in DOMAIN rs /\ rs[i].fin \in Nat BY <1>1 DEF Successful, Run
    <3>1. PICK b \in Nat : \A i \in DOMAIN rs : rs[i].fin <= b BY DEF Bounded
    <3>2. F \in SUBSET Nat /\ F # {} /\ \A y \in F : y <= b BY <3>0, <3>1, <2>2
    <3>3. PICK f \in F : \A y \in F : y <= f
      <4> HIDE DEF F
      <4> QED BY <3>2, GreatestNatural
    <3>4. PICK m \in Successful(rs) : rs[m].fin = f BY <3>3
    <3>5. \A j \in Successful(rs) : rs[j].fin <= rs[m].fin BY <3>3, <3>4
    <3>6. m \in NewestSuccessful(rs) BY <3>5 DEF NewestSuccessful
    <3>7. m \in Successful(ps) BY <3>6, <1>6
    <3> HIDE DEF F
    <3>8. ASSUME NEW i \in NewestSuccessful(ps) PROVE i \in NewestSuccessful(rs)
      <4>1. i \in Successful(rs) /\ i \in Successful(ps) BY <1>4 DEF NewestSuccessful
      <4>2. ps[m].fin <= ps[i].fin BY <3>7 DEF NewestSuccessful
      <4>3. rs[m].fin <= rs[i].fin BY <4>1, <4>2, <1>3, <3>0
      <4> QED BY <4>1, <4>3, <3>5, <3>0 DEF NewestSuccessful
    <3>9. ASSUME NEW i \in NewestSuccessful(rs) PROVE i \in NewestSuccessful(ps)
      BY <1>6, <1>4, <1>3, <3>0 DEF NewestSuccessful
    <3> QED BY <3>8, <3>9
  <2> QED BY <2>1, <2>2
<1> QED BY <1>7, <1>8 DEF ps

\* Recovering stale runs leaves the newest successful run alone.
LEMMA RecoveryKeeps ==
    ASSUME NEW rs \in Seq(Run)
    PROVE NewestSuccessful(Recovered(rs)) = NewestSuccessful(rs)
<1>1. DOMAIN Recovered(rs) = DOMAIN rs BY DEF Recovered
<1>2. Successful(Recovered(rs)) = Successful(rs) BY <1>1, RecoveredIs DEF Successful
<1>3. \A i \in Successful(rs) : Recovered(rs)[i].fin = rs[i].fin BY RecoveredIs DEF Successful
<1> QED BY <1>2, <1>3 DEF NewestSuccessful

-----------------------------------------------------------------------------
\* The statuses of a run that worked, and the workers about to insert a row.
Clean == {"completed", "partial"}
Creating == {w \in Workers : spc[w] = "create"}

\* Room for every row that may still be inserted.
RoomLeft == Len(runs) + Cardinality(Creating) <= MaxRuns

\* A worker that scans has a row of its own that does not yet say it worked,
\* and only a worker in its run, or about to release, holds the lock.
WorkerFits(w) ==
    /\ runOf[w] <= Len(runs)
    /\ spc[w] \in {"select", "scan", "verify", "complete", "readback"} => runOf[w] # 0
    /\ spc[w] \in {"idle", "maintain", "recover", "acquire", "create"} => runOf[w] = 0 /\ verdict[w] = "running"
    /\ spc[w] \in {"select", "scan", "verify"} => runs[runOf[w]].status \notin Clean
    /\ spc[w] = "scan" => left[w] # 0
    /\ holder = w => InRun(w) \/ spc[w] = "release"

\* No two workers execute one row.
RowsOwned == \A w, o \in Workers : w # o /\ runOf[w] # 0 => runOf[w] # runOf[o]

\* A run that cannot end as one that worked: its worker, if it has one, no
\* longer owns the lock, and has not been told otherwise.
Doomed(r) ==
    /\ r \in DOMAIN runs /\ runs[r].status \notin Clean
    /\ \A w \in Workers : runOf[w] = r =>
          /\ holder # w
          /\ spc[w] \in {"complete", "readback"} => verdict[w] = "failed"

\* Of two runs that scanned at the same time one cannot end well.
OverlapsFit == \A p \in overlap : Doomed(p[1]) \/ Doomed(p[2])

\* The inductive invariant of the scanner's ledger.
ScanInv ==
    /\ ScannerTypeOK /\ RoomLeft /\ Bounded(runs) /\ RowsOwned /\ OverlapsFit
    /\ \A w \in Workers : WorkerFits(w)

\* The ledger starts empty, with nobody scanning.
LEMMA ScanInitInv == ScannerInit => ScanInv
<1> SUFFICES ASSUME ScannerInit PROVE ScanInv OBVIOUS
<1> USE ScannerAssumption
<1>1. runs = <<>> /\ Len(runs) = 0 /\ DOMAIN runs = {} /\ overlap = {} BY DEF ScannerInit
<1>2. ScannerTypeOK
  BY <1>1 DEF ScannerInit, ScannerTypeOK, RunStatus, Pcs, NoMetrics
<1>3. RoomLeft
  <2>1. Creating = {} BY DEF ScannerInit, Creating
  <2> QED BY <1>1, <2>1, FS_EmptySet DEF RoomLeft
<1>4. Bounded(runs) BY <1>1 DEF Bounded
<1>5. RowsOwned /\ OverlapsFit BY <1>1 DEF ScannerInit, RowsOwned, OverlapsFit
<1>6. \A w \in Workers : WorkerFits(w) BY <1>1 DEF ScannerInit, WorkerFits, InRun
<1> QED BY <1>2, <1>3, <1>4, <1>5, <1>6 DEF ScanInv

\* One worker moves; the rows and the lock of the others stand.
LEMMA WorkerMove ==
    ASSUME ScanInv, NEW w \in Workers,
           ScannerTypeOK', RoomLeft', Bounded(runs)', Len(runs) <= Len(runs'),
           \A i \in 1..Len(runs) : runs'[i].status \in Clean =>
              \/ runs[i].status \in Clean
              \/ i = runOf[w] /\ spc[w] = "complete" /\ verdict[w] # "failed",
           \A o \in Workers \ {w} : /\ spc'[o] = spc[o] /\ runOf'[o] = runOf[o]
                                    /\ left'[o] = left[o] /\ verdict'[o] = verdict[o],
           holder' # holder => holder' = NoWorker \/ (holder' = w /\ runOf[w] = 0),
           \/ runOf'[w] \in {0, runOf[w]}
           \/ runOf'[w] = Len(runs) + 1,
           spc'[w] \in {"complete", "readback"} /\ holder # w => 
              \/ verdict'[w] = "failed"
              \/ spc[w] \in {"complete", "readback"} /\ verdict'[w] = verdict[w],
           spc[w] = "complete" => runOf[w] # 0,
           WorkerFits(w)', overlap' = overlap
    PROVE ScanInv'
<1> USE ScannerAssumption
<1>1. /\ Len(runs) \in Nat /\ Len(runs') \in Nat
      /\ DOMAIN runs = 1..Len(runs) /\ DOMAIN runs' = 1..Len(runs')
      /\ \A o \in Workers : runOf[o] \in Nat /\ runOf'[o] \in Nat /\ runOf[o] <= Len(runs)
  <2>1. runs \in Seq(Run) /\ runs' \in Seq(Run) BY DEF ScanInv, ScannerTypeOK, Run
  <2>2. runOf \in [Workers -> 0..MaxRuns] /\ runOf' \in [Workers -> 0..MaxRuns] /\ MaxRuns \in Nat
    BY DEF ScanInv, ScannerTypeOK
  <2>3. \A o \in Workers : runOf[o] <= Len(runs) BY DEF ScanInv, WorkerFits
  <2> QED BY <2>1, <2>2, <2>3
<1>2. RowsOwned'
  <2> SUFFICES ASSUME NEW a \in Workers, NEW o \in Workers, a # o, runOf'[a] # 0
               PROVE runOf'[a] # runOf'[o]
    BY DEF RowsOwned
  <2>1. \A x, y \in Workers : x # y /\ runOf[x] # 0 => runOf[x] # runOf[y] BY DEF ScanInv, RowsOwned
  <2>2. CASE a = w BY <2>1, <2>2, <1>1
  <2>3. CASE o = w BY <2>1, <2>3, <1>1
  <2>4. CASE a # w /\ o # w BY <2>1, <2>4
  <2> QED BY <2>2, <2>3, <2>4
<1>3. ASSUME NEW o \in Workers PROVE WorkerFits(o)'
  <2>1. CASE o = w BY <2>1
  <2>2. CASE o # w
    <3>1. WorkerFits(o) BY DEF ScanInv
    <3>2. runOf[o] # 0 => runOf[o] # runOf[w] BY <2>2 DEF ScanInv, RowsOwned
    <3>3. holder' = o => holder = o BY <2>2
    <3>4. spc[o] \in {"select", "scan", "verify"} => runs'[runOf[o]].status \notin Clean
      BY <3>1, <3>2, <1>1 DEF WorkerFits
    <3> QED BY <2>2, <3>1, <3>3, <3>4, <1>1 DEF WorkerFits, InRun
  <2> QED BY <2>1, <2>2
<1>4. ASSUME NEW r, Doomed(r) PROVE Doomed(r)'
  <2>1. r \in DOMAIN runs /\ runs[r].status \notin Clean BY <1>4 DEF Doomed
  <2>2. r \in DOMAIN runs' BY <2>1, <1>1
  <2>3. r = runOf[w] /\ spc[w] = "complete" => verdict[w] = "failed" BY <1>4 DEF Doomed
  <2>4. runs'[r].status \notin Clean BY <2>1, <2>3, <1>1
  <2>5. ASSUME NEW o \in Workers, runOf'[o] = r
        PROVE holder' # o /\ (spc'[o] \in {"complete", "readback"} => verdict'[o] = "failed")
    <3>1. CASE o # w BY <3>1, <2>5, <1>4 DEF Doomed
    <3>2. CASE o = w
      <4>1. runOf[w] = r BY <3>2, <2>5, <2>1, <1>1
      <4> QED BY <4>1, <3>2, <1>4, <2>1, <1>1 DEF Doomed
    <3> QED BY <3>1, <3>2
  <2> QED BY <2>2, <2>4, <2>5 DEF Doomed
<1>5. OverlapsFit' BY <1>4 DEF ScanInv, OverlapsFit
<1> QED BY <1>2, <1>3, <1>5 DEF ScanInv

\* The types, one variable at a time.
LEMMA ScanTypes ==
    ASSUME ScanInv
    PROVE /\ runs \in Seq(Run) /\ Len(runs) \in Nat /\ Len(runs) <= MaxRuns /\ DOMAIN runs = 1..Len(runs)
          /\ \A i \in 1..Len(runs) : runs[i] \in Run
          /\ holder \in Workers \cup {NoWorker} /\ spc \in [Workers -> Pcs]
          /\ runOf \in [Workers -> 0..MaxRuns] /\ left \in [Workers -> 0..NStrategies]
          /\ lost \in [Workers -> BOOLEAN] /\ verdict \in [Workers -> RunStatus]
          /\ scan \in [Workers -> [fails : Nat, partial : BOOLEAN, found : BOOLEAN]]
          /\ tick \in 0..MaintenanceEvery - 1 /\ faults \in 0..MaxFaults
          /\ MaxRuns \in Nat /\ NStrategies \in Nat /\ MaxFaults \in Nat /\ MaintenanceEvery \in Nat \ {0}
          /\ overlap \subseteq (1..MaxRuns) \X (1..MaxRuns)
<1>1. ScannerTypeOK BY DEF ScanInv
<1>2. runs \in Seq(Run) BY <1>1 DEF ScannerTypeOK, Run
<1> QED BY <1>1, <1>2, ScannerAssumption, SMTT(30) DEF ScannerTypeOK

\* Leaving "create" frees the room that entering it took.
LEMMA Rooms ==
    ASSUME ScanInv, NEW w \in Workers, NEW place \in Pcs \ {"create"}, Go(w, place)
    PROVE /\ Cardinality(Creating) \in Nat /\ Cardinality(Creating') \in Nat
          /\ Cardinality(Creating') <= Cardinality(Creating)
          /\ spc[w] = "create" => Cardinality(Creating') = Cardinality(Creating) - 1
<1>1. spc \in [Workers -> Pcs] BY ScanTypes
<1>2. Creating' = Creating \ {w} BY <1>1 DEF Go, Creating
<1>3. IsFiniteSet(Creating) BY ScannerAssumption, FS_Subset DEF Creating
<1>4. Cardinality(Creating) \in Nat /\ IsFiniteSet(Creating') BY <1>2, <1>3, FS_CardinalityType, FS_Subset
<1>5. Cardinality(Creating') \in Nat BY <1>4, FS_CardinalityType
<1>6. CASE spc[w] = "create"
  <2>1. w \in Creating BY <1>6 DEF Creating
  <2>2. Cardinality(Creating') = Cardinality(Creating) - 1 BY <2>1, <1>2, <1>3, FS_RemoveElement
  <2> QED BY <2>2, <1>4, <1>5
<1>7. CASE spc[w] # "create"
  <2>1. Creating' = Creating BY <1>7, <1>2 DEF Creating
  <2> QED BY <2>1, <1>4, <1>7
<1> QED BY <1>6, <1>7

\* A worker goes on to a place where it does not insert; the rows stay.
LEMMA QuietMove ==
    ASSUME ScanInv, NEW w \in Workers, NEW place \in Pcs \ {"create"}, Go(w, place), ScannerTypeOK',
           UNCHANGED <<runs, overlap>>,
           \A o \in Workers \ {w} : /\ runOf'[o] = runOf[o]
                                    /\ left'[o] = left[o] /\ verdict'[o] = verdict[o],
           holder' = holder \/ holder' = NoWorker,
           runOf'[w] \in {0, runOf[w]},
           place \in {"complete", "readback"} /\ holder # w =>
              \/ verdict'[w] = "failed"
              \/ spc[w] \in {"complete", "readback"} /\ verdict'[w] = verdict[w],
           WorkerFits(w)'
    PROVE ScanInv'
<1>1. RoomLeft'
  BY ScanTypes, Rooms DEF ScanInv, RoomLeft
<1>2. Bounded(runs)' BY DEF ScanInv, Bounded
<1>3. spc'[w] = place /\ \A o \in Workers \ {w} : spc'[o] = spc[o] BY ScanTypes DEF Go
<1>4. spc[w] = "complete" => runOf[w] # 0 BY DEF ScanInv, WorkerFits
<1> QED BY <1>1, <1>2, <1>3, <1>4, ScanTypes, WorkerMove, SMTT(30)

\* The rows are rewritten without a run becoming one that worked.
LEMMA RowsMove ==
    ASSUME ScanInv, NEW rs \in Seq(Run), Len(rs) = Len(runs), runs' = rs, Bounded(rs),
           \A i \in 1..Len(runs) : rs[i].status \in Clean => runs[i].status \in Clean,
           UNCHANGED <<holder, runOf, left, lost, scan, verdict, faults, overlap>>, tick' = tick,
           NEW w \in Workers, NEW place \in Pcs, Go(w, place), place # "create",
           place = spc[w] \/ (spc[w] \in {"maintain", "recover"} /\ place \in {"idle", "recover", "acquire"})
    PROVE ScanInv'
<1>1. ScannerTypeOK' BY ScanTypes DEF ScannerTypeOK, Go, Run
<1>2. RoomLeft' BY ScanTypes, Rooms DEF ScanInv, RoomLeft
<1>3. spc'[w] = place /\ \A o \in Workers \ {w} : spc'[o] = spc[o] BY ScanTypes DEF Go
<1>4. spc[w] = "complete" => runOf[w] # 0 BY DEF ScanInv, WorkerFits
<1>5. WorkerFits(w)'
  <2>1. WorkerFits(w) BY DEF ScanInv
  <2>2. runOf[w] \in 0..Len(runs) BY <2>1, ScanTypes DEF WorkerFits
  <2> QED BY <2>1, <2>2, <1>3, ScanTypes DEF WorkerFits, InRun
<1>6. Bounded(runs)' BY DEF Bounded
<1>7. /\ Len(runs) <= Len(runs')
      /\ \A i \in 1..Len(runs) : runs'[i].status \in Clean =>
            \/ runs[i].status \in Clean
            \/ i = runOf[w] /\ spc[w] = "complete" /\ verdict[w] # "failed"
  BY ScanTypes
<1>8. /\ \A o \in Workers \ {w} : /\ spc'[o] = spc[o] /\ runOf'[o] = runOf[o]
                                  /\ left'[o] = left[o] /\ verdict'[o] = verdict[o]
      /\ runOf'[w] \in {0, runOf[w]} /\ holder' = holder
      /\ spc'[w] \in {"complete", "readback"} /\ holder # w =>
            \/ verdict'[w] = "failed"
            \/ spc[w] \in {"complete", "readback"} /\ verdict'[w] = verdict[w]
  BY <1>3
<1> QED BY <1>1, <1>2, <1>4, <1>5, <1>6, <1>7, <1>8, WorkerMove

\* Maintenance rewrites rows to failed or deleted, under no worker's feet that matters.
LEMMA MaintenanceInv == ASSUME ScanInv, NEW w \in Workers, runMaintenance(w) PROVE ScanInv'
<1> DEFINE rs == Recovered(runs)
<1>1. PICK b \in Nat : \A i \in DOMAIN runs : runs[i].fin <= b BY DEF ScanInv, Bounded
<1>2. /\ rs \in Seq(Run) /\ Len(rs) = Len(runs) /\ DOMAIN rs = DOMAIN runs
      /\ \A i \in DOMAIN runs : rs[i].fin = runs[i].fin /\ rs[i].status \in {runs[i].status, "failed"}
  <2>1. rs \in Seq(Run) /\ Len(rs) = Len(runs) BY ScanTypes, RecoveredIs
  <2> QED BY <2>1, ScanTypes, RecoveredIs, SMTT(30)
<1> HIDE DEF rs
<1>3. /\ Pruned(rs) \in Seq(Run) /\ Len(Pruned(rs)) = Len(runs)
      /\ \A i \in DOMAIN runs : /\ Pruned(rs)[i].fin = rs[i].fin
                                /\ Pruned(rs)[i].status \in {rs[i].status, "deleted"}
  BY <1>2, PrunedIs
<1>4. DOMAIN Pruned(rs) = DOMAIN runs BY <1>2, <1>3
<1>5. Bounded(Pruned(rs)) BY <1>1, <1>2, <1>3, <1>4 DEF Bounded
<1>6. runs' = Pruned(rs) BY DEF runMaintenance, rs
<1>7. \A i \in 1..Len(runs) : Pruned(rs)[i].status \in Clean => runs[i].status \in Clean
  BY <1>2, <1>3, ScanTypes DEF Clean
<1> QED BY <1>3, <1>5, <1>6, <1>7, RowsMove DEF runMaintenance, Pcs

\* The entry of a run recovers stale rows, as maintenance does.
LEMMA RecoveryInv == ASSUME ScanInv, NEW w \in Workers, runWorkerOnce(w) PROVE ScanInv'
<1> DEFINE rs == Recovered(runs)
<1>1. PICK b \in Nat : \A i \in DOMAIN runs : runs[i].fin <= b BY DEF ScanInv, Bounded
<1>2. /\ rs \in Seq(Run) /\ Len(rs) = Len(runs) /\ DOMAIN rs = DOMAIN runs
      /\ \A i \in DOMAIN runs : rs[i].fin = runs[i].fin /\ rs[i].status \in {runs[i].status, "failed"}
  <2>1. rs \in Seq(Run) /\ Len(rs) = Len(runs) BY ScanTypes, RecoveredIs
  <2> QED BY <2>1, ScanTypes, RecoveredIs, SMTT(30)
<1>6. runs' = rs BY DEF runWorkerOnce, rs
<1> HIDE DEF rs
<1>5. Bounded(rs) BY <1>1, <1>2 DEF Bounded
<1>7. \A i \in 1..Len(runs) : rs[i].status \in Clean => runs[i].status \in Clean
  BY <1>2, ScanTypes DEF Clean
<1>8. CASE Go(w, "idle") BY <1>8, <1>2, <1>5, <1>6, <1>7, RowsMove DEF runWorkerOnce, Pcs
<1>9. CASE Go(w, "acquire") BY <1>9, <1>2, <1>5, <1>6, <1>7, RowsMove DEF runWorkerOnce, Pcs
<1> QED BY <1>8, <1>9 DEF runWorkerOnce

\* Time passing makes a row older and nothing else.
LEMMA PassTimeInv == ASSUME ScanInv, NEW i \in 1..MaxRuns, passTime(i) PROVE ScanInv'
<1>1. PICK b \in Nat : \A j \in DOMAIN runs : runs[j].fin <= b BY DEF ScanInv, Bounded
<1>2. i \in 1..Len(runs) /\ runs[i].age < 2 /\ runs' = [runs EXCEPT ![i].age = runs[i].age + 1]
  BY ScanTypes DEF passTime
<1>3. /\ runs' \in Seq(Run) /\ Len(runs') = Len(runs)
      /\ \A j \in 1..Len(runs) : runs'[j].fin = runs[j].fin /\ runs'[j].status = runs[j].status
  <2> DEFINE r == [runs[i] EXCEPT !.age = runs[i].age + 1]
  <2>1. runs[i] \in Run BY <1>2, ScanTypes
  <2>2. r \in Run /\ r.fin = runs[i].fin /\ r.status = runs[i].status BY <2>1, <1>2 DEF Run
  <2>3. runs' = [runs EXCEPT ![i] = r] BY <1>2
  <2> HIDE DEF r
  <2>4. runs' \in Seq(Run) /\ Len(runs') = Len(runs) BY <2>2, <2>3, <1>2, ScanTypes
  <2>5. \A j \in 1..Len(runs) : runs'[j] = IF j = i THEN r ELSE runs[j] BY <2>3, ScanTypes
  <2> QED BY <2>2, <2>4, <2>5
<1>4. Bounded(runs)' /\ Bounded(runs')
  <2>1. DOMAIN runs' = DOMAIN runs BY <1>3, ScanTypes
  <2> QED BY <2>1, <1>1, <1>3, ScanTypes DEF Bounded
<1>5. Ticker \in Workers /\ Go(Ticker, spc[Ticker]) /\ spc[Ticker] \in Pcs
  BY ScannerAssumption, ScanTypes DEF passTime, Go
<1>6. CASE spc[Ticker] # "create" BY <1>3, <1>4, <1>5, <1>6, RowsMove DEF passTime
<1>7. CASE spc[Ticker] = "create"
  <2>1. ScannerTypeOK' BY ScanTypes, <1>3 DEF passTime, ScannerTypeOK, Run
  <2>2. RoomLeft' BY <1>3 DEF passTime, ScanInv, RoomLeft, Creating
  <2>3. WorkerFits(Ticker)' BY <1>3, <1>7, ScanTypes, ScannerAssumption DEF ScanInv, WorkerFits, passTime, InRun
  <2>4. UNCHANGED <<holder, spc, runOf, left, verdict, overlap>> BY DEF passTime
  <2>5. /\ Len(runs) <= Len(runs')
        /\ \A j \in 1..Len(runs) : runs'[j].status \in Clean => runs[j].status \in Clean
    BY <1>3, ScanTypes
  <2> QED BY <1>4, <1>5, <1>7, <2>1, <2>2, <2>3, <2>4, <2>5, WorkerMove
<1> QED BY <1>6, <1>7

\* A worker starts on its way, before it has a row.
LEMMA EntryPointInv ==
    ASSUME ScanInv, NEW w \in Workers, tickerRunOnce(w) \/ internalRunRoute(w) \/ triggerRoute(w)
    PROVE ScanInv'
<1>1. spc[w] = "idle" /\ \E place \in {"maintain", "recover", "acquire"} : Go(w, place)
  BY DEF tickerRunOnce, internalRunRoute, triggerRoute
<1>2. PICK place \in {"maintain", "recover", "acquire"} : Go(w, place) BY <1>1
<1>3. UNCHANGED <<runs, holder, runOf, left, lost, scan, verdict, faults, overlap>>
  BY DEF tickerRunOnce, internalRunRoute, triggerRoute
<1>4. tick' \in 0..MaintenanceEvery - 1
  BY ScanTypes, SMTT(30) DEF tickerRunOnce, internalRunRoute, triggerRoute
<1>5. ScannerTypeOK' BY <1>2, <1>3, <1>4, ScanTypes DEF ScannerTypeOK, Go, Pcs, Run
<1>6. WorkerFits(w)'
  <2>1. WorkerFits(w) BY DEF ScanInv
  <2> QED BY <2>1, <1>1, <1>2, <1>3, ScanTypes DEF WorkerFits, Go, InRun
<1> QED BY <1>2, <1>3, <1>5, <1>6, QuietMove DEF Pcs

\* Whoever takes the lock found it free; there is room for the row it will insert.
LEMMA AcquireInv == ASSUME ScanInv, NEW w \in Workers, acquireSessionAdvisoryLock(w) PROVE ScanInv'
<1>0. WorkerFits(w) /\ spc[w] = "acquire" BY DEF ScanInv, acquireSessionAdvisoryLock
<1>1. /\ UNCHANGED <<runs, runOf, left, scan, verdict, tick, overlap>>
      /\ lost' = [lost EXCEPT ![w] = FALSE]
  BY DEF acquireSessionAdvisoryLock
<1>2. CASE Go(w, "idle") /\ holder' = holder /\ faults' \in 0..MaxFaults
  <2>1. ScannerTypeOK' BY <1>1, <1>2, ScanTypes DEF ScannerTypeOK, Go, Pcs, Run
  <2>2. WorkerFits(w)' BY <1>0, <1>1, <1>2, ScanTypes DEF WorkerFits, Go, InRun
  <2> QED BY <1>1, <1>2, <2>1, <2>2, QuietMove DEF Pcs
<1>3. CASE holder = NoWorker /\ ~AtBound /\ holder' = w /\ Go(w, "create") /\ faults' = faults
  <2>1. ScannerTypeOK' BY <1>1, <1>3, ScanTypes DEF ScannerTypeOK, Go, Pcs, Run
  <2>2. WorkerFits(w)' BY <1>0, <1>1, <1>3, ScanTypes DEF WorkerFits, Go, InRun
  <2>3. RoomLeft'
    <3>1. Creating' = Creating \cup {w} /\ w \notin Creating BY <1>0, <1>3, ScanTypes DEF Go, Creating
    <3>2. IsFiniteSet(Creating) BY ScannerAssumption, FS_Subset DEF Creating
    <3>3. Cardinality(Creating) \in Nat /\ Cardinality(Creating') = Cardinality(Creating) + 1
      BY <3>1, <3>2, FS_AddElement, FS_CardinalityType
    <3>4. ~(Len(runs) + Cardinality(Creating) >= MaxRuns) BY <1>3 DEF AtBound, Creating
    <3> QED BY <3>3, <3>4, <1>1, ScanTypes DEF RoomLeft
  <2>4. Bounded(runs)' BY <1>1 DEF ScanInv, Bounded
  <2>5. spc'[w] = "create" /\ \A o \in Workers \ {w} : spc'[o] = spc[o] BY <1>3, ScanTypes DEF Go
  <2>6. runOf[w] = 0 BY <1>0 DEF WorkerFits
  <2>7. Len(runs) <= Len(runs') /\ \A i \in 1..Len(runs) : runs'[i] = runs[i] BY <1>1, ScanTypes
  <2>8. /\ \A o \in Workers \ {w} : /\ spc'[o] = spc[o] /\ runOf'[o] = runOf[o]
                                    /\ left'[o] = left[o] /\ verdict'[o] = verdict[o]
        /\ runOf'[w] = runOf[w] /\ holder' = w /\ overlap' = overlap
    BY <1>1, <1>3, <2>5
  <2> QED BY <1>0, <2>1, <2>2, <2>3, <2>4, <2>5, <2>6, <2>7, <2>8, WorkerMove
<1> QED BY <1>2, <1>3, ScanTypes DEF acquireSessionAdvisoryLock

\* A worker that releases the lock, or dies, leaves its run behind.
LEMMA ReleaseInv == ASSUME ScanInv, NEW w \in Workers, releaseLock(w) \/ crash(w) PROVE ScanInv'
<1>1. /\ Forget(w) /\ UNCHANGED <<runs, tick, overlap>>
      /\ holder' = (IF holder = w THEN NoWorker ELSE holder) /\ faults' \in 0..MaxFaults
  BY ScanTypes DEF releaseLock, crash, Owned
<1>2. ScannerTypeOK'
  <2>1. "idle" \in Pcs /\ "running" \in RunStatus /\ NoMetrics \in [fails : Nat, partial : BOOLEAN, found : BOOLEAN]
    BY DEF Pcs, RunStatus, NoMetrics
  <2>2. /\ spc' \in [Workers -> Pcs] /\ runOf' \in [Workers -> 0..MaxRuns] /\ left' \in [Workers -> 0..NStrategies]
        /\ lost' \in [Workers -> BOOLEAN] /\ verdict' \in [Workers -> RunStatus]
        /\ scan' \in [Workers -> [fails : Nat, partial : BOOLEAN, found : BOOLEAN]]
    BY <2>1, <1>1, ScanTypes, SMTT(30) DEF Forget, Go
  <2> QED BY <2>2, <1>1, ScanTypes DEF ScannerTypeOK, Run
<1>3. WorkerFits(w)'
  BY <1>1, ScanTypes, ScannerAssumption DEF WorkerFits, Forget, Go, InRun
<1> QED BY <1>1, <1>2, <1>3, ScanTypes, QuietMove DEF Forget, Pcs

\* A lost session takes its lock along; the heartbeat only notices.
LEMMA HeartbeatInv == ASSUME ScanInv, NEW w \in Workers, heartbeat(w) \/ killSession(w) PROVE ScanInv'
<1>1. /\ UNCHANGED <<runs, spc, runOf, left, scan, verdict, tick, overlap>>
      /\ holder' = holder \/ holder' = NoWorker
      /\ lost' \in [Workers -> BOOLEAN] /\ faults' \in 0..MaxFaults
  <2>1. CASE heartbeat(w) BY <2>1, ScanTypes DEF heartbeat
  <2>2. CASE killSession(w) BY <2>2, ScanTypes, SMTT(30) DEF killSession
  <2> QED BY <2>1, <2>2
<1>2. ScannerTypeOK' BY <1>1, ScanTypes DEF ScannerTypeOK, Run
<1>3. RoomLeft' /\ Bounded(runs)' BY <1>1 DEF ScanInv, RoomLeft, Creating, Bounded
<1>4. WorkerFits(w)' BY <1>1, ScannerAssumption DEF ScanInv, WorkerFits, InRun
<1>5. spc[w] = "complete" => runOf[w] # 0 BY DEF ScanInv, WorkerFits
<1> QED BY <1>1, <1>2, <1>3, <1>4, <1>5, ScanTypes, WorkerMove, SMTT(30)

\* The row inserted belongs to its worker alone.
LEMMA CreateInv == ASSUME ScanInv, NEW w \in Workers, createRun(w) PROVE ScanInv'
<1>0. WorkerFits(w) /\ spc[w] = "create" /\ UNCHANGED <<holder, left, lost, verdict, tick, faults, overlap>>
  BY DEF ScanInv, createRun
<1>1. CASE Go(w, "release") /\ UNCHANGED <<runs, runOf, scan>>
  <2>1. ScannerTypeOK' BY <1>0, <1>1, ScanTypes DEF ScannerTypeOK, Go, Pcs, Run
  <2>2. WorkerFits(w)' BY <1>0, <1>1, ScanTypes DEF WorkerFits, Go, InRun
  <2> QED BY <1>0, <1>1, <2>1, <2>2, QuietMove DEF Pcs
<1>2. CASE /\ runs' = Append(runs, [status |-> "running", age |-> 0, fin |-> 0])
           /\ runOf' = [runOf EXCEPT ![w] = Len(runs')]
           /\ scan' = [scan EXCEPT ![w] = NoMetrics]
           /\ Go(w, "select")
  <2> DEFINE r == [status |-> "running", age |-> 0, fin |-> 0]
  <2>1. r \in Run /\ r.status = "running" /\ r.fin = 0 BY DEF Run, RunStatus
  <2>2. runs' = Append(runs, r) BY <1>2
  <2> HIDE DEF r
  <2>3. /\ runs' \in Seq(Run) /\ Len(runs') = Len(runs) + 1 /\ runs'[Len(runs) + 1] = r
        /\ \A i \in 1..Len(runs) : runs'[i] = runs[i]
    BY <2>1, <2>2, ScanTypes
  <2>4. Len(runs') <= MaxRuns /\ RoomLeft'
    <3>1. "select" \in Pcs \ {"create"} BY DEF Pcs
    <3>2. /\ Cardinality(Creating) \in Nat /\ Cardinality(Creating') = Cardinality(Creating) - 1
          /\ Cardinality(Creating') \in Nat
      BY <1>0, <1>2, <3>1, Rooms
    <3>3. Len(runs) + Cardinality(Creating) <= MaxRuns BY DEF ScanInv, RoomLeft
    <3>4. Len(runs) \in Nat /\ MaxRuns \in Nat /\ Len(runs') = Len(runs) + 1 BY <2>3, ScanTypes
    <3>5. Len(runs') <= MaxRuns /\ Len(runs') + Cardinality(Creating') <= MaxRuns BY <3>2, <3>3, <3>4
    <3> QED BY <3>5 DEF RoomLeft
  <2>5. ScannerTypeOK'
    <3>1. Len(runs') \in 0..MaxRuns BY <2>3, <2>4, ScanTypes
    <3>2. "select" \in Pcs /\ NoMetrics \in [fails : Nat, partial : BOOLEAN, found : BOOLEAN] BY DEF Pcs, NoMetrics
    <3>3. /\ runOf' \in [Workers -> 0..MaxRuns] /\ spc' \in [Workers -> Pcs]
          /\ scan' \in [Workers -> [fails : Nat, partial : BOOLEAN, found : BOOLEAN]]
      BY <1>2, <3>1, <3>2, ScanTypes DEF Go
    <3>4. runs' \in Seq([status : RunStatus, age : 0..2, fin : Nat]) BY <2>3 DEF Run
    <3> QED BY <1>0, <2>4, <3>3, <3>4, ScanTypes DEF ScannerTypeOK
  <2>6. Bounded(runs)'
    <3>1. PICK b \in Nat : \A i \in DOMAIN runs : runs[i].fin <= b BY DEF ScanInv, Bounded
    <3>2. \A i \in 1..Len(runs) : runs'[i].fin <= b BY <3>1, <2>3, ScanTypes
    <3>3. runs'[Len(runs) + 1].fin <= b BY <3>1, <2>1, <2>3
    <3>4. DOMAIN runs' = 1..(Len(runs) + 1) BY <2>3, ScanTypes
    <3>5. \A i \in DOMAIN runs' : i \in 1..Len(runs) \/ i = Len(runs) + 1 BY <3>4, ScanTypes
    <3> QED BY <3>1, <3>2, <3>3, <3>5 DEF Bounded
  <2>7. runOf'[w] = Len(runs) + 1 /\ spc'[w] = "select" BY <1>2, <2>3, ScanTypes DEF Go
  <2>8. \A o \in Workers \ {w} : spc'[o] = spc[o] /\ runOf'[o] = runOf[o] BY <1>2, ScanTypes DEF Go
  <2>9. WorkerFits(w)'
    BY <1>0, <2>1, <2>3, <2>7, ScanTypes DEF WorkerFits, InRun, Clean
  <2>10. Len(runs) <= Len(runs') BY <2>3, ScanTypes
  <2> QED BY <1>0, <2>3, <2>4, <2>5, <2>6, <2>7, <2>8, <2>9, <2>10, WorkerMove
<1> QED BY <1>1, <1>2 DEF createRun

\* A worker gives up: it will write failed.
LEMMA AbortInv ==
    ASSUME ScanInv, NEW w \in Workers, spc[w] \in {"select", "scan", "readback"}, Abort(w),
           UNCHANGED <<runs, holder, runOf, left, lost, scan, tick, overlap>>, faults' \in 0..MaxFaults
    PROVE ScanInv'
<1>1. ScannerTypeOK' BY ScanTypes DEF ScannerTypeOK, Abort, Go, Pcs, Run, RunStatus
<1>2. WorkerFits(w) BY DEF ScanInv
<1>3. WorkerFits(w)' BY <1>2, ScanTypes DEF WorkerFits, Abort, Go, InRun
<1>4. verdict'[w] = "failed" /\ \A o \in Workers \ {w} : verdict'[o] = verdict[o] BY ScanTypes DEF Abort, RunStatus
<1> QED BY <1>1, <1>3, <1>4, QuietMove DEF Abort, Pcs

\* One strategy is scanned, or the scan is given up.
LEMMA ScanStrategyInv == ASSUME ScanInv, NEW w \in Workers, scanStrategy(w) PROVE ScanInv'
<1>0. /\ WorkerFits(w) /\ spc[w] = "scan" /\ UNCHANGED <<runs, holder, runOf, lost, tick, faults, overlap>>
  BY DEF ScanInv, scanStrategy, Scanning
<1>1. CASE Abort(w) /\ UNCHANGED <<left, scan>> BY <1>0, <1>1, ScanTypes, AbortInv
<1>2. CASE /\ left' = [left EXCEPT ![w] = @ - 1]
           /\ \/ \E found \in BOOLEAN : scan' = [scan EXCEPT ![w].found = @ \/ found]
              \/ scan' = [scan EXCEPT ![w].fails = @ + 1]
              \/ scan' = [scan EXCEPT ![w].fails = @ + 1, ![w].partial = TRUE]
           /\ Go(w, IF left'[w] = 0 THEN "verify" ELSE "scan")
           /\ UNCHANGED verdict
  <2>1. left[w] \in 1..NStrategies /\ left'[w] = left[w] - 1 /\ \A o \in Workers \ {w} : left'[o] = left[o]
    BY <1>0, <1>2, ScanTypes DEF WorkerFits
  <2>2. left' \in [Workers -> 0..NStrategies] BY <2>1, <1>2, ScanTypes
  <2>3. scan' \in [Workers -> [fails : Nat, partial : BOOLEAN, found : BOOLEAN]]
    <3>1. scan[w] \in [fails : Nat, partial : BOOLEAN, found : BOOLEAN] BY ScanTypes
    <3>2. CASE \E found \in BOOLEAN : scan' = [scan EXCEPT ![w].found = @ \/ found]
      <4>1. PICK found \in BOOLEAN : scan' = [scan EXCEPT ![w].found = @ \/ found] BY <3>2
      <4>2. (scan[w].found \/ found) \in BOOLEAN BY <3>1
      <4>3. [scan[w] EXCEPT !.found = scan[w].found \/ found] \in [fails : Nat, partial : BOOLEAN, found : BOOLEAN]
        BY <3>1, <4>2
      <4>4. scan' = [scan EXCEPT ![w] = [scan[w] EXCEPT !.found = scan[w].found \/ found]] BY <4>1
      <4> QED BY <4>3, <4>4, ScanTypes
    <3>3. CASE scan' = [scan EXCEPT ![w].fails = @ + 1]
      <4>1. [scan[w] EXCEPT !.fails = scan[w].fails + 1] \in [fails : Nat, partial : BOOLEAN, found : BOOLEAN]
        BY <3>1
      <4>2. scan' = [scan EXCEPT ![w] = [scan[w] EXCEPT !.fails = scan[w].fails + 1]] BY <3>3
      <4> QED BY <4>1, <4>2, ScanTypes
    <3>4. CASE scan' = [scan EXCEPT ![w].fails = @ + 1, ![w].partial = TRUE]
      <4> DEFINE more == [scan EXCEPT ![w].fails = @ + 1]
      <4>1. [scan[w] EXCEPT !.fails = scan[w].fails + 1] \in [fails : Nat, partial : BOOLEAN, found : BOOLEAN]
        BY <3>1
      <4>2. more = [scan EXCEPT ![w] = [scan[w] EXCEPT !.fails = scan[w].fails + 1]] OBVIOUS
      <4>3. more \in [Workers -> [fails : Nat, partial : BOOLEAN, found : BOOLEAN]]
        BY <4>1, <4>2, ScanTypes
      <4>4. scan' = [more EXCEPT ![w].partial = TRUE] BY <3>4
      <4> HIDE DEF more
      <4>5. [more[w] EXCEPT !.partial = TRUE] \in [fails : Nat, partial : BOOLEAN, found : BOOLEAN] BY <4>3
      <4>6. scan' = [more EXCEPT ![w] = [more[w] EXCEPT !.partial = TRUE]] BY <4>4
      <4> QED BY <4>3, <4>5, <4>6
    <3> QED BY <1>2, <3>2, <3>3, <3>4
  <2>4. PICK place \in {"verify", "scan"} : Go(w, place) /\ (place = "scan" => left'[w] # 0) BY <1>2
  <2>5. ScannerTypeOK' BY <1>0, <1>2, <2>2, <2>3, <2>4, ScanTypes DEF ScannerTypeOK, Go, Pcs, Run
  <2>6. WorkerFits(w)' BY <1>0, <1>2, <2>4, ScanTypes DEF WorkerFits, Go, InRun
  <2> QED BY <1>0, <1>2, <2>1, <2>4, <2>5, <2>6, QuietMove DEF Pcs
<1> QED BY <1>1, <1>2 DEF scanStrategy

\* A worker goes on to a clean verdict only if it owns the lock now.
LEMMA VerifyInv == ASSUME ScanInv, NEW w \in Workers, assertLockOwnership(w) PROVE ScanInv'
<1>0. /\ WorkerFits(w) /\ spc[w] = "verify" /\ Go(w, "complete")
      /\ UNCHANGED <<runs, holder, runOf, left, scan, tick, faults, overlap>>
  BY DEF ScanInv, assertLockOwnership
<1>1. /\ verdict' \in [Workers -> RunStatus] /\ lost' \in [Workers -> BOOLEAN]
      /\ \A o \in Workers \ {w} : verdict'[o] = verdict[o]
      /\ holder # w => verdict'[w] = "failed"
  BY ScanTypes DEF assertLockOwnership, VerifyPasses, Owned, FinalStatus, RunStatus
<1>2. ScannerTypeOK' BY <1>0, <1>1, ScanTypes DEF ScannerTypeOK, Go, Pcs, Run
<1>3. WorkerFits(w)' BY <1>0, ScanTypes DEF WorkerFits, Go, InRun
<1> QED BY <1>0, <1>1, <1>2, <1>3, QuietMove DEF Pcs

\* The terminal status is written: of two overlapping runs only the owner's may be clean.
LEMMA CompleteInv == ASSUME ScanInv, NEW w \in Workers, completeRun(w) PROVE ScanInv'
<1>0. /\ WorkerFits(w) /\ spc[w] = "complete" /\ Go(w, "readback") /\ runs' = Completed(runs, runOf[w], verdict[w])
      /\ UNCHANGED <<holder, runOf, left, lost, scan, verdict, tick, faults, overlap>>
  BY DEF ScanInv, completeRun
<1>1. runOf[w] \in 1..Len(runs) BY <1>0, ScanTypes DEF WorkerFits
<1>2. PICK b \in Nat : \A i \in DOMAIN runs : runs[i].fin <= b BY DEF ScanInv, Bounded
<1>3. LastFin(runs) \in Nat /\ LastFin(runs) <= b BY <1>2, ScanTypes, LastFinIs
<1>4. PICK r \in Run : /\ r.fin <= b + 1 /\ r.status \in {verdict[w], "deleted"}
                       /\ runs' = [runs EXCEPT ![runOf[w]] = r]
  <2> DEFINE old == runs[runOf[w]]
             new == [old EXCEPT !.status = verdict[w],
                                !.fin = IF verdict[w] = "completed" THEN 1 + LastFin(runs) ELSE 0]
             r == IF old.status = "deleted" THEN old ELSE new
  <2>1. old \in Run /\ verdict[w] \in RunStatus /\ old.fin <= b BY <1>1, <1>2, ScanTypes
  <2>2. new \in Run /\ new.status = verdict[w] /\ new.fin <= b + 1
    <3> DEFINE f == IF verdict[w] = "completed" THEN 1 + LastFin(runs) ELSE 0
    <3>1. f \in Nat /\ f <= b + 1 BY <1>3
    <3> HIDE DEF f
    <3>2. [old EXCEPT !.status = verdict[w], !.fin = f] \in Run BY <2>1, <3>1 DEF Run
    <3>3. [old EXCEPT !.status = verdict[w], !.fin = f].fin = f
          /\ [old EXCEPT !.status = verdict[w], !.fin = f].status = verdict[w]
      BY <2>1 DEF Run
    <3> QED BY <3>1, <3>2, <3>3 DEF f
  <2>3. old.fin <= b + 1 BY <2>1 DEF Run
  <2>4. runs' = [runs EXCEPT ![runOf[w]] = r] BY <1>0, <1>1, ScanTypes DEF Completed
  <2> QED BY <2>1, <2>2, <2>3, <2>4
<1>5. /\ runs' \in Seq(Run) /\ Len(runs') = Len(runs)
      /\ \A i \in 1..Len(runs) : runs'[i] = IF i = runOf[w] THEN r ELSE runs[i]
  BY <1>1, <1>4, ScanTypes
<1>6. ScannerTypeOK' BY <1>0, <1>5, ScanTypes DEF ScannerTypeOK, Go, Pcs, Run
<1>7. RoomLeft' BY <1>0, <1>5, ScanTypes, Rooms DEF ScanInv, RoomLeft, Pcs
<1>8. Bounded(runs)'
  <2>1. \A i \in 1..Len(runs) : runs'[i].fin <= b + 1
    <3> TAKE i \in 1..Len(runs)
    <3>1. runs[i].fin \in Nat /\ runs[i].fin <= b BY <1>2, ScanTypes DEF Run
    <3> QED BY <3>1, <1>4, <1>5
  <2>2. DOMAIN runs' = 1..Len(runs) /\ b + 1 \in Nat BY <1>5, ScanTypes
  <2> QED BY <2>1, <2>2 DEF Bounded
<1>9. WorkerFits(w)' BY <1>0, <1>5, ScanTypes DEF WorkerFits, Go, InRun
<1>10. \A i \in 1..Len(runs) : runs'[i].status \in Clean =>
          \/ runs[i].status \in Clean
          \/ i = runOf[w] /\ spc[w] = "complete" /\ verdict[w] # "failed"
  BY <1>0, <1>4, <1>5 DEF Clean
<1>11. spc'[w] = "readback" /\ \A o \in Workers \ {w} : spc'[o] = spc[o] BY <1>0, ScanTypes DEF Go
<1>12. Len(runs) <= Len(runs') /\ runOf[w] # 0 BY <1>1, <1>5, ScanTypes
<1> QED BY <1>0, <1>6, <1>7, <1>8, <1>9, <1>10, <1>11, <1>12, WorkerMove

\* Reading the run back changes nothing.
LEMMA ReadbackInv == ASSUME ScanInv, NEW w \in Workers, getRun(w) PROVE ScanInv'
<1>0. WorkerFits(w) /\ spc[w] = "readback" /\ UNCHANGED <<runs, holder, runOf, left, lost, scan, tick, overlap>>
  BY DEF ScanInv, getRun
<1>1. CASE Go(w, "release") /\ UNCHANGED <<verdict, faults>>
  <2>1. ScannerTypeOK' BY <1>0, <1>1, ScanTypes DEF ScannerTypeOK, Go, Pcs, Run
  <2>2. WorkerFits(w)' BY <1>0, <1>1, ScanTypes DEF WorkerFits, Go, InRun
  <2> QED BY <1>0, <1>1, <2>1, <2>2, QuietMove DEF Pcs
<1>2. CASE Abort(w) /\ faults' = (IF faults < MaxFaults THEN faults + 1 ELSE faults)
  <2>1. faults' \in 0..MaxFaults BY <1>2, ScanTypes
  <2> QED BY <1>0, <1>2, <2>1, AbortInv
<1> QED BY <1>1, <1>2 DEF getRun

\* A worker that is no longer alone makes a pair; of two that scan, one at
\* least does not own the lock, and cannot own it again before it has ended.
LEMMA SelectInv == ASSUME ScanInv, NEW w \in Workers, getEligibleStrategies(w) PROVE ScanInv'
<1>0. /\ WorkerFits(w) /\ spc[w] = "select" /\ UNCHANGED <<runs, holder, runOf, lost, scan, tick, faults>>
  BY DEF ScanInv, getEligibleStrategies
<1>1. CASE Abort(w) /\ UNCHANGED <<left, overlap>> BY <1>0, <1>1, ScanTypes, AbortInv
<1>2. CASE \E n \in {0, NStrategies} :
              /\ left' = [left EXCEPT ![w] = n]
              /\ Go(w, IF n = 0 THEN "verify" ELSE "scan")
              /\ overlap' = IF n = 0 THEN overlap ELSE overlap \cup NowOverlapping(w)
              /\ UNCHANGED verdict
  <2>1. PICK n \in {0, NStrategies} :
              /\ left' = [left EXCEPT ![w] = n]
              /\ Go(w, IF n = 0 THEN "verify" ELSE "scan")
              /\ overlap' = IF n = 0 THEN overlap ELSE overlap \cup NowOverlapping(w)
              /\ UNCHANGED verdict
    BY <1>2
  <2>2. PICK place \in {"verify", "scan"} : Go(w, place) /\ (place = "scan" => n # 0) BY <2>1
  <2>3. n \in 0..NStrategies /\ runOf[w] \in 1..Len(runs) BY <1>0, ScanTypes, SMTT(30) DEF WorkerFits
  <2>4. NowOverlapping(w) \subseteq (1..MaxRuns) \X (1..MaxRuns)
    <3>1. \A o \in Workers : spc[o] = "scan" => runOf[o] \in 1..MaxRuns
      BY ScanTypes, SMTT(30) DEF ScanInv, WorkerFits
    <3> QED BY <2>3, <3>1, ScanTypes DEF NowOverlapping
  <2>5. ScannerTypeOK' BY <1>0, <2>1, <2>2, <2>3, <2>4, ScanTypes DEF ScannerTypeOK, Go, Pcs, Run
  <2>6. left'[w] = n /\ spc'[w] = place /\ \A o \in Workers \ {w} : left'[o] = left[o] /\ spc'[o] = spc[o]
    BY <2>1, <2>2, ScanTypes DEF Go
  <2>7. WorkerFits(w)' BY <1>0, <2>2, <2>6 DEF WorkerFits, InRun
  <2>8. RoomLeft'
    <3>1. place \in Pcs \ {"create"} BY DEF Pcs
    <3> QED BY <1>0, <2>2, <3>1, ScanTypes, Rooms DEF ScanInv, RoomLeft
  <2>9. Bounded(runs)' /\ RowsOwned' BY <1>0 DEF ScanInv, Bounded, RowsOwned
  <2>10. ASSUME NEW o \in Workers PROVE WorkerFits(o)'
    <3>1. CASE o = w BY <2>7, <3>1
    <3>2. CASE o # w BY <1>0, <2>1, <2>6, <3>2 DEF ScanInv, WorkerFits, InRun
    <3> QED BY <3>1, <3>2
  <2>11. ASSUME NEW r, Doomed(r) PROVE Doomed(r)'
    BY <1>0, <2>1, <2>2, <2>6, <2>11 DEF Doomed
  <2>12. ASSUME NEW o \in Workers \ {w}, spc[o] = "scan"
         PROVE Doomed(runOf[w])' \/ Doomed(runOf[o])'
    <3>1. runOf[o] \in 1..Len(runs) /\ runs[runOf[o]].status \notin Clean
      BY <2>12, ScanTypes, SMTT(30) DEF ScanInv, WorkerFits
    <3>2. runs[runOf[w]].status \notin Clean BY <1>0 DEF WorkerFits
    <3>3. \A x \in Workers : (runOf[x] = runOf[o] => x = o) /\ (runOf[x] = runOf[w] => x = w)
      BY <2>3, <3>1 DEF ScanInv, RowsOwned
    <3>4. CASE holder # o
      <4>1. DOMAIN runs' = 1..Len(runs) BY <1>0, ScanTypes
      <4> QED BY <1>0, <3>1, <3>3, <3>4, <4>1, <2>6, <2>12 DEF Doomed
    <3>5. CASE holder # w
      <4>1. DOMAIN runs' = 1..Len(runs) BY <1>0, ScanTypes
      <4> QED BY <1>0, <2>3, <3>2, <3>3, <3>5, <4>1, <2>6 DEF Doomed
    <3> QED BY <3>4, <3>5
  <2>13. ASSUME NEW p \in overlap' PROVE Doomed(p[1])' \/ Doomed(p[2])'
    <3>1. CASE p \in overlap BY <3>1, <2>11 DEF ScanInv, OverlapsFit
    <3>2. CASE p \in NowOverlapping(w)
      <4>1. PICK o \in Workers \ {w} : spc[o] = "scan" /\ p = <<runOf[w], runOf[o]>>
        BY <3>2 DEF NowOverlapping
      <4>2. p[1] = runOf[w] /\ p[2] = runOf[o] BY <4>1
      <4>3. Doomed(runOf[w])' \/ Doomed(runOf[o])' BY <2>12, <4>1
      <4>4. runOf' = runOf BY <1>0
      <4> QED BY <4>2, <4>3, <4>4 DEF Doomed
    <3> QED BY <2>1, <3>1, <3>2
  <2>14. OverlapsFit' BY <2>13 DEF OverlapsFit
  <2> QED BY <2>5, <2>8, <2>9, <2>10, <2>14 DEF ScanInv
<1> QED BY <1>1, <1>2 DEF getEligibleStrategies

\* Every step of the scanner keeps the invariant.
LEMMA ScanNextInv == ASSUME ScanInv, [ScannerNext]_scannerVars PROVE ScanInv'
<1>1. CASE UNCHANGED scannerVars
  <2>1. UNCHANGED <<runs, holder, spc, runOf, left, lost, scan, verdict, tick, faults, overlap>>
    BY <1>1 DEF scannerVars
  <2>2. ScannerTypeOK' = ScannerTypeOK BY <2>1 DEF ScannerTypeOK
  <2>3. RoomLeft' /\ Bounded(runs)' /\ RowsOwned' BY <2>1 DEF ScanInv, RoomLeft, Creating, Bounded, RowsOwned
  <2>4. OverlapsFit' BY <2>1 DEF ScanInv, OverlapsFit, Doomed
  <2>5. \A w \in Workers : WorkerFits(w)' BY <2>1 DEF ScanInv, WorkerFits, InRun
  <2> QED BY <2>2, <2>3, <2>4, <2>5 DEF ScanInv
<1>2. CASE \E i \in 1..MaxRuns : passTime(i) BY <1>2, PassTimeInv
<1>3. ASSUME NEW w \in Workers,
             \/ tickerRunOnce(w) \/ internalRunRoute(w) \/ triggerRoute(w) \/ WorkerStep(w)
             \/ heartbeat(w) \/ killSession(w) \/ crash(w)
      PROVE ScanInv'
  BY <1>3, EntryPointInv, MaintenanceInv, RecoveryInv, AcquireInv, CreateInv, SelectInv, ScanStrategyInv,
     VerifyInv, CompleteInv, ReadbackInv, ReleaseInv, HeartbeatInv
     DEF WorkerStep
<1> QED BY <1>1, <1>2, <1>3 DEF ScannerNext

\* The invariant says what is promised of the ledger.
LEMMA ScanInvMeans == ScanInv => ScannerTypeOK /\ OverlappingRunsNotBothClean
<1> SUFFICES ASSUME ScanInv, NEW p \in overlap
             PROVE ~(runs[p[1]].status \in Clean /\ runs[p[2]].status \in Clean)
  BY DEF OverlappingRunsNotBothClean, ScanInv, Clean
<1> QED BY DEF ScanInv, OverlapsFit, Doomed

\* A sweep keeps the newest ended run as recovered and the newest successful one.
LEMMA SweepKeeps ==
    ASSUME ScanInv, NEW w \in Workers, runMaintenance(w)
    PROVE /\ NewestEnded(runs') = NewestEnded(Recovered(runs))
          /\ NewestSuccessful(runs') = NewestSuccessful(runs)
<1>1. runs \in Seq(Run) BY ScanTypes
<1>2. PICK b \in Nat : \A i \in DOMAIN runs : runs[i].fin <= b BY DEF ScanInv, Bounded
<1>3. Recovered(runs) \in Seq(Run) BY <1>1, RecoveredIs
<1>4. Bounded(Recovered(runs))
  <2>1. DOMAIN Recovered(runs) = DOMAIN runs BY DEF Recovered
  <2> QED BY <1>1, <1>2, <2>1, RecoveredIs DEF Bounded
<1>5. runs' = Pruned(Recovered(runs)) BY DEF runMaintenance
<1> QED BY <1>1, <1>3, <1>4, <1>5, PruneKeeps, RecoveryKeeps

\* The ledger of runs and its advisory lock, for any workers, strategies and
\* bounds: a run that overlapped another and lost the lock is doomed to fail.
THEOREM ScanInvariance == ScannerSpec => []ScanInv
<1>1. ScannerInit => ScanInv BY ScanInitInv
<1>2. ScanInv /\ [ScannerNext]_scannerVars => ScanInv' BY ScanNextInv
<1> QED BY <1>1, <1>2, PTL DEF ScannerSpec

\* Of two runs that scanned at the same time at most one is recorded as having
\* worked, and a retention sweep keeps what the health endpoint reports
\* (scanner service: assertLockOwnership, completeRun, pruneTerminalRuns).
THEOREM ScansSound == ScannerSpec => ScansAreSound
<1>1. ScanInv => ScannerTypeOK /\ OverlappingRunsNotBothClean BY ScanInvMeans
<1>2. ScanInv /\ [ScannerNext]_scannerVars => [\A w \in Workers : runMaintenance(w) =>
          /\ NewestEnded(runs') = NewestEnded(Recovered(runs))
          /\ NewestSuccessful(runs') = NewestSuccessful(runs)]_scannerVars
  BY SweepKeeps
<1> QED BY <1>1, <1>2, ScanInvariance, PTL DEF ScannerSpec, ScansAreSound, PruneKeepsHealth

-----------------------------------------------------------------------------
(* The warm cycle.                                                           *)

\* What a pair's bars answer, the ranges to fetch, a warmer's places and record.
Bars == [any : BOOLEAN, head : BOOLEAN, tail : BOOLEAN]
Ranges == {"all", "head", "tail"}
WarmPlace == {"idle", "lock", "prior", "pairs", "record", "unlock"}
Cycle == [start : Pairs, i : 0..NPairs, todo : Seq(Ranges), requests : 0..Budget, failed : Nat, done : Nat]

\* A warmer past the lock holds it; it works on a pair that exists; every
\* failed pair of a backfill is one that is no longer to be done.
WarmInv ==
    /\ store \in [Pairs -> Bars] /\ offset \in Pairs /\ due \in BOOLEAN /\ warmed \in 0..NPairs
    /\ warmLock \in Warmers \cup {Nobody}
    /\ wpc \in [Warmers -> WarmPlace] /\ cycle \in [Warmers -> Cycle]
    /\ backfillRun \in [status : BackfillStatus, left : SUBSET Pairs, failed : Nat]
    /\ backfillRun.failed + Cardinality(backfillRun.left) <= NPairs
    /\ ingestFaults \in 0..MaxIngestFaults
    /\ \A w \in Warmers :
          /\ wpc[w] \in {"prior", "pairs", "record", "unlock"} => warmLock = w
          /\ wpc[w] = "pairs" => cycle[w].i < NPairs

\* There is a pair, and the pairs are as many as NPairs says.
LEMMA PairsAre == NPairs \in Nat \ {0} /\ 0 \in Pairs /\ IsFiniteSet(Pairs) /\ Cardinality(Pairs) = NPairs
<1>1. NPairs \in Nat \ {0} BY IngestAssumption
<1>2. IsFiniteSet(Pairs) /\ Cardinality(Pairs) = NPairs
  <2>1. 0 \in Int /\ NPairs - 1 \in Int BY <1>1
  <2>2. IsFiniteSet(0..(NPairs - 1)) BY <2>1, FS_Interval
  <2>3. Cardinality(0..(NPairs - 1)) = IF 0 > NPairs - 1 THEN 0 ELSE (NPairs - 1) - 0 + 1 BY <2>1, FS_Interval
  <2> QED BY <1>1, <2>2, <2>3 DEF Pairs
<1> QED BY <1>1, <1>2 DEF Pairs

\* The pairs left to a backfill can be counted.
LEMMA LeftIs ==
    ASSUME NEW L \in SUBSET Pairs
    PROVE IsFiniteSet(L) /\ Cardinality(L) \in Nat
  BY PairsAre, FS_Subset, FS_CardinalityType

\* At first nobody warms and nothing is stored.
LEMMA WarmInitInv == IngestInit => WarmInv
<1> SUFFICES ASSUME IngestInit PROVE WarmInv OBVIOUS
<1>1. Cardinality(backfillRun.left) = 0 /\ backfillRun.failed = 0 BY FS_EmptySet DEF IngestInit, NoBackfill
<1>2. <<>> \in Seq(Ranges) OBVIOUS
<1>3. IdleCycle \in Cycle BY <1>2, PairsAre, IngestAssumption DEF IdleCycle, Cycle
<1>4. \A w \in Warmers : wpc[w] = "idle" BY DEF IngestInit
<1> QED BY <1>1, <1>3, <1>4, PairsAre, IngestAssumption
        DEF IngestInit, WarmInv, Bars, WarmPlace, NoPair, NoBackfill, BackfillStatus

\* missingRanges lists ranges.
LEMMA MissingIs == ASSUME NEW p PROVE missingRanges(p) \in Seq(Ranges)
<1>1. <<>> \in Seq(Ranges) /\ <<"all">> \in Seq(Ranges) /\ <<"head">> \in Seq(Ranges) /\ <<"tail">> \in Seq(Ranges)
  BY DEF Ranges
<1> QED BY <1>1 DEF missingRanges

\* Storing a range gives a pair that can be stored.
LEMMA UpsertIs ==
    ASSUME NEW s \in Bars, NEW p, NEW r \in Ranges
    PROVE upsertCandles(s, p, r) \in Bars
<1>1. (p \in HeadGaps) \in BOOLEAN OBVIOUS
<1>2. CASE r = "all"
  <2>1. upsertCandles(s, p, r) = [any |-> TRUE, head |-> p \in HeadGaps, tail |-> FALSE] BY <1>2 DEF upsertCandles
  <2> QED BY <1>1, <2>1 DEF Bars
<1>3. CASE r = "head"
  <2>1. upsertCandles(s, p, r) = [s EXCEPT !.head = p \in HeadGaps] BY <1>3 DEF upsertCandles
  <2> QED BY <1>1, <2>1 DEF Bars
<1>4. CASE r = "tail"
  <2>1. upsertCandles(s, p, r) = [s EXCEPT !.tail = FALSE] BY <1>4 DEF upsertCandles
  <2> QED BY <2>1 DEF Bars
<1> QED BY <1>2, <1>3, <1>4 DEF Ranges

\* A warmer steps: its own place and record fit, nobody else's lock is taken.
LEMMA WarmerMove ==
    ASSUME WarmInv, NEW w \in Warmers, NEW place \in WarmPlace, NEW c \in Cycle,
           wpc' = [wpc EXCEPT ![w] = place], cycle' = [cycle EXCEPT ![w] = c],
           store' \in [Pairs -> Bars], offset' \in Pairs, due' \in BOOLEAN, warmed' \in 0..NPairs,
           ingestFaults' \in 0..MaxIngestFaults, backfillRun' = backfillRun,
           \/ warmLock' = warmLock
           \/ warmLock' = w /\ warmLock = Nobody
           \/ warmLock' = Nobody /\ warmLock = w,
           place \in {"prior", "pairs", "record", "unlock"} => warmLock' = w,
           place = "pairs" => c.i < NPairs
    PROVE WarmInv'
<1>1. wpc' \in [Warmers -> WarmPlace] /\ cycle' \in [Warmers -> Cycle] /\ warmLock' \in Warmers \cup {Nobody}
  BY DEF WarmInv
<1>2. wpc'[w] = place /\ cycle'[w] = c /\ \A o \in Warmers \ {w} : wpc'[o] = wpc[o] /\ cycle'[o] = cycle[o]
  BY DEF WarmInv
<1>3. ASSUME NEW o \in Warmers
      PROVE /\ wpc'[o] \in {"prior", "pairs", "record", "unlock"} => warmLock' = o
            /\ wpc'[o] = "pairs" => cycle'[o].i < NPairs
  <2>1. CASE o = w BY <2>1, <1>2
  <2>2. CASE o # w BY <2>2, <1>2, IngestAssumption DEF WarmInv
  <2> QED BY <2>1, <2>2
<1> QED BY <1>1, <1>3 DEF WarmInv

\* The store, the interval or the backfill changes; the warmers stay.
LEMMA StoreMove ==
    ASSUME WarmInv, UNCHANGED <<offset, warmLock, wpc, cycle, warmed>>,
           store' \in [Pairs -> Bars], due' \in BOOLEAN, ingestFaults' \in 0..MaxIngestFaults,
           backfillRun' \in [status : BackfillStatus, left : SUBSET Pairs, failed : Nat],
           backfillRun'.failed + Cardinality(backfillRun'.left) <= NPairs
    PROVE WarmInv'
  BY DEF WarmInv

\* A cycle starts, and goes on only with the lock.
LEMMA StartInv == ASSUME WarmInv, NEW w \in Warmers, startCycle(w) \/ warmCache(w) PROVE WarmInv'
<1>1. cycle' = [cycle EXCEPT ![w] = cycle[w]] /\ cycle[w] \in Cycle BY DEF WarmInv, startCycle, warmCache
<1>2. CASE startCycle(w)
  BY <1>1, <1>2, WarmerMove DEF WarmInv, startCycle, WarmGo, WarmPlace
<1>3. CASE warmCache(w)
  <2>1. CASE warmLock = Nobody
    BY <1>1, <1>3, <2>1, WarmerMove DEF WarmInv, warmCache, WarmGo, WarmPlace
  <2>2. CASE warmLock # Nobody
    BY <1>1, <1>3, <2>2, WarmerMove DEF WarmInv, warmCache, WarmGo, WarmPlace
  <2> QED BY <2>1, <2>2
<1> QED BY <1>2, <1>3

\* A cycle past the prior run starts at a pair that exists.
LEMMA PriorInv ==
    ASSUME WarmInv, NEW w \in Warmers, warmCacheLocked(w, lastScheduledRunState)
    PROVE WarmInv'
<1>0. /\ wpc[w] = "prior" /\ warmLock = w /\ UNCHANGED <<store, offset, due, warmLock, warmed, backfillRun>>
  BY DEF WarmInv, warmCacheLocked
<1>1. CASE WarmGo(w, "unlock") /\ cycle' = cycle /\ ingestFaults' \in 0..MaxIngestFaults
  <2>1. cycle' = [cycle EXCEPT ![w] = cycle[w]] /\ cycle[w] \in Cycle BY <1>1 DEF WarmInv
  <2> QED BY <1>0, <1>1, <2>1, WarmerMove DEF WarmInv, WarmGo, WarmPlace
<1>2. CASE /\ cycle' = [cycle EXCEPT ![w] = [IdleCycle EXCEPT !.start = nextRotationOffset(offset, Budget, NPairs)]]
           /\ WarmGo(w, "pairs") /\ ingestFaults' = ingestFaults
  <2> DEFINE at == nextRotationOffset(offset, Budget, NPairs)
             c == [IdleCycle EXCEPT !.start = at]
  <2>1. at \in Pairs
    <3>1. offset + Budget \in Nat /\ NPairs \in Nat \ {0} BY PairsAre, IngestAssumption DEF WarmInv, Pairs
    <3>2. (offset + Budget) % NPairs \in 0..(NPairs - 1) BY <3>1
    <3> QED BY <3>2 DEF nextRotationOffset, Pairs
  <2> HIDE DEF at
  <2>2. <<>> \in Seq(Ranges) OBVIOUS
  <2>3. c \in Cycle /\ c.i = 0
    <3>1. c = [start |-> at, i |-> 0, todo |-> <<>>, requests |-> 0, failed |-> 0, done |-> 0] BY DEF IdleCycle
    <3>2. 0 \in 0..NPairs /\ 0 \in 0..Budget BY PairsAre, IngestAssumption
    <3> HIDE DEF c
    <3> QED BY <2>1, <2>2, <3>1, <3>2 DEF Cycle
  <2>4. cycle' = [cycle EXCEPT ![w] = c] BY <1>2 DEF at
  <2> HIDE DEF c
  <2>5. wpc' = [wpc EXCEPT ![w] = "pairs"] /\ "pairs" \in WarmPlace /\ c.i < NPairs
    BY <1>2, <2>3, PairsAre DEF WarmGo, WarmPlace
  <2>6. store' \in [Pairs -> Bars] /\ offset' \in Pairs /\ due' \in BOOLEAN /\ warmed' \in 0..NPairs
        /\ ingestFaults' \in 0..MaxIngestFaults
    BY <1>0, <1>2 DEF WarmInv
  <2> QED BY <1>0, <2>3, <2>4, <2>5, <2>6, WarmerMove
<1>3. ingestFaults' = ingestFaults \/ Fault BY DEF warmCacheLocked
<1>4. ingestFaults' \in 0..MaxIngestFaults BY <1>3, IngestAssumption DEF WarmInv, Fault
<1> QED BY <1>1, <1>2, <1>4 DEF warmCacheLocked, lastScheduledRunState

\* The pair a cycle works on is a pair.
LEMMA CurrentIs == ASSUME WarmInv, NEW w \in Warmers PROVE Current(w) \in Pairs
<1>1. cycle[w].start + cycle[w].i \in Nat /\ NPairs \in Nat \ {0}
  <2>1. cycle[w] \in Cycle BY DEF WarmInv
  <2> QED BY <2>1, PairsAre DEF Cycle, Pairs
<1>2. (cycle[w].start + cycle[w].i) % NPairs \in 0..(NPairs - 1) BY <1>1
<1> QED BY <1>2 DEF Current, Pairs

\* The end of a pair leads to the next one or to the record.
LEMMA PairDoneIs ==
    ASSUME WarmInv, NEW w \in Warmers, wpc[w] = "pairs", NEW c \in Cycle, c.i = cycle[w].i, PairDone(w, c),
           UNCHANGED <<offset, due, warmLock, backfillRun>>, store' \in [Pairs -> Bars],
           warmed' \in 0..NPairs, ingestFaults' \in 0..MaxIngestFaults
    PROVE WarmInv'
<1>1. cycle[w].i \in 0..NPairs /\ cycle[w].i < NPairs /\ warmLock = w /\ NPairs \in Nat
  <2>1. cycle[w] \in Cycle BY DEF WarmInv
  <2> QED BY <2>1, PairsAre DEF WarmInv, Cycle
<1> DEFINE n == cycle[w].i + 1
           d == [c EXCEPT !.i = n, !.todo = <<>>]
           place == IF n = NPairs THEN "record" ELSE "pairs"
<1>2. n \in 0..NPairs /\ <<>> \in Seq(Ranges) BY <1>1
<1>3. cycle' = [cycle EXCEPT ![w] = d] BY DEF PairDone
<1>4. wpc' = [wpc EXCEPT ![w] = place] BY DEF PairDone, WarmGo
<1>5. place \in WarmPlace /\ (place = "pairs" => n < NPairs) BY <1>1, <1>2 DEF WarmPlace
<1> HIDE DEF n, place
<1>6. d \in Cycle /\ d.i = n BY <1>2 DEF Cycle
<1> HIDE DEF d
<1>7. offset' \in Pairs /\ due' \in BOOLEAN BY DEF WarmInv
<1> QED BY <1>1, <1>3, <1>4, <1>5, <1>6, <1>7, WarmerMove

\* A pair begins: a cache hit, or ranges to fetch.
LEMMA WarmPairInv == ASSUME WarmInv, NEW w \in Warmers, warmPair(w) PROVE WarmInv'
<1>0. /\ wpc[w] = "pairs" /\ warmLock = w /\ cycle[w] \in Cycle
      /\ UNCHANGED <<store, offset, due, warmLock, backfillRun, ingestFaults>>
  BY DEF WarmInv, warmPair
<1>1. Current(w) \in 0..NPairs /\ NoPair \in 0..NPairs
  BY CurrentIs, PairsAre DEF Pairs, NoPair
<1>2. CASE PairDone(w, [cycle[w] EXCEPT !.done = @ + 1]) /\ warmed' = Current(w)
  <2> DEFINE c == [cycle[w] EXCEPT !.done = @ + 1]
  <2>1. c \in Cycle /\ c.i = cycle[w].i BY <1>0 DEF Cycle
  <2>2. PairDone(w, c) BY <1>2
  <2> HIDE DEF c
  <2> QED BY <1>0, <1>1, <1>2, <2>1, <2>2, PairDoneIs DEF WarmInv
<1>3. CASE cycle' = [cycle EXCEPT ![w].todo = missingRanges(Current(w))] /\ warmed' = NoPair /\ wpc' = wpc
  <2> DEFINE c == [cycle[w] EXCEPT !.todo = missingRanges(Current(w))]
  <2>1. c \in Cycle /\ c.i = cycle[w].i BY <1>0, MissingIs DEF Cycle
  <2>2. cycle' = [cycle EXCEPT ![w] = c] /\ wpc' = [wpc EXCEPT ![w] = "pairs"] BY <1>0, <1>3 DEF WarmInv
  <2> HIDE DEF c
  <2>3. c.i < NPairs /\ "pairs" \in WarmPlace BY <1>0, <2>1 DEF WarmInv, WarmPlace
  <2> QED BY <1>0, <1>1, <1>3, <2>1, <2>2, <2>3, WarmerMove DEF WarmInv
<1> QED BY <1>2, <1>3 DEF warmPair

\* The cycle ends at once.
LEMMA EndInv ==
    ASSUME WarmInv, NEW w \in Warmers, wpc[w] = "pairs", NEW c \in Cycle, EndOfCycle(w, c), warmed' = NoPair,
           UNCHANGED <<store, offset, due, warmLock, backfillRun>>, ingestFaults' \in 0..MaxIngestFaults
    PROVE WarmInv'
<1>1. NoPair \in 0..NPairs /\ "record" \in WarmPlace BY PairsAre DEF NoPair, WarmPlace
<1> QED BY <1>1, WarmerMove DEF WarmInv, EndOfCycle, WarmGo

\* One provider request: counted before it is made, so never above the budget.
LEMMA RequestInv == ASSUME WarmInv, NEW w \in Warmers, providerRequest(w) PROVE WarmInv'
<1> DEFINE c == [cycle[w] EXCEPT !.requests = @ + 1]
           p == Current(w)
<1>0. /\ wpc[w] = "pairs" /\ warmLock = w /\ cycle[w] \in Cycle /\ cycle[w].todo # <<>>
      /\ UNCHANGED <<offset, due, warmLock, backfillRun>>
  BY DEF WarmInv, providerRequest
<1>1. p \in Pairs /\ p \in 0..NPairs /\ NoPair \in 0..NPairs
  BY CurrentIs, PairsAre DEF Pairs, NoPair
<1>2. BudgetLeft(w) =>
         /\ c \in Cycle /\ c.i = cycle[w].i /\ c.todo = cycle[w].todo
         /\ [c EXCEPT !.done = @ + 1] \in Cycle /\ [c EXCEPT !.done = @ + 1].i = cycle[w].i
         /\ [c EXCEPT !.failed = @ + 1] \in Cycle /\ [c EXCEPT !.failed = @ + 1].i = cycle[w].i
  <2> HAVE BudgetLeft(w)
  <2>1. c \in Cycle /\ c.i = cycle[w].i /\ c.todo = cycle[w].todo BY <1>0, IngestAssumption, SMTT(30) DEF BudgetLeft, Cycle
  <2> HIDE DEF c
  <2> QED BY <2>1 DEF Cycle
<1>3. CASE ~BudgetLeft(w) /\ EndOfCycle(w, cycle[w]) /\ warmed' = NoPair /\ UNCHANGED <<store, ingestFaults>>
  BY <1>0, <1>3, EndInv DEF WarmInv
<1>4. CASE /\ BudgetLeft(w)
           /\ store' = [store EXCEPT ![p] = upsertCandles(@, p, Head(c.todo))]
           /\ IF Len(c.todo) = 1
              THEN PairDone(w, [c EXCEPT !.done = @ + 1]) /\ warmed' = p
              ELSE /\ cycle' = [cycle EXCEPT ![w] = [c EXCEPT !.todo = Tail(@)]]
                   /\ warmed' = NoPair /\ UNCHANGED wpc
           /\ UNCHANGED ingestFaults
  <2>1. c \in Cycle /\ c.i = cycle[w].i /\ c.todo \in Seq(Ranges) /\ c.todo # <<>>
    BY <1>0, <1>2, <1>4 DEF Cycle
  <2>2. Head(c.todo) \in Ranges /\ Tail(c.todo) \in Seq(Ranges) BY <2>1
  <2>3. store' \in [Pairs -> Bars]
    <3>1. store[p] \in Bars BY <1>1 DEF WarmInv
    <3>2. upsertCandles(store[p], p, Head(c.todo)) \in Bars BY <3>1, <2>2, UpsertIs
    <3> QED BY <1>1, <1>4, <3>2 DEF WarmInv
  <2>4. CASE PairDone(w, [c EXCEPT !.done = @ + 1]) /\ warmed' = p
    <3> DEFINE d == [c EXCEPT !.done = @ + 1]
    <3>1. d \in Cycle /\ d.i = cycle[w].i /\ PairDone(w, d) BY <1>2, <1>4, <2>4
    <3>2. warmed' \in 0..NPairs /\ ingestFaults' \in 0..MaxIngestFaults BY <1>1, <1>4, <2>4 DEF WarmInv
    <3> HIDE DEF d
    <3> QED BY <1>0, <2>3, <3>1, <3>2, PairDoneIs
  <2>5. CASE cycle' = [cycle EXCEPT ![w] = [c EXCEPT !.todo = Tail(@)]] /\ warmed' = NoPair /\ wpc' = wpc
    <3> DEFINE d == [c EXCEPT !.todo = Tail(@)]
    <3>0. cycle' = [cycle EXCEPT ![w] = d] BY <2>5
    <3> HIDE DEF c
    <3>1. d \in Cycle /\ d.i = cycle[w].i BY <2>1, <2>2 DEF Cycle
    <3> HIDE DEF d
    <3>2. wpc' = [wpc EXCEPT ![w] = "pairs"] /\ d.i < NPairs /\ "pairs" \in WarmPlace
      BY <1>0, <2>5, <3>1 DEF WarmInv, WarmPlace
    <3>3. warmed' \in 0..NPairs /\ ingestFaults' \in 0..MaxIngestFaults /\ offset' \in Pairs /\ due' \in BOOLEAN
      BY <1>0, <1>1, <1>4, <2>5 DEF WarmInv
    <3> QED BY <1>0, <2>3, <3>0, <3>1, <3>2, <3>3, WarmerMove
  <2> QED BY <1>4, <2>4, <2>5
<1>5. CASE /\ BudgetLeft(w) /\ Fault /\ warmed' = NoPair /\ UNCHANGED store
           /\ \/ EndOfCycle(w, [c EXCEPT !.failed = @ + 1])
              \/ PairDone(w, [c EXCEPT !.failed = @ + 1])
  <2> DEFINE d == [c EXCEPT !.failed = @ + 1]
  <2>1. d \in Cycle /\ d.i = cycle[w].i /\ (EndOfCycle(w, d) \/ PairDone(w, d)) BY <1>2, <1>5
  <2>2. ingestFaults' \in 0..MaxIngestFaults BY <1>5, IngestAssumption DEF WarmInv, Fault
  <2>3. warmed' \in 0..NPairs /\ store' \in [Pairs -> Bars] BY <1>1, <1>5 DEF WarmInv
  <2> HIDE DEF d, c
  <2>4. CASE EndOfCycle(w, d) BY <1>0, <1>5, <2>1, <2>2, <2>4, EndInv
  <2>5. CASE PairDone(w, d) BY <1>0, <1>5, <2>1, <2>2, <2>3, <2>5, PairDoneIs
  <2> QED BY <2>1, <2>4, <2>5
<1> QED BY <1>3, <1>4, <1>5 DEF providerRequest

\* The run is recorded, or its record is lost.
LEMMA FinishInv == ASSUME WarmInv, NEW w \in Warmers, finishCycle(w) PROVE WarmInv'
<1>0. wpc[w] = "record" /\ warmLock = w /\ cycle[w] \in Cycle BY DEF WarmInv, finishCycle
<1>1. offset' \in Pairs /\ due' \in BOOLEAN /\ ingestFaults' \in 0..MaxIngestFaults
  <2>1. CASE recordRun(cycle[w]) /\ UNCHANGED ingestFaults BY <1>0, <2>1 DEF recordRun, Cycle, WarmInv
  <2>2. CASE Fault /\ UNCHANGED <<offset, due>> BY <2>2, IngestAssumption DEF Fault, WarmInv
  <2> QED BY <2>1, <2>2 DEF finishCycle
<1>2. cycle' = [cycle EXCEPT ![w] = cycle[w]] /\ wpc' = [wpc EXCEPT ![w] = "unlock"] /\ "unlock" \in WarmPlace
  BY DEF WarmInv, finishCycle, WarmGo, WarmPlace
<1>3. warmed' \in 0..NPairs /\ store' \in [Pairs -> Bars] /\ warmLock' = warmLock /\ backfillRun' = backfillRun
  BY PairsAre DEF WarmInv, finishCycle, NoPair
<1> QED BY <1>0, <1>1, <1>2, <1>3, WarmerMove

\* The lock is released, or goes with the process.
LEMMA UnlockInv == ASSUME WarmInv, NEW w \in Warmers, releaseWarmLock(w) \/ warmerCrash(w) PROVE WarmInv'
<1>1. <<>> \in Seq(Ranges) OBVIOUS
<1>2. IdleCycle \in Cycle BY <1>1, PairsAre, IngestAssumption DEF IdleCycle, Cycle
<1>3. /\ cycle' = [cycle EXCEPT ![w] = IdleCycle] /\ wpc' = [wpc EXCEPT ![w] = "idle"] /\ "idle" \in WarmPlace
      /\ UNCHANGED <<store, offset, due, warmed, backfillRun>>
  BY DEF releaseWarmLock, warmerCrash, WarmGo, WarmPlace
<1>4. ingestFaults' \in 0..MaxIngestFaults
  BY IngestAssumption DEF WarmInv, releaseWarmLock, warmerCrash, Fault
<1>5. warmLock' = warmLock \/ (warmLock' = Nobody /\ warmLock = w)
  BY DEF WarmInv, releaseWarmLock, warmerCrash
<1>6. offset' \in Pairs /\ due' \in BOOLEAN /\ warmed' \in 0..NPairs /\ store' \in [Pairs -> Bars]
  BY <1>3 DEF WarmInv
<1> QED BY <1>2, <1>3, <1>4, <1>5, <1>6, WarmerMove

\* A fetch-through read touches the store only.
LEMMA ReadInv == ASSUME WarmInv, NEW p \in Pairs, getCandles(p) PROVE WarmInv'
<1>1. store[p] \in Bars /\ store \in [Pairs -> Bars] BY DEF WarmInv
<1>2. fetchThrough(store[p], p) \in Bars BY <1>1 DEF fetchThrough, Bars
<1>3. upsertCandles(store[p], p, "head") \in Bars BY <1>1, UpsertIs DEF Ranges
<1>4. store' \in [Pairs -> Bars] BY <1>1, <1>2, <1>3 DEF getCandles
<1>5. ingestFaults' \in 0..MaxIngestFaults BY IngestAssumption DEF WarmInv, getCandles, Fault
<1> QED BY <1>4, <1>5, StoreMove DEF getCandles, WarmInv

\* A pair of the backfill is done or counted as failed.
LEMMA BackfillInv == ASSUME WarmInv, NEW p \in Pairs, backfillPair(p) PROVE WarmInv'
<1> DEFINE L == backfillRun.left
<1>1. /\ backfillRun \in [status : BackfillStatus, left : SUBSET Pairs, failed : Nat]
      /\ backfillRun.failed + Cardinality(L) <= NPairs /\ p \in L
  BY DEF WarmInv, backfillPair
<1>2. L \in SUBSET Pairs /\ backfillRun.failed \in Nat BY <1>1
<1> HIDE DEF L
<1>3. Cardinality(L) \in Nat /\ Cardinality(L \ {p}) = Cardinality(L) - 1 /\ L \ {p} \in SUBSET Pairs
  BY <1>1, <1>2, LeftIs, FS_RemoveElement
<1>4. \/ backfillRun' = [backfillRun EXCEPT !.left = L \ {p}]
      \/ backfillRun' = [backfillRun EXCEPT !.left = L \ {p}, !.failed = backfillRun.failed + 1]
  BY DEF backfillPair, L
<1>5. /\ backfillRun' \in [status : BackfillStatus, left : SUBSET Pairs, failed : Nat]
      /\ backfillRun'.left = L \ {p} /\ backfillRun'.failed <= backfillRun.failed + 1 /\ backfillRun'.failed \in Nat
  <2>1. CASE backfillRun' = [backfillRun EXCEPT !.left = L \ {p}] BY <1>1, <1>2, <1>3, <2>1
  <2>2. CASE backfillRun' = [backfillRun EXCEPT !.left = L \ {p}, !.failed = backfillRun.failed + 1]
    <3>1. backfillRun.failed + 1 \in Nat /\ backfillRun.failed + 1 <= backfillRun.failed + 1 BY <1>2
    <3>2. /\ backfillRun'.left = L \ {p} /\ backfillRun'.failed = backfillRun.failed + 1
          /\ backfillRun'.status = backfillRun.status
      BY <1>1, <2>2
    <3>3. backfillRun' \in [status : BackfillStatus, left : SUBSET Pairs, failed : Nat]
      BY <1>1, <1>3, <2>2, <3>1
    <3> QED BY <3>1, <3>2, <3>3
  <2> QED BY <1>4, <2>1, <2>2
<1>6. backfillRun'.failed + Cardinality(backfillRun'.left) <= NPairs
  BY <1>1, <1>2, <1>3, <1>5, PairsAre
<1>7. store' \in [Pairs -> Bars]
  <2>1. store \in [Pairs -> Bars] /\ upsertCandles(store[p], p, "all") \in Bars BY UpsertIs DEF WarmInv, Ranges
  <2> QED BY <2>1 DEF backfillPair
<1>8. ingestFaults' \in 0..MaxIngestFaults BY IngestAssumption DEF WarmInv, backfillPair, Fault
<1>9. due' \in BOOLEAN /\ UNCHANGED <<offset, warmLock, wpc, cycle, warmed>> BY DEF WarmInv, backfillPair
<1> QED BY <1>5, <1>6, <1>7, <1>8, <1>9, StoreMove

\* A backfill run opens with every pair and closes with none.
LEMMA RunRowInv == ASSUME WarmInv, openRun \/ closeRun PROVE WarmInv'
<1>1. /\ backfillRun' \in [status : BackfillStatus, left : SUBSET Pairs, failed : Nat]
      /\ backfillRun'.failed = 0 /\ backfillRun'.left \in {{}, Pairs}
  <2>1. CASE openRun
    <3>1. backfillRun' = [status |-> "running", left |-> Pairs, failed |-> 0] BY <2>1 DEF openRun
    <3> QED BY <3>1 DEF BackfillStatus
  <2>2. CASE closeRun
    <3>1. PICK st \in BackfillStatus : backfillRun' = [NoBackfill EXCEPT !.status = st]
      BY <2>2 DEF closeRun, BackfillStatus
    <3>2. backfillRun' = [status |-> st, left |-> {}, failed |-> 0] BY <3>1 DEF NoBackfill
    <3> QED BY <3>2
  <2> QED BY <2>1, <2>2
<1>2. backfillRun'.failed + Cardinality(backfillRun'.left) <= NPairs BY <1>1, PairsAre, FS_EmptySet
<1>3. UNCHANGED <<store, offset, due, warmLock, wpc, cycle, warmed, ingestFaults>> BY DEF openRun, closeRun
<1> QED BY <1>1, <1>2, <1>3, StoreMove DEF WarmInv

\* Time passes.
LEMMA TimeInv == ASSUME WarmInv, barCloses \/ intervalElapses PROVE WarmInv'
<1>1. store' \in [Pairs -> Bars]
  <2>1. store \in [Pairs -> Bars] BY DEF WarmInv
  <2>2. \A p \in Pairs : [store[p] EXCEPT !.tail = TRUE] \in Bars BY <2>1 DEF Bars
  <2> QED BY <2>1, <2>2 DEF barCloses, intervalElapses
<1>2. due' \in BOOLEAN /\ UNCHANGED <<offset, warmLock, wpc, cycle, warmed, backfillRun, ingestFaults>>
  BY DEF barCloses, intervalElapses
<1> QED BY <1>1, <1>2, StoreMove DEF WarmInv

\* Every step of the ingestion keeps the invariant.
LEMMA WarmNextInv == ASSUME WarmInv, [IngestNext]_ingestVars PROVE WarmInv'
<1>1. CASE UNCHANGED ingestVars BY <1>1 DEF ingestVars, WarmInv
<1>2. ASSUME NEW w \in Warmers, startCycle(w) \/ WarmStep(w) \/ warmerCrash(w) PROVE WarmInv'
  BY <1>2, StartInv, PriorInv, WarmPairInv, RequestInv, FinishInv, UnlockInv DEF WarmStep
<1>3. ASSUME NEW p \in Pairs, getCandles(p) \/ backfillPair(p) PROVE WarmInv'
  BY <1>3, ReadInv, BackfillInv
<1>4. CASE openRun \/ closeRun \/ barCloses \/ intervalElapses BY <1>4, RunRowInv, TimeInv
<1> QED BY <1>1, <1>2, <1>3, <1>4 DEF IngestNext

\* The invariant says what is promised of warm cycles.
LEMMA WarmInvMeans == WarmInv => CyclesAreSound
<1> SUFFICES ASSUME WarmInv PROVE CyclesAreSound OBVIOUS
<1>1. backfillRun.failed \in 0..NPairs
  <2>1. Cardinality(backfillRun.left) \in Nat /\ backfillRun.failed \in Nat BY LeftIs DEF WarmInv
  <2> QED BY <2>1, PairsAre DEF WarmInv
<1>2. IngestTypeOK
  <2>1. \A w \in Warmers : cycle[w] \in Cycle BY DEF WarmInv
  <2>2. \A w \in Warmers : cycle[w].requests <= Budget /\ cycle[w].i \in 0..NPairs
    BY <2>1, IngestAssumption DEF Cycle
  <2> QED BY <1>1, <2>2 DEF WarmInv, IngestTypeOK, Bars, WarmPlace
<1>3. WarmCyclesExclusive
  <2> DEFINE S == {w \in Warmers : wpc[w] \in {"prior", "pairs", "record"}}
  <2>1. \A w \in S : warmLock = w BY DEF WarmInv
  <2>2. S = {} \/ S = {warmLock} BY <2>1
  <2>3. Cardinality(S) <= 1
    <3> HIDE DEF S
    <3>1. CASE S = {} BY <3>1, FS_EmptySet
    <3>2. CASE S = {warmLock} BY <3>2, FS_Singleton
    <3> QED BY <2>2, <3>1, <3>2
  <2> QED BY <2>3 DEF WarmCyclesExclusive, WarmInv
<1> QED BY <1>2, <1>3 DEF CyclesAreSound

\* The warm cycle, its lock and its budget, for any number of warmers and pairs.
THEOREM CycleInvariance == IngestSpec => []WarmInv
<1>1. IngestInit => WarmInv BY WarmInitInv
<1>2. WarmInv /\ [IngestNext]_ingestVars => WarmInv' BY WarmNextInv
<1> QED BY <1>1, <1>2, PTL DEF IngestSpec

\* At most one warm cycle spends provider requests at a time, it holds the lock
\* while it does, and it makes no more requests than its budget (market-data:
\* warmCache, warmCacheLocked, providerRequest).
THEOREM CyclesExclusive == IngestSpec => []CyclesAreSound
<1>1. WarmInv => CyclesAreSound BY WarmInvMeans
<1> QED BY <1>1, CycleInvariance, PTL
=============================================================================
