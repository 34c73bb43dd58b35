----------------------- MODULE ProviderMutationsProofs -----------------------
(***************************************************************************)
(* Proofs about ProviderMutations, for any number of intents, orders,      *)
(* processes and requests: the type invariant, at most one provider call   *)
(* per intent, no release of an order that may be open, and no two open    *)
(* provider orders for one managed order.  And about Reconciliation: when  *)
(* runs start and what a review may turn a run into.                       *)
(***************************************************************************)
EXTENDS ProviderMutations, Reconciliation, SequenceTheorems, FiniteSetTheorems, TLAPS

\* An id without a row was never seen by a barrier, a process or the provider.
Fresh ==
    \A i \in IntentId : status[i] = "none" =>
        /\ row[i].order = NoOrder
        /\ barrier[i] = 0
        /\ calls[i] = 0

\* Every barrier carries the version that the insert committed, and any use of
\* it has moved the row beyond that version.
BarrierSpent ==
    \A i \in IntentId :
        /\ status[i] # "none" => barrier[i] = 2 /\ stateVersion[i] >= 2
        /\ (calls[i] # 0 \/ \E w \in Worker : worker[w].intent = i) => stateVersion[i] > barrier[i]

\* One process at most works on an intent; until it calls, nobody has called.
OneCaller ==
    /\ \A w \in Worker : worker[w].pc = "idle" \/ worker[w].intent \in IntentId
    /\ \A w, v \in Worker : worker[w].intent = worker[v].intent /\ worker[w].intent \in IntentId => w = v
    /\ \A w \in Worker : worker[w].pc = "calling" => calls[worker[w].intent] = 0
    /\ \A w \in Worker : worker[w].intent \in IntentId => status[worker[w].intent] # "none"
    /\ \A i \in IntentId : calls[i] <= 1

\* The provider knows an intent only through the one call made for it.
ProviderTruth ==
    \A i \in IntentId :
        /\ i \in wire => calls[i] = 1 /\ book[i] = "none"
        /\ book[i] # "none" => calls[i] = 1

\* A definitive outcome held by a process is one the provider gave.
Evidence ==
    \A w \in Worker : worker[w].pc \in {"answered", "persisted"} =>
        /\ worker[w].outcome = "accepted" => book[worker[w].intent] \in {"accepted", "cancelled"}
        /\ worker[w].outcome = "rejected" => book[worker[w].intent] \in {"rejected", "cancelled"}

\* The columns of a row agree with each other.
RowCoherent ==
    \A i \in IntentId :
        /\ status[i] # "prepared"
        /\ status[i] = "reconciled" => resolution[i] # "none"
        /\ status[i] # "reconciled" => resolution[i] = "none"

Closed(i) == book[i] # "accepted" /\ ~RequestOutstanding(i)

\* What is released is closed at the provider.
Released == \A i \in IntentId : isRetryEligibleResolution(i) => Closed(i)

OneLive ==
    \A i, j \in IntentId :
        /\ row[i].order = row[j].order /\ row[i].order # NoOrder
        /\ LiveOrderMutation(i) /\ LiveOrderMutation(j)
        => i = j

\* A row read before the lock is still unresolved as long as its version stands.
SnapshotCurrent ==
    \A r \in Resolver : resolver[r].intent \in IntentId =>
        /\ status[resolver[r].intent] # "none"
        /\ resolver[r].version <= stateVersion[resolver[r].intent]
        /\ resolver[r].version = stateVersion[resolver[r].intent] =>
              status[resolver[r].intent] \in {"submitting", "uncertain"}

IInv ==
    /\ TypeOK /\ SnapshotCurrent /\ Fresh /\ BarrierSpent /\ OneCaller /\ ProviderTruth
    /\ Evidence /\ RowCoherent /\ ReservationCoherent /\ Released /\ OneLive

-----------------------------------------------------------------------------
(* Types                                                                   *)

\* Every transition keeps the columns of the ledger inside their types.
LEMMA TransitionType ==
    ASSUME TypeOK, NEW i \in IntentId, NEW to \in Status, NEW res \in Resolution,
           transitionIntent(i, to, res)
    PROVE  /\ row' \in [IntentId -> Row]
           /\ status' \in [IntentId -> Status]
           /\ stateVersion' \in [IntentId -> Nat]
           /\ resolution' \in [IntentId -> Resolution]
           /\ supersededBy' \in [IntentId -> IntentId \cup {NoIntent}]
           /\ reservation' \in [IntentId -> ReservationState]
<1>1. ReservationAfter(to, res) \in ReservationState
  BY DEF ReservationAfter, ReservationState
<1> QED
  BY <1>1 DEF TypeOK, transitionIntent

\* A process that is not idle works on an intent.
LEMMA WorkerIntent ==
    ASSUME TypeOK, OneCaller, NEW w \in Worker, worker[w].pc # "idle"
    PROVE  worker[w].intent \in IntentId
  BY DEF OneCaller

\* The type invariant is preserved by every step of the ledger.
LEMMA TypeStep ==
    ASSUME TypeOK, OneCaller, Next
    PROVE  TypeOK'
<1>1. ASSUME NEW q \in Request, NEW i \in IntentId, prepareSubmit(q, i)
      PROVE  TypeOK'
  <2>1. [request |-> q, order |-> q.order, attempt |-> 1, parent |-> NoIntent, root |-> i] \in Row
    BY RequestAssumption DEF Row
  <2> QED
    BY <1>1, <2>1 DEF prepareSubmit, InsertIntent, TypeOK, Status, Unresolved, ReservationState
<1>2. ASSUME NEW q \in Request, NEW p \in IntentId, NEW i \in IntentId, prepareRetry(q, p, i)
      PROVE  TypeOK'
  <2>1. row[p] \in Row
    BY DEF TypeOK
  <2>2. RetryOrder(q, p) \in Order \cup {NoOrder}
    BY <2>1, RequestAssumption DEF RetryOrder, Row
  <2>3. [request |-> q, order |-> RetryOrder(q, p), attempt |-> row[p].attempt + 1,
         parent |-> p, root |-> row[p].root] \in Row
    BY <2>1, <2>2 DEF Row
  <2> QED
    BY <1>2, <2>3 DEF prepareRetry, InsertIntent, TypeOK, Status, Unresolved, ReservationState
<1>3. ASSUME NEW w \in Worker, NEW i \in IntentId, consumeSubmitBarrier(w, i)
      PROVE  TypeOK'
  BY <1>3 DEF consumeSubmitBarrier, TypeOK, WorkerState, Outcome
<1>4. ASSUME NEW w \in Worker, callProvider(w)
      PROVE  TypeOK'
  <2>1. worker[w].intent \in IntentId
    BY <1>4, WorkerIntent DEF callProvider
  <2> QED
    BY <1>4, <2>1 DEF callProvider, TypeOK, WorkerState, Outcome, ledger
<1>5. ASSUME NEW w \in Worker, receiveOutcome(w)
      PROVE  TypeOK'
  <2>1. worker[w].intent \in IntentId
    BY <1>5, WorkerIntent DEF receiveOutcome
  <2>2. SubmitOutcomes(worker[w].intent) \subseteq Outcome
    BY <2>1 DEF SubmitOutcomes, StatusClasses, Outcome, TypeOK, Book
  <2> QED
    BY <1>5, <2>1, <2>2 DEF receiveOutcome, TypeOK, WorkerState, ledger
<1>6. ASSUME NEW w \in Worker, persistReceipt(w)
      PROVE  TypeOK'
  <2>1. worker[w].intent \in IntentId /\ worker[w].outcome \in Outcome
    BY <1>6, WorkerIntent DEF persistReceipt, TypeOK, WorkerState
  <2> QED
    BY <1>6, <2>1, SMTT(30) DEF persistReceipt, TypeOK, WorkerState, Outcome, ledger
<1>7. ASSUME NEW w \in Worker, applyOutcome(w)
      PROVE  TypeOK'
  <2>1. worker[w].intent \in IntentId
    BY <1>7, WorkerIntent DEF applyOutcome
  <2>2. OutcomeStatus(worker[w].outcome) \in Status /\ "none" \in Resolution
    BY DEF OutcomeStatus, Status, Unresolved, Terminal, Resolution
  <2>3. worker' \in [Worker -> WorkerState]
    BY <1>7 DEF applyOutcome, TypeOK, WorkerState, Idle, Outcome
  <2> QED
    BY <1>7, <2>1, <2>2, <2>3, TransitionType DEF applyOutcome, TypeOK, ledger
<1>8. ASSUME NEW w \in Worker, WorkerCrash(w)
      PROVE  TypeOK'
  BY <1>8 DEF WorkerCrash, TypeOK, WorkerState, Idle, Outcome, ledger
<1>9. ASSUME NEW r \in Resolver, NEW i \in IntentId, requireIntent(r, i)
      PROVE  TypeOK'
  BY <1>9 DEF requireIntent, TypeOK, ResolverState, ledger
<1>10. ASSUME NEW r \in Resolver, recordReconciliationObservation(r)
       PROVE  TypeOK'
  <2>1. resolver[r].intent \in IntentId /\ "reconciled" \in Status
    BY <1>10 DEF recordReconciliationObservation, TypeOK, ResolverState, Status, Terminal
  <2>2. ObservedResolutions(resolver[r].intent) \subseteq Resolution
    BY <2>1 DEF ObservedResolutions, Resolution
  <2>3. resolver' \in [Resolver -> ResolverState]
    BY <1>10 DEF recordReconciliationObservation, TypeOK, ResolverState, NoSnapshot
  <2> QED
    BY <1>10, <2>1, <2>2, <2>3, TransitionType DEF recordReconciliationObservation, TypeOK, ledger
<1>11. ASSUME NEW r \in Resolver, resolveByOperator(r)
       PROVE  TypeOK'
  <2>1. resolver[r].intent \in IntentId /\ "reconciled" \in Status
    BY <1>11 DEF resolveByOperator, TypeOK, ResolverState, Status, Terminal
  <2>2. OperatorEvidence(resolver[r].intent) \subseteq Resolution
    BY <2>1 DEF OperatorEvidence, ObservedResolutions, Resolution
  <2>3. resolver' \in [Resolver -> ResolverState]
    BY <1>11 DEF resolveByOperator, TypeOK, ResolverState, NoSnapshot
  <2> QED
    BY <1>11, <2>1, <2>2, <2>3, TransitionType DEF resolveByOperator, TypeOK
<1>12. ASSUME NEW i \in IntentId, recoverAfterRestart(i)
       PROVE  TypeOK'
  <2>1. "uncertain" \in Status /\ "none" \in Resolution
    BY DEF Status, Unresolved, Resolution
  <2> QED
    BY <1>12, <2>1, TransitionType DEF recoverAfterRestart, TypeOK
<1>13. ASSUME NEW i \in IntentId, NEW b \in {"accepted", "rejected"}, ProviderAnswers(i, b)
       PROVE  TypeOK'
  BY <1>13 DEF ProviderAnswers, TypeOK, Book, ledger
<1>14. ASSUME NEW i \in IntentId, RequestLost(i)
       PROVE  TypeOK'
  BY <1>14 DEF RequestLost, TypeOK, ledger
<1>15. ASSUME NEW i \in IntentId, ProviderCancels(i)
       PROVE  TypeOK'
  BY <1>15 DEF ProviderCancels, TypeOK, Book, ledger
<1> QED
  BY <1>1, <1>2, <1>3, <1>4, <1>5, <1>6, <1>7, <1>8, <1>9, <1>10, <1>11, <1>12,
     <1>13, <1>14, <1>15 DEF Next

-----------------------------------------------------------------------------
(* The ledger: rows, barriers and snapshots                                *)

\* The part of the invariant that speaks of the ledger and of those who hold
\* versions of its rows.
LedgerInv == SnapshotCurrent /\ Fresh /\ BarrierSpent /\ RowCoherent /\ ReservationCoherent /\ OneLive

\* A transition that the guards allow, of an existing row that is unresolved
\* or keeps its status, preserves the ledger's part of the invariant.
LEMMA TransitionStep ==
    ASSUME IInv, TypeOK', NEW i \in IntentId,
           NEW to \in {"confirmed", "rejected", "uncertain", "reconciled"},
           NEW res \in Resolution,
           to = "reconciled" <=> res # "none",
           \/ status[i] = "submitting"
           \/ status[i] = "uncertain" /\ to \in {"uncertain", "reconciled"}
           \/ status[i] \in {"confirmed", "rejected"} /\ to = status[i],
           transitionIntent(i, to, res),
           UNCHANGED <<barrier, calls>>,
           \A w \in Worker : worker'[w] = worker[w] \/ worker'[w] = Idle,
           \A r \in Resolver : resolver'[r] = resolver[r] \/ resolver'[r] = NoSnapshot
    PROVE  LedgerInv'
<1> USE NullAssumption
<1>1. SnapshotCurrent'
  BY DEF IInv, SnapshotCurrent, TypeOK, transitionIntent, NoSnapshot, RowCoherent, ResolverState
<1>2. Fresh'
  BY DEF IInv, Fresh, TypeOK, transitionIntent
<1>3. BarrierSpent'
  BY DEF IInv, BarrierSpent, TypeOK, transitionIntent, Idle
<1>4. RowCoherent'
  BY DEF IInv, RowCoherent, TypeOK, transitionIntent
<1>5. ReservationCoherent'
  BY DEF IInv, RowCoherent, ReservationCoherent, TypeOK, transitionIntent, ReservationAfter,
         isProviderAcceptedIntent, isRetryEligibleResolution, Resolution
<1>6. \A j \in IntentId : LiveOrderMutation(j)' => LiveOrderMutation(j)
  BY DEF IInv, RowCoherent, TypeOK, transitionIntent, LiveOrderMutation, isProviderAcceptedIntent,
         Unresolved
<1>7. OneLive'
  BY <1>6 DEF IInv, OneLive, transitionIntent
<1> QED
  BY <1>1, <1>2, <1>3, <1>4, <1>5, <1>7 DEF LedgerInv

\* Inserting a row for an order that has no live mutation preserves it too.
LEMMA InsertStep ==
    ASSUME IInv, TypeOK', NEW i \in IntentId, NEW newRow \in Row,
           ~Exists(i), OrderAcceptsNewMutation(newRow.order),
           InsertIntent(i, newRow),
           stateVersion'[i] = 2,
           \A j \in IntentId \ {i} :
               \/ stateVersion'[j] = stateVersion[j]
               \/ stateVersion'[j] = stateVersion[j] + 1 /\ status[j] # "none",
           UNCHANGED <<resolution, worker, resolver, calls>>
    PROVE  LedgerInv'
<1> USE NullAssumption
<1>1. SnapshotCurrent'
  BY DEF IInv, SnapshotCurrent, TypeOK, InsertIntent, Exists, ResolverState
<1>2. Fresh'
  BY DEF IInv, Fresh, TypeOK, InsertIntent
<1>3. BarrierSpent'
  BY DEF IInv, BarrierSpent, OneCaller, Fresh, TypeOK, InsertIntent, Exists
<1>4. RowCoherent'
  BY DEF IInv, RowCoherent, TypeOK, InsertIntent, Exists
<1>5. ReservationCoherent'
  BY DEF IInv, RowCoherent, ReservationCoherent, TypeOK, InsertIntent, Exists,
         isProviderAcceptedIntent, isRetryEligibleResolution
<1>6. OneLive'
  BY DEF IInv, OneLive, TypeOK, InsertIntent, Exists, OrderAcceptsNewMutation,
         LiveOrderMutation, isProviderAcceptedIntent
<1> QED
  BY <1>1, <1>2, <1>3, <1>4, <1>5, <1>6 DEF LedgerInv

-----------------------------------------------------------------------------
(* Calls, the provider and released intents                                *)

CallInv == OneCaller /\ ProviderTruth /\ Evidence /\ Released

\* Ending or abandoning executeSubmit only takes processes away; together with
\* a transition of row i it preserves the calls' part of the invariant when a
\* release of i is backed by the provider.
LEMMA RetireStep ==
    ASSUME IInv, TypeOK',
           UNCHANGED <<calls, wire, book>>,
           \A w \in Worker : worker'[w] = worker[w] \/ worker'[w] = Idle,
           \A j \in IntentId : status[j] # "none" => status'[j] # "none",
           \A j \in IntentId : isRetryEligibleResolution(j)' =>
               isRetryEligibleResolution(j) \/ Closed(j)
    PROVE  CallInv'
<1> USE NullAssumption
<1>1. OneCaller'
  BY DEF IInv, OneCaller, Idle
<1>2. ProviderTruth'
  BY DEF IInv, ProviderTruth
<1>3. Evidence'
  BY DEF IInv, Evidence, Idle
<1>4. \A j \in IntentId : Closed(j) => Closed(j)'
  BY DEF Closed, RequestOutstanding, Idle
<1>5. Released'
  BY <1>4 DEF IInv, Released
<1> QED
  BY <1>1, <1>2, <1>3, <1>5 DEF CallInv

\* An intent about which the provider answered has no request outstanding.
LEMMA AnsweredIsQuiet ==
    ASSUME IInv, NEW i \in IntentId, book[i] # "none"
    PROVE  ~RequestOutstanding(i)
  BY DEF IInv, ProviderTruth, OneCaller, RequestOutstanding

\* The provider's own verdict of rejection closes the intent.
LEMMA RejectionCloses ==
    ASSUME IInv, NEW i \in IntentId, book[i] \in {"rejected", "cancelled"}
    PROVE  Closed(i)
  BY AnsweredIsQuiet DEF Closed

-----------------------------------------------------------------------------
(* One step per action                                                     *)

\* prepareSubmit commits a new row and its barrier.
LEMMA PrepareSubmitStep ==
    ASSUME IInv, TypeOK', NEW q \in Request, NEW i \in IntentId, prepareSubmit(q, i)
    PROVE  LedgerInv' /\ CallInv'
<1>1. LedgerInv'
  <2>1. [request |-> q, order |-> q.order, attempt |-> 1, parent |-> NoIntent, root |-> i] \in Row
    BY RequestAssumption DEF Row
  <2>2. stateVersion \in [IntentId -> Nat]
    BY DEF IInv, TypeOK
  <2> QED
    BY <2>1, <2>2, InsertStep DEF prepareSubmit
<1>2. CallInv'
  <2>1. \A j \in IntentId : isRetryEligibleResolution(j)' => isRetryEligibleResolution(j)
    BY DEF prepareSubmit, InsertIntent, IInv, TypeOK, isRetryEligibleResolution
  <2>2. \A j \in IntentId : status[j] # "none" => status'[j] # "none"
    BY DEF prepareSubmit, InsertIntent, IInv, TypeOK
  <2> QED
    BY <2>1, <2>2, RetireStep DEF prepareSubmit
<1> QED
  BY <1>1, <1>2

\* prepareRetry commits the next attempt and supersedes its parent.
LEMMA PrepareRetryStep ==
    ASSUME IInv, TypeOK', NEW q \in Request, NEW p \in IntentId, NEW i \in IntentId,
           prepareRetry(q, p, i)
    PROVE  LedgerInv' /\ CallInv'
<1>0. p # i /\ status[p] # "none"
  BY DEF prepareRetry, RetryAllowed, Exists, Terminal
<1>1. LedgerInv'
  <2>1. row[p] \in Row
    BY DEF IInv, TypeOK
  <2>2. RetryOrder(q, p) \in Order \cup {NoOrder}
    BY <2>1, RequestAssumption DEF RetryOrder, Row
  <2> DEFINE newRow == [request |-> q, order |-> RetryOrder(q, p), attempt |-> row[p].attempt + 1,
                        parent |-> p, root |-> row[p].root]
  <2>3. newRow \in Row /\ newRow.order = RetryOrder(q, p)
    BY <2>1, <2>2 DEF Row
  <2>4. /\ stateVersion'[i] = 2
        /\ \A j \in IntentId \ {i} :
              \/ stateVersion'[j] = stateVersion[j]
              \/ stateVersion'[j] = stateVersion[j] + 1 /\ status[j] # "none"
    BY <1>0 DEF prepareRetry, IInv, TypeOK
  <2>5. InsertIntent(i, newRow)
    BY DEF prepareRetry
  <2> HIDE DEF newRow
  <2>6. /\ ~Exists(i) /\ OrderAcceptsNewMutation(newRow.order)
        /\ UNCHANGED <<resolution, worker, resolver, calls>>
    BY <2>3 DEF prepareRetry, RetryAllowed
  <2> QED
    BY <2>3, <2>4, <2>5, <2>6, InsertStep
<1>2. CallInv'
  <2>1. \A j \in IntentId : isRetryEligibleResolution(j)' => isRetryEligibleResolution(j)
    BY DEF prepareRetry, InsertIntent, IInv, TypeOK, isRetryEligibleResolution
  <2>2. \A j \in IntentId : status[j] # "none" => status'[j] # "none"
    BY DEF prepareRetry, InsertIntent, IInv, TypeOK
  <2> QED
    BY <2>1, <2>2, RetireStep DEF prepareRetry
<1> QED
  BY <1>1, <1>2

\* Consuming the barrier moves the row past the barrier's version, so the
\* process that consumed it is alone with the intent.
LEMMA ConsumeStep ==
    ASSUME IInv, TypeOK', NEW w \in Worker, NEW i \in IntentId, consumeSubmitBarrier(w, i)
    PROVE  LedgerInv' /\ CallInv'
<1> USE NullAssumption
<1>1. /\ calls[i] = 0 /\ status[i] = "submitting"
      /\ \A v \in Worker : worker[v].intent # i
  BY DEF IInv, TypeOK, BarrierSpent, consumeSubmitBarrier, BarrierMatches
<1>2. SnapshotCurrent'
  BY DEF IInv, TypeOK, ResolverState, SnapshotCurrent, consumeSubmitBarrier
<1>3. Fresh' /\ RowCoherent' /\ ReservationCoherent'
  BY DEF IInv, Fresh, RowCoherent, ReservationCoherent, consumeSubmitBarrier,
         isProviderAcceptedIntent, isRetryEligibleResolution
<1>4. BarrierSpent'
  BY <1>1 DEF IInv, TypeOK, BarrierSpent, consumeSubmitBarrier, BarrierMatches
<1>5. OneLive'
  BY DEF IInv, OneLive, consumeSubmitBarrier, LiveOrderMutation, isProviderAcceptedIntent
<1>6. OneCaller'
  BY <1>1 DEF IInv, TypeOK, OneCaller, consumeSubmitBarrier
<1>7. ProviderTruth' /\ Evidence'
  BY DEF IInv, TypeOK, ProviderTruth, Evidence, consumeSubmitBarrier
<1>8. Released'
  BY <1>1 DEF IInv, TypeOK, Released, Closed, RequestOutstanding, consumeSubmitBarrier,
              isRetryEligibleResolution
<1> QED
  BY <1>2, <1>3, <1>4, <1>5, <1>6, <1>7, <1>8 DEF LedgerInv, CallInv

\* Steps that leave the ledger's rows, the barriers and the calls alone and
\* take no new intent to a process preserve the ledger's part.
LEMMA LedgerFrame ==
    ASSUME IInv, UNCHANGED <<ledger, barrier, resolver>>,
           \A i \in IntentId : calls'[i] = 0 \/ calls'[i] = calls[i]
                \/ \E w \in Worker : worker[w].intent = i,
           \A w \in Worker : worker'[w].intent \in {NoIntent, worker[w].intent}
    PROVE  LedgerInv'
<1> USE NullAssumption
<1>1. SnapshotCurrent' /\ RowCoherent'
  BY DEF IInv, SnapshotCurrent, RowCoherent, ledger
<1>2. ReservationCoherent'
  BY DEF IInv, ReservationCoherent, ledger, isProviderAcceptedIntent, isRetryEligibleResolution
<1>3. Fresh'
  BY DEF IInv, Fresh, OneCaller, ledger
<1>4. BarrierSpent'
  BY DEF IInv, BarrierSpent, ledger
<1>5. OneLive'
  BY DEF IInv, OneLive, LiveOrderMutation, isProviderAcceptedIntent, ledger
<1> QED
  BY <1>1, <1>2, <1>3, <1>4, <1>5 DEF LedgerInv

\* The call goes out: from now on the request is on the wire.
LEMMA CallStep ==
    ASSUME IInv, TypeOK', NEW w \in Worker, callProvider(w)
    PROVE  LedgerInv' /\ CallInv'
<1> USE NullAssumption
<1> DEFINE i == worker[w].intent
<1>1. /\ i \in IntentId /\ calls[i] = 0
      /\ \A v \in Worker : worker[v].intent = i => v = w
  BY DEF IInv, OneCaller, callProvider
<1>2. RequestOutstanding(i)
  BY DEF callProvider, RequestOutstanding
<1>3. ~isRetryEligibleResolution(i)
  BY <1>1, <1>2 DEF IInv, Released, Closed
<1>4. LedgerInv'
  <2>1. \A v \in Worker : worker'[v].intent \in {NoIntent, worker[v].intent}
    BY DEF IInv, TypeOK, callProvider
  <2>2. \A j \in IntentId : calls'[j] = 0 \/ calls'[j] = calls[j]
                \/ \E v \in Worker : worker[v].intent = j
    BY DEF IInv, TypeOK, callProvider
  <2> QED
    BY <2>1, <2>2, LedgerFrame DEF callProvider
<1>5. OneCaller'
  BY <1>1 DEF IInv, TypeOK, OneCaller, callProvider, ledger
<1>6. ProviderTruth'
  BY <1>1 DEF IInv, TypeOK, ProviderTruth, callProvider
<1>7. Evidence'
  BY <1>1 DEF IInv, TypeOK, Evidence, callProvider
<1>8. Released'
  BY <1>1, <1>3 DEF IInv, TypeOK, Released, Closed, RequestOutstanding, callProvider,
              isRetryEligibleResolution, ledger
<1> QED
  BY <1>4, <1>5, <1>6, <1>7, <1>8 DEF CallInv

\* Inside executeSubmit after the call, only the process's own record moves.
LEMMA AnswerStep ==
    ASSUME IInv, TypeOK', NEW w \in Worker,
           NEW o \in {"uncertain", worker[w].outcome} \cup SubmitOutcomes(worker[w].intent),
           NEW pc \in {"answered", "persisted"},
           \/ worker[w].pc = "waiting" /\ o \in SubmitOutcomes(worker[w].intent)
           \/ worker[w].pc = "answered" /\ o \in {"uncertain", worker[w].outcome},
           worker' = [worker EXCEPT ![w] = [pc |-> pc, intent |-> worker[w].intent, outcome |-> o]],
           UNCHANGED <<ledger, barrier, resolver, wire, calls, book>>
    PROVE  LedgerInv' /\ CallInv'
<1> USE NullAssumption
<1>1. worker[w].intent \in IntentId
  BY DEF IInv, OneCaller
<1>2. LedgerInv'
  <2>1. \A v \in Worker : worker'[v].intent \in {NoIntent, worker[v].intent}
    BY DEF IInv, TypeOK
  <2> QED
    BY <2>1, LedgerFrame
<1>3. OneCaller' /\ ProviderTruth'
  BY <1>1 DEF IInv, TypeOK, OneCaller, ProviderTruth, ledger
<1>4. Evidence'
  BY <1>1 DEF IInv, TypeOK, Evidence, SubmitOutcomes, StatusClasses
<1>5. Released'
  BY <1>1 DEF IInv, TypeOK, Released, Closed, RequestOutstanding, isRetryEligibleResolution, ledger
<1> QED
  BY <1>2, <1>3, <1>4, <1>5 DEF CallInv

\* applyOutcome moves the intent by the outcome the process holds, or not at
\* all when recovery or a resolution was faster.
LEMMA ApplyStep ==
    ASSUME IInv, TypeOK', NEW w \in Worker, applyOutcome(w)
    PROVE  LedgerInv' /\ CallInv'
<1> USE NullAssumption
<1>0. PICK i \in IntentId : i = worker[w].intent
  BY DEF IInv, OneCaller, applyOutcome
<1>1. PICK to : to = OutcomeStatus(worker[w].outcome)
  OBVIOUS
<1>2. \A v \in Worker : worker'[v] = worker[v] \/ worker'[v] = Idle
  BY DEF IInv, TypeOK, applyOutcome
<1>3. UNCHANGED <<receipts, barrier, resolver, wire, calls, book>>
  BY DEF applyOutcome
<1>4. CASE UNCHANGED ledger
  <2>1. \A v \in Worker : worker'[v].intent \in {NoIntent, worker[v].intent}
    BY <1>2 DEF Idle
  <2>2. LedgerInv'
    BY <1>3, <1>4, <2>1, LedgerFrame
  <2>3. CallInv'
    <3>1. \A j \in IntentId : isRetryEligibleResolution(j)' => isRetryEligibleResolution(j)
      BY <1>4 DEF isRetryEligibleResolution, ledger
    <3> QED
      BY <1>2, <1>3, <1>4, <3>1, RetireStep DEF ledger
  <2> QED
    BY <2>2, <2>3
<1>5. CASE CanTransition(i, stateVersion[i], to, "none") /\ transitionIntent(i, to, "none")
  <2>1. to \in {"confirmed", "rejected", "uncertain"} /\ "none" \in Resolution
    BY <1>1 DEF OutcomeStatus, Resolution
  <2>2. \/ status[i] = "submitting"
        \/ status[i] = "uncertain" /\ to \in {"uncertain", "reconciled"}
        \/ status[i] \in {"confirmed", "rejected"} /\ to = status[i]
    BY <1>5, <2>1 DEF CanTransition, StateGuard
  <2>3. LedgerInv'
    BY <1>2, <1>3, <1>5, <2>1, <2>2, TransitionStep
  <2>4. isRetryEligibleResolution(i)' => Closed(i)
    <3>1. SUFFICES ASSUME isRetryEligibleResolution(i)' PROVE Closed(i)
      OBVIOUS
    <3>2. to = "rejected"
      BY <1>5, <2>1, <3>1 DEF IInv, TypeOK, transitionIntent, isRetryEligibleResolution
    <3>3. worker[w].outcome = "rejected" /\ worker[w].pc = "persisted"
      BY <1>1, <3>2 DEF OutcomeStatus, applyOutcome
    <3> QED
      BY <1>0, <3>3, RejectionCloses DEF IInv, Evidence
  <2>5. \A j \in IntentId : isRetryEligibleResolution(j)' => isRetryEligibleResolution(j) \/ Closed(j)
    BY <1>5, <2>4 DEF IInv, TypeOK, transitionIntent, isRetryEligibleResolution
  <2>6. \A j \in IntentId : status[j] # "none" => status'[j] # "none"
    BY <1>5, <2>1 DEF IInv, TypeOK, transitionIntent
  <2>7. CallInv'
    BY <1>2, <1>3, <2>5, <2>6, RetireStep
  <2> QED
    BY <2>3, <2>7
<1> QED
  BY <1>0, <1>1, <1>4, <1>5 DEF applyOutcome

\* Reconciliation, the operator and recovery: a transition of an unresolved
\* row whose release, if any, is closed at the provider.
LEMMA ResolveStep ==
    ASSUME IInv, TypeOK', NEW i \in IntentId, NEW to \in {"uncertain", "reconciled"},
           NEW res \in Resolution, to = "reconciled" <=> res # "none",
           status[i] \in {"submitting", "uncertain"},
           res \in {"provider_rejected", "provider_absent"} => Closed(i),
           transitionIntent(i, to, res),
           \A r \in Resolver : resolver'[r] = resolver[r] \/ resolver'[r] = NoSnapshot,
           UNCHANGED <<receipts, barrier, worker, wire, calls, book>>
    PROVE  LedgerInv' /\ CallInv'
<1>1. LedgerInv'
  BY TransitionStep
<1>2. \A j \in IntentId : isRetryEligibleResolution(j)' => isRetryEligibleResolution(j) \/ Closed(j)
  BY DEF IInv, TypeOK, transitionIntent, isRetryEligibleResolution
<1>3. \A j \in IntentId : status[j] # "none" => status'[j] # "none"
  BY DEF IInv, TypeOK, transitionIntent
<1>4. CallInv'
  BY <1>2, <1>3, RetireStep
<1> QED
  BY <1>1, <1>4

\* Steps of a resolver or of the provider that touch no row of the ledger.
LEMMA SnapshotFrame ==
    ASSUME IInv, UNCHANGED <<ledger, barrier, worker, calls, wire, book>>, TypeOK'
    PROVE  Fresh' /\ BarrierSpent' /\ RowCoherent' /\ ReservationCoherent' /\ OneLive' /\ CallInv'
<1>1. Fresh' /\ BarrierSpent' /\ RowCoherent'
  BY DEF IInv, Fresh, BarrierSpent, RowCoherent, ledger
<1>2. ReservationCoherent' /\ OneLive'
  BY DEF IInv, ReservationCoherent, OneLive, LiveOrderMutation, isProviderAcceptedIntent,
         isRetryEligibleResolution, ledger
<1>3. \A j \in IntentId : isRetryEligibleResolution(j)' => isRetryEligibleResolution(j)
  BY DEF isRetryEligibleResolution, ledger
<1>4. CallInv'
  BY <1>3, RetireStep DEF ledger
<1> QED
  BY <1>1, <1>2, <1>4

\* The provider's side of an exchange: the ledger does not see it, and an
\* intent that was released has no exchange left.
LEMMA ProviderStep ==
    ASSUME IInv, TypeOK', NEW i \in IntentId, NEW b \in Book, RequestOutstanding(i) \/ b # "accepted",
           \/ i \in wire /\ wire' = wire \ {i} /\ (b = "none" \/ b \in {"accepted", "rejected"})
           \/ book[i] = "accepted" /\ b = "cancelled" /\ wire' = wire,
           book' = [book EXCEPT ![i] = b],
           UNCHANGED <<ledger, receipts, barrier, worker, resolver, calls>>
    PROVE  LedgerInv' /\ CallInv'
<1> USE NullAssumption
<1>1. LedgerInv'
  BY LedgerFrame
<1>2. OneCaller'
  BY DEF IInv, OneCaller, ledger
<1>3. ProviderTruth'
  BY DEF IInv, TypeOK, ProviderTruth
<1>4. Evidence'
  BY DEF IInv, TypeOK, OneCaller, ProviderTruth, Evidence
<1>5. Released'
  BY DEF IInv, TypeOK, Released, Closed, RequestOutstanding, isRetryEligibleResolution, ledger
<1> QED
  BY <1>1, <1>2, <1>3, <1>4, <1>5 DEF CallInv

-----------------------------------------------------------------------------
(* The inductive invariant                                                 *)

\* The invariant holds before the first submission.
LEMMA InitInv == Init => IInv
<1> SUFFICES ASSUME Init PROVE IInv
  OBVIOUS
<1> USE NullAssumption
<1>1. TypeOK
  BY DEF Init, TypeOK, NoRow, Row, Idle, WorkerState, NoSnapshot, ResolverState, Status, Resolution,
         ReservationState, Outcome, Book
<1>2. SnapshotCurrent /\ Fresh /\ BarrierSpent /\ OneCaller /\ ProviderTruth /\ Evidence
  BY DEF Init, NoRow, Idle, NoSnapshot, SnapshotCurrent, Fresh, BarrierSpent, OneCaller, ProviderTruth, Evidence
<1>3. RowCoherent /\ ReservationCoherent /\ Released /\ OneLive
  BY DEF Init, RowCoherent, ReservationCoherent, Released, OneLive, LiveOrderMutation, Unresolved,
         isProviderAcceptedIntent, isRetryEligibleResolution
<1> QED
  BY <1>1, <1>2, <1>3 DEF IInv

\* Every step of every actor preserves it.
LEMMA NextInv == IInv /\ [Next]_vars => IInv'
<1> SUFFICES ASSUME IInv, [Next]_vars PROVE IInv'
  OBVIOUS
<1> USE NullAssumption
<1>1. CASE UNCHANGED vars
  BY <1>1 DEF vars, IInv, TypeOK, SnapshotCurrent, Fresh, BarrierSpent, OneCaller, ProviderTruth, Evidence,
         RowCoherent, ReservationCoherent, Released, Closed, RequestOutstanding, OneLive, LiveOrderMutation,
         isProviderAcceptedIntent, isRetryEligibleResolution
<1>2. CASE Next
  <2>0. TypeOK'
    BY <1>2, TypeStep DEF IInv
  <2> SUFFICES LedgerInv' /\ CallInv'
    BY <2>0 DEF IInv, LedgerInv, CallInv
  <2>1. ASSUME NEW q \in Request, NEW i \in IntentId, prepareSubmit(q, i)
        PROVE  LedgerInv' /\ CallInv'
    BY <2>0, <2>1, PrepareSubmitStep
  <2>2. ASSUME NEW q \in Request, NEW p \in IntentId, NEW i \in IntentId, prepareRetry(q, p, i)
        PROVE  LedgerInv' /\ CallInv'
    BY <2>0, <2>2, PrepareRetryStep
  <2>3. ASSUME NEW w \in Worker, NEW i \in IntentId, consumeSubmitBarrier(w, i)
        PROVE  LedgerInv' /\ CallInv'
    BY <2>0, <2>3, ConsumeStep
  <2>4. ASSUME NEW w \in Worker, callProvider(w)
        PROVE  LedgerInv' /\ CallInv'
    BY <2>0, <2>4, CallStep
  <2>5. ASSUME NEW w \in Worker, receiveOutcome(w)
        PROVE  LedgerInv' /\ CallInv'
    <3>1. PICK o \in SubmitOutcomes(worker[w].intent) :
             worker' = [worker EXCEPT ![w] = [pc |-> "answered", intent |-> worker[w].intent, outcome |-> o]]
      BY <2>5 DEF receiveOutcome
    <3> QED
      BY <2>0, <2>5, <3>1, AnswerStep DEF receiveOutcome
  <2>6. ASSUME NEW w \in Worker, persistReceipt(w)
        PROVE  LedgerInv' /\ CallInv'
    <3>1. PICK o \in {"uncertain", worker[w].outcome} :
             worker' = [worker EXCEPT ![w] = [pc |-> "persisted", intent |-> worker[w].intent, outcome |-> o]]
      BY <2>6 DEF persistReceipt
    <3> QED
      BY <2>0, <2>6, <3>1, AnswerStep DEF persistReceipt
  <2>7. ASSUME NEW w \in Worker, applyOutcome(w)
        PROVE  LedgerInv' /\ CallInv'
    BY <2>0, <2>7, ApplyStep
  <2>8. ASSUME NEW w \in Worker, WorkerCrash(w)
        PROVE  LedgerInv' /\ CallInv'
    <3>1. \A v \in Worker : worker'[v] = worker[v] \/ worker'[v] = Idle
      BY <2>8 DEF WorkerCrash, IInv, TypeOK
    <3>2. \A v \in Worker : worker'[v].intent \in {NoIntent, worker[v].intent}
      BY <3>1 DEF Idle
    <3>3. \A j \in IntentId : isRetryEligibleResolution(j)' => isRetryEligibleResolution(j)
      BY <2>8 DEF WorkerCrash, isRetryEligibleResolution, ledger
    <3> QED
      BY <2>0, <2>8, <3>1, <3>2, <3>3, LedgerFrame, RetireStep DEF WorkerCrash, ledger
  <2>9. ASSUME NEW r \in Resolver, NEW i \in IntentId, requireIntent(r, i)
        PROVE  LedgerInv' /\ CallInv'
    <3>1. SnapshotCurrent'
      BY <2>9 DEF requireIntent, IInv, TypeOK, SnapshotCurrent, RowCoherent, Unresolved, ledger
    <3> QED
      BY <2>0, <2>9, <3>1, SnapshotFrame DEF requireIntent, LedgerInv
  <2>10. ASSUME NEW r \in Resolver, recordReconciliationObservation(r)
         PROVE  LedgerInv' /\ CallInv'
    <3> DEFINE i == resolver[r].intent
    <3>1. i \in IntentId
      BY <2>10 DEF recordReconciliationObservation, IInv, TypeOK, ResolverState
    <3>2. \A s \in Resolver : resolver'[s] = resolver[s] \/ resolver'[s] = NoSnapshot
      BY <2>10 DEF recordReconciliationObservation, IInv, TypeOK
    <3>3. CASE UNCHANGED ledger
      <4>1. SnapshotCurrent'
        BY <3>2, <3>3 DEF IInv, SnapshotCurrent, NoSnapshot, ledger
      <4> QED
        BY <2>0, <2>10, <3>3, <4>1, SnapshotFrame DEF recordReconciliationObservation, LedgerInv
    <3>4. ASSUME NEW res \in ObservedResolutions(i),
                 CanTransition(i, resolver[r].version, "reconciled", res),
                 transitionIntent(i, "reconciled", res)
          PROVE  LedgerInv' /\ CallInv'
      <4>1. res \in Resolution \ {"none"} /\ res # "provider_absent"
        BY DEF ObservedResolutions, Resolution
      <4>2. res = "provider_rejected" => Closed(i)
        BY <3>1, RejectionCloses DEF ObservedResolutions, StatusClasses
      <4>3. status[i] \in {"submitting", "uncertain"}
        BY <3>1, <3>4 DEF CanTransition, IInv, SnapshotCurrent
      <4> QED
        BY <2>0, <2>10, <3>1, <3>2, <3>4, <4>1, <4>2, <4>3, ResolveStep DEF recordReconciliationObservation
    <3> QED
      BY <2>10, <3>3, <3>4 DEF recordReconciliationObservation
  <2>11. ASSUME NEW r \in Resolver, resolveByOperator(r)
         PROVE  LedgerInv' /\ CallInv'
    <3> DEFINE i == resolver[r].intent
    <3>1. i \in IntentId
      BY <2>11 DEF resolveByOperator, IInv, TypeOK, ResolverState
    <3>2. \A s \in Resolver : resolver'[s] = resolver[s] \/ resolver'[s] = NoSnapshot
      BY <2>11 DEF resolveByOperator, IInv, TypeOK
    <3>3. PICK res \in OperatorEvidence(i) :
                 CanTransition(i, resolver[r].version, "reconciled", res)
                 /\ transitionIntent(i, "reconciled", res)
      BY <2>11 DEF resolveByOperator
    <3>4. res \in Resolution \ {"none"}
      BY DEF OperatorEvidence, ObservedResolutions, Resolution
    <3>5. res \in {"provider_rejected", "provider_absent"} => Closed(i)
      BY <3>1, RejectionCloses DEF OperatorEvidence, ObservedResolutions, StatusClasses, Closed
    <3>6. status[i] \in {"submitting", "uncertain"}
      BY <3>1, <3>3 DEF CanTransition, IInv, SnapshotCurrent
    <3> QED
      BY <2>0, <2>11, <3>1, <3>2, <3>3, <3>4, <3>5, <3>6, ResolveStep DEF resolveByOperator
  <2>12. ASSUME NEW i \in IntentId, recoverAfterRestart(i)
         PROVE  LedgerInv' /\ CallInv'
    <3>1. "none" \in Resolution
      BY DEF Resolution
    <3> QED
      BY <2>0, <2>12, <3>1, ResolveStep DEF recoverAfterRestart
  <2>13. ASSUME NEW i \in IntentId, NEW b \in {"accepted", "rejected"}, ProviderAnswers(i, b)
         PROVE  LedgerInv' /\ CallInv'
    BY <2>0, <2>13, ProviderStep DEF ProviderAnswers, RequestOutstanding, Book
  <2>14. ASSUME NEW i \in IntentId, RequestLost(i)
         PROVE  LedgerInv' /\ CallInv'
    <3>1. book[i] = "none" /\ book' = [book EXCEPT ![i] = "none"]
      BY <2>14 DEF RequestLost, IInv, TypeOK, ProviderTruth
    <3> QED
      BY <2>0, <2>14, <3>1, ProviderStep DEF RequestLost, Book
  <2>15. ASSUME NEW i \in IntentId, ProviderCancels(i)
         PROVE  LedgerInv' /\ CallInv'
    BY <2>0, <2>15, ProviderStep DEF ProviderCancels, Book
  <2> QED
    BY <1>2, <2>1, <2>2, <2>3, <2>4, <2>5, <2>6, <2>7, <2>8, <2>9, <2>10, <2>11, <2>12,
       <2>13, <2>14, <2>15 DEF Next
<1> QED
  BY <1>1, <1>2

-----------------------------------------------------------------------------
(* Theorems                                                                *)

\* The inductive invariant holds in every reachable state.
THEOREM Invariance == Spec => []IInv
<1>1. Init => IInv
  BY InitInv
<1>2. IInv /\ [Next]_vars => IInv'
  BY NextInv
<1> QED
  BY <1>1, <1>2, PTL DEF Spec

\* The columns of the ledger and the records of its processes keep their
\* types, whatever transactions, crashes and provider answers interleave.
THEOREM TypeCorrect == Spec => []TypeOK
<1>1. IInv => TypeOK
  BY DEF IInv
<1> QED
  BY <1>1, Invariance, PTL

\* executeSubmit invokes the provider at most once per intent, however many
\* processes present the barrier.
THEOREM SingleCall == Spec => []AtMostOneProviderCall
<1>1. IInv => AtMostOneProviderCall
  <2> SUFFICES ASSUME IInv, NEW i \in IntentId
      PROVE  /\ calls[i] <= 1
             /\ calls[i] = 1 => \A w \in Worker : worker[w].intent = i => worker[w].pc # "calling"
    BY DEF AtMostOneProviderCall
  <2> QED
    BY DEF IInv, OneCaller
<1> QED
  BY <1>1, Invariance, PTL

\* The reservation and the intent always agree, so the exposure that is
\* counted is the exposure of the unresolved intents.
THEOREM Coherent == Spec => []ReservationCoherent
<1>1. IInv => ReservationCoherent
  BY DEF IInv
<1> QED
  BY <1>1, Invariance, PTL

\* Exposure is released only for intents that are closed at the provider and
\* can no longer reach it.
THEOREM ReleaseIsSafe == Spec => []ReleasedMeansNotWorking
<1>1. IInv => ReleasedMeansNotWorking
  BY DEF IInv, ReservationCoherent, Released, Closed, ReleasedMeansNotWorking
<1> QED
  BY <1>1, Invariance, PTL

\* A managed order never has two open orders at the provider.
THEOREM NoDoubleOrder == Spec => []NoDoubleWorkingOrder
<1>1. IInv => NoDoubleWorkingOrder
  <2> SUFFICES ASSUME IInv PROVE NoDoubleWorkingOrder
    OBVIOUS
  <2>1. \A i \in IntentId : book[i] = "accepted" => status[i] # "none" /\ ~isRetryEligibleResolution(i)
    BY DEF IInv, ProviderTruth, Fresh, Released, Closed
  <2>2. \A i \in IntentId : book[i] = "accepted" => LiveOrderMutation(i)
    BY <2>1 DEF IInv, TypeOK, RowCoherent, LiveOrderMutation, isProviderAcceptedIntent,
            isRetryEligibleResolution, Status, Unresolved, Terminal, Resolution
  <2> QED
    BY <2>2 DEF IInv, OneLive, NoDoubleWorkingOrder
<1> QED
  BY <1>1, Invariance, PTL

\* What a step may do to a resolved row.
Kept == \A i \in IntentId : status[i] \in Terminal =>
            /\ status'[i] = status[i]
            /\ resolution'[i] = resolution[i]
            /\ reservation'[i] = reservation[i]

\* A transition of a row that is unresolved, or keeps its status without a
\* resolution, changes no resolved row.
LEMMA TransitionKeeps ==
    ASSUME IInv, NEW i \in IntentId, NEW to, NEW res, transitionIntent(i, to, res),
           \/ status[i] \in Unresolved
           \/ status[i] \in {"confirmed", "rejected"} /\ to = status[i] /\ res = "none"
    PROVE  Kept
<1>1. \A j \in IntentId \ {i} : /\ status'[j] = status[j]
                              /\ resolution'[j] = resolution[j]
                              /\ reservation'[j] = reservation[j]
  BY DEF transitionIntent, IInv, TypeOK
<1>2. CASE status[i] \in Unresolved
  BY <1>1, <1>2 DEF Kept, Unresolved, Terminal
<1>3. CASE status[i] \in {"confirmed", "rejected"} /\ to = status[i] /\ res = "none"
  <2>1. status'[i] = status[i] /\ resolution'[i] = resolution[i]
    BY <1>3 DEF transitionIntent, IInv, TypeOK, RowCoherent
  <2>2. reservation'[i] = reservation[i]
    BY <1>3 DEF transitionIntent, IInv, TypeOK, ReservationCoherent, ReservationAfter,
                isProviderAcceptedIntent, isRetryEligibleResolution
  <2> QED
    BY <1>1, <2>1, <2>2 DEF Kept
<1> QED
  BY <1>2, <1>3

\* No step touches what a resolved row says.
LEMMA StepKeeps == IInv /\ [Next]_vars => [Kept]_vars
<1> SUFFICES ASSUME IInv, Next PROVE Kept
  BY DEF vars
<1> USE NullAssumption
<1>1. ASSUME NEW q \in Request, NEW i \in IntentId, prepareSubmit(q, i)
      PROVE  Kept
  BY <1>1 DEF prepareSubmit, InsertIntent, Exists, Kept, Terminal, IInv, TypeOK
<1>2. ASSUME NEW q \in Request, NEW p \in IntentId, NEW i \in IntentId, prepareRetry(q, p, i)
      PROVE  Kept
  BY <1>2 DEF prepareRetry, InsertIntent, Exists, Kept, Terminal, IInv, TypeOK
<1>3. ASSUME NEW w \in Worker, applyOutcome(w)
      PROVE  Kept
  <2>1. PICK i \in IntentId : i = worker[w].intent
    BY <1>3 DEF IInv, OneCaller, applyOutcome
  <2>2. PICK to : to = OutcomeStatus(worker[w].outcome)
    OBVIOUS
  <2>3. to \in {"confirmed", "rejected", "uncertain"}
    BY <2>2 DEF OutcomeStatus
  <2>4. CASE UNCHANGED ledger
    BY <2>4 DEF Kept, ledger
  <2>5. CASE CanTransition(i, stateVersion[i], to, "none") /\ transitionIntent(i, to, "none")
    <3>1. status[i] \in Unresolved \/ (status[i] \in {"confirmed", "rejected"} /\ to = status[i])
      BY <2>3, <2>5 DEF CanTransition, StateGuard, Unresolved
    <3> QED
      BY <2>5, <3>1, TransitionKeeps
  <2> QED
    BY <1>3, <2>1, <2>2, <2>4, <2>5 DEF applyOutcome
<1>4. ASSUME NEW r \in Resolver,
             recordReconciliationObservation(r) \/ resolveByOperator(r)
      PROVE  Kept
  <2>1. PICK i \in IntentId : i = resolver[r].intent
    BY <1>4 DEF recordReconciliationObservation, resolveByOperator, IInv, TypeOK, ResolverState
  <2>2. CASE UNCHANGED ledger
    BY <2>2 DEF Kept, ledger
  <2>3. ASSUME NEW res, CanTransition(i, resolver[r].version, "reconciled", res),
               transitionIntent(i, "reconciled", res)
        PROVE  Kept
    <3>1. status[i] \in Unresolved
      BY <2>1, <2>3 DEF CanTransition, IInv, SnapshotCurrent, Unresolved
    <3> QED
      BY <2>3, <3>1, TransitionKeeps
  <2> QED
    BY <1>4, <2>1, <2>2, <2>3 DEF recordReconciliationObservation, resolveByOperator
<1>5. ASSUME NEW i \in IntentId, recoverAfterRestart(i)
      PROVE  Kept
  BY <1>5, TransitionKeeps DEF recoverAfterRestart, Unresolved
<1>6. ASSUME UNCHANGED <<status, resolution, reservation>>
      PROVE  Kept
  BY <1>6 DEF Kept
<1> QED
  BY <1>1, <1>2, <1>3, <1>4, <1>5, <1>6
     DEF Next, consumeSubmitBarrier, callProvider, receiveOutcome, persistReceipt, WorkerCrash,
         requireIntent, ProviderAnswers, RequestLost, ProviderCancels, ledger

\* A confirmed, rejected or reconciled intent keeps its status, resolution and
\* reservation under late outcomes, stale reads and restart recovery.
THEOREM ResolvedIsFinal == Spec => ResolvedStaysResolved
  BY StepKeeps, Invariance, PTL DEF Spec, ResolvedStaysResolved, Kept

-----------------------------------------------------------------------------
(* Retry lineages                                                          *)

\* The root of a lineage and whatever supersedes a member are rows, and the
\* lineage is a chain.
LineageInv ==
    /\ \A i \in IntentId : Exists(i) =>
          /\ row[i].root \in IntentId /\ Exists(row[i].root)
          /\ supersededBy[i] # NoIntent => Exists(supersededBy[i])
    /\ \A i \in IntentId : ~Exists(i) => supersededBy[i] = NoIntent
    /\ LineageIsChain

\* A step that inserts no row keeps the columns that make the lineages.
LEMMA NoInsertKeepsLineage ==
    ASSUME IInv, LineageInv, Kept, UNCHANGED <<row, supersededBy>>,
           \A i \in IntentId : Exists(i)' <=> Exists(i)
    PROVE  LineageInv'
<1>1. \A i \in IntentId : isRetryEligibleResolution(i) => isRetryEligibleResolution(i)'
  BY DEF Kept, Terminal, isRetryEligibleResolution
<1>2. LineageIsChain'
  BY <1>1 DEF LineageInv, LineageIsChain
<1>3. \A i \in IntentId : supersededBy[i] \in IntentId \cup {NoIntent}
  BY DEF IInv, TypeOK
<1> QED
  BY <1>2, <1>3 DEF LineageInv

\* A new root belongs to no lineage yet: every root is a row.
LEMMA SubmitKeepsLineage ==
    ASSUME IInv, LineageInv, Kept, NEW q \in Request, NEW i \in IntentId, prepareSubmit(q, i)
    PROVE  LineageInv'
<1> DEFINE newRow == [request |-> q, order |-> q.order, attempt |-> 1, parent |-> NoIntent, root |-> i]
<1>1. /\ row' = [row EXCEPT ![i] = newRow] /\ ~Exists(i) /\ UNCHANGED <<supersededBy, resolution>>
      /\ status' = [status EXCEPT ![i] = "submitting"]
  BY DEF prepareSubmit, InsertIntent
<1>2. newRow.root = i
  OBVIOUS
<1> HIDE DEF newRow
<1>3. /\ row'[i].root = i /\ Exists(i)'
      /\ \A j \in IntentId \ {i} : row'[j] = row[j] /\ (Exists(j)' <=> Exists(j))
  BY <1>1, <1>2 DEF IInv, TypeOK, Exists
<1>4. \A j \in IntentId : Exists(j) => row[j].root # i /\ supersededBy[j] # i /\ j # i
  BY <1>1, NullAssumption DEF LineageInv
<1>5. \A j \in IntentId : isRetryEligibleResolution(j) => isRetryEligibleResolution(j)'
  BY DEF Kept, Terminal, isRetryEligibleResolution
<1>6. \A j \in IntentId : supersededBy[j] \in IntentId \cup {NoIntent}
  BY DEF IInv, TypeOK
<1>7. supersededBy[i] = NoIntent
  BY <1>1 DEF LineageInv
<1>8. LineageIsChain'
  <2> SUFFICES ASSUME NEW j \in IntentId, NEW k \in IntentId,
                      Exists(j)', Exists(k)', row'[j].root = row'[k].root
               PROVE  /\ row'[j].attempt = row'[k].attempt => j = k
                      /\ row'[k].attempt > row'[j].attempt =>
                            /\ isRetryEligibleResolution(j)'
                            /\ supersededBy'[j] # NoIntent
                            /\ row'[supersededBy'[j]].attempt = row'[j].attempt + 1
    BY DEF LineageIsChain
  <2>1. CASE j = i \/ k = i
    <3>1. j = i /\ k = i
      BY <1>3, <1>4, <2>1
    <3>2. row'[i].attempt = 1
      BY <1>1 DEF newRow, IInv, TypeOK
    <3> QED
      BY <3>1, <3>2
  <2>2. CASE j # i /\ k # i
    <3>1. /\ row'[j] = row[j] /\ row'[k] = row[k] /\ Exists(j) /\ Exists(k)
          /\ supersededBy'[j] = supersededBy[j] /\ supersededBy[j] # i
      BY <1>1, <1>3, <1>4, <2>2
    <3>2. supersededBy[j] # NoIntent => row'[supersededBy[j]] = row[supersededBy[j]]
      BY <1>3, <1>6, <3>1
    <3> QED
      BY <1>5, <3>1, <3>2 DEF LineageInv, LineageIsChain
  <2> QED
    BY <2>1, <2>2
<1>9. \A j \in IntentId : Exists(j)' =>
          /\ row'[j].root \in IntentId /\ status'[row'[j].root] # "none"
          /\ supersededBy'[j] # NoIntent => status'[supersededBy'[j]] # "none"
  BY <1>1, <1>3, <1>4, <1>6, <1>7 DEF LineageInv, Exists
<1>10. \A j \in IntentId : ~Exists(j)' => supersededBy'[j] = NoIntent
  BY <1>1, <1>3 DEF LineageInv
<1> QED
  BY <1>8, <1>9, <1>10 DEF LineageInv, Exists

\* A retry extends its lineage behind the newest member, which it supersedes.
LEMMA RetryKeepsLineage ==
    ASSUME IInv, LineageInv, Kept, NEW q \in Request, NEW p \in IntentId, NEW i \in IntentId,
           prepareRetry(q, p, i)
    PROVE  LineageInv'
<1> DEFINE newRow == [request |-> q, order |-> RetryOrder(q, p), attempt |-> row[p].attempt + 1,
                      parent |-> p, root |-> row[p].root]
<1>1. /\ row' = [row EXCEPT ![i] = newRow] /\ ~Exists(i) /\ UNCHANGED resolution
      /\ status' = [status EXCEPT ![i] = "submitting"]
      /\ supersededBy' = [supersededBy EXCEPT ![p] = i]
      /\ RetryAllowed(q, p)
  BY DEF prepareRetry, InsertIntent
<1>2. newRow.root = row[p].root /\ newRow.attempt = row[p].attempt + 1
  OBVIOUS
<1> HIDE DEF newRow
<1>3. /\ row'[i] = newRow /\ Exists(i)'
      /\ \A j \in IntentId \ {i} : row'[j] = row[j] /\ (Exists(j)' <=> Exists(j))
  BY <1>1 DEF IInv, TypeOK, Exists
<1>4. /\ Exists(p) /\ supersededBy[p] = NoIntent /\ isRetryEligibleResolution(p) /\ p # i
      /\ row[p].root \in IntentId /\ Exists(row[p].root)
      /\ \A j \in IntentId : Exists(j) /\ row[j].root = row[p].root => row[j].attempt <= row[p].attempt
  BY <1>1 DEF RetryAllowed, Exists, Terminal, IsNewest, lineageMembers, LineageInv
<1>5. \A j \in IntentId : isRetryEligibleResolution(j) => isRetryEligibleResolution(j)'
  BY DEF Kept, Terminal, isRetryEligibleResolution
<1>6. /\ \A j \in IntentId : supersededBy[j] \in IntentId \cup {NoIntent} /\ row[j].attempt \in Nat
      /\ supersededBy'[p] = i /\ \A j \in IntentId \ {p} : supersededBy'[j] = supersededBy[j]
  BY <1>1 DEF IInv, TypeOK, Row
<1>7. \A j \in IntentId : Exists(j) => supersededBy[j] # i /\ j # i
  BY <1>1, NullAssumption DEF LineageInv
<1>8. LineageIsChain'
  <2> SUFFICES ASSUME NEW j \in IntentId, NEW k \in IntentId,
                      Exists(j)', Exists(k)', row'[j].root = row'[k].root
               PROVE  /\ row'[j].attempt = row'[k].attempt => j = k
                      /\ row'[k].attempt > row'[j].attempt =>
                            /\ isRetryEligibleResolution(j)'
                            /\ supersededBy'[j] # NoIntent
                            /\ row'[supersededBy'[j]].attempt = row'[j].attempt + 1
    BY DEF LineageIsChain
  <2>1. CASE j = i
    <3>1. k # i => row'[k] = row[k] /\ row[k].attempt <= row[p].attempt
      BY <1>2, <1>3, <1>4, <2>1
    <3>2. /\ row'[i].attempt = row[p].attempt + 1 /\ row[p].attempt \in Nat /\ row[k].attempt \in Nat
      BY <1>2, <1>3, <1>6
    <3> QED
      BY <2>1, <3>1, <3>2
  <2>2. CASE j # i
    <3>1. row'[j] = row[j] /\ Exists(j) /\ supersededBy[j] # i
      BY <1>3, <1>7, <2>2
    <3>2. supersededBy[j] # NoIntent => row'[supersededBy[j]] = row[supersededBy[j]]
      BY <1>3, <1>6, <3>1
    <3>3. CASE k = i
      <4>1. /\ row[j].root = row[p].root /\ row[j].attempt <= row[p].attempt
            /\ row'[k].attempt = row[p].attempt + 1
            /\ row[p].attempt \in Nat /\ row[j].attempt \in Nat
        BY <1>2, <1>3, <1>4, <1>6, <3>1, <3>3
      <4>2. CASE j = p
        BY <1>4, <1>5, <1>6, <3>1, <3>3, <4>1, <4>2, NullAssumption
      <4>3. CASE j # p
        <5>1. row[p].attempt > row[j].attempt
          BY <1>4, <3>1, <4>1, <4>3 DEF LineageInv, LineageIsChain
        <5>2. /\ isRetryEligibleResolution(j) /\ supersededBy[j] # NoIntent
              /\ row[supersededBy[j]].attempt = row[j].attempt + 1
          BY <1>4, <3>1, <4>1, <5>1 DEF LineageInv, LineageIsChain
        <5> QED
          BY <1>5, <1>6, <2>2, <3>1, <3>2, <3>3, <4>1, <4>3, <5>2
      <4> QED
        BY <4>2, <4>3
    <3>4. CASE k # i
      <4>1. row'[k] = row[k] /\ Exists(k) /\ row[j].root = row[k].root
        BY <1>3, <3>1, <3>4
      <4>2. row[j].attempt = row[k].attempt => j = k
        BY <3>1, <4>1 DEF LineageInv, LineageIsChain
      <4>3. ASSUME row[k].attempt > row[j].attempt
            PROVE  /\ isRetryEligibleResolution(j) /\ supersededBy[j] # NoIntent
                   /\ row[supersededBy[j]].attempt = row[j].attempt + 1
        BY <3>1, <4>1, <4>3 DEF LineageInv, LineageIsChain
      <4>4. row[k].attempt > row[j].attempt => j # p
        BY <1>4, <4>3
      <4> QED
        BY <1>5, <1>6, <3>1, <3>2, <4>1, <4>2, <4>3, <4>4
    <3> QED
      BY <3>3, <3>4
  <2> QED
    BY <2>1, <2>2
<1>9. \A j \in IntentId : Exists(j)' =>
          /\ row'[j].root \in IntentId /\ status'[row'[j].root] # "none"
          /\ supersededBy'[j] # NoIntent => status'[supersededBy'[j]] # "none"
  <2> SUFFICES ASSUME NEW j \in IntentId, Exists(j)'
               PROVE  /\ row'[j].root \in IntentId /\ status'[row'[j].root] # "none"
                      /\ supersededBy'[j] # NoIntent => status'[supersededBy'[j]] # "none"
    OBVIOUS
  <2>1. CASE j = i
    <3>1. supersededBy'[j] = NoIntent
      BY <1>1, <1>4, <1>6, <2>1 DEF LineageInv
    <3>2. row'[j].root = row[p].root /\ status'[row[p].root] # "none"
      BY <1>2, <1>3, <1>4, <2>1 DEF Exists
    <3> QED
      BY <1>4, <3>1, <3>2
  <2>2. CASE j # i
    <3>1. row'[j] = row[j] /\ row[j].root \in IntentId /\ Exists(row[j].root) /\ Exists(j)
      BY <1>3, <2>2 DEF LineageInv
    <3>2. status'[row[j].root] # "none"
      BY <1>3, <3>1 DEF Exists
    <3>3. supersededBy'[j] # NoIntent => status'[supersededBy'[j]] # "none"
      BY <1>1, <1>3, <1>6, <3>1 DEF LineageInv, Exists
    <3> QED
      BY <3>1, <3>2, <3>3
  <2> QED
    BY <2>1, <2>2
<1>10. \A j \in IntentId : ~Exists(j)' => supersededBy'[j] = NoIntent
  BY <1>3, <1>4, <1>6 DEF LineageInv
<1> QED
  BY <1>8, <1>9, <1>10 DEF LineageInv, Exists

\* Every step keeps the lineages.
LEMMA LineageStep == IInv /\ LineageInv /\ [Next]_vars => LineageInv'
<1> SUFFICES ASSUME IInv, LineageInv, [Next]_vars PROVE LineageInv'
  OBVIOUS
<1>1. CASE UNCHANGED vars
  BY <1>1 DEF vars, LineageInv, LineageIsChain, Exists, isRetryEligibleResolution
<1>2. CASE Next
  <2>1. Kept
    BY <1>2, StepKeeps DEF vars, Kept
  <2>2. ASSUME NEW q \in Request, NEW i \in IntentId, prepareSubmit(q, i) PROVE LineageInv'
    BY <2>1, <2>2, SubmitKeepsLineage
  <2>3. ASSUME NEW q \in Request, NEW p \in IntentId, NEW i \in IntentId, prepareRetry(q, p, i)
        PROVE  LineageInv'
    BY <2>1, <2>3, RetryKeepsLineage
  <2>4. ASSUME UNCHANGED <<row, supersededBy, status>> PROVE LineageInv'
    BY <2>1, <2>4, NoInsertKeepsLineage DEF Exists
  <2>5. ASSUME NEW i \in IntentId, status[i] # "none", NEW to \in Status \ {"none"}, NEW res,
               transitionIntent(i, to, res)
        PROVE  LineageInv'
    <3>1. \A j \in IntentId : Exists(j)' <=> Exists(j)
      BY <2>5 DEF transitionIntent, Exists, IInv, TypeOK
    <3> QED
      BY <2>1, <2>5, <3>1, NoInsertKeepsLineage DEF transitionIntent
  <2>6. ASSUME NEW w \in Worker, applyOutcome(w) PROVE LineageInv'
    <3>1. PICK i \in IntentId : i = worker[w].intent /\ status[i] # "none"
      BY <2>6 DEF IInv, OneCaller, applyOutcome
    <3>2. OutcomeStatus(worker[w].outcome) \in Status \ {"none"}
      BY DEF OutcomeStatus, Status, Unresolved, Terminal
    <3> QED
      BY <2>4, <2>5, <2>6, <3>1, <3>2 DEF applyOutcome, ledger
  <2>7. ASSUME NEW r \in Resolver, recordReconciliationObservation(r) \/ resolveByOperator(r)
        PROVE  LineageInv'
    <3>1. PICK i \in IntentId : i = resolver[r].intent /\ status[i] # "none"
      BY <2>7 DEF recordReconciliationObservation, resolveByOperator, IInv, TypeOK, ResolverState,
                  SnapshotCurrent
    <3>2. "reconciled" \in Status \ {"none"}
      BY DEF Status, Terminal
    <3> QED
      BY <2>4, <2>5, <2>7, <3>1, <3>2 DEF recordReconciliationObservation, resolveByOperator, ledger
  <2>8. ASSUME NEW i \in IntentId, recoverAfterRestart(i) PROVE LineageInv'
    <3>1. "uncertain" \in Status \ {"none"}
      BY DEF Status, Unresolved
    <3> QED
      BY <2>5, <2>8, <3>1 DEF recoverAfterRestart
  <2> QED
    BY <1>2, <2>2, <2>3, <2>4, <2>6, <2>7, <2>8
       DEF Next, consumeSubmitBarrier, callProvider, receiveOutcome, persistReceipt, WorkerCrash,
           requireIntent, ProviderAnswers, RequestLost, ProviderCancels, ledger
<1> QED
  BY <1>1, <1>2

\* However retries race with outcomes, resolutions and each other, a retry
\* lineage is a chain: one member per attempt, each but the newest definitively
\* not accepted and superseded by the next (prepareRetry, migration 0030).
THEOREM LineageChain == Spec => []LineageIsChain
<1>1. Init => LineageInv
  BY DEF Init, LineageInv, LineageIsChain, Exists
<1>2. LineageInv => LineageIsChain
  BY DEF LineageInv
<1> QED
  BY <1>1, <1>2, LineageStep, Invariance, PTL DEF Spec

-----------------------------------------------------------------------------
(* The reconciliation service.  What a run found is left open here: matching *)
(* the two books folds over data.  When runs start, and what a review may    *)
(* turn a run into, does not depend on it.                                   *)

\* A session that has the advisory lock.
Holding(r) == session[r].pc \in {"locked", "snapshot"}

RunFields == {"started", "reached", "seen", "status", "health", "orderPairs", "positionPairs",
              "findings", "recorded"}

\* A committed run: a record with its fields, started in the past, and never of
\* any other health than provider_unavailable when it reached no provider.
RunFits(run, now) ==
    /\ run = [field \in RunFields |-> run[field]]
    /\ run.started \in Nat /\ run.started <= now
    /\ run.reached \in BOOLEAN
    /\ ~run.reached => run.health = "provider_unavailable"

RunsFit == \A i \in DOMAIN runs : RunFits(runs[i], time.clock)

\* What a session knows at each place, the holder of the lock that every
\* committed run lies a window before its own start.
SessionFits(r) ==
    /\ session[r].pc \in {"idle", "waiting", "locked", "snapshot"}
    /\ session[r].pc = "waiting" => session[r].began \in Nat /\ session[r].began <= time.clock
    /\ Holding(r) => /\ session[r].started \in Nat /\ session[r].started <= time.clock
                     /\ \A i \in DOMAIN runs : runs[i].started + Window <= session[r].started
    /\ session[r].pc = "snapshot" => session[r].reached \in BOOLEAN

ReconCore ==
    /\ \E S : runs \in Seq(S)
    /\ time = [clock |-> time.clock, reviews |-> time.reviews, drifts |-> time.drifts]
    /\ time.clock \in Nat
    /\ DOMAIN session = Reconcilers
    /\ RunsFit /\ RunsAreSpaced
    /\ \A r \in Reconcilers : SessionFits(r)
    /\ \A r, x \in Reconcilers : Holding(r) /\ Holding(x) => r = x

\* A profile starts without runs.
LEMMA ReconInitInv == ReconInit => ReconCore
<1> SUFFICES ASSUME ReconInit PROVE ReconCore OBVIOUS
<1>1. runs \in Seq({}) /\ DOMAIN runs = {} BY DEF ReconInit
<1>2. \A r \in Reconcilers : session[r].pc = "idle" BY DEF ReconInit, NoSession
<1>3. \A r \in Reconcilers : ~Holding(r) /\ SessionFits(r) BY <1>2 DEF Holding, SessionFits
<1>4. RunsFit /\ RunsAreSpaced BY <1>1 DEF RunsFit, RunsAreSpaced
<1> QED BY <1>1, <1>3, <1>4 DEF ReconInit, ReconCore

\* The runs stay, and one session moves on.
LEMMA SessionMove ==
    ASSUME ReconCore, NEW r \in Reconcilers, NEW s, session' = [session EXCEPT ![r] = s],
           runs' = runs, time' = time, SessionFits(r)',
           Holding(r)' => Holding(r) \/ \A x \in Reconcilers : ~Holding(x)
    PROVE  ReconCore'
<1>1. \A x \in Reconcilers \ {r} : session'[x] = session[x] BY DEF ReconCore
<1>2. \A x \in Reconcilers \ {r} : SessionFits(x)' /\ (Holding(x)' <=> Holding(x))
  BY <1>1 DEF ReconCore, SessionFits, Holding
<1>3. \A x \in Reconcilers : SessionFits(x)' BY <1>2
<1>4. \A x, y \in Reconcilers : Holding(x)' /\ Holding(y)' => x = y BY <1>2 DEF ReconCore
<1>5. RunsFit' /\ RunsAreSpaced' BY DEF ReconCore, RunsFit, RunFits, RunsAreSpaced
<1>6. DOMAIN session' = Reconcilers BY DEF ReconCore
<1> QED BY <1>3, <1>4, <1>5, <1>6 DEF ReconCore

\* A transaction begins at the instant it began.
LEMMA BeginRunInv == ASSUME ReconCore, NEW r \in Reconcilers, beginRun(r) PROVE ReconCore'
<1>1. session'[r] = [pc |-> "waiting", began |-> time.clock] BY DEF ReconCore, beginRun
<1>2. SessionFits(r)' /\ ~Holding(r)' BY <1>1 DEF SessionFits, Holding, ReconCore, beginRun
<1> QED BY <1>2, SessionMove DEF beginRun

\* With the lock the duplicate check has seen every committed run: the session
\* began no later than now, so a run that is a window older than its beginning is
\* a window older than the start it records.
LEMMA AcquireLockInv ==
    ASSUME ReconciliationAssumption, ReconCore, NEW r \in Reconcilers, acquireLock(r) PROVE ReconCore'
<1>1. /\ session[r].began \in Nat /\ session[r].began <= time.clock /\ time.clock \in Nat /\ Window \in Nat
      /\ \A x \in Reconcilers : ~Holding(x)
      /\ \A x \in Reconcilers : session[x].pc \in {"idle", "waiting", "locked", "snapshot"}
  BY DEF ReconCore, acquireLock, SessionFits, Holding, lockFree, ReconciliationAssumption
<1>2. CASE RecentRun(session[r].began)
  <2>1. session' = [session EXCEPT ![r] = NoSession] /\ session'[r].pc = "idle"
    BY <1>2 DEF acquireLock, ReconCore, NoSession
  <2>2. SessionFits(r)' /\ ~Holding(r)' BY <2>1 DEF SessionFits, Holding
  <2> QED BY <2>1, <2>2, SessionMove DEF acquireLock
<1>3. CASE ~RecentRun(session[r].began)
  <2> DEFINE s == [pc |-> "locked", started |-> time.clock]
  <2>1. session' = [session EXCEPT ![r] = s] /\ session'[r] = s BY <1>3 DEF acquireLock, ReconCore
  <2>2. \A i \in DOMAIN runs : runs[i].started + Window <= time.clock
    <3> SUFFICES ASSUME NEW i \in DOMAIN runs PROVE runs[i].started + Window <= time.clock OBVIOUS
    <3>1. runs[i].started \in Nat BY DEF ReconCore, RunsFit, RunFits
    <3>2. ~(runs[i].started > session[r].began - Window) BY <1>3 DEF RecentRun
    <3> QED BY <3>1, <3>2, <1>1
  <2>3. SessionFits(r)' BY <2>1, <2>2, <1>1 DEF SessionFits, Holding, acquireLock
  <2> QED BY <2>1, <2>3, <1>1, SessionMove DEF acquireLock
<1> QED BY <1>2, <1>3

\* The snapshot keeps the start of the run.
LEMMA SnapshotInv ==
    ASSUME ReconCore, NEW r \in Reconcilers, NEW reached \in BOOLEAN, getSnapshot(r, reached) PROVE ReconCore'
<1> DEFINE s == [pc |-> "snapshot", started |-> session[r].started, reached |-> reached,
                 placed |-> IF reached THEN books.placed ELSE EmptyBook,
                 open |-> IF reached THEN books.open ELSE EmptyBook]
<1>1. session' = [session EXCEPT ![r] = s] BY DEF getSnapshot
<1>2. session'[r] = s BY <1>1 DEF ReconCore
<1> HIDE DEF s
<1>3. s.pc = "snapshot" /\ s.started = session[r].started /\ s.reached = reached BY DEF s
<1>4. Holding(r) BY DEF getSnapshot, Holding
<1>5. SessionFits(r)' BY <1>2, <1>3, <1>4 DEF SessionFits, Holding, ReconCore, getSnapshot
<1> QED BY <1>1, <1>4, <1>5, SessionMove DEF getSnapshot

\* A run that is rolled back leaves nothing.
LEMMA AbandonInv == ASSUME ReconCore, NEW r \in Reconcilers, abandonRun(r) PROVE ReconCore'
<1>1. session' = [session EXCEPT ![r] = NoSession] /\ session'[r].pc = "idle"
  BY DEF abandonRun, ReconCore, NoSession
<1>2. SessionFits(r)' /\ ~Holding(r)' BY <1>1 DEF SessionFits, Holding
<1> QED BY <1>1, <1>2, SessionMove DEF abandonRun

\* A run's health when it reached no provider, whatever it found.
LEMMA UnreachedHealth == \A findings : RunHealth(FALSE, findings) = "provider_unavailable"
BY DEF RunHealth

\* The run of the lock's holder is committed: it lies a window after all others.
LEMMA FinishInv ==
    ASSUME ReconciliationAssumption, ReconCore, NEW r \in Reconcilers, finishRun(r) PROVE ReconCore'
<1>1. PICK run : /\ runs' = Append(runs, run)
                 /\ run = [field \in RunFields |-> run[field]]
                 /\ run.started = session[r].started /\ run.reached = session[r].reached
                 /\ \E findings : run.health = RunHealth(session[r].reached, findings)
  <2>1. PICK seen, status1, orderPairs, positionPairs, findings, recorded :
           runs' = Append(runs, [started |-> session[r].started, reached |-> session[r].reached, seen |-> seen,
                       status |-> status1, health |-> RunHealth(session[r].reached, findings),
                       orderPairs |-> orderPairs, positionPairs |-> positionPairs,
                       findings |-> findings, recorded |-> recorded])
    BY Zenon DEF finishRun
  <2> DEFINE new == [started |-> session[r].started, reached |-> session[r].reached, seen |-> seen,
                     status |-> status1, health |-> RunHealth(session[r].reached, findings),
                     orderPairs |-> orderPairs, positionPairs |-> positionPairs,
                     findings |-> findings, recorded |-> recorded]
  <2>2. /\ new = [field \in RunFields |-> new[field]]
        /\ new.started = session[r].started /\ new.reached = session[r].reached
        /\ new.health = RunHealth(session[r].reached, findings)
    BY DEF RunFields
  <2> HIDE DEF new
  <2>3. runs' = Append(runs, new) BY <2>1 DEF new
  <2> QED BY <2>2, <2>3
<1>2. PICK S : runs \in Seq(S) BY DEF ReconCore
<1>3. /\ runs' \in Seq(S \cup {run}) /\ Len(runs) \in Nat
      /\ DOMAIN runs = 1..Len(runs) /\ DOMAIN runs' = 1..(Len(runs) + 1)
      /\ runs'[Len(runs) + 1] = run /\ \A i \in DOMAIN runs : runs'[i] = runs[i]
  <2>1. runs \in Seq(S \cup {run}) /\ run \in S \cup {run} BY <1>2
  <2> QED BY <1>1, <2>1
<1>4. /\ Holding(r) /\ session[r].pc = "snapshot" /\ session[r].started \in Nat
      /\ session[r].started <= time.clock /\ session[r].reached \in BOOLEAN
      /\ \A i \in DOMAIN runs : runs[i].started + Window <= session[r].started
      /\ time' = time /\ Window \in Nat /\ time.clock \in Nat
  BY DEF finishRun, ReconCore, SessionFits, Holding, ReconciliationAssumption
<1>5. RunFits(run, time.clock) BY <1>1, <1>4, UnreachedHealth DEF RunFits
<1>6. RunsFit'
  <2> SUFFICES ASSUME NEW i \in DOMAIN runs' PROVE RunFits(runs'[i], time'.clock) BY DEF RunsFit
  <2>1. i \in DOMAIN runs \/ i = Len(runs) + 1 BY <1>3
  <2> QED BY <2>1, <1>3, <1>4, <1>5 DEF ReconCore, RunsFit
<1>7. RunsAreSpaced'
  <2> SUFFICES ASSUME NEW i \in DOMAIN runs', NEW j \in DOMAIN runs', i # j
               PROVE  runs'[i].started >= runs'[j].started + Window \/ runs'[j].started >= runs'[i].started + Window
    BY DEF RunsAreSpaced
  <2>1. i \in DOMAIN runs \/ i = Len(runs) + 1 BY <1>3
  <2>2. j \in DOMAIN runs \/ j = Len(runs) + 1 BY <1>3
  <2>3. \A k \in DOMAIN runs : runs[k].started \in Nat BY DEF ReconCore, RunsFit, RunFits
  <2>4. CASE i \in DOMAIN runs /\ j \in DOMAIN runs BY <2>4, <1>3 DEF ReconCore, RunsAreSpaced
  <2>5. CASE i \in DOMAIN runs /\ j = Len(runs) + 1 BY <2>5, <2>3, <1>1, <1>3, <1>4
  <2>6. CASE j \in DOMAIN runs /\ i = Len(runs) + 1 BY <2>6, <2>3, <1>1, <1>3, <1>4
  <2> QED BY <2>1, <2>2, <2>4, <2>5, <2>6
<1>8. session' = [session EXCEPT ![r] = NoSession] /\ session'[r].pc = "idle"
      /\ \A x \in Reconcilers \ {r} : session'[x] = session[x]
  BY DEF finishRun, ReconCore, NoSession
<1>9. \A x \in Reconcilers : ~Holding(x)' /\ SessionFits(x)'
  <2>1. ~Holding(r)' /\ SessionFits(r)' BY <1>8 DEF Holding, SessionFits
  <2>2. \A x \in Reconcilers \ {r} : ~Holding(x) /\ SessionFits(x) BY <1>4 DEF ReconCore
  <2>3. \A x \in Reconcilers \ {r} : ~Holding(x)' /\ SessionFits(x)'
    BY <2>2, <1>8, <1>4 DEF Holding, SessionFits
  <2> QED BY <2>1, <2>3
<1>10. DOMAIN session' = Reconcilers BY <1>8 DEF ReconCore
<1> QED BY <1>3, <1>4, <1>6, <1>7, <1>9, <1>10 DEF ReconCore

\* A review changes a run's findings, count and health, and neither its start nor
\* whether it reached the provider.
LEMMA RunMove ==
    ASSUME ReconCore, NEW i \in DOMAIN runs, NEW run, runs' = [runs EXCEPT ![i] = run],
           RunFits(run, time.clock), run.started = runs[i].started,
           session' = session, time'.clock = time.clock,
           time' = [clock |-> time'.clock, reviews |-> time'.reviews, drifts |-> time'.drifts]
    PROVE  ReconCore'
<1>1. PICK S : runs \in Seq(S) BY DEF ReconCore
<1>2. runs' \in Seq(S \cup {run}) /\ DOMAIN runs' = DOMAIN runs
  BY <1>1
<1>3. \A j \in DOMAIN runs : runs'[j] = IF j = i THEN run ELSE runs[j] BY <1>1
<1>4. \A j \in DOMAIN runs : runs'[j].started = runs[j].started BY <1>3
<1>5. RunsFit' BY <1>2, <1>3 DEF ReconCore, RunsFit
<1>6. RunsAreSpaced' BY <1>2, <1>4 DEF ReconCore, RunsAreSpaced
<1>7. \A r \in Reconcilers : SessionFits(r)' /\ (Holding(r)' <=> Holding(r))
  BY <1>2, <1>4 DEF ReconCore, SessionFits, Holding
<1> QED BY <1>2, <1>5, <1>6, <1>7 DEF ReconCore

\* A reviewer settles one finding.
LEMMA ResolveInv ==
    ASSUME ReconCore, NEW v \in Reviewers, NEW i \in DOMAIN runs, NEW f, NEW state, resolveFinding(v, i, f, state)
    PROVE  ReconCore'
<1> DEFINE run == [runs[i] EXCEPT !.findings = (@ \ {f}) \cup {[f EXCEPT !.state = state]}]
<1>1. runs' = [runs EXCEPT ![i] = run] BY DEF resolveFinding
<1>2. RunFits(runs[i], time.clock) BY DEF ReconCore, RunsFit
<1>3. DOMAIN runs[i] = RunFields BY <1>2 DEF RunFits
<1>4. /\ run.started = runs[i].started /\ run.reached = runs[i].reached /\ run.health = runs[i].health
      /\ run = [field \in RunFields |-> run[field]]
  BY <1>3 DEF RunFields
<1> HIDE DEF run
<1>5. RunFits(run, time.clock) BY <1>2, <1>4 DEF RunFits
<1>6. time'.clock = time.clock /\ session' = session
      /\ time' = [clock |-> time'.clock, reviews |-> time'.reviews, drifts |-> time'.drifts]
  BY DEF resolveFinding, ReconCore
<1> QED BY <1>1, <1>4, <1>5, <1>6, RunMove

\* The count is written with the health that follows from it.
LEMMA RecomputeInv ==
    ASSUME ReconCore, NEW v \in Reviewers, recomputeRunHealth(v), review[v].run \in DOMAIN runs PROVE ReconCore'
<1> DEFINE i == review[v].run
           run == [[runs[i] EXCEPT !.recorded = review[v].open]
                      EXCEPT !.health = HealthAfterReview(runs[i].reached, review[v].open)]
<1>1. PICK S : runs \in Seq(S) BY DEF ReconCore
<1>2. RunFits(runs[i], time.clock) BY DEF ReconCore, RunsFit
<1>3. DOMAIN runs[i] = RunFields BY <1>2 DEF RunFits
<1>4. runs' = [runs EXCEPT ![i] = run] BY <1>1, <1>3 DEF recomputeRunHealth, RunFields
<1>5. /\ run.started = runs[i].started /\ run.reached = runs[i].reached
      /\ run.health = HealthAfterReview(runs[i].reached, review[v].open)
      /\ run = [field \in RunFields |-> run[field]]
  BY <1>3 DEF RunFields
<1> HIDE DEF run
<1>6. RunFits(run, time.clock) BY <1>2, <1>5 DEF RunFits, HealthAfterReview
<1>7. time' = time /\ session' = session BY DEF recomputeRunHealth
<1> QED BY <1>4, <1>5, <1>6, <1>7, RunMove DEF ReconCore

\* Time passes.
LEMMA TickInv == ASSUME ReconCore, tick PROVE ReconCore'
<1>1. time' = [clock |-> time.clock + 1, reviews |-> time.reviews, drifts |-> time.drifts] /\ time.clock \in Nat
  BY DEF ReconCore, tick
<1>2. time'.clock \in Nat /\ \A n \in Nat : n <= time.clock => n <= time'.clock BY <1>1
<1>3. RunsFit' /\ RunsAreSpaced' BY <1>2 DEF ReconCore, RunsFit, RunFits, RunsAreSpaced, tick
<1>4. \A r \in Reconcilers : SessionFits(r)' /\ (Holding(r)' <=> Holding(r))
  BY <1>2 DEF ReconCore, SessionFits, Holding, tick
<1> QED BY <1>1, <1>2, <1>3, <1>4 DEF ReconCore, tick

\* The steps that leave runs, sessions and the clock alone.
LEMMA RestInv ==
    ASSUME ReconCore, runs' = runs, session' = session, time'.clock = time.clock,
           time' = [clock |-> time'.clock, reviews |-> time'.reviews, drifts |-> time'.drifts]
    PROVE  ReconCore'
<1>1. RunsFit' /\ RunsAreSpaced' BY DEF ReconCore, RunsFit, RunsAreSpaced
<1>2. \A r \in Reconcilers : SessionFits(r)' /\ (Holding(r)' <=> Holding(r))
  BY DEF ReconCore, SessionFits, Holding
<1> QED BY <1>1, <1>2 DEF ReconCore

\* A review names a run that is committed, and no run is ever removed.
ReviewsFit ==
    /\ DOMAIN review = Reviewers
    /\ \A v \in Reviewers : review[v].pc # "idle" => review[v].run \in DOMAIN runs

ReconInv == ReconCore /\ ReviewsFit

\* A step of one review.
LEMMA ReviewMove ==
    ASSUME ReviewsFit, NEW v \in Reviewers, NEW w, review' = [review EXCEPT ![v] = w],
           w.pc # "idle" => w.run \in DOMAIN runs', DOMAIN runs \subseteq DOMAIN runs'
    PROVE  ReviewsFit'
<1>1. review'[v] = w /\ \A x \in Reviewers \ {v} : review'[x] = review[x] BY DEF ReviewsFit
<1> QED BY <1>1 DEF ReviewsFit

\* A step of no review.
LEMMA ReviewStays ==
    ASSUME ReviewsFit, review' = review, DOMAIN runs \subseteq DOMAIN runs' PROVE ReviewsFit'
BY DEF ReviewsFit

\* A reviewer's steps keep the whole invariant.
LEMMA ReviewerInv ==
    ASSUME ReconInv, NEW v \in Reviewers,
           \/ countFindings(v) \/ recomputeRunHealth(v)
           \/ \E i \in DOMAIN runs, state \in ReviewStates :
                 \E f \in runs[i].findings : resolveFinding(v, i, f, state)
    PROVE  ReconInv'
<1>1. CASE countFindings(v)
  <2> DEFINE w == [pc |-> "counted", run |-> review[v].run,
                   open |-> Cardinality(StillOpen(runs[review[v].run].findings))]
  <2>1. review' = [review EXCEPT ![v] = w] /\ runs' = runs BY <1>1 DEF countFindings
  <2>2. w.run = review[v].run /\ review[v].run \in DOMAIN runs
    BY <1>1 DEF countFindings, ReconInv, ReviewsFit
  <2> HIDE DEF w
  <2>3. ReviewsFit' BY <2>1, <2>2, ReviewMove DEF ReconInv
  <2>4. ReconCore' BY <1>1, RestInv DEF countFindings, ReconInv, ReconCore
  <2> QED BY <2>3, <2>4 DEF ReconInv
<1>2. CASE recomputeRunHealth(v)
  <2>1. review[v].run \in DOMAIN runs BY <1>2 DEF recomputeRunHealth, ReconInv, ReviewsFit
  <2>2. ReconCore' BY <1>2, <2>1, RecomputeInv DEF ReconInv
  <2>3. DOMAIN runs' = DOMAIN runs BY <1>2 DEF recomputeRunHealth
  <2>4. review' = [review EXCEPT ![v] = NoReview] /\ NoReview.pc = "idle" BY <1>2 DEF recomputeRunHealth, NoReview
  <2>5. ReviewsFit' BY <2>3, <2>4, ReviewMove DEF ReconInv
  <2> QED BY <2>2, <2>5 DEF ReconInv
<1>3. ASSUME NEW i \in DOMAIN runs, NEW state \in ReviewStates, NEW f \in runs[i].findings,
             resolveFinding(v, i, f, state)
      PROVE  ReconInv'
  <2>1. ReconCore' BY <1>3, ResolveInv DEF ReconInv
  <2>2. DOMAIN runs' = DOMAIN runs BY <1>3 DEF resolveFinding
  <2> DEFINE w == [pc |-> "resolved", run |-> i]
  <2>3. review' = [review EXCEPT ![v] = w] /\ w.run \in DOMAIN runs' BY <1>3, <2>2 DEF resolveFinding
  <2> HIDE DEF w
  <2>4. ReviewsFit' BY <2>2, <2>3, ReviewMove DEF ReconInv
  <2> QED BY <2>1, <2>4 DEF ReconInv
<1> QED BY <1>1, <1>2, <1>3

\* A reconciler's steps keep the whole invariant.
LEMMA ReconcilerInv ==
    ASSUME ReconciliationAssumption, ReconInv, NEW r \in Reconcilers,
           \/ beginRun(r) \/ acquireLock(r) \/ finishRun(r) \/ abandonRun(r)
           \/ \E reached \in BOOLEAN : getSnapshot(r, reached)
    PROVE  ReconInv'
<1>1. CASE finishRun(r)
  <2>1. PICK S : runs \in Seq(S) BY DEF ReconInv, ReconCore
  <2>2. PICK run : runs' = Append(runs, run) BY <1>1 DEF finishRun
  <2>3. runs \in Seq(S \cup {run}) /\ run \in S \cup {run} BY <2>1
  <2>4. DOMAIN runs \subseteq DOMAIN runs' BY <2>2, <2>3
  <2>5. ReviewsFit' BY <1>1, <2>4, ReviewStays DEF ReconInv, finishRun
  <2> QED BY <1>1, <2>5, FinishInv DEF ReconInv
<1>2. CASE \/ beginRun(r) \/ acquireLock(r) \/ abandonRun(r)
           \/ \E reached \in BOOLEAN : getSnapshot(r, reached)
  <2>1. runs' = runs /\ review' = review
    BY <1>2 DEF beginRun, acquireLock, abandonRun, getSnapshot
  <2>2. ReviewsFit' BY <2>1, ReviewStays DEF ReconInv
  <2>3. ReconCore' BY <1>2, BeginRunInv, AcquireLockInv, AbandonInv, SnapshotInv DEF ReconInv
  <2> QED BY <2>2, <2>3 DEF ReconInv
<1> QED BY <1>1, <1>2

\* Every step of the service, of its reviewers and of the world around it keeps
\* the invariant.
LEMMA ReconStep ==
    ASSUME ReconciliationAssumption, ReconInv, [ReconNext]_reconVars PROVE ReconInv'
<1>1. ASSUME NEW r \in Reconcilers,
             \/ beginRun(r) \/ acquireLock(r) \/ finishRun(r) \/ abandonRun(r)
             \/ \E reached \in BOOLEAN : getSnapshot(r, reached)
      PROVE  ReconInv'
  BY <1>1, ReconcilerInv
<1>2. ASSUME NEW v \in Reviewers,
             \/ countFindings(v) \/ recomputeRunHealth(v)
             \/ \E i \in DOMAIN runs, state \in ReviewStates :
                   \E f \in runs[i].findings : resolveFinding(v, i, f, state)
      PROVE  ReconInv'
  BY <1>2, ReviewerInv
<1>3. CASE tick
  <2>1. ReviewsFit' BY <1>3, ReviewStays DEF ReconInv, tick
  <2> QED BY <1>3, <2>1, TickInv DEF ReconInv
<1>4. ASSUME NEW o, NEW p, acknowledgeOrder(o, p) PROVE ReconInv'
  <2>1. ReviewsFit' BY <1>4, ReviewStays DEF ReconInv, acknowledgeOrder
  <2>2. time'.clock = time.clock
        /\ time' = [clock |-> time'.clock, reviews |-> time'.reviews, drifts |-> time'.drifts]
    BY <1>4 DEF acknowledgeOrder, ReconInv, ReconCore
  <2>3. ReconCore' BY <1>4, <2>2, RestInv DEF acknowledgeOrder, ReconInv
  <2> QED BY <2>1, <2>3 DEF ReconInv
<1>5. CASE UNCHANGED reconVars
  <2>1. ReviewsFit' BY <1>5, ReviewStays DEF ReconInv, reconVars
  <2>2. ReconCore' BY <1>5, RestInv DEF ReconInv, ReconCore, reconVars
  <2> QED BY <2>1, <2>2 DEF ReconInv
<1> QED BY <1>1, <1>2, <1>3, <1>4, <1>5 DEF ReconNext

\* ReconInv holds in every reachable state of the reconciliation service, for any
\* reconcilers, reviewers, books and window (reconciliation-service.ts): the holder
\* of the advisory lock starts a window after every committed run, and a run that
\* reached no provider stays unavailable through every review.
THEOREM ReconInvariance == ASSUME ReconciliationAssumption PROVE ReconSpec => []ReconInv
<1>1. ReconInit => ReconInv
  <2>1. ReconInit => ReviewsFit BY DEF ReconInit, ReviewsFit, NoReview
  <2> QED BY <2>1, ReconInitInv DEF ReconInv
<1>2. ReconInv /\ [ReconNext]_reconVars => ReconInv' BY ReconStep
<1> QED BY <1>1, <1>2, PTL DEF ReconSpec

\* A run of another than the two unhealthy healths is needed for "synchronized".
LEMMA ReachedByInv == ASSUME ReconInv PROVE SynchronizedWasReached
<1> SUFFICES ASSUME runs # <<>>, getStatus = "synchronized" PROVE runs[Len(runs)].reached
  BY DEF SynchronizedWasReached
<1>1. PICK S : runs \in Seq(S) BY DEF ReconInv, ReconCore
<1>2. Len(runs) \in DOMAIN runs BY <1>1
<1>3. RunFits(runs[Len(runs)], time.clock) BY <1>2 DEF ReconInv, ReconCore, RunsFit
<1>4. runs[Len(runs)].health # "provider_unavailable" BY DEF getStatus, deriveHealthState
<1> QED BY <1>3, <1>4 DEF RunFits

\* Two runs of a trigger never start less than the window apart, although the
\* duplicate check compares with the instant its own transaction began
\* (triggerRun), and no review makes an account synchronized whose newest run
\* reached no provider (recomputeRunHealth, getStatus).
THEOREM RunsSpacedAndReached ==
    ASSUME ReconciliationAssumption PROVE ReconSpec => [](RunsAreSpaced /\ SynchronizedWasReached)
<1>1. ReconInv => RunsAreSpaced /\ SynchronizedWasReached BY ReachedByInv DEF ReconInv, ReconCore
<1> QED BY <1>1, ReconInvariance, PTL

\* getStatus says "synchronized" only when no finding of any run is open or
\* acknowledged, as long as the open findings are finitely many, as rows of a
\* table are: the live count is what it looks at, not the one a review wrote.
THEOREM StatusEarned ==
    ASSUME ReconciliationAssumption PROVE ReconSpec /\ []IsFiniteSet(OpenFindings) => []StatusIsEarned
<1>1. ReconInv /\ IsFiniteSet(OpenFindings) => StatusIsEarned
  <2> SUFFICES ASSUME ReconInv, IsFiniteSet(OpenFindings), runs # <<>>, getStatus = "synchronized",
                      NEW i \in DOMAIN runs
               PROVE  StillOpen(runs[i].findings) = {}
    BY ReachedByInv DEF StatusIsEarned
  <2>1. Cardinality(OpenFindings) \in Nat BY FS_CardinalityType
  <2>2. ~(Cardinality(OpenFindings) > 0) BY DEF getStatus, deriveHealthState
  <2>3. OpenFindings = {} BY <2>1, <2>2, FS_EmptySet
  <2>4. \A f \in StillOpen(runs[i].findings) : <<f, i>> \in OpenFindings BY DEF OpenFindings
  <2> QED BY <2>3, <2>4
<1> QED BY <1>1, ReconInvariance, PTL
=============================================================================
