----------------------- MODULE NotificationOutboxProofs -----------------------
(***************************************************************************)
(* Proofs about NotificationOutbox, for any number of jobs, workers and    *)
(* attempts: the type invariant, the send budget, and the three action     *)
(* properties (no send of a settled job, the lease is respected, final     *)
(* rows stay final).  And about NotificationRouting, for any alerts,       *)
(* callers, endpoints, secrets and keys: alerts go where configured.  And  *)
(* about SetupPipeline, for any strategies, limits, scans and requests:    *)
(* alerts are written once, within the plan, and no candle is skipped.     *)
(***************************************************************************)
EXTENDS NotificationOutbox, NotificationRouting, SetupPipeline, SequenceTheorems, FiniteSetTheorems, TLAPS

\* A worker that has claimed a job and not yet recorded its result.
InClaim(w) == worker[w].pc \in {"claimed", "sending", "sent"}

\* Tokens come from a counter, and every claim has one of its own.
TokensFresh ==
    /\ \A j \in Job : owner[j] < NextToken
    /\ \A w \in Worker : worker[w].token < NextToken
    /\ \A w \in Worker : InClaim(w) => worker[w].job \in Job /\ worker[w].token # 0
    /\ \A w, v \in Worker :
          InClaim(w) /\ InClaim(v) /\ worker[w].token = worker[v].token => w = v

\* The budget granted to a job before its last requeue.
Granted(j) == MaxAttempts * requeues[j]

\* Every call was paid for by an attempt, and a claim that still stands and has
\* not called yet has paid for a call in advance.
CallsPaid ==
    /\ \A j \in Job : sends[j] <= Granted(j) + attempts[j]
    /\ \A w \in Worker :
          worker[w].pc = "claimed" /\ Owns(w) =>
             sends[worker[w].job] < Granted(worker[w].job) + attempts[worker[w].job]

OInv == TypeOK /\ TokensFresh /\ CallsPaid

-----------------------------------------------------------------------------
(* Types                                                                   *)

\* NextToken is a number, above every counter it is made of.
LEMMA TokenType ==
    ASSUME TypeOK
    PROVE  NextToken \in Nat /\ NextToken # 0
  BY DEF TypeOK, NextToken, Channel

\* The record a worker goes back to is a worker state.
LEMMA IdleType == Idle \in WorkerState
  BY BoundsAssumption DEF Idle, WorkerState, Mode, SendResult

\* The type invariant holds initially.
LEMMA InitType == Init => TypeOK
<1> SUFFICES ASSUME Init PROVE TypeOK
  OBVIOUS
<1>1. configured \in SUBSET Channel
  BY ChannelAssumption DEF Init, Channel
<1> QED
  BY <1>1, IdleType, BoundsAssumption DEF Init, TypeOK, Status, Channel

\* Every step keeps every variable in its type.
LEMMA TypeStep ==
    ASSUME TypeOK, [Next]_vars
    PROVE  TypeOK'
<1> USE DEF TypeOK
<1>1. ASSUME NEW j \in Job, enqueue(j) PROVE TypeOK'
  BY <1>1 DEF enqueue, fairness, outside, Status
<1>2. ASSUME NEW j \in Job, leaseExpires(j) PROVE TypeOK'
  BY <1>2 DEF leaseExpires, fairness, outside
<1>3. ASSUME NEW j \in Job, backoffEnds(j) PROVE TypeOK'
  BY <1>3 DEF backoffEnds, fairness, outside
<1>4. ASSUME NEW w \in Worker, NEW m \in Mode, startRun(w, m) PROVE TypeOK'
  <2>1. BatchSize \in 0..BatchSize /\ Idle \in WorkerState
    BY IdleType, BoundsAssumption
  <2>2. [Idle EXCEPT !.pc = "recover", !.mode = m, !.left = BatchSize] \in WorkerState
    BY <2>1 DEF WorkerState
  <2> QED
    BY <1>4, <2>2 DEF startRun, job, fairness, outside
<1>5. ASSUME NEW w \in Worker, recoverStale(w) PROVE TypeOK'
  <2>1. \A j \in Job : AfterRecovery(j) \in Status
    BY DEF AfterRecovery, Status, Settled
  <2>2. [worker[w] EXCEPT !.pc = "requeue", !.todo = configured] \in WorkerState
    BY ZenonT(60) DEF WorkerState
  <2> QED
    BY <1>5, <2>1, <2>2 DEF recoverStale, fairness, outside
<1>6. ASSUME NEW w \in Worker, NEW c \in Channel, requeueUnavailable(w, c) PROVE TypeOK'
  <2>1. /\ status' \in [Job -> Status] /\ attempts' \in [Job -> 0..MaxAttempts]
        /\ due' \in [Job -> BOOLEAN] /\ requeues' \in [Job -> Nat]
    BY <1>6, BoundsAssumption DEF requeueUnavailable, Status
  <2>2. worker' \in [Worker -> WorkerState]
    <3> DEFINE next == IF worker[w].todo # {c} THEN "requeue"
                       ELSE IF worker[w].mode = "batch" THEN "claim" ELSE "cleanup"
    <3>1. worker[w] \in WorkerState
      OBVIOUS
    <3>2. next \in {"requeue", "claim", "cleanup"} /\ worker[w].todo \ {c} \in SUBSET Channel
      BY <3>1 DEF WorkerState
    <3> HIDE DEF next
    <3>3. [worker[w] EXCEPT !.todo = @ \ {c}, !.pc = next] \in WorkerState
      BY <3>1, <3>2 DEF WorkerState
    <3> QED
      BY <1>6, <3>3 DEF requeueUnavailable, next
  <2> QED
    BY <1>6, <2>1, <2>2 DEF requeueUnavailable, fairness
<1>7. ASSUME NEW w \in Worker, cleanup(w) PROVE TypeOK'
  <2>1. status' \in [Job -> Status]
    BY <1>7 DEF cleanup, Status
  <2>2. worker' \in [Worker -> WorkerState]
    <3> DEFINE next == IF worker[w].mode = "both" THEN "recover" ELSE "idle"
    <3>1. worker[w] \in WorkerState /\ next \in {"recover", "idle"} /\ "batch" \in Mode
      BY DEF Mode
    <3> HIDE DEF next
    <3>2. [worker[w] EXCEPT !.pc = next, !.mode = "batch"] \in WorkerState
      BY <3>1 DEF WorkerState
    <3> QED
      BY <1>7, <3>2 DEF cleanup, next
  <2> QED
    BY <1>7, <2>1, <2>2 DEF cleanup, fairness, outside
<1>8. ASSUME NEW w \in Worker, claimBatch(w) PROVE TypeOK'
  <2>1. PICK j \in Job :
            /\ Claimable(j)
            /\ claimTable(j)
            /\ claims' = [claims EXCEPT ![ChannelOf[j]] = @ + 1]
            /\ lastChannel' = ChannelOf[j]
            /\ worker' = [worker EXCEPT ![w].pc = "claimed", ![w].left = @ - 1, ![w].job = j,
                                        ![w].token = NextToken, ![w].lost = FALSE]
    BY <1>8 DEF claimBatch
  <2>2. worker[w].left - 1 \in 0..BatchSize
    BY <1>8, BoundsAssumption DEF claimBatch, WorkerState
  <2>3. worker' \in [Worker -> WorkerState]
    BY <2>1, <2>2, TokenType DEF WorkerState
  <2>4. attempts' \in [Job -> 0..MaxAttempts]
    BY <2>1, BoundsAssumption DEF claimTable, Claimable
  <2>5. /\ status' \in [Job -> Status] /\ owner' \in [Job -> Nat]
        /\ leased' \in [Job -> BOOLEAN] /\ due' \in [Job -> BOOLEAN]
    BY <2>1, TokenType DEF claimTable, Status
  <2>6. claims' \in [Channel -> Nat] /\ lastChannel' \in Channel
    BY <2>1, ChannelAssumption
  <2> QED
    BY <1>8, <2>3, <2>4, <2>5, <2>6 DEF claimBatch, outside
<1>9. ASSUME NEW w \in Worker, endRun(w) PROVE TypeOK'
  BY <1>9, IdleType DEF endRun, job, fairness, outside
<1>10. ASSUME NEW w \in Worker, NextJob(w) PROVE worker' \in [Worker -> WorkerState]
  <2>1. worker[w].left \in 0..BatchSize
    BY DEF WorkerState
  <2>2. [Idle EXCEPT !.pc = "claim", !.left = worker[w].left] \in WorkerState
    BY <2>1 DEF Idle, WorkerState, Mode, SendResult
  <2> QED
    BY <1>10, <2>2 DEF NextJob
<1>11. ASSUME NEW j, NEW s \in Status, NEW d \in BOOLEAN, Release(j, s, d)
       PROVE  /\ status' \in [Job -> Status] /\ attempts' \in [Job -> 0..MaxAttempts]
              /\ owner' \in [Job -> Nat] /\ leased' \in [Job -> BOOLEAN]
              /\ due' \in [Job -> BOOLEAN]
  BY <1>11 DEF Release
<1>12. ASSUME NEW w \in Worker, deliverUnconfigured(w) PROVE TypeOK'
  <2>1. "unavailable" \in Status
    BY DEF Status, Settled
  <2> QED
    BY <1>12, <1>10, <1>11, <2>1 DEF deliverUnconfigured, fairness, outside, job
<1>13. ASSUME NEW w \in Worker, startLeaseRenewal(w) PROVE TypeOK'
  <2>1. sends' \in [Job -> Nat]
    BY <1>13 DEF startLeaseRenewal
  <2>2. worker' \in [Worker -> WorkerState]
    BY <1>13, <1>10 DEF startLeaseRenewal, Goto, WorkerState
  <2> QED
    BY <1>13, <2>1, <2>2 DEF startLeaseRenewal, fairness, job
<1>14. ASSUME NEW w \in Worker, send(w) PROVE TypeOK'
  <2>1. worker' \in [Worker -> WorkerState]
    <3>1. \A r \in SendResult : [worker[w] EXCEPT !.pc = "sent", !.result = r] \in WorkerState
      BY ZenonT(60) DEF WorkerState
    <3> QED
      BY <1>14, <3>1 DEF send
  <2> QED
    BY <1>14, <2>1 DEF send, job, fairness, outside
<1>15. ASSUME NEW w \in Worker, record(w) PROVE TypeOK'
  <2>1. RecordedStatus(w) \in Status
    BY DEF RecordedStatus, Status, Settled
  <2> QED
    BY <1>15, <1>10, <1>11, <2>1 DEF record, job, fairness, outside
<1>16. ASSUME NEW w \in Worker, heartbeatFails(w) PROVE TypeOK'
  <2>1. [worker[w] EXCEPT !.lost = TRUE] \in WorkerState
    BY DEF WorkerState
  <2> QED
    BY <1>16, <2>1 DEF heartbeatFails, job, fairness, outside
<1>17. ASSUME NEW w \in Worker, workerCrash(w) PROVE TypeOK'
  BY <1>17, IdleType DEF workerCrash, job, fairness
<1>18. ASSUME NEW c \in Configurable, reconfigure(c) PROVE TypeOK'
  BY <1>18, ChannelAssumption DEF reconfigure, job, fairness
<1>19. CASE UNCHANGED vars
  BY <1>19 DEF vars, job, fairness, outside
<1> QED
  BY <1>1, <1>2, <1>3, <1>4, <1>5, <1>6, <1>7, <1>8, <1>9, <1>12, <1>13, <1>14, <1>15,
     <1>16, <1>17, <1>18, <1>19 DEF Next, workerStep

-----------------------------------------------------------------------------
(* Tokens and paid calls                                                   *)

\* A step that makes no claim keeps tokens fresh: the mover keeps its claim or
\* gives it up, and rows keep their token or lose it.
LEMMA TokensFrame ==
    ASSUME TypeOK, TypeOK', TokensFresh, NEW w \in Worker,
           claims' = claims,
           \A j \in Job : owner'[j] \in {owner[j], 0},
           \A v \in Worker : v # w => worker'[v] = worker[v],
           \/ worker'[w].token = 0 /\ ~InClaim(w)'
           \/ /\ worker'[w].token = worker[w].token /\ worker'[w].job = worker[w].job
              /\ InClaim(w)' => InClaim(w)
    PROVE  TokensFresh'
<1>1. NextToken' = NextToken
  BY DEF NextToken
<1>2. NextToken \in Nat /\ NextToken > 0
  BY TokenType DEF TypeOK
<1>3. \A v \in Worker : InClaim(v)' => InClaim(v) /\ worker'[v].token = worker[v].token
                                     /\ worker'[v].job = worker[v].job
  BY DEF InClaim
<1>4. \A v \in Worker : worker'[v].token \in {worker[v].token, 0}
  OBVIOUS
<1>5. (\A j \in Job : owner[j] < NextToken)'
  BY <1>1, <1>2 DEF TokensFresh
<1>6. (\A v \in Worker : worker[v].token < NextToken)'
  BY <1>1, <1>2, <1>4 DEF TokensFresh
<1>7. (\A v \in Worker : InClaim(v) => worker[v].job \in Job /\ worker[v].token # 0)'
  BY <1>3 DEF TokensFresh
<1>8. (\A u, v \in Worker :
          InClaim(u) /\ InClaim(v) /\ worker[u].token = worker[v].token => u = v)'
  BY <1>3 DEF TokensFresh
<1> QED
  BY <1>5, <1>6, <1>7, <1>8 DEF TokensFresh

\* A claim takes the next token.
LEMMA ClaimTokens ==
    ASSUME TypeOK, TypeOK', TokensFresh, NEW w \in Worker, claimBatch(w)
    PROVE  TokensFresh'
<1>1. PICK j \in Job :
          /\ owner' = [owner EXCEPT ![j] = NextToken]
          /\ claims' = [claims EXCEPT ![ChannelOf[j]] = @ + 1]
          /\ worker' = [worker EXCEPT ![w].pc = "claimed", ![w].left = @ - 1, ![w].job = j,
                                      ![w].token = NextToken, ![w].lost = FALSE]
  BY DEF claimBatch, claimTable
<1>2. NextToken' = NextToken + 1
  <2>1. ChannelOf[j] \in Channel /\ \A c \in Channel : claims[c] \in Nat
    BY ChannelAssumption DEF TypeOK
  <2>2. \A c \in Channel : claims'[c] = IF c = ChannelOf[j] THEN claims[c] + 1 ELSE claims[c]
    BY <1>1, <2>1 DEF TypeOK
  <2>3. CASE ChannelOf[j] = "email"
    BY <2>1, <2>2, <2>3 DEF NextToken, Channel
  <2>4. CASE ChannelOf[j] = "webhook"
    BY <2>1, <2>2, <2>4 DEF NextToken, Channel
  <2>5. CASE ChannelOf[j] = "push"
    BY <2>1, <2>2, <2>5 DEF NextToken, Channel
  <2> QED
    BY <2>1, <2>3, <2>4, <2>5 DEF Channel
<1>3. NextToken \in Nat /\ NextToken # 0
  BY TokenType
<1>4. /\ worker'[w].token = NextToken /\ worker'[w].job = j /\ worker'[w].pc = "claimed"
      /\ \A v \in Worker : v # w => worker'[v] = worker[v]
  BY <1>1 DEF TypeOK, WorkerState
<1>5. \A k \in Job : owner'[k] \in {owner[k], NextToken}
  BY <1>1 DEF TypeOK
<1>6. (\A k \in Job : owner[k] < NextToken)'
  BY <1>2, <1>3, <1>5 DEF TokensFresh, TypeOK
<1>7. \A v \in Worker : worker[v].token \in Nat
  BY DEF TypeOK, WorkerState
<1>8. (\A v \in Worker : worker[v].token < NextToken)'
  BY <1>2, <1>3, <1>4, <1>7 DEF TokensFresh
<1>9. \A v \in Worker : v # w => (InClaim(v)' <=> InClaim(v))
  BY <1>4 DEF InClaim
<1>10. (\A v \in Worker : InClaim(v) => worker[v].job \in Job /\ worker[v].token # 0)'
  BY <1>3, <1>4, <1>9 DEF TokensFresh
<1>11. \A v \in Worker : v # w => worker'[v].token # worker'[w].token
  BY <1>3, <1>4, <1>7 DEF TokensFresh
<1>12. (\A u, v \in Worker :
          InClaim(u) /\ InClaim(v) /\ worker[u].token = worker[v].token => u = v)'
  BY <1>4, <1>9, <1>11 DEF TokensFresh
<1> QED
  BY <1>6, <1>8, <1>10, <1>12 DEF TokensFresh

\* A claim spends an attempt before its worker may call.
LEMMA ClaimPaid ==
    ASSUME OInv, TypeOK', NEW w \in Worker, claimBatch(w)
    PROVE  CallsPaid'
<1>1. PICK j \in Job :
          /\ attempts' = [attempts EXCEPT ![j] = @ + 1]
          /\ status' = [status EXCEPT ![j] = "processing"]
          /\ owner' = [owner EXCEPT ![j] = NextToken]
          /\ leased' = [leased EXCEPT ![j] = TRUE]
          /\ worker' = [worker EXCEPT ![w].pc = "claimed", ![w].left = @ - 1, ![w].job = j,
                                      ![w].token = NextToken, ![w].lost = FALSE]
  BY DEF claimBatch, claimTable
<1>2. UNCHANGED <<sends, requeues>> /\ \A k \in Job : Granted(k)' = Granted(k)
  BY DEF claimBatch, outside, Granted
<1>3. \A k \in Job : /\ sends[k] \in Nat /\ attempts[k] \in Nat /\ Granted(k) \in Nat
  BY BoundsAssumption DEF OInv, TypeOK, Granted
<1>4. \A k \in Job : attempts'[k] = IF k = j THEN attempts[k] + 1 ELSE attempts[k]
  BY <1>1 DEF OInv, TypeOK
<1>5. (\A k \in Job : sends[k] <= Granted(k) + attempts[k])'
  BY <1>2, <1>3, <1>4 DEF OInv, CallsPaid
<1>6. ASSUME NEW v \in Worker, worker'[v].pc = "claimed", Owns(v)'
      PROVE  (sends[worker[v].job] < Granted(worker[v].job) + attempts[worker[v].job])'
  <2>1. CASE v = w
    <3>1. worker'[v].job = j
      BY <1>1, <2>1 DEF OInv, TypeOK, WorkerState
    <3> QED
      BY <1>2, <1>3, <1>4, <3>1 DEF OInv, CallsPaid
  <2>2. CASE v # w
    <3>1. worker'[v] = worker[v]
      BY <1>1, <2>2 DEF OInv, TypeOK
    <3>2. worker[v].job \in Job /\ worker[v].token # NextToken
      BY <1>6, <3>1, TokenType DEF OInv, TokensFresh, InClaim, TypeOK, WorkerState
    <3>3. worker[v].job # j
      BY <1>1, <1>6, <3>1, <3>2 DEF Owns, OInv, TypeOK
    <3>4. Owns(v)
      BY <1>1, <1>6, <3>1, <3>2, <3>3 DEF Owns, OInv, TypeOK
    <3> QED
      BY <1>2, <1>4, <1>6, <3>1, <3>2, <3>3, <3>4 DEF OInv, CallsPaid
  <2> QED
    BY <2>1, <2>2
<1> QED
  BY <1>5, <1>6 DEF CallsPaid

\* A step that neither calls, nor claims, nor requeues keeps the account: no
\* claim that did not stand before stands now.
LEMMA PaidFrame ==
    ASSUME CallsPaid, UNCHANGED <<sends, attempts, requeues>>,
           \A v \in Worker : worker'[v].pc = "claimed" /\ Owns(v)' =>
               worker[v].pc = "claimed" /\ Owns(v) /\ worker'[v].job = worker[v].job
    PROVE  CallsPaid'
<1>1. \A k : Granted(k)' = Granted(k)
  BY DEF Granted
<1> QED
  BY <1>1 DEF CallsPaid


-----------------------------------------------------------------------------
(* The inductive invariant                                                 *)

\* No claim stands and nothing was sent initially.
LEMMA InitInv == Init => OInv
<1> SUFFICES ASSUME Init PROVE OInv
  OBVIOUS
<1>1. TypeOK
  BY InitType
<1>2. NextToken = 1
  BY DEF Init, NextToken, Channel
<1>3. TokensFresh
  BY <1>2 DEF Init, TokensFresh, InClaim, Idle
<1>4. CallsPaid
  <2>1. \A j \in Job : Granted(j) = 0
    BY BoundsAssumption DEF Init, Granted
  <2> QED
    BY <2>1 DEF Init, CallsPaid, Idle
<1> QED
  BY <1>1, <1>3, <1>4 DEF OInv

\* A requeue grants the budget anew: what was spent of the old one is covered.
LEMMA RequeuePaid ==
    ASSUME OInv, NEW w \in Worker, NEW c \in Channel, requeueUnavailable(w, c)
    PROVE  CallsPaid'
<1>1. PICK S \in SUBSET {j \in Blocked(c) : requeues[j] < MaxRequeues} :
          /\ status' = [j \in Job |-> IF j \in S THEN "pending" ELSE status[j]]
          /\ attempts' = [j \in Job |-> IF j \in S THEN 0 ELSE attempts[j]]
          /\ requeues' = [j \in Job |-> IF j \in S THEN requeues[j] + 1 ELSE requeues[j]]
  BY DEF requeueUnavailable
<1>2. UNCHANGED <<sends, owner, leased>>
  BY DEF requeueUnavailable
<1>3. \A j \in Job : /\ sends[j] \in Nat /\ requeues[j] \in Nat /\ attempts[j] \in 0..MaxAttempts
  BY DEF OInv, TypeOK
<1>4. \A n \in Nat : MaxAttempts * (n + 1) = MaxAttempts * n + MaxAttempts /\ MaxAttempts * n \in Nat
  BY BoundsAssumption
<1>5. \A j \in Job : j \in S => Granted(j)' = Granted(j) + MaxAttempts /\ attempts'[j] = 0
  BY <1>1, <1>3, <1>4 DEF Granted
<1>6. \A j \in Job : j \notin S => Granted(j)' = Granted(j) /\ attempts'[j] = attempts[j]
  BY <1>1 DEF Granted
<1>7. \A j \in Job : Granted(j) \in Nat
  BY <1>3, <1>4 DEF Granted
<1>8. (\A j \in Job : sends[j] <= Granted(j) + attempts[j])'
  BY <1>2, <1>3, <1>5, <1>6, <1>7, BoundsAssumption DEF OInv, CallsPaid
<1>9. ASSUME NEW v \in Worker, worker'[v].pc = "claimed", Owns(v)'
      PROVE  (sends[worker[v].job] < Granted(worker[v].job) + attempts[worker[v].job])'
  <2>1. worker[v].pc = "claimed" /\ worker'[v].job = worker[v].job
        /\ worker'[v].token = worker[v].token
    <3>1. worker' = [worker EXCEPT ![w].todo = @ \ {c}, ![w].pc = worker'[w].pc]
          /\ worker'[w].pc # "claimed"
      BY DEF requeueUnavailable, OInv, TypeOK, WorkerState
    <3> QED
      BY <1>9, <3>1 DEF OInv, TypeOK, WorkerState
  <2>2. worker[v].job \in Job
    BY <2>1 DEF OInv, TokensFresh, InClaim
  <2>3. worker[v].job \notin S
    BY <1>1, <1>9, <2>1, <2>2 DEF Owns
  <2>4. Owns(v)
    BY <1>1, <1>2, <1>9, <2>1, <2>2, <2>3 DEF Owns
  <2> QED
    BY <1>2, <1>6, <2>1, <2>2, <2>3, <2>4 DEF OInv, CallsPaid
<1> QED
  BY <1>8, <1>9 DEF CallsPaid

\* A call uses what its claim paid for, and no other claim had paid with it.
LEMMA CallPaid ==
    ASSUME OInv, NEW w \in Worker, worker[w].pc = "claimed", Owns(w),
           sends' = [sends EXCEPT ![worker[w].job] = @ + 1], Goto(w, "sending"),
           UNCHANGED <<job, requeues>>
    PROVE  CallsPaid'
<1> DEFINE j == worker[w].job
<1>1. j \in Job
  BY DEF OInv, TokensFresh, InClaim
<1>2. \A k \in Job : /\ sends[k] \in Nat /\ attempts[k] \in Nat /\ Granted(k) \in Nat
                     /\ Granted(k)' = Granted(k) /\ attempts'[k] = attempts[k]
  BY BoundsAssumption DEF OInv, TypeOK, Granted, job
<1>3. \A k \in Job : sends'[k] = IF k = j THEN sends[k] + 1 ELSE sends[k]
  BY <1>1 DEF OInv, TypeOK
<1>4. sends[j] < Granted(j) + attempts[j]
  BY DEF OInv, CallsPaid
<1>5. (\A k \in Job : sends[k] <= Granted(k) + attempts[k])'
  BY <1>2, <1>3, <1>4 DEF OInv, CallsPaid
<1>6. ASSUME NEW v \in Worker, worker'[v].pc = "claimed", Owns(v)'
      PROVE  (sends[worker[v].job] < Granted(worker[v].job) + attempts[worker[v].job])'
  <2>1. v # w /\ worker'[v] = worker[v]
    BY <1>6 DEF Goto, OInv, TypeOK, WorkerState
  <2>2. Owns(v) /\ worker[v].pc = "claimed" /\ worker[v].job \in Job
    BY <1>6, <2>1 DEF Owns, job, OInv, TokensFresh, InClaim
  <2>3. worker[v].token # worker[w].token
    BY <2>1, <2>2 DEF OInv, TokensFresh, InClaim
  <2>4. worker[v].job # j
    BY <2>2, <2>3 DEF Owns
  <2> QED
    BY <1>2, <1>3, <2>1, <2>2, <2>4 DEF OInv, CallsPaid
<1> QED
  BY <1>5, <1>6 DEF CallsPaid

\* A worker that turns to its next job gives up its claim.
LEMMA NextJobGivesUp ==
    ASSUME TypeOK, NEW w \in Worker, NextJob(w)
    PROVE  /\ worker'[w].token = 0 /\ worker'[w].pc = "claim"
           /\ \A v \in Worker : v # w => worker'[v] = worker[v]
  BY DEF NextJob, TypeOK, Idle

\* A row that leaves processing loses its token, and no claim on it stands.
LEMMA ReleaseFrees ==
    ASSUME TypeOK, NEW j \in Job, NEW s \in Status, s # "processing", NEW d, Release(j, s, d)
    PROVE  /\ \A k \in Job : owner'[k] \in {owner[k], 0}
           /\ status'[j] # "processing"
           /\ \A k \in Job : k # j => /\ status'[k] = status[k] /\ owner'[k] = owner[k]
                                     /\ leased'[k] = leased[k]
           /\ attempts' = attempts
  BY DEF TypeOK, Release

\* A result is recorded, or given up, without touching another claim.
LEMMA SettleStep ==
    ASSUME OInv, TypeOK', NEW w \in Worker, InClaim(w), NextJob(w), UNCHANGED <<fairness, outside>>,
           \/ UNCHANGED job
           \/ \E s \in Status \ {"processing"}, d \in BOOLEAN : Release(worker[w].job, s, d)
    PROVE  TokensFresh' /\ CallsPaid'
<1>1. worker[w].job \in Job
  BY DEF OInv, TokensFresh
<1>2. /\ worker'[w].token = 0 /\ worker'[w].pc = "claim"
      /\ \A v \in Worker : v # w => worker'[v] = worker[v]
  BY NextJobGivesUp DEF OInv
<1>3. /\ \A k \in Job : owner'[k] \in {owner[k], 0}
      /\ attempts' = attempts
      /\ \A k \in Job : status'[k] = "processing" =>
             /\ status[k] = "processing" /\ owner'[k] = owner[k] /\ leased'[k] = leased[k]
  <2>1. CASE UNCHANGED job
    BY <2>1 DEF job
  <2>2. ASSUME NEW s \in Status \ {"processing"}, NEW d \in BOOLEAN, Release(worker[w].job, s, d)
        PROVE  <1>3!1 /\ <1>3!2 /\ <1>3!3
    BY <1>1, <2>2, ReleaseFrees DEF OInv
  <2> QED
    BY <2>1, <2>2
<1>4. TokensFresh'
  BY <1>2, <1>3, TokensFrame DEF OInv, fairness, InClaim
<1>5. ASSUME NEW v \in Worker, worker'[v].pc = "claimed", Owns(v)'
      PROVE  worker[v].pc = "claimed" /\ Owns(v) /\ worker'[v].job = worker[v].job
  <2>1. v # w /\ worker'[v] = worker[v]
    BY <1>2, <1>5
  <2>2. worker[v].job \in Job
    BY <1>5, <2>1 DEF OInv, TokensFresh, InClaim
  <2> QED
    BY <1>3, <1>5, <2>1, <2>2 DEF Owns
<1>6. CallsPaid'
  BY <1>3, <1>5, PaidFrame DEF OInv, outside
<1> QED
  BY <1>4, <1>6

\* A worker that moves between the places before and after a claim, or from
\* its call to its result, while rows keep their claims.
LEMMA WorkerMoves ==
    ASSUME OInv, TypeOK', NEW w \in Worker,
           worker'[w].pc # "claimed",
           \A v \in Worker : v # w => worker'[v] = worker[v],
           \/ worker'[w].token = 0 /\ ~InClaim(w)'
           \/ /\ worker'[w].token = worker[w].token /\ worker'[w].job = worker[w].job
              /\ InClaim(w)' => InClaim(w),
           UNCHANGED <<claims, sends, attempts, requeues>>,
           \A k \in Job : owner'[k] \in {owner[k], 0},
           \A k \in Job : status'[k] = "processing" =>
               status[k] = "processing" /\ owner'[k] = owner[k] /\ leased'[k] = leased[k]
    PROVE  TokensFresh' /\ CallsPaid'
<1>1. TokensFresh'
  BY TokensFrame DEF OInv
<1>2. ASSUME NEW v \in Worker, worker'[v].pc = "claimed", Owns(v)'
      PROVE  worker[v].pc = "claimed" /\ Owns(v) /\ worker'[v].job = worker[v].job
  <2>1. v # w /\ worker'[v] = worker[v]
    BY <1>2
  <2>2. worker[v].job \in Job
    BY <1>2, <2>1 DEF OInv, TokensFresh, InClaim
  <2> QED
    BY <1>2, <2>1, <2>2 DEF Owns
<1>3. CallsPaid'
  BY <1>2, PaidFrame DEF OInv
<1> QED
  BY <1>1, <1>3

\* A step of the rows alone (enqueue, lease, backoff, configuration).
LEMMA RowsMove ==
    ASSUME OInv, UNCHANGED <<worker, claims, sends, attempts, requeues, owner>>,
           \A k \in Job : status'[k] = "processing" /\ leased'[k] =>
               status[k] = "processing" /\ leased[k]
    PROVE  TokensFresh' /\ CallsPaid'
<1>1. NextToken' = NextToken
  BY DEF NextToken
<1>2. TokensFresh'
  BY <1>1 DEF OInv, TokensFresh, InClaim
<1>3. ASSUME NEW v \in Worker, worker'[v].pc = "claimed", Owns(v)'
      PROVE  worker[v].pc = "claimed" /\ Owns(v) /\ worker'[v].job = worker[v].job
  <2>1. worker[v].job \in Job
    BY <1>3 DEF OInv, TokensFresh, InClaim
  <2> QED
    BY <1>3, <2>1 DEF Owns
<1>4. CallsPaid'
  BY <1>3, PaidFrame DEF OInv
<1> QED
  BY <1>2, <1>4

\* The inductive step, one case per action.
LEMMA NextInv == OInv /\ [Next]_vars => OInv'
<1> SUFFICES ASSUME OInv, [Next]_vars PROVE TokensFresh' /\ CallsPaid'
  BY TypeStep DEF OInv
<1>0. TypeOK /\ TypeOK'
  BY TypeStep DEF OInv
<1>1. ASSUME NEW j \in Job, enqueue(j) \/ leaseExpires(j) \/ backoffEnds(j)
      PROVE  TokensFresh' /\ CallsPaid'
  <2>1. UNCHANGED <<worker, claims, sends, attempts, requeues, owner>>
    BY <1>1 DEF enqueue, leaseExpires, backoffEnds, fairness, outside
  <2>2. \A k \in Job : status'[k] = "processing" /\ leased'[k] =>
            status[k] = "processing" /\ leased[k]
    BY <1>0, <1>1 DEF enqueue, leaseExpires, backoffEnds, TypeOK
  <2> QED
    BY <2>1, <2>2, RowsMove
<1>2. ASSUME NEW c \in Configurable, reconfigure(c)
      PROVE  TokensFresh' /\ CallsPaid'
  BY <1>2, RowsMove DEF reconfigure, job, fairness
<1>3. ASSUME NEW w \in Worker, NEW m \in Mode, startRun(w, m)
      PROVE  TokensFresh' /\ CallsPaid'
  <2>1. worker'[w].token = 0 /\ worker'[w].pc = "recover"
        /\ \A v \in Worker : v # w => worker'[v] = worker[v]
    BY <1>0, <1>3 DEF startRun, TypeOK, Idle
  <2> QED
    BY <1>0, <1>3, <2>1, WorkerMoves DEF startRun, job, fairness, outside, InClaim
<1>4. ASSUME NEW w \in Worker, recoverStale(w)
      PROVE  TokensFresh' /\ CallsPaid'
  <2>1. /\ worker'[w].token = worker[w].token /\ worker'[w].job = worker[w].job
        /\ worker'[w].pc = "requeue" /\ \A v \in Worker : v # w => worker'[v] = worker[v]
    BY <1>0, <1>4 DEF recoverStale, TypeOK, WorkerState
  <2>2. \A k \in Job : /\ owner'[k] \in {owner[k], 0}
                       /\ status'[k] = "processing" =>
                            status[k] = "processing" /\ owner'[k] = owner[k] /\ leased'[k] = leased[k]
    BY <1>0, <1>4 DEF recoverStale, AfterRecovery, Expired
  <2> QED
    BY <1>0, <1>4, <2>1, <2>2, WorkerMoves DEF recoverStale, fairness, outside, InClaim
<1>5. ASSUME NEW w \in Worker, NEW c \in Channel, requeueUnavailable(w, c)
      PROVE  TokensFresh' /\ CallsPaid'
  <2>1. /\ worker'[w].token = worker[w].token /\ worker'[w].job = worker[w].job
        /\ worker'[w].pc \in {"requeue", "claim", "cleanup"}
        /\ \A v \in Worker : v # w => worker'[v] = worker[v]
    BY <1>0, <1>5 DEF requeueUnavailable, TypeOK, WorkerState
  <2>2. TokensFresh'
    BY <1>0, <1>5, <2>1, TokensFrame DEF requeueUnavailable, fairness, InClaim, OInv
  <2> QED
    BY <1>5, <2>2, RequeuePaid
<1>6. ASSUME NEW w \in Worker, cleanup(w)
      PROVE  TokensFresh' /\ CallsPaid'
  <2>1. /\ worker'[w].token = worker[w].token /\ worker'[w].job = worker[w].job
        /\ worker'[w].pc \in {"recover", "idle"}
        /\ \A v \in Worker : v # w => worker'[v] = worker[v]
    BY <1>0, <1>6 DEF cleanup, TypeOK, WorkerState
  <2>2. \A k \in Job : status'[k] = "processing" => status[k] = "processing"
    BY <1>6 DEF cleanup
  <2> QED
    BY <1>0, <1>6, <2>1, <2>2, WorkerMoves DEF cleanup, fairness, outside, InClaim
<1>7. ASSUME NEW w \in Worker, claimBatch(w)
      PROVE  TokensFresh' /\ CallsPaid'
  BY <1>0, <1>7, ClaimTokens, ClaimPaid DEF OInv
<1>8. ASSUME NEW w \in Worker, endRun(w) \/ workerCrash(w)
      PROVE  TokensFresh' /\ CallsPaid'
  <2>1. worker'[w].token = 0 /\ worker'[w].pc = "idle"
        /\ \A v \in Worker : v # w => worker'[v] = worker[v]
    BY <1>0, <1>8 DEF endRun, workerCrash, TypeOK, Idle
  <2>2. UNCHANGED <<job, claims, sends, requeues>>
    BY <1>8 DEF endRun, workerCrash, fairness, outside
  <2> QED
    BY <1>0, <2>1, <2>2, WorkerMoves DEF job, InClaim
<1>9. ASSUME NEW w \in Worker, deliverUnconfigured(w)
      PROVE  TokensFresh' /\ CallsPaid'
  <2>1. "unavailable" \in Status \ {"processing"} /\ TRUE \in BOOLEAN /\ InClaim(w)
    BY <1>9 DEF Status, Settled, InClaim, deliverUnconfigured, At
  <2> QED
    BY <1>0, <1>9, <2>1, SettleStep DEF deliverUnconfigured
<1>10. ASSUME NEW w \in Worker, startLeaseRenewal(w)
       PROVE  TokensFresh' /\ CallsPaid'
  <2>1. CASE UNCHANGED sends /\ NextJob(w)
    <3>1. InClaim(w) /\ UNCHANGED <<job, fairness, outside>>
      BY <1>10, <2>1 DEF startLeaseRenewal, InClaim, At, outside
    <3> QED
      BY <1>0, <2>1, <3>1, SettleStep
  <2>2. CASE Owns(w) /\ sends' = [sends EXCEPT ![worker[w].job] = @ + 1] /\ Goto(w, "sending")
    <3>1. /\ worker'[w].token = worker[w].token /\ worker'[w].job = worker[w].job
          /\ worker'[w].pc = "sending" /\ worker[w].pc = "claimed"
          /\ \A v \in Worker : v # w => worker'[v] = worker[v]
      BY <1>0, <1>10, <2>2 DEF startLeaseRenewal, Goto, At, TypeOK, WorkerState
    <3>2. UNCHANGED <<job, fairness, requeues>>
      BY <1>10 DEF startLeaseRenewal
    <3>3. TokensFresh'
      BY <1>0, <3>1, <3>2, TokensFrame DEF job, fairness, InClaim, OInv
    <3> QED
      BY <2>2, <3>1, <3>2, <3>3, CallPaid
  <2> QED
    BY <1>10, <2>1, <2>2 DEF startLeaseRenewal
<1>11. ASSUME NEW w \in Worker, send(w) \/ heartbeatFails(w)
       PROVE  TokensFresh' /\ CallsPaid'
  <2>1. /\ worker'[w].token = worker[w].token /\ worker'[w].job = worker[w].job
        /\ worker'[w].pc \in {"sending", "sent"} /\ InClaim(w)
        /\ \A v \in Worker : v # w => worker'[v] = worker[v]
    BY <1>0, <1>11 DEF send, heartbeatFails, At, InClaim, TypeOK, WorkerState
  <2> QED
    BY <1>0, <1>11, <2>1, WorkerMoves DEF send, heartbeatFails, job, fairness, outside
<1>12. ASSUME NEW w \in Worker, record(w)
       PROVE  TokensFresh' /\ CallsPaid'
  <2>1. RecordedStatus(w) \in Status \ {"processing"} /\ InClaim(w)
        /\ (RecordedStatus(w) # "pending") \in BOOLEAN
    BY <1>12 DEF RecordedStatus, Status, Settled, InClaim, record, At
  <2> QED
    BY <1>0, <1>12, <2>1, SettleStep DEF record
<1>13. CASE UNCHANGED vars
  BY <1>13, RowsMove DEF vars, job, fairness, outside
<1> QED
  BY <1>1, <1>2, <1>3, <1>4, <1>5, <1>6, <1>7, <1>8, <1>9, <1>10, <1>11, <1>12, <1>13
     DEF Next, workerStep

-----------------------------------------------------------------------------
(* Theorems                                                                *)

\* Every reachable state satisfies the inductive invariant.
THEOREM OutboxInvariance == Spec => []OInv
  BY InitInv, NextInv, PTL DEF Spec

\* Every variable keeps its type, whatever workers, crashes and configuration do.
THEOREM TypeCorrect == Spec => []TypeOK
<1>1. OInv => TypeOK
  BY DEF OInv
<1> QED
  BY <1>1, OutboxInvariance, PTL

\* A job's provider calls stay within the attempts granted to it, for any number
\* of workers, crashes and expired leases: claimTable counts before the send.
THEOREM SendBudget == Spec => []SendsWithinBudget
<1>1. ASSUME OInv PROVE SendsWithinBudget
  <2> SUFFICES ASSUME NEW j \in Job
               PROVE  sends[j] <= MaxAttempts * (requeues[j] + 1)
    BY DEF SendsWithinBudget
  <2>1. /\ sends[j] \in Nat /\ requeues[j] \in Nat /\ attempts[j] \in 0..MaxAttempts
        /\ sends[j] <= MaxAttempts * requeues[j] + attempts[j]
    BY <1>1 DEF OInv, TypeOK, CallsPaid, Granted
  <2>2. MaxAttempts * (requeues[j] + 1) = MaxAttempts * requeues[j] + MaxAttempts
    BY <2>1, BoundsAssumption
  <2>3. MaxAttempts * requeues[j] \in Nat
    BY <2>1, BoundsAssumption
  <2> QED
    BY <2>1, <2>2, <2>3, BoundsAssumption
<1> QED
  BY <1>1, OutboxInvariance, PTL

\* A step that calls a provider holds the claim on the job it calls for.
LEMMA SendsUnderClaim ==
    ASSUME OInv, [Next]_vars, NEW j \in Job, sends'[j] # sends[j]
    PROVE  status[j] = "processing"
<1> USE DEF OInv
<1>1. PICK w \in Worker : startLeaseRenewal(w)
  BY ZenonT(60) DEF Next, vars, workerStep, enqueue, leaseExpires, backoffEnds, startRun, recoverStale,
         requeueUnavailable, cleanup, claimBatch, endRun, deliverUnconfigured, send, record,
         heartbeatFails, workerCrash, reconfigure, outside
<1>2. Owns(w) /\ sends' = [sends EXCEPT ![worker[w].job] = @ + 1]
  BY <1>1 DEF startLeaseRenewal
<1>3. j = worker[w].job
  BY <1>2 DEF TypeOK
<1> QED
  BY <1>2, <1>3 DEF Owns

\* No provider call begins for a settled or deleted row: the renewal before any
\* I/O stops a worker whose claim was recovered meanwhile.
THEOREM SettledIsNotSent == Spec => SettledNotSent
<1>1. ASSUME OInv, [Next]_vars
      PROVE  \A j \in Job : status[j] \in Settled \cup {"deleted"} => sends'[j] = sends[j]
  BY <1>1, SendsUnderClaim DEF Settled
<1> QED
  BY <1>1, OutboxInvariance, PTL DEF Spec, SettledNotSent

\* What a step may do to the status of a row, action by action: recovery takes
\* expired claims only, a requeue unavailable rows only, retention final rows
\* only, and an acknowledgement the row whose token it holds.
LEMMA StatusMoves ==
    ASSUME OInv, [Next]_vars, NEW j \in Job, status'[j] # status[j]
    PROVE  \/ status[j] = "absent" /\ status'[j] = "pending"
           \/ status[j] = "pending" /\ status'[j] = "processing"
           \/ Expired(j)
           \/ status[j] = "unavailable"
           \/ status[j] \in {"delivered", "failed"} /\ status'[j] = "deleted"
           \/ \E w \in Worker : /\ InClaim(w) /\ Owns(w) /\ worker[w].job = j
                                /\ NextJob(w)
<1> USE DEF OInv, TypeOK
<1>1. ASSUME NEW k \in Job, enqueue(k) PROVE status[j] = "absent" /\ status'[j] = "pending"
  BY <1>1 DEF enqueue
<1>2. ASSUME NEW w \in Worker, recoverStale(w) PROVE Expired(j)
  BY <1>2 DEF recoverStale
<1>3. ASSUME NEW w \in Worker, NEW c \in Channel, requeueUnavailable(w, c)
      PROVE  status[j] = "unavailable"
  BY <1>3 DEF requeueUnavailable, Blocked
<1>4. ASSUME NEW w \in Worker, cleanup(w)
      PROVE  status[j] \in {"delivered", "failed"} /\ status'[j] = "deleted"
  BY <1>4 DEF cleanup
<1>5. ASSUME NEW w \in Worker, claimBatch(w)
      PROVE  status[j] = "pending" /\ status'[j] = "processing"
  BY <1>5 DEF claimBatch, claimTable, Claimable
<1>6. ASSUME NEW w \in Worker, deliverUnconfigured(w) \/ record(w)
      PROVE  InClaim(w) /\ Owns(w) /\ worker[w].job = j /\ NextJob(w)
  <2>1. InClaim(w) /\ NextJob(w)
    BY <1>6 DEF deliverUnconfigured, record, InClaim, At
  <2>2. Owns(w) /\ \E s \in Status : status' = [status EXCEPT ![worker[w].job] = s]
    BY <1>6 DEF deliverUnconfigured, record, Release, job, RecordedStatus, Status, Settled,
                WorkerState, SendResult
  <2> QED
    BY <2>1, <2>2
<1> QED
  BY <1>1, <1>2, <1>3, <1>4, <1>5, <1>6
     DEF Next, vars, job, workerStep, leaseExpires, backoffEnds, startRun, endRun,
         startLeaseRenewal, send, heartbeatFails, workerCrash, reconfigure

\* While a lease stands, only the worker that holds its token moves the row out
\* of processing: neither recovery nor a worker of an earlier claim can.
THEOREM LeaseIsRespected == Spec => LeaseRespected
<1>1. ASSUME OInv, [Next]_vars, NEW j \in Job,
             status[j] = "processing", leased[j], status'[j] # "processing"
      PROVE  \E w \in Worker : /\ worker[w].job = j /\ worker[w].token = owner[j]
                               /\ worker'[w] # worker[w]
  <2>1. PICK w \in Worker : InClaim(w) /\ Owns(w) /\ worker[w].job = j /\ NextJob(w)
    BY <1>1, StatusMoves DEF Expired
  <2>2. worker[w].token = owner[j]
    BY <2>1 DEF Owns
  <2>3. worker'[w].pc = "claim"
    BY <1>1, <2>1 DEF NextJob, Idle, OInv, TypeOK
  <2> QED
    BY <2>1, <2>2, <2>3 DEF InClaim
<1>2. ASSUME OInv, [Next]_vars
      PROVE  \A j \in Job :
                status[j] = "processing" /\ leased[j] /\ status'[j] # "processing" =>
                   \E w \in Worker : /\ worker[w].job = j /\ worker[w].token = owner[j]
                                     /\ worker'[w] # worker[w]
  BY <1>1, <1>2
<1> QED
  BY <1>2, OutboxInvariance, PTL DEF Spec, LeaseRespected

\* Delivered jobs and dead letters are final: no recovery, requeue, late
\* acknowledgement or claim brings one back, and retention only deletes it.
THEOREM FinalStaysFinal == Spec => FinalIsFinal
<1>1. ASSUME OInv, [Next]_vars
      PROVE  \A j \in Job : status[j] \in {"delivered", "failed"} =>
                status'[j] \in {status[j], "deleted"}
  BY <1>1, StatusMoves DEF Expired, Owns
<1> QED
  BY <1>1, OutboxInvariance, PTL DEF Spec, FinalIsFinal

-----------------------------------------------------------------------------
(* Routing: the inductive invariant.                                       *)

Supplied == RouteSecrets \cup {LegacySecret, Null}
KeyVersions == {k.version : k \in KeyManagers} \cup {-1, 1}
KeyNames == {k.key : k \in KeyManagers} \cup {"client", Null}
Ciphers == [version : KeyVersions, key : KeyNames, of : Supplied]
SecretRows == [plain : Supplied, cipher : Ciphers, version : KeyVersions]
PrefRows ==
    [stored : BOOLEAN, enabled : BOOLEAN, endpoint : RouteEndpoints \cup {Null},
     secret : SecretRows, latest : Supplied]
PrefTables == [RouteChannels -> PrefRows]
Calls ==
    [at : {"idle", "settings", "route", "targets"}, alert : RoutedAlerts \cup {Null},
     allowed : SUBSET RouteChannels, rows : SUBSET PrefTables]
Jobs ==
    [written : BOOLEAN, recipient : RouteEndpoints \cup {"account", Null},
     secret : SecretRows, rows : SUBSET PrefRows]

\* All a stored secret can ever be read as is what was supplied, or nothing,
\* under whatever key the process runs.
Conceals(s, own) ==
    /\ s.plain \in own \cup {Null} /\ s.cipher.of \in own \cup {Null}
    /\ s.cipher = NoCipher \/ s.plain = Null

\* A preference row says what the user supplied last.
RowFits(c, row) ==
    /\ Conceals(row.secret, {row.latest})
    /\ row.stored = TRUE => (row.endpoint = Null <=> c = "email")

\* A job was written from one of the rows its call overlapped.
JobFits(c, entry) ==
    /\ Conceals(entry.secret, OwnSecrets(entry))
    /\ entry.written = TRUE =>
          \E row \in entry.rows :
             \/ row.enabled = TRUE /\ entry.recipient = IF c = "email" THEN "account" ELSE row.endpoint
             \/ c = "email" /\ row.stored = FALSE

DiagnosticShapes ==
    diagnostic \in [claim : {"none", "claimed", "delivered", "failed"},
                    callers : [Diagnosticians -> {"idle", "sending", "releasing", "delivered", "failed"}],
                    left : {0, 1}, released : Nat]

\* The claim row is what lets one caller on, and its call says whether the
\* mail left.
ClaimHeld ==
    /\ diagnostic.claim = "none" => diagnostic.left = 0
    /\ diagnostic.claim = "delivered" => diagnostic.left = 1
    /\ \A d \in Diagnosticians : diagnostic.callers[d] # "idle" =>
          /\ diagnostic.claim = "claimed"
          /\ diagnostic.left = IF diagnostic.callers[d] = "delivered" THEN 1 ELSE 0
          /\ \A e \in Diagnosticians : diagnostic.callers[e] # "idle" => e = d

RoutingShapes ==
    /\ prefs \in PrefTables /\ route \in [muted : BOOLEAN, channels : SUBSET RouteChannels]
    /\ keys \in KeyManagers
    /\ alerting \in [Alerters -> Calls]
    /\ routed \in [RoutedAlerts -> [RouteChannels -> Jobs]]

CallFits(call, table) == call.at # "idle" => table \in call.rows /\ call.alert \in RoutedAlerts

RoutingInv ==
    /\ RoutingShapes
    /\ \A c \in RouteChannels : RowFits(c, prefs[c])
    /\ \A g \in Alerters : CallFits(alerting[g], prefs)
    /\ \A a \in RoutedAlerts : \A c \in RouteChannels : JobFits(c, routed[a][c])
    /\ SignedAsSupplied /\ OutcomesTellTruth
    /\ DiagnosticShapes /\ ClaimHeld

-----------------------------------------------------------------------------
(* Secrets.                                                                *)

\* The empty secret.
LEMMA BlankFits == Blank \in SecretRows /\ \A own : Conceals(Blank, own)
<1>1. NoCipher \in Ciphers /\ NoCipher.of = Null
  BY DEF NoCipher, Ciphers, KeyVersions, KeyNames, Supplied
<1> QED
  BY <1>1 DEF Blank, SecretRows, Conceals, Supplied, KeyVersions

\* What is encrypted can only be read as itself.
LEMMA EncryptFits ==
    ASSUME keys \in KeyManagers, NEW v \in Supplied
    PROVE  /\ encryptSecret(v) \in SecretRows /\ Conceals(encryptSecret(v), {v})
           /\ v # Null => encryptSecret(v).cipher # NoCipher
           /\ v = Null => encryptSecret(v) = Blank
<1>1. CASE v = Null
  BY <1>1, BlankFits DEF encryptSecret
<1>2. CASE v # Null
  <2> DEFINE k == IF v \in LooksEncrypted THEN [version |-> 1, key |-> "client", of |-> v] ELSE encrypt(v)
  <2>1. k \in Ciphers /\ k.of = v
    BY DEF encrypt, Ciphers, KeyVersions, KeyNames
  <2>2. k # NoCipher
    BY <1>2, <2>1 DEF NoCipher
  <2>3. encryptSecret(v) = [plain |-> Null, version |-> keys.version, cipher |-> k]
    BY <1>2 DEF encryptSecret
  <2> HIDE DEF k
  <2> QED
    BY <1>2, <2>1, <2>2, <2>3 DEF SecretRows, Conceals, Supplied, KeyVersions
<1> QED
  BY <1>1, <1>2

\* What is decrypted is what was supplied, or nothing.
LEMMA DecryptFits ==
    ASSUME NEW s \in SecretRows, NEW own, Conceals(s, own)
    PROVE  decryptSecret(s) \in own \cup {Null} /\ decryptSecret(s) \in Supplied
  BY DEF decryptSecret, Conceals, SecretRows, Ciphers

\* The row an upsert writes.
UpsertedRow(old, enabled, endpoint, v) ==
    [stored |-> TRUE, enabled |-> enabled, endpoint |-> endpoint,
     secret |-> MergedSecret(old.secret, encryptSecret(v)),
     latest |-> IF v = Null THEN old.latest ELSE v]

\* An upsert leaves in the row what the user supplied last.
LEMMA UpsertFits ==
    ASSUME keys \in KeyManagers, NEW c, NEW old \in PrefRows, RowFits(c, old), NEW v \in Supplied,
           NEW enabled \in BOOLEAN, NEW endpoint \in RouteEndpoints \cup {Null}, endpoint = Null <=> c = "email"
    PROVE  /\ UpsertedRow(old, enabled, endpoint, v) \in PrefRows
           /\ RowFits(c, UpsertedRow(old, enabled, endpoint, v))
<1> DEFINE new == encryptSecret(v)
           merged == MergedSecret(old.secret, new)
           latest == IF v = Null THEN old.latest ELSE v
<1>1. /\ new \in SecretRows /\ Conceals(new, {v})
      /\ v # Null => new.cipher # NoCipher
      /\ v = Null => new = Blank
  BY EncryptFits
<1>2. old.secret \in SecretRows /\ old.latest \in Supplied /\ Conceals(old.secret, {old.latest})
  BY DEF PrefRows, RowFits
<1> HIDE DEF new
<1>3. merged \in SecretRows /\ Conceals(merged, {latest})
  <2>1. CASE v # Null
    BY <1>1, <2>1 DEF MergedSecret
  <2>2. CASE v = Null
    <3>1. new.cipher = NoCipher /\ new.plain = Null
      BY <1>1, <2>2 DEF Blank
    <3>2. merged = old.secret
      BY <1>2, <3>1 DEF MergedSecret, SecretRows
    <3> QED
      BY <1>2, <2>2, <3>2
  <2> QED
    BY <2>1, <2>2
<1>4. latest \in Supplied
  BY <1>2
<1>5. UpsertedRow(old, enabled, endpoint, v) =
        [stored |-> TRUE, enabled |-> enabled, endpoint |-> endpoint, secret |-> merged, latest |-> latest]
  BY DEF UpsertedRow, new
<1> HIDE DEF merged, latest
<1> QED
  BY <1>3, <1>4, <1>5 DEF PrefRows, RowFits

\* The row of a channel that was never set.
LEMMA NoRowFits == NoRow \in PrefRows /\ \A c : RowFits(c, NoRow)
<1>1. Conceals(Blank, {Null}) /\ Blank \in SecretRows
  BY BlankFits
<1> QED
  BY <1>1 DEF NoRow, PrefRows, RowFits, Supplied

-----------------------------------------------------------------------------
(* The steps.                                                              *)

\* Initially nothing, or one preference from before the migration.
LEMMA RoutingInitInv == ASSUME RoutingAssumption PROVE RoutingInit => RoutingInv
<1> SUFFICES ASSUME RoutingInit PROVE RoutingInv
  OBVIOUS
<1>1. /\ quiet = NoQuiet /\ route = NoRoute /\ keys \in KeyManagers
      /\ alerting = [g \in Alerters |-> Resting]
      /\ routed = [a \in RoutedAlerts |-> [c \in RouteChannels |-> NotRouted]]
      /\ delivery = NoDelivery
      /\ diagnostic = [claim |-> "none", callers |-> [d \in Diagnosticians |-> "idle"],
                       left |-> 0, released |-> 0]
  BY DEF RoutingInit
<1>2. prefs \in PrefTables /\ \A c \in RouteChannels : RowFits(c, prefs[c])
  <2> DEFINE e == CHOOSE e \in RouteEndpoints : TRUE
             s == [Blank EXCEPT !.plain = LegacySecret]
             old == [stored |-> TRUE, enabled |-> TRUE, endpoint |-> e, secret |-> s, latest |-> LegacySecret]
             none == [c \in RouteChannels |-> NoRow]
  <2>1. e \in RouteEndpoints /\ e # Null
    BY DEF RoutingAssumption
  <2>2. s \in SecretRows /\ Conceals(s, {LegacySecret})
    BY BlankFits DEF SecretRows, Conceals, Supplied, Blank, NoCipher
  <2> HIDE DEF e, s
  <2>3. old \in PrefRows /\ RowFits("webhook", old)
    BY <2>1, <2>2 DEF PrefRows, RowFits, Supplied
  <2>4. prefs = none \/ prefs = [none EXCEPT !["webhook"] = old]
    BY DEF RoutingInit, e, s
  <2> HIDE DEF old
  <2>5. none \in PrefTables /\ \A c \in RouteChannels : none[c] = NoRow
    BY NoRowFits DEF PrefTables
  <2>6. CASE prefs = none
    BY <2>5, <2>6, NoRowFits
  <2>7. CASE prefs = [none EXCEPT !["webhook"] = old]
    BY <2>3, <2>5, <2>7, NoRowFits DEF PrefTables
  <2> QED
    BY <2>4, <2>6, <2>7
<1>3. Resting \in Calls /\ Resting.at = "idle"
  BY DEF Resting, Calls
<1>4. NotRouted \in Jobs /\ \A c : JobFits(c, NotRouted)
  BY BlankFits DEF NotRouted, Jobs, JobFits
<1>5. NoRoute \in [muted : BOOLEAN, channels : SUBSET RouteChannels]
  BY DEF NoRoute
<1>6. RoutingShapes
  BY <1>1, <1>2, <1>3, <1>4, <1>5 DEF RoutingShapes
<1>7. \A g \in Alerters : CallFits(alerting[g], prefs)
  BY <1>1, <1>3 DEF CallFits
<1>8. \A a \in RoutedAlerts : \A c \in RouteChannels : JobFits(c, routed[a][c])
  BY <1>1, <1>4
<1>9. SignedAsSupplied /\ OutcomesTellTruth
  BY <1>1 DEF SignedAsSupplied, OutcomesTellTruth, NoDelivery
<1>10. DiagnosticShapes /\ ClaimHeld
  BY <1>1 DEF DiagnosticShapes, ClaimHeld
<1> QED
  BY <1>2, <1>6, <1>7, <1>8, <1>9, <1>10 DEF RoutingInv

\* A step that delivers nothing says nothing of a delivery.
LEMMA NothingDelivered == delivery' = NoDelivery => SignedAsSupplied' /\ OutcomesTellTruth'
  BY DEF SignedAsSupplied, OutcomesTellTruth, NoDelivery

\* The diagnostic does not read or write the rest.
LEMMA DiagnosticStays ==
    ASSUME DiagnosticShapes, ClaimHeld, diagnostic' = diagnostic PROVE DiagnosticShapes' /\ ClaimHeld'
  BY DEF DiagnosticShapes, ClaimHeld

\* An edit writes one row the user supplied.
LEMMA EditInv ==
    ASSUME RoutingInv, NEW p \in PrefTables, NEW q, NEW r \in [muted : BOOLEAN, channels : SUBSET RouteChannels],
           \A c \in RouteChannels : RowFits(c, p[c]), Edit(p, q, r)
    PROVE  RoutingInv'
<1>1. /\ prefs' = p /\ route' = r /\ alerting' = Overlap(p) /\ delivery' = NoDelivery
      /\ keys' = keys /\ routed' = routed /\ diagnostic' = diagnostic
  BY DEF Edit
<1>2. /\ alerting \in [Alerters -> Calls] /\ RoutingShapes
      /\ \A g \in Alerters : CallFits(alerting[g], prefs)
  BY DEF RoutingInv, RoutingShapes
<1>3. ASSUME NEW g \in Alerters PROVE alerting'[g] \in Calls /\ CallFits(alerting'[g], p)
  <2> DEFINE call == alerting[g]
  <2>1. call \in Calls /\ CallFits(call, prefs)
    BY <1>2
  <2>2. CASE call.at = "idle"
    BY <1>1, <2>1, <2>2 DEF Overlap, CallFits
  <2>3. CASE call.at # "idle"
    <3>1. alerting'[g] = [call EXCEPT !.rows = call.rows \cup {p}]
      BY <1>1, <2>3 DEF Overlap
    <3> HIDE DEF call
    <3> QED
      BY <2>1, <3>1 DEF Calls, CallFits
  <2> QED
    BY <2>2, <2>3
<1>4. alerting' \in [Alerters -> Calls]
  <2>1. alerting' = [g \in Alerters |-> alerting'[g]]
    BY <1>1 DEF Overlap
  <2> QED
    BY <1>3, <2>1
<1>5. RoutingShapes'
  BY <1>1, <1>2, <1>4 DEF RoutingShapes
<1>6. \A a \in RoutedAlerts : \A c \in RouteChannels : JobFits(c, routed'[a][c])
  BY <1>1 DEF RoutingInv
<1> QED
  BY <1>1, <1>3, <1>5, <1>6, NothingDelivered, DiagnosticStays DEF RoutingInv

\* The user's edits.
LEMMA UserEdits ==
    ASSUME RoutingAssumption, RoutingInv, putPreferences \/ upsertPushSubscription \/ removePreference \/ upsertStrategy
    PROVE  RoutingInv'
<1>1. /\ prefs \in PrefTables /\ route \in [muted : BOOLEAN, channels : SUBSET RouteChannels] /\ keys \in KeyManagers
      /\ \A c \in RouteChannels : RowFits(c, prefs[c])
  BY DEF RoutingInv, RoutingShapes
<1>2. ASSUME NEW c \in RouteChannels, NEW on \in BOOLEAN, NEW e \in RouteEndpoints \cup {Null}, NEW v \in Supplied,
             e = Null <=> c = "email", Edit(upsertRow(c, on, e, v), quiet, route)
      PROVE  RoutingInv'
  <2> DEFINE new == UpsertedRow(prefs[c], on, e, v)
             p == [prefs EXCEPT ![c] = new]
  <2>1. upsertRow(c, on, e, v) = p
    BY DEF upsertRow, UpsertedRow
  <2>2. prefs[c] \in PrefRows /\ RowFits(c, prefs[c])
    BY <1>1 DEF PrefTables
  <2>3. new \in PrefRows /\ RowFits(c, new)
    BY <1>1, <1>2, <2>2, UpsertFits
  <2> HIDE DEF new
  <2>4. p \in PrefTables /\ \A d \in RouteChannels : RowFits(d, p[d])
    BY <1>1, <2>3 DEF PrefTables
  <2>5. Edit(p, quiet, route)
    BY <1>2, <2>1
  <2> HIDE DEF p
  <2> QED
    BY <1>1, <2>4, <2>5, EditInv
<1>3. CASE putPreferences
  <2>1. CASE \E q \in QuietChoices \cup {NoQuiet} : Edit(prefs, q, route)
    BY <1>1, <2>1, EditInv
  <2>2. CASE \E c \in PutChannels, on \in BOOLEAN, e \in RouteEndpoints \cup {Null}, v \in RouteSecrets \cup {Null} :
               ValidPreference(c, e, v) /\ Edit(upsertRow(c, on, e, v), quiet, route)
    <3>1. PICK c \in PutChannels, on \in BOOLEAN, e \in RouteEndpoints \cup {Null}, v \in RouteSecrets \cup {Null} :
               ValidPreference(c, e, v) /\ Edit(upsertRow(c, on, e, v), quiet, route)
      BY <2>2
    <3>2. c \in RouteChannels /\ v \in Supplied /\ (e = Null <=> c = "email")
      BY <3>1 DEF RoutingAssumption, Supplied, ValidPreference
    <3> QED
      BY <1>2, <3>1, <3>2
  <2> QED
    BY <1>3, <2>1, <2>2 DEF putPreferences
<1>4. CASE upsertPushSubscription
  <2>1. PICK e \in RouteEndpoints, v \in RouteSecrets \ LooksEncrypted : Edit(upsertRow("push", TRUE, e, v), quiet, route)
    BY <1>4 DEF upsertPushSubscription
  <2>2. "push" \in RouteChannels /\ v \in Supplied /\ (e = Null <=> "push" = "email") /\ e \in RouteEndpoints \cup {Null}
    BY DEF RoutingAssumption, Supplied, RouteChannels
  <2> QED
    BY <1>2, <2>1, <2>2
<1>5. CASE removePreference
  <2>1. PICK c \in RouteChannels : Edit([prefs EXCEPT ![c] = NoRow], quiet, route)
    BY <1>5 DEF removePreference
  <2> DEFINE p == [prefs EXCEPT ![c] = NoRow]
  <2>2. p \in PrefTables /\ \A d \in RouteChannels : RowFits(d, p[d])
    BY <1>1, NoRowFits DEF PrefTables
  <2>3. Edit(p, quiet, route)
    BY <2>1
  <2> HIDE DEF p
  <2> QED
    BY <1>1, <2>2, <2>3, EditInv
<1>6. CASE upsertStrategy
  <2>1. PICK muted \in BOOLEAN, channels \in {RouteChannels, {"email"}} :
          Edit(prefs, quiet, [muted |-> muted, channels |-> channels])
    BY <1>6 DEF upsertStrategy
  <2>2. [muted |-> muted, channels |-> channels] \in [muted : BOOLEAN, channels : SUBSET RouteChannels]
    BY DEF RouteChannels
  <2> QED
    BY <1>1, <2>1, <2>2, EditInv
<1> QED
  BY <1>3, <1>4, <1>5, <1>6

AlertMoves ==
    /\ alerting' \in [Alerters -> Calls] /\ \A g \in Alerters : CallFits(alerting'[g], prefs)
    /\ routed' \in [RoutedAlerts -> [RouteChannels -> Jobs]]
    /\ \A a \in RoutedAlerts : \A c \in RouteChannels : JobFits(c, routed'[a][c])
    /\ SignedAsSupplied' /\ OutcomesTellTruth'
    /\ keys' \in KeyManagers /\ UNCHANGED <<settings, diagnostic>>

\* A step of alerts that edits nothing.
LEMMA AlertMove == ASSUME RoutingInv, AlertMoves PROVE RoutingInv'
<1>1. prefs' = prefs /\ route' = route /\ diagnostic' = diagnostic
  BY DEF AlertMoves, settings
<1>2. RoutingShapes'
  BY <1>1 DEF RoutingInv, RoutingShapes, AlertMoves
<1> QED
  BY <1>1, <1>2, DiagnosticStays DEF RoutingInv, AlertMoves

\* A deployment changes the key; what is stored reads as before, or not at all.
LEMMA RestartInv == ASSUME RoutingInv, restartWithKey PROVE RoutingInv'
<1>1. /\ keys' \in KeyManagers /\ alerting' = [g \in Alerters |-> Resting] /\ delivery' = NoDelivery
      /\ UNCHANGED <<settings, routed, diagnostic>>
  BY DEF restartWithKey
<1>2. Resting \in Calls /\ Resting.at = "idle"
  BY DEF Resting, Calls
<1>3. AlertMoves
  BY <1>1, <1>2, NothingDelivered DEF AlertMoves, RoutingInv, RoutingShapes, CallFits
<1> QED
  BY <1>3, AlertMove

CallMoves(g, call) ==
    /\ alerting' = [alerting EXCEPT ![g] = call] /\ call \in Calls /\ CallFits(call, prefs)
    /\ delivery' = NoDelivery /\ UNCHANGED <<settings, keys, diagnostic>>

\* A call moves on.
LEMMA CallMove ==
    ASSUME RoutingInv, NEW g \in Alerters, NEW call, CallMoves(g, call),
           routed' \in [RoutedAlerts -> [RouteChannels -> Jobs]],
           \A a \in RoutedAlerts : \A c \in RouteChannels : JobFits(c, routed'[a][c])
    PROVE  RoutingInv'
<1>1. alerting \in [Alerters -> Calls] /\ keys \in KeyManagers /\ \A h \in Alerters : CallFits(alerting[h], prefs)
  BY DEF RoutingInv, RoutingShapes
<1>2. alerting' \in [Alerters -> Calls] /\ \A h \in Alerters : CallFits(alerting'[h], prefs)
  BY <1>1 DEF CallMoves
<1>3. AlertMoves
  BY <1>1, <1>2, NothingDelivered DEF AlertMoves, CallMoves
<1> QED
  BY <1>3, AlertMove

\* A call reads.
LEMMA ReadInv ==
    ASSUME RoutingInv, NEW g \in Alerters, generateRouted(g) \/ readSettings(g) \/ readRoute(g)
    PROVE  RoutingInv'
<1>1. /\ alerting \in [Alerters -> Calls] /\ alerting[g] \in Calls /\ prefs \in PrefTables
      /\ route \in [muted : BOOLEAN, channels : SUBSET RouteChannels] /\ CallFits(alerting[g], prefs)
      /\ routed \in [RoutedAlerts -> [RouteChannels -> Jobs]]
      /\ \A a \in RoutedAlerts : \A c \in RouteChannels : JobFits(c, routed[a][c])
  BY DEF RoutingInv, RoutingShapes
<1>2. delivery' = NoDelivery /\ UNCHANGED <<settings, keys, routed, diagnostic>>
  BY DEF generateRouted, readSettings, readRoute
<1>3. Resting \in Calls /\ CallFits(Resting, prefs)
  BY DEF Resting, Calls, CallFits
<1>4. \E call : CallMoves(g, call)
  <2>1. CASE generateRouted(g)
    <3>1. PICK a \in RoutedAlerts : alerting' = [alerting EXCEPT ![g] =
              [at |-> "settings", alert |-> a, allowed |-> {}, rows |-> {prefs}]]
      BY <2>1 DEF generateRouted
    <3> DEFINE call == [at |-> "settings", alert |-> a, allowed |-> {}, rows |-> {prefs}]
    <3>2. call \in Calls /\ CallFits(call, prefs)
      BY <1>1 DEF Calls, CallFits
    <3> QED
      BY <1>2, <3>1, <3>2 DEF CallMoves
  <2>2. CASE readSettings(g)
    <3> DEFINE call == [alerting[g] EXCEPT !.at = "route"]
    <3>1. alerting[g].at = "settings" /\ (alerting' = [alerting EXCEPT ![g] = Resting] \/ alerting' = [alerting EXCEPT ![g] = call])
      BY <2>2 DEF readSettings
    <3>2. call \in Calls /\ CallFits(call, prefs)
      BY <1>1, <3>1 DEF Calls, CallFits
    <3> QED
      BY <1>2, <1>3, <3>1, <3>2 DEF CallMoves
  <2>3. CASE readRoute(g)
    <3> DEFINE call == [alerting[g] EXCEPT !.at = "targets", !.allowed = route.channels]
    <3>1. alerting[g].at = "route" /\ (alerting' = [alerting EXCEPT ![g] = Resting] \/ alerting' = [alerting EXCEPT ![g] = call])
      BY <2>3 DEF readRoute
    <3>2. call \in Calls /\ CallFits(call, prefs)
      BY <1>1, <3>1 DEF Calls, CallFits
    <3> QED
      BY <1>2, <1>3, <3>1, <3>2 DEF CallMoves
  <2> QED
    BY <2>1, <2>2, <2>3
<1> QED
  BY <1>1, <1>2, <1>4, CallMove

\* The job a call writes follows the preference rows it reads.
LEMMA EnqueuedFits ==
    ASSUME RoutingInv, NEW g \in Alerters, alerting[g].at = "targets",
           NEW c \in RouteChannels, c \in TargetsOf(alerting[g].allowed)
    PROVE  EnqueuedJob(g, c) \in Jobs /\ JobFits(c, EnqueuedJob(g, c))
<1>1. /\ prefs \in PrefTables /\ keys \in KeyManagers /\ alerting[g] \in Calls
      /\ prefs \in alerting[g].rows /\ prefs[c] \in PrefRows /\ RowFits(c, prefs[c])
  BY DEF RoutingInv, RoutingShapes, CallFits, PrefTables
<1> DEFINE v == IF c = "email" THEN Null ELSE decryptSecret(prefs[c].secret)
           s == encryptSecret(v)
           rs == {p[c] : p \in alerting[g].rows}
           to == IF c = "email" THEN "account" ELSE prefs[c].endpoint
           entry == [written |-> TRUE, recipient |-> to, secret |-> s, rows |-> rs]
<1>2. EnqueuedJob(g, c) = entry
  BY DEF EnqueuedJob
<1>3. prefs[c].secret \in SecretRows /\ Conceals(prefs[c].secret, {prefs[c].latest}) /\ prefs[c].endpoint \in RouteEndpoints \cup {Null}
  BY <1>1 DEF PrefRows, RowFits
<1>4. v \in Supplied /\ v \in {prefs[c].latest, Null}
  BY <1>3, DecryptFits DEF Supplied
<1>5. s \in SecretRows /\ Conceals(s, {v})
  BY <1>1, <1>4, EncryptFits
<1>6. prefs[c] \in rs /\ rs \subseteq PrefRows
  BY <1>1 DEF Calls, PrefTables
<1>7. \/ prefs[c].enabled = TRUE
      \/ c = "email" /\ prefs[c].stored = FALSE
  <2>1. prefs["email"].stored \in BOOLEAN /\ prefs[c].enabled \in BOOLEAN
    BY <1>1 DEF PrefTables, PrefRows, RouteChannels
  <2> QED
    BY <2>1 DEF TargetsOf, DefaultsToEmail
<1>8. to \in RouteEndpoints \cup {"account", Null}
  BY <1>3
<1> HIDE DEF v, s, rs, to
<1>9. entry \in Jobs /\ entry.rows = rs /\ entry.secret = s /\ entry.recipient = to
  BY <1>5, <1>6, <1>8 DEF Jobs
<1> HIDE DEF entry
<1>10. prefs[c].latest \in OwnSecrets(entry)
  BY <1>6, <1>9 DEF OwnSecrets
<1>11. Conceals(entry.secret, OwnSecrets(entry))
  BY <1>4, <1>5, <1>9, <1>10 DEF Conceals
<1>12. JobFits(c, entry)
  BY <1>6, <1>7, <1>9, <1>11 DEF JobFits, to
<1> QED
  BY <1>2, <1>9, <1>12

\* A call writes its jobs.
LEMMA EnqueueInv == ASSUME RoutingInv, NEW g \in Alerters, enqueueTargets(g) PROVE RoutingInv'
<1>1. /\ alerting[g] \in Calls /\ CallFits(alerting[g], prefs) /\ alerting[g].at = "targets"
      /\ routed \in [RoutedAlerts -> [RouteChannels -> Jobs]]
      /\ \A a \in RoutedAlerts : \A c \in RouteChannels : JobFits(c, routed[a][c])
  BY DEF RoutingInv, RoutingShapes, enqueueTargets
<1> DEFINE a == alerting[g].alert
           new == [c \in RouteChannels |-> IF ~routed[a][c].written /\ c \in TargetsOf(alerting[g].allowed)
                                             THEN EnqueuedJob(g, c) ELSE routed[a][c]]
<1>2. a \in RoutedAlerts
  BY <1>1 DEF CallFits
<1>3. routed' = [routed EXCEPT ![a] = new]
  BY DEF enqueueTargets
<1>4. ASSUME NEW c \in RouteChannels PROVE new[c] \in Jobs /\ JobFits(c, new[c])
  <2>1. routed[a][c] \in Jobs /\ JobFits(c, routed[a][c])
    BY <1>1, <1>2
  <2>2. CASE c \in TargetsOf(alerting[g].allowed)
    <3>1. EnqueuedJob(g, c) \in Jobs /\ JobFits(c, EnqueuedJob(g, c))
      BY <1>1, <2>2, EnqueuedFits
    <3> QED
      BY <2>1, <3>1
  <2>3. CASE c \notin TargetsOf(alerting[g].allowed)
    BY <2>1, <2>3
  <2> QED
    BY <2>2, <2>3
<1>5. new \in [RouteChannels -> Jobs]
  BY <1>4
<1> HIDE DEF new
<1>6. /\ routed' \in [RoutedAlerts -> [RouteChannels -> Jobs]]
      /\ \A b \in RoutedAlerts : \A c \in RouteChannels : JobFits(c, routed'[b][c])
  <2>1. \A b \in RoutedAlerts : routed'[b] = IF b = a THEN new ELSE routed[b]
    BY <1>1, <1>2, <1>3
  <2> QED
    BY <1>1, <1>3, <1>4, <1>5, <2>1
<1>7. Resting \in Calls /\ CallFits(Resting, prefs)
  BY DEF Resting, Calls, CallFits
<1>8. CallMoves(g, Resting)
  BY <1>7 DEF CallMoves, enqueueTargets
<1> QED
  BY <1>6, <1>8, CallMove

\* What the adapters report of an attempt.
LEMMA ClassifiedTruly ==
    ASSUME NEW c \in RouteChannels, NEW mail, c = "email" => mail \in {"smtp", "resend"}, NEW answer
    PROVE  /\ Classified(c, mail, answer) = "delivered" <=> answer = "ok"
           /\ answer \in {"timeout", "reset", "busy"} => Classified(c, mail, answer) \in {"timeout", "retryable"}
<1>1. CASE c = "email" /\ mail = "smtp"
  BY <1>1 DEF Classified, classifySmtp
<1>2. CASE c = "email" /\ mail = "resend"
  BY <1>2 DEF Classified, classifyResend
<1>3. CASE c = "webhook"
  BY <1>3 DEF Classified, classifyWebhook
<1>4. CASE c = "push"
  BY <1>4 DEF Classified, classifyPush
<1> QED
  BY <1>1, <1>2, <1>3, <1>4 DEF RouteChannels

\* A delivery is signed with what its job holds.
LEMMA DeliverInv ==
    ASSUME RoutingAssumption, RoutingInv, NEW a \in RoutedAlerts, NEW c \in RouteChannels, deliverRouted(a, c)
    PROVE  RoutingInv'
<1> DEFINE entry == routed[a][c]
           secret == decryptSecret(entry.secret)
<1>1. PICK mail \in (IF c = "email" THEN MailProviders ELSE {Null}),
             answer \in (IF c = "email" THEN MailAnswers ELSE HttpAnswers) :
          delivery' = [channel |-> c, secret |-> secret, own |-> OwnSecrets(entry),
                       answer |-> answer, outcome |-> Classified(c, mail, answer)]
  BY DEF deliverRouted
<1>2. UNCHANGED <<settings, keys, alerting, routed, diagnostic>>
  BY DEF deliverRouted
<1>3. entry \in Jobs /\ JobFits(c, entry)
  BY DEF RoutingInv, RoutingShapes
<1>4. secret \in OwnSecrets(entry) \cup {Null}
  BY <1>3, DecryptFits DEF Jobs, JobFits
<1>5. c = "email" => mail \in {"smtp", "resend"}
  BY <1>1 DEF RoutingAssumption
<1>6. /\ Classified(c, mail, answer) = "delivered" <=> answer = "ok"
      /\ answer \in {"timeout", "reset", "busy"} => Classified(c, mail, answer) \in {"timeout", "retryable"}
  BY <1>5, ClassifiedTruly
<1>7. SignedAsSupplied'
  BY <1>1, <1>4 DEF SignedAsSupplied
<1>8. OutcomesTellTruth'
  BY <1>1, <1>6 DEF OutcomesTellTruth
<1>9. AlertMoves
  BY <1>2, <1>7, <1>8 DEF AlertMoves, RoutingInv, RoutingShapes
<1> QED
  BY <1>9, AlertMove

\* One diagnostic at a time.
LEMMA DiagnosticInv ==
    ASSUME RoutingInv, NEW d \in Diagnosticians,
           claimDiagnostic(d) \/ sendDiagnostic(d) \/ finishDiagnostic(d) \/ dieDiagnosing(d)
    PROVE  RoutingInv'
<1>1. DiagnosticShapes /\ ClaimHeld /\ UNCHANGED <<settings, keys, alerting, routed, delivery>>
  BY DEF RoutingInv, claimDiagnostic, sendDiagnostic, finishDiagnostic, dieDiagnosing, DiagnosticStep
<1>2. prefs' = prefs /\ route' = route
  BY <1>1 DEF settings
<1>3. DiagnosticShapes' /\ ClaimHeld'
  <2> DEFINE here == diagnostic.callers[d]
             row(claim, at, left, released) ==
                [claim |-> claim, callers |-> [diagnostic.callers EXCEPT ![d] = at], left |-> left, released |-> released]
  <2>1. CASE claimDiagnostic(d)
    <3>1. diagnostic.claim = "none" /\ here = "idle" /\ diagnostic' = row("claimed", "sending", diagnostic.left, diagnostic.released)
      BY <1>1, <2>1 DEF claimDiagnostic, ClaimFree, DiagnosticStep, DiagnosticShapes
    <3> QED
      BY <1>1, <3>1 DEF DiagnosticShapes, ClaimHeld
  <2>2. CASE sendDiagnostic(d)
    <3>1. here = "sending" /\ diagnostic.left = 0 /\ diagnostic.claim = "claimed"
      BY <1>1, <2>2 DEF ClaimHeld, sendDiagnostic, DiagnosticStep
    <3>2. \/ diagnostic' = row("claimed", "releasing", 0, diagnostic.released + 1)
          \/ diagnostic' = row("claimed", "delivered", 1, diagnostic.released)
          \/ diagnostic' = row("claimed", "failed", 0, diagnostic.released)
      <4>1. CASE diagnostic' = [diagnostic EXCEPT !.callers[d] = "releasing", !.released = @ + 1]
        BY <1>1, <3>1, <4>1 DEF DiagnosticShapes
      <4>2. ASSUME NEW result \in {"delivered", "failed"},
                   diagnostic' = [diagnostic EXCEPT !.callers[d] = result,
                                                    !.left = IF result = "delivered" THEN @ + 1 ELSE @]
            PROVE  \/ diagnostic' = row("claimed", "delivered", 1, diagnostic.released)
                   \/ diagnostic' = row("claimed", "failed", 0, diagnostic.released)
        <5> DEFINE next == [diagnostic EXCEPT !.callers[d] = result, !.left = IF result = "delivered" THEN 1 ELSE 0]
        <5>1. diagnostic' = next
          BY <1>1, <3>1, <4>2 DEF DiagnosticShapes
        <5>2. CASE result = "delivered"
          BY <1>1, <3>1, <5>1, <5>2 DEF DiagnosticShapes
        <5>3. CASE result = "failed"
          BY <1>1, <3>1, <5>1, <5>3 DEF DiagnosticShapes
        <5> QED
          BY <5>2, <5>3
      <4> QED
        BY <2>2, <4>1, <4>2 DEF sendDiagnostic
    <3>3. diagnostic.released + 1 \in Nat
      BY <1>1 DEF DiagnosticShapes
    <3> QED
      BY <1>1, <3>1, <3>2, <3>3 DEF DiagnosticShapes, ClaimHeld
  <2>3. CASE finishDiagnostic(d)
    <3>1. CASE here = "releasing"
      <4>1. diagnostic.claim = "claimed"
        BY <1>1, <3>1 DEF ClaimHeld
      <4>2. diagnostic' = row("none", "idle", diagnostic.left, diagnostic.released)
        BY <1>1, <2>3, <3>1, <4>1 DEF finishDiagnostic, DiagnosticShapes
      <4> QED
        BY <1>1, <3>1, <4>2 DEF DiagnosticShapes, ClaimHeld
    <3>2. CASE here \in {"delivered", "failed"}
      <4>1. diagnostic' = row(here, "idle", diagnostic.left, diagnostic.released)
        BY <1>1, <2>3, <3>2 DEF finishDiagnostic, DiagnosticShapes
      <4> QED
        BY <1>1, <3>2, <4>1 DEF DiagnosticShapes, ClaimHeld
    <3> QED
      BY <2>3, <3>1, <3>2 DEF finishDiagnostic
  <2>4. CASE dieDiagnosing(d)
    <3>1. here # "idle" /\ diagnostic' = row(diagnostic.claim, "idle", diagnostic.left, diagnostic.released)
      BY <1>1, <2>4 DEF dieDiagnosing, DiagnosticShapes
    <3> QED
      BY <1>1, <3>1 DEF DiagnosticShapes, ClaimHeld
  <2> QED
    BY <2>1, <2>2, <2>3, <2>4
<1>4. RoutingShapes'
  BY <1>1, <1>2 DEF RoutingInv, RoutingShapes
<1>5. SignedAsSupplied' /\ OutcomesTellTruth'
  BY <1>1 DEF RoutingInv, SignedAsSupplied, OutcomesTellTruth
<1> QED
  BY <1>1, <1>2, <1>3, <1>4, <1>5 DEF RoutingInv

\* Every step keeps the invariant.
LEMMA RoutingNextInv ==
    ASSUME RoutingAssumption, RoutingInv, [RoutingNext]_routingVars PROVE RoutingInv'
<1>1. CASE EditNext
  BY <1>1, UserEdits, RestartInv DEF EditNext
<1>2. CASE GenerateNext
  BY <1>2, ReadInv, EnqueueInv DEF GenerateNext
<1>3. CASE \E a \in RoutedAlerts, c \in RouteChannels : deliverRouted(a, c)
  BY <1>3, DeliverInv
<1>4. CASE DiagnosticNext
  BY <1>4, DiagnosticInv DEF DiagnosticNext
<1>5. CASE UNCHANGED routingVars
  <2>1. UNCHANGED <<prefs, quiet, route, keys, alerting, routed, delivery, edits, diagnostic>>
    BY <1>5 DEF routingVars
  <2>2. RoutingShapes' /\ SignedAsSupplied' /\ OutcomesTellTruth'
    BY <2>1 DEF RoutingInv, RoutingShapes, SignedAsSupplied, OutcomesTellTruth
  <2> QED
    BY <2>1, <2>2, DiagnosticStays DEF RoutingInv
<1> QED
  BY <1>1, <1>2, <1>3, <1>4, <1>5 DEF RoutingNext, AlertNext

\* The inductive invariant of routing: a stored secret can only be read as what
\* was supplied, or not at all, a call in progress has overlapped the rows as they
\* are, and the claim row lets one diagnostic on.
THEOREM RoutingInvariance == ASSUME RoutingAssumption PROVE RoutingSpec => []RoutingInv
<1>1. RoutingInit => RoutingInv
  BY RoutingInitInv
<1>2. RoutingInv /\ [RoutingNext]_routingVars => RoutingInv'
  BY RoutingNextInv
<1> QED
  BY <1>1, <1>2, PTL DEF RoutingSpec

\* AlertsGoWhereConfigured for any alerts, callers, endpoints, secrets and keys:
\* where an alert goes, how it is signed, what the adapters report and the one
\* diagnostic mail (preferences.ts, secret-manager.ts, the channel adapters).
THEOREM AlertsGoRight == ASSUME RoutingAssumption PROVE RoutingSpec => []AlertsGoWhereConfigured
<1>1. RoutingSpec => []RoutingInv
  BY RoutingInvariance
<1>2. RoutingInv => AlertsGoWhereConfigured
  <2> SUFFICES ASSUME RoutingInv PROVE AlertsGoWhereConfigured
    OBVIOUS
  <2>1. DiagnosticLeavesOnce /\ diagnostic.claim \in {"none", "claimed", "delivered", "failed"}
    BY DEF RoutingInv, DiagnosticShapes, ClaimHeld, DiagnosticLeavesOnce
  <2>2. RoutingTypeOK
    <3>1. ASSUME NEW c \in RouteChannels
          PROVE  /\ prefs[c].secret.cipher = NoCipher \/ prefs[c].secret.plain = Null
                 /\ prefs[c].stored => (prefs[c].endpoint = Null <=> c = "email")
      <4>1. RowFits(c, prefs[c]) /\ prefs[c].stored \in BOOLEAN
        BY DEF RoutingInv, RoutingShapes, PrefTables, PrefRows
      <4> QED
        BY <4>1 DEF RowFits, Conceals
    <3> QED
      BY <2>1, <3>1 DEF RoutingTypeOK
  <2>3. JobsFollowPreferences
    <3> SUFFICES ASSUME NEW a \in RoutedAlerts, NEW c \in RouteChannels, routed[a][c].written
                 PROVE  \E row \in routed[a][c].rows :
                          \/ row.enabled /\ routed[a][c].recipient = IF c = "email" THEN "account" ELSE row.endpoint
                          \/ c = "email" /\ ~row.stored
      BY DEF JobsFollowPreferences
    <3>1. routed[a][c] \in Jobs /\ JobFits(c, routed[a][c])
      BY DEF RoutingInv, RoutingShapes
    <3>2. routed[a][c].written = TRUE
      BY <3>1 DEF Jobs
    <3> QED
      BY <3>1, <3>2 DEF JobFits
  <2> QED
    BY <2>1, <2>2, <2>3 DEF AlertsGoWhereConfigured, RoutingInv
<1> QED
  BY <1>1, <1>2, PTL

-----------------------------------------------------------------------------
(* From a candle to an alert: the inductive invariant.                     *)

BothWays == <<"long", "short">>
WorkRows ==
    [strat : Strategies, dirs : {BothWays, <<"short">>, <<"long">>, <<>>}, at : 1..MaxCandle,
     trig : ELIGIBLE_STATES \cup {"none"}]
KeyOf(w) == <<w.strat, Head(w.dirs), w.at>>
AlertRows == Keys \X ELIGIBLE_STATES

\* A candle's setup has been dealt with: alerted, too poor, or over a limit.
Handled(k, rows, over) ==
    k \in Qualifying /\ k \in GoodScore =>
        (\E t \in ELIGIBLE_STATES : <<k, t>> \in Range(rows)) \/ k \in over

\* What a scan has left behind it is dealt with.
ScanFits(w, rows, over) ==
    /\ w.dirs \in {BothWays, <<"short">>, <<>>}
    /\ w.dirs # BothWays => Handled(<<w.strat, "long", w.at>>, rows, over)
    /\ w.dirs = <<>> => Handled(<<w.strat, "short", w.at>>, rows, over)

\* Where an actor stands and what it works on.
ActorFits(a, place, w, states, rows, over) ==
    place # "idle" =>
        /\ w \in WorkRows
        /\ place = "cursor" <=> w.dirs = <<>>
        /\ a \in Scanners => ScanFits(w, rows, over)
        /\ a \in Callers => w.dirs \in {<<"long">>, <<"short">>}
        /\ place \in {"alertTx", "alertInsert"} => w.trig \in ELIGIBLE_STATES
        /\ place = "alertInsert" => states[KeyOf(w)] \in ELIGIBLE_STATES

Inserting(a) == apc[a] \in {"insert", "alertInsert"}

\* The lock on the subscription row keeps a count true until its insert.
LimitsFit ==
    subscribed =>
        /\ \A a, b \in Actors : Inserting(a) /\ Inserting(b) => a = b
        /\ Cardinality(Saved) <= MaxSavedSetups /\ Len(alerts) - month <= MaxAlertsPerMonth
        /\ \A a \in Actors :
              /\ apc[a] = "insert" => Cardinality(Saved) < MaxSavedSetups
              /\ apc[a] = "alertInsert" => Len(alerts) - month < MaxAlertsPerMonth

PipeShapes ==
    /\ candle \in 1..MaxCandle /\ month \in 0..Len(alerts) /\ subscribed \in BOOLEAN
    /\ setup \in [Keys -> SetupStates \cup {"absent"}] /\ IsFiniteSet(Saved)
    /\ scored \subseteq Keys /\ refused \subseteq Keys
    /\ alerts \in Seq(AlertRows) /\ IsInjective(alerts) /\ jobs = alerts
    /\ acked \subseteq Range(alerts)
    /\ cursor \in [Strategies -> 0..MaxCandle]
    /\ apc \in [Actors -> SetupPlaces] /\ work \in [Actors -> WorkRows \cup {NoWork}]

PipeInv ==
    /\ PipeShapes
    /\ \A a \in Actors : ActorFits(a, apc[a], work[a], setup, alerts, refused)
    /\ \A s \in Strategies : cursor[s] > 0 =>
          \A d \in {"long", "short"} : Handled(<<s, d, cursor[s]>>, alerts, refused)
    /\ LimitsFit

-----------------------------------------------------------------------------
(* Operators.                                                              *)

\* The directions of a candle, first to last.
LEMMA Ways ==
    /\ Head(BothWays) = "long" /\ Tail(BothWays) = <<"short">> /\ Len(BothWays) = 2
    /\ Head(<<"short">>) = "short" /\ Tail(<<"short">>) = <<>> /\ Len(<<"short">>) = 1
    /\ Head(<<"long">>) = "long" /\ Tail(<<"long">>) = <<>> /\ Len(<<"long">>) = 1
    /\ BothWays # <<"short">> /\ BothWays # <<"long">> /\ BothWays # <<>>
    /\ <<"short">> # <<>> /\ <<"long">> # <<>> /\ <<"long">> # <<"short">>
    /\ Directions = BothWays /\ Range(Directions) = {"long", "short"}
<1>1. Directions = BothWays /\ Range(Directions) = {"long", "short"}
  <2>1. DOMAIN BothWays = {1, 2}
    BY DEF BothWays
  <2> QED
    BY <2>1 DEF Range, Directions, BothWays
<1>2. /\ Head(BothWays) = "long" /\ Tail(BothWays) = <<"short">> /\ Len(BothWays) = 2
      /\ BothWays # <<"short">> /\ BothWays # <<"long">> /\ BothWays # <<>>
  BY DEF BothWays
<1>3. /\ Head(<<"short">>) = "short" /\ Tail(<<"short">>) = <<>> /\ Len(<<"short">>) = 1
      /\ Head(<<"long">>) = "long" /\ Tail(<<"long">>) = <<>> /\ Len(<<"long">>) = 1
      /\ <<"short">> # <<>> /\ <<"long">> # <<>> /\ <<"long">> # <<"short">>
  OBVIOUS
<1> QED
  BY <1>1, <1>2, <1>3

\* The key of a work in progress is a detection key.
LEMMA KeyIsKey ==
    ASSUME NEW w \in WorkRows, w.dirs # <<>>
    PROVE  KeyOf(w) \in Keys
<1>1. Head(w.dirs) \in {"long", "short"}
  BY Ways DEF WorkRows
<1> QED
  BY <1>1, Ways DEF WorkRows, KeyOf, Keys

\* Adding a row once keeps rows distinct and adds that row only.
LEMMA AddedOnce ==
    ASSUME NEW S, NEW rows \in Seq(S), IsInjective(rows), NEW x \in S
    PROVE  /\ AddOnce(rows, x) \in Seq(S) /\ IsInjective(AddOnce(rows, x))
           /\ Range(AddOnce(rows, x)) = Range(rows) \cup {x}
           /\ Len(AddOnce(rows, x)) \in {Len(rows), Len(rows) + 1}
           /\ \A i \in DOMAIN AddOnce(rows, x) \ DOMAIN rows : AddOnce(rows, x)[i] = x
<1> DEFINE more == Append(rows, x)
<1>1. CASE x \in Range(rows)
  BY <1>1 DEF AddOnce
<1>2. CASE x \notin Range(rows)
  <2>1. /\ more \in Seq(S) /\ Len(more) = Len(rows) + 1 /\ more[Len(rows) + 1] = x
        /\ \A i \in 1..Len(rows) : more[i] = rows[i]
    BY AppendProperties
  <2>2. /\ DOMAIN rows = 1..Len(rows) /\ DOMAIN more = 1..(Len(rows) + 1) /\ Len(rows) \in Nat
    BY <2>1
  <2>3. AddOnce(rows, x) = more
    BY <1>2 DEF AddOnce
  <2> HIDE DEF more
  <2>4. DOMAIN more = DOMAIN rows \cup {Len(rows) + 1} /\ Len(rows) + 1 \notin DOMAIN rows
    BY <2>2
  <2>5. Range(more) = Range(rows) \cup {x}
    BY <2>1, <2>2, <2>4 DEF Range
  <2>6. IsInjective(more)
    BY <1>2, <2>1, <2>2, <2>4 DEF IsInjective, Range
  <2> QED
    BY <2>1, <2>2, <2>3, <2>4, <2>5, <2>6
<1> QED
  BY <1>1, <1>2

\* What is dealt with stays so as rows and refusals are added.
LEMMA HandledKeeps ==
    ASSUME NEW rows, NEW more, NEW over, NEW beyond, Range(rows) \subseteq Range(more), over \subseteq beyond
    PROVE  /\ \A k : Handled(k, rows, over) => Handled(k, more, beyond)
           /\ \A w : ScanFits(w, rows, over) => ScanFits(w, more, beyond)
<1>1. \A k : Handled(k, rows, over) => Handled(k, more, beyond)
  BY DEF Handled
<1> QED
  BY <1>1 DEF ScanFits

\* The actor's work and its key.
LEMMA WorkFits ==
    ASSUME PipeInv, NEW a \in Actors, apc[a] # "idle"
    PROVE  /\ work[a] \in WorkRows /\ (apc[a] = "cursor" <=> work[a].dirs = <<>>)
           /\ a \in Scanners => ScanFits(work[a], alerts, refused)
           /\ a \in Callers => work[a].dirs \in {<<"long">>, <<"short">>}
           /\ apc[a] \in {"alertTx", "alertInsert"} => work[a].trig \in ELIGIBLE_STATES
           /\ apc[a] = "alertInsert" => setup[KeyOf(work[a])] \in ELIGIBLE_STATES
           /\ apc[a] # "cursor" => KeyOf(work[a]) \in Keys
           /\ Key(a) = KeyOf(work[a])
<1>1. ActorFits(a, apc[a], work[a], setup, alerts, refused)
  BY DEF PipeInv
<1>2. apc[a] # "cursor" => KeyOf(work[a]) \in Keys
  BY <1>1, KeyIsKey DEF ActorFits
<1> QED
  BY <1>1, <1>2 DEF ActorFits, Key, KeyOf

LeftFor(a, states, rows, over) ==
    \E place \in {"idle", "cursor", "detect"}, w \in WorkRows \cup {NoWork} :
        /\ apc' = [apc EXCEPT ![a] = place] /\ work' = [work EXCEPT ![a] = w]
        /\ ActorFits(a, place, w, states, rows, over)

\* What an actor carries away from a direction it has dealt with.
LEMMA DirectionLeft ==
    ASSUME PipeInv, SetupAssumption, NEW a \in Actors, apc[a] \notin {"idle", "cursor"}, DirectionDone(a),
           NEW states, NEW rows, NEW over, Range(alerts) \subseteq Range(rows), refused \subseteq over,
           a \in Scanners => Handled(KeyOf(work[a]), rows, over)
    PROVE  LeftFor(a, states, rows, over)
<1>1. work[a] \in WorkRows /\ work[a].dirs # <<>> /\ work \in [Actors -> WorkRows \cup {NoWork}]
  BY WorkFits DEF PipeInv, PipeShapes
<1>2. CASE a \in Callers
  BY <1>2 DEF DirectionDone, Finish, ActorFits, LeftFor
<1>3. CASE a \notin Callers
  <2> DEFINE w == [work[a] EXCEPT !.dirs = Tail(work[a].dirs)]
             place == IF Len(work[a].dirs) = 1 THEN "cursor" ELSE "detect"
  <2>1. a \in Scanners
    BY <1>3 DEF Actors
  <2>2. ScanFits(work[a], alerts, refused) /\ ScanFits(work[a], rows, over)
    BY <2>1, WorkFits, HandledKeeps
  <2>3. work' = [work EXCEPT ![a] = w] /\ apc' = [apc EXCEPT ![a] = place]
    BY <1>1, <1>3 DEF DirectionDone
  <2>4. \/ work[a].dirs = BothWays /\ w.dirs = <<"short">> /\ place = "detect"
        \/ work[a].dirs = <<"short">> /\ w.dirs = <<>> /\ place = "cursor"
    <3>1. work[a].dirs = BothWays \/ work[a].dirs = <<"short">>
      BY <1>1, <2>2 DEF ScanFits
    <3>2. w.dirs = Tail(work[a].dirs)
      BY <1>1 DEF WorkRows
    <3> HIDE DEF w
    <3>3. CASE work[a].dirs = BothWays
      <4>1. Tail(work[a].dirs) = <<"short">> /\ Len(work[a].dirs) = 2
        BY <3>3, Ways
      <4> QED
        BY <3>2, <3>3, <4>1
    <3>4. CASE work[a].dirs = <<"short">>
      <4>1. Tail(work[a].dirs) = <<>> /\ Len(work[a].dirs) = 1
        BY <3>4, Ways
      <4> QED
        BY <3>2, <3>4, <4>1
    <3> QED
      BY <3>1, <3>3, <3>4
  <2>5. w \in WorkRows /\ w.strat = work[a].strat /\ w.at = work[a].at
    BY <1>1, <2>4 DEF WorkRows
  <2> HIDE DEF w, place
  <2>6. ScanFits(w, rows, over)
    <3>1. Handled(<<work[a].strat, Head(work[a].dirs), work[a].at>>, rows, over)
      BY <2>1 DEF KeyOf
    <3> QED
      BY <2>2, <2>4, <2>5, <3>1, Ways DEF ScanFits
  <2>7. ActorFits(a, place, w, states, rows, over)
    BY <1>3, <2>4, <2>5, <2>6, Ways DEF ActorFits
  <2> QED
    BY <2>3, <2>4, <2>5, <2>7 DEF LeftFor
<1> QED
  BY <1>2, <1>3

\* An actor that moves leaves the others where they fit.
LEMMA OthersFit ==
    ASSUME PipeInv, NEW a \in Actors, NEW place \in SetupPlaces, NEW w \in WorkRows \cup {NoWork},
           apc' = [apc EXCEPT ![a] = place], work' = [work EXCEPT ![a] = w],
           Range(alerts) \subseteq Range(alerts'), refused \subseteq refused', cursor' = cursor,
           \A k \in Keys : setup[k] \in ELIGIBLE_STATES => setup'[k] = setup[k],
           ActorFits(a, place, w, setup', alerts', refused')
    PROVE  /\ apc' \in [Actors -> SetupPlaces] /\ work' \in [Actors -> WorkRows \cup {NoWork}]
           /\ \A b \in Actors : ActorFits(b, apc'[b], work'[b], setup', alerts', refused')
           /\ \A s \in Strategies : cursor'[s] > 0 =>
                \A d \in {"long", "short"} : Handled(<<s, d, cursor'[s]>>, alerts', refused')
<1>1. apc \in [Actors -> SetupPlaces] /\ work \in [Actors -> WorkRows \cup {NoWork}]
  BY DEF PipeInv, PipeShapes
<1>2. ASSUME NEW b \in Actors PROVE ActorFits(b, apc'[b], work'[b], setup', alerts', refused')
  <2>1. CASE b = a
    BY <1>1, <2>1
  <2>2. CASE b # a
    <3>1. apc'[b] = apc[b] /\ work'[b] = work[b]
      BY <1>1, <2>2
    <3>2. CASE apc[b] = "idle"
      BY <3>1, <3>2 DEF ActorFits
    <3>3. CASE apc[b] # "idle"
      <4>1. /\ work[b] \in WorkRows /\ (apc[b] = "cursor" <=> work[b].dirs = <<>>)
            /\ b \in Scanners => ScanFits(work[b], alerts, refused)
            /\ b \in Callers => work[b].dirs \in {<<"long">>, <<"short">>}
            /\ apc[b] \in {"alertTx", "alertInsert"} => work[b].trig \in ELIGIBLE_STATES
            /\ apc[b] = "alertInsert" => setup[KeyOf(work[b])] \in ELIGIBLE_STATES
            /\ apc[b] # "cursor" => KeyOf(work[b]) \in Keys
        BY <3>3, WorkFits
      <4>2. b \in Scanners => ScanFits(work[b], alerts', refused')
        BY <4>1, HandledKeeps
      <4>3. apc[b] = "alertInsert" => setup'[KeyOf(work[b])] \in ELIGIBLE_STATES
        BY <4>1
      <4> QED
        BY <3>1, <4>1, <4>2, <4>3 DEF ActorFits
    <3> QED
      BY <3>2, <3>3
  <2> QED
    BY <2>1, <2>2
<1>3. \A k : Handled(k, alerts, refused) => Handled(k, alerts', refused')
  BY HandledKeeps
<1> QED
  BY <1>1, <1>2, <1>3 DEF PipeInv

\* An actor moves and the setups and alerts stay as they are.
LEMMA ActorMoves ==
    ASSUME PipeInv, NEW a \in Actors, NEW place \in SetupPlaces, NEW w \in WorkRows \cup {NoWork},
           apc' = [apc EXCEPT ![a] = place], work' = [work EXCEPT ![a] = w],
           UNCHANGED <<candle, setup, alerts, jobs, acked, month, cursor, subscribed>>,
           scored' \subseteq Keys, refused \subseteq refused', refused' \subseteq Keys,
           ActorFits(a, place, w, setup, alerts, refused'),
           place \in {"insert", "alertInsert"} => RowFree(a),
           place = "insert" => Cardinality(Saved) < MaxSavedSetups,
           place = "alertInsert" => Len(alerts) - month < MaxAlertsPerMonth
    PROVE  PipeInv'
<1>1. apc \in [Actors -> SetupPlaces]
  BY DEF PipeInv, PipeShapes
<1>2. Saved' = Saved
  BY DEF Saved
<1>3. /\ apc' \in [Actors -> SetupPlaces] /\ work' \in [Actors -> WorkRows \cup {NoWork}]
      /\ \A b \in Actors : ActorFits(b, apc'[b], work'[b], setup', alerts', refused')
      /\ \A s \in Strategies : cursor'[s] > 0 =>
           \A d \in {"long", "short"} : Handled(<<s, d, cursor'[s]>>, alerts', refused')
  BY OthersFit
<1>4. PipeShapes'
  BY <1>2, <1>3 DEF PipeInv, PipeShapes
<1>5. LimitsFit'
  <2> SUFFICES ASSUME subscribed
               PROVE  /\ \A b, c \in Actors : Inserting(b)' /\ Inserting(c)' => b = c
                      /\ Cardinality(Saved) <= MaxSavedSetups /\ Len(alerts) - month <= MaxAlertsPerMonth
                      /\ \A b \in Actors :
                           /\ apc'[b] = "insert" => Cardinality(Saved) < MaxSavedSetups
                           /\ apc'[b] = "alertInsert" => Len(alerts) - month < MaxAlertsPerMonth
    BY <1>2 DEF LimitsFit
  <2>1. /\ \A b, c \in Actors : Inserting(b) /\ Inserting(c) => b = c
        /\ Cardinality(Saved) <= MaxSavedSetups /\ Len(alerts) - month <= MaxAlertsPerMonth
        /\ \A b \in Actors :
              /\ apc[b] = "insert" => Cardinality(Saved) < MaxSavedSetups
              /\ apc[b] = "alertInsert" => Len(alerts) - month < MaxAlertsPerMonth
    BY DEF PipeInv, LimitsFit
  <2>2. \A b \in Actors \ {a} : apc'[b] = apc[b]
    BY <1>1
  <2>3. apc'[a] = place
    BY <1>1
  <2>4. \A b, c \in Actors : Inserting(b)' /\ Inserting(c)' => b = c
    BY <2>1, <2>2, <2>3 DEF Inserting, RowFree
  <2>5. ASSUME NEW b \in Actors
        PROVE  /\ apc'[b] = "insert" => Cardinality(Saved) < MaxSavedSetups
               /\ apc'[b] = "alertInsert" => Len(alerts) - month < MaxAlertsPerMonth
    <3>1. CASE b = a
      BY <2>3, <3>1
    <3>2. CASE b # a
      BY <2>1, <2>2, <3>2
    <3> QED
      BY <3>1, <3>2
  <2> QED
    BY <2>1, <2>4, <2>5
<1> QED
  BY <1>3, <1>4, <1>5 DEF PipeInv

\* Nothing but an actor's place and work moves, and it goes idle.
LEMMA FinishInv ==
    ASSUME PipeInv, NEW a \in Actors, Finish(a),
           UNCHANGED <<candle, setup, scored, alerts, jobs, acked, month, cursor, subscribed, refused>>
    PROVE  PipeInv'
<1>1. scored \subseteq Keys /\ refused \subseteq Keys
  BY DEF PipeInv, PipeShapes
<1>2. ActorFits(a, "idle", NoWork, setup, alerts, refused')
  BY DEF ActorFits
<1> QED
  BY <1>1, <1>2, ActorMoves DEF Finish, SetupPlaces

\* A direction is left that was dealt with.
LEMMA DirectionDoneInv ==
    ASSUME PipeInv, SetupAssumption, NEW a \in Actors, apc[a] \notin {"idle", "cursor"}, DirectionDone(a),
           UNCHANGED <<candle, setup, scored, alerts, jobs, acked, month, cursor, subscribed>>,
           refused \subseteq refused', refused' \subseteq Keys,
           a \in Scanners => Handled(KeyOf(work[a]), alerts, refused')
    PROVE  PipeInv'
<1>1. scored \subseteq Keys
  BY DEF PipeInv, PipeShapes
<1>2. PICK place \in {"idle", "cursor", "detect"}, w \in WorkRows \cup {NoWork} :
              /\ apc' = [apc EXCEPT ![a] = place] /\ work' = [work EXCEPT ![a] = w]
              /\ ActorFits(a, place, w, setup, alerts, refused')
  BY DirectionLeft DEF LeftFor
<1> QED
  BY <1>1, <1>2, ActorMoves DEF SetupPlaces

\* An actor takes the next step of the same work.
LEMMA ProceedInv ==
    ASSUME PipeInv, NEW a \in Actors, NEW place \in {"count", "insert", "score", "alert", "alertInsert"},
           Proceed(a, place), apc[a] \notin {"idle", "cursor"},
           UNCHANGED <<candle, setup, alerts, jobs, acked, month, cursor, subscribed, refused>>,
           scored' \subseteq Keys,
           place = "alertInsert" => apc[a] = "alertTx" /\ setup[KeyOf(work[a])] \in ELIGIBLE_STATES,
           place \in {"insert", "alertInsert"} => RowFree(a),
           place = "insert" => Cardinality(Saved) < MaxSavedSetups,
           place = "alertInsert" => Len(alerts) - month < MaxAlertsPerMonth
    PROVE  PipeInv'
<1>1. refused \subseteq Keys /\ work \in [Actors -> WorkRows \cup {NoWork}]
  BY DEF PipeInv, PipeShapes
<1>2. apc' = [apc EXCEPT ![a] = place] /\ work' = [work EXCEPT ![a] = work[a]]
  BY <1>1 DEF Proceed
<1>3. ActorFits(a, place, work[a], setup, alerts, refused')
  BY WorkFits DEF ActorFits
<1>4. /\ place \in SetupPlaces /\ work[a] \in WorkRows \cup {NoWork}
      /\ refused \subseteq refused' /\ refused' \subseteq Keys
  BY <1>1 DEF SetupPlaces
<1> QED
  BY <1>2, <1>3, <1>4, ActorMoves

-----------------------------------------------------------------------------
(* The steps of scans and requests.                                        *)

\* scanInstrument: a scan starts with both directions before it.
LEMMA ScanInv ==
    ASSUME PipeInv, SetupAssumption, NEW a \in Actors, NEW s \in Strategies, scanInstrument(a, s)
    PROVE  PipeInv'
<1> DEFINE w == [strat |-> s, dirs |-> Directions, at |-> candle, trig |-> "confirmed"]
<1>1. a \in Scanners /\ a \notin Callers
  BY DEF scanInstrument, SetupAssumption
<1>2. candle \in 1..MaxCandle /\ scored \subseteq Keys /\ refused \subseteq Keys
  BY DEF PipeInv, PipeShapes
<1>3. w \in WorkRows /\ w.dirs = BothWays
  BY <1>2, Ways DEF WorkRows, ELIGIBLE_STATES
<1>4. /\ apc' = [apc EXCEPT ![a] = "detect"] /\ work' = [work EXCEPT ![a] = w]
      /\ UNCHANGED <<candle, setup, scored, alerts, jobs, acked, month, cursor, subscribed, refused>>
  BY DEF scanInstrument
<1> HIDE DEF w
<1>5. ActorFits(a, "detect", w, setup, alerts, refused')
  BY <1>1, <1>3, Ways DEF ActorFits, ScanFits
<1>6. "detect" \in SetupPlaces
  BY DEF SetupPlaces
<1> QED
  BY <1>2, <1>3, <1>4, <1>5, <1>6, ActorMoves

\* A request starts on the one key it names.
LEMMA RequestInv ==
    ASSUME PipeInv, SetupAssumption, NEW a \in Actors, NEW k \in Keys,
           NEW place \in {"detect", "score", "alert"}, NEW trig \in ELIGIBLE_STATES \cup {"none"},
           Request(a, k, place, trig)
    PROVE  PipeInv'
<1> DEFINE w == [strat |-> k[1], dirs |-> <<k[2]>>, at |-> k[3], trig |-> trig]
<1>1. a \in Callers /\ a \notin Scanners
  BY DEF Request, SetupAssumption
<1>2. scored \subseteq Keys /\ refused \subseteq Keys
  BY DEF PipeInv, PipeShapes
<1>3. k[1] \in Strategies /\ k[2] \in {"long", "short"} /\ k[3] \in 1..MaxCandle
  BY Ways DEF Keys
<1>4. w \in WorkRows /\ w.dirs \in {<<"long">>, <<"short">>}
  BY <1>3 DEF WorkRows
<1>5. /\ apc' = [apc EXCEPT ![a] = place] /\ work' = [work EXCEPT ![a] = w]
      /\ UNCHANGED <<candle, setup, scored, alerts, jobs, acked, month, cursor, subscribed, refused>>
  BY DEF Request
<1> HIDE DEF w
<1>6. ActorFits(a, place, w, setup, alerts, refused')
  BY <1>1, <1>4, Ways DEF ActorFits
<1>7. place \in SetupPlaces
  BY DEF SetupPlaces
<1> QED
  BY <1>2, <1>4, <1>5, <1>6, <1>7, ActorMoves

\* detect: a key whose rules do not pass is dealt with.
LEMMA DetectInv ==
    ASSUME PipeInv, SetupAssumption, NEW a \in Actors, detect(a) PROVE PipeInv'
<1>1. apc[a] = "detect" /\ scored \subseteq Keys /\ refused \subseteq Keys
      /\ UNCHANGED <<candle, setup, scored, alerts, jobs, acked, month, cursor, subscribed, refused>>
  BY DEF detect, PipeInv, PipeShapes
<1>2. CASE Key(a) \notin Qualifying /\ DirectionDone(a)
  <2>1. Handled(KeyOf(work[a]), alerts, refused')
    BY <1>1, <1>2, WorkFits DEF Handled
  <2> QED
    BY <1>1, <1>2, <2>1, DirectionDoneInv
<1>3. CASE Finish(a)
  BY <1>1, <1>3, FinishInv
<1>4. CASE Proceed(a, "score") \/ Proceed(a, "count")
  BY <1>1, <1>4, ProceedInv
<1> QED
  BY <1>2, <1>3, <1>4 DEF detect, Onwards

\* PassOver: a key that met a limit is dealt with.
LEMMA PassOverInv ==
    ASSUME PipeInv, SetupAssumption, NEW a \in Actors, apc[a] \notin {"idle", "cursor"}, PassOver(a),
           UNCHANGED <<candle, setup, scored, alerts, jobs, acked, month, cursor, subscribed>>
    PROVE  PipeInv'
<1>1. KeyOf(work[a]) \in Keys /\ Key(a) = KeyOf(work[a])
  BY WorkFits
<1>2. refused \subseteq Keys
  BY DEF PipeInv, PipeShapes
<1>3. refused' = (IF a \in Scanners THEN refused \cup {Key(a)} ELSE refused) /\ DirectionDone(a)
  BY DEF PassOver
<1>4. a \in Scanners => Handled(KeyOf(work[a]), alerts, refused')
  BY <1>1, <1>3 DEF Handled
<1> QED
  BY <1>1, <1>2, <1>3, <1>4, DirectionDoneInv

\* countSetups: the count is taken while nobody else can insert.
LEMMA CountInv ==
    ASSUME PipeInv, SetupAssumption, NEW a \in Actors, countSetups(a) PROVE PipeInv'
<1>1. apc[a] = "count" /\ RowFree(a) /\ scored \subseteq Keys
      /\ UNCHANGED <<candle, setup, scored, alerts, jobs, acked, month, cursor, subscribed>>
  BY DEF countSetups, PipeInv, PipeShapes
<1>2. Cardinality(Saved) \in Nat /\ MaxSavedSetups \in Nat
  BY FS_CardinalityType DEF PipeInv, PipeShapes, SetupAssumption
<1>3. CASE PassOver(a)
  BY <1>1, <1>3, PassOverInv
<1>4. CASE Cardinality(Saved) < MaxSavedSetups /\ Proceed(a, "insert") /\ UNCHANGED refused
  BY <1>1, <1>4, ProceedInv
<1> QED
  BY <1>2, <1>3, <1>4 DEF countSetups

\* scoreSetup: a finished setup ends the scan, any other is scored.
LEMMA ScoreInv ==
    ASSUME PipeInv, SetupAssumption, NEW a \in Actors, scoreSetup(a) PROVE PipeInv'
<1>1. apc[a] = "score" /\ scored \subseteq Keys
      /\ UNCHANGED <<candle, setup, alerts, jobs, acked, month, cursor, subscribed, refused>>
  BY DEF scoreSetup, PipeInv, PipeShapes
<1>2. Key(a) \in Keys /\ refused \subseteq Keys
  BY <1>1, WorkFits DEF PipeInv, PipeShapes
<1>3. CASE GiveUp(a) /\ UNCHANGED scored
  BY <1>1, <1>3, FinishInv DEF GiveUp
<1>4. CASE scored' = scored \cup {Key(a)} /\ Onwards(a, "alert")
  <2>1. scored' \subseteq Keys
    BY <1>1, <1>2, <1>4
  <2>2. CASE Proceed(a, "alert")
    BY <1>1, <2>1, <2>2, ProceedInv
  <2>3. CASE Finish(a)
    <3>1. ActorFits(a, "idle", NoWork, setup, alerts, refused')
      BY DEF ActorFits
    <3> QED
      BY <1>1, <1>2, <2>1, <2>3, <3>1, ActorMoves DEF Finish, SetupPlaces
  <2> QED
    BY <1>4, <2>2, <2>3 DEF Onwards
<1> QED
  BY <1>3, <1>4 DEF scoreSetup

\* generateAlert: a poor score deals with the key; otherwise what the alert is
\* about is an eligible state.
LEMMA GenerateInv ==
    ASSUME PipeInv, SetupAssumption, NEW a \in Actors, generateAlert(a) PROVE PipeInv'
<1> DEFINE k == Key(a)
           trig == TriggerState(setup[k], work[a].trig)
<1>1. apc[a] = "alert" /\ scored \subseteq Keys /\ refused \subseteq Keys
      /\ UNCHANGED <<candle, setup, scored, alerts, jobs, acked, month, cursor, subscribed, refused>>
  BY DEF generateAlert, PipeInv, PipeShapes
<1>2. work[a] \in WorkRows /\ work \in [Actors -> WorkRows \cup {NoWork}]
  BY <1>1, WorkFits DEF PipeInv, PipeShapes
<1>3. CASE GiveUp(a)
  BY <1>1, <1>3, FinishInv DEF GiveUp
<1>4. CASE k \notin GoodScore /\ DirectionDone(a)
  <2>1. Handled(KeyOf(work[a]), alerts, refused')
    BY <1>1, <1>4, WorkFits DEF Handled
  <2> QED
    BY <1>1, <1>4, <2>1, DirectionDoneInv
<1>5. CASE /\ setup[k] \in ELIGIBLE_STATES /\ trig # "refused"
           /\ apc' = [apc EXCEPT ![a] = "alertTx"] /\ work' = [work EXCEPT ![a].trig = trig]
  <2> DEFINE w == [work[a] EXCEPT !.trig = trig]
  <2>1. trig \in ELIGIBLE_STATES
    BY <1>2, <1>5 DEF TriggerState, WorkRows
  <2>2. work' = [work EXCEPT ![a] = w]
    BY <1>2, <1>5
  <2> HIDE DEF trig
  <2>3. w \in WorkRows /\ w.trig = trig /\ w.strat = work[a].strat /\ w.dirs = work[a].dirs /\ w.at = work[a].at
    BY <1>2, <2>1 DEF WorkRows
  <2> HIDE DEF w
  <2>4. ActorFits(a, "alertTx", w, setup, alerts, refused')
    BY <1>1, <2>1, <2>3, WorkFits DEF ActorFits, ScanFits
  <2>5. "alertTx" \in SetupPlaces
    BY DEF SetupPlaces
  <2> QED
    BY <1>1, <1>5, <2>2, <2>3, <2>4, <2>5, ActorMoves
<1> QED
  BY <1>3, <1>4, <1>5 DEF generateAlert

\* alertLimit: the gate and the count are read under the locks.
LEMMA AlertLimitInv ==
    ASSUME PipeInv, SetupAssumption, NEW a \in Actors, alertLimit(a) PROVE PipeInv'
<1>1. apc[a] = "alertTx" /\ RowFree(a) /\ scored \subseteq Keys
      /\ UNCHANGED <<candle, setup, scored, alerts, jobs, acked, month, cursor, subscribed>>
  BY DEF alertLimit, PipeInv, PipeShapes
<1>2. Len(alerts) \in Nat /\ month \in Nat /\ MaxAlertsPerMonth \in Nat
  BY LenProperties DEF PipeInv, PipeShapes, SetupAssumption
<1>3. CASE PassOver(a)
  BY <1>1, <1>3, PassOverInv
<1>4. CASE GiveUp(a) /\ UNCHANGED refused
  BY <1>1, <1>4, FinishInv DEF GiveUp
<1>5. CASE /\ StillEligible(Key(a)) /\ Len(alerts) - month < MaxAlertsPerMonth
           /\ Proceed(a, "alertInsert") /\ UNCHANGED refused
  <2>1. setup[KeyOf(work[a])] \in ELIGIBLE_STATES
    BY <1>1, <1>5, WorkFits DEF StillEligible
  <2> QED
    BY <1>1, <1>5, <2>1, ProceedInv
<1> QED
  BY <1>2, <1>3, <1>4, <1>5 DEF alertLimit

\* abandon: a request or a scan ends wherever it is.
LEMMA AbandonInv ==
    ASSUME PipeInv, NEW a \in Actors, abandon(a) PROVE PipeInv'
  BY FinishInv DEF abandon

\* insertSetup: one setup more at most, and the lock kept its place free.
LEMMA InsertSetupInv ==
    ASSUME PipeInv, SetupAssumption, NEW a \in Actors, insertSetup(a) PROVE PipeInv'
<1> DEFINE k == Key(a)
<1>1. apc[a] = "insert" /\ setup' = [setup EXCEPT ![k] = IF setup[k] = "absent" THEN "confirmed" ELSE setup[k]]
      /\ UNCHANGED <<candle, scored, alerts, jobs, acked, month, cursor, subscribed, refused>>
  BY DEF insertSetup
<1>2. PipeShapes
  BY DEF PipeInv
<1>3. k \in Keys /\ work[a] \in WorkRows
  BY <1>1, WorkFits
<1> HIDE DEF k
<1>4. setup' \in [Keys -> SetupStates \cup {"absent"}] /\ (\A j \in Keys : j # k => setup'[j] = setup[j])
      /\ (setup[k] # "absent" => setup'[k] = setup[k])
  <2>1. "confirmed" \in SetupStates
    BY DEF SetupStates, SETUP_TRANSITIONS
  <2> QED
    BY <1>1, <1>2, <1>3, <2>1 DEF PipeShapes
<1>5. IsFiniteSet(Saved) /\ Saved' \in {Saved, Saved \cup {k}}
  BY <1>2, <1>3, <1>4 DEF PipeShapes, Saved
<1>6. IsFiniteSet(Saved') /\ Cardinality(Saved) \in Nat /\ Cardinality(Saved') \in Nat
      /\ Cardinality(Saved') <= Cardinality(Saved) + 1
  <2>1. Cardinality(Saved) \in Nat /\ IsFiniteSet(Saved \cup {k})
        /\ Cardinality(Saved \cup {k}) \in {Cardinality(Saved), Cardinality(Saved) + 1}
    BY <1>5, FS_CardinalityType, FS_AddElement
  <2>2. CASE Saved' = Saved
    BY <1>5, <2>1, <2>2
  <2>3. CASE Saved' = Saved \cup {k}
    BY <2>1, <2>3
  <2> QED
    BY <1>5, <2>2, <2>3
<1>7. \A j \in Keys : setup[j] \in ELIGIBLE_STATES => setup'[j] = setup[j]
  <2>1. "absent" \notin ELIGIBLE_STATES
    BY DEF ELIGIBLE_STATES
  <2> QED
    BY <1>4, <2>1
<1>8. PICK place \in {"idle", "score"}, w \in WorkRows \cup {NoWork} :
          /\ apc' = [apc EXCEPT ![a] = place] /\ work' = [work EXCEPT ![a] = w]
          /\ ActorFits(a, place, w, setup', alerts', refused')
  <2>1. CASE Finish(a)
    BY <2>1 DEF Finish, ActorFits
  <2>2. CASE Proceed(a, "score")
    <3>1. work' = [work EXCEPT ![a] = work[a]] /\ apc' = [apc EXCEPT ![a] = "score"]
      BY <1>2, <2>2 DEF Proceed, PipeShapes
    <3>2. ActorFits(a, "score", work[a], setup', alerts', refused')
      BY <1>1, WorkFits DEF ActorFits
    <3> QED
      BY <1>3, <3>1, <3>2
  <2> QED
    BY <2>1, <2>2 DEF insertSetup, Onwards
<1>9. place \in SetupPlaces
  BY DEF SetupPlaces
<1>10. /\ apc' \in [Actors -> SetupPlaces] /\ work' \in [Actors -> WorkRows \cup {NoWork}]
       /\ \A b \in Actors : ActorFits(b, apc'[b], work'[b], setup', alerts', refused')
       /\ \A s \in Strategies : cursor'[s] > 0 =>
            \A d \in {"long", "short"} : Handled(<<s, d, cursor'[s]>>, alerts', refused')
  BY <1>1, <1>7, <1>8, <1>9, OthersFit
<1>11. LimitsFit'
  <2> SUFFICES ASSUME subscribed
               PROVE  /\ \A b \in Actors : ~Inserting(b)'
                      /\ Cardinality(Saved') <= MaxSavedSetups /\ Len(alerts) - month <= MaxAlertsPerMonth
    BY <1>1 DEF LimitsFit, Inserting
  <2>1. /\ \A b, c \in Actors : Inserting(b) /\ Inserting(c) => b = c
        /\ Cardinality(Saved) < MaxSavedSetups /\ Len(alerts) - month <= MaxAlertsPerMonth
    BY <1>1 DEF PipeInv, LimitsFit
  <2>2. \A b \in Actors : ~Inserting(b)'
    BY <1>1, <1>2, <1>8, <2>1 DEF Inserting, PipeShapes
  <2> QED
    BY <1>6, <2>1, <2>2 DEF SetupAssumption
<1>12. PipeShapes'
  BY <1>1, <1>2, <1>4, <1>6, <1>10 DEF PipeShapes
<1> QED
  BY <1>10, <1>11, <1>12 DEF PipeInv

\* insertAlert: one alert more at most, its job with it, and the setup is as
\* the gate saw it.
LEMMA InsertAlertInv ==
    ASSUME PipeInv, SetupAssumption, NEW a \in Actors, insertAlert(a) PROVE PipeInv' /\ NewAlertIsLive
<1> DEFINE k == KeyOf(work[a])
           row == <<k, work[a].trig>>
<1>1. apc[a] = "alertInsert" /\ alerts' = AddOnce(alerts, row) /\ jobs' = AddOnce(jobs, row) /\ DirectionDone(a)
      /\ UNCHANGED <<candle, setup, scored, acked, month, cursor, subscribed, refused>>
  BY WorkFits DEF insertAlert
<1>2. PipeShapes
  BY DEF PipeInv
<1>3. k \in Keys /\ work[a].trig \in ELIGIBLE_STATES /\ setup[k] \in ELIGIBLE_STATES /\ row \in AlertRows
  BY <1>1, WorkFits DEF AlertRows
<1> HIDE DEF k
<1>4. /\ alerts' \in Seq(AlertRows) /\ IsInjective(alerts') /\ jobs' = alerts'
      /\ Range(alerts') = Range(alerts) \cup {row}
      /\ Len(alerts') \in {Len(alerts), Len(alerts) + 1}
      /\ \A i \in DOMAIN alerts' \ DOMAIN alerts : alerts'[i] = row
  <2> HIDE DEF row
  <2>1. alerts \in Seq(AlertRows) /\ IsInjective(alerts) /\ jobs = alerts
    BY <1>2 DEF PipeShapes
  <2>2. alerts' = AddOnce(alerts, row) /\ jobs' = alerts'
    BY <1>1, <2>1
  <2> QED
    BY <1>3, <2>1, <2>2, AddedOnce
<1>5. NewAlertIsLive
  <2>1. row[1] = k /\ ~SetupOver(setup[k])
    BY <1>3 DEF ELIGIBLE_STATES, SetupOver, SETUP_TRANSITIONS
  <2> HIDE DEF row
  <2> QED
    BY <1>4, <2>1 DEF NewAlertIsLive
<1>6. Handled(KeyOf(work[a]), alerts', refused')
  BY <1>3, <1>4 DEF Handled, k
<1>7. PICK place \in {"idle", "cursor", "detect"}, w \in WorkRows \cup {NoWork} :
          /\ apc' = [apc EXCEPT ![a] = place] /\ work' = [work EXCEPT ![a] = w]
          /\ ActorFits(a, place, w, setup', alerts', refused')
  <2>1. Range(alerts) \subseteq Range(alerts') /\ refused \subseteq refused'
    BY <1>1, <1>4
  <2>2. apc[a] \notin {"idle", "cursor"} /\ DirectionDone(a)
    BY <1>1
  <2>3. LeftFor(a, setup', alerts', refused')
    BY <1>6, <2>1, <2>2, DirectionLeft
  <2> QED
    BY <2>3 DEF LeftFor
<1>8. place \in SetupPlaces
  BY DEF SetupPlaces
<1>9. /\ apc' \in [Actors -> SetupPlaces] /\ work' \in [Actors -> WorkRows \cup {NoWork}]
      /\ \A b \in Actors : ActorFits(b, apc'[b], work'[b], setup', alerts', refused')
      /\ \A s \in Strategies : cursor'[s] > 0 =>
           \A d \in {"long", "short"} : Handled(<<s, d, cursor'[s]>>, alerts', refused')
  BY <1>1, <1>4, <1>7, <1>8, OthersFit
<1>10. Len(alerts) \in Nat /\ month \in 0..Len(alerts) /\ Saved' = Saved
  BY <1>1, <1>2, LenProperties DEF PipeShapes, Saved
<1>11. LimitsFit'
  <2> SUFFICES ASSUME subscribed
               PROVE  /\ \A b \in Actors : ~Inserting(b)'
                      /\ Cardinality(Saved) <= MaxSavedSetups /\ Len(alerts') - month <= MaxAlertsPerMonth
    BY <1>1, <1>10 DEF LimitsFit, Inserting
  <2>1. /\ \A b, c \in Actors : Inserting(b) /\ Inserting(c) => b = c
        /\ Cardinality(Saved) <= MaxSavedSetups /\ Len(alerts) - month < MaxAlertsPerMonth
    BY <1>1 DEF PipeInv, LimitsFit
  <2>2. \A b \in Actors : ~Inserting(b)'
    BY <1>1, <1>2, <1>7, <2>1 DEF Inserting, PipeShapes
  <2> QED
    BY <1>4, <1>10, <2>1, <2>2 DEF SetupAssumption
<1>12. PipeShapes'
  <2>1. month \in 0..Len(alerts')
    BY <1>4, <1>10
  <2>2. acked \subseteq Range(alerts')
    BY <1>2, <1>4 DEF PipeShapes
  <2> QED
    BY <1>1, <1>2, <1>4, <1>9, <1>10, <2>1, <2>2 DEF PipeShapes
<1> QED
  BY <1>5, <1>9, <1>11, <1>12 DEF PipeInv

\* upsertCursor: the scan has dealt with both directions of its candle.
LEMMA CursorInv ==
    ASSUME PipeInv, SetupAssumption, NEW a \in Actors, upsertCursor(a) PROVE PipeInv'
<1> DEFINE s0 == work[a].strat
           c0 == work[a].at
<1>1. apc[a] = "cursor" /\ cursor' = [cursor EXCEPT ![s0] = c0] /\ Finish(a)
      /\ UNCHANGED <<candle, setup, scored, alerts, jobs, acked, month, subscribed, refused>>
  BY DEF upsertCursor
<1>2. PipeShapes /\ LimitsFit
  BY DEF PipeInv
<1>3. work[a] \in WorkRows /\ work[a].dirs = <<>> /\ a \in Scanners
  BY <1>1, WorkFits, Ways DEF Actors
<1>4. s0 \in Strategies /\ c0 \in 1..MaxCandle
  BY <1>3 DEF WorkRows
<1>5. \A d \in {"long", "short"} : Handled(<<s0, d, c0>>, alerts, refused)
  BY <1>1, <1>3, WorkFits, Ways DEF ScanFits
<1> HIDE DEF s0, c0
<1>6. cursor' \in [Strategies -> 0..MaxCandle]
  BY <1>1, <1>2, <1>4 DEF PipeShapes, SetupAssumption
<1>7. ASSUME NEW s \in Strategies, cursor'[s] > 0, NEW d \in {"long", "short"}
      PROVE  Handled(<<s, d, cursor'[s]>>, alerts, refused)
  <2>1. CASE s = s0
    <3>1. cursor'[s] = c0
      BY <1>1, <1>2, <1>4, <2>1 DEF PipeShapes
    <3> QED
      BY <1>5, <2>1, <3>1
  <2>2. CASE s # s0
    <3>1. cursor'[s] = cursor[s]
      BY <1>1, <1>2, <1>4, <2>2 DEF PipeShapes
    <3> QED
      BY <1>7, <3>1 DEF PipeInv
  <2> QED
    BY <2>1, <2>2
<1>8. /\ apc' = [apc EXCEPT ![a] = "idle"] /\ work' = [work EXCEPT ![a] = NoWork] /\ Saved' = Saved
  BY <1>1 DEF Finish, Saved
<1>9. apc' \in [Actors -> SetupPlaces] /\ work' \in [Actors -> WorkRows \cup {NoWork}]
  BY <1>2, <1>8 DEF PipeShapes, SetupPlaces
<1>10. ASSUME NEW b \in Actors PROVE ActorFits(b, apc'[b], work'[b], setup', alerts', refused')
  <2>1. CASE b = a
    BY <1>2, <1>8, <2>1 DEF ActorFits, PipeShapes
  <2>2. CASE b # a
    <3>1. apc'[b] = apc[b] /\ work'[b] = work[b]
      BY <1>2, <1>8, <2>2 DEF PipeShapes
    <3> QED
      BY <1>1, <3>1 DEF PipeInv
  <2> QED
    BY <2>1, <2>2
<1>11. LimitsFit'
  <2>1. \A b \in Actors : apc'[b] \in {"insert", "alertInsert"} => apc'[b] = apc[b]
    BY <1>2, <1>8 DEF PipeShapes
  <2> QED
    BY <1>1, <1>2, <1>8, <2>1 DEF LimitsFit, Inserting
<1>12. PipeShapes'
  BY <1>1, <1>2, <1>6, <1>8, <1>9 DEF PipeShapes
<1> QED
  BY <1>1, <1>7, <1>10, <1>11, <1>12 DEF PipeInv

-----------------------------------------------------------------------------
(* The owner and the clock.                                                *)

\* transitionSetup: a setup that an alert transaction has locked stays.
LEMMA TransitionInv ==
    ASSUME PipeInv, SetupAssumption, NEW k \in Keys, NEW to, transitionSetup(k, to) PROVE PipeInv'
<1>1. /\ setup[k] # "absent" /\ to \in SETUP_TRANSITIONS[setup[k]] /\ setup' = [setup EXCEPT ![k] = to]
      /\ \A a \in Actors : ~(apc[a] = "alertInsert" /\ Key(a) = k)
      /\ UNCHANGED <<candle, scored, alerts, jobs, acked, month, cursor, subscribed, apc, work, refused>>
  BY DEF transitionSetup
<1>2. PipeShapes /\ LimitsFit
  BY DEF PipeInv
<1>3. to \in SetupStates /\ to # "absent"
  <2>1. setup[k] \in SetupStates
    BY <1>1, <1>2 DEF PipeShapes
  <2> QED
    BY <1>1, <2>1 DEF SetupStates, SETUP_TRANSITIONS
<1>4. setup' \in [Keys -> SetupStates \cup {"absent"}] /\ Saved' = Saved
  BY <1>1, <1>2, <1>3 DEF PipeShapes, Saved
<1>5. ASSUME NEW b \in Actors PROVE ActorFits(b, apc[b], work[b], setup', alerts, refused)
  <2>1. CASE apc[b] # "alertInsert"
    BY <2>1 DEF PipeInv, ActorFits
  <2>2. CASE apc[b] = "alertInsert"
    <3>1. KeyOf(work[b]) # k /\ KeyOf(work[b]) \in Keys
      BY <1>1, <2>2, WorkFits
    <3>2. setup'[KeyOf(work[b])] = setup[KeyOf(work[b])]
      BY <1>1, <1>2, <3>1 DEF PipeShapes
    <3> QED
      BY <3>2 DEF PipeInv, ActorFits
  <2> QED
    BY <2>1, <2>2
<1>6. PipeShapes'
  BY <1>1, <1>2, <1>4 DEF PipeShapes
<1>7. LimitsFit'
  BY <1>1, <1>2, <1>4 DEF LimitsFit, Inserting
<1>8. \A s \in Strategies : cursor'[s] > 0 =>
          \A d \in {"long", "short"} : Handled(<<s, d, cursor'[s]>>, alerts', refused')
  BY <1>1 DEF PipeInv
<1> QED
  BY <1>1, <1>5, <1>6, <1>7, <1>8 DEF PipeInv

\* acknowledgeAlert, closeCandle and newMonth touch no work in progress.
LEMMA OwnerInv ==
    ASSUME PipeInv, SetupAssumption,
           closeCandle \/ newMonth \/ \E i \in 1..Cardinality(Keys) : acknowledgeAlert(i)
    PROVE  PipeInv'
<1>1. UNCHANGED <<setup, scored, alerts, jobs, cursor, subscribed, apc, work, refused>>
  BY DEF closeCandle, newMonth, acknowledgeAlert
<1>2. PipeShapes /\ LimitsFit /\ Saved' = Saved
  BY <1>1 DEF PipeInv, Saved
<1>3. Len(alerts) \in Nat
  BY <1>2, LenProperties DEF PipeShapes
<1>4. candle' \in 1..MaxCandle
  BY <1>2 DEF PipeShapes, SetupAssumption, closeCandle, newMonth, acknowledgeAlert
<1>5. acked' \subseteq Range(alerts)
  BY <1>2 DEF PipeShapes, closeCandle, newMonth, acknowledgeAlert, Range
<1>6. month' \in 0..Len(alerts) /\ (month' = month \/ month' = Len(alerts)) /\ month \in Nat
  BY <1>2, <1>3 DEF PipeShapes, closeCandle, newMonth, acknowledgeAlert
<1>7. LimitsFit'
  <2>1. /\ Len(alerts) - month <= MaxAlertsPerMonth => Len(alerts) - month' <= MaxAlertsPerMonth
        /\ Len(alerts) - month < MaxAlertsPerMonth => Len(alerts) - month' < MaxAlertsPerMonth
    BY <1>2, <1>3, <1>6 DEF SetupAssumption, PipeShapes
  <2> QED
    BY <1>1, <1>2, <2>1 DEF LimitsFit, Inserting
<1>8. PipeShapes'
  BY <1>1, <1>2, <1>4, <1>5, <1>6 DEF PipeShapes
<1>9. /\ \A b \in Actors : ActorFits(b, apc'[b], work'[b], setup', alerts', refused')
      /\ \A s \in Strategies : cursor'[s] > 0 =>
           \A d \in {"long", "short"} : Handled(<<s, d, cursor'[s]>>, alerts', refused')
  BY <1>1 DEF PipeInv
<1> QED
  BY <1>7, <1>8, <1>9 DEF PipeInv

\* The first state: no setup, no alert, nobody at work.
LEMMA PipeInitInv == ASSUME SetupAssumption, SetupInit PROVE PipeInv
<1>1. /\ candle = 1 /\ month = 0 /\ subscribed \in BOOLEAN /\ setup = [k \in Keys |-> "absent"]
      /\ scored = {} /\ alerts = <<>> /\ jobs = <<>> /\ acked = {} /\ refused = {}
      /\ cursor = [s \in Strategies |-> 0]
      /\ apc = [a \in Actors |-> "idle"] /\ work = [a \in Actors |-> NoWork]
  BY DEF SetupInit
<1>2. Saved = {} /\ IsFiniteSet(Saved) /\ Cardinality(Saved) = 0
  BY <1>1, FS_EmptySet DEF Saved
<1>3. alerts \in Seq(AlertRows) /\ IsInjective(alerts) /\ Len(alerts) = 0
  BY <1>1, EmptySeq DEF IsInjective
<1>4. PipeShapes
  BY <1>1, <1>2, <1>3 DEF PipeShapes, SetupPlaces, SetupAssumption
<1>5. LimitsFit
  BY <1>1, <1>2, <1>3 DEF LimitsFit, Inserting, SetupAssumption
<1>6. \A a \in Actors : ActorFits(a, apc[a], work[a], setup, alerts, refused)
  BY <1>1 DEF ActorFits
<1>7. \A s \in Strategies : cursor[s] = 0
  BY <1>1
<1> QED
  BY <1>4, <1>5, <1>6, <1>7 DEF PipeInv

\* Every step of a scan or a request keeps the invariant.
LEMMA ActorStepInv ==
    ASSUME PipeInv, SetupAssumption, NEW a \in Actors, ActorStep(a) PROVE PipeInv'
<1>1. Qualifying \subseteq Keys /\ Triggers \subseteq ELIGIBLE_STATES \cup {"none"}
  BY DEF SetupAssumption
<1>2. CASE \E k \in Qualifying : detectRoute(a, k) \/ scoreRoute(a, k)
  BY <1>1, <1>2, RequestInv DEF detectRoute, scoreRoute
<1>3. CASE \E k \in Qualifying, t \in Triggers : alertRoute(a, k, t)
  BY <1>1, <1>3, RequestInv DEF alertRoute
<1>4. CASE \E s \in Strategies : scanInstrument(a, s)
  BY <1>4, ScanInv
<1>5. CASE detect(a) \/ countSetups(a) \/ insertSetup(a) \/ scoreSetup(a) \/ generateAlert(a)
  BY <1>5, DetectInv, CountInv, InsertSetupInv, ScoreInv, GenerateInv
<1>6. CASE alertLimit(a) \/ insertAlert(a) \/ upsertCursor(a) \/ abandon(a)
  BY <1>6, AlertLimitInv, InsertAlertInv, CursorInv, AbandonInv
<1> QED
  BY <1>2, <1>3, <1>4, <1>5, <1>6 DEF ActorStep

\* Every step keeps the invariant.
LEMMA PipeNextInv == ASSUME SetupAssumption, PipeInv, [SetupNext]_setupVars PROVE PipeInv'
<1>1. CASE UNCHANGED setupVars
  <2>1. UNCHANGED <<candle, setup, scored, alerts, jobs, acked, month, cursor, subscribed, apc, work, refused>>
    BY <1>1 DEF setupVars
  <2> QED
    BY <2>1 DEF PipeInv, PipeShapes, LimitsFit, Inserting, Saved
<1>2. CASE \E k \in Keys, to \in ToStates : transitionSetup(k, to)
  BY <1>2, TransitionInv
<1>3. CASE \E a \in Actors : ActorStep(a)
  BY <1>3, ActorStepInv
<1>4. CASE closeCandle \/ newMonth \/ \E i \in 1..Cardinality(Keys) : acknowledgeAlert(i)
  BY <1>4, OwnerInv
<1> QED
  BY <1>1, <1>2, <1>3, <1>4 DEF SetupNext

\* A step adds alerts only for setups that are not over.
LEMMA NewAlertsLive ==
    ASSUME SetupAssumption, PipeInv, [SetupNext]_setupVars PROVE [NewAlertIsLive]_setupVars
<1>1. CASE \E a \in Actors : insertAlert(a)
  BY <1>1, InsertAlertInv
<1>2. CASE UNCHANGED alerts
  BY <1>2 DEF NewAlertIsLive
<1>3. UNCHANGED setupVars => UNCHANGED alerts
  BY DEF setupVars
<1>4. ASSUME NEW a \in Actors, ActorStep(a), ~insertAlert(a) PROVE UNCHANGED alerts
  BY <1>4 DEF ActorStep, scanInstrument, detectRoute, scoreRoute, alertRoute, Request, detect, countSetups,
     insertSetup, scoreSetup, generateAlert, alertLimit, upsertCursor, abandon
<1>5. (\E k \in Keys, to \in ToStates : transitionSetup(k, to))
      \/ (\E i \in 1..Cardinality(Keys) : acknowledgeAlert(i)) \/ closeCandle \/ newMonth => UNCHANGED alerts
  BY DEF transitionSetup, acknowledgeAlert, closeCandle, newMonth
<1> QED
  BY <1>1, <1>2, <1>3, <1>4, <1>5 DEF SetupNext

\* PipeInv is inductive: a count made under the subscription row stands until
\* its insert, a setup whose alert is about to be written is as the gate saw it,
\* and what a scan has left behind, like what a cursor names, was dealt with.
THEOREM PipeInvariance == ASSUME SetupAssumption PROVE SetupSpec => []PipeInv
<1>1. SetupInit => PipeInv
  BY PipeInitInv
<1>2. PipeInv /\ [SetupNext]_setupVars => PipeInv'
  BY PipeNextInv
<1> QED
  BY <1>1, <1>2, PTL DEF SetupSpec

\* From a closed candle to an alert, for any strategies, limits, scans and
\* requests (detect, scoreSetup, generateAlert, scanInstrument): an alert and its
\* job are written once and for a setup that is not over, an account with a
\* subscription row stays within its plan, and the cursor skips nothing.
THEOREM AlertsOnce == ASSUME SetupAssumption PROVE SetupSpec => AlertsAreOnce
<1>1. SetupSpec => []PipeInv
  BY PipeInvariance
<1>2. PipeInv => SetupTypeOK /\ AlertedOnce /\ WithinEntitlements /\ CursorSkipsNothing
  <2> SUFFICES ASSUME PipeInv PROVE SetupTypeOK /\ AlertedOnce /\ WithinEntitlements /\ CursorSkipsNothing
    OBVIOUS
  <2>1. PipeShapes
    BY DEF PipeInv
  <2>2. \A a \in Actors : apc[a] # "idle" => work[a].strat \in Strategies /\ work[a].at \in 1..MaxCandle
    BY WorkFits DEF WorkRows
  <2>3. SetupTypeOK
    <3>1. month \in Nat
      BY <2>1, LenProperties DEF PipeShapes
    <3> QED
      BY <2>1, <2>2, <3>1 DEF PipeShapes, AlertRows, SetupTypeOK
  <2>4. AlertedOnce
    BY <2>1 DEF PipeShapes, AlertedOnce
  <2>5. WithinEntitlements
    BY DEF PipeInv, LimitsFit, WithinEntitlements
  <2>6. CursorSkipsNothing
    BY Ways DEF PipeInv, Handled, CursorSkipsNothing
  <2> QED
    BY <2>3, <2>4, <2>5, <2>6
<1>3. PipeInv /\ [SetupNext]_setupVars => [NewAlertIsLive]_setupVars
  BY NewAlertsLive
<1> QED
  BY <1>1, <1>2, <1>3, PTL DEF SetupSpec, AlertsAreOnce, NoAlertForFinishedSetup
==============================================================================
