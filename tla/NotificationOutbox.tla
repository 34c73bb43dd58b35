------------------------- MODULE NotificationOutbox -------------------------
(***************************************************************************)
(* The durable notification outbox and the workers that drain it           *)
(* (packages/core/src/notifications/outbox.ts and worker.ts, driven by     *)
(* apps/api/src/delivery-worker.ts).                                       *)
(*                                                                         *)
(* A job is a row of one of three channel tables.  Any number of workers   *)
(* run the same batch: recover expired claims, requeue jobs whose channel  *)
(* is configured again, then claim and send one job at a time under a      *)
(* lease with a fresh token.  Time is abstract: a lease may expire, and a  *)
(* backoff may end, at any moment; a heartbeat that succeeds changes       *)
(* nothing the model can see.  recoverStale's UPDATEs (two per table) are  *)
(* one step: each touches only rows whose lease is gone, which no other    *)
(* operation can change in between.                                        *)
(***************************************************************************)
EXTENDS Naturals, FiniteSets, Sequences

CONSTANTS
    Job,          \* alerts' delivery jobs
    ChannelOf,    \* the channel (table) of each job
    Configurable, \* channels whose credentials a deployment may give or take
    Worker,       \* invocations of the worker that may overlap
    MaxAttempts,  \* max_attempts of every job
    BatchSize,    \* jobs per runOnce
    MaxBatchSize, \* MAX_NOTIFICATION_BATCH_SIZE, maintenance's requeue limit
    MaxRequeues,  \* bound: how often one job is requeued after unavailable
    MaxCrashes,   \* bound: worker deaths
    MaxChanges    \* bound: changes of the providers' configuration

Channel == {"email", "webhook", "push"}
canonical == <<"email", "webhook", "push">>
\* The table a configuration with e-mail jobs only gives to ChannelOf.
EmailOnly == [j \in Job |-> "email"]

ASSUME BoundsAssumption ==
    /\ MaxAttempts \in Nat \ {0} /\ BatchSize \in Nat \ {0}
    /\ MaxBatchSize \in Nat /\ BatchSize <= MaxBatchSize
    /\ MaxRequeues \in Nat /\ MaxCrashes \in Nat /\ MaxChanges \in Nat
ASSUME ChannelAssumption ==
    /\ ChannelOf \in [Job -> Channel]
    /\ Configurable \subseteq Channel \ {"webhook"}

VARIABLES
    status,       \* status column; "absent" before enqueue, "deleted" after cleanup
    attempts,     \* attempts column
    owner,        \* locked_by: the token of the claim, 0 for NULL
    leased,       \* locked_at is within the lease
    due,          \* next_attempt_at has passed
    claims,       \* the lifetime counters of notification_delivery_fairness
    lastChannel,  \* its round-robin turn
    configured,   \* channels whose provider is configured
    worker,       \* where each worker is in runOnce / runMaintenance
    sends,        \* provider.send calls made for each job
    requeues, crashes, changes

job == <<status, attempts, owner, leased, due>>
fairness == <<claims, lastChannel>>
outside == <<sends, requeues, crashes, changes, configured>>
vars == <<job, fairness, worker, outside>>

Settled == {"delivered", "failed", "unavailable"}
Status == {"absent", "pending", "processing", "deleted"} \cup Settled
SendResult == {"delivered", "retryable", "permanent", "unavailable"}
\* A run is a batch, the ticker's maintenance followed by a batch, or the
\* maintenance endpoint alone.
Mode == {"batch", "both", "maintenance"}
WorkerState ==
    [pc : {"idle", "recover", "requeue", "cleanup", "claim", "claimed", "sending", "sent"},
     mode : Mode, todo : SUBSET Channel, left : 0..BatchSize,
     job : Job \cup {"none"}, token : Nat, result : SendResult, lost : BOOLEAN]
Idle == [pc |-> "idle", mode |-> "batch", todo |-> {}, left |-> 0,
         job |-> "none", token |-> 0, result |-> "retryable", lost |-> FALSE]

TypeOK ==
    /\ status \in [Job -> Status]
    /\ attempts \in [Job -> 0..MaxAttempts]
    /\ owner \in [Job -> Nat]
    /\ leased \in [Job -> BOOLEAN]
    /\ due \in [Job -> BOOLEAN]
    /\ claims \in [Channel -> Nat]
    /\ lastChannel \in Channel
    /\ configured \in SUBSET Channel
    /\ worker \in [Worker -> WorkerState]
    /\ sends \in [Job -> Nat]
    /\ requeues \in [Job -> Nat]
    /\ crashes \in Nat /\ changes \in Nat

\* The webhook provider needs no credentials and is always configured.
Init ==
    /\ status = [j \in Job |-> "absent"]
    /\ attempts = [j \in Job |-> 0]
    /\ owner = [j \in Job |-> 0]
    /\ leased = [j \in Job |-> FALSE]
    /\ due = [j \in Job |-> FALSE]
    /\ claims = [c \in Channel |-> 0]
    /\ lastChannel = "webhook"
    /\ \E C \in SUBSET Configurable : configured = {"webhook"} \cup C
    /\ worker = [w \in Worker |-> Idle]
    /\ sends = [j \in Job |-> 0]
    /\ requeues = [j \in Job |-> 0]
    /\ crashes = 0 /\ changes = 0

-----------------------------------------------------------------------------
(* Rows                                                                    *)

\* The alert's transaction inserts the job; a replay meets the unique key and
\* changes nothing.
enqueue(j) ==
    /\ status[j] = "absent"
    /\ status' = [status EXCEPT ![j] = "pending"]
    /\ due' = [due EXCEPT ![j] = TRUE]
    /\ UNCHANGED <<attempts, owner, leased, fairness, worker, outside>>

\* Mutant: the acknowledgement matches the row but not the token.
OwnsAnyToken(w) == status[worker[w].job] = "processing" /\ leased[worker[w].job]

\* The WHERE clause of every renewal and acknowledgement.
Owns(w) ==
    LET j == worker[w].job IN
    status[j] = "processing" /\ owner[j] = worker[w].token /\ leased[j]

\* A row leaves processing: status s, next attempt now or later.
Release(j, s, isDue) ==
    /\ status' = [status EXCEPT ![j] = s]
    /\ owner' = [owner EXCEPT ![j] = 0]
    /\ leased' = [leased EXCEPT ![j] = FALSE]
    /\ due' = [due EXCEPT ![j] = isDue]
    /\ UNCHANGED attempts

-----------------------------------------------------------------------------
(* runOnce and runMaintenance                                              *)

At(w, pc) == worker[w].pc = pc
Goto(w, pc) == worker' = [worker EXCEPT ![w].pc = pc]
\* The loop of runOnce turns to the next job.
NextJob(w) == worker' = [worker EXCEPT ![w] = [Idle EXCEPT !.pc = "claim", !.left = worker[w].left]]

\* A tick or an external trigger.
startRun(w, m) ==
    /\ At(w, "idle")
    /\ worker' = [worker EXCEPT ![w] = [Idle EXCEPT !.pc = "recover", !.mode = m,
                                                    !.left = BatchSize]]
    /\ UNCHANGED <<job, fairness, outside>>

\* Mutant: only a claim that nobody holds is taken for stale.
ExpiredUnowned(j) == status[j] = "processing" /\ ~leased[j] /\ owner[j] = 0

\* A claim whose lease has run out.
Expired(j) == status[j] = "processing" /\ ~leased[j]

\* Expired claims go back to pending, or to failed when the budget is gone.
AfterRecovery(j) == IF attempts[j] < MaxAttempts THEN "pending" ELSE "failed"

recoverStale(w) ==
    /\ At(w, "recover")
    /\ status' = [j \in Job |-> IF Expired(j) THEN AfterRecovery(j) ELSE status[j]]
    /\ owner' = [j \in Job |-> IF Expired(j) THEN 0 ELSE owner[j]]
    /\ due' = [j \in Job |-> Expired(j) \/ due[j]]
    /\ worker' = [worker EXCEPT ![w].pc = "requeue", ![w].todo = configured]
    /\ UNCHANGED <<attempts, leased, fairness, outside>>

\* Mutant: dead letters are requeued as well.
BlockedOrFailed(c) == {j \in Job : status[j] \in {"unavailable", "failed"} /\ ChannelOf[j] = c}

\* Jobs the requeue of channel c may pick.
Blocked(c) == {j \in Job : status[j] = "unavailable" /\ ChannelOf[j] = c}

RequeueLimit(w) == IF worker[w].mode = "batch" THEN BatchSize ELSE MaxBatchSize

\* One channel of the list read before the first UPDATE: up to the limit of
\* its unavailable jobs start afresh.  The list is never empty.
requeueUnavailable(w, c) ==
    /\ At(w, "requeue") /\ c \in worker[w].todo
    /\ \E S \in SUBSET {j \in Blocked(c) : requeues[j] < MaxRequeues} :
          /\ \/ S = {j \in Blocked(c) : requeues[j] < MaxRequeues}
             \/ Cardinality(S) = RequeueLimit(w)
          /\ Cardinality(S) <= RequeueLimit(w)
          /\ status' = [j \in Job |-> IF j \in S THEN "pending" ELSE status[j]]
          /\ attempts' = [j \in Job |-> IF j \in S THEN 0 ELSE attempts[j]]
          /\ due' = [j \in Job |-> j \in S \/ due[j]]
          /\ requeues' = [j \in Job |-> IF j \in S THEN requeues[j] + 1 ELSE requeues[j]]
    /\ worker' = [worker EXCEPT
          ![w].todo = @ \ {c},
          ![w].pc = IF worker[w].todo # {c} THEN "requeue"
                    ELSE IF worker[w].mode = "batch" THEN "claim" ELSE "cleanup"]
    /\ UNCHANGED <<owner, leased, fairness, sends, crashes, changes, configured>>

\* Retention deletes rows that were delivered or dead-lettered long enough
\* ago; after the ticker's maintenance the batch follows.
cleanup(w) ==
    /\ At(w, "cleanup")
    /\ \E old \in SUBSET {j \in Job : status[j] \in {"delivered", "failed"}} :
          status' = [j \in Job |-> IF j \in old THEN "deleted" ELSE status[j]]
    /\ worker' = [worker EXCEPT ![w].pc = IF worker[w].mode = "both" THEN "recover" ELSE "idle",
                                ![w].mode = "batch"]
    /\ UNCHANGED <<attempts, owner, leased, due, fairness, outside>>

-----------------------------------------------------------------------------
(* claimBatch(1)                                                           *)

Claimable(j) == status[j] = "pending" /\ due[j] /\ attempts[j] < MaxAttempts

IndexOf(c) == CHOOSE n \in 1..3 : canonical[n] = c
\* Distance after the channel that had the last turn: 0 is next, 2 is itself.
rrIndex(c) == (IndexOf(c) + 2 - IndexOf(lastChannel)) % 3

Preferred(c, d) ==
    \/ claims[c] < claims[d]
    \/ claims[c] = claims[d] /\ rrIndex(c) <= rrIndex(d)

\* Each claim writes a token that no claim had before.
NextToken == claims["email"] + claims["webhook"] + claims["push"] + 1

\* Mutant: the claim does not count the attempt.
claimTableUncounted(j) ==
    /\ status' = [status EXCEPT ![j] = "processing"]
    /\ owner' = [owner EXCEPT ![j] = NextToken]
    /\ leased' = [leased EXCEPT ![j] = TRUE]
    /\ UNCHANGED <<attempts, due>>

\* The claim spends an attempt before anything is sent.
claimTable(j) ==
    /\ status' = [status EXCEPT ![j] = "processing"]
    /\ attempts' = [attempts EXCEPT ![j] = @ + 1]
    /\ owner' = [owner EXCEPT ![j] = NextToken]
    /\ leased' = [leased EXCEPT ![j] = TRUE]
    /\ UNCHANGED due

\* The due job of the channel with the fewest lifetime claims, ties broken
\* round-robin; the ledger commits with the claim.
claimBatch(w) ==
    /\ At(w, "claim") /\ worker[w].left > 0
    /\ \E j \in Job :
          /\ Claimable(j)
          /\ \A k \in Job : Claimable(k) => Preferred(ChannelOf[j], ChannelOf[k])
          /\ claimTable(j)
          /\ claims' = [claims EXCEPT ![ChannelOf[j]] = @ + 1]
          /\ lastChannel' = ChannelOf[j]
          /\ worker' = [worker EXCEPT ![w].pc = "claimed", ![w].left = @ - 1, ![w].job = j,
                                      ![w].token = NextToken, ![w].lost = FALSE]
    /\ UNCHANGED outside

\* Nothing is due, or the batch is full.
endRun(w) ==
    /\ At(w, "claim")
    /\ worker[w].left = 0 \/ \A j \in Job : ~Claimable(j)
    /\ worker' = [worker EXCEPT ![w] = Idle]
    /\ UNCHANGED <<job, fairness, outside>>

-----------------------------------------------------------------------------
(* deliver                                                                 *)

\* No usable provider: unavailable, when the lease still stands.
deliverUnconfigured(w) ==
    /\ At(w, "claimed") /\ ChannelOf[worker[w].job] \notin configured
    /\ IF Owns(w) THEN Release(worker[w].job, "unavailable", TRUE) ELSE UNCHANGED job
    /\ NextJob(w)
    /\ UNCHANGED <<fairness, outside>>

\* Mutant: the provider is called without confirming the lease first.
startLeaseRenewalUnconfirmed(w) ==
    /\ At(w, "claimed") /\ ChannelOf[worker[w].job] \in configured
    /\ sends' = [sends EXCEPT ![worker[w].job] = @ + 1]
    /\ Goto(w, "sending")
    /\ UNCHANGED <<job, fairness, requeues, crashes, changes, configured>>

\* Ownership is confirmed and provider.send called; a rejected renewal, or one
\* that fails in the database, ends the attempt.
startLeaseRenewal(w) ==
    /\ At(w, "claimed") /\ ChannelOf[worker[w].job] \in configured
    /\ \/ /\ Owns(w)
          /\ sends' = [sends EXCEPT ![worker[w].job] = @ + 1]
          /\ Goto(w, "sending")
       \/ UNCHANGED sends /\ NextJob(w)
    /\ UNCHANGED <<job, fairness, requeues, crashes, changes, configured>>

\* A heartbeat during the send is rejected or fails.
heartbeatFails(w) ==
    /\ At(w, "sending") /\ ~worker[w].lost
    /\ worker' = [worker EXCEPT ![w].lost = TRUE]
    /\ UNCHANGED <<job, fairness, outside>>

\* The provider answers, fails or times out.  Only the SMTP provider reports a
\* refused login as unavailable although it is configured.
send(w) ==
    /\ At(w, "sending")
    /\ \E r \in SendResult :
          /\ r = "unavailable" => ChannelOf[worker[w].job] = "email"
          /\ worker' = [worker EXCEPT ![w].pc = "sent", ![w].result = r]
    /\ UNCHANGED <<job, fairness, outside>>

\* Mutant: an unexpected outcome is written to the row as it came.
RecordedStatusRaw(w) == worker[w].result

\* The row after each result; markRetry dead-letters on an exhausted budget.
RecordedStatus(w) ==
    IF worker[w].result \in {"delivered", "unavailable"} THEN worker[w].result
    ELSE IF worker[w].result = "retryable" /\ attempts[worker[w].job] < MaxAttempts
         THEN "pending" ELSE "failed"

\* The heartbeat is stopped, then the result is written under the token.
record(w) ==
    /\ At(w, "sent")
    /\ IF ~worker[w].lost /\ Owns(w)
       THEN Release(worker[w].job, RecordedStatus(w), RecordedStatus(w) # "pending")
       ELSE UNCHANGED job
    /\ NextJob(w)
    /\ UNCHANGED <<fairness, outside>>

-----------------------------------------------------------------------------
(* Time, crashes and configuration                                         *)

leaseExpires(j) ==
    /\ status[j] = "processing" /\ leased[j]
    /\ leased' = [leased EXCEPT ![j] = FALSE]
    /\ UNCHANGED <<status, attempts, owner, due, fairness, worker, outside>>

backoffEnds(j) ==
    /\ status[j] = "pending" /\ ~due[j]
    /\ due' = [due EXCEPT ![j] = TRUE]
    /\ UNCHANGED <<status, attempts, owner, leased, fairness, worker, outside>>

workerCrash(w) ==
    /\ worker[w].pc # "idle" /\ crashes < MaxCrashes
    /\ crashes' = crashes + 1
    /\ worker' = [worker EXCEPT ![w] = Idle]
    /\ UNCHANGED <<job, fairness, sends, requeues, changes, configured>>

\* A redeploy gives a channel its credentials or takes them away.
reconfigure(c) ==
    /\ changes < MaxChanges
    /\ changes' = changes + 1
    /\ configured' = IF c \in configured THEN configured \ {c} ELSE configured \cup {c}
    /\ UNCHANGED <<job, fairness, worker, sends, requeues, crashes>>

-----------------------------------------------------------------------------
workerStep(w) ==
    \/ recoverStale(w) \/ (\E c \in Channel : requeueUnavailable(w, c))
    \/ cleanup(w) \/ claimBatch(w) \/ endRun(w)
    \/ deliverUnconfigured(w) \/ startLeaseRenewal(w) \/ send(w) \/ record(w)

Next ==
    \/ \E j \in Job : enqueue(j) \/ leaseExpires(j) \/ backoffEnds(j)
    \/ \E w \in Worker : \/ \E m \in Mode : startRun(w, m)
                          \/ workerStep(w) \/ heartbeatFails(w) \/ workerCrash(w)
    \/ \E c \in Configurable : reconfigure(c)

Spec == Init /\ [][Next]_vars

\* The ticker starts a batch again and again and a run always proceeds (each
\* send has a timeout); leases and backoffs end because time passes.  Nothing
\* is assumed of heartbeats, crashes, configuration or new jobs.
Fairness ==
    /\ \A w \in Worker : SF_vars(startRun(w, "batch")) /\ WF_vars(workerStep(w))
    /\ \A j \in Job : WF_vars(leaseExpires(j)) /\ WF_vars(backoffEnds(j))

FairSpec == Spec /\ Fairness

-----------------------------------------------------------------------------
(* Properties                                                              *)

\* The number of provider calls of a job never exceeds its attempt budget, the
\* budget being granted once at enqueue and once per requeue: crashes, lost
\* leases, stale recoveries and overlapping workers never buy a free call
\* (claimTable counts before the send, markRetry and recoverStale dead-letter).
SendsWithinBudget ==
    \A j \in Job : sends[j] <= MaxAttempts * (requeues[j] + 1)

\* No provider call begins for a job whose row is settled or deleted: a worker
\* that stalled between its claim and its send, while another recovered,
\* reclaimed and delivered the job, is stopped by the renewal that
\* startLeaseRenewal makes before any I/O.
SettledNotSent ==
    [][\A j \in Job : status[j] \in Settled \cup {"deleted"} => sends'[j] = sends[j]]_vars

\* While a claim's lease stands, only the worker that holds its token moves the
\* row out of processing: neither recovery nor a worker of an earlier, expired
\* claim can overwrite it (the fencing token in markDelivered, markRetry,
\* markFailed and markUnavailable).
LeaseRespected ==
    [][\A j \in Job :
          status[j] = "processing" /\ leased[j] /\ status'[j] # "processing" =>
             \E w \in Worker : /\ worker[w].job = j /\ worker[w].token = owner[j]
                               /\ worker'[w] # worker[w]]_vars

\* Delivered jobs and dead letters are final: no recovery, requeue, late
\* acknowledgement or new claim brings one back; retention only deletes it.
FinalIsFinal ==
    [][\A j \in Job : status[j] \in {"delivered", "failed"} =>
          status'[j] \in {status[j], "deleted"}]_vars

\* No job is stuck forever (recoverStale's promise): whatever crashes, lost
\* leases and retries happen, an enqueued job is eventually delivered,
\* dead-lettered or parked as unavailable.
EventuallySettled ==
    \A j \in Job : status[j] \in {"pending", "processing"} ~> status[j] \in Settled

\* What docs/notification-delivery.md says of retries: impossible to loop,
\* since a claim needs budget and unavailable is terminal until the
\* configuration changes.  Without a change a job is sent at most MaxAttempts
\* times.
NoRetryLoop == \A j \in Job : sends[j] <= MaxAttempts * (changes + 1)
=============================================================================
