--------------------------- MODULE Reconciliation ---------------------------
(***************************************************************************)
(* The provider reconciliation service (execution/reconciliation-service). *)
(* A run takes the profile's transaction-scoped advisory lock, answers     *)
(* with a run of the same trigger started less than Window ago, and        *)
(* otherwise takes a snapshot of the provider, THEN reads the internal     *)
(* rows, matches the two books and commits the run with its findings.  A   *)
(* person later acknowledges, resolves or ignores the findings one by one, *)
(* in statements that each commit by themselves.                           *)
(*                                                                         *)
(* A provider row carries the client reference it was sent with, its       *)
(* status and the set of reported fields whose value differs from the      *)
(* internal row's; a position row carries its shape (symbol, direction and *)
(* quantity).  Everything of a run before its COMMIT is invisible to the   *)
(* other sessions, so a run is three steps: lock, snapshot, finish.        *)
(***************************************************************************)
EXTENDS Integers, FiniteSets, Sequences, SequencesExt

CONSTANTS
    OrderSeq,          \* internal order ids, in created_at order
    PositionSeq,       \* internal position ids, in opened_at order
    ProviderIds,       \* the ids the provider gives its orders and positions
    Books,             \* the pairs of books a profile may start with
    Reconcilers,       \* sessions that call triggerRun
    Reviewers,         \* sessions that call resolveFinding
    Window,            \* 30 seconds, in ticks of the clock
    MaxClock,          \* bound on the clock
    MaxReviews,        \* bound on calls of resolveFinding
    MaxDrifts          \* bound on orders that move while a run compares

ReconciliationAssumption ==
    /\ Window \in Nat \ {0}
    /\ {MaxClock, MaxReviews, MaxDrifts} \subseteq Nat

NoId == "none"

VARIABLES
    books,      \* [orders, placed, positions, open]: internal and provider rows
    runs,       \* committed reconciliation_runs, oldest first
    session,    \* [Reconcilers -> a triggerRun in progress]
    review,     \* [Reviewers -> a resolveFinding in progress]
    time        \* [clock, reviews, drifts]

reconVars == <<books, runs, session, review, time>>

(***************************************************************************)
(* What the service says of one row.                                       *)
(***************************************************************************)
TerminalOrderStatuses == {"filled", "rejected", "cancelled", "expired", "failed"}

providerStateIsUncertain(placed) == placed.status = "uncertain"

hardStatusDrift(internal, provider) ==
    \/ internal = "filled" /\ provider \notin {"filled", "partially_filled"}
    \/ internal = "rejected" /\ provider # "rejected"
    \/ provider = "rejected" /\ internal \notin {"rejected", "failed"}
    \/ {internal, provider} \subseteq TerminalOrderStatuses /\ internal # provider

awaitIsUncertain(order) ==
    order.status \in {"requested", "validating", "submitted"} /\ order.provider = NoId

requiresProviderPresence(status) ==
    status \in {"submitted", "accepted", "partially_filled", "filled"}

isTerminalWithoutOutcome(order) ==
    order.status \in {"failed", "rejected", "cancelled", "expired"} /\ order.provider = NoId

Found(code, severity, ours, theirs) ==
    [code |-> code, severity |-> severity, ours |-> ours, theirs |-> theirs, state |-> "open"]

(***************************************************************************)
(* Fields of a matched pair.  An uncertain provider status says nothing    *)
(* of the order, so none of its other fields are compared.                 *)
(***************************************************************************)
FieldSeverity(field) == IF field = "averagePrice" THEN "warning" ELSE "error"

compareOrderFields(o, order, p, placed) ==
    IF providerStateIsUncertain(placed)
    THEN {Found("uncertain_outcome", "critical", o, p)}
    ELSE { Found("status_mismatch", "warning", o, p) :
              x \in {y \in {placed.status} : y # order.status /\ hardStatusDrift(order.status, y)} }
         \cup { Found(field, FieldSeverity(field), o, p) : field \in placed.differs }

comparePositionFields(q, position, p, open) ==
    { Found("shape", "error", q, p) : x \in {y \in {open.shape} : y # position.shape} }
    \cup { Found(field, FieldSeverity(field), q, p) : field \in open.differs }

(***************************************************************************)
(* compareStates walks the internal rows in order and takes each match out *)
(* of what is left at the provider.                                        *)
(***************************************************************************)
Nothing(left) == [left |-> left, pairs |-> {}, findings |-> {}]

OrderCandidates(o, order, left, placed) ==
    IF order.provider \in left THEN {order.provider}
    ELSE {p \in left : placed[p].client = o}

\* A match taken without noticing that there are two candidates, and nothing
\* said of an order that has none.
matchOrderGuessing(b, acc, o) ==
    LET order == b.orders[o]
        found == OrderCandidates(o, order, acc.left, b.placed)
    IN  IF found # {}
        THEN LET p == CHOOSE x \in found : TRUE
             IN  [left |-> acc.left \ found, pairs |-> acc.pairs \cup {<<o, p>>},
                  findings |-> acc.findings \cup compareOrderFields(o, order, p, b.placed[p])]
        ELSE acc

matchOrder(b, acc, o) ==
    LET order == b.orders[o]
        found == OrderCandidates(o, order, acc.left, b.placed)
    IN  IF Cardinality(found) = 1
        THEN LET p == CHOOSE x \in found : TRUE
             IN  [left |-> acc.left \ {p}, pairs |-> acc.pairs \cup {<<o, p>>},
                  findings |-> acc.findings \cup compareOrderFields(o, order, p, b.placed[p])]
        ELSE [acc EXCEPT !.findings = @
                \cup {Found("ambiguous_match", "error", o, NoId) : x \in {y \in {o} : found # {}}}
                \cup (IF awaitIsUncertain(order)
                      THEN {Found("uncertain_outcome", "critical", o, order.provider)}
                      ELSE IF ~isTerminalWithoutOutcome(order) /\ requiresProviderPresence(order.status)
                      THEN {Found("internal_order_missing_at_provider", "error", o, order.provider)}
                      ELSE {})]

compareOrders(b) ==
    LET walked == FoldLeft(LAMBDA acc, o : matchOrder(b, acc, o), Nothing(DOMAIN b.placed),
                           SelectSeq(OrderSeq, LAMBDA o : o \in DOMAIN b.orders))
    IN  [walked EXCEPT !.findings = @ \cup
            { IF providerStateIsUncertain(b.placed[p])
              THEN Found("uncertain_outcome", "critical", NoId, p)
              ELSE Found("provider_order_missing_internally", "warning", NoId, p) : p \in walked.left }]

PositionCandidates(position, left, open) ==
    IF position.provider \in left THEN {position.provider}
    ELSE {p \in left : open[p].shape = position.shape}

matchPosition(b, acc, q) ==
    LET position == b.positions[q]
        found == PositionCandidates(position, acc.left, b.open)
        pair(p) == [acc EXCEPT !.left = @ \ {p}, !.pairs = @ \cup {<<q, p>>}]
        add(result, fs) == [result EXCEPT !.findings = @ \cup fs]
    IN  IF position.status = "closed"
        THEN IF position.provider \in acc.left
             THEN add(pair(position.provider),
                      {Found("unexpected_provider_state", "error", q, position.provider)})
             ELSE acc
        ELSE IF Cardinality(found) = 1
             THEN LET p == CHOOSE x \in found : TRUE
                  IN  add(pair(p), comparePositionFields(q, position, p, b.open[p]))
             ELSE add(acc, {Found("internal_position_missing_at_provider", "error", q, position.provider)}
                           \cup {Found("ambiguous_match", "error", q, NoId) : x \in {y \in {q} : found # {}}})

comparePositions(b) ==
    LET walked == FoldLeft(LAMBDA acc, q : matchPosition(b, acc, q), Nothing(DOMAIN b.open),
                           SelectSeq(PositionSeq, LAMBDA q : q \in DOMAIN b.positions))
    IN  [walked EXCEPT !.findings = @ \cup
            { Found("provider_position_missing_internally", "warning", NoId, p) : p \in walked.left }]

(***************************************************************************)
(* How a run ends.  Every mismatch code needs attention, so what a run     *)
(* leaves open is everything it found.                                     *)
(***************************************************************************)
RunHealth(reached, findings) ==
    CASE ~reached -> "provider_unavailable"
      [] reached /\ findings = {} -> "synchronized"
      [] reached /\ findings # {} ->
            IF \E f \in findings : f.code = "uncertain_outcome" THEN "uncertain"
            ELSE IF \E f \in findings : f.severity \in {"error", "critical"} THEN "mismatch_detected"
            ELSE "manual_resolution_required"

RunStatus(reached, findings) ==
    CASE ~reached -> "failed"
      [] reached /\ findings = {} -> "no_action"
      [] reached /\ findings # {} -> "resolved"

StillOpen(findings) == {f \in findings : f.state \in {"open", "acknowledged"}}

deriveHealthState(last, openFindings) ==
    IF last \in {"provider_unavailable", "uncertain"} THEN last
    ELSE IF openFindings > 0 THEN "manual_resolution_required"
    ELSE IF last = "mismatch_detected" THEN last
    ELSE "synchronized"

\* getStatus: the newest run's health with the LIVE count over every run.
OpenFindings == UNION {StillOpen(runs[i].findings) \X {i} : i \in DOMAIN runs}

getStatus ==
    IF runs = <<>> THEN "synchronized"
    ELSE deriveHealthState(runs[Len(runs)].health, Cardinality(OpenFindings))

(***************************************************************************)
(* triggerRun.  now() in the duplicate check is the instant the            *)
(* transaction BEGAN; the run's own started_at is read after the lock.     *)
(***************************************************************************)
NoSession == [pc |-> "idle"]
NoReview == [pc |-> "idle"]

\* The run without its advisory lock.
lockAlwaysFree(r) == TRUE

lockFree(r) == \A x \in Reconcilers : session[x].pc \in {"idle", "waiting"}

beginRun(r) ==
    /\ session[r].pc = "idle"
    /\ session' = [session EXCEPT ![r] = [pc |-> "waiting", began |-> time.clock]]
    /\ UNCHANGED <<books, runs, review, time>>

RecentRun(began) == \E i \in DOMAIN runs : runs[i].started > began - Window

\* The lock, the duplicate check and the INSERT of the run.
acquireLock(r) ==
    /\ session[r].pc = "waiting"
    /\ lockFree(r)
    /\ session' = [session EXCEPT ![r] =
          IF RecentRun(session[r].began) THEN NoSession
          ELSE [pc |-> "locked", started |-> time.clock]]
    /\ UNCHANGED <<books, runs, review, time>>

\* A provider that is not ready, or a listing that fails, throws: the run
\* goes on with an empty snapshot.
EmptyBook == <<>>

getSnapshot(r, reached) ==
    /\ session[r].pc = "locked"
    /\ session' = [session EXCEPT ![r] =
          [pc |-> "snapshot", started |-> session[r].started, reached |-> reached,
           placed |-> IF reached THEN books.placed ELSE EmptyBook,
           open |-> IF reached THEN books.open ELSE EmptyBook]]
    /\ UNCHANGED <<books, runs, review, time>>

\* The internal rows are read now, after the snapshot.
finishRun(r) ==
    /\ session[r].pc = "snapshot"
    /\ LET s == session[r]
           seen == [books EXCEPT !.placed = s.placed, !.open = s.open]
           byOrder == compareOrders(seen)
           byPosition == comparePositions(seen)
           findings == byOrder.findings \cup byPosition.findings
               \cup {Found("provider_unavailable", "critical", NoId, NoId) : x \in {y \in {r} : ~s.reached}}
       IN  runs' = Append(runs,
               [started |-> s.started, reached |-> s.reached, seen |-> seen,
                status |-> RunStatus(s.reached, findings), health |-> RunHealth(s.reached, findings),
                orderPairs |-> byOrder.pairs, positionPairs |-> byPosition.pairs,
                findings |-> findings, recorded |-> Cardinality(findings)])
    /\ session' = [session EXCEPT ![r] = NoSession]
    /\ UNCHANGED <<books, review, time>>

\* ROLLBACK: nothing of the run is left.
abandonRun(r) ==
    /\ session[r].pc \in {"locked", "snapshot"}
    /\ session' = [session EXCEPT ![r] = NoSession]
    /\ UNCHANGED <<books, runs, review, time>>

(***************************************************************************)
(* resolveFinding: the finding, then the count, then the run row.          *)
(***************************************************************************)
ReviewStates == {"acknowledged", "resolved", "ignored"}

resolveFinding(v, i, f, state) ==
    /\ review[v].pc = "idle"
    /\ time.reviews < MaxReviews
    /\ f \in runs[i].findings
    /\ runs' = [runs EXCEPT ![i].findings = (@ \ {f}) \cup {[f EXCEPT !.state = state]}]
    /\ review' = [review EXCEPT ![v] = [pc |-> "resolved", run |-> i]]
    /\ time' = [time EXCEPT !.reviews = @ + 1]
    /\ UNCHANGED <<books, session>>

countFindings(v) ==
    /\ review[v].pc = "resolved"
    /\ review' = [review EXCEPT ![v] = [pc |-> "counted", run |-> review[v].run,
                     open |-> Cardinality(StillOpen(runs[review[v].run].findings))]]
    /\ UNCHANGED <<books, runs, session, time>>

\* The recomputation that forgets whether the provider was reached.
HealthByCountAlone(reached, open) ==
    IF open = 0 THEN "synchronized" ELSE "manual_resolution_required"

HealthAfterReview(reached, open) ==
    IF ~reached THEN "provider_unavailable"
    ELSE IF open = 0 THEN "synchronized" ELSE "manual_resolution_required"

recomputeRunHealth(v) ==
    /\ review[v].pc = "counted"
    /\ LET i == review[v].run
       IN  runs' = [runs EXCEPT ![i].recorded = review[v].open,
                                ![i].health = HealthAfterReview(runs[i].reached, review[v].open)]
    /\ review' = [review EXCEPT ![v] = NoReview]
    /\ UNCHANGED <<books, session, time>>

(***************************************************************************)
(* Around the service: time passes, and orders move while a run compares.  *)
(***************************************************************************)
tick ==
    /\ time.clock < MaxClock
    /\ time' = [time EXCEPT !.clock = @ + 1]
    /\ UNCHANGED <<books, runs, session, review>>

\* The submission of an order is acknowledged: the provider places it and the
\* internal row learns its id.
acknowledgeOrder(o, p) ==
    /\ time.drifts < MaxDrifts
    /\ o \in DOMAIN books.orders /\ awaitIsUncertain(books.orders[o])
    /\ p \notin DOMAIN books.placed
    /\ books' = [books EXCEPT
          !.orders[o] = [status |-> "accepted", provider |-> p],
          !.placed = [x \in DOMAIN @ \cup {p} |->
                        IF x = p THEN [client |-> NoId, status |-> "accepted", differs |-> {}] ELSE @[x]]]
    /\ time' = [time EXCEPT !.drifts = @ + 1]
    /\ UNCHANGED <<runs, session, review>>

ReconInit ==
    /\ books \in Books
    /\ runs = <<>>
    /\ session = [r \in Reconcilers |-> NoSession]
    /\ review = [v \in Reviewers |-> NoReview]
    /\ time = [clock |-> 0, reviews |-> 0, drifts |-> 0]

ReconNext ==
    \/ \E r \in Reconcilers :
          \/ beginRun(r) \/ acquireLock(r) \/ finishRun(r) \/ abandonRun(r)
          \/ \E reached \in BOOLEAN : getSnapshot(r, reached)
    \/ \E v \in Reviewers :
          \/ countFindings(v) \/ recomputeRunHealth(v)
          \/ \E i \in DOMAIN runs, state \in ReviewStates :
                \E f \in runs[i].findings : resolveFinding(v, i, f, state)
    \/ tick
    \/ \E o \in Range(OrderSeq), p \in ProviderIds : acknowledgeOrder(o, p)

ReconSpec == ReconInit /\ [][ReconNext]_reconVars

(***************************************************************************)
(* Properties.                                                             *)
(***************************************************************************)
\* Types of the runs and of the sessions in progress.
ReconTypeOK ==
    /\ \A i \in DOMAIN runs :
          /\ runs[i].status \in {"failed", "no_action", "resolved"}
          /\ runs[i].started \in 0..MaxClock
          /\ runs[i].recorded \in Nat
    /\ \A r \in Reconcilers : session[r].pc \in {"idle", "waiting", "locked", "snapshot"}
    /\ \A v \in Reviewers : review[v].pc \in {"idle", "resolved", "counted"}
    /\ time.clock \in 0..MaxClock

Named(run, id) == \E f \in run.findings : id \in {f.ours, f.theirs}

Paired(run, id) ==
    Cardinality({pr \in run.orderPairs \cup run.positionPairs : id \in {pr[1], pr[2]}})

\* A committed run accounts for both books it compared (compareStates 670-949):
\* no order and no position is paired twice; every provider order is paired or named by a finding;
\* every internal order that must be at the provider is paired or named; an order
\* whose outcome is unknown is never called missing or drifted; and a run that
\* calls the books synchronized read no disagreement in them.
RunAccountsForBooks ==
    \A i \in DOMAIN runs :
        LET run == runs[i]
            seen == run.seen
        IN  /\ \A p \in DOMAIN seen.placed :
                  /\ Paired(run, p) <= 1
                  /\ Paired(run, p) = 1 \/ Named(run, p)
                  /\ providerStateIsUncertain(seen.placed[p]) =>
                        \A f \in run.findings : f.theirs = p => f.code = "uncertain_outcome"
            /\ \A o \in DOMAIN seen.orders :
                  /\ Paired(run, o) <= 1
                  /\ requiresProviderPresence(seen.orders[o].status) => Paired(run, o) = 1 \/ Named(run, o)
                  /\ awaitIsUncertain(seen.orders[o]) =>
                        \A f \in run.findings : f.ours = o => f.code # "internal_order_missing_at_provider"
            /\ \A p \in DOMAIN seen.open : Paired(run, p) <= 1 /\ (Paired(run, p) = 1 \/ Named(run, p))
            /\ \A q \in DOMAIN seen.positions :
                  /\ Paired(run, q) <= 1
                  /\ seen.positions[q].status = "open" => Paired(run, q) = 1 \/ Named(run, q)
            /\ run.status = "no_action" =>
                  /\ run.reached
                  /\ \A o \in DOMAIN seen.orders :
                        \A p \in DOMAIN seen.placed :
                            seen.orders[o].provider = p =>
                                /\ <<o, p>> \in run.orderPairs
                                /\ ~hardStatusDrift(seen.orders[o].status, seen.placed[p].status)

\* Idempotent runs (triggerRun 299-322): whatever the sessions do, no two runs of
\* the trigger start less than the window apart, although the check compares with
\* the instant its own transaction began.
RunsAreSpaced ==
    \A i, j \in DOMAIN runs :
        i # j => runs[i].started >= runs[j].started + Window
                 \/ runs[j].started >= runs[i].started + Window

\* An account is never called synchronized on a run that did not reach its
\* provider (getStatus, recomputeRunHealth): reviewing every finding of a run that
\* saw nothing, in any interleaving of the reviewers' statements, does not help.
SynchronizedWasReached ==
    runs # <<>> /\ getStatus = "synchronized" => runs[Len(runs)].reached

\* And getStatus answers "synchronized" only when no finding of any run is open or
\* acknowledged, whatever count a reviewer wrote to the run row.
StatusIsEarned ==
    /\ SynchronizedWasReached
    /\ runs # <<>> /\ getStatus = "synchronized" =>
          \A i \in DOMAIN runs : StillOpen(runs[i].findings) = {}

\* What a committed run says, when it may start and what its review may turn it
\* into, together.
ReconciliationIsHonest == RunAccountsForBooks /\ RunsAreSpaced /\ StatusIsEarned
=============================================================================
