--------------------------- MODULE OperationsProofs ---------------------------
(***************************************************************************)
(* Proofs about what is kept and run beside trading: the operator tools    *)
(* (OperatorDesk), for any operators, orders, payments and snapshots; the  *)
(* life of the servers (ServerLifecycle), for any servers, releases and    *)
(* concurrent requests; strategies, their versions and backtests           *)
(* (StrategyVersions), for any strategies, limits and concurrent requests; *)
(* and the tabs of the settings page (CheckoutPage), for any number of     *)
(* tabs, plans and outstanding reads.                                      *)
(***************************************************************************)
EXTENDS OperatorDesk, ServerLifecycle, FiniteSetTheorems, SequenceTheorems, StrategyVersions, CheckoutPage,
        TLAPS

-----------------------------------------------------------------------------
(* The operator tools: the inductive invariant.                            *)

Facts(kind) ==
    IF kind = "activation"
    THEN [key : {<<e.id, s>> : e \in Payments, s \in DOMAIN SaleSnapshots}, by : DeskOperators,
          row : Rows, payment : Payments]
    ELSE [key : {<<"owner", q.plan>> : q \in Orders}, by : DeskOperators,
          plan : {q.plan : q \in Orders}]

Tools ==
    [at : {"ready", "lock", "decide", "existing", "narrow", "check", "delete", "audit", "answered"},
     order : Orders \cup {"none"}, read : Rows,
     answer : {"none", "refused", "activated", "already_activated", "granted",
               "already_granted", "dry_run", "removed", "absent"},
     fact : Facts("activation") \cup Facts("grant") \cup {"none"}]

\* An activation of `row` that was paid for.
Earned(f, row) ==
    /\ f.row = row /\ row.kind = "sold"
    /\ Successful(f.payment) /\ f.payment.exact /\ f.payment.snapshot = row.snapshot
    /\ SaleSnapshots[row.snapshot].epoch = "ok"

\* What the tables say of each other.
Tables ==
    /\ subRow \in Rows /\ proofs \in Seq(Payments)
    /\ rowHolder \in DeskOperators \cup {"nobody"} /\ userHolder \in DeskOperators \cup {"nobody"}
    /\ TrailMatchesFacts
    /\ \A f, g \in activated : f = g
    /\ \A f, g \in granted : f = g
    /\ \A f \in activated : Earned(f, subRow)
    /\ OnlyPlaceholdersRemoved

\* Where a tool stands: what it read is so while it holds the row, and the
\* fact it is about to write is its operator's and earned.
Stands(t, o, row, act, holder) ==
    /\ t.at # "ready" => t.order \in Orders
    /\ t.at = "decide" => t.order.tool = "activate" /\ holder = o /\ t.read = row
    /\ t.at \in {"check", "delete"} => t.order.tool = "remediate" /\ (t.order.apply => holder = o)
    /\ t.at = "delete" => t.order.apply
    /\ t.at \in {"existing", "narrow"} => t.order.tool = "grant"
    /\ t.at = "audit" => t.order.tool \in {"activate", "grant"}
    /\ t.at = "audit" /\ t.order.tool = "activate" =>
          holder = o /\ act = {} /\ t.fact.by = o /\ Earned(t.fact, row)
    /\ t.at = "audit" /\ t.order.tool = "grant" => t.fact.by = o /\ t.fact.plan = t.order.plan

\* What a tool told its operator.
Told(t, o, act, grn, rem) ==
    /\ t.answer = "activated" => \E f \in act : f.by = o
    /\ t.answer = "already_activated" => act # {}
    /\ t.answer = "granted" => \E f \in grn : f.by = o /\ f.plan = t.order.plan
    /\ t.answer = "already_granted" => \E f \in grn : f.plan = t.order.plan
    /\ t.answer = "removed" => \E f \in rem : f.by = o

DInv ==
    /\ Tables
    /\ tool \in [DeskOperators -> Tools]
    /\ \A o \in DeskOperators : Stands(tool[o], o, subRow, activated, rowHolder)
    /\ \A o \in DeskOperators : Told(tool[o], o, activated, granted, removed)

-----------------------------------------------------------------------------
(* A step of one tool.                                                     *)

\* The tool of o becomes t: the tables still agree, t stands where it should,
\* facts are only added, and while another operator holds the row neither the
\* row, nor its activation, nor the lock change.
Moves(o, t) ==
    /\ t \in Tools /\ tool' = [tool EXCEPT ![o] = t]
    /\ Tables'
    /\ Stands(t, o, subRow', activated', rowHolder')
    /\ Told(t, o, activated', granted', removed')
    /\ activated \subseteq activated' /\ granted \subseteq granted' /\ removed \subseteq removed'
    /\ \A p \in DeskOperators : p # o /\ rowHolder = p =>
          rowHolder' = p /\ subRow' = subRow /\ activated' = activated

\* Every step that is such a move keeps the invariant.
LEMMA DeskMove == ASSUME DInv, NEW o \in DeskOperators, NEW t, Moves(o, t) PROVE DInv'
<1>1. tool' \in [DeskOperators -> Tools] /\ tool'[o] = t
      /\ \A p \in DeskOperators : p # o => tool'[p] = tool[p]
  BY DEF DInv, Moves
<1>2. Tables'
  BY DEF Moves
<1>3. ASSUME NEW p \in DeskOperators PROVE Stands(tool'[p], p, subRow', activated', rowHolder')
  <2>1. CASE p = o
    BY <2>1, <1>1 DEF Moves
  <2>2. CASE p # o
    <3>1. Stands(tool[p], p, subRow, activated, rowHolder)
      BY DEF DInv
    <3>2. rowHolder = p => rowHolder' = p /\ subRow' = subRow /\ activated' = activated
      BY <2>2 DEF Moves
    <3> QED
      BY <3>1, <3>2, <1>1, <2>2 DEF Stands
  <2> QED
    BY <2>1, <2>2
<1>4. ASSUME NEW p \in DeskOperators PROVE Told(tool'[p], p, activated', granted', removed')
  <2>1. CASE p = o
    BY <2>1, <1>1 DEF Moves
  <2>2. CASE p # o
    <3>1. Told(tool[p], p, activated, granted, removed)
      BY DEF DInv
    <3>2. activated \subseteq activated' /\ granted \subseteq granted' /\ removed \subseteq removed'
      BY DEF Moves
    <3> QED
      BY <3>1, <3>2, <1>1, <2>2 DEF Told
  <2> QED
    BY <2>1, <2>2
<1> QED
  BY <1>1, <1>2, <1>3, <1>4 DEF DInv

\* A step that leaves the facts alone leaves the tables in agreement.
LEMMA TablesKept ==
    ASSUME Tables, UNCHANGED facts, rowHolder' \in DeskOperators \cup {"nobody"},
           userHolder' \in DeskOperators \cup {"nobody"}
    PROVE  Tables'
  BY DEF Tables, facts, TrailMatchesFacts, OnlyPlaceholdersRemoved

\* What the invariant says of one tool.
LEMMA DeskFacts ==
    ASSUME DInv, NEW o \in DeskOperators
    PROVE  /\ Tables /\ tool[o] \in Tools
           /\ Stands(tool[o], o, subRow, activated, rowHolder)
           /\ Told(tool[o], o, activated, granted, removed)
           /\ tool \in [DeskOperators -> Tools]
  BY DEF DInv

\* A step that writes no fact: the tool moves, and perhaps a lock of its own.
LEMMA QuietMove ==
    ASSUME DInv, NEW o \in DeskOperators, NEW t \in Tools, tool' = [tool EXCEPT ![o] = t],
           UNCHANGED facts,
           rowHolder' \in DeskOperators \cup {"nobody"}, userHolder' \in DeskOperators \cup {"nobody"},
           \A p \in DeskOperators : p # o /\ rowHolder = p => rowHolder' = p,
           Stands(t, o, subRow, activated, rowHolder'),
           Told(t, o, activated, granted, removed)
    PROVE  DInv'
<1>1. Tables
  BY DEF DInv
<1>2. Tables'
  BY <1>1, TablesKept
<1>3. subRow' = subRow /\ activated' = activated /\ granted' = granted /\ removed' = removed
  BY DEF facts
<1>4. Moves(o, t)
  BY <1>2, <1>3 DEF Moves
<1> QED
  BY <1>4, DeskMove

\* An answer that writes nothing: a refusal, a dry run, or what the tables
\* bear out.
LEMMA AnswerMoves ==
    ASSUME DInv, NEW o \in DeskOperators, tool[o].at # "ready",
           NEW a \in {"refused", "dry_run", "already_activated", "already_granted", "absent"},
           a = "already_activated" => activated # {},
           a = "already_granted" => \E f \in granted : f.plan = tool[o].order.plan,
           Answer(o, a), UNCHANGED facts,
           rowHolder' \in DeskOperators \cup {"nobody"}, userHolder' \in DeskOperators \cup {"nobody"},
           \A p \in DeskOperators : p # o /\ rowHolder = p => rowHolder' = p
    PROVE  DInv'
<1> DEFINE t == [tool[o] EXCEPT !.at = "answered", !.answer = a]
<1>1. tool[o] \in Tools /\ tool \in [DeskOperators -> Tools]
      /\ Stands(tool[o], o, subRow, activated, rowHolder)
  BY DeskFacts
<1>2. t \in Tools /\ t.at = "answered" /\ t.answer = a /\ t.order = tool[o].order
  BY <1>1 DEF Tools
<1>3. tool' = [tool EXCEPT ![o] = t]
  BY <1>1 DEF Answer
<1> HIDE DEF t
<1>4. Stands(t, o, subRow, activated, rowHolder')
  BY <1>1, <1>2 DEF Stands
<1>5. Told(t, o, activated, granted, removed)
  BY <1>2 DEF Told
<1> QED
  BY <1>2, <1>3, <1>4, <1>5, QuietMove

\* The locks of o are freed, nobody else's.
LEMMA LocksFreed ==
    ASSUME Tables, NEW o \in DeskOperators, FreeLocks(o)
    PROVE  /\ rowHolder' \in DeskOperators \cup {"nobody"} /\ userHolder' \in DeskOperators \cup {"nobody"}
           /\ \A p \in DeskOperators : p # o /\ rowHolder = p => rowHolder' = p
  BY DEF FreeLocks, Tables

\* Such an answer at the end of a transaction.
LEMMA LeaveMoves ==
    ASSUME DInv, NEW o \in DeskOperators, tool[o].at # "ready",
           NEW a \in {"refused", "dry_run", "already_activated", "already_granted", "absent"},
           a = "already_activated" => activated # {},
           a = "already_granted" => \E f \in granted : f.plan = tool[o].order.plan,
           EndTool(o, a)
    PROVE  DInv'
<1>1. Tables
  BY DEF DInv
<1>2. Answer(o, a) /\ UNCHANGED facts /\ FreeLocks(o)
  BY DEF EndTool
<1> QED
  BY <1>1, <1>2, LocksFreed, AnswerMoves

\* A tool that goes on to another statement of the same order.
LEMMA GoesOn ==
    ASSUME DInv, NEW o \in DeskOperators, NEW t \in Tools, tool' = [tool EXCEPT ![o] = t],
           t.order = tool[o].order, t.answer = tool[o].answer,
           UNCHANGED facts,
           rowHolder' \in DeskOperators \cup {"nobody"}, userHolder' \in DeskOperators \cup {"nobody"},
           \A p \in DeskOperators : p # o /\ rowHolder = p => rowHolder' = p,
           Stands(t, o, subRow, activated, rowHolder')
    PROVE  DInv'
<1>1. Told(tool[o], o, activated, granted, removed)
  BY DeskFacts
<1>2. Told(t, o, activated, granted, removed)
  BY <1>1 DEF Told
<1> QED
  BY <1>2, QuietMove

-----------------------------------------------------------------------------
(* One lemma per action.                                                   *)

\* start: a command line is refused, or the tool begins.
LEMMA StartInv ==
    ASSUME DeskAssumption, DInv, NEW o \in DeskOperators, NEW q \in Orders, start(o, q) PROVE DInv'
<1>1. tool \in [DeskOperators -> Tools] /\ Tables
  BY DeskFacts
<1>2. PICK t \in {[NoTool EXCEPT !.at = "lock", !.order = q],
                  [NoTool EXCEPT !.at = "answered", !.order = q, !.answer = "refused"]} :
         tool' = [tool EXCEPT ![o] = t]
  BY DEF start
<1>3. t \in Tools /\ t.at \in {"lock", "answered"} /\ t.order = q /\ t.answer \in {"none", "refused"}
  BY DEF Tools, NoTool, Rows
<1>4. UNCHANGED facts /\ rowHolder' = rowHolder /\ userHolder' = userHolder
  BY DEF start
<1>5. Stands(t, o, subRow, activated, rowHolder')
  BY <1>3 DEF Stands
<1>6. Told(t, o, activated, granted, removed)
  BY <1>3 DEF Told
<1>7. rowHolder' \in DeskOperators \cup {"nobody"} /\ userHolder' \in DeskOperators \cup {"nobody"}
  BY <1>1, <1>4 DEF Tables
<1> QED
  BY <1>2, <1>3, <1>4, <1>5, <1>6, <1>7, QuietMove

\* selectSubscriptionForUpdate: no row, or the row is locked and read.
LEMMA SelectInv ==
    ASSUME DeskAssumption, DInv, NEW o \in DeskOperators, selectSubscriptionForUpdate(o) PROVE DInv'
<1>1. tool \in [DeskOperators -> Tools] /\ Tables /\ tool[o] \in Tools
  BY DeskFacts
<1>2. tool[o].at = "lock" /\ tool[o].order.tool = "activate" /\ rowHolder = "nobody"
      /\ userHolder' = userHolder /\ UNCHANGED facts
  BY DEF selectSubscriptionForUpdate
<1>3. CASE subRow = NoSubRow
  <2>1. Answer(o, "refused") /\ rowHolder' = rowHolder
    BY <1>3 DEF selectSubscriptionForUpdate
  <2>2. rowHolder' \in DeskOperators \cup {"nobody"} /\ userHolder' \in DeskOperators \cup {"nobody"}
    BY <1>1, <1>2, <2>1 DEF Tables
  <2> QED
    BY <2>1, <2>2, <1>2, AnswerMoves
<1>4. CASE subRow # NoSubRow
  <2> DEFINE t == [tool[o] EXCEPT !.at = "decide", !.read = subRow]
  <2>1. subRow \in Rows /\ userHolder' \in DeskOperators \cup {"nobody"} /\ rowHolder' = o
    BY <1>1, <1>2, <1>4 DEF Tables, selectSubscriptionForUpdate
  <2>2. t \in Tools /\ t.order = tool[o].order /\ t.answer = tool[o].answer
        /\ t.at = "decide" /\ t.read = subRow
    BY <1>1, <2>1 DEF Tools
  <2>3. tool' = [tool EXCEPT ![o] = t]
    BY <1>1, <1>4 DEF selectSubscriptionForUpdate
  <2> HIDE DEF t
  <2>4. \A p \in DeskOperators : p # o /\ rowHolder = p => rowHolder' = p
    BY <1>2 DEF DeskAssumption
  <2>5. tool[o].order \in Orders
    BY <1>2, DeskFacts DEF Stands
  <2>6. Stands(t, o, subRow, activated, rowHolder')
    BY <2>1, <2>2, <2>5, <1>2 DEF Stands
  <2> QED
    BY <1>2, <2>1, <2>2, <2>3, <2>4, <2>6, GoesOn
<1> QED
  BY <1>3, <1>4

\* decideActivation: an old fact is replayed, the row is refused, or the newest
\* evidence that fits becomes the fact to write.
LEMMA DecideInv ==
    ASSUME DeskAssumption, DInv, NEW o \in DeskOperators, decideActivation(o) PROVE DInv'
<1>1. tool \in [DeskOperators -> Tools] /\ Tables /\ tool[o] \in Tools
      /\ Stands(tool[o], o, subRow, activated, rowHolder)
  BY DeskFacts
<1>2. tool[o].at = "decide" /\ tool[o].order.tool = "activate" /\ rowHolder = o
      /\ tool[o].read = subRow /\ tool[o].order \in Orders
  BY <1>1 DEF Stands, decideActivation
<1>3. CASE EndTool(o, "already_activated") /\ activated # {}
  BY <1>3, <1>2, LeaveMoves
<1>4. CASE EndTool(o, "refused")
  BY <1>4, <1>2, LeaveMoves
<1>5. CASE /\ activated = {} /\ Activatable(tool[o].order, subRow)
           /\ \E e \in locateEvidence(tool[o].order, subRow) :
                tool' = [tool EXCEPT ![o].at = "audit",
                           ![o].fact = [key |-> billingSubscriptionActivationIdempotencyKey(e, subRow.snapshot),
                                        by |-> o, row |-> subRow, payment |-> e]]
           /\ UNCHANGED <<facts, rowHolder, userHolder>>
  <2>1. PICK e \in locateEvidence(tool[o].order, subRow) :
          tool' = [tool EXCEPT ![o].at = "audit",
                     ![o].fact = [key |-> billingSubscriptionActivationIdempotencyKey(e, subRow.snapshot),
                                  by |-> o, row |-> subRow, payment |-> e]]
    BY <1>5
  <2>2. PICK d \in locateEvidence(tool[o].order, subRow) : Successful(d) /\ Reconciles(d)
    BY <1>5 DEF Activatable
  <2> DEFINE f == [key |-> <<e.id, subRow.snapshot>>, by |-> o, row |-> subRow, payment |-> e]
             t == [tool[o] EXCEPT !.at = "audit", !.fact = f]
  <2>3. e \in Payments /\ e.snapshot = subRow.snapshot
    BY <1>1 DEF locateEvidence, EvidenceFits, Tables
  <2>4. e = d
    <3>1. PICK i \in DOMAIN proofs :
            e = proofs[i] /\ EvidenceFits(tool[o].order, subRow, proofs[i])
            /\ \A later \in DOMAIN proofs : later > i => ~EvidenceFits(tool[o].order, subRow, proofs[later])
      BY DEF locateEvidence
    <3>2. PICK j \in DOMAIN proofs :
            d = proofs[j] /\ EvidenceFits(tool[o].order, subRow, proofs[j])
            /\ \A later \in DOMAIN proofs : later > j => ~EvidenceFits(tool[o].order, subRow, proofs[later])
      BY DEF locateEvidence
    <3>3. i \in Nat /\ j \in Nat
      BY <1>1 DEF Tables
    <3>4. ~(i > j) /\ ~(j > i)
      BY <3>1, <3>2
    <3> QED
      BY <3>1, <3>2, <3>3, <3>4
  <2>5. subRow \in Rows /\ subRow.snapshot # "none"
        /\ SaleSnapshots[subRow.snapshot].epoch \notin {"none", "excluded"}
    BY <1>1, <1>5 DEF Tables, Activatable, assertActivatableBillingPlan
  <2>6. subRow.kind = "sold" /\ subRow.snapshot \in DOMAIN SaleSnapshots
    BY <2>5 DEF Rows, NoSubRow, LegacyRow, SoldRow
  <2>7. f \in Facts("activation") /\ f.by = o /\ f.row = subRow /\ f.payment = e
    BY <2>3, <2>5, <2>6 DEF Facts
  <2>8. tool' = [tool EXCEPT ![o] = t]
    BY <2>1, <1>1 DEF billingSubscriptionActivationIdempotencyKey
  <2> HIDE DEF f
  <2>9. t \in Tools /\ t.at = "audit" /\ t.fact = f /\ t.order = tool[o].order /\ t.answer = tool[o].answer
    BY <1>1, <2>7 DEF Tools
  <2> HIDE DEF t
  <2>10. Earned(f, subRow)
    <3>1. SaleSnapshots[subRow.snapshot].epoch = "ok"
      BY <2>5, <2>6 DEF DeskAssumption
    <3> QED
      BY <2>2, <2>3, <2>4, <2>6, <2>7, <3>1 DEF Earned, Reconciles
  <2>11. Stands(t, o, subRow, activated, rowHolder')
    BY <1>2, <1>5, <2>7, <2>9, <2>10 DEF Stands
  <2>12. rowHolder' \in DeskOperators \cup {"nobody"} /\ userHolder' \in DeskOperators \cup {"nobody"}
    BY <1>1, <1>5 DEF Tables
  <2> QED
    BY <1>5, <2>8, <2>9, <2>11, <2>12, GoesOn
<1>6. \/ EndTool(o, "already_activated") /\ activated # {}
      \/ EndTool(o, "refused")
      \/ /\ activated = {} /\ Activatable(tool[o].order, subRow)
         /\ \E e \in locateEvidence(tool[o].order, subRow) :
              tool' = [tool EXCEPT ![o].at = "audit",
                         ![o].fact = [key |-> billingSubscriptionActivationIdempotencyKey(e, subRow.snapshot),
                                      by |-> o, row |-> subRow, payment |-> e]]
         /\ UNCHANGED <<facts, rowHolder, userHolder>>
  BY <1>2 DEF decideActivation, replayResult
<1> QED
  BY <1>3, <1>4, <1>5, <1>6

\* commitActivation: the fact and its audit event, or neither.
LEMMA CommitActivationInv ==
    ASSUME DeskAssumption, DInv, NEW o \in DeskOperators, commitActivation(o) PROVE DInv'
<1>1. tool \in [DeskOperators -> Tools] /\ Tables /\ tool[o] \in Tools
      /\ Stands(tool[o], o, subRow, activated, rowHolder)
  BY DeskFacts
<1>2. tool[o].at = "audit" /\ tool[o].order.tool = "activate"
  BY DEF commitActivation
<1>3. rowHolder = o /\ activated = {} /\ tool[o].fact.by = o /\ Earned(tool[o].fact, subRow)
  BY <1>1, <1>2 DEF Stands
<1>4. CASE EndTool(o, "refused")
  BY <1>4, <1>2, LeaveMoves
<1>5. CASE /\ activated' = activated \cup {tool[o].fact}
           /\ audit' = audit \cup {<<"activated", o, tool[o].fact>>}
           /\ Answer(o, "activated") /\ FreeLocks(o)
           /\ UNCHANGED <<subRow, proofs, granted, removed>>
  <2> DEFINE t == [tool[o] EXCEPT !.at = "answered", !.answer = "activated"]
             f == tool[o].fact
  <2>1. t \in Tools /\ t.at = "answered" /\ t.answer = "activated" /\ t.order = tool[o].order
    BY <1>1 DEF Tools
  <2>2. tool' = [tool EXCEPT ![o] = t]
    BY <1>1, <1>5 DEF Answer
  <2>3. f.by = o /\ Earned(f, subRow) /\ activated' = {f} /\ audit' = audit \cup {<<"activated", o, f>>}
    BY <1>3, <1>5
  <2> HIDE DEF t, f
  <2>4. TrailMatchesFacts'
    <3>1. audit = {<<"granted", g.by, g>> : g \in granted} \cup {<<"removed", g.by, g>> : g \in removed}
      BY <1>1, <1>3 DEF Tables, TrailMatchesFacts
    <3>2. {<<"activated", g.by, g>> : g \in activated'} = {<<"activated", o, f>>}
      BY <2>3
    <3> QED
      BY <1>5, <2>3, <3>1, <3>2 DEF TrailMatchesFacts
  <2>5. /\ rowHolder' \in DeskOperators \cup {"nobody"} /\ userHolder' \in DeskOperators \cup {"nobody"}
        /\ \A p \in DeskOperators : p # o => rowHolder # p
    BY <1>1, <1>3, <1>5, LocksFreed
  <2>6. Tables'
    BY <1>1, <1>5, <2>3, <2>4, <2>5 DEF Tables, OnlyPlaceholdersRemoved
  <2>7. Stands(t, o, subRow', activated', rowHolder')
    BY <1>1, <1>2, <2>1 DEF Stands
  <2>8. Told(t, o, activated', granted', removed')
    BY <2>1, <2>3 DEF Told
  <2>9. Moves(o, t)
    BY <1>3, <1>5, <2>1, <2>2, <2>5, <2>6, <2>7, <2>8 DEF Moves
  <2> QED
    BY <2>9, DeskMove
<1> QED
  BY <1>4, <1>5 DEF commitActivation

\* lockUser: only a tool that will apply waits for the account's lock.
LEMMA LockUserInv ==
    ASSUME DeskAssumption, DInv, NEW o \in DeskOperators, lockUser(o) PROVE DInv'
<1> DEFINE t == [tool[o] EXCEPT !.at = "existing"]
<1>1. tool \in [DeskOperators -> Tools] /\ Tables /\ tool[o] \in Tools
      /\ Stands(tool[o], o, subRow, activated, rowHolder)
  BY DeskFacts
<1>2. tool[o].at = "lock" /\ tool[o].order.tool = "grant" /\ UNCHANGED <<facts, rowHolder>>
      /\ userHolder' \in {o, userHolder} /\ tool' = [tool EXCEPT ![o].at = "existing"]
  BY DEF lockUser
<1>3. t \in Tools /\ t.at = "existing" /\ t.order = tool[o].order /\ t.answer = tool[o].answer
  BY <1>1 DEF Tools
<1>4. tool' = [tool EXCEPT ![o] = t]
  BY <1>1, <1>2
<1> HIDE DEF t
<1>5. Stands(t, o, subRow, activated, rowHolder')
  BY <1>1, <1>2, <1>3 DEF Stands
<1>6. rowHolder' \in DeskOperators \cup {"nobody"} /\ userHolder' \in DeskOperators \cup {"nobody"}
  BY <1>1, <1>2 DEF Tables
<1> QED
  BY <1>2, <1>3, <1>4, <1>5, <1>6, GoesOn

\* findByUserId: an earlier grant is answered or refused.
LEMMA FindInv ==
    ASSUME DeskAssumption, DInv, NEW o \in DeskOperators, findByUserId(o) PROVE DInv'
<1> DEFINE t == [tool[o] EXCEPT !.at = "narrow"]
<1>1. tool \in [DeskOperators -> Tools] /\ Tables /\ tool[o] \in Tools
      /\ Stands(tool[o], o, subRow, activated, rowHolder)
  BY DeskFacts
<1>2. tool[o].at = "existing" /\ tool[o].order.tool = "grant"
  BY <1>1 DEF findByUserId, Stands
<1>3. CASE /\ granted # {}
           /\ EndTool(o, IF \A g \in granted : g.plan = tool[o].order.plan THEN "already_granted" ELSE "refused")
  <2>1. CASE \A g \in granted : g.plan = tool[o].order.plan
    <3>1. EndTool(o, "already_granted") /\ \E f \in granted : f.plan = tool[o].order.plan
      BY <1>3, <2>1
    <3> QED
      BY <1>2, <3>1, LeaveMoves
  <2>2. CASE ~\A g \in granted : g.plan = tool[o].order.plan
    <3>1. EndTool(o, "refused")
      BY <1>3, <2>2
    <3> QED
      BY <1>2, <3>1, LeaveMoves
  <2> QED
    BY <2>1, <2>2
<1>4. CASE tool' = [tool EXCEPT ![o].at = "narrow"] /\ UNCHANGED <<facts, rowHolder, userHolder>>
  <2>1. t \in Tools /\ t.at = "narrow" /\ t.order = tool[o].order /\ t.answer = tool[o].answer
    BY <1>1 DEF Tools
  <2>2. tool' = [tool EXCEPT ![o] = t]
    BY <1>1, <1>4
  <2> HIDE DEF t
  <2>3. Stands(t, o, subRow, activated, rowHolder')
    BY <1>1, <1>2, <2>1 DEF Stands
  <2>4. rowHolder' \in DeskOperators \cup {"nobody"} /\ userHolder' \in DeskOperators \cup {"nobody"}
    BY <1>1, <1>4 DEF Tables
  <2> QED
    BY <1>4, <2>1, <2>2, <2>3, <2>4, GoesOn
<1> QED
  BY <1>3, <1>4 DEF findByUserId

\* assertGrantDoesNotNarrow: refused, a dry run, or the grant to write.
LEMMA NarrowInv ==
    ASSUME DeskAssumption, DInv, NEW o \in DeskOperators, assertGrantDoesNotNarrow(o) PROVE DInv'
<1> DEFINE f == candidateGrant(o, tool[o].order)
           t == [tool[o] EXCEPT !.at = "audit", !.fact = f]
<1>1. tool \in [DeskOperators -> Tools] /\ Tables /\ tool[o] \in Tools
      /\ Stands(tool[o], o, subRow, activated, rowHolder)
  BY DeskFacts
<1>2. tool[o].at = "narrow" /\ tool[o].order.tool = "grant" /\ tool[o].order \in Orders
  BY <1>1 DEF assertGrantDoesNotNarrow, Stands
<1>3. CASE EndTool(o, "refused")
  BY <1>2, <1>3, LeaveMoves
<1>4. CASE EndTool(o, "dry_run")
  BY <1>2, <1>4, LeaveMoves
<1>5. CASE /\ tool' = [tool EXCEPT ![o].at = "audit", ![o].fact = candidateGrant(o, tool[o].order)]
           /\ UNCHANGED <<facts, rowHolder, userHolder>>
  <2>1. f \in Facts("grant") /\ f.by = o /\ f.plan = tool[o].order.plan
    BY <1>2 DEF Facts, candidateGrant, billingEntitlementGrantIdempotencyKey
  <2>2. tool' = [tool EXCEPT ![o] = t]
    BY <1>1, <1>5
  <2> HIDE DEF f
  <2>3. t \in Tools /\ t.at = "audit" /\ t.fact = f /\ t.order = tool[o].order /\ t.answer = tool[o].answer
    BY <1>1, <2>1 DEF Tools
  <2> HIDE DEF t
  <2>4. Stands(t, o, subRow, activated, rowHolder')
    BY <1>2, <2>1, <2>3 DEF Stands
  <2>5. rowHolder' \in DeskOperators \cup {"nobody"} /\ userHolder' \in DeskOperators \cup {"nobody"}
    BY <1>1, <1>5 DEF Tables
  <2> QED
    BY <1>5, <2>2, <2>3, <2>4, <2>5, GoesOn
<1> QED
  BY <1>3, <1>4, <1>5 DEF assertGrantDoesNotNarrow

\* commitGrant: the unique index lets one grant in, with its audit event.
LEMMA CommitGrantInv ==
    ASSUME DeskAssumption, DInv, NEW o \in DeskOperators, commitGrant(o) PROVE DInv'
<1>1. tool \in [DeskOperators -> Tools] /\ Tables /\ tool[o] \in Tools
      /\ Stands(tool[o], o, subRow, activated, rowHolder)
  BY DeskFacts
<1>2. tool[o].at = "audit" /\ tool[o].order.tool = "grant"
  BY DEF commitGrant
<1>3. CASE EndTool(o, "refused")
  BY <1>2, <1>3, LeaveMoves
<1>4. CASE /\ ~mapDatabaseRefusal(o)
           /\ granted' = granted \cup {tool[o].fact}
           /\ audit' = audit \cup {<<"granted", o, tool[o].fact>>}
           /\ Answer(o, "granted") /\ FreeLocks(o)
           /\ UNCHANGED <<subRow, proofs, activated, removed>>
  <2> DEFINE t == [tool[o] EXCEPT !.at = "answered", !.answer = "granted"]
             f == tool[o].fact
  <2>1. t \in Tools /\ t.at = "answered" /\ t.answer = "granted" /\ t.order = tool[o].order
    BY <1>1 DEF Tools
  <2>2. tool' = [tool EXCEPT ![o] = t]
    BY <1>1, <1>4 DEF Answer
  <2>3. f.by = o /\ f.plan = tool[o].order.plan
    BY <1>1, <1>2 DEF Stands
  <2>4. granted = {} /\ granted' = {f} /\ audit' = audit \cup {<<"granted", o, f>>}
    BY <1>4 DEF mapDatabaseRefusal
  <2> HIDE DEF t, f
  <2>5. TrailMatchesFacts'
    <3>1. audit = {<<"activated", g.by, g>> : g \in activated} \cup {<<"removed", g.by, g>> : g \in removed}
      BY <1>1, <2>4 DEF Tables, TrailMatchesFacts
    <3>2. {<<"granted", g.by, g>> : g \in granted'} = {<<"granted", o, f>>}
      BY <2>3, <2>4
    <3> QED
      BY <1>4, <2>4, <3>1, <3>2 DEF TrailMatchesFacts
  <2>6. /\ rowHolder' \in DeskOperators \cup {"nobody"} /\ userHolder' \in DeskOperators \cup {"nobody"}
        /\ \A p \in DeskOperators : p # o /\ rowHolder = p => rowHolder' = p
    BY <1>1, <1>4, LocksFreed
  <2>7. Tables'
    BY <1>1, <1>4, <2>4, <2>5, <2>6 DEF Tables, OnlyPlaceholdersRemoved
  <2>8. Stands(t, o, subRow', activated', rowHolder')
    BY <1>1, <1>2, <2>1 DEF Stands
  <2>9. Told(t, o, activated', granted', removed')
    BY <2>1, <2>3, <2>4 DEF Told
  <2>10. Moves(o, t)
    BY <1>4, <2>1, <2>2, <2>4, <2>6, <2>7, <2>8, <2>9 DEF Moves
  <2> QED
    BY <2>10, DeskMove
<1> QED
  BY <1>3, <1>4 DEF commitGrant

\* selectRow: no row, or the row is read, locked when it is to be deleted.
LEMMA SelectRowInv ==
    ASSUME DeskAssumption, DInv, NEW o \in DeskOperators, selectRow(o) PROVE DInv'
<1>1. tool \in [DeskOperators -> Tools] /\ Tables /\ tool[o] \in Tools
      /\ Stands(tool[o], o, subRow, activated, rowHolder)
  BY DeskFacts
<1>2. tool[o].at = "lock" /\ tool[o].order.tool = "remediate" /\ UNCHANGED facts
      /\ (tool[o].order.apply => rowHolder = "nobody") /\ UNCHANGED userHolder
  BY DEF selectRow
<1>3. /\ subRow \in Rows /\ userHolder' \in DeskOperators \cup {"nobody"}
      /\ rowHolder \in DeskOperators \cup {"nobody"}
  BY <1>1, <1>2 DEF Tables
<1>4. CASE subRow = NoSubRow
  <2>1. Answer(o, "absent") /\ UNCHANGED rowHolder
    BY <1>4 DEF selectRow
  <2> QED
    BY <1>2, <1>3, <2>1, AnswerMoves
<1>5. CASE subRow # NoSubRow
  <2> DEFINE t == [tool[o] EXCEPT !.at = "check", !.read = subRow]
  <2>1. tool' = [tool EXCEPT ![o].at = "check", ![o].read = subRow]
        /\ rowHolder' = IF tool[o].order.apply THEN o ELSE rowHolder
    BY <1>5 DEF selectRow
  <2>2. t \in Tools /\ t.at = "check" /\ t.order = tool[o].order /\ t.answer = tool[o].answer
    BY <1>1, <1>3 DEF Tools
  <2>3. tool' = [tool EXCEPT ![o] = t]
    BY <1>1, <2>1
  <2> HIDE DEF t
  <2>4. Stands(t, o, subRow, activated, rowHolder')
    BY <1>1, <1>2, <2>1, <2>2 DEF Stands
  <2>5. /\ rowHolder' \in DeskOperators \cup {"nobody"}
        /\ \A p \in DeskOperators : p # o /\ rowHolder = p => rowHolder' = p
    BY <1>2, <1>3, <2>1 DEF DeskAssumption
  <2> QED
    BY <1>2, <1>3, <2>2, <2>3, <2>4, <2>5, GoesOn
<1> QED
  BY <1>4, <1>5

\* checkPredicates: refused, a dry run, or on to the deletion.
LEMMA CheckInv ==
    ASSUME DeskAssumption, DInv, NEW o \in DeskOperators, checkPredicates(o) PROVE DInv'
<1> DEFINE t == [tool[o] EXCEPT !.at = "delete"]
<1>1. tool \in [DeskOperators -> Tools] /\ Tables /\ tool[o] \in Tools
      /\ Stands(tool[o], o, subRow, activated, rowHolder)
  BY DeskFacts
<1>2. tool[o].at = "check"
  BY DEF checkPredicates
<1>3. CASE EndTool(o, "refused")
  BY <1>2, <1>3, LeaveMoves
<1>4. CASE EndTool(o, "dry_run")
  BY <1>2, <1>4, LeaveMoves
<1>5. CASE tool[o].order.apply /\ tool' = [tool EXCEPT ![o].at = "delete"]
           /\ UNCHANGED <<facts, rowHolder, userHolder>>
  <2>1. t \in Tools /\ t.at = "delete" /\ t.order = tool[o].order /\ t.answer = tool[o].answer
    BY <1>1 DEF Tools
  <2>2. tool' = [tool EXCEPT ![o] = t]
    BY <1>1, <1>5
  <2> HIDE DEF t
  <2>3. Stands(t, o, subRow, activated, rowHolder')
    BY <1>1, <1>2, <1>5, <2>1 DEF Stands
  <2>4. rowHolder' \in DeskOperators \cup {"nobody"} /\ userHolder' \in DeskOperators \cup {"nobody"}
    BY <1>1, <1>5 DEF Tables
  <2> QED
    BY <1>5, <2>1, <2>2, <2>3, <2>4, GoesOn
<1> QED
  BY <1>3, <1>4, <1>5 DEF checkPredicates

\* deleteRow: only a placeholder that no activation stands on, with its audit
\* event.
LEMMA DeleteInv ==
    ASSUME DeskAssumption, DInv, NEW o \in DeskOperators, deleteRow(o) PROVE DInv'
<1>1. tool \in [DeskOperators -> Tools] /\ Tables /\ tool[o] \in Tools
      /\ Stands(tool[o], o, subRow, activated, rowHolder)
  BY DeskFacts
<1>2. tool[o].at = "delete" /\ rowHolder = o
  BY <1>1 DEF deleteRow, Stands
<1>3. CASE EndTool(o, "refused")
  BY <1>2, <1>3, LeaveMoves
<1>4. CASE /\ LEGACY_FREE_ROW_PREDICATES(subRow)
           /\ removed' = removed \cup {[by |-> o, row |-> subRow]}
           /\ subRow' = NoSubRow
           /\ audit' = audit \cup {<<"removed", o, [by |-> o, row |-> subRow]>>}
           /\ Answer(o, "removed") /\ FreeLocks(o)
           /\ UNCHANGED <<proofs, activated, granted>>
  <2> DEFINE t == [tool[o] EXCEPT !.at = "answered", !.answer = "removed"]
             f == [by |-> o, row |-> subRow]
  <2>1. t \in Tools /\ t.at = "answered" /\ t.answer = "removed" /\ t.order = tool[o].order
    BY <1>1 DEF Tools
  <2>2. tool' = [tool EXCEPT ![o] = t]
    BY <1>1, <1>4 DEF Answer
  <2>3. activated = {} /\ f.by = o /\ f.row = LegacyRow
    BY <1>4 DEF LEGACY_FREE_ROW_PREDICATES
  <2>4. removed' = removed \cup {f} /\ audit' = audit \cup {<<"removed", o, f>>}
    BY <1>4
  <2> HIDE DEF t, f
  <2>5. TrailMatchesFacts'
    <3>1. audit = {<<"activated", g.by, g>> : g \in activated} \cup {<<"granted", g.by, g>> : g \in granted}
                    \cup {<<"removed", g.by, g>> : g \in removed}
      BY <1>1 DEF Tables, TrailMatchesFacts
    <3>2. {<<"removed", g.by, g>> : g \in removed'} = {<<"removed", g.by, g>> : g \in removed} \cup {<<"removed", o, f>>}
      BY <2>3, <2>4
    <3> QED
      BY <1>4, <2>4, <3>1, <3>2 DEF TrailMatchesFacts
  <2>6. /\ rowHolder' \in DeskOperators \cup {"nobody"} /\ userHolder' \in DeskOperators \cup {"nobody"}
        /\ \A p \in DeskOperators : p # o => rowHolder # p
    BY <1>1, <1>2, <1>4, LocksFreed
  <2>7. subRow' \in Rows
    BY <1>4 DEF Rows
  <2>8. Tables'
    BY <1>1, <1>4, <2>3, <2>4, <2>5, <2>6, <2>7 DEF Tables, OnlyPlaceholdersRemoved
  <2>9. Stands(t, o, subRow', activated', rowHolder')
    BY <1>1, <1>2, <2>1 DEF Stands
  <2>10. Told(t, o, activated', granted', removed')
    BY <2>1, <2>3, <2>4 DEF Told
  <2>11. Moves(o, t)
    BY <1>4, <2>1, <2>2, <2>4, <2>6, <2>8, <2>9, <2>10 DEF Moves
  <2> QED
    BY <2>11, DeskMove
<1> QED
  BY <1>3, <1>4 DEF deleteRow

\* sell and recordEvidence wait for whoever holds the row; a row-less account
\* has no activation.
LEMMA AccountInv ==
    ASSUME DeskAssumption, DInv,
           (\E s \in DOMAIN SaleSnapshots : sell(s)) \/ (\E e \in Payments : recordEvidence(e))
    PROVE  DInv'
<1>1. Tables /\ tool \in [DeskOperators -> Tools]
  BY DEF DInv
<1>2. /\ rowHolder = "nobody"
      /\ UNCHANGED <<activated, granted, removed, audit, rowHolder, userHolder, tool>>
  BY DEF sell, recordEvidence
<1>3. subRow' \in Rows /\ proofs' \in Seq(Payments) /\ (activated # {} => subRow' = subRow)
  <2>1. CASE \E s \in DOMAIN SaleSnapshots : sell(s)
    <3>1. activated = {}
      <4> SUFFICES ASSUME NEW f \in activated PROVE FALSE
        OBVIOUS
      <4>1. subRow.kind = "sold"
        BY <1>1 DEF Tables, Earned
      <4> QED
        BY <2>1, <4>1 DEF sell, NoSubRow
    <3> QED
      BY <1>1, <2>1, <3>1 DEF sell, Rows, Tables
  <2>2. CASE \E e \in Payments : recordEvidence(e)
    BY <1>1, <2>2 DEF recordEvidence, Tables
  <2> QED
    BY <2>1, <2>2
<1>4. Tables'
  BY <1>1, <1>2, <1>3 DEF Tables, TrailMatchesFacts, OnlyPlaceholdersRemoved
<1>5. ASSUME NEW o \in DeskOperators
      PROVE  /\ Stands(tool[o], o, subRow', activated, rowHolder)
             /\ Told(tool[o], o, activated, granted, removed)
  <2>1. Stands(tool[o], o, subRow, activated, rowHolder) /\ Told(tool[o], o, activated, granted, removed)
    BY DEF DInv
  <2>2. rowHolder # o
    BY <1>2 DEF DeskAssumption
  <2> QED
    BY <2>1, <2>2 DEF Stands
<1> QED
  BY <1>1, <1>2, <1>4, <1>5 DEF DInv

\* An account as the tools find it.
LEMMA DeskInitInv == ASSUME DeskAssumption, DeskInit PROVE DInv
<1>1. Tables
  BY DEF DeskInit, DeskAssumption, Tables, TrailMatchesFacts, OnlyPlaceholdersRemoved
<1>2. NoTool \in Tools /\ NoTool.at = "ready" /\ NoTool.answer = "none"
  BY DEF NoTool, Tools, Rows
<1>3. tool \in [DeskOperators -> Tools] /\ \A o \in DeskOperators : tool[o] = NoTool
  BY <1>2 DEF DeskInit
<1>4. \A o \in DeskOperators : Stands(tool[o], o, subRow, activated, rowHolder)
                               /\ Told(tool[o], o, activated, granted, removed)
  BY <1>2, <1>3 DEF Stands, Told
<1> QED
  BY <1>1, <1>3, <1>4 DEF DInv

\* Every step of the desk keeps the invariant.
LEMMA DeskNextInv == ASSUME DeskAssumption, DInv, [DeskNext]_deskVars PROVE DInv'
<1>1. CASE UNCHANGED deskVars
  BY <1>1 DEF deskVars, DInv, Tables, TrailMatchesFacts, OnlyPlaceholdersRemoved
<1>2. CASE DeskNext
  <2>1. ASSUME NEW o \in DeskOperators, OperatorStep(o) PROVE DInv'
    BY <2>1, StartInv, SelectInv, DecideInv, CommitActivationInv, LockUserInv, FindInv, NarrowInv,
       CommitGrantInv, SelectRowInv, CheckInv, DeleteInv DEF OperatorStep
  <2> QED
    BY <1>2, <2>1, AccountInv DEF DeskNext
<1> QED
  BY <1>1, <1>2

\* DInv is inductive: whatever the operators type and whenever a checkout or a
\* payment comes between two statements of a tool, the tool's reads stand while
\* it holds the row, and the tables agree with each other and with the trail.
THEOREM DeskInvariance == ASSUME DeskAssumption PROVE DeskSpec => []DInv
  BY DeskInitInv, DeskNextInv, PTL DEF DeskSpec

\* The operator tools are accountable (activation.ts, entitlement-grants.ts,
\* legacy-free-row-remediation.ts): every fact has its audit event and no event
\* lacks a fact, an account is activated and granted at most once, an activation
\* stands on a successful exact payment of the row's snapshot, only placeholders
\* are removed, and what an operator was told is so.
THEOREM DeskIsAccountable == ASSUME DeskAssumption PROVE DeskSpec => []OperatorActsAreAccountable
<1>1. ASSUME NEW S, \A x, y \in S : x = y PROVE Cardinality(S) <= 1
  <2>1. CASE S = {}
    BY <2>1, FS_EmptySet
  <2>2. CASE S # {}
    <3>1. PICK x \in S : TRUE
      BY <2>2
    <3>2. S = {x}
      BY <1>1, <3>1
    <3> QED
      BY <3>2, FS_Singleton
  <2> QED
    BY <2>1, <2>2
<1>2. ASSUME DInv PROVE OperatorActsAreAccountable
  <2>1. Tables
    BY <1>2 DEF DInv
  <2>2. FactsAreSingle
    BY <1>1, <2>1 DEF Tables, FactsAreSingle
  <2>3. ActivationStandsOnPayment
    BY <2>1 DEF Tables, Earned, ActivationStandsOnPayment
  <2>4. AnswersAreTrue
    BY <1>2 DEF DInv, Told, AnswersAreTrue
  <2>5. DeskTypeOK
    <3>1. \A o \in DeskOperators : tool[o] \in Tools
      BY <1>2 DEF DInv
    <3>2. ToSet(proofs) \subseteq Payments
      BY <2>1 DEF Tables, ToSet
    <3> QED
      BY <2>1, <3>1, <3>2 DEF Tables, Tools, DeskTypeOK
  <2> QED
    BY <2>1, <2>2, <2>3, <2>4, <2>5 DEF Tables, OperatorActsAreAccountable
<1> QED
  BY <1>2, DeskInvariance, PTL

-----------------------------------------------------------------------------
(* The life of a server: the inductive invariant.                          *)

Contents(files, i) == {files[i][v] : v \in 1..Len(files[i])}
Checksums == UNION {Contents(files, i) : files \in Releases, i \in Servers}
Requests == {NoRequest, "heartbeat", "deliver", "scan", "fxCheck"}
Phases == {"down", "lock", "migrate", "apply", "start", "serving", "stopScanner", "stopDelivery",
           "waitScans", "close", "ended"}
Causes == {"none", "no_database", "lock_timeout", "edited", "migration_failed", "stopped", "killed"}
Processes ==
    [at : Phases, file : Nat, cause : Causes, busy : SUBSET BackgroundWorkers,
     halted : SUBSET BackgroundWorkers, slot : [Slots -> Requests], orphans : Nat,
     inFlight : [BackgroundWorkers -> Nat]]

\* schema_migrations holds the versions 1 .. n that ran, in that order, each
\* with the contents that ran.
Schema ==
    /\ release \in Releases
    /\ executed \in Seq(Nat \X Checksums)
    /\ DOMAIN schemaRows = 1..Len(executed)
    /\ \A n \in 1..Len(executed) : executed[n][1] = n /\ schemaRows[n] = executed[n][2]
    /\ migrationHolder \in Servers \cup {NoServer}

\* The requests of a process that have worker w in flight.
Serving(slot, w) == {k \in Slots : slot[k] # NoRequest /\ WorkerOfRequest(slot[k]) = w}
Ticking(busy, w) == IF w \in busy /\ Recorded(w) THEN 1 ELSE 0
Counted(s) ==
    \A w \in BackgroundWorkers : s.inFlight[w] = Cardinality(Serving(s.slot, w)) + Ticking(s.busy, w)

\* A migrator holds the lock, has found every file before its own applied as
\* its release has it, and is about to apply one that nobody has applied.
Migrated(s, i, files, rows, holder) ==
    /\ s.file \in 1..(Len(files[i]) + 1)
    /\ \A v \in 1..(s.file - 1) : v \in DOMAIN rows /\ rows[v] = files[i][v]
    /\ s.at \in {"migrate", "apply"} => holder = i
    /\ s.at = "apply" => s.file <= Len(files[i]) /\ s.file \notin DOMAIN rows
    /\ s.at \notin {"down", "lock", "migrate", "apply"} => s.file = Len(files[i]) + 1

\* A server that stops has halted its tickers and waited, one after the other.
Stopping(s) ==
    /\ s.at \in {"stopScanner", "stopDelivery", "waitScans", "close", "ended"} =>
          "fxSource" \in s.halted /\ "scanner" \in s.halted
    /\ s.at \in {"stopDelivery", "waitScans", "close", "ended"} =>
          "notifications" \in s.halted /\ "scanner" \notin s.busy
    /\ s.at \in {"waitScans", "close", "ended"} => "notifications" \notin s.busy
    /\ s.at = "ended" => \A k \in Slots : s.slot[k] = NoRequest

Lives(s, i, files, rows, holder) ==
    /\ s.busy \subseteq TickersOf[i]
    /\ Migrated(s, i, files, rows, holder) /\ Stopping(s) /\ Counted(s)

LInv ==
    /\ Schema
    /\ server \in [Servers -> Processes]
    /\ \A i \in Servers : Lives(server[i], i, release, schemaRows, migrationHolder)

-----------------------------------------------------------------------------
(* Counting.                                                               *)

Has(r, w) == IF r # NoRequest /\ WorkerOfRequest(r) = w THEN 1 ELSE 0

\* When the request in one slot changes, each worker's count changes by what
\* the old request was and the new one is to it.
LEMMA Recount ==
    ASSUME IsFiniteSet(Slots), NEW slot \in [Slots -> Requests], NEW k \in Slots,
           NEW r \in Requests, NEW w
    PROVE  /\ Cardinality(Serving(slot, w)) \in Nat
           /\ Cardinality(Serving([slot EXCEPT ![k] = r], w)) \in Nat
           /\ Cardinality(Serving([slot EXCEPT ![k] = r], w)) + Has(slot[k], w)
                = Cardinality(Serving(slot, w)) + Has(r, w)
<1> DEFINE rest == {j \in Slots \ {k} : slot[j] # NoRequest /\ WorkerOfRequest(slot[j]) = w}
<1>1. IsFiniteSet(rest) /\ k \notin rest
  <2>1. rest \subseteq Slots
    OBVIOUS
  <2> QED
    BY <2>1, FS_Subset
<1>2. Cardinality(rest) \in Nat /\ Cardinality(rest \cup {k}) = Cardinality(rest) + 1
  BY <1>1, FS_CardinalityType, FS_AddElement
<1>3. Serving(slot, w) = IF Has(slot[k], w) = 1 THEN rest \cup {k} ELSE rest
  BY DEF Serving, Has
<1>4. Serving([slot EXCEPT ![k] = r], w) = IF Has(r, w) = 1 THEN rest \cup {k} ELSE rest
  <2> DEFINE new == [slot EXCEPT ![k] = r]
  <2>1. new[k] = r /\ \A j \in Slots \ {k} : new[j] = slot[j]
    OBVIOUS
  <2> HIDE DEF new
  <2>2. Serving(new, w) = IF Has(r, w) = 1 THEN rest \cup {k} ELSE rest
    BY <2>1 DEF Serving, Has
  <2> QED
    BY <2>2 DEF new
<1> HIDE DEF rest
<1>5. Has(r, w) \in {0, 1} /\ Has(slot[k], w) \in {0, 1}
  BY DEF Has
<1> QED
  BY <1>2, <1>3, <1>4, <1>5

\* A process that is down counts nothing and has nothing to stop.
LEMMA StoppedLives ==
    ASSUME ServersAssumption, NEW i \in Servers, NEW files \in Releases, NEW c \in Causes, NEW rows, NEW holder,
           NEW at \in {"down", "lock"}
    PROVE  /\ [Stopped EXCEPT !.cause = c, !.at = at] \in Processes
           /\ Lives([Stopped EXCEPT !.cause = c, !.at = at], i, files, rows, holder)
<1> DEFINE s == [Stopped EXCEPT !.cause = c, !.at = at]
<1>1. s \in Processes /\ s.at = at /\ s.file = 1 /\ s.busy = {}
      /\ s.slot = [k \in Slots |-> NoRequest] /\ s.inFlight = [w \in BackgroundWorkers |-> 0]
  BY DEF Stopped, Processes, Phases, Requests
<1> HIDE DEF s
<1>2. Migrated(s, i, files, rows, holder)
  BY <1>1 DEF Migrated, ServersAssumption
<1>3. \A w \in BackgroundWorkers : Serving(s.slot, w) = {} /\ Ticking(s.busy, w) = 0
  BY <1>1 DEF Serving, Ticking
<1>4. Counted(s)
  BY <1>1, <1>3, FS_EmptySet DEF Counted
<1>5. Lives(s, i, files, rows, holder)
  BY <1>1, <1>2, <1>4 DEF Lives, Stopping
<1> QED
  BY <1>1, <1>5 DEF s

-----------------------------------------------------------------------------
(* A step of one server.                                                   *)

\* Server i becomes s: what was applied stays, and while another server holds
\* the migration lock neither the schema nor the lock change.
LifeMoves(i, s) ==
    /\ s \in Processes /\ server' = [server EXCEPT ![i] = s]
    /\ Schema' /\ release' = release
    /\ Lives(s, i, release, schemaRows', migrationHolder')
    /\ \A v \in DOMAIN schemaRows : v \in DOMAIN schemaRows' /\ schemaRows'[v] = schemaRows[v]
    /\ \A j \in Servers : j # i /\ migrationHolder = j =>
          migrationHolder' = j /\ schemaRows' = schemaRows

\* Every step that is such a move keeps the invariant.
LEMMA LifeMove == ASSUME LInv, NEW i \in Servers, NEW s, LifeMoves(i, s) PROVE LInv'
<1>1. server' \in [Servers -> Processes] /\ server'[i] = s
      /\ \A j \in Servers : j # i => server'[j] = server[j]
  BY DEF LInv, LifeMoves
<1>2. ASSUME NEW j \in Servers
      PROVE  Lives(server'[j], j, release', schemaRows', migrationHolder')
  <2>1. CASE j = i
    BY <2>1, <1>1 DEF LifeMoves
  <2>2. CASE j # i
    <3>1. Lives(server[j], j, release, schemaRows, migrationHolder)
      BY DEF LInv
    <3>2. /\ \A v \in DOMAIN schemaRows : v \in DOMAIN schemaRows' /\ schemaRows'[v] = schemaRows[v]
          /\ migrationHolder = j => migrationHolder' = j /\ schemaRows' = schemaRows
          /\ release' = release
      BY <2>2 DEF LifeMoves
    <3>3. Migrated(server[j], j, release, schemaRows', migrationHolder')
      BY <3>1, <3>2 DEF Lives, Migrated
    <3> QED
      BY <1>1, <2>2, <3>1, <3>2, <3>3 DEF Lives
  <2> QED
    BY <2>1, <2>2
<1>3. Schema'
  BY DEF LifeMoves
<1> QED
  BY <1>1, <1>2, <1>3 DEF LInv

\* What the invariant says of one server.
LEMMA LifeFacts ==
    ASSUME LInv, NEW i \in Servers
    PROVE  /\ Schema /\ server \in [Servers -> Processes] /\ server[i] \in Processes
           /\ Lives(server[i], i, release, schemaRows, migrationHolder)
  BY DEF LInv

\* A step that leaves the schema alone, and perhaps takes or frees the lock.
LEMMA SameSchema ==
    ASSUME LInv, NEW i \in Servers, NEW s \in Processes, server' = [server EXCEPT ![i] = s],
           UNCHANGED <<release, schemaRows, executed>>,
           migrationHolder' \in Servers \cup {NoServer},
           \A j \in Servers : j # i /\ migrationHolder = j => migrationHolder' = j,
           Lives(s, i, release, schemaRows, migrationHolder')
    PROVE  LInv'
<1>1. Schema'
  BY DEF LInv, Schema
<1>2. LifeMoves(i, s)
  BY <1>1 DEF LifeMoves
<1> QED
  BY <1>2, LifeMove

\* A process that exits leaves nothing behind but the schema.
LEMMA ExitMoves ==
    ASSUME ServersAssumption, LInv, NEW i \in Servers, NEW c \in Causes, Exit(i, c),
           migrationHolder' \in {migrationHolder, Unlocked(i)}, UNCHANGED <<release, schemaRows, executed>>
    PROVE  LInv'
<1> DEFINE s == [Stopped EXCEPT !.cause = c, !.at = "down"]
<1>1. Schema /\ server \in [Servers -> Processes]
  BY LifeFacts
<1>2. s \in Processes /\ Lives(s, i, release, schemaRows, migrationHolder')
  BY <1>1, StoppedLives DEF Schema
<1>3. s = [Stopped EXCEPT !.cause = c]
  <2>1. Stopped \in Processes /\ Stopped.at = "down"
    BY DEF Stopped, Processes, Phases, Requests, Causes
  <2> QED
    BY <2>1 DEF Processes
<1>4. server' = [server EXCEPT ![i] = s]
  BY <1>3 DEF Exit, Become
<1> HIDE DEF s
<1>5. /\ migrationHolder' \in Servers \cup {NoServer}
      /\ \A j \in Servers : j # i /\ migrationHolder = j => migrationHolder' = j
  BY <1>1 DEF Unlocked, Schema
<1> QED
  BY <1>2, <1>4, <1>5, SameSchema

\* A change of phase only: the tickers, slots and counters stay.
LEMMA AdvanceMoves ==
    ASSUME LInv, NEW i \in Servers, NEW phase \in Phases, Advance(i, phase),
           UNCHANGED <<release, schemaRows, executed>>,
           migrationHolder' \in Servers \cup {NoServer},
           \A j \in Servers : j # i /\ migrationHolder = j => migrationHolder' = j,
           Migrated([server[i] EXCEPT !.at = phase], i, release, schemaRows, migrationHolder'),
           Stopping([server[i] EXCEPT !.at = phase])
    PROVE  LInv'
<1> DEFINE s == [server[i] EXCEPT !.at = phase]
<1>1. server \in [Servers -> Processes] /\ server[i] \in Processes
      /\ Lives(server[i], i, release, schemaRows, migrationHolder)
  BY LifeFacts
<1>2. s \in Processes /\ s.slot = server[i].slot /\ s.busy = server[i].busy /\ s.inFlight = server[i].inFlight
  BY <1>1 DEF Processes
<1>3. server' = [server EXCEPT ![i] = s]
  BY DEF Advance, Become
<1>4. Migrated(s, i, release, schemaRows, migrationHolder') /\ Stopping(s)
  OBVIOUS
<1> HIDE DEF s
<1>5. Lives(s, i, release, schemaRows, migrationHolder')
  BY <1>1, <1>2, <1>4 DEF Lives, Counted
<1> QED
  BY <1>2, <1>3, <1>5, SameSchema

-----------------------------------------------------------------------------
(* One lemma per action of the boot.                                       *)

\* bootServer: the boot goes on to the lock, or the database is not there.
LEMMA BootInv ==
    ASSUME ServersAssumption, LInv, NEW i \in Servers, bootServer(i) PROVE LInv'
<1>1. Schema /\ server \in [Servers -> Processes]
  BY LifeFacts
<1>2. UNCHANGED <<release, schemaRows, executed, migrationHolder>>
  BY DEF bootServer, schemaVars
<1>3. CASE Exit(i, "no_database")
  BY <1>2, <1>3, ExitMoves DEF Causes
<1>4. CASE Become(i, [Stopped EXCEPT !.at = "lock"])
  <2> DEFINE s == [Stopped EXCEPT !.cause = "none", !.at = "lock"]
  <2>1. s \in Processes /\ Lives(s, i, release, schemaRows, migrationHolder')
    BY <1>1, StoppedLives DEF Schema, Causes
  <2>2. s = [Stopped EXCEPT !.at = "lock"]
    <3>1. Stopped \in Processes /\ Stopped.cause = "none"
      BY DEF Stopped, Processes, Phases, Requests, Causes
    <3> QED
      BY <3>1 DEF Processes
  <2>3. server' = [server EXCEPT ![i] = s]
    BY <1>4, <2>2 DEF Become
  <2> HIDE DEF s
  <2> QED
    BY <1>1, <1>2, <2>1, <2>3, SameSchema DEF Schema
<1> QED
  BY <1>3, <1>4 DEF bootServer

\* acquireMigrationLock: the lock was free, or the boot fails at its deadline.
LEMMA AcquireInv ==
    ASSUME ServersAssumption, LInv, NEW i \in Servers, acquireMigrationLock(i) PROVE LInv'
<1>1. Schema /\ server[i] \in Processes /\ Lives(server[i], i, release, schemaRows, migrationHolder)
  BY LifeFacts
<1>2. server[i].at = "lock" /\ UNCHANGED <<release, schemaRows, executed>>
  BY DEF acquireMigrationLock, InPhase
<1>3. CASE migrationHolder = NoServer /\ migrationHolder' = i /\ Advance(i, "migrate")
  <2> DEFINE s == [server[i] EXCEPT !.at = "migrate"]
  <2>1. s.at = "migrate" /\ s.file = server[i].file
    BY <1>1 DEF Processes
  <2> HIDE DEF s
  <2>2. Migrated(s, i, release, schemaRows, migrationHolder') /\ Stopping(s)
    BY <1>1, <1>3, <2>1 DEF Lives, Migrated, Stopping
  <2> QED
    BY <1>2, <1>3, <2>2, AdvanceMoves DEF s, ServersAssumption, Phases
<1>4. CASE Exit(i, "lock_timeout") /\ UNCHANGED migrationHolder
  BY <1>2, <1>4, ExitMoves DEF Causes
<1> QED
  BY <1>3, <1>4 DEF acquireMigrationLock

\* runMigrations: after the last file the lock is freed and the server starts.
LEMMA RunMigrationsInv ==
    ASSUME ServersAssumption, LInv, NEW i \in Servers, runMigrations(i) PROVE LInv'
<1> DEFINE s == [server[i] EXCEPT !.at = "start"]
<1>1. Schema /\ server[i] \in Processes /\ Lives(server[i], i, release, schemaRows, migrationHolder)
  BY LifeFacts
<1>2. server[i].at = "migrate" /\ server[i].file > Len(release[i])
      /\ UNCHANGED <<release, schemaRows, executed>>
      /\ migrationHolder' = Unlocked(i) /\ Advance(i, "start")
  BY DEF runMigrations, InPhase
<1>3. s.at = "start" /\ s.file = server[i].file
  BY <1>1 DEF Processes
<1> HIDE DEF s
<1>4. server[i].file = Len(release[i]) + 1
  BY <1>1, <1>2 DEF Lives, Migrated, Schema, ServersAssumption
<1>5. Migrated(s, i, release, schemaRows, migrationHolder') /\ Stopping(s)
  BY <1>1, <1>3, <1>4 DEF Lives, Migrated, Stopping
<1>6. /\ migrationHolder' \in Servers \cup {NoServer}
      /\ \A j \in Servers : j # i /\ migrationHolder = j => migrationHolder' = j
  BY <1>1, <1>2 DEF Unlocked, Schema
<1> QED
  BY <1>2, <1>5, <1>6, AdvanceMoves DEF s, Phases

\* checkMigration: not applied, applied as this release has it, or edited.
LEMMA CheckMigrationInv ==
    ASSUME ServersAssumption, LInv, NEW i \in Servers, checkMigration(i) PROVE LInv'
<1>1. Schema /\ server[i] \in Processes /\ server \in [Servers -> Processes]
      /\ Lives(server[i], i, release, schemaRows, migrationHolder)
  BY LifeFacts
<1> DEFINE v == server[i].file
<1>2. server[i].at = "migrate" /\ v <= Len(release[i]) /\ UNCHANGED <<release, schemaRows, executed>>
  BY DEF checkMigration, InPhase
<1>3. v \in Nat /\ Len(release[i]) \in Nat /\ v \in 1..(Len(release[i]) + 1) /\ migrationHolder = i
      /\ \A u \in 1..(v - 1) : u \in DOMAIN schemaRows /\ schemaRows[u] = release[i][u]
  BY <1>1, <1>2 DEF Lives, Migrated, Schema, ServersAssumption, Processes
<1>4. CASE v \notin DOMAIN schemaRows
  <2> DEFINE s == [server[i] EXCEPT !.at = "apply"]
  <2>1. Advance(i, "apply") /\ UNCHANGED migrationHolder
    BY <1>4 DEF checkMigration
  <2>2. s.at = "apply" /\ s.file = v
    BY <1>1 DEF Processes
  <2> HIDE DEF s
  <2>3. Migrated(s, i, release, schemaRows, migrationHolder') /\ Stopping(s)
    BY <1>2, <1>3, <1>4, <2>1, <2>2 DEF Migrated, Stopping
  <2> QED
    BY <1>1, <1>2, <2>1, <2>3, AdvanceMoves DEF s, Phases, Schema
<1>5. CASE v \in DOMAIN schemaRows /\ schemaRows[v] = release[i][v]
  <2> DEFINE s == [server[i] EXCEPT !.file = v + 1]
  <2>1. server' = [server EXCEPT ![i] = s] /\ UNCHANGED migrationHolder
    BY <1>5 DEF checkMigration, Become
  <2>2. s \in Processes /\ s.at = "migrate" /\ s.file = v + 1 /\ s.busy = server[i].busy
        /\ s.slot = server[i].slot /\ s.inFlight = server[i].inFlight
    <3>1. v + 1 \in Nat
      BY <1>3
    <3> QED
      BY <1>1, <1>2, <3>1 DEF Processes
  <2> HIDE DEF s
  <2>3. Migrated(s, i, release, schemaRows, migrationHolder')
    BY <1>2, <1>3, <1>5, <2>1, <2>2 DEF Migrated
  <2>4. Lives(s, i, release, schemaRows, migrationHolder')
    BY <1>1, <2>2, <2>3 DEF Lives, Stopping, Counted
  <2> QED
    BY <1>1, <1>2, <2>1, <2>2, <2>4, SameSchema DEF Schema
<1>6. CASE v \in DOMAIN schemaRows /\ schemaRows[v] # release[i][v]
  <2>1. Exit(i, "edited") /\ migrationHolder' = Unlocked(i)
    BY <1>6 DEF checkMigration
  <2> QED
    BY <1>2, <2>1, ExitMoves DEF Causes
<1> QED
  BY <1>4, <1>5, <1>6

\* applyMigration: the SQL and its record commit together; nobody else can have
\* recorded the version, so the primary key never refuses it.
LEMMA ApplyInv ==
    ASSUME ServersAssumption, LInv, NEW i \in Servers, applyMigration(i) PROVE LInv'
<1>1. Schema /\ server[i] \in Processes /\ server \in [Servers -> Processes]
      /\ Lives(server[i], i, release, schemaRows, migrationHolder)
  BY LifeFacts
<1> DEFINE v == server[i].file
           n == Len(executed)
           sum == release[i][v]
<1>2. server[i].at = "apply" /\ release' = release
  BY DEF applyMigration, InPhase
<1>3. v \in Nat /\ Len(release[i]) \in Nat /\ v \in 1..Len(release[i]) /\ migrationHolder = i
      /\ v \notin DOMAIN schemaRows
      /\ \A u \in 1..(v - 1) : u \in DOMAIN schemaRows /\ schemaRows[u] = release[i][u]
  BY <1>1, <1>2 DEF Lives, Migrated, Schema, ServersAssumption, Processes
<1>4. CASE /\ schemaRows' = [u \in DOMAIN schemaRows \cup {v} |-> IF u = v THEN sum ELSE schemaRows[u]]
           /\ executed' = Append(executed, <<v, sum>>)
           /\ Become(i, [server[i] EXCEPT !.file = v + 1, !.at = "migrate"])
           /\ UNCHANGED migrationHolder
  <2> DEFINE s == [server[i] EXCEPT !.file = v + 1, !.at = "migrate"]
  <2>1. server' = [server EXCEPT ![i] = s]
    BY <1>4 DEF Become
  <2>2. s \in Processes /\ s.at = "migrate" /\ s.file = v + 1 /\ s.busy = server[i].busy
        /\ s.slot = server[i].slot /\ s.inFlight = server[i].inFlight
    <3>1. v + 1 \in Nat
      BY <1>3
    <3> QED
      BY <1>1, <3>1 DEF Processes, Phases
  <2> HIDE DEF s
  <2>3. n \in Nat /\ DOMAIN schemaRows = 1..n /\ executed \in Seq(Nat \X Checksums)
        /\ \A m \in 1..n : executed[m][1] = m /\ schemaRows[m] = executed[m][2]
    BY <1>1, LenProperties DEF Schema
  <2>4. v = n + 1
    BY <1>3, <2>3
  <2>5. sum \in Checksums
    <3>1. sum \in Contents(release, i)
      BY <1>3 DEF Contents
    <3> QED
      BY <1>1, <3>1 DEF Checksums, Schema
  <2> HIDE DEF v, sum
  <2>6. executed' \in Seq(Nat \X Checksums) /\ Len(executed') = n + 1
        /\ \A m \in 1..n : executed'[m] = executed[m]
        /\ executed'[n + 1] = <<v, sum>>
    BY <1>3, <1>4, <2>3, <2>5
  <2>7. DOMAIN schemaRows' = 1..(n + 1) /\ schemaRows'[n + 1] = sum
        /\ \A m \in 1..n : schemaRows'[m] = schemaRows[m]
    BY <1>4, <2>3, <2>4
  <2>8. Schema'
    BY <1>1, <1>2, <1>4, <2>3, <2>4, <2>6, <2>7 DEF Schema
  <2>9. Migrated(s, i, release, schemaRows', migrationHolder')
    BY <1>3, <1>4, <2>2, <2>3, <2>4, <2>7 DEF Migrated, v, sum
  <2>10. Lives(s, i, release, schemaRows', migrationHolder')
    BY <1>1, <2>2, <2>9 DEF Lives, Stopping, Counted
  <2>11. LifeMoves(i, s)
    BY <1>2, <1>3, <2>1, <2>2, <2>3, <2>7, <2>8, <2>10 DEF LifeMoves
  <2> QED
    BY <2>11, LifeMove
<1>5. CASE /\ Exit(i, IF v \in DOMAIN schemaRows THEN "conflict" ELSE "migration_failed")
           /\ migrationHolder' = Unlocked(i)
           /\ UNCHANGED <<schemaRows, executed>>
  <2>1. Exit(i, "migration_failed")
    BY <1>3, <1>5
  <2> QED
    BY <1>2, <1>5, <2>1, ExitMoves DEF Causes
<1> QED
  BY <1>4, <1>5 DEF applyMigration

\* startServing and processEnds.
LEMMA StartEndInv ==
    ASSUME ServersAssumption, LInv, NEW i \in Servers, startServing(i) \/ processEnds(i) PROVE LInv'
<1>1. Schema /\ server[i] \in Processes /\ Lives(server[i], i, release, schemaRows, migrationHolder)
  BY LifeFacts
<1>2. CASE startServing(i)
  <2> DEFINE s == [server[i] EXCEPT !.at = "serving"]
  <2>1. server[i].at = "start" /\ Advance(i, "serving")
        /\ UNCHANGED <<release, schemaRows, executed, migrationHolder>>
    BY <1>2 DEF startServing, InPhase, schemaVars
  <2>2. s.at = "serving" /\ s.file = server[i].file
    BY <1>1 DEF Processes
  <2> HIDE DEF s
  <2>3. Migrated(s, i, release, schemaRows, migrationHolder') /\ Stopping(s)
    BY <1>1, <2>1, <2>2 DEF Lives, Migrated, Stopping
  <2> QED
    BY <1>1, <2>1, <2>3, AdvanceMoves DEF s, Phases, Schema
<1>3. CASE processEnds(i)
  <2>1. PICK c \in {"stopped", "killed"} : Exit(i, c)
    BY <1>3 DEF processEnds
  <2> QED
    BY <1>3, <2>1, ExitMoves DEF processEnds, Causes
<1> QED
  BY <1>2, <1>3

-----------------------------------------------------------------------------
(* One lemma per action of a server at work.                               *)

\* Work: the phase and the schema stay.
LEMMA WorkMoves ==
    ASSUME LInv, NEW i \in Servers, NEW s \in Processes, server' = [server EXCEPT ![i] = s],
           UNCHANGED <<release, schemaVars>>,
           s.at = server[i].at, s.file = server[i].file,
           s.busy \subseteq TickersOf[i], Stopping(s), Counted(s)
    PROVE  LInv'
<1>1. Schema /\ Lives(server[i], i, release, schemaRows, migrationHolder)
  BY LifeFacts
<1>2. Lives(s, i, release, schemaRows, migrationHolder)
  BY <1>1 DEF Lives, Migrated
<1> QED
  BY <1>1, <1>2, SameSchema DEF schemaVars, Schema

\* The in-flight counters are naturals, and so is what they count.
LEMMA CountTypes ==
    ASSUME ServersAssumption, NEW s \in Processes, NEW w \in BackgroundWorkers
    PROVE  /\ Cardinality(Serving(s.slot, w)) \in Nat /\ Ticking(s.busy, w) \in {0, 1}
           /\ s.inFlight[w] \in Nat
<1>1. Serving(s.slot, w) \subseteq Slots
  BY DEF Serving
<1>2. Cardinality(Serving(s.slot, w)) \in Nat
  BY <1>1, FS_Subset, FS_CardinalityType DEF ServersAssumption
<1> QED
  BY <1>2 DEF Ticking, Processes

\* tick: a ticker that is neither stopped nor busy starts its batch.
LEMMA TickInv ==
    ASSUME ServersAssumption, LInv, NEW i \in Servers, NEW w \in BackgroundWorkers, tick(i, w)
    PROVE  LInv'
<1> DEFINE p == server[i]
           b == [p EXCEPT !.busy = @ \cup {w}]
           s == IF Recorded(w) THEN recordWorkerStart(b, w) ELSE b
<1>1. p \in Processes /\ Lives(p, i, release, schemaRows, migrationHolder)
  BY LifeFacts
<1>2. Alive(i) /\ w \in TickersOf[i] /\ w \notin p.halted /\ w \notin p.busy
      /\ UNCHANGED <<release, schemaVars>> /\ server' = [server EXCEPT ![i] = s]
  BY DEF tick, Become
<1>3. b \in Processes /\ b.at = p.at /\ b.file = p.file /\ b.busy = p.busy \cup {w}
      /\ b.halted = p.halted /\ b.slot = p.slot /\ b.inFlight = p.inFlight
  BY <1>1 DEF Processes
<1> HIDE DEF b
<1>4. s \in Processes /\ s.at = p.at /\ s.file = p.file /\ s.busy = p.busy \cup {w}
      /\ s.halted = p.halted /\ s.slot = p.slot
      /\ s.inFlight[w] = p.inFlight[w] + (IF Recorded(w) THEN 1 ELSE 0)
      /\ \A u \in BackgroundWorkers \ {w} : s.inFlight[u] = p.inFlight[u]
  <2>1. CASE Recorded(w)
    <3>1. p.inFlight[w] \in Nat /\ p.inFlight[w] + 1 \in Nat
      BY <1>1 DEF Processes
    <3> QED
      BY <1>3, <2>1, <3>1 DEF Processes, recordWorkerStart
  <2>2. CASE ~Recorded(w)
    <3>1. p.inFlight[w] \in Nat
      BY <1>1 DEF Processes
    <3> QED
      BY <1>3, <2>2, <3>1
  <2> QED
    BY <2>1, <2>2
<1>5. Stopping(s)
  BY <1>1, <1>2, <1>4 DEF Lives, Stopping, Alive
<1>6. Counted(s)
  <2> SUFFICES ASSUME NEW u \in BackgroundWorkers
               PROVE  s.inFlight[u] = Cardinality(Serving(s.slot, u)) + Ticking(s.busy, u)
    BY DEF Counted
  <2>1. p.inFlight[u] = Cardinality(Serving(p.slot, u)) + Ticking(p.busy, u)
    BY <1>1 DEF Lives, Counted
  <2>2. Cardinality(Serving(p.slot, u)) \in Nat /\ p.inFlight[u] \in Nat
    BY <1>1, CountTypes
  <2>3. Ticking(s.busy, u) = Ticking(p.busy, u) + (IF u = w /\ Recorded(w) THEN 1 ELSE 0)
    BY <1>2, <1>4 DEF Ticking
  <2>4. s.inFlight[u] = p.inFlight[u] + (IF u = w /\ Recorded(w) THEN 1 ELSE 0)
    BY <1>4, <2>2
  <2>5. Ticking(p.busy, u) \in {0, 1}
    BY DEF Ticking
  <2> HIDE DEF s, p
  <2> QED
    BY <1>4, <2>1, <2>2, <2>3, <2>4, <2>5
<1>7. s.busy \subseteq TickersOf[i]
  BY <1>1, <1>2, <1>4 DEF Lives
<1> HIDE DEF s
<1> QED
  BY <1>2, <1>4, <1>5, <1>6, <1>7, WorkMoves

\* batchEnds: the batch of a ticker is over and no longer counted.
LEMMA BatchEndsInv ==
    ASSUME ServersAssumption, LInv, NEW i \in Servers, NEW w \in BackgroundWorkers, batchEnds(i, w)
    PROVE  LInv'
<1> DEFINE p == server[i]
           b == [p EXCEPT !.busy = @ \ {w}]
           s == IF Recorded(w) THEN recordWorkerEnd(b, w) ELSE b
<1>1. p \in Processes /\ Lives(p, i, release, schemaRows, migrationHolder)
  BY LifeFacts
<1>2. w \in p.busy /\ UNCHANGED <<release, schemaVars>> /\ server' = [server EXCEPT ![i] = s]
  BY DEF batchEnds, Become
<1>3. b \in Processes /\ b.at = p.at /\ b.file = p.file /\ b.busy = p.busy \ {w}
      /\ b.halted = p.halted /\ b.slot = p.slot /\ b.inFlight = p.inFlight
  BY <1>1 DEF Processes
<1> HIDE DEF b
<1>4. p.inFlight[w] = Cardinality(Serving(p.slot, w)) + Ticking(p.busy, w)
      /\ Cardinality(Serving(p.slot, w)) \in Nat /\ p.inFlight[w] \in Nat
  BY <1>1, CountTypes DEF Lives, Counted
<1>5. Recorded(w) => p.inFlight[w] >= 1 /\ p.inFlight[w] # 0 /\ p.inFlight[w] - 1 \in Nat
  BY <1>2, <1>4 DEF Ticking
<1>6. s \in Processes /\ s.at = p.at /\ s.file = p.file /\ s.busy = p.busy \ {w}
      /\ s.halted = p.halted /\ s.slot = p.slot
      /\ s.inFlight[w] = (IF Recorded(w) THEN p.inFlight[w] - 1 ELSE p.inFlight[w])
      /\ \A u \in BackgroundWorkers \ {w} : s.inFlight[u] = p.inFlight[u]
  <2>1. CASE Recorded(w)
    BY <1>3, <1>5, <2>1 DEF Processes, recordWorkerEnd
  <2>2. CASE ~Recorded(w)
    BY <1>3, <2>2
  <2> QED
    BY <2>1, <2>2
<1>7. Stopping(s)
  BY <1>1, <1>2, <1>6 DEF Lives, Stopping
<1>8. Counted(s)
  <2> SUFFICES ASSUME NEW u \in BackgroundWorkers
               PROVE  s.inFlight[u] = Cardinality(Serving(s.slot, u)) + Ticking(s.busy, u)
    BY DEF Counted
  <2>1. p.inFlight[u] = Cardinality(Serving(p.slot, u)) + Ticking(p.busy, u)
    BY <1>1 DEF Lives, Counted
  <2>2. Cardinality(Serving(p.slot, u)) \in Nat /\ p.inFlight[u] \in Nat
    BY <1>1, CountTypes
  <2>3. CASE u = w /\ Recorded(w)
    <3>1. Ticking(p.busy, u) = 1 /\ Ticking(s.busy, u) = 0 /\ s.inFlight[u] = p.inFlight[u] - 1
      BY <1>2, <1>6, <2>3 DEF Ticking
    <3> HIDE DEF s, p
    <3> QED
      BY <1>6, <2>1, <2>2, <3>1
  <2>4. CASE ~(u = w /\ Recorded(w))
    <3>1. Ticking(s.busy, u) = Ticking(p.busy, u) /\ s.inFlight[u] = p.inFlight[u]
      BY <1>2, <1>6, <2>4 DEF Ticking
    <3> HIDE DEF s, p
    <3> QED
      BY <1>6, <2>1, <3>1
  <2> QED
    BY <2>3, <2>4
<1>9. s.busy \subseteq TickersOf[i]
  BY <1>1, <1>6 DEF Lives
<1> HIDE DEF s
<1> QED
  BY <1>2, <1>6, <1>7, <1>8, <1>9, WorkMoves

\* The request in slot k becomes r, and each counter changes by as much.
Requested(i, k, r, s) ==
    /\ r \in Requests /\ s \in Processes /\ server' = [server EXCEPT ![i] = s]
    /\ UNCHANGED <<release, schemaVars>>
    /\ s.at = server[i].at /\ s.file = server[i].file
    /\ s.busy = server[i].busy /\ s.halted = server[i].halted
    /\ s.slot = [server[i].slot EXCEPT ![k] = r]
    /\ server[i].at # "ended"
    /\ \A w \in BackgroundWorkers :
          s.inFlight[w] + Has(server[i].slot[k], w) = server[i].inFlight[w] + Has(r, w)

\* Such a step keeps the invariant.
LEMMA RequestMoves ==
    ASSUME ServersAssumption, LInv, NEW i \in Servers, NEW k \in Slots, NEW r, NEW s, Requested(i, k, r, s)
    PROVE  LInv'
<1> USE DEF Requested
<1> DEFINE p == server[i]
<1>1. p \in Processes /\ Lives(p, i, release, schemaRows, migrationHolder)
  BY LifeFacts
<1>2. Stopping(s) /\ s.busy \subseteq TickersOf[i]
  BY <1>1 DEF Lives, Stopping
<1>3. p.slot \in [Slots -> Requests] /\ IsFiniteSet(Slots)
  BY <1>1 DEF Processes, ServersAssumption
<1>4. ASSUME NEW w \in BackgroundWorkers
      PROVE  s.inFlight[w] = Cardinality(Serving(s.slot, w)) + Ticking(s.busy, w)
  <2> DEFINE new == Cardinality(Serving(s.slot, w))
             old == Cardinality(Serving(p.slot, w))
             was == Has(p.slot[k], w)
             is == Has(r, w)
             ticks == Ticking(p.busy, w)
             before == p.inFlight[w]
             after == s.inFlight[w]
  <2>1. new \in Nat /\ old \in Nat /\ new + was = old + is
    BY <1>3, Recount
  <2>2. before = old + ticks
    BY <1>1 DEF Lives, Counted
  <2>3. after + was = before + is
    OBVIOUS
  <2>4. was \in {0, 1} /\ is \in {0, 1} /\ ticks \in {0, 1}
    BY DEF Has, Ticking
  <2>5. before \in Nat /\ after \in Nat
    BY <1>1, CountTypes
  <2>6. Ticking(s.busy, w) = ticks
    OBVIOUS
  <2> HIDE DEF new, old, was, is, ticks, before, after
  <2>7. after = new + ticks
    BY <2>1, <2>2, <2>3, <2>4, <2>5
  <2> QED
    BY <2>6, <2>7 DEF new, after
<1>5. Counted(s)
  BY <1>4 DEF Counted
<1> QED
  BY <1>2, <1>5, WorkMoves

\* internalRequest: a free slot takes a request and its worker is counted.
LEMMA InternalRequestInv ==
    ASSUME ServersAssumption, LInv, NEW i \in Servers, NEW k \in Slots, internalRequest(i, k)
    PROVE  LInv'
<1> DEFINE p == server[i]
<1>1. p \in Processes
  BY LifeFacts
<1>2. p.at # "ended" /\ p.slot[k] = NoRequest /\ UNCHANGED <<release, schemaVars>>
  BY DEF internalRequest, Listening
<1>3. PICK r \in {"heartbeat", "deliver", "fxCheck"} :
         Become(i, recordWorkerStart([p EXCEPT !.slot[k] = r], WorkerOfRequest(r)))
  BY DEF internalRequest
<1> DEFINE c == WorkerOfRequest(r)
           b == [p EXCEPT !.slot[k] = r]
           s == recordWorkerStart(b, c)
<1>4. c \in BackgroundWorkers
  BY DEF WorkerOfRequest, BackgroundWorkers
<1>5. b \in Processes /\ b.at = p.at /\ b.file = p.file /\ b.busy = p.busy /\ b.halted = p.halted
      /\ b.slot = [p.slot EXCEPT ![k] = r] /\ b.inFlight = p.inFlight
  BY <1>1 DEF Processes, Requests
<1>6. server' = [server EXCEPT ![i] = s]
  BY <1>3 DEF Become
<1> HIDE DEF b, c
<1>7. s \in Processes /\ s.at = p.at /\ s.file = p.file /\ s.busy = p.busy /\ s.halted = p.halted
      /\ s.slot = [p.slot EXCEPT ![k] = r] /\ s.inFlight = [p.inFlight EXCEPT ![c] = @ + 1]
  <2>1. p.inFlight \in [BackgroundWorkers -> Nat]
    BY <1>1 DEF Processes
  <2>2. p.inFlight[c] + 1 \in Nat
    BY <1>4, <2>1
  <2> QED
    BY <1>4, <1>5, <2>1, <2>2 DEF Processes, recordWorkerStart
<1> HIDE DEF s
<1>8. ASSUME NEW w \in BackgroundWorkers
      PROVE  s.inFlight[w] + Has(p.slot[k], w) = p.inFlight[w] + Has(r, w)
  <2>1. Has(p.slot[k], w) = 0
    BY <1>2 DEF Has
  <2>2. Has(r, w) = IF w = c THEN 1 ELSE 0
    BY DEF Has, NoRequest, c
  <2>3. p.inFlight \in [BackgroundWorkers -> Nat]
    BY <1>1 DEF Processes
  <2>4. s.inFlight[w] = p.inFlight[w] + (IF w = c THEN 1 ELSE 0)
    BY <1>4, <1>7, <2>3
  <2> QED
    BY <2>1, <2>2, <2>3, <2>4
<1>9. Requested(i, k, r, s)
  BY <1>2, <1>6, <1>7, <1>8 DEF Requested, Requests
<1> QED
  BY <1>9, RequestMoves

\* A worker with a request in flight is counted.
LEMMA CountedOnce ==
    ASSUME ServersAssumption, LInv, NEW i \in Servers, NEW k \in Slots, server[i].slot[k] # NoRequest,
           WorkerOfRequest(server[i].slot[k]) \in BackgroundWorkers
    PROVE  LET w == WorkerOfRequest(server[i].slot[k])
           IN  /\ server[i].inFlight[w] \in Nat /\ server[i].inFlight[w] # 0
               /\ server[i].inFlight[w] - 1 \in Nat
<1> DEFINE p == server[i]
           w == WorkerOfRequest(p.slot[k])
           n == Cardinality(Serving(p.slot, w))
<1>1. p \in Processes /\ Lives(p, i, release, schemaRows, migrationHolder)
  BY LifeFacts
<1>2. n \in Nat /\ Ticking(p.busy, w) \in {0, 1} /\ p.inFlight[w] \in Nat
  BY <1>1, CountTypes
<1>3. p.inFlight[w] = n + Ticking(p.busy, w)
  BY <1>1 DEF Lives, Counted
<1>4. n # 0
  <2>1. k \in Serving(p.slot, w)
    BY DEF Serving
  <2>2. IsFiniteSet(Serving(p.slot, w))
    <3>1. Serving(p.slot, w) \subseteq Slots
      BY DEF Serving
    <3> QED
      BY <3>1, FS_Subset DEF ServersAssumption
  <2> QED
    BY <2>1, <2>2, FS_EmptySet
<1> HIDE DEF n, p
<1> QED
  BY <1>2, <1>3, <1>4 DEF p

\* drainNotificationOutbox: the drain is over or let go of, and the scan begins.
LEMMA DrainInv ==
    ASSUME ServersAssumption, LInv, NEW i \in Servers, NEW k \in Slots, drainNotificationOutbox(i, k)
    PROVE  LInv'
<1> DEFINE p == server[i]
           q == p.inFlight["notifications"]
           c == p.inFlight["scanner"]
<1>1. p \in Processes /\ Lives(p, i, release, schemaRows, migrationHolder)
  BY LifeFacts
<1>2. p.slot[k] = "heartbeat" /\ UNCHANGED <<release, schemaVars>>
  BY DEF drainNotificationOutbox
<1>3. PICK late \in {0, 1} :
         Become(i, recordWorkerStart(
            [recordWorkerEnd(p, "notifications") EXCEPT !.slot[k] = "scan", !.orphans = @ + late], "scanner"))
  BY DEF drainNotificationOutbox
<1> DEFINE d == recordWorkerEnd(p, "notifications")
           b == [d EXCEPT !.slot[k] = "scan", !.orphans = @ + late]
           s == recordWorkerStart(b, "scanner")
<1>4. q \in Nat /\ q # 0 /\ q - 1 \in Nat
  BY <1>2, CountedOnce DEF WorkerOfRequest, BackgroundWorkers, NoRequest
<1>5. p.inFlight \in [BackgroundWorkers -> Nat] /\ "notifications" \in BackgroundWorkers
      /\ "scanner" \in BackgroundWorkers /\ c \in Nat /\ c + 1 \in Nat
  BY <1>1 DEF Processes, BackgroundWorkers
<1>6. d \in Processes /\ d.at = p.at /\ d.file = p.file /\ d.busy = p.busy /\ d.halted = p.halted
      /\ d.slot = p.slot /\ d.inFlight = [p.inFlight EXCEPT !["notifications"] = q - 1]
  BY <1>1, <1>4, <1>5 DEF Processes, recordWorkerEnd
<1>7. server' = [server EXCEPT ![i] = s]
  BY <1>3 DEF Become
<1> HIDE DEF d
<1>8. b \in Processes /\ b.at = p.at /\ b.file = p.file /\ b.busy = p.busy /\ b.halted = p.halted
      /\ b.slot = [p.slot EXCEPT ![k] = "scan"] /\ b.inFlight = d.inFlight
  <2>1. d.orphans + late \in Nat
    BY <1>6 DEF Processes
  <2> QED
    BY <1>6, <2>1 DEF Processes, Requests
<1> HIDE DEF b
<1>9. s \in Processes /\ s.at = p.at /\ s.file = p.file /\ s.busy = p.busy /\ s.halted = p.halted
      /\ s.slot = [p.slot EXCEPT ![k] = "scan"]
      /\ s.inFlight = [p.inFlight EXCEPT !["notifications"] = q - 1, !["scanner"] = c + 1]
  <2>1. b.inFlight \in [BackgroundWorkers -> Nat] /\ b.inFlight["scanner"] = c
    BY <1>4, <1>5, <1>6, <1>8
  <2> QED
    BY <1>5, <1>6, <1>8, <2>1 DEF Processes, recordWorkerStart
<1> HIDE DEF s
<1>10. ASSUME NEW w \in BackgroundWorkers
       PROVE  s.inFlight[w] + Has(p.slot[k], w) = p.inFlight[w] + Has("scan", w)
  <2>1. Has(p.slot[k], w) = (IF w = "notifications" THEN 1 ELSE 0)
        /\ Has("scan", w) = (IF w = "scanner" THEN 1 ELSE 0)
    BY <1>2 DEF Has, NoRequest, WorkerOfRequest
  <2>2. s.inFlight[w] = IF w = "notifications" THEN q - 1 ELSE IF w = "scanner" THEN c + 1 ELSE p.inFlight[w]
    BY <1>5, <1>9
  <2>3. p.inFlight[w] \in Nat
    BY <1>5
  <2> QED
    BY <1>4, <1>5, <2>1, <2>2, <2>3
<1>11. p.at # "ended"
  BY <1>1, <1>2 DEF Lives, Stopping, NoRequest
<1>12. Requested(i, k, "scan", s)
  BY <1>2, <1>7, <1>9, <1>10, <1>11 DEF Requested, Requests
<1> QED
  BY <1>12, RequestMoves

\* answerInternal: the request answers and its worker is counted no more.
LEMMA AnswerInternalInv ==
    ASSUME ServersAssumption, LInv, NEW i \in Servers, NEW k \in Slots, answerInternal(i, k)
    PROVE  LInv'
<1> DEFINE p == server[i]
           c == WorkerOfRequest(p.slot[k])
           q == p.inFlight[c]
           b == [p EXCEPT !.slot[k] = NoRequest]
           s == recordWorkerEnd(b, c)
<1>1. p \in Processes /\ Lives(p, i, release, schemaRows, migrationHolder)
  BY LifeFacts
<1>2. p.slot[k] \in {"scan", "deliver", "fxCheck"} /\ UNCHANGED <<release, schemaVars>>
      /\ server' = [server EXCEPT ![i] = s]
  BY DEF answerInternal, Become
<1>3. c \in BackgroundWorkers
  BY <1>2 DEF WorkerOfRequest, BackgroundWorkers
<1>4. q \in Nat /\ q # 0 /\ q - 1 \in Nat
  BY <1>2, <1>3, CountedOnce DEF NoRequest
<1>5. p.inFlight \in [BackgroundWorkers -> Nat]
  BY <1>1 DEF Processes
<1>6. b \in Processes /\ b.at = p.at /\ b.file = p.file /\ b.busy = p.busy /\ b.halted = p.halted
      /\ b.slot = [p.slot EXCEPT ![k] = NoRequest] /\ b.inFlight = p.inFlight
  BY <1>1 DEF Processes, Requests
<1> HIDE DEF b
<1>7. s \in Processes /\ s.at = p.at /\ s.file = p.file /\ s.busy = p.busy /\ s.halted = p.halted
      /\ s.slot = [p.slot EXCEPT ![k] = NoRequest] /\ s.inFlight = [p.inFlight EXCEPT ![c] = q - 1]
  BY <1>3, <1>4, <1>5, <1>6 DEF Processes, recordWorkerEnd
<1> HIDE DEF s
<1>8. ASSUME NEW w \in BackgroundWorkers
      PROVE  s.inFlight[w] + Has(p.slot[k], w) = p.inFlight[w] + Has(NoRequest, w)
  <2>1. Has(p.slot[k], w) = (IF w = c THEN 1 ELSE 0) /\ Has(NoRequest, w) = 0
    BY <1>2 DEF Has, NoRequest
  <2>2. s.inFlight[w] = IF w = c THEN q - 1 ELSE p.inFlight[w]
    BY <1>3, <1>5, <1>7
  <2>3. p.inFlight[w] \in Nat
    BY <1>5
  <2> HIDE DEF c
  <2> QED
    BY <1>4, <2>1, <2>2, <2>3
<1>9. p.at # "ended"
  BY <1>1, <1>2 DEF Lives, Stopping, NoRequest
<1>10. Requested(i, k, NoRequest, s)
  BY <1>2, <1>7, <1>8, <1>9 DEF Requested, Requests
<1> QED
  BY <1>10, RequestMoves

\* orphanEnds: the batch of a timed-out drain is counted by nobody.
LEMMA OrphanInv ==
    ASSUME ServersAssumption, LInv, NEW i \in Servers, orphanEnds(i) PROVE LInv'
<1> DEFINE p == server[i]
           s == [p EXCEPT !.orphans = @ - 1]
<1>1. p \in Processes /\ Lives(p, i, release, schemaRows, migrationHolder)
  BY LifeFacts
<1>2. p.orphans > 0 /\ UNCHANGED <<release, schemaVars>> /\ server' = [server EXCEPT ![i] = s]
  BY DEF orphanEnds, Become
<1>3. p.orphans - 1 \in Nat
  BY <1>1, <1>2 DEF Processes
<1>4. s \in Processes /\ s.at = p.at /\ s.file = p.file /\ s.busy = p.busy /\ s.halted = p.halted
      /\ s.slot = p.slot /\ s.inFlight = p.inFlight
  BY <1>1, <1>3 DEF Processes
<1> HIDE DEF s
<1>5. s.busy \subseteq TickersOf[i] /\ Stopping(s) /\ Counted(s)
  BY <1>1, <1>4 DEF Lives, Stopping, Counted
<1> QED
  BY <1>2, <1>4, <1>5, WorkMoves

\* A step of the shutdown: the phase moves on and tickers are told to stop.
LEMMA ShutdownMoves ==
    ASSUME ServersAssumption, LInv, NEW i \in Servers,
           NEW phase \in {"stopScanner", "stopDelivery", "waitScans", "close", "ended"},
           NEW halted \in SUBSET BackgroundWorkers,
           server' = [server EXCEPT ![i] = [server[i] EXCEPT !.at = phase, !.halted = halted]],
           UNCHANGED <<release, schemaVars>>,
           Alive(i),
           "fxSource" \in halted /\ "scanner" \in halted,
           phase # "stopScanner" => "notifications" \in halted /\ "scanner" \notin server[i].busy,
           phase \in {"waitScans", "close", "ended"} => "notifications" \notin server[i].busy,
           phase = "ended" => \A k \in Slots : server[i].slot[k] = NoRequest
    PROVE  LInv'
<1> DEFINE p == server[i]
           s == [p EXCEPT !.at = phase, !.halted = halted]
<1>1. Schema /\ p \in Processes /\ Lives(p, i, release, schemaRows, migrationHolder)
  BY LifeFacts
<1>2. s \in Processes /\ s.at = phase /\ s.file = p.file /\ s.busy = p.busy /\ s.halted = halted
      /\ s.slot = p.slot /\ s.inFlight = p.inFlight
  BY <1>1 DEF Processes, Phases
<1>3. server' = [server EXCEPT ![i] = s]
  OBVIOUS
<1> HIDE DEF s
<1>4. Migrated(s, i, release, schemaRows, migrationHolder)
  BY <1>1, <1>2 DEF Lives, Migrated, Alive
<1>5. Stopping(s)
  BY <1>2 DEF Stopping
<1>6. Lives(s, i, release, schemaRows, migrationHolder)
  BY <1>1, <1>2, <1>4, <1>5 DEF Lives, Counted
<1> QED
  BY <1>1, <1>2, <1>3, <1>6, SameSchema DEF schemaVars, Schema

\* The shutdown, in the order of the handler.
LEMMA ShutdownInv ==
    ASSUME ServersAssumption, LInv, NEW i \in Servers,
           \/ shutdown(i) \/ stopScannerTicker(i) \/ stopDeliveryTicker(i)
           \/ waitForInFlight(i) \/ endPool(i)
    PROVE  LInv'
<1> DEFINE p == server[i]
<1>1. p \in Processes /\ p.busy \subseteq TickersOf[i] /\ Stopping(p) /\ p.halted \in SUBSET BackgroundWorkers
  BY LifeFacts DEF Lives, Processes
<1>2. UNCHANGED <<release, schemaVars>>
  BY DEF shutdown, stopScannerTicker, stopDeliveryTicker, waitForInFlight, endPool
<1>3. CASE shutdown(i)
  <2> DEFINE h == {"fxSource", "scanner"}
  <2>1. Alive(i) /\ server' = [server EXCEPT ![i] = [p EXCEPT !.at = "stopScanner", !.halted = h]]
    BY <1>3 DEF shutdown, Become, InPhase, Alive
  <2>2. h \in SUBSET BackgroundWorkers /\ "fxSource" \in h /\ "scanner" \in h
    BY DEF BackgroundWorkers
  <2> HIDE DEF h
  <2> QED
    BY <1>2, <2>1, <2>2, ShutdownMoves
<1>4. CASE stopScannerTicker(i)
  <2> DEFINE h == p.halted \cup {"notifications"}
  <2>1. p.at = "stopScanner" /\ Alive(i)
        /\ server' = [server EXCEPT ![i] = [p EXCEPT !.at = "stopDelivery", !.halted = h]]
    BY <1>4 DEF stopScannerTicker, Become, InPhase, Alive
  <2>2. "scanner" \notin p.busy
    BY <1>1, <1>4 DEF stopScannerTicker, ScansInFlight
  <2>3. h \in SUBSET BackgroundWorkers /\ "fxSource" \in h /\ "scanner" \in h /\ "notifications" \in h
    BY <1>1, <2>1 DEF Stopping, BackgroundWorkers
  <2> HIDE DEF h
  <2> QED
    BY <1>2, <2>1, <2>2, <2>3, ShutdownMoves
<1>5. ASSUME NEW phase \in {"waitScans", "close", "ended"}, Advance(i, phase),
             p.at \in {"stopDelivery", "waitScans", "close"}, "notifications" \notin p.busy,
             phase = "ended" => \A k \in Slots : p.slot[k] = NoRequest
      PROVE  LInv'
  <2>1. [p EXCEPT !.at = phase] = [p EXCEPT !.at = phase, !.halted = p.halted]
    BY <1>1 DEF Processes
  <2>2. Alive(i) /\ server' = [server EXCEPT ![i] = [p EXCEPT !.at = phase, !.halted = p.halted]]
    BY <1>5, <2>1 DEF Advance, Become, Alive
  <2>3. "fxSource" \in p.halted /\ "scanner" \in p.halted /\ "notifications" \in p.halted
        /\ "scanner" \notin p.busy
    BY <1>1, <1>5 DEF Stopping
  <2> QED
    BY <1>1, <1>2, <1>5, <2>2, <2>3, ShutdownMoves
<1>6. CASE stopDeliveryTicker(i)
  BY <1>5, <1>6 DEF stopDeliveryTicker, InPhase
<1>7. CASE waitForInFlight(i)
  BY <1>1, <1>5, <1>7 DEF waitForInFlight, InPhase, Stopping
<1>8. CASE endPool(i)
  BY <1>1, <1>5, <1>8 DEF endPool, InPhase, Stopping
<1> QED
  BY <1>3, <1>4, <1>6, <1>7, <1>8

\* Every server is down and nothing is migrated.
LEMMA LifeInitInv == ASSUME ServersAssumption, LifecycleInit PROVE LInv
<1>1. Schema
  <2>1. executed \in Seq(Nat \X Checksums) /\ Len(executed) = 0 /\ DOMAIN schemaRows = {}
    BY DEF LifecycleInit
  <2> QED
    BY <2>1 DEF Schema, LifecycleInit
<1>2. Stopped = [Stopped EXCEPT !.cause = "none", !.at = "down"]
  <2>1. Stopped \in Processes /\ Stopped.at = "down" /\ Stopped.cause = "none"
    BY DEF Stopped, Processes, Phases, Requests, Causes
  <2> QED
    BY <2>1 DEF Processes
<1>3. \A i \in Servers : Stopped \in Processes /\ Lives(Stopped, i, release, schemaRows, migrationHolder)
  BY <1>1, <1>2, StoppedLives DEF Causes, Schema
<1>4. server = [i \in Servers |-> Stopped]
  BY DEF LifecycleInit
<1> HIDE DEF Stopped
<1> QED
  BY <1>1, <1>3, <1>4 DEF LInv

\* Every step of a server keeps the invariant.
LEMMA LifeNextInv == ASSUME ServersAssumption, LInv, [LifecycleNext]_lifecycleVars PROVE LInv'
<1>1. CASE UNCHANGED lifecycleVars
  BY <1>1 DEF lifecycleVars, LInv, Schema
<1>2. ASSUME NEW i \in Servers, BootNext(i) PROVE LInv'
  BY <1>2, BootInv, AcquireInv, CheckMigrationInv, ApplyInv, RunMigrationsInv, StartEndInv DEF BootNext
<1>3. ASSUME NEW i \in Servers, ServingNext(i) PROVE LInv'
  BY <1>3, TickInv, BatchEndsInv, InternalRequestInv, DrainInv, AnswerInternalInv, OrphanInv, ShutdownInv
     DEF ServingNext
<1> QED
  BY <1>1, <1>2, <1>3 DEF LifecycleNext

\* LInv is inductive: the versions recorded are those that ran, in order; a
\* migrator holds the lock and has checked every file before its own; and the
\* in-flight counters are what ticks and requests add up to.
THEOREM LifeInvariance == ASSUME ServersAssumption PROVE LifecycleSpec => []LInv
  BY LifeInitInv, LifeNextInv, PTL DEF LifecycleSpec

\* A server's life is orderly (migrate.ts, server.ts, worker-liveness.ts): every
\* migration ran exactly once as recorded however many servers race or die, no
\* server fails because another applied its file, one that serves has its whole
\* schema, the pool ends after the awaited batches, and the counters of
\* /api/health add up also after a drain timed out.
THEOREM LifeIsOrderly == ASSUME ServersAssumption PROVE LifecycleSpec => []ServerLifeIsOrderly
<1>1. ASSUME LInv PROVE ServerLifeIsOrderly
  <2>1. Schema /\ server \in [Servers -> Processes]
    BY <1>1 DEF LInv
  <2>2. \A i \in Servers : Lives(server[i], i, release, schemaRows, migrationHolder)
    BY <1>1 DEF LInv
  <2>3. SchemaIsAsRecorded
    <3>1. Len(executed) \in Nat /\ DOMAIN schemaRows = 1..Len(executed)
      BY <2>1, LenProperties DEF Schema
    <3>2. Cardinality(1..Len(executed)) = Len(executed)
      BY <3>1, FS_Interval
    <3> QED
      BY <2>1, <3>1, <3>2 DEF Schema, SchemaIsAsRecorded
  <2>4. MigratorsTakeTurns
    BY <2>1 DEF MigratorsTakeTurns, Processes, Causes
  <2>5. ServingMeansMigrated
    <3> SUFFICES ASSUME NEW i \in Servers, Alive(i)
                 PROVE  /\ pendingMigrations(i) = {}
                        /\ readyAnswer(i) \/ \E v \in DOMAIN schemaRows : v > Len(release[i])
      BY DEF ServingMeansMigrated
    <3>1. Len(release[i]) \in Nat /\ server[i].file = Len(release[i]) + 1
          /\ \A v \in 1..(server[i].file - 1) : v \in DOMAIN schemaRows /\ schemaRows[v] = release[i][v]
      BY <2>1, <2>2 DEF Lives, Migrated, Alive, Schema, ServersAssumption
    <3>2. \A v \in 1..Len(release[i]) : v \in DOMAIN schemaRows /\ schemaRows[v] = release[i][v]
      BY <3>1
    <3>3. pendingMigrations(i) = {}
      BY <3>2 DEF pendingMigrations
    <3>4. \A v \in DOMAIN schemaRows : v \in Nat /\ v >= 1
      BY <2>1, LenProperties DEF Schema
    <3>5. (\E v \in DOMAIN schemaRows : v > Len(release[i])) \/ checksumsMatch(i)
      BY <3>1, <3>2, <3>4 DEF checksumsMatch
    <3> QED
      BY <3>3, <3>5 DEF readyAnswer
  <2>6. PoolOutlivesBatches
    <3> SUFFICES ASSUME NEW i \in Servers, server[i].at = "ended"
                 PROVE  /\ server[i].busy \subseteq {"fxSource"}
                        /\ \A k \in Slots : server[i].slot[k] = NoRequest
      BY DEF PoolOutlivesBatches, InPhase
    <3>1. Stopping(server[i]) /\ server[i].busy \subseteq BackgroundWorkers
      BY <2>1, <2>2 DEF Lives, Processes
    <3> QED
      BY <3>1 DEF Stopping, BackgroundWorkers
  <2>7. CountersAddUp
    BY <2>2 DEF Lives, Counted, CountersAddUp, Serving, Ticking
  <2>8. LifecycleTypeOK
    BY <2>1, <2>2, LenProperties DEF Schema, Lives, Migrated, LifecycleTypeOK
  <2> QED
    BY <2>3, <2>4, <2>5, <2>6, <2>7, <2>8 DEF ServerLifeIsOrderly
<1> QED
  BY <1>1, LifeInvariance, PTL

-----------------------------------------------------------------------------
(* Strategies and versions: the inductive invariant.                       *)

VersionRow == [status : VersionStatus, config : Configs]
VersionShapes ==
    /\ versions \in [StrategyIds -> Seq(VersionRow)]
    /\ live \in [StrategyIds -> StrategyStatus \cup {"absent"}]
    /\ \A s \in StrategyIds : live[s] = "absent" <=> versions[s] = <<>>
    /\ vpc \in [Owners -> {"idle", "insert", "delete", "edit", "publish", "run", "record"}]
    /\ req \in [Owners -> [s : StrategyIds \cup {"none"}, v : Nat, config : Configs]]

\* A version that is no draft can be traded on.
Publishable(row) == row.status # "draft" => validatePublishable(row.config)

\* A request that works on a draft finds it a draft, as it read it; one that ran a
\* version finds the version it ran.
ReqFits(pc, r, table) ==
    /\ pc # "idle" => r.s \in StrategyIds
    /\ pc \in {"edit", "publish"} => r.v \in 1..Len(table[r.s]) /\ table[r.s][r.v].status = "draft"
    /\ pc = "publish" => r.config = table[r.s][r.v].config /\ validatePublishable(r.config)
    /\ pc \in {"run", "record"} =>
          /\ r.v \in 1..Len(table[r.s]) /\ table[r.s][r.v].status # "draft"
          /\ table[r.s][r.v].config = r.config

\* The locks: one creation, one recording, one writer of a strategy's versions.
Apart(pc1, r1, pc2, r2) ==
    /\ ~(pc1 = "insert" /\ pc2 = "insert") /\ ~(pc1 = "record" /\ pc2 = "record")
    /\ pc1 \in {"edit", "publish"} /\ pc2 \in {"edit", "publish"} => r1.s # r2.s

Existing == {s \in StrategyIds : Exists(s)}

\* What was counted under its lock still leaves room.
RoomLeft(taken, limit, waits) ==
    /\ IsFiniteSet(taken) /\ Cardinality(taken) <= limit
    /\ waits => Cardinality(taken) < limit
Inserting == \E o \in Owners : vpc[o] = "insert"
Recording == \E o \in Owners : vpc[o] = "record"

VInv ==
    /\ VersionShapes
    /\ \A s \in StrategyIds : \A i \in 1..Len(versions[s]) : Publishable(versions[s][i])
    /\ \A o \in Owners : ReqFits(vpc[o], req[o], versions)
    /\ \A o \in Owners : \A p \in Owners \ {o} : Apart(vpc[o], req[o], vpc[p], req[p])
    /\ RoomLeft(Existing, MaxStrategies, Inserting)
    /\ RoomLeft(backtests, MaxBacktests, Recording)
    /\ \A b \in backtests : ReqFits("run", b, versions)

-----------------------------------------------------------------------------
\* There is no strategy initially.
LEMMA VersionsInitInv == ASSUME VersionsAssumption PROVE VersionsInit => VInv
<1> SUFFICES ASSUME VersionsInit PROVE VInv
  OBVIOUS
<1>1. NoReq \in [s : StrategyIds \cup {"none"}, v : Nat, config : Configs]
  BY DEF NoReq, VersionsAssumption
<1>2. <<>> \in Seq(VersionRow) /\ Len(<<>>) = 0
  OBVIOUS
<1>3. VersionShapes
  BY <1>1, <1>2 DEF VersionsInit, VersionShapes
<1>4. \A s \in StrategyIds : Len(versions[s]) = 0
  BY <1>2 DEF VersionsInit
<1>5. \A o \in Owners : vpc[o] = "idle"
  BY DEF VersionsInit
<1>6. Existing = {} /\ backtests = {}
  BY DEF VersionsInit, Existing, Exists
<1>7. RoomLeft({}, MaxStrategies, Inserting) /\ RoomLeft({}, MaxBacktests, Recording)
  <2>1. IsFiniteSet({}) /\ Cardinality({}) = 0
    BY FS_EmptySet
  <2>2. ~Inserting /\ ~Recording
    BY <1>5 DEF Inserting, Recording
  <2> QED
    BY <2>1, <2>2 DEF RoomLeft, VersionsAssumption
<1> QED
  BY <1>3, <1>4, <1>5, <1>6, <1>7 DEF VInv, ReqFits, Apart

\* What a step may do to the versions of a strategy.
RowsKept(old, new) ==
    \A i \in 1..Len(old) :
        old[i].status # "draft" =>
            /\ i \in 1..Len(new) /\ new[i].config = old[i].config
            /\ \/ new[i].status = old[i].status
               \/ old[i].status = "published" /\ new[i].status = "deprecated"

\* One request moves from (vpc[o], req[o]) to (pc, r).
OwnerMoves(o, pc, r) ==
    /\ vpc' = [vpc EXCEPT ![o] = pc] /\ req' = [req EXCEPT ![o] = r]
    /\ VersionShapes'
    /\ \A s \in StrategyIds : RowsKept(versions[s], versions'[s])
    /\ \A s \in StrategyIds : \A i \in 1..Len(versions'[s]) : Publishable(versions'[s][i])
    /\ \A p \in Owners \ {o} :
          /\ vpc[p] \in {"edit", "publish"} => versions'[req[p].s] = versions[req[p].s]
          /\ Apart(pc, r, vpc[p], req[p])
    /\ ReqFits(pc, r, versions')
    /\ RoomLeft(Existing', MaxStrategies, Inserting') /\ RoomLeft(backtests', MaxBacktests, Recording')
    /\ \A b \in backtests' \ backtests : ReqFits("run", b, versions')

\* What was run or recorded on a version stays so.
LEMMA RunKeeps ==
    ASSUME NEW r, NEW old, NEW new, ReqFits("run", r, old), \A s \in StrategyIds : RowsKept(old[s], new[s])
    PROVE  ReqFits("run", r, new)
<1>1. r.s \in StrategyIds /\ r.v \in 1..Len(old[r.s]) /\ old[r.s][r.v].status # "draft" /\ old[r.s][r.v].config = r.config
  BY DEF ReqFits
<1>2. RowsKept(old[r.s], new[r.s])
  BY <1>1
<1> QED
  BY <1>1, <1>2 DEF ReqFits, RowsKept

\* A step of one request keeps the invariant and what is published.
LEMMA OwnerMove ==
    ASSUME VInv, NEW o \in Owners, NEW pc, NEW r, OwnerMoves(o, pc, r)
    PROVE  VInv' /\ PublishedKept
<1>1. /\ vpc \in [Owners -> {"idle", "insert", "delete", "edit", "publish", "run", "record"}]
      /\ req \in [Owners -> [s : StrategyIds \cup {"none"}, v : Nat, config : Configs]]
      /\ vpc' = [vpc EXCEPT ![o] = pc] /\ req' = [req EXCEPT ![o] = r]
  BY DEF VInv, VersionShapes, OwnerMoves
<1>2. /\ vpc'[o] = pc /\ req'[o] = r
      /\ \A p \in Owners \ {o} : vpc'[p] = vpc[p] /\ req'[p] = req[p]
  BY <1>1
<1>3. ASSUME NEW p \in Owners PROVE ReqFits(vpc'[p], req'[p], versions')
  <2>1. CASE p = o
    BY <1>2, <2>1 DEF OwnerMoves
  <2>2. CASE p # o
    <3>1. vpc'[p] = vpc[p] /\ req'[p] = req[p] /\ ReqFits(vpc[p], req[p], versions)
      BY <1>2, <2>2 DEF VInv
    <3>2. CASE vpc[p] \in {"run", "record"}
      <4>1. ReqFits("run", req[p], versions)
        BY <3>1, <3>2 DEF ReqFits
      <4>2. ReqFits("run", req[p], versions')
        BY <4>1, RunKeeps DEF OwnerMoves
      <4> QED
        BY <3>1, <3>2, <4>2 DEF ReqFits
    <3>3. CASE vpc[p] \in {"edit", "publish"}
      <4>1. versions'[req[p].s] = versions[req[p].s]
        BY <2>2, <3>3 DEF OwnerMoves
      <4> QED
        BY <3>1, <3>3, <4>1 DEF ReqFits
    <3>4. CASE vpc[p] \notin {"run", "record", "edit", "publish"}
      BY <3>1, <3>4 DEF ReqFits
    <3> QED
      BY <3>2, <3>3, <3>4
  <2> QED
    BY <2>1, <2>2
<1>4. ASSUME NEW p \in Owners, NEW q \in Owners \ {p} PROVE Apart(vpc'[p], req'[p], vpc'[q], req'[q])
  <2>1. CASE p = o
    BY <1>2, <2>1 DEF OwnerMoves
  <2>2. CASE q = o
    <3>1. Apart(pc, r, vpc[p], req[p])
      BY <2>2 DEF OwnerMoves
    <3> QED
      BY <1>2, <2>2, <3>1 DEF Apart
  <2>3. CASE p # o /\ q # o
    BY <1>2, <2>3 DEF VInv
  <2> QED
    BY <2>1, <2>2, <2>3
<1>5. ASSUME NEW b \in backtests' PROVE ReqFits("run", b, versions')
  <2>1. CASE b \in backtests
    <3>1. ReqFits("run", b, versions)
      BY <2>1 DEF VInv
    <3> QED
      BY <3>1, RunKeeps DEF OwnerMoves
  <2> QED
    BY <2>1 DEF OwnerMoves
<1>6. VInv'
  BY <1>3, <1>4, <1>5 DEF VInv, OwnerMoves
<1>7. PublishedKept
  <2> SUFFICES ASSUME NEW s \in StrategyIds, NEW i \in DOMAIN versions[s], versions[s][i].status # "draft"
               PROVE  /\ i \in DOMAIN versions'[s]
                      /\ versions'[s][i].config = versions[s][i].config /\ validatePublishable(versions[s][i].config)
                      /\ \/ versions'[s][i].status = versions[s][i].status
                         \/ versions[s][i].status = "published" /\ versions'[s][i].status = "deprecated"
    BY DEF PublishedKept, VersionAt
  <2>1. /\ versions[s] \in Seq(VersionRow) /\ versions'[s] \in Seq(VersionRow)
        /\ RowsKept(versions[s], versions'[s])
    BY DEF VInv, OwnerMoves, VersionShapes
  <2>2. DOMAIN versions[s] = 1..Len(versions[s]) /\ DOMAIN versions'[s] = 1..Len(versions'[s])
    BY <2>1
  <2>3. Publishable(versions[s][i])
    BY <2>2 DEF VInv
  <2> QED
    BY <2>1, <2>2, <2>3 DEF RowsKept, Publishable
<1> QED
  BY <1>6, <1>7

RequestRow == [s : StrategyIds \cup {"none"}, v : Nat, config : Configs]

\* A count made under a lock stays as long as nobody else passes the lock.
LEMMA CountStays ==
    ASSUME VInv, NEW o \in Owners, NEW pc, vpc' = [vpc EXCEPT ![o] = pc],
           pc = "insert" => Cardinality(Existing) < MaxStrategies,
           pc = "record" => Cardinality(backtests) < MaxBacktests
    PROVE  /\ RoomLeft(Existing, MaxStrategies, Inserting')
           /\ RoomLeft(backtests, MaxBacktests, Recording')
<1>1. vpc \in [Owners -> {"idle", "insert", "delete", "edit", "publish", "run", "record"}]
  BY DEF VInv, VersionShapes
<1>2. \A p \in Owners : vpc'[p] = IF p = o THEN pc ELSE vpc[p]
  BY <1>1
<1>3. Inserting' => pc = "insert" \/ Inserting
  BY <1>2 DEF Inserting
<1>4. Recording' => pc = "record" \/ Recording
  BY <1>2 DEF Recording
<1> QED
  BY <1>3, <1>4 DEF VInv, RoomLeft

\* Rows are kept as they are.
LEMMA SameRows == \A t : RowsKept(t, t)
  BY DEF RowsKept

LocalMoves(o, pc, r) ==
    /\ vpc' = [vpc EXCEPT ![o] = pc] /\ req' = [req EXCEPT ![o] = r]
    /\ pc \in {"idle", "insert", "delete", "edit", "publish", "run", "record"} /\ r \in RequestRow
    /\ ReqFits(pc, r, versions) /\ \A p \in Owners \ {o} : Apart(pc, r, vpc[p], req[p])
    /\ pc = "insert" => Cardinality(Existing) < MaxStrategies
    /\ pc = "record" => Cardinality(backtests) < MaxBacktests
    /\ UNCHANGED <<versions, live, backtests>>

\* A request moves without writing.
LEMMA LocalRequest ==
    ASSUME VInv, NEW o \in Owners, NEW pc, NEW r, LocalMoves(o, pc, r)
    PROVE  VInv' /\ PublishedKept
<1>1. VersionShapes'
  BY DEF VInv, VersionShapes, LocalMoves, RequestRow
<1>2. Existing' = Existing
  BY DEF LocalMoves, Existing, Exists
<1>3. RoomLeft(Existing', MaxStrategies, Inserting') /\ RoomLeft(backtests', MaxBacktests, Recording')
  BY <1>2, CountStays DEF LocalMoves
<1>4. \A s \in StrategyIds : RowsKept(versions[s], versions'[s])
  BY SameRows DEF LocalMoves
<1>5. \A s \in StrategyIds : \A i \in 1..Len(versions'[s]) : Publishable(versions'[s][i])
  BY DEF LocalMoves, VInv
<1>6. OwnerMoves(o, pc, r)
  BY <1>1, <1>3, <1>4, <1>5 DEF OwnerMoves, LocalMoves
<1> QED
  BY <1>6, OwnerMove

\* The end of a request asks nothing of the others.
LEMMA EndFits ==
    ASSUME VersionsAssumption
    PROVE  /\ NoReq \in RequestRow /\ \A table : ReqFits("idle", NoReq, table)
           /\ \A pc, r : Apart("idle", NoReq, pc, r)
  BY DEF NoReq, RequestRow, ReqFits, Apart, VersionsAssumption

\* A request ends without writing.
LEMMA EndStep ==
    ASSUME VersionsAssumption, VInv, NEW o \in Owners, End(o), UNCHANGED <<versions, live, backtests>>
    PROVE  VInv' /\ PublishedKept
<1>1. LocalMoves(o, "idle", NoReq)
  BY EndFits DEF LocalMoves, End
<1> QED
  BY <1>1, LocalRequest

\* The count of strategies, under the creation lock.
LEMMA CountStep ==
    ASSUME VersionsAssumption, VInv, NEW o \in Owners, NEW s \in StrategyIds, countStrategies(o, s)
    PROVE  VInv' /\ PublishedKept
<1>1. PICK config \in Configs : Begin(o, "insert", s, 1, config)
  BY DEF countStrategies
<1> DEFINE r == [s |-> s, v |-> 1, config |-> config]
<1>2. r \in RequestRow /\ r.s = s
  BY DEF RequestRow
<1>3. /\ Cardinality(Existing) < MaxStrategies /\ UNCHANGED <<versions, live, backtests>>
      /\ \A p \in Owners \ {o} : vpc[p] # "insert"
  BY DEF countStrategies, Existing, CreationFree
<1>4. vpc' = [vpc EXCEPT ![o] = "insert"] /\ req' = [req EXCEPT ![o] = r]
  BY <1>1 DEF Begin
<1> HIDE DEF r
<1>5. LocalMoves(o, "insert", r)
  BY <1>2, <1>3, <1>4 DEF LocalMoves, ReqFits, Apart
<1> QED
  BY <1>5, LocalRequest

\* A deletion reads the versions without a lock.
LEMMA HistoryStep ==
    ASSUME VersionsAssumption, VInv, NEW o \in Owners, NEW s \in StrategyIds, checkHistory(o, s)
    PROVE  VInv' /\ PublishedKept
<1> DEFINE r == [s |-> s, v |-> 0, config |-> 0]
<1>1. r \in RequestRow /\ r.s = s
  BY DEF RequestRow, VersionsAssumption
<1>2. /\ vpc' = [vpc EXCEPT ![o] = "delete"] /\ req' = [req EXCEPT ![o] = r]
      /\ UNCHANGED <<versions, live, backtests>>
  BY DEF checkHistory, Begin
<1> HIDE DEF r
<1>3. LocalMoves(o, "delete", r)
  BY <1>1, <1>2 DEF LocalMoves, ReqFits, Apart
<1> QED
  BY <1>3, LocalRequest

\* An edit or a publication locks the rows and reads the draft.
LEMMA LockStep ==
    ASSUME VersionsAssumption, VInv, NEW o \in Owners, NEW s \in StrategyIds, NEW v,
           lockForPublish(o, s, v) \/ \E config \in Configs : lockForEdit(o, s, v, config)
    PROVE  VInv' /\ PublishedKept
<1>1. PICK pc \in {"edit", "publish"}, config \in Configs \cup {versions[s][v].config} :
        /\ Begin(o, pc, s, v, config) /\ StrategyRowFree(o, s) /\ v \in DOMAIN versions[s]
        /\ versions[s][v].status = "draft" /\ UNCHANGED <<versions, live, backtests>>
        /\ pc = "publish" => config = versions[s][v].config /\ validatePublishable(config)
        /\ pc = "edit" => config \in Configs
  BY DEF lockForEdit, lockForPublish, VersionAt, readVersionConfig
<1>2. versions[s] \in Seq(VersionRow)
  BY DEF VInv, VersionShapes
<1>3. v \in 1..Len(versions[s]) /\ v \in Nat /\ versions[s][v] \in VersionRow
  BY <1>1, <1>2
<1>4. config \in Configs
  BY <1>1, <1>3 DEF VersionRow
<1> DEFINE r == [s |-> s, v |-> v, config |-> config]
<1>5. r \in RequestRow /\ r.s = s /\ r.v = v /\ r.config = config
  BY <1>3, <1>4 DEF RequestRow
<1>6. vpc' = [vpc EXCEPT ![o] = pc] /\ req' = [req EXCEPT ![o] = r]
  BY <1>1 DEF Begin
<1> HIDE DEF r
<1>7. LocalMoves(o, pc, r)
  BY <1>1, <1>3, <1>5, <1>6 DEF LocalMoves, ReqFits, Apart, StrategyRowFree
<1> QED
  BY <1>7, LocalRequest

\* A backtest reads a version and runs.
LEMMA RunStep ==
    ASSUME VersionsAssumption, VInv, NEW o \in Owners, NEW s \in StrategyIds, NEW v, runBacktest(o, s, v)
    PROVE  VInv' /\ PublishedKept
<1> DEFINE r == [s |-> s, v |-> v, config |-> versions[s][v].config]
<1>1. /\ vpc' = [vpc EXCEPT ![o] = "run"] /\ req' = [req EXCEPT ![o] = r]
      /\ UNCHANGED <<versions, live, backtests>> /\ v \in DOMAIN versions[s] /\ versions[s][v].status # "draft"
  BY DEF runBacktest, Begin, VersionAt, readVersionConfig
<1>2. versions[s] \in Seq(VersionRow)
  BY DEF VInv, VersionShapes
<1>3. v \in 1..Len(versions[s]) /\ v \in Nat /\ versions[s][v] \in VersionRow
  BY <1>1, <1>2
<1>4. r \in RequestRow /\ r.s = s /\ r.v = v /\ r.config = versions[s][v].config
  BY <1>3 DEF RequestRow, VersionRow
<1> HIDE DEF r
<1>5. LocalMoves(o, "run", r)
  BY <1>1, <1>3, <1>4 DEF LocalMoves, ReqFits, Apart
<1> QED
  BY <1>5, LocalRequest

\* The month's backtests are counted under the users row.
LEMMA CountBacktestsStep ==
    ASSUME VersionsAssumption, VInv, NEW o \in Owners, countBacktests(o)
    PROVE  VInv' /\ PublishedKept
<1>1. UNCHANGED <<versions, live, backtests>> /\ vpc[o] = "run" /\ \A p \in Owners \ {o} : vpc[p] # "record"
  BY DEF countBacktests, UserRowFree
<1>2. CASE End(o)
  BY <1>1, <1>2, EndStep
<1>3. CASE Cardinality(backtests) < MaxBacktests /\ vpc' = [vpc EXCEPT ![o] = "record"] /\ UNCHANGED req
  <2>1. req \in [Owners -> RequestRow] /\ ReqFits("run", req[o], versions)
    BY <1>1 DEF VInv, VersionShapes, RequestRow
  <2>2. req' = [req EXCEPT ![o] = req[o]] /\ req[o] \in RequestRow
    BY <1>3, <2>1
  <2>3. ReqFits("record", req[o], versions)
    BY <2>1 DEF ReqFits
  <2>4. LocalMoves(o, "record", req[o])
    BY <1>1, <1>3, <2>2, <2>3 DEF LocalMoves, Apart
  <2> QED
    BY <2>4, LocalRequest
<1> QED
  BY <1>2, <1>3 DEF countBacktests

-----------------------------------------------------------------------------
(* The writes.                                                             *)

\* The status of a strategy.
LEMMA UpdateStep ==
    ASSUME VersionsAssumption, VInv, NEW s \in StrategyIds, NEW status \in {"active", "archived"}, updateStrategy(s, status)
    PROVE  VInv' /\ PublishedKept
<1>1. /\ live[s] # "absent" /\ live' = [live EXCEPT ![s] = status] /\ UNCHANGED <<versions, backtests, vpc, req>>
      /\ live \in [StrategyIds -> StrategyStatus \cup {"absent"}]
  BY DEF updateStrategy, Exists, VInv, VersionShapes
<1>2. /\ live' \in [StrategyIds -> StrategyStatus \cup {"absent"}]
      /\ \A t \in StrategyIds : live'[t] = "absent" <=> live[t] = "absent"
  BY <1>1 DEF StrategyStatus
<1>3. VersionShapes' /\ Existing' = Existing /\ (Inserting' <=> Inserting) /\ (Recording' <=> Recording)
  BY <1>1, <1>2 DEF VInv, VersionShapes, Existing, Exists, Inserting, Recording
<1>4. RoomLeft(Existing', MaxStrategies, Inserting') /\ RoomLeft(backtests', MaxBacktests, Recording')
  BY <1>1, <1>3 DEF VInv, RoomLeft
<1>5. VInv'
  BY <1>1, <1>3, <1>4 DEF VInv
<1>6. PublishedKept
  <2>1. \A t \in StrategyIds : versions[t] \in Seq(VersionRow)
    BY DEF VInv, VersionShapes
  <2>2. \A t \in StrategyIds : \A i \in DOMAIN versions[t] : Publishable(versions[t][i])
    BY <2>1 DEF VInv
  <2> QED
    BY <1>1, <2>2 DEF PublishedKept, Publishable, VersionAt
<1> QED
  BY <1>5, <1>6

VersionsWritten(o, pc, r, s, n) ==
    /\ s \in StrategyIds /\ n \in Seq(VersionRow) /\ n # <<>> /\ versions[s] # <<>>
    /\ versions' = [versions EXCEPT ![s] = n]
    /\ RowsKept(versions[s], n) /\ \A i \in 1..Len(n) : Publishable(n[i])
    /\ \A p \in Owners \ {o} : vpc[p] \in {"edit", "publish"} => req[p].s # s
    /\ UNCHANGED <<live, backtests>>
    /\ vpc' = [vpc EXCEPT ![o] = pc] /\ req' = [req EXCEPT ![o] = r]
    /\ pc = "idle" /\ r \in RequestRow

\* A request that holds the strategy's row writes its versions.
LEMMA VersionsWrite ==
    ASSUME VersionsAssumption, VInv, NEW o \in Owners, NEW pc, NEW r, NEW s, NEW n, VersionsWritten(o, pc, r, s, n)
    PROVE  VInv' /\ PublishedKept
<1>1. /\ versions \in [StrategyIds -> Seq(VersionRow)] /\ s \in StrategyIds /\ n \in Seq(VersionRow)
      /\ versions' = [versions EXCEPT ![s] = n]
      /\ req \in [Owners -> RequestRow]
      /\ vpc \in [Owners -> {"idle", "insert", "delete", "edit", "publish", "run", "record"}]
  BY DEF VInv, VersionShapes, VersionsWritten, RequestRow
<1>2. /\ versions' \in [StrategyIds -> Seq(VersionRow)]
      /\ \A t \in StrategyIds : versions'[t] = IF t = s THEN n ELSE versions[t]
  BY <1>1
<1>3. VersionShapes'
  BY <1>1, <1>2 DEF VInv, VersionShapes, VersionsWritten, RequestRow
<1>4. \A t \in StrategyIds : RowsKept(versions[t], versions'[t])
  BY <1>2, SameRows DEF VersionsWritten
<1>5. \A t \in StrategyIds : \A i \in 1..Len(versions'[t]) : Publishable(versions'[t][i])
  BY <1>2 DEF VersionsWritten, VInv
<1>6. Existing' = Existing
  BY DEF Existing, Exists, VersionsWritten
<1>7. RoomLeft(Existing', MaxStrategies, Inserting') /\ RoomLeft(backtests', MaxBacktests, Recording')
  BY <1>6, CountStays DEF VersionsWritten
<1>8. \A p \in Owners \ {o} : vpc[p] \in {"edit", "publish"} => versions'[req[p].s] = versions[req[p].s]
  <2> SUFFICES ASSUME NEW p \in Owners \ {o}, vpc[p] \in {"edit", "publish"}
               PROVE  versions'[req[p].s] = versions[req[p].s]
    OBVIOUS
  <2>1. req[p].s \in StrategyIds
    BY DEF VInv, ReqFits
  <2> QED
    BY <1>2, <2>1 DEF VersionsWritten
<1>9. ReqFits(pc, r, versions') /\ \A p \in Owners \ {o} : Apart(pc, r, vpc[p], req[p])
  BY DEF VersionsWritten, ReqFits, Apart
<1>10. OwnerMoves(o, pc, r)
  BY <1>3, <1>4, <1>5, <1>7, <1>8, <1>9 DEF OwnerMoves, VersionsWritten
<1> QED
  BY <1>10, OwnerMove
\* A version's row changes.
LEMMA RowChanges ==
    ASSUME NEW t \in Seq(VersionRow), NEW v \in 1..Len(t), NEW k \in VersionRow, Publishable(k),
           \A i \in 1..Len(t) : Publishable(t[i]),
           \/ t[v].status = "draft"
           \/ t[v].status = "published" /\ k.status = "deprecated" /\ k.config = t[v].config
    PROVE  /\ [t EXCEPT ![v] = k] \in Seq(VersionRow) /\ [t EXCEPT ![v] = k] # <<>>
           /\ RowsKept(t, [t EXCEPT ![v] = k])
           /\ \A i \in 1..Len([t EXCEPT ![v] = k]) : Publishable([t EXCEPT ![v] = k][i])
<1> DEFINE n == [t EXCEPT ![v] = k]
<1>1. n \in Seq(VersionRow) /\ Len(n) = Len(t) /\ \A i \in 1..Len(t) : n[i] = IF i = v THEN k ELSE t[i]
  BY ExceptSeq
<1> HIDE DEF n
<1>2. n # <<>>
  BY <1>1
<1>3. RowsKept(t, n)
  BY <1>1 DEF RowsKept
<1>4. \A i \in 1..Len(n) : Publishable(n[i])
  BY <1>1
<1> QED
  BY <1>1, <1>2, <1>3, <1>4 DEF n

\* createVersion appends a draft.
LEMMA CreateVersionStep ==
    ASSUME VersionsAssumption, VInv, NEW o \in Owners, NEW s \in StrategyIds, NEW from, createVersion(o, s, from)
    PROVE  VInv' /\ PublishedKept
<1>1. /\ vpc[o] = "idle" /\ live[s] # "absent" /\ from \in 0..Len(versions[s])
      /\ UNCHANGED <<live, backtests, vpc, req>>
      /\ \A p \in Owners \ {o} : ~(vpc[p] \in {"edit", "publish"} /\ req[p].s = s)
  BY DEF createVersion, Exists, StrategyRowFree
<1>2. /\ versions \in [StrategyIds -> Seq(VersionRow)] /\ versions[s] \in Seq(VersionRow) /\ versions[s] # <<>>
      /\ vpc \in [Owners -> {"idle", "insert", "delete", "edit", "publish", "run", "record"}]
      /\ req \in [Owners -> RequestRow]
  BY <1>1 DEF VInv, VersionShapes, RequestRow
<1> DEFINE c == IF from = 0 THEN 0 ELSE versions[s][from].config
           k == [status |-> "draft", config |-> c]
           n == Append(versions[s], k)
<1>3. c \in Configs
  <2>1. CASE from = 0
    BY <2>1 DEF VersionsAssumption
  <2>2. CASE from # 0
    <3>1. from \in 1..Len(versions[s])
      BY <1>1, <1>2, <2>2
    <3>2. versions[s][from] \in VersionRow
      BY <1>2, <3>1
    <3> QED
      BY <2>2, <3>2 DEF VersionRow
  <2> QED
    BY <2>1, <2>2
<1>4. versions' = [versions EXCEPT ![s] = n]
  BY DEF createVersion, readVersionConfig, VersionAt
<1> HIDE DEF c
<1>5. k \in VersionRow /\ k.status = "draft"
  BY <1>3 DEF VersionRow, VersionStatus
<1> HIDE DEF k
<1>6. /\ n \in Seq(VersionRow) /\ Len(n) = Len(versions[s]) + 1 /\ n[Len(versions[s]) + 1] = k
      /\ \A i \in 1..Len(versions[s]) : n[i] = versions[s][i]
  BY <1>2, <1>5, AppendProperties
<1> HIDE DEF n
<1>7. Len(versions[s]) \in Nat
  BY <1>2
<1>8. n # <<>>
  BY <1>6, <1>7
<1>9. RowsKept(versions[s], n)
  BY <1>6, <1>7 DEF RowsKept
<1>10. \A i \in 1..Len(n) : Publishable(n[i])
  <2> SUFFICES ASSUME NEW i \in 1..Len(n) PROVE Publishable(n[i])
    OBVIOUS
  <2>1. i \in 1..Len(versions[s]) \/ i = Len(versions[s]) + 1
    BY <1>6, <1>7
  <2> QED
    BY <1>5, <1>6, <2>1 DEF VInv, Publishable
<1>11. vpc' = [vpc EXCEPT ![o] = "idle"] /\ req' = [req EXCEPT ![o] = req[o]] /\ req[o] \in RequestRow
  BY <1>1, <1>2
<1>12. VersionsWritten(o, "idle", req[o], s, n)
  BY <1>1, <1>2, <1>4, <1>6, <1>8, <1>9, <1>10, <1>11 DEF VersionsWritten
<1> QED
  BY <1>12, VersionsWrite

\* deprecateVersion retires a published version.
LEMMA DeprecateStep ==
    ASSUME VersionsAssumption, VInv, NEW o \in Owners, NEW s \in StrategyIds, NEW v, deprecateVersion(o, s, v)
    PROVE  VInv' /\ PublishedKept
<1>1. /\ vpc[o] = "idle" /\ v \in DOMAIN versions[s] /\ versions[s][v].status = "published"
      /\ UNCHANGED <<live, backtests, vpc, req>>
      /\ \A p \in Owners \ {o} : ~(vpc[p] \in {"edit", "publish"} /\ req[p].s = s)
      /\ live[s] # "absent"
  BY DEF deprecateVersion, StrategyRowFree, VersionAt, Exists
<1>2. /\ versions \in [StrategyIds -> Seq(VersionRow)] /\ versions[s] \in Seq(VersionRow) /\ versions[s] # <<>>
      /\ vpc \in [Owners -> {"idle", "insert", "delete", "edit", "publish", "run", "record"}]
      /\ req \in [Owners -> RequestRow]
      /\ \A i \in 1..Len(versions[s]) : Publishable(versions[s][i])
  BY <1>1 DEF VInv, VersionShapes, RequestRow
<1>3. v \in 1..Len(versions[s]) /\ versions[s][v] \in VersionRow
  BY <1>1, <1>2
<1> DEFINE k == [versions[s][v] EXCEPT !.status = "deprecated"]
           n == [versions[s] EXCEPT ![v] = k]
<1>4. k \in VersionRow /\ k.status = "deprecated" /\ k.config = versions[s][v].config
  BY <1>3 DEF VersionRow, VersionStatus
<1>5. versions' = [versions EXCEPT ![s] = n]
  BY DEF deprecateVersion
<1> HIDE DEF k
<1>6. Publishable(k)
  BY <1>1, <1>2, <1>3, <1>4 DEF Publishable
<1>7. n \in Seq(VersionRow) /\ n # <<>> /\ RowsKept(versions[s], n) /\ \A i \in 1..Len(n) : Publishable(n[i])
  BY <1>1, <1>2, <1>3, <1>4, <1>6, RowChanges
<1> HIDE DEF n
<1>8. vpc' = [vpc EXCEPT ![o] = "idle"] /\ req' = [req EXCEPT ![o] = req[o]] /\ req[o] \in RequestRow
  BY <1>1, <1>2
<1>9. VersionsWritten(o, "idle", req[o], s, n)
  BY <1>1, <1>2, <1>5, <1>7, <1>8 DEF VersionsWritten
<1> QED
  BY <1>9, VersionsWrite

\* A request that holds a draft's row writes the draft and ends.
LEMMA DraftStep ==
    ASSUME VersionsAssumption, VInv, NEW o \in Owners, writeVersionConfig(o) \/ publishVersion(o)
    PROVE  VInv' /\ PublishedKept
<1> DEFINE s == req[o].s
           v == req[o].v
           row == versions[s][v]
<1>1. /\ vpc[o] \in {"edit", "publish"} /\ End(o) /\ UNCHANGED <<live, backtests>>
      /\ ReqFits(vpc[o], req[o], versions)
  BY DEF writeVersionConfig, publishVersion, VInv
<1>2. /\ s \in StrategyIds /\ v \in 1..Len(versions[s]) /\ row.status = "draft"
      /\ vpc[o] = "publish" => validatePublishable(row.config)
  BY <1>1 DEF ReqFits
<1>3. /\ versions \in [StrategyIds -> Seq(VersionRow)] /\ versions[s] \in Seq(VersionRow)
      /\ req[o] \in RequestRow /\ req[o].config \in Configs
      /\ \A i \in 1..Len(versions[s]) : Publishable(versions[s][i])
  BY <1>2 DEF VInv, VersionShapes, RequestRow
<1>4. row \in VersionRow /\ versions[s] # <<>>
  BY <1>2, <1>3
<1>5. PICK k \in VersionRow : Publishable(k) /\ versions' = [versions EXCEPT ![s] = [versions[s] EXCEPT ![v] = k]]
  <2>1. CASE writeVersionConfig(o)
    <3> DEFINE k == [row EXCEPT !.config = req[o].config]
    <3>1. k \in VersionRow /\ k.status = "draft"
      BY <1>2, <1>3, <1>4 DEF VersionRow
    <3>2. versions' = [versions EXCEPT ![s] = [versions[s] EXCEPT ![v] = k]]
      BY <1>2, <2>1 DEF writeVersionConfig, version_config_guard, VersionAt
    <3>3. Publishable(k)
      BY <3>1 DEF Publishable
    <3> QED
      BY <3>1, <3>2, <3>3
  <2>2. CASE publishVersion(o)
    <3> DEFINE k == [row EXCEPT !.status = "published"]
    <3>1. k \in VersionRow /\ k.config = row.config
      BY <1>4 DEF VersionRow, VersionStatus
    <3>2. versions' = [versions EXCEPT ![s] = [versions[s] EXCEPT ![v] = k]] /\ vpc[o] = "publish"
      BY <2>2 DEF publishVersion
    <3>3. Publishable(k)
      BY <1>2, <3>1, <3>2 DEF Publishable
    <3> QED
      BY <3>1, <3>2, <3>3
  <2> QED
    BY <2>1, <2>2
<1> DEFINE n == [versions[s] EXCEPT ![v] = k]
<1>6. n \in Seq(VersionRow) /\ n # <<>> /\ RowsKept(versions[s], n) /\ \A i \in 1..Len(n) : Publishable(n[i])
  BY <1>2, <1>3, <1>5, RowChanges
<1>7. versions' = [versions EXCEPT ![s] = n]
  BY <1>5
<1> HIDE DEF n
<1>8. ASSUME NEW p \in Owners \ {o}, vpc[p] \in {"edit", "publish"} PROVE req[p].s # s
  BY <1>1, <1>8 DEF VInv, Apart
<1>9. vpc' = [vpc EXCEPT ![o] = "idle"] /\ req' = [req EXCEPT ![o] = NoReq] /\ NoReq \in RequestRow
  BY <1>1, EndFits DEF End
<1>10. VersionsWritten(o, "idle", NoReq, s, n)
  BY <1>1, <1>2, <1>4, <1>6, <1>7, <1>8, <1>9 DEF VersionsWritten
<1> QED
  BY <1>10, VersionsWrite

StrategyWritten(o, s, n, status) ==
    /\ s \in StrategyIds /\ n \in Seq(VersionRow) /\ status \in StrategyStatus \cup {"absent"}
    /\ status = "absent" <=> n = <<>>
    /\ versions' = [versions EXCEPT ![s] = n] /\ live' = [live EXCEPT ![s] = status]
    /\ \A i \in 1..Len(versions[s]) : versions[s][i].status = "draft"
    /\ \A i \in 1..Len(n) : Publishable(n[i])
    /\ \A p \in Owners \ {o} : vpc[p] \in {"edit", "publish"} => req[p].s # s
    /\ End(o) /\ UNCHANGED backtests
    /\ RoomLeft(Existing', MaxStrategies, Inserting')

\* A request writes the row of a strategy that has drafts only.
LEMMA StrategyWrite ==
    ASSUME VersionsAssumption, VInv, NEW o \in Owners, NEW s, NEW n, NEW status, StrategyWritten(o, s, n, status)
    PROVE  VInv' /\ PublishedKept
<1>1. /\ versions \in [StrategyIds -> Seq(VersionRow)] /\ s \in StrategyIds /\ n \in Seq(VersionRow)
      /\ live \in [StrategyIds -> StrategyStatus \cup {"absent"}] /\ status \in StrategyStatus \cup {"absent"}
      /\ versions' = [versions EXCEPT ![s] = n] /\ live' = [live EXCEPT ![s] = status]
      /\ req \in [Owners -> RequestRow] /\ req' = [req EXCEPT ![o] = NoReq]
      /\ vpc \in [Owners -> {"idle", "insert", "delete", "edit", "publish", "run", "record"}]
      /\ vpc' = [vpc EXCEPT ![o] = "idle"]
  BY DEF VInv, VersionShapes, StrategyWritten, RequestRow, End
<1>2. /\ versions' \in [StrategyIds -> Seq(VersionRow)] /\ live' \in [StrategyIds -> StrategyStatus \cup {"absent"}]
      /\ \A t \in StrategyIds : versions'[t] = IF t = s THEN n ELSE versions[t]
      /\ \A t \in StrategyIds : live'[t] = IF t = s THEN status ELSE live[t]
  BY <1>1
<1>3. VersionShapes'
  <2>1. \A t \in StrategyIds : live'[t] = "absent" <=> versions'[t] = <<>>
    BY <1>2 DEF StrategyWritten, VInv, VersionShapes
  <2>2. req' \in [Owners -> RequestRow]
    BY <1>1, EndFits
  <2>3. vpc' \in [Owners -> {"idle", "insert", "delete", "edit", "publish", "run", "record"}]
    BY <1>1
  <2> QED
    BY <1>2, <2>1, <2>2, <2>3 DEF VersionShapes, RequestRow
<1>4. \A t \in StrategyIds : RowsKept(versions[t], versions'[t])
  <2>1. RowsKept(versions[s], n)
    BY DEF RowsKept, StrategyWritten
  <2> QED
    BY <1>2, <2>1, SameRows
<1>5. \A t \in StrategyIds : \A i \in 1..Len(versions'[t]) : Publishable(versions'[t][i])
  BY <1>2 DEF StrategyWritten, VInv
<1>6. RoomLeft(Existing', MaxStrategies, Inserting') /\ RoomLeft(backtests', MaxBacktests, Recording')
  <2>1. RoomLeft(backtests, MaxBacktests, Recording')
    BY <1>1, CountStays
  <2> QED
    BY <2>1 DEF StrategyWritten
<1>7. \A p \in Owners \ {o} : vpc[p] \in {"edit", "publish"} => versions'[req[p].s] = versions[req[p].s]
  <2> SUFFICES ASSUME NEW p \in Owners \ {o}, vpc[p] \in {"edit", "publish"}
               PROVE  versions'[req[p].s] = versions[req[p].s]
    OBVIOUS
  <2>1. req[p].s \in StrategyIds
    BY DEF VInv, ReqFits
  <2> QED
    BY <1>2, <2>1 DEF StrategyWritten
<1>8. OwnerMoves(o, "idle", NoReq)
  BY <1>1, <1>3, <1>4, <1>5, <1>6, <1>7, EndFits DEF OwnerMoves, StrategyWritten
<1> QED
  BY <1>8, OwnerMove

\* createStrategy inserts what was counted.
LEMMA CreateStrategyStep ==
    ASSUME VersionsAssumption, VInv, NEW o \in Owners, createStrategy(o)
    PROVE  VInv' /\ PublishedKept
<1> DEFINE s == req[o].s
           k == [status |-> "draft", config |-> req[o].config]
<1>1. vpc[o] = "insert" /\ End(o) /\ UNCHANGED backtests /\ s \in StrategyIds /\ req[o].config \in Configs
  BY DEF createStrategy, VInv, ReqFits, VersionShapes
<1>2. CASE Exists(s)
  BY <1>1, <1>2, EndStep DEF createStrategy
<1>3. CASE ~Exists(s)
  <2>1. versions' = [versions EXCEPT ![s] = <<k>>] /\ live' = [live EXCEPT ![s] = "draft"]
    BY <1>3 DEF createStrategy
  <2>2. k \in VersionRow /\ k.status = "draft"
    BY <1>1 DEF VersionRow, VersionStatus
  <2> HIDE DEF k
  <2>3. <<k>> \in Seq(VersionRow) /\ <<k>> # <<>> /\ Len(<<k>>) = 1 /\ <<k>>[1] = k
    BY <2>2
  <2>4. \A i \in 1..Len(<<k>>) : Publishable(<<k>>[i])
    BY <2>2, <2>3 DEF Publishable
  <2>5. versions[s] = <<>> /\ Len(versions[s]) = 0
    BY <1>1, <1>3 DEF Exists, VInv, VersionShapes
  <2>6. ASSUME NEW p \in Owners \ {o}, vpc[p] \in {"edit", "publish"} PROVE req[p].s # s
    BY <2>5, <2>6 DEF VInv, ReqFits
  <2>7. RoomLeft(Existing', MaxStrategies, Inserting')
    <3>1. IsFiniteSet(Existing) /\ Cardinality(Existing) < MaxStrategies
      BY <1>1 DEF VInv, RoomLeft, Inserting
    <3>2. Existing' = Existing \cup {s} /\ s \notin Existing
      <4>1. \A t \in StrategyIds : live'[t] = IF t = s THEN "draft" ELSE live[t]
        BY <1>1, <2>1 DEF VInv, VersionShapes
      <4>2. \A t \in StrategyIds : t \in Existing' <=> t = s \/ t \in Existing
        BY <4>1 DEF Existing, Exists
      <4>3. s \notin Existing
        BY <1>3 DEF Existing
      <4>4. \A t : t \in Existing' => t \in StrategyIds
        BY DEF Existing
      <4>5. \A t : t \in Existing => t \in StrategyIds
        BY DEF Existing
      <4> QED
        BY <1>1, <4>2, <4>3, <4>4, <4>5
    <3>3. IsFiniteSet(Existing') /\ Cardinality(Existing') = Cardinality(Existing) + 1 /\ Cardinality(Existing) \in Nat
      BY <3>1, <3>2, FS_AddElement, FS_CardinalityType
    <3>4. ~Inserting'
      <4>1. vpc \in [Owners -> {"idle", "insert", "delete", "edit", "publish", "run", "record"}]
        BY DEF VInv, VersionShapes
      <4>2. \A p \in Owners : vpc'[p] = IF p = o THEN "idle" ELSE vpc[p]
        BY <1>1, <4>1 DEF End
      <4>3. \A p \in Owners \ {o} : vpc[p] # "insert"
        BY <1>1 DEF VInv, Apart
      <4> QED
        BY <4>2, <4>3 DEF Inserting
    <3> QED
      BY <3>1, <3>3, <3>4 DEF RoomLeft, VersionsAssumption
  <2>8. StrategyWritten(o, s, <<k>>, "draft")
    BY <1>1, <2>1, <2>3, <2>4, <2>5, <2>6, <2>7 DEF StrategyWritten, StrategyStatus
  <2> QED
    BY <2>8, StrategyWrite
<1> QED
  BY <1>2, <1>3

\* deleteStrategy removes a strategy that has drafts only.
LEMMA DeleteStrategyStep ==
    ASSUME VersionsAssumption, VInv, NEW o \in Owners, deleteStrategy(o)
    PROVE  VInv' /\ PublishedKept
<1> DEFINE s == req[o].s
<1>1. /\ vpc[o] = "delete" /\ End(o) /\ UNCHANGED backtests /\ s \in StrategyIds
      /\ \A p \in Owners \ {o} : ~(vpc[p] \in {"edit", "publish"} /\ req[p].s = s)
  BY DEF deleteStrategy, VInv, ReqFits, StrategyRowFree
<1>2. CASE ~(Exists(s) /\ CascadePasses(s))
  <2>1. UNCHANGED <<versions, live>>
    BY <1>2 DEF deleteStrategy
  <2> QED
    BY <1>1, <2>1, EndStep
<1>3. CASE Exists(s) /\ CascadePasses(s)
  <2>1. versions' = [versions EXCEPT ![s] = <<>>] /\ live' = [live EXCEPT ![s] = "absent"]
    BY <1>3 DEF deleteStrategy
  <2>2. versions[s] \in Seq(VersionRow)
    BY <1>1 DEF VInv, VersionShapes
  <2>3. \A i \in 1..Len(versions[s]) : versions[s][i].status = "draft"
    BY <1>3, <2>2 DEF CascadePasses, strategy_version_guard, VersionAt
  <2>4. <<>> \in Seq(VersionRow) /\ Len(<<>>) = 0
    OBVIOUS
  <2>5. RoomLeft(Existing', MaxStrategies, Inserting')
    <3>1. IsFiniteSet(Existing) /\ Cardinality(Existing) <= MaxStrategies
          /\ (Inserting => Cardinality(Existing) < MaxStrategies)
      BY DEF VInv, RoomLeft
    <3>2. Existing' = Existing \ {s} /\ s \in Existing
      <4>1. \A t \in StrategyIds : live'[t] = IF t = s THEN "absent" ELSE live[t]
        BY <1>1, <2>1 DEF VInv, VersionShapes
      <4>2. \A t \in StrategyIds : t \in Existing' <=> t # s /\ t \in Existing
        BY <4>1 DEF Existing, Exists
      <4>3. s \in Existing
        BY <1>1, <1>3 DEF Existing
      <4>4. \A t : t \in Existing' => t \in StrategyIds
        BY DEF Existing
      <4>5. \A t : t \in Existing => t \in StrategyIds
        BY DEF Existing
      <4> QED
        BY <1>1, <4>2, <4>3, <4>4, <4>5
    <3>3. IsFiniteSet(Existing') /\ Cardinality(Existing') = Cardinality(Existing) - 1 /\ Cardinality(Existing) \in Nat
      BY <3>1, <3>2, FS_RemoveElement, FS_CardinalityType
    <3> QED
      BY <3>1, <3>3 DEF RoomLeft, VersionsAssumption
  <2>6. StrategyWritten(o, s, <<>>, "absent")
    BY <1>1, <2>1, <2>3, <2>4, <2>5 DEF StrategyWritten, StrategyStatus
  <2> QED
    BY <2>6, StrategyWrite
<1> QED
  BY <1>2, <1>3

\* createBacktest records the run of a version that is frozen.
LEMMA CreateBacktestStep ==
    ASSUME VersionsAssumption, VInv, NEW o \in Owners, createBacktest(o)
    PROVE  VInv' /\ PublishedKept
<1>1. /\ vpc[o] = "record" /\ End(o) /\ UNCHANGED <<versions, live>> /\ ReqFits("run", req[o], versions)
      /\ backtests' = backtests \/ backtests' = backtests \cup {req[o]}
  BY DEF createBacktest, VInv, ReqFits
<1>2. CASE backtests' = backtests
  BY <1>1, <1>2, EndStep
<1>3. CASE backtests' = backtests \cup {req[o]}
  <2>1. IsFiniteSet(backtests) /\ Cardinality(backtests) < MaxBacktests
    BY <1>1 DEF VInv, RoomLeft, Recording
  <2>2. /\ IsFiniteSet(backtests') /\ Cardinality(backtests) \in Nat
        /\ Cardinality(backtests') = Cardinality(backtests) + 1 \/ Cardinality(backtests') = Cardinality(backtests)
    BY <1>3, <2>1, FS_AddElement, FS_CardinalityType
  <2>3. /\ vpc \in [Owners -> {"idle", "insert", "delete", "edit", "publish", "run", "record"}]
        /\ req \in [Owners -> RequestRow]
        /\ vpc' = [vpc EXCEPT ![o] = "idle"] /\ req' = [req EXCEPT ![o] = NoReq]
    BY <1>1 DEF VInv, VersionShapes, End, RequestRow
  <2>4. ~Recording'
    <3>1. \A p \in Owners : vpc'[p] = IF p = o THEN "idle" ELSE vpc[p]
      BY <2>3
    <3>2. \A p \in Owners \ {o} : vpc[p] # "record"
      BY <1>1 DEF VInv, Apart
    <3> QED
      BY <3>1, <3>2 DEF Recording
  <2>5. RoomLeft(backtests', MaxBacktests, Recording')
    BY <2>1, <2>2, <2>4 DEF RoomLeft, VersionsAssumption
  <2>6. VersionShapes'
    <3>1. req' \in [Owners -> RequestRow]
      BY <2>3, EndFits
    <3>2. vpc' \in [Owners -> {"idle", "insert", "delete", "edit", "publish", "run", "record"}]
      BY <2>3
    <3> QED
      BY <1>1, <3>1, <3>2 DEF VInv, VersionShapes, RequestRow
  <2>7. Existing' = Existing
    BY <1>1 DEF Existing, Exists
  <2>8. RoomLeft(Existing', MaxStrategies, Inserting')
    BY <2>3, <2>7, CountStays
  <2>9. \A b \in backtests' \ backtests : ReqFits("run", b, versions')
    BY <1>1, <1>3
  <2>10. \A s \in StrategyIds : RowsKept(versions[s], versions'[s])
    BY <1>1, SameRows
  <2>11. \A s \in StrategyIds : \A i \in 1..Len(versions'[s]) : Publishable(versions'[s][i])
    BY <1>1 DEF VInv
  <2>12. OwnerMoves(o, "idle", NoReq)
    BY <1>1, <2>3, <2>5, <2>6, <2>8, <2>9, <2>10, <2>11, EndFits DEF OwnerMoves
  <2> QED
    BY <2>12, OwnerMove
<1> QED
  BY <1>1, <1>2, <1>3

\* Every step keeps the invariant, and what has been published.
LEMMA VersionsNextInv ==
    ASSUME VersionsAssumption, VInv, VersionsNext PROVE VInv' /\ PublishedKept
<1>1. CASE \E s \in StrategyIds : updateStrategy(s, "active") \/ updateStrategy(s, "archived")
  BY <1>1, UpdateStep
<1>2. ASSUME NEW o \in Owners, NEW s \in StrategyIds, OwnerStep(o, s) PROVE VInv' /\ PublishedKept
  <2>1. CASE countStrategies(o, s)
    BY <2>1, CountStep
  <2>2. CASE checkHistory(o, s)
    BY <2>2, HistoryStep
  <2>3. CASE \E from \in 0..MaxVersions : createVersion(o, s, from)
    BY <2>3, CreateVersionStep
  <2>4. ASSUME NEW v \in 1..MaxVersions,
               \/ lockForPublish(o, s, v) \/ deprecateVersion(o, s, v) \/ runBacktest(o, s, v)
               \/ \E config \in Configs : lockForEdit(o, s, v, config)
        PROVE  VInv' /\ PublishedKept
    <3>1. CASE deprecateVersion(o, s, v)
      BY <3>1, DeprecateStep
    <3>2. CASE runBacktest(o, s, v)
      BY <3>2, RunStep
    <3>3. CASE lockForPublish(o, s, v) \/ \E config \in Configs : lockForEdit(o, s, v, config)
      BY <3>3, LockStep
    <3> QED
      BY <2>4, <3>1, <3>2, <3>3
  <2> QED
    BY <1>2, <2>1, <2>2, <2>3, <2>4 DEF OwnerStep
<1>3. ASSUME NEW o \in Owners,
             \/ createStrategy(o) \/ deleteStrategy(o) \/ writeVersionConfig(o) \/ publishVersion(o)
             \/ countBacktests(o) \/ createBacktest(o) \/ requestFails(o)
      PROVE  VInv' /\ PublishedKept
  <2>1. CASE requestFails(o)
    BY <2>1, EndStep DEF requestFails
  <2> QED
    BY <1>3, <2>1, CreateStrategyStep, DeleteStrategyStep, DraftStep, CountBacktestsStep, CreateBacktestStep
<1> QED
  BY <1>1, <1>2, <1>3 DEF VersionsNext

\* A step that changes nothing keeps them as well.
LEMMA VersionsStutter ==
    ASSUME VInv, UNCHANGED versionVars PROVE VInv'
<1>1. UNCHANGED <<versions, live, backtests, vpc, req>>
  BY DEF versionVars
<1>2. Existing' = Existing /\ (Inserting' <=> Inserting) /\ (Recording' <=> Recording)
  BY <1>1 DEF Existing, Exists, Inserting, Recording
<1>3. VersionShapes'
  BY <1>1 DEF VInv, VersionShapes
<1>4. RoomLeft(Existing', MaxStrategies, Inserting') /\ RoomLeft(backtests', MaxBacktests, Recording')
  BY <1>1, <1>2 DEF VInv, RoomLeft
<1> QED
  BY <1>1, <1>3, <1>4 DEF VInv

\* The inductive invariant of strategies and versions: a request that holds a
\* draft's row finds it the draft it read, a backtest the version it ran, and a
\* count made under its lock still leaves room when it is used.
THEOREM VersionsInvariance ==
    ASSUME VersionsAssumption PROVE VersionsSpec => []VInv
<1>1. VersionsInit => VInv
  BY VersionsInitInv
<1>2. VInv /\ [VersionsNext]_versionVars => VInv'
  BY VersionsNextInv, VersionsStutter
<1> QED
  BY <1>1, <1>2, PTL DEF VersionsSpec

\* VersionsAreFrozen for every number of requests, strategies, versions and
\* configurations: published versions keep their configuration, limits hold, and a
\* backtest describes the version it names (strategies.ts, migration 0007).
THEOREM VersionsFrozen ==
    ASSUME VersionsAssumption PROVE VersionsSpec => VersionsAreFrozen
<1>1. VersionsInit => VInv
  BY VersionsInitInv
<1>2. VInv /\ [VersionsNext]_versionVars => VInv' /\ [PublishedKept]_versionVars
  BY VersionsNextInv, VersionsStutter
<1>3. VInv => VersionsTypeOK /\ LimitsSerialized
  <2> SUFFICES ASSUME VInv PROVE VersionsTypeOK /\ LimitsSerialized
    OBVIOUS
  <2>1. VersionsTypeOK
    BY DEF VInv, VersionShapes, VersionsTypeOK, VersionRow
  <2>2. Cardinality({s \in StrategyIds : Exists(s)}) <= MaxStrategies /\ Cardinality(backtests) <= MaxBacktests
    BY DEF VInv, RoomLeft, Existing
  <2>3. ASSUME NEW b \in backtests PROVE b.v \in DOMAIN versions[b.s] /\ VersionAt(b.s, b.v).config = b.config
    <3>1. b.s \in StrategyIds /\ b.v \in 1..Len(versions[b.s]) /\ versions[b.s][b.v].config = b.config
      BY DEF VInv, ReqFits
    <3>2. versions[b.s] \in Seq(VersionRow)
      BY <3>1 DEF VInv, VersionShapes
    <3> QED
      BY <3>1, <3>2 DEF VersionAt
  <2> QED
    BY <2>1, <2>2, <2>3 DEF LimitsSerialized
<1> QED
  BY <1>1, <1>2, <1>3, PTL DEF VersionsSpec, VersionsAreFrozen, PublishedVersionsFrozen

-----------------------------------------------------------------------------
(* The settings page.                                                        *)

\* The rows of the server, of a tab, and what travels between them.
ServerRow == [locked : PlanChoices \cup {NoChoice}, link : BOOLEAN, paid : BOOLEAN,
              evidence : BOOLEAN, activated : BOOLEAN]
SessionRow == [choice : PlanChoices \cup {NoChoice}, link : BOOLEAN]
BillingRow == [read : BOOLEAN, provider : BOOLEAN, confirmed : BOOLEAN]
TabRow == [billing : BillingRow, unavailable : BOOLEAN, evidenceRecorded : BOOLEAN, selected : PlanChoices,
           session : SessionRow, verified : BOOLEAN, busy : {"idle", "checkout", "verify"}]
CallRow == [kind : {"none", "checkout", "verify"}, choice : PlanChoices \cup {NoChoice}, awaited : BOOLEAN,
            reply : {"none", "session", "verified", "unverified", "error"}, session : SessionRow]

\* The server's facts rest on one another.
ServerFits(acc) ==
    /\ acc.activated => acc.evidence
    /\ acc.evidence => acc.paid
    /\ acc.link => acc.locked # NoChoice

\* What is known of the server is so, however old it is.
SessionFits(s, acc) == (s.choice # NoChoice => s.choice = acc.locked) /\ (s.link => acc.link)
BillingFits(b, acc) == b.confirmed => acc.activated
TabFits(p, acc) ==
    /\ BillingFits(p.billing, acc) /\ SessionFits(p.session, acc)
    /\ p.evidenceRecorded => acc.evidence
ReplyFits(k, acc) ==
    /\ SessionFits(k.session, acc)
    /\ k.reply = "verified" => acc.evidence
    /\ k.kind = "checkout" => k.choice \in PlanChoices

\* The reads of a tab that are not applied yet.
ReadsFit(n, as) == n \in Nat /\ IsFiniteSet(as) /\ n + Cardinality(as) <= MaxReads

\* The inductive invariant of the settings page.
PageInv ==
    /\ account \in ServerRow /\ ServerFits(account)
    /\ page \in [Tabs -> TabRow] /\ call \in [Tabs -> CallRow] /\ answers \in [Tabs -> SUBSET BillingRow]
    /\ reads \in [Tabs -> Nat]
    /\ \A t \in Tabs : /\ TabFits(page[t], account) /\ ReplyFits(call[t], account)
                       /\ \A a \in answers[t] : BillingFits(a, account)
                       /\ ReadsFit(reads[t], answers[t])

\* No fact of the server is ever taken back.
Kept(acc, acc2) ==
    /\ acc.locked # NoChoice => acc2.locked = acc.locked
    /\ acc.link => acc2.link
    /\ acc.evidence => acc2.evidence
    /\ acc.activated => acc2.activated

\* The page as first rendered, and a call that is not there, claim nothing.
LEMMA FreshFits ==
    ASSUME PageAssumption, NEW acc
    PROVE /\ FreshPage(FirstChoice) \in TabRow /\ TabFits(FreshPage(FirstChoice), acc)
          /\ NoCall \in CallRow /\ ReplyFits(NoCall, acc)
          /\ NoSession \in SessionRow /\ SessionFits(NoSession, acc) /\ NotRead \in BillingRow /\ BillingFits(NotRead, acc)
<1>1. FirstChoice \in PlanChoices BY DEF PageAssumption, FirstChoice
<1>2. NoSession \in SessionRow /\ SessionFits(NoSession, acc) BY DEF NoSession, SessionRow, SessionFits
<1>3. NotRead \in BillingRow /\ BillingFits(NotRead, acc) BY DEF NotRead, BillingRow, BillingFits
<1>4. FreshPage(FirstChoice) \in TabRow BY <1>1, <1>2, <1>3 DEF FreshPage, TabRow
<1>5. TabFits(FreshPage(FirstChoice), acc) BY <1>2, <1>3 DEF FreshPage, TabFits
<1>6. NoCall \in CallRow BY <1>2 DEF NoCall, CallRow
<1>7. ReplyFits(NoCall, acc) BY <1>2 DEF NoCall, ReplyFits
<1> QED BY <1>2, <1>3, <1>4, <1>5, <1>6, <1>7

\* Old knowledge stays true while the server keeps its facts.
LEMMA KeptFits ==
    ASSUME NEW acc, NEW acc2, Kept(acc, acc2)
    PROVE /\ \A s : SessionFits(s, acc) => SessionFits(s, acc2)
          /\ \A b : BillingFits(b, acc) => BillingFits(b, acc2)
          /\ \A p : TabFits(p, acc) => TabFits(p, acc2)
          /\ \A k : ReplyFits(k, acc) => ReplyFits(k, acc2)
<1>1. \A s : SessionFits(s, acc) => SessionFits(s, acc2) BY DEF SessionFits, Kept
<1>2. \A b : BillingFits(b, acc) => BillingFits(b, acc2) BY DEF BillingFits, Kept
<1>3. \A p : TabFits(p, acc) => TabFits(p, acc2) BY <1>1, <1>2 DEF TabFits, Kept
<1>4. \A k : ReplyFits(k, acc) => ReplyFits(k, acc2) BY <1>1 DEF ReplyFits, Kept
<1> QED BY <1>1, <1>2, <1>3, <1>4

\* A tab starts with one read on its way.
LEMMA OneRead == ASSUME PageAssumption PROVE ReadsFit(1, {})
<1>1. IsFiniteSet({}) /\ Cardinality({}) = 0 BY FS_EmptySet
<1> QED BY <1>1 DEF ReadsFit, PageAssumption

\* At first the server holds nothing and the tabs claim nothing.
LEMMA PageInitInv == PageAssumption /\ PageInit => PageInv
<1> SUFFICES ASSUME PageAssumption, PageInit PROVE PageInv OBVIOUS
<1>1. account \in ServerRow /\ ServerFits(account) BY DEF PageInit, ServerRow, ServerFits
<1>2. \A t \in Tabs : /\ page[t] = FreshPage(FirstChoice) /\ call[t] = NoCall
                      /\ answers[t] = {} /\ reads[t] = 1
  BY DEF PageInit
<1>3. page \in [Tabs -> TabRow] /\ call \in [Tabs -> CallRow] BY FreshFits DEF PageInit
<1>4. answers \in [Tabs -> SUBSET BillingRow] /\ reads \in [Tabs -> Nat] BY DEF PageInit
<1> QED BY <1>1, <1>2, <1>3, <1>4, FreshFits, OneRead DEF PageInv

\* A tab, its call, its answers and the server move together.
LEMMA TabMove ==
    ASSUME PageInv, NEW t \in Tabs, account' \in ServerRow, ServerFits(account'), Kept(account, account'),
           NEW p \in TabRow, TabFits(p, account'), page' = [page EXCEPT ![t] = p],
           NEW k \in CallRow, ReplyFits(k, account'), call' = [call EXCEPT ![t] = k],
           NEW as \in SUBSET BillingRow, \A a \in as : BillingFits(a, account'),
           answers' = [answers EXCEPT ![t] = as],
           NEW n \in Nat, ReadsFit(n, as), reads' = [reads EXCEPT ![t] = n]
    PROVE PageInv'
<1>1. /\ page' \in [Tabs -> TabRow] /\ call' \in [Tabs -> CallRow] /\ answers' \in [Tabs -> SUBSET BillingRow]
      /\ reads' \in [Tabs -> Nat]
  BY DEF PageInv
<1>2. page'[t] = p /\ call'[t] = k /\ answers'[t] = as /\ reads'[t] = n BY DEF PageInv
<1>3. \A o \in Tabs \ {t} : /\ page'[o] = page[o] /\ call'[o] = call[o]
                            /\ answers'[o] = answers[o] /\ reads'[o] = reads[o]
  BY DEF PageInv
<1>4. ASSUME NEW o \in Tabs
      PROVE /\ TabFits(page'[o], account') /\ ReplyFits(call'[o], account')
            /\ \A a \in answers'[o] : BillingFits(a, account')
            /\ ReadsFit(reads'[o], answers'[o])
  <2>1. CASE o = t BY <2>1, <1>2
  <2>2. CASE o # t
    <3>1. TabFits(page[o], account) /\ ReplyFits(call[o], account) /\ ReadsFit(reads[o], answers[o])
          /\ \A a \in answers[o] : BillingFits(a, account)
      BY DEF PageInv
    <3>2. TabFits(page[o], account') /\ ReplyFits(call[o], account') /\ \A a \in answers[o] : BillingFits(a, account')
      BY <3>1, KeptFits
    <3> QED BY <2>2, <3>1, <3>2, <1>3
  <2> QED BY <2>1, <2>2
<1> QED BY <1>1, <1>4 DEF PageInv

\* What a tab has and what it is waiting for, before its step.
LEMMA TabFacts ==
    ASSUME PageInv, NEW t \in Tabs
    PROVE /\ account \in ServerRow /\ ServerFits(account) /\ Kept(account, account)
          /\ page[t] \in TabRow /\ TabFits(page[t], account) /\ page = [page EXCEPT ![t] = page[t]]
          /\ call[t] \in CallRow /\ ReplyFits(call[t], account) /\ call = [call EXCEPT ![t] = call[t]]
          /\ answers[t] \in SUBSET BillingRow /\ (\A a \in answers[t] : BillingFits(a, account))
          /\ answers = [answers EXCEPT ![t] = answers[t]]
          /\ reads[t] \in Nat /\ ReadsFit(reads[t], answers[t]) /\ reads = [reads EXCEPT ![t] = reads[t]]
<1>1. Kept(account, account) BY DEF Kept
<1> QED BY <1>1 DEF PageInv

\* The server answers a read with what it holds, or does not answer.
LEMMA GetInv == ASSUME PageAssumption, PageInv, NEW t \in Tabs, NEW ok \in BOOLEAN, getBillingState(t, ok) PROVE PageInv'
<1> DEFINE a == IF ok THEN [read |-> TRUE, provider |-> account.locked # NoChoice, confirmed |-> account.activated]
                ELSE NotRead
           as == answers[t] \cup {a}
           n == reads[t] - 1
<1>1. a \in BillingRow /\ BillingFits(a, account)
  <2>1. account.activated \in BOOLEAN /\ (account.locked # NoChoice) \in BOOLEAN BY TabFacts DEF ServerRow
  <2>2. CASE ok BY <2>1, <2>2 DEF BillingRow, BillingFits
  <2>3. CASE ~ok BY <2>3, FreshFits
  <2> QED BY <2>2, <2>3
<1>2. answers' = [answers EXCEPT ![t] = as] /\ reads' = [reads EXCEPT ![t] = n]
      /\ reads[t] > 0 /\ UNCHANGED <<account, page, call>>
  BY DEF getBillingState
<1> HIDE DEF a
<1>3. as \in SUBSET BillingRow /\ \A b \in as : BillingFits(b, account) BY <1>1, TabFacts
<1>4. n \in Nat /\ ReadsFit(n, as)
  <2>1. IsFiniteSet(answers[t]) /\ reads[t] \in Nat /\ reads[t] + Cardinality(answers[t]) <= MaxReads
    BY TabFacts DEF ReadsFit
  <2>2. IsFiniteSet(as) /\ Cardinality(as) \in Nat /\ Cardinality(answers[t]) \in Nat
        /\ Cardinality(as) <= Cardinality(answers[t]) + 1
    <3>1. Cardinality(answers[t]) \in Nat BY <2>1, FS_CardinalityType
    <3>2. IsFiniteSet(as) BY <2>1, FS_AddElement
    <3>3. Cardinality(as) = IF a \in answers[t] THEN Cardinality(answers[t]) ELSE Cardinality(answers[t]) + 1
      BY <2>1, FS_AddElement
    <3> QED BY <3>1, <3>2, <3>3
  <2> QED BY <1>2, <2>1, <2>2 DEF ReadsFit, PageAssumption
<1> HIDE DEF as, n
<1> QED BY <1>2, <1>3, <1>4, TabFacts, TabMove

\* An answer is applied: what it says was so when it was given, and still is.
LEMMA ApplyBillingInv == ASSUME PageAssumption, PageInv, NEW t \in Tabs, NEW a, applyBilling(t, a) PROVE PageInv'
<1> DEFINE p == [page[t] EXCEPT !.billing = a, !.unavailable = ~a.read]
           as == answers[t] \ {a}
<1>1. a \in answers[t] /\ answers' = [answers EXCEPT ![t] = as] /\ UNCHANGED <<account, reads, call>>
  BY DEF applyBilling
<1>2. page' = [page EXCEPT ![t] = p] BY TabFacts DEF applyBilling
<1>3. a \in BillingRow /\ BillingFits(a, account) /\ (~a.read) \in BOOLEAN BY <1>1, TabFacts DEF BillingRow
<1>4. p \in TabRow /\ p.billing = a /\ p.session = page[t].session /\ p.evidenceRecorded = page[t].evidenceRecorded
  BY <1>3, TabFacts DEF TabRow
<1> HIDE DEF p
<1>5. TabFits(p, account) BY <1>3, <1>4, TabFacts DEF TabFits
<1>6. as \in SUBSET BillingRow /\ \A b \in as : BillingFits(b, account) BY TabFacts
<1>7. ReadsFit(reads[t], as)
  <2>1. IsFiniteSet(answers[t]) /\ reads[t] \in Nat /\ reads[t] + Cardinality(answers[t]) <= MaxReads
    BY TabFacts DEF ReadsFit
  <2>2. IsFiniteSet(as) /\ Cardinality(as) = Cardinality(answers[t]) - 1 /\ Cardinality(answers[t]) \in Nat
    BY <1>1, <2>1, FS_RemoveElement, FS_CardinalityType
  <2> QED BY <2>1, <2>2 DEF ReadsFit, PageAssumption
<1> HIDE DEF as
<1> QED BY <1>1, <1>2, <1>4, <1>5, <1>6, <1>7, TabFacts, TabMove

\* A reload forgets the page; a call that was sent is carried out all the same.
LEMMA ReloadInv == ASSUME PageAssumption, PageInv, NEW t \in Tabs, reload(t) PROVE PageInv'
<1> DEFINE k == IF call[t].reply = "none" THEN [call[t] EXCEPT !.awaited = FALSE] ELSE NoCall
<1>1. k \in CallRow /\ ReplyFits(k, account)
  <2>1. CASE call[t].reply = "none"
    <3>1. k = [call[t] EXCEPT !.awaited = FALSE] BY <2>1
    <3>2. k \in CallRow /\ k.session = call[t].session /\ k.reply = call[t].reply /\ k.kind = call[t].kind
          /\ k.choice = call[t].choice
      BY <3>1, TabFacts DEF CallRow
    <3> QED BY <3>2, TabFacts DEF ReplyFits
  <2>2. CASE call[t].reply # "none" BY <2>2, FreshFits
  <2> QED BY <2>1, <2>2
<1>2. /\ page' = [page EXCEPT ![t] = FreshPage(FirstChoice)] /\ reads' = [reads EXCEPT ![t] = 1]
      /\ answers' = [answers EXCEPT ![t] = {}] /\ account' = account
  BY DEF reload
<1>3. call' = [call EXCEPT ![t] = k] BY DEF reload
<1> HIDE DEF k
<1> QED BY <1>1, <1>2, <1>3, FreshFits, OneRead, TabFacts, TabMove

\* A choice, a checkout or a verification begins in the tab.
LEMMA BeginInv ==
    ASSUME PageAssumption, PageInv, NEW t \in Tabs,
           (\E c \in PlanChoices : select(t, c)) \/ createCheckout(t) \/ verifyPayment(t)
    PROVE PageInv'
<1>1. CASE \E c \in PlanChoices : select(t, c)
  <2>1. PICK c \in PlanChoices : select(t, c) BY <1>1
  <2> DEFINE p == [page[t] EXCEPT !.selected = c]
  <2>2. page' = [page EXCEPT ![t] = p] /\ UNCHANGED <<account, reads, answers, call>> BY <2>1, TabFacts DEF select
  <2>3. /\ p \in TabRow /\ p.billing = page[t].billing /\ p.session = page[t].session
        /\ p.evidenceRecorded = page[t].evidenceRecorded
    BY TabFacts DEF TabRow
  <2> HIDE DEF p
  <2>4. TabFits(p, account) BY <2>3, TabFacts DEF TabFits
  <2> QED BY <2>2, <2>3, <2>4, TabFacts, TabMove
<1>2. CASE createCheckout(t)
  <2> DEFINE p == [page[t] EXCEPT !.busy = "checkout", !.session = NoSession, !.verified = FALSE]
             k == [NoCall EXCEPT !.kind = "checkout", !.choice = page[t].selected, !.awaited = TRUE]
  <2>1. page' = [page EXCEPT ![t] = p] /\ call' = [call EXCEPT ![t] = k] /\ UNCHANGED <<account, reads, answers>>
    BY <1>2, TabFacts DEF createCheckout
  <2>2. /\ p \in TabRow /\ p.billing = page[t].billing /\ p.session = NoSession
        /\ p.evidenceRecorded = page[t].evidenceRecorded
    BY TabFacts, FreshFits DEF TabRow
  <2>3. page[t].selected \in PlanChoices BY TabFacts DEF TabRow
  <2> HIDE DEF p
  <2>4. NoCall \in CallRow /\ NoCall.reply = "none" /\ NoCall.session = NoSession BY FreshFits DEF NoCall
  <2>5. /\ k \in CallRow /\ k.kind = "checkout" /\ k.choice = page[t].selected
        /\ k.reply = "none" /\ k.session = NoSession
    BY <2>3, <2>4 DEF CallRow
  <2> HIDE DEF k
  <2>6. ReplyFits(k, account) BY <2>3, <2>5, FreshFits DEF ReplyFits
  <2>7. TabFits(p, account) BY <2>2, TabFacts, FreshFits DEF TabFits
  <2> QED BY <2>1, <2>2, <2>5, <2>6, <2>7, TabFacts, TabMove
<1>3. CASE verifyPayment(t)
  <2> DEFINE p == [page[t] EXCEPT !.busy = "verify"]
             k == [NoCall EXCEPT !.kind = "verify", !.awaited = TRUE]
  <2>1. page' = [page EXCEPT ![t] = p] /\ call' = [call EXCEPT ![t] = k] /\ UNCHANGED <<account, reads, answers>>
    BY <1>3, TabFacts DEF verifyPayment
  <2>2. /\ p \in TabRow /\ p.billing = page[t].billing /\ p.session = page[t].session
        /\ p.evidenceRecorded = page[t].evidenceRecorded
    BY TabFacts DEF TabRow
  <2> HIDE DEF p
  <2>3. NoCall \in CallRow /\ NoCall.reply = "none" /\ NoCall.session = NoSession BY FreshFits DEF NoCall
  <2>4. k \in CallRow /\ k.kind = "verify" /\ k.reply = "none" /\ k.session = NoSession BY <2>3 DEF CallRow
  <2> HIDE DEF k
  <2>5. ReplyFits(k, account) BY <2>4, FreshFits DEF ReplyFits
  <2>6. TabFits(p, account) BY <2>2, TabFacts DEF TabFits
  <2> QED BY <2>1, <2>2, <2>4, <2>5, <2>6, TabFacts, TabMove
<1> QED BY <1>1, <1>2, <1>3

\* A reply that is so is so for whoever still awaits it.
LEMMA ReplyIs ==
    ASSUME PageAssumption, PageInv, NEW t \in Tabs, NEW reply \in {"session", "verified", "unverified", "error"},
           NEW s \in SessionRow, Reply(t, reply, s), NEW acc, SessionFits(s, acc), Kept(account, acc),
           reply = "verified" => acc.evidence
    PROVE \E k \in CallRow : call' = [call EXCEPT ![t] = k] /\ ReplyFits(k, acc)
<1> DEFINE k == IF call[t].awaited THEN [call[t] EXCEPT !.reply = reply, !.session = s] ELSE NoCall
<1>1. call' = [call EXCEPT ![t] = k] BY DEF Reply
<1>2. k \in CallRow /\ ReplyFits(k, acc)
  <2>1. CASE call[t].awaited
    <3>1. k = [call[t] EXCEPT !.reply = reply, !.session = s] BY <2>1
    <3>2. k \in CallRow /\ k.session = s /\ k.reply = reply /\ k.kind = call[t].kind /\ k.choice = call[t].choice
      BY <3>1, TabFacts DEF CallRow
    <3> QED BY <3>2, TabFacts DEF ReplyFits
  <2>2. CASE ~call[t].awaited BY <2>2, FreshFits
  <2> QED BY <2>1, <2>2
<1> HIDE DEF k
<1> QED BY <1>1, <1>2

\* POST /api/billing/checkout: the lock is taken once, and the reply names it.
LEMMA PostCheckoutInv ==
    ASSUME PageAssumption, PageInv, NEW t \in Tabs,
           NEW outcome \in {"refused", "failed", "not_initialized", "initialized"}, postCheckout(t, outcome)
    PROVE PageInv'
<1> DEFINE locked == IF account.locked = NoChoice THEN call[t].choice ELSE account.locked
           link == account.link \/ outcome = "initialized"
           acc == [account EXCEPT !.locked = locked, !.link = link]
           sold == projectBillingCheckoutSession(locked, outcome = "initialized")
<1>0. UNCHANGED <<page, reads, answers>> BY DEF postCheckout
<1>1. locked \in PlanChoices /\ locked # NoChoice /\ (account.locked # NoChoice => locked = account.locked)
  <2>1. call[t].choice \in PlanChoices BY TabFacts DEF postCheckout, ReplyFits
  <2>2. account.locked \in PlanChoices \cup {NoChoice} BY TabFacts DEF ServerRow
  <2> QED BY <2>1, <2>2 DEF PageAssumption
<1>2. link \in BOOLEAN OBVIOUS
<1>3. \/ outcome = "refused" /\ account' = account /\ Reply(t, "error", NoSession)
      \/ outcome # "refused" /\ account' = acc /\ (Reply(t, "error", NoSession) \/ Reply(t, "session", sold))
  BY DEF postCheckout
<1>4. sold = [choice |-> locked, link |-> outcome = "initialized"] BY DEF projectBillingCheckoutSession
<1> HIDE DEF locked
<1>5. /\ acc \in ServerRow /\ acc.locked = locked /\ acc.link = link /\ acc.paid = account.paid
      /\ acc.evidence = account.evidence /\ acc.activated = account.activated
  BY <1>1, <1>2, TabFacts DEF ServerRow
<1>6. sold \in SessionRow /\ sold.choice = locked /\ (sold.link => link)
  <2> HIDE DEF sold
  <2>1. (outcome = "initialized") \in BOOLEAN OBVIOUS
  <2>2. sold \in SessionRow /\ sold.choice = locked BY <1>1, <1>4, <2>1 DEF SessionRow
  <2>3. sold.link => outcome = "initialized" BY <1>4
  <2> QED BY <2>2, <2>3
<1> HIDE DEF acc, sold, link
<1>7. ServerFits(acc) BY <1>1, <1>5, TabFacts DEF ServerFits
<1>8. Kept(account, acc)
  <2>1. account.link => link BY DEF link
  <2> QED BY <1>1, <1>5, <2>1 DEF Kept
<1>9. SessionFits(sold, acc) BY <1>1, <1>5, <1>6 DEF SessionFits
<1>10. account' \in ServerRow /\ ServerFits(account') /\ Kept(account, account') BY <1>3, <1>5, <1>7, <1>8, TabFacts
<1>11. PICK k \in CallRow : call' = [call EXCEPT ![t] = k] /\ ReplyFits(k, account')
  <2>1. CASE Reply(t, "error", NoSession) BY <2>1, <1>10, FreshFits, ReplyIs
  <2>2. CASE account' = acc /\ Reply(t, "session", sold) BY <2>2, <1>6, <1>8, <1>9, ReplyIs
  <2> QED BY <1>3, <2>1, <2>2
<1>12. TabFits(page[t], account') /\ \A a \in answers[t] : BillingFits(a, account') BY <1>10, TabFacts, KeptFits
<1> QED BY <1>0, <1>10, <1>11, <1>12, TabFacts, TabMove

\* POST /api/billing/verify: evidence only of a payment, told only then.
LEMMA PostVerifyInv ==
    ASSUME PageAssumption, PageInv, NEW t \in Tabs, NEW ok \in BOOLEAN, postVerify(t, ok) PROVE PageInv'
<1> DEFINE acc == [account EXCEPT !.evidence = account.evidence \/ account.paid]
<1>0. UNCHANGED <<page, reads, answers>> BY DEF postVerify
<1>1. \/ account' = account /\ Reply(t, "error", NoSession)
      \/ account' = acc /\ ((account.paid /\ Reply(t, "verified", NoSession)) \/ Reply(t, "unverified", NoSession))
  BY DEF postVerify
<1>2. /\ acc \in ServerRow /\ acc.locked = account.locked /\ acc.link = account.link /\ acc.paid = account.paid
      /\ (acc.evidence <=> account.evidence \/ account.paid) /\ acc.activated = account.activated
  <2>1. (account.evidence \/ account.paid) \in BOOLEAN OBVIOUS
  <2> QED BY <2>1, TabFacts DEF ServerRow
<1> HIDE DEF acc
<1>3. ServerFits(acc) /\ Kept(account, acc) BY <1>2, TabFacts DEF ServerFits, Kept
<1>4. account' \in ServerRow /\ ServerFits(account') /\ Kept(account, account') BY <1>1, <1>2, <1>3, TabFacts
<1>5. PICK k \in CallRow : call' = [call EXCEPT ![t] = k] /\ ReplyFits(k, account')
  <2>1. CASE Reply(t, "error", NoSession) BY <2>1, <1>4, FreshFits, ReplyIs
  <2>2. CASE Reply(t, "unverified", NoSession) BY <2>2, <1>4, FreshFits, ReplyIs
  <2>3. CASE account' = acc /\ account.paid /\ Reply(t, "verified", NoSession)
    BY <2>3, <1>2, <1>4, FreshFits, ReplyIs
  <2> QED BY <1>1, <2>1, <2>2, <2>3
<1>6. TabFits(page[t], account') /\ \A a \in answers[t] : BillingFits(a, account') BY <1>4, TabFacts, KeptFits
<1> QED BY <1>0, <1>4, <1>5, <1>6, TabFacts, TabMove

\* A reply reaches its tab.
LEMMA RepliedInv ==
    ASSUME PageAssumption, PageInv, NEW t \in Tabs, checkoutReplied(t) \/ verifyReplied(t) PROVE PageInv'
<1>1. CASE checkoutReplied(t)
  <2> DEFINE p == [page[t] EXCEPT !.busy = "idle", !.session = call[t].session]
             n == IF reads[t] + Cardinality(answers[t]) < MaxReads THEN reads[t] + 1 ELSE reads[t]
  <2>1. page' = [page EXCEPT ![t] = p] /\ call' = [call EXCEPT ![t] = NoCall] /\ UNCHANGED <<account, answers>>
    BY <1>1, TabFacts DEF checkoutReplied
  <2>2. reads' = [reads EXCEPT ![t] = n] BY <1>1 DEF checkoutReplied, Loaded
  <2>3. call[t].session \in SessionRow /\ SessionFits(call[t].session, account) BY TabFacts DEF CallRow, ReplyFits
  <2>4. /\ p \in TabRow /\ p.billing = page[t].billing /\ p.session = call[t].session
        /\ p.evidenceRecorded = page[t].evidenceRecorded
    BY <2>3, TabFacts DEF TabRow
  <2> HIDE DEF p
  <2>5. TabFits(p, account) BY <2>3, <2>4, TabFacts DEF TabFits
  <2>6. n \in Nat /\ ReadsFit(n, answers[t])
    <3>1. IsFiniteSet(answers[t]) /\ reads[t] \in Nat /\ reads[t] + Cardinality(answers[t]) <= MaxReads
      BY TabFacts DEF ReadsFit
    <3>2. Cardinality(answers[t]) \in Nat /\ MaxReads \in Nat BY <3>1, FS_CardinalityType DEF PageAssumption
    <3> QED BY <3>1, <3>2 DEF ReadsFit
  <2> HIDE DEF n
  <2> QED BY <2>1, <2>2, <2>4, <2>5, <2>6, FreshFits, TabFacts, TabMove
<1>2. CASE verifyReplied(t)
  <2> DEFINE v == call[t].reply = "verified"
             p == [page[t] EXCEPT !.busy = "idle", !.verified = v, !.evidenceRecorded = page[t].evidenceRecorded \/ v]
  <2>1. page' = [page EXCEPT ![t] = p] /\ call' = [call EXCEPT ![t] = NoCall] /\ UNCHANGED <<account, reads, answers>>
    BY <1>2, TabFacts DEF verifyReplied
  <2>2. v \in BOOLEAN /\ (page[t].evidenceRecorded \/ v) \in BOOLEAN OBVIOUS
  <2>3. v => account.evidence BY TabFacts DEF ReplyFits
  <2> HIDE DEF v
  <2>4. /\ p \in TabRow /\ p.billing = page[t].billing /\ p.session = page[t].session
        /\ (p.evidenceRecorded <=> page[t].evidenceRecorded \/ v)
    BY <2>2, TabFacts DEF TabRow
  <2> HIDE DEF p
  <2>5. TabFits(p, account) BY <2>3, <2>4, TabFacts DEF TabFits
  <2> QED BY <2>1, <2>4, <2>5, FreshFits, TabFacts, TabMove
<1> QED BY <1>1, <1>2

\* Another device, the provider's page, the operator: facts are added only.
LEMMA OutsideInv ==
    ASSUME PageAssumption, PageInv, payOnProviderPage \/ operatorActivates \/ \E c \in PlanChoices : elsewhere(c)
    PROVE PageInv'
<1>0. UNCHANGED <<page, reads, answers, call>> BY DEF payOnProviderPage, operatorActivates, elsewhere
<1>1. account \in ServerRow /\ ServerFits(account) BY DEF PageInv
<1>2. account' \in ServerRow /\ ServerFits(account') /\ Kept(account, account')
  <2>1. CASE payOnProviderPage BY <2>1, <1>1 DEF payOnProviderPage, ServerRow, ServerFits, Kept
  <2>2. CASE operatorActivates BY <2>2, <1>1 DEF operatorActivates, ServerRow, ServerFits, Kept
  <2>3. ASSUME NEW c \in PlanChoices, elsewhere(c) PROVE account' \in ServerRow /\ ServerFits(account') /\ Kept(account, account')
    <3>1. ASSUME NEW l \in BOOLEAN, account.locked = NoChoice, account' = [account EXCEPT !.locked = c, !.link = l]
          PROVE account' \in ServerRow /\ ServerFits(account') /\ Kept(account, account')
      BY <3>1, <1>1 DEF ServerRow, ServerFits, Kept, PageAssumption
    <3>2. CASE account.paid /\ ~account.evidence /\ account' = [account EXCEPT !.evidence = TRUE]
      BY <3>2, <1>1 DEF ServerRow, ServerFits, Kept
    <3> QED BY <2>3, <3>1, <3>2 DEF elsewhere
  <2> QED BY <2>1, <2>2, <2>3
<1>3. ASSUME NEW t \in Tabs
      PROVE TabFits(page[t], account') /\ ReplyFits(call[t], account') /\ \A a \in answers[t] : BillingFits(a, account')
  BY <1>2, TabFacts, KeptFits
<1> QED BY <1>0, <1>2, <1>3 DEF PageInv

\* Every step of a tab, of the server and of the outside keeps the invariant.
LEMMA PageNextInv == ASSUME PageAssumption, PageInv, [PageNext]_pageVars PROVE PageInv'
<1>1. CASE UNCHANGED pageVars BY <1>1 DEF pageVars, PageInv
<1>2. ASSUME NEW t \in Tabs, TabNext(t) PROVE PageInv'
  BY <1>2, GetInv, PostVerifyInv, ApplyBillingInv, BeginInv, PostCheckoutInv, ReloadInv, RepliedInv DEF TabNext
<1> QED BY <1>1, <1>2, OutsideInv DEF PageNext

\* What a tab shows is what the server holds.
LEMMA PageInvMeans == PageAssumption /\ PageInv => PageTypeOK /\ PageIsHonest
<1> SUFFICES ASSUME PageAssumption, PageInv PROVE PageTypeOK /\ PageIsHonest OBVIOUS
<1>1. PageTypeOK
  <2>1. account.locked \in PlanChoices \cup {NoChoice} BY DEF PageInv, ServerRow
  <2>2. ASSUME NEW t \in Tabs
        PROVE /\ page[t].selected \in PlanChoices /\ page[t].busy \in {"idle", "checkout", "verify"}
              /\ reads[t] + Cardinality(answers[t]) \in 0 .. MaxReads + 1
              /\ call[t].reply \in {"none", "session", "verified", "unverified", "error"}
    <3>1. page[t].selected \in PlanChoices /\ page[t].busy \in {"idle", "checkout", "verify"} BY TabFacts DEF TabRow
    <3>2. call[t].reply \in {"none", "session", "verified", "unverified", "error"} BY TabFacts DEF CallRow
    <3>3. IsFiniteSet(answers[t]) /\ reads[t] \in Nat /\ reads[t] + Cardinality(answers[t]) <= MaxReads
      BY TabFacts DEF ReadsFit
    <3>4. Cardinality(answers[t]) \in Nat /\ MaxReads \in Nat BY <3>3, FS_CardinalityType DEF PageAssumption
    <3> QED BY <3>1, <3>2, <3>3, <3>4
  <2> QED BY <2>1, <2>2 DEF PageTypeOK
<1>2. ASSUME NEW t \in Tabs
      PROVE /\ resolveBillingCheckoutState(page[t]) = "activated" => account.activated /\ account.paid
            /\ resolveBillingCheckoutState(page[t]) = "evidence_recorded" => account.evidence /\ account.paid
            /\ page[t].session.choice # NoChoice =>
                 /\ page[t].session.choice = account.locked
                 /\ lockedPlanDiffers(t) <=> page[t].selected # account.locked
            /\ page[t].evidenceRecorded => ~Offers(t) /\ ~ShowsLink(t)
            /\ ShowsLink(t) => account.link
  <2> DEFINE state == resolveBillingCheckoutState(page[t])
  <2>1. /\ page[t].billing.read \in BOOLEAN /\ page[t].billing.confirmed \in BOOLEAN
        /\ page[t].evidenceRecorded \in BOOLEAN /\ page[t].billing.provider \in BOOLEAN
    BY TabFacts DEF TabRow, BillingRow
  <2>2. state = "activated" => page[t].billing.confirmed BY <2>1 DEF resolveBillingCheckoutState
  <2>3. state = "evidence_recorded" => page[t].evidenceRecorded BY <2>1 DEF resolveBillingCheckoutState
  <2>4. page[t].evidenceRecorded => state \in {"unavailable", "activated", "evidence_recorded"}
    BY <2>1 DEF resolveBillingCheckoutState
  <2>5. Offers(t) <=> state \in {"free", "awaiting_verification"} BY DEF Offers, billingCheckoutOffered
  <2> HIDE DEF state
  <2>6. page[t].billing.confirmed => account.activated /\ account.paid
    BY TabFacts DEF TabFits, BillingFits, ServerFits
  <2>7. page[t].evidenceRecorded => account.evidence /\ account.paid BY TabFacts DEF TabFits, ServerFits
  <2>8. SessionFits(page[t].session, account) BY TabFacts DEF TabFits
  <2>9. page[t].evidenceRecorded => ~Offers(t) /\ ~ShowsLink(t) BY <2>4, <2>5 DEF ShowsLink
  <2>10. page[t].session.choice # NoChoice =>
            /\ page[t].session.choice = account.locked
            /\ lockedPlanDiffers(t) <=> page[t].selected # account.locked
    BY <2>8 DEF SessionFits, lockedPlanDiffers
  <2>11. ShowsLink(t) => account.link BY <2>8 DEF SessionFits, ShowsLink
  <2> QED BY <2>2, <2>3, <2>6, <2>7, <2>9, <2>10, <2>11 DEF state
<1> QED BY <1>1, <1>2 DEF PageIsHonest

\* The tabs of the settings page and the server behind them, for any number of
\* tabs, plans and outstanding reads.
THEOREM PageInvariance == ASSUME PageAssumption PROVE PageSpec => []PageInv
<1>1. PageInit => PageInv BY PageInitInv
<1>2. PageInv /\ [PageNext]_pageVars => PageInv' BY PageNextInv
<1> QED BY <1>1, <1>2, PTL DEF PageSpec

\* The settings page claims nothing the server does not hold, however old the
\* answers are that it shows (settings/page.tsx, billing-checkout.tsx).
THEOREM PageAlwaysHonest == ASSUME PageAssumption PROVE PageSpec => [](PageTypeOK /\ PageIsHonest)
<1>1. PageInv => PageTypeOK /\ PageIsHonest BY PageInvMeans
<1> QED BY <1>1, PageInvariance, PTL
===============================================================================
