---------------------------- MODULE ComposedEntry ----------------------------
(***************************************************************************)
(* One entry composed and filled on paper: composeAndSubmit freezes what   *)
(* it was asked, builds the decision from the setup row, has it evaluated, *)
(* mints an execution authorization bound to the order and its context,    *)
(* and executeComposedEntry reads everything again before it consumes the  *)
(* authorization and fills.  Between the reads the caller may alter the    *)
(* object it passed, the scanner may move or score the setup, the profile  *)
(* may be disabled, the authorization may expire or be evicted and the     *)
(* reservation reclaimed; a second composition runs beside the first.      *)
(*                                                                         *)
(* Limits on open positions, kill switches and the exits are the subject   *)
(* of PaperExecution; the broker's side of the composition that of         *)
(* BrokerSubmit.                                                           *)
(***************************************************************************)
EXTENDS Naturals, Sequences, FiniteSets, SequencesExt

CONSTANTS
    Composers,      \* concurrent calls of composeAndSubmit
    EntryRequests,       \* inputs: [user, profile, setup, action, cited]
    ProfileOwner,   \* profile -> its user
    Provider,       \* profile -> "paper" or "demo" (provider and environment)
    SetupOwner,     \* setup -> the user who owns its strategy
    SetupAction,    \* setup -> "open_long" or "open_short", its direction
    Scores,         \* quality scores; 0 is below the strategy's minimum
    Sizes,          \* position sizes of an approval; 0 stands for none
    AuthCapacity,   \* maxEntries of the authorization map
    MaxEntryAttempts,    \* bound: attempts at one entry
    MaxMoves,       \* bound: changes of inputs, setups and profiles
    MaxFaults       \* bound: database errors and failed fills

VARIABLES
    input,      \* the object each caller passed, still in the caller's hands
    setupRows,  \* setup -> [state, score]
    enabled,    \* profile -> BOOLEAN
    riskRows,   \* risk_decisions: [profile, setup, score, size, outcome]
    reserved,   \* ids of the decisions whose reservation is live
    auths,      \* the authorization map, oldest entry first
    entryOrders,     \* execution_orders of entries: [profile, setup, attempt, ...]
    trail,      \* the execution_events compositions wrote
    comp,       \* the compositions
    moves,      \* changes made by others so far
    faults      \* faults so far

EntryAssumption ==
    /\ EntryRequests # {}
    /\ \A r \in EntryRequests : r.profile \in DOMAIN ProfileOwner /\ r.setup \in DOMAIN SetupOwner
    /\ Sizes \subseteq Nat /\ Scores \subseteq Nat /\ {0, 1} \subseteq Scores
    /\ AuthCapacity \in Nat \ {0} /\ MaxMoves \in Nat /\ MaxFaults \in Nat

entryVars == <<input, setupRows, enabled, riskRows, reserved, auths, entryOrders,
               trail, comp, moves, faults>>

Setups == DOMAIN SetupOwner
Profiles == DOMAIN ProfileOwner

NoComposition == [pc |-> "idle", snap |-> CHOOSE r \in EntryRequests : TRUE, on |-> FALSE, score |-> 0,
         attempt |-> 0, risk |-> 0, size |-> 0, auth |-> 0, rebuilt |-> 0, answer |-> "none"]

ComposedInit ==
    /\ input \in [Composers -> EntryRequests]
    /\ setupRows = [s \in Setups |-> [state |-> "confirmed", score |-> 1]]
    /\ enabled = [p \in Profiles |-> TRUE]
    /\ riskRows = <<>>
    /\ reserved = {}
    /\ auths = <<>>
    /\ entryOrders = {}
    /\ trail = {}
    /\ comp = [c \in Composers |-> NoComposition]
    /\ moves = 0
    /\ faults = 0

(***************************************************************************)
(* The authorization map.                                                  *)
(***************************************************************************)
ContextFields == {"user", "profile", "provider", "setup", "risk"}
BindingFields == {"attempt", "quantity"}  \* client id and key; size. Prices never change

\* The fields of an issued authorization that differ from what is expected.
diffAuthorizationContext(stored, expected) ==
    {f \in ContextFields : stored[f] # expected[f]}

assertAuthorizationContext(stored, expected) ==
    diffAuthorizationContext(stored, expected) = {}

peekAuthorization(id) == {auths[i] : i \in {j \in DOMAIN auths : auths[j].id = id}}

\* The map without an entry; its ids are unique.
Without(id) ==
    LET at == {i \in DOMAIN auths : auths[i].id = id}
    IN IF at = {} THEN auths ELSE RemoveAt(auths, CHOOSE i \in at : TRUE)

\* The request presented equals the one the authorization was issued for, and
\* so does the context.
sameB1Binding(peeked, request, context) ==
    /\ \A f \in BindingFields : peeked[f] = request[f]
    /\ assertAuthorizationContext(peeked.context, context)

\* A full map gives up its oldest entry to the new one.
Issued(a) == Append(IF Len(auths) >= AuthCapacity THEN Tail(auths) ELSE auths, a)

(***************************************************************************)
(* Reading the database.                                                   *)
(***************************************************************************)
\* buildServerExecutionDecision: eligible states and scores only.
Buildable(row) == row.state \in {"confirmed", "triggered"} /\ row.score > 0

EntriesOf(p, s) == {o \in entryOrders : o.profile = p /\ o.setup = s}

OrderAt(p, s, k) == {o \in EntriesOf(p, s) : o.attempt = k}

\* deriveComposedEntryIdentity: the first attempt, or the one after the failed.
Attempt(p, s) ==
    IF OrderAt(p, s, 1) = {} THEN 1
    ELSE Cardinality({o \in EntriesOf(p, s) : o.status = "failed"}) + 1

LiveEntry(p, s) == \E o \in OrderAt(p, s, 1) : o.status # "failed"

ContextOf(c) == [user     |-> comp[c].snap.user,
                 profile  |-> comp[c].snap.profile,
                 provider |-> Provider[comp[c].snap.profile],
                 setup    |-> comp[c].snap.setup,
                 risk     |-> comp[c].risk]

(***************************************************************************)
(* Steps of a composition.  A step ends at an await.                       *)
(***************************************************************************)
Go(c, place) == comp' = [comp EXCEPT ![c].pc = place]

\* The call ends; "thrown" is an exception, everything else an answer.
Answer(c, answer) == comp' = [comp EXCEPT ![c].pc = "idle", ![c].answer = answer]

TrailEvent(c, kind) == trail \cup {[by |-> c, kind |-> kind, risk |-> comp[c].risk]}

\* auditRejection swallows its own failure; the answer is given either way.
Reject(c) ==
    /\ Answer(c, "rejected")
    /\ trail' \in {trail, TrailEvent(c, "execution_rejected")}

Throw(c) == Answer(c, "thrown") /\ UNCHANGED trail

\* The object the caller holds still says what was frozen.
assertCompositionInputUnchanged(c) == input[c] = comp[c].snap

freezeCompositionInput(c) ==
    /\ comp[c].pc = "idle" /\ comp[c].answer = "none"
    /\ IF input[c].action = "invalid"
       THEN Answer(c, "thrown")
       ELSE comp' = [comp EXCEPT ![c].pc = "frozen", ![c].snap = input[c]]
    /\ UNCHANGED <<input, setupRows, enabled, riskRows, reserved, auths, entryOrders,
                   trail, moves, faults>>

\* The profile and the setup are read for this user; the decision is built
\* from the row, and an action that was asked for must agree with it.
rejectDecision(snap, row) ==
    \/ snap.action = "close_position"
    \/ ~Buildable(row)
    \/ snap.action # "none" /\ snap.action # SetupAction[snap.setup]

composeDecision(c) ==
    LET snap == comp[c].snap
        row == setupRows[snap.setup]
    IN  /\ comp[c].pc = "frozen"
        /\ IF \/ ~assertCompositionInputUnchanged(c)
              \/ ProfileOwner[snap.profile] # snap.user
              \/ SetupOwner[snap.setup] # snap.user
           THEN Throw(c)
           ELSE IF rejectDecision(snap, row)
           THEN Reject(c)
           ELSE /\ comp' = [comp EXCEPT ![c].pc = "built", ![c].on = enabled[snap.profile],
                                         ![c].score = row.score]
                /\ UNCHANGED trail
        /\ UNCHANGED <<input, setupRows, enabled, riskRows, reserved, auths,
                       entryOrders, moves, faults>>

\* A paper profile whose first order lives is answered with that order.  The
\* event of a replay may be lost.
auditReplay(c) ==
    /\ Answer(c, "replayed")
    /\ trail' \in {trail, TrailEvent(c, "execution_requested")}

deriveIdentity(c) ==
    LET snap == comp[c].snap
        k == Attempt(snap.profile, snap.setup)
    IN  /\ comp[c].pc = "built"
        /\ IF ~assertCompositionInputUnchanged(c)
           THEN Throw(c)
           ELSE IF Provider[snap.profile] = "paper" /\ LiveEntry(snap.profile, snap.setup)
           THEN auditReplay(c)
           ELSE /\ k <= MaxEntryAttempts
                /\ comp' = [comp EXCEPT ![c].pc = "derived", ![c].attempt = k]
                /\ UNCHANGED trail
        /\ UNCHANGED <<input, setupRows, enabled, riskRows, reserved, auths,
                       entryOrders, moves, faults>>

\* The evaluation commits its row and its reservation before the caller's
\* object is looked at again.
evaluateRisk(c) ==
    LET snap == comp[c].snap
        id == Len(riskRows) + 1
    IN  /\ comp[c].pc = "derived"
        /\ \E outcome \in {"approved", "rejected"}, size \in Sizes :
              /\ riskRows' = Append(riskRows,
                    [profile |-> snap.profile, setup |-> snap.setup,
                     score |-> comp[c].score, size |-> size, outcome |-> outcome])
              /\ reserved' = IF outcome = "approved" THEN reserved \cup {id}
                             ELSE reserved
        /\ comp' = IF assertCompositionInputUnchanged(c)
                   THEN [comp EXCEPT ![c].pc = "evaluated", ![c].risk = id]
                   ELSE [comp EXCEPT ![c].pc = "idle", ![c].answer = "thrown", ![c].risk = id]
        /\ UNCHANGED <<input, setupRows, enabled, auths, entryOrders, trail, moves, faults>>

\* Only the paper provider on a paper account is granted.
resolveBrokerAccountAuthorization(p) == Provider[p] = "paper"

\* The gates as the composition evaluates them: on the profile and the health
\* it read, the approval and the grant.  A decision id the caller cites is
\* compared with the evaluation just made.
Gates(c, healthy) ==
    /\ comp[c].snap.cited \in {0, comp[c].risk}
    /\ comp[c].on
    /\ healthy
    /\ riskRows[comp[c].risk].outcome = "approved"
    /\ resolveBrokerAccountAuthorization(comp[c].snap.profile)

\* createAuthorization for an approval with a usable size; otherwise the
\* reservation is given back.
mintForEntry(c) ==
    LET row == riskRows[comp[c].risk]
        id == comp[c].risk
    IN  /\ comp[c].pc = "evaluated"
        /\ \E healthy \in BOOLEAN :
             IF ~assertCompositionInputUnchanged(c)
             THEN Throw(c) /\ UNCHANGED <<auths, reserved>>
             ELSE IF ~Gates(c, healthy) \/ row.size = 0
             THEN /\ Reject(c)
                  /\ reserved' = reserved \ {comp[c].risk}
                  /\ UNCHANGED auths
             ELSE /\ auths' = Issued([id |-> id, attempt |-> comp[c].attempt,
                                      quantity |-> row.size, context |-> ContextOf(c)])
                  /\ comp' = [comp EXCEPT ![c].pc = "minted", ![c].auth = id, ![c].size = row.size]
                  /\ UNCHANGED <<reserved, trail>>
        /\ UNCHANGED <<input, setupRows, enabled, riskRows, entryOrders, moves, faults>>

\* A composition that fails after minting revokes the authorization and gives
\* the reservation back, answering or throwing.
AbandonEntry(c, ending) ==
    /\ auths' = Without(comp[c].auth)
    /\ reserved' = reserved \ {comp[c].risk}
    /\ IF ending = "thrown" THEN Throw(c) ELSE Reject(c)

\* runFinalSafetyFence; `allowed` stands for automation and kill switches.
Fence(c, allowed) ==
    /\ allowed
    /\ enabled[comp[c].snap.profile]
    /\ \E a \in peekAuthorization(comp[c].auth) :
          assertAuthorizationContext(a.context, ContextOf(c))
    /\ comp[c].risk \in reserved

OnlyComposition == UNCHANGED <<input, setupRows, enabled, riskRows, entryOrders, moves, faults>>

finalFence(c) ==
    /\ comp[c].pc \in {"minted", "cited"}
    /\ \E allowed \in BOOLEAN :
         IF Fence(c, allowed)
         THEN /\ Go(c, IF comp[c].pc = "minted" THEN "fenced" ELSE "gated")
              /\ UNCHANGED <<auths, reserved, trail>>
         ELSE AbandonEntry(c, "rejected")
    /\ OnlyComposition

\* Bug: the rebuilt decision only has to exist.
anyExecutionDecision(rebuilt, composed) == TRUE

\* Two decisions built from the same setup differ in its score alone: prices
\* and identities of a setup are never rewritten.
sameExecutionDecision(rebuilt, composed) == rebuilt = composed

\* executeComposedEntry builds the decision again and refuses another one.
rereadSetup(c) ==
    LET row == setupRows[comp[c].snap.setup]
    IN  /\ comp[c].pc = "fenced"
        /\ IF /\ enabled[comp[c].snap.profile]
              /\ Buildable(row)
              /\ sameExecutionDecision(row.score, comp[c].score)
           THEN /\ comp' = [comp EXCEPT ![c].pc = "reread", ![c].rebuilt = row.score]
                /\ UNCHANGED <<auths, reserved, trail>>
           ELSE AbandonEntry(c, "rejected")
        /\ OnlyComposition

\* The decision row must be this profile's and setup's, and an approval.  Its
\* age is measured against the instant the composition froze, before the row
\* existed: it never counts as expired here.
validateCitedDecision(c) ==
    LET row == riskRows[comp[c].risk]
    IN  /\ row.profile = comp[c].snap.profile
        /\ row.setup = comp[c].snap.setup
        /\ row.outcome = "approved"

\* The approval, read again, has the size the composition asks for.
loadCitedRiskApproval(c) == riskRows[comp[c].risk].size = comp[c].size

rereadApproval(c) ==
    /\ comp[c].pc = "reread"
    /\ IF /\ validateCitedDecision(c)
          /\ loadCitedRiskApproval(c)
          /\ comp[c].risk \in reserved
       THEN Go(c, "cited") /\ UNCHANGED <<auths, reserved, trail>>
       ELSE AbandonEntry(c, "rejected")
    /\ OnlyComposition

RequestOf(c) == [attempt |-> comp[c].attempt, quantity |-> comp[c].size]

Presented(c) == OrderAt(comp[c].snap.profile, comp[c].snap.setup, comp[c].attempt)

\* The authorization is compared with the request; an order under this
\* identity is a replay, and a moved attempt index is stale.
bindRequest(c) ==
    /\ comp[c].pc = "gated"
    /\ \E marketOk \in BOOLEAN :
         IF /\ marketOk
            /\ \E a \in peekAuthorization(comp[c].auth) :
                  sameB1Binding(a, RequestOf(c), ContextOf(c))
         THEN IF \E o \in Presented(c) : o.status # "failed"
              THEN /\ Go(c, "replayed")
                   /\ reserved' = reserved \ {comp[c].risk}
                   /\ UNCHANGED <<auths, trail>>
              ELSE IF Attempt(comp[c].snap.profile, comp[c].snap.setup) = comp[c].attempt
              THEN Go(c, "bound") /\ UNCHANGED <<auths, reserved, trail>>
              ELSE AbandonEntry(c, "rejected")
         ELSE AbandonEntry(c, "rejected")
    /\ OnlyComposition

\* One authorization is consumed once, for the order it was issued for.
consumeForEntry(c) ==
    /\ comp[c].pc = "bound"
    /\ IF \E a \in peekAuthorization(comp[c].auth) :
             sameB1Binding(a, RequestOf(c), ContextOf(c))
       THEN /\ auths' = Without(comp[c].auth)
            /\ Go(c, "consumed")
            /\ UNCHANGED <<reserved, trail>>
       ELSE AbandonEntry(c, "rejected")
    /\ OnlyComposition

\* runEntryFill: any order under the client id, failed ones included, is
\* replayed; otherwise the order is inserted and filled, or marked failed.
runEntryFill(c) ==
    LET snap == comp[c].snap
        Row(status) == [profile |-> snap.profile, setup |-> snap.setup,
                        attempt |-> comp[c].attempt, score |-> comp[c].rebuilt,
                        quantity |-> comp[c].size,
                        risk |-> comp[c].risk, status |-> status, by |-> c]
    IN  /\ comp[c].pc = "consumed"
        /\ \/ /\ Presented(c) # {}
              /\ Go(c, "replayed")
              /\ reserved' = reserved \ {comp[c].risk}
              /\ UNCHANGED <<entryOrders, faults, trail>>
           \/ /\ Presented(c) = {}
              /\ entryOrders' = entryOrders \cup {Row("filled")}
              /\ Go(c, "filled")
              /\ reserved' = reserved \ {comp[c].risk}
              /\ UNCHANGED <<faults, trail>>
           \/ /\ Presented(c) = {}
              /\ faults < MaxFaults
              /\ faults' = faults + 1
              /\ entryOrders' = entryOrders \cup {Row("failed")}
              /\ reserved' = reserved \ {comp[c].risk}
              /\ Reject(c)
        /\ UNCHANGED <<input, setupRows, enabled, riskRows, auths, moves>>

\* submitPaper revokes what is left of the authorization and writes the trail;
\* that write is not caught: its failure throws over an order that is filled.
auditSuccess(c) ==
    /\ comp[c].pc \in {"filled", "replayed"}
    /\ auths' = Without(comp[c].auth)
    /\ \/ /\ Answer(c, comp[c].pc)
          /\ trail' = TrailEvent(c, "execution_requested")
          /\ UNCHANGED faults
       \/ /\ faults < MaxFaults
          /\ faults' = faults + 1
          /\ Throw(c)
    /\ UNCHANGED <<input, setupRows, enabled, riskRows, reserved, entryOrders, moves>>

\* A query fails while the paper entry is being checked.
entryFails(c) ==
    /\ comp[c].pc \in {"minted", "fenced", "reread", "cited", "gated"}
    /\ faults < MaxFaults
    /\ faults' = faults + 1
    /\ AbandonEntry(c, "thrown")
    /\ UNCHANGED <<input, setupRows, enabled, riskRows, entryOrders, moves>>

(***************************************************************************)
(* The others.                                                             *)
(***************************************************************************)
Moved == moves < MaxMoves /\ moves' = moves + 1

\* The caller alters the object it passed.
alterInput(c, request) ==
    /\ Moved
    /\ comp[c].pc # "idle"
    /\ input' = [input EXCEPT ![c] = request]
    /\ UNCHANGED <<setupRows, enabled, riskRows, reserved, auths, entryOrders, trail, comp, faults>>

\* The scanner ends the setup or scores it again.
moveSetup(s, row) ==
    /\ Moved
    /\ setupRows[s].state = "confirmed"
    /\ row # setupRows[s]
    /\ setupRows' = [setupRows EXCEPT ![s] = row]
    /\ UNCHANGED <<input, enabled, riskRows, reserved, auths, entryOrders, trail, comp, faults>>

disableProfile(p) ==
    /\ Moved
    /\ enabled[p]
    /\ enabled' = [enabled EXCEPT ![p] = FALSE]
    /\ UNCHANGED <<input, setupRows, riskRows, reserved, auths, entryOrders, trail, comp, faults>>

\* The time to live of an authorization passes.
expireAuthorization(i) ==
    /\ Moved
    /\ auths' = Without(auths[i].id)
    /\ UNCHANGED <<input, setupRows, enabled, riskRows, reserved, entryOrders, trail, comp, faults>>

\* Another evaluation of the profile reclaims a reservation past its expiry.
reclaimReservation(d) ==
    /\ Moved
    /\ reserved' = reserved \ {d}
    /\ UNCHANGED <<input, setupRows, enabled, riskRows, auths, entryOrders, trail, comp, faults>>

\* The caller asks again, with an object of its choice.
composeAgain(c, request) ==
    /\ comp[c].pc = "idle"
    /\ comp[c].answer # "none"
    /\ Moved
    /\ input' = [input EXCEPT ![c] = request]
    /\ comp' = [comp EXCEPT ![c] = NoComposition]
    /\ UNCHANGED <<setupRows, enabled, riskRows, reserved, auths, entryOrders, trail, faults>>

ComposeStep(c) ==
    \/ freezeCompositionInput(c) \/ composeDecision(c) \/ deriveIdentity(c)
    \/ evaluateRisk(c) \/ mintForEntry(c) \/ finalFence(c) \/ rereadSetup(c)
    \/ rereadApproval(c) \/ bindRequest(c) \/ consumeForEntry(c)
    \/ runEntryFill(c) \/ auditSuccess(c) \/ entryFails(c)

ComposedNext ==
    \/ \E c \in Composers : ComposeStep(c)
    \/ \E c \in Composers, r \in EntryRequests : alterInput(c, r) \/ composeAgain(c, r)
    \/ \E s \in Setups, st \in {"confirmed", "triggered", "expired"}, q \in Scores :
          moveSetup(s, [state |-> st, score |-> q])
    \/ \E p \in Profiles : disableProfile(p)
    \/ \E i \in DOMAIN auths : expireAuthorization(i)
    \/ \E d \in reserved : reclaimReservation(d)

ComposedSpec == ComposedInit /\ [][ComposedNext]_entryVars

(***************************************************************************)
(* Properties.                                                             *)
(***************************************************************************)
Running == {c \in Composers : comp[c].pc # "idle"}

\* Every value stays in its range: at most AuthCapacity authorizations, known
\* decisions behind every reservation.
ComposedTypeOK ==
    /\ input \in [Composers -> EntryRequests]
    /\ setupRows \in [Setups -> [state : {"confirmed", "triggered", "expired"}, score : Scores]]
    /\ enabled \in [Profiles -> BOOLEAN]
    /\ reserved \subseteq DOMAIN riskRows
    /\ Len(auths) <= AuthCapacity
    /\ \A c \in Composers :
          comp[c].answer \in {"none", "rejected", "thrown", "replayed", "filled"}
    /\ moves \in 0..MaxMoves
    /\ faults \in 0..MaxFaults

\* The order that was filled is the order that was approved: the decision row
\* behind it is an approval of the same profile, setup, score and size, on a
\* profile and a setup of one user, on the paper provider, and no two entryOrders
\* stand on one approval.
FilledIsApproved ==
    \A o \in entryOrders :
        LET d == riskRows[o.risk]
        IN  /\ d.outcome = "approved"
            /\ <<d.profile, d.setup, d.score, d.size>> =
                   <<o.profile, o.setup, o.score, o.quantity>>
            /\ o.quantity > 0
            /\ ProfileOwner[o.profile] = SetupOwner[o.setup]
            /\ Provider[o.profile] = "paper"
            /\ \A other \in entryOrders : other.risk = o.risk => other = o

\* One entry, one live order, however many compositions ask for it.
OneLiveEntry ==
    \A o, other \in entryOrders :
        /\ o.profile = other.profile
        /\ o.setup = other.setup
        /\ o.status = "filled"
        /\ other.status = "filled"
        => o = other

\* No authorization outlives the composition it was minted for: what remains in
\* the map when a call has answered could be presented again.
NothingMintedIsLeft ==
    \A i \in DOMAIN auths : \E c \in Running : comp[c].auth = auths[i].id

\* An acceptance names an order: one it filled itself, or one another
\* composition wrote; and the trail has it.
AcceptedNamesAnOrder ==
    \A c \in Composers :
        comp[c].pc = "idle" =>
          /\ comp[c].answer = "filled" =>
               /\ \E o \in Presented(c) : o.by = c /\ o.risk = comp[c].risk
               /\ [by |-> c, kind |-> "execution_requested", risk |-> comp[c].risk] \in trail
          /\ comp[c].answer = "replayed" =>
               EntriesOf(comp[c].snap.profile, comp[c].snap.setup) # {}

\* An entry, as a whole.
EntriesAreSound ==
    ComposedTypeOK /\ FilledIsApproved /\ OneLiveEntry /\ NothingMintedIsLeft /\ AcceptedNamesAnOrder

=============================================================================
