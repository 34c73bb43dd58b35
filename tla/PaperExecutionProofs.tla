------------------------ MODULE PaperExecutionProofs ------------------------
(***************************************************************************)
(* Proofs about PaperExecution, for any finite number of setups and        *)
(* overlapping calls: the books agree, a finished call leaves nothing      *)
(* behind, covered exposure stays within the limit, and a withdrawal       *)
(* before the fence prevents the fill.  And about OrderAdmission, for any  *)
(* price levels: what the gates and the bridge let through.                *)
(***************************************************************************)
EXTENDS PaperExecution, OrderAdmission, FiniteSetTheorems, SequenceTheorems, WellFoundedInduction, TLAPS

\* A call works on a setup, an exit is of a kind of exit, and only a
\* composition is checked.
SoundCall(r) ==
    /\ r.pc \in {"gates", "risk", "judge", "check", "fill"} =>
          r.setup \in Setup /\ r.op \in {"compose", "simulate"}
    /\ r.pc \in {"exit", "exitFill"} => r.setup \in Setup /\ r.kind \in ExitKind
    /\ r.pc = "gates" => r.op = "compose"
    /\ r.pc = "check" => r.op = "compose" /\ r.step # 0

\* What a call may hold, by where it is: nothing before the risk engine has
\* judged it and in an exit; a reservation h until it is released; an
\* authorization a only in the checks and after them.
HoldingFits(r, h, a) ==
    /\ r.pc \in {"idle", "gates", "risk", "next", "exit", "exitFill"} => h = "none" /\ ~a
    /\ r.pc = "judge" => ~a
    /\ r.pc = "fill" /\ r.op = "simulate" => h = "none" /\ ~a

\* What a call has recorded as withdrawn is still withdrawn (among o), and
\* shrinks as the reads that follow are passed.
WithdrawnFits(r, o) ==
    /\ r.withdrawn \subseteq o
    /\ r.pc \in {"gates", "risk", "judge"} /\ r.op = "compose" => r.withdrawn = {}
    /\ r.pc \in {"risk", "judge"} /\ r.op = "simulate" =>
          r.withdrawn \subseteq {"profile", "kill"} /\ (r.ok => "profile" \notin r.withdrawn)
    /\ r.pc = "check" =>
          /\ r.withdrawn \subseteq Switch \cup {r.setup}
          /\ r.step > 6 => "profile" \notin r.withdrawn
          /\ r.step > 7 => r.setup \notin r.withdrawn
          /\ r.step > 10 => "automation" \notin r.withdrawn
          /\ r.step > 11 => "kill" \notin r.withdrawn
    /\ r.pc = "fill" => r.withdrawn = {}

CallsFit ==
    \A c \in Caller :
       /\ SoundCall(caller[c])
       /\ HoldingFits(caller[c], holds[c], c \in auth)
       /\ WithdrawnFits(caller[c], off)

\* Reservations that cover an entry not yet filled.
Covering == {c \in Caller : holds[c] # "none" /\ ~At(c, "release")}

\* The positions opened under a reservation and those that may still be opened
\* under one fit the limit together.
CoverWithinLimit ==
    Cardinality(Open \ uncovered) + Cardinality(Covering) <= MaxPositions

PInv == TypeOK /\ CallsFit /\ LedgerConsistent /\ CoverWithinLimit

-----------------------------------------------------------------------------
(* The list of checks                                                      *)

\* How many checks there are, and the places at which the profile, the setup,
\* automation and the stops are read after the first fence.
LEMMA Checks ==
    /\ Len(runFinalSafetyFence) = 5 /\ Len(composedChecks) = 15
    /\ composedChecks[6] = "profile" /\ composedChecks[7] = "setup"
    /\ composedChecks[10] = "automation" /\ composedChecks[11] = "kill"
<1> DEFINE S == {"profile", "automation", "kill", "authorization", "reservation", "setup", "order"}
           A0 == <<"profile", "setup", "reservation">>
           B0 == <<"kill", "order">>
<1>1. /\ runFinalSafetyFence \in Seq(S) /\ Len(runFinalSafetyFence) = 5
      /\ runFinalSafetyFence[2] = "automation" /\ runFinalSafetyFence[3] = "kill"
  BY DEF runFinalSafetyFence
<1>2. A0 \in Seq(S) /\ Len(A0) = 3 /\ A0[1] = "profile" /\ A0[2] = "setup"
  OBVIOUS
<1>3. B0 \in Seq(S) /\ Len(B0) = 2
  OBVIOUS
<1>4. composedChecks = runFinalSafetyFence \o (A0 \o runFinalSafetyFence \o B0)
  BY Zenon DEF composedChecks, executeComposedEntry
<1> HIDE DEF S, A0, B0
<1>5. PICK F \in Seq(S) : /\ F = runFinalSafetyFence /\ Len(F) = 5
                          /\ F[2] = "automation" /\ F[3] = "kill"
  BY <1>1, Zenon
<1>6. PICK A \in Seq(S) : A = A0 /\ Len(A) = 3 /\ A[1] = "profile" /\ A[2] = "setup"
  BY <1>2, Zenon
<1>7. PICK B \in Seq(S) : B = B0 /\ Len(B) = 2
  BY <1>3, Zenon
<1>8. PICK D \in Seq(S) : /\ D = A \o F /\ Len(D) = Len(A) + Len(F)
           /\ \A i \in 1..Len(A) + Len(F) : D[i] = IF i <= Len(A) THEN A[i] ELSE F[i - Len(A)]
  <2>1. /\ A \o F \in Seq(S) /\ Len(A \o F) = Len(A) + Len(F)
        /\ \A i \in 1..Len(A) + Len(F) :
              (A \o F)[i] = IF i <= Len(A) THEN A[i] ELSE F[i - Len(A)]
    BY ConcatProperties
  <2> QED
    BY <2>1, Zenon
<1>9. PICK E \in Seq(S) : /\ E = D \o B /\ Len(E) = Len(D) + Len(B)
           /\ \A i \in 1..Len(D) + Len(B) : E[i] = IF i <= Len(D) THEN D[i] ELSE B[i - Len(D)]
  <2>1. /\ D \o B \in Seq(S) /\ Len(D \o B) = Len(D) + Len(B)
        /\ \A i \in 1..Len(D) + Len(B) :
              (D \o B)[i] = IF i <= Len(D) THEN D[i] ELSE B[i - Len(D)]
    BY ConcatProperties
  <2> QED
    BY <2>1, Zenon
<1>10. PICK C \in Seq(S) : /\ C = F \o E /\ Len(C) = Len(F) + Len(E)
           /\ \A i \in 1..Len(F) + Len(E) : C[i] = IF i <= Len(F) THEN F[i] ELSE E[i - Len(F)]
  <2>1. /\ F \o E \in Seq(S) /\ Len(F \o E) = Len(F) + Len(E)
        /\ \A i \in 1..Len(F) + Len(E) :
              (F \o E)[i] = IF i <= Len(F) THEN F[i] ELSE E[i - Len(F)]
    BY ConcatProperties
  <2> QED
    BY <2>1, Zenon
<1>11. C = composedChecks
  BY <1>4, <1>5, <1>6, <1>7, <1>8, <1>9, <1>10, Zenon
<1>12. Len(D) = 3 + 5 /\ \A i \in 1..3 + 5 : D[i] = IF i <= 3 THEN A[i] ELSE F[i - 3]
  BY <1>5, <1>6, <1>8, Zenon
<1>13. Len(D) = 8 /\ D[1] = A[1] /\ D[2] = A[2] /\ D[5] = F[2] /\ D[6] = F[3]
  BY <1>12
<1>14. Len(E) = 8 + 2 /\ \A i \in 1..8 + 2 : E[i] = IF i <= 8 THEN D[i] ELSE B[i - 8]
  BY <1>7, <1>9, <1>13, Zenon
<1>15. Len(E) = 10 /\ E[1] = A[1] /\ E[2] = A[2] /\ E[5] = F[2] /\ E[6] = F[3]
  <2>1. 1 \in 1..8 + 2 /\ 2 \in 1..8 + 2 /\ 5 \in 1..8 + 2 /\ 6 \in 1..8 + 2
        /\ 1 <= 8 /\ 2 <= 8 /\ 5 <= 8 /\ 6 <= 8 /\ 8 + 2 = 10
    OBVIOUS
  <2>2. E[1] = D[1] /\ E[2] = D[2] /\ E[5] = D[5] /\ E[6] = D[6] /\ Len(E) = 10
    BY <1>14, <2>1, Zenon
  <2> QED BY <2>2, <1>13, Zenon
<1>16. Len(C) = 5 + 10 /\ \A i \in 1..5 + 10 : C[i] = IF i <= 5 THEN F[i] ELSE E[i - 5]
  BY <1>5, <1>10, <1>15, Zenon
<1>17. Len(C) = 15 /\ C[6] = A[1] /\ C[7] = A[2] /\ C[10] = F[2] /\ C[11] = F[3]
  BY <1>15, <1>16
<1> QED
  BY <1>5, <1>6, <1>11, <1>17, Zenon

-----------------------------------------------------------------------------
(* Initially                                                               *)

\* The record of a call that has not begun.
LEMMA IdleType == Idle \in CallerState
<1>1. 0 \in 0..Len(composedChecks)
  BY Checks
<1> QED
  BY <1>1 DEF Idle, CallerState, Kind

\* Nothing is held, booked or open initially.
LEMMA InitInv == Init => PInv
<1> SUFFICES ASSUME Init PROVE PInv
  OBVIOUS
<1>1. TypeOK
  BY IdleType DEF Init, TypeOK
<1>2. CallsFit
  BY DEF Init, CallsFit, SoundCall, HoldingFits, WithdrawnFits, Idle
<1>3. LedgerConsistent
  <2>1. \A s \in Setup : {k \in ExitKind : <<s, k>> \in orders} = {}
    BY DEF Init
  <2> QED
    BY <2>1, FS_EmptySet DEF Init, LedgerConsistent
<1>4. CoverWithinLimit
  <2>1. Open \ uncovered = {} /\ Covering = {}
    BY DEF Init, Open, Covering
  <2>2. Cardinality({}) = 0
    BY FS_EmptySet
  <2> QED
    BY <2>1, <2>2, LimitAssumption DEF CoverWithinLimit
<1> QED
  BY <1>1, <1>2, <1>3, <1>4 DEF PInv

-----------------------------------------------------------------------------
(* Steps of one call                                                       *)

\* A call moves to the record r, others lose holdings at most.
LEMMA CallMoves ==
    ASSUME TypeOK, CallsFit, NEW c \in Caller, NEW r \in CallerState,
           caller' = [caller EXCEPT ![c] = r], off' = off,
           \A d \in Caller \ {c} : /\ holds'[d] \in {holds[d], "none"}
                                   /\ d \in auth' => d \in auth,
           SoundCall(r), HoldingFits(r, holds'[c], c \in auth'), WithdrawnFits(r, off)
    PROVE  CallsFit' /\ caller' \in [Caller -> CallerState]
<1>1. caller' \in [Caller -> CallerState] /\ caller'[c] = r
      /\ \A d \in Caller \ {c} : caller'[d] = caller[d]
  BY DEF TypeOK
<1>2. ASSUME NEW d \in Caller \ {c} PROVE HoldingFits(caller[d], holds'[d], d \in auth')
  BY <1>2 DEF CallsFit, HoldingFits
<1>3. ASSUME NEW d \in Caller
      PROVE  /\ SoundCall(caller'[d])
             /\ HoldingFits(caller'[d], holds'[d], d \in auth')
             /\ WithdrawnFits(caller'[d], off')
  <2>1. CASE d = c
    BY <1>1, <2>1
  <2>2. CASE d # c
    BY <1>1, <1>2, <2>2 DEF CallsFit
  <2> QED
    BY <2>1, <2>2
<1> QED
  BY <1>1, <1>3 DEF CallsFit, SoundCall, HoldingFits, WithdrawnFits

\* Cover is kept when no position is opened and no reservation begins to cover.
LEMMA CoverFrame ==
    ASSUME TypeOK, TypeOK', CoverWithinLimit,
           (Open \ uncovered)' \subseteq Open \ uncovered, Covering' \subseteq Covering
    PROVE  CoverWithinLimit'
<1>1. IsFiniteSet(Open \ uncovered) /\ IsFiniteSet(Covering)
  BY FiniteAssumption, FS_Subset DEF Open, Covering
<1>2. /\ Cardinality((Open \ uncovered)') <= Cardinality(Open \ uncovered)
      /\ Cardinality(Covering') <= Cardinality(Covering)
      /\ IsFiniteSet((Open \ uncovered)') /\ IsFiniteSet(Covering')
  BY <1>1, FS_Subset
<1>3. /\ Cardinality(Open \ uncovered) \in Nat /\ Cardinality(Covering) \in Nat
      /\ Cardinality((Open \ uncovered)') \in Nat /\ Cardinality(Covering') \in Nat
  BY <1>1, <1>2, FS_CardinalityType
<1> QED
  BY <1>2, <1>3, LimitAssumption DEF CoverWithinLimit

\* A call moves and the books stay as they are: the invariant is kept when the
\* new record fits, no reservation appears and none stops being released.
LEMMA QuietMove ==
    ASSUME PInv, NEW c \in Caller, NEW r \in CallerState,
           caller' = [caller EXCEPT ![c] = r], off' = off,
           UNCHANGED <<orders, fills, position, booked, uncovered>>,
           mismatch' \in SUBSET (Setup \X Kind),
           holds' \in [Caller -> {"none", "live", "expired"}], orphans' \in Nat,
           auth' \in SUBSET Caller, crashes' \in Nat,
           \A d \in Caller \ {c} : /\ holds'[d] \in {holds[d], "none"}
                                   /\ d \in auth' => d \in auth,
           holds'[c] \in {holds[c], "none"},
           r.pc = "release" \/ caller[c].pc # "release" \/ holds'[c] = "none",
           SoundCall(r), HoldingFits(r, holds'[c], c \in auth'), WithdrawnFits(r, off)
    PROVE  PInv'
<1>1. CallsFit' /\ caller' \in [Caller -> CallerState]
  BY CallMoves DEF PInv
<1>2. TypeOK'
  BY <1>1 DEF TypeOK, PInv
<1>3. LedgerConsistent'
  BY DEF LedgerConsistent, PInv
<1>4. CoverWithinLimit'
  <2>1. (Open \ uncovered)' \subseteq Open \ uncovered
    BY DEF Open
  <2>2. caller'[c] = r /\ \A d \in Caller \ {c} : caller'[d] = caller[d]
    BY DEF PInv, TypeOK
  <2>3. Covering' \subseteq Covering
    BY <2>2 DEF Covering, At
  <2> QED
    BY <1>2, <2>1, <2>3, CoverFrame DEF PInv
<1> QED
  BY <1>1, <1>2, <1>3, <1>4 DEF PInv

\* The call is at an early place and nothing but its record changes.
LEMMA RecordMove ==
    ASSUME PInv, NEW c \in Caller, NEW r \in CallerState,
           caller' = [caller EXCEPT ![c] = r],
           UNCHANGED <<off, book, risk, auth, crashes>>,
           caller[c].pc # "release" \/ r.pc = "release",
           SoundCall(r), HoldingFits(r, holds[c], c \in auth), WithdrawnFits(r, off)
    PROVE  PInv'
<1>1. /\ UNCHANGED <<orders, fills, position, booked, uncovered>> /\ off' = off
      /\ mismatch' \in SUBSET (Setup \X Kind)
      /\ holds' \in [Caller -> {"none", "live", "expired"}] /\ orphans' \in Nat
      /\ auth' \in SUBSET Caller /\ crashes' \in Nat
      /\ holds' = holds /\ auth' = auth
  BY DEF book, risk, PInv, TypeOK
<1> QED
  BY <1>1, QuietMove

\* Where a call is, and what that says of it.
LEMMA CallFits ==
    ASSUME PInv, NEW c \in Caller
    PROVE  /\ caller[c] \in CallerState /\ SoundCall(caller[c])
           /\ HoldingFits(caller[c], holds[c], c \in auth) /\ WithdrawnFits(caller[c], off)
  BY DEF PInv, TypeOK, CallsFit

-----------------------------------------------------------------------------
(* Entries                                                                 *)

\* An entry begins with what is already withdrawn.
LEMMA StartStep ==
    ASSUME PInv, NEW c \in Caller, NEW s \in Setup, composeAndSubmit(c, s) \/ simulate(c, s)
    PROVE  PInv'
<1>1. PICK op \in {"compose", "simulate"} : op \in Op /\ startEntry(c, op, s)
  BY DEF composeAndSubmit, simulate
<1> DEFINE r == [Idle EXCEPT !.pc = IF op = "compose" THEN "gates" ELSE "risk",
                       !.op = op, !.setup = s, !.ok = "profile" \notin off,
                       !.withdrawn = IF op = "compose" THEN {} ELSE off \cap {"profile", "kill"}]
<1>2. caller' = [caller EXCEPT ![c] = r] /\ At(c, "idle") /\ UNCHANGED <<off, book, risk, auth, crashes>>
  BY <1>1 DEF startEntry
<1>3. r \in CallerState
  BY <1>1, IdleType DEF CallerState, Switch
<1>4. /\ r.pc = IF op = "compose" THEN "gates" ELSE "risk"
      /\ r.op = op /\ r.setup = s /\ r.ok = ("profile" \notin off)
      /\ r.withdrawn = IF op = "compose" THEN {} ELSE off \cap {"profile", "kill"}
  BY DEF Idle
<1> HIDE DEF r
<1>5. SoundCall(r) /\ WithdrawnFits(r, off)
  BY <1>4 DEF SoundCall, WithdrawnFits
<1>6. HoldingFits(r, holds[c], c \in auth)
  BY <1>2, <1>4, CallFits DEF HoldingFits, At
<1> QED
  BY <1>2, <1>3, <1>5, <1>6, RecordMove DEF At

\* The early gates only spoil the verdict.
LEMMA GatesStep ==
    ASSUME PInv, NEW c \in Caller, readGates(c)
    PROVE  PInv'
<1> DEFINE r == [caller[c] EXCEPT !.pc = "risk", !.ok = @ /\ off \cap {"automation", "kill"} = {}]
<1>1. caller' = [caller EXCEPT ![c] = r] /\ At(c, "gates") /\ UNCHANGED <<off, book, risk, auth, crashes>>
  BY DEF readGates, PInv, TypeOK, CallerState
<1>2. r \in CallerState
  BY CallFits DEF CallerState
<1>3. /\ r.pc = "risk" /\ r.op = caller[c].op /\ r.setup = caller[c].setup
      /\ r.withdrawn = caller[c].withdrawn /\ (r.ok => caller[c].ok)
  BY CallFits DEF CallerState
<1> HIDE DEF r
<1>4. SoundCall(r) /\ HoldingFits(r, holds[c], c \in auth) /\ WithdrawnFits(r, off)
  BY <1>1, <1>3, CallFits DEF SoundCall, HoldingFits, WithdrawnFits, At
<1> QED
  BY <1>1, <1>2, <1>4, RecordMove DEF At

\* The risk engine: a refusal reserves nothing; an approval adds one covering
\* reservation to what was counted against the limit.
LEMMA EvaluateStep ==
    ASSUME PInv, NEW c \in Caller, evaluate(c)
    PROVE  PInv'
<1>1. PICK reclaimed \in SUBSET Expired, approved \in BOOLEAN :
          /\ approved => WithinLimit(reclaimed)
          /\ holds' = [d \in Caller |->
                IF d = c /\ approved THEN "live"
                ELSE IF d \in reclaimed THEN "none" ELSE holds[d]]
          /\ caller' = [caller EXCEPT ![c].pc = "judge", ![c].ok = @ /\ approved]
  BY DEF evaluate
<1>2. At(c, "risk") /\ UNCHANGED <<off, book, orphans, auth, crashes>>
  BY DEF evaluate
<1> DEFINE r == [caller[c] EXCEPT !.pc = "judge", !.ok = @ /\ approved]
<1>3. caller' = [caller EXCEPT ![c] = r]
  BY <1>1 DEF PInv, TypeOK, CallerState
<1>4. r \in CallerState
  BY CallFits DEF CallerState
<1>5. /\ r.pc = "judge" /\ r.op = caller[c].op /\ r.setup = caller[c].setup
      /\ r.withdrawn = caller[c].withdrawn /\ (r.ok => caller[c].ok)
  BY CallFits DEF CallerState
<1> HIDE DEF r
<1>6. SoundCall(r) /\ WithdrawnFits(r, off) /\ HoldingFits(r, holds'[c], c \in auth')
  BY <1>2, <1>5, CallFits DEF SoundCall, HoldingFits, WithdrawnFits, At
<1>7. holds[c] = "none" /\ c \notin auth
  BY <1>2, CallFits DEF HoldingFits, At
<1>8. /\ holds' \in [Caller -> {"none", "live", "expired"}]
      /\ \A d \in Caller \ {c} : holds'[d] \in {holds[d], "none"}
  BY <1>1 DEF PInv, TypeOK
<1>9. /\ off' = off /\ auth' = auth /\ orphans' = orphans /\ crashes' = crashes
      /\ UNCHANGED <<orders, fills, position, booked, mismatch, uncovered>>
  BY <1>2 DEF book
<1>10. CASE ~approved
  <2>1. holds'[c] = "none" /\ caller[c].pc # "release"
    BY <1>1, <1>2, <1>7, <1>10 DEF At
  <2> QED
    BY <1>3, <1>4, <1>6, <1>7, <1>8, <1>9, <2>1, QuietMove DEF PInv, TypeOK
<1>11. CASE approved
  <2>1. CallsFit' /\ caller' \in [Caller -> CallerState]
    BY <1>3, <1>4, <1>6, <1>8, <1>9, CallMoves DEF PInv
  <2>2. TypeOK'
    BY <1>8, <1>9, <2>1 DEF PInv, TypeOK
  <2>3. LedgerConsistent'
    BY <1>9 DEF LedgerConsistent, PInv
  <2> DEFINE H == {d \in Caller : holds[d] # "none"} \ reclaimed
  <2>4. /\ IsFiniteSet(H) /\ IsFiniteSet(Open) /\ IsFiniteSet(Covering') /\ c \notin H
    BY <1>7, FiniteAssumption, FS_Subset DEF Open, Covering
  <2>5. Covering' \subseteq H \cup {c}
    BY <1>1, <1>8 DEF Covering
  <2>6. /\ IsFiniteSet(H \cup {c}) /\ Cardinality(H \cup {c}) = Cardinality(H) + 1
    BY <2>4, FS_AddElement
  <2>7. Cardinality(Covering') <= Cardinality(H) + 1
    BY <2>5, <2>6, FS_Subset
  <2>8. (Open \ uncovered)' \subseteq Open
    BY <1>9 DEF Open
  <2>9. /\ Cardinality((Open \ uncovered)') <= Cardinality(Open)
        /\ IsFiniteSet((Open \ uncovered)')
    BY <2>4, <2>8, FS_Subset
  <2>10. Cardinality(Open) + Cardinality(H) + orphans + 1 <= MaxPositions
    BY <1>1, <1>11 DEF WithinLimit
  <2>11. /\ Cardinality(Open) \in Nat /\ Cardinality(H) \in Nat /\ orphans \in Nat
         /\ Cardinality((Open \ uncovered)') \in Nat /\ Cardinality(Covering') \in Nat
    BY <2>4, <2>9, FS_CardinalityType DEF PInv, TypeOK
  <2> HIDE DEF H
  <2>12. CoverWithinLimit'
    BY <2>7, <2>9, <2>10, <2>11, LimitAssumption DEF CoverWithinLimit
  <2> QED
    BY <2>1, <2>2, <2>3, <2>12 DEF PInv
<1> QED
  BY <1>1, <1>10, <1>11

\* Giving a composition up leaves its cleanup.
LEMMA AbandonMove ==
    ASSUME PInv, NEW c \in Caller, Abandon(c), "compose" \in Op,
           UNCHANGED <<off, book, risk, auth, crashes>>
    PROVE  PInv'
<1> DEFINE r == [Idle EXCEPT !.pc = "release", !.op = "compose"]
<1>1. r \in CallerState /\ r.pc = "release" /\ r.withdrawn = {}
  BY IdleType DEF CallerState, Idle
<1>2. caller' = [caller EXCEPT ![c] = r]
  BY DEF Abandon
<1> HIDE DEF r
<1>3. SoundCall(r) /\ HoldingFits(r, holds[c], c \in auth) /\ WithdrawnFits(r, off)
  BY <1>1 DEF SoundCall, HoldingFits, WithdrawnFits
<1> QED
  BY <1>1, <1>2, <1>3, RecordMove

\* The authorization is minted, or the composition given up.
LEMMA MintStep ==
    ASSUME PInv, NEW c \in Caller, mintAuthorization(c)
    PROVE  PInv'
<1>1. At(c, "judge") /\ caller[c].op = "compose" /\ UNCHANGED <<off, book, risk, crashes>>
  BY DEF mintAuthorization
<1>2. "compose" \in Op
  BY <1>1, CallFits DEF CallerState
<1>3. CASE Abandon(c) /\ UNCHANGED auth
  BY <1>1, <1>2, <1>3, AbandonMove
<1>4. CASE /\ auth' = auth \cup {c}
           /\ caller' = [caller EXCEPT ![c].pc = "check", ![c].step = 1]
  <2> DEFINE r == [caller[c] EXCEPT !.pc = "check", !.step = 1]
  <2>1. caller' = [caller EXCEPT ![c] = r]
    BY <1>4 DEF PInv, TypeOK, CallerState
  <2>2. r \in CallerState
    <3>1. 1 \in 0..Len(composedChecks)
      BY Checks
    <3> QED
      BY <3>1, CallFits DEF CallerState
  <2>3. /\ r.pc = "check" /\ r.step = 1 /\ r.op = "compose" /\ r.setup = caller[c].setup
        /\ r.withdrawn = caller[c].withdrawn
    BY <1>1, CallFits DEF CallerState
  <2> HIDE DEF r
  <2>4. SoundCall(r) /\ HoldingFits(r, holds'[c], c \in auth') /\ WithdrawnFits(r, off)
    BY <1>1, <2>3, CallFits DEF SoundCall, HoldingFits, WithdrawnFits, At
  <2>5. /\ UNCHANGED <<orders, fills, position, booked, uncovered>> /\ off' = off
        /\ mismatch' \in SUBSET (Setup \X Kind)
        /\ holds' \in [Caller -> {"none", "live", "expired"}] /\ orphans' \in Nat
        /\ auth' \in SUBSET Caller /\ crashes' \in Nat /\ holds' = holds
        /\ caller[c].pc # "release"
    BY <1>1, <1>4 DEF book, risk, PInv, TypeOK, At
  <2>6. \A d \in Caller \ {c} : d \in auth' => d \in auth
    BY <1>4
  <2> QED
    BY <2>1, <2>2, <2>4, <2>5, <2>6, QuietMove
<1> QED
  BY <1>3, <1>4 DEF mintAuthorization

\* The gates of simulate release the reservation whatever they say.
LEMMA SimulationStep ==
    ASSUME PInv, NEW c \in Caller, simulationGates(c)
    PROVE  PInv'
<1>1. /\ At(c, "judge") /\ caller[c].op = "simulate"
      /\ holds' = [holds EXCEPT ![c] = "none"] /\ UNCHANGED <<off, book, orphans, auth, crashes>>
  BY DEF simulationGates
<1>2. /\ UNCHANGED <<orders, fills, position, booked, uncovered>> /\ off' = off
      /\ mismatch' \in SUBSET (Setup \X Kind)
      /\ holds' \in [Caller -> {"none", "live", "expired"}] /\ orphans' \in Nat
      /\ auth' \in SUBSET Caller /\ crashes' \in Nat /\ auth' = auth
      /\ holds'[c] = "none" /\ \A d \in Caller \ {c} : holds'[d] = holds[d]
  BY <1>1 DEF book, PInv, TypeOK
<1>3. c \notin auth /\ caller[c].pc # "release"
  BY <1>1, CallFits DEF HoldingFits, At
<1>4. CASE caller' = [caller EXCEPT ![c] = Idle]
  <2>1. SoundCall(Idle) /\ HoldingFits(Idle, holds'[c], c \in auth') /\ WithdrawnFits(Idle, off)
    BY <1>2, <1>3 DEF SoundCall, HoldingFits, WithdrawnFits, Idle
  <2> QED
    BY <1>2, <1>3, <1>4, <2>1, IdleType, QuietMove
<1>5. CASE /\ caller[c].ok /\ "kill" \notin off
           /\ caller' = [caller EXCEPT ![c].pc = "fill"]
  <2> DEFINE r == [caller[c] EXCEPT !.pc = "fill"]
  <2>1. caller' = [caller EXCEPT ![c] = r]
    BY <1>5 DEF PInv, TypeOK, CallerState
  <2>2. r \in CallerState
    BY CallFits DEF CallerState
  <2>3. r.pc = "fill" /\ r.op = "simulate" /\ r.setup = caller[c].setup
        /\ r.withdrawn = caller[c].withdrawn
    BY <1>1, CallFits DEF CallerState
  <2> HIDE DEF r
  <2>4. caller[c].withdrawn = {}
    BY <1>1, <1>5, CallFits DEF WithdrawnFits, At
  <2>5. SoundCall(r) /\ HoldingFits(r, holds'[c], c \in auth') /\ WithdrawnFits(r, off)
    BY <1>1, <1>2, <1>3, <2>3, <2>4, CallFits DEF SoundCall, HoldingFits, WithdrawnFits, At
  <2> QED
    BY <1>2, <1>3, <2>1, <2>2, <2>5, QuietMove
<1> QED
  BY <1>4, <1>5 DEF simulationGates

\* A passed check: what the read at this place says is not withdrawn is not in
\* the record, so that nothing is left in it after the last one.
LEMMA PassedCheck ==
    ASSUME PInv, NEW c \in Caller, At(c, "check"), Passes(c), NEW r,
           LET n == caller[c].step IN
           /\ r.pc = IF n = 15 THEN "fill" ELSE "check"
           /\ r.step = IF n = 15 THEN 0 ELSE n + 1
           /\ r.withdrawn = IF n = 5 THEN off \cap (Switch \cup {caller[c].setup})
                            ELSE caller[c].withdrawn
           /\ r.setup = caller[c].setup /\ r.op = caller[c].op
    PROVE  SoundCall(r) /\ WithdrawnFits(r, off)
<1> DEFINE n == caller[c].step
<1>1. n \in 1..15
  BY CallFits, Checks DEF SoundCall, CallerState, At
<1>2. SoundCall(r)
  BY <1>1, CallFits DEF SoundCall, At
<1>3. /\ n = 6 => "profile" \notin off
      /\ n = 7 => caller[c].setup \notin off
      /\ n = 10 => "automation" \notin off
      /\ n = 11 => "kill" \notin off
  BY Checks DEF Passes, Switch
<1>4. r.withdrawn \subseteq off /\ r.withdrawn \subseteq Switch \cup {r.setup}
  BY CallFits DEF WithdrawnFits, At
<1>5. /\ n >= 6 => "profile" \notin r.withdrawn
      /\ n >= 7 => r.setup \notin r.withdrawn
      /\ n >= 10 => "automation" \notin r.withdrawn
      /\ n >= 11 => "kill" \notin r.withdrawn
  <2>1. /\ caller[c].withdrawn \subseteq off
        /\ n > 6 => "profile" \notin caller[c].withdrawn
        /\ n > 7 => caller[c].setup \notin caller[c].withdrawn
        /\ n > 10 => "automation" \notin caller[c].withdrawn
        /\ n > 11 => "kill" \notin caller[c].withdrawn
    BY CallFits DEF WithdrawnFits, At
  <2>2. n >= 6 => r.withdrawn = caller[c].withdrawn
    BY <1>1
  <2> QED
    BY <1>1, <1>3, <2>1, <2>2
<1>6. r.pc = "fill" => r.withdrawn = {}
  BY <1>1, <1>4, <1>5 DEF Switch
<1>7. r.pc \in {"fill", "check"} /\ (r.pc = "check" => r.step = n + 1)
  BY <1>1
<1> QED
  BY <1>1, <1>2, <1>4, <1>5, <1>6, <1>7 DEF WithdrawnFits

\* One check of a composed entry.
LEMMA CheckStep ==
    ASSUME PInv, NEW c \in Caller, check(c)
    PROVE  PInv'
<1>1. At(c, "check") /\ UNCHANGED <<off, book, risk, crashes>>
  BY DEF check
<1>2. "compose" \in Op /\ caller[c].op = "compose" /\ caller[c].step \in 1..15
  BY <1>1, CallFits, Checks DEF CallerState, SoundCall, At
<1>3. CASE Abandon(c) /\ UNCHANGED auth
  BY <1>1, <1>2, <1>3, AbandonMove
<1>4. CASE /\ Passes(c) /\ consumeAuthorization(c)
           /\ caller' = [caller EXCEPT
                ![c].pc = IF caller[c].step = Len(composedChecks) THEN "fill" ELSE "check",
                ![c].step = IF caller[c].step = Len(composedChecks) THEN 0 ELSE caller[c].step + 1,
                ![c].withdrawn = IF caller[c].step = Len(runFinalSafetyFence)
                                 THEN off \cap (Switch \cup {caller[c].setup}) ELSE @]
  <2> DEFINE pc1 == IF caller[c].step = 15 THEN "fill" ELSE "check"
             step1 == IF caller[c].step = 15 THEN 0 ELSE caller[c].step + 1
             wd1 == IF caller[c].step = 5 THEN off \cap (Switch \cup {caller[c].setup})
                    ELSE caller[c].withdrawn
             r == [caller[c] EXCEPT !.pc = pc1, !.step = step1, !.withdrawn = wd1]
  <2>1. caller' = [caller EXCEPT ![c].pc = pc1, ![c].step = step1, ![c].withdrawn = wd1]
    BY <1>4, Checks DEF PInv, TypeOK, CallerState
  <2>2. pc1 \in {"check", "fill"} /\ step1 \in 0..15 /\ wd1 \in SUBSET (Switch \cup Setup)
    <3>1. caller[c].setup \in Setup /\ caller[c].withdrawn \in SUBSET (Switch \cup Setup)
      BY <1>1, CallFits DEF CallerState, SoundCall, At
    <3> QED
      BY <1>2, <3>1
  <2> HIDE DEF pc1, step1, wd1
  <2>3. caller' = [caller EXCEPT ![c] = r]
    BY <2>1 DEF PInv, TypeOK, CallerState
  <2>4. r \in CallerState
    <3>1. step1 \in 0..Len(composedChecks)
      BY <2>2, Checks
    <3> QED
      BY <2>2, <3>1, CallFits DEF CallerState
  <2>5. /\ r.pc = pc1 /\ r.step = step1 /\ r.withdrawn = wd1
        /\ r.setup = caller[c].setup /\ r.op = caller[c].op
    BY CallFits DEF CallerState
  <2> HIDE DEF r
  <2>6. SoundCall(r) /\ WithdrawnFits(r, off)
    BY <1>1, <1>4, <2>5, PassedCheck DEF pc1, step1, wd1
  <2>7. HoldingFits(r, holds'[c], c \in auth')
    BY <1>2, <2>2, <2>5 DEF HoldingFits
  <2>8. /\ UNCHANGED <<orders, fills, position, booked, uncovered>> /\ off' = off
        /\ mismatch' \in SUBSET (Setup \X Kind)
        /\ holds' \in [Caller -> {"none", "live", "expired"}] /\ orphans' \in Nat
        /\ auth' \in SUBSET Caller /\ crashes' \in Nat /\ holds' = holds
        /\ caller[c].pc # "release" /\ \A d \in Caller \ {c} : d \in auth' => d \in auth
    BY <1>1, <1>4 DEF book, risk, PInv, TypeOK, At, consumeAuthorization
  <2> QED
    BY <2>3, <2>4, <2>6, <2>7, <2>8, QuietMove
<1> QED
  BY <1>3, <1>4 DEF check

\* After its fill a composition has its cleanup left, a simulation nothing; no
\* holding is touched.
LEMMA AfterFillMoves ==
    ASSUME PInv, NEW c \in Caller, At(c, "fill"), AfterFill(c), UNCHANGED <<off, risk, auth>>
    PROVE  /\ CallsFit' /\ caller' \in [Caller -> CallerState]
           /\ \A d \in Caller \ {c} : caller'[d] = caller[d]
           /\ IF caller[c].op = "compose" THEN caller'[c].pc = "release" ELSE holds[c] = "none"
<1>1. caller[c].op \in Op /\ caller[c].op \in {"compose", "simulate"}
  BY CallFits DEF CallerState, SoundCall, At
<1>2. holds' = holds /\ auth' = auth /\ off' = off
  BY DEF risk
<1>3. CASE caller[c].op = "compose"
  <2> DEFINE r == [Idle EXCEPT !.pc = "release", !.op = "compose"]
  <2>1. r \in CallerState /\ r.pc = "release" /\ r.withdrawn = {}
    BY <1>1, <1>3, IdleType DEF CallerState, Idle
  <2>2. caller' = [caller EXCEPT ![c] = r]
    BY <1>3 DEF AfterFill, Abandon
  <2> HIDE DEF r
  <2>3. SoundCall(r) /\ HoldingFits(r, holds'[c], c \in auth') /\ WithdrawnFits(r, off)
    BY <2>1 DEF SoundCall, HoldingFits, WithdrawnFits
  <2>4. CallsFit' /\ caller' \in [Caller -> CallerState]
    BY <1>2, <2>1, <2>2, <2>3, CallMoves DEF PInv
  <2> QED
    BY <1>3, <2>1, <2>2, <2>4 DEF PInv, TypeOK
<1>4. CASE caller[c].op = "simulate"
  <2>1. holds[c] = "none" /\ c \notin auth
    BY <1>4, CallFits DEF HoldingFits, At
  <2>2. caller' = [caller EXCEPT ![c] = Idle]
    BY <1>4 DEF AfterFill
  <2>3. SoundCall(Idle) /\ HoldingFits(Idle, holds'[c], c \in auth') /\ WithdrawnFits(Idle, off)
    BY <1>2, <2>1 DEF SoundCall, HoldingFits, WithdrawnFits, Idle
  <2>4. CallsFit' /\ caller' \in [Caller -> CallerState]
    BY <1>2, <2>2, <2>3, IdleType, CallMoves DEF PInv
  <2> QED
    BY <1>4, <2>1, <2>2, <2>4 DEF PInv, TypeOK
<1> QED
  BY <1>1, <1>3, <1>4

\* A fill opens a position: under its reservation, which stops covering, or
\* uncovered.
LEMMA FillStep ==
    ASSUME PInv, NEW c \in Caller, fillEntry(c)
    PROVE  PInv'
<1> DEFINE s == caller[c].setup
<1>1. At(c, "fill") /\ AfterFill(c) /\ UNCHANGED <<off, risk, auth, crashes>>
  BY DEF fillEntry
<1>2. s \in Setup /\ caller[c].op \in {"compose", "simulate"}
  BY <1>1, CallFits DEF SoundCall, At
<1>3. /\ CallsFit' /\ caller' \in [Caller -> CallerState]
      /\ \A d \in Caller \ {c} : caller'[d] = caller[d]
      /\ IF caller[c].op = "compose" THEN caller'[c].pc = "release" ELSE holds[c] = "none"
  BY <1>1, AfterFillMoves
<1>4. holds' = holds /\ orphans' = orphans
  BY <1>1 DEF risk
<1>5. Covering' \subseteq Covering \ {c}
  BY <1>1, <1>2, <1>3, <1>4 DEF Covering, At
<1>6. CASE UNCHANGED book
  <2>1. TypeOK' /\ LedgerConsistent'
    BY <1>1, <1>3, <1>4, <1>6 DEF book, PInv, TypeOK, LedgerConsistent
  <2>2. (Open \ uncovered)' \subseteq Open \ uncovered
    BY <1>6 DEF Open, book
  <2> QED
    BY <1>3, <1>5, <2>1, <2>2, CoverFrame DEF PInv
<1>7. CASE /\ <<s, "entry">> \notin orders
           /\ orders' = orders \cup {<<s, "entry">>}
           /\ fills' = fills \cup {<<s, "entry">>}
           /\ position' = [position EXCEPT ![s] = "open"]
           /\ uncovered' = IF holds[c] = "none" THEN uncovered \cup {s} ELSE uncovered
           /\ UNCHANGED <<booked, mismatch>>
  <2>1. TypeOK'
    BY <1>1, <1>2, <1>3, <1>4, <1>7 DEF PInv, TypeOK, Kind
  <2>2. LedgerConsistent'
    <3>1. position[s] = "none" /\ booked[s] = 0
      BY <1>2, <1>7 DEF PInv, LedgerConsistent
    <3>2. \A t \in Setup : {k \in ExitKind : <<t, k>> \in orders'} = {k \in ExitKind : <<t, k>> \in orders}
      BY <1>7 DEF ExitKind
    <3>3. \A t \in Setup : position'[t] = IF t = s THEN "open" ELSE position[t]
      BY <1>2, <1>7 DEF PInv, TypeOK
    <3>4. \A t \in Setup : <<t, "entry">> \in orders' <=> <<t, "entry">> \in orders \/ t = s
      BY <1>7
    <3>5. fills' = orders' /\ booked' = booked
      BY <1>7 DEF PInv, LedgerConsistent
    <3> QED
      BY <3>1, <3>2, <3>3, <3>4, <3>5 DEF PInv, LedgerConsistent
  <2>3. \A t \in Setup : position'[t] = IF t = s THEN "open" ELSE position[t]
    BY <1>2, <1>7 DEF PInv, TypeOK
  <2>4. CASE holds[c] = "none"
    <3>1. (Open \ uncovered)' \subseteq Open \ uncovered
      BY <1>7, <2>3, <2>4 DEF Open
    <3> QED
      BY <1>3, <1>5, <2>1, <2>2, <3>1, CoverFrame DEF PInv
  <2>5. CASE holds[c] # "none"
    <3> DEFINE P == Open \ uncovered
    <3>1. c \in Covering
      BY <1>1, <2>5 DEF Covering, At
    <3>2. IsFiniteSet(P) /\ IsFiniteSet(Covering)
      BY FiniteAssumption, FS_Subset DEF Open, Covering
    <3>3. (Open \ uncovered)' \subseteq P \cup {s}
      BY <1>7, <2>3, <2>5 DEF Open
    <3>4. /\ IsFiniteSet(P \cup {s})
          /\ Cardinality(P \cup {s}) = Cardinality(P) \/ Cardinality(P \cup {s}) = Cardinality(P) + 1
      BY <3>2, FS_AddElement
    <3>5. /\ Cardinality((Open \ uncovered)') <= Cardinality(P \cup {s})
          /\ IsFiniteSet((Open \ uncovered)')
      BY <3>3, <3>4, FS_Subset
    <3>6. IsFiniteSet(Covering \ {c}) /\ Cardinality(Covering \ {c}) = Cardinality(Covering) - 1
      BY <3>1, <3>2, FS_RemoveElement
    <3>7. Cardinality(Covering') <= Cardinality(Covering \ {c}) /\ IsFiniteSet(Covering')
      BY <1>5, <3>6, FS_Subset
    <3>8. /\ Cardinality(P) \in Nat /\ Cardinality(Covering) \in Nat
          /\ Cardinality((Open \ uncovered)') \in Nat /\ Cardinality(Covering') \in Nat
      BY <3>2, <3>5, <3>7, FS_CardinalityType
    <3>9. Cardinality(P) + Cardinality(Covering) <= MaxPositions
      BY DEF PInv, CoverWithinLimit
    <3> HIDE DEF P
    <3>10. CoverWithinLimit'
      BY <3>4, <3>5, <3>6, <3>7, <3>8, <3>9, LimitAssumption DEF CoverWithinLimit
    <3> QED
      BY <1>3, <2>1, <2>2, <3>10 DEF PInv
  <2> QED
    BY <2>4, <2>5
<1> QED
  BY <1>6, <1>7 DEF fillEntry

\* The cleanup leaves nothing held.
LEMMA ReleaseStep ==
    ASSUME PInv, NEW c \in Caller, releaseReservation(c)
    PROVE  PInv'
<1>1. /\ holds' = [holds EXCEPT ![c] = "none"] /\ auth' = auth \ {c}
      /\ caller' = [caller EXCEPT ![c] = Idle] /\ UNCHANGED <<off, book, orphans, crashes>>
  BY DEF releaseReservation
<1>2. /\ UNCHANGED <<orders, fills, position, booked, uncovered>> /\ off' = off
      /\ mismatch' \in SUBSET (Setup \X Kind)
      /\ holds' \in [Caller -> {"none", "live", "expired"}] /\ orphans' \in Nat
      /\ auth' \in SUBSET Caller /\ crashes' \in Nat /\ c \notin auth'
      /\ holds'[c] = "none" /\ \A d \in Caller \ {c} : holds'[d] = holds[d]
      /\ \A d \in Caller \ {c} : d \in auth' => d \in auth
  BY <1>1 DEF book, PInv, TypeOK
<1>3. SoundCall(Idle) /\ HoldingFits(Idle, holds'[c], c \in auth') /\ WithdrawnFits(Idle, off)
  BY <1>2 DEF SoundCall, HoldingFits, WithdrawnFits, Idle
<1> QED
  BY <1>1, <1>2, <1>3, IdleType, QuietMove

-----------------------------------------------------------------------------
(* Exits                                                                   *)

\* An exit holds nothing; its record moves to another that holds nothing.
LEMMA ExitMove ==
    ASSUME PInv, NEW c \in Caller, NEW r \in CallerState,
           caller' = [caller EXCEPT ![c] = r],
           UNCHANGED <<off, book, risk, auth, crashes>>,
           caller[c].pc \in {"idle", "next", "exit", "exitFill"},
           r.pc \in {"idle", "next", "exit", "exitFill"}, r.withdrawn \subseteq off,
           r.pc \in {"exit", "exitFill"} => r.setup \in Setup /\ r.kind \in ExitKind
    PROVE  PInv'
<1>1. holds[c] = "none" /\ c \notin auth
  BY CallFits DEF HoldingFits
<1>2. SoundCall(r) /\ HoldingFits(r, holds[c], c \in auth) /\ WithdrawnFits(r, off)
  BY <1>1 DEF SoundCall, HoldingFits, WithdrawnFits
<1> QED
  BY <1>2, RecordMove

\* The record after an exit, of a sweep or of a single close.
LEMMA AfterExitRecord ==
    ASSUME PInv, NEW c \in Caller, AfterExit(c)
    PROVE  \E r \in CallerState : /\ caller' = [caller EXCEPT ![c] = r]
                                  /\ r.pc \in {"idle", "next"} /\ r.withdrawn = {}
<1> DEFINE r1 == [Idle EXCEPT !.pc = "next", !.op = "evaluate", !.todo = caller[c].todo]
<1>1. caller[c].op = "evaluate" => r1 \in CallerState
  <2>1. caller[c].op \in Op \cup {"none"} /\ caller[c].todo \in SUBSET Setup
    BY CallFits DEF CallerState
  <2> QED
    BY <2>1, IdleType DEF CallerState
<1>2. r1.pc = "next" /\ r1.withdrawn = {} /\ Idle.pc = "idle" /\ Idle.withdrawn = {}
  BY DEF Idle
<1>3. caller' = [caller EXCEPT ![c] = IF caller[c].op = "evaluate" THEN r1 ELSE Idle]
  BY DEF AfterExit
<1> HIDE DEF r1
<1> QED
  BY <1>1, <1>2, <1>3, IdleType

\* Exits other than their fill change their call's record only.
LEMMA ExitSteps ==
    ASSUME PInv, NEW c \in Caller,
           \/ \E s \in Setup : closePosition(c, s) \/ evaluatePosition(c, s)
           \/ evaluateOpenPositions(c) \/ endSweep(c) \/ submitExitOrder(c)
    PROVE  PInv'
<1>1. ASSUME NEW s \in Setup, closePosition(c, s) PROVE PInv'
  <2> DEFINE r == [Idle EXCEPT !.pc = "exit", !.op = "close", !.setup = s, !.kind = "close"]
  <2>1. /\ caller' = [caller EXCEPT ![c] = r] /\ At(c, "idle") /\ "close" \in Op
        /\ UNCHANGED <<off, book, risk, auth, crashes>>
    BY <1>1 DEF closePosition
  <2>2. r \in CallerState
    BY <2>1, IdleType DEF CallerState, Kind, ExitKind
  <2>3. r.pc = "exit" /\ r.setup = s /\ r.kind = "close" /\ r.withdrawn = {}
    BY DEF Idle
  <2> HIDE DEF r
  <2> QED
    BY <2>1, <2>2, <2>3, ExitMove DEF At, ExitKind
<1>2. ASSUME NEW s \in Setup, evaluatePosition(c, s) PROVE PInv'
  <2>1. At(c, "next") /\ UNCHANGED <<off, book, risk, auth, crashes>>
    BY <1>2 DEF evaluatePosition
  <2>2. caller[c].todo \in SUBSET Setup /\ caller[c].withdrawn \subseteq off
    BY CallFits DEF CallerState, WithdrawnFits
  <2>3. ASSUME NEW k \in detectExit,
               caller' = [caller EXCEPT ![c].pc = "exit", ![c].setup = s, ![c].kind = k,
                                        ![c].todo = @ \ {s}]
        PROVE  PInv'
    <3> DEFINE r == [caller[c] EXCEPT !.pc = "exit", !.setup = s, !.kind = k, !.todo = @ \ {s}]
    <3>1. caller' = [caller EXCEPT ![c] = r]
      BY <2>3 DEF PInv, TypeOK, CallerState
    <3>2. k \in ExitKind /\ k \in Kind
      BY DEF detectExit, ExitKind, Kind
    <3>3. r \in CallerState
      BY <2>2, <3>2, CallFits DEF CallerState
    <3>4. r.pc = "exit" /\ r.setup = s /\ r.kind = k /\ r.withdrawn = caller[c].withdrawn
      BY CallFits DEF CallerState
    <3> HIDE DEF r
    <3> QED
      BY <2>1, <2>2, <3>1, <3>2, <3>3, <3>4, ExitMove DEF At
  <2>4. CASE caller' = [caller EXCEPT ![c].todo = @ \ {s}]
    <3> DEFINE r == [caller[c] EXCEPT !.todo = @ \ {s}]
    <3>1. caller' = [caller EXCEPT ![c] = r]
      BY <2>4 DEF PInv, TypeOK, CallerState
    <3>2. r \in CallerState
      BY <2>2, CallFits DEF CallerState
    <3>3. r.pc = "next" /\ r.withdrawn = caller[c].withdrawn
      BY <2>1, CallFits DEF CallerState, At
    <3> HIDE DEF r
    <3> QED
      BY <2>1, <2>2, <3>1, <3>2, <3>3, ExitMove DEF At
  <2> QED
    BY <1>2, <2>3, <2>4 DEF evaluatePosition
<1>3. CASE evaluateOpenPositions(c)
  <2> DEFINE r == [Idle EXCEPT !.pc = "next", !.op = "evaluate", !.todo = Open]
  <2>1. /\ caller' = [caller EXCEPT ![c] = r] /\ At(c, "idle") /\ "evaluate" \in Op
        /\ UNCHANGED <<off, book, risk, auth, crashes>>
    BY <1>3 DEF evaluateOpenPositions
  <2>2. Open \in SUBSET Setup
    BY DEF Open
  <2>3. r \in CallerState
    BY <2>1, <2>2, IdleType DEF CallerState
  <2>4. r.pc = "next" /\ r.withdrawn = {}
    BY DEF Idle
  <2> HIDE DEF r
  <2> QED
    BY <2>1, <2>3, <2>4, ExitMove DEF At
<1>4. CASE endSweep(c)
  <2>1. /\ caller' = [caller EXCEPT ![c] = Idle] /\ At(c, "next")
        /\ UNCHANGED <<off, book, risk, auth, crashes>>
    BY <1>4 DEF endSweep
  <2>2. Idle.pc = "idle" /\ Idle.withdrawn = {}
    BY DEF Idle
  <2> QED
    BY <2>1, <2>2, IdleType, ExitMove DEF At
<1>5. CASE submitExitOrder(c)
  <2>1. At(c, "exit") /\ UNCHANGED <<off, book, risk, auth, crashes>>
    BY <1>5 DEF submitExitOrder
  <2>2. CASE AfterExit(c)
    <3>1. PICK r \in CallerState : /\ caller' = [caller EXCEPT ![c] = r]
                                   /\ r.pc \in {"idle", "next"} /\ r.withdrawn = {}
      BY <2>2, AfterExitRecord
    <3> QED
      BY <2>1, <3>1, ExitMove DEF At
  <2>3. CASE caller' = [caller EXCEPT ![c].pc = "exitFill"]
    <3> DEFINE r == [caller[c] EXCEPT !.pc = "exitFill"]
    <3>1. caller' = [caller EXCEPT ![c] = r]
      BY <2>3 DEF PInv, TypeOK, CallerState
    <3>2. r \in CallerState
      BY CallFits DEF CallerState
    <3>3. /\ r.pc = "exitFill" /\ r.withdrawn = caller[c].withdrawn
          /\ r.setup = caller[c].setup /\ r.kind = caller[c].kind
      BY CallFits DEF CallerState
    <3>4. caller[c].setup \in Setup /\ caller[c].kind \in ExitKind /\ caller[c].withdrawn \subseteq off
      BY <2>1, CallFits DEF SoundCall, WithdrawnFits, At
    <3> HIDE DEF r
    <3> QED
      BY <2>1, <3>1, <3>2, <3>3, <3>4, ExitMove DEF At
  <2> QED
    BY <1>5, <2>2, <2>3 DEF submitExitOrder
<1> QED
  BY <1>1, <1>2, <1>3, <1>4, <1>5

\* The books after a close: one exit order, one booking, for an open position.
LEMMA CloseKeepsLedger ==
    ASSUME PInv, NEW c \in Caller, caller[c].setup \in Setup, caller[c].kind \in ExitKind,
           closePositionRow(c)
    PROVE  LedgerConsistent'
<1> DEFINE s == caller[c].setup
           k == caller[c].kind
           Exits(t) == {e \in ExitKind : <<t, e>> \in orders}
<1>1. /\ position[s] = "open" /\ orders' = orders \cup {<<s, k>>} /\ fills' = fills \cup {<<s, k>>}
      /\ position' = [position EXCEPT ![s] = "closed"] /\ booked' = [booked EXCEPT ![s] = @ + 1]
  BY DEF closePositionRow
<1>2. booked[s] = 0 /\ Cardinality(Exits(s)) = 0
  BY <1>1 DEF PInv, LedgerConsistent
<1>3. Exits(s) = {}
  <2>1. IsFiniteSet(ExitKind)
    <3>1. IsFiniteSet({"stop_loss"} \cup {"take_profit"})
      BY FS_Singleton, FS_AddElement
    <3>2. IsFiniteSet(({"stop_loss"} \cup {"take_profit"}) \cup {"close"})
      BY <3>1, FS_AddElement
    <3>3. ExitKind = ({"stop_loss"} \cup {"take_profit"}) \cup {"close"}
      BY DEF ExitKind
    <3> QED
      BY <3>2, <3>3
  <2>2. IsFiniteSet(Exits(s))
    BY <2>1, FS_Subset
  <2> QED
    BY <1>2, <2>2, FS_EmptySet
<1>4. {e \in ExitKind : <<s, e>> \in orders'} = {k}
  BY <1>1, <1>3
<1>5. Cardinality({k}) = 1
  BY FS_Singleton
<1>6. \A t \in Setup \ {s} : {e \in ExitKind : <<t, e>> \in orders'} = Exits(t)
  BY <1>1
<1>7. \A t \in Setup : <<t, "entry">> \in orders' <=> <<t, "entry">> \in orders
  BY <1>1 DEF ExitKind
<1>8. /\ position'[s] = "closed" /\ booked'[s] = 1
      /\ \A t \in Setup \ {s} : position'[t] = position[t] /\ booked'[t] = booked[t]
  BY <1>1, <1>2 DEF PInv, TypeOK
<1>9. fills' = orders'
  BY <1>1 DEF PInv, LedgerConsistent
<1>10. ASSUME NEW t \in Setup
       PROVE  /\ <<t, "entry">> \in orders' <=> position'[t] # "none"
              /\ booked'[t] = IF position'[t] = "closed" THEN 1 ELSE 0
              /\ Cardinality({e \in ExitKind : <<t, e>> \in orders'}) = booked'[t]
  <2>1. CASE t = s
    BY <1>1, <1>4, <1>5, <1>7, <1>8, <2>1 DEF PInv, LedgerConsistent
  <2>2. CASE t # s
    BY <1>6, <1>7, <1>8, <2>2 DEF PInv, LedgerConsistent
  <2> QED
    BY <2>1, <2>2
<1> QED
  BY <1>9, <1>10 DEF LedgerConsistent

\* The fill of an exit: the position is closed, or refused, or replayed.
LEMMA FillExitStep ==
    ASSUME PInv, NEW c \in Caller, fillExit(c)
    PROVE  PInv'
<1>1. At(c, "exitFill") /\ UNCHANGED <<off, risk, auth, crashes>>
  BY DEF fillExit
<1>2. /\ caller[c].setup \in Setup /\ caller[c].kind \in ExitKind
      /\ holds[c] = "none" /\ c \notin auth
  BY <1>1, CallFits DEF SoundCall, HoldingFits, At
<1>3. <<caller[c].setup, caller[c].kind>> \in Setup \X Kind
  BY <1>2 DEF Kind
<1>4. PICK r \in CallerState : /\ caller' = [caller EXCEPT ![c] = r]
                               /\ r.pc \in {"idle", "next"} /\ r.withdrawn = {}
  <2>1. CASE AfterExit(c)
    BY <2>1, AfterExitRecord
  <2>2. CASE caller' = [caller EXCEPT ![c] = Idle]
    BY <2>2, IdleType DEF Idle
  <2> QED
    BY <2>1, <2>2 DEF fillExit
<1>5. /\ off' = off /\ holds' = holds /\ orphans' = orphans /\ auth' = auth /\ crashes' = crashes
  BY <1>1 DEF risk
<1>6. SoundCall(r) /\ HoldingFits(r, holds'[c], c \in auth') /\ WithdrawnFits(r, off)
  BY <1>2, <1>4, <1>5 DEF SoundCall, HoldingFits, WithdrawnFits
<1>7. CASE PaperIntegrityError(c) \/ UNCHANGED book
  <2>1. /\ UNCHANGED <<orders, fills, position, booked, uncovered>>
        /\ mismatch' \in SUBSET (Setup \X Kind) /\ caller[c].pc # "release"
    BY <1>1, <1>3, <1>7 DEF PaperIntegrityError, book, At, PInv, TypeOK
  <2> QED
    BY <1>4, <1>5, <1>6, <2>1, QuietMove DEF PInv, TypeOK
<1>8. CASE closePositionRow(c)
  <2>1. CallsFit' /\ caller' \in [Caller -> CallerState]
    BY <1>4, <1>5, <1>6, CallMoves DEF PInv
  <2>2. TypeOK'
    BY <1>2, <1>3, <1>5, <1>8, <2>1 DEF PInv, TypeOK, closePositionRow
  <2>3. LedgerConsistent'
    BY <1>2, <1>8, CloseKeepsLedger
  <2>4. (Open \ uncovered)' \subseteq Open \ uncovered
    BY <1>2, <1>8 DEF Open, closePositionRow, PInv, TypeOK
  <2>5. caller'[c] = r /\ \A d \in Caller \ {c} : caller'[d] = caller[d]
    BY <1>4 DEF PInv, TypeOK
  <2>6. Covering' \subseteq Covering
    BY <1>2, <1>5, <2>5 DEF Covering, At
  <2> QED
    BY <2>1, <2>2, <2>3, <2>4, <2>6, CoverFrame DEF PInv
<1> QED
  BY <1>7, <1>8 DEF fillExit

-----------------------------------------------------------------------------
(* The environment, and every step                                         *)

\* What is given back is no longer recorded as withdrawn; what is withdrawn is
\* added to nothing.
LEMMA SwitchSteps ==
    ASSUME PInv, NEW f \in Withdrawable, withdraw(f) \/ restore(f)
    PROVE  PInv'
<1>1. f \in Switch \cup Setup
  BY WithdrawableAssumption
<1>2. UNCHANGED <<book, risk, auth, crashes>>
  BY DEF withdraw, restore
<1>3. \A c \in Caller : caller'[c].pc = caller[c].pc
  BY DEF withdraw, restore, PInv, TypeOK, CallerState
<1>4. TypeOK' /\ CallsFit'
  <2>1. CASE withdraw(f)
    <3>1. off' = off \cup {f} /\ caller' = caller /\ holds' = holds /\ auth' = auth
      BY <2>1 DEF withdraw, risk
    <3>2. TypeOK'
      BY <1>1, <1>2, <3>1 DEF PInv, TypeOK, book, risk
    <3>3. ASSUME NEW c \in Caller PROVE WithdrawnFits(caller[c], off')
      BY <3>1, CallFits DEF WithdrawnFits
    <3> QED
      BY <3>1, <3>2, <3>3 DEF PInv, CallsFit, SoundCall, HoldingFits, WithdrawnFits
  <2>2. CASE restore(f)
    <3>1. /\ off' = off \ {f} /\ holds' = holds /\ auth' = auth
          /\ caller' = [c \in Caller |-> [caller[c] EXCEPT !.withdrawn = @ \ {f}]]
      BY <2>2 DEF restore, risk
    <3>2. ASSUME NEW c \in Caller
          PROVE  /\ caller'[c] \in CallerState
                 /\ caller'[c].pc = caller[c].pc /\ caller'[c].op = caller[c].op
                 /\ caller'[c].setup = caller[c].setup /\ caller'[c].kind = caller[c].kind
                 /\ caller'[c].ok = caller[c].ok /\ caller'[c].step = caller[c].step
                 /\ caller'[c].withdrawn = caller[c].withdrawn \ {f}
      <4>1. caller'[c] = [caller[c] EXCEPT !.withdrawn = @ \ {f}] /\ caller[c] \in CallerState
        BY <3>1, CallFits
      <4> QED
        BY <4>1 DEF CallerState
    <3>3. TypeOK'
      <4>1. caller' \in [Caller -> CallerState]
        BY <3>1, <3>2
      <4> QED
        BY <1>2, <3>1, <4>1 DEF PInv, TypeOK, book, risk
    <3>4. ASSUME NEW c \in Caller
          PROVE  /\ SoundCall(caller'[c]) /\ HoldingFits(caller'[c], holds[c], c \in auth)
                 /\ WithdrawnFits(caller'[c], off')
      <4>1. SoundCall(caller'[c]) /\ HoldingFits(caller'[c], holds[c], c \in auth)
        BY <3>2, CallFits DEF SoundCall, HoldingFits
      <4>2. WithdrawnFits(caller'[c], off')
        BY <3>1, <3>2, CallFits DEF WithdrawnFits
      <4> QED
        BY <4>1, <4>2
    <3> QED
      BY <3>1, <3>3, <3>4 DEF CallsFit, SoundCall, HoldingFits, WithdrawnFits
  <2> QED
    BY <2>1, <2>2
<1>5. LedgerConsistent'
  BY <1>2 DEF book, PInv, LedgerConsistent
<1>6. (Open \ uncovered)' \subseteq Open \ uncovered /\ Covering' \subseteq Covering
  BY <1>2, <1>3 DEF book, risk, Open, Covering, At
<1> QED
  BY <1>4, <1>5, <1>6, CoverFrame DEF PInv

\* Time takes reservations and authorizations away, never gives one.
LEMMA ExpirySteps ==
    ASSUME PInv,
           \/ \E c \in Caller : reservationExpires(c) \/ authorizationExpires(c)
           \/ orphanExpires
    PROVE  PInv'
<1>1. UNCHANGED <<off, book, caller, crashes>>
  BY DEF reservationExpires, authorizationExpires, orphanExpires
<1>2. /\ holds' \in [Caller -> {"none", "live", "expired"}]
      /\ \A d \in Caller : holds[d] = "none" <=> holds'[d] = "none"
      /\ orphans' \in Nat /\ auth' \subseteq auth
  BY DEF reservationExpires, authorizationExpires, orphanExpires, PInv, TypeOK, risk
<1>3. TypeOK'
  BY <1>1, <1>2 DEF PInv, TypeOK, book
<1>4. CallsFit'
  BY <1>1, <1>2 DEF PInv, CallsFit, SoundCall, HoldingFits, WithdrawnFits
<1>5. LedgerConsistent'
  BY <1>1 DEF book, PInv, LedgerConsistent
<1>6. (Open \ uncovered)' \subseteq Open \ uncovered /\ Covering' \subseteq Covering
  BY <1>1, <1>2 DEF book, Open, Covering, At
<1> QED
  BY <1>3, <1>4, <1>5, <1>6, CoverFrame DEF PInv

\* A dead call leaves only a reservation row that no call can fill under.
LEMMA CrashStep ==
    ASSUME PInv, NEW c \in Caller, crash(c)
    PROVE  PInv'
<1>1. /\ caller' = [caller EXCEPT ![c] = Idle] /\ auth' = auth \ {c} /\ crashes' = crashes + 1
      /\ orphans' = IF holds[c] = "live" THEN orphans + 1 ELSE orphans
      /\ holds' = [holds EXCEPT ![c] = "none"] /\ UNCHANGED <<off, book>>
  BY DEF crash
<1>2. /\ UNCHANGED <<orders, fills, position, booked, uncovered>> /\ off' = off
      /\ mismatch' \in SUBSET (Setup \X Kind)
      /\ holds' \in [Caller -> {"none", "live", "expired"}] /\ orphans' \in Nat
      /\ auth' \in SUBSET Caller /\ crashes' \in Nat /\ c \notin auth'
      /\ holds'[c] = "none" /\ \A d \in Caller \ {c} : holds'[d] = holds[d]
      /\ \A d \in Caller \ {c} : d \in auth' => d \in auth
  BY <1>1 DEF book, PInv, TypeOK
<1>3. SoundCall(Idle) /\ HoldingFits(Idle, holds'[c], c \in auth') /\ WithdrawnFits(Idle, off)
  BY <1>2 DEF SoundCall, HoldingFits, WithdrawnFits, Idle
<1> QED
  BY <1>1, <1>2, <1>3, IdleType, QuietMove

\* The inductive step.
LEMMA NextInv == PInv /\ [Next]_vars => PInv'
<1> SUFFICES ASSUME PInv, [Next]_vars PROVE PInv'
  OBVIOUS
<1>1. ASSUME NEW c \in Caller, entryStep(c) PROVE PInv'
  BY <1>1, StartStep, GatesStep, EvaluateStep, MintStep, SimulationStep, CheckStep, FillStep,
     ReleaseStep DEF entryStep
<1>2. ASSUME NEW c \in Caller, exitStep(c) PROVE PInv'
  BY <1>2, ExitSteps, FillExitStep DEF exitStep
<1>3. CASE UNCHANGED vars
  <2>1. TypeOK' /\ CallsFit'
    BY <1>3 DEF vars, PInv, TypeOK, CallsFit, SoundCall, HoldingFits, WithdrawnFits
  <2>2. LedgerConsistent'
    BY <1>3 DEF vars, PInv, LedgerConsistent
  <2>3. (Open \ uncovered)' \subseteq Open \ uncovered /\ Covering' \subseteq Covering
    BY <1>3 DEF vars, Open, Covering, At
  <2> QED
    BY <2>1, <2>2, <2>3, CoverFrame DEF PInv
<1> QED
  BY <1>1, <1>2, <1>3, SwitchSteps, ExpirySteps, CrashStep DEF Next

-----------------------------------------------------------------------------
(* Theorems                                                                *)

\* Every reachable state satisfies the inductive invariant.
THEOREM PaperInvariance == Spec => []PInv
  BY InitInv, NextInv, PTL DEF Spec

\* Every variable keeps its type.
THEOREM TypeCorrect == Spec => []TypeOK
<1>1. PInv => TypeOK
  BY DEF PInv
<1> QED
  BY <1>1, PaperInvariance, PTL

\* Orders, fills, positions and the risk ledger agree after every step,
\* whichever exits race for a position (runFillTransaction, closePositionRow).
THEOREM BooksAgree == Spec => []LedgerConsistent
<1>1. PInv => LedgerConsistent
  BY DEF PInv
<1> QED
  BY <1>1, PaperInvariance, PTL

\* A call that is over, on whichever path, leaves neither a reservation nor an
\* authorization (releaseReservation, simulate's gates, the crash).
THEOREM NothingIsStranded == Spec => []NothingStranded
<1>1. PInv => NothingStranded
  BY DEF PInv, CallsFit, HoldingFits, NothingStranded, At
<1> QED
  BY <1>1, PaperInvariance, PTL

\* Positions opened under a reservation never exceed maxSimultaneousPositions,
\* for any number of overlapping entries, expiries and crashes.
THEOREM ExposureIsLimited == Spec => []ExposureWithinLimit
<1>1. ASSUME PInv PROVE ExposureWithinLimit
  <2>1. IsFiniteSet(Open \ uncovered) /\ IsFiniteSet(Covering)
    BY FiniteAssumption, FS_Subset DEF Open, Covering
  <2>2. Cardinality(Open \ uncovered) \in Nat /\ Cardinality(Covering) \in Nat
    BY <2>1, FS_CardinalityType
  <2>3. Cardinality(Open \ uncovered) + Cardinality(Covering) <= MaxPositions
    BY <1>1 DEF PInv, CoverWithinLimit
  <2> QED
    BY <2>2, <2>3, LimitAssumption DEF ExposureWithinLimit
<1> QED
  BY <1>1, PaperInvariance, PTL

\* What was withdrawn before the composition's fence (for simulate: before the
\* call) and not given back prevents the fill: the later reads catch it.
THEOREM WithdrawalIsHeeded == Spec => WithdrawalPreventsFill
<1>1. ASSUME PInv
      PROVE  \A c \in Caller :
                At(c, "fill") /\ caller'[c] # caller[c] /\ orders' # orders
                   => caller[c].withdrawn = {}
  BY <1>1, CallFits DEF WithdrawnFits, At
<1> QED
  BY <1>1, PaperInvariance, PTL DEF WithdrawalPreventsFill

-----------------------------------------------------------------------------
(* Gates and intake.                                                         *)

\* A set of numbers that is not empty has a least member, the one Min returns.
LEMMA LeastGate ==
    ASSUME NEW T \in SUBSET Nat, T # {}
    PROVE  Min(T) \in T
<1>1. PICK x \in T : \A y \in T : ~(<<y, x>> \in OpToRel(<, Nat))
  BY WFMin, NatLessThanWellFounded
<1>2. \A y \in T : ~(y < x) BY <1>1 DEF OpToRel
<1>3. \E z \in T : \A y \in T : z <= y BY <1>2
<1> QED BY <1>3 DEF Min

GateNames ==
    {"entitlement", "automation_on", "profile_enabled", "kill_switch", "valid_signal", "risk_decision",
     "valid_order_params", "valid_stop_loss", "valid_take_profit", "acceptable_rr", "exposure_limits",
     "provider_healthy", "environment_safety", "broker_authorized"}

\* The gates that are about the order come seventh to tenth.
LEMMA GateOrder ==
    /\ DOMAIN EXECUTION_GATE_IDS = 1..14
    /\ \A k \in 1..14 : EXECUTION_GATE_IDS[k] \in GateNames
    /\ EXECUTION_GATE_IDS[7] = "valid_order_params" /\ EXECUTION_GATE_IDS[8] = "valid_stop_loss"
    /\ EXECUTION_GATE_IDS[9] = "valid_take_profit" /\ EXECUTION_GATE_IDS[10] = "acceptable_rr"
<1>1. DOMAIN EXECUTION_GATE_IDS = 1..14 BY DEF EXECUTION_GATE_IDS
<1>2. \A k \in 1..14 : EXECUTION_GATE_IDS[k] \in GateNames
  <2> SUFFICES ASSUME NEW k \in 1..14 PROVE EXECUTION_GATE_IDS[k] \in GateNames OBVIOUS
  <2>1. \/ k = 1 \/ k = 2 \/ k = 3 \/ k = 4 \/ k = 5 \/ k = 6 \/ k = 7
        \/ k = 8 \/ k = 9 \/ k = 10 \/ k = 11 \/ k = 12 \/ k = 13 \/ k = 14
    OBVIOUS
  <2> QED BY <2>1 DEF EXECUTION_GATE_IDS, GateNames
<1> QED BY <1>1, <1>2 DEF EXECUTION_GATE_IDS

\* The evaluation names a gate or has passed every one of them.
LEMMA GatesAnswer ==
    ASSUME NEW d, NEW shut
    PROVE  /\ evaluateExecutionGates(d, shut) \in GateNames \cup {"passed"}
           /\ evaluateExecutionGates(d, shut) = "passed" =>
                \A k \in 1..14 : GateHolds(EXECUTION_GATE_IDS[k], d, shut)
<1> DEFINE failing == {k \in DOMAIN EXECUTION_GATE_IDS : ~GateHolds(EXECUTION_GATE_IDS[k], d, shut)}
<1>1. evaluateExecutionGates(d, shut) = IF failing = {} THEN "passed" ELSE EXECUTION_GATE_IDS[Min(failing)]
  BY DEF evaluateExecutionGates
<1>2. failing \in SUBSET Nat /\ failing \subseteq 1..14 BY GateOrder
<1>3. failing # {} => Min(failing) \in 1..14
  <2> HIDE DEF failing
  <2> QED BY <1>2, LeastGate
<1>4. failing # {} => EXECUTION_GATE_IDS[Min(failing)] \in GateNames /\ "passed" \notin GateNames
  <2> HIDE DEF failing
  <2> QED BY <1>3, GateOrder DEF GateNames
<1>5. failing = {} => \A k \in 1..14 : GateHolds(EXECUTION_GATE_IDS[k], d, shut) BY GateOrder
<1> HIDE DEF failing
<1> QED BY <1>1, <1>4, <1>5

\* A larger ratio asks for a larger reward.
LEMMA RatioGrows == ASSUME NEW a \in Nat, NEW b \in Nat, NEW g \in Nat, a >= b PROVE a * g >= b * g
<1>1. PICK n \in Nat : a = b + n
  <2>1. a - b \in Nat /\ a = b + (a - b) OBVIOUS
  <2> QED BY <2>1
<1>2. a * g = b * g + n * g
  <2>1. (b + n) * g = b * g + n * g OBVIOUS
  <2> QED BY <2>1, <1>1
<1>3. n * g \in Nat /\ b * g \in Nat OBVIOUS
<1> QED BY <1>2, <1>3

\* The distance of two prices.
LEMMA GapIsNatural == ASSUME NEW a \in Nat, NEW b \in Nat PROVE Gap(a, b) \in Nat
BY DEF Gap

\* The levels of a decision.
LEMMA DecisionFits ==
    ASSUME AdmissionAssumption, NEW d \in Decisions
    PROVE  /\ d.entry \in Nat /\ d.stop \in Nat /\ d.target \in Nat /\ d.rr \in Nat /\ MinRr \in Nat
           /\ d.direction \in {"long", "short"}
<1>1. d.entry \in Prices /\ d.stop \in Prices /\ d.target \in Prices /\ d.rr \in {0, MinRr, MinRr + 1}
      /\ d.direction \in {"long", "short"}
  BY DEF Decisions
<1>2. Prices \subseteq Nat /\ MinRr \in Nat /\ MinRr + 1 \in Nat BY DEF AdmissionAssumption
<1>3. d.rr \in Nat
  <2>1. d.rr = 0 \/ d.rr = MinRr \/ d.rr = MinRr + 1 BY <1>1
  <2> QED BY <2>1, <1>2
<1>4. d.entry \in Nat /\ d.stop \in Nat /\ d.target \in Nat BY <1>1, <1>2, Zenon
<1> QED BY <1>1, <1>2, <1>3, <1>4, Zenon

\* A decision that passes the gates is a sound order at its entry.
LEMMA PassedIsSound ==
    ASSUME AdmissionAssumption, NEW d \in Decisions, NEW shut, evaluateExecutionGates(d, shut) = "passed"
    PROVE  Sound(d, d.entry)
<1>1. /\ GateHolds("valid_stop_loss", d, shut) /\ GateHolds("valid_take_profit", d, shut)
      /\ GateHolds("acceptable_rr", d, shut)
  <2>1. \A k \in 1..14 : GateHolds(EXECUTION_GATE_IDS[k], d, shut) BY GatesAnswer
  <2>2. 8 \in 1..14 /\ 9 \in 1..14 /\ 10 \in 1..14 OBVIOUS
  <2>3. GateHolds(EXECUTION_GATE_IDS[8], d, shut) /\ GateHolds(EXECUTION_GATE_IDS[9], d, shut)
        /\ GateHolds(EXECUTION_GATE_IDS[10], d, shut)
    BY <2>1, <2>2, Zenon
  <2> QED BY <2>3, GateOrder, Zenon
<1>2. Protects(d, d.entry) /\ Rewards(d, d.entry) /\ acceptableRr(d) BY <1>1 DEF GateHolds
<1>3. /\ d.entry \in Nat /\ d.stop \in Nat /\ d.target \in Nat /\ d.rr \in Nat /\ MinRr \in Nat
  BY DecisionFits
<1>4. d.entry # d.stop /\ d.rr >= MinRr /\ Gap(d.target, d.entry) >= d.rr * Gap(d.entry, d.stop)
  BY <1>2, <1>3 DEF Protects, acceptableRr
<1>5. Gap(d.entry, d.stop) \in Nat /\ Gap(d.target, d.entry) \in Nat BY <1>3, GapIsNatural
<1>6. d.rr * Gap(d.entry, d.stop) >= MinRr * Gap(d.entry, d.stop) BY <1>3, <1>4, <1>5, RatioGrows
<1>7. d.rr * Gap(d.entry, d.stop) \in Nat /\ MinRr * Gap(d.entry, d.stop) \in Nat BY <1>3, <1>5
<1>8. Gap(d.target, d.entry) >= MinRr * Gap(d.entry, d.stop) BY <1>4, <1>5, <1>6, <1>7
<1> QED BY <1>2, <1>3, <1>8 DEF Sound, Protects, Rewards

\* A fill that passes the paper gates is a sound order at the fill.
LEMMA PaperPassIsSound ==
    ASSUME AdmissionAssumption, NEW d \in Decisions, NEW fill \in Prices, NEW size, NEW spec,
           evaluatePaperSimulationGates(d, fill, size, spec)
    PROVE  Sound(d, fill)
<1>1. Protects(d, fill) /\ Rewards(d, fill) /\ fillRr(d, fill) BY DEF evaluatePaperSimulationGates
<1>2. /\ d.entry \in Nat /\ d.stop \in Nat /\ d.target \in Nat /\ MinRr \in Nat /\ fill \in Nat
  BY DecisionFits DEF AdmissionAssumption
<1> QED BY <1>1, <1>2 DEF Protects, Rewards, fillRr, Sound

IntakeRow == [pc : {"idle", "insert", "settle"}, decision : Decisions,
              gate : GateNames \cup {"passed", "none"}, answer : {"none", "done", "accepted", "rejected"}]
RequestRow == [status : {"none", "requested", "rejected"}, decision : Decisions, by : SUBSET IntakeCallers]

\* A call whose own gates passed, and a row recorded as requested, are sound
\* orders.
AdmissionInv ==
    /\ probe \in Probes \cup {[kind |-> "intake"]}
    /\ intake \in [IntakeCallers -> IntakeRow] /\ stored \in RequestRow
    /\ \A c \in IntakeCallers : intake[c].gate = "passed" => Sound(intake[c].decision, intake[c].decision.entry)
    /\ stored.status = "requested" => Sound(stored.decision, stored.decision.entry)

\* Calls bring decisions of the platform.
LEMMA AdmissionInitInv == AdmissionAssumption /\ AdmissionInit => AdmissionInv
<1> SUFFICES ASSUME AdmissionAssumption, AdmissionInit PROVE AdmissionInv OBVIOUS
<1>1. Submitted \subseteq Decisions /\ Submitted # {} BY DEF AdmissionAssumption, Decisions
<1>2. NoRequestRow.decision \in Decisions /\ NoRequestRow \in RequestRow /\ NoRequestRow.status = "none"
  BY <1>1 DEF NoRequestRow, RequestRow
<1>3. \A d \in Decisions : Resting(d) \in IntakeRow /\ Resting(d).gate = "none"
                           /\ [Resting(d) EXCEPT !.answer = "done"] \in IntakeRow
                           /\ [Resting(d) EXCEPT !.answer = "done"].gate = "none"
  BY DEF Resting, IntakeRow
<1>4. intake \in [IntakeCallers -> IntakeRow] /\ \A c \in IntakeCallers : intake[c].gate = "none"
  <2>1. CASE probe.kind = "intake"
    <3>1. PICK f \in [IntakeCallers -> Submitted] : intake = [c \in IntakeCallers |-> Resting(f[c])]
      BY <2>1 DEF AdmissionInit
    <3>2. \A c \in IntakeCallers : f[c] \in Decisions BY <3>1, <1>1
    <3>3. \A c \in IntakeCallers : Resting(f[c]) \in IntakeRow /\ Resting(f[c]).gate = "none" BY <3>2, <1>3
    <3> QED BY <3>1, <3>3, Zenon
  <2>2. CASE probe.kind # "intake" BY <2>2, <1>2, <1>3 DEF AdmissionInit
  <2> QED BY <2>1, <2>2
<1> QED BY <1>2, <1>4 DEF AdmissionInv, AdmissionInit

\* A call moves on with its decision.
LEMMA IntakeMove ==
    ASSUME AdmissionInv, NEW c \in IntakeCallers, NEW k \in IntakeRow, intake' = [intake EXCEPT ![c] = k],
           k.gate = "passed" => Sound(k.decision, k.decision.entry), probe' = probe, stored' \in RequestRow,
           stored'.status = "requested" => Sound(stored'.decision, stored'.decision.entry)
    PROVE  AdmissionInv'
<1>1. intake' \in [IntakeCallers -> IntakeRow] BY DEF AdmissionInv
<1>2. \A x \in IntakeCallers : intake'[x] = IF x = c THEN k ELSE intake[x] BY DEF AdmissionInv
<1> QED BY <1>1, <1>2 DEF AdmissionInv

\* Replay, or the gates' result kept with the call.
LEMMA SubmitDecisionInv ==
    ASSUME AdmissionAssumption, AdmissionInv, NEW c \in IntakeCallers, NEW shut, submitExecutionDecision(c, shut)
    PROVE  AdmissionInv'
<1>1. /\ intake[c] \in IntakeRow /\ intake[c].decision \in Decisions /\ stored \in RequestRow /\ stored' = stored
      /\ probe' = probe
  BY DEF AdmissionInv, submitExecutionDecision, IntakeRow
<1>2. CASE stored.status # "none"
  <2> DEFINE k == [intake[c] EXCEPT !.answer = IF stored.status = "requested" THEN "accepted" ELSE "rejected"]
  <2>1. intake' = [intake EXCEPT ![c] = k] BY <1>2 DEF submitExecutionDecision
  <2>2. k \in IntakeRow /\ k.gate = intake[c].gate /\ k.decision = intake[c].decision BY <1>1 DEF IntakeRow
  <2> HIDE DEF k
  <2> QED BY <2>1, <2>2, <1>1, IntakeMove DEF AdmissionInv
<1>3. CASE stored.status = "none"
  <2> DEFINE g == evaluateExecutionGates(intake[c].decision, shut)
             k == [[intake[c] EXCEPT !.pc = "insert"] EXCEPT !.gate = g]
  <2>1. g \in GateNames \cup {"passed", "none"} BY GatesAnswer
  <2>2. g = "passed" => Sound(intake[c].decision, intake[c].decision.entry) BY <1>1, PassedIsSound
  <2>3. intake' = [intake EXCEPT ![c].pc = "insert", ![c].gate = g] BY <1>3 DEF submitExecutionDecision
  <2> HIDE DEF g
  <2>4. k \in IntakeRow /\ k.gate = g /\ k.decision = intake[c].decision BY <1>1, <2>1 DEF IntakeRow
  <2>5. intake' = [intake EXCEPT ![c] = k] BY <2>3, <1>1 DEF AdmissionInv, IntakeRow
  <2> HIDE DEF k
  <2> QED BY <2>2, <2>4, <2>5, <1>1, IntakeMove DEF AdmissionInv
<1> QED BY <1>2, <1>3

\* The first row of the key stays; it repeats its own call's result.
LEMMA InsertRequestInv ==
    ASSUME AdmissionInv, NEW c \in IntakeCallers, insertRequest(c) PROVE AdmissionInv'
<1> DEFINE k == [intake[c] EXCEPT !.pc = "settle"]
<1>1. intake[c] \in IntakeRow /\ intake[c].decision \in Decisions /\ stored \in RequestRow
  BY DEF AdmissionInv, IntakeRow
<1>2. intake' = [intake EXCEPT ![c] = k] /\ probe' = probe BY DEF insertRequest
<1>3. k \in IntakeRow /\ k.gate = intake[c].gate /\ k.decision = intake[c].decision BY <1>1 DEF IntakeRow
<1> HIDE DEF k
<1>4. stored' \in RequestRow /\ (stored'.status = "requested" => Sound(stored'.decision, stored'.decision.entry))
  <2>1. CASE stored.status # "none" BY <2>1 DEF insertRequest, AdmissionInv
  <2>2. CASE stored.status = "none"
    <3>1. stored' = [status |-> IF intake[c].gate = "passed" THEN "requested" ELSE "rejected",
                     decision |-> intake[c].decision, by |-> {c}]
      BY <2>2 DEF insertRequest
    <3> QED BY <3>1, <1>1 DEF RequestRow, AdmissionInv
  <2> QED BY <2>1, <2>2
<1> QED BY <1>2, <1>3, <1>4, IntakeMove DEF AdmissionInv

\* The answer changes nothing of the decision.
LEMMA SettleInv == ASSUME AdmissionInv, NEW c \in IntakeCallers, settleIntake(c) PROVE AdmissionInv'
<1> DEFINE k == [[intake[c] EXCEPT !.pc = "idle"] EXCEPT
                    !.answer = IF intake[c].gate = "passed" THEN "accepted" ELSE "rejected"]
<1>1. intake[c] \in IntakeRow /\ stored \in RequestRow BY DEF AdmissionInv
<1>2. intake' = [intake EXCEPT ![c] = k] /\ probe' = probe /\ stored' = stored
  BY <1>1 DEF settleIntake, AdmissionInv, IntakeRow
<1>3. k \in IntakeRow /\ k.gate = intake[c].gate /\ k.decision = intake[c].decision BY <1>1 DEF IntakeRow
<1> HIDE DEF k
<1> QED BY <1>1, <1>2, <1>3, IntakeMove DEF AdmissionInv

\* AdmissionInv holds in every reachable state of the intake for any price
\* levels, minimum ratio, callers and decisions (intake.ts, gates.ts): a call whose
\* gates passed brings a sound order, and so does a row recorded as requested.
THEOREM AdmissionInvariance == ASSUME AdmissionAssumption PROVE AdmissionSpec => []AdmissionInv
<1>1. AdmissionInit => AdmissionInv BY AdmissionInitInv
<1>2. AdmissionInv /\ [AdmissionNext]_admissionVars => AdmissionInv'
  <2> SUFFICES ASSUME AdmissionInv, [AdmissionNext]_admissionVars PROVE AdmissionInv' OBVIOUS
  <2>1. CASE UNCHANGED admissionVars BY <2>1 DEF admissionVars, AdmissionInv
  <2>2. CASE AdmissionNext
    <3>1. PICK c \in IntakeCallers :
            \/ \E shut \in {{}, {"kill_switch"}, {"risk_decision"}} : submitExecutionDecision(c, shut)
            \/ insertRequest(c) \/ settleIntake(c)
      BY <2>2 DEF AdmissionNext
    <3> QED BY <3>1, SubmitDecisionInv, InsertRequestInv, SettleInv
  <2> QED BY <2>1, <2>2
<1> QED BY <1>1, <1>2, PTL DEF AdmissionSpec

\* What passes the execution gates or the paper gates is a protected order with at
\* least the minimum reward at its entry or its fill, for every price grid and
\* ratio, and a request recorded as requested is such an order even when calls with
\* different decisions race for its key (gates.ts, paper-gates.ts, intake.ts).
THEOREM AdmittedSound == ASSUME AdmissionAssumption PROVE AdmissionSpec => []AdmittedOrdersAreSound
<1>1. AdmissionInv => AdmittedOrdersAreSound
  <2> SUFFICES ASSUME AdmissionInv PROVE AdmittedOrdersAreSound OBVIOUS
  <2>1. probe.kind = "gates" => probe.decision \in Decisions /\ probe.fill \in Prices
    BY DEF AdmissionInv, Probes
  <2> QED BY <2>1, PassedIsSound, PaperPassIsSound DEF AdmittedOrdersAreSound, AdmissionInv
<1> QED BY <1>1, AdmissionInvariance, PTL

\* A whole number of steps above the minimum.
LEMMA WholeSteps ==
    ASSUME NEW volume \in Nat, NEW least \in Nat, NEW step \in Nat, step > 0, volume >= least,
           (volume - least) % step = 0
    PROVE  \E k \in 0..volume : volume = least + k * step
<1> DEFINE n == volume - least
           k == n \div step
<1>1. n \in Nat OBVIOUS
<1> HIDE DEF n
<1>2. k \in Nat /\ n = k * step BY <1>1 DEF n
<1> HIDE DEF k
<1>3. k <= n BY <1>1, <1>2
<1> QED BY <1>1, <1>2, <1>3 DEF n

\* What the bridge lets through reaches a connected demo account with a volume it
\* trades and a price it still quotes, and no unknown word of the broker becomes a
\* definitive result, for any sizes an instrument and an order may have
\* (mt5-bridge-protocol.ts).
THEOREM BridgeAlwaysRefusesDoubt == ASSUME AdmissionAssumption PROVE AdmissionSpec => []BridgeRefusesDoubt
<1>1. AdmissionInv => BridgeRefusesDoubt
  <2> SUFFICES ASSUME AdmissionInv PROVE BridgeRefusesDoubt OBVIOUS
  <2>1. ASSUME probe.kind = "health", NEW p \in DOMAIN READINESS_PROFILES,
               resolveBridgeReadiness(probe.health, READINESS_PROFILES[p])
        PROVE  /\ probe.health.state = "ready"
               /\ \A c \in {"configured", "authenticated", "connected"} : probe.health[c] # "false"
    <3>1. probe.health \in Healths BY <2>1 DEF AdmissionInv, Probes
    <3>2. probe.health.state = "ready" BY <2>1, <3>1 DEF resolveBridgeReadiness, Healths
    <3>3. p \in {"providerHealth", "transportHealth", "reconciliationHealth"} BY DEF READINESS_PROFILES
    <3>4. "healthy" \in READINESS_PROFILES[p] /\ (p = "transportHealth" \/ "available" \in READINESS_PROFILES[p])
      BY <3>3 DEF READINESS_PROFILES, Conditions
    <3>5. CASE p = "transportHealth"
      <4>1. READINESS_PROFILES[p] = {"configured", "authenticated", "connected", "healthy"}
        BY <3>5 DEF READINESS_PROFILES
      <4>2. \A c \in {"configured", "authenticated", "connected"} : probe.health[c] = "true"
        BY <4>1, <2>1 DEF resolveBridgeReadiness
      <4> QED BY <3>2, <4>2
    <3>6. CASE "available" \in READINESS_PROFILES[p]
      <4>1. READINESS_DEPENDENCIES["available"] = {"configured", "authenticated", "connected"}
        BY DEF READINESS_DEPENDENCIES
      <4> QED BY <3>2, <3>6, <4>1, <2>1 DEF resolveBridgeReadiness
    <3> QED BY <3>4, <3>5, <3>6
  <2>2. ASSUME probe.kind = "bridge", validateInstrumentContract(probe.spec),
               validateVolumeAgainstInstrument(probe.volume, probe.spec)
        PROVE  \E k \in 0..probe.volume : probe.volume = probe.spec.min + k * probe.spec.step
    <3>1. probe.spec \in Specs /\ probe.volume \in Sizes BY <2>2 DEF AdmissionInv, Probes
    <3>2. probe.volume \in Nat /\ probe.spec.min \in Nat /\ probe.spec.step \in Nat
      BY <3>1 DEF Specs, AdmissionAssumption
    <3> QED BY <2>2, <3>2, WholeSteps DEF validateInstrumentContract, validateVolumeAgainstInstrument
  <2>3. ASSUME probe.kind = "bridge", evaluateQuoteFreshness(probe.quote, 2, [age |-> 2, skew |-> 1]) = "fresh"
        PROVE  probe.quote.at \in 0..3 /\ probe.quote.bid \in 1..probe.quote.ask
    <3>1. probe.quote \in Quotes BY <2>3 DEF AdmissionInv, Probes
    <3>2. probe.quote.bid \in {0, 1, 2} /\ probe.quote.ask = 1 /\ probe.quote.at \in 0..4 BY <3>1 DEF Quotes
    <3>3. /\ probe.quote.bid # 0 /\ ~(probe.quote.ask < probe.quote.bid)
          /\ ~(2 - probe.quote.at < -1)
      BY <2>3 DEF evaluateQuoteFreshness
    <3> QED BY <3>2, <3>3
  <2>4. ASSUME probe.kind = "handshake",
               evaluateBridgeHandshake(probe.offer, [account |-> "a", capabilities |-> {"submit"}]) = "accepted"
        PROVE  probe.offer.environment = "demo" /\ probe.offer.account = "a" /\ probe.offer.attested # "b"
    <3>1. probe.offer.environment = "demo" /\ probe.offer.account = "a"
          /\ probe.offer.attested \in {"none", probe.offer.account}
      BY <2>4 DEF evaluateBridgeHandshake
    <3> QED BY <3>1
  <2>5. \A raw \in {"market_closed", "strange"} : raw \notin DOMAIN PROVIDER_ORDER_STATUS_VOCABULARY
    BY DEF PROVIDER_ORDER_STATUS_VOCABULARY
  <2>6. ASSUME probe.kind = "word"
        PROVE  LET r == [outcome |-> probe.outcome, requires |-> probe.requires,
                         status |-> IF probe.outcome = "not_found" THEN "null" ELSE normalizeProviderOrderStatus(probe.raw)] IN
               bridgeReconciliationResultSchema(r) /\ probe.raw \in {"market_closed", "strange"} /\ probe.outcome # "not_found" =>
                   r.requires /\ r.status = "uncertain"
    BY <2>5 DEF normalizeProviderOrderStatus, bridgeReconciliationResultSchema
  <2>7. ASSUME probe.kind = "word"
        PROVE  LET o == [outcome |-> IF normalizeProviderOrderStatus(probe.raw) = "uncertain" THEN "uncertain" ELSE "accepted",
                         unknown |-> probe.unknown, evidence |-> probe.evidence] IN
               bridgeMutationOutcomeSchema(o) /\ o.evidence => probe.raw \in DOMAIN PROVIDER_ORDER_STATUS_VOCABULARY
    <3>1. probe.unknown \in BOOLEAN /\ probe.evidence \in BOOLEAN BY <2>7 DEF AdmissionInv, Probes
    <3> QED BY <3>1 DEF normalizeProviderOrderStatus, bridgeMutationOutcomeSchema
  <2> QED BY <2>1, <2>2, <2>3, <2>4, <2>6, <2>7 DEF BridgeRefusesDoubt
<1> QED BY <1>1, AdmissionInvariance, PTL
=============================================================================
