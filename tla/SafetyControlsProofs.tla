------------------------ MODULE SafetyControlsProofs ------------------------
(***************************************************************************)
(* The stops hold for any number of concurrent writers and entries: the    *)
(* row lock decides who changes a switch, so the event log tells its       *)
(* state, a committed stop is active, and an entry that passed every read  *)
(* passed no standing stop.  Then the entries themselves: what a composed  *)
(* entry fills is what was approved, once, however many compositions run   *)
(* and whatever changes between their reads.                               *)
(***************************************************************************)
EXTENDS SafetyControls, ComposedEntry, SequenceTheorems, FiniteSetTheorems, TLAPS

TxState == [at : {"idle", "read", "write", "users", "profiles", "commit"},
            kind : {"none", "set", "activate", "clear", "trip", "emergencyStop"},
            scope : Scopes, active : BOOLEAN, changed : BOOLEAN, seen : BOOLEAN, found : BOOLEAN]
AttemptState == [at : {"idle", "profile", "automation", "global", "user", "strategy",
                       "execution_profile", "submit"},
                 kind : {"none", "simulate", "composed"}, held : SUBSET Scopes]
SwitchRow == [row : {"absent", "active", "inactive"}, holder : Txs \cup {Free}]

Shapes ==
    /\ switches \in [Scopes -> SwitchRow]
    /\ events \in [Scopes -> {"none", "activated", "cleared"}]
    /\ usersRow \in [automation : BOOLEAN, holder : Txs \cup {Free}]
    /\ profile \in {"absent", "enabled", "disabled"} /\ rearm \in BOOLEAN
    /\ tx \in [Txs -> TxState]
    /\ attempt \in [Attempts -> AttemptState]

\* A writer holds only the row of its scope, and from its write on.
Owns(t) ==
    /\ \A s \in Scopes : switches[s].holder = t => tx[t].scope = s /\ tx[t].at \notin {"idle", "read"}
    /\ tx[t].at \in {"users", "profiles", "commit"} => switches[tx[t].scope].holder = t
    /\ usersRow.holder = t => tx[t].at \in {"profiles", "commit"}
    /\ tx[t].at \in {"profiles", "commit"} /\ tx[t].kind = "emergencyStop" => usersRow.holder = t

\* What a writer read is still so if it holds the row; a writer that does not
\* found no row, and the unique index makes it wait before it writes.
ReadFits(t) ==
    tx[t].at = "write" =>
        /\ tx[t].changed <=> (tx[t].seen # tx[t].active)
        /\ switches[tx[t].scope].holder = t =>
              /\ switches[tx[t].scope].row # "absent"
              /\ tx[t].seen <=> (switches[tx[t].scope].row = "active")
        /\ switches[tx[t].scope].holder # t => ~tx[t].seen

\* What a writer is about to commit is what it was asked for if it changes the
\* switch, and otherwise what the row says.
WriteFits(t) ==
    tx[t].at \in {"users", "profiles", "commit"} =>
        /\ tx[t].active => tx[t].seen
        /\ tx[t].changed => (tx[t].seen <=> tx[t].active)
        /\ ~tx[t].changed => (tx[t].seen <=> switches[tx[t].scope].row = "active")

\* An entry's standing stops are active, and none of those it has read.
EntryFits(a) ==
    /\ \A s \in attempt[a].held : isActive(s)
    /\ attempt[a].at \in {"user", "strategy", "execution_profile", "submit"} => "global" \notin attempt[a].held
    /\ attempt[a].at \in {"strategy", "execution_profile", "submit"} => "user" \notin attempt[a].held
    /\ attempt[a].at \in {"execution_profile", "submit"} => "strategy" \notin attempt[a].held
    /\ attempt[a].at = "submit" => "execution_profile" \notin attempt[a].held

WritersFit == \A t \in Txs : Owns(t) /\ ReadFits(t) /\ WriteFits(t)
EntriesFit == \A a \in Attempts : EntryFits(a)

SInv == Shapes /\ WritersFit /\ EntriesFit /\ LedgerTellsState

-----------------------------------------------------------------------------
\* Nobody writes or enters initially.
LEMMA InitInv == SafetyInit => SInv
<1> SUFFICES ASSUME SafetyInit PROVE SInv
  OBVIOUS
<1> USE SafetyAssumption
<1>1. NoTx \in TxState /\ NoAttempt \in AttemptState
  BY DEF NoTx, TxState, NoAttempt, AttemptState, Scopes
<1>2. Shapes
  BY <1>1 DEF SafetyInit, Shapes, SwitchRow
<1>3. WritersFit
  BY DEF SafetyInit, WritersFit, Owns, ReadFits, WriteFits, NoTx
<1>4. EntriesFit
  BY DEF SafetyInit, EntriesFit, EntryFits, NoAttempt
<1>5. LedgerTellsState
  BY DEF SafetyInit, LedgerTellsState
<1> QED
  BY <1>2, <1>3, <1>4, <1>5 DEF SInv

\* A step of writer t that touches only rows that are free or its own leaves
\* every other writer's part of the invariant alone.
LEMMA OthersKeep ==
    ASSUME SInv, NEW t \in Txs, NEW u \in Txs, u # t, tx'[u] = tx[u],
           \A s \in Scopes : \/ switches'[s] = switches[s]
                             \/ switches[s].holder \in {Free, t} /\ switches'[s].holder \in {Free, t},
           \/ usersRow' = usersRow
           \/ usersRow.holder \in {Free, t} /\ usersRow'.holder \in {Free, t}
    PROVE  Owns(u)' /\ ReadFits(u)' /\ WriteFits(u)'
<1> USE SafetyAssumption
<1>1. Owns(u) /\ ReadFits(u) /\ WriteFits(u) /\ tx[u] \in TxState /\ tx[u].scope \in Scopes /\ u # Free
  BY DEF SInv, WritersFit, Shapes, TxState
<1>2. \A s \in Scopes : /\ switches[s].holder = u => switches'[s] = switches[s]
                        /\ switches'[s].holder = u => switches[s].holder = u
  BY <1>1
<1>3. usersRow.holder = u <=> usersRow'.holder = u
  BY <1>1
<1>4. Owns(u)'
  BY <1>1, <1>2, <1>3 DEF Owns
<1>5. ReadFits(u)'
  BY <1>1, <1>2 DEF ReadFits
<1>6. WriteFits(u)'
  BY <1>1, <1>2 DEF WriteFits, Owns
<1> QED
  BY <1>4, <1>5, <1>6

\* While no switch changes its row, the entries and the event log stay right.
LEMMA RowsKept ==
    ASSUME SInv, Shapes', UNCHANGED <<events, attempt>>,
           \A s \in Scopes : switches'[s].row = switches[s].row
    PROVE  EntriesFit' /\ LedgerTellsState'
<1>1. \A s : isActive(s)' <=> isActive(s)
  BY DEF isActive
<1>2. EntriesFit'
  BY <1>1 DEF SInv, EntriesFit, EntryFits
<1>3. LedgerTellsState'
  BY DEF SInv, LedgerTellsState
<1> QED
  BY <1>2, <1>3

-----------------------------------------------------------------------------
(* The writers.                                                            *)

\* A transaction begins.
LEMMA BeginStep ==
    ASSUME SInv, NEW t \in Txs, NEW kind \in {"set", "activate", "clear", "trip", "emergencyStop"},
           NEW s \in Scopes, NEW active \in BOOLEAN, Begin(t, kind, s, active)
    PROVE  SInv'
<1> USE SafetyAssumption
<1> DEFINE r == [NoTx EXCEPT !.at = "read", !.kind = kind, !.scope = s, !.active = active]
<1>1. /\ tx' = [tx EXCEPT ![t] = r] /\ UNCHANGED <<switches, events, usersRow, profile, attempt, rearm>>
      /\ tx[t].at = "idle"
  BY DEF Begin
<1>2. r \in TxState /\ r.at = "read"
  BY DEF TxState, NoTx
<1> HIDE DEF r
<1>3. tx'[t] = r /\ \A u \in Txs \ {t} : tx'[u] = tx[u]
  BY <1>1 DEF SInv, Shapes
<1>4. Shapes'
  BY <1>1, <1>2 DEF SInv, Shapes
<1>5. Owns(t)' /\ ReadFits(t)' /\ WriteFits(t)'
  BY <1>1, <1>2, <1>3 DEF SInv, WritersFit, Owns, ReadFits, WriteFits
<1>6. WritersFit'
  BY <1>1, <1>3, <1>5, OthersKeep DEF WritersFit
<1>7. EntriesFit' /\ LedgerTellsState'
  BY <1>1, <1>4, RowsKept
<1> QED
  BY <1>4, <1>6, <1>7 DEF SInv

\* SELECT ... FOR UPDATE.
LEMMA ReadStep ==
    ASSUME SInv, NEW t \in Txs, readForUpdate(t)
    PROVE  SInv'
<1> USE SafetyAssumption
<1> DEFINE s == tx[t].scope
           was == switches[s].row = "active"
           r == [tx[t] EXCEPT !.at = "write", !.seen = was, !.changed = (was # tx[t].active)]
<1>1. /\ tx[t].at = "read" /\ tx[t] \in TxState /\ s \in Scopes /\ Owns(t) /\ t # Free
      /\ switches[s] \in SwitchRow
      /\ switches[s].row = "absent" \/ switches[s].holder = Free
      /\ UNCHANGED <<events, usersRow, profile, attempt, rearm>>
      /\ switches' = IF switches[s].row = "absent" THEN switches ELSE [switches EXCEPT ![s].holder = t]
  BY DEF readForUpdate, SInv, Shapes, WritersFit, TxState
<1>2. tx' = [tx EXCEPT ![t] = r]
  BY DEF readForUpdate, SInv, Shapes
<1>3. /\ r \in TxState /\ r.at = "write" /\ r.scope = s /\ r.active = tx[t].active
      /\ r.seen = was /\ r.changed = (was # tx[t].active) /\ r.kind = tx[t].kind
  BY <1>1 DEF TxState
<1> HIDE DEF r
<1>4. tx'[t] = r /\ \A u \in Txs \ {t} : tx'[u] = tx[u]
  BY <1>2 DEF SInv, Shapes
<1>5. switches[s].holder # t
  BY <1>1 DEF Owns
<1>6. /\ \A v \in Scopes \ {s} : switches'[v] = switches[v]
      /\ switches'[s].row = switches[s].row /\ switches'[s] \in SwitchRow
      /\ switches[s].row = "absent" => switches'[s] = switches[s]
      /\ switches[s].row # "absent" => switches'[s].holder = t /\ switches[s].holder = Free
      /\ switches' \in [Scopes -> SwitchRow]
  BY <1>1 DEF SInv, Shapes, SwitchRow
<1>7. Shapes'
  BY <1>1, <1>2, <1>3, <1>6 DEF SInv, Shapes
<1>8. Owns(t)'
  BY <1>1, <1>3, <1>4, <1>6 DEF Owns
<1>9. ReadFits(t)' /\ WriteFits(t)'
  BY <1>1, <1>3, <1>4, <1>5, <1>6 DEF ReadFits, WriteFits
<1>10. WritersFit'
  BY <1>1, <1>4, <1>6, <1>8, <1>9, OthersKeep DEF WritersFit
<1>11. EntriesFit' /\ LedgerTellsState'
  BY <1>1, <1>6, <1>7, RowsKept
<1> QED
  BY <1>7, <1>10, <1>11 DEF SInv

\* The write, once the row is free or the writer's own.
LEMMA WriteStep ==
    ASSUME SInv, NEW t \in Txs, writeRow(t)
    PROVE  SInv'
<1> USE SafetyAssumption
<1> DEFINE s == tx[t].scope
           at == IF tx[t].kind = "emergencyStop" THEN "users" ELSE "commit"
           seen == IF switches[s].row = "absent" \/ tx[t].changed
                   THEN tx[t].active ELSE switches[s].row = "active"
           r == [tx[t] EXCEPT !.at = at, !.seen = seen]
<1>1. /\ tx[t].at = "write" /\ tx[t] \in TxState /\ s \in Scopes /\ t # Free
      /\ Owns(t) /\ ReadFits(t)
      /\ switches[s] \in SwitchRow /\ switches[s].holder \in {Free, t}
      /\ UNCHANGED <<events, usersRow, profile, attempt, rearm>>
      /\ switches' = [switches EXCEPT ![s].holder = t]
  BY DEF writeRow, SInv, Shapes, WritersFit, TxState
<1>2. tx' = [tx EXCEPT ![t] = r]
  BY DEF writeRow, SInv, Shapes
<1>3. seen \in BOOLEAN
  BY <1>1 DEF TxState
<1>4. /\ tx[t].active => seen
      /\ tx[t].changed => (seen <=> tx[t].active)
      /\ ~tx[t].changed => (seen <=> switches[s].row = "active")
  <2>1. /\ tx[t].changed <=> (tx[t].seen # tx[t].active)
        /\ switches[s].holder = t =>
              /\ switches[s].row # "absent"
              /\ tx[t].seen <=> (switches[s].row = "active")
        /\ switches[s].holder # t => ~tx[t].seen
        /\ tx[t].seen \in BOOLEAN /\ tx[t].active \in BOOLEAN /\ tx[t].changed \in BOOLEAN
    BY <1>1 DEF ReadFits, TxState
  <2> QED
    BY <2>1
<1>5. /\ r \in TxState /\ r.at = at /\ r.scope = s /\ r.active = tx[t].active
      /\ r.seen = seen /\ r.changed = tx[t].changed /\ r.kind = tx[t].kind
  BY <1>1, <1>3 DEF TxState
<1> HIDE DEF r, seen
<1>6. tx'[t] = r /\ \A u \in Txs \ {t} : tx'[u] = tx[u]
  BY <1>2 DEF SInv, Shapes
<1>7. /\ \A v \in Scopes \ {s} : switches'[v] = switches[v]
      /\ switches'[s].row = switches[s].row /\ switches'[s].holder = t
      /\ switches' \in [Scopes -> SwitchRow]
  BY <1>1 DEF SInv, Shapes, SwitchRow
<1>8. Shapes'
  BY <1>1, <1>2, <1>5, <1>7 DEF SInv, Shapes
<1>9. Owns(t)'
  BY <1>1, <1>5, <1>6, <1>7 DEF Owns
<1>10. ReadFits(t)' /\ WriteFits(t)'
  BY <1>4, <1>5, <1>6, <1>7 DEF ReadFits, WriteFits
<1>11. WritersFit'
  BY <1>1, <1>6, <1>7, <1>9, <1>10, OthersKeep DEF WritersFit
<1>12. EntriesFit' /\ LedgerTellsState'
  BY <1>1, <1>7, <1>8, RowsKept
<1> QED
  BY <1>8, <1>11, <1>12 DEF SInv

\* The emergency stop locks the account's row, then sees the profiles.
LEMMA StopSteps ==
    ASSUME SInv, NEW t \in Txs, lockUser(t) \/ disableProfiles(t)
    PROVE  SInv'
<1> USE SafetyAssumption
<1> DEFINE at == IF tx[t].at = "users" THEN "profiles" ELSE "commit"
           found == IF tx[t].at = "users" THEN tx[t].found ELSE profile = "enabled"
           r == [tx[t] EXCEPT !.at = at, !.found = found]
<1>1. /\ tx[t].at \in {"users", "profiles"} /\ tx[t] \in TxState /\ tx[t].scope \in Scopes /\ t # Free
      /\ Owns(t) /\ WriteFits(t)
      /\ UNCHANGED <<switches, events, profile, attempt, rearm>>
      /\ usersRow \in [automation : BOOLEAN, holder : Txs \cup {Free}]
      /\ \/ tx[t].at = "users" /\ usersRow.holder = Free /\ usersRow' = [usersRow EXCEPT !.holder = t]
         \/ tx[t].at = "profiles" /\ usersRow' = usersRow
  BY DEF lockUser, disableProfiles, SInv, Shapes, WritersFit, TxState
<1>2. tx' = [tx EXCEPT ![t] = r]
  <2>1. CASE lockUser(t)
    <3>1. r = [tx[t] EXCEPT !.at = "profiles"]
      BY <1>1, <2>1 DEF lockUser, TxState
    <3> QED
      BY <2>1, <3>1 DEF lockUser, SInv, Shapes
  <2>2. CASE disableProfiles(t)
    <3>1. r = [tx[t] EXCEPT !.at = "commit", !.found = (profile = "enabled")]
      BY <2>2 DEF disableProfiles
    <3> QED
      BY <2>2, <3>1 DEF disableProfiles, SInv, Shapes
  <2> QED
    BY <2>1, <2>2
<1>3. /\ r \in TxState /\ r.at = at /\ r.scope = tx[t].scope /\ r.active = tx[t].active
      /\ r.seen = tx[t].seen /\ r.changed = tx[t].changed /\ r.kind = tx[t].kind
  BY <1>1 DEF TxState
<1> HIDE DEF r
<1>4. tx'[t] = r /\ \A u \in Txs \ {t} : tx'[u] = tx[u]
  BY <1>2 DEF SInv, Shapes
<1>5. /\ usersRow' \in [automation : BOOLEAN, holder : Txs \cup {Free}]
      /\ usersRow' = usersRow \/ (usersRow.holder = Free /\ usersRow'.holder = t)
      /\ tx[t].at = "users" => usersRow'.holder = t
  BY <1>1
<1>6. Shapes'
  BY <1>1, <1>2, <1>3, <1>5 DEF SInv, Shapes
<1>7. Owns(t)'
  BY <1>1, <1>3, <1>4, <1>5 DEF Owns
<1>8. ReadFits(t)' /\ WriteFits(t)'
  BY <1>1, <1>3, <1>4 DEF ReadFits, WriteFits
<1>9. WritersFit'
  BY <1>1, <1>4, <1>5, <1>7, <1>8, OthersKeep DEF WritersFit
<1>10. EntriesFit' /\ LedgerTellsState'
  BY <1>1, <1>6, RowsKept
<1> QED
  BY <1>6, <1>9, <1>10 DEF SInv

\* ROLLBACK gives the locks back.
LEMMA RollbackStep ==
    ASSUME SInv, NEW t \in Txs, rollback(t)
    PROVE  SInv'
<1> USE SafetyAssumption
<1>1. /\ tx' = [tx EXCEPT ![t] = NoTx] /\ UNCHANGED <<events, profile, attempt, rearm>> /\ t # Free
      /\ usersRow' = IF usersRow.holder = t THEN [usersRow EXCEPT !.holder = Free] ELSE usersRow
      /\ switches' = [s \in Scopes |-> IF switches[s].holder = t
                                       THEN [switches[s] EXCEPT !.holder = Free] ELSE switches[s]]
  BY DEF rollback
<1>2. NoTx \in TxState /\ NoTx.at = "idle"
  BY DEF NoTx, TxState, Scopes
<1>3. tx'[t] = NoTx /\ \A u \in Txs \ {t} : tx'[u] = tx[u]
  BY <1>1 DEF SInv, Shapes
<1>4. ASSUME NEW s \in Scopes
      PROVE  /\ switches'[s] \in SwitchRow /\ switches'[s].row = switches[s].row
             /\ switches'[s].holder # t
             /\ switches'[s] = switches[s] \/ (switches[s].holder = t /\ switches'[s].holder = Free)
  <2>1. switches[s] \in SwitchRow
    BY DEF SInv, Shapes
  <2>2. switches'[s] = IF switches[s].holder = t THEN [switches[s] EXCEPT !.holder = Free] ELSE switches[s]
    BY <1>1
  <2> QED
    BY <1>1, <2>1, <2>2 DEF SwitchRow
<1>5. /\ usersRow' \in [automation : BOOLEAN, holder : Txs \cup {Free}]
      /\ usersRow'.holder # t
      /\ usersRow' = usersRow \/ (usersRow.holder = t /\ usersRow'.holder = Free)
  BY <1>1 DEF SInv, Shapes
<1>6. switches' \in [Scopes -> SwitchRow]
  BY <1>1, <1>4
<1>7. Shapes'
  BY <1>1, <1>2, <1>5, <1>6 DEF SInv, Shapes
<1>8. Owns(t)' /\ ReadFits(t)' /\ WriteFits(t)'
  BY <1>2, <1>3, <1>4, <1>5 DEF Owns, ReadFits, WriteFits
<1>9. WritersFit'
  <2>1. ASSUME NEW u \in Txs, u # t PROVE Owns(u)' /\ ReadFits(u)' /\ WriteFits(u)'
    BY <1>3, <1>4, <1>5, <2>1, OthersKeep
  <2> QED
    BY <1>8, <2>1 DEF WritersFit
<1>10. EntriesFit' /\ LedgerTellsState'
  BY <1>1, <1>4, <1>7, RowsKept
<1> QED
  BY <1>7, <1>9, <1>10 DEF SInv

\* What a commit leaves in the row and of the stops an entry still meets.
LEMMA CommitFacts ==
    ASSUME SInv, NEW t \in Txs, applySwitch(t)
    PROVE  /\ tx[t].at = "commit" /\ tx[t] \in TxState /\ tx[t].scope \in Scopes
           /\ Owns(t) /\ WriteFits(t)
           /\ switches' \in [Scopes -> SwitchRow]
           /\ switches'[tx[t].scope].row = "active" <=> tx[t].seen
           /\ switches'[tx[t].scope].holder = Free /\ switches[tx[t].scope].holder = t
           /\ \A v \in Scopes \ {tx[t].scope} : switches'[v] = switches[v]
           /\ \A v \in Scopes : isActive(v)' <=>
                 IF v = tx[t].scope THEN tx[t].seen \/ (tx[t].scope = "global" /\ GlobalForced)
                 ELSE isActive(v)
<1> USE SafetyAssumption
<1>1. /\ tx[t].at = "commit" /\ tx[t] \in TxState /\ tx[t].scope \in Scopes
      /\ Owns(t) /\ WriteFits(t)
      /\ switches' = [switches EXCEPT ![tx[t].scope] =
                         [row |-> IF tx[t].seen THEN "active" ELSE "inactive", holder |-> Free]]
  BY DEF applySwitch, SInv, Shapes, WritersFit, TxState
<1>2. /\ switches' \in [Scopes -> SwitchRow]
      /\ switches'[tx[t].scope].row = "active" <=> tx[t].seen
      /\ switches'[tx[t].scope].holder = Free
      /\ \A v \in Scopes \ {tx[t].scope} : switches'[v] = switches[v]
  BY <1>1 DEF SInv, Shapes, SwitchRow
<1>3. switches[tx[t].scope].holder = t
  BY <1>1 DEF Owns
<1>4. \A v \in Scopes : isActive(v)' <=>
                 IF v = tx[t].scope THEN tx[t].seen \/ (tx[t].scope = "global" /\ GlobalForced)
                 ELSE isActive(v)
  BY <1>1, <1>2 DEF isActive
<1> QED
  BY <1>1, <1>2, <1>3, <1>4

\* COMMIT.
LEMMA CommitStep ==
    ASSUME SInv, NEW t \in Txs, applySwitch(t)
    PROVE  SInv'
<1> USE SafetyAssumption
<1> DEFINE s == tx[t].scope
           now == {r \in Scopes : IF r = s THEN tx[t].seen \/ (s = "global" /\ GlobalForced)
                                  ELSE isActive(r)}
<1>1. /\ tx' = [tx EXCEPT ![t] = NoTx] /\ t # Free /\ UNCHANGED rearm
      /\ usersRow' = IF usersRow.holder = t THEN [automation |-> FALSE, holder |-> Free] ELSE usersRow
      /\ profile' = IF tx[t].found THEN "disabled" ELSE profile
      /\ events' = [events EXCEPT ![s] = IF ~tx[t].changed THEN @
                                         ELSE IF tx[t].active THEN "activated" ELSE "cleared"]
      /\ attempt' = [a \in Attempts |-> [attempt[a] EXCEPT !.held = @ \cap now]]
  BY DEF applySwitch, StillHeld
<1>2. NoTx \in TxState /\ NoTx.at = "idle"
  BY DEF NoTx, TxState, Scopes
<1>3. tx'[t] = NoTx /\ \A u \in Txs \ {t} : tx'[u] = tx[u]
  BY <1>1 DEF SInv, Shapes
<1>4. \A v \in Scopes : v \in now <=> isActive(v)'
  BY CommitFacts
<1> HIDE DEF now
<1>5. ASSUME NEW a \in Attempts
      PROVE  /\ attempt'[a] \in AttemptState /\ attempt'[a].at = attempt[a].at
             /\ attempt'[a].held = attempt[a].held \cap now
             /\ attempt[a].held \subseteq Scopes
  <2>1. attempt[a] \in AttemptState
    BY DEF SInv, Shapes
  <2>2. attempt'[a] = [attempt[a] EXCEPT !.held = @ \cap now]
    BY <1>1
  <2> QED
    BY <2>1, <2>2 DEF AttemptState
<1>6. /\ usersRow' \in [automation : BOOLEAN, holder : Txs \cup {Free}]
      /\ usersRow'.holder # t
      /\ usersRow' = usersRow \/ (usersRow.holder = t /\ usersRow'.holder = Free)
  BY <1>1 DEF SInv, Shapes
<1>7. Shapes'
  <2>1. attempt' \in [Attempts -> AttemptState]
    BY <1>1, <1>5
  <2>2. events' \in [Scopes -> {"none", "activated", "cleared"}]
    BY <1>1 DEF SInv, Shapes
  <2>3. profile' \in {"absent", "enabled", "disabled"}
    BY <1>1 DEF SInv, Shapes
  <2>4. switches' \in [Scopes -> SwitchRow]
    BY CommitFacts
  <2>5. tx' \in [Txs -> TxState]
    BY <1>1, <1>2 DEF SInv, Shapes
  <2> QED
    BY <1>1, <1>6, <2>1, <2>2, <2>3, <2>4, <2>5 DEF SInv, Shapes
<1>8. /\ \A v \in Scopes : /\ switches'[v].holder # t
                           /\ \/ switches'[v] = switches[v]
                              \/ switches[v].holder = t /\ switches'[v].holder = Free
  <2> SUFFICES ASSUME NEW v \in Scopes
               PROVE  /\ switches'[v].holder # t
                      /\ \/ switches'[v] = switches[v]
                         \/ switches[v].holder = t /\ switches'[v].holder = Free
    OBVIOUS
  <2>1. CASE v = s
    BY <1>1, <2>1, CommitFacts
  <2>2. CASE v # s
    <3>1. switches[v].holder # t
      BY <2>2, CommitFacts DEF Owns
    <3> QED
      BY <2>2, <3>1, CommitFacts
  <2> QED
    BY <2>1, <2>2
<1>9. Owns(t)' /\ ReadFits(t)' /\ WriteFits(t)'
  BY <1>2, <1>3, <1>6, <1>8 DEF Owns, ReadFits, WriteFits
<1>10. WritersFit'
  <2>1. ASSUME NEW u \in Txs, u # t PROVE Owns(u)' /\ ReadFits(u)' /\ WriteFits(u)'
    BY <1>3, <1>6, <1>8, <2>1, OthersKeep
  <2> QED
    BY <1>9, <2>1 DEF WritersFit
<1>11. EntriesFit'
  BY <1>4, <1>5 DEF SInv, EntriesFit, EntryFits
<1>12. LedgerTellsState'
  <2>1. \A v \in Scopes \ {s} : events'[v] = events[v] /\ switches'[v] = switches[v]
    BY <1>1, CommitFacts DEF SInv, Shapes
  <2>2. switches'[s].row = "active" <=> tx[t].seen
    BY CommitFacts
  <2>3. switches[s].row = "active" <=> events[s] = "activated"
    BY CommitFacts DEF SInv, LedgerTellsState
  <2>4. CASE tx[t].changed
    <3>1. events'[s] = IF tx[t].active THEN "activated" ELSE "cleared"
      BY <1>1, <2>4, CommitFacts DEF SInv, Shapes
    <3>2. tx[t].seen <=> tx[t].active
      BY <2>4, CommitFacts DEF WriteFits
    <3> QED
      BY <2>1, <2>2, <3>1, <3>2 DEF SInv, LedgerTellsState
  <2>5. CASE ~tx[t].changed
    <3>1. events'[s] = events[s]
      BY <1>1, <2>5, CommitFacts DEF SInv, Shapes
    <3>2. tx[t].seen <=> switches[s].row = "active"
      BY <2>5, CommitFacts DEF WriteFits
    <3> QED
      BY <2>1, <2>2, <2>3, <3>1, <3>2 DEF SInv, LedgerTellsState
  <2> QED
    BY <2>4, <2>5
<1> QED
  BY <1>7, <1>10, <1>11, <1>12 DEF SInv

-----------------------------------------------------------------------------
(* Automation, profiles and entries.                                       *)

\* Steps that leave the switches, the writers and the locks alone.
LEMMA WritersKept ==
    ASSUME SInv, Shapes', UNCHANGED <<switches, tx>>, usersRow'.holder = usersRow.holder
    PROVE  WritersFit'
  BY DEF SInv, WritersFit, Owns, ReadFits, WriteFits

\* setAutomationEnabled, the flag's UPDATE, a new profile.
LEMMA AccountSteps ==
    ASSUME SInv, setAutomationEnabled \/ createProfile \/ \E e \in BOOLEAN : updateAutomation(e)
    PROVE  SInv'
<1>1. UNCHANGED <<switches, events, tx, attempt>>
  BY DEF setAutomationEnabled, createProfile, updateAutomation
<1>2. /\ usersRow' \in [automation : BOOLEAN, holder : Txs \cup {Free}]
      /\ usersRow'.holder = usersRow.holder
      /\ profile' \in {"absent", "enabled", "disabled"} /\ rearm' \in BOOLEAN
  BY DEF setAutomationEnabled, createProfile, updateAutomation, SInv, Shapes
<1>3. Shapes'
  BY <1>1, <1>2 DEF SInv, Shapes
<1> QED
  BY <1>1, <1>2, <1>3, WritersKept, RowsKept DEF SInv

\* An entry moves to the record r.
LEMMA EntryMove ==
    ASSUME SInv, NEW a \in Attempts, NEW r \in AttemptState, attempt' = [attempt EXCEPT ![a] = r],
           UNCHANGED <<switches, events, usersRow, profile, tx, rearm>>,
           EntryFits(a)'
    PROVE  SInv'
<1>1. Shapes'
  BY DEF SInv, Shapes
<1>2. \A s : isActive(s)' <=> isActive(s)
  BY DEF isActive
<1>3. \A b \in Attempts \ {a} : attempt'[b] = attempt[b]
  BY DEF SInv, Shapes
<1>4. EntriesFit'
  BY <1>2, <1>3 DEF SInv, EntriesFit, EntryFits
<1>5. LedgerTellsState'
  BY DEF SInv, LedgerTellsState
<1> QED
  BY <1>1, <1>4, <1>5, WritersKept DEF SInv

\* The reads of an entry, in the order of anyActive: a scope that is read
\* inactive is not among the standing stops.
LEMMA EntrySteps ==
    ASSUME SInv, NEW a \in Attempts,
           \/ \E kind \in Kinds : beginAttempt(a, kind)
           \/ fenceProfile(a) \/ fenceAutomation(a) \/ anyActive(a) \/ submitEntry(a)
    PROVE  SInv'
<1> USE SafetyAssumption
<1>1. /\ UNCHANGED <<switches, events, usersRow, profile, tx, rearm>>
      /\ attempt \in [Attempts -> AttemptState] /\ attempt[a] \in AttemptState /\ EntryFits(a)
  BY DEF beginAttempt, fenceProfile, fenceAutomation, anyActive, submitEntry, SInv, Shapes, EntriesFit
<1>2. \A s : isActive(s)' <=> isActive(s)
  BY <1>1 DEF isActive
<1>3. NoAttempt \in AttemptState /\ NoAttempt.held = {} /\ NoAttempt.at = "idle"
  BY DEF NoAttempt, AttemptState
<1>4. CASE Refuse(a)
  <2>1. attempt' = [attempt EXCEPT ![a] = NoAttempt] /\ attempt'[a] = NoAttempt
    BY <1>1, <1>4 DEF Refuse
  <2>2. EntryFits(a)'
    BY <1>3, <2>1 DEF EntryFits
  <2> QED
    BY <1>1, <1>3, <2>1, <2>2, EntryMove
<1>5. CASE \E kind \in Kinds : beginAttempt(a, kind)
  <2>1. PICK kind \in Kinds : beginAttempt(a, kind)
    BY <1>5
  <2> DEFINE r == [NoAttempt EXCEPT !.at = "profile", !.kind = kind]
  <2>2. attempt' = [attempt EXCEPT ![a] = r] /\ attempt'[a] = r
    BY <1>1, <2>1 DEF beginAttempt
  <2>3. r \in AttemptState /\ r.held = {} /\ r.at = "profile"
    BY DEF NoAttempt, AttemptState
  <2> HIDE DEF r
  <2>4. EntryFits(a)'
    BY <2>2, <2>3 DEF EntryFits
  <2> QED
    BY <1>1, <2>2, <2>3, <2>4, EntryMove
<1>6. CASE fenceProfile(a) /\ Step(a, "automation")
  <2> DEFINE r == [attempt[a] EXCEPT !.at = "automation"]
  <2>2. attempt' = [attempt EXCEPT ![a] = r] /\ attempt'[a] = r
    BY <1>1, <1>6 DEF Step
  <2>3. r \in AttemptState /\ r.held = attempt[a].held /\ r.at = "automation"
    BY <1>1 DEF AttemptState
  <2> HIDE DEF r
  <2>4. EntryFits(a)'
    BY <1>1, <1>2, <2>2, <2>3 DEF EntryFits
  <2> QED
    BY <1>1, <2>2, <2>3, <2>4, EntryMove
<1>7. CASE attempt' = [attempt EXCEPT ![a].at = "global", ![a].held = ActiveScopes]
  <2> DEFINE r == [attempt[a] EXCEPT !.at = "global", !.held = ActiveScopes]
  <2>1. ActiveScopes \in SUBSET Scopes /\ \A s \in ActiveScopes : isActive(s)
    BY DEF ActiveScopes
  <2>2. attempt' = [attempt EXCEPT ![a] = r] /\ attempt'[a] = r
    BY <1>1, <1>7
  <2>3. r \in AttemptState /\ r.held = ActiveScopes /\ r.at = "global"
    BY <1>1, <2>1 DEF AttemptState
  <2> HIDE DEF r
  <2>4. EntryFits(a)'
    BY <1>2, <2>1, <2>2, <2>3 DEF EntryFits
  <2> QED
    BY <1>1, <2>2, <2>3, <2>4, EntryMove
<1>8. CASE /\ attempt[a].at \in {"global", "user", "strategy", "execution_profile"}
           /\ ~isActive(attempt[a].at) /\ Step(a, NextRead(attempt[a].at))
  <2> DEFINE n == NextRead(attempt[a].at)
             r == [attempt[a] EXCEPT !.at = n]
  <2>1. /\ attempt[a].at = "global" => n = "user"
        /\ attempt[a].at = "user" => n = "strategy"
        /\ attempt[a].at = "strategy" => n = "execution_profile"
        /\ attempt[a].at = "execution_profile" => n = "submit"
    BY DEF NextRead
  <2> HIDE DEF n
  <2>2. attempt' = [attempt EXCEPT ![a] = r] /\ attempt'[a] = r
    BY <1>1, <1>8 DEF Step, n
  <2>3. r \in AttemptState /\ r.held = attempt[a].held /\ r.at = n
    BY <1>1, <1>8, <2>1 DEF AttemptState
  <2> HIDE DEF r
  <2>4. attempt[a].at \notin attempt[a].held
    BY <1>1, <1>8 DEF EntryFits
  <2>5. EntryFits(a)'
    BY <1>1, <1>2, <1>8, <2>1, <2>2, <2>3, <2>4 DEF EntryFits
  <2> QED
    BY <1>1, <2>2, <2>3, <2>5, EntryMove
<1> QED
  BY <1>4, <1>5, <1>6, <1>7, <1>8 DEF fenceProfile, fenceAutomation, anyActive, submitEntry

-----------------------------------------------------------------------------
(* Theorems.                                                               *)

\* Every step preserves the invariant.
LEMMA NextInv == SInv /\ [SafetyNext]_safetyVars => SInv'
<1> SUFFICES ASSUME SInv, [SafetyNext]_safetyVars PROVE SInv'
  OBVIOUS
<1>1. CASE UNCHANGED safetyVars
  BY <1>1 DEF safetyVars, SInv, Shapes, WritersFit, Owns, ReadFits, WriteFits, EntriesFit, EntryFits,
              LedgerTellsState, isActive
<1>2. ASSUME NEW t \in Txs,
             \/ \E active \in BOOLEAN : set(t, active)
             \/ \E s \in UserScopes : activateSwitch(t, s) \/ clearSwitch(t, s)
             \/ tripCircuitBreaker(t) \/ emergencyStop(t)
      PROVE  SInv'
  <2>1. "global" \in Scopes /\ "user" \in Scopes /\ UserScopes \subseteq Scopes
    BY SafetyAssumption DEF Scopes
  <2>2. PICK kind \in {"set", "activate", "clear", "trip", "emergencyStop"}, s \in Scopes,
             active \in BOOLEAN : Begin(t, kind, s, active)
    BY <1>2, <2>1 DEF set, activateSwitch, clearSwitch, tripCircuitBreaker, emergencyStop
  <2> QED
    BY <2>2, BeginStep
<1>3. ASSUME NEW t \in Txs,
             \/ readForUpdate(t) \/ writeRow(t) \/ lockUser(t) \/ disableProfiles(t)
             \/ applySwitch(t) \/ rollback(t)
      PROVE  SInv'
  BY <1>3, ReadStep, WriteStep, StopSteps, CommitStep, RollbackStep
<1>4. CASE setAutomationEnabled \/ createProfile \/ \E e \in BOOLEAN : updateAutomation(e)
  BY <1>4, AccountSteps
<1>5. ASSUME NEW a \in Attempts,
             \/ \E kind \in Kinds : beginAttempt(a, kind)
             \/ fenceProfile(a) \/ fenceAutomation(a) \/ anyActive(a) \/ submitEntry(a)
      PROVE  SInv'
  BY <1>5, EntrySteps
<1> QED
  BY <1>1, <1>2, <1>3, <1>4, <1>5 DEF SafetyNext

\* Who holds a switch's row knows what it says, and standing stops are active:
\* SInv holds in every reachable state, for any number of writers and entries.
THEOREM SafetyInvariance == SafetySpec => []SInv
  BY InitInv, NextInv, PTL DEF SafetySpec

\* What a commit of an activation leaves behind.
Landed == \A t \in Txs : applySwitch(t) /\ tx[t].active =>
             /\ switches'[tx[t].scope].row = "active"
             /\ tx[t].kind = "emergencyStop" => ~usersRow'.automation

\* Under SInv every commit lands.
LEMMA CommitLands == SInv => Landed
<1> SUFFICES ASSUME SInv, NEW t \in Txs, applySwitch(t), tx[t].active
             PROVE  /\ switches'[tx[t].scope].row = "active"
                    /\ tx[t].kind = "emergencyStop" => ~usersRow'.automation
  BY DEF Landed
<1>1. switches'[tx[t].scope].row = "active"
  BY CommitFacts DEF WriteFits
<1>2. ASSUME tx[t].kind = "emergencyStop" PROVE ~usersRow'.automation
  <2>1. usersRow.holder = t
    BY <1>2, CommitFacts DEF Owns
  <2> QED
    BY <2>1 DEF applySwitch
<1> QED
  BY <1>1, <1>2

\* The stops hold: an entry that submits met no stop that stood when its reads
\* began and stands still, the event log tells the state of every switch, and
\* a committed stop is active and an emergency stop leaves automation off
\* (kill-switch.ts, safety.ts, composition-fence.ts).
THEOREM StopsHoldAlways == SafetySpec => StopsHold
<1>1. SInv => SafetyTypeOK /\ StopsAreSeen /\ LedgerTellsState
  <2> SUFFICES ASSUME SInv PROVE SafetyTypeOK /\ StopsAreSeen /\ LedgerTellsState
    OBVIOUS
  <2>1. SafetyTypeOK
    BY DEF SInv, Shapes, SafetyTypeOK, SwitchRow, TxState, AttemptState
  <2>2. StopsAreSeen
    <3> SUFFICES ASSUME NEW a \in Attempts, attempt[a].at = "submit" PROVE attempt[a].held = {}
      BY DEF StopsAreSeen
    <3>1. attempt[a].held \subseteq {"global", "user", "strategy", "execution_profile"}
      BY SafetyAssumption DEF SInv, Shapes, AttemptState, Scopes
    <3> QED
      BY <3>1 DEF SInv, EntriesFit, EntryFits
  <2> QED
    BY <2>1, <2>2 DEF SInv
<1> QED
  BY <1>1, CommitLands, SafetyInvariance, PTL DEF SafetySpec, StopsHold, StopLands, Landed

-----------------------------------------------------------------------------
(* Composed entries: what is known at each place, and the invariant.       *)

EntryPlaces == {"idle", "frozen", "built", "derived", "evaluated", "minted", "fenced", "reread",
                "cited", "gated", "bound", "consumed", "filled", "replayed"}
SinceFill == {"filled", "replayed"}
SinceReread == {"reread", "cited", "gated", "bound", "consumed"} \cup SinceFill
SinceMint == {"minted", "fenced"} \cup SinceReread
SinceEvaluation == {"evaluated"} \cup SinceMint
SinceIdentity == {"derived"} \cup SinceEvaluation
SinceDecision == {"built"} \cup SinceIdentity
Answers == {"none", "rejected", "thrown", "replayed", "filled"}

\* A composition in one of these places may have an authorization in the map.
Holding == (SinceMint \ {"consumed", "filled"})

SetupRow == [state : {"confirmed", "triggered", "expired"}, score : Scores]
Decision == [profile : Profiles, setup : Setups, score : Scores, size : Sizes,
             outcome : {"approved", "rejected"}]
Context == [user : UNION {{r.user} : r \in EntryRequests}, profile : Profiles,
            provider : UNION {{Provider[p]} : p \in Profiles}, setup : Setups, risk : Nat]
Authorization == [id : Nat, attempt : Nat, quantity : Nat, context : Context]
Entry == [profile : Profiles, setup : Setups, attempt : Nat, score : Scores, quantity : Nat,
          risk : Nat, status : {"filled", "failed"}, by : Composers]
Composition == [pc : EntryPlaces, snap : EntryRequests, on : BOOLEAN, score : Scores, attempt : Nat,
                risk : Nat, size : Nat, auth : Nat, rebuilt : Scores, answer : Answers]

EntryShapes ==
    /\ input \in [Composers -> EntryRequests]
    /\ setupRows \in [Setups -> SetupRow]
    /\ enabled \in [Profiles -> BOOLEAN]
    /\ riskRows \in Seq(Decision)
    /\ reserved \subseteq DOMAIN riskRows
    /\ auths \in Seq(Authorization) /\ Len(auths) <= AuthCapacity
    /\ entryOrders \subseteq Entry
    /\ comp \in [Composers -> Composition]
    /\ moves \in 0..MaxMoves /\ faults \in 0..MaxFaults

\* The attempts at one entry that failed.
FailedOf(os, p, s) == {o \in os : o.profile = p /\ o.setup = s /\ o.status = "failed"}

\* An order and the decision behind it.
StandsOn(o, rows) ==
    /\ o.risk \in DOMAIN rows
    /\ rows[o.risk].outcome = "approved"
    /\ rows[o.risk].profile = o.profile /\ rows[o.risk].setup = o.setup
    /\ rows[o.risk].score = o.score /\ rows[o.risk].size = o.quantity
    /\ o.quantity > 0
    /\ ProfileOwner[o.profile] = SetupOwner[o.setup]
    /\ Provider[o.profile] = "paper"

\* The attempts at an entry are numbered without a gap, and only the last of
\* them may have been filled.
AttemptsFit(os, p, s) ==
    /\ IsFiniteSet(FailedOf(os, p, s))
    /\ \A k \in 1..Cardinality(FailedOf(os, p, s)) : \E o \in FailedOf(os, p, s) : o.attempt = k
    /\ \A o \in FailedOf(os, p, s) : o.attempt <= Cardinality(FailedOf(os, p, s))
    /\ \A o \in os : o.profile = p /\ o.setup = s /\ o.status = "filled" =>
          o.attempt = Cardinality(FailedOf(os, p, s)) + 1

OrdersFit(os, rows) ==
    /\ \A o \in os : StandsOn(o, rows)
    /\ \A o, other \in os : o.risk = other.risk => o = other
    /\ \A o, other \in os :
          o.profile = other.profile /\ o.setup = other.setup /\ o.attempt = other.attempt => o = other
    /\ \A p \in Profiles, s \in Setups : AttemptsFit(os, p, s)

\* The composition ended this way, or is about to.
Came(r, how) == r.pc = how \/ (r.pc = "idle" /\ r.answer = how)

\* What a composition knows at each place.
CompFits(c, r, rows, os, log) ==
    /\ r.risk \in 0..Len(rows)
    /\ r.pc \in SinceDecision => ProfileOwner[r.snap.profile] = SetupOwner[r.snap.setup]
    /\ r.pc \in SinceIdentity =>
          r.attempt \in 1..(Cardinality(FailedOf(os, r.snap.profile, r.snap.setup)) + 1)
    /\ r.pc \in SinceEvaluation =>
          /\ r.risk \in DOMAIN rows
          /\ rows[r.risk].profile = r.snap.profile /\ rows[r.risk].setup = r.snap.setup
          /\ rows[r.risk].score = r.score
    /\ r.pc \in SinceMint =>
          /\ rows[r.risk].outcome = "approved"
          /\ rows[r.risk].size = r.size /\ r.size > 0
          /\ Provider[r.snap.profile] = "paper"
          /\ r.auth = r.risk
    /\ r.pc \in SinceReread => r.rebuilt = r.score
    /\ r.pc \in SinceEvaluation \ SinceFill => \A o \in os : o.risk # r.risk
    /\ Came(r, "filled") =>
          \E o \in os : /\ o.profile = r.snap.profile /\ o.setup = r.snap.setup
                        /\ o.attempt = r.attempt /\ o.by = c /\ o.risk = r.risk
    /\ r.pc = "idle" /\ r.answer = "filled" =>
          [by |-> c, kind |-> "execution_requested", risk |-> r.risk] \in log
    /\ Came(r, "replayed") =>
          \E o \in os : o.profile = r.snap.profile /\ o.setup = r.snap.setup

\* The map: no id twice, and each entry that of a composition still under way.
MapFits(map, cs) ==
    /\ \A i, j \in DOMAIN map : map[i].id = map[j].id => i = j
    /\ \A i \in DOMAIN map : \E c \in Composers : cs[c].pc \in Holding /\ cs[c].auth = map[i].id

EntryInv ==
    /\ EntryShapes
    /\ OrdersFit(entryOrders, riskRows)
    /\ MapFits(auths, comp)
    /\ \A c, d \in Composers : comp[c].risk # 0 /\ comp[c].risk = comp[d].risk => c = d
    /\ \A c \in Composers : CompFits(c, comp[c], riskRows, entryOrders, trail)
-----------------------------------------------------------------------------
(* Operators.                                                              *)

\* A composition that has not begun says nothing.
LEMMA NoEntryFits ==
    ASSUME EntryAssumption
    PROVE  /\ NoComposition \in Composition /\ NoComposition.pc = "idle" /\ NoComposition.risk = 0
           /\ \A c, rows, os, log : Len(rows) \in Nat => CompFits(c, NoComposition, rows, os, log)
<1>1. (CHOOSE r \in EntryRequests : TRUE) \in EntryRequests
  BY DEF EntryAssumption
<1>2. NoComposition \in Composition /\ NoComposition.pc = "idle" /\ NoComposition.risk = 0 /\ NoComposition.answer = "none"
  BY <1>1 DEF NoComposition, Composition, EntryPlaces, Answers, EntryAssumption
<1>3. ASSUME NEW c, NEW rows, NEW os, NEW log, Len(rows) \in Nat PROVE CompFits(c, NoComposition, rows, os, log)
  BY <1>2, <1>3 DEF CompFits, Came, SinceDecision, SinceIdentity, SinceEvaluation, SinceMint, SinceReread, SinceFill
<1> QED
  BY <1>2, <1>3

\* A sequence without the entry at i.
LEMMA RemovedEntry ==
    ASSUME NEW S, NEW s \in Seq(S), NEW i \in DOMAIN s
    PROVE  /\ RemoveAt(s, i) \in Seq(S)
           /\ Len(RemoveAt(s, i)) = Len(s) - 1
           /\ \A j \in DOMAIN RemoveAt(s, i) :
                 /\ j \in DOMAIN s /\ j + 1 \in DOMAIN s
                 /\ RemoveAt(s, i)[j] = IF j < i THEN s[j] ELSE s[j + 1]
<1>1. i \in 1..Len(s) /\ Len(s) \in Nat
  OBVIOUS
<1> DEFINE a == SubSeq(s, 1, i - 1)
           b == SubSeq(s, i + 1, Len(s))
<1>2. a \in Seq(S) /\ Len(a) = i - 1 /\ \A j \in 1..i - 1 : a[j] = s[j]
  BY <1>1
<1>3. b \in Seq(S) /\ Len(b) = Len(s) - i /\ \A j \in 1..Len(s) - i : b[j] = s[i + j]
  BY <1>1
<1>4. RemoveAt(s, i) = a \o b
  BY DEF RemoveAt
<1> HIDE DEF a, b
<1>5. a \o b \in Seq(S) /\ Len(a \o b) = Len(s) - 1
  BY <1>1, <1>2, <1>3
<1>6. ASSUME NEW j \in 1..Len(s) - 1
      PROVE  (a \o b)[j] = IF j < i THEN s[j] ELSE s[j + 1]
  <2>1. CASE j < i
    BY <1>1, <1>2, <1>3, <2>1
  <2>2. CASE j >= i
    <3>1. j \in 1..Len(a) + Len(b) /\ j > Len(a) /\ ~(j < i)
      BY <1>1, <1>2, <1>3, <2>2
    <3>2. (a \o b)[j] = b[j - Len(a)]
      <4>1. \A k \in 1..Len(a) + Len(b) : (a \o b)[k] = IF k <= Len(a) THEN a[k] ELSE b[k - Len(a)]
        BY <1>2, <1>3, ConcatProperties, Zenon
      <4>2. ~(j <= Len(a))
        BY <1>1, <1>2, <2>2
      <4> QED
        BY <3>1, <4>1, <4>2, Zenon
    <3>3. j - Len(a) \in 1..Len(s) - i /\ i + (j - Len(a)) = j + 1
      BY <1>1, <1>2, <2>2
    <3>4. b[j - Len(a)] = s[j + 1]
      BY <1>3, <3>3
    <3> QED
      BY <3>1, <3>2, <3>4
  <2>3. j < i \/ j >= i
    BY <1>1
  <2> QED
    BY <2>1, <2>2, <2>3
<1>7. DOMAIN (a \o b) = 1..Len(s) - 1
  BY <1>5
<1>8. \A j \in 1..Len(s) - 1 : j \in DOMAIN s /\ j + 1 \in DOMAIN s
  BY <1>1
<1> QED
  BY <1>4, <1>5, <1>6, <1>7, <1>8

\* What is left of the map when the entry of an id goes.
LEMMA WithoutEntry ==
    ASSUME auths \in Seq(Authorization), NEW id,
           \A i, j \in DOMAIN auths : auths[i].id = auths[j].id => i = j
    PROVE  /\ Without(id) \in Seq(Authorization) /\ Len(Without(id)) <= Len(auths)
           /\ \A i, j \in DOMAIN Without(id) : Without(id)[i].id = Without(id)[j].id => i = j
           /\ \A i \in DOMAIN Without(id) :
                 Without(id)[i].id # id /\ \E j \in DOMAIN auths : auths[j] = Without(id)[i]
<1> DEFINE at == {i \in DOMAIN auths : auths[i].id = id}
           k == CHOOSE i \in at : TRUE
<1>1. CASE at = {}
  BY <1>1 DEF Without
<1>2. CASE at # {}
  <2>1. k \in at
    BY <1>2
  <2> HIDE DEF k
  <2>2. Without(id) = RemoveAt(auths, k)
    BY <1>2 DEF Without, k
  <2>3. k \in DOMAIN auths /\ auths[k].id = id
    BY <2>1
  <2> DEFINE map == RemoveAt(auths, k)
  <2>4. /\ map \in Seq(Authorization) /\ Len(map) = Len(auths) - 1
        /\ \A j \in DOMAIN map : /\ j \in DOMAIN auths /\ j + 1 \in DOMAIN auths
                                 /\ map[j] = IF j < k THEN auths[j] ELSE auths[j + 1]
    BY <2>3, RemovedEntry
  <2> HIDE DEF map
  <2>5. DOMAIN map \subseteq Nat /\ k \in Nat /\ Len(auths) \in Nat
    BY <2>3, <2>4
  <2>6. ASSUME NEW i \in DOMAIN map
        PROVE  map[i].id # id /\ \E j \in DOMAIN auths : auths[j] = map[i]
    BY <2>3, <2>4, <2>5
  <2>7. ASSUME NEW i \in DOMAIN map, NEW j \in DOMAIN map, map[i].id = map[j].id PROVE i = j
    <3> DEFINE p(x) == IF x < k THEN x ELSE x + 1
    <3>1. p(i) \in DOMAIN auths /\ p(j) \in DOMAIN auths /\ map[i] = auths[p(i)] /\ map[j] = auths[p(j)]
      BY <2>4
    <3>2. p(i) = p(j)
      BY <3>1, <2>7
    <3> QED
      BY <3>2, <2>5
  <2> QED
    BY <2>2, <2>4, <2>5, <2>6, <2>7 DEF map
<1> QED
  BY <1>1, <1>2

-----------------------------------------------------------------------------
(* The map when one composition moves.                                     *)

\* Its entry, if it had one, is still its own.
LEMMA MapStays ==
    ASSUME MapFits(auths, comp), comp \in [Composers -> Composition], NEW c \in Composers, NEW row,
           comp[c].pc \in Holding => row.pc \in Holding /\ row.auth = comp[c].auth
    PROVE  MapFits(auths, [comp EXCEPT ![c] = row])
<1>1. ASSUME NEW i \in DOMAIN auths
      PROVE  \E d \in Composers : /\ [comp EXCEPT ![c] = row][d].pc \in Holding
                                  /\ [comp EXCEPT ![c] = row][d].auth = auths[i].id
  <2>1. PICK d \in Composers : comp[d].pc \in Holding /\ comp[d].auth = auths[i].id
    BY DEF MapFits
  <2>2. CASE d = c
    BY <2>1, <2>2
  <2>3. CASE d # c
    BY <2>1, <2>3
  <2> QED
    BY <2>2, <2>3
<1> QED
  BY <1>1 DEF MapFits

\* Its entry is taken out; the composition may go anywhere.
LEMMA MapCut ==
    ASSUME MapFits(auths, comp), auths \in Seq(Authorization), comp \in [Composers -> Composition],
           NEW c \in Composers, NEW row
    PROVE  MapFits(Without(comp[c].auth), [comp EXCEPT ![c] = row])
<1> DEFINE map == Without(comp[c].auth)
<1>1. /\ \A i, j \in DOMAIN map : map[i].id = map[j].id => i = j
      /\ \A i \in DOMAIN map : map[i].id # comp[c].auth /\ \E j \in DOMAIN auths : auths[j] = map[i]
  BY WithoutEntry DEF MapFits
<1> HIDE DEF map
<1>2. ASSUME NEW i \in DOMAIN map
      PROVE  \E d \in Composers : /\ [comp EXCEPT ![c] = row][d].pc \in Holding
                                  /\ [comp EXCEPT ![c] = row][d].auth = map[i].id
  <2>1. PICK j \in DOMAIN auths : auths[j] = map[i]
    BY <1>1
  <2>2. PICK d \in Composers : comp[d].pc \in Holding /\ comp[d].auth = auths[j].id
    BY DEF MapFits
  <2>3. d # c
    BY <1>1, <2>1, <2>2
  <2> QED
    BY <2>1, <2>2, <2>3
<1>3. MapFits(map, [comp EXCEPT ![c] = row])
  BY <1>1, <1>2 DEF MapFits
<1> QED
  BY <1>3 DEF map

-----------------------------------------------------------------------------
(* Moves.                                                                  *)

\* What a composition knows stays true when decisions, orders of others and
\* the trail are added to.
LEMMA FitsStay ==
    ASSUME NEW c, NEW r, NEW rows \in Seq(Decision), NEW os, NEW log, CompFits(c, r, rows, os, log),
           NEW rows2 \in Seq(Decision), NEW os2, NEW log2,
           Len(rows) <= Len(rows2), \A i \in DOMAIN rows : rows2[i] = rows[i],
           os \subseteq os2, log \subseteq log2,
           r.pc \in SinceEvaluation \ SinceFill => \A o \in os2 \ os : o.risk # r.risk,
           r.pc \in SinceIdentity =>
             /\ Cardinality(FailedOf(os, r.snap.profile, r.snap.setup)) \in Nat
             /\ Cardinality(FailedOf(os2, r.snap.profile, r.snap.setup)) \in Nat
             /\ Cardinality(FailedOf(os, r.snap.profile, r.snap.setup)) <=
                    Cardinality(FailedOf(os2, r.snap.profile, r.snap.setup))
    PROVE  CompFits(c, r, rows2, os2, log2)
<1>1. DOMAIN rows = 1..Len(rows) /\ DOMAIN rows2 = 1..Len(rows2) /\ Len(rows) \in Nat /\ Len(rows2) \in Nat
  OBVIOUS
<1>2. SinceMint \subseteq SinceEvaluation
  BY DEF SinceEvaluation
<1>3. r.pc \in SinceIdentity =>
        r.attempt \in 1..(Cardinality(FailedOf(os2, r.snap.profile, r.snap.setup)) + 1)
  <2> SUFFICES ASSUME r.pc \in SinceIdentity
               PROVE  r.attempt \in 1..(Cardinality(FailedOf(os2, r.snap.profile, r.snap.setup)) + 1)
    OBVIOUS
  <2> DEFINE n == Cardinality(FailedOf(os, r.snap.profile, r.snap.setup))
             n2 == Cardinality(FailedOf(os2, r.snap.profile, r.snap.setup))
  <2>1. r.attempt \in 1..(n + 1)
    BY DEF CompFits
  <2>2. n \in Nat /\ n2 \in Nat /\ n <= n2
    OBVIOUS
  <2> HIDE DEF n, n2
  <2>3. r.attempt \in 1..(n2 + 1)
    BY <2>1, <2>2
  <2> QED
    BY <2>3 DEF n2
<1>4. r.risk \in 0..Len(rows2)
  BY <1>1 DEF CompFits
<1>5. r.pc \in SinceEvaluation => r.risk \in DOMAIN rows /\ r.risk \in DOMAIN rows2 /\ rows2[r.risk] = rows[r.risk]
  BY <1>1 DEF CompFits
<1> QED
  BY <1>2, <1>3, <1>4, <1>5 DEF CompFits

\* A step that moves one composition and adds nothing to orders or decisions.
LEMMA QuietMove ==
    ASSUME EntryInv, NEW c \in Composers, NEW row \in Composition,
           comp' = [comp EXCEPT ![c] = row], row.risk \in {0, comp[c].risk},
           riskRows' = riskRows, entryOrders' = entryOrders, trail \subseteq trail',
           EntryShapes', MapFits(auths', comp'),
           CompFits(c, row, riskRows, entryOrders, trail')
    PROVE  EntryInv'
<1>1. comp \in [Composers -> Composition] /\ riskRows \in Seq(Decision)
  BY DEF EntryInv, EntryShapes
<1>2. \A d, e \in Composers : comp'[d].risk # 0 /\ comp'[d].risk = comp'[e].risk => d = e
  BY <1>1 DEF EntryInv
<1>3. ASSUME NEW d \in Composers PROVE CompFits(d, comp'[d], riskRows', entryOrders', trail')
  <2>1. CASE d = c
    BY <1>1, <2>1
  <2>2. CASE d # c
    <3>1. comp'[d] = comp[d] /\ CompFits(d, comp[d], riskRows, entryOrders, trail)
      BY <1>1, <2>2 DEF EntryInv
    <3> QED
      BY <3>1 DEF CompFits
  <2> QED
    BY <2>1, <2>2
<1> QED
  BY <1>2, <1>3 DEF EntryInv
\* A composition that ends in a refusal or an exception claims nothing.
LEMMA EndFits ==
    ASSUME NEW c, NEW r \in Composition, NEW rows, NEW os, NEW log, CompFits(c, r, rows, os, log),
           NEW a \in {"rejected", "thrown"}, NEW log2
    PROVE  /\ [r EXCEPT !.pc = "idle", !.answer = a] \in Composition
           /\ CompFits(c, [r EXCEPT !.pc = "idle", !.answer = a], rows, os, log2)
<1> DEFINE e == [r EXCEPT !.pc = "idle", !.answer = a]
<1>1. e \in Composition /\ e.pc = "idle" /\ e.answer = a /\ e.risk = r.risk
  BY DEF Composition, EntryPlaces, Answers
<1> HIDE DEF e
<1>2. CompFits(c, e, rows, os, log2)
  BY <1>1 DEF CompFits, Came, SinceDecision, SinceIdentity, SinceEvaluation, SinceMint, SinceReread, SinceFill
<1> QED
  BY <1>1, <1>2 DEF e

\* What a step of one composition leaves alone.
Around == UNCHANGED <<input, setupRows, enabled, riskRows, entryOrders, moves>>

\* Rejecting or throwing with nothing in the map.
LEMMA EndKeeps ==
    ASSUME EntryInv, NEW c \in Composers, NEW a \in {"rejected", "thrown"}, Answer(c, a),
           comp[c].pc \notin Holding, trail \subseteq trail',
           auths' = auths, reserved' \subseteq reserved, Around, faults' \in 0..MaxFaults
    PROVE  EntryInv'
<1> DEFINE row == [comp[c] EXCEPT !.pc = "idle", !.answer = a]
<1>1. EntryShapes /\ comp[c] \in Composition /\ CompFits(c, comp[c], riskRows, entryOrders, trail)
  BY DEF EntryInv, EntryShapes
<1>2. row \in Composition /\ CompFits(c, row, riskRows, entryOrders, trail')
  BY <1>1, EndFits
<1>3. comp' = [comp EXCEPT ![c] = row] /\ row.risk = comp[c].risk
  BY <1>1 DEF Answer, EntryShapes, Composition
<1> HIDE DEF row
<1>4. EntryShapes'
  BY <1>1, <1>2, <1>3 DEF EntryShapes, Around
<1>5. MapFits(auths', comp')
  BY <1>1, <1>3, MapStays DEF EntryInv, EntryShapes
<1> QED
  BY <1>2, <1>3, <1>4, <1>5, QuietMove DEF Around

\* Ending with the entry of the map revoked.
LEMMA CutKeeps ==
    ASSUME EntryAssumption, EntryInv, NEW c \in Composers, NEW a \in {"rejected", "thrown"}, Answer(c, a),
           trail \subseteq trail', auths' = Without(comp[c].auth), reserved' \subseteq reserved,
           Around, faults' \in 0..MaxFaults
    PROVE  EntryInv'
<1> DEFINE row == [comp[c] EXCEPT !.pc = "idle", !.answer = a]
<1>1. EntryShapes /\ comp[c] \in Composition /\ CompFits(c, comp[c], riskRows, entryOrders, trail)
  BY DEF EntryInv, EntryShapes
<1>2. row \in Composition /\ CompFits(c, row, riskRows, entryOrders, trail')
  BY <1>1, EndFits
<1>3. comp' = [comp EXCEPT ![c] = row] /\ row.risk = comp[c].risk
  BY <1>1 DEF Answer, EntryShapes, Composition
<1> HIDE DEF row
<1>4. auths' \in Seq(Authorization) /\ Len(auths') <= Len(auths)
  BY <1>1, WithoutEntry DEF EntryInv, EntryShapes, MapFits
<1>5. EntryShapes'
  <2>1. Len(auths') <= AuthCapacity
    BY <1>1, <1>4 DEF EntryShapes, EntryAssumption
  <2> QED
    BY <2>1, <1>1, <1>2, <1>3, <1>4 DEF EntryShapes, Around
<1>6. MapFits(auths', comp')
  BY <1>1, <1>3, MapCut DEF EntryInv, EntryShapes
<1> QED
  BY <1>2, <1>3, <1>5, <1>6, QuietMove DEF Around

\* Reject and Throw end a composition and add at most one event.
LEMMA RejectAnswers ==
    ASSUME NEW c, Reject(c) \/ Throw(c)
    PROVE  (\E a \in {"rejected", "thrown"} : Answer(c, a)) /\ trail \subseteq trail'
BY DEF Reject, Throw, TrailEvent

\* AbandonEntry keeps the invariant.
LEMMA AbandonKeeps ==
    ASSUME EntryAssumption, EntryInv, NEW c \in Composers, NEW ending, AbandonEntry(c, ending), Around, faults' \in 0..MaxFaults
    PROVE  EntryInv'
<1>1. Reject(c) \/ Throw(c)
  BY DEF AbandonEntry
<1>2. PICK a \in {"rejected", "thrown"} : Answer(c, a)
  BY <1>1, RejectAnswers
<1>3. trail \subseteq trail' /\ auths' = Without(comp[c].auth) /\ reserved' \subseteq reserved
  BY <1>1, RejectAnswers DEF AbandonEntry
<1> QED
  BY <1>2, <1>3, CutKeeps

\* A step that only takes one composition on, to a place its knowledge fits.
LEMMA StepKeeps ==
    ASSUME EntryInv, NEW c \in Composers, NEW row \in Composition, comp' = [comp EXCEPT ![c] = row],
           row.risk = comp[c].risk,
           comp[c].pc \in Holding => row.pc \in Holding /\ row.auth = comp[c].auth,
           CompFits(c, row, riskRows, entryOrders, trail'), trail \subseteq trail',
           auths' = auths, reserved' \subseteq reserved, Around, faults' \in 0..MaxFaults
    PROVE  EntryInv'
<1>1. EntryShapes
  BY DEF EntryInv
<1>2. EntryShapes'
  BY <1>1 DEF EntryShapes, Around
<1>3. MapFits(auths', comp')
  BY <1>1, MapStays DEF EntryInv, EntryShapes
<1> QED
  BY <1>2, <1>3, QuietMove DEF Around
-----------------------------------------------------------------------------
(* The steps of a composition.                                             *)

\* The attempt an identity is derived for is one of those made, or the next.
LEMMA NextAttempt ==
    ASSUME EntryInv, NEW p \in Profiles, NEW s \in Setups
    PROVE  /\ Cardinality(FailedOf(entryOrders, p, s)) \in Nat
           /\ Attempt(p, s) \in 1..(Cardinality(FailedOf(entryOrders, p, s)) + 1)
<1>1. Cardinality(FailedOf(entryOrders, p, s)) \in Nat
  BY FS_CardinalityType DEF EntryInv, OrdersFit, AttemptsFit
<1>2. {o \in EntriesOf(p, s) : o.status = "failed"} = FailedOf(entryOrders, p, s)
  BY DEF EntriesOf, FailedOf
<1> QED
  BY <1>1, <1>2 DEF Attempt

\* freezeCompositionInput keeps the invariant.
LEMMA FreezeKeeps ==
    ASSUME EntryInv, NEW c \in Composers, freezeCompositionInput(c)
    PROVE  EntryInv'
<1>1. EntryShapes /\ comp[c] \in Composition /\ CompFits(c, comp[c], riskRows, entryOrders, trail)
  BY DEF EntryInv, EntryShapes
<1>2. Around /\ faults' \in 0..MaxFaults /\ auths' = auths /\ reserved' \subseteq reserved /\ trail' = trail
      /\ comp[c].pc = "idle" /\ comp[c].pc \notin Holding
  BY <1>1 DEF EntryShapes, freezeCompositionInput, Around, Holding, SinceMint, SinceReread, SinceFill
<1>3. CASE input[c].action = "invalid"
  BY <1>2, <1>3, EndKeeps DEF freezeCompositionInput
<1>4. CASE input[c].action # "invalid"
  <2> DEFINE row == [comp[c] EXCEPT !.pc = "frozen", !.snap = input[c]]
  <2>1. row \in Composition /\ row.pc = "frozen" /\ row.risk = comp[c].risk
    BY <1>1 DEF EntryShapes, Composition, EntryPlaces
  <2>2. comp' = [comp EXCEPT ![c] = row]
    BY <1>1, <1>4 DEF freezeCompositionInput, EntryShapes, Composition
  <2> HIDE DEF row
  <2>3. CompFits(c, row, riskRows, entryOrders, trail')
    BY <1>1, <2>1 DEF CompFits, Came, SinceDecision, SinceIdentity, SinceEvaluation, SinceMint, SinceReread, SinceFill
  <2> QED
    BY <1>2, <2>1, <2>2, <2>3, StepKeeps
<1> QED
  BY <1>3, <1>4

\* composeDecision keeps the invariant.
LEMMA DecisionKeeps ==
    ASSUME EntryAssumption, EntryInv, NEW c \in Composers, composeDecision(c)
    PROVE  EntryInv'
<1> DEFINE snap == comp[c].snap
           setup == setupRows[snap.setup]
<1>1. /\ EntryShapes /\ comp[c] \in Composition /\ CompFits(c, comp[c], riskRows, entryOrders, trail)
      /\ snap \in EntryRequests /\ snap.setup \in Setups /\ snap.profile \in Profiles
  BY DEF EntryInv, EntryShapes, Composition, EntryAssumption, Setups, Profiles
<1>2. Around /\ faults' \in 0..MaxFaults /\ auths' = auths /\ reserved' \subseteq reserved
      /\ comp[c].pc = "frozen" /\ comp[c].pc \notin Holding
  BY <1>1 DEF EntryShapes, composeDecision, Around, Holding, SinceMint, SinceReread, SinceFill
<1>3. CASE Throw(c) \/ Reject(c)
  BY <1>2, <1>3, RejectAnswers, EndKeeps
<1>4. CASE /\ ProfileOwner[snap.profile] = SetupOwner[snap.setup] /\ trail' = trail
           /\ comp' = [comp EXCEPT ![c].pc = "built", ![c].on = enabled[snap.profile], ![c].score = setup.score]
  <2> DEFINE row == [comp[c] EXCEPT !.pc = "built", !.on = enabled[snap.profile], !.score = setup.score]
  <2>1. enabled[snap.profile] \in BOOLEAN /\ setup.score \in Scores
    BY <1>1 DEF EntryShapes, SetupRow
  <2>2. row \in Composition /\ row.pc = "built" /\ row.risk = comp[c].risk /\ row.snap = snap
    BY <1>1, <2>1 DEF Composition, EntryPlaces
  <2>3. comp' = [comp EXCEPT ![c] = row]
    BY <1>1, <1>4 DEF EntryShapes, Composition
  <2> HIDE DEF row
  <2>4. CompFits(c, row, riskRows, entryOrders, trail')
    BY <1>1, <1>4, <2>2 DEF CompFits, Came, SinceDecision, SinceIdentity, SinceEvaluation, SinceMint, SinceReread, SinceFill
  <2> QED
    BY <1>2, <1>4, <2>2, <2>3, <2>4, StepKeeps
<1> QED
  BY <1>3, <1>4 DEF composeDecision

\* deriveIdentity keeps the invariant.
LEMMA IdentityKeeps ==
    ASSUME EntryAssumption, EntryInv, NEW c \in Composers, deriveIdentity(c)
    PROVE  EntryInv'
<1> DEFINE snap == comp[c].snap
           k == Attempt(snap.profile, snap.setup)
<1>1. /\ EntryShapes /\ comp[c] \in Composition /\ CompFits(c, comp[c], riskRows, entryOrders, trail)
      /\ snap \in EntryRequests /\ snap.setup \in Setups /\ snap.profile \in Profiles
  BY DEF EntryInv, EntryShapes, Composition, EntryAssumption, Setups, Profiles
<1>2. Around /\ faults' \in 0..MaxFaults /\ auths' = auths /\ reserved' \subseteq reserved
      /\ comp[c].pc = "built" /\ comp[c].pc \notin Holding
  BY <1>1 DEF EntryShapes, deriveIdentity, Around, Holding, SinceMint, SinceReread, SinceFill
<1>3. CASE Throw(c)
  BY <1>2, <1>3, RejectAnswers, EndKeeps
<1>4. CASE LiveEntry(snap.profile, snap.setup) /\ auditReplay(c)
  <2> DEFINE row == [comp[c] EXCEPT !.pc = "idle", !.answer = "replayed"]
  <2>1. /\ row \in Composition /\ row.pc = "idle" /\ row.answer = "replayed"
        /\ row.risk = comp[c].risk /\ row.snap = snap
    BY <1>1 DEF Composition, EntryPlaces, Answers
  <2>2. comp' = [comp EXCEPT ![c] = row] /\ trail \subseteq trail'
    BY <1>1, <1>4 DEF EntryShapes, Composition, auditReplay, Answer, TrailEvent
  <2>3. \E o \in entryOrders : o.profile = snap.profile /\ o.setup = snap.setup
    BY <1>4 DEF LiveEntry, OrderAt, EntriesOf
  <2> HIDE DEF row
  <2>4. CompFits(c, row, riskRows, entryOrders, trail')
    BY <1>1, <2>1, <2>3 DEF CompFits, Came, SinceDecision, SinceIdentity, SinceEvaluation, SinceMint, SinceReread, SinceFill
  <2> QED
    BY <1>2, <2>1, <2>2, <2>4, StepKeeps
<1>5. CASE comp' = [comp EXCEPT ![c].pc = "derived", ![c].attempt = k] /\ trail' = trail
  <2> DEFINE row == [comp[c] EXCEPT !.pc = "derived", !.attempt = k]
  <2>1. /\ k \in 1..(Cardinality(FailedOf(entryOrders, snap.profile, snap.setup)) + 1)
        /\ Cardinality(FailedOf(entryOrders, snap.profile, snap.setup)) \in Nat
    BY <1>1, NextAttempt
  <2>2. k \in Nat
    BY <2>1
  <2> HIDE DEF k
  <2>3. row \in Composition /\ row.pc = "derived" /\ row.risk = comp[c].risk /\ row.snap = snap /\ row.attempt = k
    BY <1>1, <2>2 DEF Composition, EntryPlaces
  <2>4. comp' = [comp EXCEPT ![c] = row]
    BY <1>1, <1>5 DEF EntryShapes, Composition
  <2> HIDE DEF row
  <2>5. CompFits(c, row, riskRows, entryOrders, trail')
    BY <1>1, <1>2, <1>5, <2>1, <2>3 DEF CompFits, Came, SinceDecision, SinceIdentity, SinceEvaluation, SinceMint, SinceReread, SinceFill
  <2> QED
    BY <1>2, <1>5, <2>3, <2>4, <2>5, StepKeeps
<1> QED
  BY <1>3, <1>4, <1>5 DEF deriveIdentity

\* evaluateRisk keeps the invariant: the decision it writes is nobody's but its own.
LEMMA EvaluateKeeps ==
    ASSUME EntryAssumption, EntryInv, NEW c \in Composers, evaluateRisk(c)
    PROVE  EntryInv'
<1> DEFINE snap == comp[c].snap
           id == Len(riskRows) + 1
<1>1. /\ EntryShapes /\ comp[c] \in Composition /\ CompFits(c, comp[c], riskRows, entryOrders, trail)
      /\ snap \in EntryRequests /\ snap.setup \in Setups /\ snap.profile \in Profiles
  BY DEF EntryInv, EntryShapes, Composition, EntryAssumption, Setups, Profiles
<1>2. /\ input' = input /\ setupRows' = setupRows /\ enabled' = enabled /\ auths' = auths
      /\ entryOrders' = entryOrders /\ trail' = trail /\ moves' = moves /\ faults' = faults
      /\ comp[c].pc = "derived" /\ comp[c].pc \notin Holding
  BY DEF evaluateRisk, Holding, SinceMint, SinceReread, SinceFill
<1>3. PICK outcome \in {"approved", "rejected"}, size \in Sizes :
        /\ riskRows' = Append(riskRows, [profile |-> snap.profile, setup |-> snap.setup,
                                         score |-> comp[c].score, size |-> size, outcome |-> outcome])
        /\ reserved' = IF outcome = "approved" THEN reserved \cup {id} ELSE reserved
  BY DEF evaluateRisk
<1> DEFINE new == [profile |-> snap.profile, setup |-> snap.setup,
                   score |-> comp[c].score, size |-> size, outcome |-> outcome]
<1>4. new \in Decision
  BY <1>1 DEF Decision, Composition
<1>5. /\ riskRows \in Seq(Decision) /\ riskRows' \in Seq(Decision) /\ Len(riskRows) \in Nat /\ Len(riskRows') = id
      /\ \A i \in DOMAIN riskRows : i \in DOMAIN riskRows' /\ riskRows'[i] = riskRows[i]
      /\ riskRows'[id] = new /\ id \in DOMAIN riskRows' /\ DOMAIN riskRows = 1..Len(riskRows)
  BY <1>1, <1>3, <1>4 DEF EntryShapes
<1>6. PICK at \in {"evaluated", "idle"}, a \in Answers :
        /\ comp' = [comp EXCEPT ![c] = [comp[c] EXCEPT !.pc = at, !.answer = a, !.risk = id]]
        /\ at = "idle" => a = "thrown"
  <2>1. comp[c].answer \in Answers /\ "thrown" \in Answers
    BY <1>1 DEF Composition, Answers
  <2>2. CASE assertCompositionInputUnchanged(c)
    <3>1. comp' = [comp EXCEPT ![c].pc = "evaluated", ![c].risk = id]
      BY <2>2 DEF evaluateRisk
    <3>2. comp' = [comp EXCEPT ![c] = [comp[c] EXCEPT !.pc = "evaluated", !.answer = comp[c].answer, !.risk = id]]
      BY <1>1, <3>1 DEF EntryShapes, Composition
    <3> QED
      BY <2>1, <3>2
  <2>3. CASE ~assertCompositionInputUnchanged(c)
    <3>1. comp' = [comp EXCEPT ![c].pc = "idle", ![c].answer = "thrown", ![c].risk = id]
      BY <2>3 DEF evaluateRisk
    <3>2. comp' = [comp EXCEPT ![c] = [comp[c] EXCEPT !.pc = "idle", !.answer = "thrown", !.risk = id]]
      BY <1>1, <3>1 DEF EntryShapes, Composition
    <3> QED
      BY <2>1, <3>2
  <2> QED
    BY <2>2, <2>3
<1> DEFINE row == [comp[c] EXCEPT !.pc = at, !.answer = a, !.risk = id]
<1>7. /\ row \in Composition /\ row.pc = at /\ row.answer = a /\ row.risk = id
      /\ row.snap = snap /\ row.score = comp[c].score /\ row.attempt = comp[c].attempt
  <2>1. id \in Nat /\ at \in EntryPlaces
    BY <1>5 DEF EntryPlaces
  <2> HIDE DEF id
  <2> QED
    BY <1>1, <2>1 DEF Composition
<1>8. comp' = [comp EXCEPT ![c] = row] /\ comp \in [Composers -> Composition]
  BY <1>1, <1>6 DEF EntryShapes
<1> HIDE DEF row
<1>9. EntryShapes'
  <2>1. reserved' \subseteq DOMAIN riskRows'
    BY <1>1, <1>3, <1>5 DEF EntryShapes
  <2>2. comp' \in [Composers -> Composition]
    BY <1>7, <1>8
  <2> QED
    BY <1>1, <1>2, <1>5, <2>1, <2>2 DEF EntryShapes
<1>10. OrdersFit(entryOrders', riskRows')
  <2>1. ASSUME NEW o \in entryOrders PROVE StandsOn(o, riskRows')
    <3>1. StandsOn(o, riskRows)
      BY DEF EntryInv, OrdersFit
    <3> QED
      BY <1>5, <3>1 DEF StandsOn
  <2> QED
    BY <1>2, <2>1 DEF EntryInv, OrdersFit
<1>11. MapFits(auths', comp')
  BY <1>2, <1>8, MapStays DEF EntryInv
<1>12. \A d \in Composers : comp[d].risk \in 0..Len(riskRows)
  BY DEF EntryInv, CompFits
<1>13. \A d, e \in Composers : comp'[d].risk # 0 /\ comp'[d].risk = comp'[e].risk => d = e
  <2>1. \A d \in Composers : comp[d].risk # id
    BY <1>5, <1>12
  <2>2. \A d \in Composers : d # c => comp'[d] = comp[d]
    BY <1>8
  <2>3. comp'[c].risk = id
    BY <1>7, <1>8
  <2> QED
    BY <2>1, <2>2, <2>3 DEF EntryInv
<1>14. ASSUME NEW d \in Composers PROVE CompFits(d, comp'[d], riskRows', entryOrders', trail')
  <2>1. CASE d = c
    <3>1. \A o \in entryOrders : o.risk # id
      <4>1. \A o \in entryOrders : o.risk \in DOMAIN riskRows
        BY DEF EntryInv, OrdersFit, StandsOn
      <4> QED
        BY <4>1, <1>5
    <3>2. CompFits(c, row, riskRows', entryOrders, trail)
      BY <1>1, <1>2, <1>5, <1>6, <1>7, <3>1
         DEF CompFits, Came, SinceDecision, SinceIdentity, SinceEvaluation, SinceMint, SinceReread, SinceFill
    <3> QED
      BY <1>2, <1>8, <2>1, <3>2
  <2>2. CASE d # c
    <3>1. comp'[d] = comp[d] /\ CompFits(d, comp[d], riskRows, entryOrders, trail) /\ comp[d] \in Composition
      BY <1>8, <2>2 DEF EntryInv
    <3>2. comp[d].snap.profile \in Profiles /\ comp[d].snap.setup \in Setups
      BY <3>1 DEF Composition, EntryAssumption, Setups, Profiles
    <3>3. Cardinality(FailedOf(entryOrders, comp[d].snap.profile, comp[d].snap.setup)) \in Nat
      BY <3>2, NextAttempt
    <3>4. Len(riskRows) <= Len(riskRows') /\ \A i \in DOMAIN riskRows : riskRows'[i] = riskRows[i]
      BY <1>5
    <3>5. riskRows \in Seq(Decision) /\ riskRows' \in Seq(Decision)
      BY <1>5
    <3>6. CompFits(d, comp[d], riskRows', entryOrders, trail)
      BY <3>1, <3>3, <3>4, <3>5, FitsStay
    <3> QED
      BY <1>2, <3>1, <3>6
  <2> QED
    BY <2>1, <2>2
<1> QED
  BY <1>9, <1>10, <1>11, <1>13, <1>14 DEF EntryInv
\* The map with a new entry: at most AuthCapacity of them, all but the last
\* entries it had.
LEMMA IssuedEntry ==
    ASSUME EntryAssumption, auths \in Seq(Authorization), Len(auths) <= AuthCapacity,
           \A i, j \in DOMAIN auths : auths[i].id = auths[j].id => i = j,
           NEW e \in Authorization, \A i \in DOMAIN auths : auths[i].id # e.id
    PROVE  /\ Issued(e) \in Seq(Authorization) /\ Len(Issued(e)) <= AuthCapacity
           /\ \A i, j \in DOMAIN Issued(e) : Issued(e)[i].id = Issued(e)[j].id => i = j
           /\ \A i \in DOMAIN Issued(e) :
                 Issued(e)[i] = e \/ \E j \in DOMAIN auths : auths[j] = Issued(e)[i]
<1> DEFINE full == Len(auths) >= AuthCapacity
           shift == IF full THEN 1 ELSE 0
           base == IF full THEN Tail(auths) ELSE auths
<1>1. AuthCapacity \in Nat \ {0} /\ Len(auths) \in Nat /\ DOMAIN auths = 1..Len(auths)
  BY DEF EntryAssumption
<1>2. /\ base \in Seq(Authorization) /\ Len(base) = Len(auths) - shift /\ Len(base) < AuthCapacity
      /\ \A i \in DOMAIN base : i + shift \in DOMAIN auths /\ base[i] = auths[i + shift]
  <2>1. CASE full
    <3>1. auths # <<>>
      BY <1>1, <2>1
    <3>2. Tail(auths) \in Seq(Authorization) /\ Len(Tail(auths)) = Len(auths) - 1
          /\ \A i \in 1..Len(auths) - 1 : Tail(auths)[i] = auths[i + 1]
      BY <1>1, <3>1
    <3> QED
      BY <1>1, <2>1, <3>2
  <2>2. CASE ~full
    BY <1>1, <2>2
  <2> QED
    BY <2>1, <2>2
<1>3. Issued(e) = Append(base, e)
  BY DEF Issued
<1>4. shift \in {0, 1}
  OBVIOUS
<1> HIDE DEF base, full, shift
<1>5. /\ Append(base, e) \in Seq(Authorization) /\ Len(Append(base, e)) = Len(base) + 1 /\ Len(base) \in Nat
      /\ \A i \in 1..Len(base) : Append(base, e)[i] = base[i]
      /\ Append(base, e)[Len(base) + 1] = e
      /\ DOMAIN base = 1..Len(base) /\ DOMAIN Append(base, e) = 1..(Len(base) + 1)
  BY <1>2
<1>6. \A i \in DOMAIN Append(base, e) : i \in DOMAIN base \/ i = Len(base) + 1
  BY <1>5
<1>7. \A i \in DOMAIN base : /\ base[i].id # e.id
                             /\ \E j \in DOMAIN auths : auths[j] = base[i]
  BY <1>2
<1>8. \A i, j \in DOMAIN base : base[i].id = base[j].id => i = j
  <2> SUFFICES ASSUME NEW i \in DOMAIN base, NEW j \in DOMAIN base, base[i].id = base[j].id PROVE i = j
    OBVIOUS
  <2>1. i + shift = j + shift
    BY <1>2
  <2> QED
    BY <1>4, <1>5, <2>1
<1>9. Len(Append(base, e)) <= AuthCapacity
  BY <1>1, <1>2, <1>5
<1>10. \A i \in DOMAIN base : Append(base, e)[i] = base[i]
  BY <1>5
<1>11. ASSUME NEW i \in DOMAIN Append(base, e), NEW j \in DOMAIN Append(base, e),
              Append(base, e)[i].id = Append(base, e)[j].id
       PROVE  i = j
  BY <1>5, <1>6, <1>7, <1>8, <1>10, <1>11
<1>12. ASSUME NEW i \in DOMAIN Append(base, e)
       PROVE  Append(base, e)[i] = e \/ \E j \in DOMAIN auths : auths[j] = Append(base, e)[i]
  BY <1>5, <1>6, <1>7, <1>10
<1> QED
  BY <1>3, <1>5, <1>9, <1>11, <1>12

\* mintAuthorization keeps the invariant: no entry of the map has the new id.
LEMMA MintKeeps ==
    ASSUME EntryAssumption, EntryInv, NEW c \in Composers, mintForEntry(c)
    PROVE  EntryInv'
<1> DEFINE snap == comp[c].snap
           id == comp[c].risk
           size == riskRows[id].size
<1>1. /\ EntryShapes /\ comp[c] \in Composition /\ CompFits(c, comp[c], riskRows, entryOrders, trail)
      /\ snap \in EntryRequests /\ snap.setup \in Setups /\ snap.profile \in Profiles
  BY DEF EntryInv, EntryShapes, Composition, EntryAssumption, Setups, Profiles
<1>2. Around /\ faults' \in 0..MaxFaults /\ comp[c].pc = "evaluated" /\ comp[c].pc \notin Holding
  BY <1>1 DEF EntryShapes, mintForEntry, Around, Holding, SinceMint, SinceReread, SinceFill
<1>3. CASE (Throw(c) \/ Reject(c)) /\ reserved' \subseteq reserved /\ auths' = auths
  BY <1>2, <1>3, RejectAnswers, EndKeeps
<1>4. CASE /\ riskRows[id].outcome = "approved" /\ Provider[snap.profile] = "paper" /\ size # 0
           /\ auths' = Issued([id |-> id, attempt |-> comp[c].attempt, quantity |-> size, context |-> ContextOf(c)])
           /\ comp' = [comp EXCEPT ![c].pc = "minted", ![c].auth = id, ![c].size = size]
           /\ reserved' = reserved /\ trail' = trail
  <2>1. id \in DOMAIN riskRows /\ id \in Nat \ {0} /\ riskRows[id] \in Decision /\ size \in Nat
    <3>1. id \in DOMAIN riskRows
      BY <1>1, <1>2 DEF CompFits, SinceEvaluation
    <3>2. riskRows[id] \in Decision
      BY <1>1, <3>1 DEF EntryShapes
    <3>3. DOMAIN riskRows = 1..Len(riskRows) /\ Len(riskRows) \in Nat
      BY <1>1 DEF EntryShapes
    <3>4. id \in Nat \ {0}
      BY <3>1, <3>3
    <3>5. size \in Nat
      BY <3>2 DEF Decision, EntryAssumption
    <3> QED
      BY <3>1, <3>2, <3>4, <3>5
  <2> DEFINE new == [id |-> id, attempt |-> comp[c].attempt, quantity |-> size, context |-> ContextOf(c)]
             row == [comp[c] EXCEPT !.pc = "minted", !.auth = id, !.size = size]
  <2>2. new \in Authorization /\ new.id = id
    <3>1. ContextOf(c) \in Context
      <4>1. snap.user \in UNION {{r.user} : r \in EntryRequests}
        BY <1>1
      <4>2. Provider[snap.profile] \in UNION {{Provider[p]} : p \in Profiles}
        BY <1>1
      <4> QED
        BY <1>1, <2>1, <4>1, <4>2 DEF ContextOf, Context
    <3> QED
      BY <1>1, <2>1, <3>1 DEF Authorization, Composition
  <2>3. \A i \in DOMAIN auths : auths[i].id # new.id
    <3> SUFFICES ASSUME NEW i \in DOMAIN auths, auths[i].id = id PROVE FALSE
      BY <2>2
    <3>1. PICK d \in Composers : comp[d].pc \in Holding /\ comp[d].auth = auths[i].id
      BY DEF EntryInv, MapFits
    <3>2. comp[d].auth = comp[d].risk
      BY <3>1 DEF EntryInv, CompFits, Holding
    <3>3. d = c
      BY <2>1, <3>1, <3>2 DEF EntryInv
    <3> QED
      BY <1>2, <3>1, <3>3
  <2>4. /\ row \in Composition /\ row.pc = "minted" /\ row.auth = id /\ row.size = size /\ row.risk = id
        /\ row.snap = snap /\ row.score = comp[c].score /\ row.attempt = comp[c].attempt
    BY <1>1, <2>1 DEF Composition, EntryPlaces
  <2>5. comp' = [comp EXCEPT ![c] = row] /\ comp \in [Composers -> Composition]
    BY <1>1, <1>4 DEF EntryShapes, Composition
  <2>6. auths' = Issued(new)
    BY <1>4
  <2> HIDE DEF row, new
  <2>7. /\ auths' \in Seq(Authorization) /\ Len(auths') <= AuthCapacity
        /\ \A i, j \in DOMAIN auths' : auths'[i].id = auths'[j].id => i = j
        /\ \A i \in DOMAIN auths' : auths'[i] = new \/ \E j \in DOMAIN auths : auths[j] = auths'[i]
    BY <1>1, <2>2, <2>3, <2>6, IssuedEntry DEF EntryShapes, EntryInv, MapFits
  <2>8. EntryShapes'
    <3>1. comp' \in [Composers -> Composition]
      BY <2>4, <2>5
    <3>2. reserved' = reserved
      BY <1>4
    <3> QED
      BY <1>1, <1>2, <2>7, <3>1, <3>2 DEF EntryShapes, Around
  <2>9. MapFits(auths', comp')
    <3>1. ASSUME NEW i \in DOMAIN auths'
          PROVE  \E d \in Composers : comp'[d].pc \in Holding /\ comp'[d].auth = auths'[i].id
      <4>1. CASE auths'[i] = new
        <5>1. comp'[c] = row /\ "minted" \in Holding
          BY <2>5 DEF Holding, SinceMint, SinceReread, SinceFill
        <5> QED
          BY <2>2, <2>4, <4>1, <5>1
      <4>2. ASSUME NEW j \in DOMAIN auths, auths[j] = auths'[i]
            PROVE  \E d \in Composers : comp'[d].pc \in Holding /\ comp'[d].auth = auths'[i].id
        <5>1. PICK d \in Composers : comp[d].pc \in Holding /\ comp[d].auth = auths[j].id
          BY DEF EntryInv, MapFits
        <5>2. d # c
          BY <1>2, <5>1
        <5> QED
          BY <2>5, <4>2, <5>1, <5>2
      <4> QED
        BY <2>7, <4>1, <4>2
    <3> QED
      BY <2>7, <3>1 DEF MapFits
  <2>10. CompFits(c, row, riskRows, entryOrders, trail')
    <3>1. size > 0
      BY <1>4, <2>1
    <3>2. /\ row.risk \in 0..Len(riskRows) /\ row.risk \in DOMAIN riskRows
          /\ ProfileOwner[row.snap.profile] = SetupOwner[row.snap.setup]
          /\ row.attempt \in 1..(Cardinality(FailedOf(entryOrders, row.snap.profile, row.snap.setup)) + 1)
          /\ riskRows[row.risk].profile = row.snap.profile /\ riskRows[row.risk].setup = row.snap.setup
          /\ riskRows[row.risk].score = row.score
          /\ \A o \in entryOrders : o.risk # row.risk
      BY <1>1, <1>2, <2>4 DEF CompFits, SinceDecision, SinceIdentity, SinceEvaluation, SinceMint, SinceReread, SinceFill
    <3> QED
      BY <1>4, <2>4, <3>1, <3>2 DEF CompFits, Came, SinceReread, SinceFill
  <2> QED
    BY <1>2, <1>4, <2>4, <2>5, <2>8, <2>9, <2>10, QuietMove DEF Around
<1>5. \E healthy \in BOOLEAN : <1>3!1 \/ <1>4!1
  BY DEF mintForEntry, Gates, resolveBrokerAccountAuthorization
<1> QED
  BY <1>3, <1>4, <1>5
\* What a composition knows once it has an authorization, it knows on.
LEMMA OnFits ==
    ASSUME NEW c, NEW r \in Composition, NEW rows, NEW os, NEW log, CompFits(c, r, rows, os, log),
           r.pc \in SinceMint \ SinceFill, NEW place \in SinceMint,
           place \in SinceReread => r.pc \in SinceReread,
           place = "filled" => \E o \in os : /\ o.profile = r.snap.profile /\ o.setup = r.snap.setup
                                             /\ o.attempt = r.attempt /\ o.by = c /\ o.risk = r.risk,
           place = "replayed" => \E o \in os : o.profile = r.snap.profile /\ o.setup = r.snap.setup
    PROVE  /\ [r EXCEPT !.pc = place] \in Composition
           /\ CompFits(c, [r EXCEPT !.pc = place], rows, os, log)
<1> DEFINE e == [r EXCEPT !.pc = place]
<1>1. /\ e \in Composition /\ e.pc = place /\ e.answer = r.answer /\ e.risk = r.risk /\ e.snap = r.snap
      /\ e.attempt = r.attempt /\ e.score = r.score /\ e.size = r.size /\ e.auth = r.auth /\ e.rebuilt = r.rebuilt
  BY DEF Composition, EntryPlaces, SinceMint, SinceReread, SinceFill
<1> HIDE DEF e
<1>2. place # "idle" /\ place \in SinceDecision /\ place \in SinceIdentity /\ place \in SinceEvaluation
      /\ r.pc \in SinceDecision /\ r.pc \in SinceIdentity /\ r.pc \in SinceEvaluation
  BY DEF SinceDecision, SinceIdentity, SinceEvaluation, SinceMint, SinceReread, SinceFill
<1>3. CompFits(c, e, rows, os, log)
  BY <1>1, <1>2 DEF CompFits, Came, SinceFill
<1> QED
  BY <1>1, <1>3 DEF e

\* A composition with an authorization goes on, and the tables stand.
LEMMA OnKeeps ==
    ASSUME EntryInv, NEW c \in Composers, NEW place \in Holding,
           comp[c].pc \in SinceMint \ SinceFill, place \in SinceReread => comp[c].pc \in SinceReread,
           place = "replayed" =>
             \E o \in entryOrders : o.profile = comp[c].snap.profile /\ o.setup = comp[c].snap.setup,
           Go(c, place), trail' = trail, auths' = auths, reserved' \subseteq reserved, Around,
           faults' \in 0..MaxFaults
    PROVE  EntryInv'
<1> DEFINE row == [comp[c] EXCEPT !.pc = place]
<1>1. /\ EntryShapes /\ comp[c] \in Composition /\ CompFits(c, comp[c], riskRows, entryOrders, trail)
  BY DEF EntryInv, EntryShapes
<1>2. place # "filled" /\ place \in SinceMint
  BY DEF Holding
<1>3. row \in Composition /\ CompFits(c, row, riskRows, entryOrders, trail)
  BY <1>1, <1>2, OnFits
<1>4. comp' = [comp EXCEPT ![c] = row] /\ row.risk = comp[c].risk /\ row.pc = place /\ row.auth = comp[c].auth
  BY <1>1 DEF Go, EntryShapes, Composition
<1> HIDE DEF row
<1> QED
  BY <1>3, <1>4, StepKeeps

\* Places of a composition that only goes on or abandons the entry.
LEMMA Steps ==
    /\ {"fenced", "gated", "cited", "bound", "replayed", "reread"} \subseteq Holding
    /\ {"minted", "fenced", "reread", "cited", "gated", "bound", "consumed"} \subseteq SinceMint \ SinceFill
    /\ {"reread", "cited", "gated", "bound", "consumed"} \subseteq SinceReread
    /\ "fenced" \notin SinceReread
BY DEF Holding, SinceMint, SinceReread, SinceFill

\* The final fence keeps the invariant.
LEMMA FenceKeeps ==
    ASSUME EntryAssumption, EntryInv, NEW c \in Composers, finalFence(c)
    PROVE  EntryInv'
<1>1. Around /\ faults' \in 0..MaxFaults /\ comp[c].pc \in {"minted", "cited"}
  BY DEF EntryInv, EntryShapes, finalFence, OnlyComposition, Around
<1>2. CASE AbandonEntry(c, "rejected")
  BY <1>1, <1>2, AbandonKeeps
<1>3. CASE /\ Go(c, IF comp[c].pc = "minted" THEN "fenced" ELSE "gated")
           /\ UNCHANGED <<auths, reserved, trail>>
  <2>1. CASE comp[c].pc = "minted"
    BY <1>1, <1>3, <2>1, Steps, OnKeeps
  <2>2. CASE comp[c].pc = "cited"
    BY <1>1, <1>3, <2>2, Steps, OnKeeps
  <2> QED
    BY <1>1, <2>1, <2>2
<1> QED
  BY <1>2, <1>3 DEF finalFence

\* Building the decision again keeps the invariant.
LEMMA RereadKeeps ==
    ASSUME EntryAssumption, EntryInv, NEW c \in Composers, rereadSetup(c)
    PROVE  EntryInv'
<1>1. Around /\ faults' \in 0..MaxFaults /\ comp[c].pc = "fenced"
  BY DEF EntryInv, EntryShapes, rereadSetup, OnlyComposition, Around
<1>2. CASE AbandonEntry(c, "rejected")
  BY <1>1, <1>2, AbandonKeeps
<1> DEFINE score == setupRows[comp[c].snap.setup].score
           row == [comp[c] EXCEPT !.pc = "reread", !.rebuilt = score]
<1>3. CASE /\ score = comp[c].score /\ comp' = [comp EXCEPT ![c].pc = "reread", ![c].rebuilt = score]
           /\ UNCHANGED <<auths, reserved, trail>>
  <2>1. /\ EntryShapes /\ comp[c] \in Composition /\ CompFits(c, comp[c], riskRows, entryOrders, trail)
    BY DEF EntryInv, EntryShapes
  <2>2. score \in Scores
    BY <1>3, <2>1 DEF Composition
  <2> HIDE DEF score
  <2>3. /\ row \in Composition /\ row.pc = "reread" /\ row.rebuilt = row.score /\ row.score = comp[c].score
        /\ row.risk = comp[c].risk /\ row.snap = comp[c].snap /\ row.attempt = comp[c].attempt
        /\ row.size = comp[c].size /\ row.auth = comp[c].auth
    BY <1>3, <2>1, <2>2 DEF Composition, EntryPlaces
  <2>4. comp' = [comp EXCEPT ![c] = row]
    BY <1>3, <2>1 DEF EntryShapes, Composition
  <2> HIDE DEF row
  <2>5. \A place \in {"fenced", "reread"} :
           /\ place \in SinceDecision /\ place \in SinceIdentity /\ place \in SinceEvaluation
           /\ place \in SinceMint /\ place \notin SinceFill /\ place \in Holding
    BY DEF Holding, SinceDecision, SinceIdentity, SinceEvaluation, SinceMint, SinceReread, SinceFill
  <2>6. CompFits(c, row, riskRows, entryOrders, trail')
    BY <1>1, <1>3, <2>1, <2>3, <2>5 DEF CompFits, Came
  <2>7. reserved' \subseteq reserved /\ trail \subseteq trail' /\ auths' = auths
    BY <1>3
  <2> QED
    BY <1>1, <2>3, <2>4, <2>5, <2>6, <2>7, StepKeeps
<1> QED
  BY <1>2, <1>3 DEF rereadSetup, sameExecutionDecision

\* Reading the approval again keeps the invariant.
LEMMA ApprovalKeeps ==
    ASSUME EntryAssumption, EntryInv, NEW c \in Composers, rereadApproval(c)
    PROVE  EntryInv'
<1>1. Around /\ faults' \in 0..MaxFaults /\ comp[c].pc = "reread"
  BY DEF EntryInv, EntryShapes, rereadApproval, OnlyComposition, Around
<1>2. CASE AbandonEntry(c, "rejected")
  BY <1>1, <1>2, AbandonKeeps
<1>3. CASE Go(c, "cited") /\ UNCHANGED <<auths, reserved, trail>>
  BY <1>1, <1>3, Steps, OnKeeps
<1> QED
  BY <1>2, <1>3 DEF rereadApproval

\* Comparing the authorization with the request keeps the invariant.
LEMMA BindKeeps ==
    ASSUME EntryAssumption, EntryInv, NEW c \in Composers, bindRequest(c)
    PROVE  EntryInv'
<1>1. Around /\ faults' \in 0..MaxFaults /\ comp[c].pc = "gated"
  BY DEF EntryInv, EntryShapes, bindRequest, OnlyComposition, Around
<1>2. CASE AbandonEntry(c, "rejected")
  BY <1>1, <1>2, AbandonKeeps
<1>3. CASE /\ \E o \in Presented(c) : o.status # "failed"
           /\ Go(c, "replayed") /\ reserved' = reserved \ {comp[c].risk} /\ UNCHANGED <<auths, trail>>
  <2>1. \E o \in entryOrders : o.profile = comp[c].snap.profile /\ o.setup = comp[c].snap.setup
    BY <1>3 DEF Presented, OrderAt, EntriesOf
  <2>2. reserved' \subseteq reserved
    BY <1>3
  <2> QED
    BY <1>1, <1>3, <2>1, <2>2, Steps, OnKeeps
<1>4. CASE Go(c, "bound") /\ UNCHANGED <<auths, reserved, trail>>
  BY <1>1, <1>4, Steps, OnKeeps
<1> QED
  BY <1>2, <1>3, <1>4 DEF bindRequest

\* Consuming the authorization keeps the invariant.
LEMMA ConsumeKeeps ==
    ASSUME EntryAssumption, EntryInv, NEW c \in Composers, consumeForEntry(c)
    PROVE  EntryInv'
<1>1. Around /\ faults' \in 0..MaxFaults /\ comp[c].pc = "bound"
  BY DEF EntryInv, EntryShapes, consumeForEntry, OnlyComposition, Around
<1>2. CASE AbandonEntry(c, "rejected")
  BY <1>1, <1>2, AbandonKeeps
<1> DEFINE row == [comp[c] EXCEPT !.pc = "consumed"]
<1>3. CASE /\ auths' = Without(comp[c].auth) /\ Go(c, "consumed") /\ UNCHANGED <<reserved, trail>>
  <2>1. /\ EntryShapes /\ comp[c] \in Composition /\ CompFits(c, comp[c], riskRows, entryOrders, trail)
    BY DEF EntryInv, EntryShapes
  <2>2. row \in Composition /\ CompFits(c, row, riskRows, entryOrders, trail)
    BY <1>1, <2>1, Steps, OnFits
  <2>3. comp' = [comp EXCEPT ![c] = row] /\ row.risk = comp[c].risk
    BY <1>3, <2>1 DEF Go, EntryShapes, Composition
  <2> HIDE DEF row
  <2>4. auths' \in Seq(Authorization) /\ Len(auths') <= Len(auths)
    BY <1>3, <2>1, WithoutEntry DEF EntryInv, EntryShapes, MapFits
  <2>5. Len(auths') <= AuthCapacity
    BY <2>1, <2>4 DEF EntryShapes, EntryAssumption
  <2>6. EntryShapes'
    <3>1. comp' \in [Composers -> Composition]
      BY <2>1, <2>2, <2>3 DEF EntryShapes
    <3> QED
      BY <1>1, <1>3, <2>1, <2>4, <2>5, <3>1 DEF EntryShapes, Around
  <2>7. MapFits(auths', comp')
    BY <1>3, <2>1, <2>3, MapCut DEF EntryInv, EntryShapes
  <2> QED
    BY <1>1, <1>3, <2>2, <2>3, <2>6, <2>7, QuietMove DEF Around
<1> QED
  BY <1>2, <1>3 DEF consumeForEntry

\* A failed query keeps the invariant.
LEMMA FailKeeps ==
    ASSUME EntryAssumption, EntryInv, NEW c \in Composers, entryFails(c)
    PROVE  EntryInv'
<1>1. Around /\ faults' \in 0..MaxFaults /\ AbandonEntry(c, "thrown")
  BY DEF EntryInv, EntryShapes, entryFails, Around, EntryAssumption
<1> QED
  BY <1>1, AbandonKeeps
-----------------------------------------------------------------------------
(* The fill.                                                               *)

EntryRow(c, status) ==
    [profile |-> comp[c].snap.profile, setup |-> comp[c].snap.setup,
     attempt |-> comp[c].attempt, score |-> comp[c].rebuilt, quantity |-> comp[c].size,
     risk |-> comp[c].risk, status |-> status, by |-> c]

\* An order inserted under a free identity is the next attempt at its entry.
LEMMA OrderAdded ==
    ASSUME EntryAssumption, EntryInv, NEW c \in Composers, comp[c].pc = "consumed", Presented(c) = {},
           NEW status \in {"filled", "failed"}
    PROVE  /\ EntryRow(c, status) \in Entry
           /\ OrdersFit(entryOrders \cup {EntryRow(c, status)}, riskRows)
           /\ \A p \in Profiles, s \in Setups :
                 /\ Cardinality(FailedOf(entryOrders, p, s)) \in Nat
                 /\ Cardinality(FailedOf(entryOrders \cup {EntryRow(c, status)}, p, s)) \in Nat
                 /\ Cardinality(FailedOf(entryOrders, p, s)) <=
                      Cardinality(FailedOf(entryOrders \cup {EntryRow(c, status)}, p, s))
<1> DEFINE new == EntryRow(c, status)
           os == entryOrders \cup {new}
           pr == comp[c].snap.profile
           st == comp[c].snap.setup
           n == Cardinality(FailedOf(entryOrders, pr, st))
<1>1. /\ EntryShapes /\ comp[c] \in Composition /\ CompFits(c, comp[c], riskRows, entryOrders, trail)
      /\ pr \in Profiles /\ st \in Setups /\ OrdersFit(entryOrders, riskRows)
  BY DEF EntryInv, EntryShapes, Composition, EntryAssumption, Setups, Profiles
<1>2. /\ new.profile = pr /\ new.setup = st /\ new.attempt = comp[c].attempt /\ new.risk = comp[c].risk
      /\ new.score = comp[c].rebuilt /\ new.quantity = comp[c].size /\ new.status = status /\ new.by = c
  BY DEF EntryRow
<1>3. new \in Entry
  BY <1>1 DEF EntryRow, Entry, Composition
<1> HIDE DEF new
<1>4. comp[c].attempt \in 1..(n + 1) /\ n \in Nat /\ AttemptsFit(entryOrders, pr, st)
  <2>1. n \in Nat
    BY <1>1, NextAttempt
  <2>2. comp[c].attempt \in 1..(n + 1)
    BY <1>1 DEF CompFits, SinceIdentity, SinceEvaluation, SinceMint, SinceReread
  <2> QED
    BY <1>1, <2>1, <2>2 DEF OrdersFit
<1>5. \A o \in entryOrders : ~(o.profile = pr /\ o.setup = st /\ o.attempt = comp[c].attempt)
  BY DEF Presented, OrderAt, EntriesOf
<1>6. comp[c].attempt = n + 1
  <2>1. comp[c].attempt \notin 1..n
    <3> SUFFICES ASSUME comp[c].attempt \in 1..n PROVE FALSE
      OBVIOUS
    <3>1. PICK o \in FailedOf(entryOrders, pr, st) : o.attempt = comp[c].attempt
      BY <1>4 DEF AttemptsFit
    <3> QED
      BY <1>5, <3>1 DEF FailedOf
  <2> HIDE DEF n
  <2> QED
    BY <1>4, <2>1
<1>7. \A o \in entryOrders : o.profile = pr /\ o.setup = st => o.status = "failed"
  <2> SUFFICES ASSUME NEW o \in entryOrders, o.profile = pr, o.setup = st, o.status # "failed" PROVE FALSE
    OBVIOUS
  <2>1. o.status = "filled"
    BY <1>1 DEF EntryShapes, Entry
  <2>2. o.attempt = n + 1
    BY <1>4, <2>1 DEF AttemptsFit
  <2> QED
    BY <1>5, <1>6, <2>2
<1>8. StandsOn(new, riskRows)
  BY <1>1, <1>2 DEF StandsOn, CompFits, SinceDecision, SinceIdentity, SinceEvaluation, SinceMint, SinceReread, SinceFill
<1>9. \A o \in entryOrders : o.risk # comp[c].risk
  BY <1>1 DEF CompFits, SinceDecision, SinceIdentity, SinceEvaluation, SinceMint, SinceReread, SinceFill
<1>10. ASSUME NEW p \in Profiles, NEW s \in Setups
       PROVE  /\ AttemptsFit(os, p, s)
              /\ Cardinality(FailedOf(entryOrders, p, s)) \in Nat
              /\ Cardinality(FailedOf(os, p, s)) \in Nat
              /\ Cardinality(FailedOf(entryOrders, p, s)) <= Cardinality(FailedOf(os, p, s))
  <2>1. AttemptsFit(entryOrders, p, s) /\ Cardinality(FailedOf(entryOrders, p, s)) \in Nat
    BY <1>1, NextAttempt DEF OrdersFit
  <2>2. CASE p = pr /\ s = st /\ status = "failed"
    <3>1. FailedOf(os, p, s) = FailedOf(entryOrders, p, s) \cup {new}
      BY <1>2, <2>2 DEF FailedOf
    <3>2. new \notin FailedOf(entryOrders, p, s)
      BY <1>2, <1>5, <2>2 DEF FailedOf
    <3>3. /\ IsFiniteSet(FailedOf(os, p, s))
          /\ Cardinality(FailedOf(os, p, s)) = n + 1
      <4> DEFINE F == FailedOf(entryOrders, p, s)
                 G == FailedOf(os, p, s)
      <4>1. IsFiniteSet(F)
        BY <2>1 DEF AttemptsFit
      <4>2. G = F \cup {new} /\ new \notin F
        BY <3>1, <3>2
      <4>3. Cardinality(F) = n
        BY <2>2
      <4> HIDE DEF F, G, n
      <4>4. IsFiniteSet(G) /\ Cardinality(G) = Cardinality(F) + 1
        BY <4>1, <4>2, FS_AddElement
      <4>5. IsFiniteSet(G) /\ Cardinality(G) = n + 1
        BY <4>3, <4>4
      <4> QED
        BY <4>5 DEF G
    <3>4. \A k \in 1..(n + 1) : \E o \in FailedOf(os, p, s) : o.attempt = k
      <4> SUFFICES ASSUME NEW k \in 1..(n + 1) PROVE \E o \in FailedOf(os, p, s) : o.attempt = k
        OBVIOUS
      <4>1. CASE k \in 1..n
        BY <1>4, <2>2, <3>1, <4>1 DEF AttemptsFit
      <4>2. CASE k = n + 1
        BY <1>2, <1>6, <3>1, <4>2
      <4>3. k \in 1..n \/ k = n + 1
        <5> HIDE DEF n
        <5> QED
          BY <1>4
      <4> QED
        BY <4>1, <4>2, <4>3
    <3>5. \A o \in FailedOf(os, p, s) : o.attempt <= n + 1
      <4>1. \A o \in FailedOf(entryOrders, p, s) : o.attempt <= n /\ o.attempt \in Nat
        BY <1>1, <1>4, <2>2 DEF AttemptsFit, FailedOf, EntryShapes, Entry
      <4>2. \A o \in FailedOf(entryOrders, p, s) : o.attempt <= n + 1
        <5> HIDE DEF n
        <5> QED
          BY <1>4, <4>1
      <4>3. new.attempt <= n + 1
        <5> HIDE DEF n
        <5> QED
          BY <1>2, <1>4, <1>6
      <4> QED
        BY <3>1, <4>2, <4>3
    <3>6. \A o \in os : o.profile = p /\ o.setup = s => o.status # "filled"
      BY <1>2, <1>7, <2>2
    <3>7. AttemptsFit(os, p, s)
      BY <3>3, <3>4, <3>5, <3>6 DEF AttemptsFit
    <3>8. n + 1 \in Nat /\ n <= n + 1
      <4> HIDE DEF n
      <4> QED
        BY <1>4
    <3> QED
      BY <1>4, <2>1, <2>2, <3>3, <3>7, <3>8
  <2>3. CASE ~(p = pr /\ s = st /\ status = "failed")
    <3>1. FailedOf(os, p, s) = FailedOf(entryOrders, p, s)
      BY <1>2, <2>3 DEF FailedOf
    <3>2. \A o \in os : o.profile = p /\ o.setup = s /\ o.status = "filled" =>
             o.attempt = Cardinality(FailedOf(entryOrders, p, s)) + 1
      <4> SUFFICES ASSUME NEW o \in os, o.profile = p, o.setup = s, o.status = "filled"
                   PROVE  o.attempt = Cardinality(FailedOf(entryOrders, p, s)) + 1
        OBVIOUS
      <4>1. CASE o = new
        BY <1>2, <1>6, <4>1
      <4>2. CASE o \in entryOrders
        BY <2>1, <4>2 DEF AttemptsFit
      <4> QED
        BY <4>1, <4>2
    <3>3. AttemptsFit(os, p, s)
      BY <2>1, <3>1, <3>2 DEF AttemptsFit
    <3> QED
      BY <2>1, <3>1, <3>3
  <2> QED
    BY <2>2, <2>3
<1>11. OrdersFit(os, riskRows)
  <2>1. \A o \in os : StandsOn(o, riskRows)
    BY <1>1, <1>8 DEF OrdersFit
  <2>2. \A o, other \in os : o.risk = other.risk => o = other
    BY <1>1, <1>2, <1>9 DEF OrdersFit
  <2>3. \A o, other \in os :
          o.profile = other.profile /\ o.setup = other.setup /\ o.attempt = other.attempt => o = other
    BY <1>1, <1>2, <1>5 DEF OrdersFit
  <2> QED
    BY <1>10, <2>1, <2>2, <2>3 DEF OrdersFit
<1> QED
  BY <1>3, <1>10, <1>11 DEF new

\* A step of the fill that adds an order.
LEMMA OrderKeeps ==
    ASSUME EntryAssumption, EntryInv, NEW c \in Composers, comp[c].pc = "consumed", Presented(c) = {},
           NEW status \in {"filled", "failed"}, entryOrders' = entryOrders \cup {EntryRow(c, status)},
           NEW row \in Composition, comp' = [comp EXCEPT ![c] = row], row.risk = comp[c].risk,
           CompFits(c, row, riskRows, entryOrders', trail'), trail \subseteq trail',
           UNCHANGED <<input, setupRows, enabled, riskRows, auths, moves>>,
           reserved' \subseteq reserved, faults' \in 0..MaxFaults
    PROVE  EntryInv'
<1>1. EntryShapes /\ comp \in [Composers -> Composition]
  BY DEF EntryInv, EntryShapes
<1> DEFINE new == EntryRow(c, status)
<1>2. /\ new \in Entry /\ OrdersFit(entryOrders', riskRows)
      /\ \A p \in Profiles, s \in Setups :
            /\ Cardinality(FailedOf(entryOrders, p, s)) \in Nat
            /\ Cardinality(FailedOf(entryOrders', p, s)) \in Nat
            /\ Cardinality(FailedOf(entryOrders, p, s)) <= Cardinality(FailedOf(entryOrders', p, s))
  BY OrderAdded
<1>3. new.risk = comp[c].risk
  BY DEF EntryRow
<1> HIDE DEF new
<1>4. EntryShapes'
  <2>1. comp' \in [Composers -> Composition] /\ entryOrders' \subseteq Entry
    BY <1>1, <1>2 DEF EntryShapes, new
  <2> QED
    BY <1>1, <2>1 DEF EntryShapes
<1>5. MapFits(auths', comp')
  BY <1>1, MapStays DEF EntryInv, Holding
<1>6. \A d, e \in Composers : comp'[d].risk # 0 /\ comp'[d].risk = comp'[e].risk => d = e
  BY <1>1 DEF EntryInv
<1>7. comp[c].risk # 0
  <2>1. comp[c].risk \in DOMAIN riskRows
    BY DEF EntryInv, CompFits, SinceEvaluation, SinceMint, SinceReread
  <2>2. DOMAIN riskRows = 1..Len(riskRows) /\ Len(riskRows) \in Nat
    BY <1>1 DEF EntryShapes
  <2> QED
    BY <2>1, <2>2
<1>8. ASSUME NEW d \in Composers PROVE CompFits(d, comp'[d], riskRows', entryOrders', trail')
  <2>1. CASE d = c
    BY <1>1, <2>1
  <2>2. CASE d # c
    <3>1. comp'[d] = comp[d] /\ CompFits(d, comp[d], riskRows, entryOrders, trail) /\ comp[d] \in Composition
      BY <1>1, <2>2 DEF EntryInv
    <3>2. comp[d].snap.profile \in Profiles /\ comp[d].snap.setup \in Setups
      BY <3>1 DEF Composition, EntryAssumption, Setups, Profiles
    <3>3. \A o \in entryOrders' \ entryOrders : o.risk # comp[d].risk
      BY <1>3, <1>7, <2>2 DEF EntryInv, new
    <3>4. riskRows \in Seq(Decision) /\ Len(riskRows) <= Len(riskRows) /\ entryOrders \subseteq entryOrders'
      BY <1>1 DEF EntryShapes
    <3>5. CompFits(d, comp[d], riskRows, entryOrders', trail')
      BY <1>2, <3>1, <3>2, <3>3, <3>4, FitsStay
    <3> QED
      BY <3>1, <3>5
  <2> QED
    BY <2>1, <2>2
<1> QED
  BY <1>2, <1>4, <1>5, <1>6, <1>8 DEF EntryInv

\* runEntryFill keeps the invariant.
LEMMA FillKeeps ==
    ASSUME EntryAssumption, EntryInv, NEW c \in Composers, runEntryFill(c)
    PROVE  EntryInv'
<1>1. /\ EntryShapes /\ comp[c] \in Composition /\ CompFits(c, comp[c], riskRows, entryOrders, trail)
      /\ comp[c].pc = "consumed" /\ comp[c].pc \in SinceMint \ SinceFill /\ comp[c].pc \in SinceReread
      /\ UNCHANGED <<input, setupRows, enabled, riskRows, auths, moves>>
      /\ faults \in 0..MaxFaults
  BY Steps DEF EntryInv, EntryShapes, runEntryFill
<1>2. CASE /\ Presented(c) # {} /\ Go(c, "replayed") /\ reserved' = reserved \ {comp[c].risk}
           /\ UNCHANGED <<entryOrders, faults, trail>>
  <2>1. \E o \in entryOrders : o.profile = comp[c].snap.profile /\ o.setup = comp[c].snap.setup
    BY <1>2 DEF Presented, OrderAt, EntriesOf
  <2>2. reserved' \subseteq reserved /\ Around
    BY <1>1, <1>2 DEF Around
  <2> QED
    BY <1>1, <1>2, <2>1, <2>2, Steps, OnKeeps
<1>3. CASE /\ Presented(c) = {} /\ entryOrders' = entryOrders \cup {EntryRow(c, "filled")}
           /\ Go(c, "filled") /\ reserved' = reserved \ {comp[c].risk} /\ UNCHANGED <<faults, trail>>
  <2> DEFINE row == [comp[c] EXCEPT !.pc = "filled"]
  <2>1. /\ row \in Composition /\ row.pc = "filled" /\ row.risk = comp[c].risk /\ row.snap = comp[c].snap
        /\ row.attempt = comp[c].attempt /\ row.score = comp[c].score /\ row.size = comp[c].size
        /\ row.auth = comp[c].auth /\ row.rebuilt = comp[c].rebuilt
    BY <1>1 DEF Composition, EntryPlaces
  <2>2. comp' = [comp EXCEPT ![c] = row]
    BY <1>1, <1>3 DEF Go, EntryShapes, Composition
  <2> HIDE DEF row
  <2>3. CompFits(c, row, riskRows, entryOrders', trail')
    <3>1. \E o \in entryOrders' : /\ o.profile = row.snap.profile /\ o.setup = row.snap.setup
                                  /\ o.attempt = row.attempt /\ o.by = c /\ o.risk = row.risk
      <4>1. EntryRow(c, "filled") \in entryOrders'
        BY <1>3
      <4>2. LET o == EntryRow(c, "filled")
            IN  /\ o.profile = row.snap.profile /\ o.setup = row.snap.setup
                /\ o.attempt = row.attempt /\ o.by = c /\ o.risk = row.risk
        BY <2>1 DEF EntryRow
      <4> QED
        BY <4>1, <4>2
    <3>2. row.attempt \in 1..(Cardinality(FailedOf(entryOrders', row.snap.profile, row.snap.setup)) + 1)
      <4>1. FailedOf(entryOrders', row.snap.profile, row.snap.setup) = FailedOf(entryOrders, row.snap.profile, row.snap.setup)
        BY <1>3 DEF FailedOf, EntryRow
      <4>2. row.attempt \in 1..(Cardinality(FailedOf(entryOrders, row.snap.profile, row.snap.setup)) + 1)
        BY <1>1, <2>1 DEF CompFits, SinceIdentity, SinceEvaluation
      <4> QED
        BY <4>1, <4>2
    <3>3. /\ row.risk \in 0..Len(riskRows) /\ row.risk \in DOMAIN riskRows
          /\ ProfileOwner[row.snap.profile] = SetupOwner[row.snap.setup]
          /\ riskRows[row.risk].profile = row.snap.profile /\ riskRows[row.risk].setup = row.snap.setup
          /\ riskRows[row.risk].score = row.score /\ riskRows[row.risk].outcome = "approved"
          /\ riskRows[row.risk].size = row.size /\ row.size > 0 /\ Provider[row.snap.profile] = "paper"
          /\ row.auth = row.risk /\ row.rebuilt = row.score
      BY <1>1, <2>1 DEF CompFits, SinceDecision, SinceIdentity, SinceEvaluation
    <3>4. row.pc \in SinceFill
      BY <2>1 DEF SinceFill
    <3> QED
      BY <2>1, <3>1, <3>2, <3>3, <3>4 DEF CompFits, Came
  <2>4. reserved' \subseteq reserved /\ trail \subseteq trail' /\ faults' \in 0..MaxFaults
    BY <1>1, <1>3
  <2> QED
    BY <1>1, <1>3, <2>1, <2>2, <2>3, <2>4, OrderKeeps
<1>4. CASE /\ Presented(c) = {} /\ faults < MaxFaults /\ faults' = faults + 1
           /\ entryOrders' = entryOrders \cup {EntryRow(c, "failed")}
           /\ reserved' = reserved \ {comp[c].risk} /\ Reject(c)
  <2> DEFINE row == [comp[c] EXCEPT !.pc = "idle", !.answer = "rejected"]
  <2>1. row \in Composition /\ row.pc = "idle" /\ row.answer = "rejected" /\ row.risk = comp[c].risk
    BY <1>1 DEF Composition, EntryPlaces, Answers
  <2>2. comp' = [comp EXCEPT ![c] = row] /\ trail \subseteq trail'
    BY <1>1, <1>4 DEF Reject, Answer, TrailEvent, EntryShapes, Composition
  <2> HIDE DEF row
  <2>3. CompFits(c, row, riskRows, entryOrders', trail')
    BY <1>1, <2>1 DEF CompFits, Came, SinceDecision, SinceIdentity, SinceEvaluation, SinceMint, SinceReread, SinceFill
  <2>4. reserved' \subseteq reserved /\ faults' \in 0..MaxFaults
    BY <1>1, <1>4 DEF EntryAssumption
  <2> QED
    BY <1>1, <1>4, <2>1, <2>2, <2>3, <2>4, OrderKeeps
<1> QED
  BY <1>2, <1>3, <1>4 DEF runEntryFill, EntryRow

\* The end of submitPaper keeps the invariant.
LEMMA SuccessKeeps ==
    ASSUME EntryAssumption, EntryInv, NEW c \in Composers, auditSuccess(c)
    PROVE  EntryInv'
<1>1. /\ EntryShapes /\ comp[c] \in Composition /\ CompFits(c, comp[c], riskRows, entryOrders, trail)
      /\ comp[c].pc \in {"filled", "replayed"} /\ Around /\ reserved' = reserved
      /\ auths' = Without(comp[c].auth) /\ faults \in 0..MaxFaults
  BY DEF EntryInv, EntryShapes, auditSuccess, Around
<1>2. CASE Throw(c) /\ faults < MaxFaults /\ faults' = faults + 1
  <2>1. faults' \in 0..MaxFaults
    BY <1>1, <1>2 DEF EntryAssumption
  <2> QED
    BY <1>1, <1>2, <2>1, RejectAnswers, CutKeeps
<1>3. CASE /\ Answer(c, comp[c].pc) /\ trail' = TrailEvent(c, "execution_requested") /\ UNCHANGED faults
  <2> DEFINE row == [comp[c] EXCEPT !.pc = "idle", !.answer = comp[c].pc]
  <2>1. /\ row \in Composition /\ row.pc = "idle" /\ row.answer = comp[c].pc /\ row.risk = comp[c].risk
        /\ row.snap = comp[c].snap /\ row.attempt = comp[c].attempt
    BY <1>1 DEF Composition, EntryPlaces, Answers
  <2>2. comp' = [comp EXCEPT ![c] = row]
    BY <1>1, <1>3 DEF Answer, EntryShapes, Composition
  <2> HIDE DEF row
  <2>3. /\ trail \subseteq trail'
        /\ [by |-> c, kind |-> "execution_requested", risk |-> comp[c].risk] \in trail'
    BY <1>3 DEF TrailEvent
  <2>4. CompFits(c, row, riskRows, entryOrders, trail')
    BY <1>1, <2>1, <2>3 DEF CompFits, Came, SinceDecision, SinceIdentity, SinceEvaluation, SinceMint, SinceReread, SinceFill
  <2>5. auths' \in Seq(Authorization) /\ Len(auths') <= Len(auths)
    BY <1>1, WithoutEntry DEF EntryInv, EntryShapes, MapFits
  <2>6. Len(auths') <= AuthCapacity
    BY <1>1, <2>5 DEF EntryShapes, EntryAssumption
  <2>7. EntryShapes'
    <3>1. comp' \in [Composers -> Composition]
      BY <1>1, <2>1, <2>2 DEF EntryShapes
    <3> QED
      BY <1>1, <1>3, <2>5, <2>6, <3>1 DEF EntryShapes, Around
  <2>8. MapFits(auths', comp')
    BY <1>1, <2>2, MapCut DEF EntryInv, EntryShapes
  <2> QED
    BY <1>1, <2>1, <2>2, <2>3, <2>4, <2>7, <2>8, QuietMove DEF Around
<1> QED
  BY <1>2, <1>3 DEF auditSuccess
-----------------------------------------------------------------------------
(* The others, and the theorems.                                           *)

\* What the caller, the scanner, the owner and time change is read again.
LEMMA OutsideKeeps ==
    ASSUME EntryAssumption, EntryInv,
           \/ \E c \in Composers, r \in EntryRequests : alterInput(c, r)
           \/ \E s \in Setups, st \in {"confirmed", "triggered", "expired"}, q \in Scores :
                 moveSetup(s, [state |-> st, score |-> q])
           \/ \E p \in Profiles : disableProfile(p)
           \/ \E i \in DOMAIN auths : expireAuthorization(i)
           \/ \E d \in reserved : reclaimReservation(d)
    PROVE  EntryInv'
<1>1. EntryShapes
  BY DEF EntryInv
<1>2. /\ riskRows' = riskRows /\ entryOrders' = entryOrders /\ trail' = trail /\ comp' = comp /\ faults' = faults
      /\ moves' \in 0..MaxMoves /\ reserved' \subseteq reserved
  <2>1. moves < MaxMoves /\ moves' = moves + 1
    BY DEF alterInput, moveSetup, disableProfile, expireAuthorization, reclaimReservation, Moved
  <2>2. moves' \in 0..MaxMoves
    BY <1>1, <2>1 DEF EntryShapes, EntryAssumption
  <2> QED
    BY <2>2 DEF alterInput, moveSetup, disableProfile, expireAuthorization, reclaimReservation
<1>3. input' \in [Composers -> EntryRequests]
  BY <1>1 DEF EntryShapes, alterInput, moveSetup, disableProfile, expireAuthorization, reclaimReservation
<1>4. setupRows' \in [Setups -> SetupRow]
  <2>1. \A st \in {"confirmed", "triggered", "expired"}, q \in Scores : [state |-> st, score |-> q] \in SetupRow
    BY DEF SetupRow
  <2> QED
    <3>1. CASE setupRows' = setupRows
      BY <1>1, <3>1 DEF EntryShapes
    <3>2. ASSUME NEW s \in Setups, NEW row \in SetupRow, moveSetup(s, row) PROVE setupRows' \in [Setups -> SetupRow]
      BY <1>1, <3>2 DEF EntryShapes, moveSetup
    <3> QED
      BY <2>1, <3>1, <3>2 DEF alterInput, disableProfile, expireAuthorization, reclaimReservation
<1>5. enabled' \in [Profiles -> BOOLEAN]
  BY <1>1 DEF EntryShapes, alterInput, moveSetup, disableProfile, expireAuthorization, reclaimReservation
<1>6. auths' \in Seq(Authorization) /\ Len(auths') <= AuthCapacity /\ MapFits(auths', comp)
  <2>1. CASE auths' = auths
    BY <1>1, <2>1 DEF EntryInv, EntryShapes
  <2>2. ASSUME NEW i \in DOMAIN auths, expireAuthorization(i)
        PROVE  auths' \in Seq(Authorization) /\ Len(auths') <= AuthCapacity /\ MapFits(auths', comp)
    <3>1. /\ auths' \in Seq(Authorization) /\ Len(auths') <= Len(auths)
          /\ \A k, j \in DOMAIN auths' : auths'[k].id = auths'[j].id => k = j
          /\ \A k \in DOMAIN auths' : \E j \in DOMAIN auths : auths[j] = auths'[k]
      BY <1>1, <2>2, WithoutEntry DEF EntryInv, EntryShapes, MapFits, expireAuthorization
    <3>2. Len(auths') <= AuthCapacity
      BY <1>1, <3>1 DEF EntryShapes, EntryAssumption
    <3>3. MapFits(auths', comp)
      BY <3>1 DEF EntryInv, MapFits
    <3> QED
      BY <3>1, <3>2, <3>3
  <2> QED
    BY <2>1, <2>2 DEF alterInput, moveSetup, disableProfile, reclaimReservation
<1>7. EntryShapes'
  BY <1>1, <1>2, <1>3, <1>4, <1>5, <1>6 DEF EntryShapes
<1> QED
  BY <1>2, <1>6, <1>7 DEF EntryInv

\* Asking again keeps the invariant.
LEMMA AgainKeeps ==
    ASSUME EntryAssumption, EntryInv, NEW c \in Composers, NEW r \in EntryRequests, composeAgain(c, r)
    PROVE  EntryInv'
<1>1. EntryShapes /\ comp[c].pc = "idle" /\ comp[c].pc \notin Holding
  BY DEF EntryInv, composeAgain, Holding, SinceMint, SinceReread, SinceFill
<1>2. moves' \in 0..MaxMoves
  BY <1>1 DEF EntryShapes, EntryAssumption, composeAgain, Moved
<1>3. /\ comp' = [comp EXCEPT ![c] = NoComposition] /\ input' = [input EXCEPT ![c] = r]
      /\ UNCHANGED <<setupRows, enabled, riskRows, reserved, auths, entryOrders, trail, faults>>
  BY DEF composeAgain
<1>4. NoComposition \in Composition /\ NoComposition.risk = 0 /\ CompFits(c, NoComposition, riskRows, entryOrders, trail)
  BY <1>1, NoEntryFits DEF EntryShapes
<1>5. EntryShapes'
  BY <1>1, <1>2, <1>3, <1>4 DEF EntryShapes
<1>6. MapFits(auths', comp')
  BY <1>1, <1>3, MapStays DEF EntryInv, EntryShapes
<1> QED
  BY <1>3, <1>4, <1>5, <1>6, QuietMove

\* Initially nothing is composed.
LEMMA EntryInitInv ==
    ASSUME EntryAssumption, ComposedInit PROVE EntryInv
<1>1. EntryShapes
  <2>1. [state |-> "confirmed", score |-> 1] \in SetupRow
    BY DEF SetupRow, EntryAssumption
  <2> QED
    BY <2>1, NoEntryFits DEF ComposedInit, EntryShapes, EntryAssumption
<1>2. OrdersFit(entryOrders, riskRows)
  <2>1. ASSUME NEW p \in Profiles, NEW s \in Setups PROVE AttemptsFit(entryOrders, p, s)
    <3>1. FailedOf(entryOrders, p, s) = {}
      BY DEF ComposedInit, FailedOf
    <3>2. IsFiniteSet({}) /\ Cardinality({}) = 0
      BY FS_EmptySet
    <3>3. 1..0 = {}
      OBVIOUS
    <3> QED
      BY <3>1, <3>2, <3>3 DEF ComposedInit, AttemptsFit
  <2> QED
    BY <2>1 DEF ComposedInit, OrdersFit
<1>3. MapFits(auths, comp)
  BY DEF ComposedInit, MapFits
<1>4. \A c \in Composers : comp[c] = NoComposition /\ comp[c].risk = 0
  BY NoEntryFits DEF ComposedInit
<1>5. \A c \in Composers : CompFits(c, comp[c], riskRows, entryOrders, trail)
  BY <1>4, NoEntryFits DEF ComposedInit
<1> QED
  BY <1>1, <1>2, <1>3, <1>4, <1>5 DEF EntryInv

\* Every step keeps the invariant.
LEMMA EntryNextInv ==
    ASSUME EntryAssumption, EntryInv, [ComposedNext]_entryVars PROVE EntryInv'
<1>1. CASE UNCHANGED entryVars
  <2>1. EntryShapes'
    BY <1>1 DEF entryVars, EntryInv, EntryShapes
  <2>2. /\ riskRows' = riskRows /\ entryOrders' = entryOrders /\ auths' = auths
        /\ comp' = comp /\ trail' = trail
    BY <1>1 DEF entryVars
  <2> QED
    BY <2>1, <2>2 DEF EntryInv
<1>2. ASSUME NEW c \in Composers, ComposeStep(c) PROVE EntryInv'
  <2>1. CASE freezeCompositionInput(c)
    BY <2>1, FreezeKeeps
  <2>2. CASE composeDecision(c)
    BY <2>2, DecisionKeeps
  <2>3. CASE deriveIdentity(c)
    BY <2>3, IdentityKeeps
  <2>4. CASE evaluateRisk(c)
    BY <2>4, EvaluateKeeps
  <2>5. CASE mintForEntry(c)
    BY <2>5, MintKeeps
  <2>6. CASE finalFence(c)
    BY <2>6, FenceKeeps
  <2>7. CASE rereadSetup(c)
    BY <2>7, RereadKeeps
  <2>8. CASE rereadApproval(c)
    BY <2>8, ApprovalKeeps
  <2>9. CASE bindRequest(c)
    BY <2>9, BindKeeps
  <2>10. CASE consumeForEntry(c)
    BY <2>10, ConsumeKeeps
  <2>11. CASE runEntryFill(c)
    BY <2>11, FillKeeps
  <2>12. CASE auditSuccess(c)
    BY <2>12, SuccessKeeps
  <2>13. CASE entryFails(c)
    BY <2>13, FailKeeps
  <2> QED
    BY <1>2, <2>1, <2>2, <2>3, <2>4, <2>5, <2>6, <2>7, <2>8, <2>9, <2>10, <2>11, <2>12, <2>13 DEF ComposeStep
<1>3. ASSUME NEW c \in Composers, NEW r \in EntryRequests, composeAgain(c, r) PROVE EntryInv'
  BY <1>3, AgainKeeps
<1> QED
  BY <1>1, <1>2, <1>3, OutsideKeeps DEF ComposedNext

\* EntryInv holds in every state composed entries can reach, for any callers,
\* requests, owners, scores, sizes and capacity of the map (composition.ts,
\* authorization.ts, paper-service.ts).
THEOREM EntryInvariance == ASSUME EntryAssumption PROVE ComposedSpec => []EntryInv
<1>1. ComposedInit => EntryInv
  BY EntryInitInv
<1>2. EntryInv /\ [ComposedNext]_entryVars => EntryInv'
  BY EntryNextInv
<1> QED
  BY <1>1, <1>2, PTL DEF ComposedSpec

\* Composed entries, as a whole: what composeAndSubmit and executeComposedEntry
\* fill is what was approved, once per approval and once per entry, no
\* authorization outlives its call, and an acceptance names an order that
\* exists and is on the trail, whatever changes between the reads.
THEOREM EntriesSound == ASSUME EntryAssumption PROVE ComposedSpec => []EntriesAreSound
<1>1. EntryInv => EntriesAreSound
  <2> SUFFICES ASSUME EntryInv PROVE EntriesAreSound
    OBVIOUS
  <2>1. EntryShapes /\ OrdersFit(entryOrders, riskRows)
    BY DEF EntryInv
  <2>2. ComposedTypeOK
    BY <2>1 DEF EntryShapes, SetupRow, Composition, Answers, ComposedTypeOK
  <2>3. FilledIsApproved
    BY <2>1 DEF OrdersFit, StandsOn, FilledIsApproved
  <2>4. OneLiveEntry
    <3> SUFFICES ASSUME NEW o \in entryOrders, NEW other \in entryOrders, o.profile = other.profile,
                        o.setup = other.setup, o.status = "filled", other.status = "filled"
                 PROVE  o = other
      BY DEF OneLiveEntry
    <3>1. o.profile \in Profiles /\ o.setup \in Setups
      BY <2>1 DEF EntryShapes, Entry
    <3>2. o.attempt = other.attempt
      BY <2>1, <3>1 DEF OrdersFit, AttemptsFit
    <3> QED
      BY <2>1, <3>2 DEF OrdersFit
  <2>5. NothingMintedIsLeft
    <3>1. "idle" \notin Holding
      BY DEF Holding, SinceMint, SinceReread, SinceFill
    <3> QED
      BY <3>1 DEF EntryInv, MapFits, NothingMintedIsLeft, Running
  <2>6. AcceptedNamesAnOrder
    <3> SUFFICES ASSUME NEW c \in Composers, comp[c].pc = "idle"
                 PROVE  /\ comp[c].answer = "filled" =>
                             /\ \E o \in Presented(c) : o.by = c /\ o.risk = comp[c].risk
                             /\ [by |-> c, kind |-> "execution_requested", risk |-> comp[c].risk] \in trail
                        /\ comp[c].answer = "replayed" =>
                             EntriesOf(comp[c].snap.profile, comp[c].snap.setup) # {}
      BY DEF AcceptedNamesAnOrder
    <3>1. CompFits(c, comp[c], riskRows, entryOrders, trail)
      BY DEF EntryInv
    <3> QED
      BY <3>1 DEF CompFits, Came, Presented, OrderAt, EntriesOf
  <2> QED
    BY <2>2, <2>3, <2>4, <2>5, <2>6 DEF EntriesAreSound
<1> QED
  BY <1>1, EntryInvariance, PTL
=============================================================================
