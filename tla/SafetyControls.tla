--------------------------- MODULE SafetyControls ---------------------------
(***************************************************************************)
(* The off-switches of execution (packages/core/src/execution/             *)
(* kill-switch.ts, automation.ts, safety.ts, profiles.ts) and the reads an *)
(* entry makes of them (composition-fence.ts, paper-gates.ts).             *)
(*                                                                         *)
(* A switch is written in a transaction: an advisory lock, the row FOR     *)
(* UPDATE, the row, an event, COMMIT.  The emergency stop takes another    *)
(* advisory lock than the switches do, and writes the automation flag and  *)
(* the profiles too.  An entry reads the profile, the automation flag and  *)
(* the four scopes one query at a time.                                    *)
(***************************************************************************)
EXTENDS Naturals, FiniteSets

CONSTANTS
    Txs,          \* concurrent writers of switches
    Attempts,     \* concurrent entries
    UserScopes,   \* scopes the account writes
    GlobalForced, \* EXECUTION_GLOBAL_KILL_SWITCH
    Entitled,     \* canAccessAutomation of the plan
    Kinds         \* kinds of entry: "simulate", "composed"

Free == "free"    \* nobody holds the row

ASSUME SafetyAssumption ==
    /\ UserScopes \subseteq {"user", "strategy", "execution_profile"} /\ "user" \in UserScopes
    /\ GlobalForced \in BOOLEAN /\ Entitled \in BOOLEAN /\ Kinds \subseteq {"simulate", "composed"}
    /\ Free \notin Txs

VARIABLES
    switches,   \* kill_switches by scope: "absent", "active", "inactive", and who holds the row
    events,     \* the last kill_switch_events row of a scope that changed it
    usersRow,   \* automation_enabled and who holds the row
    profile,    \* the execution profile: "absent", "enabled", "disabled"
    tx,         \* what each writer does
    attempt,    \* what each entry does
    rearm       \* a setAutomationEnabled(true) between its reads and its UPDATE

safetyVars == <<switches, events, usersRow, profile, tx, attempt, rearm>>

\* The order of the reads in anyActive.
ReadOrder == <<"global", "user", "strategy", "execution_profile">>
Scopes == {"global"} \cup UserScopes
NoTx == [at |-> "idle", kind |-> "none", scope |-> "user", active |-> FALSE, changed |-> FALSE, seen |-> FALSE, found |-> FALSE]
NoAttempt == [at |-> "idle", kind |-> "none", held |-> {}]

SafetyTypeOK ==
    /\ switches \in [Scopes -> [row : {"absent", "active", "inactive"}, holder : Txs \cup {Free}]]
    /\ events \in [Scopes -> {"none", "activated", "cleared"}]
    /\ usersRow \in [automation : BOOLEAN, holder : Txs \cup {Free}]
    /\ profile \in {"absent", "enabled", "disabled"} /\ rearm \in BOOLEAN
    /\ \A t \in Txs : tx[t].at \in {"idle", "read", "write", "users", "profiles", "commit"} /\ tx[t].scope \in Scopes
    /\ \A a \in Attempts : attempt[a].held \subseteq Scopes

SafetyInit ==
    /\ switches = [s \in Scopes |-> [row |-> "absent", holder |-> Free]]
    /\ events = [s \in Scopes |-> "none"]
    /\ usersRow = [automation |-> FALSE, holder |-> Free]
    /\ profile = "absent"
    /\ tx = [t \in Txs |-> NoTx] /\ attempt = [a \in Attempts |-> NoAttempt] /\ rearm = FALSE

isActive(s) == (s = "global" /\ GlobalForced) \/ (s \in Scopes /\ switches[s].row = "active")
ActiveScopes == {s \in Scopes : isActive(s)}

----------------------------------------------------------------------------
(* Writers.                                                                *)

\* pg_advisory_xact_lock: apply locks the scope, the emergency stop the account.
AdvisoryKey(kind, s) == IF kind = "emergencyStop" THEN <<"safety:emergency-stop", "user">> ELSE <<"kill-switch", s>>
Holds(t, key) == tx[t].at # "idle" /\ AdvisoryKey(tx[t].kind, tx[t].scope) = key

Begin(t, kind, s, active) ==
    /\ tx[t].at = "idle" /\ \A u \in Txs : ~Holds(u, AdvisoryKey(kind, s))
    /\ tx' = [tx EXCEPT ![t] = [NoTx EXCEPT !.at = "read", !.kind = kind, !.scope = s, !.active = active]]
    /\ UNCHANGED <<switches, events, usersRow, profile, attempt, rearm>>

\* The operator sets the global switch; accounts cannot (assertMutableScope).
set(t, active) == Begin(t, "set", "global", active)
assertMutableScope(s) == s \in {"user", "strategy", "execution_profile"}
activateSwitch(t, s) == assertMutableScope(s) /\ Begin(t, "activate", s, TRUE)
clearSwitch(t, s) == assertMutableScope(s) /\ ~GlobalForced /\ Begin(t, "clear", s, FALSE)
tripCircuitBreaker(t) == Begin(t, "trip", "user", TRUE)
emergencyStop(t) == Begin(t, "emergencyStop", "user", TRUE)

\* SELECT ... FOR UPDATE: a committed row is locked, an uncommitted one unseen.
readUnlocked(t) ==
    /\ tx[t].at = "read"
    /\ tx' = [tx EXCEPT ![t].at = "write", ![t].seen = isActive(tx[t].scope),
                        ![t].changed = isActive(tx[t].scope) # tx[t].active]
    /\ UNCHANGED <<switches, events, usersRow, profile, attempt, rearm>>
readForUpdate(t) ==
    LET s == tx[t].scope
        was == switches[s].row = "active" IN
    /\ tx[t].at = "read"
    /\ switches[s].row = "absent" \/ switches[s].holder = Free
    /\ switches' = IF switches[s].row = "absent" THEN switches ELSE [switches EXCEPT ![s].holder = t]
    /\ tx' = [tx EXCEPT ![t].at = "write", ![t].seen = was, ![t].changed = was # tx[t].active]
    /\ UNCHANGED <<events, usersRow, profile, attempt, rearm>>

\* INSERT ... ON CONFLICT DO NOTHING waits for an uncommitted row; the UPDATE
\* follows only if the read row differed.
writeUnconditionally(t) ==
    /\ tx[t].at = "write" /\ switches[tx[t].scope].holder \in {Free, t}
    /\ switches' = [switches EXCEPT ![tx[t].scope].holder = t]
    /\ tx' = [tx EXCEPT ![t].at = IF tx[t].kind = "emergencyStop" THEN "users" ELSE "commit", ![t].seen = tx[t].active]
    /\ UNCHANGED <<events, usersRow, profile, attempt, rearm>>
writeRow(t) ==
    LET s == tx[t].scope IN
    /\ tx[t].at = "write" /\ switches[s].holder \in {Free, t}
    /\ switches' = [switches EXCEPT ![s].holder = t]
    /\ tx' = [tx EXCEPT ![t].at = IF tx[t].kind = "emergencyStop" THEN "users" ELSE "commit",
                        ![t].seen = IF switches[s].row = "absent" \/ tx[t].changed
                                      THEN tx[t].active ELSE switches[s].row = "active"]
    /\ UNCHANGED <<events, usersRow, profile, attempt, rearm>>

\* The emergency stop locks the account's row and turns automation off at its
\* commit, and disables the profiles it sees.
lockUser(t) ==
    /\ tx[t].at = "users" /\ usersRow.holder = Free
    /\ usersRow' = [usersRow EXCEPT !.holder = t]
    /\ tx' = [tx EXCEPT ![t].at = "profiles"]
    /\ UNCHANGED <<switches, events, profile, attempt, rearm>>
disableProfiles(t) ==
    /\ tx[t].at = "profiles"
    /\ tx' = [tx EXCEPT ![t].at = "commit", ![t].found = (profile = "enabled")]
    /\ UNCHANGED <<switches, events, usersRow, profile, attempt, rearm>>

\* What is active now stays in `held` only while it stays active.
StillHeld(now) == [a \in Attempts |-> [attempt[a] EXCEPT !.held = @ \cap now]]
applySwitch(t) ==
    LET s == tx[t].scope
        on == tx[t].seen IN
    /\ tx[t].at = "commit"
    /\ switches' = [switches EXCEPT ![s] = [row |-> IF on THEN "active" ELSE "inactive", holder |-> Free]]
    /\ events' = [events EXCEPT ![s] = IF ~tx[t].changed THEN @ ELSE IF tx[t].active THEN "activated" ELSE "cleared"]
    /\ usersRow' = IF usersRow.holder = t THEN [automation |-> FALSE, holder |-> Free] ELSE usersRow
    /\ profile' = IF tx[t].found THEN "disabled" ELSE profile
    /\ attempt' = StillHeld({r \in Scopes : IF r = s THEN on \/ (s = "global" /\ GlobalForced) ELSE isActive(r)})
    /\ tx' = [tx EXCEPT ![t] = NoTx]
    /\ UNCHANGED rearm

\* ROLLBACK, or the process dies.
rollback(t) ==
    /\ tx[t].at # "idle"
    /\ switches' = [s \in Scopes |-> IF switches[s].holder = t THEN [switches[s] EXCEPT !.holder = Free] ELSE switches[s]]
    /\ usersRow' = IF usersRow.holder = t THEN [usersRow EXCEPT !.holder = Free] ELSE usersRow
    /\ tx' = [tx EXCEPT ![t] = NoTx]
    /\ UNCHANGED <<events, profile, attempt, rearm>>

----------------------------------------------------------------------------
(* Automation and profiles.                                                *)

\* setAutomationEnabled: the switches are read first, the flag is set later.
setAutomationEnabled ==
    /\ ~rearm /\ Entitled /\ ~isActive("global") /\ ~isActive("user")
    /\ rearm' = TRUE /\ UNCHANGED <<switches, events, usersRow, profile, tx, attempt>>
updateAutomation(enabled) ==
    /\ usersRow.holder = Free /\ (enabled => rearm)
    /\ usersRow' = [usersRow EXCEPT !.automation = enabled]
    /\ rearm' = (rearm /\ ~enabled)
    /\ UNCHANGED <<switches, events, profile, tx, attempt>>

\* A paper profile is created enabled; only broker profiles can be enabled later.
createProfile ==
    /\ profile = "absent" /\ profile' = "enabled"
    /\ UNCHANGED <<switches, events, usersRow, tx, attempt, rearm>>

----------------------------------------------------------------------------
(* Entries.                                                                *)

Step(a, place) == attempt' = [attempt EXCEPT ![a].at = place]
Refuse(a) == attempt' = [attempt EXCEPT ![a] = NoAttempt]

beginAttempt(a, kind) ==
    /\ attempt[a].at = "idle"
    /\ attempt' = [attempt EXCEPT ![a] = [NoAttempt EXCEPT !.at = "profile", !.kind = kind]]
    /\ UNCHANGED <<switches, events, usersRow, profile, tx, rearm>>

fenceProfile(a) ==
    /\ attempt[a].at = "profile"
    /\ IF profile = "enabled" THEN Step(a, "automation") ELSE Refuse(a)
    /\ UNCHANGED <<switches, events, usersRow, profile, tx, rearm>>

\* Only composed entries need automation; the reads of anyActive begin here.
fenceAutomation(a) ==
    /\ attempt[a].at = "automation"
    /\ IF attempt[a].kind = "simulate" \/ (Entitled /\ usersRow.automation)
         THEN attempt' = [attempt EXCEPT ![a].at = "global", ![a].held = ActiveScopes] ELSE Refuse(a)
    /\ UNCHANGED <<switches, events, usersRow, profile, tx, rearm>>

\* One query per scope.
NextReadSkipping(s) == CASE s = "global" -> "strategy" [] s = "strategy" -> "execution_profile" [] OTHER -> "submit"
NextRead(s) == CASE s = "global" -> "user" [] s = "user" -> "strategy"
                 [] s = "strategy" -> "execution_profile" [] OTHER -> "submit"
anyActive(a) ==
    /\ attempt[a].at \in {"global", "user", "strategy", "execution_profile"}
    /\ IF isActive(attempt[a].at) THEN Refuse(a) ELSE Step(a, NextRead(attempt[a].at))
    /\ UNCHANGED <<switches, events, usersRow, profile, tx, rearm>>

submitEntry(a) ==
    /\ attempt[a].at = "submit" /\ Refuse(a)
    /\ UNCHANGED <<switches, events, usersRow, profile, tx, rearm>>

----------------------------------------------------------------------------

SafetyNext ==
    \/ \E t \in Txs :
         \/ \E active \in BOOLEAN : set(t, active)
         \/ \E s \in UserScopes : activateSwitch(t, s) \/ clearSwitch(t, s)
         \/ tripCircuitBreaker(t) \/ emergencyStop(t)
         \/ readForUpdate(t) \/ writeRow(t) \/ lockUser(t) \/ disableProfiles(t) \/ applySwitch(t) \/ rollback(t)
    \/ setAutomationEnabled \/ createProfile
    \/ \E enabled \in BOOLEAN : updateAutomation(enabled)
    \/ \E a \in Attempts :
         \/ \E kind \in Kinds : beginAttempt(a, kind)
         \/ fenceProfile(a) \/ fenceAutomation(a) \/ anyActive(a) \/ submitEntry(a)

SafetySpec == SafetyInit /\ [][SafetyNext]_safetyVars

----------------------------------------------------------------------------
(* Properties.                                                             *)

\* A switch that was active when the reads of an entry began and has not been
\* cleared since stops that entry: nothing is submitted under a standing stop.
StopsAreSeen == \A a \in Attempts : attempt[a].at = "submit" => attempt[a].held = {}

\* The last event that changed a scope says what its switch is, whatever
\* transactions overlapped (kill_switch_events is the record of who stopped what).
LedgerTellsState ==
    \A s \in Scopes : switches[s].row = "active" <=> events[s] = "activated"

\* A writer that commits an activation leaves the switch active, also when it
\* found it active and a clear came between; the emergency stop leaves automation off.
StopLands ==
    [][\A t \in Txs : applySwitch(t) /\ tx[t].active =>
          /\ switches'[tx[t].scope].row = "active"
          /\ tx[t].kind = "emergencyStop" => ~usersRow'.automation]_safetyVars

\* The stops, together: what an entry sees, what the event log says, what a
\* writer leaves behind.
StopsHold == [](SafetyTypeOK /\ StopsAreSeen /\ LedgerTellsState) /\ StopLands
=============================================================================
