-------------------------- MODULE AccountSessions --------------------------
(***************************************************************************)
(* Accounts and login sessions (packages/core/src/auth/users.ts and        *)
(* sessions.ts, apps/api/src/session-auth.ts, routes/auth.ts and           *)
(* routes/users.ts).                                                       *)
(*                                                                         *)
(* A call is a sequence of statements on the shared pool, with a slow      *)
(* password hash between them: other calls run in between.  A password is  *)
(* a number, its hash the number itself; a token is the index of its       *)
(* session row.  Only the unique index on users.email keeps two            *)
(* registrations of one address apart: the look-up before it is advisory.  *)
(***************************************************************************)
EXTENDS Naturals, FiniteSets, Sequences

CONSTANTS
    Emails,        \* addresses, after toLowerCase
    Passwords,     \* passwords that callers present
    WebClients,    \* concurrent HTTP calls
    MaxLogins      \* bound: session rows

ASSUME SessionsAssumption ==
    /\ Passwords \subseteq Nat \ {0} /\ MaxLogins \in Nat /\ IsFiniteSet(Emails)

NoPassword == 0
NoToken == 0
Away == [at |-> "idle", op |-> "none", email |-> CHOOSE e \in Emails : TRUE,
         password |-> NoPassword, fresh |-> NoPassword, token |-> NoToken, target |-> NoToken]

VARIABLES
    accounts,   \* password_hash by e-mail, NoPassword without a row
    logins,     \* the sessions table
    clients,    \* where each call is
    everWas     \* per e-mail, every password the account has had (history)

accountVars == <<accounts, logins, clients, everWas>>

AccountsInit ==
    /\ accounts = [e \in Emails |-> NoPassword]
    /\ logins = <<>>
    /\ clients = [c \in WebClients |-> Away]
    /\ everWas = [e \in Emails |-> {}]

Tokens == 1..Len(logins)
At(c, pc) == clients[c].at = pc
GoTo(c, call) == clients' = [clients EXCEPT ![c] = call]
Leave(c) == GoTo(c, Away)

\* SessionService.create: a fresh row, live until it is revoked, expires or is
\* removed; presented: the password its caller had shown
NewLogin(e, presented) == [email |-> e, live |-> TRUE, presented |-> presented]

\* findByToken and findById: the row is there, not revoked, not expired
findByToken(t) == t \in Tokens /\ logins[t].live

-----------------------------------------------------------------------------
\* POST /api/auth/register: findByEmail before the hash
register(c) ==
    /\ At(c, "idle")
    /\ \E e \in Emails, p \in Passwords :
          /\ accounts[e] = NoPassword
          /\ GoTo(c, [Away EXCEPT !.at = "insert", !.op = "register",
                                  !.email = e, !.password = p])
    /\ UNCHANGED <<accounts, logins, everWas>>

\* Mutant: the loser of the race is sent on to a session of its own.
insertOrFind(c) ==
    /\ At(c, "insert")
    /\ LET e == clients[c].email IN
       /\ accounts' = [accounts EXCEPT ![e] = IF @ = NoPassword THEN clients[c].password ELSE @]
       /\ everWas' = [everWas EXCEPT ![e] = @ \cup {accounts'[e]}]
    /\ GoTo(c, [clients[c] EXCEPT !.at = "session"])
    /\ UNCHANGED logins

\* UserService.create: the unique index decides; a conflict answers 409
createUser(c) ==
    /\ At(c, "insert")
    /\ LET e == clients[c].email IN
       IF accounts[e] = NoPassword
         THEN /\ accounts' = [accounts EXCEPT ![e] = clients[c].password]
              /\ everWas' = [everWas EXCEPT ![e] = @ \cup {clients[c].password}]
              /\ GoTo(c, [clients[c] EXCEPT !.at = "session"])
         ELSE Leave(c) /\ UNCHANGED <<accounts, everWas>>
    /\ UNCHANGED logins

\* POST /api/auth/login: the row is read once, the hash checked against it
login(c) ==
    /\ At(c, "idle")
    /\ \E e \in Emails, p \in Passwords :
          /\ accounts[e] = p
          /\ GoTo(c, [Away EXCEPT !.at = "session", !.op = "login",
                                  !.email = e, !.password = p])
    /\ UNCHANGED <<accounts, logins, everWas>>

\* The last statement of register and login, and of a password change.
createSession(c) ==
    /\ At(c, "session")
    /\ Len(logins) < MaxLogins
    /\ logins' = Append(logins,
                      NewLogin(clients[c].email, clients[c].password))
    /\ Leave(c)
    /\ UNCHANGED <<accounts, everWas>>

-----------------------------------------------------------------------------
\* createSessionAuth: an idle caller with a live session, and what it asks for
requireAuth(c, t) == At(c, "idle") /\ findByToken(t)

\* POST /api/auth/logout
logout(c) ==
    /\ \E t \in Tokens :
          /\ requireAuth(c, t)
          /\ GoTo(c, [Away EXCEPT !.at = "revoke", !.op = "logout", !.token = t,
                                  !.email = logins[t].email, !.target = t])
    /\ UNCHANGED <<accounts, logins, everWas>>

\* listForUser: the caller's own live sessions
listForUser(t) == {s \in Tokens : findByToken(s) /\ logins[s].email = logins[t].email}

\* DELETE /api/users/me/sessions/:sessionId
deleteSession(c) ==
    /\ \E t \in Tokens : \E s \in listForUser(t) :
          /\ requireAuth(c, t)
          /\ GoTo(c, [Away EXCEPT !.at = "revoke", !.op = "revoke", !.token = t,
                                  !.email = logins[t].email, !.target = s])
    /\ UNCHANGED <<accounts, logins, everWas>>

\* POST /api/users/me/password
changePassword(c) ==
    /\ \E t \in Tokens, p, q \in Passwords :
          /\ requireAuth(c, t)
          /\ GoTo(c, [Away EXCEPT !.at = "verify", !.op = "change", !.token = t,
                                  !.email = logins[t].email, !.password = p, !.fresh = q])
    /\ UNCHANGED <<accounts, logins, everWas>>

\* SessionService.revoke, and the UPDATE by id of the route
revoke(c) ==
    /\ At(c, "revoke")
    /\ logins' = [logins EXCEPT ![clients[c].target].live = FALSE]
    /\ Leave(c)
    /\ UNCHANGED <<accounts, everWas>>

\* The current password is checked against the row, ...
verifyCurrent(c) ==
    /\ At(c, "verify")
    /\ IF accounts[clients[c].email] = clients[c].password
         THEN GoTo(c, [clients[c] EXCEPT !.at = "update"])
         ELSE Leave(c)
    /\ UNCHANGED <<accounts, logins, everWas>>

\* ... the hash replaced, ...
updatePassword(c) ==
    /\ At(c, "update")
    /\ accounts' = [accounts EXCEPT ![clients[c].email] = clients[c].fresh]
    /\ everWas' = [everWas EXCEPT ![clients[c].email] = @ \cup {clients[c].fresh}]
    /\ GoTo(c, [clients[c] EXCEPT !.at = "revokeAll", !.password = clients[c].fresh])
    /\ UNCHANGED logins

\* Mutant: the sessions of every other account go with it.
revokeEveryone(c) ==
    /\ At(c, "revokeAll")
    /\ logins' = [t \in Tokens |-> [logins[t] EXCEPT !.live = FALSE]]
    /\ GoTo(c, [clients[c] EXCEPT !.at = "session"])
    /\ UNCHANGED <<accounts, everWas>>

\* ... every session of the account revoked, and a new one created.
revokeAllForUser(c) ==
    /\ At(c, "revokeAll")
    /\ logins' = [t \in Tokens |->
           IF logins[t].email = clients[c].email THEN [logins[t] EXCEPT !.live = FALSE]
           ELSE logins[t]]
    /\ GoTo(c, [clients[c] EXCEPT !.at = "session"])
    /\ UNCHANGED <<accounts, everWas>>

\* Time passes the session's expiry, or startup removes it (deleteExpired).
expireLogin ==
    /\ \E t \in Tokens : logins[t].live /\ logins' = [logins EXCEPT ![t].live = FALSE]
    /\ UNCHANGED <<accounts, clients, everWas>>

\* A call dies between two statements.
dropCall(c) ==
    /\ clients[c].at # "idle"
    /\ Leave(c)
    /\ UNCHANGED <<accounts, logins, everWas>>

AccountsNext ==
    \/ \E c \in WebClients :
          \/ register(c) \/ createUser(c) \/ login(c) \/ createSession(c)
          \/ logout(c) \/ deleteSession(c) \/ changePassword(c) \/ revoke(c)
          \/ verifyCurrent(c) \/ updatePassword(c)
          \/ revokeAllForUser(c) \/ dropCall(c)
    \/ expireLogin

AccountsSpec == AccountsInit /\ [][AccountsNext]_accountVars

-----------------------------------------------------------------------------
AccountsTypeOK ==
    /\ accounts \in [Emails -> Passwords \cup {NoPassword}]
    /\ \A t \in Tokens : logins[t].email \in Emails /\ logins[t].live \in BOOLEAN

\* Every session was given to a caller that had shown a password the account
\* really had: the loser of two racing registrations, which saw no account
\* when it looked, gets neither the account nor a session of it.
SessionsAreEarned ==
    \A t \in Tokens : logins[t].presented \in everWas[logins[t].email]

\* A session that has ended never works again, and nothing a caller does to
\* its own account ends a session of another.
EndedSessionsStayEnded ==
    [][\A t \in Tokens :
          /\ t \in DOMAIN logins'
          /\ logins'[t].live => logins[t].live
          /\ (logins[t].live /\ ~logins'[t].live) =>
                \/ clients' = clients
                \/ \E c \in WebClients :
                      /\ clients[c].at \in {"revoke", "revokeAll"}
                      /\ clients'[c] # clients[c]
                      /\ clients[c].email = logins[t].email]_accountVars

\* Sessions as a whole: each was earned with a password of its account, one that
\* ended stays ended, and nobody ends another's.
SessionsAreSafe == [](AccountsTypeOK /\ SessionsAreEarned) /\ EndedSessionsStayEnded
=============================================================================
