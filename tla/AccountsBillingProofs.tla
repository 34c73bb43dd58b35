------------------------ MODULE AccountsBillingProofs ------------------------
(***************************************************************************)
(* Login sessions, for any addresses, passwords and concurrent calls: each *)
(* session was earned with a password its account really had, one that has *)
(* ended stays ended, and nobody ends the session of another.  Then five    *)
(* parts of billing: the payment adapter tells its callers what the        *)
(* provider said and holds; synchronisation never goes back in what it has *)
(* seen nor rebinds an identity; the watch of the published exchange rate  *)
(* records a figure once and leaves no lock behind; and an account is sold *)
(* at most one subscription, of an epoch then on sale, and has a paid tier *)
(* only when a payment of it was seen; and batches of plan epochs are      *)
(* whole and the quotes taken of them keep their amount.                   *)
(***************************************************************************)
EXTENDS AccountSessions, PaystackAdapter, BillingSync, FxObservations, BillingCheckout, BillingPricing,
        SequenceTheorems, FiniteSetTheorems, TLAPS

Word == Passwords \cup {NoPassword}
Login == [email : Emails, live : BOOLEAN, presented : Word]
Call == [at : {"idle", "insert", "session", "revoke", "verify", "update", "revokeAll"},
         op : {"none", "register", "login", "logout", "revoke", "change"},
         email : Emails \cup {Away.email}, password : Word, fresh : Word, token : Nat, target : Nat]

Shapes ==
    /\ accounts \in [Emails -> Word]
    /\ logins \in Seq(Login)
    /\ clients \in [WebClients -> Call]
    /\ everWas \in [Emails -> SUBSET Word]

\* What a call in progress carries: a password the account had once the call
\* may create a session, and a session of the same account when it revokes one.
Fits(call, table, had) ==
    /\ call.at # "idle" => call.email \in Emails
    /\ call.at \in {"session", "revokeAll"} => call.password \in had[call.email]
    /\ call.at = "revoke" => call.target \in 1..Len(table) /\ table[call.target].email = call.email

AInv ==
    /\ Shapes
    /\ SessionsAreEarned
    /\ \A e \in Emails : accounts[e] # NoPassword => accounts[e] \in everWas[e]
    /\ \A c \in WebClients : Fits(clients[c], logins, everWas)

-----------------------------------------------------------------------------
\* The record of no call is a call.
LEMMA AwayType == Away \in Call /\ Away.at = "idle"
  BY DEF Away, Call, Word, NoPassword, NoToken

\* There is no account, no session and no call initially.
LEMMA InitInv == AccountsInit => AInv
<1> SUFFICES ASSUME AccountsInit PROVE AInv
  OBVIOUS
<1>1. Shapes
  BY AwayType DEF AccountsInit, Shapes, Word
<1>2. SessionsAreEarned
  BY DEF AccountsInit, SessionsAreEarned, Tokens
<1>3. \A e \in Emails : accounts[e] = NoPassword
  BY DEF AccountsInit
<1>4. \A c \in WebClients : Fits(clients[c], logins, everWas)
  BY AwayType DEF AccountsInit, Fits
<1> QED
  BY <1>1, <1>2, <1>3, <1>4 DEF AInv

\* What no step takes back: a session keeps its account and the password shown
\* for it, and a password the account had stays one it had.
Grows ==
    /\ Len(logins) <= Len(logins')
    /\ \A t \in Tokens : /\ logins'[t].email = logins[t].email
                         /\ logins'[t].presented = logins[t].presented
    /\ \A e \in Emails : everWas[e] \subseteq everWas'[e]

\* A call that fits goes on fitting while others move.
LEMMA StillFits ==
    ASSUME Shapes, Shapes', Grows, NEW call \in Call, Fits(call, logins, everWas)
    PROVE  Fits(call, logins', everWas')
<1>1. Len(logins) \in Nat /\ Len(logins') \in Nat
  BY LenProperties DEF Shapes
<1> QED
  BY <1>1 DEF Fits, Grows, Tokens

\* One call moves to the record r.
Move(c, r) ==
    /\ r \in Call
    /\ accounts' \in [Emails -> Word]
    /\ logins' \in Seq(Login)
    /\ everWas' \in [Emails -> SUBSET Word]
    /\ clients' = [clients EXCEPT ![c] = r]
    /\ Grows
    /\ \A t \in 1..Len(logins') : t \notin Tokens => logins'[t].presented \in everWas'[logins'[t].email]
    /\ \A e \in Emails : accounts'[e] # NoPassword => accounts'[e] \in everWas'[e]
    /\ Fits(r, logins', everWas')

\* Such a move keeps the invariant.
LEMMA CallMove ==
    ASSUME AInv, NEW c \in WebClients, NEW r, Move(c, r)
    PROVE  AInv'
<1> USE DEF Move
<1>1. /\ clients \in [WebClients -> Call] /\ clients' \in [WebClients -> Call] /\ clients'[c] = r
      /\ \A d \in WebClients \ {c} : clients'[d] = clients[d]
  BY DEF AInv, Shapes
<1>2. Shapes'
  BY <1>1 DEF Shapes
<1>3. ASSUME NEW t \in 1..Len(logins')
      PROVE  logins'[t].presented \in everWas'[logins'[t].email]
  <2>1. CASE t \in Tokens
    <3>1. logins[t] \in Login /\ logins[t].presented \in everWas[logins[t].email]
      BY <2>1 DEF AInv, SessionsAreEarned, Tokens, Shapes
    <3> QED
      BY <2>1, <3>1 DEF Grows, Login
  <2> QED
    BY <2>1
<1>4. SessionsAreEarned'
  BY <1>3 DEF SessionsAreEarned, Tokens
<1>5. ASSUME NEW d \in WebClients PROVE Fits(clients'[d], logins', everWas')
  <2>1. CASE d = c
    BY <1>1, <2>1
  <2>2. CASE d # c
    <3>1. clients[d] \in Call /\ Fits(clients[d], logins, everWas) /\ clients'[d] = clients[d]
      BY <1>1, <2>2 DEF AInv
    <3>2. Shapes
      BY DEF AInv
    <3> QED
      BY <1>2, <3>1, <3>2, StillFits
  <2> QED
    BY <2>1, <2>2
<1>6. (\A d \in WebClients : Fits(clients[d], logins, everWas))'
  BY <1>5 DEF Fits
<1> QED
  BY <1>2, <1>4, <1>6 DEF AInv

\* A move that leaves the tables alone.
LEMMA CallOnly ==
    ASSUME AInv, NEW c \in WebClients, NEW r \in Call, Fits(r, logins, everWas),
           clients' = [clients EXCEPT ![c] = r], UNCHANGED <<accounts, logins, everWas>>
    PROVE  AInv'
<1>1. Grows
  BY LenProperties DEF AInv, Shapes, Grows
<1>2. Fits(r, logins', everWas')
  OBVIOUS
<1>3. Move(c, r)
  BY <1>1, <1>2 DEF Move, AInv, Shapes, Tokens
<1> QED
  BY <1>3, CallMove

-----------------------------------------------------------------------------
(* The calls, statement by statement                                       *)

\* A call begins: its address is one of an account or of nobody yet.
LEMMA BeginStep ==
    ASSUME AInv, NEW c \in WebClients,
           register(c) \/ login(c) \/ logout(c) \/ deleteSession(c) \/ changePassword(c)
    PROVE  AInv'
<1>0. /\ \A t \in Tokens : logins[t].email \in Emails /\ t \in Nat
      /\ Tokens = 1..Len(logins)
  <2>1. \A t \in Tokens : logins[t] \in Login /\ t \in Nat
    BY LenProperties, ElementOfSeq DEF AInv, Shapes, Tokens
  <2> QED
    BY <2>1 DEF Login, Tokens
<1>1. CASE register(c)
  <2>1. PICK e \in Emails, p \in Passwords :
          clients' = [clients EXCEPT ![c] = [Away EXCEPT !.at = "insert", !.op = "register", !.email = e, !.password = p]]
    BY <1>1 DEF register, GoTo
  <2> DEFINE r == [Away EXCEPT !.at = "insert", !.op = "register", !.email = e, !.password = p]
  <2>2. r \in Call /\ Fits(r, logins, everWas)
    BY AwayType DEF Call, Word, Fits
  <2> QED
    BY <1>1, <2>1, <2>2, CallOnly DEF register
<1>2. CASE login(c)
  <2>1. PICK e \in Emails, p \in Passwords :
          /\ accounts[e] = p
          /\ clients' = [clients EXCEPT ![c] = [Away EXCEPT !.at = "session", !.op = "login", !.email = e, !.password = p]]
    BY <1>2 DEF login, GoTo
  <2> DEFINE r == [Away EXCEPT !.at = "session", !.op = "login", !.email = e, !.password = p]
  <2>2. p \in everWas[e]
    BY <2>1, SessionsAssumption DEF AInv, NoPassword
  <2>3. r \in Call /\ Fits(r, logins, everWas)
    BY AwayType, <2>2 DEF Call, Word, Fits
  <2> QED
    BY <1>2, <2>1, <2>3, CallOnly DEF login
<1>3. CASE logout(c) \/ deleteSession(c)
  <2>1. PICK t \in Tokens, s \in Tokens, o \in {"logout", "revoke"} :
          /\ logins[s].email = logins[t].email
          /\ clients' = [clients EXCEPT ![c] = [Away EXCEPT !.at = "revoke", !.op = o, !.token = t,
                                                            !.email = logins[t].email, !.target = s]]
    BY <1>3 DEF logout, deleteSession, listForUser, GoTo
  <2> DEFINE r == [Away EXCEPT !.at = "revoke", !.op = o, !.token = t, !.email = logins[t].email, !.target = s]
  <2>2. r \in Call /\ Fits(r, logins, everWas)
    BY AwayType, <1>0, <2>1 DEF Call, Word, Fits
  <2> QED
    BY <1>3, <2>1, <2>2, CallOnly DEF logout, deleteSession
<1>4. CASE changePassword(c)
  <2>1. PICK t \in Tokens, p \in Passwords, q \in Passwords :
          clients' = [clients EXCEPT ![c] = [Away EXCEPT !.at = "verify", !.op = "change", !.token = t,
                                  !.email = logins[t].email, !.password = p, !.fresh = q]]
    BY <1>4 DEF changePassword, GoTo
  <2> DEFINE r == [Away EXCEPT !.at = "verify", !.op = "change", !.token = t,
                               !.email = logins[t].email, !.password = p, !.fresh = q]
  <2>2. r \in Call /\ Fits(r, logins, everWas)
    BY AwayType, <1>0 DEF Call, Word, Fits
  <2> QED
    BY <1>4, <2>1, <2>2, CallOnly DEF changePassword
<1> QED
  BY <1>1, <1>2, <1>3, <1>4

\* The unique index decides who gets the account; the loser is answered 409.
LEMMA CreateUserStep ==
    ASSUME AInv, NEW c \in WebClients, createUser(c)
    PROVE  AInv'
<1> DEFINE k == clients[c]
           e == k.email
           r == [k EXCEPT !.at = "session"]
<1>1. /\ k \in Call /\ k.at = "insert" /\ e \in Emails /\ UNCHANGED logins
      /\ accounts \in [Emails -> Word] /\ everWas \in [Emails -> SUBSET Word] /\ logins \in Seq(Login)
  BY DEF createUser, At, AInv, Shapes, Fits
<1>2. CASE accounts[e] # NoPassword
  <2>1. clients' = [clients EXCEPT ![c] = Away] /\ UNCHANGED <<accounts, logins, everWas>>
    BY <1>1, <1>2 DEF createUser, Leave, GoTo
  <2>2. Away \in Call /\ Fits(Away, logins, everWas)
    BY AwayType DEF Fits
  <2> QED
    BY <2>1, <2>2, CallOnly
<1>3. CASE accounts[e] = NoPassword
  <2>1. /\ accounts' = [accounts EXCEPT ![e] = k.password]
        /\ everWas' = [everWas EXCEPT ![e] = @ \cup {k.password}]
        /\ clients' = [clients EXCEPT ![c] = r]
    BY <1>3 DEF createUser, GoTo
  <2>2. r \in Call /\ r.at = "session" /\ r.email = e /\ r.password = k.password /\ k.password \in Word
    BY <1>1 DEF Call
  <2> HIDE DEF r
  <2>3. /\ accounts' \in [Emails -> Word] /\ everWas' \in [Emails -> SUBSET Word]
        /\ everWas'[e] = everWas[e] \cup {k.password}
        /\ accounts'[e] = k.password
        /\ \A f \in Emails \ {e} : accounts'[f] = accounts[f] /\ everWas'[f] = everWas[f]
    BY <1>1, <2>1, <2>2
  <2>4. Grows
    BY <1>1, <2>3, LenProperties DEF Grows
  <2>5. \A f \in Emails : accounts'[f] # NoPassword => accounts'[f] \in everWas'[f]
    BY <2>3 DEF AInv
  <2>6. Fits(r, logins', everWas')
    BY <1>1, <2>2, <2>3 DEF Fits
  <2>7. Move(c, r)
    BY <1>1, <2>1, <2>2, <2>3, <2>4, <2>5, <2>6 DEF Move, Tokens
  <2> QED
    BY <2>7, CallMove
<1> QED
  BY <1>2, <1>3

\* A session is created with a password the account had.
LEMMA CreateSessionStep ==
    ASSUME AInv, NEW c \in WebClients, createSession(c)
    PROVE  AInv'
<1> DEFINE k == clients[c]
           l == NewLogin(k.email, k.password)
<1>1. /\ k \in Call /\ k.at = "session" /\ k.email \in Emails /\ k.password \in everWas[k.email]
      /\ accounts \in [Emails -> Word] /\ everWas \in [Emails -> SUBSET Word] /\ logins \in Seq(Login)
      /\ UNCHANGED <<accounts, everWas>> /\ logins' = Append(logins, l)
      /\ clients' = [clients EXCEPT ![c] = Away]
  BY DEF createSession, At, AInv, Shapes, Fits, Leave, GoTo
<1>2. l \in Login /\ l.email = k.email /\ l.presented = k.password
  BY <1>1 DEF NewLogin, Login, Call
<1> HIDE DEF l
<1>3. /\ logins' \in Seq(Login) /\ Len(logins') = Len(logins) + 1 /\ Len(logins) \in Nat
      /\ logins'[Len(logins) + 1] = l
      /\ \A t \in 1..Len(logins) : logins'[t] = logins[t]
  BY <1>1, <1>2
<1>4. Grows
  BY <1>1, <1>3 DEF Grows, Tokens
<1>5. ASSUME NEW t \in 1..Len(logins'), t \notin Tokens
      PROVE  logins'[t].presented \in everWas'[logins'[t].email]
  <2>1. t = Len(logins) + 1
    BY <1>3, <1>5 DEF Tokens
  <2> QED
    BY <1>1, <1>2, <1>3, <2>1
<1>6. Move(c, Away)
  BY <1>1, <1>3, <1>4, <1>5, AwayType DEF Move, Fits, AInv
<1> QED
  BY <1>6, CallMove

\* The current password is checked; the hash is replaced.
LEMMA ChangeStep ==
    ASSUME AInv, NEW c \in WebClients, verifyCurrent(c) \/ updatePassword(c)
    PROVE  AInv'
<1> DEFINE k == clients[c]
           e == k.email
<1>1. /\ k \in Call /\ k.at # "idle" /\ e \in Emails /\ UNCHANGED logins
      /\ accounts \in [Emails -> Word] /\ everWas \in [Emails -> SUBSET Word] /\ logins \in Seq(Login)
  BY DEF verifyCurrent, updatePassword, At, AInv, Shapes, Fits
<1>2. CASE verifyCurrent(c)
  <2>1. [k EXCEPT !.at = "update"] \in Call /\ Fits([k EXCEPT !.at = "update"], logins, everWas)
    BY <1>1 DEF Call, Fits
  <2>2. Away \in Call /\ Fits(Away, logins, everWas)
    BY AwayType DEF Fits
  <2>3. /\ UNCHANGED <<accounts, logins, everWas>>
        /\ \/ clients' = [clients EXCEPT ![c] = [k EXCEPT !.at = "update"]]
           \/ clients' = [clients EXCEPT ![c] = Away]
    BY <1>2 DEF verifyCurrent, Leave, GoTo
  <2> QED
    BY <2>1, <2>2, <2>3, CallOnly
<1>3. CASE updatePassword(c)
  <2> DEFINE r == [k EXCEPT !.at = "revokeAll", !.password = k.fresh]
  <2>1. /\ accounts' = [accounts EXCEPT ![e] = k.fresh]
        /\ everWas' = [everWas EXCEPT ![e] = @ \cup {k.fresh}]
        /\ clients' = [clients EXCEPT ![c] = r]
    BY <1>3 DEF updatePassword, GoTo
  <2>2. r \in Call /\ r.at = "revokeAll" /\ r.email = e /\ r.password = k.fresh /\ k.fresh \in Word
    BY <1>1 DEF Call
  <2> HIDE DEF r
  <2>3. /\ accounts' \in [Emails -> Word] /\ everWas' \in [Emails -> SUBSET Word]
        /\ everWas'[e] = everWas[e] \cup {k.fresh}
        /\ accounts'[e] = k.fresh
        /\ \A f \in Emails \ {e} : accounts'[f] = accounts[f] /\ everWas'[f] = everWas[f]
    BY <1>1, <2>1, <2>2
  <2>4. Grows
    BY <1>1, <2>3, LenProperties DEF Grows
  <2>5. \A f \in Emails : accounts'[f] # NoPassword => accounts'[f] \in everWas'[f]
    BY <2>3 DEF AInv
  <2>6. Fits(r, logins', everWas')
    BY <1>1, <2>2, <2>3 DEF Fits
  <2>7. Move(c, r)
    BY <1>1, <2>1, <2>2, <2>3, <2>4, <2>5, <2>6 DEF Move, Tokens
  <2> QED
    BY <2>7, CallMove
<1> QED
  BY <1>2, <1>3

\* A session of the call's own account ends, or all of them do.
LEMMA RevokeStep ==
    ASSUME AInv, NEW c \in WebClients, revoke(c) \/ revokeAllForUser(c)
    PROVE  AInv' /\ Grows /\ Len(logins') = Len(logins)
<1> DEFINE k == clients[c]
           s == [k EXCEPT !.at = "session"]
           e == k.email
<1>1. /\ k \in Call /\ k.at \in {"revoke", "revokeAll"} /\ e \in Emails /\ UNCHANGED <<accounts, everWas>>
      /\ accounts \in [Emails -> Word] /\ everWas \in [Emails -> SUBSET Word] /\ logins \in Seq(Login)
      /\ Fits(k, logins, everWas)
  BY DEF revoke, revokeAllForUser, At, AInv, Shapes, Fits
<1>2. /\ Len(logins) \in Nat /\ logins \in [1..Len(logins) -> Login] /\ DOMAIN logins = 1..Len(logins)
  BY <1>1, LenProperties
<1>3. /\ logins' \in [1..Len(logins) -> Login]
      /\ \A t \in Tokens : /\ logins'[t].email = logins[t].email
                           /\ logins'[t].presented = logins[t].presented
  <2>1. CASE revoke(c)
    <3>1. logins' = [logins EXCEPT ![k.target] = [logins[k.target] EXCEPT !.live = FALSE]]
      BY <1>2, <2>1 DEF revoke
    <3>2. k.target \in 1..Len(logins)
      BY <1>1, <2>1 DEF revoke, At, Fits
    <3> QED
      BY <1>2, <3>1, <3>2 DEF Login, Tokens
  <2>2. CASE revokeAllForUser(c)
    <3>1. logins' = [t \in Tokens |-> IF logins[t].email = e THEN [logins[t] EXCEPT !.live = FALSE] ELSE logins[t]]
      BY <2>2 DEF revokeAllForUser
    <3> QED
      BY <1>2, <3>1 DEF Login, Tokens
  <2> QED
    BY <2>1, <2>2
<1>4. logins' \in Seq(Login) /\ Len(logins') = Len(logins)
  <2>1. logins' \in Seq(Login)
    BY <1>2, <1>3, SeqDef
  <2> QED
    BY <1>2, <1>3, <2>1, LenProperties
<1>5. Grows
  BY <1>1, <1>2, <1>3, <1>4 DEF Grows
<1>6. \E r : r \in {Away, s} /\ Move(c, r)
  <2>1. CASE revoke(c)
    <3>1. clients' = [clients EXCEPT ![c] = Away] /\ Fits(Away, logins', everWas')
      BY <2>1, AwayType DEF revoke, Leave, GoTo, Fits
    <3>2. Move(c, Away)
      BY <1>1, <1>2, <1>4, <1>5, <3>1, AwayType DEF Move, AInv, Tokens
    <3> QED
      BY <3>2
  <2>2. CASE revokeAllForUser(c)
    <3>1. clients' = [clients EXCEPT ![c] = s]
      BY <2>2 DEF revokeAllForUser, GoTo
    <3>2. s \in Call /\ s.at = "session" /\ s.email = e /\ s.password = k.password
      BY <1>1 DEF Call
    <3> HIDE DEF s
    <3>3. Fits(s, logins', everWas')
      BY <1>1, <2>2, <3>2 DEF Fits, revokeAllForUser, At
    <3>4. Move(c, s)
      BY <1>1, <1>2, <1>4, <1>5, <3>1, <3>2, <3>3 DEF Move, AInv, Tokens
    <3> QED
      BY <3>4
  <2> QED
    BY <2>1, <2>2
<1> QED
  BY <1>4, <1>5, <1>6, CallMove

\* A session expires; no call moves.
LEMMA ExpireStep ==
    ASSUME AInv, expireLogin
    PROVE  AInv' /\ Grows /\ Len(logins') = Len(logins)
<1>1. PICK t \in Tokens : logins' = [logins EXCEPT ![t].live = FALSE]
  BY DEF expireLogin
<1>2. /\ UNCHANGED <<accounts, clients, everWas>>
      /\ Shapes /\ logins \in Seq(Login) /\ everWas \in [Emails -> SUBSET Word]
  BY DEF expireLogin, AInv, Shapes
<1>3. /\ Len(logins) \in Nat /\ logins \in [1..Len(logins) -> Login] /\ DOMAIN logins = 1..Len(logins)
  BY <1>2, LenProperties
<1>4. /\ logins' \in [1..Len(logins) -> Login]
      /\ \A u \in Tokens : /\ logins'[u].email = logins[u].email
                           /\ logins'[u].presented = logins[u].presented
  <2>1. logins' = [logins EXCEPT ![t] = [logins[t] EXCEPT !.live = FALSE]]
    BY <1>1, <1>3
  <2> QED
    BY <1>3, <2>1 DEF Login, Tokens
<1>5. logins' \in Seq(Login) /\ Len(logins') = Len(logins)
  <2>1. logins' \in Seq(Login)
    BY <1>3, <1>4, SeqDef
  <2> QED
    BY <1>3, <1>4, <2>1, LenProperties
<1>6. Grows /\ Shapes'
  BY <1>2, <1>3, <1>4, <1>5 DEF Grows, Shapes
<1>7. SessionsAreEarned'
  BY <1>2, <1>4, <1>5 DEF AInv, SessionsAreEarned, Tokens
<1>8. ASSUME NEW c \in WebClients PROVE Fits(clients'[c], logins', everWas')
  <2>1. clients[c] \in Call /\ Fits(clients[c], logins, everWas) /\ clients'[c] = clients[c]
    BY <1>2 DEF AInv, Shapes
  <2> QED
    BY <1>2, <1>6, <2>1, StillFits
<1>9. (\A c \in WebClients : Fits(clients[c], logins, everWas))'
  BY <1>8 DEF Fits
<1> QED
  BY <1>2, <1>5, <1>6, <1>7, <1>9 DEF AInv

\* A call dies between two statements.
LEMMA DropStep ==
    ASSUME AInv, NEW c \in WebClients, dropCall(c)
    PROVE  AInv'
<1>1. clients' = [clients EXCEPT ![c] = Away] /\ UNCHANGED <<accounts, logins, everWas>>
  BY DEF dropCall, Leave, GoTo
<1>2. Away \in Call /\ Fits(Away, logins, everWas)
  BY AwayType DEF Fits
<1> QED
  BY <1>1, <1>2, CallOnly

-----------------------------------------------------------------------------
\* Every step keeps the invariant.
LEMMA NextInv == ASSUME AInv, [AccountsNext]_accountVars PROVE AInv'
<1>1. CASE UNCHANGED accountVars
  <2>1. Shapes' /\ SessionsAreEarned'
    BY <1>1 DEF AInv, accountVars, Shapes, SessionsAreEarned, Tokens
  <2> QED
    BY <1>1, <2>1 DEF AInv, accountVars
<1>2. ASSUME NEW c \in WebClients,
             \/ register(c) \/ createUser(c) \/ login(c) \/ createSession(c)
             \/ logout(c) \/ deleteSession(c) \/ changePassword(c) \/ revoke(c)
             \/ verifyCurrent(c) \/ updatePassword(c)
             \/ revokeAllForUser(c) \/ dropCall(c)
      PROVE  AInv'
  BY <1>2, BeginStep, CreateUserStep, CreateSessionStep, ChangeStep, RevokeStep, DropStep
<1> QED
  BY <1>1, <1>2, ExpireStep DEF AccountsNext

\* The invariant holds in every reachable state, for any addresses, passwords
\* and concurrent calls.
THEOREM AccountsInvariance == AccountsSpec => []AInv
  BY InitInv, NextInv, PTL DEF AccountsSpec

\* Every session was given to a caller that had shown a password the account
\* had (auth routes register and login, password change): the loser of two
\* racing registrations gets no session.
THEOREM SessionsEarned == AccountsSpec => []SessionsAreEarned
<1>1. AInv => SessionsAreEarned
  BY DEF AInv
<1> QED
  BY <1>1, AccountsInvariance, PTL

\* What a step may do to a session t that exists.
Kept(t) ==
    /\ t \in DOMAIN logins'
    /\ logins'[t].live => logins[t].live
    /\ (logins[t].live /\ ~logins'[t].live) =>
          \/ clients' = clients
          \/ \E c \in WebClients : /\ clients[c].at \in {"revoke", "revokeAll"}
                                   /\ clients'[c] # clients[c]
                                   /\ clients[c].email = logins[t].email

\* A step that leaves the table alone, or appends to it, keeps every session.
LEMMA TableKept ==
    ASSUME AInv, NEW t \in Tokens,
           logins' = logins \/ \E l \in Login : logins' = Append(logins, l)
    PROVE  Kept(t)
<1>1. logins \in Seq(Login) /\ t \in 1..Len(logins) /\ Len(logins) \in Nat
  BY LenProperties DEF AInv, Shapes, Tokens
<1>2. t \in DOMAIN logins' /\ logins'[t] = logins[t]
  BY <1>1
<1> QED
  BY <1>2 DEF Kept

\* A revocation ends sessions of the caller's own account only.
LEMMA RevokeKeeps ==
    ASSUME AInv, NEW c \in WebClients, NEW t \in Tokens, revoke(c) \/ revokeAllForUser(c)
    PROVE  Kept(t)
<1> DEFINE k == clients[c]
<1>1. /\ k \in Call /\ clients \in [WebClients -> Call] /\ Fits(k, logins, everWas)
      /\ logins \in Seq(Login)
  BY DEF AInv, Shapes
<1>2. /\ Len(logins) \in Nat /\ logins \in [1..Len(logins) -> Login] /\ DOMAIN logins = 1..Len(logins)
      /\ t \in 1..Len(logins)
  BY <1>1, LenProperties DEF Tokens
<1>3. CASE revoke(c)
  <2>1. k.at = "revoke" /\ clients'[c] = Away
    BY <1>1, <1>3 DEF revoke, At, Leave, GoTo
  <2>2. clients'[c] # k
    BY <2>1, AwayType
  <2>3. logins' = [logins EXCEPT ![k.target] = [logins[k.target] EXCEPT !.live = FALSE]]
    BY <1>2, <1>3 DEF revoke
  <2>4. k.target \in 1..Len(logins) /\ logins[k.target].email = k.email
    BY <1>1, <2>1 DEF Fits
  <2>5. CASE t = k.target
    <3>1. t \in DOMAIN logins' /\ ~logins'[t].live
      BY <1>2, <2>3, <2>4, <2>5 DEF Login
    <3> QED
      BY <2>1, <2>2, <2>4, <2>5, <3>1 DEF Kept
  <2>6. CASE t # k.target
    <3>1. t \in DOMAIN logins' /\ logins'[t] = logins[t]
      BY <1>2, <2>3, <2>6
    <3> QED
      BY <3>1 DEF Kept
  <2> QED
    BY <2>5, <2>6
<1>4. CASE revokeAllForUser(c)
  <2>1. k.at = "revokeAll" /\ clients'[c] = [k EXCEPT !.at = "session"]
    BY <1>1, <1>4 DEF revokeAllForUser, At, GoTo
  <2>2. clients'[c] # k
    BY <1>1, <2>1 DEF Call
  <2>3. /\ t \in DOMAIN logins'
        /\ logins'[t] = IF logins[t].email = k.email THEN [logins[t] EXCEPT !.live = FALSE] ELSE logins[t]
    BY <1>2, <1>4 DEF revokeAllForUser, Tokens
  <2>4. CASE logins[t].email = k.email
    <3>1. ~logins'[t].live
      BY <1>2, <2>3, <2>4 DEF Login
    <3> QED
      BY <2>1, <2>2, <2>3, <2>4, <3>1 DEF Kept
  <2>5. CASE logins[t].email # k.email
    BY <2>3, <2>5 DEF Kept
  <2> QED
    BY <2>4, <2>5
<1> QED
  BY <1>3, <1>4

\* An expiry ends a session while no call moves.
LEMMA ExpireKeeps ==
    ASSUME AInv, NEW t \in Tokens, expireLogin
    PROVE  Kept(t)
<1>1. PICK u \in Tokens : logins[u].live /\ logins' = [logins EXCEPT ![u].live = FALSE]
  BY DEF expireLogin
<1>2. /\ Len(logins) \in Nat /\ logins \in [1..Len(logins) -> Login] /\ DOMAIN logins = 1..Len(logins)
      /\ t \in 1..Len(logins) /\ u \in 1..Len(logins)
  BY LenProperties DEF AInv, Shapes, Tokens
<1>3. logins' = [logins EXCEPT ![u] = [logins[u] EXCEPT !.live = FALSE]]
  BY <1>1, <1>2
<1>4. /\ t \in DOMAIN logins'
      /\ logins'[t].live => logins[t].live
  BY <1>2, <1>3 DEF Login
<1>5. clients' = clients
  BY DEF expireLogin
<1> QED
  BY <1>4, <1>5 DEF Kept

\* A session that has ended never works again, and only a revocation by a call
\* of the same account, or time, ends one (sessions.ts revoke, revokeAllForUser,
\* deleteExpired).
THEOREM EndedStayEnded == AccountsSpec => EndedSessionsStayEnded
<1>1. ASSUME AInv, AccountsNext, NEW t \in Tokens PROVE Kept(t)
  <2>1. ASSUME NEW c \in WebClients,
               \/ register(c) \/ createUser(c) \/ login(c) \/ logout(c) \/ deleteSession(c)
               \/ changePassword(c) \/ verifyCurrent(c) \/ updatePassword(c) \/ dropCall(c)
        PROVE  Kept(t)
    <3>1. logins' = logins
      BY <2>1 DEF register, createUser, login, logout, deleteSession, changePassword, verifyCurrent,
                  updatePassword, dropCall
    <3> QED
      BY <1>1, <3>1, TableKept
  <2>2. ASSUME NEW c \in WebClients, createSession(c) PROVE Kept(t)
    <3>1. /\ clients[c] \in Call /\ clients[c].at = "session" /\ clients[c].email \in Emails
      BY <1>1, <2>2 DEF AInv, Shapes, Fits, createSession, At
    <3>2. NewLogin(clients[c].email, clients[c].password) \in Login
      BY <3>1 DEF NewLogin, Login, Call
    <3> QED
      BY <1>1, <2>2, <3>2, TableKept DEF createSession
  <2> QED
    BY <1>1, <2>1, <2>2, RevokeKeeps, ExpireKeeps DEF AccountsNext
<1>2. AInv /\ [AccountsNext]_accountVars =>
        [\A t \in Tokens :
          /\ t \in DOMAIN logins'
          /\ logins'[t].live => logins[t].live
          /\ (logins[t].live /\ ~logins'[t].live) =>
                \/ clients' = clients
                \/ \E c \in WebClients :
                      /\ clients[c].at \in {"revoke", "revokeAll"}
                      /\ clients'[c] # clients[c]
                      /\ clients[c].email = logins[t].email]_accountVars
  BY <1>1 DEF Kept
<1> QED
  BY <1>2, AccountsInvariance, PTL DEF AccountsSpec, EndedSessionsStayEnded

\* Sessions are safe (auth routes and sessions.ts): well-formed tables, each
\* session earned, each end final and of the account's own doing.
THEOREM SessionsSafe == AccountsSpec => SessionsAreSafe
<1>1. AInv => AccountsTypeOK
  <2> SUFFICES ASSUME AInv PROVE AccountsTypeOK
    OBVIOUS
  <2>1. accounts \in [Emails -> Word] /\ logins \in Seq(Login)
    BY DEF AInv, Shapes
  <2>2. \A t \in Tokens : logins[t] \in Login
    BY <2>1 DEF Tokens
  <2> QED
    BY <2>1, <2>2 DEF AccountsTypeOK, Login, Word
<1> QED
  BY <1>1, AccountsInvariance, SessionsEarned, EndedStayEnded, PTL DEF SessionsAreSafe

-----------------------------------------------------------------------------
(* The payment adapter: the inductive invariant.                           *)

AdapterWorlds ==
    [customer : BOOLEAN, txs : [Refs -> {"none", "pending", "success"}],
     sub : {"none", "active", "non-renewing", "completed"}]
CallShape(k) ==
    k \in [pc : {"idle", "read", "write", "read-answered", "write-answered", "done"}, op : Ops \cup {"none"},
           ref : Refs \cup {"none"}, answer : {k.answer}, verdict : {k.verdict}, state : {k.state}, at : {k.at}]

\* What an answer means, whatever the network made of it: `done` holds the
\* calls whose request took effect.
AnswerMeans(k, w, c, done) ==
    LET a == k.answer
        got == fetched(a)
    IN  /\ k.op = "findCustomer" => (got = "not_found" => ~k.at.customer)
        /\ k.op = "createCustomer" => (got = "ok" => w.customer)
        /\ k.op = "initialize" =>
              /\ k.ref \in Refs
              /\ got = "ok" /\ a.data.echo = "same" => c \in done /\ w.txs[k.ref] # "none"
              /\ got \in {"provider_rejected", "not_found"} => c \notin done
        /\ k.op = "verify" =>
              (got = "ok" /\ Echoed(a) = "ok" /\ a.data.status = "success" => k.at.tx = "success")
        /\ k.op = "findSubscription" =>
              /\ got = "not_found" => k.at.sub = "none"
              /\ got = "ok" /\ Echoed(a) = "ok" => k.at.sub # "none" /\ a.data.status = k.at.sub
        /\ k.op = "cancel" /\ k.pc = "read-answered" => c \notin done
        /\ k.op = "cancel" /\ k.pc = "write-answered" =>
              (request(a, FALSE) = "ok" => c \in done /\ w.sub # "none")

\* What a call that is over told its caller.
Verdict(k, w, c, done) ==
    /\ k.op = "initialize" =>
          /\ k.verdict = "initialized" => c \in done /\ w.txs[k.ref] # "none"
          /\ k.verdict \notin {"initialized", "unavailable", "reference_conflict",
                               "ambiguous_not_found"} => c \notin done
    /\ k.verdict = "absent" => IF k.op = "findCustomer" THEN ~k.at.customer ELSE k.at.sub = "none"
    /\ k.verdict = "found" /\ k.op = "createCustomer" => w.customer
    /\ k.verdict = "found" /\ k.op = "verify" => k.at.tx = "success"
    /\ k.verdict = "found" /\ k.op = "findSubscription" =>
          k.at.sub # "none" /\ k.state = paystackLifecycleState(k.at.sub)
    /\ k.op = "cancel" =>
          /\ k.verdict = "cancelled" => c \in done /\ w.sub # "none"
          /\ k.verdict = "untouched" => c \notin done

CallFits(k, w, c, done) ==
    /\ k.pc \in {"idle", "read", "write"} => c \notin done
    /\ k.pc \in {"read", "read-answered", "write", "write-answered"} => k.op \in Ops
    /\ k.op \in {"initialize", "verify"} => k.ref \in Refs
    /\ k.pc \in {"read", "read-answered"} => k.op \in {"findCustomer", "verify", "findSubscription", "cancel"}
    /\ k.pc \in {"write", "write-answered"} => k.op \in {"createCustomer", "initialize", "cancel"}
    /\ k.pc \in {"read-answered", "write-answered"} => AnswerMeans(k, w, c, done)
    /\ k.pc = "done" => Verdict(k, w, c, done)

PayInv ==
    /\ world \in AdapterWorlds
    /\ calls = [c \in AdapterCallers |-> calls[c]] /\ \A c \in AdapterCallers : CallShape(calls[c])
    /\ effects \subseteq AdapterCallers
    /\ \A c \in AdapterCallers : CallFits(calls[c], world, c, effects)
    /\ event.facts.pays =>
          LET d == event.delivery[1]
          IN d.domain = Mode /\ d.currency /\ (d.name = "charge.success" => d.status = "success")

-----------------------------------------------------------------------------
(* What the network can make of an answer.                                 *)

\* A record of status st, however garbled, is never a rejection or an absence,
\* and if it is well formed, of the right subject and domain, its status is st.
LEMMA GarbledRecord ==
    ASSUME NEW st, NEW op, NEW t \in Carries(st), NEW a \in Garbled(t, op)
    PROVE  /\ fetched(a) \in {"ok", "provider_unavailable", "unexpected_response", "ambiguous_not_found"}
           /\ fetched(a) = "ok" /\ Echoed(a) = "ok" => a.data.status = st
<1> DEFINE r == [well |-> TRUE, echo |-> "same", domain |-> Mode, status |-> st, token |-> TRUE,
                 amounts |-> TRUE]
<1>1. Mode # OtherMode
  BY DEF OtherMode
<1>2. t = Envelope("200", TRUE, "other", r)
  BY DEF Carries
<1>3. t.http = "200" /\ t.body = "envelope" /\ t.ok /\ t.message = "other" /\ t.data = r
  BY <1>2 DEF Envelope
<1>4. r # NoRecord
  BY DEF NoRecord
<1>5. CASE a = t
  BY <1>3, <1>4, <1>5 DEF fetched, request, Echoed
<1>6. CASE a \in {NoAnswer, [t EXCEPT !.body = "unreadable"], [t EXCEPT !.body = "foreign"],
                  Envelope("5xx", FALSE, "other", NoRecord), Envelope("404", FALSE, "other", NoRecord)}
  BY <1>2, <1>6 DEF fetched, request, classifyNotFound, Envelope, NoAnswer
<1>7. ASSUME NEW d, a = [t EXCEPT !.data = d]
      PROVE  a.http = "200" /\ a.body = "envelope" /\ a.ok /\ a.message = "other" /\ a.data = d
  BY <1>2, <1>7 DEF Envelope
<1>8. CASE a \in {[t EXCEPT !.data = NoRecord], [t EXCEPT !.data.well = FALSE]}
  <2>1. PICK d \in {NoRecord, [r EXCEPT !.well = FALSE]} : a = [t EXCEPT !.data = d]
    BY <1>3, <1>8
  <2>2. ~d.well
    BY DEF NoRecord
  <2> QED
    BY <1>7, <2>1, <2>2 DEF fetched, request
<1>9. CASE a \in {[t EXCEPT !.data.token = FALSE], [t EXCEPT !.data.amounts = FALSE],
                  [t EXCEPT !.data.echo = "silent"]}
  <2>1. PICK d \in {[r EXCEPT !.token = FALSE], [r EXCEPT !.amounts = FALSE], [r EXCEPT !.echo = "silent"]} :
           a = [t EXCEPT !.data = d]
    BY <1>3, <1>9
  <2>2. d.well /\ d # NoRecord /\ d.status = st
    BY DEF NoRecord
  <2> QED
    BY <1>7, <2>1, <2>2 DEF fetched, request, Echoed
<1>10. CASE a \in {[t EXCEPT !.data.echo = "other", !.data.status = x] : x \in {"success", "active"}}
  <2>1. PICK x \in {"success", "active"} : a = [t EXCEPT !.data = [r EXCEPT !.echo = "other", !.status = x]]
    BY <1>3, <1>10
  <2> DEFINE d == [r EXCEPT !.echo = "other", !.status = x]
  <2>2. d.well /\ d # NoRecord /\ d.echo = "other"
    BY DEF NoRecord
  <2>3. a.http = "200" /\ a.body = "envelope" /\ a.ok /\ a.data = d
    BY <1>7, <2>1
  <2> HIDE DEF d
  <2> QED
    BY <2>2, <2>3 DEF fetched, request, Echoed
<1>11. CASE a \in {[t EXCEPT !.data.domain = OtherMode, !.data.status = x] : x \in {"success", "active"}}
  <2>1. PICK x \in {"success", "active"} : a = [t EXCEPT !.data = [r EXCEPT !.domain = OtherMode, !.status = x]]
    BY <1>3, <1>11
  <2> DEFINE d == [r EXCEPT !.domain = OtherMode, !.status = x]
  <2>2. d.well /\ d # NoRecord /\ d.domain # Mode
    BY <1>1 DEF NoRecord
  <2>3. a.http = "200" /\ a.body = "envelope" /\ a.ok /\ a.data = d
    BY <1>7, <2>1
  <2> HIDE DEF d
  <2> QED
    BY <2>2, <2>3 DEF fetched, request, Echoed
<1> QED
  BY <1>3, <1>4, <1>5, <1>6, <1>8, <1>9, <1>10, <1>11 DEF Garbled

\* A refusal is never a record and never an absence.
LEMMA GarbledRefusal ==
    ASSUME NEW op, NEW a \in Garbled(Refusal, op)
    PROVE  /\ fetched(a) \in {"provider_rejected", "provider_unavailable", "unexpected_response",
                              "ambiguous_not_found"}
           /\ request(a, FALSE) # "ok"
  BY DEF Refusal, Garbled, Envelope, fetched, request, classifyNotFound, NoRecord, NoAnswer

\* An absence is never a record and never a rejection.
LEMMA GarbledAbsence ==
    ASSUME NEW op, NEW a \in Garbled(Absent, op)
    PROVE  /\ fetched(a) \in {"not_found", "provider_unavailable", "unexpected_response",
                              "ambiguous_not_found"}
           /\ request(a, FALSE) # "ok"
  BY DEF Absent, Garbled, Envelope, fetched, request, classifyNotFound, NoRecord, NoAnswer

\* What answers in the provider's place is neither a record nor an absence.
LEMMA LostAnswer ==
    ASSUME NEW a \in {NoAnswer, Envelope("5xx", FALSE, "other", NoRecord),
                      Envelope("404", FALSE, "other", NoRecord),
                      Envelope("404", FALSE, "authorization", NoRecord)}
    PROVE  fetched(a) \notin {"ok", "not_found"} /\ request(a, FALSE) # "ok"
  BY DEF Envelope, fetched, request, classifyNotFound, NoRecord, NoAnswer

-----------------------------------------------------------------------------
(* One call moves, the provider's records only grow, the others keep.       *)

HoldsMore(w, v) ==
    /\ w.customer => v.customer
    /\ \A r \in Refs : w.txs[r] # "none" => v.txs[r] # "none"
    /\ w.sub # "none" => v.sub # "none"

\* What a call knows stays true when the provider's records grow.
LEMMA CallKeeps ==
    ASSUME NEW k, NEW w, NEW v, NEW c, NEW was, NEW done, CallFits(k, w, c, was), HoldsMore(w, v),
           (c \in was) <=> (c \in done)
    PROVE  CallFits(k, v, c, done)
<1>1. k.pc \in {"read-answered", "write-answered"} => AnswerMeans(k, v, c, done)
  BY DEF CallFits, AnswerMeans, HoldsMore
<1>2. k.pc = "done" => Verdict(k, v, c, done)
  BY DEF CallFits, Verdict, HoldsMore
<1> QED
  BY <1>1, <1>2 DEF CallFits

CallMoves(c, k) ==
    /\ world' \in AdapterWorlds /\ HoldsMore(world, world')
    /\ calls' = [calls EXCEPT ![c] = k] /\ CallShape(k) /\ CallFits(k, world', c, effects')
    /\ effects' \in {effects, effects \cup {c}} /\ event' = event

\* A step of one call keeps the invariant if the call it leaves fits.
LEMMA OneCall ==
    ASSUME PayInv, NEW c \in AdapterCallers, NEW k, CallMoves(c, k)
    PROVE  PayInv'
<1>1. /\ calls = [d \in AdapterCallers |-> calls[d]] /\ effects \subseteq AdapterCallers
      /\ calls' = [calls EXCEPT ![c] = k] /\ effects' \in {effects, effects \cup {c}}
  BY DEF PayInv, CallMoves
<1>2. /\ calls' = [d \in AdapterCallers |-> calls'[d]] /\ effects' \subseteq AdapterCallers
      /\ \A d \in AdapterCallers : calls'[d] = IF d = c THEN k ELSE calls[d]
      /\ \A d \in AdapterCallers : d # c => ((d \in effects') <=> (d \in effects))
  BY <1>1
<1>3. \A d \in AdapterCallers : CallShape(calls'[d])
  BY <1>2 DEF PayInv, CallMoves
<1>4. ASSUME NEW d \in AdapterCallers PROVE CallFits(calls'[d], world', d, effects')
  <2>1. CASE d = c
    BY <1>2, <2>1 DEF CallMoves
  <2>2. CASE d # c
    <3>1. calls'[d] = calls[d] /\ ((d \in effects) <=> (d \in effects'))
      BY <1>2, <2>2
    <3>2. CallFits(calls[d], world, d, effects) /\ HoldsMore(world, world')
      BY DEF PayInv, CallMoves
    <3>3. CallFits(calls[d], world', d, effects')
      BY <3>1, <3>2, CallKeeps
    <3> QED
      BY <3>1, <3>3
  <2> QED
    BY <2>1, <2>2
<1> QED
  BY <1>2, <1>3, <1>4 DEF PayInv, CallMoves

\* A step that leaves the provider alone.
LEMMA LocalMove ==
    ASSUME PayInv, NEW c \in AdapterCallers, NEW k, calls' = [calls EXCEPT ![c] = k],
           UNCHANGED <<world, effects, event>>, CallShape(k), CallFits(k, world, c, effects)
    PROVE  PayInv'
<1>1. CallMoves(c, k)
  BY DEF CallMoves, PayInv, HoldsMore
<1> QED
  BY <1>1, OneCall

\* There is no call initially, and no delivery.
LEMMA PayInit == AdapterInit => PayInv
<1> SUFFICES ASSUME AdapterInit PROVE PayInv
  OBVIOUS
<1>1. CallShape(Quiet) /\ \A c : CallFits(Quiet, world, c, {})
  BY DEF Quiet, CallShape, CallFits, Ops
<1>2. \A c \in AdapterCallers : calls[c] = Quiet
  BY DEF AdapterInit
<1>3. world \in AdapterWorlds /\ ~event.facts.pays
  BY DEF AdapterInit, AdapterWorlds, NoDelivery, Refused, Facts
<1>4. calls = [c \in AdapterCallers |-> calls[c]] /\ effects = {}
  BY DEF AdapterInit
<1> QED
  BY <1>1, <1>2, <1>3, <1>4 DEF PayInv

-----------------------------------------------------------------------------
(* The operations begin.                                                   *)

\* The request of a call that begins is out, and has had no effect.
LEMMA RequestOut ==
    ASSUME PayInv, NEW c \in AdapterCallers, NEW op \in Ops, NEW pc \in {"read", "write"}, NEW ref,
           op \in {"verify", "initialize"} => ref \in Refs,
           ref \in Refs \cup {"none"},
           pc = "read" => op \in {"findCustomer", "verify", "findSubscription", "cancel"},
           pc = "write" => op \in {"createCustomer", "initialize", "cancel"},
           calls[c].pc = "idle",
           calls' = [calls EXCEPT ![c] = [Quiet EXCEPT !.pc = pc, !.op = op, !.ref = ref]],
           UNCHANGED <<world, effects, event>>
    PROVE  PayInv'
<1> DEFINE k == [Quiet EXCEPT !.pc = pc, !.op = op, !.ref = ref]
<1>1. CallShape(k) /\ k.pc = pc /\ k.op = op /\ k.ref = ref
  BY DEF Quiet, CallShape
<1>2. c \notin effects
  BY DEF PayInv, CallFits
<1> HIDE DEF k
<1>3. CallFits(k, world, c, effects)
  BY <1>1, <1>2 DEF CallFits
<1> QED
  BY <1>1, <1>3, LocalMove DEF k

\* A call refused before any request has had no effect.
LEMMA RefusedStep ==
    ASSUME PayInv, NEW c \in AdapterCallers, calls[c].pc = "idle",
           NEW k, CallShape(k), k.pc = "done", k.op \in {"initialize", "cancel"},
           k.op = "initialize" => k.ref \in Refs,
           k.verdict \notin {"initialized", "absent", "found", "cancelled"},
           calls' = [calls EXCEPT ![c] = k], UNCHANGED <<world, effects, event>>
    PROVE  PayInv'
<1>1. c \notin effects
  BY DEF PayInv, CallFits
<1>2. CallFits(k, world, c, effects)
  BY <1>1 DEF CallFits, Verdict
<1> QED
  BY <1>2, LocalMove

\* A checkout is refused, or its request is out.
LEMMA InitializeKeeps ==
    ASSUME PayInv, NEW c \in AdapterCallers, NEW ref \in Refs, initializeCheckout(c, ref) PROVE PayInv'
<1>1. PICK s \in Snapshots, known \in BOOLEAN :
        calls' = [calls EXCEPT ![c] =
             IF admitted(s, known) = "ok" THEN [Quiet EXCEPT !.pc = "write", !.op = "initialize", !.ref = ref]
             ELSE [Quiet EXCEPT !.pc = "done", !.op = "initialize", !.ref = ref, !.verdict = admitted(s, known)]]
  BY DEF initializeCheckout
<1>2. calls[c].pc = "idle" /\ UNCHANGED <<world, effects, event>>
  BY DEF initializeCheckout
<1>3. admitted(s, known) \in {"ok", "unauthorized_amount", "plan_not_registered", "plan_mismatch",
                              "customer_not_provisioned"}
  BY DEF admitted, assertPlanAuthorized, Snapshots
<1>4. CASE admitted(s, known) = "ok"
  <2>1. calls' = [calls EXCEPT ![c] = [Quiet EXCEPT !.pc = "write", !.op = "initialize", !.ref = ref]]
    BY <1>1, <1>4
  <2> QED
    BY <1>2, <2>1, RequestOut DEF Ops
<1>5. CASE admitted(s, known) # "ok"
  <2> DEFINE k == [Quiet EXCEPT !.pc = "done", !.op = "initialize", !.ref = ref,
                                !.verdict = admitted(s, known)]
  <2>1. calls' = [calls EXCEPT ![c] = k]
    BY <1>1, <1>5
  <2>2. CallShape(k) /\ k.pc = "done" /\ k.op = "initialize" /\ k.ref = ref /\ k.verdict = admitted(s, known)
    BY DEF Quiet, CallShape, Ops
  <2> HIDE DEF k
  <2> QED
    BY <1>2, <1>3, <1>5, <2>1, <2>2, RefusedStep
<1> QED
  BY <1>4, <1>5

\* The other operations begin with a read, or with a creation.
LEMMA OperationBegins ==
    ASSUME PayInv, NEW c \in AdapterCallers,
           \/ \E ref \in Refs : verifySubscription(c, ref)
           \/ findCustomer(c) \/ createCustomer(c) \/ findSubscription(c)
    PROVE  PayInv'
<1>1. ASSUME NEW ref \in Refs, verifySubscription(c, ref) PROVE PayInv'
  BY <1>1, RequestOut DEF verifySubscription, begin, Ops
<1>2. CASE findCustomer(c)
  BY <1>2, RequestOut DEF findCustomer, begin, Ops
<1>3. CASE createCustomer(c)
  BY <1>3, RequestOut DEF createCustomer, begin, Ops
<1>4. CASE findSubscription(c)
  BY <1>4, RequestOut DEF findSubscription, begin, Ops
<1> QED
  BY <1>1, <1>2, <1>3, <1>4

Immediate ==
    [Quiet EXCEPT !.pc = "done", !.op = "cancel", !.verdict = "invalid_request"]
RefusedCancel(c) ==
    calls[c].pc = "idle" /\ calls' = [calls EXCEPT ![c] = Immediate] /\ UNCHANGED <<world, effects, event>>

\* An immediate cancellation is refused; another one reads first.
LEMMA CancelBegins ==
    ASSUME NEW c, NEW immediate \in BOOLEAN, cancelSubscription(c, immediate)
    PROVE  RefusedCancel(c) \/ begin(c, "cancel", "read", "none")
  BY Zenon DEF cancelSubscription, RefusedCancel, Immediate

\* Either way nothing was cancelled yet.
LEMMA CancelKeeps ==
    ASSUME PayInv, NEW c \in AdapterCallers, RefusedCancel(c) \/ begin(c, "cancel", "read", "none")
    PROVE  PayInv'
<1>1. CASE RefusedCancel(c)
  <2>1. CallShape(Immediate) /\ Immediate.pc = "done" /\ Immediate.op = "cancel"
        /\ Immediate.verdict = "invalid_request"
    BY DEF Immediate, Quiet, CallShape, Ops
  <2> QED
    BY <1>1, <2>1, RefusedStep DEF RefusedCancel
<1>2. CASE begin(c, "cancel", "read", "none")
  BY <1>2, RequestOut DEF begin, Ops
<1> QED
  BY <1>1, <1>2

-----------------------------------------------------------------------------
(* A request reaches the provider, or does not.                            *)

\* A request that never arrives has no effect, and nobody claims it had.
LEMMA LoseKeeps ==
    ASSUME PayInv, NEW c \in AdapterCallers, lose(c) PROVE PayInv'
<1>1. PICK a \in {NoAnswer, Envelope("5xx", FALSE, "other", NoRecord),
                  Envelope("404", FALSE, "other", NoRecord),
                  Envelope("404", FALSE, "authorization", NoRecord)} :
        calls' = [calls EXCEPT ![c].answer = a, ![c].pc = Answered(@)]
  BY DEF lose
<1> DEFINE o == calls[c]
           k == [o EXCEPT !.answer = a, !.pc = Answered(@)]
<1>2. CallShape(o) /\ CallFits(o, world, c, effects) /\ o.pc \in {"read", "write"}
  BY DEF PayInv, lose
<1>3. c \notin effects /\ o.op \in Ops
  BY <1>2 DEF CallFits
<1>4. /\ k.op = o.op /\ k.ref = o.ref /\ k.answer = a /\ k.pc = Answered(o.pc)
      /\ CallShape(k)
  BY <1>2 DEF CallShape, Answered
<1>5. calls' = [calls EXCEPT ![c] = k] /\ UNCHANGED <<world, effects, event>>
  BY <1>1 DEF lose
<1>6. fetched(a) \notin {"ok", "not_found"} /\ request(a, FALSE) # "ok"
  BY LostAnswer
<1> HIDE DEF k
<1>7. AnswerMeans(k, world, c, effects)
  BY <1>2, <1>3, <1>4, <1>6 DEF AnswerMeans, CallFits
<1>8. CallFits(k, world, c, effects)
  BY <1>2, <1>3, <1>4, <1>7 DEF CallFits, Answered
<1> QED
  BY <1>4, <1>5, <1>8, LocalMove

\* What serving does to the provider's records.
LEMMA EffectGrows ==
    ASSUME PayInv, NEW c \in AdapterCallers, calls[c].pc \in {"read", "write"}
    PROVE  /\ Effect(c, world) \in AdapterWorlds /\ HoldsMore(world, Effect(c, world))
           /\ calls[c].op = "createCustomer" => Effect(c, world).customer
           /\ calls[c].op = "initialize" =>
                 /\ Effect(c, world).txs[calls[c].ref] # "none"
                 /\ (world.txs[calls[c].ref] = "none") <=> (Effect(c, world) # world)
           /\ calls[c].op = "cancel" /\ calls[c].pc = "write" =>
                 ((world.sub = "active") <=> (Effect(c, world) # world))
           /\ calls[c].op \notin {"createCustomer", "initialize"} /\ calls[c].pc = "read" =>
                 Effect(c, world) = world
<1> DEFINE k == calls[c]
<1>1. world \in AdapterWorlds /\ CallFits(k, world, c, effects)
  BY DEF PayInv
<1>2. /\ k.op \in Ops /\ (k.op = "initialize" => k.ref \in Refs /\ k.pc = "write")
      /\ (k.op = "createCustomer" => k.pc = "write")
  BY <1>1 DEF CallFits
<1>3. world \in [customer : BOOLEAN, txs : [Refs -> {"none", "pending", "success"}],
                 sub : {"none", "active", "non-renewing", "completed"}]
  BY <1>1 DEF AdapterWorlds
<1>4. CASE k.op = "createCustomer"
  <2>1. Effect(c, world) = [world EXCEPT !.customer = TRUE]
    BY <1>4 DEF Effect
  <2> QED
    BY <1>2, <1>3, <1>4, <2>1 DEF AdapterWorlds, HoldsMore
<1>5. CASE k.op = "initialize" /\ world.txs[k.ref] = "none"
  <2>1. Effect(c, world) = [world EXCEPT !.txs[k.ref] = "pending"]
    BY <1>5 DEF Effect
  <2>2. /\ Effect(c, world) \in AdapterWorlds
        /\ Effect(c, world).txs = [world.txs EXCEPT ![k.ref] = "pending"]
        /\ Effect(c, world).customer = world.customer /\ Effect(c, world).sub = world.sub
    BY <1>2, <1>3, <1>5, <2>1 DEF AdapterWorlds
  <2>3. world.txs \in [Refs -> {"none", "pending", "success"}] /\ k.ref \in Refs
    BY <1>2, <1>3, <1>5
  <2>4. Effect(c, world).txs[k.ref] = "pending"
    BY <2>2, <2>3
  <2>5. HoldsMore(world, Effect(c, world))
    BY <2>2, <2>3 DEF HoldsMore
  <2> QED
    BY <1>2, <1>5, <2>2, <2>4, <2>5
<1>6. CASE k.op = "cancel" /\ k.pc = "write" /\ world.sub = "active"
  <2>1. Effect(c, world) = [world EXCEPT !.sub = "non-renewing"]
    BY <1>6 DEF Effect
  <2> QED
    BY <1>2, <1>3, <1>6, <2>1 DEF AdapterWorlds, HoldsMore
<1>7. CASE ~(k.op = "createCustomer") /\ ~(k.op = "initialize" /\ world.txs[k.ref] = "none")
           /\ ~(k.op = "cancel" /\ k.pc = "write" /\ world.sub = "active")
  <2>1. Effect(c, world) = world
    BY <1>7 DEF Effect
  <2> QED
    BY <1>1, <1>2, <1>7, <2>1 DEF HoldsMore
<1> QED
  BY <1>4, <1>5, <1>6, <1>7

\* What serving answers to each request, and what the answer means: the heart of
\* the argument, one case per operation.
LEMMA ServedAnswer ==
    ASSUME PayInv, NEW c \in AdapterCallers, calls[c].pc \in {"read", "write"},
           NEW t \in Truth(c, world), NEW seen \in Garbled(t, calls[c].op),
           NEW k, k.op = calls[c].op, k.ref = calls[c].ref, k.pc = Answered(calls[c].pc), k.answer = seen,
           k.at = [customer |-> world.customer,
                   tx |-> IF calls[c].ref \in Refs THEN world.txs[calls[c].ref] ELSE "none",
                   sub |-> world.sub],
           NEW done, done = IF Effect(c, world) = world THEN effects ELSE effects \cup {c}
    PROVE  AnswerMeans(k, Effect(c, world), c, done)
<1> DEFINE o == calls[c]
           w == Effect(c, world)
           got == fetched(seen)
<1>1. world \in AdapterWorlds /\ CallFits(o, world, c, effects)
  BY DEF PayInv
<1>2. /\ o.op \in Ops /\ c \notin effects
      /\ o.pc = "read" => o.op \in {"findCustomer", "verify", "findSubscription", "cancel"}
      /\ o.pc = "write" => o.op \in {"createCustomer", "initialize", "cancel"}
      /\ o.op \in {"initialize", "verify"} => o.ref \in Refs
  BY <1>1 DEF CallFits
<1>3. (c \in done) <=> (w # world)
  BY <1>2
<1>4. /\ o.op = "createCustomer" => w.customer
      /\ o.op = "initialize" => w.txs[o.ref] # "none" /\ ((world.txs[o.ref] = "none") <=> (w # world))
      /\ o.op = "cancel" /\ o.pc = "write" => ((world.sub = "active") <=> (w # world))
      /\ (o.op = "cancel" /\ o.pc = "read" => w = world) /\ HoldsMore(world, w)
  BY EffectGrows
<1>5. k.at.customer = world.customer /\ k.at.sub = world.sub /\ (o.ref \in Refs => k.at.tx = world.txs[o.ref])
  OBVIOUS
<1>6. k.pc = (IF o.pc = "read" THEN "read-answered" ELSE "write-answered")
  BY DEF Answered
<1>7. CASE o.op = "findCustomer"
  <2>1. got = "not_found" => ~world.customer
    <3>1. CASE world.customer
      BY <1>7, <3>1, GarbledRecord DEF Truth
    <3> QED
      BY <3>1
  <2> QED
    BY <1>5, <1>7, <2>1 DEF AnswerMeans
<1>8. CASE o.op = "createCustomer"
  BY <1>4, <1>8 DEF AnswerMeans
<1>9. CASE o.op = "initialize"
  <2>1. CASE world.txs[o.ref] = "none"
    <3>1. t \in Carries("pending")
      BY <1>9, <2>1 DEF Truth
    <3>2. got \notin {"provider_rejected", "not_found"}
      BY <3>1, GarbledRecord
    <3> QED
      BY <1>2, <1>3, <1>4, <1>9, <2>1, <3>2 DEF AnswerMeans
  <2>2. CASE world.txs[o.ref] # "none"
    <3>1. t = Refusal
      BY <1>9, <2>2 DEF Truth
    <3>2. got # "ok"
      BY <3>1, GarbledRefusal
    <3> QED
      BY <1>2, <1>3, <1>4, <1>9, <2>2, <3>2 DEF AnswerMeans
  <2> QED
    BY <2>1, <2>2
<1>10. CASE o.op = "verify"
  <2>1. got = "ok" /\ Echoed(seen) = "ok" /\ seen.data.status = "success" => world.txs[o.ref] = "success"
    <3>1. CASE world.txs[o.ref] = "none"
      BY <1>10, <3>1, GarbledRefusal DEF Truth
    <3>2. CASE world.txs[o.ref] # "none"
      <4>1. t \in Carries(world.txs[o.ref])
        BY <1>10, <3>2 DEF Truth
      <4> QED
        BY <4>1, GarbledRecord
    <3> QED
      BY <3>1, <3>2
  <2> QED
    BY <1>2, <1>5, <1>10, <2>1 DEF AnswerMeans
<1>11. CASE o.op = "findSubscription"
  <2>1. /\ got = "not_found" => world.sub = "none"
        /\ got = "ok" /\ Echoed(seen) = "ok" => world.sub # "none" /\ seen.data.status = world.sub
    <3>1. o.pc = "read"
      BY <1>2, <1>11
    <3>2. CASE world.sub = "none"
      BY <1>11, <3>1, <3>2, GarbledAbsence DEF Truth
    <3>3. CASE world.sub # "none"
      <4>1. t \in Carries(world.sub)
        BY <1>11, <3>1, <3>3 DEF Truth
      <4> QED
        BY <3>3, <4>1, GarbledRecord
    <3> QED
      BY <3>2, <3>3
  <2> QED
    BY <1>5, <1>11, <2>1 DEF AnswerMeans
<1>12. CASE o.op = "cancel" /\ o.pc = "read"
  BY <1>2, <1>3, <1>4, <1>6, <1>12 DEF AnswerMeans
<1>13. CASE o.op = "cancel" /\ o.pc = "write"
  <2>1. request(seen, FALSE) = "ok" => world.sub = "active"
    <3>1. CASE world.sub # "active"
      <4>1. t = Absent \/ t = Refusal
        BY <1>13, <3>1 DEF Truth
      <4> QED
        BY <4>1, GarbledAbsence, GarbledRefusal
    <3> QED
      BY <3>1
  <2>2. world.sub = "active" => c \in done /\ w.sub # "none"
    BY <1>3, <1>4, <1>13 DEF HoldsMore
  <2> QED
    BY <1>6, <1>13, <2>1, <2>2 DEF AnswerMeans
<1> QED
  BY <1>2, <1>7, <1>8, <1>9, <1>10, <1>11, <1>12, <1>13 DEF Ops

\* A request is served, and its answer means what the provider holds.
LEMMA ServeKeeps ==
    ASSUME PayInv, NEW c \in AdapterCallers, serve(c) PROVE PayInv'
<1> DEFINE o == calls[c]
           at == [customer |-> world.customer,
                  tx |-> IF o.ref \in Refs THEN world.txs[o.ref] ELSE "none", sub |-> world.sub]
<1>1. PICK t \in Truth(c, world) : \E seen \in Garbled(t, o.op) :
        calls' = [calls EXCEPT ![c].answer = seen, ![c].pc = Answered(@), ![c].at = at]
  BY DEF serve
<1>2. PICK seen \in Garbled(t, o.op) :
        calls' = [calls EXCEPT ![c].answer = seen, ![c].pc = Answered(@), ![c].at = at]
  BY <1>1
<1> DEFINE k == [o EXCEPT !.answer = seen, !.pc = Answered(@), !.at = at]
<1>3. CallShape(o) /\ CallFits(o, world, c, effects) /\ o.pc \in {"read", "write"} /\ o.op \in Ops
  BY DEF PayInv, serve, CallFits
<1> HIDE DEF at
<1>4. /\ k.op = o.op /\ k.ref = o.ref /\ k.answer = seen /\ k.pc = Answered(o.pc) /\ k.at = at
      /\ CallShape(k)
  BY <1>3 DEF CallShape, Answered
<1>5. calls' = [calls EXCEPT ![c] = k]
  BY <1>2
<1>6. /\ world' = Effect(c, world) /\ event' = event
      /\ effects' = IF Effect(c, world) = world THEN effects ELSE effects \cup {c}
  BY DEF serve
<1> HIDE DEF k
<1>7. AnswerMeans(k, Effect(c, world), c, effects')
  BY <1>3, <1>4, <1>6, ServedAnswer DEF at
<1>8. CallFits(k, world', c, effects')
  BY <1>3, <1>4, <1>6, <1>7 DEF CallFits, Answered
<1>9. world' \in AdapterWorlds /\ HoldsMore(world, world')
  BY <1>3, <1>6, EffectGrows
<1>10. CallMoves(c, k)
  BY <1>4, <1>5, <1>6, <1>8, <1>9 DEF CallMoves
<1> QED
  BY <1>10, OneCall

\* The provider moves by itself: its records grow.
LEMMA ProviderMovesKeeps ==
    ASSUME PayInv, providerMoves PROVE PayInv'
<1>1. world \in AdapterWorlds /\ UNCHANGED <<calls, effects, event>>
  BY DEF PayInv, providerMoves
<1>2. world' \in AdapterWorlds /\ HoldsMore(world, world')
  <2>1. ASSUME NEW r \in Refs, world' = [world EXCEPT !.txs[r] = "success", !.sub = "active"]
        PROVE  world' \in AdapterWorlds /\ HoldsMore(world, world')
    <3>1. /\ world' \in AdapterWorlds /\ world'.txs = [world.txs EXCEPT ![r] = "success"]
          /\ world'.customer = world.customer /\ world'.sub = "active"
          /\ world.txs \in [Refs -> {"none", "pending", "success"}]
      BY <1>1, <2>1 DEF AdapterWorlds
    <3> QED
      BY <3>1 DEF HoldsMore
  <2>2. CASE world.sub \in {"active", "non-renewing"} /\ world' = [world EXCEPT !.sub = "completed"]
    BY <1>1, <2>2 DEF AdapterWorlds, HoldsMore
  <2> QED
    BY <2>1, <2>2 DEF providerMoves
<1>3. \A c \in AdapterCallers : CallFits(calls[c], world', c, effects)
  BY <1>2, CallKeeps DEF PayInv
<1> QED
  BY <1>1, <1>2, <1>3 DEF PayInv

-----------------------------------------------------------------------------
(* The answers come back.                                                  *)

\* A call that ends with a verdict its answer supports.
LEMMA DoneStep ==
    ASSUME PayInv, NEW c \in AdapterCallers, calls[c].pc \in {"read-answered", "write-answered"},
           NEW verdict, NEW state, Done(c, verdict, state), UNCHANGED <<world, effects, event>>,
           \A k : k.op = calls[c].op /\ k.ref = calls[c].ref /\ k.at = calls[c].at
                  /\ k.verdict = verdict /\ k.state = state => Verdict(k, world, c, effects)
    PROVE  PayInv'
<1> DEFINE o == calls[c]
           k == [o EXCEPT !.pc = "done", !.verdict = verdict, !.state = state, !.answer = NoAnswer]
<1>1. CallShape(o) /\ CallFits(o, world, c, effects)
  BY DEF PayInv
<1>2. /\ k.op = o.op /\ k.ref = o.ref /\ k.at = o.at /\ k.verdict = verdict /\ k.state = state
      /\ k.pc = "done" /\ CallShape(k)
  BY <1>1 DEF CallShape
<1>3. calls' = [calls EXCEPT ![c] = k]
  BY DEF Done
<1> HIDE DEF k
<1>4. Verdict(k, world, c, effects)
  BY <1>2
<1>5. CallFits(k, world, c, effects)
  BY <1>1, <1>2, <1>4 DEF CallFits
<1> QED
  BY <1>2, <1>3, <1>5, LocalMove

\* The reasons the client throws are none of the verdicts it returns.
Reasons == {"provider_unavailable", "unexpected_response", "ambiguous_not_found", "provider_rejected",
            "not_found"}
LEMMA RequestReasons ==
    \A a : request(a, FALSE) \in Reasons \cup {"ok"} /\ fetched(a) \in Reasons \cup {"ok"}
<1>1. \A m : classifyNotFound(m) \in Reasons
  BY DEF classifyNotFound, Reasons
<1>2. \A a : request(a, FALSE) \in Reasons \cup {"ok"} /\ request(a, TRUE) \in Reasons \cup {"ok"}
  BY <1>1 DEF request, Reasons
<1> QED
  BY <1>2 DEF fetched, Reasons

\* What an answered call knows.
LEMMA Knows ==
    ASSUME PayInv, NEW c \in AdapterCallers, calls[c].pc \in {"read-answered", "write-answered"}
    PROVE  AnswerMeans(calls[c], world, c, effects)
  BY DEF PayInv, CallFits

\* findCustomer returns.
LEMMA CustomerFoundKeeps ==
    ASSUME PayInv, NEW c \in AdapterCallers, customerFound(c) PROVE PayInv'
<1> DEFINE o == calls[c]
           why == fetched(o.answer)
<1>1. o.op = "findCustomer" /\ o.pc = "read-answered" /\ UNCHANGED <<world, effects, event>>
  BY DEF customerFound
<1>2. why = "not_found" => ~o.at.customer
  BY <1>1, Knows DEF AnswerMeans
<1>3. why \in Reasons \cup {"ok"}
  BY RequestReasons
<1> HIDE DEF why
<1>4. \/ why = "ok" /\ Done(c, "found", "provisioned")
      \/ why = "not_found" /\ Done(c, "absent", "none")
      \/ why \in Reasons \ {"not_found"} /\ Done(c, why, "none")
  BY <1>3, Zenon DEF customerFound, why
<1>5. \A k, v : k.op = o.op /\ k.at = o.at /\ k.verdict = v
                /\ (v = "found" \/ (v = "absent" /\ why = "not_found") \/ v \in Reasons)
                => Verdict(k, world, c, effects)
  BY <1>1, <1>2 DEF Verdict, Reasons
<1>6. CASE why = "ok" /\ Done(c, "found", "provisioned")
  BY <1>1, <1>5, <1>6, DoneStep
<1>7. CASE why = "not_found" /\ Done(c, "absent", "none")
  BY <1>1, <1>5, <1>7, DoneStep
<1>8. CASE why \in Reasons \ {"not_found"} /\ Done(c, why, "none")
  BY <1>1, <1>5, <1>8, DoneStep
<1> QED
  BY <1>4, <1>6, <1>7, <1>8

\* createCustomer returns.
LEMMA CustomerCreatedKeeps ==
    ASSUME PayInv, NEW c \in AdapterCallers, customerCreated(c) PROVE PayInv'
<1> DEFINE o == calls[c]
           a == o.answer
           why == IF fetched(a) = "ok" /\ a.data.echo = "other" THEN "response_conflict" ELSE fetched(a)
<1>1. o.op = "createCustomer" /\ o.pc = "write-answered" /\ UNCHANGED <<world, effects, event>>
  BY DEF customerCreated
<1>2. why = "ok" => world.customer
  BY <1>1, Knows DEF AnswerMeans
<1>3. why \in Reasons \cup {"ok", "response_conflict"}
  BY RequestReasons
<1>4. (why = "ok" /\ Done(c, "found", "provisioned")) \/ (why # "ok" /\ Done(c, why, "none"))
  BY DEF customerCreated
<1> HIDE DEF why
<1>5. \A k, v : k.op = o.op /\ k.at = o.at /\ k.verdict = v
                /\ ((v = "found" /\ why = "ok") \/ v \in Reasons \cup {"response_conflict"})
                => Verdict(k, world, c, effects)
  BY <1>1, <1>2 DEF Verdict, Reasons
<1>6. CASE why = "ok" /\ Done(c, "found", "provisioned")
  BY <1>1, <1>5, <1>6, DoneStep
<1>7. CASE why # "ok" /\ Done(c, why, "none")
  BY <1>1, <1>3, <1>5, <1>7, DoneStep
<1> QED
  BY <1>4, <1>6, <1>7

\* initializeCheckout returns: the session's status.
LEMMA CheckoutAnsweredKeeps ==
    ASSUME PayInv, NEW c \in AdapterCallers, checkoutAnswered(c) PROVE PayInv'
<1> DEFINE o == calls[c]
           a == o.answer
           why == IF fetched(a) = "ok" /\ a.data.echo # "same" THEN "reference_conflict" ELSE fetched(a)
           v == sessionStatus(why)
<1>1. o.op = "initialize" /\ o.pc = "write-answered" /\ UNCHANGED <<world, effects, event>>
  BY DEF checkoutAnswered
<1>2. /\ why = "ok" => c \in effects /\ world.txs[o.ref] # "none"
      /\ why \in {"provider_rejected", "not_found"} => c \notin effects
  BY <1>1, Knows DEF AnswerMeans
<1>3. why \in Reasons \cup {"ok", "reference_conflict"}
  BY RequestReasons
<1>4. Done(c, v, "none")
  BY DEF checkoutAnswered
<1> HIDE DEF why
<1>5. /\ v \in {"initialized", "failed", "unavailable", "not_found", "ambiguous_not_found",
                "reference_conflict"}
      /\ v = "initialized" => why = "ok"
      /\ v \in {"failed", "not_found"} => why \in {"provider_rejected", "not_found"}
  BY <1>3 DEF sessionStatus, Reasons
<1> HIDE DEF v
<1>6. \A k : k.op = o.op /\ k.ref = o.ref /\ k.verdict = v => Verdict(k, world, c, effects)
  BY <1>1, <1>2, <1>5 DEF Verdict
<1> QED
  BY <1>1, <1>4, <1>6, DoneStep

\* verifySubscription returns.
LEMMA TransactionVerifiedKeeps ==
    ASSUME PayInv, NEW c \in AdapterCallers, transactionVerified(c) PROVE PayInv'
<1> DEFINE o == calls[c]
           a == o.answer
           why == IF fetched(a) # "ok" THEN fetched(a)
                  ELSE IF Echoed(a) # "ok" THEN Echoed(a)
                  ELSE IF a.data.status # "success" THEN "unexpected_response" ELSE "ok"
<1>1. o.op = "verify" /\ o.pc = "read-answered" /\ UNCHANGED <<world, effects, event>>
  BY DEF transactionVerified
<1>2. why = "ok" => o.at.tx = "success"
  BY <1>1, Knows DEF AnswerMeans
<1>3. Echoed(a) \in {"ok", "response_conflict"}
  BY DEF Echoed
<1>4. why \in Reasons \cup {"ok", "response_conflict"}
  BY <1>3, RequestReasons DEF Reasons
<1>5. (why = "ok" /\ Done(c, "found", "success")) \/ (why # "ok" /\ Done(c, why, "none"))
  BY DEF transactionVerified
<1> HIDE DEF why
<1>6. \A k, v : k.op = o.op /\ k.at = o.at /\ k.verdict = v
                /\ ((v = "found" /\ why = "ok") \/ v \in Reasons \cup {"response_conflict"})
                => Verdict(k, world, c, effects)
  BY <1>1, <1>2 DEF Verdict, Reasons
<1>7. CASE why = "ok" /\ Done(c, "found", "success")
  BY <1>1, <1>6, <1>7, DoneStep
<1>8. CASE why # "ok" /\ Done(c, why, "none")
  BY <1>1, <1>4, <1>6, <1>8, DoneStep
<1> QED
  BY <1>5, <1>7, <1>8

\* findSubscription returns, with the state the provider had when it answered.
LEMMA SubscriptionFoundKeeps ==
    ASSUME PayInv, NEW c \in AdapterCallers, subscriptionFound(c) PROVE PayInv'
<1> DEFINE o == calls[c]
           a == o.answer
           why == IF fetched(a) # "ok" THEN fetched(a)
                  ELSE IF Echoed(a) # "ok" THEN Echoed(a) ELSE subscriptionPayment(a)
           state == paystackLifecycleState(a.data.status)
<1>1. o.op = "findSubscription" /\ o.pc = "read-answered" /\ UNCHANGED <<world, effects, event>>
  BY DEF subscriptionFound
<1>2. Echoed(a) \in {"ok", "response_conflict"} /\ subscriptionPayment(a) \in {"ok", "unexpected_response"}
  BY DEF Echoed, subscriptionPayment
<1>3. /\ why = "ok" => o.at.sub # "none" /\ state = paystackLifecycleState(o.at.sub)
      /\ why = "not_found" => o.at.sub = "none"
  BY <1>1, <1>2, Knows DEF AnswerMeans
<1>4. why \in Reasons \cup {"ok", "response_conflict"}
  BY <1>2, RequestReasons DEF Reasons
<1> HIDE DEF why, state
<1>5. \/ why = "ok" /\ Done(c, "found", state)
      \/ why = "not_found" /\ Done(c, "absent", "none")
      \/ why \in (Reasons \cup {"response_conflict"}) \ {"not_found"} /\ Done(c, why, "none")
  BY <1>4, Zenon DEF subscriptionFound, why, state
<1>6. \A k, v : k.op = o.op /\ k.at = o.at /\ k.verdict = v
                /\ \/ v = "found" /\ why = "ok" /\ k.state = state
                   \/ v = "absent" /\ why = "not_found"
                   \/ v \in Reasons \cup {"response_conflict"}
                => Verdict(k, world, c, effects)
  BY <1>1, <1>3 DEF Verdict, Reasons
<1>7. CASE why = "ok" /\ Done(c, "found", state)
  BY <1>1, <1>6, <1>7, DoneStep
<1>8. CASE why = "not_found" /\ Done(c, "absent", "none")
  BY <1>1, <1>6, <1>8, DoneStep
<1>9. CASE why \in (Reasons \cup {"response_conflict"}) \ {"not_found"} /\ Done(c, why, "none")
  BY <1>1, <1>6, <1>9, DoneStep
<1> QED
  BY <1>5, <1>7, <1>8, <1>9

\* A cancellation reads first: it then sends its write, or leaves the record alone.
LEMMA DisableKeeps ==
    ASSUME PayInv, NEW c \in AdapterCallers, disableSubscription(c) PROVE PayInv'
<1> DEFINE o == calls[c]
           k == [o EXCEPT !.pc = "write", !.answer = NoAnswer]
<1>1. o.op = "cancel" /\ o.pc = "read-answered" /\ UNCHANGED <<world, effects, event>>
  BY DEF disableSubscription
<1>2. c \notin effects
  BY <1>1, Knows DEF AnswerMeans
<1>3. CallShape(o) /\ CallFits(o, world, c, effects)
  BY DEF PayInv
<1>4. CASE calls' = [calls EXCEPT ![c].pc = "write", ![c].answer = NoAnswer]
  <2>1. k.pc = "write" /\ k.op = "cancel" /\ CallShape(k) /\ calls' = [calls EXCEPT ![c] = k]
    BY <1>1, <1>3, <1>4 DEF CallShape
  <2> HIDE DEF k
  <2>2. CallFits(k, world, c, effects)
    BY <1>2, <2>1 DEF CallFits, Ops
  <2> QED
    BY <1>1, <2>1, <2>2, LocalMove
<1>5. ASSUME NEW why, Done(c, "untouched", why) PROVE PayInv'
  <2>1. \A j : j.op = o.op /\ j.verdict = "untouched" => Verdict(j, world, c, effects)
    BY <1>1, <1>2 DEF Verdict
  <2> QED
    BY <1>1, <1>5, <2>1, DoneStep
<1> QED
  BY <1>4, <1>5 DEF disableSubscription

\* A cancellation is reported done only when its own write took effect.
LEMMA DisabledKeeps ==
    ASSUME PayInv, NEW c \in AdapterCallers, subscriptionDisabled(c) PROVE PayInv'
<1> DEFINE o == calls[c]
           why == request(o.answer, FALSE)
           state == paystackLifecycleState("non-renewing")
<1>1. o.op = "cancel" /\ o.pc = "write-answered" /\ UNCHANGED <<world, effects, event>>
  BY DEF subscriptionDisabled
<1>2. why = "ok" => c \in effects /\ world.sub # "none"
  BY <1>1, Knows DEF AnswerMeans
<1>3. why \in Reasons \cup {"ok"}
  BY RequestReasons
<1>4. (why = "ok" /\ Done(c, "cancelled", state)) \/ (why # "ok" /\ Done(c, why, "none"))
  BY DEF subscriptionDisabled
<1> HIDE DEF why, state
<1>5. \A k, v : k.op = o.op /\ k.verdict = v /\ ((v = "cancelled" /\ why = "ok") \/ v \in Reasons)
                => Verdict(k, world, c, effects)
  BY <1>1, <1>2 DEF Verdict, Reasons
<1>6. CASE why = "ok" /\ Done(c, "cancelled", state)
  BY <1>1, <1>5, <1>6, DoneStep
<1>7. CASE why # "ok" /\ Done(c, why, "none")
  BY <1>1, <1>3, <1>5, <1>7, DoneStep
<1> QED
  BY <1>4, <1>6, <1>7

\* A delivery states a payment only in its own domain, in the expected currency.
LEMMA NormalizeKeeps ==
    ASSUME AdapterAssumption, PayInv, NEW d \in Deliveries, normalizeEvent(d) PROVE PayInv'
<1>1. event' = [delivery |-> <<d>>, facts |-> normalizePaystackEventPayload(d)] /\ UNCHANGED <<world, calls, effects>>
  BY DEF normalizeEvent
<1>2. event'.facts = normalizePaystackEventPayload(d) /\ event'.delivery[1] = d
  BY <1>1
<1>3. \A why : ~Refused(why).pays
  BY DEF Refused, Facts
<1>4. \A x, y : ~Facts(x, y, FALSE).pays
  BY DEF Facts
<1>5. normalizePaystackEventPayload(d).pays =>
        d.domain = Mode /\ d.currency /\ (d.name = "charge.success" => d.status = "success")
  <2>1. SUFFICES ASSUME normalizePaystackEventPayload(d).pays
                 PROVE  d.domain = Mode /\ d.currency /\ (d.name = "charge.success" => d.status = "success")
    OBVIOUS
  <2>2. d.name # "unreadable" /\ d.name # "other" /\ d.well /\ d.domain = Mode
    BY <1>3, <1>4, <2>1 DEF normalizePaystackEventPayload
  <2>3. normalizePaystackEventPayload(d) =
          CASE d.name = "charge.success" -> normalizeChargeSuccess(d)
            [] d.name = "subscription.create" -> normalizeSubscriptionCreate(d)
            [] d.name = "invoice.update" -> invoiceFacts(d, ~d.paid)
            [] d.name = "invoice.payment_failed" -> invoiceFacts(d, TRUE)
    BY <2>2 DEF normalizePaystackEventPayload
  <2>4. CASE d.name = "charge.success"
    BY <1>3, <2>1, <2>2, <2>3, <2>4 DEF normalizeChargeSuccess
  <2>5. CASE d.name = "subscription.create"
    BY <1>3, <2>1, <2>2, <2>3, <2>5 DEF normalizeSubscriptionCreate
  <2>6. CASE d.name \in {"invoice.update", "invoice.payment_failed"}
    <3>1. \A failed : ~invoiceFacts(d, failed).pays
      BY <1>4, Zenon DEF invoiceFacts
    <3> QED
      BY <2>1, <2>3, <2>6, <3>1
  <2> QED
    BY <2>2, <2>4, <2>5, <2>6 DEF AdapterAssumption
<1> QED
  BY <1>1, <1>2, <1>5 DEF PayInv

-----------------------------------------------------------------------------
\* Every step keeps the invariant.
LEMMA PayNextInv ==
    ASSUME AdapterAssumption, PayInv, [AdapterNext]_adapterVars PROVE PayInv'
<1>1. ASSUME NEW c \in AdapterCallers, NEW r \in Refs, initializeCheckout(c, r) \/ verifySubscription(c, r)
      PROVE  PayInv'
  BY <1>1, InitializeKeeps, OperationBegins
<1>2. ASSUME NEW c \in AdapterCallers, findCustomer(c) \/ createCustomer(c) \/ findSubscription(c)
      PROVE  PayInv'
  BY <1>2, OperationBegins
<1>3. ASSUME NEW c \in AdapterCallers, NEW immediate \in BOOLEAN, cancelSubscription(c, immediate)
      PROVE  PayInv'
  <2>1. RefusedCancel(c) \/ begin(c, "cancel", "read", "none")
    BY <1>3, CancelBegins
  <2> QED
    BY <2>1, CancelKeeps, Zenon
<1>4. ASSUME NEW c \in AdapterCallers, serve(c) \/ lose(c) PROVE PayInv'
  BY <1>4, ServeKeeps, LoseKeeps
<1>5. ASSUME NEW c \in AdapterCallers,
             \/ customerFound(c) \/ customerCreated(c) \/ checkoutAnswered(c)
             \/ transactionVerified(c) \/ subscriptionFound(c)
             \/ disableSubscription(c) \/ subscriptionDisabled(c)
      PROVE  PayInv'
  BY <1>5, CustomerFoundKeeps, CustomerCreatedKeeps, CheckoutAnsweredKeeps, TransactionVerifiedKeeps,
     SubscriptionFoundKeeps, DisableKeeps, DisabledKeeps
<1>6. CASE providerMoves
  BY <1>6, ProviderMovesKeeps
<1>7. ASSUME NEW d \in Deliveries, normalizeEvent(d) PROVE PayInv'
  BY <1>7, NormalizeKeeps
<1>8. CASE UNCHANGED adapterVars
  BY <1>8 DEF adapterVars, PayInv
<1> QED
  BY <1>1, <1>2, <1>3, <1>4, <1>5, <1>6, <1>7, <1>8 DEF AdapterNext, CallsNext, DeliveriesNext

\* The invariant of the payment adapter (packages/providers/paystack): what each
\* answer means whatever the network made of it, for any number of calls.
THEOREM PayInvariance == ASSUME AdapterAssumption PROVE AdapterSpec => []PayInv
<1>1. PayInv /\ [AdapterNext]_adapterVars => PayInv'
  BY PayNextInv
<1> QED
  BY <1>1, PayInit, PTL DEF AdapterSpec

\* The invariant says what the adapter promises.
LEMMA PayIsTruth == PayInv => AdapterTellsTruth
<1> SUFFICES ASSUME PayInv PROVE AdapterTellsTruth
  OBVIOUS
<1>1. AdapterTypeOK
  BY DEF PayInv, AdapterTypeOK, AdapterWorlds, CallShape
<1>2. \A c \in AdapterCallers : calls[c].pc = "done" => Verdict(calls[c], world, c, effects)
  BY DEF PayInv, CallFits
<1>3. AdapterTellsTruth
  BY <1>1, <1>2 DEF PayInv, AdapterTellsTruth, Verdict
<1> QED
  BY <1>3

\* What the adapter tells its caller is what the provider said and holds (the six
\* operations of provider.ts, over client.ts's request), and no delivery of another
\* domain or that contradicts itself states a payment (events.ts).
THEOREM AdapterIsTruthful ==
    ASSUME AdapterAssumption PROVE AdapterSpec => []AdapterTellsTruth
  BY PayInvariance, PayIsTruth, PTL

-----------------------------------------------------------------------------
(* Synchronisation of subscriptions: the inductive invariant.              *)

SyncRow == [exists : BOOLEAN, version : Nat, status : Statuses \cup {Unset}, code : DOMAIN IdOf \cup {Unset},
            subId : Ids \cup {Unset}, sync : {"never_synced", "pending", "synced", "conflict"},
            synced : 0..Len(StateAt)]
SyncTask == [at : {"idle", "record", "owner", "bind", "verify", "apply"}, event : Events \cup {Unset},
             user : Accounts \cup {Unset}, row : SyncRow, seen : 0..Len(StateAt)]
SyncShapes ==
    /\ rows \in [Accounts -> SyncRow]
    /\ ledger \in [Events -> [status : Settled \cup {"absent", "received"}, user : Accounts \cup {Unset}]]
    /\ view \in [Accounts -> 1..Len(StateAt)]
    /\ task \in [SyncWorkers -> SyncTask]

\* A row shows the view last applied, which is not beyond the provider's.
RowFits(r, now) ==
    /\ ~r.exists => r.version = 0 /\ r.code = Unset /\ r.subId = Unset /\ r.synced = 0
    /\ r.synced <= now
    /\ r.sync = "synced" => r.exists /\ r.synced # 0 /\ r.status \in Statuses /\ r.status = StateAt[r.synced]

\* What a worker holds: the row it read, the row as it is unless the version moved
\* since, and then a view no older than the one applied.
TaskFits(k, table, now) ==
    /\ k.at \in {"record", "owner", "bind"} =>
          k.event \in Events /\ (k.user # Unset => k.user \in Accounts /\ table[k.user].exists)
    /\ k.at \in {"owner", "bind"} => k.user # Unset
    /\ k.at \in {"verify", "apply"} =>
          /\ k.user \in Accounts /\ table[k.user].exists
          /\ k.row.version <= table[k.user].version
          /\ k.row.version = table[k.user].version => k.row = table[k.user]
    /\ k.at = "apply" =>
          /\ k.seen # 0 /\ k.seen <= now[k.user]
          /\ k.row.version = table[k.user].version => table[k.user].synced <= k.seen

OneIdentity(table) ==
    \A u \in Accounts : \A v \in Accounts \ {u} :
        /\ table[u].code # Unset => table[u].code # table[v].code
        /\ table[u].subId # Unset => table[u].subId # table[v].subId

SyncInv ==
    /\ SyncShapes
    /\ \A u \in Accounts : RowFits(rows[u], view[u])
    /\ OneIdentity(rows)
    /\ \A w \in SyncWorkers : TaskFits(task[w], rows, view)

-----------------------------------------------------------------------------
\* The empty row and the idle task are well formed.
LEMMA RestingShape == NoRow \in SyncRow /\ Resting \in SyncTask /\ Resting.at = "idle"
<1>1. 0 \in 0..Len(StateAt)
  BY SyncAssumption
<1>2. NoRow \in SyncRow
  BY <1>1 DEF NoRow, SyncRow, Unset
<1> QED
  BY <1>1, <1>2 DEF Resting, SyncTask, Unset

\* Nobody has checked out initially.
LEMMA SyncInitInv == SyncInit => SyncInv
<1> SUFFICES ASSUME SyncInit PROVE SyncInv
  OBVIOUS
<1>1. 1 \in 1..Len(StateAt)
  BY SyncAssumption
<1>2. SyncShapes
  BY <1>1, RestingShape DEF SyncInit, SyncShapes
<1>3. \A u \in Accounts : rows[u] = NoRow /\ view[u] = 1
  BY DEF SyncInit
<1>4. \A u \in Accounts : RowFits(rows[u], view[u])
  BY <1>3 DEF RowFits, NoRow
<1>5. OneIdentity(rows)
  BY <1>3 DEF OneIdentity, NoRow, Unset
<1>6. \A w \in SyncWorkers : task[w].at = "idle"
  BY RestingShape DEF SyncInit
<1>7. \A w \in SyncWorkers : TaskFits(task[w], rows, view)
  BY <1>6 DEF TaskFits
<1> QED
  BY <1>2, <1>4, <1>5, <1>7 DEF SyncInv

\* What any step may do to the rows, and what it leaves of them.
RowAdvances(r, n) ==
    /\ n.synced >= r.synced
    /\ r.code # Unset => n.code = r.code
    /\ r.subId # Unset => n.subId = r.subId
RowsAdvance == (\A u \in Accounts : RowAdvances(rows[u], rows'[u])) /\ OneIdentity(rows')

\* A step that changes one worker's task only.
LEMMA TaskMove ==
    ASSUME SyncInv, NEW w \in SyncWorkers, NEW k \in SyncTask, TaskFits(k, rows, view),
           task' = [task EXCEPT ![w] = k], UNCHANGED <<rows, view>>,
           ledger' \in [Events -> [status : Settled \cup {"absent", "received"}, user : Accounts \cup {Unset}]]
    PROVE  SyncInv' /\ RowsAdvance
<1>1. SyncShapes'
  BY DEF SyncInv, SyncShapes
<1>2. \A x \in SyncWorkers : task'[x] = IF x = w THEN k ELSE task[x]
  BY DEF SyncInv, SyncShapes
<1>3. \A x \in SyncWorkers : TaskFits(task'[x], rows, view)
  BY <1>2 DEF SyncInv
<1>4. rows \in [Accounts -> SyncRow] /\ OneIdentity(rows)
  BY DEF SyncInv, SyncShapes
<1>5. \A u \in Accounts : rows[u].synced \in Nat
  BY <1>4, SyncAssumption DEF SyncRow
<1>6. RowsAdvance
  BY <1>4, <1>5 DEF RowsAdvance, RowAdvances
<1> QED
  BY <1>1, <1>3, <1>6 DEF SyncInv

\* What a row becomes when it is written: its version grows, an identity it has
\* stays, one it gets is nobody else's.
RowWritten(u, n) ==
    /\ n \in SyncRow /\ n.version > rows[u].version /\ n.exists
    /\ RowFits(n, view[u]) /\ RowAdvances(rows[u], n)
    /\ n.code # rows[u].code => \A v \in Accounts \ {u} : rows[v].code # n.code
    /\ n.subId # rows[u].subId => \A v \in Accounts \ {u} : rows[v].subId # n.subId

\* A step that writes one row, by a worker that then rests or by nobody.
LEMMA RowWrite ==
    ASSUME SyncInv, NEW u \in Accounts, NEW n, RowWritten(u, n), rows' = [rows EXCEPT ![u] = n],
           view' = view, task' \in [SyncWorkers -> SyncTask],
           \A w \in SyncWorkers : task'[w] \in {task[w], Resting},
           ledger' \in [Events -> [status : Settled \cup {"absent", "received"}, user : Accounts \cup {Unset}]]
    PROVE  SyncInv' /\ RowsAdvance
<1>1. rows \in [Accounts -> SyncRow] /\ n \in SyncRow /\ task \in [SyncWorkers -> SyncTask]
  BY DEF SyncInv, SyncShapes, RowWritten
<1>2. /\ rows' \in [Accounts -> SyncRow]
      /\ \A v \in Accounts : rows'[v] = IF v = u THEN n ELSE rows[v]
  BY <1>1
<1>3. SyncShapes'
  BY <1>2 DEF SyncInv, SyncShapes
<1>4. \A v \in Accounts : RowFits(rows'[v], view[v])
  BY <1>2 DEF SyncInv, RowWritten
<1>5. \A v \in Accounts : rows[v].synced \in Nat /\ rows[v].version \in Nat
  BY <1>1, SyncAssumption DEF SyncRow
<1>6. OneIdentity(rows')
  <2> SUFFICES ASSUME NEW x \in Accounts, NEW v \in Accounts \ {x}
               PROVE  /\ rows'[x].code # Unset => rows'[x].code # rows'[v].code
                      /\ rows'[x].subId # Unset => rows'[x].subId # rows'[v].subId
    BY DEF OneIdentity
  <2>1. /\ rows[x].code # Unset => rows[x].code # rows[v].code
        /\ rows[v].code # Unset => rows[v].code # rows[x].code
        /\ rows[x].subId # Unset => rows[x].subId # rows[v].subId
        /\ rows[v].subId # Unset => rows[v].subId # rows[x].subId
    BY DEF SyncInv, OneIdentity
  <2> QED
    BY <1>2, <2>1 DEF RowWritten, RowAdvances
<1>7. RowsAdvance
  BY <1>2, <1>5, <1>6 DEF RowsAdvance, RowWritten, RowAdvances
<1>8. ASSUME NEW w \in SyncWorkers PROVE TaskFits(task'[w], rows', view)
  <2>1. CASE task'[w] = Resting
    BY <2>1, RestingShape DEF TaskFits
  <2>2. CASE task'[w] = task[w]
    <3>1. TaskFits(task[w], rows, view) /\ task[w] \in SyncTask
      BY <1>1 DEF SyncInv
    <3>2. task[w].row.version \in Nat /\ n.version \in Nat /\ n.version > rows[u].version /\ n.exists
      BY <1>1, <3>1 DEF SyncTask, SyncRow, RowWritten
    <3> QED
      BY <1>2, <1>5, <2>2, <3>1, <3>2 DEF TaskFits
  <2> QED
    BY <2>1, <2>2
<1> QED
  BY <1>3, <1>4, <1>6, <1>7, <1>8 DEF SyncInv

LedgerShape == [Events -> [status : Settled \cup {"absent", "received"}, user : Accounts \cup {Unset}]]

\* A worker that forgets what it did, with the rows untouched.
LEMMA ForgetStep ==
    ASSUME SyncInv, NEW w \in SyncWorkers, Forgets(w), UNCHANGED <<rows, view>>, ledger' \in LedgerShape
    PROVE  SyncInv' /\ RowsAdvance
<1>1. TaskFits(Resting, rows, view)
  BY RestingShape DEF TaskFits
<1> QED
  BY <1>1, RestingShape, TaskMove DEF Forgets, LedgerShape

\* A checkout creates the row.
LEMMA CheckOutStep ==
    ASSUME SyncInv, NEW u \in Accounts, checkOut(u) PROVE SyncInv' /\ RowsAdvance
<1> DEFINE n == [NoRow EXCEPT !.exists = TRUE, !.version = 1, !.status = "active"]
<1>1. /\ rows' = [rows EXCEPT ![u] = n] /\ UNCHANGED <<ledger, view, task>> /\ ~rows[u].exists
      /\ RowFits(rows[u], view[u]) /\ rows[u] \in SyncRow /\ view[u] \in 1..Len(StateAt)
  BY DEF checkOut, SyncInv, SyncShapes
<1>2. 0 \in 0..Len(StateAt) /\ view[u] >= 0
  BY <1>1, SyncAssumption
<1>3. /\ n \in SyncRow /\ n.version = 1 /\ n.exists /\ n.code = Unset /\ n.subId = Unset /\ n.synced = 0
      /\ n.sync = "never_synced"
  BY <1>2 DEF NoRow, SyncRow, Unset, Statuses
<1> HIDE DEF n
<1>4. RowWritten(u, n)
  BY <1>1, <1>2, <1>3 DEF RowWritten, RowFits, RowAdvances
<1>5. task' \in [SyncWorkers -> SyncTask] /\ ledger' \in LedgerShape
  BY <1>1 DEF SyncInv, SyncShapes, LedgerShape
<1> QED
  BY <1>1, <1>4, <1>5, RowWrite DEF LedgerShape

\* The provider's view moves on.
LEMMA ViewStep ==
    ASSUME SyncInv, NEW u \in Accounts, viewMoves(u) PROVE SyncInv' /\ RowsAdvance
<1>1. /\ view \in [Accounts -> 1..Len(StateAt)] /\ view[u] < Len(StateAt)
      /\ view' = [view EXCEPT ![u] = @ + 1] /\ UNCHANGED <<rows, ledger, task>>
  BY DEF viewMoves, SyncInv, SyncShapes
<1>2. view[u] + 1 \in 1..Len(StateAt)
  BY <1>1, SyncAssumption
<1>3. view' \in [Accounts -> 1..Len(StateAt)] /\ \A v \in Accounts : view'[v] >= view[v]
  BY <1>1, <1>2, SyncAssumption
<1>4. /\ rows \in [Accounts -> SyncRow] /\ task \in [SyncWorkers -> SyncTask] /\ OneIdentity(rows)
      /\ \A v \in Accounts : RowFits(rows[v], view[v])
      /\ \A w \in SyncWorkers : TaskFits(task[w], rows, view)
  BY DEF SyncInv, SyncShapes
<1>5. \A v \in Accounts : rows[v].synced \in Nat /\ view[v] \in Nat /\ view'[v] \in Nat
  BY <1>1, <1>3, <1>4, SyncAssumption DEF SyncRow
<1>6. \A w \in SyncWorkers : task[w].seen \in Nat
  BY <1>4, SyncAssumption DEF SyncTask
<1>7. \A v \in Accounts : RowFits(rows[v], view'[v])
  BY <1>3, <1>4, <1>5 DEF RowFits
<1>8. \A w \in SyncWorkers : TaskFits(task[w], rows, view')
  BY <1>3, <1>4, <1>5, <1>6 DEF TaskFits
<1>9. RowsAdvance
  BY <1>1, <1>4, <1>5 DEF RowsAdvance, RowAdvances
<1> QED
  BY <1>1, <1>3, <1>4, <1>7, <1>8, <1>9 DEF SyncInv, SyncShapes

\* A delivery arrives.
LEMMA ReceiveStep ==
    ASSUME SyncInv, NEW w \in SyncWorkers, NEW e \in Events, receive(w, e) PROVE SyncInv' /\ RowsAdvance
<1> DEFINE k == [Resting EXCEPT !.at = "record", !.event = e, !.user = createBillingEventSubjectResolver(e)]
<1>1. task' = [task EXCEPT ![w] = k] /\ UNCHANGED <<rows, ledger, view>>
  BY DEF receive
<1>2. /\ createBillingEventSubjectResolver(e) \in Accounts \cup {Unset}
      /\ createBillingEventSubjectResolver(e) # Unset => rows[createBillingEventSubjectResolver(e)].exists
      /\ createBillingEventSubjectResolver(e) # Unset => createBillingEventSubjectResolver(e) \in Accounts
  BY SyncAssumption DEF createBillingEventSubjectResolver
<1>3. k \in SyncTask /\ k.at = "record" /\ k.event = e /\ k.user = createBillingEventSubjectResolver(e)
  BY <1>2, RestingShape DEF SyncTask, Resting
<1> HIDE DEF k
<1>4. TaskFits(k, rows, view)
  BY <1>2, <1>3 DEF TaskFits
<1>5. ledger' \in LedgerShape
  BY <1>1 DEF SyncInv, SyncShapes, LedgerShape
<1> QED
  BY <1>1, <1>3, <1>4, <1>5, TaskMove DEF LedgerShape

\* A worker moves to another place with what it holds.
LEMMA PlaceStep ==
    ASSUME SyncInv, NEW w \in SyncWorkers, NEW place \in {"owner", "bind"}, Moves(w, place),
           task[w].at \in {"record", "owner"}, task[w].user # Unset, UNCHANGED <<rows, view>>,
           ledger' \in LedgerShape
    PROVE  SyncInv' /\ RowsAdvance
<1> DEFINE o == task[w]
           k == [o EXCEPT !.at = place]
<1>1. o \in SyncTask /\ TaskFits(o, rows, view) /\ task' = [task EXCEPT ![w] = k]
  BY DEF SyncInv, SyncShapes, Moves
<1>2. k \in SyncTask /\ k.at = place /\ k.event = o.event /\ k.user = o.user
  BY <1>1 DEF SyncTask
<1> HIDE DEF k
<1>3. TaskFits(k, rows, view)
  BY <1>1, <1>2 DEF TaskFits
<1> QED
  BY <1>1, <1>2, <1>3, TaskMove DEF LedgerShape

\* The event is recorded once, under its key.
LEMMA RecordStep ==
    ASSUME SyncInv, NEW w \in SyncWorkers, recordEvent(w) PROVE SyncInv' /\ RowsAdvance
<1> DEFINE e == task[w].event
<1>1. /\ e \in Events /\ task[w].at = "record" /\ task[w].user \in Accounts \cup {Unset}
      /\ ledger \in LedgerShape /\ UNCHANGED <<rows, view>>
  BY DEF SyncInv, SyncShapes, TaskFits, recordEvent, SyncTask, LedgerShape
<1>2. ledger' \in LedgerShape
  <2>1. [status |-> "received", user |-> task[w].user]
          \in [status : Settled \cup {"absent", "received"}, user : Accounts \cup {Unset}]
    BY <1>1
  <2> QED
    BY <1>1, <2>1 DEF recordEvent, LedgerShape
<1>3. CASE bindsCode(e, task[w].user)
  BY <1>1, <1>2, <1>3, PlaceStep DEF recordEvent, bindsCode
<1>4. CASE ~bindsCode(e, task[w].user)
  BY <1>1, <1>2, <1>4, ForgetStep DEF recordEvent
<1> QED
  BY <1>3, <1>4

\* The code has no owner yet, or the delivery ends here.
LEMMA OwnerStep ==
    ASSUME SyncInv, NEW w \in SyncWorkers, bindSubscriptionCode(w) \/ abandon(w) PROVE SyncInv' /\ RowsAdvance
<1>1. UNCHANGED <<rows, ledger, view>> /\ ledger' \in LedgerShape
  BY DEF bindSubscriptionCode, abandon, SyncInv, SyncShapes, LedgerShape
<1>2. CASE Forgets(w)
  BY <1>1, <1>2, ForgetStep
<1>3. CASE bindSubscriptionCode(w) /\ Moves(w, "bind")
  <2>1. task[w].at = "owner" /\ task[w].user # Unset
    BY <1>3 DEF bindSubscriptionCode, SyncInv, TaskFits
  <2> QED
    BY <1>1, <1>3, <2>1, PlaceStep
<1> QED
  BY <1>2, <1>3 DEF bindSubscriptionCode, abandon

\* The guarded UPDATE binds a code to a row that has none, if no row has it.
LEMMA BindStep ==
    ASSUME SyncInv, NEW w \in SyncWorkers, bindProviderSubscriptionCode(w) PROVE SyncInv' /\ RowsAdvance
<1> DEFINE code == EventCode[task[w].event]
           u == task[w].user
           n == [rows[u] EXCEPT !.code = code, !.version = @ + 1]
<1>1. /\ TaskFits(task[w], rows, view) /\ task[w].at = "bind" /\ Forgets(w) /\ UNCHANGED <<ledger, view>>
      /\ ledger' \in LedgerShape
  BY DEF bindProviderSubscriptionCode, SyncInv, SyncShapes, LedgerShape
<1>2. u \in Accounts /\ rows[u].exists /\ code \in DOMAIN IdOf /\ code # Unset
  BY <1>1, SyncAssumption DEF TaskFits, Unset
<1>3. rows[u] \in SyncRow /\ RowFits(rows[u], view[u])
  BY <1>2 DEF SyncInv, SyncShapes
<1>4. CASE Bindable(rows[u], code) /\ Owners(code) = {}
  <2>1. rows' = [rows EXCEPT ![u] = n]
    BY <1>4 DEF bindProviderSubscriptionCode
  <2>2. rows[u].version \in Nat /\ rows[u].synced \in Nat /\ rows[u].version + 1 \in Nat
    BY <1>3, SyncAssumption DEF SyncRow
  <2>3. /\ n \in SyncRow /\ n.version = rows[u].version + 1 /\ n.code = code /\ n.exists /\ n.subId = rows[u].subId
        /\ n.synced = rows[u].synced /\ n.sync = rows[u].sync /\ n.status = rows[u].status
    BY <1>2, <1>3, <2>2 DEF SyncRow
  <2>4. \A v \in Accounts : rows[v].code # code
    BY <1>4 DEF Owners
  <2>5. rows[u].code = Unset
    BY <1>4 DEF Bindable
  <2> HIDE DEF n
  <2>6. RowFits(n, view[u])
    BY <1>3, <2>3 DEF RowFits
  <2>7. RowWritten(u, n)
    BY <1>2, <2>2, <2>3, <2>4, <2>5, <2>6 DEF RowWritten, RowAdvances
  <2>8. task \in [SyncWorkers -> SyncTask] /\ task' = [task EXCEPT ![w] = Resting]
    BY <1>1 DEF SyncInv, SyncShapes, Forgets
  <2>9. task' \in [SyncWorkers -> SyncTask] /\ \A x \in SyncWorkers : task'[x] \in {task[x], Resting}
    BY <2>8, RestingShape
  <2> QED
    BY <1>1, <1>2, <2>1, <2>7, <2>9, RowWrite DEF LedgerShape
<1>5. CASE ~(Bindable(rows[u], code) /\ Owners(code) = {})
  <2>1. rows' = rows
    BY <1>5 DEF bindProviderSubscriptionCode
  <2> QED
    BY <1>1, <2>1, ForgetStep
<1> QED
  BY <1>4, <1>5

-----------------------------------------------------------------------------
(* Synchronisation.                                                        *)

\* The row is read as it is.
LEMMA ReadStep ==
    ASSUME SyncInv, NEW w \in SyncWorkers, NEW u \in Accounts, readSubscription(w, u)
    PROVE  SyncInv' /\ RowsAdvance
<1> DEFINE k == [Resting EXCEPT !.at = "verify", !.user = u, !.row = rows[u]]
<1>1. /\ task' = [task EXCEPT ![w] = k] /\ UNCHANGED <<rows, ledger, view>> /\ rows[u].exists
      /\ rows[u] \in SyncRow /\ ledger' \in LedgerShape
  BY DEF readSubscription, SyncInv, SyncShapes, LedgerShape
<1>2. k \in SyncTask /\ k.at = "verify" /\ k.user = u /\ k.row = rows[u]
  BY <1>1, RestingShape DEF SyncTask, Resting
<1>3. rows[u].version \in Nat
  BY <1>1 DEF SyncRow
<1> HIDE DEF k
<1>4. TaskFits(k, rows, view)
  BY <1>1, <1>2, <1>3 DEF TaskFits
<1> QED
  BY <1>1, <1>2, <1>4, TaskMove DEF LedgerShape

\* The provider's view is no older than what was applied.
LEMMA VerifyStep ==
    ASSUME SyncInv, NEW w \in SyncWorkers, verifyWithProvider(w) PROVE SyncInv' /\ RowsAdvance
<1> DEFINE o == task[w]
           k == [o EXCEPT !.at = "apply", !.seen = view[o.user]]
<1>1. /\ task' = [task EXCEPT ![w] = k] /\ UNCHANGED <<rows, ledger, view>> /\ o.at = "verify"
      /\ o \in SyncTask /\ TaskFits(o, rows, view) /\ ledger' \in LedgerShape
  BY DEF verifyWithProvider, SyncInv, SyncShapes, LedgerShape
<1>2. o.user \in Accounts
  BY <1>1 DEF TaskFits
<1>3. view[o.user] \in 1..Len(StateAt) /\ RowFits(rows[o.user], view[o.user])
  BY <1>2 DEF SyncInv, SyncShapes
<1>4. view[o.user] \in 0..Len(StateAt) /\ view[o.user] # 0 /\ view[o.user] <= view[o.user]
  BY <1>3, SyncAssumption
<1>5. /\ k \in SyncTask /\ k.at = "apply" /\ k.user = o.user /\ k.row = o.row /\ k.seen = view[o.user]
  BY <1>1, <1>4 DEF SyncTask
<1> HIDE DEF k
<1>6. TaskFits(k, rows, view)
  BY <1>1, <1>3, <1>4, <1>5 DEF TaskFits, RowFits
<1> QED
  BY <1>1, <1>5, <1>6, TaskMove DEF LedgerShape

\* What a synchronisation decides, and what the decision means for the status.
LEMMA PlanMeans ==
    ASSUME NEW row, NEW seen
    PROVE  /\ planSync(row, seen) \in {"conflict", "unchanged", "updated", "ignored", "requires_manual_review"}
           /\ planSync(row, seen) \in {"updated", "unchanged"} =>
                 /\ SUBSCRIPTION_STATUS_FOR_PROVIDER_STATE(StateAt[seen]) = StateAt[seen]
                 /\ StateAt[seen] \in Statuses
  BY DEF planSync, SUBSCRIPTION_STATUS_FOR_PROVIDER_STATE, Statuses, Unset

\* Settling keeps the ledger's shape.
LEMMA SettleShape ==
    ASSUME SyncInv, NEW claimed, NEW outcome
    PROVE  settleBillingProviderEvents(claimed, outcome) \in LedgerShape
<1>1. \A e : settlementFor(outcome, e) \in Settled
  BY DEF settlementFor, Settled
<1>2. ledger \in LedgerShape
  BY DEF SyncInv, SyncShapes, LedgerShape
<1>3. \A e \in Events : [ledger[e] EXCEPT !.status = settlementFor(outcome, e)]
                         \in [status : Settled \cup {"absent", "received"}, user : Accounts \cup {Unset}]
  BY <1>1, <1>2 DEF LedgerShape
<1> QED
  BY <1>2, <1>3 DEF settleBillingProviderEvents, LedgerShape

\* What the applied row says.
LEMMA AppliedFits ==
    ASSUME NEW r \in SyncRow, r.exists, NEW now \in Nat, RowFits(r, now),
           NEW seen \in 0..Len(StateAt), seen # 0, seen <= now, r.synced <= seen,
           NEW id \in Ids \cup {Unset},
           NEW outcome \in {"conflict", "unchanged", "updated", "ignored", "requires_manual_review"},
           outcome \in {"updated", "unchanged"} =>
                 /\ SUBSCRIPTION_STATUS_FOR_PROVIDER_STATE(StateAt[seen]) = StateAt[seen]
                 /\ StateAt[seen] \in Statuses
    PROVE  LET n == updateFromProvider(r, outcome, id, seen) IN
           /\ n \in SyncRow /\ n.version > r.version /\ n.exists
           /\ RowFits(n, now) /\ RowAdvances(r, n) /\ n.code = r.code
           /\ n.subId # r.subId => n.subId = id /\ outcome # "conflict"
<1> DEFINE settles == outcome \in {"updated", "unchanged"}
           n == updateFromProvider(r, outcome, id, seen)
           status == IF settles THEN SUBSCRIPTION_STATUS_FOR_PROVIDER_STATE(StateAt[seen]) ELSE r.status
           subId == IF r.subId = Unset /\ outcome # "conflict" THEN id ELSE r.subId
           sync == CASE settles -> "synced" [] outcome = "ignored" -> "pending" [] OTHER -> "conflict"
           synced == IF outcome # "conflict" THEN seen ELSE r.synced
<1>1. r.version \in Nat /\ r.version + 1 \in Nat /\ r.synced \in Nat /\ seen \in Nat /\ r.version + 1 > r.version
  BY SyncAssumption DEF SyncRow
<1>2. /\ status \in Statuses \cup {Unset} /\ subId \in Ids \cup {Unset} /\ synced \in 0..Len(StateAt)
      /\ sync \in {"pending", "synced", "conflict"} /\ (sync = "synced" => settles)
  BY DEF SyncRow
<1>3. /\ n.version = r.version + 1 /\ n.status = status /\ n.subId = subId /\ n.sync = sync /\ n.synced = synced
      /\ n.exists /\ n.code = r.code
  BY DEF updateFromProvider, SyncRow
<1>4. n \in SyncRow
  <2> HIDE DEF status, subId, sync, synced
  <2>1. n = [r EXCEPT !.version = r.version + 1, !.status = status, !.subId = subId, !.sync = sync, !.synced = synced]
    BY DEF updateFromProvider, SyncRow, status, subId, sync, synced
  <2> QED
    BY <1>1, <1>2, <2>1 DEF SyncRow
<1>5. synced <= now /\ synced >= r.synced
  BY <1>1 DEF RowFits
<1>6. settles => synced = seen /\ status = StateAt[seen] /\ status \in Statuses
  OBVIOUS
<1>7. RowFits(n, now)
  BY <1>2, <1>3, <1>5, <1>6 DEF RowFits
<1>8. RowAdvances(r, n) /\ (n.subId # r.subId => n.subId = id /\ outcome # "conflict")
  BY <1>3, <1>5 DEF RowAdvances
<1> QED
  BY <1>1, <1>3, <1>4, <1>7, <1>8

\* The transaction writes the row it read, or rolls back.
LEMMA ApplyStep ==
    ASSUME SyncInv, NEW w \in SyncWorkers, apply(w) PROVE SyncInv' /\ RowsAdvance
<1> DEFINE u == task[w].user
           row == task[w].row
           seen == task[w].seen
           id == IdToBind(row)
           taken == id # Unset /\ \E v \in Accounts \ {u} : rows[v].subId = id
           outcome == IF taken THEN "conflict" ELSE planSync(row, seen)
           n == updateFromProvider(rows[u], outcome, id, seen)
<1>1. /\ task[w] \in SyncTask /\ TaskFits(task[w], rows, view) /\ task[w].at = "apply" /\ Forgets(w) /\ view' = view
      /\ rows \in [Accounts -> SyncRow]
  BY DEF apply, SyncInv, SyncShapes
<1>2. u \in Accounts /\ rows[u].exists /\ rows[u] \in SyncRow /\ RowFits(rows[u], view[u]) /\ view[u] \in Nat
  BY <1>1, SyncAssumption DEF TaskFits, SyncInv, SyncShapes
<1>3. CASE SameVersion(w)
  <2>1. row = rows[u] /\ rows[u].synced <= seen /\ seen # 0 /\ seen <= view[u] /\ seen \in 0..Len(StateAt)
    BY <1>1, <1>3 DEF TaskFits, SameVersion, SyncTask
  <2>2. PICK claimed \in claimReceivedBillingProviderEvents(u) :
          /\ ledger' = settleBillingProviderEvents(claimed, outcome)
          /\ rows' = [rows EXCEPT ![u] = n]
    BY <1>3, Zenon DEF apply
  <2>3. ledger' \in LedgerShape
    BY <2>2, SettleShape
  <2>4. id \in Ids \cup {Unset}
    BY <1>2, <2>1 DEF IdToBind, Ids, SyncRow
  <2>5. outcome \in {"conflict", "unchanged", "updated", "ignored", "requires_manual_review"}
        /\ (outcome \in {"updated", "unchanged"} =>
                 /\ SUBSCRIPTION_STATUS_FOR_PROVIDER_STATE(StateAt[seen]) = StateAt[seen]
                 /\ StateAt[seen] \in Statuses)
    BY PlanMeans
  <2>6. outcome # "conflict" => ~taken
    OBVIOUS
  <2> HIDE DEF id, outcome
  <2>7. /\ n \in SyncRow /\ n.version > rows[u].version /\ n.exists
        /\ RowFits(n, view[u]) /\ RowAdvances(rows[u], n) /\ n.code = rows[u].code
        /\ n.subId # rows[u].subId => n.subId = id /\ outcome # "conflict"
    BY <1>2, <2>1, <2>4, <2>5, AppliedFits
  <2> HIDE DEF n
  <2>8. n.subId # rows[u].subId => \A v \in Accounts \ {u} : rows[v].subId # n.subId
    <3> SUFFICES ASSUME n.subId # rows[u].subId, NEW v \in Accounts \ {u}, rows[v].subId = n.subId PROVE FALSE
      OBVIOUS
    <3>1. n.subId = id /\ ~taken
      BY <2>6, <2>7
    <3>2. id = Unset
      BY <3>1
    <3>3. rows[u].subId # Unset
      BY <3>1, <3>2
    <3> QED
      BY <2>7, <3>1, <3>2, <3>3 DEF RowAdvances
  <2>9. RowWritten(u, n)
    BY <2>7, <2>8 DEF RowWritten
  <2>10. task \in [SyncWorkers -> SyncTask] /\ task' = [task EXCEPT ![w] = Resting]
    BY <1>1 DEF SyncInv, SyncShapes, Forgets
  <2>11. task' \in [SyncWorkers -> SyncTask] /\ \A x \in SyncWorkers : task'[x] \in {task[x], Resting}
    BY <2>10, RestingShape
  <2> QED
    BY <1>1, <1>2, <2>2, <2>3, <2>9, <2>11, RowWrite DEF LedgerShape
<1>4. CASE ~SameVersion(w)
  <2>1. UNCHANGED <<rows, ledger>> /\ ledger \in LedgerShape
    BY <1>4 DEF apply, SyncInv, SyncShapes, LedgerShape
  <2> QED
    BY <1>1, <2>1, ForgetStep
<1> QED
  BY <1>3, <1>4

-----------------------------------------------------------------------------
\* Every step keeps the invariant and lets rows advance only.
LEMMA SyncNextInv ==
    ASSUME SyncInv, [SyncNext]_syncVars PROVE SyncInv' /\ RowsAdvance
<1>1. ASSUME NEW w \in SyncWorkers, SyncStep(w) PROVE SyncInv' /\ RowsAdvance
  BY <1>1, ReceiveStep, RecordStep, OwnerStep, BindStep, ReadStep, VerifyStep, ApplyStep DEF SyncStep
<1>2. ASSUME NEW u \in Accounts, checkOut(u) \/ viewMoves(u) PROVE SyncInv' /\ RowsAdvance
  BY <1>2, CheckOutStep, ViewStep
<1>3. CASE UNCHANGED syncVars
  <2>1. SyncInv'
    BY <1>3 DEF syncVars, SyncInv, SyncShapes
  <2>2. rows' = rows /\ rows \in [Accounts -> SyncRow] /\ OneIdentity(rows)
    BY <1>3 DEF syncVars, SyncInv, SyncShapes
  <2>3. \A u \in Accounts : rows[u].synced \in Nat
    BY <2>2, SyncAssumption DEF SyncRow
  <2> QED
    BY <2>1, <2>2, <2>3 DEF RowsAdvance, RowAdvances
<1> QED
  BY <1>1, <1>2, <1>3 DEF SyncNext

\* The invariant of the synchronisation (webhook.ts, sync.ts), for any accounts,
\* events, workers and views of the provider.
THEOREM SyncInvariance == SyncSpec => []SyncInv
<1>1. SyncInv /\ [SyncNext]_syncVars => SyncInv'
  BY SyncNextInv
<1> QED
  BY <1>1, SyncInitInv, PTL DEF SyncSpec

\* A row marked synced shows the status of the view last applied.
LEMMA PortalTrue == SyncInv => SyncTypeOK /\ PortalShowsLastView
<1> SUFFICES ASSUME SyncInv PROVE SyncTypeOK /\ PortalShowsLastView
  OBVIOUS
<1>1. SyncTypeOK
  BY DEF SyncInv, SyncShapes, SyncTypeOK, SyncRow, SyncTask
<1>2. ASSUME NEW u \in Accounts, rows[u].sync = "synced"
      PROVE  (rows[u].exists /\ billingPortalLifecycleLive(u)) <=> (StateAt[rows[u].synced] \in {"active", "past_due"})
  <2>1. rows[u].exists /\ rows[u].status \in Statuses /\ rows[u].status = StateAt[rows[u].synced]
    BY <1>2 DEF SyncInv, RowFits
  <2> QED
    BY <2>1 DEF billingPortalLifecycleLive, Statuses
<1>3. PortalShowsLastView
  BY <1>2 DEF PortalShowsLastView, readBillingPortalFacts
<1> QED
  BY <1>1, <1>3

\* However deliveries, bindings and synchronisations interleave (the version guard
\* of sync.ts, the unique indexes of migration 0031): no row goes back to an older
\* view, an identity is bound once and to one account, and the portal shows the
\* view last applied.
THEOREM SyncSound == SyncSpec => SyncIsSound
<1>1. SyncInv /\ [SyncNext]_syncVars => [\A u \in Accounts : rows'[u].synced >= rows[u].synced]_syncVars
  BY SyncNextInv DEF RowsAdvance, RowAdvances
<1>2. SyncInv /\ [SyncNext]_syncVars =>
       [\A u \in Accounts :
         /\ rows[u].code # Unset => rows'[u].code = rows[u].code
         /\ rows[u].subId # Unset => rows'[u].subId = rows[u].subId
         /\ \A v \in Accounts \ {u} :
              /\ rows'[u].code # Unset => rows'[u].code # rows'[v].code
              /\ rows'[u].subId # Unset => rows'[u].subId # rows'[v].subId]_syncVars
  BY SyncNextInv DEF RowsAdvance, RowAdvances, OneIdentity
<1>3. SyncSpec => ObservationsMonotone
  BY <1>1, SyncInvariance, PTL DEF SyncSpec, ObservationsMonotone
<1>4. SyncSpec => IdentityBoundOnce
  BY <1>2, SyncInvariance, PTL DEF SyncSpec, IdentityBoundOnce
<1> QED
  BY <1>3, <1>4, SyncInvariance, PortalTrue, PTL DEF SyncIsSound

-----------------------------------------------------------------------------
(* Observations of the published exchange rate: the inductive invariant.   *)

Reading == [day : 0 .. MaxMoment + 1, figure : Figures \cup BadFigures, at : 0 .. MaxMoment]
AtMostOne(S, T) == S = {} \/ \E x \in T : S = {x}
CheckFits(k) ==
    /\ k \in [at : {"idle", "lock", "retrieve", "record", "report", "unlock"}, session : SUBSET Sessions,
              read : SUBSET Reading, report : {k.report}]
    /\ AtMostOne(k.session, Sessions) /\ AtMostOne(k.read, Reading)

LockIsUsed == \A s \in lockHolder : \E c \in Checkers : s \in checks[c].session /\ Locked(c)

FxInv ==
    /\ page \in Published /\ moment \in 0 .. MaxMoment
    /\ observed \subseteq [day : 0 .. MaxMoment, figure : Figures, at : 0 .. MaxMoment]
    /\ \A o \in observed : o.day <= o.at
    /\ \A o, p \in observed : o.day = p.day /\ o.figure = p.figure => o = p
    /\ checks = [c \in Checkers |-> checks[c]] /\ \A c \in Checkers : CheckFits(checks[c])
    /\ AtMostOne(lockHolder, Sessions) /\ LockIsUsed

-----------------------------------------------------------------------------
\* No check runs and nothing was observed initially.
LEMMA FxInitInv == ObservationInit => FxInv
<1> SUFFICES ASSUME ObservationInit PROVE FxInv
  OBVIOUS
<1>1. CheckFits(NoCheck)
  BY DEF CheckFits, NoCheck, AtMostOne
<1>2. checks = [c \in Checkers |-> checks[c]] /\ \A c \in Checkers : checks[c] = NoCheck
  BY DEF ObservationInit
<1>3. page \in Published /\ moment \in 0 .. MaxMoment
  BY ObservationsAssumption DEF ObservationInit, Published
<1>4. observed = {} /\ lockHolder = {}
  BY DEF ObservationInit
<1> QED
  BY <1>1, <1>2, <1>3, <1>4 DEF FxInv, AtMostOne, LockIsUsed

CheckMoves(c, k) ==
    /\ checks' = [checks EXCEPT ![c] = k] /\ CheckFits(k)
    /\ AtMostOne(lockHolder', Sessions)
    /\ \A s \in lockHolder' :
          \/ s \in k.session /\ k.at \in {"retrieve", "record", "report", "unlock"}
          \/ s \in lockHolder /\ (s \notin checks[c].session \/ ~Locked(c))
    /\ UNCHANGED <<page, moment>>

\* A step of one check, with the table as it is or one row longer.
LEMMA OneCheck ==
    ASSUME FxInv, NEW c \in Checkers, NEW k, CheckMoves(c, k),
           observed' = observed \/
             \E row \in Reading : validateFxSourceRow(row) /\ ~recorded(row) /\ observed' = observed \cup {row}
    PROVE  FxInv'
<1>1. checks = [d \in Checkers |-> checks[d]] /\ checks' = [checks EXCEPT ![c] = k]
  BY DEF FxInv, CheckMoves
<1>2. /\ checks' = [d \in Checkers |-> checks'[d]] /\ checks'[c] = k
      /\ \A d \in Checkers : d # c => checks'[d] = checks[d]
  BY <1>1
<1>3. \A d \in Checkers : CheckFits(checks'[d])
  BY <1>2 DEF FxInv, CheckMoves
<1>4. LockIsUsed'
  <2> SUFFICES ASSUME NEW s \in lockHolder'
               PROVE  \E d \in Checkers : s \in checks'[d].session /\ checks'[d].at \in {"retrieve", "record", "report", "unlock"}
    BY DEF LockIsUsed, Locked
  <2>1. CASE s \in k.session /\ k.at \in {"retrieve", "record", "report", "unlock"}
    BY <1>2, <2>1
  <2>2. CASE s \in lockHolder /\ (s \notin checks[c].session \/ ~Locked(c))
    <3>1. PICK d \in Checkers : s \in checks[d].session /\ Locked(d)
      BY <2>2 DEF FxInv, LockIsUsed
    <3>2. d # c
      BY <2>2, <3>1
    <3> QED
      BY <1>2, <3>1, <3>2 DEF Locked
  <2> QED
    BY <2>1, <2>2 DEF CheckMoves
<1>5. /\ observed' \subseteq [day : 0 .. MaxMoment, figure : Figures, at : 0 .. MaxMoment]
      /\ \A o \in observed' : o.day <= o.at
      /\ \A o, p \in observed' : o.day = p.day /\ o.figure = p.figure => o = p
  <2>1. CASE observed' = observed
    BY <2>1 DEF FxInv
  <2>2. ASSUME NEW row \in Reading, validateFxSourceRow(row), ~recorded(row), observed' = observed \cup {row}
        PROVE  /\ observed' \subseteq [day : 0 .. MaxMoment, figure : Figures, at : 0 .. MaxMoment]
               /\ \A o \in observed' : o.day <= o.at
               /\ \A o, p \in observed' : o.day = p.day /\ o.figure = p.figure => o = p
    <3>1. row \in [day : 0 .. MaxMoment, figure : Figures, at : 0 .. MaxMoment] /\ row.day <= row.at
      BY <2>2, ObservationsAssumption DEF validateFxSourceRow, Reading
    <3>2. \A o \in observed : o.day # row.day \/ o.figure # row.figure
      <4> SUFFICES ASSUME NEW o \in observed, o.day = row.day, o.figure = row.figure PROVE FALSE
        OBVIOUS
      <4>1. DOMAIN fxSourceObservationKey(row) = {"day", "figure"}
        BY DEF fxSourceObservationKey
      <4>2. [j \in {"day", "figure"} |-> o[j]] = [day |-> row.day, figure |-> row.figure]
        OBVIOUS
      <4> QED
        BY <2>2, <4>1, <4>2 DEF recorded, fxSourceObservationKey
    <3> QED
      BY <2>2, <3>1, <3>2 DEF FxInv
  <2> QED
    BY <2>1, <2>2
<1> QED
  BY <1>2, <1>3, <1>4, <1>5 DEF FxInv, CheckMoves

\* A check takes a session of the pool.
LEMMA AcquireKeeps ==
    ASSUME FxInv, NEW c \in Checkers, acquireLockClient(c) PROVE FxInv'
<1>1. PICK s \in Sessions : checks' = [checks EXCEPT ![c] = [NoCheck EXCEPT !.at = "lock", !.session = {s}]]
  BY DEF acquireLockClient
<1> DEFINE k == [NoCheck EXCEPT !.at = "lock", !.session = {s}]
<1>2. CheckFits(k)
  BY DEF CheckFits, NoCheck, AtMostOne
<1>3. UNCHANGED <<page, observed, lockHolder, moment>> /\ checks[c].at = "idle"
  BY DEF acquireLockClient
<1>4. CheckMoves(c, k)
  BY <1>1, <1>2, <1>3 DEF CheckMoves, FxInv, Locked
<1> QED
  BY <1>3, <1>4, OneCheck

\* The lock is had, or the check is over.
LEMMA TryLockKeeps ==
    ASSUME FxInv, NEW c \in Checkers, tryLock(c) PROVE FxInv'
<1> DEFINE o == checks[c]
           k == [o EXCEPT !.at = "retrieve"]
<1>1. CheckFits(o) /\ o.at = "lock" /\ UNCHANGED <<page, observed, moment>>
  BY DEF FxInv, tryLock
<1>2. CheckFits(NoCheck) /\ NoCheck.at = "idle"
  BY DEF CheckFits, NoCheck, AtMostOne
<1>3. CheckFits(k) /\ k.session = o.session /\ k.at = "retrieve"
  BY <1>1 DEF CheckFits
<1>4. CASE lockHolder' = o.session /\ checks' = [checks EXCEPT ![c].at = "retrieve"]
  <2>1. checks' = [checks EXCEPT ![c] = k]
    BY <1>4
  <2> HIDE DEF k
  <2>2. CheckMoves(c, k)
    BY <1>1, <1>3, <1>4, <2>1 DEF CheckMoves, CheckFits
  <2> QED
    BY <1>1, <2>2, OneCheck
<1>5. CASE checks' = [checks EXCEPT ![c] = NoCheck] /\ lockHolder' = lockHolder
  <2>1. CheckMoves(c, NoCheck)
    BY <1>1, <1>2, <1>5 DEF CheckMoves, FxInv, Locked
  <2> QED
    BY <1>1, <2>1, OneCheck
<1> QED
  BY <1>4, <1>5 DEF tryLock

\* A check that holds its place in the locked part.
LEMMA LockedMove ==
    ASSUME FxInv, NEW c \in Checkers, NEW k, checks' = [checks EXCEPT ![c] = k], CheckFits(k),
           k.session = checks[c].session, k.at \in {"retrieve", "record", "report", "unlock"},
           UNCHANGED <<page, lockHolder, moment>>
    PROVE  CheckMoves(c, k)
  BY DEF CheckMoves, FxInv

\* The page is read, or is not.
LEMMA RetrieveKeeps ==
    ASSUME FxInv, NEW c \in Checkers, retrieve(c) PROVE FxInv'
<1>1. PICK found \in fetchDailyFxRatesPage :
        checks' = [checks EXCEPT ![c].read = found, ![c].at = IF found = {} THEN "report" ELSE "record"]
  BY DEF retrieve
<1> DEFINE o == checks[c]
           at == IF found = {} THEN "report" ELSE "record"
           k == [o EXCEPT !.read = found, !.at = at]
<1>2. CheckFits(o) /\ o.at = "retrieve" /\ UNCHANGED <<page, observed, lockHolder, moment>>
  BY DEF FxInv, retrieve
<1>3. [day |-> page.day, figure |-> page.figure, at |-> moment] \in Reading
  BY DEF FxInv, Published, Reading
<1>4. AtMostOne(found, Reading) /\ found \subseteq Reading
  BY <1>1, <1>3 DEF fetchDailyFxRatesPage, AtMostOne
<1>5. at \in {"report", "record"}
  OBVIOUS
<1> HIDE DEF at
<1>6. checks' = [checks EXCEPT ![c] = k]
  BY <1>1 DEF at
<1>7. CheckFits(k) /\ k.session = o.session /\ k.at = at
  BY <1>2, <1>4, <1>5 DEF CheckFits
<1> HIDE DEF k
<1>8. CheckMoves(c, k)
  BY <1>2, <1>5, <1>6, <1>7, LockedMove
<1> QED
  BY <1>2, <1>8, OneCheck

\* The reading is recorded, refused, or its insert fails.
LEMMA RecordKeeps ==
    ASSUME FxInv, NEW c \in Checkers, record(c) PROVE FxInv'
<1> DEFINE o == checks[c]
<1>1. CheckFits(o) /\ o.at = "record" /\ UNCHANGED <<page, lockHolder, moment>>
  BY DEF FxInv, record
<1>2. PICK row \in o.read :
         \/ /\ validateFxSourceRow(row)
            /\ observed' = IF recorded(row) THEN observed ELSE observed \cup {row}
            /\ checks' = [checks EXCEPT ![c].at = "report"]
         \/ ~validateFxSourceRow(row) /\ checks' = [checks EXCEPT ![c].at = "report"] /\ UNCHANGED observed
         \/ checks' = [checks EXCEPT ![c].at = "unlock"] /\ UNCHANGED observed
  BY DEF record
<1>3. row \in Reading
  BY <1>1 DEF CheckFits
<1>4. PICK at \in {"report", "unlock"} : checks' = [checks EXCEPT ![c] = [o EXCEPT !.at = at]]
  BY <1>2
<1> DEFINE k == [o EXCEPT !.at = at]
<1>5. CheckFits(k) /\ k.session = o.session /\ k.at = at
  BY <1>1 DEF CheckFits
<1> HIDE DEF k
<1>6. CheckMoves(c, k)
  BY <1>1, <1>4, <1>5, LockedMove DEF k
<1>7. observed' = observed \/
        (validateFxSourceRow(row) /\ ~recorded(row) /\ observed' = observed \cup {row})
  BY <1>2
<1> QED
  BY <1>3, <1>6, <1>7, OneCheck

\* The age of the newest observation is reported.
LEMMA ReportKeeps ==
    ASSUME FxInv, NEW c \in Checkers, report(c) PROVE FxInv'
<1>1. PICK state \in analyzeFxSourceObservations : checks' = [checks EXCEPT ![c].at = "unlock", ![c].report = state]
  BY DEF report
<1> DEFINE o == checks[c]
           k == [o EXCEPT !.at = "unlock", !.report = state]
<1>2. CheckFits(o) /\ UNCHANGED <<page, observed, lockHolder, moment>>
  BY DEF FxInv, report
<1>3. checks' = [checks EXCEPT ![c] = k] /\ CheckFits(k) /\ k.session = o.session /\ k.at = "unlock"
  BY <1>1, <1>2 DEF CheckFits
<1> HIDE DEF k
<1>4. CheckMoves(c, k)
  BY <1>2, <1>3, LockedMove
<1> QED
  BY <1>2, <1>4, OneCheck

\* The lock is given back, or the session ends and the lock with it.
LEMMA ReleaseKeeps ==
    ASSUME FxInv, NEW c \in Checkers, releaseLock(c) PROVE FxInv'
<1>1. UNCHANGED <<page, observed, moment>> /\ checks' = [checks EXCEPT ![c] = NoCheck]
  BY DEF releaseLock
<1>2. CheckFits(NoCheck)
  BY DEF CheckFits, NoCheck, AtMostOne
<1>3. lockHolder' = {} \/ lockHolder' = lockHolder \ checks[c].session
  BY DEF releaseLock, evict
<1>4. AtMostOne(lockHolder', Sessions)
  BY <1>3 DEF FxInv, AtMostOne
<1>5. CheckMoves(c, NoCheck)
  BY <1>1, <1>2, <1>3, <1>4 DEF CheckMoves
<1> QED
  BY <1>1, <1>5, OneCheck

\* The publisher, the clock, the pool and the deaths of sessions.
LEMMA EnvironmentKeeps ==
    ASSUME FxInv,
           \/ \E day \in 0 .. MaxMoment + 1, figure \in Figures \cup BadFigures : publishPage(day, figure)
           \/ passDay
           \/ \E s \in Sessions : reopen(s) \/ die(s)
    PROVE  FxInv'
<1>1. UNCHANGED <<observed, checks>>
  BY DEF publishPage, passDay, reopen, die
<1>2. page' \in Published
  BY DEF FxInv, publishPage, passDay, reopen, die, Published
<1>3. moment' \in 0 .. MaxMoment
  BY ObservationsAssumption DEF FxInv, publishPage, passDay, reopen, die
<1>4. lockHolder' = lockHolder \/ \E s \in Sessions : lockHolder' = lockHolder \ {s}
  BY DEF publishPage, passDay, reopen, die
<1>5. AtMostOne(lockHolder', Sessions) /\ lockHolder' \subseteq lockHolder
  BY <1>4 DEF FxInv, AtMostOne
<1>6. LockIsUsed'
  BY <1>1, <1>5 DEF FxInv, LockIsUsed, Locked
<1> QED
  BY <1>1, <1>2, <1>3, <1>5, <1>6 DEF FxInv

\* Every step keeps the invariant.
LEMMA FxNextInv ==
    ASSUME FxInv, [ObservationNext]_observationVars PROVE FxInv'
<1>1. ASSUME NEW c \in Checkers,
             acquireLockClient(c) \/ tryLock(c) \/ retrieve(c) \/ record(c) \/ report(c) \/ releaseLock(c)
      PROVE  FxInv'
  BY <1>1, AcquireKeeps, TryLockKeeps, RetrieveKeeps, RecordKeeps, ReportKeeps, ReleaseKeeps
<1>2. CASE UNCHANGED observationVars
  BY <1>2 DEF observationVars, FxInv, LockIsUsed, Locked
<1> QED
  BY <1>1, <1>2, EnvironmentKeeps DEF ObservationNext

\* The lock is never left with a session that no check uses, a day's figure is
\* recorded once, and no day before it came (fx-source-observations.ts runCheck,
\* record and releaseLock), for any checks, sessions, figures and deaths.
THEOREM ObservationsAreSound == ObservationSpec => [](ObservationTypeOK /\ ObservationsSound)
<1>1. FxInv /\ [ObservationNext]_observationVars => FxInv'
  BY FxNextInv
<1>2. ASSUME FxInv PROVE ObservationTypeOK
  <2>1. \A S, T : AtMostOne(S, T) => Cardinality(S) <= 1
    <3>1. Cardinality({}) = 0
      BY FS_EmptySet
    <3>2. \A x : Cardinality({x}) = 1
      BY FS_Singleton
    <3>3. \A S, T : AtMostOne(S, T) => Cardinality(S) = 0 \/ Cardinality(S) = 1
      BY <3>1, <3>2, Zenon DEF AtMostOne
    <3> QED
      BY <3>3
  <2>2. \A c \in Checkers : Cardinality(checks[c].read) <= 1 /\ checks[c].session \subseteq Sessions
    BY <1>2, <2>1 DEF FxInv, CheckFits
  <2>3. lockHolder \subseteq Sessions /\ Cardinality(lockHolder) <= 1
    BY <1>2, <2>1 DEF FxInv, AtMostOne
  <2> QED
    BY <1>2, <2>2, <2>3 DEF FxInv, ObservationTypeOK
<1>3. FxInv => ObservationsSound
  BY DEF FxInv, ObservationsSound, LockIsUsed
<1> QED
  BY <1>1, <1>2, <1>3, FxInitInv, PTL DEF ObservationSpec

-----------------------------------------------------------------------------
(* Checkout: the inductive invariant.                                      *)

Grants == {<<0, "pro">>, <<0, "premium">>}
BuyerWork == [at : Places, epoch : Epochs \cup {None} \cup Grants, code : Codes \cup {"none"}, seen : Txns]
SaleShapes ==
    /\ epochs \in [Epochs -> {"unregistered", "active", "retired"}]
    /\ snapshots \subseteq Epochs /\ sub \in Epochs \cup {None, Legacy}
    /\ customer \in [status : {"absent", "unprovisioned", "provisioned"}, code : Codes \cup {"none"}]
    /\ atProvider \in Codes \cup {"none"}
    /\ txns \in [Epochs -> Txns] /\ evidence \in Txns
    /\ activation \in Epochs \cup {None} /\ grant \in {"none", "pro", "premium"}
    /\ work \in [Buyers -> BuyerWork]

\* A transaction that paid the price of epoch e.
PaidFor(t, e) == t.status = "success" /\ t.paid = e

\* What a process may rely on: the row is sold and stays so, the epoch it is
\* about to sell is active, and what it saw of the payment still stands.
BuyerFits(k, row, offers, table) ==
    /\ k.at \in {"customer", "verify", "find", "record"} => row \in Epochs
    /\ k.at \in {"lock", "sell"} => row # Legacy
    /\ k.at = "lock" => k.epoch \in Epochs \cup {None}
    /\ k.at = "sell" => k.epoch \in Epochs /\ offers[k.epoch] = "active"
    /\ k.at = "persist" => k.code \in Codes
    /\ k.at \in {"find", "record"} => k.seen = table[row] /\ PaidFor(k.seen, row)
    /\ k.at = "grant" => k.epoch \in Grants

\* All rows are of one sale.
SaleRows ==
    /\ snapshots \subseteq {sub}
    /\ \A e \in Epochs : txns[e] # NoTxn => sub = e
    /\ evidence # NoTxn => sub \in Epochs /\ PaidFor(evidence, sub) /\ evidence = txns[sub]
    /\ activation # None => activation = sub /\ evidence # NoTxn

SaleInv == SaleShapes /\ SaleRows /\ \A p \in Buyers : BuyerFits(work[p], sub, epochs, txns)

-----------------------------------------------------------------------------
(* Operators.                                                              *)

\* What is not an epoch, and the values that say nothing.
LEMMA NotEpochs ==
    ASSUME CheckoutAssumption
    PROVE  /\ None \notin Epochs /\ Legacy \notin Epochs /\ None # Legacy /\ Other \notin Epochs
           /\ NoTxn \in Txns /\ Idle \in BuyerWork /\ Idle.at = "idle" /\ NoTxn.status = "none"
           /\ \A row, offers, table : BuyerFits(Idle, row, offers, table)
<1>1. None \notin Epochs /\ Legacy \notin Epochs /\ None # Legacy /\ Other \notin Epochs
  BY DEF None, Legacy, Other, Epochs, CheckoutAssumption
<1>2. NoTxn \in Txns /\ NoTxn.status = "none"
  BY DEF NoTxn, Txns
<1>3. Idle \in BuyerWork /\ Idle.at = "idle"
  BY <1>2 DEF Idle, BuyerWork, Places
<1> QED
  BY <1>1, <1>2, <1>3 DEF BuyerFits

\* A process moves; the others stand as far as they did.
LEMMA BuyersStand ==
    ASSUME SaleShapes, NEW p \in Buyers, NEW k \in BuyerWork, work' = [work EXCEPT ![p] = k],
           BuyerFits(k, sub', epochs', txns'),
           \A q \in Buyers : q # p => BuyerFits(work[q], sub', epochs', txns')
    PROVE  work' \in [Buyers -> BuyerWork] /\ \A q \in Buyers : BuyerFits(work'[q], sub', epochs', txns')
<1>1. work \in [Buyers -> BuyerWork]
  BY DEF SaleShapes
<1>2. ASSUME NEW q \in Buyers PROVE BuyerFits(work'[q], sub', epochs', txns')
  <2>1. CASE q = p
    BY <1>1, <2>1
  <2>2. CASE q # p
    <3>1. work'[q] = work[q]
      BY <1>1, <2>2
    <3> QED
      BY <2>2, <3>1
  <2> QED
    BY <2>1, <2>2
<1> QED
  BY <1>1, <1>2

\* Only a process moves.
LEMMA BuyerMoves ==
    ASSUME SaleInv, NEW p \in Buyers, NEW k \in BuyerWork, work' = [work EXCEPT ![p] = k],
           BuyerFits(k, sub, epochs, txns),
           UNCHANGED <<epochs, snapshots, sub, customer, atProvider, txns, evidence, activation, grant>>
    PROVE  SaleInv'
<1>1. SaleShapes /\ SaleRows /\ \A q \in Buyers : BuyerFits(work[q], sub, epochs, txns)
  BY DEF SaleInv
<1>2. work' \in [Buyers -> BuyerWork] /\ \A q \in Buyers : BuyerFits(work'[q], sub', epochs', txns')
  BY <1>1, BuyersStand
<1>3. SaleShapes' /\ SaleRows'
  BY <1>1, <1>2 DEF SaleShapes, SaleRows
<1> QED
  BY <1>2, <1>3 DEF SaleInv

\* A process ends.
LEMMA StopInv ==
    ASSUME CheckoutAssumption, SaleInv, NEW p \in Buyers, Stop(p),
           UNCHANGED <<epochs, snapshots, sub, customer, atProvider, txns, evidence, activation, grant>>
    PROVE  SaleInv'
  BY NotEpochs, BuyerMoves DEF Stop

\* A process goes on to its next statement.
LEMMA GoInv ==
    ASSUME SaleInv, NEW p \in Buyers, NEW place \in Places, Go(p, place),
           place \in {"customer", "verify", "find", "record"} => sub \in Epochs,
           place = "sell" => work[p].epoch \in Epochs /\ epochs[work[p].epoch] = "active" /\ sub # Legacy,
           place \notin {"lock", "persist", "grant"},
           place \in {"find", "record"} => work[p].seen = txns[sub] /\ PaidFor(work[p].seen, sub),
           UNCHANGED <<epochs, snapshots, sub, customer, atProvider, txns, evidence, activation, grant>>
    PROVE  SaleInv'
<1> DEFINE k == [work[p] EXCEPT !.at = place]
<1>1. work \in [Buyers -> BuyerWork] /\ work[p] \in BuyerWork
  BY DEF SaleInv, SaleShapes
<1>2. work' = [work EXCEPT ![p] = k]
  BY <1>1 DEF Go
<1>3. k \in BuyerWork /\ k.at = place /\ k.epoch = work[p].epoch /\ k.seen = work[p].seen
  BY <1>1 DEF BuyerWork
<1> HIDE DEF k
<1>4. BuyerFits(k, sub, epochs, txns)
  BY <1>3 DEF BuyerFits
<1> QED
  BY <1>2, <1>3, <1>4, BuyerMoves

-----------------------------------------------------------------------------
(* Epochs and the sale.                                                    *)

\* registerEpochs: what is active stays active.
LEMMA RegisterInv == ASSUME SaleInv, NEW b \in Batches, registerEpochs(b) PROVE SaleInv'
<1>1. epochs' = [e \in Epochs |-> IF e[1] = b THEN "active" ELSE epochs[e]]
      /\ UNCHANGED <<snapshots, sub, customer, atProvider, txns, evidence, activation, grant, work>>
  BY DEF registerEpochs
<1>2. SaleShapes /\ SaleRows /\ \A q \in Buyers : BuyerFits(work[q], sub, epochs, txns)
  BY DEF SaleInv
<1>3. \A q \in Buyers : BuyerFits(work[q], sub, epochs', txns)
  BY <1>1, <1>2 DEF BuyerFits
<1>4. SaleShapes' /\ SaleRows'
  BY <1>1, <1>2 DEF SaleShapes, SaleRows
<1> QED
  BY <1>1, <1>3, <1>4 DEF SaleInv

\* retire: an epoch that a sale holds waits.
LEMMA RetireInv == ASSUME SaleInv, NEW e \in Epochs, retire(e) PROVE SaleInv'
<1>1. ~Shared(e) /\ epochs' = [epochs EXCEPT ![e] = "retired"]
      /\ UNCHANGED <<snapshots, sub, customer, atProvider, txns, evidence, activation, grant, work>>
  BY DEF retire
<1>2. SaleShapes /\ SaleRows /\ \A q \in Buyers : BuyerFits(work[q], sub, epochs, txns)
  BY DEF SaleInv
<1>3. \A q \in Buyers : BuyerFits(work[q], sub, epochs', txns)
  <2> SUFFICES ASSUME NEW q \in Buyers, work[q].at = "sell" PROVE epochs'[work[q].epoch] = "active"
    BY <1>2 DEF BuyerFits
  <2>1. work[q].epoch # e /\ work[q].epoch \in Epochs /\ epochs[work[q].epoch] = "active"
    BY <1>1, <1>2 DEF Shared, BuyerFits
  <2> QED
    BY <1>1, <1>2, <2>1 DEF SaleShapes
<1>4. SaleShapes' /\ SaleRows'
  BY <1>1, <1>2 DEF SaleShapes, SaleRows
<1> QED
  BY <1>1, <1>3, <1>4 DEF SaleInv

\* checkout: the candidate is an epoch, or none.
LEMMA CheckoutInv == ASSUME CheckoutAssumption, SaleInv, NEW p \in Buyers, NEW plan, checkout(p, plan) PROVE SaleInv'
<1>1. sub # Legacy
      /\ UNCHANGED <<epochs, snapshots, sub, customer, atProvider, txns, evidence, activation, grant>>
  BY DEF checkout
<1>2. PICK e \in Epochs \cup {None} : work' = [work EXCEPT ![p] = [Idle EXCEPT !.at = "lock", !.epoch = e]]
  <2>1. [Idle EXCEPT !.at = "lock", !.epoch = None] = [Idle EXCEPT !.at = "lock"]
    <3>1. Idle \in BuyerWork /\ Idle.epoch = None
      BY NotEpochs DEF Idle
    <3> QED
      BY <3>1 DEF BuyerWork
  <2>2. CASE \E e \in ActiveEpochs(plan) : work' = [work EXCEPT ![p] = [Idle EXCEPT !.at = "lock", !.epoch = e]]
    BY <2>2 DEF ActiveEpochs
  <2>3. CASE work' = [work EXCEPT ![p] = [Idle EXCEPT !.at = "lock"]]
    BY <2>1, <2>3
  <2> QED
    BY <2>2, <2>3 DEF checkout
<1> DEFINE k == [Idle EXCEPT !.at = "lock", !.epoch = e]
<1>3. k \in BuyerWork /\ k.at = "lock" /\ k.epoch = e
  BY NotEpochs DEF BuyerWork, Places
<1> HIDE DEF k
<1>4. BuyerFits(k, sub, epochs, txns)
  BY <1>1, <1>3 DEF BuyerFits
<1> QED
  BY <1>1, <1>2, <1>3, <1>4, BuyerMoves DEF k

\* selectLock: a process that goes on to sell has an active epoch.
LEMMA SelectLockInv == ASSUME CheckoutAssumption, SaleInv, NEW p \in Buyers, selectLock(p) PROVE SaleInv'
<1>1. work[p].at = "lock"
      /\ UNCHANGED <<epochs, snapshots, sub, customer, atProvider, txns, evidence, activation, grant>>
  BY DEF selectLock
<1>2. CASE sub \in Epochs /\ Go(p, "customer")
  BY <1>1, <1>2, GoInv DEF Places
<1>3. CASE assertCandidateEpochStillActive(work[p].epoch) /\ Go(p, "sell")
  <2>1. work[p].epoch \in Epochs /\ epochs[work[p].epoch] = "active" /\ sub # Legacy
    BY <1>1, <1>3 DEF SaleInv, BuyerFits, assertCandidateEpochStillActive
  <2> QED
    BY <1>1, <1>3, <2>1, GoInv DEF Places
<1>4. CASE Stop(p)
  BY <1>1, <1>4, StopInv
<1> QED
  BY <1>2, <1>3, <1>4 DEF selectLock, RowLocked

\* obtainLock: the row is sold once, at the price of an active epoch.
LEMMA ObtainInv ==
    ASSUME CheckoutAssumption, SaleInv, NEW p \in Buyers, obtainLock(p) PROVE SaleInv' /\ SaleIsOpen
<1> DEFINE e == work[p].epoch
           k == [work[p] EXCEPT !.at = "customer"]
<1>1. work[p].at = "sell" /\ Go(p, "customer")
      /\ UNCHANGED <<epochs, customer, atProvider, txns, evidence, activation, grant>>
  BY DEF obtainLock
<1>2. SaleShapes /\ SaleRows /\ \A q \in Buyers : BuyerFits(work[q], sub, epochs, txns)
  BY DEF SaleInv
<1>3. e \in Epochs /\ epochs[e] = "active"
  BY <1>1, <1>2 DEF BuyerFits
<1>4. work' = [work EXCEPT ![p] = k] /\ k \in BuyerWork /\ k.at = "customer"
  BY <1>1, <1>2 DEF Go, SaleShapes, BuyerWork, Places
<1> HIDE DEF e, k
<1>5. CASE sub = None /\ snapshots' = snapshots \cup {e} /\ sub' = e
  <2>1. snapshots = {} /\ (\A f \in Epochs : txns[f] = NoTxn) /\ evidence = NoTxn /\ activation = None
    BY <1>2, <1>5, NotEpochs DEF SaleShapes, SaleRows
  <2>2. BuyerFits(k, sub', epochs', txns')
    BY <1>3, <1>4, <1>5 DEF BuyerFits
  <2>3. \A q \in Buyers : BuyerFits(work[q], sub', epochs', txns')
    <3>1. \A q \in Buyers : work[q].at \notin {"customer", "verify", "find", "record"}
      BY <1>2, <1>5, NotEpochs DEF BuyerFits
    <3>2. sub' # Legacy
      BY <1>3, <1>5, NotEpochs
    <3> QED
      BY <1>1, <1>2, <3>1, <3>2 DEF BuyerFits
  <2>4. work' \in [Buyers -> BuyerWork] /\ \A q \in Buyers : BuyerFits(work'[q], sub', epochs', txns')
    BY <1>2, <1>4, <2>2, <2>3, BuyersStand
  <2>5. SaleShapes'
    BY <1>1, <1>2, <1>3, <1>5, <2>4 DEF SaleShapes
  <2>6. SaleRows'
    BY <1>1, <1>5, <2>1 DEF SaleRows
  <2>7. SaleIsOpen
    BY <1>1, <1>3, <1>5 DEF SaleIsOpen
  <2> QED
    BY <2>4, <2>5, <2>6, <2>7 DEF SaleInv
<1>6. CASE sub # None /\ UNCHANGED <<snapshots, sub>>
  <2>1. sub \in Epochs
    BY <1>1, <1>2, <1>6 DEF SaleShapes, BuyerFits
  <2> QED
    BY <1>1, <1>6, <2>1, GoInv DEF Places, SaleIsOpen
<1> QED
  BY <1>5, <1>6 DEF obtainLock, e

-----------------------------------------------------------------------------
(* The provider's transaction and customer.                                *)

\* openTransaction: a reference is opened once, and it is the lock's.
LEMMA OpenInv == ASSUME CheckoutAssumption, SaleInv, NEW p \in Buyers, openTransaction(p) PROVE SaleInv'
<1> DEFINE t == [status |-> "pending", paid |-> None, code |-> customer.code]
<1>1. work[p].at = "customer" /\ Stop(p)
      /\ UNCHANGED <<epochs, snapshots, sub, customer, atProvider, evidence, activation, grant>>
  BY DEF openTransaction
<1>2. SaleShapes /\ SaleRows /\ \A q \in Buyers : BuyerFits(work[q], sub, epochs, txns)
  BY DEF SaleInv
<1>3. sub \in Epochs
  BY <1>1, <1>2 DEF BuyerFits
<1>4. CASE UNCHANGED txns
  BY <1>1, <1>4, StopInv
<1>5. CASE txns[sub] = NoTxn /\ txns' = [txns EXCEPT ![sub] = t]
  <2>1. t \in Txns
    BY <1>2 DEF SaleShapes, Txns
  <2> HIDE DEF t
  <2>2. txns' \in [Epochs -> Txns] /\ \A f \in Epochs : f # sub => txns'[f] = txns[f]
    BY <1>2, <1>3, <1>5, <2>1 DEF SaleShapes
  <2>3. evidence = NoTxn /\ activation = None
    BY <1>2, <1>5 DEF SaleRows
  <2>4. \A q \in Buyers : BuyerFits(work[q], sub', epochs', txns')
    <3>1. \A q \in Buyers : work[q].at \notin {"find", "record"}
      BY <1>2, <1>5, NotEpochs DEF BuyerFits, PaidFor
    <3> QED
      BY <1>1, <1>2, <3>1 DEF BuyerFits
  <2>5. work' \in [Buyers -> BuyerWork] /\ \A q \in Buyers : BuyerFits(work'[q], sub', epochs', txns')
    BY <1>1, <1>2, <2>4, NotEpochs, BuyersStand DEF Stop
  <2>6. SaleShapes'
    BY <1>1, <1>2, <2>2, <2>5 DEF SaleShapes
  <2>7. SaleRows'
    BY <1>1, <1>2, <2>2, <2>3 DEF SaleRows
  <2> QED
    BY <2>5, <2>6, <2>7 DEF SaleInv
<1> QED
  BY <1>4, <1>5 DEF openTransaction

\* pay: only a transaction that has not succeeded moves, so no evidence of it
\* exists yet.
LEMMA PayStepInv == ASSUME CheckoutAssumption, SaleInv, NEW e \in Epochs, pay(e) PROVE SaleInv'
<1>1. txns[e].status \in {"pending", "failed"}
      /\ UNCHANGED <<epochs, snapshots, sub, customer, atProvider, evidence, activation, grant, work>>
  BY DEF pay
<1>2. SaleShapes /\ SaleRows /\ \A q \in Buyers : BuyerFits(work[q], sub, epochs, txns)
  BY DEF SaleInv
<1>3. sub = e
  BY <1>1, <1>2, NotEpochs DEF SaleRows
<1>4. PICK t \in Txns : txns' = [txns EXCEPT ![e] = t]
  <2>1. txns[e] \in Txns /\ txns \in [Epochs -> Txns]
    BY <1>2 DEF SaleShapes
  <2>2. CASE \E paid \in {e, Other}, code \in {txns[e].code, "none"} :
               txns' = [txns EXCEPT ![e] = [status |-> "success", paid |-> paid, code |-> code]]
    BY <2>1, <2>2 DEF Txns
  <2>3. CASE txns' = [txns EXCEPT ![e].status = "failed"]
    <3>1. [txns[e] EXCEPT !.status = "failed"] \in Txns
      BY <2>1 DEF Txns
    <3> QED
      BY <2>1, <2>3, <3>1
  <2> QED
    BY <2>2, <2>3 DEF pay
<1>5. txns' \in [Epochs -> Txns] /\ \A f \in Epochs : f # e => txns'[f] = txns[f]
  BY <1>2, <1>4 DEF SaleShapes
<1>6. evidence = NoTxn /\ activation = None
  BY <1>1, <1>2, <1>3 DEF SaleRows, PaidFor
<1>7. \A q \in Buyers : BuyerFits(work[q], sub', epochs', txns')
  <2>1. \A q \in Buyers : work[q].at \notin {"find", "record"}
    BY <1>1, <1>2, <1>3 DEF BuyerFits, PaidFor
  <2> QED
    BY <1>1, <1>2, <2>1 DEF BuyerFits
<1>8. SaleShapes' /\ SaleRows'
  BY <1>1, <1>2, <1>3, <1>5, <1>6 DEF SaleShapes, SaleRows
<1> QED
  BY <1>1, <1>7, <1>8 DEF SaleInv

\* provision, ensureCustomer, persist and a customer replaced at the provider.
LEMMA CustomerInv ==
    ASSUME CheckoutAssumption, SaleInv,
           \/ providerCustomerReplaced
           \/ \E p \in Buyers : ensureCustomer(p) \/ provision(p) \/ persist(p)
    PROVE  SaleInv'
<1>1. SaleShapes /\ SaleRows /\ \A q \in Buyers : BuyerFits(work[q], sub, epochs, txns)
  BY DEF SaleInv
<1>2. CASE providerCustomerReplaced
  <2>1. atProvider' \in Codes
        /\ UNCHANGED <<epochs, snapshots, sub, customer, txns, evidence, activation, grant, work>>
    BY <1>2 DEF providerCustomerReplaced
  <2> QED
    BY <1>1, <2>1 DEF SaleInv, SaleShapes, SaleRows
<1>3. ASSUME NEW p \in Buyers, ensureCustomer(p) PROVE SaleInv'
  BY <1>3, GoInv DEF ensureCustomer, Places
<1>4. ASSUME NEW p \in Buyers, provision(p) PROVE SaleInv'
  <2>1. PICK code \in Codes : atProvider' = code /\ work' = [work EXCEPT ![p].at = "persist", ![p].code = code]
    BY <1>1, <1>4 DEF provision, SaleShapes
  <2> DEFINE k == [work[p] EXCEPT !.at = "persist", !.code = code]
  <2>2. k \in BuyerWork /\ k.at = "persist" /\ k.code = code /\ work' = [work EXCEPT ![p] = k]
    BY <1>1, <2>1 DEF SaleShapes, BuyerWork, Places
  <2> HIDE DEF k
  <2>3. UNCHANGED <<epochs, snapshots, sub, customer, txns, evidence, activation, grant>>
    BY <1>4 DEF provision
  <2>4. BuyerFits(k, sub', epochs', txns') /\ \A q \in Buyers : BuyerFits(work[q], sub', epochs', txns')
    BY <1>1, <2>2, <2>3 DEF BuyerFits
  <2>5. work' \in [Buyers -> BuyerWork] /\ \A q \in Buyers : BuyerFits(work'[q], sub', epochs', txns')
    BY <1>1, <2>2, <2>4, BuyersStand
  <2>6. SaleShapes' /\ SaleRows'
    BY <1>1, <2>1, <2>3, <2>5 DEF SaleShapes, SaleRows
  <2> QED
    BY <2>5, <2>6 DEF SaleInv
<1>5. ASSUME NEW p \in Buyers, persist(p) PROVE SaleInv'
  <2>1. work[p].at = "persist" /\ Stop(p)
        /\ UNCHANGED <<epochs, snapshots, sub, atProvider, txns, evidence, activation, grant>>
        /\ customer' \in {customer, [status |-> "provisioned", code |-> work[p].code]}
    BY <1>5 DEF persist
  <2>2. work[p].code \in Codes
    BY <1>1, <2>1 DEF BuyerFits
  <2>3. customer' \in [status : {"absent", "unprovisioned", "provisioned"}, code : Codes \cup {"none"}]
    BY <1>1, <2>1, <2>2 DEF SaleShapes
  <2>4. \A q \in Buyers : BuyerFits(work[q], sub', epochs', txns')
    BY <1>1, <2>1
  <2>5. work' \in [Buyers -> BuyerWork] /\ \A q \in Buyers : BuyerFits(work'[q], sub', epochs', txns')
    BY <1>1, <2>1, <2>4, NotEpochs, BuyersStand DEF Stop
  <2>6. SaleShapes' /\ SaleRows'
    BY <1>1, <2>1, <2>3, <2>5 DEF SaleShapes, SaleRows
  <2> QED
    BY <2>5, <2>6 DEF SaleInv
<1> QED
  BY <1>2, <1>3, <1>4, <1>5

-----------------------------------------------------------------------------
(* Evidence, activation and grants.                                        *)

\* confirm and verifyPayment: what is carried on is a payment of the lock.
LEMMA VerifyInv ==
    ASSUME CheckoutAssumption, SaleInv, NEW p \in Buyers, confirm(p) \/ verifyPayment(p)
    PROVE  SaleInv'
<1>1. SaleShapes /\ SaleRows /\ \A q \in Buyers : BuyerFits(work[q], sub, epochs, txns)
  BY DEF SaleInv
<1>2. UNCHANGED <<epochs, snapshots, sub, customer, atProvider, txns, evidence, activation, grant>>
  BY DEF confirm, verifyPayment
<1>3. CASE confirm(p)
  <2> DEFINE k == [Idle EXCEPT !.at = "verify", !.code = customer.code]
  <2>1. sub \in Epochs /\ work' = [work EXCEPT ![p] = k]
    BY <1>3 DEF confirm, RowLocked
  <2>2. k \in BuyerWork /\ k.at = "verify"
    BY <1>1, NotEpochs DEF SaleShapes, BuyerWork, Places
  <2> HIDE DEF k
  <2>3. BuyerFits(k, sub, epochs, txns)
    BY <2>1, <2>2 DEF BuyerFits
  <2> QED
    BY <1>2, <2>1, <2>2, <2>3, BuyerMoves
<1>4. CASE verifyPayment(p)
  <2>1. work[p].at = "verify" /\ sub \in Epochs
    BY <1>1, <1>4 DEF verifyPayment, BuyerFits
  <2>2. CASE Stop(p)
    BY <1>2, <2>2, StopInv
  <2>3. CASE /\ reconcileBillingPaymentEvidence(txns[sub], sub, work[p].code)
             /\ work' = [work EXCEPT ![p].at = "find", ![p].seen = txns[sub]]
    <3> DEFINE k == [work[p] EXCEPT !.at = "find", !.seen = txns[sub]]
    <3>1. k \in BuyerWork /\ k.at = "find" /\ k.seen = txns[sub] /\ work' = [work EXCEPT ![p] = k]
      BY <1>1, <2>1, <2>3 DEF SaleShapes, BuyerWork, Places
    <3> HIDE DEF k
    <3>2. BuyerFits(k, sub, epochs, txns)
      BY <2>1, <2>3, <3>1 DEF BuyerFits, PaidFor, reconcileBillingPaymentEvidence
    <3> QED
      BY <1>2, <3>1, <3>2, BuyerMoves
  <2> QED
    BY <1>4, <2>2, <2>3 DEF verifyPayment
<1> QED
  BY <1>3, <1>4

\* findByIdempotencyKey and respond change no row.
LEMMA FindInv ==
    ASSUME CheckoutAssumption, SaleInv, NEW p \in Buyers,
           findByIdempotencyKey(p) \/ respond(p) \/ providerUnavailable(p)
    PROVE  SaleInv'
<1>1. UNCHANGED <<epochs, snapshots, sub, customer, atProvider, txns, evidence, activation, grant>>
  BY DEF findByIdempotencyKey, respond, providerUnavailable
<1>2. CASE Stop(p)
  BY <1>1, <1>2, StopInv
<1>3. CASE work[p].at = "find" /\ Go(p, "record")
  <2>1. sub \in Epochs /\ work[p].seen = txns[sub] /\ PaidFor(work[p].seen, sub)
    BY <1>3 DEF SaleInv, BuyerFits
  <2> QED
    BY <1>1, <1>3, <2>1, GoInv DEF Places
<1>4. CASE Go(p, "refused")
  BY <1>1, <1>4, GoInv DEF Places
<1> QED
  BY <1>2, <1>3, <1>4 DEF findByIdempotencyKey, respond, providerUnavailable

\* recordTransaction: the first evidence stays, and it is of the lock.
LEMMA RecordInv == ASSUME CheckoutAssumption, SaleInv, NEW p \in Buyers, recordTransaction(p) PROVE SaleInv'
<1>1. work[p].at = "record" /\ evidence' = (IF evidence = NoTxn THEN work[p].seen ELSE evidence)
      /\ UNCHANGED <<epochs, snapshots, sub, customer, atProvider, txns, activation, grant>>
  BY DEF recordTransaction
<1>2. SaleShapes /\ SaleRows /\ \A q \in Buyers : BuyerFits(work[q], sub, epochs, txns)
  BY DEF SaleInv
<1>3. sub \in Epochs /\ work[p].seen = txns[sub] /\ PaidFor(work[p].seen, sub) /\ work[p] \in BuyerWork
  BY <1>1, <1>2 DEF BuyerFits, SaleShapes
<1>4. work[p].seen \in Txns /\ work[p].seen # NoTxn
  BY <1>3, NotEpochs DEF BuyerWork, PaidFor
<1>5. PICK k \in BuyerWork : work' = [work EXCEPT ![p] = k] /\ k.at \in {"idle", "refused"}
  <2>1. CASE Stop(p)
    BY <2>1, NotEpochs DEF Stop
  <2>2. CASE Go(p, "refused")
    <3>1. [work[p] EXCEPT !.at = "refused"] \in BuyerWork /\ [work[p] EXCEPT !.at = "refused"].at = "refused"
      BY <1>3 DEF BuyerWork, Places
    <3> QED
      BY <1>2, <2>2, <3>1 DEF Go, SaleShapes
  <2> QED
    BY <2>1, <2>2 DEF recordTransaction
<1>6. BuyerFits(k, sub', epochs', txns') /\ \A q \in Buyers : BuyerFits(work[q], sub', epochs', txns')
  BY <1>1, <1>2, <1>5 DEF BuyerFits
<1>7. work' \in [Buyers -> BuyerWork] /\ \A q \in Buyers : BuyerFits(work'[q], sub', epochs', txns')
  BY <1>2, <1>5, <1>6, BuyersStand
<1>8. SaleShapes'
  BY <1>1, <1>2, <1>4, <1>7 DEF SaleShapes
<1>9. SaleRows'
  BY <1>1, <1>2, <1>3, <1>4 DEF SaleRows
<1> QED
  BY <1>7, <1>8, <1>9 DEF SaleInv

\* activate: with evidence, of the lock.
LEMMA ActivateInv == ASSUME SaleInv, activate PROVE SaleInv'
<1>1. sub \in Epochs /\ evidence # NoTxn /\ activation' = sub
      /\ UNCHANGED <<epochs, snapshots, sub, customer, atProvider, txns, evidence, grant, work>>
  BY DEF activate, RowLocked
<1> QED
  BY <1>1 DEF SaleInv, SaleShapes, SaleRows

\* beginGrant and grantTier: a grant touches no sale.
LEMMA GrantInv ==
    ASSUME CheckoutAssumption, SaleInv, NEW p \in Buyers,
           grantTier(p) \/ \E plan \in {"pro", "premium"} : beginGrant(p, plan)
    PROVE  SaleInv'
<1>1. SaleShapes /\ SaleRows /\ \A q \in Buyers : BuyerFits(work[q], sub, epochs, txns)
  BY DEF SaleInv
<1>2. ASSUME NEW plan \in {"pro", "premium"}, beginGrant(p, plan) PROVE SaleInv'
  <2> DEFINE g == <<0, plan>>
             k == [Idle EXCEPT !.at = "grant", !.epoch = g]
  <2>1. work' = [work EXCEPT ![p] = k]
        /\ UNCHANGED <<epochs, snapshots, sub, customer, atProvider, txns, evidence, activation, grant>>
    BY <1>2 DEF beginGrant
  <2>2. g \in Grants
    BY DEF Grants
  <2> HIDE DEF g
  <2>3. k \in BuyerWork /\ k.at = "grant" /\ k.epoch = g
    BY <2>2, NotEpochs DEF BuyerWork, Places
  <2> HIDE DEF k
  <2>4. BuyerFits(k, sub, epochs, txns)
    BY <2>2, <2>3 DEF BuyerFits
  <2> QED
    BY <2>1, <2>3, <2>4, BuyerMoves
<1>3. CASE grantTier(p)
  <2>1. work[p].at = "grant" /\ grant' = work[p].epoch[2] /\ Stop(p)
        /\ UNCHANGED <<epochs, snapshots, sub, customer, atProvider, txns, evidence, activation>>
    BY <1>3 DEF grantTier
  <2>2. grant' \in {"none", "pro", "premium"}
    BY <1>1, <2>1 DEF BuyerFits, Grants
  <2>3. \A q \in Buyers : BuyerFits(work[q], sub', epochs', txns')
    BY <1>1, <2>1
  <2>4. work' \in [Buyers -> BuyerWork] /\ \A q \in Buyers : BuyerFits(work'[q], sub', epochs', txns')
    BY <1>1, <2>1, <2>3, NotEpochs, BuyersStand DEF Stop
  <2>5. SaleShapes' /\ SaleRows'
    BY <1>1, <2>1, <2>2, <2>4 DEF SaleShapes, SaleRows
  <2> QED
    BY <2>4, <2>5 DEF SaleInv
<1> QED
  BY <1>2, <1>3

\* remediate: the row removed is nobody's sale.
LEMMA RemediateInv == ASSUME CheckoutAssumption, SaleInv, remediate PROVE SaleInv'
<1>1. sub = Legacy /\ sub' = None /\ evidence = NoTxn /\ activation = None
      /\ UNCHANGED <<epochs, snapshots, customer, atProvider, txns, evidence, activation, grant, work>>
  BY DEF remediate
<1>2. SaleShapes /\ SaleRows /\ \A q \in Buyers : BuyerFits(work[q], sub, epochs, txns)
  BY DEF SaleInv
<1>3. snapshots = {} /\ \A e \in Epochs : txns[e] = NoTxn
  BY <1>1, <1>2, NotEpochs DEF SaleShapes, SaleRows
<1>4. \A q \in Buyers : BuyerFits(work[q], sub', epochs', txns')
  <2>1. \A q \in Buyers : work[q].at \notin {"customer", "verify", "find", "record", "lock", "sell"}
    BY <1>1, <1>2, NotEpochs DEF BuyerFits
  <2> QED
    BY <1>1, <1>2, <2>1 DEF BuyerFits
<1>5. SaleShapes' /\ SaleRows'
  BY <1>1, <1>2, <1>3 DEF SaleShapes, SaleRows
<1> QED
  BY <1>1, <1>4, <1>5 DEF SaleInv

\* The first state: nothing sold, nothing paid.
LEMMA SaleInitInv == ASSUME CheckoutAssumption, CheckoutInit PROVE SaleInv
<1>1. /\ epochs = [e \in Epochs |-> "unregistered"] /\ snapshots = {}
      /\ customer \in [status : {"absent", "unprovisioned"}, code : {"none"}]
      /\ atProvider = "none" /\ txns = [e \in Epochs |-> NoTxn] /\ evidence = NoTxn /\ activation = None
      /\ grant = "none" /\ work = [p \in Buyers |-> Idle]
  BY DEF CheckoutInit
<1>2. sub \in {None, Legacy}
  BY DEF CheckoutInit, CheckoutAssumption, None, Legacy
<1>3. SaleShapes /\ SaleRows
  BY <1>1, <1>2, NotEpochs DEF SaleShapes, SaleRows
<1>4. \A p \in Buyers : BuyerFits(work[p], sub, epochs, txns)
  BY <1>1, NotEpochs
<1> QED
  BY <1>3, <1>4 DEF SaleInv

\* Every step keeps the invariant.
LEMMA SaleNextInv == ASSUME CheckoutAssumption, SaleInv, [CheckoutNext]_checkoutVars PROVE SaleInv'
<1>1. CASE UNCHANGED checkoutVars
  <2>1. UNCHANGED <<epochs, snapshots, sub, customer, atProvider, txns, evidence, activation, grant, work>>
    BY <1>1 DEF checkoutVars
  <2> QED
    BY <2>1 DEF SaleInv, SaleShapes, SaleRows
<1>2. ASSUME NEW p \in Buyers, BuyerStep(p) PROVE SaleInv'
  BY <1>2, CheckoutInv, SelectLockInv, ObtainInv, OpenInv, CustomerInv, FindInv, VerifyInv, RecordInv, GrantInv
     DEF BuyerStep
<1>3. CASE (\E b \in Batches : registerEpochs(b)) \/ (\E e \in Epochs : retire(e) \/ pay(e))
  BY <1>3, RegisterInv, RetireInv, PayStepInv
<1>4. CASE providerCustomerReplaced \/ activate \/ remediate
  BY <1>4, CustomerInv, ActivateInv, RemediateInv
<1> QED
  BY <1>1, <1>2, <1>3, <1>4 DEF CheckoutNext

\* A step sells only what is on sale and keeps a provisioned customer.
LEMMA SaleSteps ==
    ASSUME CheckoutAssumption, SaleInv, [CheckoutNext]_checkoutVars PROVE SaleIsOpen /\ IdentityKept
<1>1. SaleIsOpen
  <2>1. CASE UNCHANGED sub
    BY <2>1 DEF SaleIsOpen
  <2>2. CASE \E p \in Buyers : obtainLock(p)
    BY <2>2, ObtainInv
  <2>3. CASE remediate
    BY <2>3, NotEpochs DEF remediate, SaleIsOpen
  <2>4. UNCHANGED checkoutVars => UNCHANGED sub
    BY DEF checkoutVars
  <2>5. ASSUME NEW p \in Buyers, BuyerStep(p), ~obtainLock(p) PROVE UNCHANGED sub
    BY <2>5 DEF BuyerStep, checkout, selectLock, openTransaction, ensureCustomer, provision, providerUnavailable,
       persist, confirm, verifyPayment, findByIdempotencyKey, recordTransaction, respond, beginGrant, grantTier
  <2>6. (\E b \in Batches : registerEpochs(b)) \/ (\E e \in Epochs : retire(e) \/ pay(e))
        \/ providerCustomerReplaced \/ activate => UNCHANGED sub
    BY DEF registerEpochs, retire, pay, providerCustomerReplaced, activate
  <2> QED
    BY <2>1, <2>2, <2>3, <2>4, <2>5, <2>6 DEF CheckoutNext
<1>2. IdentityKept
  <2>1. CASE UNCHANGED customer
    BY <2>1 DEF IdentityKept
  <2>2. CASE \E p \in Buyers : persist(p)
    BY <2>2 DEF persist, IdentityKept
  <2>3. UNCHANGED checkoutVars => UNCHANGED customer
    BY DEF checkoutVars
  <2>4. ASSUME NEW p \in Buyers, BuyerStep(p), ~persist(p) PROVE UNCHANGED customer
    BY <2>4 DEF BuyerStep, checkout, selectLock, obtainLock, openTransaction, ensureCustomer, provision,
       providerUnavailable, confirm, verifyPayment, findByIdempotencyKey, recordTransaction, respond, beginGrant,
       grantTier
  <2>5. (\E b \in Batches : registerEpochs(b)) \/ (\E e \in Epochs : retire(e) \/ pay(e))
        \/ providerCustomerReplaced \/ activate \/ remediate => UNCHANGED customer
    BY DEF registerEpochs, retire, pay, providerCustomerReplaced, activate, remediate
  <2> QED
    BY <2>1, <2>2, <2>3, <2>4, <2>5 DEF CheckoutNext
<1> QED
  BY <1>1, <1>2

\* SaleInv is inductive: a sold row stays sold, the epoch about to be sold cannot
\* be retired under the sale, and a payment once seen stands.
THEOREM SaleInvariance == ASSUME CheckoutAssumption PROVE CheckoutSpec => []SaleInv
<1>1. CheckoutInit => SaleInv
  BY SaleInitInv
<1>2. SaleInv /\ [CheckoutNext]_checkoutVars => SaleInv'
  BY SaleNextInv
<1> QED
  BY <1>1, <1>2, PTL DEF CheckoutSpec

\* Buying a plan, for any requests, registrations, plans and customer codes
\* (checkout.ts, snapshots.ts, customers.ts, verified-transactions.ts,
\* activation.ts): one sale per account at the price of an epoch on sale, a paid
\* tier that was paid for, and a customer identity that stays.
THEOREM SalesSound == ASSUME CheckoutAssumption PROVE CheckoutSpec => SalesAreSound
<1>1. SaleInv => CheckoutTypeOK /\ OneSalePerAccount /\ PaidTierIsPaidFor
  <2> SUFFICES ASSUME SaleInv PROVE CheckoutTypeOK /\ OneSalePerAccount /\ PaidTierIsPaidFor
    OBVIOUS
  <2>1. SaleShapes /\ SaleRows
    BY DEF SaleInv
  <2>2. CheckoutTypeOK
    <3>1. Epochs \cup {None} \cup Grants = Epochs \cup {None, <<0, "pro">>, <<0, "premium">>}
      BY DEF Grants
    <3> QED
      BY <2>1, <3>1 DEF SaleShapes, BuyerWork, CheckoutTypeOK
  <2>3. OneSalePerAccount
    BY <2>1 DEF SaleRows, PaidFor, OneSalePerAccount
  <2>4. PaidTierIsPaidFor
    <3> SUFFICES ASSUME getBillingState # "free", grant = "none"
                 PROVE  txns[sub].status = "success" /\ txns[sub].paid = sub /\ evidence = txns[sub]
      BY DEF PaidTierIsPaidFor
    <3>1. sub \in Epochs /\ activation # None
      BY DEF getBillingState, resolveEntitlements, resolvePaidTier
    <3> QED
      BY <2>1, <3>1 DEF SaleRows, PaidFor
  <2> QED
    BY <2>2, <2>3, <2>4
<1>2. SaleInv /\ [CheckoutNext]_checkoutVars => [SaleIsOpen]_checkoutVars /\ [IdentityKept]_checkoutVars
  BY SaleSteps
<1> QED
  BY <1>1, <1>2, SaleInvariance, PTL DEF CheckoutSpec, SalesAreSound, SoldWhileActive, CustomerIdentityStable

-----------------------------------------------------------------------------
(* Exchange rates, provider-plan epochs and pricing snapshots.               *)

EpochRows == [mode : ProviderModes, combo : Combos, code : PlanCodes, fx : Instants, usd : Nat \ {0},
              amount : Nat, from : Instants, status : {"active", "retired"}, retiredAt : Instants]
QuoteRows == [mode : ProviderModes, combo : Combos, code : PlanCodes, fx : Instants, usd : Nat \ {0}, amount : Nat]
Transactions == [rows : Seq(EpochRows), inserted : Nat]

\* An epoch was registered under a version that had started and was fresh, at the
\* amount this version gives for its own USD amount.
EpochFits(e, table) ==
    /\ e \in EpochRows /\ e.fx \in DOMAIN table /\ e.fx <= e.from /\ FreshAt(table[e.fx], e.from)
    /\ e.amount = computePaymentAmountMinor(e.usd, table[e.fx].rate) /\ e.amount >= MinimumMinor

\* A transaction's batch: one active row for each combination, in the order of the
\* matrix, all of one mode, instant and version, and no code twice.
BatchFits(tx, table) ==
    tx = NoTransaction \/
        /\ Len(tx.rows) = Len(PlanMatrix) /\ tx.inserted <= Len(PlanMatrix)
        /\ \A i \in 1..Len(PlanMatrix) :
             /\ EpochFits(tx.rows[i], table) /\ tx.rows[i].combo = PlanMatrix[i] /\ tx.rows[i].status = "active"
             /\ tx.rows[i].mode = tx.rows[1].mode /\ tx.rows[i].from = tx.rows[1].from
             /\ tx.rows[i].fx = tx.rows[1].fx
        /\ \A i, j \in 1..Len(PlanMatrix) : tx.rows[i].code = tx.rows[j].code => i = j

BatchIn(batch, c, m, t, x) == {f \in batch : f.combo = c /\ f.mode = m /\ f.from = t /\ f.fx = x}

\* An instant's epochs of a mode under a version cover every combination equally
\* often.
EquallyOften(batch) ==
    \A c, d \in Combos, m \in ProviderModes, t, x \in Instants :
        Cardinality(BatchIn(batch, c, m, t, x)) = Cardinality(BatchIn(batch, d, m, t, x))

\* A snapshot is its own USD amount at its own rate, and an epoch's.
QuoteFits(q, batch, table) ==
    /\ q \in QuoteRows /\ q.fx \in DOMAIN table
    /\ q.amount = computePaymentAmountMinor(q.usd, table[q.fx].rate)
    /\ \E e \in batch : e.mode = q.mode /\ e.code = q.code /\ e.amount = q.amount /\ e.combo = q.combo

VersionsFit ==
    /\ DOMAIN versions \subseteq Instants
    /\ \A v \in DOMAIN versions : versions[v] \in [rate : Rates, captured : Instants]

CodesOnce(batch) == \A e, f \in batch : e.mode = f.mode /\ e.code = f.code => e = f

\* No uncommitted row clashes with a committed one or with one of another
\* transaction: the unique indexes saw to it when it was inserted.
UncommittedApart ==
    \A r \in Registrars : \A e \in Uncommitted(r) :
        /\ \A f \in epochRows : ~Clash(e, f)
        /\ \A s \in Registrars \ {r} : \A f \in Uncommitted(s) : ~Clash(e, f)

PricingInv ==
    /\ VersionsFit /\ catalogue \in Catalogues /\ clock \in Instants
    /\ registrar \in [Registrars -> Transactions] /\ \A r \in Registrars : BatchFits(registrar[r], versions)
    /\ IsFiniteSet(epochRows) /\ (\A e \in epochRows : EpochFits(e, versions)) /\ CodesOnce(epochRows)
    /\ EquallyOften(epochRows) /\ UncommittedApart
    /\ \A q \in quotes : QuoteFits(q, epochRows, versions)

\* One half-up step is the nearest minor unit.
LEMMA HalfUp ==
    ASSUME NEW x \in Nat, NEW u \in Nat \ {0}, NEW a, a = (2 * x + u) \div (2 * u)
    PROVE  a \in Nat /\ 2 * x < 2 * (a * u) + u /\ 2 * (a * u) <= 2 * x + u
<1> DEFINE n == 2 * x + u
           d == 2 * u
<1>1. n \in Nat /\ d \in Nat /\ d > 0 OBVIOUS
<1>2. a = n \div d OBVIOUS
<1> HIDE DEF n, d
<1>3. a \in Nat /\ a * d <= n /\ n < a * d + d BY <1>1, <1>2
<1>4. a * d = 2 * (a * u) BY <1>3 DEF d
<1> QED BY <1>3, <1>4 DEF n, d

\* An amount is the USD amount at the rate, to the nearest minor unit.
LEMMA AmountNearest ==
    ASSUME PricingAssumption, NEW usd \in Nat, NEW rate \in Nat
    PROVE  LET a == computePaymentAmountMinor(usd, rate)
           IN  /\ a \in Nat /\ 2 * (usd * rate) < 2 * (a * RateUnit) + RateUnit
               /\ 2 * (a * RateUnit) <= 2 * (usd * rate) + RateUnit
<1>1. usd * rate \in Nat /\ RateUnit \in Nat \ {0} BY DEF PricingAssumption
<1>2. computePaymentAmountMinor(usd, rate) = (2 * (usd * rate) + RateUnit) \div (2 * RateUnit)
  <2>1. 2 * usd * rate = 2 * (usd * rate) OBVIOUS
  <2> QED BY <2>1 DEF computePaymentAmountMinor
<1> QED BY <1>1, <1>2, HalfUp

\* What a version says.
LEMMA RateIsNatural ==
    ASSUME PricingAssumption, VersionsFit, NEW v \in DOMAIN versions
    PROVE  versions[v].rate \in Nat /\ versions[v].rate \in Rates /\ v \in Instants /\ v \in Nat
<1>1. versions[v] \in [rate : Rates, captured : Instants] /\ v \in Instants BY DEF VersionsFit
<1>2. versions[v].rate \in Rates BY <1>1
<1>3. Rates \subseteq Nat BY DEF PricingAssumption
<1>4. Instants \subseteq Nat BY DEF Instants, PricingAssumption
<1> QED BY <1>1, <1>2, <1>3, <1>4

\* The combinations, and their places in the matrix.
LEMMA MatrixFacts ==
    ASSUME PricingAssumption
    PROVE  /\ Len(PlanMatrix) \in Nat /\ Len(PlanMatrix) > 0 /\ DOMAIN PlanMatrix = 1..Len(PlanMatrix)
           /\ \A i \in 1..Len(PlanMatrix) : PlanMatrix[i] \in Combos
           /\ \A c \in Combos : \E i \in 1..Len(PlanMatrix) : PlanMatrix[i] = c
           /\ \A i, j \in 1..Len(PlanMatrix) : PlanMatrix[i] = PlanMatrix[j] => i = j
<1>1. PlanMatrix \in Seq(Combos) /\ PlanMatrix # <<>> BY DEF PricingAssumption, Combos
<1>2. Len(PlanMatrix) \in Nat /\ Len(PlanMatrix) > 0 /\ DOMAIN PlanMatrix = 1..Len(PlanMatrix) BY <1>1
<1>3. \A i, j \in DOMAIN PlanMatrix : PlanMatrix[i] = PlanMatrix[j] => i = j BY DEF PricingAssumption
<1>4. \A c \in Combos : \E i \in DOMAIN PlanMatrix : PlanMatrix[i] = c BY DEF Combos, Range
<1> QED BY <1>1, <1>2, <1>3, <1>4

\* A clash is mutual.
LEMMA ClashMutual == ASSUME NEW a, NEW b, Clash(a, b) PROVE Clash(b, a)
BY DEF Clash

\* What holds of an epoch, a batch and a snapshot stays when versions are only
\* added.
LEMMA VersionsKept ==
    ASSUME NEW table, NEW table2, \A v \in DOMAIN table : v \in DOMAIN table2 /\ table2[v] = table[v]
    PROVE  /\ \A e : EpochFits(e, table) => EpochFits(e, table2)
           /\ \A tx : BatchFits(tx, table) => BatchFits(tx, table2)
           /\ \A q, batch : QuoteFits(q, batch, table) => QuoteFits(q, batch, table2)
<1>1. \A e : EpochFits(e, table) => EpochFits(e, table2) BY DEF EpochFits
<1>2. \A tx : BatchFits(tx, table) => BatchFits(tx, table2) BY <1>1 DEF BatchFits
<1>3. \A q, batch : QuoteFits(q, batch, table) => QuoteFits(q, batch, table2) BY DEF QuoteFits
<1> QED BY <1>1, <1>2, <1>3

\* Nothing is uncommitted where nothing was inserted.
LEMMA NothingIn == ASSUME NEW r, registrar[r].inserted = 0 PROVE Uncommitted(r) = {}
BY DEF Uncommitted

\* An empty catalogue of versions, epochs and snapshots.
LEMMA PricingInitInv == PricingAssumption /\ PricingInit => PricingInv
<1> SUFFICES ASSUME PricingAssumption, PricingInit PROVE PricingInv OBVIOUS
<1>1. VersionsFit /\ catalogue \in Catalogues /\ clock \in Instants
  BY DEF PricingInit, VersionsFit, Instants, PricingAssumption
<1>2. NoTransaction \in Transactions /\ NoTransaction.inserted = 0 BY DEF NoTransaction, Transactions
<1>3. registrar \in [Registrars -> Transactions] /\ \A r \in Registrars : registrar[r] = NoTransaction
  BY <1>2 DEF PricingInit
<1>4. \A r \in Registrars : BatchFits(registrar[r], versions) /\ Uncommitted(r) = {}
  BY <1>2, <1>3, NothingIn DEF BatchFits
<1>5. epochRows = {} /\ quotes = {} BY DEF PricingInit
<1>6. EquallyOften(epochRows)
  <2>1. \A c, m, t, x : BatchIn(epochRows, c, m, t, x) = {} BY <1>5 DEF BatchIn
  <2> QED BY <2>1 DEF EquallyOften
<1>7. UncommittedApart BY <1>4 DEF UncommittedApart
<1> QED BY <1>1, <1>3, <1>4, <1>5, <1>6, <1>7, FS_EmptySet DEF PricingInv, CodesOnce

\* The indexes have nothing new to see.
LEMMA ApartKept ==
    ASSUME UncommittedApart, registrar' = registrar, epochRows' = epochRows PROVE UncommittedApart'
<1>1. \A r : Uncommitted(r)' = Uncommitted(r) BY DEF Uncommitted
<1> QED BY <1>1 DEF UncommittedApart

\* A version is added.
LEMMA PublishInv ==
    ASSUME PricingAssumption, PricingInv, NEW rate \in Rates, NEW from \in Instants, NEW captured \in Instants,
           publish(rate, from, captured)
    PROVE  PricingInv'
<1>1. /\ DOMAIN versions' = DOMAIN versions \cup {from}
      /\ versions'[from] = [rate |-> rate, captured |-> captured]
      /\ \A v \in DOMAIN versions : v \in DOMAIN versions' /\ versions'[v] = versions[v]
      /\ UNCHANGED <<epochRows, registrar, quotes, catalogue, clock>>
  BY DEF publish
<1>2. VersionsFit' BY <1>1 DEF PricingInv, VersionsFit
<1>3. /\ \A e : EpochFits(e, versions) => EpochFits(e, versions')
      /\ \A tx : BatchFits(tx, versions) => BatchFits(tx, versions')
      /\ \A q, batch : QuoteFits(q, batch, versions) => QuoteFits(q, batch, versions')
  BY <1>1, VersionsKept
<1>4. UncommittedApart' BY <1>1, ApartKept DEF PricingInv
<1> QED BY <1>1, <1>2, <1>3, <1>4 DEF PricingInv

\* One transaction moves on: what it has newly inserted clashes with nothing.
LEMMA TransactionMove ==
    ASSUME PricingInv, NEW r \in Registrars, NEW tx \in Transactions, BatchFits(tx, versions),
           registrar' = [registrar EXCEPT ![r] = tx], UNCHANGED <<versions, epochRows, quotes, catalogue, clock>>,
           \A e \in Uncommitted(r)' : e \in Uncommitted(r) \/
              /\ \A f \in epochRows : ~Clash(e, f)
              /\ \A s \in Registrars \ {r} : \A f \in Uncommitted(s) : ~Clash(e, f)
    PROVE  PricingInv'
<1>1. registrar' \in [Registrars -> Transactions] /\ registrar'[r] = tx
      /\ \A s \in Registrars \ {r} : registrar'[s] = registrar[s]
  BY DEF PricingInv
<1>2. \A s \in Registrars : BatchFits(registrar'[s], versions) BY <1>1 DEF PricingInv
<1>3. \A s \in Registrars \ {r} : Uncommitted(s)' = Uncommitted(s) BY <1>1 DEF Uncommitted
<1>4. \A e \in Uncommitted(r)' : /\ \A f \in epochRows : ~Clash(e, f)
                                 /\ \A s \in Registrars \ {r} : \A f \in Uncommitted(s) : ~Clash(e, f)
  BY DEF PricingInv, UncommittedApart
<1>5. UncommittedApart'
  <2> SUFFICES ASSUME NEW s \in Registrars, NEW e \in Uncommitted(s)'
               PROVE  /\ \A f \in epochRows : ~Clash(e, f)
                      /\ \A o \in Registrars \ {s} : \A f \in Uncommitted(o)' : ~Clash(e, f)
    BY DEF UncommittedApart
  <2>1. CASE s = r BY <2>1, <1>3, <1>4
  <2>2. CASE s # r
    <3>1. e \in Uncommitted(s) BY <2>2, <1>3
    <3>2. \A f \in epochRows : ~Clash(e, f) BY <3>1 DEF PricingInv, UncommittedApart
    <3>3. ASSUME NEW o \in Registrars \ {s}, NEW f \in Uncommitted(o)' PROVE ~Clash(e, f)
      <4>1. CASE o = r BY <4>1, <3>1, <2>2, <1>4, ClashMutual
      <4>2. CASE o # r
        <5>1. f \in Uncommitted(o) BY <4>2, <1>3
        <5> QED BY <5>1, <3>1 DEF PricingInv, UncommittedApart
      <4> QED BY <4>1, <4>2
    <3> QED BY <3>2, <3>3
  <2> QED BY <2>1, <2>2
<1> QED BY <1>1, <1>2, <1>5 DEF PricingInv, VersionsFit

\* A function on 1..n is a sequence of length n.
LEMMA FunctionIsSequence ==
    ASSUME NEW S, NEW n \in Nat, NEW f \in [1..n -> S] PROVE f \in Seq(S) /\ Len(f) = n
<1>1. f \in Seq(S) BY SeqDef
<1>2. Len(f) \in Nat /\ DOMAIN f = 1..Len(f) BY <1>1, LenProperties
<1> QED BY <1>1, <1>2

\* A batch is prepared: its amounts are derived under a version that has started
\* and is fresh, its rows follow the matrix, and none is inserted.
LEMMA BeginBatchInv ==
    ASSUME PricingAssumption, PricingInv, NEW r \in Registrars, NEW mode \in ProviderModes, NEW fx \in DOMAIN versions,
           NEW codes \in [Combos -> PlanCodes], NEW dashboard, NEW order,
           beginBatch(r, mode, fx, codes, dashboard, order)
    PROVE  PricingInv'
<1> DEFINE row(i) == EpochRow(mode, PlanMatrix[i], codes[PlanMatrix[i]], fx)
           batch == [i \in DOMAIN PlanMatrix |-> row(i)]
           tx == [rows |-> batch, inserted |-> 0]
<1>1. registrar' = [registrar EXCEPT ![r] = tx] /\ UNCHANGED <<versions, epochRows, quotes, catalogue, clock>>
  BY DEF beginBatch, registrationOrder
<1>2. /\ fx <= clock /\ FreshAt(versions[fx], clock) /\ validateProviderPlanCode(codes)
      /\ \A c \in Combos : computePaymentAmountMinor(catalogue[c], versions[fx].rate) >= MinimumMinor
  BY DEF beginBatch, prepareSandboxProvisioningBatch, assertFxRateVersionFresh
<1>3. /\ Len(PlanMatrix) \in Nat /\ Len(PlanMatrix) > 0 /\ DOMAIN PlanMatrix = 1..Len(PlanMatrix)
      /\ \A i \in 1..Len(PlanMatrix) : PlanMatrix[i] \in Combos
      /\ \A i, j \in 1..Len(PlanMatrix) : PlanMatrix[i] = PlanMatrix[j] => i = j
  BY MatrixFacts
<1>4. /\ versions[fx].rate \in Nat /\ fx \in Instants /\ clock \in Instants /\ 0 \in Instants
      /\ catalogue \in [Combos -> Nat \ {0}]
  BY RateIsNatural DEF PricingInv, PricingAssumption, Combos, Instants
<1>5. ASSUME NEW i \in 1..Len(PlanMatrix)
      PROVE  /\ row(i) \in EpochRows /\ EpochFits(row(i), versions)
             /\ row(i).combo = PlanMatrix[i] /\ row(i).status = "active" /\ row(i).mode = mode
             /\ row(i).from = clock /\ row(i).fx = fx /\ row(i).code = codes[PlanMatrix[i]]
  <2> DEFINE c == PlanMatrix[i]
             a == computePaymentAmountMinor(catalogue[c], versions[fx].rate)
             e == [mode |-> mode, combo |-> c, code |-> codes[c], fx |-> fx, usd |-> catalogue[c], amount |-> a,
                   from |-> clock, status |-> "active", retiredAt |-> 0]
  <2>1. row(i) = e BY DEF EpochRow
  <2>2. c \in Combos /\ catalogue[c] \in Nat \ {0} /\ codes[c] \in PlanCodes BY <1>3, <1>4
  <2>3. a \in Nat /\ a >= MinimumMinor BY <2>2, <1>2, <1>4, AmountNearest
  <2> HIDE DEF a, c, row
  <2>4. e \in EpochRows /\ e.mode = mode /\ e.combo = c /\ e.code = codes[c] /\ e.fx = fx /\ e.usd = catalogue[c]
        /\ e.amount = a /\ e.from = clock /\ e.status = "active"
    BY <2>2, <2>3, <1>4 DEF EpochRows
  <2> HIDE DEF e
  <2>5. EpochFits(e, versions) BY <2>3, <2>4, <1>2 DEF EpochFits, a
  <2> QED BY <2>1, <2>4, <2>5 DEF c
<1> HIDE DEF row
<1>6. batch \in [1..Len(PlanMatrix) -> EpochRows] /\ \A i \in 1..Len(PlanMatrix) : batch[i] = row(i) BY <1>3, <1>5
<1> HIDE DEF batch
<1>7. batch \in Seq(EpochRows) /\ Len(batch) = Len(PlanMatrix) BY <1>3, <1>6, FunctionIsSequence
<1>8. tx \in Transactions /\ tx.rows = batch /\ tx.inserted = 0 BY <1>7 DEF Transactions
<1> HIDE DEF tx
<1>9. BatchFits(tx, versions)
  <2>1. ASSUME NEW i \in 1..Len(PlanMatrix)
        PROVE  /\ EpochFits(batch[i], versions) /\ batch[i].combo = PlanMatrix[i] /\ batch[i].status = "active"
               /\ batch[i].mode = batch[1].mode /\ batch[i].from = batch[1].from /\ batch[i].fx = batch[1].fx
    <3>1. 1 \in 1..Len(PlanMatrix) BY <1>3
    <3> QED BY <3>1, <1>5, <1>6
  <2>2. ASSUME NEW i \in 1..Len(PlanMatrix), NEW j \in 1..Len(PlanMatrix), batch[i].code = batch[j].code
        PROVE  i = j
    <3>1. codes[PlanMatrix[i]] = codes[PlanMatrix[j]] BY <2>2, <1>5, <1>6
    <3>2. PlanMatrix[i] = PlanMatrix[j] BY <3>1, <1>2, <1>3 DEF validateProviderPlanCode
    <3> QED BY <3>2, <1>3
  <2>3. Len(tx.rows) = Len(PlanMatrix) /\ tx.inserted <= Len(PlanMatrix) BY <1>3, <1>7, <1>8
  <2> QED BY <2>1, <2>2, <2>3, <1>8 DEF BatchFits
<1>10. Uncommitted(r)' = {}
  <2>1. registrar'[r] = tx BY <1>1 DEF PricingInv
  <2> QED BY <2>1, <1>8 DEF Uncommitted
<1> QED BY <1>1, <1>8, <1>9, <1>10, TransactionMove

\* A transaction ends without a trace.
LEMMA RollbackInv == ASSUME PricingInv, NEW r \in Registrars, rollback(r) PROVE PricingInv'
<1>1. NoTransaction \in Transactions /\ BatchFits(NoTransaction, versions) /\ NoTransaction.inserted = 0
  BY DEF NoTransaction, Transactions, BatchFits
<1>2. registrar' = [registrar EXCEPT ![r] = NoTransaction] /\ UNCHANGED <<versions, epochRows, quotes, catalogue, clock>>
  BY DEF rollback
<1>3. registrar'[r] = NoTransaction BY <1>2 DEF PricingInv
<1>4. Uncommitted(r)' = {} BY <1>1, <1>3 DEF Uncommitted
<1> QED BY <1>1, <1>2, <1>4, TransactionMove

\* What a transaction under way holds.
LEMMA InsertingFits ==
    ASSUME PricingInv, NEW r \in Registrars, registrar[r].rows # <<>>
    PROVE  /\ registrar[r] \in Transactions /\ registrar[r].inserted \in Nat
           /\ Len(registrar[r].rows) = Len(PlanMatrix) /\ registrar[r].inserted <= Len(PlanMatrix)
           /\ registrar[r].rows \in Seq(EpochRows)
           /\ \A i \in 1..Len(PlanMatrix) :
                /\ EpochFits(registrar[r].rows[i], versions) /\ registrar[r].rows[i].combo = PlanMatrix[i]
                /\ registrar[r].rows[i].status = "active" /\ registrar[r].rows[i].mode = registrar[r].rows[1].mode
                /\ registrar[r].rows[i].from = registrar[r].rows[1].from
                /\ registrar[r].rows[i].fx = registrar[r].rows[1].fx
           /\ \A i, j \in 1..Len(PlanMatrix) : registrar[r].rows[i].code = registrar[r].rows[j].code => i = j
<1>1. registrar[r] # NoTransaction BY DEF NoTransaction
<1>2. registrar[r] \in Transactions /\ BatchFits(registrar[r], versions) BY DEF PricingInv
<1>3. registrar[r].inserted \in Nat /\ registrar[r].rows \in Seq(EpochRows) BY <1>2 DEF Transactions
<1> QED BY <1>1, <1>2, <1>3 DEF BatchFits

\* An insert that clashes with nothing committed and waits for nobody.
LEMMA PlanRegisterInv ==
    ASSUME PricingAssumption, PricingInv, NEW r \in Registrars, registerPlan(r) PROVE PricingInv'
<1> DEFINE n == registrar[r].inserted
           tx == [registrar[r] EXCEPT !.inserted = n + 1]
<1>1. registrar' = [registrar EXCEPT ![r] = tx] /\ UNCHANGED <<versions, epochRows, quotes, catalogue, clock>>
  BY DEF registerPlan
<1>2. n < Len(registrar[r].rows) BY DEF registerPlan, Inserting
<1>3. registrar[r].rows # <<>>
  <2> SUFFICES ASSUME registrar[r].rows = <<>> PROVE FALSE OBVIOUS
  <2>1. Len(registrar[r].rows) = 0 BY EmptySeq
  <2>2. n \in Nat BY DEF PricingInv, Transactions
  <2> QED BY <2>1, <2>2, <1>2
<1>4. /\ registrar[r] \in Transactions /\ n \in Nat /\ Len(registrar[r].rows) = Len(PlanMatrix)
      /\ Len(PlanMatrix) \in Nat
  BY <1>3, InsertingFits, MatrixFacts
<1>5. tx \in Transactions /\ tx.rows = registrar[r].rows /\ tx.inserted = n + 1 BY <1>4 DEF Transactions
<1> HIDE DEF tx
<1>6. BatchFits(tx, versions)
  <2>1. n + 1 <= Len(PlanMatrix) BY <1>2, <1>4
  <2> QED BY <1>3, <1>5, <2>1, InsertingFits DEF BatchFits
<1>7. ASSUME NEW e \in Uncommitted(r)', e \notin Uncommitted(r)
      PROVE  /\ \A f \in epochRows : ~Clash(e, f)
             /\ \A s \in Registrars \ {r} : \A f \in Uncommitted(s) : ~Clash(e, f)
  <2>1. registrar'[r] = tx BY <1>1 DEF PricingInv
  <2>2. PICK i \in 1..n + 1 : e = registrar[r].rows[i] BY <2>1, <1>5 DEF Uncommitted
  <2>3. i \notin 1..n BY <2>2, <1>7 DEF Uncommitted
  <2>4. i = n + 1 BY <2>2, <2>3, <1>4
  <2>5. e = NextRow(r) BY <2>2, <2>4 DEF NextRow
  <2>6. Inserting(r) /\ ~Collides(r) /\ \A s \in Registrars : ~WaitsFor(r, s) BY DEF registerPlan
  <2> QED BY <2>5, <2>6 DEF Collides, WaitsFor
<1> QED BY <1>1, <1>5, <1>6, <1>7, TransactionMove

\* The rows of a complete batch.
LEMMA WholeBatch ==
    ASSUME PricingAssumption, PricingInv, NEW r \in Registrars, registrar[r].rows # <<>>, ~Inserting(r)
    PROVE  Uncommitted(r) = {registrar[r].rows[i] : i \in 1..Len(PlanMatrix)}
<1>1. /\ registrar[r].inserted \in Nat /\ Len(registrar[r].rows) = Len(PlanMatrix)
      /\ registrar[r].inserted <= Len(PlanMatrix) /\ Len(PlanMatrix) \in Nat
  BY InsertingFits, MatrixFacts
<1>2. registrar[r].inserted = Len(PlanMatrix) BY <1>1 DEF Inserting
<1> QED BY <1>2 DEF Uncommitted

\* A batch adds one row to each combination of its mode, instant and version.
LEMMA CommitCounts ==
    ASSUME PricingAssumption, PricingInv, NEW r \in Registrars, registrar[r].rows # <<>>, ~Inserting(r)
    PROVE  EquallyOften(epochRows \cup Uncommitted(r))
<1> DEFINE batch == registrar[r].rows
           after == epochRows \cup Uncommitted(r)
<1>1. /\ \A i \in 1..Len(PlanMatrix) :
            batch[i].combo = PlanMatrix[i] /\ batch[i].mode = batch[1].mode /\ batch[i].from = batch[1].from
            /\ batch[i].fx = batch[1].fx
      /\ Uncommitted(r) = {batch[i] : i \in 1..Len(PlanMatrix)}
  BY InsertingFits, WholeBatch
<1>2. \A e \in Uncommitted(r) : e \notin epochRows BY DEF PricingInv, UncommittedApart, Clash
<1>3. IsFiniteSet(epochRows) /\ EquallyOften(epochRows) BY DEF PricingInv
<1> HIDE DEF batch
<1>4. ASSUME NEW c \in Combos, NEW m \in ProviderModes, NEW t \in Instants, NEW x \in Instants
      PROVE  LET size == Cardinality(BatchIn(epochRows, c, m, t, x)) IN
             /\ size \in Nat
             /\ Cardinality(BatchIn(after, c, m, t, x)) =
                  IF m = batch[1].mode /\ t = batch[1].from /\ x = batch[1].fx THEN size + 1 ELSE size
  <2> DEFINE before == BatchIn(epochRows, c, m, t, x)
  <2>1. before \subseteq epochRows BY DEF BatchIn
  <2>2. IsFiniteSet(before) /\ Cardinality(before) \in Nat BY <2>1, <1>3, FS_Subset, FS_CardinalityType
  <2>3. CASE m = batch[1].mode /\ t = batch[1].from /\ x = batch[1].fx
    <3>1. PICK i \in 1..Len(PlanMatrix) : PlanMatrix[i] = c BY MatrixFacts
    <3>2. \A j \in 1..Len(PlanMatrix) : PlanMatrix[j] = c => j = i BY <3>1, MatrixFacts
    <3>3. \A f \in Uncommitted(r) : f.combo = c => f = batch[i] BY <3>2, <1>1
    <3>4. batch[i] \in Uncommitted(r) /\ batch[i].combo = c /\ batch[i].mode = m /\ batch[i].from = t /\ batch[i].fx = x
      BY <3>1, <1>1, <2>3
    <3>5. BatchIn(after, c, m, t, x) = before \cup {batch[i]} BY <3>3, <3>4 DEF BatchIn
    <3>6. batch[i] \notin before BY <3>4, <2>1, <1>2
    <3> HIDE DEF before
    <3>7. Cardinality(before \cup {batch[i]}) = Cardinality(before) + 1 BY <3>6, <2>2, FS_AddElement
    <3> QED BY <3>5, <3>7, <2>2, <2>3 DEF before
  <2>4. CASE ~(m = batch[1].mode /\ t = batch[1].from /\ x = batch[1].fx)
    <3>1. \A f \in Uncommitted(r) : ~(f.mode = m /\ f.from = t /\ f.fx = x) BY <2>4, <1>1
    <3>2. BatchIn(after, c, m, t, x) = before BY <3>1 DEF BatchIn
    <3> QED BY <3>2, <2>2, <2>4
  <2> QED BY <2>3, <2>4
<1> HIDE DEF after
<1>5. ASSUME NEW c \in Combos, NEW d \in Combos, NEW m \in ProviderModes, NEW t \in Instants, NEW x \in Instants
      PROVE  Cardinality(BatchIn(after, c, m, t, x)) = Cardinality(BatchIn(after, d, m, t, x))
  <2>1. Cardinality(BatchIn(epochRows, c, m, t, x)) = Cardinality(BatchIn(epochRows, d, m, t, x))
    BY <1>3 DEF EquallyOften
  <2> QED BY <2>1, <1>4
<1> QED BY <1>5 DEF EquallyOften, after

\* A complete batch becomes visible at once.
LEMMA CommitBatchInv ==
    ASSUME PricingAssumption, PricingInv, NEW r \in Registrars, commitBatch(r) PROVE PricingInv'
<1>1. /\ registrar[r].rows # <<>> /\ ~Inserting(r) /\ epochRows' = epochRows \cup Uncommitted(r)
      /\ registrar' = [registrar EXCEPT ![r] = NoTransaction] /\ UNCHANGED <<versions, quotes, catalogue, clock>>
  BY DEF commitBatch
<1>2. /\ Len(PlanMatrix) \in Nat
      /\ \A i \in 1..Len(PlanMatrix) : EpochFits(registrar[r].rows[i], versions)
      /\ \A i, j \in 1..Len(PlanMatrix) : registrar[r].rows[i].code = registrar[r].rows[j].code => i = j
      /\ Uncommitted(r) = {registrar[r].rows[i] : i \in 1..Len(PlanMatrix)}
  BY <1>1, InsertingFits, WholeBatch, MatrixFacts
<1>3. \A e \in epochRows' : EpochFits(e, versions) BY <1>1, <1>2 DEF PricingInv
<1>4. \A e \in Uncommitted(r), f \in epochRows : ~Clash(e, f) BY DEF PricingInv, UncommittedApart
<1>5. CodesOnce(epochRows')
  <2> SUFFICES ASSUME NEW e \in epochRows', NEW f \in epochRows', e.mode = f.mode, e.code = f.code PROVE e = f
    BY DEF CodesOnce
  <2>1. CASE e \in epochRows /\ f \in epochRows BY <2>1 DEF PricingInv, CodesOnce
  <2>2. CASE e \in Uncommitted(r) /\ f \in epochRows BY <2>2, <1>4 DEF Clash
  <2>3. CASE f \in Uncommitted(r) /\ e \in epochRows BY <2>3, <1>4 DEF Clash
  <2>4. CASE e \in Uncommitted(r) /\ f \in Uncommitted(r) BY <2>4, <1>2
  <2> QED BY <2>1, <2>2, <2>3, <2>4, <1>1
<1>6. IsFiniteSet(epochRows')
  <2> DEFINE place == [i \in 1..Len(PlanMatrix) |-> registrar[r].rows[i]]
  <2>1. IsFiniteSet(1..Len(PlanMatrix))
    <3>1. 1 \in Int /\ Len(PlanMatrix) \in Int BY <1>2
    <3> QED BY <3>1, FS_Interval
  <2>2. place \in Surjection(1..Len(PlanMatrix), Uncommitted(r)) BY <1>2 DEF Surjection
  <2>3. IsFiniteSet(Uncommitted(r)) BY <2>1, <2>2, FS_Surjection DEF ExistsSurjection
  <2> QED BY <2>3, <1>1, FS_Union DEF PricingInv
<1>7. EquallyOften(epochRows') BY <1>1, CommitCounts
<1>8. /\ NoTransaction \in Transactions /\ BatchFits(NoTransaction, versions) /\ NoTransaction.inserted = 0
      /\ registrar' \in [Registrars -> Transactions] /\ registrar'[r] = NoTransaction
      /\ \A s \in Registrars \ {r} : registrar'[s] = registrar[s]
  BY <1>1 DEF PricingInv, NoTransaction, Transactions, BatchFits
<1>9. \A s \in Registrars : BatchFits(registrar'[s], versions) BY <1>8 DEF PricingInv
<1>10. UncommittedApart'
  <2>1. Uncommitted(r)' = {} BY <1>8 DEF Uncommitted
  <2>2. \A s \in Registrars \ {r} : Uncommitted(s)' = Uncommitted(s) BY <1>8 DEF Uncommitted
  <2>3. ASSUME NEW s \in Registrars \ {r}, NEW e \in Uncommitted(s)
        PROVE  /\ \A f \in epochRows' : ~Clash(e, f)
               /\ \A o \in Registrars \ {s} : \A f \in Uncommitted(o) : ~Clash(e, f)
    <3>1. /\ \A f \in epochRows : ~Clash(e, f)
          /\ \A o \in Registrars \ {s} : \A f \in Uncommitted(o) : ~Clash(e, f)
      BY DEF PricingInv, UncommittedApart
    <3> QED BY <3>1, <1>1
  <2> QED BY <2>1, <2>2, <2>3 DEF UncommittedApart
<1>11. \A q \in quotes : QuoteFits(q, epochRows', versions) BY <1>1 DEF PricingInv, QuoteFits
<1> QED BY <1>1, <1>3, <1>5, <1>6, <1>7, <1>8, <1>9, <1>10, <1>11 DEF PricingInv, VersionsFit

\* A retired epoch keeps everything but its status.
LEMMA PlanRetireInv == ASSUME PricingAssumption, PricingInv, NEW e \in epochRows, retireEpoch(e) PROVE PricingInv'
<1> DEFINE old == [e EXCEPT !.status = "retired", !.retiredAt = clock]
<1>1. epochRows' = (epochRows \ {e}) \cup {old} /\ UNCHANGED <<versions, registrar, quotes, catalogue, clock>>
  BY DEF retireEpoch
<1>2. EpochFits(e, versions) /\ e \in EpochRows /\ clock \in Instants BY DEF PricingInv, EpochFits
<1>3. /\ old \in EpochRows /\ old.mode = e.mode /\ old.combo = e.combo /\ old.code = e.code /\ old.fx = e.fx
      /\ old.usd = e.usd /\ old.amount = e.amount /\ old.from = e.from /\ old.status = "retired"
  BY <1>2 DEF EpochRows
<1> HIDE DEF old
<1>4. EpochFits(old, versions) BY <1>2, <1>3 DEF EpochFits
<1>5. \A f \in epochRows' : EpochFits(f, versions) BY <1>1, <1>4 DEF PricingInv
<1>6. CodesOnce(epochRows) /\ IsFiniteSet(epochRows) /\ EquallyOften(epochRows) BY DEF PricingInv
<1>7. \A f \in epochRows : f.mode = old.mode /\ f.code = old.code => f = e BY <1>3, <1>6 DEF CodesOnce
<1>8. CodesOnce(epochRows') BY <1>1, <1>6, <1>7 DEF CodesOnce
<1>9. IsFiniteSet(epochRows') BY <1>1, <1>6, FS_RemoveElement, FS_AddElement
<1>10. ASSUME NEW c, NEW m, NEW t, NEW x
       PROVE  Cardinality(BatchIn(epochRows', c, m, t, x)) = Cardinality(BatchIn(epochRows, c, m, t, x))
  <2> DEFINE before == BatchIn(epochRows, c, m, t, x)
  <2>1. before \subseteq epochRows BY DEF BatchIn
  <2>2. IsFiniteSet(before) /\ Cardinality(before) \in Nat BY <2>1, <1>6, FS_Subset, FS_CardinalityType
  <2>3. CASE e \in before
    <3>1. BatchIn(epochRows', c, m, t, x) = (before \ {e}) \cup {old} BY <2>3, <1>1, <1>3 DEF BatchIn
    <3>2. old \notin before \ {e} BY <2>1, <1>7
    <3> HIDE DEF before
    <3>3. IsFiniteSet(before \ {e}) /\ Cardinality(before \ {e}) = Cardinality(before) - 1
      BY <2>2, <2>3, FS_RemoveElement
    <3>4. Cardinality((before \ {e}) \cup {old}) = Cardinality(before \ {e}) + 1 BY <3>2, <3>3, FS_AddElement
    <3> QED BY <3>1, <3>3, <3>4, <2>2 DEF before
  <2>4. CASE e \notin before
    <3>1. BatchIn(epochRows', c, m, t, x) = before BY <2>4, <1>1, <1>3 DEF BatchIn
    <3> QED BY <3>1
  <2> QED BY <2>3, <2>4
<1>11. EquallyOften(epochRows') BY <1>6, <1>10 DEF EquallyOften
<1>12. UncommittedApart'
  <2>1. \A r : Uncommitted(r)' = Uncommitted(r) BY <1>1 DEF Uncommitted
  <2>2. \A r \in Registrars : \A f \in Uncommitted(r) : ~Clash(f, old)
    <3> SUFFICES ASSUME NEW r \in Registrars, NEW f \in Uncommitted(r) PROVE ~Clash(f, old) OBVIOUS
    <3>1. ~Clash(f, e) BY DEF PricingInv, UncommittedApart
    <3> QED BY <3>1, <1>3 DEF Clash
  <2> QED BY <2>1, <2>2, <1>1 DEF PricingInv, UncommittedApart
<1>13. ASSUME NEW q \in quotes PROVE QuoteFits(q, epochRows', versions)
  <2>1. QuoteFits(q, epochRows, versions) BY DEF PricingInv
  <2>2. PICK f \in epochRows : f.mode = q.mode /\ f.code = q.code /\ f.amount = q.amount /\ f.combo = q.combo
    BY <2>1 DEF QuoteFits
  <2>3. f \in epochRows' \/ f = e BY <1>1
  <2>4. \E g \in epochRows' : g.mode = q.mode /\ g.code = q.code /\ g.amount = q.amount /\ g.combo = q.combo
    BY <2>2, <2>3, <1>1, <1>3
  <2> QED BY <2>1, <2>4 DEF QuoteFits
<1> QED BY <1>1, <1>5, <1>8, <1>9, <1>11, <1>12, <1>13 DEF PricingInv, VersionsFit

\* A snapshot is taken of the one active epoch, and recomputes.
LEMMA QuoteInv ==
    ASSUME PricingAssumption, PricingInv, NEW mode \in ProviderModes, NEW combo \in Combos, quote(mode, combo)
    PROVE  PricingInv'
<1>1. PICK e \in epochRows : /\ verifyPricingSnapshot(priceFromProviderPlanEpoch(e))
                             /\ quotes' = quotes \cup {priceFromProviderPlanEpoch(e)}
  BY DEF quote, selectActiveProviderPlan
<1> DEFINE q == priceFromProviderPlanEpoch(e)
<1>2. EpochFits(e, versions) /\ e \in EpochRows BY DEF PricingInv, EpochFits
<1>3. e.combo \in Combos /\ catalogue[e.combo] \in Nat \ {0}
  <2>1. catalogue \in [Combos -> Nat \ {0}] BY DEF PricingInv, PricingAssumption, Combos
  <2>2. e.combo \in Combos BY <1>2 DEF EpochRows
  <2> QED BY <2>1, <2>2
<1>4. /\ q \in QuoteRows /\ q.mode = e.mode /\ q.combo = e.combo /\ q.code = e.code /\ q.fx = e.fx
      /\ q.amount = e.amount
  BY <1>2, <1>3 DEF priceFromProviderPlanEpoch, QuoteRows, EpochRows
<1> HIDE DEF q
<1>5. q.amount = computePaymentAmountMinor(q.usd, versions[q.fx].rate) BY <1>1 DEF verifyPricingSnapshot, q
<1>6. QuoteFits(q, epochRows, versions) BY <1>2, <1>4, <1>5 DEF QuoteFits, EpochFits
<1>7. UNCHANGED <<versions, epochRows, registrar, catalogue, clock>> BY DEF quote
<1>8. \A o \in quotes' : QuoteFits(o, epochRows, versions) BY <1>1, <1>6 DEF PricingInv, q
<1>9. UncommittedApart' BY <1>7, ApartKept DEF PricingInv
<1> QED BY <1>7, <1>8, <1>9 DEF PricingInv, VersionsFit

\* The catalogue and the clock move; nothing recorded depends on them.
LEMMA AroundInv ==
    ASSUME PricingAssumption, PricingInv, UNCHANGED <<versions, epochRows, registrar, quotes>>,
           catalogue' \in Catalogues, clock' \in Instants
    PROVE  PricingInv'
<1>1. UncommittedApart' BY ApartKept DEF PricingInv
<1> QED BY <1>1 DEF PricingInv, VersionsFit

\* Every step of the pricing tables keeps the invariant.
LEMMA PricingStep == ASSUME PricingAssumption, PricingInv, [PricingNext]_pricingVars PROVE PricingInv'
<1>1. ASSUME NEW rate \in Rates, NEW from \in Instants, NEW captured \in Instants, publish(rate, from, captured)
      PROVE  PricingInv'
  BY <1>1, PublishInv
<1>2. ASSUME NEW r \in Registrars, NEW mode \in ProviderModes, NEW fx \in DOMAIN versions, NEW dashboard \in DashboardRates,
             NEW slots \in SUBSET Combos, NEW codes \in [slots -> PlanCodes], NEW flag \in BOOLEAN,
             \/ registerLivePlanEpochs(r, mode, fx, codes, dashboard, flag)
             \/ \E order \in SetToSeqs(Combos) : registerSandboxPlanEpochs(r, mode, fx, codes, dashboard, order, flag)
      PROVE  PricingInv'
  <2>1. DOMAIN codes = Combos BY <1>2 DEF registerLivePlanEpochs, registerSandboxPlanEpochs, parseLivePlanCodes
  <2>2. codes \in [Combos -> PlanCodes] BY <2>1
  <2>3. \E order : beginBatch(r, mode, fx, codes, dashboard, order)
    BY <1>2, Zenon DEF registerLivePlanEpochs, registerSandboxPlanEpochs
  <2> QED BY <2>2, <2>3, BeginBatchInv
<1>3. ASSUME NEW r \in Registrars, registerPlan(r) \/ rollback(r) \/ commitBatch(r) PROVE PricingInv'
  BY <1>3, PlanRegisterInv, RollbackInv, CommitBatchInv
<1>4. ASSUME NEW e \in epochRows, retireEpoch(e) PROVE PricingInv' BY <1>4, PlanRetireInv
<1>5. ASSUME NEW mode \in ProviderModes, NEW combo \in Combos, quote(mode, combo) PROVE PricingInv'
  BY <1>5, QuoteInv
<1>6. ASSUME NEW c \in Catalogues, deploy(c) PROVE PricingInv' BY <1>6, AroundInv DEF deploy, PricingInv
<1>7. CASE passTime
  <2>1. clock' \in Instants BY <1>7 DEF passTime, PricingInv, Instants, PricingAssumption
  <2> QED BY <2>1, <1>7, AroundInv DEF passTime, PricingInv
<1>8. CASE UNCHANGED pricingVars BY <1>8, AroundInv DEF pricingVars, PricingInv
<1> QED BY <1>1, <1>2, <1>3, <1>4, <1>5, <1>6, <1>7, <1>8 DEF PricingNext

\* PricingInv holds in every reachable state of rate versions, plan epochs and
\* pricing snapshots, for any plans, catalogues, rates, codes and concurrent
\* registrations (billing: fx-rate-versions, provisioning, provider-plans, pricing).
THEOREM PricingInvariance == ASSUME PricingAssumption PROVE PricingSpec => []PricingInv
<1>1. PricingInit => PricingInv BY PricingInitInv
<1>2. PricingInv /\ [PricingNext]_pricingVars => PricingInv' BY PricingStep
<1> QED BY <1>1, <1>2, PTL DEF PricingSpec

\* Two transactions of a mode never both have a row in: the first row of each is
\* that of the matrix's first combination.
LEMMA NoMutualWait ==
    ASSUME PricingAssumption, PricingInv, NEW r \in Registrars, NEW s \in Registrars, WaitsFor(r, s), WaitsFor(s, r)
    PROVE  FALSE
<1>1. PICK e \in Uncommitted(s) : Clash(NextRow(r), e) BY DEF WaitsFor
<1>2. PICK f \in Uncommitted(r) : Clash(NextRow(s), f) BY DEF WaitsFor
<1>3. r # s /\ Inserting(r) /\ Inserting(s) BY DEF WaitsFor
<1>4. ASSUME NEW o \in Registrars, Inserting(o), NEW g \in Uncommitted(o)
      PROVE  /\ g.mode = registrar[o].rows[1].mode /\ NextRow(o).mode = registrar[o].rows[1].mode
             /\ registrar[o].rows[1] \in Uncommitted(o)
             /\ registrar[o].rows[1].combo = PlanMatrix[1] /\ registrar[o].rows[1].status = "active"
  <2>1. registrar[o].inserted \in Nat /\ registrar[o].inserted < Len(registrar[o].rows)
    BY <1>4 DEF PricingInv, Transactions, Inserting
  <2>2. registrar[o].rows # <<>>
    <3> SUFFICES ASSUME registrar[o].rows = <<>> PROVE FALSE OBVIOUS
    <3>1. Len(registrar[o].rows) = 0 BY EmptySeq
    <3> QED BY <3>1, <2>1
  <2>3. Len(registrar[o].rows) = Len(PlanMatrix) /\ Len(PlanMatrix) \in Nat BY <2>2, InsertingFits, MatrixFacts
  <2>4. PICK i \in 1..registrar[o].inserted : g = registrar[o].rows[i] BY <1>4 DEF Uncommitted
  <2>5. 1 \in 1..registrar[o].inserted /\ i \in 1..Len(PlanMatrix) /\ 1 \in 1..Len(PlanMatrix)
        /\ registrar[o].inserted + 1 \in 1..Len(PlanMatrix)
    BY <2>1, <2>3, <2>4
  <2>6. registrar[o].rows[1] \in Uncommitted(o) BY <2>5 DEF Uncommitted
  <2>7. \A k \in 1..Len(PlanMatrix) :
           /\ registrar[o].rows[k].mode = registrar[o].rows[1].mode
           /\ registrar[o].rows[k].combo = PlanMatrix[k] /\ registrar[o].rows[k].status = "active"
    BY <2>2, InsertingFits
  <2> QED BY <2>4, <2>5, <2>6, <2>7 DEF NextRow
<1>5. registrar[r].rows[1].mode = registrar[s].rows[1].mode BY <1>1, <1>2, <1>3, <1>4 DEF Clash
<1>6. Clash(registrar[r].rows[1], registrar[s].rows[1]) BY <1>1, <1>2, <1>3, <1>4, <1>5 DEF Clash
<1> QED BY <1>1, <1>2, <1>3, <1>4, <1>6 DEF PricingInv, UncommittedApart

\* An epoch's rate in force prices its combination at the epoch's amount.
LEMMA InForce ==
    ASSUME PricingAssumption, PricingInv, NEW e \in epochRows, e.fx \in resolve(clock), e.usd = catalogue[e.combo]
    PROVE  priceCommercialPlan(e.combo, clock) = {e.amount}
<1>1. EpochFits(e, versions) /\ e \in EpochRows BY DEF PricingInv, EpochFits
<1>2. resolve(clock) = {e.fx} BY DEF resolve, resolveIn
<1>3. e.amount \in Nat /\ MinimumMinor \in Nat BY <1>1 DEF EpochRows, PricingAssumption
<1>4. e.amount \notin 0 .. MinimumMinor - 1 BY <1>1, <1>3 DEF EpochFits
<1>5. computePaymentAmountMinor(catalogue[e.combo], versions[e.fx].rate) = e.amount BY <1>1 DEF EpochFits
<1> QED BY <1>2, <1>4, <1>5 DEF priceCommercialPlan

\* A divisor of the unit, and a decimal written with it.
LEMMA ExactUnit ==
    ASSUME NEW u \in Nat \ {0}, NEW n \in Nat \ {0}, u % n = 0
    PROVE  (u \div n) * n = u /\ u \div n \in Nat
OBVIOUS

\* A decimal as a numerator is the decimal as it was written.
LEMMA ExactDecimal ==
    ASSUME NEW w \in Nat, NEW f \in Nat, NEW u \in Nat, NEW n \in Nat, NEW q \in Nat, q * n = u
    PROVE  (w * u + f * q) * n = (w * n + f) * u
<1>1. (w * u + f * q) * n = (w * u) * n + (f * q) * n OBVIOUS
<1>2. (f * q) * n = f * (q * n) OBVIOUS
<1>3. (w * n + f) * u = (w * n) * u + f * u OBVIOUS
<1>4. (w * u) * n = (w * n) * u OBVIOUS
<1> QED BY <1>1, <1>2, <1>3, <1>4

\* A candidate the dry run calls valid prices from now on, exactly as written.
LEMMA CandidateUsable == ASSUME PricingAssumption, PricingInv PROVE ValidMeansUsable
<1> SUFFICES ASSUME NEW c \in Candidates, validateFxRateCandidate(c, clock), c.from \notin DOMAIN versions,
                    NEW rate \in parseFxRateDecimal(c.decimal)
             PROVE  LET published == [v \in DOMAIN versions \cup {c.from} |->
                              IF v = c.from THEN [rate |-> rate, captured |-> c.captured] ELSE versions[v]]
                    IN  /\ c.captured <= clock
                        /\ \/ \E v \in DOMAIN versions : c.from < v /\ v <= clock
                           \/ resolveIn(published, clock) = {c.from}
                        /\ rate * 10 ^ c.decimal[3] = (c.decimal[1] * 10 ^ c.decimal[3] + c.decimal[2]) * RateUnit
  BY DEF ValidMeansUsable
<1> DEFINE published == [v \in DOMAIN versions \cup {c.from} |->
                           IF v = c.from THEN [rate |-> rate, captured |-> c.captured] ELSE versions[v]]
<1>1. /\ c.from \in Nat /\ c.captured \in Nat /\ c.decimal[1] \in Nat /\ c.decimal[2] \in Nat
      /\ 10 ^ c.decimal[3] \in Nat \ {0} /\ RateUnit \in Nat \ {0}
  BY DEF PricingAssumption
<1>2. c.captured <= clock /\ clock - c.captured <= MaxAge /\ c.from <= clock
  BY DEF validateFxRateCandidate, FreshAt
<1>3. clock \in Nat /\ DOMAIN versions \subseteq Nat
  BY DEF PricingInv, VersionsFit, Instants, PricingAssumption
<1>4. ASSUME ~\E v \in DOMAIN versions : c.from < v /\ v <= clock PROVE resolveIn(published, clock) = {c.from}
  <2> DEFINE effective == {v \in DOMAIN published : v <= clock}
  <2>1. DOMAIN published = DOMAIN versions \cup {c.from}
        /\ published[c.from] = [rate |-> rate, captured |-> c.captured]
    OBVIOUS
  <2>2. c.from \in effective /\ effective \subseteq Nat /\ \A v \in effective : c.from >= v
    BY <2>1, <1>1, <1>2, <1>3, <1>4
  <2>3. FreshAt(published[c.from], clock) BY <2>1, <1>2 DEF FreshAt
  <2>4. resolveIn(published, clock) = IF effective = {} THEN {}
                                      ELSE {v \in {Max(effective)} : FreshAt(published[v], clock)}
    BY DEF resolveIn
  <2> HIDE DEF effective, published
  <2>5. Max(effective) = c.from
    <3>1. Max(effective) \in effective /\ \A v \in effective : Max(effective) >= v BY <2>2 DEF Max
    <3>2. /\ Max(effective) \in Nat /\ c.from \in Nat /\ Max(effective) >= c.from /\ c.from >= Max(effective)
      BY <3>1, <2>2, Zenon
    <3>3. \A a, b \in Nat : a >= b /\ b >= a => a = b OBVIOUS
    <3> QED BY <3>2, <3>3, Zenon
  <2> QED BY <2>2, <2>3, <2>4, <2>5
<1>5. rate * 10 ^ c.decimal[3] = (c.decimal[1] * 10 ^ c.decimal[3] + c.decimal[2]) * RateUnit
  <2> DEFINE unit == 10 ^ c.decimal[3]
             whole == c.decimal[1]
             fraction == c.decimal[2]
             share == RateUnit \div unit
  <2>1. RateUnit % unit = 0 /\ rate = whole * RateUnit + fraction * share
    BY DEF parseFxRateDecimal
  <2>2. unit \in Nat \ {0} /\ whole \in Nat /\ fraction \in Nat /\ unit \in Nat /\ RateUnit \in Nat BY <1>1
  <2> HIDE DEF unit, whole, fraction
  <2>3. share * unit = RateUnit /\ share \in Nat BY <1>1, <2>1, <2>2, ExactUnit
  <2> HIDE DEF share
  <2>4. (whole * RateUnit + fraction * share) * unit = (whole * unit + fraction) * RateUnit
    BY <2>2, <2>3, ExactDecimal
  <2>5. rate * unit = (whole * unit + fraction) * RateUnit BY <2>1, <2>4, Zenon
  <2> QED BY <2>5 DEF unit, whole, fraction
<1> QED BY <1>2, <1>4, <1>5

\* Whole batches, locked quotes and usable candidates: however registrations,
\* retirements, deployments and publications interleave, an instant's epochs cover
\* every combination equally often and under a version in force, no two commands
\* wait for each other, every snapshot of a code names one amount for ever, the
\* nearest minor unit of its own USD amount at its own rate, and what the dry run
\* calls valid can be used (provisioning.ts, provider-plans.ts, pricing.ts,
\* fx-validation.ts).
THEOREM PricingAlwaysSound ==
    ASSUME PricingAssumption
    PROVE  PricingSpec => [](PricingTypeOK /\ BatchesAreWhole /\ QuotesAreLocked /\ ValidMeansUsable)
<1>1. PricingInv => PricingTypeOK
  <2> SUFFICES ASSUME PricingInv, NEW r \in Registrars
               PROVE  registrar[r].inserted \in 0 .. Len(registrar[r].rows)
    BY DEF PricingInv, PricingTypeOK, VersionsFit
  <2>1. CASE registrar[r].rows = <<>>
    <3>1. registrar[r] = NoTransaction
      <4>1. BatchFits(registrar[r], versions) BY DEF PricingInv
      <4>2. Len(registrar[r].rows) = 0 /\ Len(PlanMatrix) > 0 /\ Len(PlanMatrix) \in Nat BY <2>1, EmptySeq, MatrixFacts
      <4> QED BY <4>1, <4>2 DEF BatchFits
    <3>2. registrar[r].inserted = 0 /\ Len(registrar[r].rows) = 0 BY <3>1, <2>1, EmptySeq DEF NoTransaction
    <3> QED BY <3>2
  <2>2. CASE registrar[r].rows # <<>>
    <3>1. registrar[r].inserted \in Nat /\ Len(registrar[r].rows) = Len(PlanMatrix)
          /\ registrar[r].inserted <= Len(PlanMatrix) /\ Len(PlanMatrix) \in Nat
      BY <2>2, InsertingFits, MatrixFacts
    <3> QED BY <3>1
  <2> QED BY <2>1, <2>2
<1>2. PricingInv => BatchesAreWhole
  <2> SUFFICES ASSUME PricingInv PROVE BatchesAreWhole OBVIOUS
  <2>1. \A r, s \in Registrars : ~(WaitsFor(r, s) /\ WaitsFor(s, r)) BY NoMutualWait
  <2>2. ASSUME NEW e \in epochRows
        PROVE  e.fx <= e.from /\ assertFxRateVersionFresh(e.fx, e.from)
    BY DEF PricingInv, EpochFits, assertFxRateVersionFresh
  <2>3. ASSUME NEW e \in epochRows, NEW c \in Combos
        PROVE  Cardinality({f \in epochRows : f.combo = c /\ f.mode = e.mode /\ f.from = e.from /\ f.fx = e.fx}) =
               Cardinality({f \in epochRows : f.combo = e.combo /\ f.mode = e.mode /\ f.from = e.from /\ f.fx = e.fx})
    <3>1. e.combo \in Combos /\ e.mode \in ProviderModes /\ e.from \in Instants /\ e.fx \in Instants
      BY DEF PricingInv, EpochFits, EpochRows
    <3>2. Cardinality(BatchIn(epochRows, c, e.mode, e.from, e.fx)) =
          Cardinality(BatchIn(epochRows, e.combo, e.mode, e.from, e.fx))
      BY <3>1 DEF PricingInv, EquallyOften
    <3> QED BY <3>2 DEF BatchIn
  <2> QED BY <2>1, <2>2, <2>3 DEF BatchesAreWhole
<1>3. PricingInv => QuotesAreLocked
  <2> SUFFICES ASSUME PricingInv PROVE QuotesAreLocked OBVIOUS
  <2>1. ASSUME NEW q \in quotes
        PROVE  /\ 2 * (q.usd * versions[q.fx].rate) < 2 * (q.amount * RateUnit) + RateUnit
               /\ 2 * (q.amount * RateUnit) <= 2 * (q.usd * versions[q.fx].rate) + RateUnit
    <3>1. QuoteFits(q, epochRows, versions) BY DEF PricingInv
    <3>2. q.usd \in Nat /\ versions[q.fx].rate \in Nat
      BY <3>1, RateIsNatural DEF QuoteFits, QuoteRows, PricingInv
    <3> QED BY <3>1, <3>2, AmountNearest DEF QuoteFits
  <2>2. ASSUME NEW q \in quotes, NEW o \in quotes, q.mode = o.mode, q.code = o.code
        PROVE  q.amount = o.amount /\ q.combo = o.combo
    <3>1. PICK e \in epochRows : e.mode = q.mode /\ e.code = q.code /\ e.amount = q.amount /\ e.combo = q.combo
      BY DEF PricingInv, QuoteFits
    <3>2. PICK f \in epochRows : f.mode = o.mode /\ f.code = o.code /\ f.amount = o.amount /\ f.combo = o.combo
      BY DEF PricingInv, QuoteFits
    <3>3. e = f BY <2>2, <3>1, <3>2 DEF PricingInv, CodesOnce
    <3> QED BY <3>1, <3>2, <3>3
  <2>3. \A q \in quotes : \E e \in epochRows : e.mode = q.mode /\ e.code = q.code /\ e.amount = q.amount
    BY DEF PricingInv, QuoteFits
  <2>4. \A e \in epochRows : e.fx \in resolve(clock) /\ e.usd = catalogue[e.combo]
                             => priceCommercialPlan(e.combo, clock) = {e.amount}
    BY InForce
  <2> QED BY <2>1, <2>2, <2>3, <2>4 DEF QuotesAreLocked
<1>4. PricingInv => ValidMeansUsable BY CandidateUsable
<1> QED BY <1>1, <1>2, <1>3, <1>4, PricingInvariance, PTL
==============================================================================
