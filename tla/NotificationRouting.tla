------------------------ MODULE NotificationRouting ------------------------
(***************************************************************************)
(* Who is told about an alert, where, and signed with what                 *)
(* (packages/core/src/notifications/preferences.ts, secret-manager.ts, the *)
(* enqueue half of outbox.ts, the channel adapters email.ts,               *)
(* email-resend.ts, webhook.ts and push.ts, and the routes of              *)
(* apps/api/src/routes/notifications.ts).                                  *)
(*                                                                         *)
(* One user.  A preference row per channel holds the endpoint and the      *)
(* signing secret (push: the subscription's keys), in a plaintext column   *)
(* from before migration 0028 or encrypted under the process's key.        *)
(* Generating an alert reads the quiet hours, the strategy's route and the *)
(* preferences in three statements of one READ COMMITTED transaction,      *)
(* which edits may separate, decrypts, and writes one job per channel,     *)
(* encrypted again.  A deployment may start with another key: what cannot  *)
(* be decrypted falls back to the plaintext column.  What a job goes       *)
(* through between enqueue and send is module NotificationOutbox.          *)
(*                                                                         *)
(* The second half is the operator's one-time SMTP diagnostic: a claim row *)
(* inserted once, one send, and the claim given back only when the mail    *)
(* provider was not configured.                                            *)
(***************************************************************************)
EXTENDS Integers, FiniteSets

CONSTANTS
    RoutedAlerts,   \* alerts that may be generated, and generated again
    Alerters,       \* concurrent calls of generateAlert
    RouteEndpoints, \* https endpoints a preference may name
    RouteSecrets,   \* secrets a user may supply
    LooksEncrypted, \* those of the form v<n>:..., taken for ciphertext
    KeyManagers,    \* the secret managers a deployment may start with
    LegacySecret,   \* a plaintext secret stored before migration 0028
    QuietChoices,   \* quiet hours <<start, end>> a user may save
    DayMinutes,     \* minutes of a day
    MailProviders,  \* the e-mail adapter in use: "smtp" or "resend"
    PutChannels,    \* bound: channels the preferences route is called with
    RouteEdits,     \* bound: edits of the user's settings
    Diagnosticians, \* concurrent calls of the SMTP diagnostic
    MaxReleases     \* bound: diagnostics that end for want of configuration

Null == "null"
RouteChannels == {"email", "webhook", "push"}
NoCipher == [version |-> -1, key |-> Null, of |-> Null]
Blank == [plain |-> Null, cipher |-> NoCipher, version |-> -1]
NoRow == [stored |-> FALSE, enabled |-> FALSE, endpoint |-> Null,
          secret |-> Blank, latest |-> Null]
NoRoute == [muted |-> FALSE, channels |-> RouteChannels]
NoQuiet == <<>>

RoutingAssumption ==
    /\ PutChannels \subseteq RouteChannels /\ LooksEncrypted \subseteq RouteSecrets
    /\ Null \notin RouteSecrets /\ Null \notin RouteEndpoints /\ RouteEndpoints # {}
    /\ MailProviders \subseteq {"smtp", "resend"}
    /\ DayMinutes \in Nat \ {0} /\ RouteEdits \in Nat /\ MaxReleases \in Nat
    /\ \A q \in QuietChoices : {q[1], q[2]} \subseteq 0..(DayMinutes - 1)

VARIABLES
    prefs,      \* notification_preferences; `latest`: what the user supplied last
    quiet,      \* notification_user_settings
    route,      \* strategy_notification_preferences of the alerts' strategy
    keys,       \* the running process's secret manager
    alerting,   \* where each generateAlert is, and the settings it overlapped
    routed,     \* the jobs written, with the rows their call overlapped
    delivery,   \* the delivery just attempted, if the last step was one
    edits,      \* edits so far
    diagnostic  \* the SMTP diagnostic: claim row, callers, mails that left

settings == <<prefs, quiet, route>>
routingVars == <<prefs, quiet, route, keys, alerting, routed, delivery, edits,
                 diagnostic>>

NoDelivery == [channel |-> Null, secret |-> Null, own |-> {}, answer |-> "ok",
               outcome |-> "delivered"]
Resting == [at |-> "idle", alert |-> Null, allowed |-> {}, rows |-> {}]
NotRouted == [written |-> FALSE, recipient |-> Null, secret |-> Blank, rows |-> {}]

RoutingInit ==
    /\ prefs \in {[c \in RouteChannels |-> NoRow],
                  [[c \in RouteChannels |-> NoRow] EXCEPT !["webhook"] =
                     [stored |-> TRUE, enabled |-> TRUE,
                      endpoint |-> CHOOSE e \in RouteEndpoints : TRUE,
                      secret |-> [Blank EXCEPT !.plain = LegacySecret],
                      latest |-> LegacySecret]]}
    /\ quiet = NoQuiet /\ route = NoRoute
    /\ keys \in KeyManagers
    /\ alerting = [g \in Alerters |-> Resting]
    /\ routed = [a \in RoutedAlerts |-> [c \in RouteChannels |-> NotRouted]]
    /\ delivery = NoDelivery
    /\ edits = 0
    /\ diagnostic = [claim |-> "none", callers |-> [d \in Diagnosticians |-> "idle"],
                     left |-> 0, released |-> 0]

-----------------------------------------------------------------------------
(* Secrets.                                                                *)

\* EnvKeySecretManager.encrypt, NoopSecretManager.encrypt
encrypt(v) == [version |-> keys.version, key |-> keys.key, of |-> v]

\* encryptSecret: a value that looks like ciphertext is stored as it came
encryptSecret(v) ==
    IF v = Null THEN Blank
    ELSE [plain |-> Null, version |-> keys.version,
          cipher |-> IF v \in LooksEncrypted
                       THEN [version |-> 1, key |-> "client", of |-> v]
                       ELSE encrypt(v)]

\* decrypt: the no-op manager reads only its own form and ignores the version
\* column; the keyed one needs column, prefix and key to agree
Decrypts(cipher, version) ==
    /\ cipher.version = keys.version
    /\ keys.version # 0 => version = keys.version /\ cipher.key = keys.key

\* decryptSecret: what does not decrypt falls back to the plaintext column
decryptSecret(s) ==
    IF s.cipher # NoCipher /\ Decrypts(s.cipher, s.version) THEN s.cipher.of
    ELSE s.plain

\* Mutant: the plaintext of before the migration stays beside the ciphertext.
MergedKeepingPlain(old, new) ==
    IF new.cipher # NoCipher THEN [new EXCEPT !.plain = old.plain] ELSE old

\* The ON CONFLICT clause: a ciphertext clears the plaintext column, nothing
\* supplied keeps what is stored.
MergedSecret(old, new) ==
    IF new.cipher # NoCipher THEN new
    ELSE [old EXCEPT !.plain = IF new.plain = Null THEN @ ELSE new.plain]

-----------------------------------------------------------------------------
(* Edits.  Each is one transaction; the routes run one upsert per          *)
(* preference and the quiet hours in the same one.                         *)

\* Everything a call in progress has overlapped, for the properties.
Overlap(p) ==
    [g \in Alerters |-> IF alerting[g].at = "idle" THEN alerting[g]
                        ELSE [alerting[g] EXCEPT !.rows = @ \cup {p}]]

Edit(p, q, r) ==
    /\ edits < RouteEdits
    /\ prefs' = p /\ quiet' = q /\ route' = r
    /\ edits' = edits + 1
    /\ alerting' = Overlap(p)
    /\ delivery' = NoDelivery
    /\ UNCHANGED <<keys, routed, diagnostic>>

upsertRow(c, enabled, endpoint, v) ==
    [prefs EXCEPT ![c] =
        [stored |-> TRUE, enabled |-> enabled, endpoint |-> endpoint,
         secret |-> MergedSecret(@.secret, encryptSecret(v)),
         latest |-> IF v = Null THEN @.latest ELSE v]]

\* validateChannelPreference: an e-mail preference carries no endpoint or
\* secret, the others need an endpoint
ValidPreference(c, endpoint, v) ==
    IF c = "email" THEN endpoint = Null /\ v = Null ELSE endpoint \in RouteEndpoints

\* PUT /api/notifications/preferences
putPreferences ==
    \/ \E c \in PutChannels, on \in BOOLEAN, e \in RouteEndpoints \cup {Null},
          v \in RouteSecrets \cup {Null} :
          ValidPreference(c, e, v) /\ Edit(upsertRow(c, on, e, v), quiet, route)
    \/ \E q \in QuietChoices \cup {NoQuiet} : Edit(prefs, q, route)

\* POST /api/notifications/push/subscriptions: always enables
upsertPushSubscription ==
    \E e \in RouteEndpoints, v \in RouteSecrets \ LooksEncrypted :
        Edit(upsertRow("push", TRUE, e, v), quiet, route)

\* DELETE /api/notifications/preferences/:channel
removePreference ==
    \E c \in RouteChannels : Edit([prefs EXCEPT ![c] = NoRow], quiet, route)

\* PUT /api/notifications/preferences/strategies/:strategyId
upsertStrategy ==
    \E muted \in BOOLEAN, channels \in {RouteChannels, {"email"}} :
        Edit(prefs, quiet, [muted |-> muted, channels |-> channels])

\* A deployment restarts the process, perhaps with another key; the calls in
\* progress are rolled back.
restartWithKey ==
    /\ keys' \in KeyManagers
    /\ alerting' = [g \in Alerters |-> Resting]
    /\ delivery' = NoDelivery
    /\ UNCHANGED <<settings, routed, edits, diagnostic>>

-----------------------------------------------------------------------------
(* Generating an alert: deliveryTargets and enqueue.                       *)

\* isQuiet: a window that ends before it starts runs over midnight
isQuiet(minute, window) ==
    IF window[1] < window[2]
      THEN minute >= window[1] /\ minute < window[2]
      ELSE minute >= window[1] \/ minute < window[2]

generateRouted(g) ==
    /\ alerting[g].at = "idle"
    /\ \E a \in RoutedAlerts :
          alerting' = [alerting EXCEPT ![g] =
              [at |-> "settings", alert |-> a, allowed |-> {}, rows |-> {prefs}]]
    /\ delivery' = NoDelivery
    /\ UNCHANGED <<settings, keys, routed, edits, diagnostic>>

readSettings(g) ==
    /\ alerting[g].at = "settings"
    /\ \E minute \in 0..(DayMinutes - 1) :
          alerting' = [alerting EXCEPT ![g] =
              IF quiet # NoQuiet /\ isQuiet(minute, quiet) THEN Resting
              ELSE [@ EXCEPT !.at = "route"]]
    /\ delivery' = NoDelivery
    /\ UNCHANGED <<settings, keys, routed, edits, diagnostic>>

readRoute(g) ==
    /\ alerting[g].at = "route"
    /\ alerting' = [alerting EXCEPT ![g] =
           IF route.muted THEN Resting
           ELSE [@ EXCEPT !.at = "targets", !.allowed = route.channels]]
    /\ delivery' = NoDelivery
    /\ UNCHANGED <<settings, keys, routed, edits, diagnostic>>

\* Mutant: an e-mail row that is switched off no longer stands in the way of
\* the default.
DefaultsWhenOff(allowed) == ~prefs["email"].enabled /\ "email" \in allowed

\* Without an e-mail row the account's own address is the default target.
DefaultsToEmail(allowed) == ~prefs["email"].stored /\ "email" \in allowed

\* deliveryTargets: the channels, an e-mail target standing for the address
\* of the account, which enqueue fills in
TargetsOf(allowed) ==
    {c \in allowed : prefs[c].stored /\ prefs[c].enabled}
    \cup (IF DefaultsToEmail(allowed) THEN {"email"} ELSE {})

\* enqueue: ON CONFLICT DO NOTHING, the secret decrypted and encrypted again
EnqueuedJob(g, c) ==
    [written |-> TRUE,
     recipient |-> IF c = "email" THEN "account" ELSE prefs[c].endpoint,
     secret |-> encryptSecret(IF c = "email" THEN Null
                              ELSE decryptSecret(prefs[c].secret)),
     rows |-> {p[c] : p \in alerting[g].rows}]

enqueueTargets(g) ==
    /\ alerting[g].at = "targets"
    /\ routed' = [routed EXCEPT ![alerting[g].alert] =
           [c \in RouteChannels |->
              IF ~@[c].written /\ c \in TargetsOf(alerting[g].allowed)
                THEN EnqueuedJob(g, c) ELSE @[c]]]
    /\ alerting' = [alerting EXCEPT ![g] = Resting]
    /\ delivery' = NoDelivery
    /\ UNCHANGED <<settings, keys, edits, diagnostic>>

-----------------------------------------------------------------------------
(* Sending.  An answer is what the far side did:  "ok" it accepted,        *)
(* "refused" it rejected the message, "gone" 404 or 410, "auth" it         *)
(* rejected our credentials, "busy" 429 or SMTP 4xx, "broken" HTTP 5xx,    *)
(* "timeout" and "reset" nobody knows.                                     *)

MailAnswers == {"ok", "refused", "auth", "busy", "timeout", "reset"}
HttpAnswers == MailAnswers \cup {"gone", "broken"}

\* classifySmtpError
classifySmtp(answer) ==
    CASE answer = "ok" -> "delivered"
      [] answer = "auth" -> "unavailable"
      [] answer = "refused" -> "permanent"
      [] answer = "timeout" -> "timeout"
      [] OTHER -> "retryable"

\* createResendEmailProvider.send
classifyResend(answer) ==
    CASE answer = "ok" -> "delivered"
      [] answer \in {"auth", "refused"} -> "permanent"
      [] answer = "timeout" -> "timeout"
      [] OTHER -> "retryable"

\* createWebhookNotificationProvider.send, postPinnedHttps; a destination that
\* does not validate is refused without a call
classifyWebhook(answer) ==
    CASE answer = "ok" -> "delivered"
      [] answer \in {"busy", "broken", "reset"} -> "retryable"
      [] answer = "timeout" -> "timeout"
      [] OTHER -> "permanent"

\* Mutant: whatever is not a plain acceptance is given up.
classifyPushHarshly(answer) ==
    IF answer = "ok" THEN "delivered" ELSE "permanent"

\* createPushNotificationProvider.send: without keys nothing is sent
classifyPush(answer) ==
    CASE answer = "ok" -> "delivered"
      [] answer \in {"busy", "broken", "reset"} -> "retryable"
      [] answer = "timeout" -> "timeout"
      [] OTHER -> "permanent"

Classified(c, mail, answer) ==
    CASE c = "email" /\ mail = "smtp" -> classifySmtp(answer)
      [] c = "email" /\ mail = "resend" -> classifyResend(answer)
      [] c = "webhook" -> classifyWebhook(answer)
      [] c = "push" -> classifyPush(answer)

\* What the user had supplied for the channel in any row the call overlapped.
OwnSecrets(job) == {row.latest : row \in job.rows}

\* DeliveryWorker.deliver: decrypt, send, classify; a push job without keys
\* fails before it reaches the push service
deliverRouted(a, c) ==
    LET job == routed[a][c]
        secret == decryptSecret(job.secret) IN
    /\ job.written
    /\ \E mail \in (IF c = "email" THEN MailProviders ELSE {Null}),
          answer \in (IF c = "email" THEN MailAnswers ELSE HttpAnswers) :
          /\ c = "push" /\ secret = Null => answer = "refused"
          /\ delivery' = [channel |-> c, secret |-> secret, own |-> OwnSecrets(job),
                          answer |-> answer, outcome |-> Classified(c, mail, answer)]
    /\ UNCHANGED <<settings, keys, alerting, routed, edits, diagnostic>>

-----------------------------------------------------------------------------
(* The SMTP diagnostic.                                                    *)

\* Mutant: the conflict on the claim row is not looked at.
ClaimTakenAgain == TRUE

\* INSERT ... ON CONFLICT DO NOTHING returned a row
ClaimFree == diagnostic.claim = "none"

DiagnosticStep(d, from) ==
    /\ diagnostic.callers[d] = from
    /\ UNCHANGED <<settings, keys, alerting, routed, delivery, edits>>

\* POST /api/internal/notifications/smtp-test
claimDiagnostic(d) ==
    /\ DiagnosticStep(d, "idle")
    /\ ClaimFree
    /\ diagnostic' = [diagnostic EXCEPT !.claim = "claimed", !.callers[d] = "sending"]

\* The send, and the claim's fate: given back when the provider turned out not
\* to be configured, delivered or failed otherwise.
sendDiagnostic(d) ==
    /\ DiagnosticStep(d, "sending")
    /\ \/ /\ diagnostic.released < MaxReleases
          /\ diagnostic' = [diagnostic EXCEPT !.callers[d] = "releasing", !.released = @ + 1]
       \/ \E result \in {"delivered", "failed"} :
             diagnostic' = [diagnostic EXCEPT !.callers[d] = result,
                                              !.left = IF result = "delivered" THEN @ + 1 ELSE @]

finishDiagnostic(d) ==
    /\ diagnostic.callers[d] \in {"releasing", "delivered", "failed"}
    /\ diagnostic' =
          [diagnostic EXCEPT
              !.claim = IF diagnostic.callers[d] # "releasing" THEN diagnostic.callers[d]
                        ELSE IF @ = "claimed" THEN "none" ELSE @,
              !.callers[d] = "idle"]
    /\ UNCHANGED <<settings, keys, alerting, routed, delivery, edits>>

\* The process dies: the claim row stays as it is.
dieDiagnosing(d) ==
    /\ diagnostic.callers[d] # "idle"
    /\ diagnostic' = [diagnostic EXCEPT !.callers[d] = "idle"]
    /\ UNCHANGED <<settings, keys, alerting, routed, delivery, edits>>

-----------------------------------------------------------------------------
EditNext ==
    \/ putPreferences \/ upsertPushSubscription \/ removePreference
    \/ upsertStrategy \/ restartWithKey

GenerateNext ==
    \E g \in Alerters : \/ generateRouted(g) \/ readSettings(g)
                        \/ readRoute(g) \/ enqueueTargets(g)

DiagnosticNext ==
    \E d \in Diagnosticians : \/ claimDiagnostic(d) \/ sendDiagnostic(d)
                              \/ finishDiagnostic(d) \/ dieDiagnosing(d)

AlertNext ==
    \/ EditNext \/ GenerateNext
    \/ \E a \in RoutedAlerts, c \in RouteChannels : deliverRouted(a, c)

RoutingNext == AlertNext \/ DiagnosticNext

RoutingSpec == RoutingInit /\ [][RoutingNext]_routingVars

-----------------------------------------------------------------------------
\* A stored secret is a ciphertext or a plaintext, never both.
RoutingTypeOK ==
    /\ \A c \in RouteChannels :
          /\ prefs[c].secret.cipher = NoCipher \/ prefs[c].secret.plain = Null
          /\ prefs[c].stored => (prefs[c].endpoint = Null <=> c = "email")
    /\ diagnostic.claim \in {"none", "claimed", "delivered", "failed"}

\* Every job was written for a channel that was switched on, with the
\* recipient it names, in one preference row that existed while the alert was
\* being generated (the default e-mail: at a moment without an e-mail row),
\* whatever edits ran between the three reads of deliveryTargets.
JobsFollowPreferences ==
    \A a \in RoutedAlerts, c \in RouteChannels :
        routed[a][c].written =>
            \E row \in routed[a][c].rows :
                \/ /\ row.enabled
                   /\ routed[a][c].recipient =
                         IF c = "email" THEN "account" ELSE row.endpoint
                \/ c = "email" /\ ~row.stored

\* A delivery is unsigned, or signed with the secret the user had supplied
\* last for that channel when the alert was generated: neither a key change
\* between enqueue and send nor a plaintext left from before the migration
\* brings back an earlier secret.
SignedAsSupplied == delivery.secret \in {Null} \cup delivery.own

\* An adapter reports a delivery exactly when the far side accepted it, and an
\* attempt nobody knows the fate of, or that a busy server put off, is never
\* given up as permanent.
OutcomesTellTruth ==
    /\ delivery.outcome = "delivered" <=> delivery.answer = "ok"
    /\ delivery.answer \in {"timeout", "reset", "busy"} =>
          delivery.outcome \in {"timeout", "retryable"}

\* At most one diagnostic mail ever leaves, and the row says how it went once
\* the call that sent it has ended.
DiagnosticLeavesOnce ==
    /\ diagnostic.left <= 1
    /\ diagnostic.claim = "delivered" => diagnostic.left = 1

\* What the notification module promises a user about where alerts go.
AlertsGoWhereConfigured ==
    /\ RoutingTypeOK /\ JobsFollowPreferences /\ SignedAsSupplied
    /\ OutcomesTellTruth /\ DiagnosticLeavesOnce
=============================================================================
