-------------------------------- MODULE MFA --------------------------------
(***************************************************************************)
(* Browser login and its second factors: passwords, one-time challenges,   *)
(* TOTP, passkeys, recovery codes, the failure limit, sessions and their   *)
(* reauthentication, and the administrator's reset of another account.     *)
(* Every handler reads first and then runs one or more transactions; the   *)
(* requests of Req overlap between those steps.  A database transaction is *)
(* one step.  Secrets are numbers: a seed, a passkey, a set of recovery    *)
(* codes, a challenge and a session are named by the request that made     *)
(* them, and 0 is a wrong guess.                                           *)
(***************************************************************************)
EXTENDS Integers, Sequences, FiniteSets

CONSTANTS
    Account,        \* user ids; the first one administers
    Req,            \* requests that may be under way at once
    Ops,            \* the requests an instance makes
    Start,          \* what the accounts have at first: "none", "totp", "key", "both"
    MaxRequests,    \* bound on requests
    MaxTime,        \* bound on the clock, in TOTP steps
    MaxFailures,    \* maxFailures
    ChallengeTTL,   \* challengeTTL
    FailureWindow,  \* failureWindow
    Cooldown,       \* cooldownDuration
    RecentTTL       \* recentAuthTTL

MFAAssumption ==
    /\ Account \subseteq Nat \ {0}
    /\ Start \subseteq {"none", "totp", "key", "both"}
    /\ {MaxRequests, MaxTime, MaxFailures, ChallengeTTL, FailureWindow, Cooldown, RecentTTL}
           \subseteq Nat \ {0}

VARIABLES
    now,
    begun,      \* requests so far; the names of what they make
    acct,       \* users: role, the number of the password, and how often the
                \* account's browser logins were invalidated
    totp,       \* mfa_totp
    keys,       \* webauthn_credentials
    codes,      \* mfa_recovery_codes: the set's name, and whether its code is used
    limit,      \* mfa_rate_limits
    chal,       \* mfa_challenges
    sess,       \* sessions
    req,        \* requests between two of their steps
    log,        \* history: what was accepted, with the challenge it answered
    fails       \* history: when failures were recorded since the limit was cleared

db == <<acct, totp, keys, codes, limit, chal, sess>>
vars == <<now, begun, acct, totp, keys, codes, limit, chal, sess, req, log, fails>>

Id == 1 .. MaxRequests + 2      \* two names more for what is there at first
NoReq == [op |-> "none"]
NoChal == [live |-> FALSE, acct |-> 0, sess |-> 0, purpose |-> "none", data |-> 0,
           expires |-> 0, attempts |-> 0, born |-> 0]
NoSess == [live |-> FALSE, acct |-> 0, fresh |-> 0, born |-> -1]
NoTotp == [on |-> FALSE, seed |-> 0, last |-> 0]
NoCodes == [set |-> 0, used |-> FALSE]
NoLimit == [on |-> FALSE, start |-> 0, count |-> 0, blocked |-> -1]
First == CHOOSE a \in Account : \A b \in Account : a <= b

-----------------------------------------------------------------------------
(* Queries. *)

CountMFAFactors(a) == Cardinality(keys[a]) + (IF totp[a].on THEN 1 ELSE 0)

GetActiveMFAChallenge(t) == t \in Id /\ chal[t].live /\ chal[t].expires > now

\* The WHERE of ConsumeMFAChallengeGuarded and PromoteMFAChallengeToWebAuthn;
\* a request always brings the CSRF value that came with its token.
ConsumeMFAChallengeGuarded(b) ==
    /\ GetActiveMFAChallenge(b.tok)
    /\ chal[b.tok].acct = b.acct /\ chal[b.tok].sess = b.sess
    /\ chal[b.tok].purpose = b.purpose /\ chal[b.tok].attempts < MaxFailures

\* DeleteExpiredMFAChallenges: reset continuations keep a life of their own.
DeleteExpiredMFAChallenges(c) ==
    [t \in Id |-> IF c[t].expires <= now /\ c[t].purpose # "admin_mfa_reset"
                  THEN NoChal ELSE c[t]]

DeleteMFAChallengesByUserID(c, a) == [t \in Id |-> IF c[t].acct = a THEN NoChal ELSE c[t]]
DeleteSessionsByUser(a) == [s \in Id |-> IF sess[s].acct = a THEN NoSess ELSE sess[s]]

\* A challenge goes with the session that it is bound to (ON DELETE CASCADE).
DeleteSession(s) ==
    /\ sess' = [sess EXCEPT ![s] = NoSess]
    /\ chal' = [t \in Id |-> IF chal[t].sess = s THEN NoChal ELSE chal[t]]

GetSession(s) == s \in Id /\ sess[s].live

\* CreateSession: reauthenticated_at is the time of the insert.
CreateSession(a, born) == [live |-> TRUE, acct |-> a, fresh |-> now, born |-> born]

\* MarkSessionReauthenticated: an UPDATE that may find no row.
MarkSessionReauthenticated(s) ==
    sess' = [sess EXCEPT ![s] = IF @.live THEN [@ EXCEPT !.fresh = now] ELSE @]

CreateMFAChallenge(a, s, purpose, data) ==
    [live |-> TRUE, acct |-> a, sess |-> s, purpose |-> purpose, data |-> data,
     expires |-> now + ChallengeTTL, attempts |-> 0, born |-> acct[a].epoch]

IncrementMFAChallengeAttempts(t) == chal' = [chal EXCEPT ![t].attempts = @ + 1]

\* CreateTOTP: the user id is the key, so a user has one.
CreateTOTP(a, seed, step) ==
    ~totp[a].on /\ totp' = [totp EXCEPT ![a] = [on |-> TRUE, seed |-> seed, last |-> step]]

\* CreateWebAuthnCredential: the credential id is the key.
CreateWebAuthnCredential(a, key) == key \notin keys[a] /\ keys' = [keys EXCEPT ![a] = @ \cup {key}]

DeleteWebAuthnCredentialByUserID(a, key) == keys' = [keys EXCEPT ![a] = @ \ {key}]
DeleteWebAuthnCredentialsByUserID(a) == keys' = [keys EXCEPT ![a] = {}]
DeleteTOTP(a) == totp' = [totp EXCEPT ![a] = NoTotp]
DeleteRecoveryCodesByUserID(a) == codes' = [codes EXCEPT ![a] = NoCodes]

\* UpdateWebAuthnCredentialCounter hits a row of the user, or nothing.
UpdateWebAuthnCredentialCounter(a, key) == key \in keys[a]

UpdateUserPassword(a) == acct' = [acct EXCEPT ![a].pw = @ + 1, ![a].epoch = @ + 1]

ListUnusedRecoveryCodesByUserID(a) == codes[a].set # 0 /\ ~codes[a].used

\* IsRecentlyAuthenticated.
IsRecentlyAuthenticated(s) == now - sess[s].fresh < RecentTTL

\* hasTOTP and loginMFAAvailability: what the pages offer.
hasTOTP(a) == totp[a].on
loginMFAAvailability(a) ==
    [totp |-> totp[a].on, passkey |-> keys[a] # {}, recovery |-> ListUnusedRecoveryCodesByUserID(a)]

-----------------------------------------------------------------------------
(* The failure limit. *)

rateLimitBlocked(a) == limit[a].on /\ limit[a].blocked > now

CreateMFARateLimit(a) ==
    limit' = [limit EXCEPT ![a] = [on |-> TRUE, start |-> now, count |-> 1, blocked |-> -1]]

UpdateMFARateLimit(a, start, count, blocked) ==
    limit' = [limit EXCEPT ![a] = [on |-> TRUE, start |-> start, count |-> count, blocked |-> blocked]]

\* recordRateFailure: the first failure opens a window; the window or the
\* cooldown over, the count starts again; at the limit the account is blocked.
recordRateFailure(a) ==
    LET again == now - limit[a].start >= FailureWindow \/ limit[a].blocked \in 0 .. now
        count == IF ~limit[a].on \/ again THEN 1 ELSE limit[a].count + 1
    IN IF ~limit[a].on THEN CreateMFARateLimit(a)
       ELSE UpdateMFARateLimit(a, IF again THEN now ELSE limit[a].start, count,
                               IF count >= MaxFailures THEN now + Cooldown ELSE -1)

DeleteMFARateLimit(a) ==
    limit' = [limit EXCEPT ![a] = NoLimit] /\ fails' = [fails EXCEPT ![a] = <<>>]

-----------------------------------------------------------------------------
(* Requests. *)

\* A request: what it does, for whom, in which session, with which challenge,
\* and the secret that came with it (a seed and a step, a code, a passkey).
Request(op, a, s, t, purpose, x, y) ==
    [op |-> op, acct |-> a, sess |-> s, tok |-> t, purpose |-> purpose, x |-> x, y |-> y,
     id |-> begun + 3]

Begin(r, request) ==
    /\ req[r] = NoReq /\ begun < MaxRequests /\ request.op \in Ops
    /\ begun' = begun + 1
    /\ req' = [req EXCEPT ![r] = request]
    /\ UNCHANGED <<now, db, log, fails>>

Step(r, op) == req' = [req EXCEPT ![r].op = op]
Done(r) == req' = [req EXCEPT ![r] = NoReq]
At(r, op) == req[r].op = op

Accept(t, secret) == log' = Append(log, [tok |-> t, secret |-> secret])

\* AuthMiddleware, securityIdentity: the request's session is read once.
securityIdentity(s) == GetSession(s)
requireFreshSecuritySession(s) == securityIdentity(s) /\ IsRecentlyAuthenticated(s)

-----------------------------------------------------------------------------
(* Challenges. *)

\* Issue: expired ones are cleaned, the new one lives for ChallengeTTL.
Issue(r, purpose, s, data) ==
    chal' = [DeleteExpiredMFAChallenges(chal) EXCEPT ![req[r].id] =
                CreateMFAChallenge(req[r].acct, s, purpose, data)]

\* ConsumeWith before its mutation: not blocked, and the guarded delete hits.
Consumable(r) == ~rateLimitBlocked(req[r].acct) /\ ConsumeMFAChallengeGuarded(req[r])

\* The challenges once r's is consumed.
Consumed(r) == [DeleteExpiredMFAChallenges(chal) EXCEPT ![req[r].tok] = NoChal]

\* activeChallenge, ResolveBound, Resolve, ResolveLogin: read before anything else.
ResolveBound(s, t, purpose) ==
    /\ GetActiveMFAChallenge(t) /\ chal[t].sess = s /\ chal[t].acct = sess[s].acct
    /\ chal[t].purpose = purpose /\ chal[t].attempts < MaxFailures
    /\ ~rateLimitBlocked(chal[t].acct)
resolvePendingLogin(t) ==
    GetActiveMFAChallenge(t) /\ chal[t].sess = 0 /\ ~rateLimitBlocked(chal[t].acct)
Resolve(t, purpose) == resolvePendingLogin(t) /\ chal[t].purpose = purpose
ResolveLogin(t) == resolvePendingLogin(t) /\ chal[t].purpose \in {"login_mfa", "webauthn_auth"}

canPromoteChallenge(from, to) ==
    \/ from \in {"login_mfa", "totp_verify", "webauthn_register"} /\ to = "webauthn_auth"
    \/ from = "totp_enroll" /\ to = "totp_verify"

PromoteMFAChallengeToWebAuthn(t, to, data) ==
    chal' = [DeleteExpiredMFAChallenges(chal) EXCEPT ![t].purpose = to, ![t].data = data]

\* Promote, PromoteWebAuthn: the same challenge, for the next ceremony.
Promote(r, to, data) ==
    /\ IF canPromoteChallenge(req[r].purpose, to) /\ Consumable(r)
       THEN PromoteMFAChallengeToWebAuthn(req[r].tok, to, data)
       ELSE chal' = DeleteExpiredMFAChallenges(chal)
    /\ Done(r)
    /\ UNCHANGED <<now, begun, acct, totp, keys, codes, limit, sess, log, fails>>

\* RecordFailure: a second transaction.  A challenge that is gone, or an
\* account that is blocked by now, records nothing.
RecordFailure(r) ==
    /\ At(r, "record")
    /\ IF ConsumeMFAChallengeGuarded(req[r]) /\ ~rateLimitBlocked(req[r].acct)
       THEN /\ IncrementMFAChallengeAttempts(req[r].tok)
            /\ recordRateFailure(req[r].acct)
            /\ fails' = [fails EXCEPT ![req[r].acct] = Append(@, now)]
       ELSE UNCHANGED <<chal, limit, fails>>
    /\ Done(r)
    /\ UNCHANGED <<now, begun, acct, totp, keys, codes, sess, log>>

\* CleanupExpired, at every maintenance tick.
CleanupExpired ==
    /\ chal' = DeleteExpiredMFAChallenges(chal) /\ chal' # chal
    /\ UNCHANGED <<now, begun, acct, totp, keys, codes, limit, sess, req, log, fails>>

-----------------------------------------------------------------------------
(* Factors.  These run inside a transaction that holds the user's lock. *)

\* InvalidateBrowserAuthInTx, applied to the challenges c.
InvalidateBrowserAuthInTx(c, a) ==
    /\ sess' = DeleteSessionsByUser(a)
    /\ chal' = DeleteMFAChallengesByUserID(c, a)
    /\ acct' = [acct EXCEPT ![a].epoch = @ + 1]

\* Verify: the code is of this seed and of a step next to now; an accepted
\* step must be newer than the last.
Verify(seed, last, x, y) ==
    x = seed /\ x # 0 /\ y \in {now - 1, now, now + 1} /\ y > last

\* Mutant of VerifyTOTPWith: the accepted step is not remembered.
VerifyOnly(r) == totp[req[r].acct].on /\ Verify(totp[req[r].acct].seed, totp[req[r].acct].last, req[r].x, req[r].y)
                 /\ UNCHANGED totp

AdvanceTOTPIfNewer(a, step) == totp[a].last < step /\ totp' = [totp EXCEPT ![a].last = step]

\* VerifyTOTPWith: the step is advanced in the transaction that verifies it.
VerifyTOTPWith(r) ==
    LET a == req[r].acct IN
    /\ totp[a].on /\ Verify(totp[a].seed, totp[a].last, req[r].x, req[r].y)
    /\ AdvanceTOTPIfNewer(a, req[r].y)

\* ConsumeRecoveryCode: used_at is still null.
ConsumeRecoveryCode(a, code) == codes[a].set # 0 /\ codes[a].set = code /\ ~codes[a].used

ConsumeRecoveryWith(r) ==
    /\ ConsumeRecoveryCode(req[r].acct, req[r].x)
    /\ codes' = [codes EXCEPT ![req[r].acct].used = TRUE]

\* replaceRecoveryCodes: the rows of the user are replaced.
replaceRecoveryCodes(r) ==
    codes' = [codes EXCEPT ![req[r].acct] = [set |-> req[r].id, used |-> FALSE]]

\* CreateTOTP, of which a user has one, and codes with the first factor.
activateTOTPWith(r, seed) ==
    LET a == req[r].acct IN
    /\ CreateTOTP(a, seed, req[r].y)
    /\ IF CountMFAFactors(a) = 0 THEN replaceRecoveryCodes(r) ELSE UNCHANGED codes
    /\ InvalidateBrowserAuthInTx(Consumed(r), a)
    /\ UNCHANGED keys

CreateCredentialWith(r, key) ==
    LET a == req[r].acct IN
    /\ CreateWebAuthnCredential(a, key)
    /\ IF CountMFAFactors(a) = 0 THEN replaceRecoveryCodes(r) ELSE UNCHANGED codes
    /\ InvalidateBrowserAuthInTx(Consumed(r), a)
    /\ UNCHANGED totp

\* resetWith: every factor, the codes, the limit and the browser logins.
resetWith(c, a) ==
    /\ DeleteTOTP(a)
    /\ DeleteWebAuthnCredentialsByUserID(a)
    /\ DeleteRecoveryCodesByUserID(a)
    /\ DeleteMFARateLimit(a)
    /\ InvalidateBrowserAuthInTx(c, a)

-----------------------------------------------------------------------------
(* Login. *)

\* IssueBrowserSessionWith: the session of request r; a new one is fresh.
IssueBrowserSessionWith(r, born) ==
    sess' = [sess EXCEPT ![req[r].id] = CreateSession(req[r].acct, born)]

\* LoginPost: the password is read and verified, then the factors are counted,
\* then a session or a challenge is issued, each on its own.
LoginPost(r, a) == Begin(r, Request("login", a, 0, 0, "login_mfa", 0, 0))

LoginCount(r) ==
    /\ At(r, "login")
    /\ Step(r, IF CountMFAFactors(req[r].acct) > 0 THEN "login_challenge" ELSE "login_session")
    /\ UNCHANGED <<now, begun, db, log, fails>>

LoginChallenge(r) ==
    /\ At(r, "login_challenge") /\ Issue(r, "login_mfa", 0, 0)
    /\ Done(r)
    /\ UNCHANGED <<now, begun, acct, totp, keys, codes, limit, sess, log, fails>>

\* issueFinalBrowserSession; also the session that follows new recovery codes.
issueFinalBrowserSession(r) ==
    /\ At(r, "login_session") /\ IssueBrowserSessionWith(r, -1)
    /\ Done(r)
    /\ UNCHANGED <<now, begun, acct, totp, keys, codes, limit, chal, log, fails>>

LogoutPost(s) ==
    /\ "logout" \in Ops /\ GetSession(s) /\ DeleteSession(s)
    /\ UNCHANGED <<now, begun, acct, totp, keys, codes, limit, req, log, fails>>

\* The codes a user may type: of the current seed at a step near now, or wrong.
TotpGuesses(a) == {<<totp[a].seed, y>> : y \in {now, now + 1}} \cup {<<0, 0>>}

LoginMFATOTPPost(r, t, g) ==
    /\ Resolve(t, "login_mfa") /\ loginMFAAvailability(chal[t].acct).totp
    /\ Begin(r, Request("login_totp", chal[t].acct, 0, t, "login_mfa", g[1], g[2]))

LoginMFARecoveryPost(r, t, g) ==
    /\ Resolve(t, "login_mfa") /\ loginMFAAvailability(chal[t].acct).recovery
    /\ g \in {codes[chal[t].acct].set, 0}
    /\ Begin(r, Request("login_recovery", chal[t].acct, 0, t, "login_mfa", g, 0))

\* LoginMFAWebAuthnBegin: a promotion, or a failure without passkeys by then.
LoginMFAWebAuthnBegin(r, t) ==
    /\ Resolve(t, "login_mfa") /\ loginMFAAvailability(chal[t].acct).passkey
    /\ Begin(r, Request("promote", chal[t].acct, 0, t, "login_mfa", 0, 0))

\* FinishAssertion: the assertion is by a passkey of the account and answers
\* the challenge's ceremony; a pending registration is not such a ceremony.
FinishAssertion(t, g) == g # 0 /\ g \in keys[chal[t].acct] /\ chal[t].data = 0

LoginMFAWebAuthnFinish(r, t, g) ==
    /\ Resolve(t, "webauthn_auth") /\ loginMFAAvailability(chal[t].acct).passkey
    /\ g \in keys[chal[t].acct] \cup {0}
    /\ Begin(r, Request(IF FinishAssertion(t, g) THEN "login_passkey" ELSE "record",
                        chal[t].acct, 0, t, "webauthn_auth", g, 0))

LoginMFACancelPost(r, t) ==
    ResolveLogin(t) /\ Begin(r, Request("cancel", chal[t].acct, 0, t, chal[t].purpose, 0, 0))

\* What was accepted: a TOTP step, a recovery code, or an assertion, which is
\* good for its own challenge only.
Secret(r) ==
    CASE req[r].op \in {"login_totp", "reauth_totp"} -> <<"totp", req[r].x, req[r].y>>
      [] req[r].op \in {"login_recovery", "reauth_recovery"} -> <<"code", req[r].x, 0>>
      [] OTHER -> <<"assertion", req[r].tok, 0>>

\* UpdateCredentialCounterWith: the passkey must still be there.
UpdateCredentialCounterWith(r) == UpdateWebAuthnCredentialCounter(req[r].acct, req[r].x)

\* The mutation of a completion: the factor is verified inside the transaction.
Mutate(r) ==
    \/ /\ req[r].op \in {"login_totp", "reauth_totp"}
       /\ VerifyTOTPWith(r) /\ UNCHANGED codes
    \/ /\ req[r].op \in {"login_recovery", "reauth_recovery"}
       /\ ConsumeRecoveryWith(r) /\ UNCHANGED totp
    \/ /\ req[r].op \in {"login_passkey", "reauth_passkey"}
       /\ UpdateCredentialCounterWith(r) /\ UNCHANGED <<totp, codes>>

Mutable(r) ==
    LET a == req[r].acct IN
    CASE req[r].op \in {"login_totp", "reauth_totp"} ->
             totp[a].on /\ Verify(totp[a].seed, totp[a].last, req[r].x, req[r].y)
      [] req[r].op \in {"login_recovery", "reauth_recovery"} ->
             ConsumeRecoveryCode(a, req[r].x)
      [] OTHER -> UpdateCredentialCounterWith(r)

\* completeMFAChallenge: challenge, factor and session in one transaction.
completeMFAChallenge(r) ==
    /\ req[r].op \in {"login_totp", "login_recovery", "login_passkey"}
    /\ Consumable(r) /\ Mutate(r)
    /\ chal' = Consumed(r)
    /\ IssueBrowserSessionWith(r, chal[req[r].tok].born)
    /\ DeleteMFARateLimit(req[r].acct)
    /\ Accept(req[r].tok, Secret(r))
    /\ Done(r)
    /\ UNCHANGED <<now, begun, acct, keys>>

\* completeMFAForm, completeMFAJSON: the transaction failed.  A wrong code is
\* recorded; a lost challenge, a cooldown or a missing factor is not.
completeMFAForm(r) ==
    /\ req[r].op \in {"login_totp", "login_recovery", "login_passkey"}
    /\ ~(Consumable(r) /\ Mutable(r))
    /\ chal' = DeleteExpiredMFAChallenges(chal)
    /\ IF Consumable(r) /\ req[r].op # "login_passkey"
          /\ (req[r].op = "login_totp" => totp[req[r].acct].on)
       THEN Step(r, "record") ELSE Done(r)
    /\ UNCHANGED <<now, begun, acct, totp, keys, codes, limit, sess, log, fails>>

\* Cancel, of a login or of a passkey's test: Consume, with nothing to do after.
Cancel(r) ==
    /\ At(r, "cancel")
    /\ IF Consumable(r)
       THEN chal' = Consumed(r) /\ DeleteMFARateLimit(req[r].acct)
       ELSE chal' = DeleteExpiredMFAChallenges(chal) /\ UNCHANGED <<limit, fails>>
    /\ Done(r)
    /\ UNCHANGED <<now, begun, acct, totp, keys, codes, sess, log>>

\* PromoteWebAuthn of a login or a reauthentication.
PromoteWebAuthn(r) == At(r, "promote") /\ Promote(r, "webauthn_auth", 0)

-----------------------------------------------------------------------------
(* Reauthentication of a session. *)

\* SecurityReauthPost: the password, then the factors, then a challenge bound
\* to the session, or at once the mark.
SecurityReauthPost(r, s) ==
    securityIdentity(s) /\ Begin(r, Request("reauth", sess[s].acct, s, 0, "totp_verify", 0, 0))

ReauthCount(r) ==
    /\ At(r, "reauth")
    /\ Step(r, IF CountMFAFactors(req[r].acct) = 0 THEN "mark" ELSE "reauth_challenge")
    /\ UNCHANGED <<now, begun, db, log, fails>>

\* The session may be gone by then: its row is a foreign key.
ReauthChallenge(r) ==
    /\ At(r, "reauth_challenge")
    /\ IF GetSession(req[r].sess) THEN Issue(r, "totp_verify", req[r].sess, 0) ELSE UNCHANGED chal
    /\ Done(r)
    /\ UNCHANGED <<now, begun, acct, totp, keys, codes, limit, sess, log, fails>>

SecurityReauthTOTPPost(r, s, t, g) ==
    /\ securityIdentity(s) /\ ResolveBound(s, t, "totp_verify")
    /\ Begin(r, Request("reauth_totp", chal[t].acct, s, t, "totp_verify", g[1], g[2]))

SecurityReauthRecoveryPost(r, s, t, g) ==
    /\ securityIdentity(s) /\ ResolveBound(s, t, "totp_verify") /\ g \in {codes[chal[t].acct].set, 0}
    /\ Begin(r, Request("reauth_recovery", chal[t].acct, s, t, "totp_verify", g, 0))

SecurityReauthWebAuthnBegin(r, s, t) ==
    /\ securityIdentity(s) /\ ResolveBound(s, t, "totp_verify")
    /\ Begin(r, Request(IF keys[chal[t].acct] = {} THEN "record" ELSE "promote",
                        chal[t].acct, s, t, "totp_verify", 0, 0))

SecurityReauthWebAuthnFinish(r, s, t, g) ==
    /\ securityIdentity(s) /\ ResolveBound(s, t, "webauthn_auth") /\ g \in keys[chal[t].acct] \cup {0}
    /\ Begin(r, Request(IF FinishAssertion(t, g) THEN "reauth_passkey" ELSE "record",
                        chal[t].acct, s, t, "webauthn_auth", g, 0))

\* completeSecurityReauthentication: every failure of the transaction is recorded.
completeSecurityReauthentication(r) ==
    /\ req[r].op \in {"reauth_totp", "reauth_recovery", "reauth_passkey"}
    /\ \/ /\ Consumable(r) /\ Mutate(r)
          /\ chal' = Consumed(r)
          /\ DeleteMFARateLimit(req[r].acct)
          /\ Accept(req[r].tok, Secret(r))
          /\ Step(r, "mark")
       \/ /\ ~(Consumable(r) /\ Mutable(r))
          /\ chal' = DeleteExpiredMFAChallenges(chal)
          /\ Step(r, "record")
          /\ UNCHANGED <<totp, codes, limit, log, fails>>
    /\ UNCHANGED <<now, begun, acct, keys, sess>>

\* finishSecurityReauthentication: the mark, then the resumption.
markCurrentSessionReauthenticated(r) ==
    /\ At(r, "mark")
    /\ MarkSessionReauthenticated(req[r].sess)
    /\ Step(r, "resume")
    /\ UNCHANGED <<now, begun, acct, totp, keys, codes, limit, chal, log, fails>>

-----------------------------------------------------------------------------
(* Enrolment and removal of factors, by a fresh session. *)

SecurityTOTPBeginPost(r, s) ==
    /\ requireFreshSecuritySession(s) /\ ~hasTOTP(sess[s].acct)
    /\ Begin(r, Request("totp_begin", sess[s].acct, s, 0, "totp_enroll", 0, 0))

\* BeginTOTPEnrollment: a new seed, kept encrypted in the challenge.
BeginTOTPEnrollment(r) ==
    /\ At(r, "totp_begin")
    /\ IF GetSession(req[r].sess) THEN Issue(r, "totp_enroll", req[r].sess, req[r].id) ELSE UNCHANGED chal
    /\ Done(r)
    /\ UNCHANGED <<now, begun, acct, totp, keys, codes, limit, sess, log, fails>>

\* SecurityTOTPConfirmPost: the code is checked against the seed in the
\* challenge, before the transaction; a wrong one is recorded.
SecurityTOTPConfirmPost(r, s, t, right) ==
    /\ requireFreshSecuritySession(s) /\ ResolveBound(s, t, "totp_enroll")
    /\ Begin(r, Request(IF right THEN "totp_confirm" ELSE "record",
                        chal[t].acct, s, t, "totp_enroll", chal[t].data, now))

\* ActivateTOTPWith, with the challenge consumed in the same transaction.
ActivateTOTPWith(r) ==
    /\ At(r, "totp_confirm")
    /\ \/ /\ Consumable(r) /\ activateTOTPWith(r, req[r].x)
          /\ DeleteMFARateLimit(req[r].acct)
          /\ Accept(req[r].tok, <<"totp", req[r].x, req[r].y>>)
       \/ /\ ~(Consumable(r) /\ ~totp[req[r].acct].on)
          /\ UNCHANGED <<db, log, fails>>
    /\ Done(r)
    /\ UNCHANGED <<now, begun>>

SecurityPasskeyBeginPost(r, s) ==
    /\ requireFreshSecuritySession(s) /\ keys[sess[s].acct] = {}
    /\ Begin(r, Request("key_begin", sess[s].acct, s, 0, "webauthn_register", 0, 0))

\* BeginRegistration: the challenge names the credential to come.
BeginRegistration(r) ==
    /\ At(r, "key_begin")
    /\ IF GetSession(req[r].sess) THEN Issue(r, "webauthn_register", req[r].sess, req[r].id) ELSE UNCHANGED chal
    /\ Done(r)
    /\ UNCHANGED <<now, begun, acct, totp, keys, codes, limit, sess, log, fails>>

\* SecurityPasskeyFinishPost: the attestation, right or wrong.
SecurityPasskeyFinishPost(r, s, t, right) ==
    /\ requireFreshSecuritySession(s) /\ ResolveBound(s, t, "webauthn_register")
    /\ Begin(r, Request(IF right THEN "key_finish" ELSE "record",
                        chal[t].acct, s, t, "webauthn_register", chal[t].data, 0))

\* FinishRegistration: the challenge becomes the test of the pending credential.
FinishRegistration(r) == At(r, "key_finish") /\ Promote(r, "webauthn_auth", req[r].x)

\* SecurityPasskeyTestFinishPost: an assertion by the pending credential.
SecurityPasskeyTestFinishPost(r, s, t, right) ==
    /\ requireFreshSecuritySession(s) /\ ResolveBound(s, t, "webauthn_auth")
    /\ Begin(r, Request(IF right /\ chal[t].data # 0 THEN "key_test" ELSE "record",
                        chal[t].acct, s, t, "webauthn_auth", chal[t].data, 0))

SecurityPasskeyTestCancelPost(r, s, t) ==
    /\ requireFreshSecuritySession(s) /\ ResolveBound(s, t, "webauthn_auth")
    /\ Begin(r, Request("cancel", chal[t].acct, s, t, "webauthn_auth", 0, 0))

FinishPendingAssertion(r) ==
    /\ At(r, "key_test")
    /\ \/ /\ Consumable(r) /\ CreateCredentialWith(r, req[r].x)
          /\ DeleteMFARateLimit(req[r].acct)
          /\ Accept(req[r].tok, <<"assertion", req[r].tok, 0>>)
       \/ /\ ~(Consumable(r) /\ req[r].x \notin keys[req[r].acct])
          /\ UNCHANGED <<db, log, fails>>
    /\ Done(r)
    /\ UNCHANGED <<now, begun>>

\* deleteFactor keeps one factor.
deleteFactor(a) == CountMFAFactors(a) > 1

\* SecurityPasskeyDeletePost and DeleteCredential: browser logins stay.
SecurityPasskeyDeletePost(r, s, k) ==
    /\ requireFreshSecuritySession(s) /\ k \in keys[sess[s].acct]
    /\ Begin(r, Request("key_delete", sess[s].acct, s, 0, "none", k, 0))

DeleteCredential(r) ==
    /\ At(r, "key_delete")
    /\ IF req[r].x \in keys[req[r].acct] /\ deleteFactor(req[r].acct)
       THEN DeleteWebAuthnCredentialByUserID(req[r].acct, req[r].x) ELSE UNCHANGED keys
    /\ Done(r)
    /\ UNCHANGED <<now, begun, acct, totp, codes, limit, chal, sess, log, fails>>

\* SecurityPasskeyRenamePost and RenameCredential: a new name ends the logins.
SecurityPasskeyRenamePost(r, s, k) ==
    /\ requireFreshSecuritySession(s) /\ k \in keys[sess[s].acct]
    /\ Begin(r, Request("key_rename", sess[s].acct, s, 0, "none", k, 0))

RenameCredential(r) ==
    /\ At(r, "key_rename")
    /\ IF req[r].x \in keys[req[r].acct]
       THEN InvalidateBrowserAuthInTx(chal, req[r].acct) ELSE UNCHANGED <<acct, chal, sess>>
    /\ Done(r)
    /\ UNCHANGED <<now, begun, totp, keys, codes, limit, log, fails>>

\* SecurityRecoveryRegeneratePost: new codes, then a session in their place.
SecurityRecoveryRegeneratePost(r, s) ==
    requireFreshSecuritySession(s) /\ Begin(r, Request("regenerate", sess[s].acct, s, 0, "none", 0, 0))

RegenerateRecovery(r) ==
    /\ At(r, "regenerate")
    /\ IF CountMFAFactors(req[r].acct) > 0
       THEN /\ replaceRecoveryCodes(r) /\ InvalidateBrowserAuthInTx(chal, req[r].acct)
            /\ Step(r, "login_session")
       ELSE Done(r) /\ UNCHANGED <<codes, acct, chal, sess>>
    /\ UNCHANGED <<now, begun, totp, keys, limit, log, fails>>

SecurityDisablePost(r, s) ==
    requireFreshSecuritySession(s) /\ Begin(r, Request("disable", sess[s].acct, s, 0, "none", 0, 0))

Disable(r) ==
    /\ At(r, "disable")
    /\ IF CountMFAFactors(req[r].acct) > 0 THEN resetWith(chal, req[r].acct)
       ELSE UNCHANGED <<db, fails>>
    /\ Done(r)
    /\ UNCHANGED <<now, begun, log>>

\* SecurityPasswordPost, SecurityPasswordAPI and changeOwnPassword: the current
\* password is verified before the transaction.
SecurityPasswordPost(r, s) ==
    /\ requireFreshSecuritySession(s)
    /\ Begin(r, Request("password", sess[s].acct, s, 0, "none", acct[sess[s].acct].pw, 0))
SecurityPasswordAPI(r, s) == SecurityPasswordPost(r, s)

\* UpdatePassword compares the hash that was verified with the stored one.
ExpectedHash(r) == acct[req[r].acct].pw = req[r].x

UpdatePassword(r) ==
    LET a == req[r].acct IN
    /\ At(r, "password")
    /\ IF ExpectedHash(r)
       THEN /\ sess' = DeleteSessionsByUser(a)
            /\ chal' = DeleteMFAChallengesByUserID(chal, a)
            /\ UpdateUserPassword(a)
            /\ Accept(0, <<"password", a, req[r].x>>)
       ELSE UNCHANGED <<acct, chal, sess, log>>
    /\ Done(r)
    /\ UNCHANGED <<now, begun, totp, keys, codes, limit, fails>>

-----------------------------------------------------------------------------
(* The administrator. *)

\* AdminMFAResetPost: a fresh session resets, a stale one leaves an intent that
\* is bound to it.
AdminMFAResetPost(r, s, target) ==
    /\ securityIdentity(s) /\ acct[sess[s].acct].role = "admin" /\ target # sess[s].acct
    /\ Begin(r, Request(IF IsRecentlyAuthenticated(s) THEN "reset" ELSE "intent",
                        sess[s].acct, s, 0, "admin_mfa_reset", target, 0))

DeleteMFAChallengesByUserSessionPurpose(c, s, purpose) ==
    [t \in Id |-> IF c[t].sess = s /\ c[t].purpose = purpose THEN NoChal ELSE c[t]]

\* ReplaceAdminMFAResetContinuation: the session has one at most.
ReplaceAdminMFAResetContinuation(r) ==
    /\ At(r, "intent")
    /\ IF GetSession(req[r].sess)
       THEN chal' = [DeleteMFAChallengesByUserSessionPurpose(
                        DeleteExpiredMFAChallenges(chal), req[r].sess, "admin_mfa_reset")
                     EXCEPT ![req[r].id] =
                        CreateMFAChallenge(req[r].acct, req[r].sess, "admin_mfa_reset", req[r].x)]
       ELSE UNCHANGED chal
    /\ Done(r)
    /\ UNCHANGED <<now, begun, acct, totp, keys, codes, limit, sess, log, fails>>

Reset(r) ==
    /\ At(r, "reset") /\ resetWith(chal, req[r].x)
    /\ Done(r)
    /\ UNCHANGED <<now, begun, log>>

GetMFAChallengeByUserSessionPurpose(r) == 
    {t \in Id : chal[t].live /\ chal[t].sess = req[r].sess
                /\ chal[t].acct = req[r].acct /\ chal[t].purpose = "admin_mfa_reset"}

\* resumeAdminMFAResetContinuation: everything is read again.
MayResume(r, target) ==
    /\ GetSession(req[r].sess) /\ IsRecentlyAuthenticated(req[r].sess)
    /\ acct[req[r].acct].role = "admin" /\ target # req[r].acct

\* ConsumeMFAChallengeBySessionGuarded.
ConsumeMFAChallengeBySessionGuarded(t) == [chal EXCEPT ![t] = NoChal]

\* ConsumeAdminMFAResetContinuation: the intent goes, expired, refused or done.
ConsumeAdminMFAResetContinuation(r) ==
    /\ At(r, "resume")
    /\ \/ /\ GetMFAChallengeByUserSessionPurpose(r) = {} /\ UNCHANGED <<db, log, fails>>
       \/ \E t \in GetMFAChallengeByUserSessionPurpose(r) :
            IF chal[t].expires > now /\ MayResume(r, chal[t].data)
            THEN /\ resetWith(ConsumeMFAChallengeBySessionGuarded(t), chal[t].data)
                 /\ Accept(t, <<"reset", t, 0>>)
            ELSE /\ chal' = [chal EXCEPT ![t] = NoChal]
                 /\ UNCHANGED <<acct, totp, keys, codes, limit, sess, log, fails>>
    /\ Done(r)
    /\ UNCHANGED <<now, begun>>

\* UpdateAccount by an administrator: a role or a password that changes ends
\* the account's browser logins (who may do it is the subject of Accounts).
UpdateAccount(a, role, password) ==
    /\ "account" \in Ops /\ begun < MaxRequests /\ (role # acct[a].role \/ password)
    /\ begun' = begun + 1
    /\ sess' = DeleteSessionsByUser(a)
    /\ chal' = DeleteMFAChallengesByUserID(chal, a)
    /\ acct' = [acct EXCEPT ![a] = [role |-> role, epoch |-> @.epoch + 1,
                                    pw |-> IF password THEN @.pw + 1 ELSE @.pw]]
    /\ UNCHANGED <<now, totp, keys, codes, limit, req, log, fails>>

Tick ==
    /\ now < MaxTime /\ now' = now + 1
    /\ UNCHANGED <<begun, db, req, log, fails>>

-----------------------------------------------------------------------------
(* At first every account has the same kind of factors; name 1 is its seed,  *)
(* name 2 its passkey, and each account has the session of its own number.   *)

Init ==
    /\ now = 0 /\ begun = 0
    /\ acct = [a \in Account |-> [role |-> IF a = First THEN "admin" ELSE "user", pw |-> 0, epoch |-> 0]]
    /\ \E kind \in Start :
         /\ totp = [a \in Account |-> IF kind \in {"totp", "both"} /\ (a # First \/ Account = {a})
                                      THEN [on |-> TRUE, seed |-> 1, last |-> -1] ELSE NoTotp]
         /\ keys = [a \in Account |-> IF kind \in {"key", "both"} /\ (a # First \/ Account = {a})
                                      THEN {2} ELSE {}]
         /\ codes = [a \in Account |-> IF kind # "none" /\ (a # First \/ Account = {a})
                                       THEN [set |-> 1, used |-> FALSE] ELSE NoCodes]
    /\ limit = [a \in Account |-> NoLimit]
    /\ chal = [t \in Id |-> NoChal]
    /\ sess = [s \in Id |-> IF s \in Account /\ "session" \in Ops
                            THEN [live |-> TRUE, acct |-> s, fresh |-> 0, born |-> -1] ELSE NoSess]
    /\ req = [r \in Req |-> NoReq]
    /\ log = <<>> /\ fails = [a \in Account |-> <<>>]

LoginRequest(r) ==
    \/ \E a \in Account : LoginPost(r, a)
    \/ \E t \in {i \in Id : chal[i].live} :
         \/ \E g \in TotpGuesses(chal[t].acct) : LoginMFATOTPPost(r, t, g)
         \/ \E g \in Id \cup {0} : LoginMFARecoveryPost(r, t, g) \/ LoginMFAWebAuthnFinish(r, t, g)
         \/ LoginMFAWebAuthnBegin(r, t)
         \/ LoginMFACancelPost(r, t)

LoginStep(r) ==
    \/ LoginCount(r) \/ LoginChallenge(r) \/ issueFinalBrowserSession(r)
    \/ completeMFAChallenge(r) \/ completeMFAForm(r) \/ Cancel(r)
    \/ PromoteWebAuthn(r) \/ RecordFailure(r)

ReauthRequest(r) ==
    \E s \in {i \in Id : sess[i].live} :
        \/ SecurityReauthPost(r, s)
        \/ \E t \in {i \in Id : chal[i].live} :
             \/ SecurityReauthWebAuthnBegin(r, s, t)
             \/ \E g \in TotpGuesses(chal[t].acct) : SecurityReauthTOTPPost(r, s, t, g)
             \/ \E g \in Id \cup {0} :
                  SecurityReauthRecoveryPost(r, s, t, g) \/ SecurityReauthWebAuthnFinish(r, s, t, g)

FactorRequest(r) ==
    \E s \in {i \in Id : sess[i].live} :
        \/ SecurityTOTPBeginPost(r, s) \/ SecurityPasskeyBeginPost(r, s)
        \/ SecurityRecoveryRegeneratePost(r, s) \/ SecurityDisablePost(r, s)
        \/ SecurityPasswordPost(r, s) \/ SecurityPasswordAPI(r, s)
        \/ \E k \in Id : SecurityPasskeyDeletePost(r, s, k) \/ SecurityPasskeyRenamePost(r, s, k)
        \/ \E t \in Id, right \in BOOLEAN :
             \/ SecurityTOTPConfirmPost(r, s, t, right)
             \/ SecurityPasskeyFinishPost(r, s, t, right)
             \/ SecurityPasskeyTestFinishPost(r, s, t, right)
        \/ \E t \in Id : SecurityPasskeyTestCancelPost(r, s, t)
        \/ \E target \in Account : AdminMFAResetPost(r, s, target)

SecurityStep(r) ==
    \/ ReauthCount(r) \/ ReauthChallenge(r) \/ completeSecurityReauthentication(r)
    \/ markCurrentSessionReauthenticated(r) \/ ConsumeAdminMFAResetContinuation(r)
    \/ BeginTOTPEnrollment(r) \/ ActivateTOTPWith(r) \/ BeginRegistration(r) \/ FinishRegistration(r)
    \/ FinishPendingAssertion(r) \/ DeleteCredential(r) \/ RenameCredential(r)
    \/ RegenerateRecovery(r) \/ Disable(r) \/ UpdatePassword(r)
    \/ ReplaceAdminMFAResetContinuation(r) \/ Reset(r)

Next ==
    \/ \E r \in Req : LoginRequest(r) \/ LoginStep(r) \/ ReauthRequest(r) \/ FactorRequest(r) \/ SecurityStep(r)
    \/ \E s \in Id : LogoutPost(s)
    \/ \E a \in Account, role \in {"admin", "user"}, password \in BOOLEAN : UpdateAccount(a, role, password)
    \/ CleanupExpired
    \/ Tick

Spec == Init /\ [][Next]_vars

-----------------------------------------------------------------------------
(* Properties. *)

\* A TOTP step, a recovery code, a challenge, a reset intent and a verified
\* password each bring about one change and no second (ConsumeWith,
\* AdvanceTOTPIfNewer, ConsumeRecoveryCode, UpdatePassword's ExpectedHash).
AcceptedOnce ==
    \A i, j \in DOMAIN log : i # j =>
        /\ log[i].secret # log[j].secret
        /\ log[i].tok # 0 => log[i].tok # log[j].tok

\* A session that a challenge led to is there only while nothing has ended the
\* account's browser logins since that challenge was issued: no change of
\* password, role or factors falls between the two (InvalidateBrowserAuthInTx).
NoLoginAcrossInvalidation ==
    \A s \in Id : sess[s].live /\ sess[s].born >= 0 => sess[s].born = acct[sess[s].acct].epoch

\* In no stretch of FailureWindow does an account record more failures than two
\* adjoining windows admit, however many challenges and requests share them
\* (recordRateFailure, rateLimitBlocked).
FailuresBounded ==
    \A a \in Account : \A i \in DOMAIN fails[a] :
        Cardinality({j \in DOMAIN fails[a] : j >= i /\ fails[a][j] - fails[a][i] < FailureWindow})
            <= 2 * MaxFailures - 2

\* An account has recovery codes exactly while it has a factor: enrolments that
\* overlap make one set, and no deletion takes the last factor and leaves the
\* codes behind (activateTOTPWith, CreateCredentialWith, deleteFactor, resetWith).
CodesWithFactors ==
    \A a \in Account : codes[a].set # 0 <=> CountMFAFactors(a) > 0
=============================================================================
