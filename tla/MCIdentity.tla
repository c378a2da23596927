----------------------------- MODULE MCIdentity -----------------------------
(*****************************************************************************)
(* Who a request acts for and what it may do: MFA, Accounts, Access,         *)
(* SecretExport and, for the agents, Pairing, each with the requests that    *)
(* race each other.  The parts share no tables in these scenarios, so a      *)
(* behaviour is about one of them.                                           *)
(*****************************************************************************)
EXTENDS Naturals, FiniteSets, Sequences, TLC

CONSTANTS
    q1, q2,
    i1, i2, e1, e2,
    u1, u2, s1, s3, t1, x1, x2, c1, none

VARIABLES
    subject,  \* the part a behaviour is about: it never changes
    now, begun, acct, totp, keys, codes, limit, chal, sess, req, log, fails,
    user, member, lock, identity, trans, spent, marks, synced, role, project,
    group, token, flash, had, peak, writes, shown, admin, live, export,
    challenge, asked, proof, downloads, agent, pairing, caps, work, age,
    challenges, listener, restarts, confirmed, admitted, activated, alarm,
    renamed

everything == <<subject,
    now, begun, acct, totp, keys, codes, limit, chal, sess, req, log, fails,
    user, member, lock, identity, trans, spent, marks, synced, role, project,
    group, token, flash, had, peak, writes, shown, admin, live, export,
    challenge, asked, proof, downloads, agent, pairing, caps, work, age,
    challenges, listener, restarts, confirmed, admitted, activated, alarm,
    renamed>>
On(part) == subject = part

Two == {q1, q2}
\* Requests are interchangeable, and so are the certificates and codes of agents.
SamePair == Permutations(Two)

\* Scopes of tokens: projects selected, all projects, and role ceilings.
OneScope == {[scope |-> "scoped", role |-> 2, projects |-> {1}],
             [scope |-> "scoped", role |-> 3, projects |-> {2}],
             [scope |-> "global", role |-> 0, projects |-> {}]}
Ceilings == {[scope |-> "global", role |-> 3, projects |-> {}],
             [scope |-> "scoped", role |-> 4, projects |-> {1}]}

\* User 1 administers the instance, user 2 is a maintainer who administers
\* project 1.  Token 1 is scoped to project 1, token 2 is free to be made.
StartTokens ==
    [role |-> (1 :> 4 @@ 2 :> 3),
     member |-> (1 :> (1 :> 0 @@ 2 :> 4) @@ 2 :> (1 :> 0 @@ 2 :> 3)),
     projects |-> {1, 2}, groups |-> {1},
     tokens |-> (1 :> [state |-> "live", user |-> 2,
                       grant |-> [scope |-> "scoped", role |-> 2, projects |-> {1}]]
                 @@ 2 :> [state |-> "free", user |-> 0,
                          grant |-> [scope |-> "global", role |-> 0, projects |-> {}]])]

\* A deployer, user 3, is a member too; token 1 has a maintainer's ceiling.
StartMembers ==
    [role |-> (1 :> 4 @@ 2 :> 3 @@ 3 :> 2),
     member |-> (1 :> (1 :> 0 @@ 2 :> 4 @@ 3 :> 3)),
     projects |-> {1}, groups |-> {},
     tokens |-> (1 :> [state |-> "live", user |-> 2,
                       grant |-> [scope |-> "global", role |-> 3, projects |-> {}]])]

\* Project 2 and group 2 are free to be made.
StartProjects == [StartTokens EXCEPT !.projects = {1}, !.member[2] = (1 :> 0 @@ 2 :> 0)]

-----------------------------------------------------------------------------
\* Logins with a second factor, while the factors and the password change.
Login == INSTANCE MFA WITH Account <- {1}, Req <- Two, Ops <- {"session",
    "password", "key_rename", "regenerate", "login", "login_totp",
    "login_recovery", "login_passkey", "promote", "cancel", "record",
    "account", "logout"}, Start <- {"totp", "both"}, MaxRequests <- 3, MaxTime
    <- 1, MaxFailures <- 2, ChallengeTTL <- 2, FailureWindow <- 2, Cooldown <-
    2, RecentTTL <- 1
\* Factors are set up, tested and removed.
Factors == INSTANCE MFA WITH Account <- {1}, Req <- Two, Ops <- {"session",
    "totp_begin", "totp_confirm", "key_begin", "key_finish", "key_test",
    "record", "cancel", "key_delete", "disable", "password"}, Start <- {"none",
    "key"}, MaxRequests <- 4, MaxTime <- 1, MaxFailures <- 2, ChallengeTTL <-
    2, FailureWindow <- 2, Cooldown <- 2, RecentTTL <- 2
\* Wrong codes against the rate limit.
Limit == INSTANCE MFA WITH Account <- {1}, Req <- Two, Ops <- {"login",
    "login_totp", "record"}, Start <- {"totp"}, MaxRequests <- 5, MaxTime <- 1,
    MaxFailures <- 2, ChallengeTTL <- 3, FailureWindow <- 2, Cooldown <- 2,
    RecentTTL <- 1
\* An administrator resets a user after confirming again.
Reset == INSTANCE MFA WITH Account <- {1, 2}, Req <- Two, Ops <- {"session",
    "reset", "intent", "reauth", "reauth_totp", "reauth_recovery",
    "reauth_passkey", "promote", "record", "account", "logout"}, Start <-
    {"both"}, MaxRequests <- 3, MaxTime <- 2, MaxFailures <- 2, ChallengeTTL <-
    2, FailureWindow <- 2, Cooldown <- 2, RecentTTL <- 1
\* Two administrators administer each other.
Admin == INSTANCE Accounts WITH Req <- Two, Subject <- {x1}, Mailbox <- {"a"},
    Role <- {"admin", "viewer"}, Seeds <- 2, MaxUsers <- 3, Ops <- {"create",
    "update", "delete", "login", "password", "member"}, MaxRequests <- 3
\* Single sign-on while accounts change.
SSO == INSTANCE Accounts WITH Req <- Two, Subject <- {x1, x2}, Mailbox <- {"a",
    "b"}, Role <- {"admin", "viewer"}, Seeds <- 2, MaxUsers <- 3, Ops <-
    {"update", "oidc", "login"}, MaxRequests <- 3
\* A subject signs on again and again.
Linked == INSTANCE Accounts WITH Req <- Two, Subject <- {x1, x2}, Mailbox <-
    {"a", "b"}, Role <- {"admin"}, Seeds <- 2, MaxUsers <- 3, Ops <- {"update",
    "oidc"}, MaxRequests <- 4
\* Confirmation by single sign-on.
Reauth == INSTANCE Accounts WITH Req <- Two, Subject <- {x1, x2}, Mailbox <-
    {"a", "b"}, Role <- {"admin"}, Seeds <- 2, MaxUsers <- 3, Ops <- {"oidc",
    "reauth", "delete", "create"}, MaxRequests <- 3
\* Confirmations of two subjects.
Confirm == INSTANCE Accounts WITH Req <- Two, Subject <- {x1, x2}, Mailbox <-
    {"a", "b"}, Role <- {"admin"}, Seeds <- 2, MaxUsers <- 3, Ops <- {"oidc",
    "reauth"}, MaxRequests <- 4
\* API tokens are made, scoped, shown and revoked.
Tokens == INSTANCE Access WITH Req <- Two, Ops <- {"token", "scope", "revoke",
    "revoke_any", "flash", "deploy"}, User <- {1, 2}, Project <- {1, 2}, Group
    <- {1}, Token <- {1, 2}, Granted <- {3}, Grants <- OneScope, Start <-
    StartTokens, MaxRequests <- 2
\* A new token is shown once.
Flash == INSTANCE Access WITH Req <- Two, Ops <- {"token", "flash"}, User <-
    {1, 2}, Project <- {1, 2}, Group <- {1}, Token <- {1, 2}, Granted <- {3},
    Grants <- OneScope, Start <- StartTokens, MaxRequests <- 2
\* Memberships and roles change under requests.
Members == INSTANCE Access WITH Req <- Two, Ops <- {"add", "update", "remove",
    "deploy", "token", "scope", "role"}, User <- {1, 2, 3}, Project <- {1},
    Group <- {}, Token <- {1}, Granted <- {2, 4}, Grants <- Ceilings, Start <-
    StartMembers, MaxRequests <- 2
\* Projects and groups come and go.
Projects == INSTANCE Access WITH Req <- Two, Ops <- {"create", "delete",
    "move", "group", "delete_group", "scope", "deploy"}, User <- {1, 2},
    Project <- {1, 2}, Group <- {1, 2}, Token <- {1, 2}, Granted <- {3}, Grants
    <- OneScope, Start <- StartProjects, MaxRequests <- 2
\* One export, and sessions of two users.
Exporting == INSTANCE SecretExport WITH User <- {u1, u2}, Session <- {s1, s3},
    Token <- {}, Owner <- [h \in {s1, s3} |-> IF h = s3 THEN u2 ELSE u1],
    Export <- {x1}, Request <- Two, Challenge <- {c1}, None <- none, Lifetime
    <- 1, MaxTime <- 1
\* An export of an API token, which a session approves.
ByToken == INSTANCE SecretExport WITH User <- {u1}, Session <- {s1}, Token <-
    {t1}, Owner <- [h \in {s1, t1} |-> u1], Export <- {x1}, Request <- Two,
    Challenge <- {c1}, None <- none, Lifetime <- 1, MaxTime <- 1
\* Two exports of one session, which confirms once.
Approval == INSTANCE SecretExport WITH User <- {u1}, Session <- {s1}, Token <-
    {}, Owner <- [h \in {s1} |-> u1], Export <- {x1, x2}, Request <- {q1},
    Challenge <- {c1}, None <- none, Lifetime <- 1, MaxTime <- 0
\* Two administrators pair one endpoint, the server crashes.
Pair == INSTANCE Pairing WITH Ids <- {i1, i2}, Endpoints <- {e1}, Pins <- Two,
    Codes <- Two, Labels <- {}, Environments <- {}, None <- none, MaxRequests
    <- 2, MaxRestarts <- 1, StaleAfter <- 1, OfflineAfter <- 2, Start <- {},
    Ops <- {"pair", "retry", "begin", "revoke", "crash"}
\* A registered agent beside one that is paired.
Names == INSTANCE Pairing WITH Ids <- {i1, i2}, Endpoints <- {e1, e2}, Pins <-
    Two, Codes <- Two, Labels <- {}, Environments <- {}, None <- none,
    MaxRequests <- 2, MaxRestarts <- 0, StaleAfter <- 1, OfflineAfter <- 2,
    Start <- {i1}, Ops <- {"pair", "retry", "rename"}
\* An agent with work is revoked and paired again.
Work == INSTANCE Pairing WITH Ids <- {i1}, Endpoints <- {e1}, Pins <- Two,
    Codes <- {x1}, Labels <- {}, Environments <- {}, None <- none, MaxRequests
    <- 2, MaxRestarts <- 1, StaleAfter <- 1, OfflineAfter <- 2, Start <- {},
    Ops <- {"pair", "retry", "poll", "revoke", "delete", "work"}
\* A poll of an agent that is paired again.
Recertified == INSTANCE Pairing WITH Ids <- {i1}, Endpoints <- {e1}, Pins <-
    Two, Codes <- {x1}, Labels <- {}, Environments <- {}, None <- none,
    MaxRequests <- 3, MaxRestarts <- 1, StaleAfter <- 1, OfflineAfter <- 2,
    Start <- {}, Ops <- {"pair", "retry", "poll", "revoke"}
\* An agent is heard of and falls silent.
Health == INSTANCE Pairing WITH Ids <- {i1}, Endpoints <- {e1}, Pins <- {q1},
    Codes <- {x1}, Labels <- {"l"}, Environments <- {"v"}, None <- none,
    MaxRequests <- 2, MaxRestarts <- 0, StaleAfter <- 1, OfflineAfter <- 2,
    Start <- {}, Ops <- {"pair", "retry", "poll", "revoke", "drain", "health"}
\* An agent falls silent, is revoked and paired again.
Silence == INSTANCE Pairing WITH Ids <- {i1}, Endpoints <- {e1}, Pins <- {q1},
    Codes <- {x1}, Labels <- {}, Environments <- {}, None <- none, MaxRequests
    <- 3, MaxRestarts <- 0, StaleAfter <- 1, OfflineAfter <- 2, Start <- {},
    Ops <- {"pair", "retry", "poll", "revoke", "health"}

ASSUME Instances ==
    /\ Login!MFAAssumption
    /\ Factors!MFAAssumption
    /\ Limit!MFAAssumption
    /\ Reset!MFAAssumption
    /\ Admin!AccountsAssumption
    /\ SSO!AccountsAssumption
    /\ Linked!AccountsAssumption
    /\ Reauth!AccountsAssumption
    /\ Confirm!AccountsAssumption
    /\ Tokens!AccessAssumption
    /\ Flash!AccessAssumption
    /\ Members!AccessAssumption
    /\ Projects!AccessAssumption
    /\ Exporting!ExportAssumption
    /\ ByToken!ExportAssumption
    /\ Approval!ExportAssumption
    /\ Pair!PairingAssumption
    /\ Names!PairingAssumption
    /\ Work!PairingAssumption
    /\ Recertified!PairingAssumption
    /\ Health!PairingAssumption
    /\ Silence!PairingAssumption

\* The variables of the other parts, which a behaviour leaves alone.
beyondMFA == <<user, member, lock, identity, trans, spent, marks, synced, role, project,
    group, token, flash, had, peak, writes, shown, admin, live, export,
    challenge, asked, proof, downloads, agent, pairing, caps, work, age,
    challenges, listener, restarts, confirmed, admitted, activated, alarm,
    renamed>>
beyondAccounts == <<now, acct, totp, keys, codes, limit, chal, log, fails, role, project,
    group, token, flash, had, peak, writes, shown, admin, live, export,
    challenge, asked, proof, downloads, agent, pairing, caps, work, age,
    challenges, listener, restarts, confirmed, admitted, activated, alarm,
    renamed>>
beyondAccess == <<now, acct, totp, keys, codes, limit, chal, sess, log, fails, user, lock,
    identity, trans, spent, marks, synced, admin, live, export, challenge,
    asked, proof, downloads, agent, pairing, caps, work, age, challenges,
    listener, restarts, confirmed, admitted, activated, alarm, renamed>>
beyondSecretExport == <<begun, acct, totp, keys, codes, limit, chal, sess, log, fails, user,
    member, lock, identity, trans, spent, marks, synced, role, project, group,
    token, flash, had, peak, writes, shown, agent, pairing, caps, work, age,
    challenges, listener, restarts, confirmed, admitted, activated, alarm,
    renamed>>
beyondPairing == <<now, begun, acct, totp, keys, codes, limit, chal, sess, log, fails, user,
    member, lock, identity, trans, spent, marks, synced, role, project, group,
    token, flash, had, peak, writes, shown, admin, live, export, challenge,
    asked, proof, downloads>>

WithoutMFA ==
    /\ user = 0 /\ member = 0 /\ lock = 0 /\ identity = 0 /\ trans = 0
    /\ spent = 0 /\ marks = 0 /\ synced = 0 /\ role = 0 /\ project = 0
    /\ group = 0 /\ token = 0 /\ flash = 0 /\ had = 0 /\ peak = 0
    /\ writes = 0 /\ shown = 0 /\ admin = 0 /\ live = 0 /\ export = 0
    /\ challenge = 0 /\ asked = 0 /\ proof = 0 /\ downloads = 0 /\ agent = 0
    /\ pairing = 0 /\ caps = 0 /\ work = 0 /\ age = 0 /\ challenges = 0
    /\ listener = 0 /\ restarts = 0 /\ confirmed = 0 /\ admitted = 0
    /\ activated = 0 /\ alarm = 0 /\ renamed = 0
WithoutAccounts ==
    /\ now = 0 /\ acct = 0 /\ totp = 0 /\ keys = 0 /\ codes = 0 /\ limit = 0
    /\ chal = 0 /\ log = 0 /\ fails = 0 /\ role = 0 /\ project = 0
    /\ group = 0 /\ token = 0 /\ flash = 0 /\ had = 0 /\ peak = 0
    /\ writes = 0 /\ shown = 0 /\ admin = 0 /\ live = 0 /\ export = 0
    /\ challenge = 0 /\ asked = 0 /\ proof = 0 /\ downloads = 0 /\ agent = 0
    /\ pairing = 0 /\ caps = 0 /\ work = 0 /\ age = 0 /\ challenges = 0
    /\ listener = 0 /\ restarts = 0 /\ confirmed = 0 /\ admitted = 0
    /\ activated = 0 /\ alarm = 0 /\ renamed = 0
WithoutAccess ==
    /\ now = 0 /\ acct = 0 /\ totp = 0 /\ keys = 0 /\ codes = 0 /\ limit = 0
    /\ chal = 0 /\ sess = 0 /\ log = 0 /\ fails = 0 /\ user = 0 /\ lock = 0
    /\ identity = 0 /\ trans = 0 /\ spent = 0 /\ marks = 0 /\ synced = 0
    /\ admin = 0 /\ live = 0 /\ export = 0 /\ challenge = 0 /\ asked = 0
    /\ proof = 0 /\ downloads = 0 /\ agent = 0 /\ pairing = 0 /\ caps = 0
    /\ work = 0 /\ age = 0 /\ challenges = 0 /\ listener = 0 /\ restarts = 0
    /\ confirmed = 0 /\ admitted = 0 /\ activated = 0 /\ alarm = 0
    /\ renamed = 0
WithoutSecretExport ==
    /\ begun = 0 /\ acct = 0 /\ totp = 0 /\ keys = 0 /\ codes = 0 /\ limit = 0
    /\ chal = 0 /\ sess = 0 /\ log = 0 /\ fails = 0 /\ user = 0 /\ member = 0
    /\ lock = 0 /\ identity = 0 /\ trans = 0 /\ spent = 0 /\ marks = 0
    /\ synced = 0 /\ role = 0 /\ project = 0 /\ group = 0 /\ token = 0
    /\ flash = 0 /\ had = 0 /\ peak = 0 /\ writes = 0 /\ shown = 0
    /\ agent = 0 /\ pairing = 0 /\ caps = 0 /\ work = 0 /\ age = 0
    /\ challenges = 0 /\ listener = 0 /\ restarts = 0 /\ confirmed = 0
    /\ admitted = 0 /\ activated = 0 /\ alarm = 0 /\ renamed = 0
WithoutPairing ==
    /\ now = 0 /\ begun = 0 /\ acct = 0 /\ totp = 0 /\ keys = 0 /\ codes = 0
    /\ limit = 0 /\ chal = 0 /\ sess = 0 /\ log = 0 /\ fails = 0 /\ user = 0
    /\ member = 0 /\ lock = 0 /\ identity = 0 /\ trans = 0 /\ spent = 0
    /\ marks = 0 /\ synced = 0 /\ role = 0 /\ project = 0 /\ group = 0
    /\ token = 0 /\ flash = 0 /\ had = 0 /\ peak = 0 /\ writes = 0
    /\ shown = 0 /\ admin = 0 /\ live = 0 /\ export = 0 /\ challenge = 0
    /\ asked = 0 /\ proof = 0 /\ downloads = 0

Init ==
    \/ On("login") /\ Login!Init /\ WithoutMFA
    \/ On("factors") /\ Factors!Init /\ WithoutMFA
    \/ On("limit") /\ Limit!Init /\ WithoutMFA
    \/ On("reset") /\ Reset!Init /\ WithoutMFA
    \/ On("admin") /\ Admin!Init /\ WithoutAccounts
    \/ On("sso") /\ SSO!Init /\ WithoutAccounts
    \/ On("linked") /\ Linked!Init /\ WithoutAccounts
    \/ On("reauth") /\ Reauth!Init /\ WithoutAccounts
    \/ On("confirm") /\ Confirm!Init /\ WithoutAccounts
    \/ On("tokens") /\ Tokens!Init /\ WithoutAccess
    \/ On("flash") /\ Flash!Init /\ WithoutAccess
    \/ On("members") /\ Members!Init /\ WithoutAccess
    \/ On("projects") /\ Projects!Init /\ WithoutAccess
    \/ On("export") /\ Exporting!Init /\ WithoutSecretExport
    \/ On("token") /\ ByToken!Init /\ WithoutSecretExport
    \/ On("approval") /\ Approval!Init /\ WithoutSecretExport
    \/ On("pairing") /\ Pair!Init /\ WithoutPairing
    \/ On("names") /\ Names!Init /\ WithoutPairing
    \/ On("work") /\ Work!Init /\ WithoutPairing
    \/ On("certificate") /\ Recertified!Init /\ WithoutPairing
    \/ On("health") /\ Health!Init /\ WithoutPairing
    \/ On("silence") /\ Silence!Init /\ WithoutPairing

Next ==
    /\ UNCHANGED subject
    /\ \/ On("login") /\ Login!Next /\ UNCHANGED beyondMFA
       \/ On("factors") /\ Factors!Next /\ UNCHANGED beyondMFA
       \/ On("limit") /\ Limit!Next /\ UNCHANGED beyondMFA
       \/ On("reset") /\ Reset!Next /\ UNCHANGED beyondMFA
       \/ On("admin") /\ Admin!Next /\ UNCHANGED beyondAccounts
       \/ On("sso") /\ SSO!Next /\ UNCHANGED beyondAccounts
       \/ On("linked") /\ Linked!Next /\ UNCHANGED beyondAccounts
       \/ On("reauth") /\ Reauth!Next /\ UNCHANGED beyondAccounts
       \/ On("confirm") /\ Confirm!Next /\ UNCHANGED beyondAccounts
       \/ On("tokens") /\ Tokens!Next /\ UNCHANGED beyondAccess
       \/ On("flash") /\ Flash!Next /\ UNCHANGED beyondAccess
       \/ On("members") /\ Members!Next /\ UNCHANGED beyondAccess
       \/ On("projects") /\ Projects!Next /\ UNCHANGED beyondAccess
       \/ On("export") /\ Exporting!Next /\ UNCHANGED beyondSecretExport
       \/ On("token") /\ ByToken!Next /\ UNCHANGED beyondSecretExport
       \/ On("approval") /\ Approval!Next /\ UNCHANGED beyondSecretExport
       \/ On("pairing") /\ Pair!Next /\ UNCHANGED beyondPairing
       \/ On("names") /\ Names!Next /\ UNCHANGED beyondPairing
       \/ On("work") /\ Work!Next /\ UNCHANGED beyondPairing
       \/ On("certificate") /\ Recertified!Next /\ UNCHANGED beyondPairing
       \/ On("health") /\ Health!Next /\ UNCHANGED beyondPairing
       \/ On("silence") /\ Silence!Next /\ UNCHANGED beyondPairing

Spec ==
    Init /\ [][Next]_everything

-----------------------------------------------------------------------------
\* A challenge, a TOTP step or a recovery code is accepted once; nobody is
\* logged in across a change of password, role or factors; recovery codes exist
\* only beside a factor; and wrong codes stay within the limit of their window,
\* whatever overlaps.
FactorsHold ==
    /\ On("login") => /\ Login!AcceptedOnce
                      /\ Login!NoLoginAcrossInvalidation
    /\ On("factors") => /\ Factors!AcceptedOnce
                        /\ Factors!CodesWithFactors
    /\ On("limit") => /\ Limit!AcceptedOnce
                      /\ Limit!FailuresBounded
    /\ On("reset") => /\ Reset!AcceptedOnce
                      /\ Reset!NoLoginAcrossInvalidation
                      /\ Reset!CodesWithFactors

\* An administrator remains, whoever is demoted or deleted at once; the
\* callback of a sign-on counts once, and for the subject that began it; a
\* change of role ends the sessions of the user; and a subject keeps its user.
AccountsHold ==
    /\ [](/\ On("admin") => Admin!AdministratorRemains
          /\ On("sso") => /\ SSO!AdministratorRemains
                          /\ SSO!CallbackOnce
          /\ On("reauth") => /\ Reauth!CallbackOnce
                             /\ Reauth!ReauthBySubject
          /\ On("confirm") => Confirm!ReauthBySubject)
    /\ [][/\ On("admin") => Admin!RoleChangeEndsSessions!1
          /\ On("sso") => /\ SSO!RoleChangeEndsSessions!1
                          /\ SSO!SubjectKeepsUser!1
          /\ On("linked") => Linked!SubjectKeepsUser!1]_everything

\* No request writes with more than the lowest of role, membership and token
\* allowed at one moment since it arrived; a token is never wider than what was
\* chosen for it, mints nothing above its ceiling, is shown once, and stays
\* revoked.
GrantsHold ==
    /\ [](/\ On("members") => /\ Members!LowestLayerDecides
                              /\ Members!CeilingMintsNothing
          /\ On("projects") => /\ Projects!LowestLayerDecides
                               /\ Projects!GrantIsWhole
          /\ On("tokens") => /\ Tokens!GrantIsWhole
                             /\ Tokens!ShownOnce
          /\ On("flash") => Flash!ShownOnce)
    /\ [][On("tokens") => Tokens!RevokedIsFinal!1]_everything

\* An export permits one download, after a confirmation started for this export
\* by its own session, while that session, the role of its user and the five
\* minutes last.
ExportConfirmed ==
    /\ [](/\ On("export") => /\ Exporting!TypeOK
                             /\ Exporting!OneDownload
                             /\ Exporting!ApprovedAfresh
          /\ On("token") => /\ ByToken!TypeOK
                            /\ ByToken!OneDownload
          /\ On("approval") => Approval!ApprovedAfresh)
    /\ [][/\ On("export") => Exporting!DeliveredWhileApproved!1
          /\ On("token") => ByToken!DeliveredWhileApproved!1]_everything

\* Only a certificate an administrator confirmed enters, and none after its
\* agent was revoked; an endpoint is registered once; a pairing is reported as
\* done only when it is registered; work with an unknown outcome stays with its
\* agent however it is revoked, paired again or deleted; capabilities are those
\* of the current certificate; and only an agent that was heard of is healthy.
PairingHolds ==
    /\ [](/\ On("pairing") => /\ Pair!TypeOK
                              /\ Pair!NoEntryAfterRevoke
                              /\ Pair!PairedTupleWasConfirmed
          /\ On("work") => /\ Work!NoEntryAfterRevoke
                           /\ Work!CapabilitiesOfCurrentCertificate
          /\ On("names") => Names!OneRegistrationPerEndpoint
          /\ On("certificate") => Recertified!CapabilitiesOfCurrentCertificate
          /\ On("health") => Health!HealthyMeansHeard
          /\ On("silence") => Silence!HealthyMeansHeard)
    /\ [][/\ On("pairing") => Pair!SuccessMeansRegistered!1
          /\ On("work") => Work!UncertainWorkStays!1]_everything
=============================================================================
