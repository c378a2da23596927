------------------------------ MODULE Accounts ------------------------------
(***************************************************************************)
(* User accounts: their administration by web and API, with the rule that  *)
(* local administration leaves an administrator, and single sign-on, which *)
(* creates, links and updates accounts from the claims of a provider.      *)
(* Requests overlap between their reads and their transactions.  A local   *)
(* administration transaction is two steps, since what it counted may      *)
(* change before it commits; so is the resolution of an identity, whose    *)
(* update is guarded by the role that it read.                             *)
(***************************************************************************)
EXTENDS Integers, FiniteSets, TLC

CONSTANTS
    Req,            \* requests that may be under way at once
    Ops,            \* the requests an instance makes
    Subject,        \* subjects of the one configured issuer
    Mailbox,        \* email addresses up to case
    Role,           \* the global roles that occur, "admin" among them
    Seeds,          \* accounts that are there at first, administrators
    MaxUsers,       \* bound on accounts
    MaxRequests     \* bound on requests

AccountsAssumption ==
    /\ "admin" \in Role
    /\ {Seeds, MaxUsers, MaxRequests} \subseteq Nat \ {0}
    /\ Seeds <= MaxUsers

VARIABLES
    begun,      \* requests so far; they name transactions and sessions
    user,       \* users; an id is never used again
    member,     \* the users with a project_members row
    lock,       \* who holds the row of local_administration_lock
    identity,   \* oidc_identities, a subject's user or 0
    trans,      \* oidc_transactions and what their cookies hold
    sess,       \* sessions
    req,        \* requests between two of their steps
    spent,      \* history: how often a transaction was accepted
    marks,      \* history: the subjects that reauthenticated a session
    synced      \* history: single sign-on took the administrator role from someone

vars == <<begun, user, member, lock, identity, trans, sess, req, spent, marks, synced>>

User == 1 .. MaxUsers
Id == 1 .. MaxRequests
Email == Mailbox \X {"lower", "mixed"}
NoReq == [op |-> "none"]
Nobody == [state |-> "free", email |-> <<>>, role |-> "none", by |-> "none"]
NoTrans == [state |-> "none", mode |-> "none", sess |-> 0, user |-> 0, subject |-> "none"]
NoSess == [live |-> FALSE, user |-> 0]
FreeLock == "free"

-----------------------------------------------------------------------------
(* Queries. *)

GetUserByID(u) == u \in User /\ user[u].state = "live"
GetUserByEmail(e) == {u \in User : GetUserByID(u) /\ user[u].email = e}
ListUsers == {u \in User : GetUserByID(u)}
ListProjectsForUser(u) == u \in member
CountAdministrators == Cardinality({u \in ListUsers : user[u].role = "admin"})
GetOIDCIdentity(s) == identity[s]
GetOIDCIdentityByUserID(u) == {s \in Subject : identity[s] = u}
GetSession(s) == s \in Id /\ sess[s].live

\* CreateUser: an insert that the unique exact email may refuse.
CanCreate(e) == GetUserByEmail(e) = {} /\ \E u \in User : user[u].state = "free"
NextId == CHOOSE u \in User : user[u].state = "free" /\ \A v \in 1 .. u - 1 : user[v].state # "free"
InsertUser(e, role) ==
    user' = [user EXCEPT ![NextId] = [state |-> "live", email |-> e, role |-> role, by |-> "none"]]

\* DeleteSessionsByUser, all that InvalidateBrowserAuthInTx removes here.
DeleteSessionsByUser(u) == sess' = [s \in Id |-> IF sess[s].user = u THEN NoSess ELSE sess[s]]

InvalidateBrowserAuthInTx(u, changed) == IF changed THEN DeleteSessionsByUser(u) ELSE UNCHANGED sess

DeleteExpiredOIDCTransactions(t) ==
    [i \in Id |-> IF t[i].state = "expired" THEN [t[i] EXCEPT !.state = "none"] ELSE t[i]]

-----------------------------------------------------------------------------
(* Requests. *)

\* An administrator's request, which the RequireRole("admin") of its route let in.
AsAdmin(u) == GetUserByID(u) /\ user[u].role = "admin"

At(r, op) == req[r].op = op
Begin(r, op, body) ==
    /\ op \in Ops /\ req[r] = NoReq /\ begun < MaxRequests
    /\ \E u \in User : AsAdmin(u)
    /\ begun' = begun + 1
    /\ req' = [req EXCEPT ![r] = [op |-> op, id |-> begun + 1] @@ body]
    /\ UNCHANGED <<user, member, lock, identity, trans, sess, spent, marks, synced>>
Step(r, op) == req' = [req EXCEPT ![r].op = op]
Done(r) == req' = [req EXCEPT ![r] = NoReq]

-----------------------------------------------------------------------------
(* Administration of accounts. *)

\* validateUserFields and isValidRole leave the roles there are.
validateUserFields(role) == role \in Role

\* CreateUser of the pages looks for the email, then inserts.
CreateUser(r, e, role) ==
    /\ validateUserFields(role) /\ GetUserByEmail(e) = {}
    /\ Begin(r, "create", [email |-> e, role |-> role])

\* CreateUser of the API inserts.
CreateUserAPI(r, e, role) ==
    validateUserFields(role) /\ Begin(r, "create", [email |-> e, role |-> role])

InsertAccount(r) ==
    /\ At(r, "create")
    /\ IF CanCreate(req[r].email) THEN InsertUser(req[r].email, req[r].role) ELSE UNCHANGED user
    /\ Done(r)
    /\ UNCHANGED <<begun, member, lock, identity, trans, sess, spent, marks, synced>>

\* UpdateUser of the pages reads the account for its form; the API does not.
UpdateUser(r, u, role, password) ==
    /\ validateUserFields(role) /\ GetUserByID(u)
    /\ Begin(r, "update", [user |-> u, role |-> role, password |-> password])
UpdateUserAPI(r, u, role, password) ==
    /\ validateUserFields(role)
    /\ Begin(r, "update", [user |-> u, role |-> role, password |-> password])

\* DeleteUser of the pages: not oneself, and no project left.
DeleteUser(r, admin, u) ==
    /\ AsAdmin(admin) /\ admin # u /\ GetUserByID(u) /\ ~ListProjectsForUser(u)
    /\ Begin(r, "delete", [user |-> u, role |-> "none", password |-> FALSE, by |-> "web"])

\* DeleteUser of the API: not oneself.
DeleteUserAPI(r, admin, u) ==
    /\ AsAdmin(admin) /\ admin # u
    /\ Begin(r, "delete", [user |-> u, role |-> "none", password |-> FALSE, by |-> "api"])

\* Mutant of LockLocalAdministration: nobody waits for the row.
LockNothing(r) == UNCHANGED lock

\* LockLocalAdministration: the update of the one row waits for its holder.
LockLocalAdministration(r) == lock = FreeLock /\ lock' = r

\* protectLastAdministrator.
protectLastAdministrator(u) == user[u].role = "admin" => CountAdministrators > 1

\* WithLocalAdministrationTx up to the changes: the lock, the row of the account
\* (LockMFAUser), and the guard.  A refusal rolls back, which frees both.
WithLocalAdministrationTx(r) ==
    /\ \/ At(r, "update") \/ At(r, "delete")
    /\ \/ /\ GetUserByID(req[r].user)
          /\ req[r].role # "admin" => protectLastAdministrator(req[r].user)
          /\ LockLocalAdministration(r)
          /\ Step(r, IF At(r, "update") THEN "update_commit" ELSE "delete_commit")
       \/ /\ ~ /\ GetUserByID(req[r].user)
               /\ req[r].role # "admin" => protectLastAdministrator(req[r].user)
          /\ lock = FreeLock
          /\ Done(r) /\ UNCHANGED lock
    /\ UNCHANGED <<begun, user, member, identity, trans, sess, spent, marks, synced>>

Unlock(r) == lock' = IF lock = r THEN FreeLock ELSE lock

\* The row that a local transaction holds is written by no one else.
RowLocked(u) == \E r \in Req : (At(r, "update_commit") \/ At(r, "delete_commit")) /\ req[r].user = u

\* UpdateAccount: the profile, the password, and the end of the browser logins
\* when either the role or the password changed.
UpdateAccount(r) ==
    LET u == req[r].user IN
    /\ At(r, "update_commit")
    /\ user' = [user EXCEPT ![u].role = req[r].role]
    /\ InvalidateBrowserAuthInTx(u, req[r].password \/ user[u].role # req[r].role)
    /\ Unlock(r) /\ Done(r)
    /\ UNCHANGED <<begun, member, identity, trans, spent, marks, synced>>

\* DeleteAccount: sessions, identity and memberships go with the row.
DeleteAccount(r) ==
    LET u == req[r].user IN
    /\ At(r, "delete_commit")
    /\ user' = [user EXCEPT ![u] = [Nobody EXCEPT !.state = "gone", !.by = req[r].by]]
    /\ InvalidateBrowserAuthInTx(u, TRUE)
    /\ identity' = [s \in Subject |-> IF identity[s] = u THEN 0 ELSE identity[s]]
    /\ member' = member \ {u}
    /\ Unlock(r) /\ Done(r)
    /\ UNCHANGED <<begun, trans, spent, marks, synced>>

\* AddMember of a project, which Access models in full.
AddMember(u) ==
    /\ "member" \in Ops /\ GetUserByID(u) /\ member' = member \cup {u} /\ u \notin member
    /\ UNCHANGED <<begun, user, lock, identity, trans, sess, req, spent, marks, synced>>

\* A login with a password, which MFA models in full.
Login(u) ==
    /\ "login" \in Ops /\ GetUserByID(u) /\ begun < MaxRequests /\ begun' = begun + 1
    /\ sess' = [sess EXCEPT ![begun + 1] = [live |-> TRUE, user |-> u]]
    /\ UNCHANGED <<user, member, lock, identity, trans, req, spent, marks, synced>>

-----------------------------------------------------------------------------
(* Single sign-on. *)

\* TransactionStore.Start: the state of a new transaction, and its cookie.
StartTransaction(id, t) == trans' = [DeleteExpiredOIDCTransactions(trans) EXCEPT ![id] = t]

\* LoginOIDCGet.
LoginOIDCGet ==
    /\ "oidc" \in Ops /\ begun < MaxRequests /\ begun' = begun + 1
    /\ StartTransaction(begun + 1, [NoTrans EXCEPT !.state = "live", !.mode = "login"])
    /\ UNCHANGED <<user, member, lock, identity, sess, req, spent, marks, synced>>

\* SecurityReauthOIDCGet binds the transaction to session, user and subject.
SecurityReauthOIDCGet(s) ==
    /\ "reauth" \in Ops /\ GetSession(s) /\ begun < MaxRequests /\ begun' = begun + 1
    /\ \E subject \in GetOIDCIdentityByUserID(sess[s].user) :
         StartTransaction(begun + 1, [state |-> "live", mode |-> "reauth", sess |-> s,
                                      user |-> sess[s].user, subject |-> subject])
    /\ UNCHANGED <<user, member, lock, identity, sess, req, spent, marks, synced>>

\* The lifetime of a transaction ends.
Expire(t) ==
    /\ trans[t].state = "live" /\ trans' = [trans EXCEPT ![t].state = "expired"]
    /\ UNCHANGED <<begun, user, member, lock, identity, sess, req, spent, marks, synced>>

\* ConsumeOIDCTransaction deletes the row of a state that has not expired.
ConsumeOIDCTransaction(t) == [trans EXCEPT ![t].state = "none"]

\* Consume and Exchange: a callback may come again, late, or with the provider's
\* error; what it brings is accepted with the row that it deletes.  The claims
\* are ParseClaims' outcome: a subject, an email in lower case, a mapped role.
LoginOIDCCallbackGet(r, t, s, subject, mailbox, role, ok) ==
    /\ t <= begun /\ trans[t].mode # "none"
    /\ req[r] = NoReq /\ begun < MaxRequests /\ begun' = begun + 1
    /\ trans' = DeleteExpiredOIDCTransactions(ConsumeOIDCTransaction(t))
    /\ IF trans[t].state = "live" /\ ok
       THEN /\ spent' = [spent EXCEPT ![t] = @ + 1]
            /\ req' = [req EXCEPT ![r] =
                 IF trans[t].mode = "login"
                 THEN [op |-> "resolve", id |-> begun + 1, subject |-> subject, tries |-> 0,
                       email |-> <<mailbox, "lower">>, role |-> role, user |-> 0, had |-> "none",
                       linked |-> FALSE]
                 ELSE [op |-> "reauth", id |-> begun + 1, trans |-> t, sess |-> s, subject |-> subject]]
       ELSE UNCHANGED <<spent, req>>
    /\ UNCHANGED <<user, member, lock, identity, sess, marks, synced>>

\* findUserIDByEmail folds case; two matches are ambiguous.
findUserIDByEmail(e) == {u \in ListUsers : user[u].email[1] = e[1]}

\* The first part of resolveIdentity: whom the claims mean, and with what role.
ReadIdentity(r) ==
    LET linked == GetOIDCIdentity(req[r].subject)
        found == IF linked # 0 THEN {linked} ELSE findUserIDByEmail(req[r].email)
    IN
    /\ At(r, "resolve")
    /\ IF Cardinality(found) > 1 THEN Done(r)
       ELSE req' = [req EXCEPT ![r].op = "synchronize",
                               ![r].linked = (linked # 0),
                               ![r].user = IF found = {} THEN 0 ELSE CHOOSE u \in found : TRUE,
                               ![r].had = IF found = {} THEN "none"
                                          ELSE user[CHOOSE u \in found : TRUE].role]
    /\ UNCHANGED <<begun, user, member, lock, identity, trans, sess, spent, marks, synced>>

\* The WHERE of UpdateOIDCUser.
ExpectedRole(u, had) == GetUserByID(u) /\ user[u].role = had

\* CreateOIDCIdentity: a subject has one user and a user one subject.  A link
\* made meanwhile is fine when it is the same.
CreateOIDCIdentity(subject, u) ==
    \/ identity[subject] = u
    \/ identity[subject] = 0 /\ GetOIDCIdentityByUserID(u) = {}

\* UpdateOIDCUser, with the end of the browser logins when the role changed.
UpdateOIDCUser(r, u, had) ==
    /\ user' = [user EXCEPT ![u].email = req[r].email, ![u].role = req[r].role]
    /\ identity' = [identity EXCEPT ![req[r].subject] = u]
    /\ InvalidateBrowserAuthInTx(u, had # req[r].role)
    /\ synced' = (synced \/ (user[u].role = "admin" /\ req[r].role # "admin"))
    /\ req' = [req EXCEPT ![r].op = "session", ![r].user = u]

Fail(r) == Done(r) /\ UNCHANGED <<user, identity, sess, synced>>

identityResolveAttempts == 3

\* errIdentityRetry: the update matched no row, and the resolution starts again.
Retry(r) ==
    /\ req' = IF req[r].tries + 1 < identityResolveAttempts
              THEN [req EXCEPT ![r].op = "resolve", ![r].tries = @ + 1]
              ELSE [req EXCEPT ![r] = NoReq]
    /\ UNCHANGED <<user, identity, sess, synced>>

\* Link the account if it was not, compare the email with the other accounts,
\* and update it.
Synchronize(r, u, had) ==
    /\ ~RowLocked(u)
    /\ IF \/ ~req[r].linked /\ ~(GetUserByID(u) /\ CreateOIDCIdentity(req[r].subject, u))
          \/ findUserIDByEmail(req[r].email) \ {u} # {}
       THEN Fail(r)
       ELSE IF ExpectedRole(u, had) THEN UpdateOIDCUser(r, u, had) ELSE Retry(r)

\* The account of a subject that nobody has.
CreateJIT(r) ==
    /\ CanCreate(req[r].email) /\ InsertUser(req[r].email, req[r].role)
    /\ identity' = [identity EXCEPT ![req[r].subject] = NextId]
    /\ req' = [req EXCEPT ![r].op = "session", ![r].user = NextId]
    /\ UNCHANGED <<sess, synced>>

\* The second part of resolveIdentity, its writes: an account created, an
\* account found after its insert raced this one, or the account that was read.
resolveIdentity(r) ==
    LET named == findUserIDByEmail(req[r].email) IN
    /\ At(r, "synchronize")
    /\ \/ /\ req[r].user = 0 /\ GetUserByEmail(req[r].email) = {}
          /\ IF named = {} /\ identity[req[r].subject] = 0 THEN CreateJIT(r) ELSE Fail(r)
       \/ /\ req[r].user = 0 /\ GetUserByEmail(req[r].email) # {}
          /\ IF Cardinality(named) > 1 THEN Fail(r)
             ELSE \E u \in named : Synchronize(r, u, user[u].role)
       \/ req[r].user # 0 /\ Synchronize(r, req[r].user, req[r].had)
    /\ UNCHANGED <<begun, member, lock, trans, spent, marks>>

\* issueFinalBrowserSession: a session of its own, unless the user is gone.
issueFinalBrowserSession(r) ==
    /\ At(r, "session")
    /\ sess' = IF GetUserByID(req[r].user)
               THEN [sess EXCEPT ![req[r].id] = [live |-> TRUE, user |-> req[r].user]] ELSE sess
    /\ Done(r)
    /\ UNCHANGED <<begun, user, member, lock, identity, trans, spent, marks, synced>>

\* ParseReauthenticationClaims and the comparison with the transaction.
BoundReauthentication(r) == req[r].subject = trans[req[r].trans].subject

\* completeOIDCReauthentication: the session and the user that asked, the
\* subject that was expected, and the link as it is now.
completeOIDCReauthentication(r) ==
    LET t == trans[req[r].trans]
        s == req[r].sess
    IN
    /\ At(r, "reauth")
    /\ IF /\ GetSession(s) /\ s = t.sess /\ sess[s].user = t.user
          /\ BoundReauthentication(r) /\ GetOIDCIdentity(t.subject) = t.user
       THEN marks' = marks \cup {<<s, req[r].subject>>}
       ELSE UNCHANGED marks
    /\ Done(r)
    /\ UNCHANGED <<begun, user, member, lock, identity, trans, sess, spent, synced>>

-----------------------------------------------------------------------------
(* The seeds administer; their emails differ, perhaps only in case.          *)

Init ==
    /\ begun = 0 /\ member = {} /\ lock = FreeLock /\ synced = FALSE /\ marks = {}
    /\ \E box \in [1 .. Seeds -> Mailbox] :
         user = [u \in User |-> IF u <= Seeds
                    THEN [state |-> "live", email |-> <<box[u], IF u = 1 THEN "lower" ELSE "mixed">>,
                          role |-> "admin", by |-> "none"]
                    ELSE Nobody]
    /\ Cardinality({user[u].email : u \in 1 .. Seeds}) = Seeds
    /\ identity = [s \in Subject |-> 0]
    /\ trans = [t \in Id |-> NoTrans]
    /\ sess = [s \in Id |-> NoSess]
    /\ req = [r \in Req |-> NoReq]
    /\ spent = [t \in Id |-> 0]

AdminRequest(r) ==
    \/ \E e \in Email, role \in Role : CreateUser(r, e, role) \/ CreateUserAPI(r, e, role)
    \/ \E u \in User, role \in Role, password \in {FALSE, "password" \in Ops} :
         UpdateUser(r, u, role, password) \/ UpdateUserAPI(r, u, role, password)
    \/ \E u, v \in User : DeleteUser(r, u, v) \/ DeleteUserAPI(r, u, v)

Callback(r) ==
    \E t \in Id, s \in Id, subject \in Subject, mailbox \in Mailbox, role \in Role, ok \in BOOLEAN :
        /\ trans[t].mode = "login" => s = 1
        /\ trans[t].mode = "reauth" => role = "admin" /\ mailbox = CHOOSE b \in Mailbox : TRUE
        /\ LoginOIDCCallbackGet(r, t, s, subject, mailbox, role, ok)

RequestStep(r) ==
    \/ InsertAccount(r) \/ WithLocalAdministrationTx(r) \/ UpdateAccount(r) \/ DeleteAccount(r)
    \/ ReadIdentity(r) \/ resolveIdentity(r) \/ issueFinalBrowserSession(r)
    \/ completeOIDCReauthentication(r)

Next ==
    \/ \E r \in Req : AdminRequest(r) \/ Callback(r) \/ RequestStep(r)
    \/ LoginOIDCGet
    \/ \E s \in Id : SecurityReauthOIDCGet(s)
    \/ \E t \in Id : Expire(t)
    \/ \E u \in User : AddMember(u) \/ Login(u)

Spec == Init /\ [][Next]_vars

-----------------------------------------------------------------------------
(* Properties. *)

\* Local administration never removes the last administrator, however updates
\* and deletions overlap; single sign-on may (docs/roles.md:15).
AdministratorRemains == ~synced => CountAdministrators >= 1

\* The callback of a transaction is accepted once, reloaded, late or repeated.
CallbackOnce == \A t \in Id : spent[t] <= 1

\* A subject stays with the user it was linked to until that user is deleted,
\* and no two subjects share a user: nobody is moved into another's account by
\* an email that changes hands.
SubjectKeepsUser ==
    [][\A s \in Subject :
        /\ identity[s] # 0 /\ identity'[s] # identity[s] => user'[identity[s]].state = "gone"
        /\ identity'[s] # 0 => \A x \in Subject \ {s} : identity'[x] # identity'[s]]_vars

\* A change of role leaves the account no session from before it: sessions that
\* were opened under another role between the read and the update included.
RoleChangeEndsSessions ==
    [][\A u \in User : user'[u].role # user[u].role =>
         \A s \in Id : sess[s].user = u => ~sess'[s].live]_vars

\* A session counts as reauthenticated only by the subject its user is linked to.
ReauthBySubject ==
    \A m \in marks : sess[m[1]].live => identity[m[2]] = sess[m[1]].user

=============================================================================
