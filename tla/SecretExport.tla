---------------------------- MODULE SecretExport ----------------------------
(***************************************************************************)
(* The export of the secret variables of a project or lifecycle.           *)
(*                                                                         *)
(* An administrator's browser session, or a global API token, asks for an  *)
(* export; the browser confirms the identity of its user for this export,  *)
(* by password, password and second factor, or single sign-on; and one     *)
(* download consumes it.  A request passes the middleware first and acts   *)
(* later, so logouts, demotions, revocations, cancellations and the expiry *)
(* fall between.  Challenges and provider are the subject of MFA and       *)
(* Accounts: here a confirmation succeeds or fails.  The claim of an API   *)
(* export is named by the export.                                          *)
(***************************************************************************)
EXTENDS Naturals, FiniteSets

CONSTANTS
    User,
    Session, Token,  \* browser sessions, global administrator tokens
    Owner,           \* the user of a session or token
    Export,          \* bound: exports ever requested
    Request,         \* requests under way
    Challenge,       \* bound: second-factor challenges ever issued
    None,
    Lifetime,        \* five minutes
    MaxTime          \* bound

ExportAssumption ==
    /\ Owner \in [Session \cup Token -> User]
    /\ None \notin Session \cup Token \cup Export \cup Challenge
    /\ {"none", "gone"} \cap Session = {}
    /\ Lifetime \in Nat \ {0} /\ MaxTime \in Nat

VARIABLES
    admin,     \* users with the role
    live,      \* sessions and tokens that are valid
    now,
    export,    \* rows of secret_exports
    challenge, \* rows of mfa_challenges
    req,
    asked,     \* ghost: the export a challenge was issued for
    proof,     \* ghost: what the confirmation that approved an export was for
    downloads  \* ghost: documents handed out

vars == <<admin, live, now, export, challenge, req, asked, proof, downloads>>
ghosts == <<asked, proof, downloads>>
accounts == <<admin, live, now>>

NoRow == [state |-> "none"]
Gone == [state |-> "gone"]
NoReq == [pc |-> "none"]

Row(e) == export[e].state = "row"
\* GetSecretExport: the row of the user, while it has not expired.
GetSecretExport(e, u) == Row(e) /\ export[e].user = u /\ export[e].expires > now

-----------------------------------------------------------------------------
(* Accounts *)

Tick == /\ now < MaxTime /\ now' = now + 1
        /\ UNCHANGED <<admin, live, export, challenge, req, ghosts>>

\* Logout, revocation or expiry.
End(s) ==
    /\ s \in live /\ live' = live \ {s}
    /\ UNCHANGED <<admin, now, export, challenge, req, ghosts>>

\* A change of the role ends the user's sessions in the same transaction.
SetRole(u) ==
    /\ admin' = IF u \in admin THEN admin \ {u} ELSE admin \cup {u}
    /\ live' = live \ {s \in Session : Owner[s] = u}
    /\ UNCHANGED <<now, export, challenge, req, ghosts>>

-----------------------------------------------------------------------------
(* Requests *)

Pages == {"start", "authorize", "cancel", "download"}
Reauth == {"password", "factor"}

\* secretExportIdentity behind the middlewares; a token starts and downloads.
Arrive(q, s, op, e) ==
    /\ req[q].pc = "none" /\ s \in live /\ Owner[s] \in admin
    /\ s \in Token => op \in {"start", "download"}
    /\ (op = "start") <=> (e = None)
    /\ e # None => export[e].state # "none"
    /\ req' = [req EXCEPT ![q] = [pc |-> op, by |-> s, export |-> e]]
    /\ UNCHANGED <<accounts, export, challenge, ghosts>>

Done(q) == req' = [req EXCEPT ![q] = NoReq]

\* DeleteExpiredSecretExports
Unexpired(e) == Row(e) /\ export[e].expires > now

\* NewSecretExport: the export of a token is bound to no session yet.
NewSecretExport(q, e) ==
    LET s == req[q].by IN
    /\ req[q].pc = "start" /\ export[e] = NoRow /\ Done(q)
    /\ export' = [x \in Export |->
          IF x = e THEN [state |-> "row", user |-> Owner[s], expires |-> now + Lifetime,
                         session |-> IF s \in Session THEN s ELSE None,
                         token |-> IF s \in Token THEN s ELSE None,
                         auth |-> None, approved |-> FALSE]
          ELSE IF Row(x) /\ ~Unexpired(x) THEN Gone ELSE export[x]]
    /\ UNCHANGED <<accounts, challenge, ghosts>>

\* BindSecretExport: the first session that confirms has it.
Authorize(q) ==
    LET e == req[q].export  s == req[q].by IN
    /\ req[q].pc = "authorize" /\ Done(q)
    /\ IF GetSecretExport(e, Owner[s]) /\ ~export[e].approved /\ export[e].session = None
       THEN export' = [export EXCEPT ![e].session = s]
       ELSE UNCHANGED export
    /\ UNCHANGED <<accounts, challenge, ghosts>>

CancelSecretExport(q) ==
    LET e == req[q].export IN
    /\ req[q].pc = "cancel" /\ Done(q)
    /\ export' = IF Row(e) /\ export[e].user = Owner[req[q].by]
                 THEN [export EXCEPT ![e] = Gone] ELSE export
    /\ UNCHANGED <<accounts, challenge, ghosts>>

-----------------------------------------------------------------------------
(* Confirmation *)

validateSecretExport(e, s) ==
    GetSecretExport(e, Owner[s]) /\ export[e].session = s /\ ~export[e].approved

\* SecurityReauthPost and SecurityReauthOIDCGet: the form may name no export.
SecurityReauth(q, s, e) ==
    /\ req[q].pc = "none" /\ s \in live \cap Session
    /\ e # None => Owner[s] \in admin /\ validateSecretExport(e, s)
    /\ req' = [req EXCEPT ![q] = [pc |-> "password", by |-> s, export |-> e]]
    /\ UNCHANGED <<accounts, export, challenge, ghosts>>

\* The password, or the provider, confirms, and there is no second factor.
Confirmed(q) ==
    /\ req[q].pc = "password"
    /\ req' = [req EXCEPT ![q] = [pc |-> "approve", by |-> @.by, export |-> @.export, for |-> @.export]]
    /\ UNCHANGED <<accounts, export, challenge, ghosts>>

\* There is one: Issue, then bindSecretExportMFA with the token of the challenge.
Issue(q, c) ==
    /\ req[q].pc = "password" /\ challenge[c] = "none"
    /\ challenge' = [challenge EXCEPT ![c] = req[q].by]
    /\ asked' = [asked EXCEPT ![c] = req[q].export]
    /\ req' = [req EXCEPT ![q] = [pc |-> "bind", by |-> @.by, export |-> @.export, challenge |-> c]]
    /\ UNCHANGED <<accounts, export, proof, downloads>>

\* SetSecretExportAuth; without the page nobody knows the challenge.
bindSecretExportMFA(q) ==
    LET e == req[q].export  c == req[q].challenge IN
    /\ req[q].pc = "bind" /\ Done(q)
    /\ \/ e = None /\ UNCHANGED <<export, challenge>>
       \/ /\ e # None /\ validateSecretExport(e, req[q].by)
          /\ export' = [export EXCEPT ![e].auth = c] /\ UNCHANGED challenge
       \/ /\ e # None /\ ~validateSecretExport(e, req[q].by)
          /\ challenge' = [challenge EXCEPT ![c] = "gone"] /\ UNCHANGED export
    /\ UNCHANGED <<accounts, ghosts>>

\* SecretExportForAuth
secretExportForMFA(s, c) ==
    {e \in Export : validateSecretExport(e, s) /\ export[e].auth = c}

\* A factor is presented for a challenge of the session.
SecurityReauthFactor(q, s, c) ==
    /\ req[q].pc = "none" /\ s \in live /\ challenge[c] = s
    /\ \E e \in (IF secretExportForMFA(s, c) = {} THEN {None} ELSE secretExportForMFA(s, c)) :
          req' = [req EXCEPT ![q] = [pc |-> "factor", by |-> s, export |-> e, challenge |-> c]]
    /\ UNCHANGED <<accounts, export, challenge, ghosts>>

\* completeSecurityReauthentication: the challenge is consumed with the factor.
completeSecurityReauthentication(q) ==
    LET c == req[q].challenge IN
    /\ req[q].pc = "factor"
    /\ IF challenge[c] = req[q].by
       THEN /\ challenge' = [challenge EXCEPT ![c] = "gone"]
            /\ req' = [req EXCEPT ![q] = [pc |-> "approve", by |-> @.by, export |-> @.export, for |-> asked[c]]]
       ELSE Done(q) /\ UNCHANGED challenge
    /\ UNCHANGED <<accounts, export, ghosts>>

\* The password or factor is wrong, or the page is left.
Fail(q) ==
    /\ req[q].pc \in Reauth /\ Done(q)
    /\ UNCHANGED <<accounts, export, challenge, ghosts>>

\* The EXISTS of ApproveSecretExport and ConsumeSecretExport.
SessionOfAdmin(e) == export[e].session \in live /\ export[e].user \in admin

\* approveSecretExport: one update that repeats every condition.
approveSecretExport(q) ==
    LET e == req[q].export IN
    /\ req[q].pc = "approve" /\ Done(q)
    /\ IF e # None /\ validateSecretExport(e, req[q].by) /\ SessionOfAdmin(e)
       THEN /\ export' = [export EXCEPT ![e].approved = TRUE]
            /\ proof' = [proof EXCEPT ![e] = [for |-> req[q].for, by |-> req[q].by]]
       ELSE UNCHANGED <<export, proof>>
    /\ UNCHANGED <<accounts, challenge, asked, downloads>>

-----------------------------------------------------------------------------
(* Download *)

\* secretExportCredentialMatches; the claim is sent with the token.
secretExportCredentialMatches(e, s, claim) ==
    IF s \in Token THEN export[e].token = s /\ claim = e
    ELSE export[e].token = None /\ export[e].session = s

\* consumeSecretExport reads the row and checks the credential ...
TakeSecretExport(q, claim) ==
    LET e == req[q].export IN
    /\ req[q].pc = "download"
    /\ IF /\ GetSecretExport(e, Owner[req[q].by]) /\ export[e].approved
          /\ secretExportCredentialMatches(e, req[q].by, claim)
       THEN req' = [req EXCEPT ![q].pc = "take"]
       ELSE Done(q)
    /\ UNCHANGED <<accounts, export, challenge, ghosts>>

\* ... and ConsumeSecretExport deletes it, with every condition again.
ConsumeSecretExport(e, u) == GetSecretExport(e, u) /\ export[e].approved /\ SessionOfAdmin(e)

MutantDownload(q) ==
    LET e == req[q].export IN
    /\ req[q].pc = "take" /\ Done(q)
    /\ downloads' = IF ConsumeSecretExport(e, Owner[req[q].by])
                    THEN [downloads EXCEPT ![e] = @ + 1] ELSE downloads
    /\ UNCHANGED <<accounts, export, challenge, asked, proof>>

\* The document is read in the transaction that deletes the row.
download(q) ==
    LET e == req[q].export IN
    /\ req[q].pc = "take" /\ Done(q)
    /\ IF ConsumeSecretExport(e, Owner[req[q].by])
       THEN /\ export' = [export EXCEPT ![e] = Gone]
            /\ downloads' = [downloads EXCEPT ![e] = @ + 1]
       ELSE UNCHANGED <<export, downloads>>
    /\ UNCHANGED <<accounts, challenge, asked, proof>>

-----------------------------------------------------------------------------
Init ==
    /\ admin = User /\ live = Session \cup Token /\ now = 0
    /\ export = [e \in Export |-> NoRow]
    /\ challenge = [c \in Challenge |-> "none"]
    /\ req = [q \in Request |-> NoReq]
    /\ asked = [c \in Challenge |-> None]
    /\ proof = [e \in Export |-> [for |-> None, by |-> None]]
    /\ downloads = [e \in Export |-> 0]

Next ==
    \/ Tick
    \/ \E s \in Session \cup Token : End(s)
    \/ \E u \in User : SetRole(u)
    \/ \E q \in Request :
        \/ \E s \in Session \cup Token, op \in Pages, e \in Export \cup {None} : Arrive(q, s, op, e)
        \/ \E e \in Export : NewSecretExport(q, e) \/ TakeSecretExport(q, e)
        \/ Authorize(q) \/ CancelSecretExport(q)
        \/ \E s \in Session : \/ \E e \in Export \cup {None} : SecurityReauth(q, s, e)
                              \/ \E c \in Challenge : SecurityReauthFactor(q, s, c)
        \/ \E c \in Challenge : Issue(q, c)
        \/ Confirmed(q) \/ bindSecretExportMFA(q) \/ completeSecurityReauthentication(q)
        \/ Fail(q) \/ approveSecretExport(q) \/ download(q)

Spec == Init /\ [][Next]_vars

-----------------------------------------------------------------------------
(* Properties *)

Answers(q) == req[q].pc = "take" /\ req'[q] = NoReq
Delivered(e) == downloads'[e] = downloads[e] + 1

\* An export permits one download, however many requests found it approved
\* ("permit one download", docs/security.md; ConsumeSecretExport).
OneDownload == \A e \in Export : downloads[e] <= 1

\* At the moment of the download the session that approved it is still
\* there, its user is an administrator and the five minutes are not over;
\* and it goes to the session or token that asked for it ("Logout, session
\* expiry, cancellation, consumption, or loss of administrator permission
\* invalidates the approval", docs/security.md).
DeliveredWhileApproved ==
    [][\A e \in Export, q \in Request : Delivered(e) /\ Answers(q) /\ req[q].export = e =>
          /\ export[e].session \in live /\ Owner[export[e].session] \in admin
          /\ export[e].expires > now
          /\ req[q].by \in {export[e].token, export[e].session}
          /\ export[e].token # None => req[q].by = export[e].token]_vars

\* What approved an export was a confirmation started for it by its session,
\* not one for another export or for another purpose ("A recent login or
\* unrelated security confirmation does not approve an export").
ApprovedAfresh ==
    \A e \in Export : Row(e) /\ export[e].approved =>
        proof[e].for = e /\ proof[e].by = export[e].session

\* Only an export bound to a session of its user is approved or waits for a
\* factor.
TypeOK ==
    /\ \A e \in Export : Row(e) =>
          /\ export[e].session \in Session \cup {None} /\ export[e].token \in Token \cup {None}
          /\ export[e].approved \/ export[e].auth # None => export[e].session # None
          /\ export[e].session # None => Owner[export[e].session] = export[e].user
    /\ \A q \in Request : req[q].pc \in Pages \cup Reauth \cup {"none", "bind", "approve", "take"}

\* The whole of it, as the identity run and the theorem of SecretExportProofs
\* state it.
ExportConfirmed == [](TypeOK /\ OneDownload /\ ApprovedAfresh) /\ DeliveredWhileApproved
=============================================================================
