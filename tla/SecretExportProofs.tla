------------------------- MODULE SecretExportProofs -------------------------
(***************************************************************************)
(* Secret exports, for any sets of users, sessions, tokens, exports,       *)
(* requests and challenges: an export is approved by a confirmation that   *)
(* its own session started for it, and handed out once, while the approval *)
(* holds.                                                                  *)
(*                                                                         *)
(* ExportConfirmed says nothing of the requests under way, which is where  *)
(* it could break.  Inv adds what they carry: a challenge belongs to the   *)
(* export it was issued for from the moment it exists, so a request that   *)
(* presents its factor confirms that export or none; and a request that    *)
(* found an export approved for its credential still does when it deletes  *)
(* the row, or the row is gone.                                            *)
(***************************************************************************)
EXTENDS SecretExport, TLAPS

Holder == Session \cup Token
SomeExport == Export \cup {None}

\* What a request carries, by where it stands.
Requests ==
    {NoReq}
    \cup [pc : {"start"}, by : Holder, export : {None}]
    \cup [pc : {"authorize", "cancel"}, by : Session, export : Export]
    \cup [pc : {"download", "take"}, by : Holder, export : Export]
    \cup [pc : {"password"}, by : Session, export : SomeExport]
    \cup [pc : {"bind", "factor"}, by : Session, export : SomeExport, challenge : Challenge]
    \cup [pc : {"approve"}, by : Session, export : SomeExport, for : SomeExport]

Rows ==
    [state : {"row"}, user : User, expires : Nat, session : Session \cup {None},
     token : Token \cup {None}, auth : Challenge \cup {None}, approved : BOOLEAN]

Typed ==
    /\ admin \subseteq User /\ live \subseteq Holder /\ now \in Nat
    /\ export \in [Export -> {NoRow, Gone} \cup Rows]
    /\ challenge \in [Challenge -> {"none", "gone"} \cup Session]
    /\ req \in [Request -> Requests]
    /\ asked \in [Challenge -> SomeExport]
    /\ proof \in [Export -> [for : SomeExport, by : Session \cup {None}]]
    /\ downloads \in [Export -> Nat]

\* A row that is approved, or waits for a factor, has a session of its user.
Bound ==
    \A e \in Export : Row(e) =>
        /\ export[e].approved \/ export[e].auth # None => export[e].session # None
        /\ export[e].session # None => Owner[export[e].session] = export[e].user

\* A challenge is for one export, in the row and in the requests that hold it.
RowAsked ==
    \A e \in Export : Row(e) /\ export[e].auth # None =>
        challenge[export[e].auth] # "none" /\ asked[export[e].auth] = e
RequestAsked ==
    \A q \in Request :
        /\ req[q].pc = "bind" =>
              challenge[req[q].challenge] # "none" /\ asked[req[q].challenge] = req[q].export
        /\ req[q].pc = "factor" =>
              /\ challenge[req[q].challenge] # "none"
              /\ req[q].export # None => asked[req[q].challenge] = req[q].export
        /\ req[q].pc = "approve" /\ req[q].export # None => req[q].for = req[q].export

\* A document was handed out only if the row is gone.
GoneOnce == \A e \in Export : downloads[e] <= 1 /\ (export[e] # Gone => downloads[e] = 0)

\* The row a request is about to take is gone, or as the request found it.
Taken ==
    \A q \in Request : req[q].pc = "take" =>
        LET e == req[q].export IN
        /\ export[e] # NoRow
        /\ Row(e) => /\ export[e].approved
                     /\ req[q].by \in {export[e].token, export[e].session}
                     /\ export[e].token # None => req[q].by = export[e].token

Inv == Typed /\ Bound /\ RowAsked /\ RequestAsked /\ ApprovedAfresh /\ GoneOnce /\ Taken

-----------------------------------------------------------------------------
\* What the states of rows and requests are, for the steps that split on them.
LEMMA RowCases ==
    ASSUME Typed, NEW e \in Export
    PROVE  /\ Row(e) => export[e] \in Rows
           /\ ~Row(e) => export[e] \in {NoRow, Gone}
           /\ export[e] = NoRow \/ export[e] = Gone => ~Row(e)
BY DEF Typed, Row, NoRow, Gone, Rows

LEMMA RequestCases ==
    ASSUME Typed, NEW q \in Request
    PROVE  /\ req[q].pc = "start" => req[q] \in [pc : {"start"}, by : Holder, export : {None}]
           /\ req[q].pc \in {"authorize", "cancel"} =>
                 req[q] \in [pc : {"authorize", "cancel"}, by : Session, export : Export]
           /\ req[q].pc \in {"download", "take"} =>
                 req[q] \in [pc : {"download", "take"}, by : Holder, export : Export]
           /\ req[q].pc = "password" =>
                 req[q] \in [pc : {"password"}, by : Session, export : SomeExport]
           /\ req[q].pc \in {"bind", "factor"} =>
                 req[q] \in [pc : {"bind", "factor"}, by : Session, export : SomeExport,
                             challenge : Challenge]
           /\ req[q].pc = "approve" =>
                 req[q] \in [pc : {"approve"}, by : Session, export : SomeExport, for : SomeExport]
BY DEF Typed, Requests, NoReq

\* What the updates of a row leave alone.
RowKept(e) == \A x \in Export : x # e => export'[x] = export[x]

LEMMA SetSession ==
    ASSUME Typed, NEW e \in Export, Row(e), NEW s, export' = [export EXCEPT ![e].session = s]
    PROVE  /\ RowKept(e) /\ Row(e)' /\ export'[e].session = s
           /\ export'[e].user = export[e].user /\ export'[e].token = export[e].token
           /\ export'[e].auth = export[e].auth /\ export'[e].approved = export[e].approved
BY RowCases DEF Typed, Row, Rows, RowKept

LEMMA SetAuth ==
    ASSUME Typed, NEW e \in Export, Row(e), NEW c, export' = [export EXCEPT ![e].auth = c]
    PROVE  /\ RowKept(e) /\ Row(e)' /\ export'[e].auth = c
           /\ export'[e].user = export[e].user /\ export'[e].token = export[e].token
           /\ export'[e].session = export[e].session
           /\ export'[e].approved = export[e].approved
BY RowCases DEF Typed, Row, Rows, RowKept

LEMMA SetApproved ==
    ASSUME Typed, NEW e \in Export, Row(e), export' = [export EXCEPT ![e].approved = TRUE]
    PROVE  /\ RowKept(e) /\ Row(e)' /\ export'[e].approved
           /\ export'[e].user = export[e].user /\ export'[e].token = export[e].token
           /\ export'[e].session = export[e].session /\ export'[e].auth = export[e].auth
           /\ export'[e] \in Rows
BY RowCases DEF Typed, Row, Rows, RowKept

LEMMA DeleteRow ==
    ASSUME Typed, NEW e \in Export, export' = [export EXCEPT ![e] = Gone]
    PROVE  RowKept(e) /\ export'[e] = Gone /\ ~Row(e)'
BY DEF Typed, Row, RowKept, Gone

LEMMA NewRow ==
    ASSUME Typed, NEW q \in Request, NEW e \in Export, NewSecretExport(q, e)
    PROVE  /\ export[e] = NoRow /\ Row(e)' /\ ~export'[e].approved /\ export'[e].auth = None
           /\ export'[e].session # None => Owner[export'[e].session] = export'[e].user
           /\ \A x \in Export : x # e => export'[x] = export[x] \/ export'[x] = Gone
BY RequestCases DEF NewSecretExport, Row

LEMMA TypedInit == ASSUME ExportAssumption, Init PROVE Typed
BY DEF Init, Typed, Holder, SomeExport, Requests, NoReq, NoRow

LEMMA TypedStep == ASSUME ExportAssumption, Typed, Next PROVE Typed'
<1>. USE DEF Typed, Holder, SomeExport, ghosts, accounts
<1>1. ASSUME Tick PROVE Typed'
  BY <1>1, RequestCases, RowCases DEF Tick, Requests, NoReq, Rows, NoRow, Gone, ExportAssumption
<1>2. ASSUME NEW s \in Holder, End(s) PROVE Typed'
  BY <1>2, RequestCases, RowCases DEF End, Requests, NoReq, Rows, NoRow, Gone, ExportAssumption
<1>3. ASSUME NEW u \in User, SetRole(u) PROVE Typed'
  BY <1>3, RequestCases, RowCases DEF SetRole, Requests, NoReq, Rows, NoRow, Gone, ExportAssumption
<1>4. ASSUME NEW q \in Request, NEW s \in Holder, NEW op \in Pages, NEW e \in SomeExport, Arrive(q, s, op, e) PROVE Typed'
  BY <1>4, RequestCases, RowCases DEF Arrive, Pages, Requests, NoReq, Rows, NoRow, Gone, ExportAssumption
<1>5. ASSUME NEW q \in Request, NEW e \in Export, NewSecretExport(q, e) PROVE Typed'
  BY <1>5, RequestCases, RowCases DEF NewSecretExport, Done, Requests, NoReq, Rows, NoRow, Gone, ExportAssumption
<1>6. ASSUME NEW q \in Request, NEW e \in Export, TakeSecretExport(q, e) PROVE Typed'
  BY <1>6, RequestCases, RowCases DEF TakeSecretExport, Done, Requests, NoReq, Rows, NoRow, Gone, ExportAssumption
<1>7. ASSUME NEW q \in Request, Authorize(q) PROVE Typed'
  BY <1>7, RequestCases, RowCases DEF Authorize, Done, Requests, NoReq, Rows, NoRow, Gone, ExportAssumption
<1>8. ASSUME NEW q \in Request, CancelSecretExport(q) PROVE Typed'
  BY <1>8, RequestCases, RowCases DEF CancelSecretExport, Done, Requests, NoReq, Rows, NoRow, Gone, ExportAssumption
<1>9. ASSUME NEW q \in Request, NEW s \in Session, NEW e \in SomeExport, SecurityReauth(q, s, e) PROVE Typed'
  BY <1>9, RequestCases, RowCases DEF SecurityReauth, Requests, NoReq, Rows, NoRow, Gone, ExportAssumption
<1>10. ASSUME NEW q \in Request, NEW s \in Session, NEW c \in Challenge, SecurityReauthFactor(q, s, c) PROVE Typed'
  BY <1>10, RequestCases, RowCases DEF SecurityReauthFactor, secretExportForMFA, Requests, NoReq, Rows, NoRow, Gone, ExportAssumption
<1>11. ASSUME NEW q \in Request, NEW c \in Challenge, Issue(q, c) PROVE Typed'
  BY <1>11, RequestCases, RowCases DEF Issue, Requests, NoReq, Rows, NoRow, Gone, ExportAssumption
<1>12. ASSUME NEW q \in Request, Confirmed(q) PROVE Typed'
  BY <1>12, RequestCases, RowCases DEF Confirmed, Requests, NoReq, Rows, NoRow, Gone, ExportAssumption
<1>13. ASSUME NEW q \in Request, bindSecretExportMFA(q) PROVE Typed'
  BY <1>13, RequestCases, RowCases DEF bindSecretExportMFA, Done, Requests, NoReq, Rows, NoRow, Gone, ExportAssumption
<1>14. ASSUME NEW q \in Request, completeSecurityReauthentication(q) PROVE Typed'
  BY <1>14, RequestCases, RowCases DEF completeSecurityReauthentication, Done, Requests, NoReq, Rows, NoRow, Gone, ExportAssumption
<1>15. ASSUME NEW q \in Request, Fail(q) PROVE Typed'
  BY <1>15, RequestCases, RowCases DEF Fail, Done, Requests, NoReq, Rows, NoRow, Gone, ExportAssumption
<1>16. ASSUME NEW q \in Request, approveSecretExport(q) PROVE Typed'
  <2>1. admin' \subseteq User /\ live' \subseteq Holder /\ now' \in Nat
    BY <1>16 DEF approveSecretExport
  <2>2. export' \in [Export -> {NoRow, Gone} \cup Rows]
    BY <1>16, RequestCases, SetApproved
       DEF approveSecretExport, validateSecretExport, GetSecretExport, RowKept
  <2>3. req' \in [Request -> Requests] /\ UNCHANGED <<challenge, asked, downloads>>
    BY <1>16 DEF approveSecretExport, Done, Requests, NoReq
  <2>4. proof' \in [Export -> [for : SomeExport, by : Session \cup {None}]]
    BY <1>16, RequestCases DEF approveSecretExport
  <2>. QED
    BY <2>1, <2>2, <2>3, <2>4
<1>17. ASSUME NEW q \in Request, download(q) PROVE Typed'
  BY <1>17, RequestCases, RowCases DEF download, Done, Requests, NoReq, Rows, NoRow, Gone, ExportAssumption
<1>. QED
  BY <1>1, <1>2, <1>3, <1>4, <1>5, <1>6, <1>7, <1>8, <1>9, <1>10, <1>11, <1>12, <1>13, <1>14, <1>15, <1>16, <1>17 DEF Next

LEMMA Step == ASSUME ExportAssumption, Inv, Next PROVE Inv'
<1>. USE DEF Inv, ghosts, accounts
<1>0. Typed'
  BY TypedStep
<1>1. ASSUME Tick PROVE Inv'
  BY <1>1, <1>0, RequestCases, RowCases DEF Tick, Bound, RowAsked, RequestAsked, ApprovedAfresh,
     GoneOnce, Taken, Row, Typed, Holder, SomeExport, ExportAssumption
<1>2. ASSUME NEW s \in Holder, End(s) PROVE Inv'
  BY <1>2, <1>0, RequestCases, RowCases DEF End, Bound, RowAsked, RequestAsked, ApprovedAfresh,
     GoneOnce, Taken, Row, Typed, Holder, SomeExport, ExportAssumption
<1>3. ASSUME NEW u \in User, SetRole(u) PROVE Inv'
  BY <1>3, <1>0, RequestCases, RowCases DEF SetRole, Bound, RowAsked, RequestAsked, ApprovedAfresh,
     GoneOnce, Taken, Row, Typed, Holder, SomeExport, ExportAssumption
<1>4. ASSUME NEW q \in Request, NEW s \in Holder, NEW op \in Pages, NEW e \in SomeExport,
             Arrive(q, s, op, e)
      PROVE  Inv'
  <2>1. Bound'
    BY <1>4, <1>0 DEF Arrive, Pages, Row, Typed, Holder, SomeExport, Bound
  <2>2. RowAsked'
    BY <1>4, <1>0 DEF Arrive, Pages, Row, Typed, Holder, SomeExport, RowAsked
  <2>3. RequestAsked'
    BY <1>4, <1>0 DEF Arrive, Pages, Row, Typed, Holder, SomeExport, RequestAsked
  <2>4. ApprovedAfresh'
    BY <1>4, <1>0 DEF Arrive, Pages, Row, Typed, Holder, SomeExport, ApprovedAfresh
  <2>5. GoneOnce'
    BY <1>4, <1>0 DEF Arrive, Pages, Row, Typed, Holder, SomeExport, GoneOnce
  <2>6. Taken'
    BY <1>4, <1>0 DEF Arrive, Pages, Row, Typed, Holder, SomeExport, Taken
  <2>. QED
    BY <1>0, <2>1, <2>2, <2>3, <2>4, <2>5, <2>6
<1>5. ASSUME NEW q \in Request, NEW e \in Export, NewSecretExport(q, e) PROVE Inv'
  <2>. USE NewRow, <1>5
  <2>0. /\ UNCHANGED <<challenge, asked, proof, downloads>>
        /\ \A r \in Request : (r = q /\ req'[r] = NoReq) \/ req'[r] = req[r]
    BY DEF NewSecretExport, Done, Typed
  <2>1. Bound'
    BY <1>0, <2>0, RowCases, RequestCases DEF NoReq, NoRow, Gone, Row, Typed, Bound
  <2>2. RowAsked'
    BY <1>0, <2>0, RowCases, RequestCases DEF NoReq, NoRow, Gone, Row, Typed, RowAsked
  <2>3. RequestAsked'
    BY <1>0, <2>0, RowCases, RequestCases DEF NoReq, NoRow, Gone, Row, Typed, RequestAsked
  <2>4. ApprovedAfresh'
    BY <1>0, <2>0, RowCases, RequestCases DEF NoReq, NoRow, Gone, Row, Typed, ApprovedAfresh
  <2>5. GoneOnce'
    BY <1>0, <2>0, RowCases, RequestCases DEF NoReq, NoRow, Gone, Row, Typed, GoneOnce
  <2>6. Taken'
    BY <1>0, <2>0, RowCases, RequestCases DEF NoReq, NoRow, Gone, Row, Typed, Taken
  <2>. QED
    BY <1>0, <2>1, <2>2, <2>3, <2>4, <2>5, <2>6
<1>6. ASSUME NEW q \in Request, NEW e \in Export, TakeSecretExport(q, e) PROVE Inv'
  <2>1. Bound'
    BY <1>6, <1>0, RequestCases, RowCases DEF TakeSecretExport, GetSecretExport, secretExportCredentialMatches, Done, NoReq, Row, Typed, Holder, SomeExport, Bound
  <2>2. RowAsked'
    BY <1>6, <1>0, RequestCases, RowCases DEF TakeSecretExport, GetSecretExport, secretExportCredentialMatches, Done, NoReq, Row, Typed, Holder, SomeExport, RowAsked
  <2>3. RequestAsked'
    BY <1>6, <1>0, RequestCases, RowCases DEF TakeSecretExport, GetSecretExport, secretExportCredentialMatches, Done, NoReq, Row, Typed, Holder, SomeExport, RequestAsked
  <2>4. ApprovedAfresh'
    BY <1>6, <1>0, RequestCases, RowCases DEF TakeSecretExport, GetSecretExport, secretExportCredentialMatches, Done, NoReq, Row, Typed, Holder, SomeExport, ApprovedAfresh
  <2>5. GoneOnce'
    BY <1>6, <1>0, RequestCases, RowCases DEF TakeSecretExport, GetSecretExport, secretExportCredentialMatches, Done, NoReq, Row, Typed, Holder, SomeExport, GoneOnce
  <2>6. Taken'
    BY <1>6, <1>0, RequestCases, RowCases DEF TakeSecretExport, GetSecretExport, secretExportCredentialMatches, Done, NoReq, Row, Typed, Holder, SomeExport, Taken
  <2>. QED
    BY <1>0, <2>1, <2>2, <2>3, <2>4, <2>5, <2>6
<1>7. ASSUME NEW q \in Request, Authorize(q) PROVE Inv'
  <2>. DEFINE e == req[q].export
  <2>0. \A r \in Request : (r = q /\ req'[r] = NoReq) \/ req'[r] = req[r]
    BY <1>7 DEF Authorize, Done, Typed
  <2>00. UNCHANGED <<challenge, asked, proof, downloads>>
    BY <1>7 DEF Authorize
  <2>a. CASE UNCHANGED export
    BY <2>a, <2>0, <2>00, <1>0, RequestCases
       DEF Bound, RowAsked, RequestAsked, ApprovedAfresh, GoneOnce, Taken, Row, NoReq
  <2>b. CASE export' # export
    <3>0. /\ e \in Export /\ Row(e) /\ ~export[e].approved
          /\ Owner[req[q].by] = export[e].user
          /\ export' = [export EXCEPT ![e].session = req[q].by]
      BY <1>7, <2>b, RequestCases DEF Authorize, GetSecretExport
    <3>00. req[q].by # None
      BY <1>7, RequestCases DEF Authorize, ExportAssumption
    <3>. USE <3>0, SetSession
    <3>1. Bound'
      BY <3>00 DEF RowKept, Row, Bound
    <3>2. RowAsked'
      BY <1>0, <2>0, <2>00 DEF RowKept, Row, NoReq, NoRow, Gone, RowAsked
    <3>3. RequestAsked'
      BY <1>0, <2>0, <2>00 DEF RowKept, Row, NoReq, NoRow, Gone, RequestAsked
    <3>4. ApprovedAfresh'
      BY <1>0, <2>0, <2>00 DEF RowKept, Row, NoReq, NoRow, Gone, ApprovedAfresh
    <3>5. GoneOnce'
      BY <1>0, <2>0, <2>00 DEF RowKept, Row, NoReq, NoRow, Gone, GoneOnce
    <3>6. Taken'
      BY <1>0, <2>0, <2>00 DEF RowKept, Row, NoReq, NoRow, Gone, Taken
    <3>. QED
      BY <1>0, <3>1, <3>2, <3>3, <3>4, <3>5, <3>6
  <2>. QED
    BY <2>a, <2>b
<1>8. ASSUME NEW q \in Request, CancelSecretExport(q) PROVE Inv'
  <2>. DEFINE e == req[q].export
  <2>0. \A r \in Request : (r = q /\ req'[r] = NoReq) \/ req'[r] = req[r]
    BY <1>8 DEF CancelSecretExport, Done, Typed
  <2>00. UNCHANGED <<challenge, asked, proof, downloads>>
    BY <1>8 DEF CancelSecretExport
  <2>a. CASE UNCHANGED export
    BY <2>a, <2>0, <2>00, <1>0, RequestCases
       DEF Bound, RowAsked, RequestAsked, ApprovedAfresh, GoneOnce, Taken, Row, NoReq
  <2>b. CASE export' # export
    <3>0. e \in Export /\ Row(e) /\ export' = [export EXCEPT ![e] = Gone]
      BY <1>8, <2>b, RequestCases DEF CancelSecretExport
    <3>. USE <3>0, DeleteRow
    <3>1. Bound'
      BY <1>0, <2>0, <2>00 DEF RowKept, Row, NoReq, NoRow, Gone, Bound
    <3>2. RowAsked'
      BY <1>0, <2>0, <2>00 DEF RowKept, Row, NoReq, NoRow, Gone, RowAsked
    <3>3. RequestAsked'
      BY <1>0, <2>0, <2>00 DEF RowKept, Row, NoReq, NoRow, Gone, RequestAsked
    <3>4. ApprovedAfresh'
      BY <1>0, <2>0, <2>00 DEF RowKept, Row, NoReq, NoRow, Gone, ApprovedAfresh
    <3>5. GoneOnce'
      BY <1>0, <2>0, <2>00 DEF RowKept, Row, NoReq, NoRow, Gone, GoneOnce
    <3>6. Taken'
      BY <1>0, <2>0, <2>00 DEF RowKept, Row, NoReq, NoRow, Gone, Taken
    <3>. QED
      BY <1>0, <3>1, <3>2, <3>3, <3>4, <3>5, <3>6
  <2>. QED
    BY <2>a, <2>b
<1>9. ASSUME NEW q \in Request, NEW s \in Session, NEW e \in SomeExport, SecurityReauth(q, s, e)
      PROVE  Inv'
  <2>1. Bound'
    BY <1>9, <1>0 DEF SecurityReauth, Row, Typed, Holder, SomeExport, Bound
  <2>2. RowAsked'
    BY <1>9, <1>0 DEF SecurityReauth, Row, Typed, Holder, SomeExport, RowAsked
  <2>3. RequestAsked'
    BY <1>9, <1>0 DEF SecurityReauth, Row, Typed, Holder, SomeExport, RequestAsked
  <2>4. ApprovedAfresh'
    BY <1>9, <1>0 DEF SecurityReauth, Row, Typed, Holder, SomeExport, ApprovedAfresh
  <2>5. GoneOnce'
    BY <1>9, <1>0 DEF SecurityReauth, Row, Typed, Holder, SomeExport, GoneOnce
  <2>6. Taken'
    BY <1>9, <1>0 DEF SecurityReauth, Row, Typed, Holder, SomeExport, Taken
  <2>. QED
    BY <1>0, <2>1, <2>2, <2>3, <2>4, <2>5, <2>6
<1>10. ASSUME NEW q \in Request, NEW s \in Session, NEW c \in Challenge, SecurityReauthFactor(q, s, c)
       PROVE  Inv'
  <2>0. PICK e \in SomeExport :
          /\ e # None => Row(e) /\ export[e].auth = c
          /\ req' = [req EXCEPT ![q] = [pc |-> "factor", by |-> s, export |-> e, challenge |-> c]]
    BY <1>10 DEF SecurityReauthFactor, secretExportForMFA, validateSecretExport,
                 GetSecretExport, SomeExport
  <2>00. UNCHANGED <<export, challenge, asked, proof, downloads>> /\ challenge[c] = s
    BY <1>10 DEF SecurityReauthFactor
  <2>000. challenge[c] # "none" /\ (e # None => asked[c] = e)
    BY <2>0, <2>00 DEF ExportAssumption, SomeExport, RowAsked
  <2>1. Bound'
    BY <2>0, <2>00, <1>0 DEF ExportAssumption, Row, Typed, Holder, SomeExport, Bound
  <2>2. RowAsked'
    BY <2>0, <2>00, <1>0 DEF ExportAssumption, Row, Typed, Holder, SomeExport, RowAsked
  <2>3. RequestAsked'
    BY <2>0, <2>00, <2>000 DEF SomeExport, Typed, RequestAsked
  <2>4. ApprovedAfresh'
    BY <2>0, <2>00, <1>0 DEF ExportAssumption, Row, Typed, Holder, SomeExport, ApprovedAfresh
  <2>5. GoneOnce'
    BY <2>0, <2>00, <1>0 DEF ExportAssumption, Row, Typed, Holder, SomeExport, GoneOnce
  <2>6. Taken'
    BY <2>0, <2>00, <1>0 DEF ExportAssumption, Row, Typed, Holder, SomeExport, Taken
  <2>. QED
    BY <1>0, <2>1, <2>2, <2>3, <2>4, <2>5, <2>6
<1>11. ASSUME NEW q \in Request, NEW c \in Challenge, Issue(q, c) PROVE Inv'
  <2>1. Bound'
    BY <1>11, <1>0, RequestCases, RowCases DEF Issue, Rows, ExportAssumption, Row, Typed, Holder, SomeExport, Bound
  <2>2. RowAsked'
    BY <1>11, <1>0, RequestCases, RowCases DEF Issue, Rows, ExportAssumption, Row, Typed, Holder, SomeExport, RowAsked
  <2>3. RequestAsked'
    BY <1>11, <1>0, RequestCases, RowCases DEF Issue, Rows, ExportAssumption, Row, Typed, Holder, SomeExport, RequestAsked
  <2>4. ApprovedAfresh'
    BY <1>11, <1>0, RequestCases, RowCases DEF Issue, Rows, ExportAssumption, Row, Typed, Holder, SomeExport, ApprovedAfresh
  <2>5. GoneOnce'
    BY <1>11, <1>0, RequestCases, RowCases DEF Issue, Rows, ExportAssumption, Row, Typed, Holder, SomeExport, GoneOnce
  <2>6. Taken'
    BY <1>11, <1>0, RequestCases, RowCases DEF Issue, Rows, ExportAssumption, Row, Typed, Holder, SomeExport, Taken
  <2>. QED
    BY <1>0, <2>1, <2>2, <2>3, <2>4, <2>5, <2>6
<1>12. ASSUME NEW q \in Request, Confirmed(q) PROVE Inv'
  <2>1. Bound'
    BY <1>12, <1>0, RequestCases DEF Confirmed, Row, Typed, Holder, SomeExport, Bound
  <2>2. RowAsked'
    BY <1>12, <1>0, RequestCases DEF Confirmed, Row, Typed, Holder, SomeExport, RowAsked
  <2>3. RequestAsked'
    BY <1>12, <1>0, RequestCases DEF Confirmed, Row, Typed, Holder, SomeExport, RequestAsked
  <2>4. ApprovedAfresh'
    BY <1>12, <1>0, RequestCases DEF Confirmed, Row, Typed, Holder, SomeExport, ApprovedAfresh
  <2>5. GoneOnce'
    BY <1>12, <1>0, RequestCases DEF Confirmed, Row, Typed, Holder, SomeExport, GoneOnce
  <2>6. Taken'
    BY <1>12, <1>0, RequestCases DEF Confirmed, Row, Typed, Holder, SomeExport, Taken
  <2>. QED
    BY <1>0, <2>1, <2>2, <2>3, <2>4, <2>5, <2>6
<1>13. ASSUME NEW q \in Request, bindSecretExportMFA(q) PROVE Inv'
  <2>. DEFINE e == req[q].export
  <2>0. \A r \in Request : (r = q /\ req'[r] = NoReq) \/ req'[r] = req[r]
    BY <1>13 DEF bindSecretExportMFA, Done, Typed
  <2>. DEFINE c == req[q].challenge
  <2>00. UNCHANGED <<asked, proof, downloads>> /\ c \in Challenge /\ req[q].pc = "bind"
    BY <1>13, RequestCases DEF bindSecretExportMFA
  <2>01. /\ challenge' = challenge \/ challenge' = [challenge EXCEPT ![c] = "gone"]
         /\ \A k \in Challenge : challenge[k] # "none" => challenge'[k] # "none"
    BY <1>13, <2>00 DEF bindSecretExportMFA, Typed
  <2>a. CASE UNCHANGED export
    BY <2>a, <2>0, <2>00, <2>01, <1>0, RequestCases, RowCases
       DEF Bound, RowAsked, RequestAsked, ApprovedAfresh, GoneOnce, Taken, Row, Rows, NoReq,
           ExportAssumption
  <2>b. CASE export' # export
    <3>0. /\ e \in Export /\ Row(e) /\ ~export[e].approved /\ export[e].session = req[q].by
          /\ export' = [export EXCEPT ![e].auth = c] /\ challenge' = challenge
      BY <1>13, <2>b, RequestCases
         DEF bindSecretExportMFA, validateSecretExport, GetSecretExport, SomeExport
    <3>00. req[q].by # None /\ challenge[c] # "none" /\ asked[c] = e
      BY <2>00, RequestCases DEF ExportAssumption, RequestAsked
    <3>. USE <3>0, <3>00, SetAuth
    <3>1. Bound'
      BY <1>0, <2>0, <2>00 DEF RowKept, Row, NoReq, NoRow, Gone, Bound
    <3>2. RowAsked'
      BY <1>0, <2>0, <2>00 DEF RowKept, Row, NoReq, NoRow, Gone, RowAsked
    <3>3. RequestAsked'
      BY <1>0, <2>0, <2>00 DEF RowKept, Row, NoReq, NoRow, Gone, RequestAsked
    <3>4. ApprovedAfresh'
      BY <1>0, <2>0, <2>00 DEF RowKept, Row, NoReq, NoRow, Gone, ApprovedAfresh
    <3>5. GoneOnce'
      BY <1>0, <2>0, <2>00 DEF RowKept, Row, NoReq, NoRow, Gone, GoneOnce
    <3>6. Taken'
      BY <1>0, <2>0, <2>00 DEF RowKept, Row, NoReq, NoRow, Gone, Taken
    <3>. QED
      BY <1>0, <3>1, <3>2, <3>3, <3>4, <3>5, <3>6
  <2>. QED
    BY <2>a, <2>b
<1>14. ASSUME NEW q \in Request, completeSecurityReauthentication(q) PROVE Inv'
  <2>. DEFINE c == req[q].challenge
  <2>0. /\ UNCHANGED <<export, asked, proof, downloads>> /\ c \in Challenge /\ req[q].pc = "factor"
        /\ \A k \in Challenge : challenge[k] # "none" => challenge'[k] # "none"
    BY <1>14, RequestCases DEF completeSecurityReauthentication, Typed
  <2>1. Bound'
    BY <1>14, <1>0, <2>0, RequestCases, RowCases DEF completeSecurityReauthentication, Done, NoReq, Rows, ExportAssumption, Row, Typed, Holder, SomeExport, Bound
  <2>2. RowAsked'
    BY <1>14, <1>0, <2>0, RequestCases, RowCases DEF completeSecurityReauthentication, Done, NoReq, Rows, ExportAssumption, Row, Typed, Holder, SomeExport, RowAsked
  <2>3. RequestAsked'
    BY <1>14, <1>0, <2>0, RequestCases, RowCases DEF completeSecurityReauthentication, Done, NoReq, Rows, ExportAssumption, Row, Typed, Holder, SomeExport, RequestAsked
  <2>4. ApprovedAfresh'
    BY <1>14, <1>0, <2>0, RequestCases, RowCases DEF completeSecurityReauthentication, Done, NoReq, Rows, ExportAssumption, Row, Typed, Holder, SomeExport, ApprovedAfresh
  <2>5. GoneOnce'
    BY <1>14, <1>0, <2>0, RequestCases, RowCases DEF completeSecurityReauthentication, Done, NoReq, Rows, ExportAssumption, Row, Typed, Holder, SomeExport, GoneOnce
  <2>6. Taken'
    BY <1>14, <1>0, <2>0, RequestCases, RowCases DEF completeSecurityReauthentication, Done, NoReq, Rows, ExportAssumption, Row, Typed, Holder, SomeExport, Taken
  <2>. QED
    BY <1>0, <2>1, <2>2, <2>3, <2>4, <2>5, <2>6
<1>15. ASSUME NEW q \in Request, Fail(q) PROVE Inv'
  <2>1. Bound'
    BY <1>15, <1>0 DEF Fail, Done, NoReq, Row, Typed, Holder, SomeExport, Bound
  <2>2. RowAsked'
    BY <1>15, <1>0 DEF Fail, Done, NoReq, Row, Typed, Holder, SomeExport, RowAsked
  <2>3. RequestAsked'
    BY <1>15, <1>0 DEF Fail, Done, NoReq, Row, Typed, Holder, SomeExport, RequestAsked
  <2>4. ApprovedAfresh'
    BY <1>15, <1>0 DEF Fail, Done, NoReq, Row, Typed, Holder, SomeExport, ApprovedAfresh
  <2>5. GoneOnce'
    BY <1>15, <1>0 DEF Fail, Done, NoReq, Row, Typed, Holder, SomeExport, GoneOnce
  <2>6. Taken'
    BY <1>15, <1>0 DEF Fail, Done, NoReq, Row, Typed, Holder, SomeExport, Taken
  <2>. QED
    BY <1>0, <2>1, <2>2, <2>3, <2>4, <2>5, <2>6
<1>16. ASSUME NEW q \in Request, approveSecretExport(q) PROVE Inv'
  <2>. DEFINE e == req[q].export
  <2>0. \A r \in Request : (r = q /\ req'[r] = NoReq) \/ req'[r] = req[r]
    BY <1>16 DEF approveSecretExport, Done, Typed
  <2>00. UNCHANGED <<challenge, asked, downloads>> /\ req[q].pc = "approve"
    BY <1>16 DEF approveSecretExport
  <2>a. CASE UNCHANGED <<export, proof>>
    BY <2>a, <2>0, <2>00, <1>0, RequestCases
       DEF Bound, RowAsked, RequestAsked, ApprovedAfresh, GoneOnce, Taken, Row, NoReq
  <2>b. CASE ~UNCHANGED <<export, proof>>
    <3>0. /\ e \in Export /\ Row(e) /\ ~export[e].approved /\ export[e].session = req[q].by
          /\ export' = [export EXCEPT ![e].approved = TRUE]
          /\ proof' = [proof EXCEPT ![e] = [for |-> req[q].for, by |-> req[q].by]]
      BY <1>16, <2>b, RequestCases
         DEF approveSecretExport, validateSecretExport, GetSecretExport, SomeExport
    <3>00. req[q].by # None /\ req[q].for = e
      BY <2>00, <3>0, RequestCases DEF ExportAssumption, RequestAsked
    <3>. USE <3>0, <3>00, SetApproved
    <3>1. Bound'
      BY <1>0, <2>0, <2>00 DEF RowKept, Row, NoReq, NoRow, Gone, Bound
    <3>2. RowAsked'
      BY <1>0, <2>0, <2>00 DEF RowKept, Row, NoReq, NoRow, Gone, RowAsked
    <3>3. RequestAsked'
      BY <1>0, <2>0, <2>00 DEF RowKept, Row, NoReq, NoRow, Gone, RequestAsked
    <3>4. ApprovedAfresh'
      BY <1>0, <2>0, <2>00 DEF RowKept, Row, NoReq, NoRow, Gone, Typed, ApprovedAfresh
    <3>5. GoneOnce'
      BY <1>0, <2>0, <2>00 DEF RowKept, Row, NoReq, NoRow, Gone, GoneOnce
    <3>6. Taken'
      BY <1>0, <2>0, <2>00 DEF RowKept, Row, NoReq, NoRow, Gone, Taken
    <3>. QED
      BY <1>0, <3>1, <3>2, <3>3, <3>4, <3>5, <3>6
  <2>. QED
    BY <2>a, <2>b
<1>17. ASSUME NEW q \in Request, download(q) PROVE Inv'
  <2>. DEFINE e == req[q].export
  <2>0. \A r \in Request : (r = q /\ req'[r] = NoReq) \/ req'[r] = req[r]
    BY <1>17 DEF download, Done, Typed
  <2>00. UNCHANGED <<challenge, asked, proof>>
    BY <1>17 DEF download
  <2>a. CASE UNCHANGED <<export, downloads>>
    BY <2>a, <2>0, <2>00, <1>0, RequestCases
       DEF Bound, RowAsked, RequestAsked, ApprovedAfresh, GoneOnce, Taken, Row, NoReq
  <2>b. CASE ~UNCHANGED <<export, downloads>>
    <3>0. /\ e \in Export /\ Row(e) /\ export' = [export EXCEPT ![e] = Gone]
          /\ downloads' = [downloads EXCEPT ![e] = @ + 1]
      BY <1>17, <2>b, RequestCases DEF download, ConsumeSecretExport, GetSecretExport
    <3>. USE <3>0, DeleteRow
    <3>1. Bound'
      BY <1>0, <2>0, <2>00 DEF RowKept, Row, NoReq, NoRow, Gone, Bound
    <3>2. RowAsked'
      BY <1>0, <2>0, <2>00 DEF RowKept, Row, NoReq, NoRow, Gone, RowAsked
    <3>3. RequestAsked'
      BY <1>0, <2>0, <2>00 DEF RowKept, Row, NoReq, NoRow, Gone, RequestAsked
    <3>4. ApprovedAfresh'
      BY <1>0, <2>0, <2>00 DEF RowKept, Row, NoReq, NoRow, Gone, ApprovedAfresh
    <3>5. GoneOnce'
      BY <1>0, <2>0, <2>00 DEF RowKept, Row, NoReq, NoRow, Gone, Typed, GoneOnce
    <3>6. Taken'
      BY <1>0, <2>0, <2>00 DEF RowKept, Row, NoReq, NoRow, Gone, Taken
    <3>. QED
      BY <1>0, <3>1, <3>2, <3>3, <3>4, <3>5, <3>6
  <2>. QED
    BY <2>a, <2>b
<1>. QED
  BY <1>1, <1>2, <1>3, <1>4, <1>5, <1>6, <1>7, <1>8, <1>9, <1>10, <1>11, <1>12, <1>13, <1>14, <1>15, <1>16, <1>17
     DEF Next, Holder, SomeExport

-----------------------------------------------------------------------------
LEMMA Start == ASSUME ExportAssumption, Init PROVE Inv
BY TypedInit DEF Init, Inv, Bound, RowAsked, RequestAsked, ApprovedAfresh, GoneOnce, Taken, Row,
   NoRow, Gone, NoReq

LEMMA Confirms == ASSUME Inv PROVE TypeOK /\ OneDownload /\ ApprovedAfresh
<1>1. \A e \in Export : Row(e) => /\ export[e].session \in Session \cup {None}
                                  /\ export[e].token \in Token \cup {None}
  BY RowCases DEF Inv, Rows
<1>2. \A q \in Request :
        req[q].pc \in Pages \cup Reauth \cup {"none", "bind", "approve", "take"}
  BY DEF Inv, Typed, Requests, NoReq, Pages, Reauth
<1>. QED
  BY <1>1, <1>2 DEF Inv, TypeOK, OneDownload, Bound, GoneOnce

\* A document leaves only in a download, and download repeats the conditions.
LEMMA Delivers ==
    ASSUME ExportAssumption, Inv, [Next]_vars, NEW e \in Export, NEW q \in Request,
           Delivered(e), Answers(q), req[q].export = e
    PROVE  /\ export[e].session \in live /\ Owner[export[e].session] \in admin
           /\ export[e].expires > now
           /\ req[q].by \in {export[e].token, export[e].session}
           /\ export[e].token # None => req[q].by = export[e].token
<1>1. downloads' # downloads
  BY DEF Delivered, Inv, Typed
<1>2. PICK r \in Request : download(r)
  BY <1>1 DEF Next, vars, ghosts, accounts, Tick, End, SetRole, Arrive, NewSecretExport,
     TakeSecretExport, Authorize, CancelSecretExport, SecurityReauth, SecurityReauthFactor, Issue,
     Confirmed, bindSecretExportMFA, completeSecurityReauthentication, Fail, approveSecretExport
<1>3. r = q
  BY <1>2, RequestCases DEF download, Done, Answers, NoReq, Inv, Typed
<1>4. ConsumeSecretExport(e, Owner[req[q].by])
  BY <1>1, <1>2, <1>3 DEF download
<1>5. Row(e) /\ export[e].session # None /\ Owner[export[e].session] = export[e].user
  BY <1>4 DEF ConsumeSecretExport, GetSecretExport, Inv, Bound
<1>. QED
  BY <1>4, <1>5 DEF ConsumeSecretExport, GetSecretExport, SessionOfAdmin, Answers, Inv, Taken

\* However requests, confirmations, logouts, changes of role, cancellations
\* and the expiry interleave: an export is approved only by a confirmation
\* its own session started for it, hands out one document, and does so while
\* that session and the role of its user last, to the credential that asked
\* (ApproveSecretExport, ConsumeSecretExport).
THEOREM ExportSafe == ExportAssumption => (Spec => ExportConfirmed)
<1>. SUFFICES ASSUME ExportAssumption PROVE Spec => ExportConfirmed
  OBVIOUS
<1>1. Init => Inv
  BY Start
<1>2. Inv /\ [Next]_vars => Inv'
  <2>1. CASE Next
    BY <2>1, Step
  <2>2. CASE UNCHANGED vars
    BY <2>2 DEF vars, Inv, Typed, Bound, RowAsked, RequestAsked, ApprovedAfresh, GoneOnce, Taken, Row
  <2>. QED
    BY <2>1, <2>2
<1>3. Inv => TypeOK /\ OneDownload /\ ApprovedAfresh
  BY Confirms
<1>4. Inv /\ [Next]_vars =>
        [\A e \in Export, q \in Request : Delivered(e) /\ Answers(q) /\ req[q].export = e =>
            /\ export[e].session \in live /\ Owner[export[e].session] \in admin
            /\ export[e].expires > now
            /\ req[q].by \in {export[e].token, export[e].session}
            /\ export[e].token # None => req[q].by = export[e].token]_vars
  BY Delivers
<1>. QED
  BY <1>1, <1>2, <1>3, <1>4, PTL DEF Spec, ExportConfirmed, DeliveredWhileApproved

=============================================================================
