----------------------------- MODULE Variables -----------------------------
(***************************************************************************)
(* The variables of a project, the shared variables of a lifecycle and the *)
(* credentials among them: rows of variables, lifecycle_variables and      *)
(* package_repositories with a rotation_revision that every write          *)
(* increments.  A handler of project variables reads the row, then writes  *)
(* in a statement of its own; SaveLifecycleVariable and the credential     *)
(* operations are one transaction each, and a credential request carries   *)
(* the revision its author saw.                                            *)
(***************************************************************************)
EXTENDS Integers, FiniteSets, TLC

CONSTANTS
    Project, LC,    \* projects and lifecycles, which stay
    Name,           \* names that pass validateVariableName and are not reserved
    Reserved,       \* names that do not
    Env,            \* environments
    NoEnv,          \* no environment: the row is unscoped
    NoLC,           \* a project without a lifecycle
    LifecycleOf,    \* lifecycle of a project, or NoLC
    Stages,         \* environments of a lifecycle's stages
    Ops,            \* requests an instance makes
    Start,          \* rows there are at first, by kind
    MaxRequests,    \* bound on requests
    MaxRows         \* bound on the ids of a table

VariablesAssumption ==
    /\ LifecycleOf \in [Project -> LC \cup {NoLC}] /\ Stages \in [LC -> SUBSET Env]
    /\ NoEnv \notin Env /\ NoLC \notin LC /\ Name \cap Reserved = {}
    /\ MaxRequests \in Nat /\ MaxRows \in Nat

VARIABLES
    row,        \* rows of the three tables, by kind and id
    made,       \* rows inserted so far (AUTOINCREMENT), by kind
    req         \* requests, in the order of their arrival

vars == <<row, made, req>>

Kind == {"variable", "lifecycle", "package"}
ID == 1 .. MaxRows
Request == 1 .. MaxRequests
Scope == Env \cup {NoEnv}
NoRow == [live |-> FALSE]
NoReq == [pc |-> "none"]
Done == [pc |-> "done"]
Owner(kind) == IF kind = "lifecycle" THEN LC ELSE Project

\* The value 0 is the empty one; request r sends the value r.
Value(r) == {0, r}

Live(kind, id) == id \in ID /\ row[kind][id].live
Rows(kind, owner) == {id \in ID : Live(kind, id) /\ row[kind][id].owner = owner}
SameScope(x, name, env) == x.name = name /\ x.env = env

-----------------------------------------------------------------------------
(* Validation. *)

validateVariableName(name) == name \in Name

\* VariableEnvironmentAllowed: a project without a lifecycle takes any scope.
VariableEnvironmentAllowed(p, env) ==
    env # NoEnv /\ LifecycleOf[p] # NoLC => env \in Stages[LifecycleOf[p]]

\* variableEnvironmentScope: the scope of a form, refused outside the lifecycle.
variableEnvironmentScope(p, env) == VariableEnvironmentAllowed(p, env)

LifecycleVariableScopeAllowed(l, env) == env \in Stages[l]

checkLifecycleVariableScope(l, env) == env = NoEnv \/ LifecycleVariableScopeAllowed(l, env)

credentialScopeAllowed(kind, owner, env) ==
    \/ env = NoEnv
    \/ IF kind = "lifecycle" THEN LifecycleVariableScopeAllowed(owner, env)
       ELSE VariableEnvironmentAllowed(owner, env)

\* UNIQUE(name, project_id, environment_id): two unscoped rows never collide,
\* their environment is NULL.  A lifecycle has an index for unscoped rows too.
Collides(kind, id, owner, name, env) ==
    /\ kind = "lifecycle" \/ env # NoEnv
    /\ \E i \in Rows(kind, owner) \ {id} : SameScope(row[kind][i], name, env)

-----------------------------------------------------------------------------
(* Statements.  A statement that matches no row, or fails a constraint,    *)
(* leaves the tables alone.                                                *)

Bumped(x) == [x EXCEPT !.rev = @ + 1]

Insert(kind, x) ==
    LET id == made[kind] + 1 IN
    IF Collides(kind, 0, x.owner, x.name, x.env) THEN UNCHANGED <<row, made>>
    ELSE /\ id \in ID
         /\ row' = [row EXCEPT ![kind][id] = x]
         /\ made' = [made EXCEPT ![kind] = id]

Replace(kind, id, x) ==
    /\ row' = IF Collides(kind, id, x.owner, x.name, x.env) THEN row
              ELSE [row EXCEPT ![kind][id] = x]
    /\ UNCHANGED made

Remove(kind, ids) ==
    /\ row' = [row EXCEPT ![kind] = [i \in ID |-> IF i \in ids THEN NoRow ELSE @[i]]]
    /\ UNCHANGED made

New(owner, name, env, value, secret, cred) ==
    [live |-> TRUE, owner |-> owner, name |-> name, env |-> env, value |-> value,
     secret |-> secret, cred |-> cred, rev |-> 0]

CreateVariableRow(q) == Insert("variable", New(q.owner, q.name, q.env, q.value, q.secret, FALSE))

\* An ordinary row: the statements of ordinary variables say is_credential = 0.
Ordinary(kind, id) == Live(kind, id) /\ ~row[kind][id].cred

UpdateVariableRow(q) ==
    IF Ordinary("variable", q.id)
    THEN Replace("variable", q.id,
                 Bumped([row["variable"][q.id] EXCEPT !.name = q.name, !.env = q.env,
                                                      !.value = q.value, !.secret = q.secret]))
    ELSE UNCHANGED <<row, made>>

\* Mutant of UpdateVariableKeepValueRow: the revision stays as well.
KeepRevision(q) ==
    IF Ordinary("variable", q.id)
    THEN Replace("variable", q.id,
                 [row["variable"][q.id] EXCEPT !.name = q.name, !.env = q.env, !.secret = q.secret])
    ELSE UNCHANGED <<row, made>>

UpdateVariableKeepValueRow(q) ==
    IF Ordinary("variable", q.id)
    THEN Replace("variable", q.id,
                 Bumped([row["variable"][q.id] EXCEPT !.name = q.name, !.env = q.env,
                                                      !.secret = q.secret]))
    ELSE UNCHANGED <<row, made>>

DeleteVariable(id) == Remove("variable", {id} \cap {i \in ID : Ordinary("variable", i)})

DeleteVariableOverrides(q) ==
    Remove("variable", {i \in Rows("variable", q.read.owner) :
                            /\ Ordinary("variable", i)
                            /\ SameScope(row["variable"][i], q.read.name, q.read.env)})

CreateLifecycleVariable(q) ==
    Insert("lifecycle", New(q.owner, q.name, q.env, q.value, q.secret, FALSE))

UpdateLifecycleVariable(q) ==
    IF Ordinary("lifecycle", q.id)
    THEN Replace("lifecycle", q.id,
                 Bumped([row["lifecycle"][q.id] EXCEPT !.name = q.name, !.env = q.env,
                                                       !.value = q.value, !.secret = q.secret]))
    ELSE UNCHANGED <<row, made>>

UpdateLifecycleVariableKeepValue(q) ==
    IF Ordinary("lifecycle", q.id)
    THEN Replace("lifecycle", q.id,
                 Bumped([row["lifecycle"][q.id] EXCEPT !.name = q.name, !.env = q.env,
                                                       !.secret = q.secret]))
    ELSE UNCHANGED <<row, made>>

DeleteLifecycleVariable(q) ==
    Remove("lifecycle", {i \in Rows("lifecycle", q.owner) : i = q.id /\ Ordinary("lifecycle", i)})

EnrollProjectCredential(q) ==
    IF q.id \in Rows("variable", q.owner) /\ Ordinary("variable", q.id)
        /\ row["variable"][q.id].secret /\ row["variable"][q.id].rev = q.seen.rev
    THEN Replace("variable", q.id, Bumped([row["variable"][q.id] EXCEPT !.cred = TRUE]))
    ELSE UNCHANGED <<row, made>>

EnrollLifecycleCredential(q) ==
    IF q.id \in Rows("lifecycle", q.owner) /\ Ordinary("lifecycle", q.id)
        /\ row["lifecycle"][q.id].secret /\ row["lifecycle"][q.id].rev = q.seen.rev
    THEN Replace("lifecycle", q.id, Bumped([row["lifecycle"][q.id] EXCEPT !.cred = TRUE]))
    ELSE UNCHANGED <<row, made>>

\* A credential row at the revision its author saw.
CredentialAt(kind, q) ==
    {i \in Rows(kind, q.owner) : i = q.id /\ row[kind][i].cred /\ row[kind][i].rev = q.seen.rev}

DeleteProjectCredential(q) == Remove("variable", CredentialAt("variable", q))
DeleteLifecycleCredential(q) == Remove("lifecycle", CredentialAt("lifecycle", q))

\* A metadata save leaves the value alone.
Rotated(x, q) == Bumped([x EXCEPT !.value = IF q.value # 0 THEN q.value ELSE @])

UpdateProjectCredentialRotation(q) ==
    IF q.id \in CredentialAt("variable", q)
    THEN Replace("variable", q.id, Rotated(row["variable"][q.id], q)) ELSE UNCHANGED <<row, made>>

UpdateLifecycleCredentialRotation(q) ==
    IF q.id \in CredentialAt("lifecycle", q)
    THEN Replace("lifecycle", q.id, Rotated(row["lifecycle"][q.id], q)) ELSE UNCHANGED <<row, made>>

UpdatePackageCredentialRotation(q) ==
    IF q.id \in CredentialAt("package", q)
    THEN /\ row' = [row EXCEPT !["package"][q.id] = Rotated(@, q)] /\ UNCHANGED made
    ELSE UNCHANGED <<row, made>>

\* The form of the project's package source replaces the credential.
UpdatePackageRepository(q) ==
    /\ row' = [row EXCEPT !["package"][q.id] = Bumped([@ EXCEPT !.value = q.value])]
    /\ UNCHANGED made

-----------------------------------------------------------------------------
(* Repository operations. *)

\* A name that is refused leaves the tables alone.
CreateVariable(q) ==
    IF validateVariableName(q.name) THEN CreateVariableRow(q) ELSE UNCHANGED <<row, made>>
UpdateVariable(q) ==
    IF validateVariableName(q.name) THEN UpdateVariableRow(q) ELSE UNCHANGED <<row, made>>
UpdateVariableKeepValue(q) ==
    IF validateVariableName(q.name) THEN UpdateVariableKeepValueRow(q) ELSE UNCHANGED <<row, made>>

GetProjectVariable(p, id) == id \in Rows("variable", p)

\* The project owns the row; credentials are not served as variables.
getProjectVariable(p, id) == GetProjectVariable(p, id) /\ Ordinary("variable", id)

DeleteProjectVariable(q) == IF q.reset THEN DeleteVariableOverrides(q) ELSE DeleteVariable(q.id)

\* SaveLifecycleVariable: scope, row and write in one transaction.
SaveLifecycleVariable(q) ==
    IF ~validateVariableName(q.name) \/ ~checkLifecycleVariableScope(q.owner, q.env)
    THEN UNCHANGED <<row, made>>
    ELSE IF q.id = 0 THEN CreateLifecycleVariable(q)
    ELSE IF q.id \notin Rows("lifecycle", q.owner) THEN UNCHANGED <<row, made>>
    ELSE IF q.secret /\ row["lifecycle"][q.id].secret /\ q.value = 0
    THEN UpdateLifecycleVariableKeepValue(q)
    ELSE UpdateLifecycleVariable(q)

\* insertCredentialVariable: refused when a row of the project has the scope.
insertCredentialVariable(q) ==
    IF q.kind = "variable" /\ \E i \in Rows("variable", q.owner) :
                                  SameScope(row["variable"][i], q.name, q.env)
    THEN UNCHANGED <<row, made>>
    ELSE Insert(q.kind, New(q.owner, q.name, q.env, q.value, TRUE, TRUE))

CreateCredential(q) ==
    IF validateVariableName(q.name) /\ credentialScopeAllowed(q.kind, q.owner, q.env)
    THEN insertCredentialVariable(q)
    ELSE UNCHANGED <<row, made>>

EnrollCredential(q) ==
    IF q.kind = "lifecycle" THEN EnrollLifecycleCredential(q) ELSE EnrollProjectCredential(q)

deleteCredentialRow(q) ==
    IF q.kind = "lifecycle" THEN DeleteLifecycleCredential(q) ELSE DeleteProjectCredential(q)

\* ErrCredentialConflict: the row is gone or was written since.
DeleteCredential(q) == deleteCredentialRow(q)

\* saveProjectCredentialRotation: a value is rotated only in a scope of one row.
saveProjectCredentialRotation(q) ==
    IF /\ q.id \in Rows("variable", q.owner) /\ row["variable"][q.id].cred
       /\ q.value # 0 =>
              \A i \in Rows("variable", q.owner) \ {q.id} :
                  ~SameScope(row["variable"][i], row["variable"][q.id].name, row["variable"][q.id].env)
    THEN UpdateProjectCredentialRotation(q)
    ELSE UNCHANGED <<row, made>>

saveLifecycleCredentialRotation(q) == UpdateLifecycleCredentialRotation(q)
savePackageCredentialRotation(q) == UpdatePackageCredentialRotation(q)

\* saveCredentialRotationTx, by kind.
saveCredentialRotationTx(q) ==
    CASE q.kind = "variable" -> saveProjectCredentialRotation(q)
      [] q.kind = "lifecycle" -> saveLifecycleCredentialRotation(q)
      [] q.kind = "package" -> savePackageCredentialRotation(q)

-----------------------------------------------------------------------------
(* Requests.  An arrival is what the handler reads before it writes; for a *)
(* credential it is the page or the list its author answers.               *)

Arrive(r, op, f) ==
    /\ op \in Ops
    /\ req[r].pc = "none" /\ \A s \in 1 .. r - 1 : req[s].pc # "none"
    /\ req' = [req EXCEPT ![r] = f @@ [pc |-> "write", op |-> op]]
    /\ UNCHANGED <<row, made>>

\* What a form or a body of an ordinary variable holds.
Fields(r) == [name : Name \cup Reserved, env : Scope, value : Value(r), secret : BOOLEAN]

\* CreateVariable: the scope is checked, then the row inserted.
CreateVariablePage(r) ==
    \E p \in Project, f \in Fields(r) :
        /\ variableEnvironmentScope(p, f.env)
        /\ Arrive(r, "create", f @@ [owner |-> p])

CreateVariableAPI(r) ==
    \E p \in Project, f \in Fields(r) :
        /\ VariableEnvironmentAllowed(p, f.env)
        /\ Arrive(r, "create", f @@ [owner |-> p])

\* UpdateVariable reads the row: it decides whether a blank value keeps it.
UpdateVariablePage(r) ==
    \E p \in Project, id \in ID, f \in Fields(r) :
        /\ getProjectVariable(p, id)
        /\ variableEnvironmentScope(p, f.env)
        /\ Arrive(r, "update", f @@ [owner |-> p, id |-> id, read |-> row["variable"][id]])

UpdateVariableAPI(r) ==
    \E p \in Project, id \in ID, f \in Fields(r) :
        /\ getProjectVariable(p, id)
        /\ VariableEnvironmentAllowed(p, f.env)
        /\ Arrive(r, "update", f @@ [owner |-> p, id |-> id, read |-> row["variable"][id]])

DeleteVariablePage(r) ==
    \E p \in Project, id \in ID, reset \in BOOLEAN :
        /\ getProjectVariable(p, id)
        /\ Arrive(r, "delete", [owner |-> p, id |-> id, reset |-> reset, read |-> row["variable"][id]])

DeleteVariableAPI(r) ==
    \E p \in Project, id \in ID, reset \in BOOLEAN :
        /\ getProjectVariable(p, id)
        /\ Arrive(r, "delete", [owner |-> p, id |-> id, reset |-> reset, read |-> row["variable"][id]])

\* Save of the page: a blank scope is no choice for a row that has one.
SavePage(r) ==
    \E l \in LC, id \in ID \cup {0}, f \in Fields(r), blank \in BOOLEAN :
        /\ blank => /\ f.env = NoEnv
                    /\ id \in Rows("lifecycle", l) => row["lifecycle"][id].env = NoEnv
        /\ Arrive(r, "save", f @@ [owner |-> l, id |-> id])

SaveAPI(r) ==
    \E l \in LC, id \in ID \cup {0}, f \in Fields(r) : Arrive(r, "save", f @@ [owner |-> l, id |-> id])

DeleteSharedPage(r) == \E l \in LC, id \in ID : Arrive(r, "deleteShared", [owner |-> l, id |-> id])
DeleteSharedAPI(r) == \E l \in LC, id \in ID : Arrive(r, "deleteShared", [owner |-> l, id |-> id])

\* A credential is created with a value, which is never blank.
CreateCredentialPage(r) ==
    \E kind \in Kind \ {"package"}, f \in Fields(r) : \E owner \in Owner(kind) :
        /\ f.value # 0 /\ f.secret
        /\ Arrive(r, "createCredential", f @@ [kind |-> kind, owner |-> owner])

CreateCredentialAPI(r) ==
    \E kind \in Kind \ {"package"}, f \in Fields(r) : \E owner \in Owner(kind) :
        /\ f.value # 0 /\ f.secret
        /\ Arrive(r, "createCredential", f @@ [kind |-> kind, owner |-> owner])

\* CredentialCandidates: the ordinary secrets of the owner, with their revision.
CredentialCandidates(kind, owner) ==
    {id \in Rows(kind, owner) : Ordinary(kind, id) /\ row[kind][id].secret}

EnrollPage(r) ==
    \E kind \in Kind \ {"package"} : \E owner \in Owner(kind) : \E id \in CredentialCandidates(kind, owner) :
        Arrive(r, "enroll", [kind |-> kind, owner |-> owner, id |-> id, seen |-> row[kind][id]])

EnrollAPI(r) ==
    \E kind \in Kind \ {"package"} : \E owner \in Owner(kind) : \E id \in CredentialCandidates(kind, owner) :
        Arrive(r, "enroll", [kind |-> kind, owner |-> owner, id |-> id, seen |-> row[kind][id]])

\* The credentials of the owner, with their revision.
Credentials(kind, owner) == {id \in Rows(kind, owner) : row[kind][id].cred}

DeleteCredentialPage(r) ==
    \E kind \in Kind \ {"package"} : \E owner \in Owner(kind) : \E id \in Credentials(kind, owner) :
        Arrive(r, "deleteCredential",
               [kind |-> kind, owner |-> owner, id |-> id, seen |-> row[kind][id]])

DeleteCredentialAPI(r) ==
    \E kind \in Kind \ {"package"} : \E owner \in Owner(kind) : \E id \in Credentials(kind, owner) :
        Arrive(r, "deleteCredential",
               [kind |-> kind, owner |-> owner, id |-> id, seen |-> row[kind][id]])

\* Save of the page rotates when there is a value, else it saves the dates.
SaveCredentialPage(r) ==
    \E kind \in Kind, value \in Value(r) : \E owner \in Owner(kind) : \E id \in Credentials(kind, owner) :
        Arrive(r, "rotate", [kind |-> kind, owner |-> owner, id |-> id, seen |-> row[kind][id],
                             value |-> value])

\* A blank value sent to /rotate is refused, so it leaves no request.
SaveCredentialAPI(r) ==
    \E kind \in Kind, value \in Value(r) : \E owner \in Owner(kind) : \E id \in Credentials(kind, owner) :
        Arrive(r, "rotate", [kind |-> kind, owner |-> owner, id |-> id, seen |-> row[kind][id],
                             value |-> value])

SavePackageSource(r) ==
    \E p \in Project : \E id \in Rows("package", p) :
        Arrive(r, "source", [owner |-> p, id |-> id, value |-> r])

-----------------------------------------------------------------------------
(* Writes. *)

Write(r, op) == req[r].pc = "write" /\ req[r].op = op /\ req' = [req EXCEPT ![r] = Done]

WriteCreate(r) == Write(r, "create") /\ CreateVariable(req[r])

\* The row read decides, not the row written.
WriteUpdate(r) ==
    /\ Write(r, "update")
    /\ IF req[r].secret /\ req[r].value = 0 /\ req[r].read.secret
       THEN UpdateVariableKeepValue(req[r]) ELSE UpdateVariable(req[r])

WriteDelete(r) == Write(r, "delete") /\ DeleteProjectVariable(req[r])
WriteSave(r) == Write(r, "save") /\ SaveLifecycleVariable(req[r])
WriteDeleteShared(r) == Write(r, "deleteShared") /\ DeleteLifecycleVariable(req[r])
WriteCreateCredential(r) == Write(r, "createCredential") /\ CreateCredential(req[r])
WriteEnroll(r) == Write(r, "enroll") /\ EnrollCredential(req[r])
WriteDeleteCredential(r) == Write(r, "deleteCredential") /\ DeleteCredential(req[r])
SaveCredentialRotation(r) == Write(r, "rotate") /\ saveCredentialRotationTx(req[r])
WriteSource(r) == Write(r, "source") /\ UpdatePackageRepository(req[r])

-----------------------------------------------------------------------------
(* What a project's page shows of the shared variables. *)

\* inheritedVariables: the shared variables of scopes still in the lifecycle,
\* each with the project's rows that override it.
inheritedVariables(p) ==
    IF LifecycleOf[p] = NoLC THEN {}
    ELSE {[id |-> id,
           override |-> {i \in Rows("variable", p) :
                             SameScope(row["variable"][i], row["lifecycle"][id].name, row["lifecycle"][id].env)}] :
          id \in {i \in Rows("lifecycle", LifecycleOf[p]) :
                      row["lifecycle"][i].env \in Stages[LifecycleOf[p]] \cup {NoEnv}}}

-----------------------------------------------------------------------------

Init ==
    /\ row = [k \in Kind |-> [i \in ID |-> IF i \in DOMAIN Start[k] THEN Start[k][i] ELSE NoRow]]
    /\ made = [k \in Kind |-> Cardinality(DOMAIN Start[k])]
    /\ req = [r \in Request |-> NoReq]

Arrival(r) ==
    \/ CreateVariablePage(r) \/ CreateVariableAPI(r) \/ UpdateVariablePage(r) \/ UpdateVariableAPI(r)
    \/ DeleteVariablePage(r) \/ DeleteVariableAPI(r) \/ SavePage(r) \/ SaveAPI(r)
    \/ DeleteSharedPage(r) \/ DeleteSharedAPI(r) \/ CreateCredentialPage(r) \/ CreateCredentialAPI(r)
    \/ EnrollPage(r) \/ EnrollAPI(r) \/ DeleteCredentialPage(r) \/ DeleteCredentialAPI(r)
    \/ SaveCredentialPage(r) \/ SaveCredentialAPI(r) \/ SavePackageSource(r)

WriteStep(r) ==
    \/ WriteCreate(r) \/ WriteUpdate(r) \/ WriteDelete(r) \/ WriteSave(r) \/ WriteDeleteShared(r)
    \/ WriteCreateCredential(r) \/ WriteEnroll(r) \/ WriteDeleteCredential(r)
    \/ SaveCredentialRotation(r) \/ WriteSource(r)

Next == \E r \in Request : Arrival(r) \/ WriteStep(r)

Spec == Init /\ [][Next]_vars

-----------------------------------------------------------------------------
(* Properties. *)

Row(kind) ==
    [live : {TRUE}, owner : Owner(kind), name : Name, env : Scope, value : Nat,
     secret : BOOLEAN, cred : BOOLEAN, rev : Nat] \cup {NoRow}

\* The columns hold what the schema declares, and a credential is secret: the
\* CHECK of migration 073.
TypeOK ==
    /\ \A k \in Kind, i \in ID :
           /\ row[k][i] \in Row(k) /\ (row[k][i].live => i <= made[k])
           /\ row[k][i].live /\ row[k][i].cred => row[k][i].secret
    /\ \A r \in Request : req[r].pc \in {"none", "write", "done"}

\* Request r writes in this step.
Writes(r) == req[r].pc = "write" /\ req'[r].pc = "done"
Changed(kind, id) == row'[kind][id] # row[kind][id]
OrdinaryOp == {"create", "update", "delete", "save", "deleteShared"}
CredentialOp == {"enroll", "deleteCredential", "rotate"}

\* An edit, a deletion or a reset of ordinary variables never changes a
\* credential, though the row may have been enrolled after the handler read it.
CredentialsSpared ==
    [][\A r \in Request : Writes(r) /\ req[r].op \in OrdinaryOp =>
           \A k \in Kind, i \in ID : Live(k, i) /\ row[k][i].cred => ~Changed(k, i)]_vars

\* A credential is enrolled, rotated, rescheduled or deleted only as its author
\* saw it: no edit of the name, scope or value and no other rotation came between.
\* It takes every write of a row to increment rotation_revision.
WrittenAsSeen ==
    [][\A r \in Request : Writes(r) /\ req[r].op \in CredentialOp =>
           \A i \in ID : Changed(req[r].kind, i) => row[req[r].kind][i] = req[r].seen]_vars

\* For a shared variable it is the row as it is written that counts.
BlankKeepsShared ==
    [][\A r \in Request :
           Writes(r) /\ req[r].op = "save" /\ req[r].secret /\ req[r].value = 0 =>
               \A i \in ID : Live("lifecycle", i) /\ row["lifecycle"][i].secret /\ Changed("lifecycle", i)
                   => row'["lifecycle"][i].value = row["lifecycle"][i].value]_vars

\* After a reset the project inherits: no ordinary row of it overrides a shared
\* variable of the scope the reset selected, duplicates without a scope included.
ResetInherits ==
    [][\A r \in Request, p \in Project :
           Writes(r) /\ req[r].op = "delete" /\ req[r].reset /\ req[r].owner = p =>
           \A v \in inheritedVariables(p)' :
               SameScope(row["lifecycle"][v.id], req[r].read.name, req[r].read.env) =>
                   \A i \in v.override : row["variable"][i].cred]_vars

\* A credential is rotated only while its project has one row of its name and
\* scope, so that the release secrets it replaces are its own.
RotationUnambiguous ==
    [][\A r \in Request, i \in ID :
           /\ Writes(r) /\ req[r].op = "rotate" /\ req[r].kind = "variable" /\ req[r].value # 0
           /\ Changed("variable", i)
           => \A j \in Rows("variable", row["variable"][i].owner) \ {i} :
                  ~SameScope(row["variable"][j], row["variable"][i].name, row["variable"][i].env)]_vars

=============================================================================
