-------------------------- MODULE ProjectTemplates --------------------------
(***************************************************************************)
(* Project templates: a snapshot of a project without its secrets, saved   *)
(* under the project it was taken from, and the projects created from it.  *)
(* A request is authorised when it arrives and reads a page; saving and    *)
(* applying are each one serializable transaction (templateTx) that        *)
(* authorises the author again.  Meanwhile roles, members, the source      *)
(* project, lifecycles and labels change.                                  *)
(***************************************************************************)
EXTENDS Naturals, FiniteSets

CONSTANTS
    User, Request,
    Env, NoEnv,      \* environments, and no environment
    Lifecycle, NoLC, \* lifecycles, and no lifecycle
    Label,           \* labels of agents
    MaxProjects,     \* bound: projects ever created
    MaxTemplates,    \* bound: templates ever saved
    MaxEdits,        \* bound: edits of projects
    MaxChanges       \* bound: changes of roles, members, stages and labels

TemplatesAssumption ==
    /\ NoEnv \notin Env /\ NoLC \notin Lifecycle
    /\ MaxProjects \in Nat \ {0} /\ MaxTemplates \in Nat
    /\ MaxEdits \in Nat /\ MaxChanges \in Nat

VARIABLES
    role,     \* the role of a user
    project,  \* the projects
    template, \* the templates
    stages,   \* the environments of a lifecycle's stages
    labels,   \* ListAvailableAgentLabels
    req,      \* the requests of users
    edits, changes \* counters of the bounds

vars == <<role, project, template, stages, labels, req, edits, changes>>
counters == <<edits, changes>>

ProjectID == 1 .. MaxProjects
TemplateID == 1 .. MaxTemplates
Scope == Env \cup {NoEnv}
Roles == {"reader", "maintainer", "admin"}
AtLeast(r) == r \in {"maintainer", "admin"}

\* A secret of project p has the value p; nothing else has.
None == 0
Plain == {MaxProjects + 1, MaxProjects + 2}
Fresh == MaxProjects + 3
\* The rows have ids; in a template these are the keys of the definitions.
Row == 1 .. 2
Variable(p) == [id : Row, env : Scope, secret : {FALSE}, value : Plain]
               \cup [id : Row, env : Scope, secret : {TRUE}, value : {p}]

NoProject == [live |-> FALSE]
NoTemplate == [live |-> FALSE]
NoReq == [pc |-> "none"]
Next1(f, ids) == CHOOSE i \in ids : f[i] = NoProject /\ \A j \in 1 .. i - 1 : f[j] # NoProject
Room(f, ids) == \E i \in ids : f[i] = NoProject

-----------------------------------------------------------------------------
(* What changes meanwhile *)

SetRole(u, r) ==
    /\ changes < MaxChanges /\ role[u] # r
    /\ role' = [role EXCEPT ![u] = r] /\ changes' = changes + 1
    /\ UNCHANGED <<project, template, stages, labels, req, edits>>

SetMember(u, p, r) ==
    /\ changes < MaxChanges /\ project[p].live /\ project[p].member[u] # r
    /\ project' = [project EXCEPT ![p].member[u] = r] /\ changes' = changes + 1
    /\ UNCHANGED <<role, template, stages, labels, req, edits>>

SetStages(l, S) ==
    /\ changes < MaxChanges /\ stages[l] # S
    /\ stages' = [stages EXCEPT ![l] = S] /\ changes' = changes + 1
    /\ UNCHANGED <<role, project, template, labels, req, edits>>

SetLabels(S) ==
    /\ changes < MaxChanges /\ labels # S
    /\ labels' = S /\ changes' = changes + 1
    /\ UNCHANGED <<role, project, template, stages, req, edits>>

\* A variable is created, changed or deleted: unscoped ones may be there twice.
SetVariable(p, v) ==
    /\ edits < MaxEdits /\ project[p].live /\ v \notin project[p].vars
    /\ project' = [project EXCEPT ![p].vars = {w \in @ : w.id # v.id} \cup {v}]
    /\ \A w \in project'[p].vars : w # v /\ w.env = v.env => v.env = NoEnv
    /\ edits' = edits + 1
    /\ UNCHANGED <<role, template, stages, labels, req, changes>>

DeleteVariable(p, v) ==
    /\ edits < MaxEdits /\ project[p].live /\ v \in project[p].vars
    /\ project' = [project EXCEPT ![p].vars = @ \ {v}] /\ edits' = edits + 1
    /\ UNCHANGED <<role, template, stages, labels, req, changes>>

SetScript(p, s) ==
    /\ edits < MaxEdits /\ project[p].live /\ project[p].script # s
    /\ project' = [project EXCEPT ![p].script = s] /\ edits' = edits + 1
    /\ UNCHANGED <<role, template, stages, labels, req, changes>>

\* The templates go with their source (ON DELETE CASCADE).
DeleteProject(p) ==
    /\ edits < MaxEdits /\ project[p].live
    /\ project' = [project EXCEPT ![p] = [live |-> FALSE, gone |-> TRUE]]
    /\ template' = [t \in TemplateID |-> IF template[t].live /\ template[t].source = p
                                         THEN [live |-> FALSE, gone |-> TRUE] ELSE template[t]]
    /\ edits' = edits + 1
    /\ UNCHANGED <<role, stages, labels, req, changes>>

-----------------------------------------------------------------------------
(* Saving *)

\* displayValue: a secret is captured without its value.
displayValue(v) == IF v.secret THEN None ELSE v.value

captureTemplateVariables(p) ==
    {[key |-> v.id, env |-> v.env, secret |-> v.secret, default |-> displayValue(v)] : v \in project[p].vars}

captureProjectTemplate(p) ==
    [vars |-> captureTemplateVariables(p), script |-> project[p].script,
     label |-> project[p].label, package |-> project[p].package]

\* templateAuthor: the role of the request and the current one, and membership.
templateAuthor(q, p) ==
    /\ AtLeast(role[q.user]) /\ AtLeast(q.role)
    /\ \/ role[q.user] = "admin"
       \/ project[p].live /\ AtLeast(project[p].member[q.user])

GlobalAdmin(q) == role[q.user] = "admin" /\ q.role = "admin" /\ ~q.scoped

\* The middleware lets authors in: role of the request, perhaps of a scoped token.
ProjectTemplateActor(u, r, scoped) ==
    /\ AtLeast(r) /\ (r = "admin" => role[u] = "admin")
    /\ AtLeast(role[u])

OpenSave(q, u, r, scoped, p) ==
    /\ req[q].pc = "none" /\ project[p].live /\ ProjectTemplateActor(u, r, scoped)
    /\ req' = [req EXCEPT ![q] = [pc |-> "save", user |-> u, role |-> r, scoped |-> scoped,
                                  source |-> p]]
    /\ UNCHANGED <<role, project, template, stages, labels, counters>>

SaveProjectTemplate(q) ==
    LET p == req[q].source IN
    /\ req[q].pc = "save" /\ req' = [req EXCEPT ![q] = NoReq]
    /\ IF templateAuthor(req[q], p) /\ project[p].live
       THEN /\ Room(template, TemplateID)
            /\ template' = [template EXCEPT ![Next1(template, TemplateID)] =
                  [live |-> TRUE, source |-> p, snapshot |-> captureProjectTemplate(p)]]
       ELSE UNCHANGED template
    /\ UNCHANGED <<role, project, stages, labels, counters>>

-----------------------------------------------------------------------------
(* Creating a project *)

\* The page shows the snapshot; the author decides on what it asks for.
Preview(q, u, r, scoped, t) ==
    /\ req[q].pc = "none" /\ template[t].live /\ ProjectTemplateActor(u, r, scoped)
    /\ req' = [req EXCEPT ![q] = [pc |-> "review", user |-> u, role |-> r, scoped |-> scoped,
                                  source |-> template[t].source, template |-> t,
                                  seen |-> template[t].snapshot]]
    /\ UNCHANGED <<role, project, template, stages, labels, counters>>

MutantReadTemplate(t) == captureProjectTemplate(template[t].source)
ReadProjectTemplate(t) == template[t].snapshot

\* validateTemplateInputs: fresh secrets, every environment mapped, the package supplied.
validateTemplateInputs(s, in) ==
    /\ \A v \in s.vars : v.secret => v \in in.supplied
    /\ in.supplied \subseteq s.vars
    /\ \A e \in Env : in.map[e] # NoEnv <=> \E v \in s.vars : v.env = e
    /\ s.package => in.package

\* templateVariableEnvironment
Mapped(in, e) == IF e = NoEnv THEN NoEnv ELSE in.map[e]
Allowed(in, e) ==
    e # NoEnv /\ in.lifecycle # NoLC => Mapped(in, e) \in stages[in.lifecycle]

Duplicates(s, in) ==
    \E v, w \in s.vars : v # w /\ Mapped(in, v.env) = Mapped(in, w.env)

\* copyTemplateVariables
Copied(in, v) ==
    [id |-> v.key, env |-> Mapped(in, v.env), secret |-> v.secret,
     value |-> IF v \in in.supplied THEN Fresh ELSE v.default]

copyTemplateVariables(s, in) == {Copied(in, v) : v \in s.vars}

Valid(q, s, in) ==
    /\ ~q.scoped /\ templateAuthor(q, q.source)
    /\ in.lifecycle # NoLC => GlobalAdmin(q)
    /\ validateTemplateInputs(s, in)
    /\ \A v \in s.vars : Allowed(in, v.env)
    /\ ~Duplicates(s, in)
    /\ in.label \in labels

CreateProjectFromTemplate(q, in) ==
    LET t == req[q].template IN
    /\ req[q].pc = "review" /\ req' = [req EXCEPT ![q] = NoReq]
    /\ template[t].live /\ Valid(req[q], ReadProjectTemplate(t), in)
    /\ Room(project, ProjectID)
    /\ LET s == ReadProjectTemplate(t) IN
       project' = [project EXCEPT ![Next1(project, ProjectID)] =
          [live |-> TRUE, lifecycle |-> in.lifecycle,
           vars |-> copyTemplateVariables(s, in),
           script |-> s.script, label |-> in.label, package |-> in.package,
           member |-> [u \in User |-> IF u = req[q].user THEN "admin" ELSE "none"]]]
    /\ UNCHANGED <<role, template, stages, labels, counters>>

\* An application that is refused, or a page that is left, changes nothing.
Refuse(q) ==
    /\ req[q].pc = "review" /\ req' = [req EXCEPT ![q] = NoReq]
    /\ UNCHANGED <<role, project, template, stages, labels, counters>>

Inputs(s) ==
    [lifecycle : Lifecycle \cup {NoLC}, map : [Env -> Scope], supplied : SUBSET s.vars,
     label : Label, package : BOOLEAN]

-----------------------------------------------------------------------------
Init ==
    /\ role \in [User -> {"maintainer", "admin"}]
    /\ project = [p \in ProjectID |-> IF p > 1 THEN NoProject ELSE
                    [live |-> TRUE, lifecycle |-> NoLC, script |-> MaxProjects + 1, package |-> TRUE,
                     vars |-> {[id |-> 1, env |-> NoEnv, secret |-> TRUE, value |-> 1]},
                     label |-> CHOOSE l \in Label : TRUE,
                     member |-> [u \in User |-> "maintainer"]]]
    /\ template = [t \in TemplateID |-> NoTemplate]
    /\ stages \in [Lifecycle -> SUBSET Env] /\ labels = Label
    /\ req = [q \in Request |-> NoReq] /\ edits = 0 /\ changes = 0

Next ==
    \/ \E u \in User, r \in Roles : SetRole(u, r)
    \/ \E u \in User, p \in ProjectID, r \in {"none", "maintainer"} : SetMember(u, p, r)
    \/ \E l \in Lifecycle, S \in SUBSET Env : SetStages(l, S)
    \/ \E S \in SUBSET Label : SetLabels(S)
    \/ \E p \in ProjectID : \/ \E v \in Variable(p) : SetVariable(p, v) \/ DeleteVariable(p, v)
                            \/ \E s \in Plain : SetScript(p, s)
                            \/ DeleteProject(p)
    \/ \E q \in Request, u \in User, r \in Roles, scoped \in BOOLEAN :
           \/ \E p \in ProjectID : OpenSave(q, u, r, scoped, p)
           \/ \E t \in TemplateID : Preview(q, u, r, scoped, t)
    \/ \E q \in Request :
           \/ SaveProjectTemplate(q) \/ Refuse(q)
           \/ req[q].pc = "review" /\ \E in \in Inputs(req[q].seen) : CreateProjectFromTemplate(q, in)

Spec == Init /\ [][Next]_vars

-----------------------------------------------------------------------------
(* Properties *)

Live(p) == project[p].live
Created(p) == ~Live(p) /\ project'[p].live
Saved(t) == ~template[t].live /\ template'[t].live
Answers(q) == req[q].pc # "none" /\ req'[q] = NoReq

TypeOK ==
    /\ \A p \in ProjectID : Live(p) => project[p].lifecycle \in Lifecycle \cup {NoLC}
    /\ \A p \in ProjectID : Live(p) => \A v \in project[p].vars : v.env \in Scope
    /\ \A t \in TemplateID : template[t].live => Live(template[t].source)

\* The value of a secret stays in its project: no template holds it and no
\* project created from one, however often it is copied on and whatever
\* became of the source (displayValue, copyTemplateVariables).
NoSecretCopied ==
    /\ \A p \in ProjectID : Live(p) =>
           \A v \in project[p].vars : v.value \in Plain \cup {Fresh, None, p}
    /\ \A t \in TemplateID : template[t].live =>
           \A v \in template[t].snapshot.vars : v.default \in Plain \cup {Fresh, None}

\* A secret of a created project has a value the author supplied.
FreshSecrets ==
    [][\A p \in ProjectID : Created(p) =>
          \A v \in project'[p].vars : v.secret => v.value = Fresh]_vars

\* A project is created with what the author reviewed, although the source
\* was edited in between (CreateProjectFromTemplate).
CreatedAsReviewed ==
    [][\A p \in ProjectID, q \in Request : Created(p) /\ Answers(q) =>
          /\ project'[p].script = req[q].seen.script
          /\ \A v \in project'[p].vars : v.value \notin {Fresh, None} =>
                \E w \in req[q].seen.vars : w.default = v.value /\ ~w.secret]_vars

\* Who lost the role or the membership since the request was authorised
\* saves and creates nothing (templateAuthor).
AuthorsOnly ==
    [][\A q \in Request :
          Answers(q) /\ ((\E p \in ProjectID : Created(p)) \/ (\E t \in TemplateID : Saved(t))) =>
             /\ AtLeast(role[req[q].user])
             /\ \/ role[req[q].user] = "admin"
                \/ Live(req[q].source) /\ AtLeast(project[req[q].source].member[req[q].user])]_vars

\* Environments mapped to one, and unscoped duplicates of the source, do not
\* leave two definitions of a name in one scope (copyTemplateVariables).
OneDefinition ==
    [][\A p \in ProjectID, q \in Request : Created(p) /\ Answers(q) =>
          Cardinality(project'[p].vars) = Cardinality(req[q].seen.vars)
          /\ \A v, w \in project'[p].vars : v.env = w.env => v = w]_vars
=============================================================================
