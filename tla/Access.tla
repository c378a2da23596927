------------------------------- MODULE Access -------------------------------
(***************************************************************************)
(* Who may do what to which project: global roles, project memberships,    *)
(* and API tokens with their ceilings and selected projects.  A request    *)
(* first authenticates, then passes the middlewares, then its handler      *)
(* checks, then it writes; each of these reads the database again, and     *)
(* requests overlap between them.  Roles are ranks, 1 for viewer, 2 for    *)
(* deployer, 3 for maintainer and 4 for admin; 0 is no membership, or no   *)
(* ceiling.  Pages authenticate by session, the API by token.              *)
(***************************************************************************)
EXTENDS Integers, FiniteSets

CONSTANTS
    Req,            \* requests that may be under way at once
    Ops,            \* the requests an instance makes
    User, Project, Group, Token,    \* ids; those not there at first can be created
    Granted,        \* the global and project roles that are given in requests
    Grants,         \* the scopes that are given to tokens in requests
    Start,          \* at first: [role, member, projects, groups, tokens]
    MaxRequests     \* bound on requests

AccessAssumption ==
    /\ Granted \subseteq 1 .. 4
    /\ \A g \in Grants : g.scope \in {"global", "scoped"} /\ g.role \in 0 .. 4 /\ g.projects \subseteq Project
    /\ MaxRequests \in Nat

VARIABLES
    begun,      \* requests so far
    role,       \* users.role
    member,     \* project_members
    project,    \* projects: state and group
    group,      \* project_groups
    token,      \* api_tokens and api_token_projects
    flash,      \* token_flash_secrets, by the token whose value they hold
    req,        \* requests between two of their steps
    had,        \* history: the grants each token has had
    peak,       \* history: the highest roles there were, global and in each project
    writes,     \* history: the writes, with the credential that made them
    shown       \* history: how often a token's value was shown

vars == <<begun, role, member, project, group, token, flash, req, had, peak, writes, shown>>
history == <<had, peak, writes, shown>>

\* The session a request comes with: every user has two.
Session == User \X {1, 2}
Everything == [scope |-> "global", role |-> 0, projects |-> {}]
NoReq == [op |-> "none"]
NoFlash == [live |-> FALSE, sess |-> <<0, 0>>]
Lower(a, b) == IF a < b THEN a ELSE b

-----------------------------------------------------------------------------
(* Queries. *)

GetProject(p) == project[p].state = "live"
GetProjectMember(p, u) == member[p][u]
IsProjectMember(p, u) == GetProjectMember(p, u) > 0

\* GetApiTokenByID, GetApiTokenByHash and SetApiTokenScope see no revoked token.
GetApiTokenByID(t) == token[t].state = "live"

ListApiTokenProjectIDs(t) == token[t].grant.projects

Raised(p, u, r) == [peak EXCEPT !.member[p][u] = IF r > @ THEN r ELSE @]

\* AddProjectMember: an upsert, for a project that is there.
AddProjectMember(p, u, r) ==
    IF GetProject(p)
    THEN member' = [member EXCEPT ![p][u] = r] /\ peak' = Raised(p, u, r)
    ELSE UNCHANGED <<member, peak>>

RemoveProjectMember(p, u) == member' = [member EXCEPT ![p][u] = 0]

\* ListAccessibleProjectGroups: of an administrator without a scope all, of
\* others those with a project that membership and token let them see.
ListAccessibleProjectGroups(q) ==
    {g \in Group :
        /\ group[g] = "live"
        /\ \/ q.role = 4 /\ q.grant.scope = "global"
           \/ \E p \in Project :
                /\ GetProject(p) /\ project[p].group = g
                /\ q.role = 4 \/ IsProjectMember(p, q.user)
                /\ q.grant.scope = "global" \/ p \in ListApiTokenProjectIDs(q.token)}

-----------------------------------------------------------------------------
(* Authentication. *)

At(r, pc) == req[r] # NoReq /\ req[r].pc = pc
Go(r, pc) == req' = [req EXCEPT ![r].pc = pc]
Done(r) == req' = [req EXCEPT ![r] = NoReq]
Refuse(r) == Done(r) /\ UNCHANGED <<begun, role, member, project, group, token, flash, history>>

ProjectOps == {"add", "update", "remove", "move", "delete", "deploy"}
TokenOps == {"token", "scope", "revoke", "revoke_any"}
AdminOps == {"group", "delete_group", "revoke_any"}
ManageOps == {"add", "update", "remove"}

\* What a request asks for; fields that it does not use are at their first value.
Request(op, p, u, rank, g, t, grant) ==
    [op |-> op, project |-> p, target |-> u, rank |-> rank, group |-> g, about |-> t, want |-> grant]

Begin(r, ask, u, t, sess, grant, pc) ==
    /\ ask.op \in Ops /\ req[r] = NoReq /\ begun < MaxRequests
    /\ begun' = begun + 1
    /\ req' = [req EXCEPT ![r] =
         [op |-> ask.op, project |-> ask.project, target |-> ask.target, rank |-> ask.rank,
          group |-> ask.group, about |-> ask.about, want |-> ask.want,
          pc |-> pc, user |-> u, role |-> role[u], token |-> t, sess |-> sess, grant |-> grant,
          prole |-> 4]]
    /\ UNCHANGED <<role, member, project, group, token, flash, history>>

\* AuthMiddleware: the session's user, with the role of now.
AuthMiddleware(r, ask, sess) == Begin(r, ask, sess[1], 0, sess, Everything, "admit")

\* ApiTokenMiddleware and the first read of loadTokenAccess.
ApiTokenMiddleware(r, ask, t) ==
    /\ GetApiTokenByID(t)
    /\ Begin(r, ask, token[t].user, t, <<0, 0>>, [token[t].grant EXCEPT !.projects = {}],
             IF token[t].grant.scope = "scoped" THEN "projects" ELSE "admit")

\* The second read of loadTokenAccess: row and projects in one transaction.
loadTokenAccess(r) == token[req[r].token].grant

\* A scoped token needs a project and a role that are there.
LoadProjects(r) ==
    LET t == req[r].token IN
    /\ At(r, "projects")
    /\ IF GetApiTokenByID(t) /\ (token[t].grant.scope = "scoped" => token[t].grant.projects # {})
       THEN /\ req' = [req EXCEPT ![r].pc = "admit", ![r].grant = loadTokenAccess(r),
                                  ![r].role = role[token[t].user]]
            /\ UNCHANGED <<begun, role, member, project, group, token, flash, history>>
       ELSE Refuse(r)

-----------------------------------------------------------------------------
(* Authorization, from what the request holds. *)

TokenAllowsProject(q, p) == q.grant.scope = "global" \/ p \in q.grant.projects
tokenRoleAllows(q, rank) == q.grant.role = 0 \/ q.grant.role >= rank

\* RoleFromContext: the user's role under the ceiling.
RoleFromContext(q) == IF tokenRoleAllows(q, q.role) THEN q.role ELSE q.grant.role

\* ProjectRoleFromContext: under the membership as well, once it is known.
ProjectRoleFromContext(q) == Lower(q.prole, RoleFromContext(q))
CanAuthor(q) == ProjectRoleFromContext(q) >= 3
CanDeploy(q) == ProjectRoleFromContext(q) >= 2
deploymentWrite(q) == q.op = "deploy"

\* projectWriteAllowed, RejectRestrictedWrite and serveApplicationWrite.
projectWriteAllowed(q) == q.op = "flash" \/ CanAuthor(q) \/ (CanDeploy(q) /\ deploymentWrite(q))

\* TokenScopeMiddleware and scopedTokenPathAllowed: a ceiling keeps a token from
\* the tokens, a scope from all but projects.
TokenScopeMiddleware(q) ==
    /\ q.grant.role # 0 => q.op \notin TokenOps
    /\ q.grant.scope = "scoped" => q.op \in ProjectOps

\* RequireRole("admin") of some routes.
RequireRole(q) == q.op \in AdminOps => RoleFromContext(q) = 4

\* serveProjectAccess: an administrator needs no membership.
serveProjectAccess(q) ==
    /\ TokenAllowsProject(q, q.project)
    /\ q.role = 4 \/ (GetProject(q.project) /\ IsProjectMember(q.project, q.user))

\* applyProjectPermission: the membership's role, read for those who need it.
projectRole(q) ==
    IF q.op \in ProjectOps /\ q.role # 4 THEN GetProjectMember(q.project, q.user) ELSE 4

\* The middlewares in front of a handler.
Admit(r) ==
    LET q == req[r]
        now == [q EXCEPT !.pc = "handle", !.prole = projectRole(q)]
    IN
    /\ At(r, "admit")
    /\ IF /\ TokenScopeMiddleware(q) /\ RequireRole(q)
          /\ q.op \in ProjectOps => serveProjectAccess(q)
          /\ projectWriteAllowed(now)
       THEN /\ req' = [req EXCEPT ![r] = now]
            /\ UNCHANGED <<begun, role, member, project, group, token, flash, history>>
       ELSE Refuse(r)

\* Mutant of CanManageProject: the ceiling only has to let authors through.
ManageUnderCeiling(q) ==
    /\ CanAuthor(q) /\ TokenAllowsProject(q, q.project)
    /\ q.role = 4 \/ GetProjectMember(q.project, q.user) = 4

\* CanManageProject reads the membership again.
CanManageProject(q) ==
    /\ CanAuthor(q) /\ TokenAllowsProject(q, q.project) /\ tokenRoleAllows(q, 4)
    /\ q.role = 4 \/ GetProjectMember(q.project, q.user) = 4

\* validateTokenProjects.
validateTokenProjects(q) ==
    \A p \in q.want.projects : GetProject(p) /\ (q.role = 4 \/ IsProjectMember(p, q.user))

\* ValidateTokenScope: a scope has projects and a role.
ValidateTokenScope(q) ==
    /\ q.want.scope = "global" => q.want.projects = {}
    /\ q.want.scope = "scoped" => q.want.projects # {} /\ q.want.role # 0 /\ validateTokenProjects(q)

-----------------------------------------------------------------------------
(* The checks of the handlers: a page has a session, the API a token.        *)

Page(q, op) == q.op = op /\ q.token = 0
API(q, op) == q.op = op /\ q.token # 0

AddMemberPage(q) == Page(q, "add") /\ CanManageProject(q)
AddMemberAPI(q) == API(q, "add") /\ CanManageProject(q) /\ GetProject(q.project)

UpdateMemberRolePage(q) ==
    Page(q, "update") /\ CanManageProject(q) /\ IsProjectMember(q.project, q.target)
UpdateMemberRoleAPI(q) ==
    API(q, "update") /\ CanManageProject(q) /\ IsProjectMember(q.project, q.target)

RemoveMemberPage(q) == Page(q, "remove") /\ CanManageProject(q)
RemoveMemberAPI(q) == API(q, "remove") /\ CanManageProject(q)

\* These parse their input and go on to their transaction.
CreateProjectPage(q) == Page(q, "create")
CreateProjectAPI(q) == API(q, "create")
DeleteProjectPage(q) == Page(q, "delete")
DeleteProjectAPI(q) == API(q, "delete")
MoveProjectGroupPage(q) == Page(q, "move")
MoveProjectGroupAPI(q) == API(q, "move")
SaveProjectGroupPage(q) == Page(q, "group")
SaveProjectGroupAPI(q) == API(q, "group")
DeleteProjectGroupPage(q) == Page(q, "delete_group")
DeleteProjectGroupAPI(q) == API(q, "delete_group")

MyTokensPost(q) == Page(q, "token") /\ ValidateTokenScope(q)
CreateTokenAPI(q) == API(q, "token") /\ ValidateTokenScope(q)

OwnToken(q) == GetApiTokenByID(q.about) /\ token[q.about].user = q.user
MyTokensScope(q) == Page(q, "scope") /\ OwnToken(q) /\ ValidateTokenScope(q)
UpdateScope(q) == API(q, "scope") /\ OwnToken(q) /\ ValidateTokenScope(q)
MyTokensRevoke(q) == Page(q, "revoke") /\ OwnToken(q)
RevokeToken(q) == API(q, "revoke") /\ OwnToken(q)
AdminTokensRevoke(q) == Page(q, "revoke_any") /\ GetApiTokenByID(q.about)
RevokeAnyToken(q) == API(q, "revoke_any") /\ GetApiTokenByID(q.about)

HandlerAllows(q) ==
    \/ q.op \in {"deploy", "flash"}
    \/ AddMemberPage(q) \/ AddMemberAPI(q)
    \/ UpdateMemberRolePage(q) \/ UpdateMemberRoleAPI(q)
    \/ RemoveMemberPage(q) \/ RemoveMemberAPI(q)
    \/ CreateProjectPage(q) \/ CreateProjectAPI(q)
    \/ DeleteProjectPage(q) \/ DeleteProjectAPI(q)
    \/ MoveProjectGroupPage(q) \/ MoveProjectGroupAPI(q)
    \/ SaveProjectGroupPage(q) \/ SaveProjectGroupAPI(q)
    \/ DeleteProjectGroupPage(q) \/ DeleteProjectGroupAPI(q)
    \/ MyTokensPost(q) \/ CreateTokenAPI(q)
    \/ MyTokensScope(q) \/ UpdateScope(q)
    \/ MyTokensRevoke(q) \/ RevokeToken(q) \/ AdminTokensRevoke(q) \/ RevokeAnyToken(q)

Handle(r) ==
    /\ At(r, "handle")
    /\ IF HandlerAllows(req[r])
       THEN Go(r, "write") /\ UNCHANGED <<begun, role, member, project, group, token, flash, history>>
       ELSE Refuse(r)

-----------------------------------------------------------------------------
(* The writes. *)

Ready(r, op) == At(r, "write") /\ req[r].op = op

\* The history of a write: its kind, its project, who made it and under which
\* ceiling, and whether it added a member.
Write(r) ==
    LET q == req[r] IN
    writes' = writes \cup {[op |-> q.op, project |-> q.project, user |-> q.user, ceiling |-> q.grant.role,
                            added |-> q.op \in {"add", "update"} /\ GetProject(q.project)
                                      /\ ~IsProjectMember(q.project, q.target)]}

\* AddMember and UpdateMemberRole end in the same upsert.
SetMember(r) ==
    /\ Ready(r, "add") \/ Ready(r, "update")
    /\ AddProjectMember(req[r].project, req[r].target, req[r].rank)
    /\ Write(r) /\ Done(r)
    /\ UNCHANGED <<begun, role, project, group, token, flash, had, shown>>

RemoveMember(r) ==
    /\ Ready(r, "remove") /\ RemoveProjectMember(req[r].project, req[r].target)
    /\ Write(r) /\ Done(r)
    /\ UNCHANGED <<begun, role, project, group, token, flash, had, peak, shown>>

\* DeployRelease and its like: DeploymentQueue models what they do.
Deploy(r) ==
    /\ Ready(r, "deploy") /\ Write(r) /\ Done(r)
    /\ UNCHANGED <<begun, role, member, project, group, token, flash, had, peak, shown>>

\* accessibleProjectGroup: 0 is no group.
accessibleProjectGroup(q) == q.group = 0 \/ q.group \in ListAccessibleProjectGroups(q)

MoveProjectGroup(r) ==
    LET q == req[r] IN
    /\ Ready(r, "move")
    /\ IF accessibleProjectGroup(q) /\ GetProject(q.project)
       THEN project' = [project EXCEPT ![q.project].group = q.group] /\ Write(r)
       ELSE UNCHANGED <<project, writes>>
    /\ Done(r)
    /\ UNCHANGED <<begun, role, member, group, token, flash, had, peak, shown>>

\* CreateProject: its creator administers it.
CreateProject(r) ==
    LET q == req[r] IN
    /\ Ready(r, "create")
    /\ IF accessibleProjectGroup(q) /\ project[q.project].state = "free"
       THEN /\ project' = [project EXCEPT ![q.project] = [state |-> "live", group |-> q.group]]
            /\ member' = [member EXCEPT ![q.project][q.user] = 4]
            /\ peak' = Raised(q.project, q.user, 4)
       ELSE UNCHANGED <<project, member, peak>>
    /\ Done(r)
    /\ UNCHANGED <<begun, role, group, token, flash, had, writes, shown>>

\* DeleteProject: memberships and selections of tokens go with it.
DeleteProject(r) ==
    LET p == req[r].project IN
    /\ Ready(r, "delete")
    /\ project' = [project EXCEPT ![p] = [state |-> "gone", group |-> 0]]
    /\ member' = [member EXCEPT ![p] = [u \in User |-> 0]]
    /\ token' = [t \in Token |-> [token[t] EXCEPT !.grant.projects = @ \ {p}]]
    /\ had' = [t \in Token |-> had[t] \cup {token'[t].grant}]
    /\ Write(r) /\ Done(r)
    /\ UNCHANGED <<begun, role, group, flash, peak, shown>>

\* SaveProjectGroup: a new group, or a new name for one.
SaveProjectGroup(r) ==
    /\ Ready(r, "group")
    /\ group' = [group EXCEPT ![req[r].group] = IF @ = "free" THEN "live" ELSE @]
    /\ Done(r)
    /\ UNCHANGED <<begun, role, member, project, token, flash, history>>

\* DeleteProjectGroup: its projects have no group.
DeleteProjectGroup(r) ==
    LET g == req[r].group IN
    /\ Ready(r, "delete_group")
    /\ group' = [group EXCEPT ![g] = IF @ = "live" THEN "gone" ELSE @]
    /\ project' = [p \in Project |-> IF project[p].group = g /\ group[g] = "live"
                                     THEN [project[p] EXCEPT !.group = 0] ELSE project[p]]
    /\ Done(r)
    /\ UNCHANGED <<begun, role, member, token, flash, history>>

\* SaveTokenScope, in the transaction that creates or edits: a project deleted
\* since it was validated is refused by its foreign key.
SaveTokenScope(t, u, grant) ==
    /\ \A p \in grant.projects : GetProject(p)
    /\ token' = [token EXCEPT ![t] = [state |-> IF @.state = "free" THEN "live" ELSE @.state,
                                      user |-> u, grant |-> grant]]
    /\ had' = [had EXCEPT ![t] = @ \cup {grant}]

Unscoped(grant) == \E p \in grant.projects : ~GetProject(p)

\* MyTokensPost leaves the value for the session that asked; CreateToken answers it.
CreateToken(r) ==
    LET q == req[r] IN
    /\ Ready(r, "token")
    /\ IF token[q.about].state = "free" /\ ~Unscoped(q.want)
       THEN /\ SaveTokenScope(q.about, q.user, q.want) /\ Write(r)
            /\ IF q.token = 0
               THEN flash' = [flash EXCEPT ![q.about] = [live |-> TRUE, sess |-> q.sess]]
                    /\ UNCHANGED shown
               ELSE shown' = [shown EXCEPT ![q.about] = @ + 1] /\ UNCHANGED flash
       ELSE UNCHANGED <<token, had, writes, flash, shown>>
    /\ Done(r)
    /\ UNCHANGED <<begun, role, member, project, group, peak>>

\* ReplaceTokenScope: the token may have been revoked since.
ReplaceTokenScope(r) ==
    LET q == req[r] IN
    /\ Ready(r, "scope")
    /\ IF GetApiTokenByID(q.about) /\ ~Unscoped(q.want)
       THEN SaveTokenScope(q.about, q.user, q.want) /\ Write(r)
       ELSE UNCHANGED <<token, had, writes>>
    /\ Done(r)
    /\ UNCHANGED <<begun, role, member, project, group, flash, peak, shown>>

\* RevokeApiToken.
RevokeApiToken(r) ==
    /\ Ready(r, "revoke") \/ Ready(r, "revoke_any")
    /\ token' = [token EXCEPT ![req[r].about].state = IF @ = "live" THEN "revoked" ELSE @]
    /\ Done(r)
    /\ UNCHANGED <<begun, role, member, project, group, flash, history>>

\* ConsumeTokenFlashSecret deletes what it returns.
ConsumeTokenFlashSecret(t) == [flash EXCEPT ![t] = NoFlash]

\* MyTokens and consumeTokenFlash: shown to the session that it waits for.
MyTokens(r) ==
    LET t == req[r].about IN
    /\ Ready(r, "flash")
    /\ IF flash[t].live /\ flash[t].sess = req[r].sess
       THEN shown' = [shown EXCEPT ![t] = @ + 1] /\ flash' = ConsumeTokenFlashSecret(t)
       ELSE UNCHANGED <<flash, shown>>
    /\ Done(r)
    /\ UNCHANGED <<begun, role, member, project, group, token, had, peak, writes>>

\* A secret nobody looked at in time.
DeleteExpiredTokenFlashSecrets(t) ==
    /\ flash[t].live /\ flash' = [flash EXCEPT ![t] = NoFlash]
    /\ UNCHANGED <<begun, role, member, project, group, token, req, history>>

\* An administrator changes a global role, which Accounts models in full.
UpdateAccount(u, rank) ==
    /\ "role" \in Ops /\ begun < MaxRequests /\ begun' = begun + 1
    /\ role[u] # rank /\ role' = [role EXCEPT ![u] = rank]
    /\ peak' = [peak EXCEPT !.role[u] = IF rank > @ THEN rank ELSE @]
    /\ UNCHANGED <<member, project, group, token, flash, req, had, writes, shown>>

-----------------------------------------------------------------------------
Init ==
    /\ begun = 0 /\ writes = {}
    /\ role = Start.role /\ member = Start.member /\ token = Start.tokens
    /\ project = [p \in Project |-> IF p \in Start.projects
                                    THEN [state |-> "live", group |-> 0] ELSE [state |-> "free", group |-> 0]]
    /\ group = [g \in Group |-> IF g \in Start.groups THEN "live" ELSE "free"]
    /\ flash = [t \in Token |-> NoFlash]
    /\ req = [r \in Req |-> NoReq]
    /\ had = [t \in Token |-> {token[t].grant}]
    /\ peak = [role |-> role, member |-> member]
    /\ shown = [t \in Token |-> 0]

\* What can be asked for; only the value of a token tells sessions of a user apart.
Ask ==
    {Request(op, p, u, k, 0, 0, Everything) : op \in {"add", "update"}, p \in Project, u \in User, k \in Granted}
    \cup {Request("remove", p, u, 0, 0, 0, Everything) : p \in Project, u \in User}
    \cup {Request(op, p, 0, 0, 0, 0, Everything) : op \in {"delete", "deploy"}, p \in Project}
    \cup {Request(op, p, 0, 0, g, 0, Everything) : op \in {"move", "create"}, p \in Project, g \in Group \cup {0}}
    \cup {Request(op, 0, 0, 0, g, 0, Everything) : op \in {"group", "delete_group"}, g \in Group}
    \cup {Request(op, 0, 0, 0, 0, t, g) : op \in {"token", "scope"}, t \in Token, g \in Grants}
    \cup {Request(op, 0, 0, 0, 0, t, Everything) : op \in {"revoke", "revoke_any", "flash"}, t \in Token}

Authenticate(r) ==
    \E ask \in {a \in Ask : a.op \in Ops} :
        \/ \E sess \in Session : /\ ask.op \notin {"token", "flash"} => sess[2] = 1
                                /\ AuthMiddleware(r, ask, sess)
        \/ \E t \in Token : ask.op # "flash" /\ ApiTokenMiddleware(r, ask, t)

Perform(r) ==
    \/ SetMember(r) \/ RemoveMember(r) \/ Deploy(r)
    \/ MoveProjectGroup(r) \/ CreateProject(r) \/ DeleteProject(r)
    \/ SaveProjectGroup(r) \/ DeleteProjectGroup(r)
    \/ CreateToken(r) \/ ReplaceTokenScope(r) \/ RevokeApiToken(r) \/ MyTokens(r)

Next ==
    \/ \E r \in Req : Authenticate(r) \/ LoadProjects(r) \/ Admit(r) \/ Handle(r) \/ Perform(r)
    \/ \E t \in Token : DeleteExpiredTokenFlashSecrets(t)
    \/ \E u \in User, rank \in Granted : UpdateAccount(u, rank)

Spec == Init /\ [][Next]_vars

-----------------------------------------------------------------------------
(* Properties. *)

\* A request acts with a grant that its token had at one moment: never with the
\* role of one grant and the projects of another, when the grant is edited
\* between the two reads.
GrantIsWhole ==
    \A r \in Req : req[r] # NoReq =>
        (req[r].pc \in {"admit", "handle", "write"} /\ req[r].token # 0
            => req[r].grant \in had[req[r].token])

\* The rank a write needs, of the user and the ceiling, and of the membership.
Needs(op) == IF op = "deploy" THEN 2 ELSE IF op \in AdminOps THEN 4 ELSE 3
NeedsMember(op) == IF op \in ManageOps THEN 4 ELSE Needs(op)

\* "A lower permission at any layer restricts the operation": every write was
\* made by a user who had the rank, in the project or as an administrator, and
\* not through a token whose ceiling lies below it, whatever was granted, taken
\* or edited while the request was on its way.
LowestLayerDecides ==
    \A w \in writes :
        /\ peak.role[w.user] >= Needs(w.op)
        /\ w.op \in ProjectOps =>
             peak.role[w.user] = 4 \/ peak.member[w.project][w.user] >= NeedsMember(w.op)
        /\ w.ceiling = 0 \/ w.ceiling >= (IF w.op \in ManageOps THEN 4 ELSE Needs(w.op))

\* A token with a ceiling makes and edits no token, its own ceiling included.
CeilingMintsNothing == \A w \in writes : w.op \in {"token", "scope"} => w.ceiling = 0

\* A revoked token stays revoked with the grant that it had, though an edit of
\* its scope was under way; only the deletion of a project takes a project away.
RevokedIsFinal ==
    [][\A t \in Token : token[t].state = "revoked" =>
         /\ token'[t].state = "revoked"
         /\ token'[t].grant.projects \subseteq token[t].grant.projects
         /\ token'[t].grant.role = token[t].grant.role]_vars

\* The value of a token is shown once, to reloads and to other sessions not at all.
ShownOnce == \A t \in Token : shown[t] <= 1

=============================================================================
