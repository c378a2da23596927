----------------------------- MODULE Promotion -----------------------------
(***************************************************************************)
(* How deployments of one project come to be: the promotion gate and the   *)
(* approval requirement of the lifecycle, force, redeploy, retry, rollback *)
(* and idempotent creation.  Requests read the gate before the transaction *)
(* that creates the deployment (a rollback reads it inside), so lifecycle  *)
(* edits, other requests and release deletions fall between.  Clients may  *)
(* repeat a request under the same key when its reply is lost.  What a     *)
(* deployment does once it may run is the subject of DeploymentQueue.      *)
(***************************************************************************)
EXTENDS Lifecycle

CONSTANTS
    Rel,        \* release ids
    Req,        \* requests that may be under way at once
    Key,        \* idempotency keys of API clients
    MaxDep,     \* bound on deployments
    Ops,        \* the kinds of requests an instance makes
    Modes,      \* Ansible check modes an instance asks for
    Outcomes,   \* how deployments of an instance may end
    EditStages  \* TRUE when lifecycles change while deployments are made

PromotionAssumption ==
    /\ MaxDep \in Nat /\ EditStages \in BOOLEAN /\ Modes \subseteq BOOLEAN
    /\ Outcomes \subseteq {"succeeded", "failed", "cancelled", "unconfirmed"}

VARIABLES
    rel,        \* the releases that exist
    dep,        \* deployments, in the order of their ids
    req,        \* requests
    idem,       \* api_idempotency: the request hash and stored response
    answers     \* per key, the deployments clients were told of

proVars == <<rel, dep, req, idem, answers>>
promotionVars == <<lifeVars, proVars>>

NoReq == [op |-> "none"]
NoKey == "no key"
Free == [idx |-> 0, prev |-> "none", appr |-> FALSE]    \* no lifecycle
Outside == [idx |-> -1, prev |-> "none", appr |-> FALSE]

Terminal == {"succeeded", "failed", "cancelled", "unconfirmed"}
Deps == DOMAIN dep

-----------------------------------------------------------------------------
(* Queries. *)

\* A deployment that counts: not an Ansible check, of a release that exists.
IsAnsibleCheckDeployment(d) == dep[d].check
Real(d) == ~IsAnsibleCheckDeployment(d) /\ dep[d].rel \in rel

\* Mutant of the query: a check run satisfies the gate.
SucceededAnyMode(r, e) == \E d \in Deps : dep[d].rel = r /\ dep[d].env = e /\ dep[d].status = "succeeded"

GetLatestSuccessfulDeploymentForReleaseEnv(r, e) ==
    \E d \in Deps : Real(d) /\ dep[d].rel = r /\ dep[d].env = e /\ dep[d].status = "succeeded"

\* Newest first, checks left out.
InEnv(e) == {d \in Deps : Real(d) /\ dep[d].env = e}
GetLatestProjectEnvironmentDeployment(e) == {d \in InEnv(e) : \A c \in InEnv(e) : c <= d}
HasActiveProjectEnvironmentDeployment(e) ==
    \E d \in Deps : /\ dep[d].rel \in rel /\ dep[d].env = e
                    /\ dep[d].status \in {"waiting", "active", "unconfirmed"}

GetRollbackTarget(s) ==
    LET c == {d \in InEnv(dep[s].env) :
                d < s /\ dep[d].rel # dep[s].rel /\ dep[d].status = "succeeded"} IN
    {d \in c : \A b \in c : b <= d}

-----------------------------------------------------------------------------
(* The gate. *)

\* Where an environment stands in the project's lifecycle.
Place(e) ==
    IF chosen = 0 THEN Free
    ELSE LET order == ListLifecycleStages(chosen)
             at == {i \in DOMAIN order : stage[order[i]].env = e} IN
         IF at = {} THEN Outside
         ELSE LET i == CHOOSE j \in at : TRUE IN
              [idx |-> i, appr |-> stage[order[i]].appr,
               prev |-> IF i = 1 THEN "none" ELSE stage[order[i - 1]].env]

\* evaluateStages: what the gate says of a place.
evaluateStages(p, r) ==
    [deployable |-> p.idx # -1 /\ (p.idx > 1 =>
                        GetLatestSuccessfulDeploymentForReleaseEnv(r, p.prev)),
     bypassable |-> p.idx > 1]

Evaluate(r, e) == evaluateStages(Place(e), r)
Check(r, e) == ~Evaluate(r, e).deployable

requiresApprovalStages(p) == p.appr
RequiresApproval(e) == requiresApprovalStages(Place(e))
CheckAndApproval(r, e) == [blocked |-> Check(r, e), approval |-> RequiresApproval(e)]

-----------------------------------------------------------------------------
(* Requests that create deployments. *)

Begin(q, request) ==
    /\ req[q] = NoReq
    /\ req' = [req EXCEPT ![q] = request]
    /\ UNCHANGED <<lifeVars, rel, dep, idem, answers>>

Finish(q) == req' = [req EXCEPT ![q] = NoReq]

Blank == [op |-> "none", at |-> "approval", rel |-> 0, env |-> "none", check |-> FALSE,
          forced |-> FALSE, needs |-> FALSE, src |-> 0, target |-> 0, key |-> NoKey,
          place |-> Free]

\* ScheduleDeployment, the web form: an admin may force past a gate that can
\* be bypassed; the approval requirement is a second read.
ScheduleDeployment(q, r, e, check, force, user) ==
    /\ r \in rel
    /\ LET state == Evaluate(r, e)
           forced == ~state.deployable IN
       /\ forced => state.bypassable /\ force /\ user = "admin"
       /\ Begin(q, [Blank EXCEPT !.op = "form", !.rel = r, !.env = e, !.check = check,
                                 !.forced = forced, !.place = Place(e)])

FormApproval(q) ==
    /\ req[q].op = "form" /\ req[q].at = "approval"
    /\ req' = [req EXCEPT ![q].at = "create", ![q].needs = RequiresApproval(req[q].env)]
    /\ UNCHANGED <<lifeVars, rel, dep, idem, answers>>

\* creationIdempotency: the request hash covers the body.
Body(r, e, check) == <<r, e, check>>

\* replayCreation: the stored response for the same body; a conflict otherwise.
replayCreation(k, body) == idem[k].dep # 0 /\ idem[k].body = body

Answer(k, d, body) == answers' = [answers EXCEPT ![k] = @ \cup {<<body, d>>}]

\* CreateDeployment of the API: replay, or read the gate and go on to create.
CreateDeploymentAPI(q, r, e, check, k) ==
    /\ req[q] = NoReq
    /\ IF k # NoKey /\ idem[k].dep # 0
       THEN /\ replayCreation(k, Body(r, e, check))
            /\ Answer(k, idem[k].dep, Body(r, e, check))
            /\ UNCHANGED <<lifeVars, rel, dep, req, idem>>
       ELSE /\ r \in rel /\ ~CheckAndApproval(r, e).blocked
            /\ Begin(q, [Blank EXCEPT !.op = "api", !.at = "create", !.rel = r, !.env = e,
                                      !.check = check, !.key = k, !.place = Place(e),
                                      !.needs = CheckAndApproval(r, e).approval])

\* createDeploymentFromSource: redeploy and retry read the gate of the source.
createDeploymentFromSource(q, s) ==
    /\ dep[s].rel \in rel
    /\ LET c == CheckAndApproval(dep[s].rel, dep[s].env) IN
       /\ ~c.blocked
       /\ Begin(q, [Blank EXCEPT !.op = "source", !.at = "create", !.rel = dep[s].rel,
                                 !.env = dep[s].env, !.check = dep[s].check, !.src = s,
                                 !.needs = c.approval, !.place = Place(dep[s].env)])

RedeployDeployment(q, s) == dep[s].status \in Terminal /\ createDeploymentFromSource(q, s)
RedeployDeploymentAPI(q, s) == dep[s].status \in Terminal /\ createDeploymentFromSource(q, s)
RetryDeployment(q, s) ==
    dep[s].status \in Terminal \ {"succeeded"} /\ createDeploymentFromSource(q, s)

InitialStatus(needs) == IF needs THEN "waiting" ELSE "active"

NewDep(q) == [rel |-> req[q].rel, env |-> req[q].env, check |-> req[q].check,
              forced |-> req[q].forced, status |-> InitialStatus(req[q].needs),
              approver |-> "none", place |-> req[q].place,
              key |-> req[q].key, shown |-> 0]

Insert(row) ==
    /\ Len(dep) < MaxDep
    /\ dep' = Append(dep, row)

\* CreateDeployment and CreateDeploymentFromDeployment: a release deleted
\* meanwhile, or a source whose cleanup is unconfirmed, refuses the request.
CreateDeployment(q) ==
    /\ req[q].op \in {"form", "source"} /\ req[q].at = "create"
    /\ IF req[q].rel \in rel
          /\ (req[q].src # 0 => dep[req[q].src].status # "unconfirmed")
       THEN Insert(NewDep(q)) ELSE UNCHANGED dep
    /\ Finish(q)
    /\ UNCHANGED <<lifeVars, rel, idem, answers>>

\* Mutant of ClaimIdempotency: the claim is not unique.
ClaimAlways(k) == TRUE

\* Claim: the insert of the key, unique per user, project and operation.
ClaimIdempotency(k) == k # NoKey => idem[k].dep = 0

\* CreateDeploymentIdempotent: claim, deployment and stored response together.
CreateDeploymentIdempotent(q) ==
    /\ req[q].op = "api" /\ req[q].at = "create"
    /\ LET k == req[q].key
           body == Body(req[q].rel, req[q].env, req[q].check) IN
       IF ClaimIdempotency(k) /\ req[q].rel \in rel
       THEN /\ Insert(NewDep(q))
            /\ idem' = IF k = NoKey THEN idem
                       ELSE [idem EXCEPT ![k] = [body |-> body, dep |-> Len(dep) + 1]]
            /\ IF k = NoKey THEN UNCHANGED answers ELSE Answer(k, Len(dep) + 1, body)
            /\ Finish(q)
       ELSE /\ req' = [req EXCEPT ![q].at = "replay"]
            /\ UNCHANGED <<dep, idem, answers>>
    /\ UNCHANGED <<lifeVars, rel>>

\* After a failed creation the key is looked up once more.
ReplayAfterFailure(q) ==
    /\ req[q].op = "api" /\ req[q].at = "replay"
    /\ LET k == req[q].key
           body == Body(req[q].rel, req[q].env, req[q].check) IN
       IF k # NoKey /\ replayCreation(k, body)
       THEN Answer(k, idem[k].dep, body) ELSE UNCHANGED answers
    /\ Finish(q)
    /\ UNCHANGED <<lifeVars, rel, dep, idem>>

\* A request whose client goes away, or whose server stops, before it commits.
Drop(q) ==
    /\ req[q] # NoReq
    /\ Finish(q)
    /\ UNCHANGED <<lifeVars, rel, dep, idem, answers>>

-----------------------------------------------------------------------------
(* Rollback. *)

\* previewRollback: of the newest deployment of its environment, ended, when
\* nothing is active there; the target is the last good one of another release.
previewRollback(s) ==
    IF /\ Real(s) /\ dep[s].status \in {"succeeded", "failed", "cancelled"}
       /\ s \in GetLatestProjectEnvironmentDeployment(dep[s].env)
       /\ ~HasActiveProjectEnvironmentDeployment(dep[s].env)
    THEN GetRollbackTarget(s) ELSE {}

\* The confirmation page, and the preview of the API.
PreviewRollback(q, s) ==
    \E t \in previewRollback(s) :
        Begin(q, [Blank EXCEPT !.op = "rollback", !.at = "confirm", !.src = s, !.target = t,
                               !.rel = dep[t].rel, !.env = dep[s].env])
RollbackConfirmation(q, s) == PreviewRollback(q, s)
PreviewRollbackAPI(q, s) == PreviewRollback(q, s)

Confirmed(q, t) == req[q].target = t

\* CreateRollback: everything is read again in the transaction, and the target
\* must be the one that was confirmed.
CreateRollback(q) ==
    /\ req[q].op = "rollback" /\ dep[req[q].src].rel \in rel
    /\ \E t \in previewRollback(req[q].src) :
        LET c == CheckAndApproval(dep[t].rel, req[q].env) IN
        /\ Confirmed(q, t)
        /\ ~c.blocked
        /\ Insert([rel |-> dep[t].rel, env |-> req[q].env, check |-> FALSE,
                   forced |-> FALSE, status |-> InitialStatus(c.approval),
                   approver |-> "none", key |-> NoKey,
                   place |-> Place(req[q].env), shown |-> req[q].rel])
    /\ Finish(q)
    /\ UNCHANGED <<lifeVars, rel, idem, answers>>

RollbackDeployment(q) == CreateRollback(q)
RollbackDeploymentAPI(q) == CreateRollback(q)

-----------------------------------------------------------------------------
(* Afterwards. *)

LockDeploymentApproval(d) == dep[d].status = "waiting"

ApproveDeployment(d, user) ==
    /\ user = "admin"
    /\ dep[d].rel \in rel /\ LockDeploymentApproval(d)
    /\ dep' = [dep EXCEPT ![d].status = "active", ![d].approver = user]
    /\ UNCHANGED <<lifeVars, rel, req, idem, answers>>

ApproveDeploymentWeb(d, user) == ApproveDeployment(d, user)
ApproveDeploymentAPI(d, user) == ApproveDeployment(d, user)

\* CancelPrestart, and what became of a deployment that ran.
CancelDeployment(d) ==
    /\ dep[d].status = "waiting"
    /\ dep' = [dep EXCEPT ![d].status = "cancelled"]
    /\ UNCHANGED <<lifeVars, rel, req, idem, answers>>
CancelDeploymentAPI(d) == CancelDeployment(d)

Ended(d, status) ==
    /\ dep[d].rel \in rel
    /\ dep[d].status = "active" \/ (dep[d].status = "unconfirmed" /\ status = "cancelled")
    /\ dep' = [dep EXCEPT ![d].status = status]
    /\ UNCHANGED <<lifeVars, rel, req, idem, answers>>

\* DeleteRelease: with its deployments, none of them active.
DeleteRelease(r) ==
    /\ r \in rel
    /\ \A d \in Deps : dep[d].rel = r => dep[d].status \notin {"waiting", "active", "unconfirmed"}
    /\ rel' = rel \ {r}
    /\ UNCHANGED <<lifeVars, dep, req, idem, answers>>

-----------------------------------------------------------------------------
PromotionInit ==
    /\ LifecycleInit
    /\ rel = Rel
    /\ dep = <<>>
    /\ req = [q \in Req |-> NoReq]
    /\ idem = [k \in Key |-> [body |-> <<>>, dep |-> 0]]
    /\ answers = [k \in Key |-> {}]

Asked(op) == op \in Ops

PromotionNext ==
    \/ EditStages /\ LifecycleNext /\ UNCHANGED proVars
    \/ \E q \in Req :
        \/ \E r \in Rel, e \in Env, check \in Modes :
            \/ \E force \in BOOLEAN, user \in {"admin", "member"} :
                Asked("form") /\ ScheduleDeployment(q, r, e, check, force, user)
            \/ \E k \in Key \cup {NoKey} :
                Asked("api") /\ CreateDeploymentAPI(q, r, e, check, k)
        \/ FormApproval(q) \/ CreateDeployment(q)
        \/ CreateDeploymentIdempotent(q) \/ ReplayAfterFailure(q)
        \/ \E s \in Deps :
            \/ Asked("source") /\ (RedeployDeployment(q, s) \/ RedeployDeploymentAPI(q, s)
                                   \/ RetryDeployment(q, s))
            \/ Asked("rollback") /\ (RollbackConfirmation(q, s) \/ PreviewRollbackAPI(q, s))
        \/ RollbackDeployment(q) \/ RollbackDeploymentAPI(q)
        \/ Drop(q)
    \/ \E d \in Deps :
        \/ \E user \in {"admin", "member"} :
            ApproveDeploymentWeb(d, user) \/ ApproveDeploymentAPI(d, user)
        \/ CancelDeployment(d) \/ CancelDeploymentAPI(d)
        \/ \E status \in Outcomes : Ended(d, status)
    \/ \E r \in Rel : DeleteRelease(r)

PromotionSpec == PromotionInit /\ [][PromotionNext]_promotionVars

-----------------------------------------------------------------------------
(* Properties. *)

\* A deployment that was not forced followed a real success of the same
\* release in the stage before its own, as the lifecycle was when the request
\* was let through; redeploy, retry, rollback and the API included (gate.go:
\* "a deployment created any other way must not be able to skip it").
PromotionOrder ==
    \A d \in Deps : (dep[d].rel \in rel /\ ~dep[d].forced) =>
        /\ dep[d].place.idx # -1
        /\ dep[d].place.idx > 1 =>
            \E c \in 1 .. d - 1 :
                /\ dep[c].rel = dep[d].rel /\ dep[c].env = dep[d].place.prev
                /\ dep[c].status = "succeeded" /\ ~dep[c].check

\* With the lifecycle left alone, what may run in a stage with approval was
\* approved by an admin, on every path a deployment is created by.
ApprovedFirst ==
    \A d \in Deps : dep[d].place.appr =>
        dep[d].status \in {"waiting", "cancelled"} \/ dep[d].approver = "admin"

\* However clients repeat and overlap, a key makes one deployment, and every
\* answer given under it is that deployment, for the body it was made from.
OnePerKey ==
    \A k \in Key :
        /\ Cardinality(answers[k]) <= 1
        /\ Cardinality({d \in Deps : dep[d].key = k}) <= 1
        /\ \A a \in answers[k] :
            dep[a[2]].key = k /\ Body(dep[a[2]].rel, dep[a[2]].env, dep[a[2]].check) = a[1]

\* A rollback deploys the release the user was shown, and that release had
\* succeeded in the environment before, whatever was deleted or deployed
\* between the confirmation page and the click.
RollbackAsShown ==
    \A d \in Deps : (dep[d].shown # 0 /\ dep[d].rel \in rel) =>
        /\ dep[d].rel = dep[d].shown
        /\ \E c \in 1 .. d - 1 : /\ dep[c].rel = dep[d].rel /\ dep[c].env = dep[d].env
                                 /\ dep[c].status = "succeeded" /\ ~dep[c].check

=============================================================================
