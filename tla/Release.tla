------------------------------ MODULE Release ------------------------------
(***************************************************************************)
(* Releases of one project: the snapshot a release takes of the project's  *)
(* steps, of a credential and of the selected package, the deployments     *)
(* made from it, the rotation of the credential and the package downloads. *)
(* A snapshot is built over several transactions and a network request and *)
(* committed in one more, so edits, rotations, repository changes and new  *)
(* deployments fall between.  The content a package URL serves is external *)
(* and may change at any time.  Steps and secrets are numbered by the edit *)
(* that wrote them.                                                        *)
(***************************************************************************)
EXTENDS Integers, FiniteSets

CONSTANTS
    Rel,            \* release ids
    Dep,            \* deployment ids
    Job,            \* requests that may be building a snapshot at once
    Source,         \* package sources: url_template, auth_type, username
    Repo,           \* package_repositories ids, a range 1 .. n
    Bytes,          \* what a package URL may serve
    LegacyDep,      \* deployments made before variables were captured
    FirstSecret,    \* 1 when the project has the credential at first, else 0
    MaxEdit         \* bound on step edits and on secret values written

ReleaseAssumption ==
    /\ Repo \subseteq Nat \ {0}
    /\ LegacyDep \subseteq Dep
    /\ FirstSecret \in {0, 1} /\ MaxEdit \in Nat

VARIABLES
    project,    \* steps, the credential variable and the selected repository
    repo,       \* package_repositories: the source of each row, or NoSource
    server,     \* external: the bytes each source serves now
    release,    \* releases with release_variables and release_artifacts
    dep,        \* deployments with their snapshots and deployment_artifacts
    job,        \* snapshots being built
    fetched,    \* downloads whose resolution has not been committed
    got,        \* the bytes executions of each deployment were given
    reading,    \* a ListDeploymentVariables under way, by deployment
    seen,       \* the secrets executions of each deployment were given
    nextKey     \* the next resolution key

relVars == <<project, repo, server, release, dep, job, fetched, got, reading,
             seen, nextKey>>

NoSource == "no source"
NoBytes == "unresolved"
Legacy == -1                    \* no deployment_variable_snapshots row
NoSecret == 0                   \* the variable did not exist
NoPin == [repo |-> 0, src |-> NoSource, sha |-> NoBytes, key |-> 0]
NoRelease == [exists |-> FALSE, steps |-> 0, secret |-> NoSecret, pin |-> NoPin]
NoDep == [state |-> "none", rel |-> 0, steps |-> 0, vars |-> Legacy, frozen |-> FALSE,
          pin |-> NoPin]
NoJob == [phase |-> "idle", kind |-> "none", rel |-> 0, steps |-> 0,
          secret |-> NoSecret, pin |-> NoPin]
NoRead == [at |-> "idle", secret |-> NoSecret]

-----------------------------------------------------------------------------
(* Rows. *)

\* HasActiveReleaseDeployment, and with HasUnflushedReleaseLogs.
HasActiveReleaseDeployment(r) ==
    \E d \in Dep : dep[d].rel = r /\ dep[d].state \in {"active", "unclean"}
HasUnflushedReleaseLogs(r) ==
    \E d \in Dep : dep[d].rel = r /\ dep[d].state = "buffered"

Pins == {release[r].pin : r \in {q \in Rel : release[q].exists}}
            \cup {dep[d].pin : d \in {e \in Dep : dep[e].state # "none"}}
PackageRepositoryHasPins(p) == \E pin \in Pins : pin.repo = p

GetProjectArtifactRepository == project.selected

\* What an execution of d reads: its capture, or its release for a legacy row.
DeploymentSecret(d) ==
    IF dep[d].vars = Legacy THEN release[dep[d].rel].secret ELSE dep[d].vars

-----------------------------------------------------------------------------
(* The project: steps, the credential and the package repository. *)

EditSteps ==
    /\ project.steps < MaxEdit
    /\ project' = [project EXCEPT !.steps = @ + 1]
    /\ UNCHANGED <<repo, server, release, dep, job, fetched, got, reading, seen, nextKey>>

\* CreateCredential: a new variables row, refused when the name is taken.
CreateCredential ==
    /\ project.secret = NoSecret /\ project.written < MaxEdit
    /\ project' = [project EXCEPT !.secret = @ + project.written + 1,
                                  !.written = @ + 1, !.rotated = 0]
    /\ UNCHANGED <<repo, server, release, dep, job, fetched, got, reading, seen, nextKey>>

\* DeleteCredential: release snapshots keep their copies.
DeleteCredential ==
    /\ project.secret # NoSecret
    /\ project' = [project EXCEPT !.secret = NoSecret, !.rotated = 0]
    /\ UNCHANGED <<repo, server, release, dep, job, fetched, got, reading, seen, nextKey>>

\* ListLegacyCredentialDeployments, of the releases that hold the variable.
preserveLegacyCredentialDeployments(d) ==
    /\ dep[d].state # "none" /\ dep[d].vars = Legacy
    /\ release[dep[d].rel].secret # NoSecret

\* rotateReleaseCredentials: every release's copy takes the new value, after
\* the executions that still read the release have captured the old one.
rotateReleaseCredentials(value) ==
    /\ dep' = [d \in Dep |-> IF preserveLegacyCredentialDeployments(d)
                             THEN [dep[d] EXCEPT !.vars = DeploymentSecret(d)]
                             ELSE dep[d]]
    /\ release' = [r \in Rel |-> IF release[r].secret # NoSecret
                                 THEN [release[r] EXCEPT !.secret = value]
                                 ELSE release[r]]

\* SaveCredentialRotation with a replacement value.
SaveCredentialRotation ==
    /\ project.secret # NoSecret /\ project.written < MaxEdit
    /\ project' = [project EXCEPT !.secret = project.written + 1,
                                  !.written = @ + 1,
                                  !.rotated = project.written + 1]
    /\ rotateReleaseCredentials(project.written + 1)
    /\ UNCHANGED <<repo, server, job, fetched, got, reading, seen, nextKey>>

removeUnpinnedPackageSource(p, rows) ==
    IF p = 0 \/ PackageRepositoryHasPins(p) THEN rows ELSE [rows EXCEPT ![p] = NoSource]

\* ListPackageRepositoriesBySource, newest first: a retained row is reused.
Retained(src) == {p \in Repo : repo[p] = src /\ \A q \in Repo : repo[q] = src => q <= p}
FreshRepo == {p \in Repo : repo[p] = NoSource /\ ~PackageRepositoryHasPins(p)
                           /\ \A j \in Job : job[j].pin.repo # p}

\* The row SaveProjectPackageRepository writes the source to.
writeProjectPackageSource(src) == IF Retained(src) # {} THEN Retained(src) ELSE FreshRepo

SaveProjectPackageRepository(src) ==
    \E p \in writeProjectPackageSource(src) :
        LET written == [repo EXCEPT ![p] = src] IN
        /\ project' = [project EXCEPT !.selected = p]
        /\ repo' = IF p = project.selected THEN written
                   ELSE removeUnpinnedPackageSource(project.selected, written)
        /\ UNCHANGED <<server, release, dep, job, fetched, got, reading, seen, nextKey>>

\* The settings form and the API.
Save(src) == SaveProjectPackageRepository(src)
SaveAPI(src) == SaveProjectPackageRepository(src)

RemoveProjectPackageRepository ==
    /\ project.selected # 0
    /\ project' = [project EXCEPT !.selected = 0]
    /\ repo' = removeUnpinnedPackageSource(project.selected, repo)
    /\ UNCHANGED <<server, release, dep, job, fetched, got, reading, seen, nextKey>>

Delete == RemoveProjectPackageRepository
DeleteAPI == RemoveProjectPackageRepository

\* External: somebody uploads over the package.
Upload(src, b) ==
    /\ server[src] # b
    /\ server' = [server EXCEPT ![src] = b]
    /\ UNCHANGED <<project, repo, release, dep, job, fetched, got, reading, seen, nextKey>>

-----------------------------------------------------------------------------
(* Building a snapshot. *)

StartBuild(j, r, kind) ==
    /\ job[j].phase = "idle"
    /\ job' = [job EXCEPT ![j] = [NoJob EXCEPT !.phase = "steps", !.kind = kind, !.rel = r]]
    /\ UNCHANGED <<project, repo, server, release, dep, fetched, got, reading, seen, nextKey>>

\* The web form and the API begin the same build; a refresh first looks the
\* release up and, in ValidateRefreshableRelease, decodes its steps.
CreateRelease(j, r) == StartBuild(j, r, "create")
CreateReleaseAPI(j, r) == StartBuild(j, r, "create")
RefreshRelease(j, r) == release[r].exists /\ StartBuild(j, r, "refresh")
RefreshReleaseAPI(j, r) == release[r].exists /\ StartBuild(j, r, "refresh")

\* buildReleaseSnapshot: the steps in one read transaction,
BuildSteps(j) ==
    /\ job[j].phase = "steps"
    /\ job' = [job EXCEPT ![j].phase = "variables", ![j].steps = project.steps]
    /\ UNCHANGED <<project, repo, server, release, dep, fetched, got, reading, seen, nextKey>>

\* and then, outside it, the variables.
BuildVariables(j) ==
    /\ job[j].phase = "variables"
    /\ job' = [job EXCEPT ![j].phase = "package", ![j].secret = project.secret]
    /\ UNCHANGED <<project, repo, server, release, dep, fetched, got, reading, seen, nextKey>>

\* CaptureProjectArtifact: a new release's package is resolved by its first download.
CaptureProjectArtifact(j) ==
    /\ job[j].phase = "package" /\ job[j].kind = "create"
    /\ LET p == GetProjectArtifactRepository IN
       /\ job' = [job EXCEPT
            ![j].phase = "commit",
            ![j].pin = IF p = 0 THEN NoPin
                       ELSE [repo |-> p, src |-> repo[p], sha |-> NoBytes, key |-> nextKey]]
       /\ nextKey' = IF p = 0 THEN nextKey ELSE nextKey + 1
    /\ UNCHANGED <<project, repo, server, release, dep, fetched, got, reading, seen>>

\* ResolveProjectArtifact: a refresh downloads the package now.
ResolveProjectArtifact(j) ==
    /\ job[j].phase = "package" /\ job[j].kind = "refresh"
    /\ LET p == GetProjectArtifactRepository IN
       job' = [job EXCEPT
            ![j].phase = "commit",
            ![j].pin = IF p = 0 THEN NoPin
                       ELSE [repo |-> p, src |-> repo[p], sha |-> server[repo[p]], key |-> 0]]
    /\ UNCHANGED <<project, repo, server, release, dep, fetched, got, reading, seen, nextKey>>

\* A failed read, a failed download, a lost connection or a stopped server.
Abandon(j) ==
    /\ job[j].phase # "idle"
    /\ job' = [job EXCEPT ![j] = NoJob]
    /\ UNCHANGED <<project, repo, server, release, dep, fetched, got, reading, seen, nextKey>>

\* Mutant of SyncRotatedReleaseCredentials: a snapshot read late is trusted.
SyncNothing(secret) == secret

\* SyncRotatedReleaseCredentials: a copy read before a rotation takes its value.
SyncRotatedReleaseCredentials(secret) ==
    IF secret # NoSecret /\ project.rotated # 0 THEN project.secret ELSE secret

\* ArtifactSnapshot.Insert: the source must still be selected and unchanged.
Insert(pin) == pin # NoPin => (project.selected = pin.repo /\ repo[pin.repo] = pin.src)

lockReleaseForRefresh(r) ==
    /\ release[r].exists
    /\ ~HasActiveReleaseDeployment(r) /\ ~HasUnflushedReleaseLogs(r)

WriteSnapshot(j) ==
    /\ Insert(job[j].pin)
    /\ release' = [release EXCEPT ![job[j].rel] =
            [exists |-> TRUE, steps |-> job[j].steps,
             secret |-> SyncRotatedReleaseCredentials(job[j].secret), pin |-> job[j].pin]]
    /\ job' = [job EXCEPT ![j] = NoJob]
    /\ UNCHANGED <<project, repo, server, dep, fetched, got, reading, seen, nextKey>>

\* The transaction of CreateReleaseWithProvenance; the version is unique.
CommitRelease(j) ==
    /\ job[j].phase = "commit" /\ job[j].kind = "create"
    /\ ~release[job[j].rel].exists
    /\ WriteSnapshot(j)

\* The transaction of RefreshReleaseSnapshot.
RefreshReleaseSnapshot(j) ==
    /\ job[j].phase = "commit" /\ job[j].kind = "refresh"
    /\ lockReleaseForRefresh(job[j].rel)
    /\ WriteSnapshot(j)

\* The repository's DeleteRelease: with the history of its deployments.
DeleteReleaseTx(r) ==
    /\ release[r].exists /\ ~HasActiveReleaseDeployment(r)
    /\ release' = [release EXCEPT ![r] = NoRelease]
    /\ dep' = [d \in Dep |-> IF dep[d].rel = r THEN NoDep ELSE dep[d]]
    /\ got' = [d \in Dep |-> IF dep[d].rel = r THEN {} ELSE got[d]]
    /\ seen' = [d \in Dep |-> IF dep[d].rel = r THEN {} ELSE seen[d]]
    /\ reading' = [d \in Dep |-> IF dep[d].rel = r THEN NoRead ELSE reading[d]]
    /\ fetched' = {f \in fetched : dep[f.d].rel # r}
    /\ UNCHANGED <<project, repo, server, job, nextKey>>

DeleteRelease(r) == DeleteReleaseTx(r)
DeleteReleaseAPI(r) == DeleteReleaseTx(r)

-----------------------------------------------------------------------------
(* Deployments. *)

FreshDep(d) == d \notin LegacyDep /\ dep[d].state = "none"

\* snapshotDeploymentVariables: the release's values as they are now.
snapshotDeploymentVariables(r) == release[r].secret

createDeployment(d, r) ==
    /\ FreshDep(d) /\ release[r].exists
    /\ dep' = [dep EXCEPT ![d] =
            [state |-> "active", rel |-> r, steps |-> release[r].steps, frozen |-> TRUE,
             vars |-> snapshotDeploymentVariables(r), pin |-> release[r].pin]]
    /\ UNCHANGED <<project, repo, server, release, job, fetched, got, reading, seen, nextKey>>

\* createDeploymentFromDeployment, for retry, redeploy and rollback: the
\* steps and the package of the source execution, the release's secrets.
createDeploymentFromDeployment(d, s) ==
    /\ FreshDep(d)
    /\ dep[s].state \notin {"none", "unclean"}
    /\ dep' = [dep EXCEPT ![d] =
            [state |-> "active", rel |-> dep[s].rel, frozen |-> TRUE,
             steps |-> IF dep[s].frozen THEN dep[s].steps ELSE release[dep[s].rel].steps,
             vars |-> snapshotDeploymentVariables(dep[s].rel), pin |-> dep[s].pin]]
    /\ UNCHANGED <<project, repo, server, release, job, fetched, got, reading, seen, nextKey>>

\* The outcome of an execution, the subject of DeploymentQueue and Runner.
Ended(d, state) ==
    /\ dep[d].state \in {"active", "unclean", "buffered"}
    /\ dep[d].state = "active" \/ state = "done"
    /\ dep' = [dep EXCEPT ![d].state = state]
    /\ UNCHANGED <<project, repo, server, release, job, fetched, got, reading, seen, nextKey>>

\* DownloadDeploymentArtifact up to the response: a resolved pin must match.
Fetch(d) ==
    /\ dep[d].state = "active" /\ dep[d].pin # NoPin
    /\ LET pin == dep[d].pin
           bytes == server[pin.src] IN
       IF pin.sha = NoBytes
       THEN /\ fetched' = fetched \cup {[d |-> d, key |-> pin.key, bytes |-> bytes]}
            /\ got' = got
       ELSE /\ pin.sha = bytes
            /\ got' = [got EXCEPT ![d] = @ \cup {bytes}]
            /\ fetched' = fetched
    /\ UNCHANGED <<project, repo, server, release, dep, job, reading, seen, nextKey>>

ResolveReleaseArtifacts(pin, key, bytes) ==
    IF pin.key = key /\ pin.sha = NoBytes THEN [pin EXCEPT !.sha = bytes] ELSE pin
ResolveDeploymentArtifacts(pin, key, bytes) ==
    IF pin.key = key /\ pin.sha = NoBytes THEN [pin EXCEPT !.sha = bytes] ELSE pin

\* The pin is unresolved, or was resolved to these bytes while they arrived.
Matches(d, bytes) == dep[d].pin.sha \in {NoBytes, bytes}

\* resolveDeploymentArtifact: the first download to commit decides for every
\* pin with its key; a later one that differs is ErrChecksum.
resolveDeploymentArtifact(f) ==
    /\ f \in fetched
    /\ fetched' = fetched \ {f}
    /\ IF Matches(f.d, f.bytes)
       THEN /\ got' = [got EXCEPT ![f.d] = @ \cup {f.bytes}]
            /\ release' = [r \in Rel |->
                    [release[r] EXCEPT !.pin = ResolveReleaseArtifacts(@, f.key, f.bytes)]]
            /\ dep' = [d \in Dep |->
                    [dep[d] EXCEPT !.pin = ResolveDeploymentArtifacts(@, f.key, f.bytes)]]
       ELSE UNCHANGED <<got, release, dep>>
    /\ UNCHANGED <<project, repo, server, job, reading, seen, nextKey>>

\* ListDeploymentVariables: a captured row is returned at once,
ReadCaptured(d) ==
    /\ dep[d].state = "active" /\ reading[d].at = "idle"
    /\ dep[d].vars \notin {Legacy, NoSecret}
    /\ seen' = [seen EXCEPT ![d] = @ \cup {dep[d].vars}]
    /\ UNCHANGED <<project, repo, server, release, dep, job, fetched, got, reading, nextKey>>

\* otherwise the release is read,
ReadRelease(d) ==
    /\ dep[d].state = "active"
    /\ reading[d].at = "idle" /\ dep[d].vars = Legacy
    /\ reading' = [reading EXCEPT ![d] = [NoRead EXCEPT !.at = "fallback"]]
    /\ UNCHANGED <<project, repo, server, release, dep, job, fetched, got, seen, nextKey>>

ReadFallback(d) ==
    /\ reading[d].at = "fallback"
    /\ reading' = [reading EXCEPT ![d] = [at |-> "recheck",
                                          secret |-> release[dep[d].rel].secret]]
    /\ UNCHANGED <<project, repo, server, release, dep, job, fetched, got, seen, nextKey>>

\* and a capture committed meanwhile wins.  A read that outlives its
\* execution is used for nothing.
Preferred(d) == IF dep[d].vars # Legacy THEN dep[d].vars ELSE reading[d].secret

ReadAgain(d) ==
    /\ reading[d].at = "recheck"
    /\ seen' = IF dep[d].state = "active"
               THEN [seen EXCEPT ![d] = @ \cup {Preferred(d)}] ELSE seen
    /\ reading' = [reading EXCEPT ![d] = NoRead]
    /\ UNCHANGED <<project, repo, server, release, dep, job, fetched, got, nextKey>>

-----------------------------------------------------------------------------
FirstRelease == CHOOSE r \in Rel : \A q \in Rel : r <= q

\* A project with one credential, and one release whose legacy executions,
\* made by an older server, read their variables from it.
ReleaseInit ==
    /\ project = [steps |-> 1, secret |-> FirstSecret, written |-> FirstSecret, rotated |-> 0, selected |-> 0]
    /\ repo = [p \in Repo |-> NoSource]
    /\ server \in [Source -> Bytes]
    /\ release = [r \in Rel |-> IF r = FirstRelease /\ LegacyDep # {}
                                THEN [NoRelease EXCEPT !.exists = TRUE, !.steps = 1, !.secret = FirstSecret]
                                ELSE NoRelease]
    /\ dep = [d \in Dep |-> IF d \in LegacyDep
                            THEN [NoDep EXCEPT !.state = "active", !.rel = FirstRelease, !.steps = 1]
                            ELSE NoDep]
    /\ job = [j \in Job |-> NoJob]
    /\ fetched = {} /\ got = [d \in Dep |-> {}]
    /\ reading = [d \in Dep |-> NoRead] /\ seen = [d \in Dep |-> {}]
    /\ nextKey = 1

ProjectNext ==
    \/ EditSteps \/ CreateCredential \/ DeleteCredential \/ SaveCredentialRotation
    \/ \E src \in Source : Save(src) \/ SaveAPI(src)
    \/ Delete \/ DeleteAPI
    \/ \E src \in Source, b \in Bytes : Upload(src, b)

BuildNext ==
    \E j \in Job :
        \/ \E r \in Rel : \/ CreateRelease(j, r) \/ CreateReleaseAPI(j, r)
                         \/ RefreshRelease(j, r) \/ RefreshReleaseAPI(j, r)
        \/ BuildSteps(j) \/ BuildVariables(j)
        \/ CaptureProjectArtifact(j) \/ ResolveProjectArtifact(j)
        \/ CommitRelease(j) \/ RefreshReleaseSnapshot(j) \/ Abandon(j)

DeploymentNext ==
    \/ \E r \in Rel : DeleteRelease(r) \/ DeleteReleaseAPI(r)
    \/ \E d \in Dep :
        \/ \E r \in Rel : createDeployment(d, r)
        \/ \E s \in Dep : createDeploymentFromDeployment(d, s)
        \/ \E state \in {"done", "unclean", "buffered"} : Ended(d, state)
        \/ Fetch(d)
        \/ ReadCaptured(d) \/ ReadRelease(d) \/ ReadFallback(d) \/ ReadAgain(d)
    \/ \E f \in fetched : resolveDeploymentArtifact(f)

ReleaseNext == ProjectNext \/ BuildNext \/ DeploymentNext

ReleaseSpec == ReleaseInit /\ [][ReleaseNext]_relVars

-----------------------------------------------------------------------------
(* Properties. *)

\* Two pins that share a resolution key name the same package: same source
\* and, once either is resolved, the same checksum (artifact_deferred.go).
PinsAgree ==
    \A p, q \in Pins : (p.key # 0 /\ p.key = q.key) => p = q

\* Whatever is uploaded over a package, and however many agents and servers
\* download it first at once, all executions of a deployment, and of the
\* deployments that share its pin, are given the same bytes.
OnePackage ==
    \A d, e \in Dep :
        \/ dep[d].pin.key # dep[e].pin.key
        \/ dep[d].pin.key = 0 /\ d # e
        \/ \A b \in got[d], c \in got[e] : b = c

\* A pinned package can still be fetched from where it was pinned: the
\* repository row is there and holds the source the URL was made from.
PinnedSource == \A pin \in Pins : pin # NoPin => repo[pin.repo] = pin.src

\* Once a credential is rotated no release carries an older value of it, not
\* even one whose snapshot was read before the rotation and committed after.
RotatedEverywhere ==
    project.rotated # 0 =>
        \A r \in Rel : release[r].exists =>
            release[r].secret = NoSecret \/ release[r].secret >= project.rotated

\* All reads of an execution's variables give one value, also for legacy
\* executions that follow their release and race a rotation or a refresh.
OneSecret == \A d \in Dep : Cardinality(seen[d]) <= 1

\* The steps and secrets of an execution that has not ended never change, and
\* a pin changes only from unresolved to resolved (docs/configuration.md).
ExecutionFrozen ==
    [][\A d \in Dep : dep[d].state \in {"active", "buffered"} /\ dep'[d].state # "none" =>
            /\ dep'[d].steps = dep[d].steps
            /\ DeploymentSecret(d)' = DeploymentSecret(d)
            /\ dep[d].pin.sha # NoBytes => dep'[d].pin = dep[d].pin]_relVars
=============================================================================
