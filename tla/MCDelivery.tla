----------------------------- MODULE MCDelivery -----------------------------
(*****************************************************************************)
(* How a release reaches an environment: Release, Lifecycle, Promotion,      *)
(* ArtifactGate and Environments, each with the requests, retries and        *)
(* restarts that race each other.  A behaviour is about one of them; the     *)
(* module extends Environments and instantiates the others.                  *)
(*****************************************************************************)
EXTENDS Environments, Sequences, TLC

CONSTANTS
    q1, q2, r1, r2, r3, k1,
    c1, c2, d1, d2, none

VARIABLES
    subject,  \* the part a behaviour is about: it never changes
    project, repo, server, release, dep, job, fetched, got, reading, seen,
    nextKey, lc, stage, chosen, form, rel, req, idem, answers, status, age,
    gate, chunks, pin, ref, tag, decision, cancel, stray, faults, produced,
    approved, ran, accepted

everything == <<subject,
    place, setting, edit, deployment, check, run, cancelled, restarts, passed,
    project, repo, server, release, dep, job, fetched, got, reading, seen,
    nextKey, lc, stage, chosen, form, rel, req, idem, answers, status, age,
    gate, chunks, pin, ref, tag, decision, cancel, stray, faults, produced,
    approved, ran, accepted>>
On(part) == subject = part

\* Requests, packages and administrators are interchangeable.
SamePair == Permutations({q1, q2})

\* Development and production with approval; with a test stage between; and
\* one stage, where successive releases replace each other.
TwoStages == <<<<1, "dev", FALSE>>, <<1, "prod", TRUE>>>>
ThreeStages == <<<<1, "dev", FALSE>>, <<1, "test", FALSE>>, <<1, "prod", TRUE>>>>
OneStage == <<<<1, "prod", FALSE>>>>

\* All a save can say of an environment's check: a field may be absent.
AllRequests ==
    [kind : {"none", "http", "bash", "absent"}, target : {"blank", "url", "script", "absent"},
     timeout : {"default", "other", "absent", "zero"}]
\* One check of each kind, and a save that does not name the check.
FewRequests ==
    {r \in AllRequests : <<r.kind, r.target, r.timeout>> \in
        {<<"none", "blank", "default">>, <<"http", "url", "default">>,
         <<"bash", "script", "default">>, <<"absent", "absent", "absent">>}}

-----------------------------------------------------------------------------
\* Deployments are verified, swept and recovered: this is Environments itself,
\* whose constants the configuration gives.

\* Credentials are rotated while releases are built and deployed.
Secrets == INSTANCE Release WITH Rel <- {1}, Dep <- {1, 2}, Job <- {1}, Source
    <- {}, Repo <- {}, Bytes <- {}, LegacyDep <- {1}, FirstSecret <- 1, MaxEdit
    <- 2
\* The package source of a project is edited under a deployment.
Packages == INSTANCE Release WITH Rel <- {1}, Dep <- {1}, Job <- {1}, Source <-
    {q1, q2}, Repo <- {1, 2}, Bytes <- {c1, c2}, LegacyDep <- {}, FirstSecret
    <- 0, MaxEdit <- 0
\* Two deployments share the pin of a package that is uploaded again.
Pins == INSTANCE Release WITH Rel <- {1}, Dep <- {1, 2}, Job <- {1}, Source <-
    {q1}, Repo <- {1}, Bytes <- {c1, c2}, LegacyDep <- {}, FirstSecret <- 0,
    MaxEdit <- 0
\* A lifecycle is chosen by forms that were authorised before.
Forms == INSTANCE Lifecycle WITH LC <- {1, 2}, Env <- {"dev", "prod"}, Stage <-
    {1, 2, 3}, Editor <- {}, Form <- {q1, q2}, MaxPos <- 3, FirstStages <-
    TwoStages
\* The stages of a lifecycle are edited and moved.
Stages == INSTANCE Lifecycle WITH LC <- {1}, Env <- {"dev", "prod"}, Stage <-
    {1, 2, 3}, Editor <- {q1}, Form <- {}, MaxPos <- 3, FirstStages <-
    TwoStages
\* A release through three stages.
Promote == INSTANCE Promotion WITH LC <- {1}, Env <- {"dev", "test", "prod"},
    Stage <- {1, 2, 3}, MaxPos <- 3, FirstStages <- ThreeStages, Rel <- {r1},
    Req <- {q1}, Key <- {}, MaxDep <- 3, Ops <- {"form", "source"}, EditStages
    <- FALSE, Modes <- {TRUE}, Outcomes <- {"succeeded", "failed"}, Editor <-
    {}, Form <- {}
\* The lifecycle changes under its deployments.
Edits == INSTANCE Promotion WITH LC <- {1}, Env <- {"dev", "prod"}, Stage <-
    {1, 2}, MaxPos <- 2, FirstStages <- TwoStages, Rel <- {r1}, Req <- {q1},
    Key <- {}, MaxDep <- 2, Ops <- {"form"}, EditStages <- TRUE, Modes <-
    {FALSE}, Outcomes <- {"succeeded"}, Editor <- {}, Form <- {}
\* Releases replace each other and are rolled back.
Rollback == INSTANCE Promotion WITH LC <- {1}, Env <- {"prod"}, Stage <- {1},
    MaxPos <- 3, FirstStages <- OneStage, Rel <- {r1, r2, r3}, Req <- {q1}, Key
    <- {}, MaxDep <- 4, Ops <- {"form", "rollback"}, EditStages <- FALSE, Modes
    <- {FALSE}, Outcomes <- {"succeeded", "unconfirmed"}, Editor <- {}, Form <-
    {}
\* API requests are repeated under an idempotency key.
Keys == INSTANCE Promotion WITH LC <- {1}, Env <- {"dev", "prod"}, Stage <- {1,
    2}, MaxPos <- 3, FirstStages <- TwoStages, Rel <- {r1}, Req <- {q1, q2},
    Key <- {k1}, MaxDep <- 2, Ops <- {"api"}, EditStages <- FALSE, Modes <-
    {TRUE, FALSE}, Outcomes <- {"succeeded"}, Editor <- {}, Form <- {}
\* Two gates, two administrators, a crash and a lost write.
Gate == INSTANCE ArtifactGate WITH Steps <- 3, Gates <- {0, 1}, Contents <-
    {c1}, Images <- {1, 2}, Admins <- {q1, q2}, None <- none, Life <- 1, Keep
    <- 1, MaxCrashes <- 1, MaxPushes <- 1, MaxErrors <- 1
\* Two gates, whose steps write one of two contents.
Reviewed == INSTANCE ArtifactGate WITH Steps <- 3, Gates <- {0, 1}, Contents <-
    {c1, c2}, Images <- {1, 2}, Admins <- {q1}, None <- none, Life <- 1, Keep
    <- 1, MaxCrashes <- 1, MaxPushes <- 0, MaxErrors <- 0
\* Partial updates of the check of an environment overlap, without deployments.
Check == INSTANCE Environments WITH Request <- AllRequests, Edit <- {q1, q2},
    Deployment <- {d1, d2}, MaxRestarts <- 0

ASSUME Instances ==
    /\ EnvironmentAssumption
    /\ Secrets!ReleaseAssumption
    /\ Packages!ReleaseAssumption
    /\ Pins!ReleaseAssumption
    /\ Forms!LifecycleAssumption
    /\ Stages!LifecycleAssumption
    /\ Promote!PromotionAssumption
    /\ Edits!PromotionAssumption
    /\ Rollback!PromotionAssumption
    /\ Keys!PromotionAssumption
    /\ Gate!ArtifactGateAssumption
    /\ Reviewed!ArtifactGateAssumption
    /\ Check!EnvironmentAssumption

\* The variables of the other parts, which a behaviour leaves alone.
beyondEnvironments == <<project, repo, server, release, dep, job, fetched, got, reading, seen,
    nextKey, lc, stage, chosen, form, rel, req, idem, answers, status, age,
    gate, chunks, pin, ref, tag, decision, cancel, stray, faults, produced,
    approved, ran, accepted>>
beyondRelease == <<place, setting, edit, deployment, check, run, cancelled, restarts, passed,
    lc, stage, chosen, form, rel, req, idem, answers, status, age, gate,
    chunks, pin, ref, tag, decision, cancel, stray, faults, produced, approved,
    ran, accepted>>
beyondLifecycle == <<place, setting, deployment, check, run, cancelled, restarts, passed,
    project, repo, server, release, dep, job, fetched, got, reading, seen,
    nextKey, rel, req, idem, answers, status, age, gate, chunks, pin, ref, tag,
    decision, cancel, stray, faults, produced, approved, ran, accepted>>
beyondPromotion == <<place, setting, deployment, check, run, cancelled, restarts, passed,
    project, repo, server, release, job, fetched, got, reading, seen, nextKey,
    status, age, gate, chunks, pin, ref, tag, decision, cancel, stray, faults,
    produced, approved, ran, accepted>>
beyondArtifactGate == <<place, setting, edit, deployment, check, cancelled, restarts, passed,
    project, repo, release, dep, fetched, got, reading, seen, nextKey, lc,
    stage, chosen, form, rel, req, idem, answers>>

WithoutEnvironments ==
    /\ project = 0 /\ repo = 0 /\ server = 0 /\ release = 0 /\ dep = 0
    /\ job = 0 /\ fetched = 0 /\ got = 0 /\ reading = 0 /\ seen = 0
    /\ nextKey = 0 /\ lc = 0 /\ stage = 0 /\ chosen = 0 /\ form = 0 /\ rel = 0
    /\ req = 0 /\ idem = 0 /\ answers = 0 /\ status = 0 /\ age = 0 /\ gate = 0
    /\ chunks = 0 /\ pin = 0 /\ ref = 0 /\ tag = 0 /\ decision = 0
    /\ cancel = 0 /\ stray = 0 /\ faults = 0 /\ produced = 0 /\ approved = 0
    /\ ran = 0 /\ accepted = 0
WithoutRelease ==
    /\ place = 0 /\ setting = 0 /\ edit = 0
    /\ deployment = [d \in Deployment |-> "none"]
    /\ check = [d \in Deployment |-> NoCheck] /\ run = 0 /\ cancelled = 0
    /\ restarts = 0 /\ passed = {} /\ lc = 0 /\ stage = 0 /\ chosen = 0
    /\ form = 0 /\ rel = 0 /\ req = 0 /\ idem = 0 /\ answers = 0 /\ status = 0
    /\ age = 0 /\ gate = 0 /\ chunks = 0 /\ pin = 0 /\ ref = 0 /\ tag = 0
    /\ decision = 0 /\ cancel = 0 /\ stray = 0 /\ faults = 0 /\ produced = 0
    /\ approved = 0 /\ ran = 0 /\ accepted = 0
WithoutLifecycle ==
    /\ place = 0 /\ setting = 0 /\ deployment = [d \in Deployment |-> "none"]
    /\ check = [d \in Deployment |-> NoCheck] /\ run = 0 /\ cancelled = 0
    /\ restarts = 0 /\ passed = {} /\ project = 0 /\ repo = 0 /\ server = 0
    /\ release = 0 /\ dep = 0 /\ job = 0 /\ fetched = 0 /\ got = 0
    /\ reading = 0 /\ seen = 0 /\ nextKey = 0 /\ rel = 0 /\ req = 0
    /\ idem = 0 /\ answers = 0 /\ status = 0 /\ age = 0 /\ gate = 0
    /\ chunks = 0 /\ pin = 0 /\ ref = 0 /\ tag = 0 /\ decision = 0
    /\ cancel = 0 /\ stray = 0 /\ faults = 0 /\ produced = 0 /\ approved = 0
    /\ ran = 0 /\ accepted = 0
WithoutPromotion ==
    /\ place = 0 /\ setting = 0 /\ deployment = [d \in Deployment |-> "none"]
    /\ check = [d \in Deployment |-> NoCheck] /\ run = 0 /\ cancelled = 0
    /\ restarts = 0 /\ passed = {} /\ project = 0 /\ repo = 0 /\ server = 0
    /\ release = 0 /\ job = 0 /\ fetched = 0 /\ got = 0 /\ reading = 0
    /\ seen = 0 /\ nextKey = 0 /\ status = 0 /\ age = 0 /\ gate = 0
    /\ chunks = 0 /\ pin = 0 /\ ref = 0 /\ tag = 0 /\ decision = 0
    /\ cancel = 0 /\ stray = 0 /\ faults = 0 /\ produced = 0 /\ approved = 0
    /\ ran = 0 /\ accepted = 0
WithoutArtifactGate ==
    /\ place = 0 /\ setting = 0 /\ edit = 0
    /\ deployment = [d \in Deployment |-> "none"]
    /\ check = [d \in Deployment |-> NoCheck] /\ cancelled = 0 /\ restarts = 0
    /\ passed = {} /\ project = 0 /\ repo = 0 /\ release = 0 /\ dep = 0
    /\ fetched = 0 /\ got = 0 /\ reading = 0 /\ seen = 0 /\ nextKey = 0
    /\ lc = 0 /\ stage = 0 /\ chosen = 0 /\ form = 0 /\ rel = 0 /\ req = 0
    /\ idem = 0 /\ answers = 0

DeliveryInit ==
    \/ On("verify") /\ Init /\ WithoutEnvironments
    \/ On("secrets") /\ Secrets!ReleaseInit /\ WithoutRelease
    \/ On("packages") /\ Packages!ReleaseInit /\ WithoutRelease
    \/ On("pins") /\ Pins!ReleaseInit /\ WithoutRelease
    \/ On("forms") /\ Forms!LifecycleInit /\ WithoutLifecycle
    \/ On("stages") /\ Stages!LifecycleInit /\ WithoutLifecycle
    \/ On("promotion") /\ Promote!PromotionInit /\ WithoutPromotion
    \/ On("edits") /\ Edits!PromotionInit /\ WithoutPromotion
    \/ On("rollback") /\ Rollback!PromotionInit /\ WithoutPromotion
    \/ On("keys") /\ Keys!PromotionInit /\ WithoutPromotion
    \/ On("gate") /\ Gate!Init /\ WithoutArtifactGate
    \/ On("contents") /\ Reviewed!Init /\ WithoutArtifactGate
    \/ On("check") /\ Check!Init /\ WithoutEnvironments

DeliveryNext ==
    /\ UNCHANGED subject
    /\ \/ On("verify") /\ Next /\ UNCHANGED beyondEnvironments
       \/ On("secrets") /\ Secrets!ReleaseNext /\ UNCHANGED beyondRelease
       \/ On("packages") /\ Packages!ReleaseNext /\ UNCHANGED beyondRelease
       \/ On("pins") /\ Pins!ReleaseNext /\ UNCHANGED beyondRelease
       \/ On("forms") /\ Forms!LifecycleNext /\ UNCHANGED beyondLifecycle
       \/ On("stages") /\ Stages!LifecycleNext /\ UNCHANGED beyondLifecycle
       \/ On("promotion") /\ Promote!PromotionNext /\ UNCHANGED beyondPromotion
       \/ On("edits") /\ Edits!PromotionNext /\ UNCHANGED beyondPromotion
       \/ On("rollback") /\ Rollback!PromotionNext /\ UNCHANGED beyondPromotion
       \/ On("keys") /\ Keys!PromotionNext /\ UNCHANGED beyondPromotion
       \/ On("gate") /\ Gate!Next /\ UNCHANGED beyondArtifactGate
       \/ On("contents") /\ Reviewed!Next /\ UNCHANGED beyondArtifactGate
       \/ On("check") /\ Check!Configure /\ UNCHANGED beyondEnvironments

DeliverySpec ==
    DeliveryInit /\ [][DeliveryNext]_everything

-----------------------------------------------------------------------------
\* An execution uses one version of every secret and package, the one its
\* release has: a rotation reaches every release and no execution that began,
\* pins agree, and a pin is of the source that was captured.
OneVersion ==
    /\ [](/\ On("secrets") => /\ Secrets!RotatedEverywhere
                              /\ Secrets!OneSecret
          /\ On("packages") => /\ Packages!PinsAgree
                               /\ Packages!OnePackage
                               /\ Packages!PinnedSource
          /\ On("pins") => /\ Pins!PinsAgree
                           /\ Pins!OnePackage)
    /\ [][On("secrets") => Secrets!ExecutionFrozen!1]_everything

\* A deployment is created only behind the earlier stages of its lifecycle and
\* executes only after its approval; a form does not regain a grant that was
\* withdrawn; moving a stage changes nothing but the order; and overlapping
\* partial updates of an environment store a check that is valid as a whole.
PromotionOrder ==
    /\ [](/\ On("promotion") => /\ Promote!PromotionOrder
                                /\ Promote!ApprovedFirst
          /\ On("edits") => Edits!PromotionOrder
          /\ On("check") => /\ Check!TypeOK
                            /\ Check!CheckCoherent)
    /\ [][/\ On("forms") => Forms!NoGrantRegained!1
          /\ On("stages") => Stages!OrderOnly!1
          /\ On("check") => Check!OthersKeepCheck!1]_everything

\* However a request is repeated, one deployment is created under its key; and
\* a rollback deploys the release its page showed.
OnePerKey ==
    /\ On("keys") => Keys!OnePerKey
    /\ On("rollback") => Rollback!RollbackAsShown

\* What is applied behind a gate is what was reviewed and approved, each step
\* once, with the images and the context pinned at its review; a decision stays
\* and a cancellation holds.
AppliesApproved ==
    /\ [](/\ On("gate") => /\ Gate!TypeOK
                           /\ Gate!StepsAtMostOnce
                           /\ Gate!ReviewedBeforeApply
                           /\ Gate!AppliesApproved
                           /\ Gate!ContextKept
                           /\ Gate!PinnedImagesKept
                           /\ Gate!CancelHolds
          /\ On("contents") => Reviewed!AppliesApproved)
    /\ [][On("gate") => Gate!DecisionsStay!1]_everything

\* Resolution keys are issued one per release created.
KeyBound == subject \in {"packages", "pins"} => nextKey <= 2
=============================================================================
