---------------------------- MODULE MCAuthoring ----------------------------
(*****************************************************************************)
(* What a project is made of and what its steps hand on: Steps, Variables,   *)
(* ProjectTemplates and TemplateLibrary, each with the edits of several      *)
(* authors that race each other, and the staged trees of StagingTransfer and *)
(* StagingMerge.  A behaviour is about one of them.                          *)
(*****************************************************************************)
EXTENDS Naturals, FiniteSets, Sequences, TLC

CONSTANTS
    q1, q2,
    u1, u2, p1, p2, l1, n1, e1, e2, a1, a2, none

VARIABLES
    subject,  \* the part a behaviour is about: it never changes
    step, tmpl, version, made, req, row, role, project, template, stages,
    labels, edits, changes, variable, shared, author, lock, applied, request,
    admitted, active, timer, run, draining, stored, input, now, wait, idle,
    base, outputs, merger, next, todo, pc, archive, readBack

everything == <<subject,
    step, tmpl, version, made, req, row, role, project, template, stages,
    labels, edits, changes, variable, shared, author, lock, applied, request,
    admitted, active, timer, run, draining, stored, input, now, wait, idle,
    base, outputs, merger, next, todo, pc, archive, readBack>>
On(part) == subject = part

\* Requests of the library's users are interchangeable.
SameRequests == Permutations({q1, q2})

Step(p, o, t, i, l) == [project |-> p, sort |-> o, target |-> t, image |-> i, selectors |-> l]
Template(n, t, i, l) == [name |-> n, target |-> t, image |-> i, selectors |-> l]

\* Three steps of one project and one of another.
Three == <<Step("a", 1, "local", TRUE, {}), Step("a", 2, "agent", FALSE, {1}),
           Step("a", 3, "local", TRUE, {}), Step("b", 1, "local", TRUE, {})>>

\* A legacy step, and one that runs on an agent; the same as templates.
Old == <<Step("a", 1, "local", FALSE, {}), Step("a", 2, "agent", FALSE, {1})>>
OldTemplates == <<Template("x", "agent", FALSE, {1}), Template("y", "local", FALSE, {})>>

Row(owner, env, value, secret, cred) ==
    [live |-> TRUE, owner |-> owner, name |-> n1, env |-> env, value |-> value,
     secret |-> secret, cred |-> cred, rev |-> 0]

\* A secret and a plain variable of one project, a secret of another.
StartProject ==
    [variable |-> <<Row(p1, none, 101, TRUE, FALSE), Row(p1, e1, 102, FALSE, FALSE),
                    Row(p2, none, 103, TRUE, FALSE)>>,
     lifecycle |-> <<>>, package |-> <<>>]

\* Two legacy rows without a scope that have one name, and a shared variable.
StartDuplicates ==
    [variable |-> <<Row(p1, none, 101, TRUE, FALSE), Row(p1, none, 102, TRUE, FALSE)>>,
     lifecycle |-> <<Row(l1, none, 103, FALSE, FALSE)>>, package |-> <<>>]

\* A shared secret, a shared credential, and a package source with a credential.
StartShared ==
    [variable |-> <<>>,
     lifecycle |-> <<Row(l1, none, 101, TRUE, FALSE), Row(l1, e1, 102, TRUE, TRUE)>>,
     package |-> <<Row(p1, none, 103, TRUE, TRUE)>>]

\* The library: the second version of the service needs a variable more.
Entries == {"service", "health"}
EntryVariables == [e \in Entries |->
    IF e = "health" THEN <<{"url"}, {"url"}>> ELSE <<{"path"}, {"path", "url"}>>]
EntrySteps == [e \in Entries |-> IF e = "health" THEN <<1, 1>> ELSE <<2, 2>>]

\* A file beside a directory with two entries, and a chain of directories.
SmallTree == {<<"a">>, <<"d">>, <<"d", "x">>, <<"d", "y">>}
DeepTree == {<<"d">>, <<"d", "x">>, <<"d", "x", "z">>}

-----------------------------------------------------------------------------
\* Steps are created, edited, moved and deleted.
Ordering == INSTANCE Steps WITH Project <- {"a", "b"}, Label <- {1}, Name <-
    {"x", "y"}, Order <- {0}, Ops <- {"CreateStepPage", "CreateStepAPI",
    "UpdateStepPage", "UpdateStepAPI", "DeleteStepPage", "DeleteStepAPI",
    "ReorderStep", "ReorderSteps"}, StartSteps <- Three, StartTemplates <-
    <<>>, MaxRequests <- 2, MaxSteps <- 6, MaxTemplates <- 1
\* Steps are moved down while another goes.
Moving == INSTANCE Steps WITH Project <- {"a", "b"}, Label <- {1}, Name <-
    {"x", "y"}, Order <- {0, 3}, Ops <- {"DeleteStepAPI", "ReorderStep",
    "ReorderSteps"}, StartSteps <- Three, StartTemplates <- <<>>, MaxRequests
    <- 2, MaxSteps <- 6, MaxTemplates <- 1
\* Step templates are edited while they are inserted.
Inserting == INSTANCE Steps WITH Project <- {"a"}, Label <- {1}, Name <- {"x",
    "y"}, Order <- {1}, Ops <- {"CreateTemplatePage", "CreateTemplateAPI",
    "UpdateTemplatePage", "UpdateTemplateAPI", "DeleteTemplatePage",
    "DeleteTemplateAPI", "InsertTemplate", "SaveStepAsTemplate"}, StartSteps <-
    Old, StartTemplates <- OldTemplates, MaxRequests <- 2, MaxSteps <- 4,
    MaxTemplates <- 3
\* Variables of two projects are edited, enrolled and rotated.
Own == INSTANCE Variables WITH Project <- {p1, p2}, LC <- {l1}, Name <- {n1},
    Reserved <- {}, Env <- {e1}, NoEnv <- none, NoLC <- none, LifecycleOf <-
    (p1 :> l1 @@ p2 :> none), Stages <- (l1 :> {e1}), Ops <- {"update",
    "enroll", "rotate", "deleteCredential"}, Start <- StartProject, MaxRequests
    <- 2, MaxRows <- 3
\* Overrides of a name in several scopes.
Scopes == INSTANCE Variables WITH Project <- {p1}, LC <- {l1}, Name <- {n1},
    Reserved <- {"bad"}, Env <- {e1}, NoEnv <- none, NoLC <- none, LifecycleOf
    <- (p1 :> l1), Stages <- (l1 :> {e1}), Ops <- {"create", "delete",
    "createCredential", "enroll", "rotate"}, Start <- StartDuplicates,
    MaxRequests <- 2, MaxRows <- 4
\* Variables and credentials of a lifecycle, and package sources.
Shared == INSTANCE Variables WITH Project <- {p1}, LC <- {l1}, Name <- {n1},
    Reserved <- {}, Env <- {e1}, NoEnv <- none, NoLC <- none, LifecycleOf <-
    (p1 :> l1), Stages <- (l1 :> {e1}), Ops <- {"save", "deleteShared",
    "createCredential", "enroll", "deleteCredential", "rotate", "source"},
    Start <- StartShared, MaxRequests <- 2, MaxRows <- 3
\* Projects become templates and templates projects.
Copying == INSTANCE ProjectTemplates WITH User <- {u1}, Request <- {q1}, Env <-
    {e1}, NoEnv <- none, Lifecycle <- {l1}, NoLC <- none, Label <- {1},
    MaxProjects <- 2, MaxTemplates <- 2, MaxEdits <- 2, MaxChanges <- 0
\* The author loses the role or the membership meanwhile.
Authors == INSTANCE ProjectTemplates WITH User <- {u1}, Request <- {q1}, Env <-
    {e1, e2}, NoEnv <- none, Lifecycle <- {l1}, NoLC <- none, Label <- {1},
    MaxProjects <- 2, MaxTemplates <- 1, MaxEdits <- 1, MaxChanges <- 1
\* Two entries of the library are applied at once, the server is replaced.
Library == INSTANCE TemplateLibrary WITH Request <- {q1, q2}, User <- {u1, u2},
    Entry <- Entries, Name <- {"url", "path"}, Variables <- EntryVariables,
    Steps <- EntrySteps, MaxVersion <- 2, MaxOrder <- 6, MaxChanges <- 2
\* Transfers against the timeout of their step.
Transfers == INSTANCE StagingTransfer WITH Agents <- {a1}, Requests <- {q1,
    q2}, Outputs <- {1, 2}, PerAgent <- 2, Global <- 2, Timeout <- 2, MaxTime
    <- 2, Drains <- FALSE
\* The same while the server stops.
Drain == INSTANCE StagingTransfer WITH Agents <- {a1}, Requests <- {q1, q2},
    Outputs <- {1}, PerAgent <- 2, Global <- 2, Timeout <- 2, MaxTime <- 2,
    Drains <- TRUE
\* Requests of two agents, of which each has one place.
Limits == INSTANCE StagingTransfer WITH Agents <- {a1, a2}, Requests <- {q1,
    q2}, Outputs <- {1}, PerAgent <- 1, Global <- 2, Timeout <- 2, MaxTime <-
    0, Drains <- FALSE
\* Requests of two agents, who have one place between them.
Crowd == INSTANCE StagingTransfer WITH Agents <- {a1, a2}, Requests <- {q1,
    q2}, Outputs <- {1}, PerAgent <- 1, Global <- 1, Timeout <- 2, MaxTime <-
    0, Drains <- FALSE
\* Outputs of two agents over a small tree.
Merge == INSTANCE StagingMerge WITH Paths <- SmallTree, Contents <- {1, 2},
    Outputs <- 2, Entries <- 3, PayloadBytes <- 3, EntryVisits <- 9
\* Outputs of three agents over a chain of directories.
Deep == INSTANCE StagingMerge WITH Paths <- DeepTree, Contents <- {1, 2},
    Outputs <- 3, Entries <- 3, PayloadBytes <- 3, EntryVisits <- 20

ASSUME Instances ==
    /\ Ordering!StepsAssumption
    /\ Moving!StepsAssumption
    /\ Inserting!StepsAssumption
    /\ Own!VariablesAssumption
    /\ Scopes!VariablesAssumption
    /\ Shared!VariablesAssumption
    /\ Copying!TemplatesAssumption
    /\ Authors!TemplatesAssumption
    /\ Library!LibraryAssumption
    /\ Transfers!TransferAssumption
    /\ Drain!TransferAssumption
    /\ Limits!TransferAssumption
    /\ Crowd!TransferAssumption
    /\ Merge!MergeAssumption
    /\ Deep!MergeAssumption

\* The variables of the other parts, which a behaviour leaves alone.
beyondSteps == <<row, role, project, template, stages, labels, edits, changes, variable,
    shared, author, lock, applied, request, admitted, active, timer, run,
    draining, stored, input, now, wait, idle, base, outputs, merger, next,
    todo, pc, archive, readBack>>
beyondVariables == <<step, tmpl, version, role, project, template, stages, labels, edits,
    changes, variable, shared, author, lock, applied, request, admitted,
    active, timer, run, draining, stored, input, now, wait, idle, base,
    outputs, merger, next, todo, pc, archive, readBack>>
beyondProjectTemplates == <<step, tmpl, version, made, row, variable, shared, author, lock, applied,
    request, admitted, active, timer, run, draining, stored, input, now, wait,
    idle, base, outputs, merger, next, todo, pc, archive, readBack>>
beyondTemplateLibrary == <<tmpl, made, row, role, project, template, stages, labels, edits, request,
    admitted, active, timer, run, draining, stored, input, now, wait, idle,
    base, outputs, merger, next, todo, pc, archive, readBack>>
beyondStagingTransfer == <<step, tmpl, version, made, req, row, role, project, template, stages,
    labels, edits, changes, variable, shared, author, lock, applied, base,
    outputs, merger, next, todo, pc, archive, readBack>>
beyondStagingMerge == <<step, tmpl, version, made, req, row, role, project, template, stages,
    labels, edits, changes, variable, shared, author, lock, applied, request,
    admitted, active, timer, run, draining, stored, input, now, wait, idle>>

WithoutSteps ==
    /\ row = 0 /\ role = 0 /\ project = 0 /\ template = 0 /\ stages = 0
    /\ labels = 0 /\ edits = 0 /\ changes = 0 /\ variable = 0 /\ shared = 0
    /\ author = 0 /\ lock = 0 /\ applied = 0 /\ request = 0 /\ admitted = 0
    /\ active = 0 /\ timer = 0 /\ run = 0 /\ draining = 0 /\ stored = 0
    /\ input = 0 /\ now = 0 /\ wait = 0 /\ idle = 0 /\ base = 0 /\ outputs = 0
    /\ merger = 0 /\ next = 0 /\ todo = 0 /\ pc = 0 /\ archive = 0
    /\ readBack = 0
WithoutVariables ==
    /\ step = 0 /\ tmpl = 0 /\ version = 0 /\ role = 0 /\ project = 0
    /\ template = 0 /\ stages = 0 /\ labels = 0 /\ edits = 0 /\ changes = 0
    /\ variable = 0 /\ shared = 0 /\ author = 0 /\ lock = 0 /\ applied = 0
    /\ request = 0 /\ admitted = 0 /\ active = 0 /\ timer = 0 /\ run = 0
    /\ draining = 0 /\ stored = 0 /\ input = 0 /\ now = 0 /\ wait = 0
    /\ idle = 0 /\ base = 0 /\ outputs = 0 /\ merger = 0 /\ next = 0
    /\ todo = 0 /\ pc = 0 /\ archive = 0 /\ readBack = 0
WithoutProjectTemplates ==
    /\ step = 0 /\ tmpl = 0 /\ version = 0 /\ made = 0 /\ row = 0
    /\ variable = 0 /\ shared = 0 /\ author = 0 /\ lock = 0 /\ applied = 0
    /\ request = 0 /\ admitted = 0 /\ active = 0 /\ timer = 0 /\ run = 0
    /\ draining = 0 /\ stored = 0 /\ input = 0 /\ now = 0 /\ wait = 0
    /\ idle = 0 /\ base = 0 /\ outputs = 0 /\ merger = 0 /\ next = 0
    /\ todo = 0 /\ pc = 0 /\ archive = 0 /\ readBack = 0
WithoutTemplateLibrary ==
    /\ tmpl = 0 /\ made = 0 /\ row = 0 /\ role = 0 /\ project = 0
    /\ template = 0 /\ stages = 0 /\ labels = 0 /\ edits = 0 /\ request = 0
    /\ admitted = 0 /\ active = 0 /\ timer = 0 /\ run = 0 /\ draining = 0
    /\ stored = 0 /\ input = 0 /\ now = 0 /\ wait = 0 /\ idle = 0 /\ base = 0
    /\ outputs = 0 /\ merger = 0 /\ next = 0 /\ todo = 0 /\ pc = 0
    /\ archive = 0 /\ readBack = 0
WithoutStagingTransfer ==
    /\ step = 0 /\ tmpl = 0 /\ version = 0 /\ made = 0 /\ req = 0 /\ row = 0
    /\ role = 0 /\ project = 0 /\ template = 0 /\ stages = 0 /\ labels = 0
    /\ edits = 0 /\ changes = 0 /\ variable = 0 /\ shared = 0 /\ author = 0
    /\ lock = 0 /\ applied = 0 /\ base = 0 /\ outputs = 0 /\ merger = 0
    /\ next = 0 /\ todo = 0 /\ pc = 0 /\ archive = 0 /\ readBack = 0
WithoutStagingMerge ==
    /\ step = 0 /\ tmpl = 0 /\ version = 0 /\ made = 0 /\ req = 0 /\ row = 0
    /\ role = 0 /\ project = 0 /\ template = 0 /\ stages = 0 /\ labels = 0
    /\ edits = 0 /\ changes = 0 /\ variable = 0 /\ shared = 0 /\ author = 0
    /\ lock = 0 /\ applied = 0 /\ request = 0 /\ admitted = 0 /\ active = 0
    /\ timer = 0 /\ run = 0 /\ draining = 0 /\ stored = 0 /\ input = 0
    /\ now = 0 /\ wait = 0 /\ idle = 0

Init ==
    \/ On("order") /\ Ordering!Init /\ WithoutSteps
    \/ On("moves") /\ Moving!Init /\ WithoutSteps
    \/ On("insert") /\ Inserting!Init /\ WithoutSteps
    \/ On("variables") /\ Own!Init /\ WithoutVariables
    \/ On("scopes") /\ Scopes!Init /\ WithoutVariables
    \/ On("shared") /\ Shared!Init /\ WithoutVariables
    \/ On("templates") /\ Copying!Init /\ WithoutProjectTemplates
    \/ On("authors") /\ Authors!Init /\ WithoutProjectTemplates
    \/ On("library") /\ Library!Init /\ WithoutTemplateLibrary
    \/ On("transfers") /\ Transfers!Init /\ WithoutStagingTransfer
    \/ On("drain") /\ Drain!Init /\ WithoutStagingTransfer
    \/ On("limits") /\ Limits!Init /\ WithoutStagingTransfer
    \/ On("crowd") /\ Crowd!Init /\ WithoutStagingTransfer
    \/ On("merge") /\ Merge!Init /\ WithoutStagingMerge
    \/ On("deep") /\ Deep!Init /\ WithoutStagingMerge

Next ==
    /\ UNCHANGED subject
    /\ \/ On("order") /\ Ordering!Next /\ UNCHANGED beyondSteps
       \/ On("moves") /\ Moving!Next /\ UNCHANGED beyondSteps
       \/ On("insert") /\ Inserting!Next /\ UNCHANGED beyondSteps
       \/ On("variables") /\ Own!Next /\ UNCHANGED beyondVariables
       \/ On("scopes") /\ Scopes!Next /\ UNCHANGED beyondVariables
       \/ On("shared") /\ Shared!Next /\ UNCHANGED beyondVariables
       \/ On("templates") /\ Copying!Next /\ UNCHANGED beyondProjectTemplates
       \/ On("authors") /\ Authors!Next /\ UNCHANGED beyondProjectTemplates
       \/ On("library") /\ Library!Next /\ UNCHANGED beyondTemplateLibrary
       \/ On("transfers") /\ Transfers!Next /\ UNCHANGED beyondStagingTransfer
       \/ On("drain") /\ Drain!Next /\ UNCHANGED beyondStagingTransfer
       \/ On("limits") /\ Limits!Next /\ UNCHANGED beyondStagingTransfer
       \/ On("crowd") /\ Crowd!Next /\ UNCHANGED beyondStagingTransfer
       \/ On("merge") /\ Merge!Next /\ UNCHANGED beyondStagingMerge
       \/ On("deep") /\ Deep!Next /\ UNCHANGED beyondStagingMerge

Spec ==
    Init /\ [][Next]_everything

-----------------------------------------------------------------------------
\* A reorder moves one step and keeps the others in their order, and a request
\* touches only its own project; the newest version of a template is the
\* template, versions never change, and an insertion is of one version.
StepsStay ==
    /\ [](/\ On("order") => Ordering!TypeOK
          /\ On("insert") => /\ Inserting!TypeOK
                             /\ Inserting!LatestVersionIsTemplate)
    /\ [][/\ On("order") => /\ Ordering!OnlyOwnProject!1
                            /\ Ordering!ReorderMovesOneStep!1
          /\ On("moves") => Moving!ReorderMovesOneStep!1
          /\ On("insert") => /\ Inserting!VersionsStay!1
                             /\ Inserting!InsertIsOneVersion!1]_everything

\* An edit or rotation writes a row only as its author saw it; credentials are
\* spared by edits of variables, a reset inherits again, a rotation is refused
\* while its name is ambiguous, and a blank shared secret keeps its value.
WrittenAsSeen ==
    /\ [](/\ On("variables") => Own!TypeOK
          /\ On("scopes") => Scopes!TypeOK
          /\ On("shared") => Shared!TypeOK)
    /\ [][/\ On("variables") => /\ Own!WrittenAsSeen!1
                                /\ Own!CredentialsSpared!1
          /\ On("shared") => /\ Shared!WrittenAsSeen!1
                             /\ Shared!CredentialsSpared!1
                             /\ Shared!BlankKeepsShared!1
          /\ On("scopes") => /\ Scopes!CredentialsSpared!1
                             /\ Scopes!ResetInherits!1
                             /\ Scopes!RotationUnambiguous!1]_everything

\* What a template creates is what was reviewed, by authors who still may, from
\* one definition; secrets are given afresh and never copied; and applications
\* of the library at once neither overlap nor apply another version than the
\* one reviewed.
CreatedAsReviewed ==
    /\ [](/\ On("templates") => /\ Copying!TypeOK
                                /\ Copying!NoSecretCopied
          /\ On("library") => /\ Library!TypeOK
                              /\ Library!ApplicationsApart
                              /\ Library!AppliesReviewed)
    /\ [][/\ On("templates") => /\ Copying!FreshSecrets!1
                                /\ Copying!CreatedAsReviewed!1
          /\ On("authors") => /\ Authors!AuthorsOnly!1
                              /\ Authors!OneDefinition!1]_everything

\* The time of transfers is not charged to their step and the time between them
\* is; transfers give their places back and keep the limits; nothing
\* unpublished is left and a published output stays; whatever the order in
\* which the paths are compared, the outputs of a step are merged to the three-
\* way merge of their trees, or refused for a conflict or a limit, and the next
\* step reads what was merged.
StagingHolds ==
    /\ [](/\ On("transfers") => /\ Transfers!TypeOK
                                /\ Transfers!TransfersAreFree
                                /\ Transfers!IdleIsCharged
                                /\ Transfers!NothingLeft
          /\ On("merge") => /\ Merge!TypeOK
                            /\ Merge!MergedIsThreeWay
                            /\ Merge!RefusedForReason
                            /\ Merge!ReadsWhatWasMerged
          /\ On("drain") => Drain!TransfersAreFree
          /\ On("limits") => /\ Limits!LimitsHold
                             /\ Limits!NothingLeft
          /\ On("crowd") => /\ Crowd!LimitsHold
                            /\ Crowd!NothingLeft
          /\ On("deep") => /\ Deep!MergedIsThreeWay
                           /\ Deep!RefusedForReason
                           /\ Deep!ReadsWhatWasMerged)
    /\ [][On("transfers") => Transfers!OutputStays!1]_everything
=============================================================================
