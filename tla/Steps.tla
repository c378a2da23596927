------------------------------- MODULE Steps -------------------------------
(***************************************************************************)
(* The steps of a project and the step templates they are copied from.     *)
(* A handler validates the request, reads the rows it needs outside any    *)
(* transaction and writes in one transaction of its own, so a request is   *)
(* one or two reads followed by a write, and other requests come between.  *)
(* A reorder writes back whole rows: the content it read with a new        *)
(* sort_order.  Every write of a template also appends a version.          *)
(***************************************************************************)
EXTENDS Integers, FiniteSets, FiniteSetsExt, SequencesExt

CONSTANTS
    Project,        \* projects, which stay
    Label,          \* labels some agent has, in their order
    Name,           \* names of templates
    Order,          \* values of sort_order and new_order requests carry
    Ops,            \* requests an instance makes
    StartSteps,     \* steps there are at first
    StartTemplates, \* templates there are at first, each with its version 1
    MaxRequests,    \* bound on requests
    MaxSteps,       \* bound on step ids
    MaxTemplates    \* bound on template ids

StepsAssumption ==
    /\ Label \subseteq Nat \ {0} /\ Order \subseteq Nat
    /\ MaxRequests \in Nat /\ Len(StartSteps) <= MaxSteps /\ Len(StartTemplates) <= MaxTemplates

VARIABLES
    step,       \* steps with their selectors, by id
    tmpl,       \* step_templates with their selectors, by id
    version,    \* step_template_versions with their selectors
    made,       \* steps and templates inserted so far (AUTOINCREMENT)
    req         \* requests, in the order of their arrival

vars == <<step, tmpl, version, made, req>>

Target == {"local", "agent"}
Mode == {"host", "container"}
Request == 1 .. MaxRequests
StepID == 1 .. MaxSteps
TemplateID == 1 .. MaxTemplates

\* What a step runs: script and settings, named by the request that wrote them,
\* whether there is a container image, and the execution mode on an agent.
Content == [by : 0 .. MaxRequests, image : BOOLEAN, mode : Mode]
Placement == [target : Target, selectors : SUBSET Label]

NoStep == [live |-> FALSE]
NoTemplate == [live |-> FALSE]
NoReq == [op |-> "none", pc |-> "none"]

Live(s) == step[s].live
StepsOf(p) == {s \in StepID : Live(s) /\ step[s].project = p}

-----------------------------------------------------------------------------
(* Validation. *)

\* agentexecution.Parse with validateStepContainerConfig: a local step needs an
\* image and no mode, a step on an agent has an image in container mode only.
ValidateStepExecutionConfig(target, c) ==
    IF target = "local" THEN c.mode = "host" /\ c.image ELSE (c.mode = "container") = c.image

\* Labels are those of some agent; a local step has none.
ValidateStepPlacement(target, labels) == IF target = "agent" THEN labels ELSE {}

\* A definition that passes validation, written by request r.
Definition(r) ==
    {d \in [content : {c \in Content : c.by = r}, placement : Placement] :
        /\ ValidateStepExecutionConfig(d.placement.target, d.content)
        /\ d.placement.selectors = ValidateStepPlacement(d.placement.target, d.placement.selectors)}

\* A form names one label at most.
FormDefinition(r) == {d \in Definition(r) : Cardinality(d.placement.selectors) <= 1}

-----------------------------------------------------------------------------
(* Queries and repository operations. *)

\* getProjectStep: the step belongs to the project of the URL.
getProjectStep(p, s) == Live(s) /\ step[s].project = p

ListStepsByProject(p) ==
    {[id |-> s, sort |-> step[s].sort, content |-> step[s].content] : s \in StepsOf(p)}

\* The sort_order of a step that is appended to those read.
Appended(rows) == Max({0} \cup {x.sort + 1 : x \in rows})

\* setStepPlacement: selectors only with the target "agent".
setStepPlacement(target, labels) ==
    [target |-> target, selectors |-> IF target = "agent" THEN labels ELSE {}]

CreateStepWithPlacement(p, sort, c, target, labels) ==
    LET id == made.steps + 1 IN
    /\ id \in StepID
    /\ step' = [step EXCEPT ![id] = [live |-> TRUE, project |-> p, sort |-> sort, content |-> c,
                                     placement |-> setStepPlacement(target, labels)]]
    /\ made' = [made EXCEPT !.steps = id]
    /\ UNCHANGED <<tmpl, version>>

\* No row: sql.ErrNoRows, and nothing is written.
UpdateStepWithPlacement(s, sort, c, target, labels) ==
    /\ IF Live(s)
       THEN step' = [step EXCEPT ![s].sort = sort, ![s].content = c,
                                 ![s].placement = setStepPlacement(target, labels)]
       ELSE UNCHANGED step
    /\ UNCHANGED <<tmpl, version, made>>

DeleteStep(s) ==
    /\ step' = [step EXCEPT ![s] = NoStep]
    /\ UNCHANGED <<tmpl, version, made>>

\* UpdateStep: the whole row but the placement, which has columns of its own.
UpdateStep(row, sort) == [step[row.id] EXCEPT !.sort = sort, !.content = row.content]

\* The transaction of a reorder: every row or, when one is gone, none.
WriteRows(rows, sort) ==
    /\ step' = IF \A x \in rows : Live(x.id)
               THEN [s \in StepID |-> IF \E x \in rows : x.id = s
                                      THEN UpdateStep(CHOOSE x \in rows : x.id = s, sort[s])
                                      ELSE step[s]]
               ELSE step
    /\ UNCHANGED <<tmpl, version, made>>

\* setTemplatePlacement and setTemplateVersionPlacement write the same.
setTemplatePlacement(target, labels) ==
    [target |-> target, selectors |-> IF target = "agent" THEN labels ELSE {}]

NameTaken(n, but) == \E t \in TemplateID \ {but} : tmpl[t].live /\ tmpl[t].name = n

VersionsOf(t) == {v \in version : v.template = t}

GetLatestStepTemplateVersionNumber(t) == Max({0} \cup {v.number : v \in VersionsOf(t)})

CreateStepTemplateVersion(t, n, c, placement) ==
    [template |-> t, number |-> n, content |-> c, placement |-> placement]

\* A name that is taken is a conflict: nothing is written.
CreateStepTemplateWithPlacement(n, c, target, labels) ==
    LET id == made.templates + 1
        placement == setTemplatePlacement(target, labels) IN
    /\ id \in TemplateID
    /\ IF NameTaken(n, 0)
       THEN UNCHANGED <<tmpl, version, made>>
       ELSE /\ tmpl' = [tmpl EXCEPT ![id] = [live |-> TRUE, name |-> n, content |-> c,
                                             placement |-> placement]]
            /\ version' = version \cup {CreateStepTemplateVersion(id, 1, c, placement)}
            /\ made' = [made EXCEPT !.templates = id]
    /\ UNCHANGED step

\* Mutant: the version is the template as the request read it.
VersionBehind(t, n, c, target, labels) ==
    LET placement == setTemplatePlacement(target, labels) IN
    /\ IF ~tmpl[t].live \/ NameTaken(n, t)
       THEN UNCHANGED <<tmpl, version>>
       ELSE /\ tmpl' = [tmpl EXCEPT ![t].name = n, ![t].content = c, ![t].placement = placement]
            /\ version' = version \cup {CreateStepTemplateVersion(
                   t, GetLatestStepTemplateVersionNumber(t) + 1, c, tmpl[t].placement)}
    /\ UNCHANGED <<step, made>>

UpdateStepTemplateWithPlacement(t, n, c, target, labels) ==
    LET placement == setTemplatePlacement(target, labels) IN
    /\ IF ~tmpl[t].live \/ NameTaken(n, t)
       THEN UNCHANGED <<tmpl, version>>
       ELSE /\ tmpl' = [tmpl EXCEPT ![t].name = n, ![t].content = c, ![t].placement = placement]
            /\ version' = version \cup {CreateStepTemplateVersion(
                   t, GetLatestStepTemplateVersionNumber(t) + 1, c, placement)}
    /\ UNCHANGED <<step, made>>

\* DeleteStepTemplate: the selectors of its versions, then the row, which takes
\* its versions with it.
DeleteStepTemplate(t) ==
    /\ tmpl' = [tmpl EXCEPT ![t] = NoTemplate]
    /\ version' = version \ VersionsOf(t)
    /\ UNCHANGED <<step, made>>

-----------------------------------------------------------------------------
(* Requests: the handlers of the pages and of the API. *)

\* Request r arrives, as one the instance makes, and reads.
Arrives(r, op, fields) ==
    /\ op \in Ops
    /\ req[r] = NoReq /\ \A q \in 1 .. r - 1 : req[q] # NoReq
    /\ req' = [req EXCEPT ![r] = [op |-> op] @@ fields]

Reads == UNCHANGED <<step, tmpl, version, made>>

Done(r) == req' = [req EXCEPT ![r] = [op |-> req[r].op, pc |-> "done"]]

\* A request that reads nothing: it is done when it has written.
AtOnce(r, op) == Arrives(r, op, [pc |-> "done"])

\* Up to the write of a new step: validation and its sort_order.
CreateStepRead(r, op, definitions) ==
    /\ \E p \in Project, d \in definitions, o \in Order :
        Arrives(r, op, [pc |-> "write", project |-> p, def |-> d,
                        sort |-> IF o > 0 THEN o ELSE Appended(ListStepsByProject(p))])
    /\ Reads

CreateStepPage(r) == CreateStepRead(r, "CreateStepPage", FormDefinition(r))

CreateStepAPI(r) == CreateStepRead(r, "CreateStepAPI", Definition(r))

Legacy(s) == step[s].placement.target = "local" /\ ~step[s].content.image

\* A legacy step cannot be edited on the page.
UpdateStepPage(r) ==
    /\ \E p \in Project, s \in StepID, d \in FormDefinition(r), o \in Order :
        /\ getProjectStep(p, s) /\ ~Legacy(s)
        /\ Arrives(r, "UpdateStepPage",
                   [pc |-> "second", project |-> p, id |-> s, def |-> d, sort |-> o])
    /\ Reads

\* The page keeps all the labels of the step when the form names the first.
placementOptions(r) ==
    LET d == req[r].def
        selected == IF Live(req[r].id) THEN step[req[r].id].placement.selectors ELSE {}
        first == IF selected = {} THEN {} ELSE {Min(selected)} IN
    /\ req[r].pc = "second" /\ req[r].op = "UpdateStepPage"
    /\ req' = [req EXCEPT ![r].pc = "write",
            ![r].def.placement.selectors =
                IF d.placement.target = "agent" /\ d.placement.selectors = first THEN selected ELSE @]
    /\ Reads

UpdateStepAPI(r) ==
    /\ \E p \in Project, s \in StepID, d \in Definition(r), o \in Order :
        /\ getProjectStep(p, s)
        /\ Arrives(r, "UpdateStepAPI",
                   [pc |-> "write", project |-> p, id |-> s, def |-> d, sort |-> o])
    /\ Reads

DeleteStepRead(r, op) ==
    /\ \E p \in Project, s \in StepID :
        /\ getProjectStep(p, s)
        /\ Arrives(r, op, [pc |-> "write", project |-> p, id |-> s])
    /\ Reads

DeleteStepPage(r) == DeleteStepRead(r, "DeleteStepPage")

DeleteStepAPI(r) == DeleteStepRead(r, "DeleteStepAPI")

\* One step is given a new order; the order it has is no change.
ReorderStep(r) ==
    /\ \E p \in Project, s \in StepID, n \in Order :
        /\ s \in StepsOf(p) /\ step[s].sort # n
        /\ Arrives(r, "ReorderStep", [pc |-> "write", project |-> p, id |-> s, sort |-> n,
                                      rows |-> ListStepsByProject(p)])
    /\ Reads

\* Every step of the project, as read, exactly once.
ReorderSteps(r) ==
    /\ \E p \in Project : \E ids \in SetToSeqs(StepsOf(p)) :
        Arrives(r, "ReorderSteps", [pc |-> "write", project |-> p, ids |-> ids,
                                    rows |-> ListStepsByProject(p)])
    /\ Reads

\* A template made on the page has no labels.
CreateTemplatePage(r) ==
    \E n \in Name, d \in Definition(r) :
        /\ d.placement.selectors = {} /\ AtOnce(r, "CreateTemplatePage")
        /\ CreateStepTemplateWithPlacement(n, d.content, d.placement.target, {})

CreateTemplateAPI(r) ==
    \E n \in Name, d \in Definition(r) :
        /\ AtOnce(r, "CreateTemplateAPI")
        /\ CreateStepTemplateWithPlacement(n, d.content, d.placement.target, d.placement.selectors)

\* The target the form leaves out is the template's.
UpdateTemplatePage(r) ==
    /\ \E t \in TemplateID, n \in Name, d \in Definition(r) :
        /\ tmpl[t].live /\ d.placement.selectors = {}
        /\ Arrives(r, "UpdateTemplatePage", [pc |-> "second", id |-> t, name |-> n, def |-> d])
    /\ Reads

\* The page keeps the labels of the template whatever the form says.
ListTemplateAgentSelectors(t) == IF tmpl[t].live THEN tmpl[t].placement.selectors ELSE {}

UpdateTemplateLabels(r) ==
    /\ req[r].pc = "second" /\ req[r].op = "UpdateTemplatePage"
    /\ req' = [req EXCEPT ![r].pc = "write",
            ![r].def.placement.selectors = ListTemplateAgentSelectors(req[r].id)]
    /\ Reads

UpdateTemplateAPI(r) ==
    \E t \in TemplateID, n \in Name, d \in Definition(r) :
        /\ AtOnce(r, "UpdateTemplateAPI")
        /\ UpdateStepTemplateWithPlacement(t, n, d.content, d.placement.target, d.placement.selectors)

DeleteTemplatePage(r) ==
    \E t \in TemplateID : AtOnce(r, "DeleteTemplatePage") /\ DeleteStepTemplate(t)

DeleteTemplateAPI(r) ==
    \E t \in TemplateID : AtOnce(r, "DeleteTemplateAPI") /\ DeleteStepTemplate(t)

\* The template is read, and refused when it is a legacy one ...
InsertTemplate(r) ==
    /\ \E p \in Project, t \in TemplateID :
        /\ tmpl[t].live /\ (tmpl[t].placement.target = "local" => tmpl[t].content.image)
        /\ Arrives(r, "InsertTemplate",
               [pc |-> "second", project |-> p, id |-> t, sort |-> 0,
                def |-> [content |-> tmpl[t].content,
                         placement |-> [tmpl[t].placement EXCEPT !.selectors = {}]]])
    /\ Reads

\* ... then the steps of the project and the labels of the template.
InsertReads(r) ==
    /\ req[r].pc = "second" /\ req[r].op = "InsertTemplate"
    /\ req' = [req EXCEPT ![r].pc = "write", ![r].sort = Appended(ListStepsByProject(req[r].project)),
            ![r].def.placement.selectors = ListTemplateAgentSelectors(req[r].id)]
    /\ Reads

SaveStepAsTemplate(r) ==
    /\ \E p \in Project, s \in StepID, n \in Name :
        /\ getProjectStep(p, s)
        /\ Arrives(r, "SaveStepAsTemplate",
               [pc |-> "second", project |-> p, id |-> s, name |-> n,
                def |-> [content |-> step[s].content,
                         placement |-> [step[s].placement EXCEPT !.selectors = {}]]])
    /\ Reads

SaveReads(r) ==
    /\ req[r].pc = "second" /\ req[r].op = "SaveStepAsTemplate"
    /\ req' = [req EXCEPT ![r].pc = "write",
            ![r].def.placement.selectors =
                IF Live(req[r].id) THEN step[req[r].id].placement.selectors ELSE {}]
    /\ Reads

-----------------------------------------------------------------------------
(* The writes. *)

Writes(r, ops) == req[r].pc = "write" /\ req[r].op \in ops /\ Done(r)

WriteNewStep(r) ==
    LET d == req[r].def IN
    /\ Writes(r, {"CreateStepPage", "CreateStepAPI", "InsertTemplate"})
    /\ CreateStepWithPlacement(req[r].project, req[r].sort, d.content,
                               d.placement.target, d.placement.selectors)

WriteStep(r) ==
    LET d == req[r].def IN
    /\ Writes(r, {"UpdateStepPage", "UpdateStepAPI"})
    /\ UpdateStepWithPlacement(req[r].id, req[r].sort, d.content,
                               d.placement.target, d.placement.selectors)

WriteDelete(r) == Writes(r, {"DeleteStepPage", "DeleteStepAPI"}) /\ DeleteStep(req[r].id)

\* Where a row goes when another moves from order old to order new.
Shift(x, old, new) ==
    IF new < old
    THEN IF x.sort >= new /\ x.sort < old THEN x.sort + 1 ELSE x.sort
    ELSE IF x.sort > old /\ x.sort <= new THEN x.sort - 1 ELSE x.sort

\* The step takes the new order and the rows between are shifted by one.
WriteReorderStep(r) ==
    LET target == CHOOSE x \in req[r].rows : x.id = req[r].id
        moved(x) == IF x = target THEN req[r].sort ELSE Shift(x, target.sort, req[r].sort)
        rows == {x \in req[r].rows : moved(x) # x.sort}
        sort == [s \in {x.id : x \in rows} |-> moved(CHOOSE x \in rows : x.id = s)] IN
    /\ Writes(r, {"ReorderStep"})
    /\ WriteRows(rows, sort)

WriteReorderSteps(r) ==
    LET sort == [s \in ToSet(req[r].ids) |-> CHOOSE i \in DOMAIN req[r].ids : req[r].ids[i] = s] IN
    /\ Writes(r, {"ReorderSteps"})
    /\ WriteRows(req[r].rows, sort)

WriteTemplate(r) ==
    LET d == req[r].def IN
    /\ Writes(r, {"UpdateTemplatePage"})
    /\ UpdateStepTemplateWithPlacement(req[r].id, req[r].name, d.content,
                                       d.placement.target, d.placement.selectors)

WriteSaved(r) ==
    LET d == req[r].def IN
    /\ Writes(r, {"SaveStepAsTemplate"})
    /\ CreateStepTemplateWithPlacement(req[r].name, d.content,
                                       d.placement.target, d.placement.selectors)

-----------------------------------------------------------------------------
Row(x) == [live |-> TRUE, project |-> x.project, sort |-> x.sort,
           content |-> [by |-> 0, image |-> x.image, mode |-> "host"],
           placement |-> [target |-> x.target, selectors |-> x.selectors]]

TemplateRow(x) == [live |-> TRUE, name |-> x.name,
                   content |-> [by |-> 0, image |-> x.image, mode |-> "host"],
                   placement |-> [target |-> x.target, selectors |-> x.selectors]]

Init ==
    /\ step = [s \in StepID |-> IF s <= Len(StartSteps) THEN Row(StartSteps[s]) ELSE NoStep]
    /\ tmpl = [t \in TemplateID |->
            IF t <= Len(StartTemplates) THEN TemplateRow(StartTemplates[t]) ELSE NoTemplate]
    /\ version = {CreateStepTemplateVersion(t, 1, tmpl[t].content, tmpl[t].placement) :
                    t \in 1 .. Len(StartTemplates)}
    /\ made = [steps |-> Len(StartSteps), templates |-> Len(StartTemplates)]
    /\ req = [r \in Request |-> NoReq]

Handler(r) ==
    \/ CreateStepPage(r) \/ CreateStepAPI(r) \/ UpdateStepPage(r) \/ UpdateStepAPI(r)
    \/ DeleteStepPage(r) \/ DeleteStepAPI(r) \/ ReorderStep(r) \/ ReorderSteps(r)
    \/ CreateTemplatePage(r) \/ CreateTemplateAPI(r) \/ UpdateTemplatePage(r) \/ UpdateTemplateAPI(r)
    \/ DeleteTemplatePage(r) \/ DeleteTemplateAPI(r) \/ InsertTemplate(r) \/ SaveStepAsTemplate(r)
    \/ placementOptions(r) \/ UpdateTemplateLabels(r) \/ InsertReads(r) \/ SaveReads(r)
    \/ WriteNewStep(r) \/ WriteStep(r) \/ WriteDelete(r) \/ WriteReorderStep(r)
    \/ WriteReorderSteps(r) \/ WriteTemplate(r) \/ WriteSaved(r)

Next == \E r \in Request : Handler(r)

Spec == Init /\ [][Next]_vars

-----------------------------------------------------------------------------
(* Properties. *)

\* Steps, templates, versions and counters keep their types.
TypeOK ==
    /\ \A s \in StepID : Live(s) =>
        /\ step[s].project \in Project /\ step[s].sort \in Int
        /\ step[s].content \in Content /\ step[s].placement \in Placement
    /\ \A t \in TemplateID : tmpl[t].live =>
        tmpl[t].name \in Name /\ tmpl[t].content \in Content /\ tmpl[t].placement \in Placement
    /\ \A v \in version : v.number \in Nat \ {0} /\ v.content \in Content /\ v.placement \in Placement
    /\ made.steps \in 0 .. MaxSteps /\ made.templates \in 0 .. MaxTemplates

\* The versions of a template are numbered without gaps, the last one is the
\* template as it is, and a template that is gone has none.
LatestVersionIsTemplate ==
    \A t \in TemplateID :
        IF tmpl[t].live
        THEN LET last == GetLatestStepTemplateVersionNumber(t) IN
             /\ {v.number : v \in VersionsOf(t)} = 1 .. last
             /\ \A v \in VersionsOf(t) : v.number = last =>
                    v.content = tmpl[t].content /\ v.placement = tmpl[t].placement
        ELSE VersionsOf(t) = {}

\* A version once saved stays as it is until its template is deleted.
VersionsStay ==
    [][\A v \in version : v \in version' \/ ~tmpl'[v.template].live]_vars

\* A request changes steps of the project it named only, although it checked
\* the project of the step before its transaction.
OnlyOwnProject ==
    [][\A s \in StepID : step'[s] # step[s] =>
        \E r \in Request :
            /\ req[r].pc = "write" /\ req'[r].pc = "done"
            /\ req[r].project = IF Live(s) THEN step[s].project ELSE step'[s].project]_vars

Distinct(st, S) == \A x, y \in S : x # y => st[x].sort # st[y].sort

\* A reorder on the page of a project nobody changed meanwhile moves one step:
\* the others keep their order among each other, and no two have the same.
ReorderMovesOneStep ==
    [][\A r \in Request :
        LET S == StepsOf(req[r].project) IN
        /\ req[r].pc = "write" /\ req'[r].pc = "done" /\ req[r].op = "ReorderStep"
        /\ req[r].rows = ListStepsByProject(req[r].project) /\ Distinct(step, S)
        => /\ Distinct(step', S)
           /\ \A x, y \in S \ {req[r].id} :
                step[x].sort < step[y].sort => step'[x].sort < step'[y].sort]_vars

\* A step inserted from a template has the content and the target of one version
\* of it, whatever is saved between the reads of the request.
InsertIsOneVersion ==
    [][\A r \in Request :
        /\ req[r].pc = "write" /\ req'[r].pc = "done" /\ req[r].op = "InsertTemplate"
        /\ tmpl[req[r].id].live /\ made'.steps # made.steps
        => \E v \in VersionsOf(req[r].id) :
             /\ v.content = step'[made'.steps].content
             /\ v.placement.target = step'[made'.steps].placement.target]_vars

=============================================================================
