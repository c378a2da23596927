----------------------------- MODULE Lifecycle -----------------------------
(***************************************************************************)
(* Lifecycles, their ordered stages, and the lifecycle a project has.      *)
(* Stages are added, moved and reordered in transactions that lock the     *)
(* lifecycle, but one is edited by reading its row and writing the whole   *)
(* row back in a second statement.  A project form is authorised against   *)
(* one read of the project and applied in a later transaction.             *)
(***************************************************************************)
EXTENDS Integers, FiniteSets, Sequences, SequencesExt

CONSTANTS
    LC,         \* lifecycle ids
    Env,        \* environment ids
    Stage,      \* lifecycle_stages ids; an id is never used twice
    Editor,     \* stage edits that may be under way at once
    Form,       \* project forms that may be under way at once
    MaxPos,     \* bound on sort_order
    FirstStages \* the stages at first, as <<lifecycle, environment, approval>>

LifecycleAssumption ==
    /\ 0 \notin LC /\ MaxPos \in Nat
    /\ Len(FirstStages) <= Cardinality(Stage)

VARIABLES
    lc,         \* lifecycles: "unused", "live" or "deleted" ids
    stage,      \* lifecycle_stages
    chosen,     \* projects.lifecycle_id, 0 for NULL
    edit,       \* stage edits between their read and their write
    form        \* project forms between authorisation and transaction

lifeVars == <<lc, stage, chosen, edit, form>>

NoStage == [lc |-> 0]           \* the id has not been used
GoneStage == [lc |-> -1]        \* the row was deleted
NoEdit == [id |-> 0]
NoForm == [user |-> "none", to |-> 0]

\* The columns a request may carry; a request leaves the others as read.
Fields == {"env", "pos", "appr"}
Users == {"admin", "project admin", "member"}

-----------------------------------------------------------------------------
(* Queries. *)

LiveLC == {l \in LC : lc[l] = "live"}
Live(s) == stage[s].lc > 0
StagesOf(l) == {s \in Stage : stage[s].lc = l}

\* ListLifecycleStages: ORDER BY sort_order.
ListLifecycleStages(l) == SetToSortSeq(StagesOf(l), LAMBDA s, t : stage[s].pos < stage[t].pos)

\* UNIQUE (lifecycle_id, sort_order) and UNIQUE (lifecycle_id, environment_id).
Unique(rows) ==
    \A s, t \in Stage : (s # t /\ rows[s].lc > 0 /\ rows[s].lc = rows[t].lc) =>
        rows[s].pos # rows[t].pos /\ rows[s].env # rows[t].env

FreshStage == {s \in Stage : stage[s] = NoStage
                             /\ \A t \in Stage : stage[t] = NoStage => s <= t}

-----------------------------------------------------------------------------
(* Lifecycles. *)

CreateLifecycle(l) ==
    /\ lc[l] = "unused"
    /\ lc' = [lc EXCEPT ![l] = "live"]
    /\ UNCHANGED <<stage, chosen, edit, form>>

CreateLifecycleAPI(l) == CreateLifecycle(l)

\* ON DELETE CASCADE of the stages, ON DELETE SET NULL of the projects.
DeleteLifecycle(l) ==
    /\ lc[l] = "live"
    /\ lc' = [lc EXCEPT ![l] = "deleted"]
    /\ stage' = [s \in Stage |-> IF stage[s].lc = l THEN GoneStage ELSE stage[s]]
    /\ chosen' = IF chosen = l THEN 0 ELSE chosen
    /\ UNCHANGED <<edit, form>>

\* The "delete" method of the web form, for a global admin only.
SaveLifecycle(l, user) == user = "admin" /\ DeleteLifecycle(l)
DeleteLifecycleAPI(l) == DeleteLifecycle(l)

-----------------------------------------------------------------------------
(* Stages. *)

\* lifecycleStagePosition: a positive position is kept, others append.
lifecycleStagePosition(l, pos) ==
    IF pos > 0 THEN pos
    ELSE CHOOSE p \in 1 .. MaxPos + 1 :
            /\ \A s \in StagesOf(l) : stage[s].pos < p
            /\ p = 1 \/ \E s \in StagesOf(l) : stage[s].pos = p - 1

CreateLifecycleStage(l, e, pos, appr) ==
    /\ lc[l] = "live"
    /\ \A s \in StagesOf(l) : stage[s].env # e
    /\ \E s \in FreshStage :
        LET row == [lc |-> l, env |-> e, pos |-> lifecycleStagePosition(l, pos), appr |-> appr]
            rows == [stage EXCEPT ![s] = row] IN
        /\ row.pos <= MaxPos
        /\ Unique(rows)
        /\ stage' = rows
    /\ UNCHANGED <<lc, chosen, edit, form>>

\* The form appends a stage without approval; the API may say both.
AddStage(l, e) == CreateLifecycleStage(l, e, 0, FALSE)
AddStageAPI(l, e, pos, appr) == CreateLifecycleStage(l, e, pos, appr)

\* updateLifecycleStageOrders of a swap: positions only, by way of unused ones.
updateLifecycleStageOrders(s, t) == [stage EXCEPT ![s].pos = stage[t].pos,
                                                  ![t].pos = stage[s].pos]

\* MoveLifecycleStage: with the neighbour, if there is one on that side.
MoveLifecycleStage(l, s, up) ==
    LET order == ListLifecycleStages(l) IN
    \E i \in DOMAIN order :
        LET n == IF up THEN i - 1 ELSE i + 1 IN
        /\ order[i] = s /\ n \in DOMAIN order
        /\ stage' = updateLifecycleStageOrders(s, order[n])
        /\ UNCHANGED <<lc, chosen, edit, form>>

ReorderStage(l, s, up) == MoveLifecycleStage(l, s, up)

\* ReorderLifecycleStages: positions 1 .. n in the order of a complete list.
ReorderLifecycleStages(l, ids) ==
    /\ lc[l] = "live"
    /\ stage' = [s \in Stage |-> IF stage[s].lc = l
                                 THEN [stage[s] EXCEPT !.pos = CHOOSE i \in DOMAIN ids : ids[i] = s]
                                 ELSE stage[s]]
    /\ UNCHANGED <<lc, chosen, edit, form>>

ReorderStages(l, ids) == ReorderLifecycleStages(l, ids)

\* GetLifecycleStage: the row an edit starts from.
GetLifecycleStage(q, s, asked, row) ==
    /\ edit[q] = NoEdit /\ Live(s)
    /\ edit' = [edit EXCEPT ![q] =
            [id |-> s, asked |-> asked,
             row |-> [f \in Fields |-> IF f \in asked THEN row[f] ELSE stage[s][f]]]]
    /\ UNCHANGED <<lc, stage, chosen, form>>

\* The approval switch of the page, and the partial update of the API.
UpdateLifecycleStage(q, s, appr) ==
    GetLifecycleStage(q, s, {"appr"}, [appr |-> appr])
UpdateStage(q, s, asked, row) == GetLifecycleStage(q, s, asked, row)

\* UpdateLifecycleStage, the query: all columns of the row, if it still exists.
WriteLifecycleStage(q) ==
    /\ edit[q] # NoEdit
    /\ LET s == edit[q].id
           row == edit[q].row
           rows == [stage EXCEPT ![s] = [lc |-> @.lc, env |-> row["env"],
                                         pos |-> row["pos"], appr |-> row["appr"]]] IN
       stage' = IF Live(s) /\ Unique(rows) THEN rows ELSE stage
    /\ edit' = [edit EXCEPT ![q] = NoEdit]
    /\ UNCHANGED <<lc, chosen, form>>

DeleteLifecycleStage(s) ==
    /\ Live(s)
    /\ stage' = [stage EXCEPT ![s] = GoneStage]
    /\ UNCHANGED <<lc, chosen, edit, form>>

DeleteStage(s) == DeleteLifecycleStage(s)
DeleteStageAPI(s) == DeleteLifecycleStage(s)

-----------------------------------------------------------------------------
(* The project's lifecycle. *)

\* AuthorizeLifecycleSelection: only a global admin may give a lifecycle; a
\* project admin may keep it or take it away, a member only keep it.
AuthorizeLifecycleSelection(user, to) ==
    \/ user = "admin"
    \/ chosen = to
    \/ to = 0 /\ user = "project admin"

\* The first check of the form, on a read of its own.
authorizeLifecycleForm(f, user, to) ==
    /\ form[f] = NoForm /\ to \in LC \cup {0}
    /\ AuthorizeLifecycleSelection(user, to)
    /\ form' = [form EXCEPT ![f] = [user |-> user, to |-> to]]
    /\ UNCHANGED <<lc, stage, chosen, edit>>

\* ApplyLifecycleSelection in the transaction of UpdateProject: checked again,
\* and keeping a grant writes nothing, so it cannot bring back a revoked one.
\* A refused form, or a lifecycle that is gone, rolls back.
ApplyLifecycleSelection(user, to) ==
    IF ~AuthorizeLifecycleSelection(user, to) \/ to \notin LiveLC \cup {0} THEN chosen
    ELSE IF to = 0 \/ user = "admin" THEN to
    ELSE chosen

UpdateProjectWithLifecycle(f) ==
    /\ form[f] # NoForm
    /\ chosen' = ApplyLifecycleSelection(form[f].user, form[f].to)
    /\ form' = [form EXCEPT ![f] = NoForm]
    /\ UNCHANGED <<lc, stage, edit>>

UpdateProject(f, user, to) == authorizeLifecycleForm(f, user, to)
UpdateProjectAPI(f, user, to) == authorizeLifecycleForm(f, user, to)

-----------------------------------------------------------------------------
FirstRow(s) ==
    IF s \in 1 .. Len(FirstStages)
    THEN [lc |-> FirstStages[s][1], env |-> FirstStages[s][2], pos |-> s,
          appr |-> FirstStages[s][3]]
    ELSE NoStage

\* A lifecycle with its stages, assigned to the project.
LifecycleInit ==
    /\ lc = [l \in LC |-> IF \E i \in DOMAIN FirstStages : FirstStages[i][1] = l
                           THEN "live" ELSE "unused"]
    /\ stage = [s \in Stage |-> FirstRow(s)]
    /\ chosen \in LiveLC
    /\ edit = [q \in Editor |-> NoEdit]
    /\ form = [f \in Form |-> NoForm]

StageRow == [env : Env, pos : 1 .. MaxPos, appr : BOOLEAN]

LifecycleNext ==
    \/ \E l \in LC :
        \/ CreateLifecycle(l) \/ CreateLifecycleAPI(l)
        \/ DeleteLifecycleAPI(l) \/ \E user \in Users : SaveLifecycle(l, user)
        \/ \E e \in Env : AddStage(l, e)
        \/ \E e \in Env, pos \in 0 .. MaxPos, appr \in BOOLEAN : AddStageAPI(l, e, pos, appr)
        \/ \E s \in StagesOf(l), up \in BOOLEAN : ReorderStage(l, s, up)
        \/ \E ids \in SetToSeqs(StagesOf(l)) : ReorderStages(l, ids)
    \/ \E q \in Editor : WriteLifecycleStage(q)
    \/ \E q \in Editor, s \in Stage :
        \/ \E appr \in BOOLEAN : UpdateLifecycleStage(q, s, appr)
        \/ \E asked \in SUBSET Fields, row \in StageRow : UpdateStage(q, s, asked, row)
    \/ \E s \in Stage : DeleteStage(s) \/ DeleteStageAPI(s)
    \/ \E f \in Form :
        \/ UpdateProjectWithLifecycle(f)
        \/ \E user \in Users, to \in LC \cup {0} :
              UpdateProject(f, user, to) \/ UpdateProjectAPI(f, user, to)

LifecycleSpec == LifecycleInit /\ [][LifecycleNext]_lifeVars

-----------------------------------------------------------------------------
(* Properties. *)

\* Outside an edit of the stage itself nothing changes a stage's environment
\* or approval: not a move, a reorder, another stage's arrival or deletion, nor
\* an edit that loses its row (lifecycle_stage.go: "without changing stage
\* metadata").
OrderOnly ==
    [][\A s \in Stage : (Live(s) /\ stage'[s].lc > 0) =>
        \/ stage'[s].env = stage[s].env /\ stage'[s].appr = stage[s].appr
        \/ \E q \in Editor : edit[q].id = s /\ edit'[q] = NoEdit]_lifeVars

\* A lifecycle is given to the project only by a form of a global admin,
\* however edits and revocations interleave (project.go, ApplyLifecycleSelection).
NoGrantRegained ==
    [][chosen' # chosen /\ chosen' # 0 =>
        \E f \in Form : form[f].user = "admin" /\ form[f].to = chosen']_lifeVars

=============================================================================
