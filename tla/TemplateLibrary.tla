-------------------------- MODULE TemplateLibrary --------------------------
(***************************************************************************)
(* The library of templates bundled with the server, applied to a project  *)
(* that exists.  A page shows an entry; the application is a transaction   *)
(* whose statements see what others committed meanwhile (the weakest       *)
(* isolation of the supported databases), so it takes the row lock of the  *)
(* project before it reads.  The handlers of variables, steps and members  *)
(* do not.  The server may be replaced by another version at any time.     *)
(***************************************************************************)
EXTENDS Naturals, FiniteSets

CONSTANTS
    Request, User,
    Entry,        \* entries of the library
    Variables,    \* the variables of an entry, by version of the server
    Steps,        \* the number of steps of an entry, by version
    Name,         \* names of variables
    MaxVersion,   \* bound: versions of the server
    MaxOrder,     \* bound: the order of a step
    MaxChanges    \* bound: other writes to the project

LibraryAssumption ==
    /\ Variables \in [Entry -> [1 .. MaxVersion -> SUBSET Name]]
    /\ Steps \in [Entry -> [1 .. MaxVersion -> Nat]]
    /\ MaxVersion \in Nat \ {0} /\ MaxOrder \in Nat /\ MaxChanges \in Nat

VARIABLES
    version,    \* the version of the server
    variable,   \* the variables of the project: name and who wrote it
    step,       \* the steps of the project: order and who wrote it
    shared,     \* the names of the lifecycle's shared variables
    author,     \* the users with the role and the membership
    lock,       \* the request that holds the row lock of the project
    req,        \* the requests
    applied,    \* ghost: the applications, with the version of their page
    changes     \* counter of the bound

vars == <<version, variable, step, shared, author, lock, req, applied, changes>>
project == <<variable, step>>

None == "none"
Other == "other"
NoReq == [pc |-> "none"]

\* GetLibraryTemplate: entries are part of the server.
GetLibraryTemplate(e) == [variables |-> Variables[e][version], steps |-> Steps[e][version]]

-----------------------------------------------------------------------------
(* What changes meanwhile *)

\* A handler creates a variable or a step, without the lock.
CreateVariable(n) ==
    /\ changes < MaxChanges /\ changes' = changes + 1
    /\ variable' = variable \cup {[name |-> n, by |-> Other]}
    /\ UNCHANGED <<version, step, shared, author, lock, req, applied>>

CreateStep(o) ==
    /\ changes < MaxChanges /\ changes' = changes + 1
    /\ step' = step \cup {[order |-> o, by |-> Other]}
    /\ UNCHANGED <<version, variable, shared, author, lock, req, applied>>

Share(n) ==
    /\ changes < MaxChanges /\ changes' = changes + 1
    /\ n \notin shared /\ shared' = shared \cup {n}
    /\ UNCHANGED <<version, project, author, lock, req, applied>>

Dismiss(u) ==
    /\ changes < MaxChanges /\ changes' = changes + 1
    /\ u \in author /\ author' = author \ {u}
    /\ UNCHANGED <<version, project, shared, lock, req, applied>>

\* A new server: transactions under way are rolled back, pages stay.
Upgrade ==
    /\ version < MaxVersion /\ version' = version + 1
    /\ lock' = None
    /\ req' = [q \in Request |-> IF req[q].pc \in {"none", "page"} THEN req[q] ELSE NoReq]
    /\ UNCHANGED <<project, shared, author, applied, changes>>

-----------------------------------------------------------------------------
(* Requests *)

Preview(q, u, e) ==
    /\ req[q].pc = "none" /\ u \in author
    /\ req' = [req EXCEPT ![q] = [pc |-> "page", user |-> u, entry |-> e, version |-> version]]
    /\ UNCHANGED <<version, project, shared, author, lock, applied, changes>>

Leave(q) ==
    /\ req[q].pc \notin {"none", "done"} /\ req' = [req EXCEPT ![q] = NoReq]
    /\ lock' = IF lock = q THEN None ELSE lock
    /\ UNCHANGED <<version, project, shared, author, applied, changes>>

\* validateLibraryInput: the version of the page is the one of the server.
validateLibraryInput(q) == req[q].version = version

\* LockProject waits for the transaction that holds the row.
LockProject(q) == lock = None

\* ApplyLibraryTemplate validates the form and takes the lock.
ApplyLibraryTemplate(q) ==
    /\ req[q].pc = "page" /\ validateLibraryInput(q) /\ LockProject(q)
    /\ lock' = q
    /\ req' = [req EXCEPT ![q].pc = "locked"]
    /\ UNCHANGED <<version, project, shared, author, applied, changes>>

\* checkLibraryConflicts
checkLibraryConflicts(q) ==
    GetLibraryTemplate(req[q].entry).variables \cap ({v.name : v \in variable} \cup shared) # {}

\* templateAuthor and the conflicts are read in the transaction.
Check(q) ==
    /\ req[q].pc = "locked" /\ req[q].user \in author /\ ~checkLibraryConflicts(q)
    /\ req' = [req EXCEPT ![q].pc = "checked"]
    /\ UNCHANGED <<version, project, shared, author, lock, applied, changes>>

\* Any other transaction is rolled back.
Refuse(q) ==
    /\ req[q].pc = "locked" /\ (req[q].user \notin author \/ checkLibraryConflicts(q))
    /\ req' = [req EXCEPT ![q] = NoReq]
    /\ lock' = IF lock = q THEN None ELSE lock
    /\ UNCHANGED <<version, project, shared, author, applied, changes>>

Highest == IF step = {} THEN 0
           ELSE CHOOSE o \in {s.order : s \in step} : \A s \in step : s.order <= o

NextSortOrder == Highest + 1

\* copyLibraryTemplate: the steps come after those there are.
ReadOrder(q) ==
    /\ req[q].pc = "checked" /\ Highest + 3 <= MaxOrder
    /\ req' = [req EXCEPT ![q] = [pc |-> "copy", user |-> @.user, entry |-> @.entry,
                                  version |-> @.version, next |-> NextSortOrder]]
    /\ UNCHANGED <<version, project, shared, author, lock, applied, changes>>

\* prepareLibraryCopy and the copies, and the commit.
Copy(q) ==
    LET e == GetLibraryTemplate(req[q].entry) IN
    /\ req[q].pc = "copy"
    /\ variable' = variable \cup {[name |-> n, by |-> q] : n \in e.variables}
    /\ step' = step \cup {[order |-> req[q].next + i - 1, by |-> q] : i \in 1 .. e.steps}
    /\ applied' = applied \cup {[by |-> q, entry |-> req[q].entry, shown |-> req[q].version,
                                 version |-> version]}
    /\ lock' = IF lock = q THEN None ELSE lock
    /\ req' = [req EXCEPT ![q] = [pc |-> "done"]]
    /\ UNCHANGED <<version, shared, author, changes>>

-----------------------------------------------------------------------------
Init ==
    /\ version = 1 /\ variable = {} /\ step = {} /\ shared = {} /\ author = User
    /\ lock = None /\ req = [q \in Request |-> NoReq] /\ applied = {} /\ changes = 0

Next ==
    \/ \E n \in Name : CreateVariable(n) \/ Share(n)
    \/ \E o \in 1 .. MaxOrder : CreateStep(o)
    \/ \E u \in User : Dismiss(u)
    \/ Upgrade
    \/ \E q \in Request : \/ \E u \in User, e \in Entry : Preview(q, u, e)
                          \/ Leave(q) \/ ApplyLibraryTemplate(q) \/ Check(q) \/ Refuse(q)
                          \/ ReadOrder(q) \/ Copy(q)

Spec == Init /\ [][Next]_vars

-----------------------------------------------------------------------------
(* Properties *)

TypeOK ==
    /\ lock \in Request \cup {None}
    /\ step \subseteq [order : 1 .. MaxOrder, by : Request \cup {Other}]
    /\ lock # None => req[lock].pc \in {"locked", "checked", "copy"}

\* Applications at once do not define a name twice, nor do their steps mix:
\* each has its steps in a block of their own ("concurrent applications must
\* see committed variables and append after the previous operation",
\* ApplyLibraryTemplate).
ApplicationsApart ==
    \A p, q \in Request : p # q =>
        /\ \A v, w \in variable : v.by = p /\ w.by = q => v.name # w.name
        /\ \/ \A s, t \in step : s.by = p /\ t.by = q => s.order < t.order
           \/ \A s, t \in step : s.by = p /\ t.by = q => s.order > t.order

\* What was reviewed is what is applied, although the server was replaced by
\* one whose entry differs (validateLibraryInput).
AppliesReviewed ==
    \A a \in applied : Variables[a.entry][a.shown] = Variables[a.entry][a.version]
=============================================================================
