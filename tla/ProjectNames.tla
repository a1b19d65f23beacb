------------------------------ MODULE ProjectNames ------------------------------
(***************************************************************************)
(* Projects, their aliases, channel bindings and task numbers              *)
(* (internal/usecase/projects.go and the numbering of tasks.go), over the  *)
(* cached list of internal/storage/cached_task_store.go.                   *)
(* One database connection: a transaction is one step, and so is a read    *)
(* outside of one; the rest of an operation interleaves.                   *)
(***************************************************************************)
EXTENDS Naturals, FiniteSets, FiniteSetsExt

CONSTANTS Projects,     \* identifiers, each given to one project at most
          Inbox,        \* the default project, one of Projects
          Names,        \* what a project, a slug or an alias may be called
          Channels, Tasks, Users,
          NoProject,
          MaxAliases,   \* aliases of one project
          MaxNumber     \* bound on task numbers (no bound in the code)

VARIABLES project,      \* table projects
          alias,        \* table project_aliases: its key is the alias
          binding,      \* table channel_projects
          task,         \* table tasks: project and number
          cache,        \* CachedTaskStore.cached and cacheSet
          filler,       \* who holds CachedTaskStore.mu for writing
          work,         \* per user, the operation it is in
          given         \* auxiliary: how often each number of a project was given

projectsVars == <<project, alias, binding, task, cache, filler, work, given>>

ASSUME ProjectNamesAssumption == /\ Inbox \in Projects
                                 /\ NoProject \notin Projects \cup Users
                                 /\ IsFiniteSet(Projects) /\ IsFiniteSet(Tasks)
                                 /\ MaxAliases \in Nat \ {0}
                                 /\ MaxNumber \in Nat

Slugs == Names \X (1 .. Cardinality(Projects))      \* a name and its suffix
NoRow == [row |-> "none", name |-> Inbox, slug |-> Inbox, counter |-> 0]
Idle  == [pc |-> "idle", kind |-> "none", project |-> NoProject, name |-> Inbox, wanted |-> {}, list |-> <<>>]

Live         == {p \in Projects : project[p].row = "stored"}
AliasesOf(p) == {a \in Names : alias[a] = p}
NameFree(n, p) == \A q \in Live \ {p} : project[q].name # n
Snapshot     == [p \in Live |-> [row |-> project[p], aliases |-> AliasesOf(p)]]

ProjectsTypeOK ==
    /\ project \in [Projects -> [row : {"none", "stored", "deleted"}, name : Names \cup {Inbox}, slug : Slugs \cup {Inbox},
                                 counter : 0 .. MaxNumber]]
    /\ Inbox \in Live
    /\ alias \in [Names -> Live \cup {NoProject}] /\ AliasesOf(Inbox) = {}
    /\ binding \in [Channels -> Projects \cup {NoProject}]
    /\ task \in [Tasks -> [project : Projects \cup {NoProject}, number : 0 .. MaxNumber]]
    /\ cache.set \in BOOLEAN /\ DOMAIN cache.list \subseteq Projects
    /\ filler \in Users \cup {NoProject}
    /\ \A u \in Users : work[u].pc \in {"idle", "fill", "tx", "invalidate"}
    /\ \A p, q \in Live : p # q => project[p].name # project[q].name /\ project[p].slug # project[q].slug

ProjectsInit ==
    /\ project = [p \in Projects |-> IF p = Inbox THEN [NoRow EXCEPT !.row = "stored"] ELSE NoRow]
    /\ alias = [a \in Names |-> NoProject]
    /\ binding = [c \in Channels |-> NoProject]
    /\ task = [t \in Tasks |-> [project |-> NoProject, number |-> 0]]
    /\ cache = [set |-> FALSE, list |-> <<>>]
    /\ filler = NoProject
    /\ work = [u \in Users |-> Idle]
    /\ given = [g \in Projects \X (1 .. MaxNumber) |-> 0]

-------------------------------------------------------------------------------
(* What an operation reads before its transaction.  One that reads nothing *)
(* of these tables starts with the transaction.                            *)

Become(u, w) == work' = [work EXCEPT ![u] = w]

Op(kind, p, n, wanted) == [pc |-> "tx", kind |-> kind, project |-> p, name |-> n, wanted |-> wanted, list |-> <<>>]
AtOnce(u) == work[u].pc = "idle"

\* FindProjectByName.
AskBind(u) == \E n \in Names, c \in Channels :
    /\ AtOnce(u)
    /\ \/ \E p \in Live : project[p].name = n /\ Become(u, Op("bind", p, n, {c}))
       \/ NameFree(n, NoProject) /\ Become(u, Op("bind", NoProject, n, {c}))
    /\ UNCHANGED <<project, alias, binding, task, cache, filler, given>>

\* ResolveProjectForChannel: a binding to a project that is gone falls back to the Inbox.
AskTask(u) == \E t \in Tasks, c \in Channels :
    /\ AtOnce(u) /\ task[t].project = NoProject
    /\ Become(u, Op("task", IF binding[c] \in Live THEN binding[c] ELSE Inbox, Inbox, {t}))
    /\ UNCHANGED <<project, alias, binding, task, cache, filler, given>>

\* Aliases are compared with the names and slugs of the cached list.  Too many of them, or
\* one that is taken, end the operation.
AliasOps == { op \in { Op(kind, p, n, wanted) : kind \in {"create", "update", "addAlias"},
                       p \in (Projects \ {Inbox}) \cup {NoProject}, n \in Names \cup {Inbox},
                       wanted \in (SUBSET Names) \ {{}} } :
    /\ Cardinality(op.wanted) <= (IF op.kind = "addAlias" THEN 1 ELSE MaxAliases)
    /\ (op.kind = "create") = (op.project = NoProject)
    /\ (op.kind = "create") = (op.name \in Names) }

Conflicts(w, list) == \E a \in w.wanted, p \in DOMAIN list \ {w.project} :
    list[p].row.slug = <<a, 1>> \/ list[p].row.name = a

Checked(w, list) == IF Conflicts(w, list) THEN Idle ELSE [[w EXCEPT !.pc = "tx"] EXCEPT !.list = <<>>]

ListHit(u, op) ==
    /\ AtOnce(u) /\ cache.set /\ filler = NoProject
    /\ Become(u, Checked(op, cache.list))
    /\ UNCHANGED <<project, alias, binding, task, cache, filler, given>>

\* The lock is held from before the read until the list is stored.
ListRead(u, op) ==
    /\ AtOnce(u) /\ ~cache.set /\ filler = NoProject
    /\ filler' = u
    /\ Become(u, [[op EXCEPT !.pc = "fill"] EXCEPT !.list = Snapshot])
    /\ UNCHANGED <<project, alias, binding, task, cache, given>>

ListStore(u) ==
    /\ work[u].pc = "fill"
    /\ cache' = [set |-> TRUE, list |-> work[u].list]
    /\ filler' = NoProject
    /\ Become(u, Checked(work[u], work[u].list))
    /\ UNCHANGED <<project, alias, binding, task, given>>

-------------------------------------------------------------------------------
(* The transactions.                                                       *)

Committing(u, kind) == work[u].pc = "tx" /\ work[u].kind = kind

\* The operation of u whose transaction runs now: its aliases checked, or without any.
Ops(u, kind, projects, names) ==
    IF AtOnce(u) THEN {Op(kind, p, n, {}) : p \in projects, n \in names}
    ELSE {op \in {work[u]} : Committing(u, kind)}

Committed(u) == Become(u, [Idle EXCEPT !.pc = "invalidate"]) /\ UNCHANGED <<cache, filler>>

\* createProjectTx: a taken name is an error, a taken slug gets the next suffix.
FreeSlug(n) == <<n, Min({k \in 1 .. Cardinality(Projects) : \A q \in Live : project[q].slug # <<n, k>>})>>

CreateProjectTx(p, n) ==
    /\ project[p].row = "none"
    /\ NameFree(n, p)
    /\ project' = [project EXCEPT ![p] = [row |-> "stored", name |-> n, slug |-> FreeSlug(n), counter |-> 0]]

CreateProject(u) == \E p \in Projects \ {Inbox}, op \in Ops(u, "create", {NoProject}, Names) :
    /\ \A a \in op.wanted : alias[a] = NoProject
    /\ CreateProjectTx(p, op.name)
    /\ alias' = [a \in Names |-> IF a \in op.wanted THEN p ELSE alias[a]]
    /\ Committed(u)
    /\ UNCHANGED <<binding, task, given>>

\* UpdateProject with aliases: the difference to what the row has now.
UpdateAliases(u) == \E op \in Ops(u, "update", Projects \ {Inbox}, {Inbox}) :
    /\ op.project \in Live
    /\ \A a \in op.wanted : alias[a] \in {NoProject, op.project}
    /\ op.wanted # AliasesOf(op.project)
    /\ alias' = [a \in Names |-> IF a \in op.wanted THEN op.project
                                 ELSE IF alias[a] = op.project THEN NoProject ELSE alias[a]]
    /\ Committed(u)
    /\ UNCHANGED <<project, binding, task, given>>

\* UpdateProject with a name or an explicit slug: neither is compared with the aliases.
RenameProject(u) == \E p \in Live \ {Inbox}, n \in Names :
    /\ AtOnce(u)
    /\ \/ /\ NameFree(n, p)
          /\ project' = [project EXCEPT ![p].name = n]
       \/ /\ \A q \in Live \ {p} : project[q].slug # <<n, 1>>
          /\ project' = [project EXCEPT ![p].slug = <<n, 1>>]
    /\ Committed(u)
    /\ UNCHANGED <<alias, binding, task, given>>

\* AddProjectAlias counts the aliases inside the transaction.
AliasLimitReached(p) == Cardinality(AliasesOf(p)) >= MaxAliases

AddProjectAlias(u) == \E a \in work[u].wanted : LET p == work[u].project IN
    /\ Committing(u, "addAlias")
    /\ p \in Live /\ alias[a] = NoProject
    /\ ~AliasLimitReached(p)
    /\ alias' = [alias EXCEPT ![a] = p]
    /\ Committed(u)
    /\ UNCHANGED <<project, binding, task, given>>

RemoveProjectAlias(u) == \E a \in Names :
    /\ AtOnce(u)
    /\ alias[a] # NoProject
    /\ alias' = [alias EXCEPT ![a] = NoProject]
    /\ Committed(u)
    /\ UNCHANGED <<project, binding, task, given>>

\* What the counter of a project is after k more tasks.
CounterNotMoved(p, k) == project
Counted(p, k) == [project EXCEPT ![p].counter = @ + k]

Number(t, p, n) == task' = [task EXCEPT ![t] = [project |-> p, number |-> n]]

\* CreateTaskTx and MoveTaskTx: the counter of the project is read and advanced.
CreateTask(u) == \E t \in work[u].wanted : LET p == work[u].project  n == project[p].counter + 1 IN
    /\ Committing(u, "task")
    /\ p \in Live /\ task[t].project = NoProject /\ n <= MaxNumber
    /\ project' = Counted(p, 1)
    /\ Number(t, p, n)
    /\ given' = [given EXCEPT ![<<p, n>>] = @ + 1]
    /\ Committed(u)
    /\ UNCHANGED <<alias, binding>>

MoveTask(u) == \E t \in Tasks, p \in Live : LET n == project[p].counter + 1 IN
    /\ AtOnce(u)
    /\ task[t].project # NoProject /\ n <= MaxNumber
    /\ project' = Counted(p, 1)
    /\ Number(t, p, n)
    /\ given' = [given EXCEPT ![<<p, n>>] = @ + 1]
    /\ Committed(u)
    /\ UNCHANGED <<alias, binding>>

\* DeleteProjectTx: the tasks go to the Inbox in the order of their numbers, and the
\* bindings and aliases of the project go with its row.
Moved(p) == {t \in Tasks : task[t].project = p}
Place(t) == Cardinality({o \in Moved(task[t].project) : task[o].number <= task[t].number})
InboxNumber(t) == project[Inbox].counter + Place(t)

DeleteProject(u) == \E p \in Live \ {Inbox} :
    /\ AtOnce(u)
    /\ project[Inbox].counter + Cardinality(Moved(p)) <= MaxNumber
    /\ project' = [Counted(Inbox, Cardinality(Moved(p))) EXCEPT ![p] = [NoRow EXCEPT !.row = "deleted"]]
    /\ task' = [t \in Tasks |-> IF t \in Moved(p) THEN [project |-> Inbox, number |-> InboxNumber(t)]
                                 ELSE task[t]]
    /\ given' = [g \in DOMAIN given |->
                    given[g] + Cardinality({t \in Moved(p) : g = <<Inbox, InboxNumber(t)>>})]
    /\ binding' = [c \in Channels |-> IF binding[c] = p THEN NoProject ELSE binding[c]]
    /\ alias' = [a \in Names |-> IF alias[a] = p THEN NoProject ELSE alias[a]]
    /\ Committed(u)

\* EnsureChannelProject: a project found by name is read again in the transaction.
FoundTrusted(w) == TRUE
FoundStill(w) == w.project \in Live

BindFound(u) == \E c \in work[u].wanted :
    /\ Committing(u, "bind")
    /\ work[u].project # NoProject /\ FoundStill(work[u])
    /\ binding' = [binding EXCEPT ![c] = work[u].project]
    /\ Become(u, Idle)
    /\ UNCHANGED <<project, alias, task, cache, filler, given>>

BindCreated(u) == \E c \in work[u].wanted, p \in Projects \ {Inbox} :
    /\ Committing(u, "bind")
    /\ work[u].project = NoProject
    /\ CreateProjectTx(p, work[u].name)
    /\ binding' = [binding EXCEPT ![c] = p]
    /\ Committed(u)
    /\ UNCHANGED <<alias, task, given>>

\* A transaction that finds nothing to do, or an error, is rolled back.
RollBack(u) ==
    /\ work[u].pc = "tx"
    /\ Become(u, Idle)
    /\ UNCHANGED <<project, alias, binding, task, cache, filler, given>>

\* invalidateProjectCache waits for who fills the cache.
MayInvalidateAnyTime == TRUE
MayInvalidate == filler = NoProject

Invalidate(u) ==
    /\ work[u].pc = "invalidate" /\ MayInvalidate
    /\ cache' = [set |-> FALSE, list |-> <<>>]
    /\ Become(u, Idle)
    /\ UNCHANGED <<project, alias, binding, task, filler, given>>

-------------------------------------------------------------------------------
ProjectsNext == \E u \in Users :
    \/ AskBind(u) \/ AskTask(u) \/ ListStore(u)
    \/ \E op \in AliasOps : ListHit(u, op) \/ ListRead(u, op)
    \/ CreateProject(u) \/ UpdateAliases(u) \/ RenameProject(u)
    \/ AddProjectAlias(u) \/ RemoveProjectAlias(u) \/ DeleteProject(u)
    \/ BindFound(u) \/ BindCreated(u) \/ CreateTask(u) \/ MoveTask(u)
    \/ RollBack(u) \/ Invalidate(u)

ProjectsSpec == ProjectsInit /\ [][ProjectsNext]_projectsVars

-------------------------------------------------------------------------------
(* Properties.                                                             *)

\* The cached list differs from the tables only while an operation that has committed
\* has yet to invalidate it, also when the list was read before the commit and stored after it.
CacheStaleOnlyBriefly ==
    cache.set /\ cache.list # Snapshot => \E u \in Users : work[u].pc = "invalidate"

\* No channel and no task names a project that is gone, whatever was looked up before
\* the deletion.
ReferencesLive ==
    /\ \A c \in Channels : binding[c] # NoProject => binding[c] \in Live
    /\ \A t \in Tasks : task[t].project # NoProject => task[t].project \in Live

\* What people write for a task: the slug of its project and its number.
DisplayID(t) == <<project[task[t].project].slug, task[t].number>>

\* What people write, project#7, is one task (GetTaskByRef takes the first row it gets), and a
\* project does not give a number twice: while it lives and keeps its slug, project#7 is never
\* another task than it was, whatever is moved away, moved back or comes from a deleted
\* project.  No name is for ever: a project that is deleted or takes another slug leaves its
\* slug to the next one, which counts from its own beginning.
OneTaskPerReference ==
    /\ \A t, o \in Tasks : task[t].project # NoProject /\ task[o].project # NoProject =>
          (DisplayID(t) = DisplayID(o) => t = o)
    /\ \A g \in DOMAIN given : given[g] <= 1
=============================================================================
