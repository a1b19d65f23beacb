------------------------------- MODULE AutoTasks -------------------------------
(***************************************************************************)
(* Automatic task intake (internal/usecase/auto_tasks.go, with its store   *)
(* internal/storage/auto_tasks.go) among the other writers of the same     *)
(* tables (internal/usecase/tasks.go and projects.go).                     *)
(*                                                                         *)
(* Submit holds the service mutex from its first step to its last, but     *)
(* only its reads and its commit hold the database: between them it waits  *)
(* for a language model while tasks are created, closed, moved and purged  *)
(* and projects deleted.  A transaction is one step, because the pool has  *)
(* a single connection (internal/storage/db.go:22).                        *)
(***************************************************************************)
EXTENDS EventLog, FiniteSets

CONSTANTS Projects, Inbox,      \* project identifiers, and the default project
          AutoIds, ManualIds,   \* identifiers the uuid generator returns to createAutoTaskTx
                                \* and to the other creators of tasks
          Candidates,           \* identifiers it returns to assess
          Keys,                 \* identities of the inputs (autoInputKey)
          None,                 \* no identifier
          MaxBatch,             \* bound on the tasks one extraction returns
          MaxEvents             \* bound on lastSeq beyond which the other writers stay silent

ASSUME AutoTasksAssumption ==
    /\ Inbox \in Projects
    /\ None \notin Projects \cup AutoIds \cup ManualIds \cup Candidates
    /\ AutoIds \cap ManualIds = {}
    /\ (AutoIds \cup ManualIds) \cap Candidates = {}
    /\ IsFiniteSet(AutoIds) /\ IsFiniteSet(ManualIds) /\ IsFiniteSet(Candidates)
    /\ MaxBatch \in Nat
    /\ MaxEvents \in Nat

VARIABLES project,      \* table projects: absent, live or deleted
          task,         \* table tasks; auto marks the rows createAutoTaskTx inserted
          cand,         \* table auto_task_candidates
          receipts,     \* table auto_task_inputs
          sub,          \* the Submit that holds the mutex
          purge         \* the closed tasks PurgeClosedOlderThan has listed

dbVars == <<project, task, cand, receipts>>
vars   == <<logVars, dbVars, sub, purge>>

Tasks    == AutoIds \cup ManualIds
Refs     == Tasks \cup Candidates
NoTask   == [state |-> "absent", project |-> None, auto |-> FALSE]
NoCand   == [status |-> "absent", project |-> None, match |-> None, task |-> None]
NoBatch  == [c \in Candidates |-> [status |-> "absent", match |-> None]]
Idle     == [pc |-> "idle", keys |-> {}, want |-> 0, left |-> 0, project |-> None,
             revision |-> 0, mark |-> 0, live |-> {}, closed |-> {}, batch |-> NoBatch]

BatchStatus == {"pending", "created", "duplicate"}
Decided     == {"created", "rejected", "duplicate"}

TaskRows == [state : {"absent", "open", "closed", "purged"},
             project : Projects \cup {None}, auto : BOOLEAN]
CandRows == [status : {"absent", "pending"} \cup Decided, project : Projects \cup {None},
             match : Refs \cup {None}, task : Tasks \cup {None}]
Batches  == [Candidates -> [status : {"absent"} \cup BatchStatus, match : Refs \cup {None}]]
Submits  == [pc : {"idle", "revision", "snapshot", "assess"}, keys : SUBSET Keys,
             want : 0..MaxBatch, left : 0..MaxBatch, project : Projects \cup {None},
             revision : Nat, mark : Nat, live : SUBSET Refs, closed : SUBSET Tasks,
             batch : Batches]

TypeOK ==
    /\ LogTypeOK
    /\ project \in [Projects -> {"absent", "live", "deleted"}]
    /\ task \in [Tasks -> TaskRows]
    /\ cand \in [Candidates -> CandRows]
    /\ receipts \subseteq Keys
    /\ sub \in Submits
    /\ purge \subseteq Tasks

Live(p)  == p \in Projects /\ project[p] = "live"
Room(n)  == lastSeq + n <= MaxEvents
Fresh(t) == task[t].state = "absent"

\* The process starts on a database that may already hold projects and tasks, the events of
\* their creation long expired; only what the automatic path adds is followed from the start.
Init ==
    /\ LogInit
    /\ project \in [Projects -> {"absent", "live"}]
    /\ project[Inbox] = "live"
    /\ \E held \in [ManualIds -> {NoTask} \cup
                       [state : {"open", "closed"}, project : {p \in Projects : Live(p)}, auto : {FALSE}]] :
          task = [t \in Tasks |-> IF t \in ManualIds THEN held[t] ELSE NoTask]
    /\ cand = [c \in Candidates |-> NoCand]
    /\ receipts = {}
    /\ sub = Idle
    /\ purge = {}

-------------------------------------------------------------------------------
(* What the duplicate checker is shown, and what its answer leads to.      *)

\* ReferencesTx: the open tasks and the unresolved or refused candidates of a project.
LiveRefs(p) ==
    {t \in Tasks : task[t].state = "open" /\ task[t].project = p}
        \cup {c \in Candidates : cand[c].status \in {"pending", "rejected"} /\ cand[c].project = p}

\* The closed tasks ReferencesTx may add; which of them are recent enough is a matter of time.
ClosedTasks(p) == {t \in Tasks : task[t].state = "closed" /\ task[t].project = p}

\* A model's answer: the verdict, the score's position against the two thresholds, a
\* conflict flag, and the identifier it names (possibly none, or one it was not shown).
Assessments(refs) ==
    [verdict : {"same", "different", "uncertain"}, band : {"low", "review", "high"},
     conflict : BOOLEAN, match : refs \cup {None}]

\* validAutoAssessment: a "same" must name a reference.  An answer outside the checked
\* ranges, one that names an unknown reference, and an error all leave the task pending.
ValidAutoAssessment(a) == a.match # None \/ a.verdict # "same"

StatusOfAnyMatch(a, live) ==
    IF a.verdict = "same" /\ a.band = "high" /\ ~a.conflict /\ a.match # None
    THEN "duplicate"
    ELSE IF a.verdict = "different" /\ a.band = "low" /\ ~a.conflict
         THEN "created" ELSE "pending"

\* A strong "same" about a live reference drops the task; about a closed one it asks the owner.
StatusOf(a, live) ==
    IF /\ a.verdict = "same" /\ a.band = "high" /\ ~a.conflict /\ a.match \in live
    THEN "duplicate"
    ELSE IF a.verdict = "different" /\ a.band = "low" /\ ~a.conflict
         THEN "created" ELSE "pending"

\* assess: with nothing to compare against the task is simply new.  The match of a task
\* that is not a duplicate is only shown to the owner and is left out.
Outcomes(live, closed) ==
    IF live \cup closed = {} THEN {[status |-> "created", match |-> None]}
    ELSE {[status |-> "pending", match |-> None]} \cup
         {[status |-> StatusOf(a, live),
           match |-> IF StatusOf(a, live) = "duplicate" THEN a.match ELSE None] :
             a \in {b \in Assessments(live \cup closed) : ValidAutoAssessment(b)}}

\* Earlier members of the same extraction that later ones are also compared with.
BatchRefs(b) == {c \in Candidates : b[c].status \in {"pending", "created"}}

-------------------------------------------------------------------------------
(* Submit, one action per step that reads or writes shared state.          *)

SubmitBegin(keys, want, p) ==
    /\ sub.pc = "idle"
    /\ keys # {}
    /\ project[p] # "absent"
    /\ sub' = [Idle EXCEPT !.pc = "revision", !.keys = keys, !.want = want, !.project = p]
    /\ UNCHANGED <<logVars, dbVars, purge>>

\* revision := MAX(seq), the mark the commit is checked against.  `mark` remembers how many
\* events had been appended by then; no guard of Submit reads it.
ReadRevision ==
    /\ sub.pc = "revision"
    /\ sub' = [sub EXCEPT !.pc = "snapshot", !.revision = MaxSeq, !.mark = lastSeq,
                          !.left = sub.want, !.batch = NoBatch]
    /\ UNCHANGED <<logVars, dbVars, purge>>

ReplayedAnyway  == FALSE
Replayed        == sub.keys \subseteq receipts

\* readSubmission: every input already has a receipt, so nothing is compared or created.
Replay ==
    /\ sub.pc = "snapshot"
    /\ Replayed
    /\ sub' = Idle
    /\ UNCHANGED <<logVars, dbVars, purge>>

FallbackKept    == sub.project
FallbackProject == Inbox

\* The project may have been deleted since the caller resolved it: start again in Inbox.
SnapshotFallback ==
    /\ sub.pc = "snapshot"
    /\ ~Replayed
    /\ ~Live(sub.project)
    /\ sub.project # Inbox
    /\ sub' = [Idle EXCEPT !.pc = "revision", !.keys = sub.keys, !.want = sub.want,
                           !.project = FallbackProject]
    /\ UNCHANGED <<logVars, dbVars, purge>>

Snapshot(recent) ==
    /\ sub.pc = "snapshot"
    /\ ~Replayed
    /\ Live(sub.project)
    /\ recent \subseteq ClosedTasks(sub.project)
    /\ sub' = [sub EXCEPT !.pc = "assess", !.live = LiveRefs(sub.project), !.closed = recent]
    /\ UNCHANGED <<logVars, dbVars, purge>>

\* One turn of the loop in assess: the next extracted task is compared and classified.
Assess(c) ==
    /\ sub.pc = "assess"
    /\ sub.left > 0
    /\ cand[c].status = "absent"
    /\ sub.batch[c].status = "absent"
    /\ \E o \in Outcomes(sub.live \cup BatchRefs(sub.batch), sub.closed) :
           sub' = [sub EXCEPT !.left = @ - 1, !.batch[c] = o]
    /\ UNCHANGED <<logVars, dbVars, purge>>

RevisionTrusted == TRUE
RevisionCurrent == MaxSeq = sub.revision

\* commitSubmission finds another revision, or the project gone: compare everything again.
CommitRetry ==
    /\ sub.pc = "assess"
    /\ sub.left = 0
    /\ ~(RevisionCurrent /\ Live(sub.project))
    /\ sub' = [Idle EXCEPT !.pc = "revision", !.keys = sub.keys, !.want = sub.want,
                           !.project = IF RevisionCurrent THEN FallbackProject ELSE sub.project]
    /\ UNCHANGED <<logVars, dbVars, purge>>

CreatedIn(b) == {c \in Candidates : b[c].status = "created"}

\* One new task row for each created candidate.
FreshTasks(created) ==
    {f \in [created -> AutoIds] :
        /\ \A c \in created : Fresh(f[c])
        /\ \A c, d \in created : f[c] = f[d] => c = d}

\* The row InsertCandidateTx writes; a match inside the batch becomes the task it created.
CommittedCand(c, b, new) ==
    [status  |-> b[c].status,
     project |-> sub.project,
     match   |-> IF b[c].match \in DOMAIN new THEN new[b[c].match] ELSE b[c].match,
     task    |-> IF c \in DOMAIN new THEN new[c] ELSE None]

\* Receipts, candidates, tasks and events in one transaction.
Commit ==
    /\ sub.pc = "assess"
    /\ sub.left = 0
    /\ RevisionCurrent
    /\ Live(sub.project)
    /\ \E new \in FreshTasks(CreatedIn(sub.batch)) :
          /\ task' = [t \in Tasks |->
                        IF \E c \in DOMAIN new : new[c] = t
                        THEN [state |-> "open", project |-> sub.project, auto |-> TRUE]
                        ELSE task[t]]
          /\ cand' = [c \in Candidates |->
                        IF sub.batch[c].status = "absent" THEN cand[c]
                        ELSE CommittedCand(c, sub.batch, new)]
    /\ receipts' = receipts \cup sub.keys
    /\ Insert(Cardinality(CreatedIn(sub.batch)))
    /\ sub' = Idle
    /\ UNCHANGED <<project, purge>>

\* An error, a cancelled context or a failed commit: the deferred rollback leaves the
\* database alone and the mutex is released; the source will deliver the input again.
SubmitFail ==
    /\ sub.pc # "idle"
    /\ sub' = Idle
    /\ UNCHANGED <<logVars, dbVars, purge>>

-------------------------------------------------------------------------------
(* Decide: the owner's answer, under the same mutex.                       *)

\* A second answer finds the candidate decided and returns the stored result.
Answerable(c)  == cand[c].status \in {"pending", "created"}
Undecided(c)   == cand[c].status = "pending"

Approve(c, t) ==
    /\ sub.pc = "idle"
    /\ Undecided(c)
    /\ Live(cand[c].project)
    /\ Fresh(t)
    /\ task' = [task EXCEPT ![t] = [state |-> "open", project |-> cand[c].project, auto |-> TRUE]]
    /\ cand' = [cand EXCEPT ![c] = [@ EXCEPT !.status = "created", !.task = t]]
    /\ Insert(1)
    /\ UNCHANGED <<project, receipts, sub, purge>>

Reject(c) ==
    /\ sub.pc = "idle"
    /\ Undecided(c)
    /\ cand' = [cand EXCEPT ![c].status = "rejected"]
    /\ UNCHANGED <<logVars, project, task, receipts, sub, purge>>

-------------------------------------------------------------------------------
(* The other writers.  Each records an event in its own transaction.       *)

CreateTask(t, p) ==
    /\ Live(p) /\ Fresh(t) /\ Room(1)
    /\ task' = [task EXCEPT ![t] = [state |-> "open", project |-> p, auto |-> FALSE]]
    /\ Insert(1)
    /\ UNCHANGED <<project, cand, receipts, sub, purge>>

CloseTask(t) ==
    /\ task[t].state = "open" /\ Room(1)
    /\ task' = [task EXCEPT ![t].state = "closed"]
    /\ Insert(1)
    /\ UNCHANGED <<project, cand, receipts, sub, purge>>

ReopenTask(t) ==
    /\ task[t].state = "closed" /\ Room(1)
    /\ task' = [task EXCEPT ![t].state = "open"]
    /\ Insert(1)
    /\ UNCHANGED <<project, cand, receipts, sub, purge>>

MoveTask(t, p) ==
    /\ task[t].state \in {"open", "closed"} /\ Live(p) /\ Room(1)
    /\ task' = [task EXCEPT ![t].project = p]
    /\ Insert(1)
    /\ UNCHANGED <<project, cand, receipts, sub, purge>>

CreateProject(p) ==
    /\ project[p] = "absent" /\ Room(1)
    /\ project' = [project EXCEPT ![p] = "live"]
    /\ Insert(1)
    /\ UNCHANGED <<task, cand, receipts, sub, purge>>

ReassignForgotten(p) == UNCHANGED cand

\* ReassignProjectTx: candidates of every status follow the project's tasks to Inbox.
ReassignProject(p) ==
    cand' = [c \in Candidates |->
               IF cand[c].project = p THEN [cand[c] EXCEPT !.project = Inbox] ELSE cand[c]]

DeleteProject(p) ==
    LET moved == {t \in Tasks : task[t].state \in {"open", "closed"} /\ task[t].project = p} IN
    /\ p # Inbox /\ Live(p) /\ Room(Cardinality(moved) + 1)
    /\ ReassignProject(p)
    /\ task' = [t \in Tasks |-> IF t \in moved THEN [task[t] EXCEPT !.project = Inbox] ELSE task[t]]
    /\ project' = [project EXCEPT ![p] = "deleted"]
    /\ Insert(Cardinality(moved) + 1)
    /\ UNCHANGED <<receipts, sub, purge>>

\* PurgeClosedOlderThan lists the closed tasks it will delete outside its transaction ...
PurgeList(listed) ==
    /\ purge = {}
    /\ listed # {}
    /\ \A t \in listed : task[t].state = "closed"
    /\ purge' = listed
    /\ UNCHANGED <<logVars, dbVars, sub>>

\* ... and deletes each of them, whatever has become of it since.
PurgeDelete ==
    /\ purge # {} /\ Room(Cardinality(purge))
    /\ task' = [t \in Tasks |->
                  IF t \in purge THEN [state |-> "purged", project |-> None, auto |-> task[t].auto]
                  ELSE task[t]]
    /\ purge' = {}
    /\ Insert(Cardinality(purge))
    /\ UNCHANGED <<project, cand, receipts, sub>>

\* Any other event: a rename, an edited summary, a chat message.
RecordOther ==
    /\ Room(1)
    /\ Insert(1)
    /\ UNCHANGED <<dbVars, sub, purge>>

\* Event retention.  An event lives for days and a Submit for minutes, so an event
\* appended after a Submit's revision was read outlives that Submit.
Retention(keep) ==
    /\ sub.pc \in {"snapshot", "assess"} => keep <= sub.mark + 1
    /\ DeleteOlderThan(keep)
    /\ UNCHANGED <<dbVars, sub, purge>>

\* A crash forgets what is in memory; the database keeps what was committed.
Crash ==
    /\ sub # Idle \/ purge # {}
    /\ sub' = Idle
    /\ purge' = {}
    /\ UNCHANGED <<logVars, dbVars>>

-------------------------------------------------------------------------------
SubmitStep ==
    \/ ReadRevision
    \/ Replay
    \/ SnapshotFallback
    \/ \E recent \in SUBSET ClosedTasks(sub.project) : Snapshot(recent)
    \/ \E c \in Candidates : Assess(c)
    \/ CommitRetry
    \/ Commit

OwnerStep ==
    \/ \E c \in Candidates, t \in AutoIds : Approve(c, t)
    \/ \E c \in Candidates : Reject(c)

OtherWriter ==
    \/ \E t \in ManualIds, p \in Projects : CreateTask(t, p)
    \/ \E t \in Tasks, p \in Projects : MoveTask(t, p)
    \/ \E t \in Tasks : CloseTask(t) \/ ReopenTask(t)
    \/ \E p \in Projects : CreateProject(p) \/ DeleteProject(p)
    \/ \E listed \in SUBSET Tasks : PurgeList(listed)
    \/ PurgeDelete
    \/ RecordOther
    \/ \E keep \in firstSeq + 1 .. lastSeq + 1 : Retention(keep)

Next ==
    \/ \E keys \in SUBSET Keys, want \in 0..MaxBatch, p \in Projects : SubmitBegin(keys, want, p)
    \/ SubmitStep
    \/ SubmitFail
    \/ OwnerStep
    \/ OtherWriter
    \/ Crash

Spec == Init /\ [][Next]_vars

-------------------------------------------------------------------------------
(* Correctness.                                                            *)

\* A promise is dropped as a repetition only while the obligation it repeats still stands:
\* in the very state in which a candidate becomes a duplicate, its match is an open task, or
\* a candidate that is pending or that the owner refused, of the same project.  The
\* comparison was made against a snapshot read long before, outside any transaction.
Stands(r, p, tasks, cands) ==
    \/ r \in Tasks /\ tasks[r].state = "open" /\ tasks[r].project = p
    \/ r \in Candidates /\ cands[r].status \in {"pending", "rejected"} /\ cands[r].project = p

DuplicateJustified ==
    [][\A c \in Candidates :
          cand'[c].status = "duplicate" /\ cand[c].status # "duplicate" =>
              Stands(cand'[c].match, cand'[c].project, task', cand')]_vars

\* Every task the automatic path has inserted belongs to exactly one candidate, which is in
\* status created: no crash, failed commit or second answer leaves a task without its
\* decision or two decisions sharing a task.
AutoTaskOwned ==
    \A t \in Tasks :
        task[t].auto => \E c \in Candidates :
            /\ cand[c].status = "created" /\ cand[c].task = t
            /\ \A d \in Candidates : cand[d].task = t => d = c

\* Candidates never refer to a deleted project, so the owner can still approve one whose
\* project was deleted after the question was asked (the foreign key, 015_auto_tasks.sql:9).
CandidateProjectLive ==
    \A c \in Candidates : cand[c].status # "absent" => Live(cand[c].project)

\* The daily purge deletes done and cancelled tasks only ("PurgeClosedOlderThan deletes
\* done/cancelled tasks whose closed_at is strictly before cutoff", tasks.go:409-410): a task
\* the owner has reopened since is kept.
PurgedWasClosed ==
    [][\A t \in Tasks :
          task'[t].state = "purged" /\ task[t].state # "purged" => task[t].state = "closed"]_vars

\* Why a comparison made outside any transaction may be committed.  While Submit holds a
\* revision its mark bounds what retention may have deleted, so an event appended since shows
\* in MAX(seq); and as long as none was appended the references are those of the snapshot.
MarkHolds ==
    sub.pc \in {"snapshot", "assess"} =>
        sub.mark <= lastSeq /\ sub.revision <= sub.mark /\ firstSeq <= sub.mark + 1

SnapshotHolds ==
    sub.pc = "assess" => ~Replayed /\ (lastSeq = sub.mark => sub.live = LiveRefs(sub.project))

BatchHolds ==
    /\ sub.pc # "assess" => sub.batch = NoBatch
    /\ \A c \in Candidates :
          /\ sub.batch[c].status # "absent" => cand[c].status = "absent"
          /\ sub.batch[c].status = "duplicate" =>
                sub.batch[c].match \in sub.live \cup BatchRefs(sub.batch)

SubmitInv == MarkHolds /\ SnapshotHolds /\ BatchHolds

\* A candidate row is complete: its project exists, and its task does when it has one.
RowsHold ==
    /\ project[Inbox] = "live"
    /\ \A c \in Candidates :
          /\ cand[c].status = "absent" => cand[c] = NoCand
          /\ cand[c].task # None <=> cand[c].status = "created"
          /\ cand[c].task # None => task[cand[c].task].state # "absent"

\* Automatic intake implements PromiseLedger: at-most-once intake per input whatever is
\* redelivered after a crash, one final decision per obligation, one task per acceptance.
Ledger == INSTANCE PromiseLedger WITH
    Obligations <- Candidates, Inputs <- Keys, TaskIds <- Tasks, NoTaskId <- None,
    consumed <- receipts,
    verdict  <- [c \in Candidates |-> IF cand[c].status = "absent" THEN "unknown" ELSE cand[c].status],
    owns     <- [c \in Candidates |-> cand[c].task]

ImplementsLedger == Ledger!Spec

\* Under a scheduler that lets a running Submit go on, the mutex is always released again:
\* the retry loop cannot go round for ever once the other writers fall silent.
FairSpec == Spec /\ WF_vars(SubmitStep)
SubmitTerminates == sub.pc # "idle" ~> sub.pc = "idle"

===============================================================================
