---------------------------- MODULE AutoTasksProofs ----------------------------
(***************************************************************************)
(* Proofs about AutoTasks: the types, and why a decision made outside any  *)
(* transaction may still be committed.                                     *)
(***************************************************************************)
EXTENDS AutoTasks, FiniteSetTheorems, TLAPS

-------------------------------------------------------------------------------
(* Operators.                                                              *)

\* The tasks a transaction touches can be counted.
LEMMA TasksFinite ==
    ASSUME NEW S \in SUBSET Tasks
    PROVE  IsFiniteSet(S) /\ Cardinality(S) \in Nat
<1>1. IsFiniteSet(Tasks)
  BY AutoTasksAssumption, FS_Union DEF Tasks
<1>. QED
  BY <1>1, FS_Subset, FS_CardinalityType

\* The candidates of a batch can be counted.
LEMMA CandidatesFinite ==
    ASSUME NEW S \in SUBSET Candidates
    PROVE  IsFiniteSet(S) /\ Cardinality(S) \in Nat
BY AutoTasksAssumption, FS_Subset, FS_CardinalityType

\* Whatever the model answers, a task that is classified as a duplicate names something that
\* still stands among what the checker was shown.
LEMMA OutcomeShape ==
    ASSUME NEW live, NEW closed, NEW o \in Outcomes(live, closed)
    PROVE  /\ o \in [status : BatchStatus, match : live \cup {None}]
           /\ o.status = "duplicate" => o.match \in live
<1>1. CASE live \cup closed = {}
  BY <1>1 DEF Outcomes, BatchStatus
<1>2. CASE o = [status |-> "pending", match |-> None]
  BY <1>2 DEF BatchStatus
<1>3. ASSUME NEW a,
             o = [status |-> StatusOf(a, live),
                  match |-> IF StatusOf(a, live) = "duplicate" THEN a.match ELSE None]
      PROVE  /\ o \in [status : BatchStatus, match : live \cup {None}]
             /\ o.status = "duplicate" => o.match \in live
  <2>1. StatusOf(a, live) \in BatchStatus
    BY DEF StatusOf, BatchStatus
  <2>2. StatusOf(a, live) = "duplicate" => a.match \in live
    BY DEF StatusOf
  <2>. QED
    BY <1>3, <2>1, <2>2
<1>. QED
  BY <1>1, <1>2, <1>3 DEF Outcomes

-------------------------------------------------------------------------------
(* Types.                                                                  *)

\* An empty batch and a released mutex are well typed.
LEMMA IdleType == NoBatch \in Batches /\ Idle \in Submits
<1>1. NoBatch \in Batches
  BY DEF NoBatch, Batches
<1>. QED
  BY <1>1, AutoTasksAssumption DEF Idle, Submits

\* Submit starts every comparison from a well-typed record.
LEMMA RestartType ==
    ASSUME NEW keys \in SUBSET Keys, NEW want \in 0..MaxBatch, NEW p \in Projects \cup {None}
    PROVE  [Idle EXCEPT !.pc = "revision", !.keys = keys, !.want = want, !.project = p] \in Submits
BY IdleType DEF Submits

\* Whatever rows the process finds when it starts are well typed.
LEMMA InitType == Init => TypeOK
<1>. SUFFICES ASSUME Init PROVE TypeOK
  OBVIOUS
<1>1. task \in [Tasks -> TaskRows]
  <2>1. PICK held \in [ManualIds -> {NoTask} \cup [state : {"open", "closed"},
                          project : {p \in Projects : Live(p)}, auto : {FALSE}]] :
           task = [t \in Tasks |-> IF t \in ManualIds THEN held[t] ELSE NoTask]
    BY DEF Init
  <2>2. NoTask \in TaskRows
    BY DEF NoTask, TaskRows
  <2>3. [state : {"open", "closed"}, project : {p \in Projects : Live(p)}, auto : {FALSE}] \subseteq TaskRows
    BY DEF TaskRows
  <2>. QED
    BY <2>1, <2>2, <2>3
<1>2. cand \in [Candidates -> CandRows]
  BY DEF Init, CandRows, NoCand
<1>. QED
  BY <1>1, <1>2, IdleType DEF Init, TypeOK, LogTypeOK, LogInit

-------------------------------------------------------------------------------
(* What a step does to the log and to the types.                           *)

\* Every action that writes appends; only retention deletes, and it deletes a prefix.
LEMMA InsertType ==
    ASSUME LogTypeOK, NEW n \in Nat, Insert(n)
    PROVE  LogTypeOK' /\ lastSeq' = lastSeq + n /\ firstSeq' = firstSeq
BY DEF LogTypeOK, Insert

\* The revision Submit reads is a number even when the table is empty.
LEMMA MaxSeqType == LogTypeOK => MaxSeq \in Nat
BY DEF LogTypeOK, MaxSeq

\* The steps of Submit keep the types: one case per step of its loop.
LEMMA SubmitType == TypeOK /\ SubmitStep => TypeOK'
<1>. SUFFICES ASSUME TypeOK, SubmitStep PROVE TypeOK'
  OBVIOUS
<1>. USE DEF TypeOK
<1>1. CASE ReadRevision
  <2>1. sub' \in Submits
    BY <1>1, IdleType, MaxSeqType DEF ReadRevision, Submits, LogTypeOK
  <2>. QED
    BY <1>1, <2>1 DEF ReadRevision, dbVars, logVars, LogTypeOK
<1>2. CASE Replay
  BY <1>2, IdleType DEF Replay, dbVars, logVars, LogTypeOK
<1>3. CASE SnapshotFallback
  <2>1. sub.keys \in SUBSET Keys /\ sub.want \in 0..MaxBatch /\ FallbackProject \in Projects \cup {None}
    BY AutoTasksAssumption DEF FallbackProject, Submits
  <2>2. sub' \in Submits
    BY <1>3, <2>1, RestartType DEF SnapshotFallback
  <2>. QED
    BY <1>3, <2>2 DEF SnapshotFallback, dbVars, logVars, LogTypeOK
<1>4. ASSUME NEW recent \in SUBSET ClosedTasks(sub.project), Snapshot(recent) PROVE TypeOK'
  <2>1. LiveRefs(sub.project) \subseteq Refs /\ recent \subseteq Tasks
    BY DEF LiveRefs, ClosedTasks, Refs
  <2>2. sub' \in Submits
    BY <1>4, <2>1 DEF Snapshot, Submits
  <2>. QED
    BY <1>4, <2>2 DEF Snapshot, dbVars, logVars, LogTypeOK
<1>5. ASSUME NEW c \in Candidates, Assess(c) PROVE TypeOK'
  <2>. DEFINE shown == sub.live \cup BatchRefs(sub.batch)
  <2>1. PICK o \in Outcomes(shown, sub.closed) :
           sub' = [sub EXCEPT !.left = @ - 1, !.batch[c] = o]
    BY <1>5 DEF Assess
  <2>2. shown \subseteq Refs
    BY DEF Submits, BatchRefs, Refs
  <2>3. o \in [status : {"absent"} \cup BatchStatus, match : Refs \cup {None}]
    <3>. HIDE DEF shown
    <3>. QED
      BY <2>2, OutcomeShape
  <2>4. [sub.batch EXCEPT ![c] = o] \in Batches
    BY <2>3 DEF Submits, Batches
  <2>5. sub.left - 1 \in 0..MaxBatch
    BY <1>5, AutoTasksAssumption DEF Assess, Submits
  <2>6. sub' \in Submits
    BY <2>1, <2>4, <2>5 DEF Submits
  <2>. QED
    BY <1>5, <2>6 DEF Assess, dbVars, logVars, LogTypeOK
<1>6. CASE CommitRetry
  <2>1. sub.keys \in SUBSET Keys /\ sub.want \in 0..MaxBatch
        /\ (IF RevisionCurrent THEN FallbackProject ELSE sub.project) \in Projects \cup {None}
    BY AutoTasksAssumption DEF FallbackProject, Submits
  <2>2. sub' \in Submits
    BY <1>6, <2>1, RestartType DEF CommitRetry
  <2>. QED
    BY <1>6, <2>2 DEF CommitRetry, dbVars, logVars, LogTypeOK
<1>7. CASE Commit
  <2>1. PICK new \in FreshTasks(CreatedIn(sub.batch)) :
           /\ task' = [t \in Tasks |->
                         IF \E c \in DOMAIN new : new[c] = t
                         THEN [state |-> "open", project |-> sub.project, auto |-> TRUE]
                         ELSE task[t]]
           /\ cand' = [c \in Candidates |->
                         IF sub.batch[c].status = "absent" THEN cand[c]
                         ELSE CommittedCand(c, sub.batch, new)]
    BY <1>7 DEF Commit
  <2>2. new \in [CreatedIn(sub.batch) -> AutoIds]
    BY DEF FreshTasks
  <2>3. task' \in [Tasks -> TaskRows]
    BY <2>1 DEF TaskRows, Submits
  <2>4. \A c \in Candidates : sub.batch[c].status # "absent" => CommittedCand(c, sub.batch, new) \in CandRows
    BY <2>2 DEF CommittedCand, CandRows, Submits, Batches, BatchStatus, Decided, CreatedIn, Tasks, Refs
  <2>5. cand' \in [Candidates -> CandRows]
    BY <2>1, <2>4
  <2>6. LogTypeOK'
    <3>1. Cardinality(CreatedIn(sub.batch)) \in Nat
      BY CandidatesFinite DEF CreatedIn
    <3>. QED
      BY <1>7, <3>1, InsertType DEF Commit
  <2>7. receipts' \subseteq Keys /\ sub' \in Submits
    BY <1>7, IdleType DEF Commit, Submits
  <2>. QED
    BY <1>7, <2>3, <2>5, <2>6, <2>7 DEF Commit
<1>. QED
  BY <1>1, <1>2, <1>3, <1>4, <1>5, <1>6, <1>7 DEF SubmitStep

\* The owner's approval and refusal (Decide) keep the types.
LEMMA OwnerType == TypeOK /\ OwnerStep => TypeOK'
<1>. SUFFICES ASSUME TypeOK, OwnerStep PROVE TypeOK'
  OBVIOUS
<1>. USE DEF TypeOK
<1>1. ASSUME NEW c \in Candidates, NEW t \in AutoIds, Approve(c, t) PROVE TypeOK'
  <2>1. t \in Tasks /\ cand[c].project \in Projects
    BY <1>1 DEF Tasks, Approve, Live
  <2>2. task' \in [Tasks -> TaskRows]
    BY <1>1, <2>1 DEF Approve, TaskRows
  <2>3. cand' \in [Candidates -> CandRows]
    <3>1. [cand[c] EXCEPT !.status = "created", !.task = t] \in CandRows
      BY <2>1 DEF CandRows, Decided
    <3>2. cand' = [cand EXCEPT ![c] = [cand[c] EXCEPT !.status = "created", !.task = t]]
      BY <1>1 DEF Approve
    <3>. QED
      BY <3>1, <3>2
  <2>. QED
    BY <1>1, <2>2, <2>3, InsertType DEF Approve
<1>2. ASSUME NEW c \in Candidates, Reject(c) PROVE TypeOK'
  <2>1. cand' \in [Candidates -> CandRows]
    BY <1>2 DEF Reject, CandRows, Decided
  <2>. QED
    BY <1>2, <2>1 DEF Reject, logVars, LogTypeOK
<1>. QED
  BY <1>1, <1>2 DEF OwnerStep

\* The other use cases, the purge and retention keep the types.
LEMMA OtherWriterType == TypeOK /\ OtherWriter => TypeOK'
<1>. SUFFICES ASSUME TypeOK, OtherWriter PROVE TypeOK'
  OBVIOUS
<1>. USE DEF TypeOK
<1>1. ASSUME NEW t \in ManualIds, NEW p \in Projects, CreateTask(t, p) PROVE TypeOK'
  <2>1. task' \in [Tasks -> TaskRows]
    BY <1>1 DEF CreateTask, Tasks, TaskRows
  <2>. QED
    BY <1>1, <2>1, InsertType DEF CreateTask
<1>2. ASSUME NEW t \in Tasks, NEW p \in Projects, MoveTask(t, p) PROVE TypeOK'
  <2>1. task' \in [Tasks -> TaskRows]
    BY <1>2 DEF MoveTask, TaskRows
  <2>. QED
    BY <1>2, <2>1, InsertType DEF MoveTask
<1>3. ASSUME NEW t \in Tasks, CloseTask(t) \/ ReopenTask(t) PROVE TypeOK'
  <2>1. task' \in [Tasks -> TaskRows]
    BY <1>3 DEF CloseTask, ReopenTask, TaskRows
  <2>. QED
    BY <1>3, <2>1, InsertType DEF CloseTask, ReopenTask
<1>4. ASSUME NEW p \in Projects, CreateProject(p) PROVE TypeOK'
  BY <1>4, InsertType DEF CreateProject
<1>5. ASSUME NEW p \in Projects, DeleteProject(p) PROVE TypeOK'
  <2>. DEFINE moved == {t \in Tasks : task[t].state \in {"open", "closed"} /\ task[t].project = p}
  <2>1. LogTypeOK'
    <3>1. Cardinality(moved) + 1 \in Nat
      BY TasksFinite
    <3>. QED
      BY <1>5, <3>1, InsertType DEF DeleteProject
  <2>2. task' \in [Tasks -> TaskRows]
    BY <1>5, AutoTasksAssumption DEF DeleteProject, TaskRows
  <2>3. cand' \in [Candidates -> CandRows]
    BY <1>5, AutoTasksAssumption DEF DeleteProject, ReassignProject, CandRows
  <2>. QED
    BY <1>5, <2>1, <2>2, <2>3 DEF DeleteProject
<1>6. ASSUME NEW listed \in SUBSET Tasks, PurgeList(listed) PROVE TypeOK'
  BY <1>6 DEF PurgeList, dbVars, logVars, LogTypeOK
<1>7. CASE PurgeDelete
  <2>1. LogTypeOK'
    BY <1>7, TasksFinite, InsertType DEF PurgeDelete
  <2>2. task' \in [Tasks -> TaskRows]
    BY <1>7 DEF PurgeDelete, TaskRows
  <2>. QED
    BY <1>7, <2>1, <2>2 DEF PurgeDelete
<1>8. CASE RecordOther
  BY <1>8, InsertType DEF RecordOther, dbVars
<1>9. ASSUME NEW keep \in firstSeq + 1 .. lastSeq + 1, Retention(keep) PROVE TypeOK'
  BY <1>9 DEF Retention, DeleteOlderThan, dbVars, LogTypeOK
<1>. QED
  BY <1>1, <1>2, <1>3, <1>4, <1>5, <1>6, <1>7, <1>8, <1>9 DEF OtherWriter

\* Every step of the system keeps the types.
LEMMA NextType == TypeOK /\ [Next]_vars => TypeOK'
<1>. SUFFICES ASSUME TypeOK, [Next]_vars PROVE TypeOK'
  OBVIOUS
<1>1. ASSUME NEW keys \in SUBSET Keys, NEW want \in 0..MaxBatch, NEW p \in Projects,
             SubmitBegin(keys, want, p)
      PROVE  TypeOK'
  BY <1>1, RestartType DEF SubmitBegin, TypeOK, dbVars, logVars, LogTypeOK
<1>2. CASE SubmitFail
  BY <1>2, IdleType DEF SubmitFail, TypeOK, dbVars, logVars, LogTypeOK
<1>3. CASE Crash
  BY <1>3, IdleType DEF Crash, TypeOK, dbVars, logVars, LogTypeOK
<1>4. CASE UNCHANGED vars
  BY <1>4 DEF TypeOK, vars, dbVars, logVars, LogTypeOK
<1>. QED
  BY <1>1, <1>2, <1>3, <1>4, SubmitType, OwnerType, OtherWriterType DEF Next

\* Type correctness of automatic intake and of the tables it shares, for every number of
\* projects, tasks, candidates and inputs.
THEOREM TypeCorrect == Spec => []TypeOK
BY InitType, NextType, PTL DEF Spec

-------------------------------------------------------------------------------
(* The snapshot a Submit compares against.                                 *)

\* At the start nobody holds the mutex, so there is no snapshot to be wrong.
LEMMA InitSubmit == Init => SubmitInv
BY DEF Init, Idle, NoBatch, SubmitInv, MarkHolds, SnapshotHolds, BatchHolds

\* A transaction of somebody else: an event more, so the snapshot may be out of date.
LEMMA AppendKeepsSubmit ==
    ASSUME TypeOK, SubmitInv, NEW n \in Nat, n > 0, Insert(n),
           sub' = sub, receipts' = receipts,
           \A c \in Candidates : cand[c].status = "absent" => cand'[c].status = "absent"
    PROVE  SubmitInv'
<1>1. lastSeq' > lastSeq /\ lastSeq' \in Nat /\ lastSeq \in Nat /\ firstSeq' = firstSeq
  BY DEF Insert, TypeOK, LogTypeOK
<1>0. sub.mark \in Nat /\ sub.revision \in Nat
  BY DEF TypeOK, Submits
<1>2. MarkHolds'
  BY <1>0, <1>1 DEF MarkHolds, SubmitInv
<1>3. SnapshotHolds'
  BY <1>1 DEF MarkHolds, SnapshotHolds, SubmitInv, TypeOK, Submits, Replayed
<1>4. BatchHolds'
  BY DEF BatchHolds, SubmitInv, BatchRefs
<1>. QED
  BY <1>2, <1>3, <1>4 DEF SubmitInv

\* A step that leaves the database's rows alone.
LEMMA QuietKeepsSubmit ==
    ASSUME TypeOK, SubmitInv, UNCHANGED <<dbVars, sub, lastSeq>>,
           sub.pc \in {"snapshot", "assess"} => firstSeq' <= sub.mark + 1
    PROVE  SubmitInv'
<1>1. MarkHolds'
  BY DEF MarkHolds, SubmitInv
<1>2. SnapshotHolds'
  BY DEF SnapshotHolds, SubmitInv, dbVars, Replayed, LiveRefs
<1>3. BatchHolds'
  BY DEF BatchHolds, SubmitInv, BatchRefs, dbVars
<1>. QED
  BY <1>1, <1>2, <1>3 DEF SubmitInv

\* A Submit that ends or starts again holds no snapshot.
LEMMA RestartKeepsSubmit ==
    ASSUME sub'.pc \in {"idle", "revision"}, sub'.batch = NoBatch
    PROVE  SubmitInv'
BY DEF SubmitInv, MarkHolds, SnapshotHolds, BatchHolds, NoBatch

\* Submit's own steps keep its snapshot honest.
LEMMA StepSubmit == TypeOK /\ SubmitInv /\ SubmitStep => SubmitInv'
<1>. SUFFICES ASSUME TypeOK, SubmitInv, SubmitStep PROVE SubmitInv'
  OBVIOUS
<1>1. CASE ReadRevision
  <2>1. sub'.pc = "snapshot" /\ sub'.mark = lastSeq /\ sub'.revision = MaxSeq /\ sub'.batch = NoBatch
    BY <1>1 DEF ReadRevision, TypeOK, Submits
  <2>2. MaxSeq <= lastSeq /\ firstSeq <= lastSeq + 1 /\ lastSeq' = lastSeq /\ firstSeq' = firstSeq
    BY <1>1 DEF ReadRevision, MaxSeq, TypeOK, LogTypeOK, logVars
  <2>. QED
    BY <2>1, <2>2 DEF SubmitInv, MarkHolds, SnapshotHolds, BatchHolds, NoBatch, TypeOK, LogTypeOK
<1>2. CASE Replay
  BY <1>2, RestartKeepsSubmit DEF Replay, Idle
<1>3. CASE SnapshotFallback
  BY <1>3, RestartKeepsSubmit DEF SnapshotFallback, Idle
<1>4. ASSUME NEW recent \in SUBSET ClosedTasks(sub.project), Snapshot(recent) PROVE SubmitInv'
  <2>1. /\ sub.pc = "snapshot" /\ sub'.pc = "assess" /\ sub'.live = LiveRefs(sub.project)
        /\ sub'.project = sub.project /\ sub'.keys = sub.keys /\ sub'.batch = sub.batch
        /\ sub'.mark = sub.mark /\ sub'.revision = sub.revision
        /\ ~Replayed /\ UNCHANGED <<firstSeq, lastSeq, dbVars>>
    BY <1>4 DEF Snapshot, TypeOK, Submits, logVars
  <2>2. MarkHolds'
    BY <2>1 DEF SubmitInv, MarkHolds
  <2>3. SnapshotHolds'
    BY <2>1 DEF SnapshotHolds, Replayed, LiveRefs, dbVars
  <2>4. BatchHolds'
    BY <2>1 DEF SubmitInv, BatchHolds, NoBatch
  <2>. QED
    BY <2>2, <2>3, <2>4 DEF SubmitInv
<1>5. ASSUME NEW c \in Candidates, Assess(c) PROVE SubmitInv'
  <2>. DEFINE shown == sub.live \cup BatchRefs(sub.batch)
  <2>1. PICK o \in Outcomes(shown, sub.closed) :
           sub' = [sub EXCEPT !.left = @ - 1, !.batch[c] = o]
    BY <1>5 DEF Assess
  <2>2. /\ sub.pc = "assess" /\ sub.batch[c].status = "absent" /\ cand[c].status = "absent"
        /\ UNCHANGED <<firstSeq, lastSeq, dbVars>>
    BY <1>5 DEF Assess, logVars
  <2>3. /\ sub'.pc = sub.pc /\ sub'.live = sub.live /\ sub'.project = sub.project /\ sub'.keys = sub.keys
        /\ sub'.mark = sub.mark /\ sub'.revision = sub.revision
        /\ sub'.batch = [sub.batch EXCEPT ![c] = o]
    BY <2>1 DEF TypeOK, Submits
  <2>4. MarkHolds' /\ SnapshotHolds'
    BY <2>2, <2>3 DEF SubmitInv, MarkHolds, SnapshotHolds, Replayed, LiveRefs, dbVars
  <2>5. o.status = "duplicate" => o.match \in shown
    <3>. HIDE DEF shown
    <3>. QED
      BY OutcomeShape
  <2>6. sub.batch \in Batches
    BY DEF TypeOK, Submits
  <2>7. BatchRefs(sub.batch) \subseteq BatchRefs(sub'.batch)
    BY <2>2, <2>3, <2>6 DEF BatchRefs, Batches
  <2>8. BatchHolds'
    BY <2>2, <2>3, <2>5, <2>6, <2>7 DEF SubmitInv, BatchHolds, Batches, dbVars
  <2>. QED
    BY <2>4, <2>8 DEF SubmitInv
<1>6. CASE CommitRetry
  BY <1>6, RestartKeepsSubmit DEF CommitRetry, Idle
<1>7. CASE Commit
  BY <1>7, RestartKeepsSubmit DEF Commit, Idle
<1>. QED
  BY <1>1, <1>2, <1>3, <1>4, <1>5, <1>6, <1>7 DEF SubmitStep

\* Decide runs under the same mutex, so no Submit is comparing meanwhile.
LEMMA OwnerSubmit == TypeOK /\ SubmitInv /\ OwnerStep => SubmitInv'
<1>. SUFFICES ASSUME TypeOK, SubmitInv, OwnerStep PROVE SubmitInv'
  OBVIOUS
<1>1. sub.pc = "idle" /\ sub' = sub
  BY DEF OwnerStep, Approve, Reject
<1>. QED
  BY <1>1, RestartKeepsSubmit DEF SubmitInv, BatchHolds

\* A writer that changes what was compared appends an event past the mark.
LEMMA OtherWriterSubmit == TypeOK /\ SubmitInv /\ OtherWriter => SubmitInv'
<1>. SUFFICES ASSUME TypeOK, SubmitInv, OtherWriter PROVE SubmitInv'
  OBVIOUS
<1>1. ASSUME \/ \E t \in ManualIds, p \in Projects : CreateTask(t, p)
             \/ \E t \in Tasks, p \in Projects : MoveTask(t, p)
             \/ \E t \in Tasks : CloseTask(t) \/ ReopenTask(t)
             \/ \E p \in Projects : CreateProject(p)
             \/ RecordOther
      PROVE  SubmitInv'
  <2>1. Insert(1) /\ UNCHANGED <<sub, receipts, cand>>
    BY <1>1 DEF CreateTask, MoveTask, CloseTask, ReopenTask, CreateProject, RecordOther, dbVars
  <2>. QED
    BY <2>1, AppendKeepsSubmit
<1>2. ASSUME NEW p \in Projects, DeleteProject(p) PROVE SubmitInv'
  <2>. DEFINE n == Cardinality({t \in Tasks : task[t].state \in {"open", "closed"} /\ task[t].project = p}) + 1
  <2>1. n \in Nat /\ n > 0
    BY TasksFinite
  <2>2. Insert(n) /\ UNCHANGED <<sub, receipts>>
    BY <1>2 DEF DeleteProject
  <2>3. \A c \in Candidates : cand[c].status = "absent" => cand'[c].status = "absent"
    BY <1>2 DEF DeleteProject, ReassignProject, TypeOK, CandRows
  <2>. HIDE DEF n
  <2>. QED
    BY <2>1, <2>2, <2>3, AppendKeepsSubmit
<1>3. ASSUME NEW listed \in SUBSET Tasks, PurgeList(listed) PROVE SubmitInv'
  BY <1>3, QuietKeepsSubmit DEF PurgeList, logVars, SubmitInv, MarkHolds
<1>4. CASE PurgeDelete
  <2>1. Cardinality(purge) \in Nat /\ Cardinality(purge) # 0
    BY <1>4, TasksFinite, FS_EmptySet DEF PurgeDelete, TypeOK
  <2>2. Insert(Cardinality(purge)) /\ UNCHANGED <<sub, receipts, cand>>
    BY <1>4 DEF PurgeDelete
  <2>. QED
    BY <2>1, <2>2, AppendKeepsSubmit
<1>5. ASSUME NEW keep \in firstSeq + 1 .. lastSeq + 1, Retention(keep) PROVE SubmitInv'
  BY <1>5, QuietKeepsSubmit DEF Retention, DeleteOlderThan
<1>. QED
  BY <1>1, <1>2, <1>3, <1>4, <1>5 DEF OtherWriter

\* Every step of the system keeps the snapshot current or visibly out of date.
LEMMA NextSubmit == TypeOK /\ SubmitInv /\ [Next]_vars => SubmitInv'
<1>. SUFFICES ASSUME TypeOK, SubmitInv, [Next]_vars PROVE SubmitInv'
  OBVIOUS
<1>1. ASSUME NEW keys \in SUBSET Keys, NEW want \in 0..MaxBatch, NEW p \in Projects,
             SubmitBegin(keys, want, p)
      PROVE  SubmitInv'
  BY <1>1, RestartKeepsSubmit DEF SubmitBegin, Idle
<1>2. CASE SubmitFail \/ Crash
  BY <1>2, RestartKeepsSubmit DEF SubmitFail, Crash, Idle
<1>3. CASE UNCHANGED vars
  BY <1>3, QuietKeepsSubmit DEF vars, logVars, SubmitInv, MarkHolds
<1>. QED
  BY <1>1, <1>2, <1>3, StepSubmit, OwnerSubmit, OtherWriterSubmit DEF Next

\* While a Submit waits for the model its snapshot is either current or visibly out of date.
THEOREM SubmitInvariant == Spec => []SubmitInv
BY TypeCorrect, InitSubmit, NextSubmit, PTL DEF Spec

-------------------------------------------------------------------------------
(* Duplicates.                                                             *)

\* The recheck of the revision: it is the one that was read only when no event at all has
\* been appended since, even if retention has emptied the table at either moment.
LEMMA RevisionMeansMark ==
    ASSUME TypeOK, SubmitInv, sub.pc = "assess", RevisionCurrent
    PROVE  lastSeq = sub.mark
<1>1. /\ sub.mark \in Nat /\ sub.revision \in Nat /\ lastSeq \in Nat /\ firstSeq \in Nat
      /\ sub.mark <= lastSeq /\ sub.revision <= sub.mark /\ firstSeq <= sub.mark + 1
  BY DEF SubmitInv, MarkHolds, TypeOK, LogTypeOK, Submits
<1>. QED
  BY <1>1 DEF RevisionCurrent, MaxSeq

\* In the state a commit leads to, the match of each duplicate stands.
LEMMA CommitJustified ==
    ASSUME TypeOK, SubmitInv, Commit, NEW c \in Candidates,
           cand'[c].status = "duplicate", cand[c].status # "duplicate"
    PROVE  Stands(cand'[c].match, cand'[c].project, task', cand')
<1>1. sub.pc = "assess" /\ RevisionCurrent
  BY DEF Commit
<1>2. sub.live = LiveRefs(sub.project)
  BY <1>1, RevisionMeansMark DEF SubmitInv, SnapshotHolds
<1>3. PICK new \in FreshTasks(CreatedIn(sub.batch)) :
         /\ task' = [t \in Tasks |->
                       IF \E d \in DOMAIN new : new[d] = t
                       THEN [state |-> "open", project |-> sub.project, auto |-> TRUE]
                       ELSE task[t]]
         /\ cand' = [d \in Candidates |->
                       IF sub.batch[d].status = "absent" THEN cand[d]
                       ELSE CommittedCand(d, sub.batch, new)]
  BY DEF Commit
<1>4. /\ DOMAIN new = {d \in Candidates : sub.batch[d].status = "created"}
      /\ \A d \in DOMAIN new : new[d] \in Tasks /\ Fresh(new[d])
  BY DEF FreshTasks, CreatedIn, Tasks
<1>5. sub.batch[c].status = "duplicate" /\ cand'[c].project = sub.project
      /\ cand'[c].match = IF sub.batch[c].match \in DOMAIN new THEN new[sub.batch[c].match]
                          ELSE sub.batch[c].match
  BY <1>3 DEF CommittedCand
<1>6. CASE sub.batch[c].match \in DOMAIN new
  BY <1>3, <1>4, <1>5, <1>6 DEF Stands
<1>7. CASE sub.batch[c].match \notin DOMAIN new
  <2>. DEFINE r == sub.batch[c].match
  <2>1. r \in LiveRefs(sub.project) \cup BatchRefs(sub.batch)
    BY <1>2, <1>5 DEF SubmitInv, BatchHolds
  <2>2. CASE r \in Tasks /\ task[r].state = "open" /\ task[r].project = sub.project
    BY <1>3, <1>4, <1>5, <1>7, <2>2 DEF Stands, Fresh
  <2>3. CASE r \in Candidates /\ cand[r].status \in {"pending", "rejected"} /\ cand[r].project = sub.project
    <3>1. sub.batch[r].status = "absent"
      BY <2>3 DEF SubmitInv, BatchHolds
    <3>. QED
      BY <1>3, <1>5, <1>7, <2>3, <3>1 DEF Stands
  <2>4. CASE r \in BatchRefs(sub.batch)
    <3>1. r \in Candidates /\ sub.batch[r].status = "pending"
      BY <1>4, <1>7, <2>4 DEF BatchRefs
    <3>. QED
      BY <1>3, <1>5, <1>7, <3>1 DEF Stands, CommittedCand
  <2>. QED
    BY <2>1, <2>2, <2>3, <2>4 DEF LiveRefs
<1>. QED
  BY <1>6, <1>7

\* Nothing but the commit of a Submit makes a candidate a duplicate.
LEMMA OnlyCommitMakesDuplicates ==
    ASSUME TypeOK, [Next]_vars, ~Commit, NEW c \in Candidates, cand'[c].status = "duplicate"
    PROVE  cand[c].status = "duplicate"
<1>1. CASE cand' = cand
  BY <1>1
<1>2. ASSUME NEW d \in Candidates, NEW t \in AutoIds, Approve(d, t) PROVE cand[c].status = "duplicate"
  BY <1>2 DEF Approve, TypeOK, CandRows
<1>3. ASSUME NEW d \in Candidates, Reject(d) PROVE cand[c].status = "duplicate"
  BY <1>3 DEF Reject, TypeOK, CandRows
<1>4. ASSUME NEW p \in Projects, DeleteProject(p) PROVE cand[c].status = "duplicate"
  BY <1>4 DEF DeleteProject, ReassignProject, TypeOK, CandRows
<1>5. CASE \/ \E keys \in SUBSET Keys, want \in 0..MaxBatch, p \in Projects : SubmitBegin(keys, want, p)
           \/ ReadRevision \/ Replay \/ SnapshotFallback \/ CommitRetry \/ SubmitFail \/ Crash
           \/ \E recent \in SUBSET ClosedTasks(sub.project) : Snapshot(recent)
           \/ \E d \in Candidates : Assess(d)
  BY <1>5, <1>1 DEF SubmitBegin, ReadRevision, Replay, SnapshotFallback, CommitRetry, SubmitFail,
                    Crash, Snapshot, Assess, dbVars
<1>6. CASE \/ \E t \in ManualIds, p \in Projects : CreateTask(t, p)
           \/ \E t \in Tasks, p \in Projects : MoveTask(t, p)
           \/ \E t \in Tasks : CloseTask(t) \/ ReopenTask(t)
           \/ \E p \in Projects : CreateProject(p)
           \/ \E listed \in SUBSET Tasks : PurgeList(listed)
           \/ PurgeDelete \/ RecordOther
           \/ \E keep \in firstSeq + 1 .. lastSeq + 1 : Retention(keep)
  BY <1>6, <1>1 DEF CreateTask, MoveTask, CloseTask, ReopenTask, CreateProject, PurgeList,
                    PurgeDelete, RecordOther, Retention, dbVars
<1>7. CASE UNCHANGED vars
  BY <1>7, <1>1 DEF vars, dbVars
<1>. QED
  BY <1>2, <1>3, <1>4, <1>5, <1>6, <1>7 DEF Next, SubmitStep, OwnerStep, OtherWriter

\* A promise is dropped only as the repetition of an obligation that stands in the very state
\* that records the decision, however long the model took and whatever was written meanwhile.
THEOREM DuplicatesAreJustified == Spec => DuplicateJustified
<1>. DEFINE Justified ==
        \A c \in Candidates :
            cand'[c].status = "duplicate" /\ cand[c].status # "duplicate" =>
                Stands(cand'[c].match, cand'[c].project, task', cand')
<1>1. TypeOK /\ SubmitInv /\ [Next]_vars => Justified
  BY CommitJustified, OnlyCommitMakesDuplicates
<1>2. TypeOK /\ SubmitInv /\ [Next]_vars => [Justified]_vars
  BY <1>1
<1>3. [][Justified]_vars <=> DuplicateJustified
  BY DEF DuplicateJustified
<1>. HIDE DEF Justified
<1>. QED
  BY <1>2, <1>3, TypeCorrect, SubmitInvariant, PTL DEF Spec

-------------------------------------------------------------------------------
(* Candidates, the tasks they own and the projects they are in.            *)

\* The rows' inductive invariant: ownership needs that undecided candidates own nothing.
RowsInv == RowsHold /\ CandidateProjectLive /\ AutoTaskOwned

\* At the start there is no candidate and no automatic task.
LEMMA InitRows == Init => RowsInv
<1>. SUFFICES ASSUME Init PROVE RowsInv
  OBVIOUS
<1>1. \A c \in Candidates : cand[c] = NoCand /\ cand[c].status = "absent" /\ cand[c].task = None
  BY DEF Init, NoCand
<1>2. \A t \in Tasks : ~task[t].auto
  <2>1. PICK held \in [ManualIds -> {NoTask} \cup [state : {"open", "closed"},
                          project : {p \in Projects : Live(p)}, auto : {FALSE}]] :
           task = [t \in Tasks |-> IF t \in ManualIds THEN held[t] ELSE NoTask]
    BY DEF Init
  <2>2. NoTask.auto = FALSE
    BY DEF NoTask
  <2>3. \A row \in [state : {"open", "closed"}, project : {p \in Projects : Live(p)}, auto : {FALSE}] :
           row.auto = FALSE
    OBVIOUS
  <2>4. ASSUME NEW t \in Tasks PROVE task[t].auto = FALSE
    BY <2>1, <2>2, <2>3
  <2>. QED
    BY <2>4
<1>. QED
  BY <1>1, <1>2 DEF Init, RowsInv, RowsHold, CandidateProjectLive, AutoTaskOwned

\* Tasks come and go and move without a candidate noticing, as long as a row stays a row
\* and nobody else marks a task as the automatic path's.
LEMMA TasksKeepRows ==
    ASSUME RowsInv, project[Inbox] = "live" => project'[Inbox] = "live", cand' = cand,
           \A c \in Candidates : Live(cand[c].project) => Live(cand[c].project)',
           \A t \in Tasks : task[t].state # "absent" => task'[t].state # "absent",
           \A t \in Tasks : task'[t].auto => task[t].auto,
           TypeOK
    PROVE  RowsInv'
<1>1. RowsHold'
  BY DEF RowsInv, RowsHold, TypeOK, CandRows
<1>2. CandidateProjectLive' /\ AutoTaskOwned'
  BY DEF RowsInv, CandidateProjectLive, AutoTaskOwned
<1>. QED
  BY <1>1, <1>2 DEF RowsInv

\* A commit inserts candidates and tasks that own each other one to one.
LEMMA CommitRows == TypeOK /\ SubmitInv /\ RowsInv /\ Commit => RowsInv'
<1>. SUFFICES ASSUME TypeOK, SubmitInv, RowsInv, Commit PROVE RowsInv'
  OBVIOUS
<1>1. PICK new \in FreshTasks(CreatedIn(sub.batch)) :
         /\ task' = [t \in Tasks |->
                       IF \E d \in DOMAIN new : new[d] = t
                       THEN [state |-> "open", project |-> sub.project, auto |-> TRUE]
                       ELSE task[t]]
         /\ cand' = [d \in Candidates |->
                       IF sub.batch[d].status = "absent" THEN cand[d]
                       ELSE CommittedCand(d, sub.batch, new)]
  BY DEF Commit
<1>2. /\ DOMAIN new = {d \in Candidates : sub.batch[d].status = "created"}
      /\ \A d \in DOMAIN new : new[d] \in Tasks /\ Fresh(new[d])
      /\ \A c, d \in DOMAIN new : new[c] = new[d] => c = d
  BY DEF FreshTasks, CreatedIn, Tasks
<1>3. None \notin Tasks
  BY AutoTasksAssumption DEF Tasks
<1>4. Live(sub.project) /\ project' = project
  BY DEF Commit
\* The rows that were there stay; a row of the batch takes the place of no other.
<1>5. \A c \in Candidates : cand[c].status # "absent" =>
         sub.batch[c].status = "absent" /\ cand'[c] = cand[c]
  BY <1>1 DEF SubmitInv, BatchHolds
<1>6. \A c \in Candidates : sub.batch[c].status # "absent" =>
         /\ cand'[c].status = sub.batch[c].status /\ cand'[c].project = sub.project
         /\ cand'[c].task = IF c \in DOMAIN new THEN new[c] ELSE None
  BY <1>1 DEF CommittedCand
<1>7. \A c \in Candidates : sub.batch[c].status = "absent" => cand'[c] = cand[c]
  BY <1>1
<1>8. \A t \in Tasks : task[t].state # "absent" => task'[t].state # "absent"
  BY <1>1
<1>9. \A c \in DOMAIN new : task'[new[c]].state = "open"
  BY <1>1, <1>2
<1>10. \A c \in Candidates : cand[c].task \in Tasks \cup {None}
  BY DEF TypeOK, CandRows
<1>11. RowsHold'
  <2>1. project'[Inbox] = "live"
    BY <1>4 DEF RowsInv, RowsHold
  <2>2. ASSUME NEW c \in Candidates
        PROVE  /\ cand'[c].status = "absent" => cand'[c] = NoCand
               /\ cand'[c].task # None <=> cand'[c].status = "created"
               /\ cand'[c].task # None => task'[cand'[c].task].state # "absent"
    <3>1. CASE sub.batch[c].status = "absent"
      BY <1>7, <1>8, <1>10, <3>1 DEF RowsInv, RowsHold
    <3>2. CASE sub.batch[c].status # "absent"
      BY <1>2, <1>3, <1>6, <1>9, <3>2
    <3>. QED
      BY <3>1, <3>2
  <2>. QED
    BY <2>1, <2>2 DEF RowsHold
<1>12. CandidateProjectLive'
  BY <1>4, <1>6, <1>7 DEF RowsInv, CandidateProjectLive, Live
<1>13. AutoTaskOwned'
  <2>1. ASSUME NEW c \in DOMAIN new, NEW d \in Candidates, cand'[d].task = new[c] PROVE d = c
    <3>1. CASE sub.batch[d].status = "absent"
      BY <1>2, <1>3, <1>7, <2>1, <3>1 DEF RowsInv, RowsHold, Fresh
    <3>2. CASE sub.batch[d].status # "absent"
      BY <1>2, <1>3, <1>6, <2>1, <3>2
    <3>. QED
      BY <3>1, <3>2
  <2>2. ASSUME NEW t \in Tasks, task'[t].auto, \A c \in DOMAIN new : new[c] # t
        PROVE  \E c \in Candidates : /\ cand'[c].status = "created" /\ cand'[c].task = t
                                     /\ \A d \in Candidates : cand'[d].task = t => d = c
    <3>1. task[t].auto
      BY <1>1, <2>2
    <3>2. PICK c \in Candidates : /\ cand[c].status = "created" /\ cand[c].task = t
                                  /\ \A d \in Candidates : cand[d].task = t => d = c
      BY <3>1 DEF RowsInv, AutoTaskOwned
    <3>3. \A d \in Candidates : cand'[d].task = t => cand[d].task = t
      BY <1>3, <1>6, <1>7, <2>2
    <3>. QED
      BY <1>5, <3>2, <3>3
  <2>3. ASSUME NEW c \in DOMAIN new
        PROVE  cand'[c].status = "created" /\ cand'[c].task = new[c] /\ c \in Candidates
    BY <1>2, <1>6
  <2>. QED
    BY <2>1, <2>2, <2>3 DEF AutoTaskOwned
<1>. QED
  BY <1>11, <1>12, <1>13 DEF RowsInv

\* An answer of the owner gives the candidate a fresh task or none.
LEMMA OwnerRows == TypeOK /\ RowsInv /\ OwnerStep => RowsInv'
<1>. SUFFICES ASSUME TypeOK, RowsInv, OwnerStep PROVE RowsInv'
  OBVIOUS
<1>0. None \notin Tasks /\ AutoIds \subseteq Tasks
  BY AutoTasksAssumption DEF Tasks
<1>1. ASSUME NEW c \in Candidates, NEW t \in AutoIds, Approve(c, t) PROVE RowsInv'
  <2>1. /\ task' = [task EXCEPT ![t] = [state |-> "open", project |-> cand[c].project, auto |-> TRUE]]
        /\ cand' = [cand EXCEPT ![c] = [cand[c] EXCEPT !.status = "created", !.task = t]]
        /\ project' = project /\ cand[c].status = "pending" /\ Fresh(t) /\ t \in Tasks
    BY <1>0, <1>1 DEF Approve, Undecided
  <2>2. /\ cand'[c].status = "created" /\ cand'[c].task = t /\ cand'[c].project = cand[c].project
        /\ \A d \in Candidates : d # c => cand'[d] = cand[d]
        /\ task'[t].state = "open" /\ \A u \in Tasks : u # t => task'[u] = task[u]
    BY <2>1 DEF TypeOK, CandRows
  <2>3. \A d \in Candidates : cand[d].task # t
    BY <1>0, <2>1 DEF RowsInv, RowsHold, Fresh
  <2>4. \A d \in Candidates : cand[d].task \in Tasks \cup {None}
    BY DEF TypeOK, CandRows
  <2>5. RowsHold'
    BY <1>0, <2>1, <2>2, <2>3, <2>4 DEF RowsInv, RowsHold
  <2>6. CandidateProjectLive'
    BY <2>1, <2>2 DEF RowsInv, CandidateProjectLive, Live
  <2>7. AutoTaskOwned'
    BY <2>1, <2>2, <2>3 DEF RowsInv, AutoTaskOwned
  <2>. QED
    BY <2>5, <2>6, <2>7 DEF RowsInv
<1>2. ASSUME NEW c \in Candidates, Reject(c) PROVE RowsInv'
  <2>1. /\ cand[c].status = "pending" /\ task' = task /\ project' = project
        /\ cand' = [cand EXCEPT ![c] = [cand[c] EXCEPT !.status = "rejected"]]
    BY <1>2 DEF Reject, Undecided
  <2>2. /\ cand'[c].status = "rejected" /\ cand'[c].task = cand[c].task /\ cand'[c].project = cand[c].project
        /\ \A d \in Candidates : d # c => cand'[d] = cand[d]
    BY <2>1 DEF TypeOK, CandRows
  <2>3. RowsHold'
    BY <2>1, <2>2 DEF RowsInv, RowsHold
  <2>4. CandidateProjectLive' /\ AutoTaskOwned'
    BY <2>1, <2>2 DEF RowsInv, CandidateProjectLive, AutoTaskOwned, Live
  <2>. QED
    BY <2>3, <2>4 DEF RowsInv
<1>. QED
  BY <1>1, <1>2 DEF OwnerStep

\* Other writers move or remove tasks and projects without orphaning a candidate.
LEMMA OtherWriterRows == TypeOK /\ RowsInv /\ OtherWriter => RowsInv'
<1>. SUFFICES ASSUME TypeOK, RowsInv, OtherWriter PROVE RowsInv'
  OBVIOUS
<1>. USE DEF TypeOK, TaskRows
<1>1. ASSUME NEW t \in ManualIds, NEW p \in Projects, CreateTask(t, p) PROVE RowsInv'
  BY <1>1, TasksKeepRows DEF CreateTask, Tasks, Live
<1>2. ASSUME NEW t \in Tasks, NEW p \in Projects, MoveTask(t, p) PROVE RowsInv'
  BY <1>2, TasksKeepRows DEF MoveTask, Live
<1>3. ASSUME NEW t \in Tasks, CloseTask(t) \/ ReopenTask(t) PROVE RowsInv'
  BY <1>3, TasksKeepRows DEF CloseTask, ReopenTask, Live
<1>4. ASSUME NEW p \in Projects, CreateProject(p) PROVE RowsInv'
  BY <1>4, TasksKeepRows, AutoTasksAssumption DEF CreateProject, Live
<1>5. ASSUME NEW p \in Projects, DeleteProject(p) PROVE RowsInv'
  <2>1. /\ p # Inbox /\ project' = [project EXCEPT ![p] = "deleted"]
        /\ cand' = [c \in Candidates |->
                      IF cand[c].project = p THEN [cand[c] EXCEPT !.project = Inbox] ELSE cand[c]]
        /\ \A t \in Tasks : /\ task'[t].state = task[t].state
                             /\ task'[t].auto = task[t].auto
    BY <1>5 DEF DeleteProject, ReassignProject
  <2>2. project'[Inbox] = "live"
    BY <2>1, AutoTasksAssumption DEF RowsInv, RowsHold
  <2>3. ASSUME NEW c \in Candidates
        PROVE  /\ cand'[c].status = cand[c].status /\ cand'[c].task = cand[c].task
               /\ cand'[c].project = IF cand[c].project = p THEN Inbox ELSE cand[c].project
               /\ cand[c].project # p => cand'[c] = cand[c]
    BY <2>1 DEF CandRows
  <2>4. \A c \in Candidates : cand[c].status = "absent" => cand[c].project # p
    BY AutoTasksAssumption DEF RowsInv, RowsHold, NoCand
  <2>5. \A c \in Candidates : cand[c].task \in Tasks \cup {None}
    BY DEF CandRows
  <2>6. RowsHold'
    BY <2>1, <2>2, <2>3, <2>4, <2>5 DEF RowsInv, RowsHold
  <2>7. CandidateProjectLive'
    BY <2>1, <2>2, <2>3, AutoTasksAssumption DEF RowsInv, CandidateProjectLive, Live
  <2>8. AutoTaskOwned'
    BY <2>1, <2>3 DEF RowsInv, AutoTaskOwned
  <2>. QED
    BY <2>6, <2>7, <2>8 DEF RowsInv
<1>6. ASSUME NEW listed \in SUBSET Tasks, PurgeList(listed) PROVE RowsInv'
  BY <1>6, TasksKeepRows DEF PurgeList, dbVars, Live
<1>7. CASE PurgeDelete
  BY <1>7, TasksKeepRows DEF PurgeDelete, Live
<1>8. CASE RecordOther \/ \E keep \in firstSeq + 1 .. lastSeq + 1 : Retention(keep)
  BY <1>8, TasksKeepRows DEF RecordOther, Retention, dbVars, Live
<1>. QED
  BY <1>1, <1>2, <1>3, <1>4, <1>5, <1>6, <1>7, <1>8 DEF OtherWriter

\* Every step of the system keeps the rows consistent.
LEMMA NextRows == TypeOK /\ SubmitInv /\ RowsInv /\ [Next]_vars => RowsInv'
<1>. SUFFICES ASSUME TypeOK, SubmitInv, RowsInv, [Next]_vars PROVE RowsInv'
  OBVIOUS
<1>1. CASE UNCHANGED dbVars
  BY <1>1, TasksKeepRows DEF dbVars, Live
<1>2. CASE \/ \E keys \in SUBSET Keys, want \in 0..MaxBatch, p \in Projects : SubmitBegin(keys, want, p)
           \/ ReadRevision \/ Replay \/ SnapshotFallback \/ CommitRetry \/ SubmitFail \/ Crash
           \/ \E recent \in SUBSET ClosedTasks(sub.project) : Snapshot(recent)
           \/ \E d \in Candidates : Assess(d)
           \/ UNCHANGED vars
  BY <1>1, <1>2 DEF SubmitBegin, ReadRevision, Replay, SnapshotFallback, CommitRetry, SubmitFail,
                    Crash, Snapshot, Assess, vars
<1>. QED
  BY <1>2, CommitRows, OwnerRows, OtherWriterRows DEF Next, SubmitStep

\* The rows of the automatic path are consistent in every state: candidates point to live
\* projects, and to a task exactly when they were accepted (UpdateCandidateTx, ReassignProjectTx).
THEOREM RowsInvariant == Spec => []RowsInv
BY TypeCorrect, SubmitInvariant, InitRows, NextRows, PTL DEF Spec

\* Every task the automatic path ever inserted belongs to exactly one accepted candidate.
THEOREM AutoTasksOwned == Spec => []AutoTaskOwned
<1>1. RowsInv => AutoTaskOwned
  BY DEF RowsInv
<1>. QED
  BY <1>1, RowsInvariant, PTL

\* No candidate is left in a project that has been deleted.
THEOREM CandidateProjectsLive == Spec => []CandidateProjectLive
<1>1. RowsInv => CandidateProjectLive
  BY DEF RowsInv
<1>. QED
  BY <1>1, RowsInvariant, PTL

-------------------------------------------------------------------------------
(* Refinement of PromiseLedger.                                            *)

\* The refinement mapping's two functions, named for the proofs below.
LedgerVerdict == [c \in Candidates |-> IF cand[c].status = "absent" THEN "unknown" ELSE cand[c].status]
LedgerOwns    == [c \in Candidates |-> cand[c].task]

\* An empty candidates table is an empty ledger.
LEMMA InitLedger == Init => Ledger!Init
BY DEF Init, NoCand, Ledger!Init

\* A commit is one intake of the ledger.
LEMMA CommitIntake ==
    ASSUME TypeOK, SubmitInv, RowsInv, Commit
    PROVE  \E inputs \in SUBSET Keys, obligations \in SUBSET Candidates : Ledger!Intake(inputs, obligations)
<1>0. PICK keys \in SUBSET Keys, found \in SUBSET Candidates :
         keys = sub.keys /\ found = {c \in Candidates : sub.batch[c].status # "absent"}
  BY DEF TypeOK, Submits
<1>. DEFINE class == [c \in found |-> sub.batch[c].status]
<1>1. PICK new \in FreshTasks(CreatedIn(sub.batch)) :
         /\ task' = [t \in Tasks |->
                       IF \E d \in DOMAIN new : new[d] = t
                       THEN [state |-> "open", project |-> sub.project, auto |-> TRUE]
                       ELSE task[t]]
         /\ cand' = [d \in Candidates |->
                       IF sub.batch[d].status = "absent" THEN cand[d]
                       ELSE CommittedCand(d, sub.batch, new)]
  BY DEF Commit
<1>2. ~(keys \subseteq receipts) /\ receipts' = receipts \cup keys
  BY <1>0 DEF Commit, SubmitInv, SnapshotHolds, Replayed
<1>3. \A c \in found : cand[c].status = "absent"
  BY <1>0 DEF SubmitInv, BatchHolds
<1>4. class \in [found -> {"pending", "created", "duplicate"}]
  BY <1>0 DEF TypeOK, Submits, Batches, BatchStatus
<1>5. {c \in found : class[c] = "created"} = CreatedIn(sub.batch)
  BY <1>0 DEF CreatedIn
<1>6. /\ new \in [{c \in found : class[c] = "created"} -> Tasks]
      /\ DOMAIN new = CreatedIn(sub.batch)
      /\ \A c, d \in DOMAIN new : new[c] = new[d] => c = d
      /\ \A c \in DOMAIN new : Fresh(new[c]) /\ new[c] \in Tasks
  BY <1>5 DEF FreshTasks, Tasks
<1>7. \A c \in DOMAIN new, d \in Candidates : cand[d].task # new[c]
  <2>1. None \notin Tasks
    BY AutoTasksAssumption DEF Tasks
  <2>2. ASSUME NEW t \in Tasks, Fresh(t), NEW d \in Candidates PROVE cand[d].task # t
    BY <2>1, <2>2 DEF RowsInv, RowsHold, Fresh
  <2>. QED
    BY <1>6, <2>2
<1>8. \A c \in Candidates : c \notin found => cand'[c] = cand[c]
  BY <1>0, <1>1
<1>9. \A c \in found : /\ cand'[c].status = class[c]
                        /\ cand'[c].task = IF c \in DOMAIN new THEN new[c] ELSE cand[c].task
  <2>1. \A c \in found : cand[c].task = None
    BY <1>3 DEF RowsInv, RowsHold
  <2>. QED
    BY <1>0, <1>1, <2>1 DEF CommittedCand
<1>10. LedgerVerdict' = [c \in Candidates |-> IF c \in found THEN class[c] ELSE LedgerVerdict[c]]
  BY <1>4, <1>8, <1>9 DEF LedgerVerdict
<1>11. LedgerOwns' = [c \in Candidates |-> IF c \in DOMAIN new THEN new[c] ELSE LedgerOwns[c]]
  BY <1>5, <1>6, <1>8, <1>9 DEF LedgerOwns
<1>12. \A c \in found : LedgerVerdict[c] = "unknown"
  BY <1>3 DEF LedgerVerdict
<1>13. \A c \in DOMAIN new : \A d \in Candidates : LedgerOwns[d] # new[c]
  BY <1>7 DEF LedgerOwns
<1>14. \E k \in [found -> {"pending", "created", "duplicate"}] :
          /\ LedgerVerdict' = [c \in Candidates |-> IF c \in found THEN k[c] ELSE LedgerVerdict[c]]
          /\ \E n \in [{c \in found : k[c] = "created"} -> Tasks] :
                /\ \A c \in DOMAIN n : \A d \in Candidates : LedgerOwns[d] # n[c]
                /\ \A c, d \in DOMAIN n : n[c] = n[d] => c = d
                /\ LedgerOwns' = [c \in Candidates |-> IF c \in DOMAIN n THEN n[c] ELSE LedgerOwns[c]]
  <2>. HIDE DEF class
  <2>1. WITNESS class \in [found -> {"pending", "created", "duplicate"}]
  <2>2. \E n \in [{c \in found : class[c] = "created"} -> Tasks] :
                /\ \A c \in DOMAIN n : \A d \in Candidates : LedgerOwns[d] # n[c]
                /\ \A c, d \in DOMAIN n : n[c] = n[d] => c = d
                /\ LedgerOwns' = [c \in Candidates |-> IF c \in DOMAIN n THEN n[c] ELSE LedgerOwns[c]]
    BY <1>6, <1>11, <1>13
  <2>. QED
    BY <1>10, <2>2
<1>15. Ledger!Intake(keys, found)
  BY <1>2, <1>12, <1>14 DEF Ledger!Intake, Ledger!Unowned, LedgerVerdict, LedgerOwns
<1>. QED
  BY <1>15

\* An approval is an acceptance of the ledger, a refusal a refusal.
LEMMA OwnerLedger == TypeOK /\ RowsInv /\ OwnerStep => Ledger!Next
<1>. SUFFICES ASSUME TypeOK, RowsInv, OwnerStep PROVE Ledger!Next
  OBVIOUS
<1>1. ASSUME NEW c \in Candidates, NEW t \in AutoIds, Approve(c, t) PROVE Ledger!Accept(c, t) /\ t \in Tasks
  <2>1. /\ cand' = [cand EXCEPT ![c] = [cand[c] EXCEPT !.status = "created", !.task = t]]
        /\ cand[c].status = "pending" /\ Fresh(t) /\ t \in Tasks /\ receipts' = receipts
    BY <1>1 DEF Approve, Undecided, Tasks
  <2>2. /\ cand'[c].status = "created" /\ cand'[c].task = t
        /\ \A d \in Candidates : d # c => cand'[d] = cand[d]
    BY <2>1 DEF TypeOK, CandRows
  <2>3. \A d \in Candidates : cand[d].task # t
    BY <2>1, AutoTasksAssumption DEF RowsInv, RowsHold, Fresh, Tasks
  <2>4. LedgerVerdict[c] = "pending" /\ LedgerVerdict' = [LedgerVerdict EXCEPT ![c] = "created"]
    <3>1. cand[c].status = "pending" /\ cand'[c].status = "created"
      BY <2>1, <2>2
    <3>2. LedgerVerdict[c] = "pending"
      BY <3>1 DEF LedgerVerdict
    <3>3. ASSUME NEW d \in Candidates
          PROVE  LedgerVerdict'[d] = IF d = c THEN "created" ELSE LedgerVerdict[d]
      BY <2>2, <3>1 DEF LedgerVerdict
    <3>. QED
      BY <3>2, <3>3 DEF LedgerVerdict
  <2>5. LedgerOwns' = [LedgerOwns EXCEPT ![c] = t] /\ \A d \in Candidates : LedgerOwns[d] # t
    BY <2>2, <2>3 DEF LedgerOwns
  <2>. QED
    BY <2>1, <2>4, <2>5 DEF Ledger!Accept, Ledger!Unowned, LedgerVerdict, LedgerOwns
<1>2. ASSUME NEW c \in Candidates, Reject(c) PROVE Ledger!Refuse(c)
  <2>1. /\ cand[c].status = "pending" /\ receipts' = receipts
        /\ cand' = [cand EXCEPT ![c] = [cand[c] EXCEPT !.status = "rejected"]]
    BY <1>2 DEF Reject, Undecided
  <2>2. /\ cand'[c].status = "rejected" /\ cand'[c].task = cand[c].task
        /\ \A d \in Candidates : d # c => cand'[d] = cand[d]
    BY <2>1 DEF TypeOK, CandRows
  <2>3. LedgerVerdict[c] = "pending" /\ LedgerVerdict' = [LedgerVerdict EXCEPT ![c] = "rejected"]
    <3>1. cand[c].status = "pending" /\ cand'[c].status = "rejected"
      BY <2>1, <2>2
    <3>2. LedgerVerdict[c] = "pending"
      BY <3>1 DEF LedgerVerdict
    <3>3. ASSUME NEW d \in Candidates
          PROVE  LedgerVerdict'[d] = IF d = c THEN "rejected" ELSE LedgerVerdict[d]
      BY <2>2, <3>1 DEF LedgerVerdict
    <3>. QED
      BY <3>2, <3>3 DEF LedgerVerdict
  <2>4. LedgerOwns' = LedgerOwns
    BY <2>2 DEF LedgerOwns
  <2>. QED
    BY <2>1, <2>3, <2>4 DEF Ledger!Refuse, LedgerVerdict, LedgerOwns
<1>. QED
  BY <1>1, <1>2 DEF OwnerStep, Ledger!Next

\* Every other step is invisible in the ledger.
LEMMA OtherLedger ==
    ASSUME TypeOK, [Next]_vars, ~Commit, ~OwnerStep
    PROVE  UNCHANGED Ledger!ledgerVars
<1>1. CASE UNCHANGED <<cand, receipts>>
  BY <1>1 DEF Ledger!ledgerVars
<1>2. ASSUME NEW p \in Projects, DeleteProject(p) PROVE UNCHANGED Ledger!ledgerVars
  <2>1. receipts' = receipts /\ \A c \in Candidates : cand'[c].status = cand[c].status /\ cand'[c].task = cand[c].task
    BY <1>2 DEF DeleteProject, ReassignProject, TypeOK, CandRows
  <2>. QED
    BY <2>1 DEF Ledger!ledgerVars
<1>3. CASE \/ \E keys \in SUBSET Keys, want \in 0..MaxBatch, p \in Projects : SubmitBegin(keys, want, p)
           \/ ReadRevision \/ Replay \/ SnapshotFallback \/ CommitRetry \/ SubmitFail \/ Crash
           \/ \E recent \in SUBSET ClosedTasks(sub.project) : Snapshot(recent)
           \/ \E d \in Candidates : Assess(d)
  BY <1>3, <1>1 DEF SubmitBegin, ReadRevision, Replay, SnapshotFallback, CommitRetry, SubmitFail,
                    Crash, Snapshot, Assess, dbVars
<1>4. CASE \/ \E t \in ManualIds, p \in Projects : CreateTask(t, p)
           \/ \E t \in Tasks, p \in Projects : MoveTask(t, p)
           \/ \E t \in Tasks : CloseTask(t) \/ ReopenTask(t)
           \/ \E p \in Projects : CreateProject(p)
           \/ \E listed \in SUBSET Tasks : PurgeList(listed)
           \/ PurgeDelete \/ RecordOther
           \/ \E keep \in firstSeq + 1 .. lastSeq + 1 : Retention(keep)
  BY <1>4, <1>1 DEF CreateTask, MoveTask, CloseTask, ReopenTask, CreateProject, PurgeList,
                    PurgeDelete, RecordOther, Retention, dbVars
<1>5. CASE UNCHANGED vars
  BY <1>5, <1>1 DEF vars, dbVars
<1>. QED
  BY <1>2, <1>3, <1>4, <1>5 DEF Next, SubmitStep, OtherWriter

\* Automatic intake, with its transactions, retries, crashes and other writers, implements the
\* ledger: each input at most once, each decision final, each acceptance with its own task.
THEOREM IntakeImplementsLedger == Spec => ImplementsLedger
<1>1. TypeOK /\ SubmitInv /\ RowsInv /\ [Next]_vars => [Ledger!Next]_(Ledger!ledgerVars)
  BY CommitIntake, OwnerLedger, OtherLedger DEF Ledger!Next
<1>. QED
  BY <1>1, InitLedger, TypeCorrect, SubmitInvariant, RowsInvariant, PTL
     DEF Spec, ImplementsLedger, Ledger!Spec
===============================================================================
