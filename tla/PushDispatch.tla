------------------------------ MODULE PushDispatch ------------------------------
(***************************************************************************)
(* The push queue (internal/push/queue.go) and its dispatcher              *)
(* (internal/push/dispatcher.go), together with the devices and the relay. *)
(* A job is due in the order of next_attempt_at: one whose backoff elapses *)
(* goes behind those already due.  The dispatcher works through a batch it *)
(* has read, one statement or call per step.                               *)
(***************************************************************************)
EXTENDS DeviceTokens, Selection

CONSTANTS MaxJobs,          \* bound on the rows ever queued
          BatchSize, MaxAttempts,
          MaxFaults,        \* bound on failed statements and crashes
          MaxStarts         \* bound on PATCHes and revocations

ASSUME PushDispatchAssumption ==
    /\ MaxJobs \in Nat
    /\ BatchSize \in Nat \ {0}
    /\ MaxAttempts \in Nat \ {0}
    /\ MaxFaults \in Nat
    /\ MaxStarts \in Nat

VARIABLES job,          \* table push_queue
          due,          \* pending jobs whose next_attempt_at has passed, in its order
          disp,         \* the dispatcher: its batch and where it is with the first job of it
          faults, starts,
          accepted,     \* auxiliary: in how many attempts a provider took the push of a job
          unrecorded    \* auxiliary: how often the outcome of an attempt was lost

queueVars == <<job, due>>
auxVars   == <<faults, starts, accepted, unrecorded>>
pushVars  == <<relayVars, deviceVars, queueVars, disp, auxVars>>

Jobs == 1..MaxJobs

NoJob    == [state |-> "none", dev |-> None, pushable |-> FALSE, attempts |-> 0]
IdleDisp == [pc |-> "idle", batch |-> <<>>, ask |-> None, verdict |-> "none"]

PushTypeOK ==
    /\ RelayTypeOK
    /\ DeviceTypeOK
    /\ job \in [Jobs -> [state : {"none", "pending", "delivered", "dropped", "gone"},
                         dev : Devices \cup {None}, pushable : BOOLEAN, attempts : 0..(MaxAttempts - 1)]]
    /\ due \in Seq(Jobs)
    /\ disp \in [pc : {"idle", "event", "device", "wait", "clear", "settle"}, batch : Seq(Jobs),
                 ask : Asks \cup {None}, verdict : {"none", "delivered", "failed", "dropped"}]
    /\ faults \in 0..MaxFaults
    /\ starts \in 0..MaxStarts
    /\ accepted \in [Jobs -> Nat]
    /\ unrecorded \in [Jobs -> Nat]

\* Pairing has registered the device with the tokens it came with.
PushInit ==
    /\ device \in [Devices -> [status : {"active"}, tokens : TokenPair]]
    /\ reg = [d \in Devices |-> device[d].tokens]
    /\ ask = [a \in Asks |-> NoAsk]
    /\ patch = [p \in Patches |-> NoPatch]
    /\ revoker = [r \in Revokers |-> NoRevoker]
    /\ settled = [d \in Devices |-> TRUE]
    /\ job = [j \in Jobs |-> NoJob]
    /\ due = <<>>
    /\ disp = IdleDisp
    /\ faults = 0 /\ starts = 0
    /\ accepted = [j \in Jobs |-> 0]
    /\ unrecorded = [j \in Jobs |-> 0]

Without(seq, j) == SelectIn(seq, Jobs \ {j})

-------------------------------------------------------------------------------
(* The queue.                                                              *)

\* A use case records an event and queues it, in one transaction, for a device whose stream
\* was not active.  The ids were listed before: the device may be revoked by now.
Enqueue(j, d) ==
    /\ job[j].state = "none"
    /\ \A i \in Jobs : i < j => job[i].state # "none"
    /\ device[d].status # "deleted"
    /\ \E pushable \in BOOLEAN :
          job' = [job EXCEPT ![j] = [state |-> "pending", dev |-> d, pushable |-> pushable, attempts |-> 0]]
    /\ due' = Append(due, j)
    /\ UNCHANGED <<relayVars, deviceVars, disp, auxVars>>

BackoffElapsedAnyState(j) ==
    /\ job[j].state \notin {"none", "gone"}
    /\ \A i \in 1..Len(due) : due[i] # j
    /\ due' = Append(due, j)
    /\ UNCHANGED <<relayVars, deviceVars, job, disp, auxVars>>

\* NextBatch sees pending rows only, once next_attempt_at has passed.
BackoffElapsed(j) ==
    /\ job[j].state = "pending"
    /\ \A i \in 1..Len(due) : due[i] # j
    /\ due' = Append(due, j)
    /\ UNCHANGED <<relayVars, deviceVars, job, disp, auxVars>>

\* DeleteDelivered removes finished rows; deleting an event or a device takes its rows along.
RowDeleted(j) ==
    /\ job[j].state \in {"pending", "delivered", "dropped"}
    /\ job' = [job EXCEPT ![j].state = "gone"]
    /\ due' = Without(due, j)
    /\ UNCHANGED <<relayVars, deviceVars, disp, auxVars>>

DeleteDevice(d) ==
    /\ DeleteRevoked(d)
    /\ job' = [j \in Jobs |-> IF job[j].dev = d THEN [job[j] EXCEPT !.state = "gone"] ELSE job[j]]
    /\ due' = SelectIn(due, {j \in Jobs : job[j].dev # d})
    /\ UNCHANGED <<disp, auxVars>>

-------------------------------------------------------------------------------
(* The dispatcher.                                                         *)

\* The row of the batch as it was read: nothing else changes attempts, dev and pushable.
current == Head(disp.batch)

MinOf(a, b) == IF a < b THEN a ELSE b

NextBatch ==
    /\ disp.pc = "idle"
    /\ due # <<>>
    /\ disp' = [IdleDisp EXCEPT !.pc = "event", !.batch = SubSeq(due, 1, MinOf(BatchSize, Len(due)))]
    /\ UNCHANGED <<relayVars, deviceVars, queueVars, auxVars>>

\* On to the next job of the batch.
Advanced == [IdleDisp EXCEPT !.pc = IF Len(disp.batch) > 1 THEN "event" ELSE "idle", !.batch = Tail(disp.batch)]

Settles(verdict) == [disp EXCEPT !.pc = "settle", !.verdict = verdict, !.ask = None]

\* GetBySeq and Resolve: an event that is gone, or is not worth a push, drops the job.
LoadEvent ==
    /\ disp.pc = "event"
    /\ disp' = IF job[current].state = "gone" \/ ~job[current].pushable
               THEN Settles("dropped") ELSE [disp EXCEPT !.pc = "device"]
    /\ UNCHANGED <<relayVars, deviceVars, queueVars, auxVars>>

\* The device is revoked, gone, or has no token.
LoadDeviceDrops ==
    /\ disp.pc = "device"
    /\ Registered(job[current].dev) = NoTokens
    /\ disp' = Settles("dropped")
    /\ UNCHANGED <<relayVars, deviceVars, queueVars, auxVars>>

\* Otherwise the relay is asked.
LoadDevicePushes(a) ==
    /\ disp.pc = "device"
    /\ Registered(job[current].dev) # NoTokens
    /\ ask[a] = NoAsk
    /\ ask' = [ask EXCEPT ![a] = [NoAsk EXCEPT !.pc = "posted", !.dev = job[current].dev,
                                               !.req = current, !.waited = TRUE]]
    /\ settled' = [settled EXCEPT ![job[current].dev] = @ /\ ~Busy(job[current].dev)]
    /\ disp' = [disp EXCEPT !.pc = "wait", !.ask = a]
    /\ UNCHANGED <<reg, device, patch, revoker, queueVars, auxVars>>

\* attempts counts the attempt that has just failed.
RetryVerdict == IF job[current].attempts + 1 >= MaxAttempts THEN "dropped" ELSE "failed"

VerdictRetriesSent(status) == IF status = "bad_payload" THEN "dropped" ELSE RetryVerdict

VerdictOf(status) ==
    CASE status = "sent" -> "delivered"
      [] status \in {"upstream_error", "unavailable"} -> RetryVerdict
      [] status = "bad_payload" -> "dropped"

Receive ==
    /\ disp.pc = "wait"
    /\ ask[disp.ask].pc = "answered"
    /\ IF ask[disp.ask].status = "invalid_token"
       THEN disp' = [disp EXCEPT !.pc = "clear"] /\ UNCHANGED ask
       ELSE /\ disp' = Settles(VerdictOf(ask[disp.ask].status))
            /\ ask' = [ask EXCEPT ![disp.ask] = NoAsk]
    /\ UNCHANGED <<reg, deviceVars, queueVars, auxVars>>

\* The answer of a request nobody waits for any more.
Unwaited(a) == IF ask[a].pc = "answered" THEN NoAsk ELSE [ask[a] EXCEPT !.waited = FALSE]

SilenceDelivers == Settles("delivered")
SilenceRetries  == Settles(RetryVerdict)

\* Timeout or network error: the relay may or may not have got the request.
NoAnswer ==
    /\ disp.pc = "wait"
    /\ ask' = [ask EXCEPT ![disp.ask] = Unwaited(disp.ask)]
    /\ disp' = SilenceRetries
    /\ unrecorded' = [unrecorded EXCEPT ![current] = @ + 1]
    /\ Interrupts(ask[disp.ask].dev)
    /\ UNCHANGED <<reg, device, patch, revoker, queueVars, faults, starts, accepted>>

\* invalid_token: both tokens of the row are cleared, then the job is dropped.
ClearTokens ==
    /\ disp.pc = "clear"
    /\ UpdatePushTokens(ask[disp.ask].dev, NoTokens)
    /\ ask' = [ask EXCEPT ![disp.ask] = NoAsk]
    /\ disp' = Settles("dropped")
    /\ UNCHANGED <<reg, patch, revoker, settled, queueVars, auxVars>>

SettledRowUncounted(row, verdict) ==
    IF row.state = "gone" \/ verdict = "failed" THEN row ELSE [row EXCEPT !.state = verdict]

SettledRow(row, verdict) ==
    IF row.state = "gone" THEN row
    ELSE IF verdict = "failed" THEN [row EXCEPT !.attempts = @ + 1]
    ELSE [row EXCEPT !.state = verdict]

\* MarkDelivered, MarkFailed or Drop, a statement by id.
Settle ==
    /\ disp.pc = "settle"
    /\ job' = [job EXCEPT ![current] = SettledRow(@, disp.verdict)]
    /\ due' = Without(due, current)
    /\ disp' = Advanced
    /\ UNCHANGED <<relayVars, deviceVars, auxVars>>

\* A failed read skips the job, which stays due; a failed write is only logged.
StatementFails ==
    /\ disp.pc \in {"event", "device", "clear", "settle"}
    /\ faults < MaxFaults
    /\ faults' = faults + 1
    /\ disp' = IF disp.pc = "clear" THEN Settles("dropped") ELSE Advanced
    /\ ask' = IF disp.pc = "clear" THEN [ask EXCEPT ![disp.ask] = NoAsk] ELSE ask
    /\ settled' = IF disp.pc = "clear" THEN [settled EXCEPT ![ask[disp.ask].dev] = FALSE] ELSE settled
    /\ unrecorded' = IF disp.pc = "settle" THEN [unrecorded EXCEPT ![current] = @ + 1] ELSE unrecorded
    /\ UNCHANGED <<reg, device, patch, revoker, queueVars, starts, accepted>>

\* The instance restarts: handlers and the batch are lost, requests may still arrive.
Crash ==
    /\ faults < MaxFaults
    /\ faults' = faults + 1
    /\ disp' = IdleDisp
    /\ ask' = [a \in Asks |-> IF ask[a].waited THEN Unwaited(a) ELSE ask[a]]
    /\ unrecorded' = IF disp.pc \in {"wait", "clear", "settle"} THEN [unrecorded EXCEPT ![current] = @ + 1] ELSE unrecorded
    /\ settled' = [d \in Devices |-> settled[d] /\ ~Busy(d)]
    /\ patch' = [p \in Patches |-> NoPatch]
    /\ revoker' = [r \in Revokers |-> NoRevoker]
    /\ UNCHANGED <<reg, device, queueVars, starts, accepted>>

-------------------------------------------------------------------------------
ProviderTakes(a) ==
    /\ ProviderAccepts(a)
    /\ accepted' = [accepted EXCEPT ![ask[a].req] = @ + 1]
    /\ UNCHANGED <<deviceVars, queueVars, disp, faults, starts, unrecorded>>

\* The outcome is lost here, unless the instance had given up on the request and lost it then.
ProviderTakesUnheard(a) ==
    /\ ProviderAnswerLost(a)
    /\ accepted' = [accepted EXCEPT ![ask[a].req] = @ + 1]
    /\ unrecorded' = IF ask[a].waited THEN [unrecorded EXCEPT ![ask[a].req] = @ + 1] ELSE unrecorded
    /\ UNCHANGED <<deviceVars, queueVars, disp, faults, starts>>

\* The instance will clear the row: row and registration part.
RefusalKept(a) ==
    /\ ForgetFails(a)
    /\ Interrupts(ask[a].dev)
    /\ UNCHANGED <<device, patch, revoker, queueVars, disp, auxVars>>

RelayStep(a) ==
    \/ ProviderTakes(a)
    \/ ProviderTakesUnheard(a)
    \/ RefusalKept(a)
    \/ /\ \/ RelayLoad(a)
          \/ ProviderRefuses(a)
          \/ ProviderFails(a)
          \/ ForgetRegistration(a)
          \/ RelayAbandons(a)
       /\ UNCHANGED <<deviceVars, queueVars, disp, auxVars>>

DeviceChange ==
    /\ \/ DeviceStart /\ starts < MaxStarts /\ starts' = starts + 1
       \/ DeviceStep /\ UNCHANGED starts
    /\ UNCHANGED <<queueVars, disp, faults, accepted, unrecorded>>

DispatcherStep ==
    \/ NextBatch
    \/ LoadEvent
    \/ LoadDeviceDrops
    \/ \E a \in Asks : LoadDevicePushes(a)
    \/ Receive
    \/ NoAnswer
    \/ ClearTokens
    \/ Settle

PushNext ==
    \/ \E j \in Jobs : (\E d \in Devices : Enqueue(j, d)) \/ BackoffElapsed(j) \/ RowDeleted(j)
    \/ \E d \in Devices : DeleteDevice(d)
    \/ DispatcherStep
    \/ StatementFails
    \/ Crash
    \/ \E a \in Asks : RelayStep(a)
    \/ DeviceChange

PushSpec == PushInit /\ [][PushNext]_pushVars

\* The dispatcher's goroutine runs, its ticker ticks, a backoff is a delay of finite length,
\* and every handler of the relay has a deadline.
PushFairness ==
    /\ WF_pushVars(DispatcherStep)
    /\ \A j \in Jobs : WF_pushVars(BackoffElapsed(j))
    /\ \A a \in Asks : WF_pushVars(RelayStep(a))

-------------------------------------------------------------------------------
(* Correctness.                                                            *)

\* A job reported as delivered was taken by a provider: no answer, however late or lost,
\* settles a job that nobody was told about (dispatcher.go:151).
DeliveredWasAccepted == \A j \in Jobs : job[j].state = "delivered" => accepted[j] > 0

\* A provider takes the push of one job in more than one attempt only when the outcome of an
\* attempt was lost: between the provider and the relay (apns.go:96), between the relay and the
\* instance, in a failed statement or in a crash.
RepeatExplained == \A j \in Jobs : accepted[j] <= 1 + unrecorded[j]

\* A job that was delivered or dropped is never sent, retried or settled again, although
\* its batch, its answer and its backoff may outlive the decision.
SettledOnce ==
    [][\A j \in Jobs : job[j].state \in {"delivered", "dropped"} =>
           /\ job'[j].state \in {job[j].state, "gone"}
           /\ job'[j].attempts = job[j].attempts
           /\ \A i \in 1..Len(due') : due'[i] # j]_pushVars

\* Every queued job ends: delivered, dropped, or removed with its event or device, whatever
\* the relay answers or does not answer (finitely many failures of our own database).
JobEnds == \A j \in Jobs : job[j].state = "pending" ~> job[j].state # "pending"
===============================================================================
